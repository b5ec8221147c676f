------------------------------- MODULE ArgParser -------------------------------
(***************************************************************************)
(* The command line: debate's parser (debate/argument_parser.cpp) with the *)
(* grammar that bpt gives it (cli/options.cpp), and what becomes of the    *)
(* result (bpt.main.cpp, cli/dispatch_main.cpp).                           *)
(*                                                                         *)
(* A word of the command line is plain, --name or --name=value, or a group *)
(* of short spellings, with a value or not (no spelling is the beginning of*)
(* another that can be meant at the same place).                           *)
(***************************************************************************)
EXTENDS Integers, Sequences, FiniteSets, SequencesExt

CONSTANTS Anything,  \* an argument takes any value
          NotGiven   \* a word has no value

Plain(text) == [form |-> "plain", text |-> text]
Long(name, value) == [form |-> "long", name |-> name, value |-> value]
Short(names, value) == [form |-> "short", names |-> names, value |-> value]
-----------------------------------------------------------------------------
(* The arguments: spellings, number of values, and what they accept. An    *)
(* argument without spellings is positional. (if_missing is bound to none.)*)
Option(name, long, short) ==
    [name |-> name, long |-> long, short |-> short, nargs |-> 1, required |-> FALSE,
     repeat |-> FALSE, accepts |-> Anything]

Switch(name, long, short) == [Option(name, long, short) EXCEPT !.nargs = 0]
Positional(name) == Option(name, {}, {})
Repeated(arg) == [arg EXCEPT !.repeat = TRUE]
Needed(arg) == [arg EXCEPT !.required = TRUE]
OneOf(arg, values) == [arg EXCEPT !.accepts = values]

IfExists == OneOf(Option("if-exists", {"if-exists"}, {}), {"replace", "ignore", "fail"})
ToolchainArg == Option("toolchain", {"toolchain"}, {"t"})
ProjectArg == Option("project", {"project"}, {"p"})
NoWarn == Switch("no-warn", {"no-warn", "no-warnings"}, {})
Out == Option("out", {"out", "output"}, {"o"})
LmIndex == Option("libman-index", {"libman-index"}, {})
Jobs == OneOf(Option("jobs", {"jobs"}, {"j"}), {"0", "4", "-1"})
RepoDir == Needed(Positional("repo-dir"))
TweaksDir == Option("tweaks-dir", {"tweaks-dir"}, {"TD"})
LogLevel == OneOf(Option("log-level", {"log-level"}, {"l"}),
                  {"trace", "debug", "info", "warn", "error", "critical", "silent"})

RepoArgs ==
    <<Repeated(Option("use-repo", {"use-repo"}, {"r"})),
      Switch("no-default-repo", {"no-default-repo"}, {"NDR"}),
      OneOf(Option("repo-sync", {"repo-sync"}, {}),
            {"always", "cached-okay", "cached_okay", "never"})>>

(* The parsers: arguments, and the names of subcommands.                   *)
Parser(args, subs) == [args |-> args, subs |-> subs]

RootParser ==
    Parser(<<LogLevel, Option("crs-cache-dir", {"crs-cache-dir"}, {})>>,
           {"build", "compile-file", "build-deps", "pkg", "repo", "install-yourself"})

BuildParser ==
    Parser(<<ToolchainArg, ProjectArg>> \o RepoArgs
           \o <<Switch("no-tests", {"no-tests"}, {}), Switch("no-apps", {"no-apps"}, {}),
                NoWarn, Out, LmIndex, Jobs, TweaksDir>>, {})

CompileFileParser ==
    Parser(<<ProjectArg, ToolchainArg, NoWarn, Jobs, LmIndex, Out, TweaksDir>> \o RepoArgs
           \o <<Repeated(Positional("source-files"))>>, {})

BuildDepsParser ==
    Parser(<<ToolchainArg, Jobs, Out, LmIndex>> \o RepoArgs
           \o <<Repeated(Option("deps-file", {"deps-file"}, {"d"})), Option("cmake", {"cmake"}, {}),
                TweaksDir, Repeated(Positional("dependency"))>>, {})

PkgParser == Parser(<< >>, {"ls", "create", "search", "prefetch", "solve"})

PkgArgs(name) ==
    CASE name = "ls" -> << >>
      [] name = "create" -> <<ProjectArg, Out, IfExists>>
      [] name = "search" -> RepoArgs \o <<Positional("pattern")>>
      [] name = "prefetch" -> RepoArgs \o <<Repeated(Positional("pkg-id"))>>
      [] name = "solve" -> RepoArgs \o <<Needed(Repeated(Positional("requirement")))>>

RepoParser == Parser(<< >>, {"init", "import", "remove", "ls", "validate"})

RepoCmdArgs(name) ==
    <<RepoDir>> \o
    CASE name = "init" -> <<IfExists, Needed(Option("name", {"name"}, {"n"}))>>
      [] name = "import" -> <<IfExists, Repeated(Positional("crs-path"))>>
      [] name = "remove" -> <<Repeated(Positional("pkg-id"))>>
      [] name \in {"ls", "validate"} -> << >>

InstallYourselfParser ==
    Parser(<<OneOf(Option("where", {"where"}, {}), {"user", "system"}),
             Switch("dry-run", {"dry-run"}, {}), Switch("no-modify-path", {"no-modify-path"}, {}),
             Switch("symlink", {"symlink"}, {})>>, {})

ParserOf(path) ==
    CASE path = << >> -> RootParser
      [] path = <<"build">> -> BuildParser
      [] path = <<"compile-file">> -> CompileFileParser
      [] path = <<"build-deps">> -> BuildDepsParser
      [] path = <<"pkg">> -> PkgParser
      [] path = <<"repo">> -> RepoParser
      [] path = <<"install-yourself">> -> InstallYourselfParser
      [] Len(path) = 2 -> Parser(IF path[1] = "pkg" THEN PkgArgs(path[2]) ELSE RepoCmdArgs(path[2]), {})

Paths == LET under(path) == {Append(path, sub) : sub \in ParserOf(path).subs}
         IN {<< >>} \cup under(<< >>) \cup under(<<"pkg">>) \cup under(<<"repo">>)

(* The enumerators that a subcommand's name is converted to.               *)
Enumerators(path) ==
    CASE path = << >> -> ParserOf(path).subs
      [] path = <<"pkg">> -> {"create", "search", "prefetch", "solve"}
      [] path = <<"repo">> -> {"init", "import", "remove", "validate", "ls"}
-----------------------------------------------------------------------------
(* parse_engine: at is the next word, path the bottom parser, positional   *)
(* the number of its positionals that are filled, opts what actions stored.*)
StartParse == [at |-> 1, path |-> << >>, positional |-> 0, seen |-> {}, opts |-> << >>, result |-> "more"]

(* The parsers from the bottom up.                                         *)
Chain(path) == [i \in 1..(Len(path) + 1) |-> SubSeq(path, 1, Len(path) + 1 - i)]

(* Where the argument of a long or short name is: << >> or one pair.       *)
FindArg(path, length, name) ==
    LET isMeant(a) == name \in a[length]
        at == SelectInSeq(Chain(path), LAMBDA q : \E a \in ToSet(ParserOf(q).args) : isMeant(a)) IN
    IF at = 0 THEN << >>
    ELSE LET parser == Chain(path)[at]
             args == ParserOf(parser).args
         IN <<<<parser, args[SelectInSeq(args, isMeant)]>>>>

Accepts(arg, value) ==
    arg.accepts = Anything \/ (value.form = "plain" /\ value.text \in arg.accepts)

(* see, then the action with a value.                                      *)
Store(st, found, value, shift) ==
    LET arg == found[2] IN
    IF found \in st.seen /\ ~arg.repeat THEN [st EXCEPT !.result = "repetition"]
    ELSE IF ~Accepts(arg, value) THEN [st EXCEPT !.result = "invalid"]
    ELSE [st EXCEPT !.seen = @ \cup {found}, !.opts = Append(@, <<arg.name, value>>), !.at = @ + shift]

StoreNext(st, found, argv) ==
    IF st.at + 1 > Len(argv) THEN [st EXCEPT !.result = "invalid"]
    ELSE Store(st, found, argv[st.at + 1], 2)

(* try_parse_long. None of bpt's arguments has more than one value.        *)
ParseLong(st, argv) ==
    LET word == argv[st.at]
        found == FindArg(st.path, "long", word.name) IN
    CASE word.name = "help" /\ word.value = NotGiven -> [st EXCEPT !.result = "help"]
      [] (word.name # "help" \/ word.value # NotGiven) /\ found = << >> ->
            [st EXCEPT !.result = "unrecognized"]
      [] found # << >> ->
            IF found[1][2].nargs = 0 THEN
                IF word.value # NotGiven THEN [st EXCEPT !.result = "invalid"]
                ELSE Store(st, found[1], Plain(""), 1)
            ELSE IF word.value # NotGiven THEN Store(st, found[1], Plain(word.value), 1)
            ELSE StoreNext(st, found[1], argv)

(* try_parse_short: what is left of a group is its value, or more of them. *)
(* A group that ends with a switch has been parsed, but is not passed.     *)
RECURSIVE ParseGroup(_, _, _, _)
ParseGroup(st, names, value, argv) ==
    LET found == FindArg(st.path, "short", names[1]) IN
    CASE st.result # "more" -> st
      [] st.result = "more" /\ names = << >> ->
            IF value = NotGiven THEN st ELSE [st EXCEPT !.result = "unrecognized"]
      [] st.result = "more" /\ names # << >> ->
            IF found = << >> THEN [st EXCEPT !.result = "unrecognized"]
            ELSE IF found[1][2].nargs = 0 THEN
                ParseGroup(Store(st, found[1], Plain(""), 0), Tail(names), value, argv)
            ELSE IF Len(names) > 1 THEN Store(st, found[1], Short(Tail(names), value), 1)
            ELSE IF value # NotGiven THEN Store(st, found[1], Plain(value), 1)
            ELSE StoreNext(st, found[1], argv)

ParseShort(st, argv) ==
    LET word == argv[st.at] IN
    IF word.names = <<"h">> /\ word.value = NotGiven THEN [st EXCEPT !.result = "help"]
    ELSE ParseGroup(st, word.names, word.value, argv)

(* try_parse_positional and try_parse_subparser.                           *)
Positionals(path) == SelectSeq(ParserOf(path).args, LAMBDA a : a.long = {} /\ a.short = {})

(* Mutant: positionals are counted on in a subcommand. *)
DescendCounting(st, name) == [st EXCEPT !.path = Append(@, name), !.positional = @ + 1, !.at = @ + 1]

Descend(st, name) == [st EXCEPT !.path = Append(@, name), !.positional = 0, !.at = @ + 1]

ParsePlain(st, argv) ==
    LET word == argv[st.at]
        fill == Positionals(st.path) IN
    IF st.positional < Len(fill) THEN
        LET arg == fill[st.positional + 1]
            stored == Store(st, <<st.path, arg>>, word, 1)
        IN IF arg.repeat THEN stored ELSE [stored EXCEPT !.positional = @ + 1]
    ELSE IF word.text \notin ParserOf(st.path).subs THEN [st EXCEPT !.result = "unrecognized"]
    ELSE IF word.text \notin Enumerators(st.path) THEN [st EXCEPT !.result = "invalid"]
    ELSE Descend(st, word.text)

Finalize(st) ==
    LET missing == \E p \in ToSet(Chain(st.path)) : \E a \in ToSet(ParserOf(p).args) :
                      a.required /\ <<p, a>> \notin st.seen
    IN [st EXCEPT !.result = IF missing \/ ParserOf(st.path).subs # {} THEN "missing" ELSE "ok"]

RECURSIVE Parse(_, _)
Parse(st, argv) ==
    CASE st.result # "more" -> st
      [] st.result = "more" /\ st.at > Len(argv) -> Finalize(st)
      [] st.result = "more" /\ st.at <= Len(argv) ->
            LET form == argv[st.at].form IN
            Parse(CASE form = "plain" -> ParsePlain(st, argv)
                    [] form = "long" -> ParseLong(st, argv)
                    [] form = "short" -> ParseShort(st, argv), argv)

ParseArgv(argv) == Parse(StartParse, argv)

(* main_fn: the exit code, unless a command runs.                          *)
Exit(st) == CASE st.result = "help" -> 0 [] st.result = "ok" -> -1 [] OTHER -> 2

(* The commands that dispatch_main and repo_cmd know.                      *)
Dispatched ==
    {<<c>> : c \in {"build", "compile-file", "build-deps", "install-yourself"}}
    \cup {<<"pkg", c>> : c \in {"create", "search", "prefetch", "solve"}}
    \cup {<<"repo", c>> : c \in {"init", "import", "ls", "validate", "remove"}}
-----------------------------------------------------------------------------
(* What is meant: a command with positional values and settings. A setting *)
(* is an argument of the command or of one above it, its value, how it is  *)
(* spelled, and before which word it stands.                               *)
Settable(path) ==
    UNION {{<<p, a>> : a \in ToSet(ParserOf(p).args) \ ToSet(Positionals(p))} : p \in ToSet(Chain(path))}

Spellings(arg) ==
    [name : arg.long, joined : IF arg.nargs = 0 THEN {FALSE} ELSE BOOLEAN, short : {FALSE}]
    \cup [name : arg.short, joined : IF arg.nargs = 0 THEN {FALSE} ELSE BOOLEAN, short : {TRUE}]

Spelled(setting) ==
    LET s == setting.spelling  value == IF s.joined THEN setting.value ELSE NotGiven
    IN <<IF s.short THEN Short(<<s.name>>, value) ELSE Long(s.name, value)>>
       \o IF setting.arg[2].nargs = 1 /\ ~s.joined THEN <<Plain(setting.value)>> ELSE << >>

(* A group that a switch ends: it is parsed again, and refused.            *)
EndsWithSwitch(word) ==
    /\ word.form = "short" /\ word.value = NotGiven
    /\ \E p \in Paths : \E a \in ToSet(ParserOf(p).args) :
          a.nargs = 0 /\ Last(word.names) \in a.short

(* A switch is put into the group of the short option after it.            *)
Grouped(words) ==
    FoldLeft(LAMBDA done, w :
                IF done # << >> /\ w.form = "short" /\ EndsWithSwitch(Last(done))
                THEN Append(Front(done), Short(Last(done).names \o w.names, w.value))
                ELSE Append(done, w), << >>, words)

Rendered(path, positionals, settings) ==
    LET base == [i \in DOMAIN path |-> Plain(path[i])]
                \o [i \in DOMAIN positionals |-> Plain(positionals[i])]
        before(i) == SelectSeq(settings, LAMBDA s : s.before = i)
        words(seq) == FlattenSeq([j \in DOMAIN seq |-> Spelled(seq[j])])
    IN Grouped(FlattenSeq([i \in 1..(Len(base) + 1) |->
                  words(before(i)) \o IF i <= Len(base) THEN <<base[i]>> ELSE << >>]))

MeantOpts(path, positionals, settings) ==
    LET fill == Positionals(path)
        before(i) == SelectSeq(settings, LAMBDA s : s.before = i)
        opts(seq) == [j \in DOMAIN seq |->
                         <<seq[j].arg[2].name,
                           Plain(IF seq[j].arg[2].nargs = 0 THEN "" ELSE seq[j].value)>>]
        position(i) == IF i <= Len(fill) THEN fill[i] ELSE Last(fill)
    IN FlattenSeq([i \in 1..(Len(path) + Len(positionals) + 1) |->
          opts(before(i))
          \o IF i \in (Len(path) + 1)..(Len(path) + Len(positionals))
             THEN <<<<position(i - Len(path)).name, Plain(positionals[i - Len(path)])>>>>
             ELSE << >>])

Legal(path, positionals, settings) ==
    LET fill == Positionals(path) IN
    /\ ParserOf(path).subs = {}
    /\ \A i \in DOMAIN settings : settings[i].before > Len(settings[i].arg[1])
    /\ \A i, j \in DOMAIN settings :
          i # j /\ settings[i].arg = settings[j].arg => settings[i].arg[2].repeat
    /\ \A i \in DOMAIN settings :
          settings[i].arg[2].nargs = 1 => Accepts(settings[i].arg[2], Plain(settings[i].value))
    /\ Len(positionals) <= Len(fill) \/ (fill # << >> /\ Last(fill).repeat)
    /\ \A i \in DOMAIN fill : fill[i].required => i <= Len(positionals)
    /\ \A s \in Settable(path) : s[2].required => \E i \in DOMAIN settings : settings[i].arg = s

ParsesWhatIsMeant(path, positionals, settings) ==
    LET st == ParseArgv(Rendered(path, positionals, settings)) IN
    IF Legal(path, positionals, settings)
    THEN st.result = "ok" /\ st.path = path /\ st.opts = MeantOpts(path, positionals, settings)
    ELSE Exit(st) = 2

(* What the grammar or the documentation offers and the parser refuses: a  *)
(* subcommand whose name is not in the enumeration that it is converted to *)
(* (`bpt pkg ls'), and `bpt repo init' without the name that is required.  *)
NotEnumerated(path) == path # << >> /\ Last(path) \notin Enumerators(Front(path))

NameLeftOut(path, settings) ==
    path = <<"repo", "init">> /\ \A i \in DOMAIN settings : settings[i].arg[2].name # "name"

OfferedInVain(path, settings) == NotEnumerated(path) \/ NameLeftOut(path, settings)

(* What is meant is what is parsed: options may stand anywhere after their *)
(* command, spelled as they like, and what is not legal is refused. A      *)
(* command that is accepted is one that is dispatched to. Three exceptions:*)
(* a group of short options that a switch ends (see ShortSwitchesAreParsed *)
(* in MCAlgorithms); `bpt pkg ls', registered as a subcommand              *)
(* (cli/options.cpp:273-276, docs/guide/pkg-cache.rst:16) and refused,     *)
(* whatever comes with it; and `bpt repo init' without --name, for which   *)
(* "a random one will be generated" (cli/options.hpp:209), refused too.    *)
CommandLinesAreUnderstood(path, positionals, settings) ==
    LET argv == Rendered(path, positionals, settings) IN
    /\ (\A i \in DOMAIN argv : ~EndsWithSwitch(argv[i])) /\ ~OfferedInVain(path, settings) =>
           ParsesWhatIsMeant(path, positionals, settings)
    /\ OfferedInVain(path, settings) => Exit(ParseArgv(argv)) = 2
    /\ ParseArgv(argv).result = "ok" => ParseArgv(argv).path \in Dispatched
=============================================================================
