--------------------------------- MODULE Words ---------------------------------
(***************************************************************************)
(* Small texts: command lines and how they are split (util/shlex.cpp) and  *)
(* quoted (util/proc.common.cpp), listings of dependencies                 *)
(* (build/file_deps.cpp), names (util/name.cpp), package ids               *)
(* (crs/info/pkg_id.cpp) and the key: value lines of libman                *)
(* (libman/parse.cpp). A text is a sequence of characters.                 *)
(***************************************************************************)
EXTENDS Integers, Sequences, FiniteSets, SequencesExt

CONSTANT Invalid  \* the text is refused

Blank == " "
Quote == "\""
Quotes == {"'", Quote}
Space == {"\t", Blank, "\n", "\r", "\f"}
Punctuation == {".", "_", "-"}

From(s, i) == SubSeq(s, i, Len(s))

(* The text between separators, as split_view gives it.                    *)
Extended(parts, c, sep) ==
    IF c = sep THEN Append(parts, << >>) ELSE [parts EXCEPT ![Len(parts)] = Append(@, c)]

SplitAt(s, sep) ==
    LET parts[i \in 0..Len(s)] ==
            IF i = 0 THEN <<<< >>>> ELSE Extended(parts[i - 1], s[i], sep)
    IN parts[Len(s)]

Trim(s) ==
    LET inner == {i \in DOMAIN s : s[i] \notin Space} IN
    IF inner = {} THEN << >>
    ELSE SubSeq(s, CHOOSE i \in inner : \A j \in inner : i <= j,
                   CHOOSE i \in inner : \A j \in inner : j <= i)

(* What is before and after the first sep; without one, all is before.     *)
First(s, sep) ==
    IF sep \notin ToSet(s) THEN [found |-> FALSE, before |-> s, after |-> << >>]
    ELSE LET i == SelectInSeq(s, LAMBDA c : c = sep)
         IN [found |-> TRUE, before |-> SubSeq(s, 1, i - 1), after |-> From(s, i + 1)]
-----------------------------------------------------------------------------
(* split_shell_string, one character after the other. A token is << >>     *)
(* while there is none, otherwise the sequence of the one text.            *)
StartSplit == [words |-> << >>, token |-> << >>, quote |-> "none", escaped |-> FALSE]

With(token, c) == IF token = << >> THEN <<<<c>>>> ELSE <<Append(token[1], c)>>

(* Mutant: a quote does not begin a token. *)
QuoteOnly(st, c) == [st EXCEPT !.quote = c]

(* The quote also discards a token that is there. *)
BeginQuote(st, c) == [st EXCEPT !.quote = c, !.token = <<<< >>>>]

ReadChar(st, c) ==
    CASE st.escaped ->
            [st EXCEPT !.escaped = FALSE, !.token = IF c = "\n" THEN @ ELSE With(@, c)]
      [] ~st.escaped /\ c = "\\" -> [st EXCEPT !.escaped = TRUE]
      [] ~st.escaped /\ c # "\\" /\ st.quote # "none" ->
            IF c = st.quote THEN [st EXCEPT !.quote = "none"]
            ELSE [st EXCEPT !.token = With(@, c)]
      [] ~st.escaped /\ st.quote = "none" /\ c \in Quotes -> BeginQuote(st, c)
      [] ~st.escaped /\ st.quote = "none" /\ c \in Space ->
            [st EXCEPT !.words = @ \o st.token, !.token = << >>]
      [] OTHER -> [st EXCEPT !.token = With(@, c)]

(* The state after each character.                                         *)
States(s) ==
    LET state[i \in 0..Len(s)] == IF i = 0 THEN StartSplit ELSE ReadChar(state[i - 1], s[i])
    IN state

SplitShellString(s) == LET st == States(s)[Len(s)] IN st.words \o st.token

(* parse_mkfile_deps_str: `output: input...'. A listing that is not one    *)
(* has neither output nor inputs. (The text without the escaped newlines   *)
(* is computed and not used.)                                              *)
ParseMkfileDeps(s) ==
    LET split == SplitShellString(s) IN
    IF split = << >> \/ ~IsSuffix(<<":">>, Head(split \o <<<< >>>>))
    THEN [output |-> << >>, inputs |-> << >>]
    ELSE [output |-> Front(split[1]), inputs |-> Tail(split)]

Okay == {"a", "k", "A", "1"}  \* letters and digits
        \cup {"@", "%", "-", "+", "=", ":", ",", ".", "/", "|", "_"}

(* Mutant: a space does not need quotes. *)
NeedsQuotingButSpace(arg) == \E i \in DOMAIN arg : arg[i] \notin Okay \cup {Blank}

NeedsQuoting(arg) == \E i \in DOMAIN arg : arg[i] \notin Okay

(* quote_argument replaces the backslashes, then the quotes in the         *)
(* original text: only the latter has an effect.                           *)
QuoteArgument(arg) ==
    IF ~NeedsQuoting(arg) THEN arg
    ELSE <<Quote>>
         \o FlattenSeq([i \in DOMAIN arg |-> IF arg[i] = Quote THEN <<"\\", Quote>> ELSE <<arg[i]>>])
         \o <<Quote>>

QuoteCommand(command) ==
    FlattenSeq([i \in DOMAIN command |->
                   IF i = 1 THEN QuoteArgument(command[i])
                   ELSE <<Blank>> \o QuoteArgument(command[i])])
-----------------------------------------------------------------------------
(* Names, over the characters a (a lowercase letter), 1, A, the            *)
(* punctuation, the spaces and & (any other).                              *)
ValidName(s) ==
    /\ s # << >> /\ s[1] = "a"
    /\ \A i \in DOMAIN s :
          \/ s[i] \in {"a", "1"}
          \/ s[i] \in Punctuation /\ i < Len(s) /\ s[i + 1] \notin Punctuation

(* calc_invalid_name_reason: the first test that succeeds. If none does,   *)
(* an assertion fails.                                                     *)
(* Mutant: punctuation at the end is not looked for. *)
ReasonsButEndPunct(s) ==
    {r \in {"empty", "capital", "double_punct", "initial_not_alpha", "whitespace", "invalid_char"} :
        CASE r = "empty" -> s = << >>
          [] r = "capital" -> "A" \in ToSet(s)
          [] r = "double_punct" -> \E i \in 1..(Len(s) - 1) : {s[i], s[i + 1]} \subseteq Punctuation
          [] r = "initial_not_alpha" -> s # << >> /\ s[1] # "a"
          [] r = "whitespace" -> ToSet(s) \cap Space # {}
          [] r = "invalid_char" -> ~(ToSet(s) \subseteq {"a", "1"} \cup Punctuation)}

Reasons(s) ==
    ReasonsButEndPunct(s) \cup IF s # << >> /\ Last(s) \in Punctuation THEN {"end_punct"} ELSE {}

InvalidNameReason(s) ==
    LET order == <<"empty", "capital", "double_punct", "initial_not_alpha", "end_punct",
                   "whitespace", "invalid_char">>
    IN order[SelectInSeq(order, LAMBDA r : r \in Reasons(s))]

(* Package ids: name@version~revision. A version is any text here that has *)
(* neither @ nor ~; what follows the digits of a revision is ignored.      *)
Digits(s) ==
    SubSeq(s, 1, Cardinality({i \in DOMAIN s : \A j \in 1..i : s[j] = "1"}))

ParseId(s) ==
    LET at == First(s, "@")
        tilde == First(at.after, "~")
        revision == IF tilde.found THEN Digits(tilde.after) ELSE << >> IN
    IF ~at.found \/ ~ValidName(at.before) \/ tilde.before = << >>
       \/ (tilde.found /\ revision = << >>)
    THEN Invalid
    ELSE [name |-> at.before, version |-> tilde.before, revision |-> Len(revision)]

(* The revision n is written as n ones, but 0 as no id can be: `~0'.       *)
IdText(id) ==
    id.name \o <<"@">> \o id.version \o <<"~">> \o [i \in 1..id.revision |-> "1"]
-----------------------------------------------------------------------------
(* libman: parse_line. A `:' ends the key if a space or the end follows;   *)
(* otherwise the character after it is passed over as well.                *)
PassedOver(line) ==
    LET passed[i \in 0..Len(line)] ==
            IF i <= 1 THEN FALSE ELSE ~passed[i - 1] /\ line[i - 1] = ":" /\ line[i] # Blank
    IN passed

KeyEnds(line) ==
    LET passed == PassedOver(line) IN
    {i \in DOMAIN line : ~passed[i] /\ line[i] = ":" /\ (i < Len(line) => line[i + 1] = Blank)}

KeyEnd(line) ==
    IF KeyEnds(line) = {} THEN 0 ELSE CHOOSE i \in KeyEnds(line) : \A j \in KeyEnds(line) : i <= j

ParseLine(whole) ==
    LET line == Trim(whole)  end == KeyEnd(line) IN
    CASE line = << >> \/ Head(line \o <<"#">>) = "#" -> << >>
      [] line # << >> /\ end = 0 -> Invalid
      [] OTHER -> <<[key |-> Trim(SubSeq(line, 1, end - 1)), value |-> Trim(From(line, end + 1))]>>

ParseString(s) ==
    LET parsed == [i \in DOMAIN SplitAt(s, "\n") |-> ParseLine(SplitAt(s, "\n")[i])] IN
    IF Invalid \in ToSet(parsed) THEN Invalid ELSE FlattenSeq(parsed)

WritePairs(pairs) ==
    FlattenSeq([i \in DOMAIN pairs |-> pairs[i].key \o <<":", Blank>> \o pairs[i].value \o <<"\n">>])
-----------------------------------------------------------------------------
(* What a POSIX shell would make of the text, without expansions.          *)
ShellChar(st, c) ==
    CASE st.escaped /\ st.quote = Quote ->
            [st EXCEPT !.escaped = FALSE,
                       !.token = CASE c = "\n" -> @
                                   [] c \in {Quote, "\\"} -> With(@, c)
                                   [] OTHER -> With(With(@, "\\"), c)]
      [] st.escaped /\ st.quote # Quote ->
            [st EXCEPT !.escaped = FALSE, !.token = IF c = "\n" THEN @ ELSE With(@, c)]
      [] ~st.escaped /\ c = "\\" /\ st.quote # "'" -> [st EXCEPT !.escaped = TRUE]
      [] ~st.escaped /\ st.quote # "none" /\ c = st.quote -> [st EXCEPT !.quote = "none"]
      [] ~st.escaped /\ st.quote = "none" /\ c \in Quotes ->
            [st EXCEPT !.quote = c, !.token = IF @ = << >> THEN <<<< >>>> ELSE @]
      [] ~st.escaped /\ st.quote = "none" /\ c \in Space ->
            [st EXCEPT !.words = @ \o st.token, !.token = << >>]
      [] OTHER -> [st EXCEPT !.token = With(@, c)]

ShellStates(s) ==
    LET state[i \in 0..Len(s)] == IF i = 0 THEN StartSplit ELSE ShellChar(state[i - 1], s[i])
    IN state

ShellEnd(s) == ShellStates(s)[Len(s)]

ShellWords(s) == ShellEnd(s).words \o ShellEnd(s).token

(* Flags are split as a POSIX shell splits them (docs/guide/toolchains.rst)*)
(* if the quotes are closed.                                               *)
SplitsLikeAShell(s) ==
    ShellEnd(s).quote = "none" /\ ~ShellEnd(s).escaped => SplitShellString(s) = ShellWords(s)

(* They are if quotes are only where a word begins and no backslash is     *)
(* within quotes, and what is quoted so stays one word.                    *)
SplitsPlainWords(s) ==
    (\A i \in DOMAIN s :
        LET before == ShellStates(s)[i - 1] IN
        /\ s[i] \in Quotes /\ before.quote = "none" /\ ~before.escaped =>
               before.token = << >>
        /\ s[i] = "\\" => before.quote = "none") => SplitsLikeAShell(s)

(* A command that changed has another text, so the objects it made are     *)
(* compiled again: for arguments that are not empty.                       *)
CommandsAreTold(Commands) ==
    Cardinality({QuoteCommand(c) : c \in Commands}) = Cardinality(Commands)

(* A name that is refused has a reason, of an accepted one nothing could   *)
(* be said: the assertion never fails.                                     *)
NamesHaveReasons(s) ==
    /\ ~ValidName(s) => Reasons(s) # {} /\ InvalidNameReason(s) \in Reasons(s)
    /\ ValidName(s) => Reasons(s) = {}

(* An accepted id is written and read as itself, and so are pairs whose    *)
(* keys have no `:' and do not begin a comment, and which need no trimming.*)
IdsAreReadBack(s) ==
    ParseId(s) # Invalid /\ ParseId(s).revision > 0 => ParseId(IdText(ParseId(s))) = ParseId(s)

PairsAreReadBack(pairs) ==
    (\A i \in DOMAIN pairs :
        /\ Trim(pairs[i].key) = pairs[i].key /\ Trim(pairs[i].value) = pairs[i].value
        /\ ToSet(pairs[i].key) \cap {":", "\n"} = {} /\ "\n" \notin ToSet(pairs[i].value)
        /\ pairs[i].key # << >> => pairs[i].key[1] # "#") =>
            ParseString(WritePairs(pairs)) = pairs
=============================================================================
