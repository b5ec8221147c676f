----------------------------- MODULE MCAlgorithms -----------------------------
(* Algorithms that keep no state, each on all inputs of a small size: an    *)
(* initial state is an input, and one step answers it.                      *)
EXTENDS Algorithms

CONSTANTS Rglob,   \* Patterns
          Anything \* ArgParser

Pat == INSTANCE Patterns
Tc == INSTANCE Toolchain
Arg == INSTANCE ArgParser
Lic == INSTANCE License
-----------------------------------------------------------------------------
(* Solver: two versions, two libraries; packages of two or three entries. *)
Entries == {[version |-> v, revision |-> r, libs |-> libs] :
               v \in {1, 2}, r \in {1, 2},
               libs \in {[l \in ls |-> [using |-> us, deps |-> {<<l, us>>}]] :
                            ls \in {{"x"}, {"x", "y"}}, us \in {{}, {"x"}}}}

Chained == {[version |-> 1, revision |-> 1,
             libs |-> [l \in {"x", "y", "z"} |-> [using |-> u[l], deps |-> {l}]]] :
               u \in [{"x", "y", "z"} -> SUBSET {"x", "y", "z"}]}

SolverQuery ==
    \/ query \in [kind : {"algebra"}, a : Requirements, b : Requirements]
    \/ \E a, b \in Entries, r \in Requirements :
          query = [kind |-> "candidates", list |-> <<a, b>>, req |-> r]
    \/ \E e \in Chained, u \in SUBSET {"x", "y", "z"} :
          query = [kind |-> "candidates", list |-> <<e>>, req |-> Alg!Requirement({1}, u)]
-----------------------------------------------------------------------------
(* LibraryPlan: up to three files of these. *)
File(root, dir, sub, ext) ==
    [root |-> root, dir |-> dir, name |-> "a", sub |-> sub, ext |-> ext]

SourceFiles == {File("src", dir, sub, ext) : dir \in {<< >>, <<"x">>, <<"test">>},
                                       sub \in {"", ".test", ".main"}, ext \in {".cpp", ".c"}}
         \cup {File(root, << >>, "", ext) : root \in {"src", "include"},
                                           ext \in {".hpp", ".inl", ".cpp", ".txt"}}

Library(files) == [name |-> "lib", path |-> << >>, files |-> files, using |-> {"other"},
                   test_using |-> {"testing"}, deps |-> {<<"dep", "dep">>}, test_deps |-> {}]

Params == [build_apps : BOOLEAN, build_tests : BOOLEAN, subdir : {<<"out">>}]

PlanQuery ==
    \/ \E f, g, h \in SourceFiles, params \in Params :
          query = [kind |-> "plan", lib |-> Library({f, g, h}), params |-> params]
    \/ \E f, g \in SourceFiles, params \in Params, unknown \in SUBSET {<<"src", "unknown">>},
         others \in BOOLEAN :
          query = [kind |-> "asked",
                   plan |-> {[pkg |-> "pkg", lib |-> Library({f, g}), params |-> params]},
                   asked |-> unknown \cup {<<h.root>> \o Lib!RelativePath(h) :
                                h \in IF others THEN {f, g} ELSE {f}}]
-----------------------------------------------------------------------------
(* Patterns: of up to four characters, with names of up to three; globs of *)
(* up to three components in trees of up to three files.                   *)
UpTo(n, S) == UNION {[1..k -> S] : k \in 0..n}

Paths == UpTo(3, {"a", "b"}) \ {<< >>}

Trees == {{f, g, h} : f, g, h \in Paths}

IsTree(tree) == \A f, g \in tree : f # g => ~Pat!IsPrefix(f, g)

Globs == {g \in UpTo(3, {{"a"}, {"a", "b"}, Rglob}) \ {<< >>} :
             \A i \in 1..(Len(g) - 1) : g[i] # Rglob \/ g[i + 1] # Rglob}

PatternQuery ==
    \/ \E p \in UpTo(4, {"a", "!", "*", "?", "[", "]", "\\"}) :
          query = [kind |-> "pattern", pattern |-> p]
    \/ \E tree \in {t \in Trees : IsTree(t)}, g \in Globs :
          query = [kind |-> "glob", tree |-> tree, glob |-> g]
-----------------------------------------------------------------------------
(* Words: texts of up to five or six characters; all commands of up to two *)
(* arguments of up to three characters at once.                            *)
Arguments(n) == UpTo(n, {"a", " ", "\"", "\\"}) \ {<< >>}

Commands == {<<a>> : a \in Arguments(3)} \cup {<<a, b>> : a, b \in Arguments(3)}
            \cup {<<a, b, c>> : a, b, c \in Arguments(1)}

TextCharacters == {"a", "k", "A", "1", " ", "\n", "'", "\"", "\\", ".", "-", "&", "@", "~", ":", "#"}

ShellTextQuery ==
    query \in [kind : {"shell"}, text : UpTo(5, {"a", " ", "'", "\"", "\\"})]

WordsQuery ==
    \/ ShellTextQuery
    \/ query = [kind |-> "commands", commands |-> Commands]
    \/ query \in [kind : {"name"}, text : UpTo(4, {"a", "1", "A", ".", "-", " ", "&"})]
    \/ query \in [kind : {"id"}, text : UpTo(6, {"a", "@", "~", "1"})]
    \/ \E k, v \in UpTo(3, {"k", " ", ":", "#"}) :
          query = [kind |-> "pairs", pairs |-> <<[key |-> k, value |-> v]>>]
    \/ \E k, l, v, w \in UpTo(1, {"k", " ", ":", "#"}) :
          query = [kind |-> "pairs", pairs |-> <<[key |-> k, value |-> v], [key |-> l, value |-> w]>>]
-----------------------------------------------------------------------------
(* Toolchain: the files of a compiler id with all values of the options and *)
(* up to two lists; files without an id that have all, but up to two, of    *)
(* what it would tell; commands for files at various places.               *)
Given(key) ==
    CASE key \in {"c_version", "cxx_version"} -> "11"
      [] key \in {"c_compiler", "cxx_compiler", "archive_suffix", "obj_suffix"} -> <<key>>
      [] key \in {"c_compile_file", "cxx_compile_file"} ->
            <<<<key>>, <<"[flags]">>, <<"[in]">>, <<"[out]">>>>
      [] key \in {"create_archive", "link_executable"} -> <<<<key>>, <<"[in]">>, <<"[out]">>>>
      [] key \in {"include_template", "external_include_template"} -> <<<<key>>, <<"[path]">>>>
      [] key = "define_template" -> <<<<"def", "[def]">>, <<"[def]">>>>
      [] key = "lang_version_flag_template" -> <<"version", "[version]">>
      [] OTHER -> <<<<key>>>>

Joined(f, g) == [k \in DOMAIN f \cup DOMAIN g |-> IF k \in DOMAIN f THEN f[k] ELSE g[k]]

Options ==
    {[k \in {k \in DOMAIN o : o[k] # NotGiven} |-> o[k]] :
        o \in [debug : {NotGiven, "true", "false", "none", "embedded", "split"},
               optimize : BOOLEAN \cup {NotGiven}, runtime_static : BOOLEAN \cup {NotGiven},
               runtime_debug : BOOLEAN \cup {NotGiven}]}

Lists == {"flags", "c_flags", "cxx_flags", "c_version", "cxx_version", "base_flags",
          "base_cxx_flags", "link_flags", "compiler_launcher"}

Configs(id, options) ==
    {Joined([k \in ks \cup {"compiler_id"} |-> IF k = "compiler_id" THEN id ELSE Given(k)], o) :
        ks \in {{k, l} : k, l \in Lists} \cup {{}}, o \in options}

AllTold == {"c_compile_file", "cxx_compile_file", "c_compiler", "include_template",
            "external_include_template", "define_template", "archive_suffix", "obj_suffix",
            "create_archive", "link_executable", "c_source_type_flags", "cxx_source_type_flags",
            "syntax_only_flags", "cxx_version", "lang_version_flag_template"}

Builtins == (UpTo(3, {"debug", "ccache", "c++11", "c++17"})
                \X {<<c, s>> : c \in {"gcc", "clang", "msvc"}, s \in {"", "-9", "-14"}})

Places == {<<"b">>, <<"b", "x">>, <<"c", "y", "z">>}

ToolchainQuery ==
    \/ query \in [kind : {"toolchains"}, id : {"gnu", "clang", "msvc"}, lang : {"c", "cxx"}]
    \/ query = [kind |-> "builtins"]
    \/ query \in [kind : {"default toolchain"}, existing : SUBSET {Tc!DefaultCandidates[i] : i \in DOMAIN Tc!DefaultCandidates}]
    \/ \E ext \in {".c", ".cpp"}, syntax_only, tty \in BOOLEAN, dir \in Places, cwd \in Places,
         given \in {[k \in AllTold \ {g, h} |-> Given(k)] : g, h \in AllTold}
                   \cup {c \in Configs("gnu", {<< >>}) \cup Configs("msvc", {<< >>}) :
                            Cardinality(DOMAIN c) <= 2} :
          query = [kind |-> "commands of", given |-> given, cwd |-> cwd,
                   spec |-> [source |-> dir \o <<"s">>, out |-> cwd \o <<"o">>, ext |-> ext,
                             lang |-> "automatic", include_dirs |-> <<dir>>,
                             external_include_dirs |-> <<dir>>, definitions |-> <<"X=1">>,
                             enable_warnings |-> tty, syntax_only |-> syntax_only],
                   knobs |-> [is_tty |-> tty, tweaks_dir |-> IF tty THEN dir ELSE NotGiven,
                              cache_buster |-> IF tty THEN "t" ELSE NotGiven]]

(* See Toolchain. *)
CommandsSayTheToolchain ==
    /\ Asked("toolchains") =>
          Tc!CommandsChangeWithToolchain(Configs(query.id, Options), query.lang)
    /\ Asked("builtins") => Tc!BuiltinsDiffer(Builtins)
    /\ Asked("default toolchain") => Tc!DefaultIsNearest(query.existing)
    /\ Asked("commands of") =>
          Tc!CommandsAreComplete(query.given, query.spec, query.cwd, query.knobs)
-----------------------------------------------------------------------------
(* ArgParser: commands with one setting, spelled in each way and put         *)
(* anywhere, or with two; values that all of them, some, or none accept.     *)
ValuesOf(arg) == IF arg.nargs = 0 THEN {""}
                 ELSE IF arg.accepts = Anything THEN {"x"}
                 ELSE {CHOOSE v \in arg.accepts : TRUE, "x"}

Settings(path, words) ==
    UNION {[arg : {a}, spelling : Arg!Spellings(a[2]), value : ValuesOf(a[2]), before : 1..(words + 1)] :
              a \in Arg!Settable(path)}

CommandQuery ==
    \E path \in Arg!Paths, positionals \in {<< >>, <<"x">>, <<"x", "x">>} :
        LET one == Settings(path, Len(path) + Len(positionals))
        IN \/ \E s \in {<< >>} \cup {<<o>> : o \in one} :
                 query = [kind |-> "command line", path |-> path, positionals |-> positionals,
                          settings |-> s]
           \/ path \in {<<"build-deps">>, <<"repo", "init">>} /\ Len(positionals) = 1
              /\ \E s, t \in {o \in one : o.before > Len(path) /\ (o.arg[2].short # {} => o.spelling.short)} :
                    query = [kind |-> "command line", path |-> path, positionals |-> positionals,
                             settings |-> <<s, t>>]

(* See ArgParser; it names three exceptions. *)
CommandLinesAreUnderstood ==
    Asked("command line") =>
        Arg!CommandLinesAreUnderstood(query.path, query.positionals, query.settings)
-----------------------------------------------------------------------------
(* Manifest: shorthand strings of up to five words and objects, all at once; *)
(* directories with a manifest of up to two libraries. License: texts of up  *)
(* to six pieces.                                                            *)
Word(name) == [name |-> name, op |-> "", version |-> 0]
RangeWords == {[name |-> n, op |-> op, version |-> v] :
                  n \in {"a", "Bad"}, op \in {"", "=", "~", "@", "^", "+"}, v \in {0, 1, 5, 17}}
Ranges == {[low |-> l, high |-> h] : l \in {0, 1, 16}, h \in {1, 5, 16, Man!MaxVersion}}

Short(words) == [words |-> words, dep |-> NotGiven, versions |-> NotGiven, using |-> << >>]
Object(dep, versions, using) == [words |-> NotGiven, dep |-> dep, versions |-> versions, using |-> using]

DependencyDocs ==
    {Short(<<r>> \o [i \in DOMAIN ws |-> Word(ws[i])]) :
        r \in RangeWords,
        ws \in {w \in UpTo(4, {"using", ",", "a"}) : w = << >> \/ w[Len(w)] # ","}}
    \cup {Object(d, v, u) : d \in RangeWords \cup {Word("a")}, u \in UpTo(1, {"b", "Bad"}),
                            v \in {NotGiven} \cup UpTo(2, Ranges)}

OneRange == [name |-> "a", op |-> "^", version |-> 1]
SomeDependencies ==
    {<< >>, <<Short(<<OneRange>>)>>, <<Short(<<OneRange, Word("using"), Word("b")>>)>>,
     <<Object(Word("c"), << >>, <<"a">>)>>,
     <<Object(Word("c"), <<[low |-> 1, high |-> 5], [low |-> 9, high |-> 16]>>, <<"a">>)>>}

LibraryDocs(names, paths) ==
    [name : names, path : paths, using : {{}, {"b"}}, test_using : {{}, {"a"}},
     dependencies : SomeDependencies, test_dependencies : SomeDependencies]

SdistFiles == [dir : {<<"src">>, <<"sub", "include", "x">>}, source : BOOLEAN]
              \cup {[dir |-> <<"docs">>, source |-> FALSE]}
LibraryPaths == {NotGiven, << >>, <<"sub">>, <<"docs", "..", "sub">>, <<"docs">>,
                 <<"sub", "..", "..">>, <<"missing">>}

ManifestQuery ==
    \/ query = [kind |-> "dependencies"]
    \/ \E lib \in {<< >>} \cup {<<l>> : l \in LibraryDocs({"a"}, {NotGiven})},
          libs \in {<< >>} \cup {<<l>> : l \in LibraryDocs({"b"}, LibraryPaths)},
          deps, test_deps \in SomeDependencies :
          /\ lib = << >> \/ libs = << >> \/ deps \o test_deps = << >>
          /\ query = [kind |-> "manifest",
                    dir |-> [pkg_json |-> << >>, files |-> SdistFiles,
                             pkg_yaml |-> <<[name |-> "a", version |-> 1, meta |-> "meta", lib |-> lib, libs |-> libs,
                                           dependencies |-> deps, test_dependencies |-> test_deps]>>]]
    \/ query \in [kind : {"license"}, text : UpTo(6, {" ", "(", ")", "+", "AND", "MIT"})
                                            \cup UpTo(5, {" ", "MIT", "WITH", "class", "path"})]

(* See Patterns, Manifest and License: matching a text and finding files,  *)
(* the texts of dependencies, and license expressions.                     *)
TextsMeanWhatTheySay ==
    /\ Asked("pattern") => \A s \in UpTo(3, {"a", "b", "!"}) : Pat!PatternsMean(query.pattern, s)
    /\ Asked("glob") => Pat!ScanFindsMatches(query.tree, query.glob)
    /\ Asked("dependencies") => Man!DependenciesAreTold(DependencyDocs)
    /\ Asked("license") => Lic!LicensesAreReadBack(query.text)
-----------------------------------------------------------------------------
AlgInit ==
        /\ answered = FALSE
        /\ \/ SolverQuery
           \/ PlanQuery
           \/ PatternQuery
           \/ WordsQuery
           \/ ToolchainQuery
           \/ CommandQuery
           \/ ManifestQuery

(* Only command lines, for the violation run. *)
CommandSpec == answered = FALSE /\ CommandQuery /\ [][Answer]_algorithmVars

(* Each command line of a command that bpt has is parsed as what is meant:  *)
(* also a group of short options whose last is a switch is passed when it   *)
(* has been parsed. ("We parsed the full group", debate/                    *)
(* argument_parser.cpp:215.)                                                *)
ShortSwitchesAreParsed ==
    Asked("command line") /\ ~Arg!NotEnumerated(query.path) =>
        Arg!ParsesWhatIsMeant(query.path, query.positionals, query.settings)
=============================================================================
