------------------------------- MODULE Toolchain -------------------------------
(***************************************************************************)
(* Toolchain files and the commands that are made of them                  *)
(* (toolchain/from_json.cpp, toolchain.cpp, prep.cpp).                     *)
(*                                                                         *)
(* A toolchain file gives values to some keys. Values that are lists of    *)
(* flags are commands already (Words says how a string is split), and a    *)
(* command is a sequence of words. A word is a sequence of parts, so that  *)
(* a placeholder can be a part of one: <<"-o", "[out]">>.                  *)
(***************************************************************************)
EXTENDS Integers, Sequences, FiniteSets, SequencesExt

CONSTANTS NotGiven,  \* a key has no value
          Refused    \* the file is not accepted

Word(s) == <<s>>
WordsOf(list) == [i \in DOMAIN list |-> Word(list[i])]

Strings == {"compiler_id", "c_compiler", "cxx_compiler", "c_version", "cxx_version", "debug",
            "deps_mode", "obj_prefix", "obj_suffix", "archive_prefix", "archive_suffix",
            "exe_prefix", "exe_suffix", "lang_version_flag_template"}
Booleans == {"optimize", "runtime_static", "runtime_debug"}
Flags == {"c_flags", "cxx_flags", "flags", "warning_flags", "link_flags", "compiler_launcher",
          "include_template", "external_include_template", "define_template",
          "base_warning_flags", "base_flags", "base_c_flags", "base_cxx_flags",
          "c_compile_file", "cxx_compile_file", "create_archive", "link_executable", "tty_flags",
          "c_source_type_flags", "cxx_source_type_flags", "syntax_only_flags", "consider_env"}
Keys == Strings \cup Booleans \cup Flags

Has(c, key) == c[key] # NotGiven

(* A list that need not be there. *)
Listed(c, key) == IF Has(c, key) THEN c[key] ELSE << >>

Or(c, key, default) == IF Has(c, key) THEN c[key] ELSE default

GnuLike(c) == c["compiler_id"] \in {"gnu", "clang"}
Msvc(c) == c["compiler_id"] = "msvc"

ByCompiler(c, gnu, msvc, other) == IF GnuLike(c) THEN gnu ELSE IF Msvc(c) THEN msvc ELSE other

(* What is given, or what the compiler id tells; NotGiven without either.  *)
Deduced(c, key, gnu, msvc) == Or(c, key, ByCompiler(c, gnu, msvc, NotGiven))
-----------------------------------------------------------------------------
(* Replaces a placeholder in a word, and in a list of words.               *)
Fill(word, placeholder, text) ==
    FlattenSeq([i \in DOMAIN word |-> IF word[i] = placeholder THEN text ELSE <<word[i]>>])

FillAll(list, placeholder, text) == [i \in DOMAIN list |-> Fill(list[i], placeholder, text)]

(* What the language versions and the other options add to a command.      *)
VersionTemplate(c) ==
    Deduced(c, "lang_version_flag_template", <<"-std=", "[version]">>, <<"/std:", "[version]">>)

VersionFlags(c, key) ==
    IF Has(c, key) THEN <<Fill(VersionTemplate(c), "[version]", <<c[key]>>)>> ELSE << >>

DebugAsked(c) == c["debug"] \in {"true", "embedded", "split"}

RuntimeFlags(c) ==
    LET static == Or(c, "runtime_static", Msvc(c))
        debug == Or(c, "runtime_debug", Msvc(c) /\ DebugAsked(c)) IN
    ByCompiler(c,
        (IF static THEN WordsOf(<<"-static-libgcc", "-static-libstdc++">>) ELSE << >>)
            \o (IF debug THEN WordsOf(<<"-D_GLIBCXX_DEBUG", "-D_LIBCPP_DEBUG=1">>) ELSE << >>),
        <<<<"/M", IF static THEN "T" ELSE "D", IF debug THEN "d" ELSE "">>>>,
        << >>)

OptimFlags(c) ==
    IF c["optimize"] = TRUE THEN WordsOf(ByCompiler(c, <<"-O2">>, <<"/O2">>, << >>)) ELSE << >>

DebugFlags(c) ==
    WordsOf(CASE c["debug"] \in {"true", "embedded"} -> ByCompiler(c, <<"-g">>, <<"/Z7">>, << >>)
              [] c["debug"] = "split" -> ByCompiler(c, <<"-g", "-gsplit-dwarf">>, <<"/Zi", "/FS">>, << >>)
              [] OTHER -> << >>)

OptionFlags(c) == RuntimeFlags(c) \o OptimFlags(c) \o DebugFlags(c)

BaseFlags(c, lang) ==
    Or(c, "base_flags",
       WordsOf(ByCompiler(c, <<"-fPIC", "-pthread">>, <<"/nologo", "/permissive-">>, << >>)))
    \o (IF lang = "c" THEN Listed(c, "base_c_flags")
        ELSE Or(c, "base_cxx_flags", WordsOf(ByCompiler(c, << >>, <<"/EHsc">>, << >>))))

(* Mutant: the flags of the other language. *)
FlagsOfOther(c, lang) ==
    OptionFlags(c) \o Listed(c, "flags")
    \o Listed(c, IF lang = "c" THEN "cxx_flags" ELSE "c_flags")
    \o VersionFlags(c, IF lang = "c" THEN "c_version" ELSE "cxx_version") \o BaseFlags(c, lang)

FlagsFor(c, lang) ==
    OptionFlags(c) \o Listed(c, "flags")
    \o Listed(c, IF lang = "c" THEN "c_flags" ELSE "cxx_flags")
    \o VersionFlags(c, IF lang = "c" THEN "c_version" ELSE "cxx_version") \o BaseFlags(c, lang)

(* Compilers and their commands. Without a compiler id the command that is *)
(* deduced for a given compiler has no placeholders at all. (An executable *)
(* is a word.)                                                             *)
Compiler(c, lang) ==
    Or(c, IF lang = "c" THEN "c_compiler" ELSE "cxx_compiler",
       CASE c["compiler_id"] = "gnu" -> Word(IF lang = "c" THEN "gcc" ELSE "g++")
         [] c["compiler_id"] = "clang" -> Word(IF lang = "c" THEN "clang" ELSE "clang++")
         [] c["compiler_id"] = "msvc" -> <<"cl.exe">>
         [] OTHER -> NotGiven)

CompileKey(lang) == IF lang = "c" THEN "c_compile_file" ELSE "cxx_compile_file"

CompileTemplate(c, lang) ==
    Or(c, CompileKey(lang),
       Listed(c, "compiler_launcher") \o <<Compiler(c, lang)>>
       \o ByCompiler(c, <<<<"[flags]">>, <<"-c">>, <<"[in]">>, <<"-o", "[out]">>>>,
                        <<<<"[flags]">>, <<"/c">>, <<"[in]">>, <<"/Fo", "[out]">>>>, << >>))
    \o FlagsFor(c, lang)

LinkTemplate(c) ==
    Deduced(c, "link_executable",
            <<Compiler(c, "cxx"), <<"-fPIC">>, <<"[in]">>, <<"-pthread">>, <<"-o", "[out]">>>>,
            <<Compiler(c, "cxx"), <<"/nologo">>, <<"/EHsc">>, <<"[in]">>, <<"/Fe", "[out]">>>>)

Templates(c) ==
    [include |-> Deduced(c, "include_template", <<<<"-I">>, <<"[path]">>>>, <<<<"/I">>, <<"[path]">>>>),
     define |-> Deduced(c, "define_template", <<<<"-D">>, <<"[def]">>>>, <<<<"/D">>, <<"[def]">>>>),
     archive |-> Deduced(c, "create_archive",
                         <<<<"ar">>, <<"rcs">>, <<"[out]">>, <<"[in]">>>>,
                         <<<<"lib">>, <<"/nologo">>, <<"/OUT:", "[out]">>, <<"[in]">>>>),
     link |-> LinkTemplate(c),
     archive_suffix |-> Deduced(c, "archive_suffix", ".a", ".lib"),
     object_suffix |-> Deduced(c, "obj_suffix", ".o", ".obj")]

SourceFlags(c) ==
    [c_type |-> Deduced(c, "c_source_type_flags", <<<<"-xc">>>>, <<<<"/TC">>>>),
     cxx_type |-> Deduced(c, "cxx_source_type_flags", <<<<"-xc++">>>>, <<<<"/TP">>>>),
     syntax_only |-> Deduced(c, "syntax_only_flags", <<<<"-fsyntax-only">>>>, <<<<"/Zs">>>>)]

TtyFlags(c) ==
    Or(c, "tty_flags", WordsOf(ByCompiler(c, <<"-fdiagnostics-color">>, << >>, << >>)))

Warnings(c) ==
    Or(c, "base_warning_flags",
       WordsOf(ByCompiler(c, <<"-Wall", "-Wextra", "-Wpedantic", "-Wconversion">>, <<"/W4">>, << >>)))
    \o Listed(c, "warning_flags")

DepsMode(c) == Or(c, "deps_mode", ByCompiler(c, "gnu", "msvc", "none"))

(* parse_toolchain_json_data: given is a function from the keys that the   *)
(* file has to their values. It fails at the first of these.               *)
Fails(given, c) ==
    \/ ~(DOMAIN given \subseteq Keys)
    \/ c["debug"] \notin {NotGiven, "true", "false", "none", "embedded", "split"}
    \/ c["compiler_id"] \notin {NotGiven, "gnu", "clang", "msvc"}
    \/ DepsMode(c) \notin {"gnu", "msvc", "none"}
    \/ \E lang \in {"c", "cxx"} :
          \/ ~Has(c, CompileKey(lang)) /\ Compiler(c, lang) = NotGiven
          \/ Has(c, IF lang = "c" THEN "c_version" ELSE "cxx_version") /\ VersionTemplate(c) = NotGiven
    \/ \E t \in DOMAIN Templates(c) : Templates(c)[t] = NotGiven
    \/ \E f \in DOMAIN SourceFlags(c) : SourceFlags(c)[f] = NotGiven

ParseToolchain(given) ==
    LET c == [k \in Keys |-> IF k \in DOMAIN given THEN given[k] ELSE NotGiven] IN
    IF Fails(given, c) THEN Refused
    ELSE [t |-> [Templates(c) EXCEPT !.link = @ \o OptionFlags(c) \o Listed(c, "link_flags")],
          c_compile |-> CompileTemplate(c, "c"), cxx_compile |-> CompileTemplate(c, "cxx"),
          external |-> Or(c, "external_include_template",
                          ByCompiler(c, <<<<"-isystem">>, <<"[path]">>>>, <<<<"/I">>, <<"[path]">>>>,
                                     Templates(c).include)),
          warnings |-> Warnings(c), tty |-> TtyFlags(c), source |-> SourceFlags(c),
          env |-> Or(c, "consider_env",
                     ByCompiler(c, << >>, <<"CL", "_CL_", "INCLUDE", "LIBPATH", "LIB">>, << >>)),
          deps_mode |-> DepsMode(c)]

(* compute_hash: what it depends on. It is recorded with a compilation and *)
(* compared by nothing.                                                    *)
HashedParts(tc, environment) ==
    LET abi(list) == SelectSeq(list, LAMBDA w : w \notin {<<"-fdiagnostics-color">>, <<"/nologo">>}) IN
    <<abi(tc.c_compile), abi(tc.cxx_compile),
      [v \in ToSet(tc.env) \cap DOMAIN environment |-> environment[v]]>>
-----------------------------------------------------------------------------
(* Paths are absolute: sequences of names. Their text is parts again.      *)
PathText(names) ==
    FlattenSeq([i \in DOMAIN names |-> IF i = 1 THEN <<names[i]>> ELSE <<"/", names[i]>>])

AbsoluteText(names) == <<"/">> \o PathText(names)

Proximate(path, base) ==
    LET common == Cardinality({i \in 1..Len(path) : IsPrefix(SubSeq(path, 1, i), base)})
        up == [i \in 1..(Len(base) - common) |-> ".."]
        names == up \o SubSeq(path, common + 1, Len(path))
    IN IF names = << >> THEN <<".">> ELSE names

(* As many characters as there are parts, but `..' has two.                *)
TextLength(text) == Len(text) + Len(SelectSeq(text, LAMBDA p : p = ".."))

ShortestPath(path, cwd) ==
    LET relative == PathText(Proximate(path, cwd)) IN
    IF TextLength(relative) > TextLength(AbsoluteText(path)) THEN AbsoluteText(path) ELSE relative

PathArgs(template, texts) ==
    FlattenSeq([i \in DOMAIN texts |-> FillAll(template, "[path]", texts[i])])

(* A source is checked for syntax by a file that includes it.              *)
InFile(spec) ==
    IF spec.syntax_only THEN AbsoluteText(Front(spec.out) \o <<Last(spec.source)>>) \o <<".syncheck">>
    ELSE AbsoluteText(spec.source)

Language(spec) ==
    IF spec.lang # "automatic" THEN spec.lang ELSE IF spec.ext \in {".c", ".C"} THEN "c" ELSE "cxx"

When(condition, list) == IF condition THEN list ELSE << >>

SpecFlags(tc, spec, cwd, knobs) ==
    LET shortest(list) == [i \in DOMAIN list |-> ShortestPath(list[i], cwd)] IN
    When(knobs.is_tty, tc.tty)
    \o When(knobs.cache_buster # NotGiven,
            FillAll(tc.t.define, "[def]", <<"__bpt_cachebust=", knobs.cache_buster>>))
    \o When(spec.syntax_only,
            tc.source.syntax_only
            \o IF Language(spec) = "c" THEN tc.source.c_type ELSE tc.source.cxx_type)
    \o PathArgs(tc.t.include, shortest(spec.include_dirs))
    \o PathArgs(tc.external, [i \in DOMAIN spec.external_include_dirs |->
                               AbsoluteText(spec.external_include_dirs[i])])
    \o PathArgs(tc.t.include,
                shortest(IF knobs.tweaks_dir = NotGiven THEN << >> ELSE <<knobs.tweaks_dir>>))
    \o FlattenSeq([i \in DOMAIN spec.definitions |->
                      FillAll(tc.t.define, "[def]", <<spec.definitions[i]>>)])
    \o When(spec.enable_warnings, tc.warnings)
    \o When(tc.deps_mode = "gnu",
            <<<<"-MD">>, <<"-MF">>, AbsoluteText(spec.out) \o <<".d">>,
              <<"-MQ">>, AbsoluteText(spec.out)>>)
    \o When(tc.deps_mode = "msvc", <<<<"/showIncludes">>>>)

(* create_compile_command. `[flags]' is replaced where it is a word.       *)
CompileCommand(tc, spec, cwd, knobs) ==
    LET template == IF Language(spec) = "c" THEN tc.c_compile ELSE tc.cxx_compile IN
    FlattenSeq([i \in DOMAIN template |->
        IF template[i] = <<"[flags]">> THEN SpecFlags(tc, spec, cwd, knobs)
        ELSE <<Fill(Fill(template[i], "[in]", InFile(spec)), "[out]", AbsoluteText(spec.out))>>])

(* create_archive_command and create_link_executable_command: `[in]' where *)
(* it is a word.                                                           *)
BinaryCommand(template, inputs, out, cwd) ==
    FlattenSeq([i \in DOMAIN template |->
        IF template[i] = <<"[in]">> THEN [j \in DOMAIN inputs |-> ShortestPath(inputs[j], cwd)]
        ELSE <<Fill(template[i], "[out]", ShortestPath(out, cwd))>>])
-----------------------------------------------------------------------------
(* get_builtin: a name is some prefixes, each with a colon, and a compiler  *)
(* with a suffix. Prefixes are looked for in this order, one of each.      *)
Standards == {"c++98", "c++03", "c++11", "c++14", "c++17", "c++20"}

BuiltinCompilers ==
    ({"gcc", "clang"} \X {"", "-7", "-8", "-9", "-10", "-11", "-12", "-13"}) \cup {<<"msvc", "">>}

DropIf(prefixes, known) ==
    IF prefixes # << >> /\ Head(prefixes \o <<"">>) \in known THEN Tail(prefixes) ELSE prefixes

LeftOf(prefixes) == DropIf(DropIf(DropIf(prefixes, {"debug"}), {"ccache"}), Standards)

BuiltinConfig(prefixes, compiler) ==
    LET id == CASE compiler[1] = "gcc" -> "gnu" [] OTHER -> compiler[1]
        cxx == CASE compiler[1] = "gcc" -> "g++" [] compiler[1] = "clang" -> "clang++"
                 [] OTHER -> "cl.exe"
        c == IF id = "msvc" THEN "cl.exe" ELSE compiler[1]
        versions == ToSet(prefixes) \cap Standards
        named == {"debug"} \cap ToSet(prefixes) IN
    [k \in {"compiler_id", "c_compiler", "cxx_compiler"} \cup named
           \cup (IF "ccache" \in ToSet(prefixes) THEN {"compiler_launcher"} ELSE {})
           \cup (IF versions # {} THEN {"cxx_version"} ELSE {}) |->
        CASE k = "compiler_id" -> id
          [] k = "c_compiler" -> <<c, compiler[2]>>
          [] k = "cxx_compiler" -> <<cxx, compiler[2]>>
          [] k = "debug" -> "true"
          [] k = "compiler_launcher" -> <<<<"ccache">>>>
          [] k = "cxx_version" -> CHOOSE v \in versions : TRUE]

Builtin(prefixes, compiler) ==
    IF LeftOf(prefixes) # << >> \/ compiler \notin BuiltinCompilers THEN Refused
    ELSE ParseToolchain(BuiltinConfig(prefixes, compiler))

(* get_default: the first that exists of three names in three directories. *)
DefaultCandidates ==
    FlattenSeq([d \in 1..3 |-> [n \in 1..3 |-> <<<<"cwd", "config", "home">>[d],
                                                  <<"json5", "jsonc", "json">>[n]>>]])

DefaultFile(existing) ==
    LET there == SelectSeq(DefaultCandidates, LAMBDA f : f \in existing)
    IN IF there = << >> THEN Refused ELSE Head(there)

(* options::load_toolchain: where the toolchain comes from.                *)
LoadToolchain(asked, existing) ==
    CASE asked = NotGiven -> <<"file", DefaultFile(existing)>>
      [] asked # NotGiven /\ asked.colon -> <<"builtin", asked.name>>
      [] asked # NotGiven /\ ~asked.colon -> <<"file", asked.name>>
-----------------------------------------------------------------------------
(* What a file asks of the compilations of a language, as                  *)
(* docs/guide/toolchains.rst has it.                                       *)
Asks(given, lang) ==
    LET value(key, default) == IF key \in DOMAIN given THEN given[key] ELSE default
        of(c, cxx) == value(IF lang = "c" THEN c ELSE cxx, NotGiven)
        msvc == given["compiler_id"] = "msvc"
        debug == CASE value("debug", "none") \in {"true", "embedded"} -> "embedded"
                   [] value("debug", "none") = "split" -> "split"
                   [] OTHER -> "none" IN
    [id |-> given["compiler_id"], launcher |-> value("compiler_launcher", << >>), debug |-> debug,
     optimize |-> value("optimize", FALSE), static |-> value("runtime_static", msvc),
     runtime_debug |-> value("runtime_debug", msvc /\ debug # "none"),
     flags |-> value("flags", << >>), lang_flags |-> of("c_flags", "cxx_flags"),
     version |-> of("c_version", "cxx_version"),
     base |-> value("base_flags", NotGiven),
     base_cxx |-> IF lang = "c" THEN NotGiven ELSE value("base_cxx_flags", NotGiven)]

(* Objects are compiled again when their command is another one, and the   *)
(* toolchain is not looked at otherwise: the command of a file changes     *)
(* exactly when what the toolchain file asks of its language does. The hash*)
(* does so for both languages.                                             *)
CommandsChangeWithToolchain(givens, lang) ==
    LET spec == [source |-> <<"s">>, out |-> <<"o">>, ext |-> ".cpp", lang |-> lang,
                 include_dirs |-> << >>, external_include_dirs |-> << >>, definitions |-> << >>,
                 enable_warnings |-> FALSE, syntax_only |-> FALSE]
        knobs == [is_tty |-> FALSE, cache_buster |-> NotGiven, tweaks_dir |-> NotGiven]
        command(g) == CompileCommand(ParseToolchain(g), spec, << >>, knobs)
        OneToOne(pairs) == Cardinality({p[1] : p \in pairs}) = Cardinality(pairs)
                           /\ Cardinality({p[2] : p \in pairs}) = Cardinality(pairs) IN
    /\ OneToOne({<<Asks(g, lang), command(g)>> : g \in givens})
    /\ OneToOne({<<<<Asks(g, "c"), Asks(g, "cxx")>>, HashedParts(ParseToolchain(g), << >>)>> :
                     g \in givens})

(* A toolchain that is accepted makes commands in which nothing is left to *)
(* fill in, with the input and the output in them: unless a compiler is    *)
(* given without a compiler id or a command.                               *)
NoneLeftOpen(command) ==
    \A i \in DOMAIN command :
        ToSet(command[i]) \cap {"[in]", "[out]", "[flags]", "[path]", "[def]", "[version]"} = {}

CommandsAreComplete(given, spec, cwd, knobs) ==
    LET tc == ParseToolchain(given)
        inputs == <<spec.out, spec.source>>
        compile == CompileCommand(tc, spec, cwd, knobs)
        archive == BinaryCommand(tc.t.archive, inputs, spec.out, cwd)
        link == BinaryCommand(tc.t.link, inputs, spec.out, cwd)
        occurs(text, word) == \E i \in 0..Len(word) : IsPrefix(text, SubSeq(word, i + 1, Len(word))) IN
    tc # Refused =>
        /\ \A c \in {compile, archive, link} : NoneLeftOpen(c)
        /\ "compiler_id" \in DOMAIN given \/ CompileKey(Language(spec)) \in DOMAIN given =>
               /\ InFile(spec) \in ToSet(compile)
               /\ \E i \in DOMAIN compile : occurs(AbsoluteText(spec.out), compile[i])
               /\ \A d \in ToSet(spec.include_dirs) : ShortestPath(d, cwd) \in ToSet(compile)
               /\ \A d \in ToSet(spec.external_include_dirs) : AbsoluteText(d) \in ToSet(compile)
               /\ \A d \in ToSet(spec.definitions) : <<d>> \in ToSet(compile)
        /\ \A c \in {archive, link}, p \in ToSet(inputs) :
               \E i \in DOMAIN c : occurs(ShortestPath(p, cwd), c[i])

(* Different names are different toolchains.                               *)
BuiltinsDiffer(names) ==
    LET known == {n \in names : Builtin(n[1], n[2]) # Refused}
    IN Cardinality({<<Builtin(n[1], n[2]).c_compile, Builtin(n[1], n[2]).cxx_compile>> : n \in known})
           = Cardinality(known)

(* Without an option the toolchain is in the first directory that has one; *)
(* what is asked for is not replaced by it.                                *)
DefaultIsNearest(existing) ==
    LET default == LoadToolchain(NotGiven, existing)[2]
        nearer(d) == CASE d = "cwd" -> {} [] d = "config" -> {"cwd"} [] d = "home" -> {"cwd", "config"} IN
    /\ default = Refused <=> existing = {}
    /\ default # Refused =>
           default \in existing /\ \A f \in existing : f[1] \notin nearer(default[1])
    /\ \A colon \in BOOLEAN :
           LoadToolchain([colon |-> colon, name |-> "x"], existing)
               = <<IF colon THEN "builtin" ELSE "file", "x">>
=============================================================================
