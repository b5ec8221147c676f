------------------------------ MODULE LibraryPlan ------------------------------
(***************************************************************************)
(* build/plan: how the files of a library become compilations, an archive  *)
(* and executables, and where their outputs are.                           *)
(* Paths are sequences of names.                                           *)
(***************************************************************************)
EXTENDS Integers, Sequences, FiniteSets

CONSTANT NoFile  \* std::nullopt: not a source file

(* A file under one of the two roots, in dir below it; sub is what is      *)
(* between its name and its extension: src/x/a.test.cpp is <<"x">>, "a",   *)
(* ".test", ".cpp".                                                        *)
File == [root : {"src", "include"}, dir : Seq(STRING), name : STRING, sub : STRING, ext : STRING]

Library == [name : STRING, path : Seq(STRING), files : SUBSET File,
            using : SUBSET STRING, test_using : SUBSET STRING,
            deps : SUBSET (STRING \X STRING), test_deps : SUBSET (STRING \X STRING)]

Params == [build_apps : BOOLEAN, build_tests : BOOLEAN, subdir : Seq(STRING)]

Kind(file) ==
    CASE file.ext \in {".H", ".H++", ".h", ".h++", ".hh", ".hpp", ".hxx"} -> "header"
      [] file.ext \in {".inc", ".inl", ".ipp"} -> "header_impl"
      [] file.ext \in {".C", ".c", ".c++", ".cc", ".cpp", ".cxx"} ->
            IF file.sub = ".test" THEN "test"
            ELSE IF file.sub = ".main" THEN "app" ELSE "source"
      [] OTHER -> NoFile

Leaf(file) == <<file.name, file.sub, file.ext>>

RelativePath(file) == Append(file.dir, Leaf(file))

(* Those under one root, of one kind: what is in src/ is sorted by kind,   *)
(* of include/ only the headers count (others make a warning).             *)
Of(lib, root, kind) == {f \in lib.files : f.root = root /\ Kind(f) = kind}

HasInclude(lib) == \E f \in lib.files : f.root = "include"

Warnings(lib) ==
    {f \in lib.files : f.root = "include" /\ Kind(f) \notin {NoFile, "header", "header_impl"}}

SourceRoot(lib) == <<"pkg">> \o lib.path

PublicInclude(lib) == Append(SourceRoot(lib), IF HasInclude(lib) THEN "include" ELSE "src")

(* A package's own libraries first, then those of its dependencies, which  *)
(* say by now which libraries they use.                                    *)
Usages(pkg, using, deps) == {<<pkg, u>> : u \in using} \cup deps

LibUses(pkg, lib) == Usages(pkg, lib.using, lib.deps)
TestUses(pkg, lib) == Usages(pkg, lib.test_using, lib.test_deps)
-----------------------------------------------------------------------------
(* A compilation: its rules, the file and the directory of its output.     *)
SourceRules(pkg, lib) ==
    [includes |-> {PublicInclude(lib), Append(SourceRoot(lib), "src")},
     uses |-> LibUses(pkg, lib), syntax_only |-> FALSE]

TestRules(pkg, lib) ==
    [SourceRules(pkg, lib) EXCEPT !.uses = @ \cup TestUses(pkg, lib)]

PublicHeaderRules(pkg, lib) ==
    [includes |-> {PublicInclude(lib)}, uses |-> LibUses(pkg, lib), syntax_only |-> TRUE]

SourceHeaderRules(pkg, lib) == [SourceRules(pkg, lib) EXCEPT !.syntax_only = TRUE]

CompileFile(rules, file, subdir) == [rules |-> rules, file |-> file, subdir |-> subdir]

(* Mutant: the directories of the source are lost. *)
FlatObjectPath(comp) == Append(comp.subdir, <<Leaf(comp.file), ".o">>)

(* The suffix is appended to the whole file name. *)
ObjectPath(comp) == comp.subdir \o Append(comp.file.dir, <<Leaf(comp.file), ".o">>)

OutDir(lib, params) == params.subdir \o lib.path

LibCompiles(pkg, lib, params) ==
    {CompileFile(SourceRules(pkg, lib), f, Append(OutDir(lib, params), "obj")) :
        f \in Of(lib, "src", "source")}

(* Headers are checked only when tests are built. *)
HeaderChecks(pkg, lib, params) ==
    IF ~params.build_tests THEN {}
    ELSE LET out == Append(OutDir(lib, params), "timestamps") IN
         {CompileFile(SourceHeaderRules(pkg, lib), f, out) : f \in Of(lib, "src", "header")}
         \cup {CompileFile(PublicHeaderRules(pkg, lib), f, out) : f \in Of(lib, "include", "header")}

(* No archive without compiled sources. *)
ArchivePath(lib, params) == Append(OutDir(lib, params), <<"lib", lib.name, ".a">>)

Archives(pkg, lib, params) ==
    IF LibCompiles(pkg, lib, params) = {} THEN {} ELSE {ArchivePath(lib, params)}

MainFiles(lib, params) ==
    (IF params.build_apps THEN Of(lib, "src", "app") ELSE {})
    \cup (IF params.build_tests THEN Of(lib, "src", "test") ELSE {})

ExeBase(lib, params, file) ==
    IF Kind(file) = "test" THEN Append(OutDir(lib, params), "test") ELSE OutDir(lib, params)

(* An executable is named by the file without both of its suffixes.        *)
Executable(pkg, lib, params, file) ==
    LET rules == IF Kind(file) = "test" THEN TestRules(pkg, lib) ELSE SourceRules(pkg, lib) IN
    [main  |-> CompileFile(rules, file, Append(OutDir(lib, params), "obj")),
     links |-> rules.uses,
     path  |-> ExeBase(lib, params, file) \o Append(file.dir, <<file.name>>)]

Executables(pkg, lib, params) ==
    {Executable(pkg, lib, params, f) : f \in MainFiles(lib, params)}

(* Mutant: the files with the executables' mains are left out. *)
LibraryCompilations(pkg, lib, params) ==
    LibCompiles(pkg, lib, params) \cup HeaderChecks(pkg, lib, params)

Compilations(pkg, lib, params) ==
    LibCompiles(pkg, lib, params) \cup HeaderChecks(pkg, lib, params)
    \cup {exe.main : exe \in Executables(pkg, lib, params)}
-----------------------------------------------------------------------------
(* iter_compilations, over a build plan: a set of [pkg, lib, params].      *)
AllCompilations(plan) == UNION {Compilations(p.pkg, p.lib, p.params) : p \in plan}

SourcePath(comp) == <<comp.file.root>> \o RelativePath(comp.file)

(* compile_files: each file that was asked for (a path, or one that is no  *)
(* source of the project) is marked by the compilations of it. If one is   *)
(* not marked, nothing is compiled. generate_compdb lists AllCompilations. *)
CompileFiles(plan, asked) ==
    LET comps == {c \in AllCompilations(plan) : SourcePath(c) \in asked}
        missing == asked \ {SourcePath(c) : c \in comps}
    IN [missing |-> missing, compiled |-> IF missing # {} THEN {} ELSE comps]

(* write_lml: the archive of a library and what it uses. *)
LmlOf(pkg, lib, params) ==
    [uses |-> LibUses(pkg, lib), paths |-> Archives(pkg, lib, params)]
-----------------------------------------------------------------------------
(* No step of a build writes a file that another one of the library        *)
(* writes, but for the cases that the layout cannot tell apart: headers of *)
(* one name under src/ and include/, main files that differ in what comes  *)
(* after the name, an app in a directory named as one for outputs.         *)
OutputsAreDistinct(pkg, lib, params) ==
    LET comps == Compilations(pkg, lib, params)
        exes == Executables(pkg, lib, params)
        InTest(f) == Kind(f) = "app" /\ f.dir # << >> /\ f.dir[1] = "test" IN
    /\ \A c, d \in comps :
          ObjectPath(c) = ObjectPath(d) /\ c # d =>
              /\ c.rules.syntax_only /\ d.rules.syntax_only
              /\ c.file.root # d.file.root
    /\ \A e, f \in exes :
          e.path = f.path /\ e # f =>
              \/ Kind(e.main.file) = Kind(f.main.file) /\ e.main.file.dir = f.main.file.dir
              \/ InTest(e.main.file) \/ InTest(f.main.file)

(* A file that was asked for is compiled by its own rules, or everything   *)
(* that is not compiled is reported: what it uses are the libraries that   *)
(* the library says, for tests those of the tests in addition.             *)
AskedIsCompiledOrMissing(plan, asked) ==
    LET result == CompileFiles(plan, asked)
        files == UNION {p.lib.files : p \in plan} IN
    /\ result.missing = {} =>
          asked = {SourcePath(c) : c \in result.compiled}
    /\ result.missing # {} => result.compiled = {}
    /\ \A f \in files :
          <<f.root>> \o RelativePath(f) \in result.missing =>
              \/ Kind(f) \in {NoFile, "header_impl"}
              \/ f.root = "include" /\ Kind(f) # "header"
              \/ \E p \in plan :
                    /\ f \in p.lib.files
                    /\ Kind(f) \in {"header", "test"} => ~p.params.build_tests
                    /\ Kind(f) = "app" => ~p.params.build_apps
                    /\ Kind(f) # "source"
    /\ \A c \in result.compiled, p \in plan :
          c.file \in p.lib.files =>
              /\ LibUses(p.pkg, p.lib) \subseteq c.rules.uses
              /\ c.rules.uses \cap (TestUses(p.pkg, p.lib) \ LibUses(p.pkg, p.lib)) # {} =>
                    Kind(c.file) = "test"
=============================================================================
