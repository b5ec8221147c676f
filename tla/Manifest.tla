------------------------------- MODULE Manifest -------------------------------
(***************************************************************************)
(* What a pkg.yaml says (bpt/project), the package that it describes, its  *)
(* pkg.json (bpt/crs/info) and the distribution made of them (sdist/).     *)
(*                                                                         *)
(* A document is a record. A key that may be missing is NotGiven, or an    *)
(* empty list where that is the same. Names and types of keys are right,   *)
(* a name is a member of Names or is refused. Metadata that is only handed *)
(* on (authors, license, ...) is one value.                                *)
(*                                                                         *)
(* Versions are numbers of three digits to the base of 4: 6 is 0.1.2; what *)
(* a dependency accepts is a set of them below MaxVersion.                 *)
(***************************************************************************)
EXTENDS Integers, Sequences, FiniteSets, SequencesExt

CONSTANTS All,       \* implicit_uses_all
          NotGiven,
          Refused    \* an error, or a failed assertion

Names == {"a", "b", "c", "using"}
MaxVersion == 48

NextMinor(v) == 4 * (v \div 4 + 1)
NextMajor(v) == 16 * (v \div 16 + 1)

Between(low, high) == low..(high - 1)

(* The intervals of a set of versions, in order: each starts at a version  *)
(* that follows none, and ends before the first that is not in the set.    *)
Lows(versions) == {v \in versions : v - 1 \notin versions}

Ends(versions) == {v + 1 : v \in {w \in versions : w + 1 \notin versions}}

FirstEnd(versions, low) ==
    CHOOSE h \in Ends(versions) : h > low /\ \A g \in Ends(versions) : g > low => h <= g

Nth(S, k) == CHOOSE v \in S : Cardinality({w \in S : w <= v}) = k

Intervals(versions) ==
    [k \in 1..Cardinality(Lows(versions)) |->
        LET low == Nth(Lows(versions), k) IN [low |-> low, high |-> FirstEnd(versions, low)]]
-----------------------------------------------------------------------------
(* Dependencies. A word of a shorthand string is a name, with an operator  *)
(* and a version or "" and 0; "," and "using" are words with such a name.  *)
Accepted(op, v) ==
    CASE op = "=" -> {v}
      [] op = "~" -> Between(v, NextMinor(v))
      [] op \in {"@", "^"} -> Between(v, NextMajor(v))
      [] op = "+" -> Between(v, MaxVersion)

RangeShorthand(word) ==
    IF word.op = "" \/ word.name \notin Names THEN Refused
    ELSE [name |-> word.name, versions |-> Accepted(word.op, word.version), uses |-> All]

(* Between names there are commas, and nothing follows the last name. The  *)
(* words after `using' that are no commas are names: another is not caught *)
(* before it is used.                                                      *)
FromShorthand(words) ==
    IF words = << >> THEN Refused
    ELSE LET dep == RangeShorthand(words[1])
             listed == SubSeq(words, 3, Len(words))
         IN IF dep = Refused \/ Len(words) = 1 THEN dep
            ELSE IF /\ words[2].name = "using"
                    /\ Len(listed) % 2 = 1
                    /\ \A i \in DOMAIN listed : (i % 2 = 0) = (listed[i].name = ",")
                 THEN [dep EXCEPT !.uses = {listed[i].name : i \in {j \in DOMAIN listed : j % 2 = 1}}]
                 ELSE Refused

Unordered(ranges) == \E i \in DOMAIN ranges : ranges[i].high <= ranges[i].low

UnionOf(ranges) == UNION {Between(ranges[i].low, ranges[i].high) : i \in DOMAIN ranges}

(* An empty list of `using' is no list: all libraries are meant.           *)
FromObject(doc) ==
    LET known == IF doc.versions = NotGiven THEN RangeShorthand(doc.dep)
                 ELSE IF doc.dep.op # "" \/ doc.dep.name \notin Names \/ Unordered(doc.versions)
                 THEN Refused
                 ELSE [name |-> doc.dep.name, versions |-> UnionOf(doc.versions), uses |-> All]
    IN IF known = Refused \/ ~(ToSet(doc.using) \subseteq Names) THEN Refused
       ELSE IF doc.using = << >> THEN known
       ELSE [known EXCEPT !.uses = ToSet(doc.using)]

ProjectDependency(doc) ==
    IF doc.words # NotGiven THEN FromShorthand(doc.words) ELSE FromObject(doc)

(* What is printed of a dependency: the range, in its shortest form, and   *)
(* what is used. Here "@" means this version only.                         *)
RangeText(i) ==
    IF i.high = MaxVersion THEN <<<<">=", i.low>>>>
    ELSE IF i.low = 0 THEN <<<<"<", i.high>>>>
    ELSE <<<<"from", i.low>>, <<"<", i.high>>>>

VersionsText(versions) ==
    LET list == Intervals(versions) IN
    IF Len(list) # 1 THEN FlattenSeq([k \in DOMAIN list |-> RangeText(list[k]) \o <<<<"||", 0>>>>])
    ELSE CASE list[1].high = list[1].low + 1 -> <<<<"@", list[1].low>>>>
           [] list[1].high # list[1].low + 1 /\ list[1].high = NextMajor(list[1].low) ->
                 <<<<"^", list[1].low>>>>
           [] list[1].high # list[1].low + 1 /\ list[1].high = NextMinor(list[1].low) ->
                 <<<<"~", list[1].low>>>>
           [] list[1].low = 0 /\ list[1].high = MaxVersion -> <<<<"+", 0>>>>
           [] OTHER -> <<<<"@[", 0>>>> \o RangeText(list[1])

DeclText(dep) == <<<<dep.name, 0>>>> \o VersionsText(dep.versions)
-----------------------------------------------------------------------------
(* Libraries and packages. Each list is refused for one element that is.   *)
AllOf(list) == IF Refused \in ToSet(list) THEN Refused ELSE list

ProjectDependencies(docs) == AllOf([i \in DOMAIN docs |-> ProjectDependency(docs[i])])

WithDependencies(lib, deps, test_deps) ==
    IF deps = Refused \/ test_deps = Refused THEN Refused
    ELSE [lib EXCEPT !.dependencies = deps, !.test_dependencies = test_deps]

ProjectLibrary(doc) ==
    IF doc.path = NotGiven \/ ~({doc.name} \cup doc.using \cup doc.test_using \subseteq Names)
    THEN Refused
    ELSE WithDependencies(doc, ProjectDependencies(doc.dependencies),
                          ProjectDependencies(doc.test_dependencies))

(* The root library may not say where it is.                               *)
RootLibrary(doc) ==
    IF doc.path # NotGiven THEN Refused ELSE ProjectLibrary([doc EXCEPT !.path = << >>])

(* as_crs_package_meta: each library has the root's dependencies after its *)
(* own. Without a library, the project is one.                             *)
Package(project) ==
    LET whole == [name |-> project.name, path |-> << >>, using |-> {}, test_using |-> {},
                  dependencies |-> << >>, test_dependencies |-> << >>]
        own == IF project.libraries = << >> THEN <<whole>> ELSE project.libraries
    IN [name |-> project.name, version |-> project.version, revision |-> 1,
        meta |-> project.meta,
        libraries |-> [i \in DOMAIN own |->
            [own[i] EXCEPT !.dependencies = @ \o project.dependencies,
                           !.test_dependencies = @ \o project.test_dependencies]]]

(* throw_if_invalid: a library uses only libraries of the package.         *)
UsesSiblings(pkg) ==
    \A lib \in ToSet(pkg.libraries) :
        lib.using \cup lib.test_using \subseteq {l.name : l \in ToSet(pkg.libraries)}

Validated(project) ==
    IF project = Refused THEN Refused
    ELSE IF project.libraries = Refused THEN Refused
    ELSE IF UsesSiblings(Package(project)) THEN project ELSE Refused

Project(doc) ==
    IF doc.name \notin Names THEN Refused
    ELSE Validated(WithDependencies(
             [name |-> doc.name, version |-> doc.version, meta |-> doc.meta,
              libraries |-> AllOf([i \in DOMAIN doc.lib |-> RootLibrary(doc.lib[i])]
                                  \o [i \in DOMAIN doc.libs |-> ProjectLibrary(doc.libs[i])]),
              dependencies |-> << >>, test_dependencies |-> << >>],
             ProjectDependencies(doc.dependencies), ProjectDependencies(doc.test_dependencies)))
-----------------------------------------------------------------------------
(* pkg.json                                                                *)
Implicit(pkg) ==
    \E lib \in ToSet(pkg.libraries) :
        \E dep \in ToSet(lib.dependencies \o lib.test_dependencies) : dep.uses = All

DependencyJson(dep) == [name |-> dep.name, versions |-> Intervals(dep.versions), using |-> dep.uses]

DependenciesJson(deps) == [i \in DOMAIN deps |-> DependencyJson(deps[i])]

(* Mutant: the dependencies of the tests are written as those of all. *)
ToJsonMixed(pkg) ==
    IF Implicit(pkg) THEN Refused
    ELSE [name |-> pkg.name, version |-> pkg.version, pkg_version |-> pkg.revision,
          meta |-> pkg.meta, schema_version |-> 1,
          libraries |-> [i \in DOMAIN pkg.libraries |->
              [pkg.libraries[i] EXCEPT
                  !.dependencies = DependenciesJson(@ \o pkg.libraries[i].test_dependencies),
                  !.test_dependencies = << >>]]]

(* to_json: that no dependency is implicit, is asserted.                   *)
ToJson(pkg) ==
    IF Implicit(pkg) THEN Refused
    ELSE [name |-> pkg.name, version |-> pkg.version, pkg_version |-> pkg.revision,
          meta |-> pkg.meta, schema_version |-> 1,
          libraries |-> [i \in DOMAIN pkg.libraries |->
              [pkg.libraries[i] EXCEPT !.dependencies = DependenciesJson(@),
                                       !.test_dependencies = DependenciesJson(@)]]]

Dependency(doc) ==
    IF \/ ~({doc.name} \cup doc.using \subseteq Names)
       \/ doc.versions = << >> \/ Unordered(doc.versions)
    THEN Refused
    ELSE [name |-> doc.name, versions |-> UnionOf(doc.versions), uses |-> doc.using]

Dependencies(docs) == AllOf([i \in DOMAIN docs |-> Dependency(docs[i])])

(* lexically_normal: "/" is the first of an absolute path.                 *)
WithName(done, name) ==
    IF name # ".." \/ done = << >> THEN Append(done, name)
    ELSE IF Last(done) = ".." THEN Append(done, name)
    ELSE IF Last(done) = "/" THEN done ELSE Front(done)

Normal(path) ==
    LET done[i \in 0..Len(path)] == IF i = 0 THEN << >> ELSE WithName(done[i - 1], path[i])
    IN done[Len(path)]

Outside(path) == path # << >> /\ path[1] \in {"/", ".."}

WithNormalPath(lib) == [lib EXCEPT !.path = Normal(@)]

Library(doc) ==
    IF \/ ~({doc.name} \cup doc.using \cup doc.test_using \subseteq Names)
       \/ Outside(Normal(doc.path))
    THEN Refused
    ELSE WithDependencies(WithNormalPath(doc), Dependencies(doc.dependencies),
                          Dependencies(doc.test_dependencies))

ReadPackage(doc) ==
    LET libs == AllOf([i \in DOMAIN doc.libraries |-> Library(doc.libraries[i])]) IN
    IF doc.schema_version # 1 \/ doc.name \notin Names \/ doc.libraries = << >> THEN Refused
    ELSE IF libs = Refused THEN Refused
    ELSE [name |-> doc.name, version |-> doc.version, revision |-> doc.pkg_version,
          meta |-> doc.meta, libraries |-> libs]
-----------------------------------------------------------------------------
PackageOf(project) == IF project = Refused THEN Refused ELSE Package(project)

(* Distributions: a directory has one of the documents, or both, and files *)
(* [dir |-> the directories on the way, source |-> has it an extension of  *)
(* a source].                                                              *)
FromDirectory(dir) ==
    IF dir.pkg_json # << >> THEN ReadPackage(dir.pkg_json[1])
    ELSE IF dir.pkg_yaml = << >> THEN Refused
    ELSE PackageOf(Project(dir.pkg_yaml[1]))

SourcesOf(dir, lib) ==
    {f \in dir.files : /\ f.source
                       /\ \E root \in {"include", "src"} :
                             IsPrefix(Append(Normal(lib.path), root), f.dir)}

(* canonical: each directory on the way to a library is there.             *)
Reaches(dir, path) ==
    \A n \in 0..Len(path) :
        LET p == Normal(SubSeq(path, 1, n))
        IN p = << >> \/ Outside(p) \/ \E f \in dir.files : IsPrefix(p, f.dir)

(* A library that is missing is an error, and so is a file that is copied  *)
(* twice.                                                                  *)
Exports(dir, libs) ==
    /\ \A i \in DOMAIN libs : Reaches(dir, libs[i].path)
    /\ \A i, j \in DOMAIN libs : i # j => SourcesOf(dir, libs[i]) \cap SourcesOf(dir, libs[j]) = {}

(* create_sdist_in_dir, until the directory is read again.                 *)
Distribution(dir, pkg) ==
    IF ~Exports(dir, pkg.libraries) THEN Refused
    ELSE [pkg_json |-> <<ToJson(pkg)>>, pkg_yaml |-> << >>,
          files |-> UNION {SourcesOf(dir, lib) : lib \in ToSet(pkg.libraries)}]

SdistDirectory(dir) == Distribution(dir, FromDirectory(dir))
-----------------------------------------------------------------------------
(* The documents, and what is made of them.                                *)
ShorthandWord == [name : STRING, op : {"", "=", "~", "@", "^", "+"}, version : Nat]

VersionRange == [low : Nat, high : Nat]

DependencyDoc ==
    [words : Seq(ShorthandWord), dep : {NotGiven}, versions : {NotGiven}, using : {<< >>}]
    \cup [words : {NotGiven}, dep : ShorthandWord, versions : {NotGiven} \cup Seq(VersionRange),
          using : Seq(STRING)]

LibraryDoc ==
    [name : STRING, path : {NotGiven} \cup Seq(STRING), using : SUBSET STRING,
     test_using : SUBSET STRING, dependencies : Seq(DependencyDoc),
     test_dependencies : Seq(DependencyDoc)]

ManifestDoc ==
    [name : STRING, version : Nat, meta : STRING, lib : Seq(LibraryDoc), libs : Seq(LibraryDoc),
     dependencies : Seq(DependencyDoc), test_dependencies : Seq(DependencyDoc)]

DependencyData == [name : STRING, versions : Seq(VersionRange), using : SUBSET STRING]

LibraryData ==
    [name : STRING, path : Seq(STRING), using : SUBSET STRING, test_using : SUBSET STRING,
     dependencies : Seq(DependencyData), test_dependencies : Seq(DependencyData)]

PackageData ==
    [name : STRING, version : Nat, pkg_version : Int, meta : STRING, schema_version : Nat,
     libraries : Seq(LibraryData)]

Directory == [pkg_json : Seq(PackageData), pkg_yaml : Seq(ManifestDoc),
              files : SUBSET [dir : Seq(STRING), source : BOOLEAN]]

DependencyInfo == [name : Names, versions : SUBSET Nat, uses : {All} \cup SUBSET STRING]

LibraryInfo ==
    [name : Names, path : Seq(STRING), using : SUBSET Names, test_using : SUBSET Names,
     dependencies : Seq(DependencyInfo), test_dependencies : Seq(DependencyInfo)]

ProjectInfo ==
    [name : Names, version : Nat, meta : STRING, libraries : Seq(LibraryInfo),
     dependencies : Seq(DependencyInfo), test_dependencies : Seq(DependencyInfo)]

PackageInfo == [name : Names, version : Nat, revision : Int, meta : STRING,
                libraries : Seq(LibraryInfo)]
-----------------------------------------------------------------------------
(* A shorthand string means what the object with the same range and list   *)
(* means; different ranges are printed differently, and a list of ranges   *)
(* is accepted as long as each is in order.                                *)
DependenciesAreTold(docs) ==
    /\ \A doc \in docs :
          doc.words # NotGiven /\ Len(doc.words) > 2 /\ FromShorthand(doc.words) # Refused =>
              FromShorthand(doc.words) =
                  FromObject([dep |-> doc.words[1], versions |-> NotGiven,
                              using |-> [i \in 1..((Len(doc.words) - 1) \div 2) |->
                                            doc.words[2 * i + 1].name]])
    /\ LET told == {[ProjectDependency(doc) EXCEPT !.uses = All] :
                       doc \in {d \in docs : ProjectDependency(d) # Refused}}
       IN /\ Cardinality({DeclText(dep) : dep \in told}) = Cardinality(told)
          /\ \A dep \in told : UnionOf(Intervals(dep.versions)) = dep.versions

(* pkg.json may not have a dependency that accepts no version or uses what *)
(* is no name, or a library outside of the directory.                      *)
Writable(libs) ==
    \A lib \in ToSet(libs) :
        /\ ~Outside(Normal(lib.path))
        /\ \A d \in ToSet(lib.dependencies \o lib.test_dependencies) :
              d.versions # {} /\ d.uses \subseteq Names

WithNormalPaths(pkg) ==
    [pkg EXCEPT !.libraries = [i \in DOMAIN pkg.libraries |-> WithNormalPath(pkg.libraries[i])]]

IsReadBack(dir, pkg, sdist) ==
    IF ~Writable(pkg.libraries) THEN FromDirectory(sdist) = Refused
    ELSE /\ FromDirectory(sdist) = WithNormalPaths(pkg)
         /\ \A lib \in ToSet(pkg.libraries) : SourcesOf(sdist, lib) = SourcesOf(dir, lib)
         /\ (\A lib \in ToSet(pkg.libraries) : SourcesOf(dir, lib) # {}) =>
                SdistDirectory(sdist) = Distribution(dir, WithNormalPaths(pkg))

(* A distribution made of a directory is the package that the directory    *)
(* has, with the same sources for each library, and one made of it, which  *)
(* takes that each library has a source, is the same again, but that it    *)
(* says where the libraries are in the shortest form. That excepts         *)
(* packages that leave open which libraries they use (to_json asserts that *)
(* there is none), and those that pkg.json may not have but pkg.yaml may.  *)
WrittenIsReadBack(dir) ==
    LET pkg == FromDirectory(dir)
        sdist == SdistDirectory(dir)
    IN pkg # Refused /\ ~Implicit(pkg) /\ sdist # Refused => IsReadBack(dir, pkg, sdist)
=============================================================================
