--------------------------- MODULE AlgorithmsProofs ---------------------------
(***************************************************************************)
(* The algebra of requirements for any sets of versions and of libraries,  *)
(* the candidates among any packages and what they require, the plan of a  *)
(* library with any files, texts of any length (commands and how they are  *)
(* quoted, flags and how they are split, names, package ids, the pairs of  *)
(* a libman file), and any package and the distribution made of it.        *)
(***************************************************************************)
EXTENDS Algorithms, SequenceTheorems, FiniteSetTheorems, WellFoundedInduction, TLAPS

Candidates == SolverVersions \X SUBSET SolverLibraries

MeaningIn(r) == Alg!Meaning(r, SolverLibraries)

LEMMA MeaningIsOfCandidates ==
  ASSUME NEW V \in SUBSET SolverVersions, NEW U \in SUBSET SolverLibraries
  PROVE  MeaningIn(Alg!Requirement(V, U)) = {c \in Candidates : c[1] \in V /\ U \subseteq c[2]}
<1>1. U # All
  BY AllIsNoList
<1>2. QED
  BY <1>1 DEF MeaningIn, Alg!Meaning, Alg!Requirement, Candidates

(* Both imply a term exactly if they are in what it means.                 *)
LEMMA ImpliedByIsContainment ==
  ASSUME NEW V \in SUBSET SolverVersions, NEW U \in SUBSET SolverLibraries,
         NEW W \in SUBSET SolverVersions, NEW T \in SUBSET SolverLibraries, V # {}, W # {}
  PROVE  /\ Alg!ImpliedBy(Alg!Requirement(V, U), Alg!Requirement(W, T)) <=>
                MeaningIn(Alg!Requirement(W, T)) \subseteq MeaningIn(Alg!Requirement(V, U))
         /\ Alg!Excludes(Alg!Requirement(V, U), Alg!Requirement(W, T)) <=>
                MeaningIn(Alg!Requirement(V, U)) \cap MeaningIn(Alg!Requirement(W, T)) = {}
<1> DEFINE A == {c \in Candidates : c[1] \in V /\ U \subseteq c[2]}
           B == {c \in Candidates : c[1] \in W /\ T \subseteq c[2]}
<1>1. MeaningIn(Alg!Requirement(V, U)) = A /\ MeaningIn(Alg!Requirement(W, T)) = B
  BY MeaningIsOfCandidates
<1>2. Alg!ImpliedBy(Alg!Requirement(V, U), Alg!Requirement(W, T)) <=> W \subseteq V /\ U \subseteq T
  BY AllIsNoList DEF Alg!ImpliedBy, Alg!Requirement
<1>3. ASSUME B \subseteq A PROVE W \subseteq V /\ U \subseteq T
  <2>1. ASSUME NEW w \in W PROVE w \in V /\ U \subseteq T
    <3>1. <<w, T>> \in B
      BY DEF Candidates
    <3>2. <<w, T>> \in A
      BY <1>3, <3>1
    <3>3. QED
      BY <3>2
  <2>2. QED
    BY <2>1
<1>4. ASSUME W \subseteq V, U \subseteq T PROVE B \subseteq A
  BY <1>4
<1>5. ASSUME A \cap B = {} PROVE V \cap W = {}
  <2>1. ASSUME NEW v \in V \cap W PROVE FALSE
    <3>1. <<v, SolverLibraries>> \in A \cap B
      BY DEF Candidates
    <3>2. QED
      BY <1>5, <3>1
  <2>2. QED
    BY <2>1
<1>6. ASSUME V \cap W = {} PROVE A \cap B = {}
  BY <1>6
<1>7. Alg!Excludes(Alg!Requirement(V, U), Alg!Requirement(W, T)) <=> V \cap W = {}
  BY DEF Alg!Excludes, Alg!Requirement
<1> HIDE DEF A, B
<1>8. QED
  BY <1>1, <1>2, <1>3, <1>4, <1>5, <1>6, <1>7

(* A result is that requirement, or none, which means nothing. *)
LEMMA ResultMeans ==
  ASSUME NEW V \in SUBSET SolverVersions, NEW U \in SUBSET SolverLibraries
  PROVE  /\ Alg!MeaningOf(<<Alg!Requirement(V, U)>>, SolverLibraries) =
                {c \in Candidates : c[1] \in V /\ U \subseteq c[2]}
         /\ Alg!MeaningOf(<< >>, SolverLibraries) = {}
<1>1. <<Alg!Requirement(V, U)>> # << >> /\ <<Alg!Requirement(V, U)>>[1] = Alg!Requirement(V, U)
  OBVIOUS
<1>2. QED
  BY <1>1, MeaningIsOfCandidates DEF Alg!MeaningOf, MeaningIn

LEMMA AlgebraIsExact ==
  ASSUME NEW a \in Requirements, NEW b \in Requirements
  PROVE  Alg!AlgebraIsOfCandidates(a, b, SolverLibraries)
<1> SUFFICES ASSUME a.uses # All, b.uses # All
             PROVE  LET A == Alg!Meaning(a, SolverLibraries)
                        B == Alg!Meaning(b, SolverLibraries)
                    IN /\ a.versions # {} /\ b.versions # {} =>
                              /\ Alg!ImpliedBy(a, b) <=> B \subseteq A
                              /\ Alg!Excludes(a, b) <=> A \cap B = {}
                       /\ Alg!MeaningOf(Alg!Intersection(a, b), SolverLibraries) = A \cap B
                       /\ A \cup B \subseteq Alg!MeaningOf(Alg!Union(a, b), SolverLibraries)
                       /\ Alg!MeaningOf(Alg!Difference(a, b), SolverLibraries) \subseteq A \ B
  BY DEF Alg!AlgebraIsOfCandidates
<1>1. PICK V \in SUBSET SolverVersions, U \in SUBSET SolverLibraries : a = Alg!Requirement(V, U)
  BY DEF Requirements, Alg!Requirement
<1>2. PICK W \in SUBSET SolverVersions, T \in SUBSET SolverLibraries : b = Alg!Requirement(W, T)
  BY DEF Requirements, Alg!Requirement
<1>3. /\ a.versions = V /\ a.uses = U /\ b.versions = W /\ b.uses = T
      /\ U # All /\ T # All
  BY <1>1, <1>2 DEF Alg!Requirement
<1> DEFINE A == {c \in Candidates : c[1] \in V /\ U \subseteq c[2]}
           B == {c \in Candidates : c[1] \in W /\ T \subseteq c[2]}
<1>4. Alg!Meaning(a, SolverLibraries) = A /\ Alg!Meaning(b, SolverLibraries) = B
  BY <1>1, <1>2, MeaningIsOfCandidates DEF MeaningIn
<1>5. V # {} /\ W # {} => (Alg!ImpliedBy(a, b) <=> B \subseteq A) /\ (Alg!Excludes(a, b) <=> A \cap B = {})
  <2>1. MeaningIn(a) = A /\ MeaningIn(b) = B
    BY <1>4 DEF MeaningIn
  <2> HIDE DEF A, B
  <2>2. QED
    BY <1>1, <1>2, <2>1, ImpliedByIsContainment
<1>6. Alg!MeaningOf(Alg!Intersection(a, b), SolverLibraries) = A \cap B
  <2>1. Alg!Intersection(a, b) = IF V \cap W = {} THEN << >> ELSE <<Alg!Requirement(V \cap W, U \cup T)>>
    BY <1>3 DEF Alg!Intersection, Alg!UnionUsages
  <2>2. CASE V \cap W = {}
    <3>1. Alg!MeaningOf(Alg!Intersection(a, b), SolverLibraries) = {}
      BY <2>1, <2>2, ResultMeans
    <3>2. QED
      BY <2>2, <3>1
  <2>3. CASE V \cap W # {}
    <3>1. V \cap W \in SUBSET SolverVersions /\ U \cup T \in SUBSET SolverLibraries
      OBVIOUS
    <3>2. Alg!MeaningOf(<<Alg!Requirement(V \cap W, U \cup T)>>, SolverLibraries) =
              {c \in Candidates : c[1] \in V \cap W /\ U \cup T \subseteq c[2]}
      BY <3>1, ResultMeans
    <3>3. QED
      BY <2>1, <2>3, <3>2
  <2>4. QED
    BY <2>2, <2>3
<1>7. A \cup B \subseteq Alg!MeaningOf(Alg!Union(a, b), SolverLibraries)
  <2>1. Alg!Union(a, b) = IF V \cup W = {} THEN << >> ELSE <<Alg!Requirement(V \cup W, U \cap T)>>
    BY <1>3 DEF Alg!Union, Alg!IntersectUsages
  <2>2. CASE V \cup W = {}
    BY <2>2
  <2>3. CASE V \cup W # {}
    <3>1. V \cup W \in SUBSET SolverVersions /\ U \cap T \in SUBSET SolverLibraries
      OBVIOUS
    <3>2. Alg!MeaningOf(<<Alg!Requirement(V \cup W, U \cap T)>>, SolverLibraries) =
              {c \in Candidates : c[1] \in V \cup W /\ U \cap T \subseteq c[2]}
      BY <3>1, ResultMeans
    <3>3. Alg!MeaningOf(Alg!Union(a, b), SolverLibraries) =
              {c \in Candidates : c[1] \in V \cup W /\ U \cap T \subseteq c[2]}
      BY <2>1, <2>3, <3>2
    <3>4. QED
      BY <3>3
  <2>4. QED
    BY <2>2, <2>3
<1>8. Alg!MeaningOf(Alg!Difference(a, b), SolverLibraries) \subseteq A \ B
  <2>1. \/ Alg!Difference(a, b) = << >>
        \/ Alg!Difference(a, b) = <<Alg!Requirement(V \ W, U \cup T)>>
    BY <1>3 DEF Alg!Difference, Alg!UnionUsages
  <2>2. \/ Alg!MeaningOf(Alg!Difference(a, b), SolverLibraries) = {}
        \/ Alg!MeaningOf(Alg!Difference(a, b), SolverLibraries) =
               {c \in Candidates : c[1] \in V \ W /\ U \cup T \subseteq c[2]}
    <3>1. V \ W \in SUBSET SolverVersions /\ U \cup T \in SUBSET SolverLibraries
      OBVIOUS
    <3>2. Alg!MeaningOf(<<Alg!Requirement(V \ W, U \cup T)>>, SolverLibraries) =
              {c \in Candidates : c[1] \in V \ W /\ U \cup T \subseteq c[2]}
      BY <3>1, ResultMeans
    <3>3. QED
      BY <2>1, <3>2, ResultMeans
  <2>3. QED
    BY <2>2
<1> HIDE DEF A, B
<1>9. QED
  BY <1>3, <1>4, <1>5, <1>6, <1>7, <1>8
-----------------------------------------------------------------------------
(* What may be in a path: a directory (those of the code are named here,   *)
(* as the provers do not know of a text that it is a STRING), and the      *)
(* names of files.                                                         *)
Part == STRING \cup {"obj", "timestamps", "test"}
        \cup Seq(STRING) \cup {<<l, ".o">> : l \in Seq(STRING)}

(* The path of e, in the directories s below directory x of out.           *)
Placed(out, x, s, e) == Append(out, x) \o Append(s, e)

(* The path of f, in the directories t below out.                          *)
Below(out, t, f) == out \o Append(t, f)

(* Below one directory, what is put into the directories x and y under the *)
(* same path has one path only if these are one and the rest is the same.  *)
LEMMA PathsInDirectories ==
  ASSUME NEW out \in Seq(Part), NEW x \in Part, NEW y \in Part,
         NEW s \in Seq(Part), NEW t \in Seq(Part), NEW e \in Part, NEW f \in Part,
         Placed(out, x, s, e) = Placed(out, y, t, f)
  PROVE  x = y /\ s = t /\ e = f
<1> DEFINE a == Append(out, x)
           b == Append(out, y)
           u == Append(s, e)
           v == Append(t, f)
<1>1. /\ a \in Seq(Part) /\ Len(a) = Len(out) + 1 /\ a[Len(out) + 1] = x
      /\ b \in Seq(Part) /\ Len(b) = Len(out) + 1 /\ b[Len(out) + 1] = y
      /\ u \in Seq(Part) /\ v \in Seq(Part)
  BY AppendProperties
<1>2. a \o u = b \o v /\ Len(out) \in Nat /\ Len(u) \in Nat /\ Len(v) \in Nat
  BY <1>1, LenProperties DEF Placed
<1> HIDE DEF a, b, u, v
<1>3. (a \o u)[Len(out) + 1] = x /\ (b \o v)[Len(out) + 1] = y
  BY <1>1, <1>2, ConcatProperties
<1>4. x = y
  BY <1>2, <1>3
<1>5. a = b
  BY <1>4 DEF a, b
<1>6. u = v
  BY <1>1, <1>2, <1>5, ConcatSimplifications
<1>7. s = t /\ e = f
  BY <1>6, AppendInjective DEF u, v
<1>8. QED
  BY <1>4, <1>7

(* A path in directory x is that of something beside it only if that is in *)
(* a directory of the same name.                                           *)
LEMMA PathsBesideDirectory ==
  ASSUME NEW out \in Seq(Part), NEW x \in Part,
         NEW s \in Seq(Part), NEW t \in Seq(Part), NEW e \in Part, NEW f \in Part,
         Placed(out, x, s, e) = Below(out, t, f)
  PROVE  t # << >> /\ t[1] = x
<1> DEFINE u == Append(s, e)
           v == Append(t, f)
           h == <<x>>
           w == h \o u
<1>1. /\ u \in Seq(Part) /\ Len(u) = Len(s) + 1
      /\ v \in Seq(Part) /\ Len(v) = Len(t) + 1 /\ \A i \in 1..Len(t) : v[i] = t[i]
      /\ Len(s) \in Nat /\ Len(t) \in Nat
  BY AppendProperties, LenProperties
<1>2. h \in Seq(Part) /\ Append(out, x) = out \o h /\ Len(h) = 1 /\ h[1] = x
  BY AppendIsConcat
<1> HIDE DEF u, v, h
<1>3. (out \o h) \o u = out \o w
  BY <1>1, <1>2, ConcatAssociative, SMTT(40)
<1>4. w \in Seq(Part) /\ Len(w) = Len(u) + 1 /\ w[1] = x
  BY <1>1, <1>2, ConcatProperties
<1>5. out \o w = out \o v
  BY <1>2, <1>3 DEF u, v, Placed, Below
<1> HIDE DEF w
<1>6. w = v
  BY <1>1, <1>4, <1>5, ConcatSimplifications
<1>7. Len(t) >= 1 /\ t[1] = x
  BY <1>1, <1>4, <1>6
<1>8. QED
  BY <1>7, EmptySeq

LEMMA FileParts ==
  ASSUME NEW f \in Lib!File
  PROVE  /\ f.dir \in Seq(Part)
         /\ <<Lib!Leaf(f), ".o">> \in Part
         /\ <<f.name>> \in Part
<1>1. f.dir \in Seq(STRING) /\ f.name \in STRING /\ f.sub \in STRING /\ f.ext \in STRING
  BY DEF Lib!File
<1>2. Lib!Leaf(f) \in Seq(STRING) /\ <<f.name>> \in Seq(STRING)
  BY <1>1 DEF Lib!Leaf
<1>3. Seq(STRING) \subseteq Seq(Part)
  BY DEF Part
<1>4. QED
  BY <1>1, <1>2, <1>3 DEF Part

LEMMA FileIsItsParts ==
  ASSUME NEW f \in Lib!File, NEW g \in Lib!File, f.root = g.root, f.dir = g.dir,
         f.name = g.name, f.sub = g.sub, f.ext = g.ext
  PROVE  f = g
BY DEF Lib!File

LEMMA ObjectPathTellsFile ==
  ASSUME NEW out \in Seq(Part), NEW x \in Part, NEW y \in Part, NEW c, NEW d,
         c.subdir = Append(out, x), d.subdir = Append(out, y),
         c.file \in Lib!File, d.file \in Lib!File, Lib!ObjectPath(c) = Lib!ObjectPath(d)
  PROVE  x = y /\ (c.file.root = d.file.root => c.file = d.file)
<1> DEFINE e == <<Lib!Leaf(c.file), ".o">>
           f == <<Lib!Leaf(d.file), ".o">>
<1>1. /\ c.file.dir \in Seq(Part) /\ e \in Part
      /\ d.file.dir \in Seq(Part) /\ f \in Part
  BY FileParts
<1>2. Placed(out, x, c.file.dir, e) = Placed(out, y, d.file.dir, f)
  BY DEF Lib!ObjectPath, Placed
<1> HIDE DEF e, f
<1>3. x = y /\ c.file.dir = d.file.dir /\ e = f
  BY <1>1, <1>2, PathsInDirectories
<1>4. Lib!Leaf(c.file) = Lib!Leaf(d.file)
  BY <1>3 DEF e, f
<1>5. c.file.name = d.file.name /\ c.file.sub = d.file.sub /\ c.file.ext = d.file.ext
  BY <1>4 DEF Lib!Leaf
<1>6. QED
  BY <1>3, <1>5, FileIsItsParts
(* What a compilation is: it follows from its file, and for a header from  *)
(* that it is one.                                                         *)
OfSource(c, pkg, lib, params) ==
    /\ c.file \in Lib!Of(lib, "src", "source")
    /\ c = Lib!CompileFile(Lib!SourceRules(pkg, lib), c.file, Append(Lib!OutDir(lib, params), "obj"))

OfHeader(c, pkg, lib, params, root) ==
    /\ c.file \in Lib!Of(lib, root, "header")
    /\ c = Lib!CompileFile(IF root = "src" THEN Lib!SourceHeaderRules(pkg, lib)
                           ELSE Lib!PublicHeaderRules(pkg, lib),
                           c.file, Append(Lib!OutDir(lib, params), "timestamps"))

OfMain(c, pkg, lib, params) ==
    /\ c.file \in Lib!Of(lib, "src", "app") \cup Lib!Of(lib, "src", "test")
    /\ c = Lib!Executable(pkg, lib, params, c.file).main

LEMMA CompilationIsOfFile ==
  ASSUME NEW pkg, NEW lib, NEW params, NEW c \in Lib!Compilations(pkg, lib, params)
  PROVE  \/ OfSource(c, pkg, lib, params)
         \/ OfHeader(c, pkg, lib, params, "src")
         \/ OfHeader(c, pkg, lib, params, "include")
         \/ OfMain(c, pkg, lib, params)
<1>1. \/ c \in Lib!LibCompiles(pkg, lib, params)
      \/ c \in Lib!HeaderChecks(pkg, lib, params)
      \/ \E exe \in Lib!Executables(pkg, lib, params) : c = exe.main
  BY DEF Lib!Compilations
<1>2. CASE c \in Lib!LibCompiles(pkg, lib, params)
  BY <1>2 DEF Lib!LibCompiles, OfSource, Lib!CompileFile
<1>3. CASE c \in Lib!HeaderChecks(pkg, lib, params)
  BY <1>3 DEF Lib!HeaderChecks, OfHeader, Lib!CompileFile
<1>4. CASE \E exe \in Lib!Executables(pkg, lib, params) : c = exe.main
  <2>1. PICK f \in Lib!MainFiles(lib, params) : c = Lib!Executable(pkg, lib, params, f).main
    BY <1>4 DEF Lib!Executables
  <2>2. c.file = f
    BY <2>1 DEF Lib!Executable, Lib!CompileFile
  <2>3. QED
    BY <2>1, <2>2 DEF OfMain, Lib!MainFiles
<1>5. QED
  BY <1>1, <1>2, <1>3, <1>4

(* Its directory, its root and whether it only checks the syntax.          *)
LEMMA CompilationIsPlaced ==
  ASSUME NEW pkg, NEW lib \in Lib!Library, NEW params \in Lib!Params,
         NEW c \in Lib!Compilations(pkg, lib, params)
  PROVE  /\ c.file \in Lib!File
         /\ \/ /\ c.subdir = Append(Lib!OutDir(lib, params), "obj")
               /\ c.file.root = "src"
            \/ /\ c.subdir = Append(Lib!OutDir(lib, params), "timestamps")
               /\ c.rules.syntax_only
               /\ \E root \in {"src", "include"} : OfHeader(c, pkg, lib, params, root)
<1>1. lib.files \subseteq Lib!File
  BY DEF Lib!Library
<1>2. CASE OfSource(c, pkg, lib, params)
  BY <1>1, <1>2 DEF OfSource, Lib!CompileFile, Lib!Of
<1>3. ASSUME NEW root \in {"src", "include"}, OfHeader(c, pkg, lib, params, root)
      PROVE  /\ c.file \in Lib!File /\ c.rules.syntax_only
             /\ c.subdir = Append(Lib!OutDir(lib, params), "timestamps")
  <2>1. c.file \in Lib!File
    BY <1>1, <1>3 DEF OfHeader, Lib!Of
  <2>2. /\ c.subdir = Append(Lib!OutDir(lib, params), "timestamps")
        /\ c.rules = IF root = "src" THEN Lib!SourceHeaderRules(pkg, lib)
                     ELSE Lib!PublicHeaderRules(pkg, lib)
    BY <1>3 DEF OfHeader, Lib!CompileFile
  <2>3. Lib!SourceHeaderRules(pkg, lib).syntax_only /\ Lib!PublicHeaderRules(pkg, lib).syntax_only
    BY DEF Lib!SourceHeaderRules, Lib!SourceRules, Lib!PublicHeaderRules
  <2>4. QED
    BY <2>1, <2>2, <2>3
<1>4. CASE OfMain(c, pkg, lib, params)
  <2>1. c.file \in Lib!File /\ c.file.root = "src"
    BY <1>1, <1>4 DEF OfMain, Lib!Of
  <2>2. c.subdir = Append(Lib!OutDir(lib, params), "obj")
    BY <1>4 DEF OfMain, Lib!Executable, Lib!CompileFile
  <2>3. QED
    BY <2>1, <2>2
<1>5. QED
  BY <1>2, <1>3, <1>4, CompilationIsOfFile

LEMMA OutDirIsPath ==
  ASSUME NEW lib \in Lib!Library, NEW params \in Lib!Params
  PROVE  /\ Lib!OutDir(lib, params) \in Seq(Part)
         /\ "obj" \in Part /\ "timestamps" \in Part /\ "test" \in Part
<1>1. Lib!OutDir(lib, params) \in Seq(STRING)
  BY DEF Lib!OutDir, Lib!Library, Lib!Params
<1>2. Seq(STRING) \subseteq Seq(Part)
  BY DEF Part
<1>3. "obj" \in Part /\ "timestamps" \in Part /\ "test" \in Part
  BY DEF Part
<1>4. QED
  BY <1>1, <1>2, <1>3

(* Objects and timestamps are in directories of their own. In one of them, *)
(* the same path is of one file, or of headers under the two roots.        *)
LEMMA ObjectsAreDistinct ==
  ASSUME NEW pkg, NEW lib \in Lib!Library, NEW params \in Lib!Params,
         NEW c \in Lib!Compilations(pkg, lib, params),
         NEW d \in Lib!Compilations(pkg, lib, params),
         Lib!ObjectPath(c) = Lib!ObjectPath(d), c # d
  PROVE  c.rules.syntax_only /\ d.rules.syntax_only /\ c.file.root # d.file.root
<1> DEFINE out == Lib!OutDir(lib, params)
<1>1. out \in Seq(Part) /\ "obj" \in Part /\ "timestamps" \in Part
  BY OutDirIsPath
<1>2. c.file \in Lib!File /\ d.file \in Lib!File
  BY CompilationIsPlaced
<1>3. PICK x \in {"obj", "timestamps"} : c.subdir = Append(out, x)
  BY CompilationIsPlaced
<1>4. PICK y \in {"obj", "timestamps"} : d.subdir = Append(out, y)
  BY CompilationIsPlaced
<1>5. x = y /\ (c.file.root = d.file.root => c.file = d.file)
  <2> HIDE DEF out
  <2>1. x \in Part /\ y \in Part
    BY <1>1
  <2>2. QED
    BY <1>1, <1>2, <1>3, <1>4, <2>1, ObjectPathTellsFile
<1>6. c.file # d.file
  <2> SUFFICES ASSUME c.file = d.file PROVE FALSE
    OBVIOUS
  <2>1. \/ OfSource(c, pkg, lib, params) \/ OfMain(c, pkg, lib, params)
        \/ \E root \in {"src", "include"} : OfHeader(c, pkg, lib, params, root)
    BY CompilationIsOfFile
  <2>2. \/ OfSource(d, pkg, lib, params) \/ OfMain(d, pkg, lib, params)
        \/ \E root \in {"src", "include"} : OfHeader(d, pkg, lib, params, root)
    BY CompilationIsOfFile
  <2>3. CASE OfSource(c, pkg, lib, params)
    BY <2>2, <2>3 DEF OfSource, OfMain, OfHeader, Lib!Of
  <2>4. CASE OfMain(c, pkg, lib, params)
    BY <2>2, <2>4 DEF OfSource, OfMain, OfHeader, Lib!Of
  <2>5. CASE \E root \in {"src", "include"} : OfHeader(c, pkg, lib, params, root)
    BY <2>2, <2>5 DEF OfSource, OfMain, OfHeader, Lib!Of
  <2>6. QED
    BY <2>1, <2>3, <2>4, <2>5
<1>7. c.file.root # d.file.root
  BY <1>5, <1>6
<1>8. QED
  <2> HIDE DEF out
  <2>1. QED
    BY <1>1, <1>3, <1>4, <1>5, <1>7, CompilationIsPlaced, AppendInjective DEF out
(* An executable is below its base, where its file is below the root.      *)
LEMMA ExecutableIsPlaced ==
  ASSUME NEW pkg, NEW lib \in Lib!Library, NEW params \in Lib!Params,
         NEW x \in Lib!Executables(pkg, lib, params)
  PROVE  /\ x.main.file \in Lib!File
         /\ Lib!Kind(x.main.file) \in {"app", "test"}
         /\ x.path = Lib!ExeBase(lib, params, x.main.file)
                        \o Append(x.main.file.dir, <<x.main.file.name>>)
<1>1. PICK f \in Lib!MainFiles(lib, params) : x = Lib!Executable(pkg, lib, params, f)
  BY DEF Lib!Executables
<1>2. x.main.file = f /\ x.path = Lib!ExeBase(lib, params, f) \o Append(f.dir, <<f.name>>)
  BY <1>1 DEF Lib!Executable, Lib!CompileFile
<1>3. f \in Lib!File /\ Lib!Kind(f) \in {"app", "test"}
  BY DEF Lib!MainFiles, Lib!Of, Lib!Library
<1>4. QED
  BY <1>2, <1>3

LEMMA PathsInOneDirectory ==
  ASSUME NEW out \in Seq(Part), NEW s \in Seq(Part), NEW t \in Seq(Part),
         NEW e \in Part, NEW f \in Part, out \o Append(s, e) = out \o Append(t, f)
  PROVE  s = t
<1>1. Append(s, e) \in Seq(Part) /\ Append(t, f) \in Seq(Part)
  BY AppendProperties
<1>2. Append(s, e) = Append(t, f)
  BY <1>1, ConcatSimplifications
<1>3. QED
  BY <1>2, AppendInjective

LEMMA ExecutablesAreDistinct ==
  ASSUME NEW pkg, NEW lib \in Lib!Library, NEW params \in Lib!Params,
         NEW x \in Lib!Executables(pkg, lib, params),
         NEW y \in Lib!Executables(pkg, lib, params), x.path = y.path
  PROVE  LET f == x.main.file
             g == y.main.file
         IN \/ Lib!Kind(f) = Lib!Kind(g) /\ f.dir = g.dir
            \/ Lib!Kind(f) = "app" /\ f.dir # << >> /\ f.dir[1] = "test"
            \/ Lib!Kind(g) = "app" /\ g.dir # << >> /\ g.dir[1] = "test"
<1> DEFINE f == x.main.file
           g == y.main.file
           out == Lib!OutDir(lib, params)
           s == <<f.name>>
           t == <<g.name>>
<1>1. /\ f \in Lib!File /\ Lib!Kind(f) \in {"app", "test"}
      /\ g \in Lib!File /\ Lib!Kind(g) \in {"app", "test"}
      /\ x.path = Lib!ExeBase(lib, params, f) \o Append(f.dir, s)
      /\ y.path = Lib!ExeBase(lib, params, g) \o Append(g.dir, t)
  BY ExecutableIsPlaced
<1>2. f.dir \in Seq(Part) /\ s \in Part /\ g.dir \in Seq(Part) /\ t \in Part
  BY <1>1, FileParts
<1>3. out \in Seq(Part) /\ "test" \in Part /\ Append(out, "test") \in Seq(Part)
  BY OutDirIsPath, AppendProperties
<1>4. /\ Lib!ExeBase(lib, params, f) = IF Lib!Kind(f) = "test" THEN Append(out, "test") ELSE out
      /\ Lib!ExeBase(lib, params, g) = IF Lib!Kind(g) = "test" THEN Append(out, "test") ELSE out
  BY DEF Lib!ExeBase
<1> HIDE DEF f, g, out, s, t
<1>5. CASE Lib!Kind(f) = Lib!Kind(g)
  <2>1. Lib!ExeBase(lib, params, f) = Lib!ExeBase(lib, params, g)
        /\ Lib!ExeBase(lib, params, f) \in Seq(Part)
    BY <1>3, <1>4, <1>5
  <2>2. f.dir = g.dir
    BY <1>1, <1>2, <2>1, PathsInOneDirectory
  <2>3. QED
    BY <1>5, <2>2 DEF f, g
<1>6. CASE Lib!Kind(f) = "test" /\ Lib!Kind(g) = "app"
  <2> DEFINE d == "test"
  <2>1. Placed(out, d, f.dir, s) = Below(out, g.dir, t) /\ d \in Part
    BY <1>1, <1>3, <1>4, <1>6 DEF Placed, Below
  <2> HIDE DEF d
  <2>2. g.dir # << >> /\ g.dir[1] = d
    BY <1>2, <1>3, <2>1, PathsBesideDirectory
  <2>3. QED
    BY <1>6, <2>2 DEF f, g, d
<1>7. CASE Lib!Kind(f) = "app" /\ Lib!Kind(g) = "test"
  <2> DEFINE d == "test"
  <2>1. Placed(out, d, g.dir, t) = Below(out, f.dir, s) /\ d \in Part
    BY <1>1, <1>3, <1>4, <1>7 DEF Placed, Below
  <2> HIDE DEF d
  <2>2. f.dir # << >> /\ f.dir[1] = d
    BY <1>2, <1>3, <2>1, PathsBesideDirectory
  <2>3. QED
    BY <1>7, <2>2 DEF f, g, d
<1>8. QED
  BY <1>1, <1>5, <1>6, <1>7

LEMMA PlanOutputsAreDistinct ==
  ASSUME NEW pkg, NEW lib \in Lib!Library, NEW params \in Lib!Params
  PROVE  Lib!OutputsAreDistinct(pkg, lib, params)
BY ObjectsAreDistinct, ExecutablesAreDistinct DEF Lib!OutputsAreDistinct
-----------------------------------------------------------------------------
LEMMA KindIsKnown ==
  ASSUME NEW f
  PROVE  Lib!Kind(f) \in {"header", "header_impl", "source", "app", "test", NoFile}
BY DEF Lib!Kind

(* What the plan of a library compiles: all of its files that are sources  *)
(* or, when they are asked for, mains and headers.                         *)
LEMMA WhatIsCompiled ==
  ASSUME NEW pkg, NEW lib \in Lib!Library, NEW params \in Lib!Params, NEW f \in lib.files,
         \/ f.root = "src" /\ Lib!Kind(f) = "source"
         \/ Lib!Kind(f) = "header" /\ params.build_tests
         \/ f.root = "src" /\ Lib!Kind(f) = "test" /\ params.build_tests
         \/ f.root = "src" /\ Lib!Kind(f) = "app" /\ params.build_apps
  PROVE  \E c \in Lib!Compilations(pkg, lib, params) : c.file = f
<1>1. f.root \in {"src", "include"}
  BY DEF Lib!Library, Lib!File
<1>2. CASE f.root = "src" /\ Lib!Kind(f) = "source"
  <2>1. \E c \in Lib!LibCompiles(pkg, lib, params) : c.file = f
    <3> DEFINE c == Lib!CompileFile(Lib!SourceRules(pkg, lib), f, Append(Lib!OutDir(lib, params), "obj"))
    <3>1. f \in Lib!Of(lib, "src", "source")
      BY <1>2 DEF Lib!Of
    <3>2. c \in Lib!LibCompiles(pkg, lib, params)
      BY <3>1 DEF Lib!LibCompiles
    <3>3. c.file = f
      BY DEF Lib!CompileFile
    <3>4. QED
      BY <3>2, <3>3
  <2>2. QED
    BY <2>1 DEF Lib!Compilations
<1>3. CASE Lib!Kind(f) = "header" /\ params.build_tests
  <2>1. \E c \in Lib!HeaderChecks(pkg, lib, params) : c.file = f
    <3> DEFINE out == Append(Lib!OutDir(lib, params), "timestamps")
               c == Lib!CompileFile(Lib!SourceHeaderRules(pkg, lib), f, out)
               d == Lib!CompileFile(Lib!PublicHeaderRules(pkg, lib), f, out)
    <3>1. f \in Lib!Of(lib, "src", "header") \/ f \in Lib!Of(lib, "include", "header")
      BY <1>1, <1>3 DEF Lib!Of
    <3>2. c \in Lib!HeaderChecks(pkg, lib, params) \/ d \in Lib!HeaderChecks(pkg, lib, params)
      BY <1>3, <3>1 DEF Lib!HeaderChecks
    <3>3. c.file = f /\ d.file = f
      BY DEF Lib!CompileFile
    <3> HIDE DEF c, d
    <3>4. QED
      BY <3>2, <3>3
  <2>2. QED
    BY <2>1 DEF Lib!Compilations
<1>4. CASE /\ f.root = "src"
           /\ \/ Lib!Kind(f) = "test" /\ params.build_tests
              \/ Lib!Kind(f) = "app" /\ params.build_apps
  <2>1. f \in Lib!MainFiles(lib, params)
    BY <1>4 DEF Lib!MainFiles, Lib!Of
  <2>2. Lib!Executable(pkg, lib, params, f).main.file = f
    BY DEF Lib!Executable, Lib!CompileFile
  <2>3. QED
    BY <2>1, <2>2 DEF Lib!Compilations, Lib!Executables
<1>5. QED
  BY <1>2, <1>3, <1>4

(* The rules of a compilation use what its library does, and what only its *)
(* tests use only for a test.                                              *)
LEMMA RulesAreOfLibrary ==
  ASSUME NEW pkg, NEW lib \in Lib!Library, NEW params \in Lib!Params,
         NEW c \in Lib!Compilations(pkg, lib, params)
  PROVE  /\ c.file \in lib.files
         /\ Lib!LibUses(pkg, lib) \subseteq c.rules.uses
         /\ c.rules.uses # Lib!LibUses(pkg, lib) => Lib!Kind(c.file) = "test"
<1>1. Lib!SourceRules(pkg, lib).uses = Lib!LibUses(pkg, lib)
  BY DEF Lib!SourceRules
<1>2. Lib!SourceHeaderRules(pkg, lib).uses = Lib!LibUses(pkg, lib)
  BY DEF Lib!SourceHeaderRules, Lib!SourceRules
<1>3. Lib!PublicHeaderRules(pkg, lib).uses = Lib!LibUses(pkg, lib)
  BY DEF Lib!PublicHeaderRules
<1>4. Lib!LibUses(pkg, lib) \subseteq Lib!TestRules(pkg, lib).uses
  BY DEF Lib!TestRules, Lib!SourceRules
<1>5. CASE OfSource(c, pkg, lib, params)
  BY <1>1, <1>5 DEF OfSource, Lib!CompileFile, Lib!Of
<1>6. ASSUME NEW root \in {"src", "include"}, OfHeader(c, pkg, lib, params, root)
      PROVE  c.file \in lib.files /\ c.rules.uses = Lib!LibUses(pkg, lib)
  BY <1>2, <1>3, <1>6 DEF OfHeader, Lib!CompileFile, Lib!Of
<1>7. CASE OfMain(c, pkg, lib, params)
  <2>1. c.rules = IF Lib!Kind(c.file) = "test" THEN Lib!TestRules(pkg, lib)
                  ELSE Lib!SourceRules(pkg, lib)
    BY <1>7 DEF OfMain, Lib!Executable, Lib!CompileFile
  <2>2. c.file \in lib.files
    BY <1>7 DEF OfMain, Lib!Of
  <2>3. QED
    BY <1>1, <1>4, <2>1, <2>2
<1>8. QED
  BY <1>5, <1>6, <1>7, CompilationIsOfFile
LEMMA PlanAnswers ==
  ASSUME NEW plan, NEW asked,
         \A p \in plan : p.lib \in Lib!Library /\ p.params \in Lib!Params,
         \A p, q \in plan : p.lib.files \cap q.lib.files # {} => p = q
  PROVE  Lib!AskedIsCompiledOrMissing(plan, asked)
<1> DEFINE result == Lib!CompileFiles(plan, asked)
           all == Lib!AllCompilations(plan)
           found == {c \in all : Lib!SourcePath(c) \in asked}
<1>1. /\ result.missing = asked \ {Lib!SourcePath(c) : c \in found}
      /\ result.missing # {} => result.compiled = {}
      /\ result.missing = {} => result.compiled = found
  BY DEF Lib!CompileFiles
<1>2. \A c : c \in all <=> \E p \in plan : c \in Lib!Compilations(p.pkg, p.lib, p.params)
  BY DEF Lib!AllCompilations
<1> HIDE DEF result, all
<1>3. result.missing = {} => asked = {Lib!SourcePath(c) : c \in result.compiled}
  <2> SUFFICES ASSUME result.missing = {}
               PROVE  asked = {Lib!SourcePath(c) : c \in found}
    BY <1>1
  <2>1. asked \subseteq {Lib!SourcePath(c) : c \in found}
    BY <1>1
  <2>2. {Lib!SourcePath(c) : c \in found} \subseteq asked
    OBVIOUS
  <2>3. QED
    BY <2>1, <2>2
<1>4. ASSUME NEW p \in plan, NEW f \in p.lib.files,
             <<f.root>> \o Lib!RelativePath(f) \in result.missing
      PROVE  \/ Lib!Kind(f) \in {NoFile, "header_impl"}
             \/ f.root = "include" /\ Lib!Kind(f) # "header"
             \/ /\ Lib!Kind(f) \in {"header", "test"} => ~p.params.build_tests
                /\ Lib!Kind(f) = "app" => ~p.params.build_apps
                /\ Lib!Kind(f) # "source"
  <2>1. \A c \in Lib!Compilations(p.pkg, p.lib, p.params) : c.file # f
    <3> SUFFICES ASSUME NEW c \in Lib!Compilations(p.pkg, p.lib, p.params), c.file = f
                 PROVE  FALSE
      OBVIOUS
    <3>1. Lib!SourcePath(c) = <<f.root>> \o Lib!RelativePath(f)
      BY DEF Lib!SourcePath
    <3>2. c \in found
      BY <1>1, <1>2, <1>4, <3>1
    <3>3. QED
      BY <1>1, <1>4, <3>1, <3>2
  <2>2. p.params \in Lib!Params /\ f.root \in {"src", "include"}
    BY DEF Lib!Library, Lib!File
  <2>3. QED
    BY <2>1, <2>2, WhatIsCompiled, KindIsKnown
<1>5. ASSUME NEW c \in result.compiled, NEW p \in plan, c.file \in p.lib.files
      PROVE  /\ Lib!LibUses(p.pkg, p.lib) \subseteq c.rules.uses
             /\ c.rules.uses \cap (Lib!TestUses(p.pkg, p.lib) \ Lib!LibUses(p.pkg, p.lib)) # {} =>
                    Lib!Kind(c.file) = "test"
  <2>1. c \in all
    BY <1>1, <1>5
  <2>2. PICK q \in plan : c \in Lib!Compilations(q.pkg, q.lib, q.params)
    BY <1>2, <2>1
  <2>3. c.file \in q.lib.files
    BY <2>2, RulesAreOfLibrary
  <2>4. q = p
    BY <1>5, <2>3
  <2>5. QED
    BY <2>2, <2>4, RulesAreOfLibrary
<1>6. QED
  BY <1>1, <1>3, <1>4, <1>5 DEF Lib!AskedIsCompiledOrMissing, result
-----------------------------------------------------------------------------
(* The libraries that a candidate uses, as the least closed set.           *)

(* A set of numbers has a least one. *)
LEMMA LeastNumber ==
  ASSUME NEW T \in SUBSET Nat, T # {}
  PROVE  \E n \in T : \A m \in Nat : m < n => m \notin T
<1>1. PICK n \in T : \A m \in T : ~(<<m, n>> \in OpToRel(<, Nat))
  BY NatLessThanWellFounded, WFMin, Zenon
<1>2. \A m \in T : ~(m < n)
  BY <1>1 DEF OpToRel
<1>3. QED
  BY <1>2

Rounds(entry, uses, n, f) ==
   f = [m \in 0..n |-> IF m = 0 THEN uses ELSE Alg!MoreUses(entry, f[m - 1])]

LEMMA RoundsExist ==
  ASSUME NEW entry, NEW uses, NEW k \in Nat
  PROVE  \E f : Rounds(entry, uses, k, f)
<1> DEFINE T == {n \in Nat : ~\E f : Rounds(entry, uses, n, f)}
<1>1. SUFFICES ASSUME T # {} PROVE FALSE
  OBVIOUS
<1>2. PICK n \in T : \A m \in Nat : m < n => m \notin T
  BY <1>1, LeastNumber
<1>3. CASE n = 0
  <2>1. Rounds(entry, uses, 0, [m \in 0..0 |-> uses])
    BY DEF Rounds
  <2>2. QED
    BY <1>2, <1>3, <2>1
<1>4. CASE n # 0
  <2>1. n - 1 \in Nat /\ n - 1 < n
    BY <1>4
  <2>2. PICK f : Rounds(entry, uses, n - 1, f)
    BY <1>2, <2>1
  <2> DEFINE g == [m \in 0..n |-> IF m = n THEN Alg!MoreUses(entry, f[n - 1]) ELSE f[m]]
  <2>3. \A m \in 0..n : g[m] = IF m = 0 THEN uses ELSE Alg!MoreUses(entry, g[m - 1])
    <3>1. \A m \in 0..(n - 1) : f[m] = IF m = 0 THEN uses ELSE Alg!MoreUses(entry, f[m - 1])
      BY <2>2 DEF Rounds
    <3>2. ASSUME NEW m \in 0..n, m # n PROVE m \in 0..(n - 1) /\ (m # 0 => m - 1 \in 0..n /\ m - 1 # n)
      BY <1>4, <3>2
    <3>3. ASSUME NEW m \in 0..n, m = n PROVE m # 0 /\ m - 1 \in 0..n /\ m - 1 # n
      BY <1>4, <3>3
    <3>4. QED
      BY <3>1, <3>2, <3>3
  <2>4. Rounds(entry, uses, n, g)
    BY <2>3 DEF Rounds
  <2>5. QED
    BY <1>2, <2>4
<1>5. QED
  BY <1>3, <1>4

(* FiniteSets of the module that is instantiated.                          *)
LEMMA SameCardinality == \A S : Alg!Cardinality(S) = Cardinality(S)
  BY DEF Alg!Cardinality, Cardinality, Alg!IsFiniteSet, IsFiniteSet

(* What each round of the loop yields. *)
LEMMA RoundsOfClosedUses ==
  ASSUME NEW entry, NEW uses, IsFiniteSet(Alg!Libraries(entry))
  PROVE  \E f : Rounds(entry, uses, Cardinality(Alg!Libraries(entry)), f)
                /\ Alg!ClosedUses(entry, uses) = f[Cardinality(Alg!Libraries(entry))]
<1>1. Cardinality(Alg!Libraries(entry)) \in Nat
  BY FS_CardinalityType
<1>2. \E f : Rounds(entry, uses, Cardinality(Alg!Libraries(entry)), f)
  BY <1>1, RoundsExist
<1>3. QED
  BY <1>2, SameCardinality DEF Alg!ClosedUses, Rounds

(* What a round adds is used by what there was.                            *)
LEMMA MoreUsesGrows ==
  ASSUME NEW entry, NEW uses
  PROVE  /\ uses \subseteq Alg!MoreUses(entry, uses)
         /\ \A S : uses \subseteq S /\ (\A k \in S : entry.libs[k].using \subseteq S)
               => Alg!MoreUses(entry, uses) \subseteq S
         /\ Alg!MoreUses(entry, uses) = uses => \A k \in uses : entry.libs[k].using \subseteq uses
BY DEF Alg!MoreUses

(* Every round is within whatever is closed, and either is closed or has   *)
(* as many libraries as there were rounds.                                 *)
LEMMA RoundsGrow ==
  ASSUME NEW entry, NEW uses, NEW k \in Nat, NEW f, Rounds(entry, uses, k, f),
         NEW S, IsFiniteSet(S), uses \subseteq S, \A l \in S : entry.libs[l].using \subseteq S
  PROVE  \A n \in 0..k :
            /\ uses \subseteq f[n] /\ f[n] \subseteq S
            /\ Alg!MoreUses(entry, f[n]) = f[n] \/ Cardinality(f[n]) >= n
<1> DEFINE Grown(n) == /\ uses \subseteq f[n] /\ f[n] \subseteq S
                       /\ Alg!MoreUses(entry, f[n]) = f[n] \/ Cardinality(f[n]) >= n
           T == {n \in 0..k : ~Grown(n)}
<1>1. SUFFICES ASSUME T # {} PROVE FALSE
  OBVIOUS
<1>2. PICK n \in T : \A m \in Nat : m < n => m \notin T
  <2>1. T \in SUBSET Nat
    OBVIOUS
  <2>2. QED
    BY <1>1, <2>1, LeastNumber
<1>3. f[0] = uses /\ \A m \in 1..k : f[m] = Alg!MoreUses(entry, f[m - 1])
  BY DEF Rounds
<1>4. CASE n = 0
  <2>1. IsFiniteSet(uses) /\ Cardinality(uses) \in Nat
    BY FS_Subset, FS_CardinalityType
  <2>2. QED
    BY <1>2, <1>3, <1>4, <2>1
<1>5. CASE n # 0
  <2>1. n \in 1..k /\ n - 1 \in Nat /\ n - 1 \in 0..k /\ n - 1 < n
    BY <1>5
  <2>2. Grown(n - 1)
    BY <1>2, <2>1
  <2>3. f[n] = Alg!MoreUses(entry, f[n - 1])
    BY <1>3, <2>1
  <2>4. f[n - 1] \subseteq f[n] /\ f[n] \subseteq S
    BY <2>2, <2>3, MoreUsesGrows
  <2>5. CASE f[n] = f[n - 1]
    BY <1>2, <2>2, <2>3, <2>4, <2>5
  <2>6. CASE f[n] # f[n - 1]
    <3>1. IsFiniteSet(f[n]) /\ IsFiniteSet(f[n - 1])
      BY <2>2, <2>4, FS_Subset
    <3>2. /\ Cardinality(f[n - 1]) \in Nat /\ Cardinality(f[n]) \in Nat
          /\ Cardinality(f[n - 1]) <= Cardinality(f[n])
          /\ Cardinality(f[n - 1]) # Cardinality(f[n])
      BY <2>4, <2>6, <3>1, FS_Subset, FS_CardinalityType
    <3>3. Cardinality(f[n - 1]) >= n - 1
      BY <2>2, <2>3, <2>6
    <3>4. Cardinality(f[n]) >= n
      BY <2>1, <3>2, <3>3
    <3>5. QED
      BY <1>2, <2>2, <2>4, <3>4
  <2>7. QED
    BY <2>5, <2>6
<1>6. QED
  BY <1>4, <1>5

(* The loop yields what is used or reached from there.                     *)
LEMMA ClosedUsesIsReached ==
  ASSUME NEW entry, IsEntry(entry), NEW uses, uses \subseteq Alg!Libraries(entry)
  PROVE  Alg!ClosedUses(entry, uses) = {l \in Alg!Libraries(entry) : Alg!Reached(entry, uses, l)}
<1> DEFINE Libs == Alg!Libraries(entry)
           k == Cardinality(Libs)
           closed == Alg!ClosedUses(entry, uses)
<1>1. IsFiniteSet(Libs) /\ k \in Nat
  BY FS_CardinalityType DEF IsEntry
<1>2. PICK f : Rounds(entry, uses, k, f) /\ closed = f[k]
  BY <1>1, RoundsOfClosedUses
<1>3. \A l \in Libs : entry.libs[l].using \subseteq Libs
  BY DEF IsEntry
<1> HIDE DEF closed, Libs, k
<1>4. ASSUME NEW S \in SUBSET Libs, uses \subseteq S, \A l \in S : entry.libs[l].using \subseteq S
      PROVE  uses \subseteq closed /\ closed \subseteq S
             /\ (Alg!MoreUses(entry, closed) = closed \/ Cardinality(closed) >= k)
  <2>1. IsFiniteSet(S)
    BY <1>1, FS_Subset
  <2>2. k \in 0..k
    BY <1>1
  <2>3. QED
    BY <1>1, <1>2, <1>4, <2>1, <2>2, RoundsGrow
<1>5. uses \subseteq closed /\ closed \subseteq Libs
      /\ (Alg!MoreUses(entry, closed) = closed \/ Cardinality(closed) >= k)
  BY <1>3, <1>4 DEF Libs
<1>6. \A l \in closed : entry.libs[l].using \subseteq closed
  <2>1. CASE Cardinality(closed) >= k
    <3>1. closed = Libs
      <4>1. IsFiniteSet(closed) /\ Cardinality(closed) <= k /\ Cardinality(closed) \in Nat
        BY <1>1, <1>5, FS_Subset, FS_CardinalityType DEF k
      <4>2. Cardinality(closed) = Cardinality(Libs)
        BY <1>1, <2>1, <4>1 DEF k
      <4>3. QED
        BY <1>1, <1>5, <4>2, FS_Subset
    <3>2. QED
      BY <1>3, <3>1
  <2>2. QED
    BY <1>5, <2>1, MoreUsesGrows
<1>7. \A l \in closed : Alg!Reached(entry, uses, l)
  BY <1>4 DEF Alg!Reached, Libs
<1>8. \A l \in Libs : Alg!Reached(entry, uses, l) => l \in closed
  BY <1>5, <1>6 DEF Alg!Reached, Libs
<1>9. QED
  BY <1>5, <1>7, <1>8 DEF closed, Libs

(* Among the entries that match there is a first, if there are any.        *)
LEMMA ThereIsABest ==
  ASSUME NEW entries, IsFiniteSet(entries), NEW req,
         \A e \in entries : e.version \in Int /\ e.revision \in Int,
         Alg!BestCandidates(entries, req) = {}
  PROVE  \A e \in entries : ~Alg!Matches(e, req)
<1> DEFINE M == {e \in entries : Alg!Matches(e, req)}
           Before(e) == {f \in M : Alg!Precedes(f, e)}
           T == {Before(e) : e \in M}
<1>1. SUFFICES ASSUME M # {} PROVE FALSE
  OBVIOUS
<1>2. \A e \in M : \E f \in M : Alg!Precedes(f, e)
  BY DEF Alg!BestCandidates
<1>3. ASSUME NEW e \in M, NEW f \in M, Alg!Precedes(f, e)
      PROVE  Before(f) \subseteq Before(e) /\ f \in Before(e) /\ f \notin Before(f)
  BY <1>3 DEF Alg!Precedes
<1>4. T \subseteq FiniteSubsetsOf(M) /\ T # {}
  <2>1. IsFiniteSet(M)
    BY FS_Subset
  <2>2. \A e \in M : IsFiniteSet(Before(e)) /\ Before(e) \in SUBSET M
    BY <2>1, FS_Subset
  <2>3. QED
    BY <1>1, <2>2 DEF FiniteSubsetsOf
<1>5. PICK X \in T : \A Y \in T : ~(<<Y, X>> \in StrictSubsetOrdering(M))
  BY <1>4, FS_StrictSubsetOrderingWellFounded, WFMin, Zenon
<1>6. PICK e \in M : X = Before(e)
  OBVIOUS
<1>7. PICK f \in M : Alg!Precedes(f, e)
  BY <1>2
<1>8. Before(f) \in T /\ Before(f) \subseteq X /\ Before(f) # X /\ X \subseteq M
  BY <1>3, <1>6, <1>7
<1>9. <<Before(f), X>> \in StrictSubsetOrdering(M)
  BY <1>8 DEF StrictSubsetOrdering
<1>10. QED
  BY <1>5, <1>8, <1>9

(* A version that is listed once: the entry that is read is the candidate. *)
LEMMA EntryIsCandidate ==
  ASSUME NEW list, NEW n \in Nat, DOMAIN list = 1..n, NEW j \in 1..n,
         list[j].version \in Int, NEW term, term.versions = {list[j].version},
         Cardinality({i \in DOMAIN list : list[i].version = list[j].version}) = 1
  PROVE  Alg!EntryOf(list, term) = list[j]
<1> DEFINE v == list[j].version
           At == {i \in DOMAIN list : list[i].version = v}
<1>1. Alg!SoleVersion(term.versions) = v
  BY DEF Alg!SoleVersion
<1>2. At = {j}
  <2>1. IsFiniteSet(At)
    <3>1. IsFiniteSet(1..n)
      BY FS_Interval
    <3>2. QED
      BY <3>1, FS_Subset
  <2>2. PICK x : At = {x}
    BY <2>1, FS_Singleton
  <2>3. QED
    BY <2>2
<1>3. \A i \in DOMAIN list :
         (/\ list[i].version = Alg!SoleVersion(term.versions)
          /\ \A m \in 1..(i - 1) : list[m].version # Alg!SoleVersion(term.versions))
         <=> i = j
  <2>1. \A m \in 1..(j - 1) : m \in DOMAIN list /\ m # j
    OBVIOUS
  <2>2. \A m \in 1..(j - 1) : list[m].version # v
    BY <1>2, <2>1
  <2>3. \A i \in DOMAIN list : list[i].version = v <=> i = j
    BY <1>2
  <2>4. QED
    BY <1>1, <2>2, <2>3
<1>4. QED
  BY <1>3 DEF Alg!EntryOf

LEMMA CandidatesAnswer ==
  ASSUME NEW list, NEW n \in Nat, DOMAIN list = 1..n, \A i \in DOMAIN list : IsEntry(list[i]),
         NEW req
  PROVE  Alg!RequirementsAreTheCandidates(list, req)
<1> DEFINE entries == {list[i] : i \in DOMAIN list}
           best == Alg!BestCandidates(entries, req)
<1>1. IsFiniteSet(entries)
  <2>1. IsFiniteSet(1..n)
    BY FS_Interval
  <2> DEFINE g == [i \in 1..n |-> list[i]]
  <2>2. g \in Surjection(1..n, entries)
    BY DEF Surjection
  <2>3. QED
    BY <2>1, <2>2, FS_Surjection
<1>2. best = {} => \A e \in entries : ~Alg!Matches(e, req)
  BY <1>1, ThereIsABest DEF IsEntry
<1>3. ASSUME NEW e \in best
      PROVE  Alg!Matches(e, Alg!CandidateTerm(e, req))
  BY DEF Alg!BestCandidates, Alg!Matches, Alg!CandidateTerm, Alg!Libraries
<1>4. ASSUME NEW e \in best,
             Alg!Cardinality({i \in DOMAIN list : list[i].version = e.version}) = 1
      PROVE  Alg!RequirementsOf(list, Alg!CandidateTerm(e, req)) =
                UNION {e.libs[l].deps : l \in {k \in Alg!Libraries(e) :
                          Alg!Reached(e, Alg!ResolveImplicit(req.uses, e), k)}}
  <2> DEFINE term == Alg!CandidateTerm(e, req)
             uses == Alg!ResolveImplicit(req.uses, e)
  <2>1. PICK j \in 1..n : e = list[j]
    BY DEF Alg!BestCandidates
  <2>2. IsEntry(e) /\ e.version \in Int
    BY <2>1 DEF IsEntry
  <2>3. term.versions = {e.version} /\ term.uses = req.uses
    BY DEF Alg!CandidateTerm
  <2>4. Alg!EntryOf(list, term) = e
    BY <1>4, <2>1, <2>2, <2>3, EntryIsCandidate, SameCardinality
  <2>5. uses \subseteq Alg!Libraries(e)
    BY DEF Alg!BestCandidates, Alg!Matches, Alg!ResolveImplicit
  <2>6. Alg!UsedLibraries(e, term) = Alg!ClosedUses(e, uses)
    BY <2>3 DEF Alg!UsedLibraries, Alg!ResolveImplicit
  <2>7. Alg!UsedLibraries(e, term) = {k \in Alg!Libraries(e) : Alg!Reached(e, uses, k)}
    BY <2>2, <2>5, <2>6, ClosedUsesIsReached
  <2> HIDE DEF term, uses
  <2>8. Alg!RequirementsOf(list, term) =
           UNION {e.libs[l].deps : l \in Alg!UsedLibraries(e, term) \cap Alg!Libraries(e)}
    BY <2>4 DEF Alg!RequirementsOf
  <2>9. Alg!UsedLibraries(e, term) \cap Alg!Libraries(e) = {k \in Alg!Libraries(e) : Alg!Reached(e, uses, k)}
    BY <2>7
  <2>10. QED
    BY <2>8, <2>9 DEF term, uses
<1>5. QED
  BY <1>2, <1>3, <1>4 DEF Alg!RequirementsAreTheCandidates
-----------------------------------------------------------------------------
LEMMA SameNumber == \A S : Words!Cardinality(S) = Cardinality(S)
  BY DEF Words!Cardinality, Cardinality, Words!IsFiniteSet, IsFiniteSet
(* What holds at first and after each step, holds always.                  *)
LEMMA Upward ==
  ASSUME NEW n \in Nat, NEW T, 0 \in T, \A i \in 1..n : i - 1 \in T => i \in T
  PROVE  \A i \in 0..n : i \in T
<1> DEFINE Rest == {i \in 0..n : i \notin T}
<1>1. SUFFICES ASSUME Rest # {} PROVE FALSE
  OBVIOUS
<1>2. PICK i \in Rest : \A m \in Nat : m < i => m \notin Rest
  <2>1. Rest \in SUBSET Nat
    OBVIOUS
  <2>2. QED
    BY <1>1, <2>1, LeastNumber
<1>3. i \in 0..n /\ i \notin T /\ i # 0
  BY <1>2
<1>4. i \in 1..n /\ i - 1 \in 0..n /\ i - 1 \in Nat /\ i - 1 < i
  BY <1>3
<1>5. i - 1 \in T
  BY <1>2, <1>4
<1>6. QED
  BY <1>3, <1>4, <1>5

(* What is computed step by step. *)
Stepwise(f, n, b, step) == f[0] = b /\ \A i \in 1..n : f[i] = step[i][f[i - 1]]

LEMMA StepsExist ==
  ASSUME NEW n \in Nat, NEW S, NEW b \in S, NEW step \in [1..n -> [S -> S]]
  PROVE  \E f : f \in [0..n -> S] /\ Stepwise(f, n, b, step)
<1> DEFINE Steps(k, f) == f \in [0..k -> S] /\ Stepwise(f, k, b, step)
           T == {k \in 0..n : \E f : Steps(k, f)}
<1>1. 0 \in T
  <2>1. Steps(0, [i \in 0..0 |-> b])
    BY DEF Stepwise
  <2> HIDE DEF Steps
  <2>2. QED
    BY <2>1
<1>2. ASSUME NEW k \in 1..n, k - 1 \in T PROVE k \in T
  <2>1. PICK f : Steps(k - 1, f)
    BY <1>2
  <2>2. k - 1 \in 0..(k - 1) /\ f[k - 1] \in S /\ step[k] \in [S -> S] /\ step[k][f[k - 1]] \in S
    BY <2>1
  <2> DEFINE g == [i \in 0..k |-> IF i = k THEN step[k][f[k - 1]] ELSE f[i]]
  <2>3. g \in [0..k -> S] /\ g[0] = b
    BY <2>1, <2>2 DEF Stepwise
  <2>4. ASSUME NEW i \in 1..k PROVE g[i] = step[i][g[i - 1]]
    <3>1. i - 1 \in 0..k /\ i - 1 # k /\ i \in 0..k
      OBVIOUS
    <3>2. g[i - 1] = f[i - 1]
      BY <3>1
    <3>3. CASE i = k
      BY <3>1, <3>2, <3>3
    <3>4. CASE i # k
      <4>1. i \in 1..(k - 1)
        BY <3>4
      <4>2. QED
        BY <2>1, <3>1, <3>2, <3>4, <4>1 DEF Stepwise
    <3>5. QED
      BY <3>3, <3>4
  <2> HIDE DEF g
  <2>5. Steps(k, g)
    BY <2>3, <2>4 DEF Stepwise
  <2>6. QED
    BY <2>5
<1> HIDE DEF T, Steps
<1>3. n \in T
  <2>1. \A i \in 0..n : i \in T
    BY <1>1, <1>2, Upward
  <2>2. QED
    BY <2>1
<1>4. \E f : Steps(n, f)
  BY <1>3 DEF T
<1>5. QED
  BY <1>4 DEF Steps

(* A text that is put together from pieces. *)
Joined(f, flat) == /\ flat[0] = << >> /\ \A i \in 1..Len(f) : flat[i] = flat[i - 1] \o f[i]
                   /\ Words!FlattenSeq(f) = flat[Len(f)]

LEMMA PiecesAreJoined ==
  ASSUME NEW C, NEW f \in Seq(Seq(C))
  PROVE  \E flat \in [0..Len(f) -> Seq(C)] : Joined(f, flat)
<1> DEFINE n == Len(f)
           step == [i \in 1..n |-> [p \in Seq(C) |-> p \o f[i]]]
<1>1. n \in Nat /\ << >> \in Seq(C) /\ DOMAIN f = 1..n /\ \A i \in 1..n : f[i] \in Seq(C)
  OBVIOUS
<1>2. step \in [1..n -> [Seq(C) -> Seq(C)]]
  <2>1. \A i \in 1..n : \A p \in Seq(C) : p \o f[i] \in Seq(C)
    BY <1>1, ConcatProperties
  <2>2. QED
    BY <2>1
<1>3. PICK flat \in [0..n -> Seq(C)] :
          flat[0] = << >> /\ \A i \in 1..n : flat[i] = step[i][flat[i - 1]]
  <2> DEFINE S == Seq(C)
             none == << >>
  <2>1. none \in S /\ step \in [1..n -> [S -> S]]
    BY <1>1, <1>2
  <2> HIDE DEF n, step, S, none
  <2>2. \E flat : flat \in [0..n -> S] /\
            Stepwise(flat, n, none, step)
    <3>1. n \in Nat /\ none \in S /\ step \in [1..n -> [S -> S]]
      BY <1>1, <2>1
    <3>2. QED
      BY <3>1, StepsExist
  <2>3. QED
    BY <2>2 DEF S, none, Stepwise
<1>4. \A i \in 1..n : flat[i - 1] \in Seq(C) /\ flat[i] = flat[i - 1] \o f[i]
  <2>1. ASSUME NEW i \in 1..n PROVE flat[i - 1] \in Seq(C) /\ flat[i] = flat[i - 1] \o f[i]
    <3>1. i - 1 \in 0..n
      BY <1>1
    <3>2. flat[i - 1] \in Seq(C)
      BY <3>1
    <3>3. QED
      BY <1>3, <3>2
  <2>2. QED
    BY <2>1
<1>5. n # 0 => flat[1] = f[1]
  <2>1. n # 0 => 1 \in 1..n /\ flat[1 - 1] = << >>
    BY <1>1, <1>3
  <2>2. n # 0 => flat[1] = << >> \o f[1] /\ f[1] \in Seq(C)
    BY <1>1, <1>4, <2>1
  <2>3. QED
    BY <2>2, ConcatEmptySeq
<1>6. Words!FlattenSeq(f) = flat[n]
  <2>1. CASE n = 0
    BY <1>3, <2>1 DEF Words!FlattenSeq
  <2>2. CASE n # 0
    <3> DEFINE Flattens(h) == h = [i \in 1..n |-> IF i = 1 THEN f[i] ELSE h[i - 1] \o f[i]]
               g == [i \in 1..n |-> flat[i]]
               h == CHOOSE h : Flattens(h)
    <3>1. Flattens(g)
      <4>1. ASSUME NEW i \in 1..n
            PROVE  flat[i] = IF i = 1 THEN f[i] ELSE g[i - 1] \o f[i]
        <5>1. CASE i = 1
          BY <1>5, <5>1
        <5>2. CASE i # 1
          <6>1. i - 1 \in 1..n
            BY <1>1, <5>2
          <6>2. QED
            BY <1>4, <5>2, <6>1
        <5>3. QED
          BY <5>1, <5>2
      <4>2. QED
        BY <4>1
    <3>2. Flattens(h)
      <4> HIDE DEF Flattens, g
      <4>1. QED
        BY <3>1
    <3>3. Words!FlattenSeq(f) = h[n]
      BY <2>2 DEF Words!FlattenSeq
    <3> HIDE DEF h
    <3> DEFINE T == {i \in 0..n : i # 0 => h[i] = flat[i]}
    <3>4. 0 \in T
      BY <1>1
    <3>5. ASSUME NEW i \in 1..n, i - 1 \in T PROVE i \in T
      <4>1. h[i] = IF i = 1 THEN f[i] ELSE h[i - 1] \o f[i]
        BY <3>2
      <4>2. flat[i] = IF i = 1 THEN f[i] ELSE flat[i - 1] \o f[i]
        <5>1. CASE i = 1
          BY <1>5, <5>1
        <5>2. QED
          BY <1>4, <5>1
      <4>3. i # 1 => h[i - 1] = flat[i - 1]
        BY <3>5
      <4>4. QED
        BY <1>1, <4>1, <4>2, <4>3
    <3> HIDE DEF T, n
    <3>6. \A i \in 0..n : i \in T
      BY <1>1, <3>4, <3>5, Upward
    <3>7. n \in T
      BY <1>1, <3>6
    <3>8. QED
      BY <2>2, <3>3, <3>7 DEF T
  <2>3. QED
    BY <2>1, <2>2
<1>7. QED
  BY <1>3, <1>4, <1>6 DEF Joined

(* Equal ends of equal texts follow equal beginnings. *)
LEMMA EndsAreCut ==
  ASSUME NEW C
  PROVE  \A u, v, w \in Seq(C) : /\ u \o w = v \o w => u = v
                                 /\ w # << >> => u \o w # << >>
<1> SUFFICES ASSUME NEW u \in Seq(C), NEW v \in Seq(C), NEW w \in Seq(C)
             PROVE  (u \o w = v \o w => u = v) /\ (w # << >> => u \o w # << >>)
  OBVIOUS
<1>1. /\ Len(u \o w) = Len(u) + Len(w) /\ Len(v \o w) = Len(v) + Len(w)
      /\ Len(u) \in Nat /\ Len(v) \in Nat /\ Len(w) \in Nat
  BY ConcatProperties
<1>2. u \o w = v \o w => Len(u) = Len(v)
  BY <1>1
<1>3. u \o w = v \o w => \A i \in 1..Len(u) : (u \o w)[i] = u[i] /\ (v \o w)[i] = v[i]
  BY <1>2, ConcatProperties
<1>4. w # << >> => u \o w # << >>
  BY <1>1
<1>5. QED
  BY <1>2, <1>3, <1>4, SeqEqual

(* Equal pieces are at the ends of equal texts. *)
EndsTell(f, g, S) ==
    \A i \in 1..Len(f), j \in 1..Len(g), u \in S, v \in S :
       (i = 1 => u = << >>) /\ (j = 1 => v = << >>) /\ u \o f[i] = v \o g[j] => f[i] = g[j]

(* Two texts are put together from the same pieces, if at the end of equal *)
(* texts there are equal pieces.                                           *)
LEMMA PiecesAreTold ==
  ASSUME NEW C, NEW f \in Seq(Seq(C) \ {<< >>}), NEW g \in Seq(Seq(C) \ {<< >>}),
         Words!FlattenSeq(f) = Words!FlattenSeq(g),
         EndsTell(f, g, Seq(C))
  PROVE  f = g
<1>0. f \in Seq(Seq(C)) /\ g \in Seq(Seq(C))
  <2>1. Seq(C) \ {<< >>} \subseteq Seq(C)
    OBVIOUS
  <2>2. QED
    BY <2>1, SeqMonotonic
<1>2. PICK F \in [0..Len(f) -> Seq(C)] : Joined(f, F)
  BY <1>0, PiecesAreJoined
<1>3. PICK G \in [0..Len(g) -> Seq(C)] : Joined(g, G)
  BY <1>0, PiecesAreJoined
<1> DEFINE m == Len(f)
           n == Len(g)
           S == Seq(C)
<1>1. /\ m \in Nat /\ n \in Nat
      /\ \A i \in 1..m : f[i] \in S /\ f[i] # << >>
      /\ \A j \in 1..n : g[j] \in S /\ g[j] # << >>
  OBVIOUS
<1>4. /\ F \in [0..m -> S] /\ G \in [0..n -> S]
      /\ F[0] = << >> /\ G[0] = << >> /\ F[m] = G[n]
      /\ \A i \in 1..m : F[i] = F[i - 1] \o f[i]
      /\ \A j \in 1..n : G[j] = G[j - 1] \o g[j]
  BY <1>2, <1>3 DEF Joined
<1> HIDE DEF m, n, S
<1>40. ASSUME NEW i \in 1..m PROVE i - 1 \in 0..m /\ F[i - 1] \in S
  BY <1>1, <1>4
<1>41. ASSUME NEW j \in 1..n PROVE j - 1 \in 0..n /\ G[j - 1] \in S
  BY <1>1, <1>4
<1>42. \A u, v, w \in S : /\ u \o w = v \o w => u = v
                          /\ w # << >> => u \o w # << >>
  BY EndsAreCut DEF S
<1>5. (\A i \in 1..m : F[i] # << >>) /\ (\A j \in 1..n : G[j] # << >>)
  <2>1. ASSUME NEW i \in 1..m PROVE F[i] # << >>
    <3>1. F[i] = F[i - 1] \o f[i] /\ F[i - 1] \in S /\ f[i] \in S /\ f[i] # << >>
      BY <1>1, <1>4, <1>40
    <3>2. QED
      BY <1>42, <3>1
  <2>2. ASSUME NEW j \in 1..n PROVE G[j] # << >>
    <3>1. G[j] = G[j - 1] \o g[j] /\ G[j - 1] \in S /\ g[j] \in S /\ g[j] # << >>
      BY <1>1, <1>4, <1>41
    <3>2. QED
      BY <1>42, <3>1
  <2>3. QED
    BY <2>1, <2>2
<1> DEFINE Same(i) == \A j \in 0..n : F[i] = G[j] => i = j /\ \A k \in 1..i : f[k] = g[k]
           T == {i \in 0..m : Same(i)}
<1>6. 0 \in T
  BY <1>1, <1>4, <1>5
<1>7. ASSUME NEW i \in 1..m, i - 1 \in T PROVE i \in T
  <2> SUFFICES ASSUME NEW j \in 0..n, F[i] = G[j] PROVE i = j /\ \A k \in 1..i : f[k] = g[k]
    BY <1>1
  <2>1. j \in 1..n
    BY <1>1, <1>4, <1>5
  <2>2. F[i - 1] \o f[i] = G[j - 1] \o g[j] /\ F[i - 1] \in S /\ G[j - 1] \in S
    BY <1>4, <1>40, <1>41, <2>1
  <2>3. (i = 1 => F[i - 1] = << >>) /\ (j = 1 => G[j - 1] = << >>)
    <3>1. 1 - 1 = 0
      OBVIOUS
    <3>2. QED
      BY <1>4, <3>1
  <2>4. f[i] = g[j]
    BY <2>1, <2>2, <2>3 DEF EndsTell, m, n, S
  <2>5. F[i - 1] = G[j - 1]
    BY <1>1, <1>42, <2>1, <2>2, <2>4
  <2>6. i - 1 = j - 1 /\ \A k \in 1..(i - 1) : f[k] = g[k]
    BY <1>7, <1>41, <2>1, <2>5
  <2>7. i = j /\ \A k \in 1..i : k \in 1..(i - 1) \/ k = i
    BY <1>1, <2>1, <2>6
  <2>8. QED
    BY <2>4, <2>6, <2>7
<1> HIDE DEF T, Same
<1>8. \A i \in 0..m : i \in T
  BY <1>1, <1>6, <1>7, Upward
<1>9. Same(m) /\ n \in 0..n
  BY <1>1, <1>8 DEF T
<1>10. m = n /\ \A k \in 1..m : f[k] = g[k]
  BY <1>4, <1>9 DEF Same
<1>11. QED
  BY <1>0, <1>1, <1>10, SeqEqual DEF m, n

(* The characters with a meaning are told. *)
LEMMA Marks ==
  /\ {Words!Quote, "\\", Words!Blank, ":", "\n", "@", "~", "1"} \subseteq Characters
  /\ Words!Quote # "\\" /\ Words!Quote # Words!Blank /\ Words!Blank # "\\"
  /\ Words!Blank \in Words!Space /\ Words!Quote \in Words!Quotes
  /\ Words!Blank \notin Words!Okay /\ Words!Quote \notin Words!Okay
<1>1. Words!Quote # "\\" /\ Words!Quote # Words!Blank /\ Words!Blank # "\\"
  BY Zenon DEF Words!Quote, Words!Blank
<1>2. Words!Blank \in Words!Space /\ Words!Quote \in Words!Quotes
  BY Zenon DEF Words!Space, Words!Quotes
<1>3. Words!Blank \notin Words!Okay /\ Words!Quote \notin Words!Okay
  BY Zenon DEF Words!Okay, Words!Blank, Words!Quote
<1>4. QED
  BY <1>1, <1>2, <1>3, MarksAreCharacters

(* Two texts one after the other. *)
LEMMA Concatenated ==
  \A u, v \in Text :
        /\ u \o v \in Text /\ Len(u \o v) = Len(u) + Len(v)
        /\ Len(u) \in Nat /\ Len(v) \in Nat
        /\ \A k \in 1..Len(u) : (u \o v)[k] = u[k]
        /\ \A k \in 1..Len(v) : (u \o v)[Len(u) + k] = v[k]
<1> SUFFICES ASSUME NEW u \in Text, NEW v \in Text
             PROVE  /\ u \o v \in Text /\ Len(u \o v) = Len(u) + Len(v)
                    /\ Len(u) \in Nat /\ Len(v) \in Nat
                    /\ \A k \in 1..Len(u) : (u \o v)[k] = u[k]
                    /\ \A k \in 1..Len(v) : (u \o v)[Len(u) + k] = v[k]
  OBVIOUS
<1>1. Len(u) \in Nat /\ Len(v) \in Nat
  BY DEF Text
<1>2. /\ u \o v \in Text /\ Len(u \o v) = Len(u) + Len(v)
      /\ \A k \in 1..(Len(u) + Len(v)) :
            (u \o v)[k] = IF k <= Len(u) THEN u[k] ELSE v[k - Len(u)]
  BY ConcatProperties DEF Text
<1>3. ASSUME NEW k \in 1..Len(u) PROVE (u \o v)[k] = u[k]
  BY <1>1, <1>2
<1>4. ASSUME NEW k \in 1..Len(v) PROVE (u \o v)[Len(u) + k] = v[k]
  <2>1. Len(u) + k \in 1..(Len(u) + Len(v)) /\ ~(Len(u) + k <= Len(u)) /\ (Len(u) + k) - Len(u) = k
    BY <1>1
  <2>2. QED
    BY <1>2, <2>1
<1>5. QED
  BY <1>1, <1>2, <1>3, <1>4

(* An argument within quotes, character by character. *)
Escaped(arg) == [i \in DOMAIN arg |-> IF arg[i] = Words!Quote THEN <<"\\", Words!Quote>> ELSE <<arg[i]>>]

Inner(arg) == Words!FlattenSeq(Escaped(arg))

LEMMA EscapedPieces ==
  ASSUME NEW arg \in Text
  PROVE  /\ Escaped(arg) \in Seq(Text \ {<< >>}) /\ Len(Escaped(arg)) = Len(arg)
         /\ \A i \in 1..Len(arg) :
               /\ Escaped(arg)[i] \in Text /\ Escaped(arg)[i] # << >>
               /\ Escaped(arg)[i][Len(Escaped(arg)[i])] = arg[i]
               /\ \/ Escaped(arg)[i] = <<arg[i]>> /\ arg[i] # Words!Quote
                  \/ Escaped(arg)[i] = <<"\\", arg[i]>> /\ arg[i] = Words!Quote
<1>1. Len(arg) \in Nat /\ DOMAIN arg = 1..Len(arg) /\ \A i \in 1..Len(arg) : arg[i] \in Characters
  BY DEF Text
<1>2. ASSUME NEW i \in 1..Len(arg)
      PROVE  /\ Escaped(arg)[i] \in Text /\ Escaped(arg)[i] # << >>
             /\ Escaped(arg)[i][Len(Escaped(arg)[i])] = arg[i]
             /\ \/ Escaped(arg)[i] = <<arg[i]>> /\ arg[i] # Words!Quote
                \/ Escaped(arg)[i] = <<"\\", arg[i]>> /\ arg[i] = Words!Quote
  <2>1. arg[i] \in Characters /\ "\\" \in Characters
    BY <1>1, Marks
  <2>2. CASE arg[i] = Words!Quote
    <3>1. Escaped(arg)[i] = <<"\\", arg[i]>>
      BY <1>1, <2>2 DEF Escaped
    <3>2. QED
      BY <2>1, <2>2, <3>1 DEF Text
  <2>3. CASE arg[i] # Words!Quote
    <3>1. Escaped(arg)[i] = <<arg[i]>>
      BY <1>1, <2>3 DEF Escaped
    <3>2. QED
      BY <2>1, <2>3, <3>1 DEF Text
  <2>4. QED
    BY <2>2, <2>3
<1>3. Escaped(arg) \in [1..Len(arg) -> Text \ {<< >>}]
  <2>1. Escaped(arg) = [i \in 1..Len(arg) |-> Escaped(arg)[i]]
    BY <1>1 DEF Escaped
  <2>2. QED
    BY <1>2, <2>1
<1>4. Escaped(arg) \in Seq(Text \ {<< >>}) /\ Len(Escaped(arg)) = Len(arg)
  <2> DEFINE S == Text \ {<< >>}
             e == Escaped(arg)
             n == Len(arg)
  <2>1. e \in [1..n -> S] /\ n \in Nat
    BY <1>1, <1>3
  <2> HIDE DEF e, n, S
  <2>2. e \in Seq(S) /\ Len(e) = n
    BY <2>1
  <2>3. QED
    BY <2>2 DEF e, n, S
<1>5. QED
  BY <1>2, <1>4

(* The last character decides. *)
LEMMA EscapedIsTold ==
  ASSUME NEW x \in Text, NEW y \in Text, Inner(x) = Inner(y)
  PROVE  x = y
<1> DEFINE e == Escaped(x)
           f == Escaped(y)
<1>1. ASSUME NEW i \in 1..Len(e), NEW j \in 1..Len(f), NEW u \in Text, NEW v \in Text,
             u \o e[i] = v \o f[j]
      PROVE  e[i] = f[j]
  <2>1. i \in 1..Len(x) /\ j \in 1..Len(y)
    BY EscapedPieces
  <2>2. /\ e[i] \in Text /\ e[i] # << >> /\ f[j] \in Text /\ f[j] # << >>
        /\ e[i][Len(e[i])] = x[i] /\ f[j][Len(f[j])] = y[j]
        /\ \/ e[i] = <<x[i]>> /\ x[i] # Words!Quote
           \/ e[i] = <<"\\", x[i]>> /\ x[i] = Words!Quote
        /\ \/ f[j] = <<y[j]>> /\ y[j] # Words!Quote
           \/ f[j] = <<"\\", y[j]>> /\ y[j] = Words!Quote
    BY <2>1, EscapedPieces
  <2>3. x[i] = y[j]
    <3> DEFINE p == e[i]
               q == f[j]
    <3>1. p \in Seq(Characters) /\ q \in Seq(Characters) /\ p # << >> /\ q # << >> /\ u \o p = v \o q
          /\ u \in Seq(Characters) /\ v \in Seq(Characters)
      BY <1>1, <2>2 DEF Text
    <3> HIDE DEF p, q
    <3>2. /\ Len(u \o p) = Len(u) + Len(p) /\ Len(v \o q) = Len(v) + Len(q)
          /\ Len(p) \in Nat \ {0} /\ Len(q) \in Nat \ {0} /\ Len(u) \in Nat /\ Len(v) \in Nat
      BY <3>1
    <3>3. (u \o p)[Len(u) + Len(p)] = p[Len(p)] /\ (v \o q)[Len(v) + Len(q)] = q[Len(q)]
      BY <3>1, <3>2
    <3>4. p[Len(p)] = q[Len(q)]
      BY <3>1, <3>2, <3>3
    <3>5. QED
      BY <2>2, <3>4 DEF p, q
  <2>4. QED
    BY <2>2, <2>3
<1>2. e \in Seq(Text \ {<< >>}) /\ f \in Seq(Text \ {<< >>})
  BY EscapedPieces
<1>3. Words!FlattenSeq(e) = Words!FlattenSeq(f)
  BY DEF Inner
<1>4. e = f
  <2> HIDE DEF e, f
  <2>1. EndsTell(e, f, Text)
    BY <1>1 DEF EndsTell
  <2>2. e \in Seq(Seq(Characters) \ {<< >>}) /\ f \in Seq(Seq(Characters) \ {<< >>})
        /\ EndsTell(e, f, Seq(Characters))
    BY <1>2, <2>1 DEF Text
  <2>3. QED
    BY <1>3, <2>2, PiecesAreTold
<1>5. Len(x) = Len(y) /\ \A i \in 1..Len(x) : x[i] = y[i]
  <2>1. Len(x) = Len(y)
    BY <1>4, EscapedPieces
  <2>2. ASSUME NEW i \in 1..Len(x) PROVE x[i] = y[i]
    <3>1. e[i][Len(e[i])] = x[i]
      BY EscapedPieces
    <3>2. f[i][Len(f[i])] = y[i]
      BY <2>1, EscapedPieces
    <3>3. QED
      BY <1>4, <3>1, <3>2
  <2>3. QED
    BY <2>1, <2>2
<1>6. QED
  BY <1>5, SeqEqual DEF Text

(* Within quotes, a quote follows a backslash. *)
QuotesEscaped(t) == \A k \in 1..Len(t) : t[k] = Words!Quote => k # 1 /\ t[k - 1] = "\\"

LEMMA InnerQuotesEscaped ==
  ASSUME NEW arg \in Text
  PROVE  Inner(arg) \in Text /\ QuotesEscaped(Inner(arg))
<1> DEFINE e == Escaped(arg)
           n == Len(e)
           C == Characters
<1>1. /\ e \in Seq(Seq(C)) /\ n \in Nat
      /\ \A i \in 1..n : /\ e[i] \in Seq(C)
                         /\ \/ e[i] = <<arg[i]>> /\ arg[i] # Words!Quote
                            \/ e[i] = <<"\\", arg[i]>> /\ arg[i] = Words!Quote
  <2>1. e \in Seq(Text \ {<< >>})
    BY EscapedPieces
  <2>2. Text \ {<< >>} \subseteq Seq(C)
    BY DEF Text
  <2>3. e \in Seq(Seq(C))
    BY <2>1, <2>2, SeqMonotonic
  <2>4. QED
    BY <2>3, EscapedPieces DEF Text
<1> HIDE DEF e, C
<1>2. PICK F \in [0..n -> Seq(C)] : Joined(e, F)
  BY <1>1, PiecesAreJoined
<1> HIDE DEF n
<1> DEFINE T == {i \in 0..n : QuotesEscaped(F[i])}
<1>3. 0 \in T
  BY <1>1, <1>2 DEF QuotesEscaped, Joined
<1>4. ASSUME NEW i \in 1..n, i - 1 \in T PROVE i \in T
  <2> DEFINE u == F[i - 1]
             p == e[i]
  <2>1. /\ u \in Seq(C) /\ QuotesEscaped(u) /\ p \in Seq(C) /\ F[i] = u \o p
        /\ \/ p = <<arg[i]>> /\ arg[i] # Words!Quote
           \/ p = <<"\\", arg[i]>> /\ arg[i] = Words!Quote
    <3>1. i - 1 \in 0..n
      BY <1>1
    <3>2. QED
      BY <1>1, <1>2, <1>4, <3>1 DEF Joined, n
  <2> HIDE DEF u, p
  <2>2. /\ Len(u \o p) = Len(u) + Len(p) /\ Len(u) \in Nat /\ Len(p) \in Nat
        /\ \A k \in 1..(Len(u) + Len(p)) : (u \o p)[k] = IF k <= Len(u) THEN u[k] ELSE p[k - Len(u)]
    BY <2>1
  <2>3. ASSUME NEW k \in 1..(Len(u) + Len(p)), (u \o p)[k] = Words!Quote
        PROVE  k # 1 /\ (u \o p)[k - 1] = "\\"
    <3>1. CASE k <= Len(u)
      <4>1. k \in 1..Len(u) /\ u[k] = Words!Quote
        BY <2>2, <2>3, <3>1
      <4>2. k # 1 /\ u[k - 1] = "\\"
        BY <2>1, <4>1 DEF QuotesEscaped
      <4>3. QED
        BY <2>2, <4>1, <4>2
    <3>2. CASE k > Len(u)
      <4>1. k - Len(u) \in 1..Len(p) /\ p[k - Len(u)] = Words!Quote
        BY <2>2, <2>3, <3>2
      <4>2. Len(p) = 2 /\ k - Len(u) = 2 /\ p[1] = "\\"
        <5>1. "\\" # Words!Quote
          BY Marks
        <5>2. CASE p = <<arg[i]>> /\ arg[i] # Words!Quote
          BY <4>1, <5>2
        <5>3. CASE p = <<"\\", arg[i]>>
          <6>1. Len(p) = 2 /\ p[1] = "\\"
            BY <5>3
          <6>2. k - Len(u) # 1
            BY <4>1, <5>1, <6>1
          <6>3. QED
            BY <2>2, <4>1, <6>1, <6>2
        <5>4. QED
          BY <2>1, <5>2, <5>3
      <4>3. k - 1 \in 1..(Len(u) + Len(p)) /\ k - 1 > Len(u) /\ (k - 1) - Len(u) = 1 /\ k # 1
        BY <2>2, <4>2
      <4>4. QED
        BY <2>2, <4>2, <4>3
    <3>3. QED
      BY <2>2, <3>1, <3>2
  <2>4. QuotesEscaped(u \o p)
    BY <2>2, <2>3 DEF QuotesEscaped
  <2>5. i \in 0..n /\ QuotesEscaped(F[i])
    BY <1>1, <2>1, <2>4
  <2>6. QED
    BY <2>5
<1> HIDE DEF T
<1>5. \A i \in 0..n : i \in T
  BY <1>1, <1>3, <1>4, Upward
<1>6. n \in 0..n /\ n \in T
  BY <1>1, <1>5
<1>7. QED
  BY <1>2, <1>6 DEF T, Joined, Inner, Text, e, n, C

(* An argument as it is told. *)
LEMMA Quoted ==
  ASSUME NEW arg \in Text
  PROVE  LET quoted == Words!QuoteArgument(arg)
             n == Len(Inner(arg)) IN
         /\ ~Words!NeedsQuoting(arg) =>
               /\ quoted = arg
               /\ \A k \in 1..Len(quoted) : quoted[k] # Words!Blank /\ quoted[k] # Words!Quote
         /\ Words!NeedsQuoting(arg) =>
               /\ quoted \in Text /\ n \in Nat /\ Len(quoted) = n + 2
               /\ quoted[1] = Words!Quote /\ quoted[n + 2] = Words!Quote
               /\ \A k \in 1..n : quoted[k + 1] = Inner(arg)[k]
<1>1. CASE ~Words!NeedsQuoting(arg)
  <2>1. Words!QuoteArgument(arg) = arg /\ DOMAIN arg = 1..Len(arg)
    BY <1>1 DEF Words!QuoteArgument, Text
  <2>2. \A k \in DOMAIN arg : arg[k] # Words!Blank /\ arg[k] # Words!Quote
    BY <1>1, Marks DEF Words!NeedsQuoting
  <2>3. QED
    BY <1>1, <2>1, <2>2
<1>2. CASE Words!NeedsQuoting(arg)
  <2> DEFINE inner == Inner(arg)
             q == <<Words!Quote>>
  <2>1. Words!QuoteArgument(arg) = (q \o inner) \o q
    BY <1>2 DEF Words!QuoteArgument, Inner, Escaped
  <2>2. inner \in Text /\ q \in Text /\ Len(q) = 1 /\ q[1] = Words!Quote
    BY InnerQuotesEscaped, Marks DEF Text
  <2> HIDE DEF inner, q
  <2>3. /\ q \o inner \in Text /\ Len(q \o inner) = 1 + Len(inner) /\ Len(inner) \in Nat
        /\ (q \o inner)[1] = Words!Quote /\ \A k \in 1..Len(inner) : (q \o inner)[k + 1] = inner[k]
    <3>1. /\ q \o inner \in Text /\ Len(q \o inner) = Len(q) + Len(inner) /\ Len(inner) \in Nat
          /\ \A k \in 1..Len(q) : (q \o inner)[k] = q[k]
          /\ \A k \in 1..Len(inner) : (q \o inner)[Len(q) + k] = inner[k]
      BY <2>2, Concatenated
    <3>2. \A k \in 1..Len(inner) : Len(q) + k = k + 1
      BY <2>2
    <3>3. QED
      BY <2>2, <3>1, <3>2
  <2> DEFINE front == q \o inner
  <2> HIDE DEF front
  <2>4. /\ front \o q \in Text /\ Len(front \o q) = Len(front) + Len(q)
        /\ \A k \in 1..Len(front) : (front \o q)[k] = front[k]
        /\ \A k \in 1..Len(q) : (front \o q)[Len(front) + k] = q[k]
    BY <2>2, <2>3, Concatenated DEF front
  <2>5. /\ front \o q \in Text /\ Len(front \o q) = Len(inner) + 2
        /\ (front \o q)[1] = Words!Quote /\ (front \o q)[Len(inner) + 2] = Words!Quote
        /\ \A k \in 1..Len(inner) : (front \o q)[k + 1] = inner[k]
    <3>1. Len(front) = 1 + Len(inner) /\ Len(front) + 1 = Len(inner) + 2 /\ 1 \in 1..Len(q)
      BY <2>2, <2>3 DEF front
    <3>2. 1 \in 1..Len(front) /\ \A k \in 1..Len(inner) : k + 1 \in 1..Len(front)
      BY <2>3, <3>1
    <3>3. QED
      BY <2>2, <2>3, <2>4, <3>1, <3>2 DEF front
  <2>6. QED
    BY <1>2, <2>1, <2>3, <2>5 DEF inner, front, Text
<1>3. QED
  BY <1>1, <1>2

(* Arguments are told by what is told of them. *)
LEMMA ArgumentsAreTold ==
  ASSUME NEW x \in Text, NEW y \in Text, Words!QuoteArgument(x) = Words!QuoteArgument(y)
  PROVE  x = y
<1> DEFINE a == Words!QuoteArgument(x)
           b == Words!QuoteArgument(y)
           m == Len(Inner(x))
           n == Len(Inner(y))
<1>1. /\ ~Words!NeedsQuoting(x) =>
            a = x /\ \A k \in 1..Len(a) : a[k] # Words!Blank /\ a[k] # Words!Quote
      /\ Words!NeedsQuoting(x) =>
            /\ a \in Text /\ m \in Nat /\ Len(a) = m + 2 /\ a[1] = Words!Quote
            /\ \A k \in 1..m : a[k + 1] = Inner(x)[k]
  BY Quoted
<1>2. /\ ~Words!NeedsQuoting(y) =>
            b = y /\ \A k \in 1..Len(b) : b[k] # Words!Blank /\ b[k] # Words!Quote
      /\ Words!NeedsQuoting(y) =>
            /\ b \in Text /\ n \in Nat /\ Len(b) = n + 2 /\ b[1] = Words!Quote
            /\ \A k \in 1..n : b[k + 1] = Inner(y)[k]
  BY Quoted
<1>3. a = b
  OBVIOUS
<1>4. Inner(x) \in Text /\ Inner(y) \in Text
  BY InnerQuotesEscaped
<1> HIDE DEF a, b, m, n
<1>5. CASE ~Words!NeedsQuoting(x) /\ ~Words!NeedsQuoting(y)
  BY <1>1, <1>2, <1>3, <1>5
<1>6. CASE Words!NeedsQuoting(x) /\ Words!NeedsQuoting(y)
  <2>1. m = n /\ m \in Nat
    BY <1>1, <1>2, <1>3, <1>6
  <2>2. \A k \in 1..m : Inner(x)[k] = Inner(y)[k]
    BY <1>1, <1>2, <1>3, <1>6, <2>1
  <2>3. Inner(x) = Inner(y)
    BY <1>4, <2>1, <2>2, SeqEqual DEF Text, m, n
  <2>4. QED
    BY <2>3, EscapedIsTold
<1>7. CASE Words!NeedsQuoting(x) # Words!NeedsQuoting(y)
  <2>1. CASE Words!NeedsQuoting(x) /\ ~Words!NeedsQuoting(y)
    <3>1. 1 \in 1..Len(a) /\ a[1] = Words!Quote
      BY <1>1, <2>1
    <3>2. QED
      BY <1>2, <1>3, <2>1, <3>1
  <2>2. CASE Words!NeedsQuoting(y) /\ ~Words!NeedsQuoting(x)
    <3>1. 1 \in 1..Len(b) /\ b[1] = Words!Quote
      BY <1>2, <2>2
    <3>2. QED
      BY <1>1, <1>3, <2>2, <3>1
  <2>3. QED
    BY <1>7, <2>1, <2>2 DEF Words!NeedsQuoting
<1>8. QED
  BY <1>5, <1>6, <1>7 DEF Words!NeedsQuoting

(* No argument ends with a space and another argument: its spaces are      *)
(* within the quotes, where each quote but the last is escaped.            *)
EndsWith(t, d, s) ==
    /\ Len(t) = d + 1 + Len(s) /\ t[d + 1] = Words!Blank
    /\ \A k \in 1..Len(s) : t[d + 1 + k] = s[k]

LEMMA NoArgumentWithin ==
  ASSUME NEW x \in Text, NEW y \in Text, y # << >>, NEW d \in Nat
  PROVE  ~EndsWith(Words!QuoteArgument(x), d, Words!QuoteArgument(y))
<1> DEFINE a == Words!QuoteArgument(x)
           b == Words!QuoteArgument(y)
           e == Inner(x)
           m == Len(e)
           n == Len(Inner(y))
<1>1. /\ ~Words!NeedsQuoting(x) =>
            a = x /\ \A k \in 1..Len(a) : a[k] # Words!Blank /\ a[k] # Words!Quote
      /\ Words!NeedsQuoting(x) =>
            /\ a \in Text /\ m \in Nat /\ Len(a) = m + 2
            /\ a[1] = Words!Quote /\ a[m + 2] = Words!Quote
            /\ \A k \in 1..m : a[k + 1] = e[k]
  BY Quoted
<1>2. /\ ~Words!NeedsQuoting(y) =>
            b = y /\ \A k \in 1..Len(b) : b[k] # Words!Blank /\ b[k] # Words!Quote
      /\ Words!NeedsQuoting(y) =>
            /\ b \in Text /\ n \in Nat /\ Len(b) = n + 2 /\ b[1] = Words!Quote
  BY Quoted
<1>3. Len(y) \in Nat \ {0}
  BY DEF Text
<1>4. QuotesEscaped(e)
  BY InnerQuotesEscaped
<1> HIDE DEF a, b, e, m, n
<1>5. Len(b) \in Nat \ {0}
  BY <1>2, <1>3
<1> SUFFICES ASSUME EndsWith(a, d, b) PROVE FALSE
  BY DEF a, b
<1>6. /\ Len(a) = d + 1 + Len(b) /\ d + 1 \in 1..Len(a) /\ a[d + 1] = Words!Blank
      /\ \A k \in 1..Len(b) : a[d + 1 + k] = b[k]
  BY <1>5 DEF EndsWith
<1>7. Words!NeedsQuoting(x)
  BY <1>1, <1>6
<1>8. a[d + 1 + Len(b)] = Words!Quote /\ Len(b) \in 1..Len(b)
  BY <1>1, <1>5, <1>6, <1>7
<1>9. Words!NeedsQuoting(y)
  BY <1>2, <1>6, <1>8
<1>10. 1 \in 1..Len(b) /\ a[d + 2] = Words!Quote /\ d + 2 < Len(a)
  <2>1. 1 \in 1..Len(b) /\ Len(b) >= 2
    BY <1>2, <1>9
  <2>2. a[d + 1 + 1] = Words!Quote
    BY <1>2, <1>6, <1>9, <2>1
  <2>3. d + 1 + 1 = d + 2
    OBVIOUS
  <2>4. QED
    BY <1>5, <1>6, <2>1, <2>2, <2>3
<1>11. d + 1 \in 1..m /\ e[d + 1] = Words!Quote
  <2>1. d + 1 \in 1..m
    BY <1>1, <1>7, <1>10
  <2>2. a[(d + 1) + 1] = e[d + 1] /\ (d + 1) + 1 = d + 2
    BY <1>1, <1>7, <2>1
  <2>3. QED
    BY <1>10, <2>1, <2>2
<1>12. d + 1 # 1 /\ e[d] = "\\"
  <2>1. d + 1 # 1 /\ e[(d + 1) - 1] = "\\"
    BY <1>4, <1>11 DEF QuotesEscaped, m
  <2>2. (d + 1) - 1 = d
    OBVIOUS
  <2>3. QED
    BY <2>1, <2>2
<1>13. a[d + 1] = "\\"
  <2>1. d \in 1..m
    BY <1>1, <1>7, <1>11, <1>12
  <2>2. QED
    BY <1>1, <1>7, <1>12, <2>1
<1>14. QED
  BY <1>6, <1>13, Marks

(* A command, argument by argument. *)
Told(c) == [i \in DOMAIN c |-> IF i = 1 THEN Words!QuoteArgument(c[i])
                               ELSE <<Words!Blank>> \o Words!QuoteArgument(c[i])]

LEMMA QuotedIsText ==
  ASSUME NEW arg \in Text, arg # << >>
  PROVE  Words!QuoteArgument(arg) \in Text /\ Words!QuoteArgument(arg) # << >>
<1>1. CASE ~Words!NeedsQuoting(arg)
  BY <1>1, Quoted
<1>2. CASE Words!NeedsQuoting(arg)
  <2> DEFINE q == Words!QuoteArgument(arg)
             n == Len(Inner(arg))
  <2>1. q \in Text /\ n \in Nat /\ Len(q) = n + 2
    BY <1>2, Quoted
  <2> HIDE DEF q, n
  <2>2. q # << >>
    BY <2>1 DEF Text
  <2>3. QED
    BY <2>1, <2>2 DEF q
<1>3. QED
  BY <1>1, <1>2

LEMMA ToldPieces ==
  ASSUME NEW c \in Seq(Text \ {<< >>})
  PROVE  /\ Told(c) \in Seq(Text \ {<< >>}) /\ Len(Told(c)) = Len(c)
         /\ \A i \in 1..Len(c) :
               /\ c[i] \in Text /\ c[i] # << >> /\ Words!QuoteArgument(c[i]) \in Text
               /\ i = 1 => Told(c)[i] = Words!QuoteArgument(c[i])
               /\ i # 1 => Told(c)[i] = <<Words!Blank>> \o Words!QuoteArgument(c[i])
<1>1. Len(c) \in Nat /\ DOMAIN c = 1..Len(c) /\ \A i \in 1..Len(c) : c[i] \in Text /\ c[i] # << >>
  OBVIOUS
<1>2. ASSUME NEW i \in 1..Len(c)
      PROVE  /\ c[i] \in Text /\ c[i] # << >> /\ Words!QuoteArgument(c[i]) \in Text
             /\ i = 1 => Told(c)[i] = Words!QuoteArgument(c[i])
             /\ i # 1 => Told(c)[i] = <<Words!Blank>> \o Words!QuoteArgument(c[i])
             /\ Told(c)[i] \in Text \ {<< >>}
  <2> DEFINE q == Words!QuoteArgument(c[i])
             s == <<Words!Blank>>
  <2>1. q \in Text /\ q # << >>
    BY <1>1, QuotedIsText
  <2>2. Told(c)[i] = IF i = 1 THEN q ELSE s \o q
    BY <1>1 DEF Told
  <2>3. s \in Text /\ Len(s) = 1
    BY Marks DEF Text
  <2> HIDE DEF q, s
  <2>4. s \o q \in Text /\ s \o q # << >>
    <3>1. s \o q \in Text /\ Len(s \o q) = Len(s) + Len(q) /\ Len(q) \in Nat
      BY <2>1, <2>3, Concatenated
    <3>2. Len(s \o q) # 0
      BY <2>3, <3>1
    <3>3. QED
      BY <3>1, <3>2 DEF Text
  <2>5. QED
    BY <1>1, <2>1, <2>2, <2>4 DEF q, s
<1>3. Told(c) \in [1..Len(c) -> Text \ {<< >>}]
  <2>1. Told(c) = [i \in 1..Len(c) |-> Told(c)[i]]
    BY <1>1 DEF Told
  <2>2. QED
    BY <1>2, <2>1
<1>4. Told(c) \in Seq(Text \ {<< >>}) /\ Len(Told(c)) = Len(c)
  <2> DEFINE S == Text \ {<< >>}
             e == Told(c)
             n == Len(c)
  <2>1. e \in [1..n -> S] /\ n \in Nat
    BY <1>1, <1>3
  <2> HIDE DEF e, n, S
  <2>2. e \in Seq(S) /\ Len(e) = n
    BY <2>1
  <2>3. QED
    BY <2>2 DEF e, n, S
<1>5. QED
  BY <1>2, <1>4

(* A text that is put together so ends with an argument. *)
LEMMA BlankAndArgument ==
  ASSUME NEW v \in Text, NEW s \in Text, NEW t, t = v \o (<<Words!Blank>> \o s)
  PROVE  EndsWith(t, Len(v), s) /\ Len(v) \in Nat
<1> DEFINE b == <<Words!Blank>>
           p == b \o s
<1>1. b \in Text /\ Len(b) = 1 /\ b[1] = Words!Blank
  BY Marks DEF Text
<1> HIDE DEF b
<1>2. /\ p \in Text /\ Len(p) = Len(b) + Len(s) /\ Len(s) \in Nat
      /\ \A k \in 1..Len(b) : p[k] = b[k]
      /\ \A k \in 1..Len(s) : p[Len(b) + k] = s[k]
  BY <1>1, Concatenated
<1>3. t = v \o p
  BY DEF b
<1> HIDE DEF p
<1>4. /\ Len(t) = Len(v) + Len(p) /\ Len(v) \in Nat
      /\ \A k \in 1..Len(p) : t[Len(v) + k] = p[k]
  <2>1. /\ Len(v \o p) = Len(v) + Len(p) /\ Len(v) \in Nat
        /\ \A k \in 1..Len(p) : (v \o p)[Len(v) + k] = p[k]
    BY <1>2, Concatenated
  <2>2. QED
    BY <1>3, <2>1
<1>5. Len(t) = Len(v) + 1 + Len(s)
  BY <1>1, <1>2, <1>4
<1>6. t[Len(v) + 1] = Words!Blank
  BY <1>1, <1>2, <1>4
<1>7. ASSUME NEW k \in 1..Len(s) PROVE t[Len(v) + 1 + k] = s[k]
  <2>1. 1 + k \in 1..Len(p) /\ Len(v) + (1 + k) = Len(v) + 1 + k
    BY <1>1, <1>2, <1>4
  <2>2. p[1 + k] = s[k]
    BY <1>1, <1>2
  <2>3. QED
    BY <1>4, <2>1, <2>2
<1>8. QED
  BY <1>4, <1>5, <1>6, <1>7 DEF EndsWith

(* Where an argument begins is told by what follows. *)
LEMMA EqualEnds ==
  ASSUME NEW x \in Text, NEW y \in Text, x # << >>, y # << >>, NEW t, NEW m \in Nat, NEW n \in Nat,
         EndsWith(t, m, Words!QuoteArgument(x)), EndsWith(t, n, Words!QuoteArgument(y)), m <= n
  PROVE  Words!QuoteArgument(x) = Words!QuoteArgument(y)
<1> DEFINE a == Words!QuoteArgument(x)
           b == Words!QuoteArgument(y)
<1>1. a \in Text /\ Len(a) \in Nat /\ b \in Text /\ Len(b) \in Nat
  BY QuotedIsText DEF Text
<1>2. \A r \in Nat : ~EndsWith(a, r, b)
  BY NoArgumentWithin
<1>3. /\ Len(t) = m + 1 + Len(a) /\ \A k \in 1..Len(a) : t[m + 1 + k] = a[k]
      /\ Len(t) = n + 1 + Len(b) /\ \A k \in 1..Len(b) : t[n + 1 + k] = b[k]
      /\ t[n + 1] = Words!Blank
  BY DEF EndsWith
<1> HIDE DEF a, b
<1>4. CASE m = n
  <2>1. Len(a) = Len(b)
    BY <1>1, <1>3, <1>4
  <2>2. \A k \in 1..Len(a) : a[k] = b[k]
    BY <1>3, <1>4, <2>1
  <2>3. QED
    BY <1>1, <2>1, <2>2, SeqEqual DEF Text, a, b
<1>5. CASE m < n
  <2> DEFINE r == n - m - 1
  <2>1. r \in Nat /\ n = m + 1 + r
    BY <1>5
  <2> HIDE DEF r
  <2>2. Len(a) = r + 1 + Len(b)
    BY <1>1, <1>3, <2>1
  <2>3. a[r + 1] = Words!Blank
    <3>1. r + 1 \in 1..Len(a) /\ m + 1 + (r + 1) = n + 1
      BY <1>1, <2>1, <2>2
    <3>2. QED
      BY <1>3, <3>1
  <2>4. ASSUME NEW k \in 1..Len(b) PROVE a[r + 1 + k] = b[k]
    <3>1. r + 1 + k \in 1..Len(a) /\ m + 1 + (r + 1 + k) = n + 1 + k
      BY <1>1, <2>1, <2>2
    <3>2. QED
      BY <1>3, <3>1
  <2>5. EndsWith(a, r, b)
    BY <2>2, <2>3, <2>4 DEF EndsWith
  <2>6. QED
    BY <1>2, <2>1, <2>5
<1>6. QED
  BY <1>4, <1>5

(* Equal beginnings of equal texts are followed by equal ends. *)
LEMMA BeginningsAreCut ==
  ASSUME NEW u \in Text, NEW x \in Text, NEW y \in Text, u \o x = u \o y
  PROVE  x = y
<1>1. /\ Len(u \o x) = Len(u) + Len(x) /\ Len(u) \in Nat /\ Len(x) \in Nat
      /\ \A k \in 1..Len(x) : (u \o x)[Len(u) + k] = x[k]
  BY Concatenated
<1>2. /\ Len(u \o y) = Len(u) + Len(y) /\ Len(y) \in Nat
      /\ \A k \in 1..Len(y) : (u \o y)[Len(u) + k] = y[k]
  BY Concatenated
<1>3. Len(x) = Len(y)
  BY <1>1, <1>2
<1>4. \A k \in 1..Len(x) : x[k] = y[k]
  BY <1>1, <1>2, <1>3
<1>5. QED
  BY <1>3, <1>4, SeqEqual DEF Text

LEMMA CommandIsTold ==
  ASSUME NEW c \in Seq(Text \ {<< >>}), NEW d \in Seq(Text \ {<< >>}),
         Words!QuoteCommand(c) = Words!QuoteCommand(d)
  PROVE  c = d
<1> DEFINE e == Told(c)
           f == Told(d)
<1>1. /\ e \in Seq(Text \ {<< >>}) /\ Len(e) = Len(c)
      /\ f \in Seq(Text \ {<< >>}) /\ Len(f) = Len(d)
  BY ToldPieces
<1>2. Words!FlattenSeq(e) = Words!FlattenSeq(f)
  BY DEF Words!QuoteCommand, Told
<1>3. ASSUME NEW i \in 1..Len(c)
      PROVE  /\ c[i] \in Text /\ c[i] # << >> /\ Words!QuoteArgument(c[i]) \in Text
             /\ i = 1 => e[i] = Words!QuoteArgument(c[i])
             /\ i # 1 => e[i] = <<Words!Blank>> \o Words!QuoteArgument(c[i])
  BY ToldPieces
<1>4. ASSUME NEW j \in 1..Len(d)
      PROVE  /\ d[j] \in Text /\ d[j] # << >> /\ Words!QuoteArgument(d[j]) \in Text
             /\ j = 1 => f[j] = Words!QuoteArgument(d[j])
             /\ j # 1 => f[j] = <<Words!Blank>> \o Words!QuoteArgument(d[j])
  BY ToldPieces
<1> HIDE DEF e, f
<1>5. ASSUME NEW i \in 1..Len(e), NEW j \in 1..Len(f), NEW u \in Text, NEW v \in Text,
             (i = 1 => u = << >>) /\ (j = 1 => v = << >>) /\ u \o e[i] = v \o f[j]
      PROVE  e[i] = f[j]
  <2> DEFINE x == c[i]
             y == d[j]
  <2>1. /\ x \in Text /\ x # << >> /\ Words!QuoteArgument(x) \in Text
        /\ i = 1 => e[i] = Words!QuoteArgument(x)
        /\ i # 1 => e[i] = <<Words!Blank>> \o Words!QuoteArgument(x)
    BY <1>1, <1>3
  <2>2. /\ y \in Text /\ y # << >> /\ Words!QuoteArgument(y) \in Text
        /\ j = 1 => f[j] = Words!QuoteArgument(y)
        /\ j # 1 => f[j] = <<Words!Blank>> \o Words!QuoteArgument(y)
    BY <1>1, <1>4
  <2> HIDE DEF x, y
  <2>3. CASE i = 1 /\ j = 1
    <3>1. << >> \o e[i] = << >> \o f[j] /\ e[i] \in Seq(Characters) /\ f[j] \in Seq(Characters)
      BY <1>5, <2>1, <2>2, <2>3 DEF Text
    <3>2. QED
      BY <3>1, ConcatEmptySeq
  <2>4. CASE i = 1 /\ j # 1
    <3>1. << >> \o Words!QuoteArgument(x) = v \o (<<Words!Blank>> \o Words!QuoteArgument(y))
      BY <1>5, <2>1, <2>2, <2>4
    <3>2. Words!QuoteArgument(x) = v \o (<<Words!Blank>> \o Words!QuoteArgument(y))
      BY <2>1, <3>1, ConcatEmptySeq DEF Text
    <3>3. EndsWith(Words!QuoteArgument(x), Len(v), Words!QuoteArgument(y)) /\ Len(v) \in Nat
      BY <2>2, <3>2, BlankAndArgument
    <3>4. QED
      BY <2>1, <2>2, <3>3, NoArgumentWithin
  <2>5. CASE i # 1 /\ j = 1
    <3>1. << >> \o Words!QuoteArgument(y) = u \o (<<Words!Blank>> \o Words!QuoteArgument(x))
      BY <1>5, <2>1, <2>2, <2>5
    <3>2. Words!QuoteArgument(y) = u \o (<<Words!Blank>> \o Words!QuoteArgument(x))
      BY <2>2, <3>1, ConcatEmptySeq DEF Text
    <3>3. EndsWith(Words!QuoteArgument(y), Len(u), Words!QuoteArgument(x)) /\ Len(u) \in Nat
      BY <2>1, <3>2, BlankAndArgument
    <3>4. QED
      BY <2>1, <2>2, <3>3, NoArgumentWithin
  <2>6. CASE i # 1 /\ j # 1
    <3>1. u \o (<<Words!Blank>> \o Words!QuoteArgument(x)) = v \o (<<Words!Blank>> \o Words!QuoteArgument(y))
      BY <1>5, <2>1, <2>2, <2>6
    <3>2. PICK t : /\ t = u \o (<<Words!Blank>> \o Words!QuoteArgument(x))
                   /\ t = v \o (<<Words!Blank>> \o Words!QuoteArgument(y))
      BY <3>1
    <3>3. /\ EndsWith(t, Len(u), Words!QuoteArgument(x)) /\ Len(u) \in Nat
          /\ EndsWith(t, Len(v), Words!QuoteArgument(y)) /\ Len(v) \in Nat
      BY <2>1, <2>2, <3>2, BlankAndArgument
    <3>4. Words!QuoteArgument(x) = Words!QuoteArgument(y)
      <4>1. CASE Len(u) <= Len(v)
        BY <2>1, <2>2, <3>3, <4>1, EqualEnds
      <4>2. CASE Len(v) <= Len(u)
        BY <2>1, <2>2, <3>3, <4>2, EqualEnds
      <4>3. QED
        BY <3>3, <4>1, <4>2
    <3>5. QED
      BY <2>1, <2>2, <2>6, <3>4
  <2>7. QED
    BY <2>3, <2>4, <2>5, <2>6
<1>6. e = f
  <2>1. EndsTell(e, f, Text)
    BY <1>5 DEF EndsTell
  <2>2. /\ e \in Seq(Seq(Characters) \ {<< >>}) /\ f \in Seq(Seq(Characters) \ {<< >>})
        /\ EndsTell(e, f, Seq(Characters))
    BY <1>1, <2>1 DEF Text
  <2>3. QED
    BY <1>2, <2>2, PiecesAreTold
<1>7. Len(c) = Len(d)
  BY <1>1, <1>6
<1>8. ASSUME NEW i \in 1..Len(c) PROVE c[i] = d[i]
  <2> DEFINE x == c[i]
             y == d[i]
  <2>1. /\ x \in Text /\ Words!QuoteArgument(x) \in Text
        /\ i = 1 => e[i] = Words!QuoteArgument(x)
        /\ i # 1 => e[i] = <<Words!Blank>> \o Words!QuoteArgument(x)
    BY <1>3
  <2>2. /\ y \in Text /\ Words!QuoteArgument(y) \in Text
        /\ i = 1 => f[i] = Words!QuoteArgument(y)
        /\ i # 1 => f[i] = <<Words!Blank>> \o Words!QuoteArgument(y)
    BY <1>4, <1>7
  <2> HIDE DEF x, y
  <2>3. Words!QuoteArgument(x) = Words!QuoteArgument(y)
    <3>1. i # 1 => <<Words!Blank>> \o Words!QuoteArgument(x) = <<Words!Blank>> \o Words!QuoteArgument(y)
      BY <1>6, <2>1, <2>2
    <3>2. <<Words!Blank>> \in Text
      BY Marks DEF Text
    <3>3. i # 1 => Words!QuoteArgument(x) = Words!QuoteArgument(y)
      BY <2>1, <2>2, <3>1, <3>2, BeginningsAreCut
    <3>4. QED
      BY <1>6, <2>1, <2>2, <3>3
  <2>4. QED
    BY <2>1, <2>2, <2>3, ArgumentsAreTold DEF x, y
<1>9. QED
  BY <1>7, <1>8, SeqEqual

LEMMA EachCommandIsTold ==
  ASSUME NEW C, C \subseteq Seq(Text \ {<< >>}), IsFiniteSet(C)
  PROVE  Words!CommandsAreTold(C)
<1> DEFINE T == {Words!QuoteCommand(c) : c \in C}
           f == [c \in C |-> Words!QuoteCommand(c)]
<1>1. f \in Surjection(C, T)
  <2>1. f \in [C -> T]
    OBVIOUS
  <2>2. \A t \in T : \E c \in C : f[c] = t
    OBVIOUS
  <2>3. QED
    BY <2>1, <2>2 DEF Surjection
<1>2. f \in Injection(C, T)
  <2>1. \A c, d \in C : f[c] = f[d] => c = d
    BY CommandIsTold
  <2>2. f \in [C -> T] /\ DOMAIN f = C
    OBVIOUS
  <2> HIDE DEF f, T
  <2>3. QED
    BY <2>1, <2>2 DEF Injection, IsInjective
<1> HIDE DEF f, T
<1>3. Cardinality(T) = Cardinality(C)
  BY <1>1, <1>2, FS_Surjection
<1>4. QED
  BY <1>3, SameNumber DEF Words!CommandsAreTold, T

(* What split_shell_string and a shell know after a character.             *)
SplitState(w, t, q, e) == [words |-> w, token |-> t, quote |-> q, escaped |-> e]

(* For plain words no escape is within quotes.                             *)
Plain(st) == \E w, t, q, e : /\ st = SplitState(w, t, q, e) /\ e \in BOOLEAN
                             /\ e => q = "none"

LEMMA SplitStates ==
  ASSUME NEW w, NEW t, NEW q, NEW e, NEW x
  PROVE  LET st == SplitState(w, t, q, e) IN
         /\ st.words = w /\ st.token = t /\ st.quote = q /\ st.escaped = e
         /\ [st EXCEPT !.words = x] = SplitState(x, t, q, e)
         /\ [st EXCEPT !.token = x] = SplitState(w, x, q, e)
         /\ [st EXCEPT !.quote = x] = SplitState(w, t, x, e)
         /\ [st EXCEPT !.escaped = x] = SplitState(w, t, q, x)
  BY DEF SplitState

LEMMA Characters7 ==
  /\ "none" \notin Words!Quotes /\ "none" # Words!Quote /\ "none" # "'"
  /\ "\\" \notin Words!Quotes /\ "\\" \notin Words!Space
  /\ \A c \in Words!Quotes : c \notin Words!Space
<1>1. "none" # Words!Quote /\ "\\" # Words!Quote
  BY Zenon DEF Words!Quote
<1>2. "\\" \notin Words!Space
  BY Zenon DEF Words!Space, Words!Blank
<1>3. "'" \notin Words!Space /\ Words!Quote \notin Words!Space
  BY Zenon DEF Words!Space, Words!Blank, Words!Quote
<1>4. QED
  BY <1>1, <1>2, <1>3 DEF Words!Quotes

LEMMA PlainCharacter ==
  ASSUME NEW st, Plain(st), NEW c,
         c \in Words!Quotes /\ st.quote = "none" /\ ~st.escaped => st.token = << >>,
         c = "\\" => st.quote = "none"
  PROVE  Words!ReadChar(st, c) = Words!ShellChar(st, c) /\ Plain(Words!ReadChar(st, c))
<1>1. PICK w, t, q, e : st = SplitState(w, t, q, e) /\ e \in BOOLEAN /\ (e => q = "none")
  BY DEF Plain
<1>2. st.words = w /\ st.token = t /\ st.quote = q /\ st.escaped = e
  BY <1>1, SplitStates
<1>3. PICK yes, no : yes = TRUE /\ no = FALSE
  OBVIOUS
<1>4. ASSUME NEW x, NEW y
      PROVE  /\ [st EXCEPT !.token = x] = SplitState(w, x, q, e)
             /\ [st EXCEPT !.quote = x] = SplitState(w, t, x, e)
             /\ [st EXCEPT !.escaped = x] = SplitState(w, t, q, x)
             /\ [[st EXCEPT !.escaped = x] EXCEPT !.token = y] = SplitState(w, y, q, x)
             /\ [[st EXCEPT !.quote = x] EXCEPT !.token = y] = SplitState(w, y, x, e)
             /\ [[st EXCEPT !.words = x] EXCEPT !.token = y] = SplitState(x, y, q, e)
  <2>1. /\ [st EXCEPT !.token = x] = SplitState(w, x, q, e)
        /\ [st EXCEPT !.quote = x] = SplitState(w, t, x, e)
        /\ [st EXCEPT !.escaped = x] = SplitState(w, t, q, x)
        /\ [st EXCEPT !.words = x] = SplitState(x, t, q, e)
    BY <1>1, SplitStates
  <2>2. /\ [SplitState(w, t, q, x) EXCEPT !.token = y] = SplitState(w, y, q, x)
        /\ [SplitState(w, t, x, e) EXCEPT !.token = y] = SplitState(w, y, x, e)
        /\ [SplitState(x, t, q, e) EXCEPT !.token = y] = SplitState(x, y, q, e)
    BY SplitStates
  <2>3. QED
    BY <2>1, <2>2
<1>5. SUFFICES \E v, u, p, f : /\ Words!ReadChar(st, c) = SplitState(v, u, p, f)
                               /\ Words!ShellChar(st, c) = SplitState(v, u, p, f)
                               /\ f \in BOOLEAN /\ (f => p = "none")
  BY DEF Plain
<1>6. CASE e
  <2> DEFINE x == IF c = "\n" THEN t ELSE Words!With(t, c)
  <2>1. [[st EXCEPT !.escaped = FALSE] EXCEPT !.token = x] = SplitState(w, x, q, no)
    BY <1>3, <1>4
  <2>2. Words!ReadChar(st, c) = [[st EXCEPT !.escaped = FALSE] EXCEPT !.token = x]
    BY <1>2, <1>6 DEF Words!ReadChar
  <2>3. Words!ShellChar(st, c) = [[st EXCEPT !.escaped = FALSE] EXCEPT !.token = x]
    BY <1>1, <1>2, <1>6, Characters7 DEF Words!ShellChar
  <2> HIDE DEF x
  <2>4. /\ Words!ReadChar(st, c) = SplitState(w, x, q, no)
        /\ Words!ShellChar(st, c) = SplitState(w, x, q, no)
    BY <2>1, <2>2, <2>3
  <2>5. no \in BOOLEAN /\ (no => q = "none")
    BY <1>3
  <2>6. QED
    BY <2>4, <2>5, SMTT(40)
<1>7. CASE ~e /\ c = "\\"
  <2>1. q = "none"
    BY <1>2, <1>7
  <2>2. [st EXCEPT !.escaped = TRUE] = SplitState(w, t, q, yes)
    BY <1>3, <1>4
  <2>3. Words!ReadChar(st, c) = SplitState(w, t, q, yes)
    BY <1>2, <1>7, <2>2, Characters7 DEF Words!ReadChar
  <2>4. Words!ShellChar(st, c) = SplitState(w, t, q, yes)
    BY <1>2, <1>7, <2>1, <2>2, Characters7 DEF Words!ShellChar
  <2>5. yes \in BOOLEAN
    BY <1>3
  <2>6. QED
    BY <2>1, <2>3, <2>4, <2>5
<1>8. CASE ~e /\ c # "\\" /\ q # "none"
  <2> DEFINE left == [st EXCEPT !.quote = "none"]
             more == [st EXCEPT !.token = Words!With(t, c)]
  <2>1. left = SplitState(w, t, "none", e) /\ more = SplitState(w, Words!With(t, c), q, e)
    BY <1>4
  <2>2. Words!ReadChar(st, c) = IF c = q THEN left ELSE more
    BY <1>2, <1>8 DEF Words!ReadChar
  <2>3. Words!ShellChar(st, c) = IF c = q THEN left ELSE more
    BY <1>2, <1>8 DEF Words!ShellChar
  <2> HIDE DEF left, more
  <2>4. CASE c = q
    BY <1>1, <1>8, <2>1, <2>2, <2>3, <2>4
  <2>5. CASE c # q
    BY <1>1, <1>8, <2>1, <2>2, <2>3, <2>5
  <2>6. QED
    BY <2>4, <2>5, SMTT(40)
<1>9. CASE ~e /\ c # "\\" /\ q = "none" /\ c \in Words!Quotes
  <2> DEFINE y == <<<< >>>>
             quoted == [[st EXCEPT !.quote = c] EXCEPT !.token = y]
  <2>1. t = << >>
    BY <1>2, <1>9
  <2>2. Words!ReadChar(st, c) = quoted
    BY <1>2, <1>9, Characters7 DEF Words!ReadChar, Words!BeginQuote
  <2>3. Words!ShellChar(st, c) = quoted
    BY <1>2, <1>9, <2>1, Characters7, SMTT(40) DEF Words!ShellChar
  <2> HIDE DEF y
  <2>4. quoted = SplitState(w, y, c, e)
    BY <1>4
  <2> HIDE DEF quoted
  <2>5. QED
    BY <1>1, <1>9, <2>2, <2>3, <2>4
<1>10. CASE ~e /\ c # "\\" /\ q = "none" /\ c \notin Words!Quotes
  <2> DEFINE more == [st EXCEPT !.token = Words!With(t, c)]
             ended == [[st EXCEPT !.words = w \o t] EXCEPT !.token = << >>]
  <2>1. more = SplitState(w, Words!With(t, c), q, e) /\ ended = SplitState(w \o t, << >>, q, e)
    BY <1>4
  <2>2. Words!ReadChar(st, c) = IF c \in Words!Space THEN ended ELSE more
    BY <1>2, <1>10 DEF Words!ReadChar
  <2>3. Words!ShellChar(st, c) = IF c \in Words!Space THEN ended ELSE more
    BY <1>2, <1>10 DEF Words!ShellChar
  <2> HIDE DEF more, ended
  <2>4. CASE c \in Words!Space
    BY <1>1, <1>10, <2>1, <2>2, <2>3, <2>4
  <2>5. CASE c \notin Words!Space
    BY <1>1, <1>10, <2>1, <2>2, <2>3, <2>5
  <2>6. QED
    BY <2>4, <2>5
<1>11. QED
  BY <1>1, <1>6, <1>7, <1>8, <1>9, <1>10

(* The states are those after each character. *)
Reads(s, k, f) ==
    f = [i \in 0..k |-> IF i = 0 THEN Words!StartSplit ELSE Words!ReadChar(f[i - 1], s[i])]

LEMMA ReadsText ==
  ASSUME NEW s \in Text
  PROVE  Reads(s, Len(s), Words!States(s))
<1> DEFINE n == Len(s)
           T == {k \in 0..n : \E f : Reads(s, k, f)}
<1>1. n \in Nat
  BY DEF Text
<1>2. 0 \in T
  <2> DEFINE f == [i \in 0..0 |-> Words!StartSplit]
  <2>1. Reads(s, 0, f)
    BY DEF Reads
  <2> HIDE DEF f
  <2>2. QED
    BY <1>1, <2>1
<1>3. ASSUME NEW k \in 1..n, k - 1 \in T PROVE k \in T
  <2>1. PICK f : Reads(s, k - 1, f)
    BY <1>3
  <2> DEFINE g == [i \in 0..k |-> IF i = k THEN Words!ReadChar(f[k - 1], s[k]) ELSE f[i]]
  <2>2. ASSUME NEW i \in 0..k
        PROVE  g[i] = IF i = 0 THEN Words!StartSplit ELSE Words!ReadChar(g[i - 1], s[i])
    <3>1. CASE i = 0
      BY <2>1, <3>1 DEF Reads
    <3>2. CASE i # 0
      <4>1. i - 1 \in 0..k /\ i - 1 # k /\ g[i - 1] = f[i - 1]
        BY <3>2
      <4>2. CASE i = k
        BY <3>2, <4>1, <4>2
      <4>3. CASE i # k
        <5>1. i \in 0..(k - 1)
          BY <4>3
        <5>2. QED
          BY <2>1, <3>2, <4>1, <4>3, <5>1 DEF Reads
      <4>4. QED
        BY <4>2, <4>3
    <3>3. QED
      BY <3>1, <3>2
  <2>3. Reads(s, k, g)
    <3>1. g = [i \in 0..k |-> g[i]]
      OBVIOUS
    <3> HIDE DEF g
    <3>2. QED
      BY <2>2, <3>1 DEF Reads
  <2> HIDE DEF g
  <2>4. QED
    BY <1>1, <2>3
<1> HIDE DEF T, n
<1>4. \A k \in 0..n : k \in T
  BY <1>1, <1>2, <1>3, Upward
<1>5. \E f : Reads(s, n, f)
  BY <1>1, <1>4 DEF T
<1>6. Words!States(s) = CHOOSE f : Reads(s, n, f)
  BY DEF Words!States, Reads, n
<1>7. QED
  BY <1>5, <1>6 DEF n

(* The same for a shell. *)
ShellReads(s, k, f) ==
    f = [i \in 0..k |-> IF i = 0 THEN Words!StartSplit ELSE Words!ShellChar(f[i - 1], s[i])]

LEMMA ShellReadsText ==
  ASSUME NEW s \in Text
  PROVE  ShellReads(s, Len(s), Words!ShellStates(s))
<1> DEFINE n == Len(s)
           T == {k \in 0..n : \E f : ShellReads(s, k, f)}
<1>1. n \in Nat
  BY DEF Text
<1>2. 0 \in T
  <2> DEFINE f == [i \in 0..0 |-> Words!StartSplit]
  <2>1. ShellReads(s, 0, f)
    BY DEF ShellReads
  <2> HIDE DEF f
  <2>2. QED
    BY <1>1, <2>1
<1>3. ASSUME NEW k \in 1..n, k - 1 \in T PROVE k \in T
  <2>1. PICK f : ShellReads(s, k - 1, f)
    BY <1>3
  <2> DEFINE g == [i \in 0..k |-> IF i = k THEN Words!ShellChar(f[k - 1], s[k]) ELSE f[i]]
  <2>2. ASSUME NEW i \in 0..k
        PROVE  g[i] = IF i = 0 THEN Words!StartSplit ELSE Words!ShellChar(g[i - 1], s[i])
    <3>1. CASE i = 0
      BY <2>1, <3>1 DEF ShellReads
    <3>2. CASE i # 0
      <4>1. i - 1 \in 0..k /\ i - 1 # k /\ g[i - 1] = f[i - 1]
        BY <3>2
      <4>2. CASE i = k
        BY <3>2, <4>1, <4>2
      <4>3. CASE i # k
        <5>1. i \in 0..(k - 1)
          BY <4>3
        <5>2. QED
          BY <2>1, <3>2, <4>1, <4>3, <5>1 DEF ShellReads
      <4>4. QED
        BY <4>2, <4>3
    <3>3. QED
      BY <3>1, <3>2
  <2>3. ShellReads(s, k, g)
    <3>1. g = [i \in 0..k |-> g[i]]
      OBVIOUS
    <3> HIDE DEF g
    <3>2. QED
      BY <2>2, <3>1 DEF ShellReads
  <2> HIDE DEF g
  <2>4. QED
    BY <1>1, <2>3
<1> HIDE DEF T, n
<1>4. \A k \in 0..n : k \in T
  BY <1>1, <1>2, <1>3, Upward
<1>5. \E f : ShellReads(s, n, f)
  BY <1>1, <1>4 DEF T
<1>6. Words!ShellStates(s) = CHOOSE f : ShellReads(s, n, f)
  BY DEF Words!ShellStates, ShellReads, n
<1>7. QED
  BY <1>5, <1>6 DEF n

LEMMA PlainWordsAreSplit ==
  ASSUME NEW s \in Text
  PROVE  Words!SplitsPlainWords(s)
<1> DEFINE n == Len(s)
           f == Words!States(s)
           g == Words!ShellStates(s)
<1>1. n \in Nat /\ DOMAIN s = 1..n
  BY DEF Text
<1>2. Reads(s, n, f) /\ ShellReads(s, n, g)
  BY ReadsText, ShellReadsText
<1> SUFFICES ASSUME \A i \in DOMAIN s :
                       /\ s[i] \in Words!Quotes /\ g[i - 1].quote = "none" /\ ~g[i - 1].escaped =>
                              g[i - 1].token = << >>
                       /\ s[i] = "\\" => g[i - 1].quote = "none"
             PROVE  Words!SplitsLikeAShell(s)
  BY DEF Words!SplitsPlainWords
<1> HIDE DEF n, f, g
<1> DEFINE T == {i \in 0..n : f[i] = g[i] /\ Plain(f[i])}
<1>3. 0 \in T
  <2>1. f[0] = Words!StartSplit /\ g[0] = Words!StartSplit /\ 0 \in 0..n
    BY <1>1, <1>2 DEF Reads, ShellReads
  <2>2. PICK no : no = FALSE
    OBVIOUS
  <2>3. Words!StartSplit = SplitState(<< >>, << >>, "none", no)
    BY <2>2 DEF Words!StartSplit, SplitState
  <2>4. Plain(Words!StartSplit)
    BY <2>2, <2>3 DEF Plain
  <2>5. QED
    BY <2>1, <2>4
<1>4. ASSUME NEW i \in 1..n, i - 1 \in T PROVE i \in T
  <2>1. f[i] = Words!ReadChar(f[i - 1], s[i]) /\ g[i] = Words!ShellChar(g[i - 1], s[i])
    BY <1>1, <1>2 DEF Reads, ShellReads
  <2>2. f[i - 1] = g[i - 1] /\ Plain(g[i - 1])
    BY <1>4
  <2>3. /\ s[i] \in Words!Quotes /\ g[i - 1].quote = "none" /\ ~g[i - 1].escaped =>
                g[i - 1].token = << >>
        /\ s[i] = "\\" => g[i - 1].quote = "none"
    BY <1>1
  <2>4. /\ Words!ReadChar(g[i - 1], s[i]) = Words!ShellChar(g[i - 1], s[i])
        /\ Plain(Words!ReadChar(g[i - 1], s[i]))
    <3> DEFINE st == g[i - 1]
               c == s[i]
    <3> HIDE DEF st, c
    <3>1. /\ Words!ReadChar(st, c) = Words!ShellChar(st, c)
          /\ Plain(Words!ReadChar(st, c))
      <4>1. Plain(st)
        BY <2>2 DEF st
      <4>2. /\ c \in Words!Quotes /\ st.quote = "none" /\ ~st.escaped => st.token = << >>
            /\ c = "\\" => st.quote = "none"
        BY <2>3 DEF st, c
      <4>3. QED
        BY <4>1, <4>2, PlainCharacter
    <3>2. QED
      BY <3>1 DEF st, c
  <2>5. i \in 0..n /\ f[i] = g[i] /\ Plain(f[i])
    BY <2>1, <2>2, <2>4
  <2>6. QED
    BY <2>5
<1> HIDE DEF T
<1>5. \A i \in 0..n : i \in T
  BY <1>1, <1>3, <1>4, Upward
<1>6. f[n] = g[n]
  BY <1>1, <1>5 DEF T
<1>7. Words!SplitShellString(s) = f[n].words \o f[n].token
  BY DEF Words!SplitShellString, f, n
<1>8. Words!ShellWords(s) = g[n].words \o g[n].token
  BY DEF Words!ShellWords, Words!ShellEnd, g, n
<1>9. QED
  BY <1>6, <1>7, <1>8 DEF Words!SplitsLikeAShell

(* The first element that passes a test. *)
LEMMA FirstOfNumbers ==
  ASSUME NEW S \in SUBSET Nat, S # {}
  PROVE  Words!Min(S) \in S /\ \A i \in S : Words!Min(S) <= i
<1>1. PICK i \in S : \A j \in Nat : j < i => j \notin S
  BY LeastNumber
<1>2. \A j \in S : i <= j
  BY <1>1
<1>3. QED
  BY <1>2 DEF Words!Min

(* Reasons without the texts of the spaces and the like. *)
LEMMA NameCharacters ==
  /\ {"a", "1"} \cap Words!Punctuation = {} /\ {"a", "1"} \cap Words!Space = {}
  /\ Words!Punctuation \cap Words!Space = {}
  /\ "A" \notin {"a", "1"} /\ "A" \notin Words!Punctuation
<1>1. /\ "a" \notin Words!Space /\ "1" \notin Words!Space
      /\ "a" \notin Words!Punctuation /\ "1" \notin Words!Punctuation
      /\ "A" \notin {"a", "1"} /\ "A" \notin Words!Punctuation
  BY Zenon DEF Words!Space, Words!Punctuation, Words!Blank
<1>2. \A c \in Words!Punctuation : c \notin Words!Space
  BY Zenon DEF Words!Space, Words!Punctuation, Words!Blank
<1>3. QED
  BY <1>1, <1>2

LEMMA ReasonsAre ==
  ASSUME NEW s \in Text
  PROVE  /\ "empty" \in Words!Reasons(s) <=> s = << >>
         /\ "capital" \in Words!Reasons(s) <=> "A" \in Words!ToSet(s)
         /\ "double_punct" \in Words!Reasons(s) <=>
                \E i \in 1..(Len(s) - 1) : s[i] \in Words!Punctuation /\ s[i + 1] \in Words!Punctuation
         /\ "initial_not_alpha" \in Words!Reasons(s) <=> s # << >> /\ s[1] # "a"
         /\ "end_punct" \in Words!Reasons(s) <=> s # << >> /\ s[Len(s)] \in Words!Punctuation
         /\ "whitespace" \in Words!Reasons(s) <=> Words!ToSet(s) \cap Words!Space # {}
         /\ "invalid_char" \in Words!Reasons(s) <=>
                ~(Words!ToSet(s) \subseteq {"a", "1"} \cup Words!Punctuation)
         /\ Words!Reasons(s) \subseteq {"empty", "capital", "double_punct", "initial_not_alpha",
                                        "end_punct", "whitespace", "invalid_char"}
  BY DEF Words!Reasons, Words!ReasonsButEndPunct, Words!Last

LEMMA EveryNameHasReasons ==
  ASSUME NEW s \in Text
  PROVE  Words!NamesHaveReasons(s)
<1> DEFINE R == Words!Reasons(s)
           n == Len(s)
           order == <<"empty", "capital", "double_punct", "initial_not_alpha", "end_punct",
                      "whitespace", "invalid_char">>
<1>1. /\ n \in Nat /\ DOMAIN s = 1..n /\ (s = << >> <=> n = 0)
      /\ \A c : c \in Words!ToSet(s) <=> \E i \in 1..n : s[i] = c
  BY DEF Text, Words!ToSet
<1>2. /\ "empty" \in R <=> s = << >>
      /\ "capital" \in R <=> "A" \in Words!ToSet(s)
      /\ "double_punct" \in R <=>
             \E i \in 1..(n - 1) : s[i] \in Words!Punctuation /\ s[i + 1] \in Words!Punctuation
      /\ "initial_not_alpha" \in R <=> s # << >> /\ s[1] # "a"
      /\ "end_punct" \in R <=> s # << >> /\ s[n] \in Words!Punctuation
      /\ "whitespace" \in R <=> Words!ToSet(s) \cap Words!Space # {}
      /\ "invalid_char" \in R <=> ~(Words!ToSet(s) \subseteq {"a", "1"} \cup Words!Punctuation)
      /\ R \subseteq {"empty", "capital", "double_punct", "initial_not_alpha",
                      "end_punct", "whitespace", "invalid_char"}
  BY ReasonsAre
<1>3. Words!ValidName(s) <=>
          /\ s # << >> /\ s[1] = "a"
          /\ \A i \in 1..n : \/ s[i] \in {"a", "1"}
                             \/ s[i] \in Words!Punctuation /\ i < n /\ s[i + 1] \notin Words!Punctuation
  BY <1>1 DEF Words!ValidName
<1> HIDE DEF R, n
<1>4. ASSUME ~Words!ValidName(s) PROVE R # {}
  <2>1. CASE s = << >> \/ s[1] # "a"
    BY <1>2, <2>1
  <2>2. ASSUME s # << >>, NEW i \in 1..n, s[i] \notin {"a", "1"},
               ~(s[i] \in Words!Punctuation /\ i < n /\ s[i + 1] \notin Words!Punctuation)
        PROVE  R # {}
    <3>1. CASE s[i] \notin Words!Punctuation
      <4>1. s[i] \in Words!ToSet(s)
        BY <1>1
      <4>2. "invalid_char" \in R
        BY <1>2, <2>2, <3>1, <4>1
      <4>3. QED
        BY <4>2
    <3>2. CASE s[i] \in Words!Punctuation /\ i = n
      <4>1. "end_punct" \in R
        BY <1>2, <2>2, <3>2
      <4>2. QED
        BY <4>1
    <3>3. CASE s[i] \in Words!Punctuation /\ i # n
      <4>1. i \in 1..(n - 1) /\ i < n
        BY <1>1, <3>3
      <4>2. "double_punct" \in R
        BY <1>2, <2>2, <3>3, <4>1
      <4>3. QED
        BY <4>2
    <3>4. QED
      BY <3>1, <3>2, <3>3
  <2>3. QED
    BY <1>3, <1>4, <2>1, <2>2
<1>5. ASSUME R # {} PROVE Words!InvalidNameReason(s) \in R
  <2> DEFINE I == {i \in 1..Len(order) : order[i] \in R}
  <2>1. /\ Len(order) = 7 /\ order[1] = "empty" /\ order[2] = "capital" /\ order[3] = "double_punct"
        /\ order[4] = "initial_not_alpha" /\ order[5] = "end_punct" /\ order[6] = "whitespace"
        /\ order[7] = "invalid_char"
    OBVIOUS
  <2>2. Words!InvalidNameReason(s) = order[IF I # {} THEN Words!Min(I) ELSE 0]
    BY DEF Words!InvalidNameReason, Words!SelectInSeq, R
  <2> HIDE DEF order
  <2>3. PICK r \in R : TRUE
    BY <1>5
  <2>4. r \in {"empty", "capital", "double_punct", "initial_not_alpha",
               "end_punct", "whitespace", "invalid_char"}
    BY <1>2
  <2>5. \E i \in 1..7 : order[i] = r
    BY <2>1, <2>4
  <2>6. I # {} /\ I \in SUBSET Nat
    BY <2>1, <2>3, <2>5
  <2>7. Words!Min(I) \in I
    BY <2>6, FirstOfNumbers
  <2>8. QED
    BY <2>2, <2>6, <2>7
<1>6. ASSUME Words!ValidName(s) PROVE R = {}
  <2>1. /\ s # << >> /\ s[1] = "a"
        /\ \A i \in 1..n : \/ s[i] \in {"a", "1"}
                           \/ s[i] \in Words!Punctuation /\ i < n /\ s[i + 1] \notin Words!Punctuation
    BY <1>3, <1>6
  <2>2. "empty" \notin R /\ "initial_not_alpha" \notin R
    BY <1>2, <2>1
  <2>3. Words!ToSet(s) \subseteq {"a", "1"} \cup Words!Punctuation
    BY <1>1, <2>1
  <2>4. "invalid_char" \notin R /\ "capital" \notin R /\ "whitespace" \notin R
    BY <1>2, <2>3, NameCharacters
  <2>5. "end_punct" \notin R
    <3>1. n \in 1..n /\ ~(n < n)
      BY <1>1, <2>1
    <3>2. s[n] \notin Words!Punctuation
      BY <2>1, <3>1, NameCharacters
    <3>3. QED
      BY <1>2, <3>2
  <2>6. "double_punct" \notin R
    <3>1. ASSUME NEW i \in 1..(n - 1), s[i] \in Words!Punctuation, s[i + 1] \in Words!Punctuation
          PROVE  FALSE
      <4>1. i \in 1..n
        BY <1>1
      <4>2. QED
        BY <2>1, <3>1, <4>1, NameCharacters
    <3>2. QED
      BY <1>2, <3>1
  <2>7. QED
    BY <1>2, <2>2, <2>4, <2>5, <2>6
<1>7. QED
  BY <1>4, <1>5, <1>6 DEF Words!NamesHaveReasons, R

(* What is before and after the first of a character. *)
LEMMA FirstHalves ==
  ASSUME NEW s \in Text, NEW sep
  PROVE  LET f == Words!First(s, sep) IN
         /\ f.before \in Text /\ f.after \in Text
         /\ \A i \in 1..Len(f.before) : f.before[i] # sep
<1> DEFINE I == {i \in 1..Len(s) : s[i] = sep}
           k == Words!Min(I)
           f == Words!First(s, sep)
<1>1. /\ Len(s) \in Nat /\ s \in Seq(Characters)
      /\ sep \in Words!ToSet(s) <=> I # {}
  BY DEF Text, Words!ToSet
<1>2. CASE sep \notin Words!ToSet(s)
  <2>1. f.before = s /\ f.after = << >>
    BY <1>2 DEF Words!First
  <2>2. \A i \in 1..Len(s) : s[i] # sep
    BY <1>1, <1>2
  <2>3. QED
    BY <1>1, <2>1, <2>2 DEF Text
<1>3. CASE sep \in Words!ToSet(s)
  <2>1. k \in I /\ \A i \in I : k <= i
    <3>1. I \in SUBSET Nat /\ I # {}
      BY <1>1, <1>3
    <3> HIDE DEF I
    <3>2. QED
      BY <3>1, FirstOfNumbers
  <2>2. f.before = SubSeq(s, 1, k - 1) /\ f.after = SubSeq(s, k + 1, Len(s))
    BY <1>1, <1>3 DEF Words!First, Words!From, Words!SelectInSeq
  <2> HIDE DEF I, k, f
  <2>3. k \in 1..Len(s) /\ \A i \in 1..(k - 1) : s[i] # sep
    BY <1>1, <2>1 DEF I
  <2>4. /\ SubSeq(s, 1, k - 1) \in Seq(Characters) /\ SubSeq(s, k + 1, Len(s)) \in Seq(Characters)
        /\ Len(SubSeq(s, 1, k - 1)) = k - 1
        /\ \A i \in 1..(k - 1) : SubSeq(s, 1, k - 1)[i] = s[i]
    BY <1>1, <2>3
  <2>5. QED
    BY <2>2, <2>3, <2>4 DEF Text, f
<1>4. QED
  BY <1>2, <1>3

(* A text that is halved at a character. *)
Without(s, c) == \A i \in 1..Len(s) : s[i] # c

Halves(s, c, b, a) == /\ Words!First(s, c).found = TRUE
                      /\ Words!First(s, c).before = b /\ Words!First(s, c).after = a

LEMMA FirstOfJoined ==
  ASSUME NEW b \in Text, NEW a \in Text, NEW sep \in Characters,
         NEW t, t = (b \o <<sep>>) \o a, Without(b, sep)
  PROVE  Halves(t, sep, b, a)
<1> USE DEF Without
<1> DEFINE u == b \o <<sep>>
           s == u \o a
           I == {i \in 1..Len(s) : s[i] = sep}
           k == Words!Min(I)
           f == Words!First(s, sep)
<1>1. /\ u \in Text /\ Len(u) = Len(b) + 1 /\ Len(b) \in Nat
      /\ \A i \in 1..Len(b) : u[i] = b[i]
      /\ u[Len(b) + 1] = sep
  <2> DEFINE q == <<sep>>
  <2>1. q \in Text /\ Len(q) = 1 /\ q[1] = sep /\ 1 \in 1..Len(q)
    BY DEF Text
  <2> HIDE DEF q
  <2>2. /\ b \o q \in Text /\ Len(b \o q) = Len(b) + Len(q) /\ Len(b) \in Nat
        /\ \A i \in 1..Len(b) : (b \o q)[i] = b[i]
        /\ \A i \in 1..Len(q) : (b \o q)[Len(b) + i] = q[i]
    BY <2>1, Concatenated
  <2>3. QED
    BY <2>1, <2>2 DEF q
<1> HIDE DEF u
<1>2. /\ s \in Text /\ Len(s) = Len(u) + Len(a) /\ Len(a) \in Nat
      /\ \A i \in 1..Len(u) : s[i] = u[i]
      /\ \A i \in 1..Len(a) : s[Len(u) + i] = a[i]
  BY <1>1, Concatenated
<1> HIDE DEF s
<1>3. Len(b) + 1 \in I /\ \A i \in I : Len(b) + 1 <= i
  <2>1. Len(b) + 1 \in 1..Len(u) /\ Len(b) + 1 \in 1..Len(s)
    BY <1>1, <1>2
  <2>2. s[Len(b) + 1] = sep
    BY <1>1, <1>2, <2>1
  <2>3. ASSUME NEW i \in 1..Len(s), i < Len(b) + 1 PROVE s[i] # sep
    <3>1. i \in 1..Len(b) /\ i \in 1..Len(u)
      BY <1>1, <1>2, <2>3
    <3>2. QED
      BY <1>1, <1>2, <3>1
  <2>4. QED
    BY <1>1, <1>2, <2>1, <2>2, <2>3
<1>4. I \in SUBSET Nat /\ I # {}
  BY <1>2, <1>3, SMTT(40)
<1>5. k = Len(b) + 1
  <2>1. k \in I /\ \A i \in I : k <= i
    BY <1>4, FirstOfNumbers
  <2> HIDE DEF k
  <2>2. k \in Nat /\ k <= Len(b) + 1 /\ Len(b) + 1 <= k
    BY <1>3, <1>4, <2>1
  <2>3. QED
    BY <1>1, <2>2
<1>6. sep \in Words!ToSet(s)
  BY <1>2, <1>4 DEF Words!ToSet, Text
<1>7. /\ f.found = TRUE /\ f.before = SubSeq(s, 1, k - 1) /\ f.after = SubSeq(s, k + 1, Len(s))
  BY <1>4, <1>6 DEF Words!First, Words!From, Words!SelectInSeq
<1> HIDE DEF k, I, f
<1>8. f.before = b
  <2> DEFINE x == SubSeq(s, 1, k - 1)
  <2>1. x \in Seq(Characters) /\ Len(x) = Len(b) /\ \A i \in 1..Len(b) : x[i] = s[i]
    BY <1>1, <1>2, <1>5 DEF Text
  <2>2. \A i \in 1..Len(b) : s[i] = b[i]
    BY <1>1, <1>2
  <2> HIDE DEF x
  <2>3. x = b
    BY <2>1, <2>2, SeqEqual DEF Text
  <2>4. QED
    BY <1>7, <2>3 DEF x
<1>9. f.after = a
  <2> DEFINE x == SubSeq(s, k + 1, Len(s))
  <2>1. k + 1 \in 1..(Len(s) + 1) /\ Len(s) = k + Len(a) /\ Len(s) \in Nat /\ k \in Nat
    BY <1>1, <1>2, <1>5
  <2>2. x \in Seq(Characters) /\ Len(x) = Len(a) /\ \A i \in 1..Len(a) : x[i] = s[k + i]
    <3>1. s \in Seq(Characters)
      BY <1>2 DEF Text
    <3>2. SubSeq(s, k + 1, Len(s)) \in Seq(Characters)
      BY <2>1, <3>1
    <3>3. Len(SubSeq(s, k + 1, Len(s))) = Len(s) + 1 - (k + 1)
      BY <2>1, <3>1
    <3>4. ASSUME NEW i \in 1..Len(a) PROVE x[i] = s[k + i]
      <4>1. x[i] = s[k + 1 + i - 1]
        BY <1>2, <2>1, <3>1
      <4>2. QED
        BY <1>2, <2>1, <4>1, SMTT(40)
    <3>5. Len(s) + 1 - (k + 1) = Len(a)
      BY <1>2, <2>1
    <3> HIDE DEF x
    <3>6. QED
      BY <3>2, <3>3, <3>4, <3>5 DEF x
  <2> HIDE DEF x
  <2>3. ASSUME NEW i \in 1..Len(a) PROVE x[i] = a[i]
    BY <1>1, <1>2, <1>5, <2>2
  <2>4. x = a
    BY <2>2, <2>3, SeqEqual DEF Text
  <2>5. QED
    BY <1>7, <2>4 DEF x
<1>10. QED
  BY <1>7, <1>8, <1>9 DEF f, s, u, Halves

(* The number of digits at the beginning. *)
LEMMA DigitsAreCounted ==
  ASSUME NEW s \in Text
  PROVE  Len(Words!Digits(s)) \in Nat
<1> DEFINE D == {i \in DOMAIN s : \A j \in 1..i : s[j] = "1"}
           k == Words!Cardinality(D)
<1>1. Len(s) \in Nat /\ DOMAIN s = 1..Len(s) /\ s \in Seq(Characters)
  BY DEF Text
<1>2. k \in Nat /\ k <= Len(s)
  <2>1. D \subseteq 1..Len(s)
    BY <1>1
  <2>2. IsFiniteSet(1..Len(s)) /\ Cardinality(1..Len(s)) = Len(s)
    <3>1. /\ IsFiniteSet(1..Len(s))
          /\ Cardinality(1..Len(s)) = IF 1 > Len(s) THEN 0 ELSE Len(s) - 1 + 1
      BY <1>1, FS_Interval
    <3>2. QED
      BY <1>1, <3>1
  <2> HIDE DEF D
  <2>3. IsFiniteSet(D) /\ Cardinality(D) <= Cardinality(1..Len(s))
    BY <2>1, <2>2, FS_Subset
  <2>4. Cardinality(D) \in Nat
    BY <2>3, FS_CardinalityType
  <2>5. QED
    BY <2>2, <2>3, <2>4, SameNumber
<1>3. Words!Digits(s) = SubSeq(s, 1, k)
  BY DEF Words!Digits
<1> HIDE DEF k
<1>4. Len(SubSeq(s, 1, k)) = k
  BY <1>1, <1>2
<1>5. QED
  BY <1>2, <1>3, <1>4

LEMMA OnesAreDigits ==
  ASSUME NEW n \in Nat
  PROVE  LET ones == [i \in 1..n |-> "1"] IN ones \in Text /\ Words!Digits(ones) = ones /\ Len(ones) = n
<1> DEFINE ones == [i \in 1..n |-> "1"]
           D == {i \in DOMAIN ones : \A j \in 1..i : ones[j] = "1"}
<1>1. ones \in Seq(Characters) /\ Len(ones) = n /\ DOMAIN ones = 1..n
  BY Marks
<1>2. D = 1..n
  OBVIOUS
<1>3. Words!Cardinality(1..n) = n
  <2>1. Cardinality(1..n) = IF 1 > n THEN 0 ELSE n - 1 + 1
    BY FS_Interval
  <2>2. QED
    BY <2>1, SameNumber
<1>4. Words!Digits(ones) = SubSeq(ones, 1, n)
  BY <1>2, <1>3 DEF Words!Digits
<1> HIDE DEF ones
<1>5. SubSeq(ones, 1, n) = ones
  <2> DEFINE x == SubSeq(ones, 1, n)
  <2>1. x \in Seq(Characters) /\ Len(x) = n /\ \A i \in 1..n : x[i] = ones[i]
    BY <1>1
  <2> HIDE DEF x
  <2>2. x = ones
    BY <1>1, <2>1, SeqEqual
  <2>3. QED
    BY <2>2 DEF x
<1>6. QED
  BY <1>1, <1>4, <1>5 DEF ones, Text

LEMMA Associated == \A u, v, w \in Text : (u \o v) \o w = u \o (v \o w)
  BY ConcatAssociative DEF Text

LEMMA IdIsReadBack ==
  ASSUME NEW name \in Text, NEW version \in Text, NEW n \in Nat \ {0},
         Without(name, "@"), Without(version, "~"),
         Words!ValidName(name), version # << >>
  PROVE  LET id == [name |-> name, version |-> version, revision |-> n] IN
         Words!ParseId(Words!IdText(id)) = id
<1> DEFINE id == [name |-> name, version |-> version, revision |-> n]
           ones == [i \in 1..n |-> "1"]
           after == (version \o <<"~">>) \o ones
           s == (name \o <<"@">>) \o after
           at == Words!First(s, "@")
           tilde == Words!First(at.after, "~")
<1>1. ones \in Text /\ Words!Digits(ones) = ones /\ Len(ones) = n
  BY OnesAreDigits
<1> HIDE DEF ones
<1>2. <<"@">> \in Text /\ <<"~">> \in Text /\ "@" \in Characters /\ "~" \in Characters
  BY Marks DEF Text
<1>3. after \in Text
  <2>1. version \o <<"~">> \in Text
    BY <1>2, Concatenated
  <2>2. QED
    BY <1>1, <2>1, Concatenated
<1>4. Words!IdText(id) = s
  <2> DEFINE q == <<"@">>
             r == <<"~">>
             u == name \o q
  <2>1. Words!IdText(id) = ((u \o version) \o r) \o ones
    BY DEF Words!IdText, ones
  <2> HIDE DEF q, r
  <2>2. u \in Text /\ version \o r \in Text
    BY <1>2, Concatenated DEF q, r
  <2>3. (u \o version) \o r = u \o (version \o r)
    BY <1>2, <2>2, Associated DEF r
  <2>4. (u \o (version \o r)) \o ones = u \o ((version \o r) \o ones)
    BY <1>1, <2>2, Associated, SMTT(40)
  <2>5. QED
    BY <2>1, <2>3, <2>4 DEF q, r
<1>5. at.found = TRUE /\ at.before = name /\ at.after = after
  <2> HIDE DEF after, s
  <2>1. Halves(s, "@", name, after)
    BY <1>2, <1>3, FirstOfJoined DEF s
  <2>2. QED
    BY <2>1 DEF Halves
<1>6. tilde.found = TRUE /\ tilde.before = version /\ tilde.after = ones
  <2> HIDE DEF at, after
  <2>1. Halves(after, "~", version, ones)
    BY <1>1, <1>2, FirstOfJoined DEF after
  <2>2. QED
    BY <1>5, <2>1 DEF Halves
<1> HIDE DEF at
<1>7. Words!ParseId(s) = [name |-> name, version |-> version, revision |-> n]
  <2> HIDE DEF s, tilde
  <2>1. ones # << >>
    BY <1>1
  <2>2. Words!First(s, "@") = at /\ Words!First(at.after, "~") = tilde
    BY DEF at, tilde
  <2>3. QED
    BY <1>1, <1>5, <1>6, <2>1, <2>2 DEF Words!ParseId
<1>8. QED
  BY <1>4, <1>7

LEMMA EveryIdIsReadBack ==
  ASSUME NEW s \in Text
  PROVE  Words!IdsAreReadBack(s)
<1> DEFINE at == Words!First(s, "@")
           tilde == Words!First(at.after, "~")
           revision == IF tilde.found THEN Words!Digits(tilde.after) ELSE << >>
           id == Words!ParseId(s)
<1> SUFFICES ASSUME id # Invalid, id.revision > 0
             PROVE  Words!ParseId(Words!IdText(id)) = id
  BY DEF Words!IdsAreReadBack
<1>1. /\ at.before \in Text /\ at.after \in Text
      /\ \A i \in 1..Len(at.before) : at.before[i] # "@"
  BY FirstHalves
<1> HIDE DEF at
<1>2. /\ tilde.before \in Text /\ tilde.after \in Text
      /\ \A i \in 1..Len(tilde.before) : tilde.before[i] # "~"
  BY <1>1, FirstHalves
<1>3. /\ Words!ValidName(at.before) /\ tilde.before # << >>
      /\ id = [name |-> at.before, version |-> tilde.before, revision |-> Len(revision)]
  BY DEF Words!ParseId, at
<1> HIDE DEF tilde, id
<1>4. Len(revision) \in Nat
  BY <1>2, DigitsAreCounted
<1> HIDE DEF revision
<1>5. Len(revision) \in Nat \ {0}
  BY <1>3, <1>4
<1>6. QED
  BY <1>1, <1>2, <1>3, <1>5, IdIsReadBack DEF Without

(* The lines of a text, so far, after each character.                      *)
Splits(s, c, k, f) ==
    f = [i \in 0..k |-> IF i = 0 THEN <<<< >>>> ELSE Words!Extended(f[i - 1], s[i], c)]

LEMMA TextIsSplit ==
  ASSUME NEW s \in Text, NEW c
  PROVE  \E f : Splits(s, c, Len(s), f) /\ Words!SplitAt(s, c) = f[Len(s)]
<1> DEFINE n == Len(s)
           T == {k \in 0..n : \E f : Splits(s, c, k, f)}
<1>1. n \in Nat
  BY DEF Text
<1>2. 0 \in T
  <2> DEFINE f == [i \in 0..0 |-> <<<< >>>>]
  <2>1. Splits(s, c, 0, f)
    BY DEF Splits
  <2> HIDE DEF f
  <2>2. QED
    BY <1>1, <2>1
<1>3. ASSUME NEW k \in 1..n, k - 1 \in T PROVE k \in T
  <2>1. PICK f : Splits(s, c, k - 1, f)
    BY <1>3
  <2> DEFINE g == [i \in 0..k |-> IF i = k THEN Words!Extended(f[k - 1], s[k], c) ELSE f[i]]
  <2>2. ASSUME NEW i \in 0..k
        PROVE  g[i] = IF i = 0 THEN <<<< >>>> ELSE Words!Extended(g[i - 1], s[i], c)
    <3>1. CASE i = 0
      BY <2>1, <3>1 DEF Splits
    <3>2. CASE i # 0
      <4>1. i - 1 \in 0..k /\ i - 1 # k /\ g[i - 1] = f[i - 1]
        BY <3>2
      <4>2. CASE i = k
        BY <3>2, <4>1, <4>2
      <4>3. CASE i # k
        <5>1. i \in 0..(k - 1)
          BY <4>3
        <5>2. QED
          BY <2>1, <3>2, <4>1, <4>3, <5>1 DEF Splits
      <4>4. QED
        BY <4>2, <4>3
    <3>3. QED
      BY <3>1, <3>2
  <2>3. Splits(s, c, k, g)
    <3>1. g = [i \in 0..k |-> g[i]]
      OBVIOUS
    <3> HIDE DEF g
    <3>2. QED
      BY <2>2, <3>1 DEF Splits
  <2> HIDE DEF g
  <2>4. QED
    BY <1>1, <2>3
<1> HIDE DEF T, n
<1>4. \A k \in 0..n : k \in T
  BY <1>1, <1>2, <1>3, Upward
<1> DEFINE h == CHOOSE f : Splits(s, c, n, f)
<1>5. Splits(s, c, n, h)
  <2>1. \E f : Splits(s, c, n, f)
    BY <1>1, <1>4 DEF T
  <2>2. QED
    BY <2>1
<1>6. Words!SplitAt(s, c) = h[n]
  BY DEF Words!SplitAt, Splits, n
<1> HIDE DEF h
<1>7. QED
  BY <1>5, <1>6 DEF n

LEMMA SplitAppended ==
  ASSUME NEW u \in Text, NEW x \in Characters, NEW c, NEW t, t = u \o <<x>>
  PROVE  /\ t \in Text
         /\ Words!SplitAt(t, c) = Words!Extended(Words!SplitAt(u, c), x, c)
<1> DEFINE n == Len(u)
<1>1. /\ t \in Text /\ Len(t) = n + 1 /\ n \in Nat
      /\ \A i \in 1..n : t[i] = u[i]
      /\ t[n + 1] = x
  <2> DEFINE q == <<x>>
  <2>1. q \in Text /\ Len(q) = 1 /\ q[1] = x /\ 1 \in 1..Len(q)
    BY DEF Text
  <2> HIDE DEF q
  <2>2. /\ u \o q \in Text /\ Len(u \o q) = Len(u) + Len(q) /\ Len(u) \in Nat
        /\ \A i \in 1..Len(u) : (u \o q)[i] = u[i]
        /\ \A i \in 1..Len(q) : (u \o q)[Len(u) + i] = q[i]
    BY <2>1, Concatenated
  <2>3. QED
    BY <2>1, <2>2 DEF q
<1> HIDE DEF n
<1>2. PICK f : Splits(u, c, n, f) /\ Words!SplitAt(u, c) = f[n]
  BY TextIsSplit DEF n
<1>3. PICK g : Splits(t, c, n + 1, g) /\ Words!SplitAt(t, c) = g[n + 1]
  BY <1>1, TextIsSplit
<1>4. f[0] = g[0] /\ \A i \in 1..n : f[i] = Words!Extended(f[i - 1], u[i], c)
  BY <1>1, <1>2, <1>3 DEF Splits
<1>5. \A i \in 1..(n + 1) : g[i] = Words!Extended(g[i - 1], t[i], c)
  BY <1>1, <1>3 DEF Splits
<1> DEFINE T == {i \in 0..n : f[i] = g[i]}
<1>6. 0 \in T
  BY <1>1, <1>4
<1>7. ASSUME NEW i \in 1..n, i - 1 \in T PROVE i \in T
  <2>1. i \in 0..n /\ i \in 1..(n + 1) /\ f[i - 1] = g[i - 1] /\ t[i] = u[i]
    BY <1>1, <1>7
  <2>2. QED
    BY <1>4, <1>5, <2>1
<1> HIDE DEF T
<1>8. \A i \in 0..n : i \in T
  BY <1>1, <1>6, <1>7, Upward
<1>9. f[n] = g[n]
  <2>1. n \in 0..n
    BY <1>1
  <2>2. QED
    BY <1>8, <2>1 DEF T
<1>10. g[n + 1] = Words!Extended(g[n], x, c)
  <2>1. n + 1 \in 1..(n + 1) /\ (n + 1) - 1 = n
    BY <1>1
  <2>2. QED
    BY <1>1, <1>5, <2>1
<1>11. QED
  BY <1>1, <1>2, <1>3, <1>9, <1>10

LEMMA NothingIsSplit == ASSUME NEW c PROVE Words!SplitAt(<< >>, c) = <<<< >>>>
<1> DEFINE e == << >>
<1>1. e \in Text /\ Len(e) = 0
  BY DEF Text
<1> HIDE DEF e
<1>2. PICK f : Splits(e, c, Len(e), f) /\ Words!SplitAt(e, c) = f[Len(e)]
  BY <1>1, TextIsSplit
<1>3. f[0] = <<<< >>>>
  BY <1>1, <1>2 DEF Splits
<1>4. QED
  BY <1>1, <1>2, <1>3 DEF e

LEMMA LineIsExtended ==
  ASSUME NEW a \in Seq(Text), NEW w \in Text, NEW x \in Characters, NEW c
  PROVE  /\ x # c => Words!Extended(Append(a, w), x, c) = Append(a, Append(w, x))
         /\ Words!Extended(Append(a, w), c, c) = Append(Append(a, w), << >>)
<1> DEFINE p == Append(a, w)
           n == Len(a)
           y == Append(w, x)
           q == [p EXCEPT ![n + 1] = y]
<1>1. /\ p \in Seq(Text) /\ Len(p) = n + 1 /\ n \in Nat /\ p[n + 1] = w
      /\ \A i \in 1..n : p[i] = a[i]
  OBVIOUS
<1>2. y \in Text
  BY DEF Text
<1> HIDE DEF y
<1>3. Append(a, y) \in Seq(Text) /\ Len(Append(a, y)) = n + 1 /\ Append(a, y)[n + 1] = y
      /\ \A i \in 1..n : Append(a, y)[i] = a[i]
  BY <1>2
<1>4. x # c => Words!Extended(p, x, c) = q
  BY <1>1 DEF Words!Extended, y
<1>5. Words!Extended(p, c, c) = Append(p, << >>)
  BY DEF Words!Extended
<1> HIDE DEF p
<1>6. q \in Seq(Text) /\ Len(q) = n + 1 /\ q[n + 1] = y /\ \A i \in 1..n : q[i] = a[i]
  <2>1. DOMAIN p = 1..(n + 1) /\ p \in [1..(n + 1) -> Text]
    BY <1>1
  <2>2. q \in [1..(n + 1) -> Text]
    BY <1>2, <2>1
  <2>3. q[n + 1] = y /\ \A i \in 1..n : q[i] = a[i]
    BY <1>1, <2>1
  <2> HIDE DEF q
  <2>4. n + 1 \in Nat
    BY <1>1
  <2>5. q \in Seq(Text) /\ Len(q) = n + 1
    BY <2>2, <2>4
  <2>6. QED
    BY <2>3, <2>5
<1> DEFINE r == Append(a, y)
<1>7. q = r
  <2> HIDE DEF q, r
  <2>1. r \in Seq(Text) /\ Len(r) = n + 1 /\ r[n + 1] = y /\ \A i \in 1..n : r[i] = a[i]
    BY <1>3 DEF r
  <2>2. ASSUME NEW i \in 1..(n + 1) PROVE q[i] = r[i]
    <3>1. i = n + 1 \/ i \in 1..n
      BY <1>1
    <3>2. QED
      BY <1>6, <2>1, <3>1
  <2>3. QED
    BY <1>6, <2>1, <2>2, SeqEqual
<1>8. QED
  BY <1>4, <1>5, <1>7 DEF p, y

(* A line and the character that ends it, after a text. *)
LEMMA LineIsSplit ==
  ASSUME NEW u \in Text, NEW v \in Text, NEW c \in Characters, Without(v, c),
         NEW a \in Seq(Text), Words!SplitAt(u, c) = Append(a, << >>)
  PROVE  Words!SplitAt(u \o (v \o <<c>>), c) = Append(Append(a, v), << >>)
<1> DEFINE n == Len(v)
           w(j) == SubSeq(v, 1, j)
           T == {j \in 0..n : Words!SplitAt(u \o w(j), c) = Append(a, w(j))}
<1>1. n \in Nat /\ \A j \in 1..n : v[j] \in Characters /\ v[j] # c
  BY DEF Text, Without
<1>2. ASSUME NEW j \in 0..n PROVE w(j) \in Text /\ Len(w(j)) = j
  <2>1. v \in Seq(Characters) /\ j <= Len(v) /\ j \in Nat
    BY <1>1 DEF Text
  <2>2. QED
    BY <2>1 DEF Text
<1>3. ASSUME NEW j \in 1..n PROVE w(j) = Append(w(j - 1), v[j])
  <2>1. v \in Seq(Characters) /\ j \in 1..Len(v) /\ Len(v) \in Nat
    BY <1>1 DEF Text
  <2> DEFINE x == w(j)
             y == Append(w(j - 1), v[j])
  <2>2. x \in Seq(Characters) /\ Len(x) = j /\ \A i \in 1..j : x[i] = v[i]
    BY <2>1
  <2>3. w(j - 1) \in Seq(Characters) /\ Len(w(j - 1)) = j - 1 /\ \A i \in 1..(j - 1) : w(j - 1)[i] = v[i]
    BY <2>1
  <2>4. y \in Seq(Characters) /\ Len(y) = j /\ \A i \in 1..j : y[i] = v[i]
    BY <2>1, <2>3
  <2> HIDE DEF x, y
  <2>5. x = y
    BY <2>2, <2>4, SeqEqual
  <2>6. QED
    BY <2>5 DEF x, y
<1>4. w(n) = v /\ w(0) = << >>
  <2>1. v \in Seq(Characters)
    BY DEF Text
  <2> DEFINE x == SubSeq(v, 1, n)
  <2>2. x \in Seq(Characters) /\ Len(x) = n /\ \A i \in 1..n : x[i] = v[i]
    BY <1>1, <2>1
  <2> HIDE DEF x
  <2>3. x = v
    BY <2>1, <2>2, SeqEqual
  <2>4. QED
    BY <2>1, <2>3 DEF x
<1> HIDE DEF w, n
<1>5. \A j \in 1..n : Append(w(j - 1), v[j]) = w(j - 1) \o <<v[j]>> /\ w(j - 1) \in Text
  <2>1. ASSUME NEW j \in 1..n
        PROVE Append(w(j - 1), v[j]) = w(j - 1) \o <<v[j]>> /\ w(j - 1) \in Text
    <3>1. w(j - 1) \in Text
      BY <1>1, <1>2
    <3>2. w(j - 1) \in Seq(Characters) /\ v[j] \in Characters
      BY <1>1, <3>1 DEF Text
    <3>3. Append(w(j - 1), v[j]) = w(j - 1) \o <<v[j]>>
      BY <3>2, AppendIsConcat
    <3>4. QED
      BY <3>1, <3>3
  <2>2. QED
    BY <2>1
<1>6. 0 \in T
  <2> DEFINE x == u \o w(0)
  <2>1. u \o << >> = u
    BY ConcatEmptySeq DEF Text
  <2>2. x = u
    BY <1>4, <2>1
  <2> HIDE DEF x
  <2>3. Words!SplitAt(x, c) = Append(a, w(0))
    BY <1>4, <2>2
  <2>4. QED
    BY <1>1, <2>3 DEF x
<1>7. ASSUME NEW j \in 1..n, j - 1 \in T PROVE j \in T
  <2> DEFINE p == w(j - 1)
             x == v[j]
             q == <<x>>
             s == u \o p
  <2>1. p \in Text /\ x \in Characters /\ x # c /\ w(j) = p \o q /\ w(j) = Append(p, x)
        /\ q \in Text
    <3>1. p \in Text /\ w(j) = p \o q /\ w(j) = Append(p, x)
      BY <1>3, <1>5
    <3>2. x \in Characters /\ x # c
      BY <1>1
    <3>3. q \in Text
      BY <3>2 DEF Text
    <3>4. QED
      BY <3>1, <3>2, <3>3
  <2>2. Words!SplitAt(u \o p, c) = Append(a, p)
    BY <1>7
  <2> HIDE DEF p, x, q, T
  <2>3. s \in Text
    BY <2>1, Concatenated
  <2>4. s \o q = u \o (p \o q)
    BY <2>1, Associated
  <2> HIDE DEF s
  <2>5. ASSUME NEW r, r = s \o <<x>>
        PROVE  Words!SplitAt(r, c) = Words!Extended(Words!SplitAt(s, c), x, c)
    BY <2>1, <2>3, <2>5, SplitAppended, ZenonT(60)
  <2>6. Words!Extended(Append(a, p), x, c) = Append(a, Append(p, x))
    BY <2>1, LineIsExtended
  <2>7. Words!SplitAt(s, c) = Append(a, p)
    BY <2>2 DEF s
  <2>8. Words!SplitAt(s \o q, c) = Words!Extended(Words!SplitAt(s, c), x, c)
    BY <2>5 DEF q
  <2>9. Words!SplitAt(u \o w(j), c) = Append(a, w(j))
    BY <2>1, <2>4, <2>6, <2>7, <2>8
  <2>10. QED
    BY <1>1, <2>9 DEF T
<1> HIDE DEF T
<1>8. \A j \in 0..n : j \in T
  BY <1>1, <1>6, <1>7, Upward
<1>9. Words!SplitAt(u \o v, c) = Append(a, v)
  <2>1. n \in T
    BY <1>1, <1>8
  <2>2. QED
    BY <1>4, <2>1 DEF T
<1> DEFINE q == <<c>>
           s == u \o v
<1>10. q \in Text
  BY DEF Text
<1> HIDE DEF q, s
<1>11. s \o q = u \o (v \o q) /\ s \in Text
  <2>1. (u \o v) \o q = u \o (v \o q)
    BY <1>10, Associated
  <2>2. u \o v \in Text
    BY Concatenated
  <2>3. QED
    BY <2>1, <2>2 DEF s
<1>12. Words!SplitAt(s \o q, c) = Words!Extended(Words!SplitAt(s, c), c, c)
  BY <1>11, SplitAppended DEF q
<1>13. Words!Extended(Append(a, v), c, c) = Append(Append(a, v), << >>)
  BY LineIsExtended
<1>14. QED
  BY <1>9, <1>11, <1>12, <1>13 DEF q, s

(* Lines and the characters that end them, one after the other, are split  *)
(* into the lines and nothing.                                             *)
LEMMA LinesAreSplit ==
  ASSUME NEW lines \in Seq(Text), NEW c \in Characters, \A i \in 1..Len(lines) : Without(lines[i], c),
         NEW f \in Seq(Text), Len(f) = Len(lines), \A i \in 1..Len(f) : f[i] = lines[i] \o <<c>>
  PROVE  Words!FlattenSeq(f) \in Text /\ Words!SplitAt(Words!FlattenSeq(f), c) = Append(lines, << >>)
<1> DEFINE n == Len(f)
           w(j) == SubSeq(lines, 1, j)
<1>1. n \in Nat /\ \A i \in 1..n : lines[i] \in Text
  OBVIOUS
<1>2. PICK F \in [0..n -> Text] : Joined(f, F)
  <2>1. f \in Seq(Seq(Characters))
    BY DEF Text
  <2>2. \E F \in [0..Len(f) -> Seq(Characters)] : Joined(f, F)
    BY <2>1, PiecesAreJoined
  <2>3. QED
    BY <2>2 DEF Text
<1>3. /\ F[0] = << >> /\ Words!FlattenSeq(f) = F[n]
      /\ \A i \in 1..n : F[i] = F[i - 1] \o (lines[i] \o <<c>>)
  BY <1>2 DEF Joined
<1>4. ASSUME NEW j \in 0..n PROVE w(j) \in Seq(Text)
  BY <1>1
<1>5. ASSUME NEW j \in 1..n PROVE w(j) = Append(w(j - 1), lines[j])
  <2> DEFINE x == w(j)
             y == Append(w(j - 1), lines[j])
  <2>1. x \in Seq(Text) /\ Len(x) = j /\ \A i \in 1..j : x[i] = lines[i]
    BY <1>1
  <2>2. w(j - 1) \in Seq(Text) /\ Len(w(j - 1)) = j - 1 /\ \A i \in 1..(j - 1) : w(j - 1)[i] = lines[i]
    BY <1>1
  <2>3. y \in Seq(Text) /\ Len(y) = j /\ \A i \in 1..j : y[i] = lines[i]
    BY <1>1, <2>2
  <2> HIDE DEF x, y
  <2>4. x = y
    BY <2>1, <2>3, SeqEqual
  <2>5. QED
    BY <2>4 DEF x, y
<1>6. w(n) = lines /\ w(0) = << >>
  <2> DEFINE x == SubSeq(lines, 1, n)
  <2>1. x \in Seq(Text) /\ Len(x) = n /\ \A i \in 1..n : x[i] = lines[i]
    BY <1>1
  <2> HIDE DEF x
  <2>2. x = lines
    BY <2>1, SeqEqual
  <2>3. QED
    BY <2>2 DEF x
<1> HIDE DEF w, n
<1> DEFINE T == {j \in 0..n : Words!SplitAt(F[j], c) = Append(w(j), << >>)}
<1>7. 0 \in T
  <2> DEFINE none == << >>
  <2>1. Words!SplitAt(none, c) = <<none>> /\ F[0] = none /\ w(0) = none
    BY <1>3, <1>6, NothingIsSplit
  <2>2. <<none>> = Append(w(0), none)
    BY <2>1
  <2> HIDE DEF none
  <2>3. Words!SplitAt(F[0], c) = Append(w(0), none)
    BY <2>1, <2>2
  <2>4. QED
    BY <1>1, <2>3 DEF none
<1>8. ASSUME NEW j \in 1..n, j - 1 \in T PROVE j \in T
  <2> DEFINE a == w(j - 1)
             u == F[j - 1]
             v == lines[j]
  <2>1. j - 1 \in 0..n /\ j \in 0..n
    BY <1>1
  <2>2. /\ a \in Seq(Text) /\ u \in Text /\ v \in Text /\ Without(v, c)
        /\ Words!SplitAt(u, c) = Append(a, << >>)
    BY <1>1, <1>2, <1>4, <1>8, <2>1 DEF n
  <2>3. F[j] = u \o (v \o <<c>>) /\ w(j) = Append(a, v)
    BY <1>3, <1>5
  <2> HIDE DEF a, u, v, T
  <2>4. Words!SplitAt(u \o (v \o <<c>>), c) = Append(Append(a, v), << >>)
    BY <2>2, LineIsSplit
  <2>5. QED
    BY <2>1, <2>3, <2>4 DEF T
<1> HIDE DEF T
<1>9. \A j \in 0..n : j \in T
  BY <1>1, <1>7, <1>8, Upward
<1>10. n \in T /\ F[n] \in Text
  <2>1. n \in 0..n
    BY <1>1
  <2>2. QED
    BY <1>2, <1>9, <2>1
<1>11. QED
  BY <1>3, <1>6, <1>10 DEF T

(* What is left of a text without the spaces around it. *)
LEMMA TrimmedTo ==
  ASSUME NEW s \in Text, NEW a \in 1..Len(s), NEW b \in 1..Len(s),
         s[a] \notin Words!Space, s[b] \notin Words!Space,
         \A i \in 1..Len(s) : i < a \/ b < i => s[i] \in Words!Space
  PROVE  Words!Trim(s) = SubSeq(s, a, b)
<1> DEFINE inner == {i \in DOMAIN s : s[i] \notin Words!Space}
           first == CHOOSE i \in inner : \A j \in inner : i <= j
           last == CHOOSE i \in inner : \A j \in inner : j <= i
<1>1. DOMAIN s = 1..Len(s) /\ Len(s) \in Nat
  BY DEF Text
<1>2. /\ a \in inner /\ \A j \in inner : a <= j
      /\ b \in inner /\ \A j \in inner : j <= b
      /\ inner \in SUBSET Nat
  BY <1>1
<1>3. Words!Trim(s) = SubSeq(s, first, last)
  BY <1>2 DEF Words!Trim
<1> HIDE DEF inner
<1>4. first \in inner /\ \A j \in inner : first <= j
  BY <1>2
<1>5. last \in inner /\ \A j \in inner : j <= last
  BY <1>2
<1> HIDE DEF first, last
<1>6. first = a /\ last = b
  <2>1. first <= a /\ a <= first /\ last <= b /\ b <= last /\ first \in Nat /\ last \in Nat
    BY <1>2, <1>4, <1>5
  <2>2. QED
    BY <2>1
<1>7. QED
  BY <1>3, <1>6

LEMMA NothingIsTrimmed == Words!Trim(<< >>) = << >>
  BY DEF Words!Trim

(* A text without spaces around it. *)
LEMMA TrimmedEnds ==
  ASSUME NEW s \in Text, Words!Trim(s) = s, s # << >>
  PROVE  Len(s) \in Nat \ {0} /\ s[1] \notin Words!Space /\ s[Len(s)] \notin Words!Space
<1> DEFINE inner == {i \in DOMAIN s : s[i] \notin Words!Space}
           first == CHOOSE i \in inner : \A j \in inner : i <= j
           last == CHOOSE i \in inner : \A j \in inner : j <= i
           n == Len(s)
<1>1. DOMAIN s = 1..n /\ n \in Nat /\ n # 0 /\ s \in Seq(Characters)
  BY DEF Text
<1>2. inner # {} /\ inner \in SUBSET Nat /\ inner \subseteq 1..n
  <2>1. inner # {}
    BY DEF Words!Trim
  <2>2. QED
    BY <1>1, <2>1
<1>3. s = SubSeq(s, first, last)
  BY <1>2 DEF Words!Trim
<1>4. \A i \in inner : i \in 1..n /\ s[i] \notin Words!Space
  BY <1>1
<1> HIDE DEF inner, n
<1>5. first \in inner /\ \A j \in inner : first <= j
  <2>1. \E i \in inner : \A j \in inner : i <= j
    <3>1. PICK i \in inner : \A j \in Nat : j < i => j \notin inner
      BY <1>2, LeastNumber
    <3>2. QED
      BY <1>2, <3>1
  <2>2. QED
    BY <2>1
<1>6. last \in inner /\ \A j \in inner : j <= last
  <2>1. \E i \in inner : \A j \in inner : j <= i
    <3> DEFINE R == {m \in Nat : \E i \in inner : m = n - i}
    <3>1. R \in SUBSET Nat /\ R # {}
      <4>1. PICK i \in inner : i \in 1..n
        BY <1>2
      <4>2. n - i \in R
        BY <1>1, <4>1
      <4>3. QED
        BY <4>2
    <3>2. PICK m \in R : \A k \in Nat : k < m => k \notin R
      BY <3>1, LeastNumber
    <3>3. PICK i \in inner : m = n - i
      BY <3>2
    <3>4. ASSUME NEW j \in inner, i < j PROVE FALSE
      <4>1. n - j \in Nat /\ n - j < m
        BY <1>1, <1>2, <3>3, <3>4
      <4>2. n - j \in R
        BY <4>1
      <4>3. QED
        BY <3>2, <4>1, <4>2
    <3>5. \A j \in inner : j <= i
      BY <1>2, <3>4
    <3>6. QED
      BY <3>5
  <2>2. QED
    BY <2>1
<1> HIDE DEF first, last
<1>7. first \in 1..n /\ last \in 1..n /\ first <= last
  BY <1>4, <1>5, <1>6
<1>8. Len(SubSeq(s, first, last)) = last - first + 1
  BY <1>1, <1>7 DEF n
<1>9. first = 1 /\ last = n
  <2>1. n = last - first + 1
    BY <1>3, <1>8 DEF n
  <2>2. QED
    BY <1>1, <1>7, <2>1
<1>10. QED
  BY <1>1, <1>4, <1>5, <1>6, <1>9 DEF n

(* The characters of a line that are passed over. *)
Passes(s, k, f) ==
    f = [i \in 0..k |-> IF i <= 1 THEN FALSE
                        ELSE ~f[i - 1] /\ s[i - 1] = ":" /\ s[i] # Words!Blank]

LEMMA TextIsPassed ==
  ASSUME NEW s \in Text
  PROVE  Passes(s, Len(s), Words!PassedOver(s))
<1> DEFINE n == Len(s)
           T == {k \in 0..n : \E f : Passes(s, k, f)}
           Next(f, i) == ~f[i - 1] /\ s[i - 1] = ":" /\ s[i] # Words!Blank
<1>1. n \in Nat
  BY DEF Text
<1>2. 0 \in T
  <2> DEFINE f == [i \in 0..0 |-> FALSE]
  <2>1. Passes(s, 0, f)
    BY DEF Passes
  <2> HIDE DEF f
  <2>2. QED
    BY <1>1, <2>1
<1>3. ASSUME NEW k \in 1..n, k - 1 \in T PROVE k \in T
  <2>1. PICK f : Passes(s, k - 1, f)
    BY <1>3
  <2> DEFINE x == IF k <= 1 THEN FALSE ELSE Next(f, k)
             g == [i \in 0..k |-> IF i = k THEN x ELSE f[i]]
  <2>2. ASSUME NEW i \in 0..k
        PROVE  g[i] = IF i <= 1 THEN FALSE ELSE Next(g, i)
    <3>1. CASE i = 0
      BY <2>1, <3>1 DEF Passes
    <3>2. CASE i # 0
      <4>1. i - 1 \in 0..k /\ i - 1 # k /\ g[i - 1] = f[i - 1]
        <5> HIDE DEF x
        <5>1. QED
          BY <3>2
      <4>2. CASE i = k
        <5>1. g[i] = x
          <6> HIDE DEF x
          <6>1. QED
            BY <4>2
        <5> HIDE DEF g
        <5>2. QED
          BY <4>1, <4>2, <5>1
      <4>3. CASE i # k
        <5>1. i \in 0..(k - 1)
          BY <4>3
        <5>2. f[i] = IF i <= 1 THEN FALSE ELSE Next(f, i)
          BY <2>1, <5>1 DEF Passes
        <5>3. QED
          BY <3>2, <4>1, <4>3, <5>1, <5>2
      <4>4. QED
        BY <4>2, <4>3
    <3>3. QED
      BY <3>1, <3>2
  <2>3. Passes(s, k, g)
    <3>1. g = [i \in 0..k |-> g[i]]
      OBVIOUS
    <3> HIDE DEF g
    <3>2. QED
      BY <2>2, <3>1 DEF Passes
  <2> HIDE DEF g
  <2>4. QED
    BY <1>1, <2>3
<1> HIDE DEF T, n, Next
<1>4. \A k \in 0..n : k \in T
  BY <1>1, <1>2, <1>3, Upward
<1>5. \E f : Passes(s, n, f)
  BY <1>1, <1>4 DEF T
<1>6. Words!PassedOver(s) = CHOOSE f : Passes(s, n, f)
  BY DEF Words!PassedOver, Passes, n
<1>7. QED
  BY <1>5, <1>6 DEF n

(* A key ends at the first `:'. *)
LEMMA KeyEndsAt ==
  ASSUME NEW s \in Text, NEW k \in 1..Len(s), s[k] = ":",
         \A i \in 1..(k - 1) : s[i] # ":", k < Len(s) => s[k + 1] = Words!Blank
  PROVE  Words!KeyEnds(s) # {} /\ Words!KeyEnd(s) = k
<1> DEFINE n == Len(s)
           p == Words!PassedOver(s)
           E == Words!KeyEnds(s)
           e == CHOOSE i \in E : \A j \in E : i <= j
<1>1. n \in Nat /\ DOMAIN s = 1..n
  BY DEF Text
<1>2. p[k] = FALSE
  <2>1. Passes(s, n, p) /\ k \in 0..n
    BY <1>1, TextIsPassed
  <2> HIDE DEF p
  <2>2. CASE k <= 1
    BY <2>1, <2>2 DEF Passes
  <2>3. CASE ~(k <= 1)
    <3>1. s[k - 1] # ":"
      BY <1>1, <2>3
    <3> DEFINE x == ~p[k - 1] /\ s[k - 1] = ":" /\ s[k] # Words!Blank
    <3>2. p[k] = x
      BY <2>1, <2>3 DEF Passes
    <3>3. x = FALSE
      BY <3>1
    <3>4. QED
      BY <3>2, <3>3
  <2>4. QED
    BY <2>2, <2>3
<1>3. k \in E /\ \A i \in E : k <= i /\ i \in Nat
  <2>1. E = {i \in 1..n : ~p[i] /\ s[i] = ":" /\ (i < n => s[i + 1] = Words!Blank)}
    BY <1>1 DEF Words!KeyEnds
  <2> HIDE DEF E, p
  <2>2. k \in E
    BY <1>1, <1>2, <2>1
  <2>3. ASSUME NEW i \in E PROVE k <= i /\ i \in Nat
    BY <1>1, <2>1, <2>3
  <2>4. QED
    BY <2>2, <2>3
<1>4. Words!KeyEnd(s) = e
  BY <1>3 DEF Words!KeyEnd
<1> HIDE DEF E
<1>5. e \in E /\ \A j \in E : e <= j
  BY <1>3
<1> HIDE DEF e
<1>6. e = k
  <2>1. e <= k /\ k <= e /\ e \in Nat
    BY <1>3, <1>5
  <2>2. QED
    BY <2>1
<1>7. QED
  BY <1>3, <1>4, <1>6 DEF E

LEMMA Separators ==
  /\ ":" \notin Words!Space /\ Words!Blank \in Words!Space
  /\ ":" # "#" /\ <<":", Words!Blank>> \in Text /\ <<"\n">> \in Text
  /\ ":" # "\n" /\ Words!Blank # "\n"
<1>1. ":" \notin Words!Space /\ Words!Blank # "\n"
  BY Zenon DEF Words!Space, Words!Blank
<1>2. QED
  BY <1>1, Marks DEF Text

(* A line with a key and a value. *)
Line(key, value) == (key \o <<":", Words!Blank>>) \o value

IsLine(s, key, value) ==
    LET k == Len(key)  m == Len(value) IN
    /\ s \in Text /\ Len(s) = k + 2 + m /\ k \in Nat /\ m \in Nat
    /\ \A i \in 1..k : s[i] = key[i]
    /\ s[k + 1] = ":" /\ s[k + 2] = Words!Blank
    /\ \A i \in 1..m : s[k + 2 + i] = value[i]

LEMMA LineIs ==
  ASSUME NEW key \in Text, NEW value \in Text
  PROVE  IsLine(Line(key, value), key, value)
<1> DEFINE q == <<":", Words!Blank>>
           u == key \o q
           s == u \o value
           k == Len(key)
           m == Len(value)
<1>1. /\ q \in Text /\ Len(q) = 2 /\ q[1] = ":" /\ q[2] = Words!Blank
      /\ 1 \in 1..Len(q) /\ 2 \in 1..Len(q)
  BY Separators
<1> HIDE DEF q
<1>2. /\ u \in Text /\ Len(u) = k + 2 /\ k \in Nat
      /\ \A i \in 1..k : u[i] = key[i]
      /\ u[k + 1] = ":" /\ u[k + 2] = Words!Blank
  <2>1. /\ u \in Text /\ Len(u) = k + Len(q) /\ k \in Nat
        /\ \A i \in 1..k : u[i] = key[i]
        /\ \A i \in 1..Len(q) : u[k + i] = q[i]
    BY <1>1, Concatenated
  <2> HIDE DEF u, k
  <2>2. QED
    BY <1>1, <2>1
<1> HIDE DEF u
<1>3. /\ s \in Text /\ Len(s) = Len(u) + m /\ m \in Nat
      /\ \A i \in 1..Len(u) : s[i] = u[i]
      /\ \A i \in 1..m : s[Len(u) + i] = value[i]
  BY <1>2, Concatenated
<1>4. s = Line(key, value)
  BY DEF Line, s, u, q
<1> HIDE DEF s, k, m
<1>5. /\ \A i \in 1..k : s[i] = key[i]
      /\ s[k + 1] = ":" /\ s[k + 2] = Words!Blank
  <2>1. k + 1 \in 1..Len(u) /\ k + 2 \in 1..Len(u) /\ \A i \in 1..k : i \in 1..Len(u)
    BY <1>2
  <2>2. QED
    BY <1>2, <1>3, <2>1
<1>6. Len(s) = k + 2 + m /\ \A i \in 1..m : s[k + 2 + i] = value[i]
  BY <1>2, <1>3
<1>7. QED
  BY <1>2, <1>3, <1>4, <1>5, <1>6 DEF k, m, IsLine

LEMMA LineIsParsed ==
  ASSUME NEW key \in Text, NEW value \in Text, Words!Trim(key) = key, Words!Trim(value) = value,
         Without(key, ":"), key # << >> => key[1] # "#"
  PROVE  Words!ParseLine(Line(key, value)) = <<[key |-> key, value |-> value]>>
<1> DEFINE s == Line(key, value)
           k == Len(key)
           m == Len(value)
           b == IF value = << >> THEN k + 1 ELSE k + 2 + m
           x == SubSeq(s, 1, b)
<1>1. /\ s \in Text /\ Len(s) = k + 2 + m /\ k \in Nat /\ m \in Nat
      /\ \A i \in 1..k : s[i] = key[i]
      /\ s[k + 1] = ":" /\ s[k + 2] = Words!Blank
      /\ \A i \in 1..m : s[k + 2 + i] = value[i]
  BY LineIs DEF IsLine
<1>2. /\ key # << >> => k \in Nat \ {0} /\ key[1] \notin Words!Space
      /\ value # << >> => m \in Nat \ {0} /\ value[1] \notin Words!Space /\ value[m] \notin Words!Space
      /\ key = << >> => k = 0
      /\ value = << >> => m = 0
  BY TrimmedEnds
<1>3. /\ b \in Nat /\ k + 1 <= b /\ b <= Len(s)
      /\ b = k + 1 \/ b = k + 2 + m
  BY <1>1, <1>2
<1>4. s[1] \notin Words!Space /\ s[1] # "#"
  <2>1. CASE key = << >>
    BY <1>1, <1>2, <2>1, Separators
  <2>2. CASE key # << >>
    <3>1. 1 \in 1..k
      BY <1>2, <2>2
    <3>2. QED
      BY <1>1, <1>2, <2>2, <3>1
  <2>3. QED
    BY <2>1, <2>2
<1>5. s[b] \notin Words!Space
  <2>1. CASE value = << >>
    BY <1>1, <2>1, Separators
  <2>2. CASE value # << >>
    <3>1. m \in 1..m /\ b = k + 2 + m
      BY <1>2, <2>2
    <3>2. QED
      BY <1>1, <1>2, <2>2, <3>1
  <2>3. QED
    BY <2>1, <2>2
<1>6. ASSUME NEW i \in 1..Len(s), i < 1 \/ b < i PROVE s[i] \in Words!Space
  <2>1. i = k + 2
    BY <1>1, <1>2, <1>3, <1>6
  <2>2. QED
    BY <1>1, <2>1, Separators
<1> HIDE DEF s, b, k, m
<1>7. Words!Trim(s) = x
  <2>1. 1 \in 1..Len(s) /\ b \in 1..Len(s)
    BY <1>1, <1>3
  <2>2. QED
    BY <1>1, <1>4, <1>5, <1>6, <2>1, TrimmedTo
<1>8. x \in Text /\ Len(x) = b /\ \A i \in 1..b : x[i] = s[i]
  <2>1. s \in Seq(Characters) /\ Len(s) \in Nat
    BY <1>1 DEF Text
  <2>2. QED
    BY <1>3, <2>1 DEF Text
<1> HIDE DEF x
<1>9. Words!KeyEnds(x) # {} /\ Words!KeyEnd(x) = k + 1
  <2>1. k + 1 \in 1..Len(x)
    BY <1>1, <1>3, <1>8
  <2>2. x[k + 1] = ":"
    BY <1>1, <1>8, <2>1
  <2>3. \A i \in 1..((k + 1) - 1) : x[i] # ":"
    <3>1. ASSUME NEW i \in 1..((k + 1) - 1) PROVE x[i] # ":"
      <4>1. i \in 1..k /\ i \in 1..b
        BY <1>1, <1>3
      <4>2. QED
        BY <1>1, <1>8, <4>1 DEF Without, k
    <3>2. QED
      BY <3>1
  <2>4. k + 1 < Len(x) => x[(k + 1) + 1] = Words!Blank
    <3>1. k + 1 < Len(x) => k + 2 \in 1..b
      BY <1>1, <1>3, <1>8
    <3>2. (k + 1) + 1 = k + 2
      BY <1>1
    <3>3. QED
      BY <1>1, <1>8, <3>1, <3>2
  <2> DEFINE e == k + 1
  <2>5. /\ e \in 1..Len(x) /\ x[e] = ":" /\ \A i \in 1..(e - 1) : x[i] # ":"
        /\ e < Len(x) => x[e + 1] = Words!Blank
    BY <2>1, <2>2, <2>3, <2>4
  <2> HIDE DEF e
  <2>6. Words!KeyEnds(x) # {} /\ Words!KeyEnd(x) = e
    BY <1>8, <2>5, KeyEndsAt
  <2>7. QED
    BY <2>6 DEF e
<1>10. SubSeq(x, 1, k) = key
  <2> DEFINE y == SubSeq(x, 1, k)
  <2>1. y \in Seq(Characters) /\ Len(y) = k /\ \A i \in 1..k : y[i] = x[i]
    <3>1. x \in Seq(Characters) /\ k \in 0..Len(x)
      BY <1>1, <1>3, <1>8 DEF Text
    <3>2. QED
      BY <3>1
  <2>2. key \in Seq(Characters) /\ Len(key) = k
    BY DEF Text, k
  <2> HIDE DEF y
  <2>3. ASSUME NEW i \in 1..k PROVE y[i] = key[i]
    <3>1. i \in 1..b
      BY <1>1, <1>3
    <3>2. QED
      BY <1>1, <1>8, <2>1, <3>1
  <2>4. y = key
    BY <2>1, <2>2, <2>3, SeqEqual
  <2>5. QED
    BY <2>4 DEF y
<1> DEFINE z == SubSeq(x, k + 2, Len(x))
<1>11. Words!Trim(z) = value
  <2>1. x \in Seq(Characters) /\ Len(x) = b /\ k \in Nat /\ b \in Nat
    BY <1>1, <1>3, <1>8 DEF Text
  <2>2. CASE value = << >>
    <3>1. b = k + 1
      BY <2>2 DEF b
    <3>2. z = << >>
      BY <2>1, <3>1
    <3>3. QED
      BY <2>2, <3>2, NothingIsTrimmed
  <2>3. CASE value # << >>
    <3>1. b = k + 2 + m /\ m \in Nat \ {0}
      BY <1>2, <2>3 DEF b
    <3>2. z \in Text /\ Len(z) = m + 1 /\ \A i \in 1..(m + 1) : z[i] = x[k + 1 + i]
      <4>1. k + 2 \in 1..Len(x) /\ Len(x) \in Nat
        BY <2>1, <3>1
      <4>2. z \in Text
        BY <2>1, <4>1 DEF Text
      <4>3. Len(z) = Len(x) + 1 - (k + 2)
        BY <2>1, <4>1
      <4>4. Len(x) + 1 - (k + 2) = m + 1
        BY <2>1, <3>1
      <4>5. ASSUME NEW i \in 1..(m + 1) PROVE z[i] = x[k + 1 + i]
        <5>1. i \in 1..(Len(x) + 1 - (k + 2)) /\ k + 2 + i - 1 = k + 1 + i
          BY <2>1, <3>1, <4>4
        <5>2. z[i] = x[k + 2 + i - 1]
          BY <2>1, <4>1, <5>1
        <5>3. QED
          BY <5>1, <5>2
      <4>6. QED
        BY <4>2, <4>3, <4>4, <4>5
    <3> HIDE DEF z
    <3>3. z[1] = Words!Blank
      <4>1. 1 \in 1..(m + 1) /\ k + 1 + 1 = k + 2 /\ k + 2 \in 1..b
        BY <1>1, <3>1
      <4>2. QED
        BY <1>1, <1>8, <3>2, <4>1
    <3>4. ASSUME NEW i \in 1..m PROVE z[i + 1] = value[i]
      <4>1. i + 1 \in 1..(m + 1) /\ k + 1 + (i + 1) = k + 2 + i /\ k + 2 + i \in 1..b
        BY <1>1, <3>1
      <4>2. z[i + 1] = x[k + 2 + i] /\ x[k + 2 + i] = s[k + 2 + i]
        BY <1>8, <3>2, <4>1
      <4>3. QED
        BY <1>1, <4>2
    <3>5. z[2] \notin Words!Space /\ z[m + 1] \notin Words!Space
      <4>1. 1 \in 1..m /\ m \in 1..m /\ 1 + 1 = 2
        BY <3>1
      <4>2. z[2] = value[1] /\ z[m + 1] = value[m]
        BY <3>4, <4>1
      <4>3. QED
        BY <1>2, <2>3, <4>2
    <3>6. ASSUME NEW i \in 1..Len(z), i < 2 \/ m + 1 < i PROVE z[i] \in Words!Space
      <4>1. i = 1
        BY <3>1, <3>2, <3>6
      <4>2. QED
        BY <3>3, <4>1, Separators
    <3>7. Words!Trim(z) = SubSeq(z, 2, m + 1)
      <4> DEFINE e == m + 1
      <4>1. 2 \in 1..Len(z) /\ e \in 1..Len(z) /\ z[e] \notin Words!Space
        BY <3>1, <3>2, <3>5
      <4>2. \A i \in 1..Len(z) : i < 2 \/ e < i => z[i] \in Words!Space
        BY <3>6
      <4> HIDE DEF e
      <4>3. Words!Trim(z) = SubSeq(z, 2, e)
        BY <3>2, <3>5, <4>1, <4>2, TrimmedTo
      <4>4. QED
        BY <4>3 DEF e
    <3> DEFINE y == SubSeq(z, 2, m + 1)
    <3>8. y \in Seq(Characters) /\ Len(y) = m /\ \A i \in 1..m : y[i] = z[i + 1]
      <4>1. z \in Seq(Characters) /\ Len(z) = m + 1 /\ m \in Nat \ {0}
        BY <3>1, <3>2 DEF Text
      <4>2. y \in Seq(Characters) /\ Len(y) = m
        BY <4>1
      <4>3. ASSUME NEW i \in 1..m PROVE y[i] = z[i + 1]
        <5>1. y[i] = z[2 + i - 1] /\ 2 + i - 1 = i + 1
          BY <4>1
        <5>2. QED
          BY <5>1
      <4>4. QED
        BY <4>2, <4>3
    <3> HIDE DEF y
    <3>9. value \in Seq(Characters) /\ Len(value) = m /\ \A i \in 1..m : y[i] = value[i]
      BY <3>4, <3>8 DEF Text, m
    <3>10. y = value
      BY <3>8, <3>9, SeqEqual
    <3>11. QED
      BY <3>7, <3>10 DEF y
  <2>4. QED
    BY <2>2, <2>3
<1> HIDE DEF z
<1>12. x # << >> /\ Head(x \o <<"#">>) # "#"
  <2> DEFINE hash == <<"#">>
             y == x \o hash
  <2>1. x \in Seq(Characters \cup {"#"}) /\ Len(x) = b /\ b \in Nat \ {0} /\ x[1] # "#"
    <3>1. b \in Nat \ {0} /\ 1 \in 1..b
      BY <1>1, <1>3
    <3>2. x[1] # "#"
      BY <1>4, <1>8, <3>1
    <3>3. QED
      BY <1>8, <3>1, <3>2 DEF Text
  <2>2. hash \in Seq(Characters \cup {"#"}) /\ Len(hash) = 1
    OBVIOUS
  <2> HIDE DEF hash
  <2>3. y \in Seq(Characters \cup {"#"}) /\ Len(y) = b + 1 /\ y[1] = x[1]
    BY <2>1, <2>2, ConcatProperties
  <2> HIDE DEF y
  <2>4. Head(y) = y[1]
    BY <2>1, <2>3
  <2>5. x # << >>
    BY <2>1
  <2>6. QED
    BY <2>1, <2>3, <2>4, <2>5 DEF y, hash
<1>13. Words!ParseLine(s) =
          <<[key |-> Words!Trim(SubSeq(x, 1, (k + 1) - 1)), value |-> Words!Trim(Words!From(x, (k + 1) + 1))]>>
  <2>1. k + 1 # 0
    BY <1>1
  <2>2. QED
    BY <1>7, <1>9, <1>12, <2>1 DEF Words!ParseLine
<1>14. (k + 1) - 1 = k /\ (k + 1) + 1 = k + 2
  BY <1>1
<1>15. Words!From(x, k + 2) = z
  BY DEF Words!From, z
<1>16. QED
  BY <1>10, <1>11, <1>13, <1>14, <1>15 DEF s

(* Each pair alone, and what is joined from them. *)
LEMMA SinglesAreJoined ==
  ASSUME NEW S, NEW s \in Seq(S), NEW f \in Seq(Seq(S)), Len(f) = Len(s) + 1,
         \A i \in 1..Len(s) : f[i] = <<s[i]>>, f[Len(s) + 1] = << >>
  PROVE  Words!FlattenSeq(f) = s
<1> DEFINE n == Len(s)
           w(j) == SubSeq(s, 1, j)
<1>1. n \in Nat /\ \A i \in 1..n : s[i] \in S
  OBVIOUS
<1>2. PICK F \in [0..(n + 1) -> Seq(S)] : Joined(f, F)
  BY PiecesAreJoined
<1>3. /\ F[0] = << >> /\ Words!FlattenSeq(f) = F[n + 1]
      /\ \A i \in 1..(n + 1) : F[i] = F[i - 1] \o f[i]
  BY <1>2 DEF Joined
<1>4. ASSUME NEW j \in 0..n PROVE w(j) \in Seq(S)
  BY <1>1
<1>5. ASSUME NEW j \in 1..n PROVE w(j) = w(j - 1) \o <<s[j]>>
  <2> DEFINE x == w(j)
             y == Append(w(j - 1), s[j])
  <2>1. x \in Seq(S) /\ Len(x) = j /\ \A i \in 1..j : x[i] = s[i]
    BY <1>1
  <2>2. w(j - 1) \in Seq(S) /\ Len(w(j - 1)) = j - 1 /\ \A i \in 1..(j - 1) : w(j - 1)[i] = s[i]
    BY <1>1, SMTT(40)
  <2>3. y \in Seq(S) /\ Len(y) = j /\ \A i \in 1..j : y[i] = s[i]
    BY <1>1, <2>2, SMTT(40)
  <2>4. y = w(j - 1) \o <<s[j]>>
    BY <1>1, <2>2, AppendIsConcat
  <2> HIDE DEF x, y
  <2>5. x = y
    BY <2>1, <2>3, SeqEqual
  <2>6. QED
    BY <2>4, <2>5 DEF x
<1>6. w(n) = s /\ w(0) = << >>
  <2> DEFINE x == SubSeq(s, 1, n)
  <2>1. x \in Seq(S) /\ Len(x) = n /\ \A i \in 1..n : x[i] = s[i]
    BY <1>1
  <2> HIDE DEF x
  <2>2. x = s
    BY <2>1, SeqEqual
  <2>3. QED
    BY <2>2 DEF x
<1> HIDE DEF w, n
<1> DEFINE T == {j \in 0..n : F[j] = w(j)}
<1>7. 0 \in T
  BY <1>1, <1>3, <1>6
<1>8. ASSUME NEW j \in 1..n, j - 1 \in T PROVE j \in T
  <2>1. j \in 1..(n + 1) /\ F[j - 1] = w(j - 1) /\ f[j] = <<s[j]>>
    BY <1>1, <1>8, SMTT(40) DEF n
  <2>2. F[j] = F[j - 1] \o f[j]
    BY <1>3, <2>1
  <2>3. w(j) = w(j - 1) \o <<s[j]>>
    BY <1>5
  <2>4. F[j] = w(j)
    BY <2>1, <2>2, <2>3
  <2>5. QED
    BY <1>1, <2>4
<1> HIDE DEF T
<1>9. \A j \in 0..n : j \in T
  BY <1>1, <1>7, <1>8, Upward
<1>10. F[n] = s
  <2>1. n \in T
    BY <1>1, <1>9
  <2>2. QED
    BY <1>6, <2>1 DEF T
<1>11. F[n + 1] = F[n] \o f[n + 1]
  <2>1. n + 1 \in 1..(n + 1) /\ (n + 1) - 1 = n
    BY <1>1
  <2>2. QED
    BY <1>3, <2>1
<1>12. s \o << >> = s
  BY ConcatEmptySeq
<1>13. f[n + 1] = << >>
  BY DEF n
<1>14. QED
  BY <1>3, <1>10, <1>11, <1>12, <1>13

LEMMA PairsAreRead ==
  ASSUME NEW pairs \in Seq([key : Text, value : Text])
  PROVE  Words!PairsAreReadBack(pairs)
<1> DEFINE Pair == [key : Text, value : Text]
           n == Len(pairs)
           line(i) == Line(pairs[i].key, pairs[i].value)
           lines == [i \in 1..n |-> line(i)]
           f == [i \in 1..n |-> line(i) \o <<"\n">>]
           s == Words!WritePairs(pairs)
           parsed == [i \in DOMAIN Words!SplitAt(s, "\n") |-> Words!ParseLine(Words!SplitAt(s, "\n")[i])]
<1>1. /\ n \in Nat /\ DOMAIN pairs = 1..n /\ pairs \in Seq(Pair)
      /\ \A i \in 1..n : pairs[i] \in Pair
  <2>1. pairs \in Seq(Pair)
    OBVIOUS
  <2> HIDE DEF Pair
  <2>2. QED
    BY <2>1
<1>2. ASSUME NEW i \in 1..n
      PROVE  /\ pairs[i].key \in Text /\ pairs[i].value \in Text
             /\ pairs[i] = [key |-> pairs[i].key, value |-> pairs[i].value]
  BY <1>1
<1> HIDE DEF Pair
<1> SUFFICES ASSUME \A i \in 1..n :
                       /\ Words!Trim(pairs[i].key) = pairs[i].key
                       /\ Words!Trim(pairs[i].value) = pairs[i].value
                       /\ Words!ToSet(pairs[i].key) \cap {":", "\n"} = {}
                       /\ "\n" \notin Words!ToSet(pairs[i].value)
                       /\ pairs[i].key # << >> => pairs[i].key[1] # "#"
             PROVE  Words!ParseString(s) = pairs
  BY <1>1 DEF Words!PairsAreReadBack
<1> HIDE DEF n
<1>3. ASSUME NEW i \in 1..n
      PROVE  /\ line(i) \in Text /\ line(i) \o <<"\n">> \in Text /\ Without(line(i), "\n")
             /\ Words!ParseLine(line(i)) = <<pairs[i]>>
  <2> DEFINE key == pairs[i].key
             value == pairs[i].value
             k == Len(key)
             m == Len(value)
             t == line(i)
             q == <<"\n">>
  <2>1. /\ Words!Trim(key) = key /\ Words!Trim(value) = value
        /\ Words!ToSet(key) \cap {":", "\n"} = {} /\ "\n" \notin Words!ToSet(value)
        /\ key # << >> => key[1] # "#"
        /\ key \in Text /\ value \in Text /\ pairs[i] = [key |-> key, value |-> value]
    BY <1>2
  <2>2. t = Line(key, value)
    OBVIOUS
  <2> HIDE DEF key, value, t
  <2>3. Without(key, ":") /\ Without(key, "\n") /\ Without(value, "\n")
    <3>1. DOMAIN key = 1..Len(key) /\ DOMAIN value = 1..Len(value)
      BY <2>1 DEF Text
    <3>2. QED
      BY <2>1, <3>1 DEF Without, Words!ToSet
  <2>4. /\ t \in Text /\ Len(t) = k + 2 + m /\ k \in Nat /\ m \in Nat
        /\ \A j \in 1..k : t[j] = key[j]
        /\ t[k + 1] = ":" /\ t[k + 2] = Words!Blank
        /\ \A j \in 1..m : t[k + 2 + j] = value[j]
    <3>1. IsLine(t, key, value)
      BY <2>1, <2>2, LineIs
    <3>2. QED
      BY <3>1 DEF IsLine
  <2>5. ASSUME NEW j \in 1..Len(t) PROVE t[j] # "\n"
    <3> HIDE DEF k, m
    <3>1. CASE j \in 1..k
      BY <2>3, <2>4, <3>1 DEF Without, k
    <3>2. CASE j = k + 1 \/ j = k + 2
      BY <2>4, <3>2, Separators
    <3>3. CASE j - (k + 2) \in 1..m
      <4> DEFINE l == j - (k + 2)
      <4>1. l \in 1..m /\ k + 2 + l = j
        BY <2>4, <3>3
      <4> HIDE DEF l
      <4>2. t[j] = value[l]
        BY <2>4, <4>1
      <4>3. QED
        BY <2>3, <4>1, <4>2 DEF Without, m
    <3>4. QED
      BY <2>4, <3>1, <3>2, <3>3
  <2>6. Words!ParseLine(t) = <<pairs[i]>>
    BY <2>1, <2>2, <2>3, LineIsParsed
  <2>7. q \in Text
    BY Separators
  <2> HIDE DEF q
  <2>8. t \o q \in Text
    BY <2>4, <2>7, Concatenated
  <2>9. QED
    BY <2>4, <2>5, <2>6, <2>8 DEF t, q, Without
<1>4. Words!WritePairs(pairs) = Words!FlattenSeq(f)
  BY <1>1 DEF Words!WritePairs, Line
<1> HIDE DEF line
<1>5. /\ lines \in Seq(Text) /\ Len(lines) = n /\ \A i \in 1..n : lines[i] = line(i)
      /\ f \in Seq(Text) /\ Len(f) = n /\ \A i \in 1..n : f[i] = lines[i] \o <<"\n">>
  <2>1. lines \in [1..n -> Text] /\ f \in [1..n -> Text]
    BY <1>3
  <2>2. \A i \in 1..n : lines[i] = line(i) /\ f[i] = lines[i] \o <<"\n">>
    OBVIOUS
  <2> HIDE DEF lines, f
  <2>3. n \in Nat
    BY <1>1
  <2> HIDE DEF n
  <2>4. lines \in Seq(Text) /\ Len(lines) = n
    BY <2>1, <2>3
  <2>5. f \in Seq(Text) /\ Len(f) = n
    BY <2>1, <2>3
  <2>6. QED
    BY <2>2, <2>4, <2>5
<1> HIDE DEF lines, f, s
<1>6. Words!SplitAt(s, "\n") = Append(lines, << >>)
  <2>1. \A i \in 1..Len(lines) : Without(lines[i], "\n")
    BY <1>3, <1>5
  <2>2. PICK c : c = "\n"
    OBVIOUS
  <2>3. c \in Characters
    BY <2>2, Marks
  <2>4. /\ \A i \in 1..Len(lines) : Without(lines[i], c)
        /\ \A i \in 1..Len(f) : f[i] = lines[i] \o <<c>>
        /\ Len(f) = Len(lines)
    BY <1>5, <2>1, <2>2
  <2>5. Words!SplitAt(Words!FlattenSeq(f), c) = Append(lines, << >>)
    BY <1>5, <2>3, <2>4, LinesAreSplit
  <2>6. QED
    BY <1>4, <2>2, <2>5 DEF s
<1>7. /\ parsed \in Seq(Seq(Pair)) /\ Len(parsed) = n + 1
      /\ \A i \in 1..n : parsed[i] = <<pairs[i]>>
      /\ parsed[n + 1] = << >>
  <2> DEFINE all == Append(lines, << >>)
  <2>1. parsed = [i \in DOMAIN all |-> Words!ParseLine(all[i])]
    BY <1>6
  <2>2. /\ DOMAIN all = 1..(n + 1) /\ \A i \in 1..n : all[i] = line(i)
        /\ all[n + 1] = << >>
    BY <1>1, <1>5
  <2> HIDE DEF all, parsed
  <2>3. parsed = [i \in 1..(n + 1) |-> Words!ParseLine(all[i])]
    BY <2>1, <2>2
  <2>4. ASSUME NEW i \in 1..n PROVE parsed[i] = <<pairs[i]>>
    <3>1. i \in 1..(n + 1) /\ all[i] = line(i)
      BY <1>1, <2>2
    <3>2. QED
      BY <1>3, <2>3, <3>1
  <2>5. parsed[n + 1] = << >>
    <3>1. Words!ParseLine(<< >>) = << >>
      BY NothingIsTrimmed DEF Words!ParseLine
    <3>2. n + 1 \in 1..(n + 1)
      BY <1>1
    <3> DEFINE none == << >>
    <3>3. Words!ParseLine(none) = none /\ all[n + 1] = none
      BY <2>2, <3>1
    <3> HIDE DEF none
    <3>4. parsed[n + 1] = none
      BY <2>3, <3>2, <3>3
    <3>5. QED
      BY <3>4 DEF none
  <2>6. ASSUME NEW i \in 1..(n + 1) PROVE parsed[i] \in Seq(Pair)
    <3> DEFINE none == << >>
    <3>0. none \in Seq(Pair) /\ parsed[n + 1] = none
      BY <2>5
    <3> HIDE DEF none
    <3>1. CASE i = n + 1
      BY <3>0, <3>1
    <3>2. CASE i # n + 1
      <4>1. i \in 1..n
        BY <1>1, <3>2
      <4> DEFINE one == <<pairs[i]>>
      <4>2. one \in Seq(Pair)
        BY <1>1, <4>1
      <4>3. parsed[i] = one
        BY <2>4, <4>1
      <4> HIDE DEF one
      <4>4. QED
        BY <4>2, <4>3
    <3>3. QED
      BY <3>1, <3>2
  <2>7. parsed \in [1..(n + 1) -> Seq(Pair)]
    BY <2>3, <2>6
  <2> DEFINE S == Seq(Pair)
             l == n + 1
  <2>8. parsed \in [1..l -> S] /\ l \in Nat
    BY <1>1, <2>7
  <2> HIDE DEF S, l
  <2>9. parsed \in Seq(S) /\ Len(parsed) = l
    BY <2>8
  <2>10. QED
    BY <2>4, <2>5, <2>9 DEF S, l
<1>8. Words!ParseString(s) = IF Invalid \in Words!ToSet(parsed) THEN Invalid ELSE Words!FlattenSeq(parsed)
  BY DEF Words!ParseString
<1> HIDE DEF parsed
<1>9. Invalid \notin Words!ToSet(parsed)
  <2>1. ASSUME NEW i \in DOMAIN parsed PROVE parsed[i] \in Seq(Pair)
    BY <1>7
  <2>2. Invalid \notin Seq(Pair)
    BY InvalidIsNoList DEF Pair
  <2>3. QED
    BY <2>1, <2>2 DEF Words!ToSet
<1>10. Words!FlattenSeq(parsed) = pairs
  <2>1. /\ Len(parsed) = Len(pairs) + 1 /\ \A i \in 1..Len(pairs) : parsed[i] = <<pairs[i]>>
        /\ parsed[Len(pairs) + 1] = << >>
    BY <1>7 DEF n
  <2>2. QED
    BY <1>1, <1>7, <2>1, SinglesAreJoined
<1>11. QED
  BY <1>8, <1>9, <1>10

-----------------------------------------------------------------------------
LEMMA ManFinite == \A S : Man!Cardinality(S) = Cardinality(S)
  BY DEF Man!Cardinality, Cardinality, Man!IsFiniteSet, IsFiniteSet

(* A finite set of numbers has a next end after each of its versions.      *)
LEMMA FirstEndIs ==
  ASSUME NEW S \in SUBSET Nat, IsFiniteSet(S), NEW v \in S
  PROVE  \E h \in Nat : /\ h > v /\ h \notin S /\ \A i \in v..(h - 1) : i \in S
                        /\ \A low \in Nat : low <= v /\ (\A i \in low..v : i \in S) =>
                              Man!FirstEnd(S, low) = h
<1> DEFINE T == {n \in Nat : n > v /\ n \notin S}
<1>1. T # {}
  <2>1. SUFFICES ASSUME \A n \in Nat : n > v => n \in S PROVE FALSE
    OBVIOUS
  <2>2. Cardinality(S) \in Nat /\ v \in Nat
    BY FS_CardinalityType
  <2> DEFINE c == Cardinality(S)
             I == (v + 1)..(v + 1 + c)
  <2>3. I \in SUBSET S
    BY <2>1, <2>2
  <2>4. Cardinality(I) = c + 1
    <3>1. v + 1 \in Int /\ v + 1 + c \in Int /\ ~(v + 1 > v + 1 + c)
      BY <2>2
    <3>2. Cardinality(I) = (v + 1 + c) - (v + 1) + 1
      BY <3>1, FS_Interval
    <3>3. QED
      BY <2>2, <3>2
  <2> HIDE DEF I
  <2>5. Cardinality(I) <= c
    BY <2>3, FS_Subset
  <2>6. QED
    BY <2>2, <2>4, <2>5
<1>2. PICK h \in T : \A m \in Nat : m < h => m \notin T
  <2>1. T \in SUBSET Nat
    OBVIOUS
  <2>2. QED
    BY <1>1, <2>1, LeastNumber
<1>3. h \in Nat /\ h > v /\ h \notin S
  BY <1>2
<1>4. ASSUME NEW i \in v..(h - 1) PROVE i \in S
  BY <1>2, <1>3
<1>5. ASSUME NEW low \in Nat, low <= v, \A i \in low..v : i \in S
      PROVE  Man!FirstEnd(S, low) = h
  <2>1. h \in Man!Ends(S) /\ h > low
    <3>1. h - 1 \in S /\ (h - 1) + 1 \notin S /\ (h - 1) + 1 = h
      BY <1>3, <1>4
    <3>2. QED
      BY <1>3, <1>5, <3>1 DEF Man!Ends
  <2>2. ASSUME NEW g \in Man!Ends(S), g > low PROVE h <= g
    <3>1. g \in Nat /\ g \notin S
      BY <2>2 DEF Man!Ends
    <3>2. g > v
      BY <1>5, <2>2, <3>1
    <3>3. g \in T
      BY <3>1, <3>2
    <3>4. QED
      BY <1>2, <1>3, <3>1, <3>3
  <2>3. \A k \in Man!Ends(S) : k \in Nat
    BY DEF Man!Ends
  <2>4. \A k \in Man!Ends(S) : k > low /\ (\A g \in Man!Ends(S) : g > low => k <= g) => k = h
    BY <1>3, <2>1, <2>2, <2>3
  <2>5. QED
    BY <2>1, <2>2, <2>4 DEF Man!FirstEnd
<1>6. QED
  BY <1>3, <1>4, <1>5

(* Each version is in the interval of a low one. *)
LEMMA LowBelow ==
  ASSUME NEW S \in SUBSET Nat, NEW v \in S
  PROVE  \E low \in Man!Lows(S) : low <= v /\ \A i \in low..v : i \in S
<1> DEFINE T == {n \in Nat : n <= v /\ \A i \in n..v : i \in S}
<1>1. v \in T
  OBVIOUS
<1>2. PICK low \in T : \A m \in Nat : m < low => m \notin T
  <2>1. T \in SUBSET Nat /\ T # {}
    BY <1>1
  <2>2. QED
    BY <2>1, LeastNumber
<1>3. low \in Nat /\ low <= v /\ low \in S
  BY <1>2
<1>4. low - 1 \notin S
  <2>1. SUFFICES ASSUME low - 1 \in S PROVE FALSE
    OBVIOUS
  <2>2. low - 1 \in Nat /\ low - 1 < low
    BY <1>3, <2>1
  <2>3. low - 1 \in T
    BY <1>2, <1>3, <2>1, <2>2
  <2>4. QED
    BY <1>2, <2>2, <2>3
<1>5. QED
  BY <1>2, <1>3, <1>4 DEF Man!Lows

(* The place of a number in a finite set, and the number in a place.       *)
LEMMA NthIs ==
  ASSUME NEW S \in SUBSET Nat, IsFiniteSet(S)
  PROVE  /\ \A k \in 1..Cardinality(S) : Man!Nth(S, k) \in S
         /\ \A v \in S : \E k \in 1..Cardinality(S) : Man!Nth(S, k) = v
<1> DEFINE n == Cardinality(S)
           upTo(v) == {w \in S : w <= v}
           place == [v \in S |-> Cardinality(upTo(v))]
<1>1. n \in Nat
  BY FS_CardinalityType
<1>2. ASSUME NEW v \in S PROVE upTo(v) \in SUBSET S /\ IsFiniteSet(upTo(v)) /\ place[v] \in 1..n
  <2>1. upTo(v) \in SUBSET S
    OBVIOUS
  <2>2. IsFiniteSet(upTo(v)) /\ Cardinality(upTo(v)) <= n
    BY <2>1, FS_Subset
  <2>3. v \in upTo(v)
    OBVIOUS
  <2> HIDE DEF upTo
  <2>4. Cardinality(upTo(v)) \in Nat /\ Cardinality(upTo(v)) # 0
    BY <2>2, <2>3, FS_CardinalityType, FS_EmptySet
  <2>5. QED
    BY <1>1, <2>1, <2>2, <2>4
<1>3. ASSUME NEW v \in S, NEW w \in S, place[v] = place[w] PROVE v = w
  <2>1. SUFFICES ASSUME NEW a \in S, NEW b \in S, a < b, Cardinality(upTo(a)) = Cardinality(upTo(b))
                 PROVE  FALSE
    BY <1>3
  <2>2. upTo(a) \in SUBSET upTo(b) /\ b \in upTo(b) /\ b \notin upTo(a)
    <3>1. a \in Nat /\ b \in Nat /\ a < b
      BY <2>1
    <3>2. ASSUME NEW u \in S, u <= a PROVE u <= b
      <4>1. u \in Nat
        OBVIOUS
      <4>2. QED
        BY <3>1, <3>2, <4>1
    <3>3. b <= b /\ ~(b <= a)
      BY <3>1
    <3>4. QED
      BY <2>1, <3>2, <3>3
  <2>3. IsFiniteSet(upTo(b))
    BY <1>2
  <2> HIDE DEF upTo
  <2>4. upTo(b) = upTo(a)
    BY <2>1, <2>2, <2>3, FS_Subset
  <2>5. QED
    BY <2>2, <2>4
<1>4. place \in Injection(S, 1..n)
  <2>1. place \in [S -> 1..n]
    BY <1>2
  <2> HIDE DEF place
  <2>2. QED
    BY <1>3, <2>1 DEF Injection, IsInjective
<1>5. place \in Surjection(S, 1..n)
  <2>1. IsFiniteSet(1..n) /\ Cardinality(1..n) = n
    <3>1. 1 \in Int /\ n \in Int /\ (1 > n => n = 0) /\ n - 1 + 1 = n
      BY <1>1
    <3>2. QED
      BY <3>1, FS_Interval
  <2> HIDE DEF place
  <2>2. Cardinality(S) = Cardinality(1..n) <=> place \in Surjection(S, 1..n)
    BY <1>4, <2>1, FS_Injection
  <2>3. QED
    BY <2>1, <2>2
<1>6. ASSUME NEW k \in 1..n PROVE \E v \in S : place[v] = k
  <2> HIDE DEF place
  <2>1. QED
    BY <1>5 DEF Surjection
<1>7. ASSUME NEW k \in 1..n, NEW v \in S, place[v] = k PROVE Man!Nth(S, k) = v
  <2>1. Cardinality({w \in S : w <= v}) = k
    BY <1>7
  <2>2. ASSUME NEW u \in S, Cardinality({w \in S : w <= u}) = k PROVE u = v
    <3>1. place[u] = place[v]
      BY <1>7, <2>2
    <3>2. QED
      BY <1>3, <3>1
  <2>3. QED
    BY <2>1, <2>2, ManFinite DEF Man!Nth
<1> HIDE DEF place, n
<1>8. QED
  BY <1>2, <1>6, <1>7 DEF n

(* What a package's pkg.json says of a set of versions: ranges, in order,  *)
(* whose union it is.                                                      *)
LEMMA IntervalsAreVersions ==
  ASSUME NEW S \in SUBSET Nat, IsFiniteSet(S)
  PROVE  /\ Man!Intervals(S) \in Seq(Man!VersionRange)
         /\ ~Man!Unordered(Man!Intervals(S))
         /\ Man!UnionOf(Man!Intervals(S)) = S
         /\ Man!Intervals(S) = << >> <=> S = {}
<1> DEFINE L == Man!Lows(S)
           n == Cardinality(L)
           list == Man!Intervals(S)
<1>1. L \in SUBSET S /\ L \in SUBSET Nat /\ IsFiniteSet(L) /\ n \in Nat
  <2>1. L \in SUBSET S
    BY DEF Man!Lows
  <2> HIDE DEF L
  <2>2. QED
    BY <2>1, FS_Subset, FS_CardinalityType
<1>2. list = [k \in 1..n |-> [low |-> Man!Nth(L, k), high |-> Man!FirstEnd(S, Man!Nth(L, k))]]
  BY ManFinite DEF Man!Intervals
<1>3. ASSUME NEW low \in L
      PROVE  /\ Man!FirstEnd(S, low) \in Nat /\ Man!FirstEnd(S, low) > low
             /\ \A i \in Man!Between(low, Man!FirstEnd(S, low)) : i \in S
             /\ \A v \in S : low <= v /\ (\A i \in low..v : i \in S) => v < Man!FirstEnd(S, low)
  <2>1. low \in S /\ low \in Nat
    BY <1>1
  <2>2. PICK h \in Nat : /\ h > low /\ \A i \in low..(h - 1) : i \in S
                         /\ \A m \in Nat : m <= low /\ (\A i \in m..low : i \in S) =>
                               Man!FirstEnd(S, m) = h
    BY <2>1, FirstEndIs
  <2>3. Man!FirstEnd(S, low) = h
    BY <2>1, <2>2
  <2>4. ASSUME NEW v \in S, low <= v, \A i \in low..v : i \in S PROVE v < h
    <3>1. PICK g \in Nat : g > v /\ \A m \in Nat : m <= v /\ (\A i \in m..v : i \in S) =>
                                        Man!FirstEnd(S, m) = g
      BY FirstEndIs
    <3>2. g = h
      BY <2>1, <2>3, <2>4, <3>1
    <3>3. QED
      BY <3>1, <3>2
  <2>5. QED
    BY <2>2, <2>3, <2>4 DEF Man!Between
<1> HIDE DEF L, n, list
<1>4. ASSUME NEW k \in 1..n PROVE Man!Nth(L, k) \in L
  BY <1>1, <1>4, NthIs DEF n
<1>5. DOMAIN list = 1..n /\ \A k \in 1..n : /\ Man!Nth(L, k) \in L
                                            /\ list[k] = [low |-> Man!Nth(L, k), high |-> Man!FirstEnd(S, Man!Nth(L, k))]
                                            /\ list[k].low = Man!Nth(L, k)
                                            /\ list[k].high = Man!FirstEnd(S, Man!Nth(L, k))
  BY <1>2, <1>4
<1>6. list \in Seq(Man!VersionRange)
  <2>1. ASSUME NEW k \in 1..n PROVE list[k] \in Man!VersionRange
    <3>1. Man!Nth(L, k) \in L /\ list[k] = [low |-> Man!Nth(L, k), high |-> Man!FirstEnd(S, Man!Nth(L, k))]
      BY <1>5
    <3>2. Man!Nth(L, k) \in Nat /\ Man!FirstEnd(S, Man!Nth(L, k)) \in Nat
      BY <1>1, <1>3, <3>1
    <3>3. QED
      BY <3>1, <3>2 DEF Man!VersionRange
  <2>2. list \in [1..n -> Man!VersionRange]
    BY <1>2, <2>1
  <2>3. QED
    BY <1>1, <2>2
<1>7. ~Man!Unordered(list)
  <2>1. ASSUME NEW k \in 1..n PROVE ~(list[k].high <= list[k].low)
    <3>1. PICK low \in L : list[k].low = low /\ list[k].high = Man!FirstEnd(S, low)
      BY <1>5
    <3>2. low \in Nat /\ Man!FirstEnd(S, low) \in Nat /\ Man!FirstEnd(S, low) > low
      BY <1>1, <1>3
    <3>3. QED
      BY <3>1, <3>2
  <2>2. QED
    BY <1>5, <2>1 DEF Man!Unordered
<1>8. Man!UnionOf(list) \subseteq S
  <2>1. ASSUME NEW k \in 1..n PROVE Man!Between(list[k].low, list[k].high) \subseteq S
    BY <1>3, <1>5
  <2>2. QED
    BY <1>5, <2>1 DEF Man!UnionOf
<1>9. S \subseteq Man!UnionOf(list)
  <2>1. ASSUME NEW v \in S PROVE \E k \in 1..n : v \in Man!Between(list[k].low, list[k].high)
    <3>1. PICK low \in L : low <= v /\ \A i \in low..v : i \in S
      BY LowBelow DEF L
    <3>2. v < Man!FirstEnd(S, low) /\ low \in Nat /\ v \in Nat /\ Man!FirstEnd(S, low) \in Nat
      BY <1>1, <1>3, <3>1
    <3>3. PICK k \in 1..n : Man!Nth(L, k) = low
      BY <1>1, NthIs DEF n
    <3>4. list[k].low = low /\ list[k].high = Man!FirstEnd(S, low)
      BY <1>5, <3>3
    <3>5. QED
      BY <3>1, <3>2, <3>4 DEF Man!Between
  <2>2. QED
    BY <1>5, <2>1 DEF Man!UnionOf
<1>10. list = << >> <=> S = {}
  <2>1. ASSUME list = << >> PROVE S = {}
    <3>1. Man!UnionOf(list) = {}
      BY <2>1 DEF Man!UnionOf
    <3>2. QED
      BY <1>9, <3>1
  <2>2. ASSUME S = {} PROVE list = << >>
    <3>1. L = {}
      BY <1>1, <2>2
    <3>2. n = 0
      BY <3>1, FS_EmptySet DEF n
    <3>3. QED
      BY <1>5, <1>6, <3>2
  <2>3. QED
    BY <2>1, <2>2
<1>11. QED
  BY <1>6, <1>7, <1>8, <1>9, <1>10 DEF list

(* The beginning of a list. *)
LEMMA Beginning ==
  ASSUME NEW X, NEW s \in Seq(X), NEW n \in 0..Len(s)
  PROVE  /\ SubSeq(s, 1, n) \in Seq(X) /\ Len(SubSeq(s, 1, n)) = n
         /\ \A i \in 1..n : SubSeq(s, 1, n)[i] = s[i]
         /\ n > 0 => SubSeq(s, 1, n) = Append(SubSeq(s, 1, n - 1), s[n])
         /\ n = Len(s) => SubSeq(s, 1, n) = s
<1>1. Len(s) \in Nat /\ n \in Nat /\ \A i \in 1..n : s[i] \in X
  BY LenProperties, ElementOfSeq
<1>2. \A m \in 0..n : /\ SubSeq(s, 1, m) \in Seq(X) /\ Len(SubSeq(s, 1, m)) = m
                      /\ \A i \in 1..m : SubSeq(s, 1, m)[i] = s[i]
  <2>1. SUFFICES ASSUME NEW m \in 0..n
                 PROVE  /\ SubSeq(s, 1, m) \in Seq(X) /\ Len(SubSeq(s, 1, m)) = m
                        /\ \A i \in 1..m : SubSeq(s, 1, m)[i] = s[i]
    OBVIOUS
  <2>2. /\ SubSeq(s, 1, m) \in Seq(X)
        /\ Len(SubSeq(s, 1, m)) = IF 1 <= m THEN m - 1 + 1 ELSE 0
        /\ \A i \in 1..(m - 1 + 1) : SubSeq(s, 1, m)[i] = s[1 + i - 1]
    <3>1. 1 \in Int /\ m \in Int /\ \A i \in 1..m : s[i] \in X
      BY <1>1
    <3>2. QED
      BY <3>1, SubSeqProperties
  <2>3. m \in Nat /\ (1 <= m \/ m = 0) /\ m - 1 + 1 = m /\ \A i \in 1..m : 1 + i - 1 = i
    BY <1>1
  <2>4. QED
    BY <2>2, <2>3
<1>3. ASSUME n > 0 PROVE SubSeq(s, 1, n) = Append(SubSeq(s, 1, n - 1), s[n])
  <2>1. 1 \in 1..Len(s) /\ n \in 1..Len(s) /\ n - 1 \in 0..n /\ s[n] \in X
    BY <1>1, <1>3
  <2>2. SubSeq(s, 1, n) = SubSeq(s, 1, n - 1) \o <<s[n]>>
    BY <2>1, SubSeqRecursiveSecond
  <2>3. SubSeq(s, 1, n - 1) \in Seq(X)
    BY <1>2, <2>1
  <2>4. QED
    BY <2>1, <2>2, <2>3, AppendIsConcat
<1>4. n \in 0..n
  BY <1>1
<1>5. QED
  BY <1>2, <1>3, <1>4, SubSeqFull

LEMMA Appended ==
  ASSUME NEW X, NEW s \in Seq(X), NEW x \in X
  PROVE  /\ Append(s, x) \in Seq(X) /\ Len(Append(s, x)) = Len(s) + 1
         /\ \A i \in 1..Len(s) : Append(s, x)[i] = s[i]
         /\ Append(s, x)[Len(s) + 1] = x
  BY AppendProperties

(* Normal, name by name. *)
Walked(path, n, f) == f = [i \in 0..n |-> IF i = 0 THEN << >> ELSE Man!WithName(f[i - 1], path[i])]

LEMMA WalkExists ==
  ASSUME NEW path \in Seq(STRING)
  PROVE  \E f : /\ f[0] = << >> /\ \A i \in 1..Len(path) : f[i] = Man!WithName(f[i - 1], path[i])
                /\ Man!Normal(path) = f[Len(path)]
<1> DEFINE T == {n \in 0..Len(path) : \E f : Walked(path, n, f)}
<1>1. 0 \in T
  <2>1. Walked(path, 0, [i \in 0..0 |-> << >>])
    BY DEF Walked
  <2>2. QED
    BY <2>1
<1>2. ASSUME NEW n \in 1..Len(path), n - 1 \in T PROVE n \in T
  <2>1. PICK f : Walked(path, n - 1, f)
    BY <1>2
  <2> DEFINE g == [i \in 0..n |-> IF i = n THEN Man!WithName(f[n - 1], path[n]) ELSE f[i]]
  <2>2. ASSUME NEW i \in 0..n PROVE g[i] = IF i = 0 THEN << >> ELSE Man!WithName(g[i - 1], path[i])
    <3>1. \A m \in 0..(n - 1) : f[m] = IF m = 0 THEN << >> ELSE Man!WithName(f[m - 1], path[m])
      BY <2>1 DEF Walked
    <3>2. CASE i = n
      <4>1. i - 1 \in 0..n /\ i - 1 # n /\ i # 0
        BY <3>2
      <4>2. QED
        BY <3>2, <4>1
    <3>3. CASE i # n
      <4>1. i \in 0..(n - 1) /\ (i # 0 => i - 1 \in 0..n /\ i - 1 # n)
        BY <3>3
      <4>2. QED
        BY <3>1, <3>3, <4>1
    <3>4. QED
      BY <3>2, <3>3
  <2>3. Walked(path, n, g)
    BY <2>2 DEF Walked
  <2> HIDE DEF g
  <2>4. QED
    BY <2>3
<1> HIDE DEF T
<1>3. Len(path) \in T
  <2>1. Len(path) \in Nat
    OBVIOUS
  <2>2. \A i \in 0..Len(path) : i \in T
    BY <1>1, <1>2, <2>1, Upward
  <2>3. QED
    BY <2>1, <2>2
<1>4. \E f : Walked(path, Len(path), f)
  BY <1>3 DEF T
<1>5. PICK f : Walked(path, Len(path), f) /\ Man!Normal(path) = f[Len(path)]
  BY <1>4 DEF Walked, Man!Normal
<1>6. f[0] = << >> /\ \A i \in 1..Len(path) : f[i] = Man!WithName(f[i - 1], path[i])
  <2>1. \A i \in 0..Len(path) : f[i] = IF i = 0 THEN << >> ELSE Man!WithName(f[i - 1], path[i])
    BY <1>5 DEF Walked
  <2>2. 0 \in 0..Len(path) /\ \A i \in 1..Len(path) : i \in 0..Len(path) /\ i # 0
    <3>1. Len(path) \in Nat
      OBVIOUS
    <3>2. QED
      BY <3>1
  <2>3. QED
    BY <2>1, <2>2
<1>7. QED
  BY <1>5, <1>6

(* A path in its shortest form goes up only at its beginning.              *)
IsShort(path) == /\ path \in Seq(STRING)
                 /\ \A i \in 1..Len(path) : path[i] = ".." => i = 1 \/ path[i - 1] = ".."

LEMMA StepIsShort ==
  ASSUME NEW done, IsShort(done), NEW name \in STRING
  PROVE  /\ IsShort(Man!WithName(done, name))
         /\ name # ".." \/ done = << >> \/ done[Len(done)] = ".." =>
               Man!WithName(done, name) = Append(done, name)
<1> DEFINE more == Append(done, name)
           less == SubSeq(done, 1, Len(done) - 1)
<1>1. done \in Seq(STRING) /\ Len(done) \in Nat
  BY DEF IsShort
<1>2. /\ more \in Seq(STRING) /\ Len(more) = Len(done) + 1 /\ more[Len(done) + 1] = name
      /\ \A i \in 1..Len(done) : more[i] = done[i]
  <2>1. /\ more \in Seq(STRING) /\ Len(more) = Len(done) + 1
        /\ \A i \in 1..Len(done) : more[i] = done[i]
        /\ more[Len(done) + 1] = name
    BY <1>1, Appended
  <2>2. QED
    BY <2>1
<1>3. done # << >> => /\ less \in Seq(STRING) /\ Len(less) = Len(done) - 1 /\ Len(done) > 0
                      /\ \A i \in 1..(Len(done) - 1) : less[i] = done[i]
  <2>1. ASSUME done # << >> PROVE Len(done) > 0 /\ Len(done) - 1 \in 0..Len(done)
    BY <1>1, <2>1, EmptySeq
  <2>2. QED
    BY <1>1, <2>1, Beginning
<1>4. Man!WithName(done, name) = IF name # ".." \/ done = << >> THEN more
                                 ELSE IF done[Len(done)] = ".." THEN more
                                 ELSE IF done[Len(done)] = "/" THEN done ELSE less
  BY DEF Man!WithName, Man!Last, Man!Front
<1> HIDE DEF more, less
<1>5. ASSUME name # ".." \/ done = << >> \/ done[Len(done)] = ".." PROVE IsShort(more)
  <2>1. ASSUME NEW i \in 1..Len(more), more[i] = ".." PROVE i = 1 \/ more[i - 1] = ".."
    <3>1. CASE i \in 1..Len(done)
      <4>1. i = 1 \/ done[i - 1] = ".."
        BY <1>2, <2>1, <3>1 DEF IsShort
      <4>2. i # 1 => i - 1 \in 1..Len(done)
        BY <3>1
      <4>3. QED
        BY <1>2, <4>1, <4>2
    <3>2. CASE i = Len(done) + 1
      <4>1. name = ".."
        BY <1>2, <2>1, <3>2
      <4>2. CASE done = << >>
        BY <3>2, <4>2
      <4>3. CASE done # << >>
        <5>1. Len(done) \in 1..Len(done) /\ i - 1 = Len(done)
          BY <1>1, <1>3, <3>2, <4>3
        <5>2. QED
          BY <1>2, <1>5, <4>1, <4>3, <5>1
      <4>4. QED
        BY <4>2, <4>3
    <3>3. QED
      BY <1>1, <1>2, <3>1, <3>2
  <2>2. QED
    BY <1>2, <2>1 DEF IsShort
<1>6. ASSUME done # << >> PROVE IsShort(less)
  <2>1. ASSUME NEW i \in 1..Len(less), less[i] = ".." PROVE i = 1 \/ less[i - 1] = ".."
    <3>1. i \in 1..Len(done) /\ i \in 1..(Len(done) - 1) /\ (i # 1 => i - 1 \in 1..(Len(done) - 1))
      BY <1>1, <1>3, <1>6
    <3>2. i = 1 \/ done[i - 1] = ".."
      BY <1>3, <1>6, <2>1, <3>1 DEF IsShort
    <3>3. QED
      BY <1>3, <1>6, <3>1, <3>2
  <2>2. QED
    BY <1>3, <1>6, <2>1 DEF IsShort
<1>7. ASSUME name # ".." \/ done = << >> \/ done[Len(done)] = ".." PROVE Man!WithName(done, name) = more
  BY <1>4, <1>7
<1>8. ASSUME ~(name # ".." \/ done = << >> \/ done[Len(done)] = "..") PROVE IsShort(Man!WithName(done, name))
  <2>1. Man!WithName(done, name) = done \/ Man!WithName(done, name) = less
    BY <1>4, <1>8
  <2>2. IsShort(less)
    BY <1>6, <1>8
  <2>3. QED
    BY <2>1, <2>2
<1>9. QED
  BY <1>5, <1>7, <1>8 DEF more

LEMMA NormalIsShort ==
  ASSUME NEW path \in Seq(STRING)
  PROVE  IsShort(Man!Normal(path))
<1>1. PICK f : /\ f[0] = << >> /\ \A i \in 1..Len(path) : f[i] = Man!WithName(f[i - 1], path[i])
               /\ Man!Normal(path) = f[Len(path)]
  BY WalkExists
<1> DEFINE T == {i \in 0..Len(path) : IsShort(f[i])}
<1>2. 0 \in T
  <2>1. IsShort(<< >>)
    BY DEF IsShort
  <2>2. QED
    BY <1>1, <2>1
<1>3. ASSUME NEW i \in 1..Len(path), i - 1 \in T PROVE i \in T
  <2>1. path[i] \in STRING /\ i \in 0..Len(path)
    BY ElementOfSeq
  <2> DEFINE d == f[i - 1]
  <2>2. IsShort(d) /\ f[i] = Man!WithName(d, path[i])
    BY <1>1, <1>3
  <2> HIDE DEF d
  <2>3. QED
    BY <2>1, <2>2, StepIsShort
<1> HIDE DEF T
<1>4. \A i \in 0..Len(path) : i \in T
  <2>1. Len(path) \in Nat
    OBVIOUS
  <2>2. QED
    BY <1>2, <1>3, <2>1, Upward
<1>5. Len(path) \in 0..Len(path)
  OBVIOUS
<1>6. QED
  BY <1>1, <1>4, <1>5 DEF T

LEMMA ShortIsNormal ==
  ASSUME NEW path, IsShort(path)
  PROVE  Man!Normal(path) = path
<1>1. path \in Seq(STRING) /\ Len(path) \in Nat
  BY DEF IsShort
<1>2. PICK f : /\ f[0] = << >> /\ \A i \in 1..Len(path) : f[i] = Man!WithName(f[i - 1], path[i])
               /\ Man!Normal(path) = f[Len(path)]
  BY <1>1, WalkExists
<1> DEFINE T == {i \in 0..Len(path) : f[i] = SubSeq(path, 1, i)}
<1>3. 0 \in T
  <2>1. SubSeq(path, 1, 0) = << >> /\ 0 \in 0..Len(path)
    BY <1>1, SubSeqEmpty
  <2>2. QED
    BY <1>2, <2>1
<1>4. ASSUME NEW i \in 1..Len(path), i - 1 \in T PROVE i \in T
  <2> DEFINE d == SubSeq(path, 1, i - 1)
  <2>1. /\ d \in Seq(STRING) /\ Len(d) = i - 1 /\ \A k \in 1..(i - 1) : d[k] = path[k]
        /\ Append(d, path[i]) = SubSeq(path, 1, i) /\ path[i] \in STRING /\ i \in 0..Len(path)
    <3>1. i - 1 \in 0..Len(path) /\ i \in 0..Len(path) /\ i > 0
      BY <1>1
    <3>2. QED
      BY <1>1, <3>1, Beginning, ElementOfSeq
  <2>2. f[i] = Man!WithName(d, path[i])
    BY <1>2, <1>4
  <2> HIDE DEF d
  <2>3. IsShort(d)
    <3>1. ASSUME NEW k \in 1..Len(d), d[k] = ".." PROVE k = 1 \/ d[k - 1] = ".."
      <4>1. k \in 1..Len(path) /\ k \in 1..(i - 1) /\ (k # 1 => k - 1 \in 1..(i - 1))
        BY <1>1, <2>1
      <4>2. QED
        BY <2>1, <3>1, <4>1 DEF IsShort
    <3>2. QED
      BY <2>1, <3>1 DEF IsShort
  <2>4. path[i] # ".." \/ d = << >> \/ d[Len(d)] = ".."
    <3>1. path[i] = ".." => i = 1 \/ path[i - 1] = ".."
      BY DEF IsShort
    <3>2. i = 1 => d = << >>
      BY <2>1
    <3>3. i # 1 => i - 1 \in 1..(i - 1) /\ d[Len(d)] = path[i - 1]
      BY <2>1
    <3>4. QED
      BY <3>1, <3>2, <3>3
  <2>5. f[i] = Append(d, path[i])
    BY <2>1, <2>2, <2>3, <2>4, StepIsShort
  <2>6. QED
    BY <2>1, <2>5
<1> HIDE DEF T
<1>5. \A i \in 0..Len(path) : i \in T
  BY <1>1, <1>3, <1>4, Upward
<1>6. f[Len(path)] = SubSeq(path, 1, Len(path))
  BY <1>1, <1>5 DEF T
<1>7. QED
  BY <1>1, <1>2, <1>6, SubSeqFull

(* The beginning of a short path is short. *)
LEMMA BeginningIsShort ==
  ASSUME NEW path, IsShort(path), NEW n \in 0..Len(path)
  PROVE  IsShort(SubSeq(path, 1, n))
<1> DEFINE d == SubSeq(path, 1, n)
<1>1. path \in Seq(STRING) /\ Len(path) \in Nat
  BY DEF IsShort
<1>2. d \in Seq(STRING) /\ Len(d) = n /\ \A k \in 1..n : d[k] = path[k]
  BY <1>1, Beginning
<1> HIDE DEF d
<1>3. ASSUME NEW k \in 1..Len(d), d[k] = ".." PROVE k = 1 \/ d[k - 1] = ".."
  <2>1. k \in 1..Len(path) /\ k \in 1..n /\ (k # 1 => k - 1 \in 1..n)
    BY <1>1, <1>2
  <2>2. QED
    BY <1>2, <1>3, <2>1 DEF IsShort
<1>4. IsShort(d)
  BY <1>2, <1>3 DEF IsShort
<1>5. QED
  BY <1>4 DEF d

(* Lists of which one element is refused, and those of which none is.      *)
LEMMA AllAreThere ==
  ASSUME NEW X, Refused \notin X, NEW list \in Seq(X)
  PROVE  Man!AllOf(list) = list
<1>1. \A i \in DOMAIN list : list[i] \in X
  BY ElementOfSeq, LenProperties
<1>2. Refused \notin Man!ToSet(list)
  BY <1>1 DEF Man!ToSet
<1>3. QED
  BY <1>2 DEF Man!AllOf

LEMMA OneIsRefused ==
  ASSUME NEW list, NEW i \in DOMAIN list, list[i] = Refused
  PROVE  Man!AllOf(list) = Refused
  BY DEF Man!AllOf, Man!ToSet

LEMMA InfoIsNotRefused ==
  /\ Refused \notin Man!DependencyInfo /\ Refused \notin Seq(Man!DependencyInfo)
  /\ Refused \notin Man!LibraryInfo /\ Refused \notin Seq(Man!LibraryInfo)
  /\ Refused \notin Man!ProjectInfo /\ Refused \notin Man!PackageInfo
  BY RefusedIsNoInfo

(* What a package, a library and a dependency are made of.                 *)
DependencyOf(n, v, u) == [name |-> n, versions |-> v, uses |-> u]

LibraryOf(n, p, u, t, d, e) ==
  [name |-> n, path |-> p, using |-> u, test_using |-> t, dependencies |-> d,
   test_dependencies |-> e]

FiniteDependencies == {d \in Man!DependencyInfo : IsFiniteSet(d.versions)}

FiniteLibraries == {l \in Man!LibraryInfo : /\ l.dependencies \in Seq(FiniteDependencies)
                                            /\ l.test_dependencies \in Seq(FiniteDependencies)}

FinitePackages == {p \in Man!PackageInfo : p.libraries \in Seq(FiniteLibraries) /\ p.libraries # << >>}

LEMMA DependencyIsRead ==
  ASSUME NEW d \in FiniteDependencies
  PROVE  Man!Dependency(Man!DependencyJson(d)) =
            IF d.versions # {} /\ d.uses \subseteq Man!Names THEN d ELSE Refused
<1>1. d \in Man!DependencyInfo /\ d.versions \in SUBSET Nat /\ IsFiniteSet(d.versions) /\ d.name \in Man!Names
  BY DEF FiniteDependencies, Man!DependencyInfo
<1>2. d = DependencyOf(d.name, d.versions, d.uses)
  BY <1>1 DEF Man!DependencyInfo, DependencyOf
<1> DEFINE list == Man!Intervals(d.versions)
           json == Man!DependencyJson(d)
<1>3. ~Man!Unordered(list) /\ Man!UnionOf(list) = d.versions /\ (list = << >> <=> d.versions = {})
  BY <1>1, IntervalsAreVersions
<1>4. json.name = d.name /\ json.versions = list /\ json.using = d.uses
  BY DEF Man!DependencyJson
<1> HIDE DEF list, json
<1>5. Man!Dependency(json) =
         IF ~({d.name} \cup d.uses \subseteq Man!Names) \/ list = << >> \/ Man!Unordered(list) THEN Refused
         ELSE DependencyOf(d.name, Man!UnionOf(list), d.uses)
  BY <1>4 DEF Man!Dependency, DependencyOf
<1>6. Man!Dependency(json) = IF d.versions # {} /\ d.uses \subseteq Man!Names THEN d ELSE Refused
  <2>1. ({d.name} \cup d.uses \subseteq Man!Names) <=> d.uses \subseteq Man!Names
    BY <1>1
  <2>2. QED
    BY <1>2, <1>3, <1>5, <2>1
<1>7. QED
  BY <1>6 DEF json

Readable(list) == \A i \in DOMAIN list : list[i].versions # {} /\ list[i].uses \subseteq Man!Names

LEMMA DependenciesAreRead ==
  ASSUME NEW list \in Seq(FiniteDependencies)
  PROVE  Man!Dependencies(Man!DependenciesJson(list)) = IF Readable(list) THEN list ELSE Refused
<1> DEFINE read == [i \in DOMAIN list |-> Man!Dependency(Man!DependencyJson(list[i]))]
<1>1. Man!Dependencies(Man!DependenciesJson(list)) = Man!AllOf(read)
  <2> DEFINE json == Man!DependenciesJson(list)
  <2>1. json = [i \in DOMAIN list |-> Man!DependencyJson(list[i])]
    BY DEF Man!DependenciesJson
  <2>2. DOMAIN json = DOMAIN list /\ \A i \in DOMAIN list : json[i] = Man!DependencyJson(list[i])
    BY <2>1
  <2> HIDE DEF json
  <2>3. [i \in DOMAIN json |-> Man!Dependency(json[i])] = read
    BY <2>2
  <2> HIDE DEF read
  <2>4. Man!Dependencies(json) = Man!AllOf(read)
    BY <2>3 DEF Man!Dependencies
  <2>5. QED
    BY <2>4 DEF json
<1>2. \A i \in DOMAIN list : /\ list[i] \in FiniteDependencies
                             /\ read[i] = IF list[i].versions # {} /\ list[i].uses \subseteq Man!Names
                                          THEN list[i] ELSE Refused
  <2>1. ASSUME NEW i \in DOMAIN list PROVE list[i] \in FiniteDependencies
    BY ElementOfSeq, LenProperties
  <2>2. QED
    BY <2>1, DependencyIsRead
<1>3. DOMAIN read = DOMAIN list /\ list = [i \in DOMAIN list |-> list[i]]
  BY LenProperties
<1>4. CASE Readable(list)
  <2>1. \A i \in DOMAIN list : read[i] = list[i]
    BY <1>2, <1>4 DEF Readable
  <2>2. read = list
    BY <1>3, <2>1
  <2>3. Refused \notin FiniteDependencies
    BY InfoIsNotRefused DEF FiniteDependencies
  <2> HIDE DEF read
  <2>4. Man!AllOf(read) = list
    BY <2>2, <2>3, AllAreThere
  <2>5. QED
    BY <1>1, <1>4, <2>4
<1>5. CASE ~Readable(list)
  <2>1. PICK i \in DOMAIN list : ~(list[i].versions # {} /\ list[i].uses \subseteq Man!Names)
    BY <1>5 DEF Readable
  <2>2. i \in DOMAIN read /\ read[i] = Refused
    BY <1>2, <1>3, <2>1
  <2> HIDE DEF read
  <2>3. QED
    BY <1>1, <1>5, <2>2, OneIsRefused
<1>6. QED
  BY <1>4, <1>5

WithBoth(l, d, t) == [l EXCEPT !.dependencies = d, !.test_dependencies = t]

LEMMA BothAreChanged ==
  ASSUME NEW n, NEW p, NEW u, NEW t, NEW d, NEW e, NEW x, NEW y
  PROVE  WithBoth(LibraryOf(n, p, u, t, d, e), x, y) = LibraryOf(n, p, u, t, x, y)
<1>1. [LibraryOf(n, p, u, t, d, e) EXCEPT !.dependencies = x] = LibraryOf(n, p, u, t, x, e)
  BY DEF LibraryOf
<1>2. [LibraryOf(n, p, u, t, x, e) EXCEPT !.test_dependencies = y] = LibraryOf(n, p, u, t, x, y)
  BY DEF LibraryOf
<1>3. QED
  BY <1>1, <1>2 DEF WithBoth

LEMMA LibraryIsOf ==
  ASSUME NEW l \in FiniteLibraries
  PROVE  /\ l = LibraryOf(l.name, l.path, l.using, l.test_using, l.dependencies, l.test_dependencies)
         /\ l.name \in Man!Names /\ l.path \in Seq(STRING)
         /\ l.using \subseteq Man!Names /\ l.test_using \subseteq Man!Names
         /\ l.dependencies \in Seq(FiniteDependencies) /\ l.test_dependencies \in Seq(FiniteDependencies)
<1>1. l \in Man!LibraryInfo /\ l.dependencies \in Seq(FiniteDependencies)
      /\ l.test_dependencies \in Seq(FiniteDependencies)
  BY DEF FiniteLibraries
<1>2. QED
  BY <1>1 DEF Man!LibraryInfo, LibraryOf

LibraryJson(l) == [l EXCEPT !.dependencies = Man!DependenciesJson(@),
                            !.test_dependencies = Man!DependenciesJson(@)]

IsWritable(l) == /\ ~Man!Outside(Man!Normal(l.path))
                 /\ Readable(l.dependencies) /\ Readable(l.test_dependencies)

LEMMA ShortenedIs ==
  ASSUME NEW l \in FiniteLibraries
  PROVE  /\ Man!WithNormalPath(l) = LibraryOf(l.name, Man!Normal(l.path), l.using, l.test_using,
                                     l.dependencies, l.test_dependencies)
         /\ Man!WithNormalPath(l) \in FiniteLibraries /\ Man!WithNormalPath(l).path = Man!Normal(l.path)
         /\ Man!WithNormalPath(l).dependencies = l.dependencies
         /\ Man!WithNormalPath(l).test_dependencies = l.test_dependencies
<1>1. Man!Normal(l.path) \in Seq(STRING)
  BY LibraryIsOf, NormalIsShort DEF IsShort
<1>2. Man!WithNormalPath(l) = LibraryOf(l.name, Man!Normal(l.path), l.using, l.test_using,
                               l.dependencies, l.test_dependencies)
  BY LibraryIsOf DEF Man!WithNormalPath, LibraryOf
<1>3. l.dependencies \in Seq(Man!DependencyInfo) /\ l.test_dependencies \in Seq(Man!DependencyInfo)
  BY DEF FiniteLibraries, Man!LibraryInfo
<1>4. Man!WithNormalPath(l) \in Man!LibraryInfo
  BY <1>1, <1>2, <1>3, LibraryIsOf DEF LibraryOf, Man!LibraryInfo
<1>5. /\ Man!WithNormalPath(l).path = Man!Normal(l.path) /\ Man!WithNormalPath(l).dependencies = l.dependencies
      /\ Man!WithNormalPath(l).test_dependencies = l.test_dependencies
  BY <1>2 DEF LibraryOf
<1>6. QED
  BY <1>2, <1>4, <1>5, LibraryIsOf DEF FiniteLibraries

LEMMA LibraryIsRead ==
  ASSUME NEW l \in FiniteLibraries
  PROVE  Man!Library(LibraryJson(l)) = IF IsWritable(l) THEN Man!WithNormalPath(l) ELSE Refused
<1> DEFINE d == Man!DependenciesJson(l.dependencies)
           t == Man!DependenciesJson(l.test_dependencies)
           json == LibraryJson(l)
           n == Man!Normal(l.path)
           back == Man!Dependencies(d)
           backT == Man!Dependencies(t)
<1>1. back = (IF Readable(l.dependencies) THEN l.dependencies ELSE Refused)
      /\ backT = (IF Readable(l.test_dependencies) THEN l.test_dependencies ELSE Refused)
  BY LibraryIsOf, DependenciesAreRead
<1>2. json = LibraryOf(l.name, l.path, l.using, l.test_using, d, t)
  <2>1. json = WithBoth(l, d, t)
    BY DEF LibraryJson, WithBoth
  <2> HIDE DEF json, d, t
  <2>2. QED
    BY <2>1, LibraryIsOf, BothAreChanged
<1>3. l.dependencies # Refused /\ l.test_dependencies # Refused
  <2>1. l.dependencies \in Seq(Man!DependencyInfo) /\ l.test_dependencies \in Seq(Man!DependencyInfo)
    BY DEF FiniteLibraries, Man!LibraryInfo
  <2>2. QED
    BY <2>1, InfoIsNotRefused
<1>4. {l.name} \cup l.using \cup l.test_using \subseteq Man!Names
  BY LibraryIsOf
<1> HIDE DEF d, t, json
<1>5. json.name = l.name /\ json.using = l.using /\ json.test_using = l.test_using /\ json.path = l.path
      /\ json.dependencies = d /\ json.test_dependencies = t
  BY <1>2 DEF LibraryOf
<1>6. Man!WithNormalPath(json) = LibraryOf(l.name, n, l.using, l.test_using, d, t)
  BY <1>2 DEF LibraryOf, Man!WithNormalPath
<1> HIDE DEF n, back, backT
<1>7. Man!Library(json) =
         IF ~({l.name} \cup l.using \cup l.test_using \subseteq Man!Names) \/ Man!Outside(n) THEN Refused
         ELSE Man!WithDependencies(LibraryOf(l.name, n, l.using, l.test_using, d, t), back, backT)
  BY <1>5, <1>6 DEF Man!Library, n, back, backT
<1>8. \A r : Man!WithDependencies(r, back, backT) =
               IF back = Refused \/ backT = Refused THEN Refused ELSE WithBoth(r, back, backT)
  BY DEF Man!WithDependencies, WithBoth
<1>9. Man!WithDependencies(LibraryOf(l.name, n, l.using, l.test_using, d, t), back, backT) =
         IF back = Refused \/ backT = Refused THEN Refused
         ELSE LibraryOf(l.name, n, l.using, l.test_using, back, backT)
  BY <1>8, BothAreChanged
<1>10. Man!WithNormalPath(l) = LibraryOf(l.name, n, l.using, l.test_using, l.dependencies, l.test_dependencies)
  BY ShortenedIs DEF n
<1>11. IsWritable(l) <=> ~Man!Outside(n) /\ Readable(l.dependencies) /\ Readable(l.test_dependencies)
  BY DEF IsWritable, n
<1>12. CASE IsWritable(l)
  <2>1. back = l.dependencies /\ backT = l.test_dependencies
    BY <1>1, <1>11, <1>12
  <2>2. QED
    BY <1>3, <1>4, <1>7, <1>9, <1>10, <1>11, <1>12, <2>1 DEF json
<1>13. CASE ~IsWritable(l)
  <2>1. Man!Outside(n) \/ back = Refused \/ backT = Refused
    BY <1>1, <1>11, <1>13
  <2>2. QED
    BY <1>7, <1>9, <1>13, <2>1 DEF json
<1>14. QED
  BY <1>12, <1>13

LEMMA ElementsOfBoth ==
  ASSUME NEW X, NEW s \in Seq(X), NEW t \in Seq(X)
  PROVE  Man!ToSet(s \o t) = Man!ToSet(s) \cup Man!ToSet(t)
<1>1. /\ s \o t \in Seq(X) /\ Len(s \o t) = Len(s) + Len(t)
      /\ \A i \in 1..(Len(s) + Len(t)) : (s \o t)[i] = IF i <= Len(s) THEN s[i] ELSE t[i - Len(s)]
  BY ConcatProperties
<1> DEFINE b == s \o t
<1>2. /\ Len(s) \in Nat /\ Len(t) \in Nat /\ DOMAIN s = 1..Len(s) /\ DOMAIN t = 1..Len(t)
      /\ DOMAIN b = 1..(Len(s) + Len(t))
  BY <1>1, LenProperties
<1>3. \A i \in 1..(Len(s) + Len(t)) : b[i] = IF i <= Len(s) THEN s[i] ELSE t[i - Len(s)]
  BY <1>1
<1> HIDE DEF b
<1>4. ASSUME NEW i \in DOMAIN b PROVE b[i] \in Man!ToSet(s) \cup Man!ToSet(t)
  <2>1. CASE i <= Len(s)
    <3>1. i \in DOMAIN s /\ b[i] = s[i]
      BY <1>2, <1>3, <2>1
    <3>2. QED
      BY <3>1 DEF Man!ToSet
  <2>2. CASE ~(i <= Len(s))
    <3>1. i - Len(s) \in DOMAIN t /\ b[i] = t[i - Len(s)]
      BY <1>2, <1>3, <2>2
    <3>2. QED
      BY <3>1 DEF Man!ToSet
  <2>3. QED
    BY <2>1, <2>2
<1>5. ASSUME NEW i \in DOMAIN s PROVE s[i] \in Man!ToSet(b)
  <2>1. i \in DOMAIN b /\ b[i] = s[i]
    BY <1>2, <1>3
  <2>2. QED
    BY <2>1 DEF Man!ToSet
<1>6. ASSUME NEW i \in DOMAIN t PROVE t[i] \in Man!ToSet(b)
  <2>1. i + Len(s) \in 1..(Len(s) + Len(t)) /\ (i + Len(s)) - Len(s) = i /\ (i + Len(s) <= Len(s) => FALSE)
    BY <1>2
  <2>2. i + Len(s) \in DOMAIN b /\ b[i + Len(s)] = t[i]
    BY <1>2, <1>3, <2>1
  <2>3. QED
    BY <2>2 DEF Man!ToSet
<1>7. Man!ToSet(b) = Man!ToSet(s) \cup Man!ToSet(t)
  BY <1>4, <1>5, <1>6 DEF Man!ToSet
<1>8. QED
  BY <1>7 DEF b

LEMMA WritableIs ==
  ASSUME NEW libs \in Seq(FiniteLibraries)
  PROVE  Man!Writable(libs) <=> \A i \in DOMAIN libs : IsWritable(libs[i])
<1>1. ASSUME NEW i \in DOMAIN libs
      PROVE  IsWritable(libs[i]) <=>
                /\ ~Man!Outside(Man!Normal(libs[i].path))
                /\ \A d \in Man!ToSet(libs[i].dependencies \o libs[i].test_dependencies) :
                      d.versions # {} /\ d.uses \subseteq Man!Names
  <2> DEFINE s == libs[i].dependencies
             t == libs[i].test_dependencies
  <2>1. libs[i] \in FiniteLibraries
    BY ElementOfSeq, LenProperties
  <2>2. s \in Seq(FiniteDependencies) /\ t \in Seq(FiniteDependencies)
    BY <2>1, LibraryIsOf
  <2> HIDE DEF s, t
  <2>3. Man!ToSet(s \o t) = Man!ToSet(s) \cup Man!ToSet(t)
    BY <2>2, ElementsOfBoth
  <2>4. (\A d \in Man!ToSet(s \o t) : d.versions # {} /\ d.uses \subseteq Man!Names) <=>
           Readable(s) /\ Readable(t)
    BY <2>3 DEF Readable, Man!ToSet
  <2>5. QED
    BY <2>4 DEF IsWritable, s, t
<1>2. QED
  BY <1>1 DEF Man!Writable, Man!ToSet

LEMMA PackageIsOf ==
  ASSUME NEW p \in FinitePackages
  PROVE  /\ p = [name |-> p.name, version |-> p.version, revision |-> p.revision, meta |-> p.meta,
                 libraries |-> p.libraries]
         /\ p.name \in Man!Names /\ p.libraries \in Seq(FiniteLibraries) /\ p.libraries # << >>
         /\ \A i \in DOMAIN p.libraries : p.libraries[i] \in FiniteLibraries
         /\ p # Refused
<1>1. p \in Man!PackageInfo /\ p.libraries \in Seq(FiniteLibraries) /\ p.libraries # << >>
  BY DEF FinitePackages
<1>2. \A i \in DOMAIN p.libraries : p.libraries[i] \in FiniteLibraries
  BY <1>1, ElementOfSeq, LenProperties
<1>3. QED
  BY <1>1, <1>2, InfoIsNotRefused DEF Man!PackageInfo

ShortenedList(libs) == [i \in DOMAIN libs |-> Man!WithNormalPath(libs[i])]

(* A package with paths in their shortest form. *)
LEMMA WithNormalPathsIs ==
  ASSUME NEW p \in FinitePackages
  PROVE  /\ Man!WithNormalPaths(p) =
              [name |-> p.name, version |-> p.version, revision |-> p.revision, meta |-> p.meta,
               libraries |-> ShortenedList(p.libraries)]
         /\ ShortenedList(p.libraries) \in Seq(FiniteLibraries)
         /\ Man!WithNormalPaths(p).libraries = ShortenedList(p.libraries)
         /\ Man!WithNormalPaths(p) \in FinitePackages
<1> DEFINE libs == p.libraries
           short == ShortenedList(libs)
           q == [name |-> p.name, version |-> p.version, revision |-> p.revision, meta |-> p.meta,
                 libraries |-> short]
<1>1. short \in Seq(FiniteLibraries) /\ short # << >>
  <2>1. libs \in Seq(FiniteLibraries) /\ libs # << >>
    BY PackageIsOf
  <2>2. \A i \in DOMAIN libs : Man!WithNormalPath(libs[i]) \in FiniteLibraries
    BY PackageIsOf, ShortenedIs
  <2> HIDE DEF libs
  <2>3. Len(libs) \in Nat /\ Len(libs) # 0 /\ DOMAIN libs = 1..Len(libs)
    BY <2>1, LenProperties, EmptySeq
  <2>4. short \in [1..Len(libs) -> FiniteLibraries]
    BY <2>2, <2>3 DEF ShortenedList
  <2> HIDE DEF short
  <2>5. short \in Seq(FiniteLibraries) /\ Len(short) = Len(libs)
    BY <2>3, <2>4
  <2>6. QED
    BY <2>3, <2>5, EmptySeq
<1>2. Man!WithNormalPaths(p) = [p EXCEPT !.libraries = short]
  BY DEF Man!WithNormalPaths, ShortenedList
<1> HIDE DEF short
<1>3. [p EXCEPT !.libraries = short] = q
  BY PackageIsOf
<1>4. short \in Seq(Man!LibraryInfo)
  <2>1. FiniteLibraries \subseteq Man!LibraryInfo
    BY DEF FiniteLibraries
  <2>2. QED
    BY <1>1, <2>1
<1>5. q \in Man!PackageInfo /\ q.libraries = short
  <2>1. p \in Man!PackageInfo
    BY DEF FinitePackages
  <2>2. QED
    BY <1>4, <2>1 DEF Man!PackageInfo
<1> HIDE DEF q
<1>6. q \in FinitePackages
  BY <1>1, <1>5 DEF FinitePackages
<1>7. QED
  BY <1>1, <1>2, <1>3, <1>5, <1>6 DEF short, q

(* What is written into pkg.json is what is read from it.                  *)
LEMMA PackageIsRead ==
  ASSUME NEW p \in FinitePackages, ~Man!Implicit(p)
  PROVE  Man!ReadPackage(Man!ToJson(p)) =
            IF Man!Writable(p.libraries) THEN Man!WithNormalPaths(p) ELSE Refused
<1> DEFINE libs == p.libraries
           json == Man!ToJson(p)
           read == [i \in DOMAIN libs |-> Man!Library(LibraryJson(libs[i]))]
           list == [i \in DOMAIN libs |-> LibraryJson(libs[i])]
           all == Man!AllOf(read)
<1>1. json = [name |-> p.name, version |-> p.version, pkg_version |-> p.revision, meta |-> p.meta,
              schema_version |-> 1, libraries |-> list]
  BY DEF Man!ToJson, LibraryJson
<1>2. /\ p.name \in Man!Names /\ libs \in Seq(FiniteLibraries) /\ libs # << >>
      /\ \A i \in DOMAIN libs : libs[i] \in FiniteLibraries
  BY PackageIsOf
<1>3. DOMAIN list = DOMAIN libs /\ \A i \in DOMAIN libs : list[i] = LibraryJson(libs[i])
  OBVIOUS
<1>4. list # << >>
  <2> HIDE DEF libs, list
  <2>1. Len(libs) \in Nat \ {0} /\ DOMAIN libs = 1..Len(libs)
    BY <1>2, EmptySeq, LenProperties
  <2>2. 1 \in DOMAIN list
    BY <1>3, <2>1
  <2>3. QED
    BY <2>2
<1>5. [i \in DOMAIN list |-> Man!Library(list[i])] = read
  <2> HIDE DEF libs, list
  <2>1. QED
    BY <1>3
<1> HIDE DEF libs, list, json, read
<1>6. /\ json.name = p.name /\ json.version = p.version /\ json.pkg_version = p.revision
      /\ json.meta = p.meta /\ json.schema_version = 1 /\ json.libraries = list
  BY <1>1
<1>7. Man!ReadPackage(json) =
         IF all = Refused THEN Refused
         ELSE [name |-> p.name, version |-> p.version, revision |-> p.revision, meta |-> p.meta,
               libraries |-> all]
  BY <1>2, <1>4, <1>5, <1>6 DEF Man!ReadPackage
<1>8. \A i \in DOMAIN libs :
         read[i] = IF IsWritable(libs[i]) THEN Man!WithNormalPath(libs[i]) ELSE Refused
  BY <1>2, LibraryIsRead DEF read
<1>9. Man!Writable(libs) <=> \A i \in DOMAIN libs : IsWritable(libs[i])
  BY <1>2, WritableIs
<1>10. CASE Man!Writable(libs)
  <2>1. read = ShortenedList(libs)
    BY <1>8, <1>9, <1>10 DEF read, ShortenedList
  <2>2. ShortenedList(libs) \in Seq(FiniteLibraries)
    BY WithNormalPathsIs DEF libs
  <2>3. Refused \notin FiniteLibraries /\ Refused \notin Seq(FiniteLibraries)
    <3>1. FiniteLibraries \subseteq Man!LibraryInfo
      BY DEF FiniteLibraries
    <3>2. Seq(FiniteLibraries) \subseteq Seq(Man!LibraryInfo)
      BY <3>1
    <3>3. QED
      BY <3>1, <3>2, InfoIsNotRefused
  <2>4. all = ShortenedList(libs) /\ all # Refused
    BY <2>1, <2>2, <2>3, AllAreThere
  <2> HIDE DEF all
  <2>5. QED
    BY <1>7, <1>10, <2>4, WithNormalPathsIs DEF libs, json
<1>11. CASE ~Man!Writable(libs)
  <2>1. PICK i \in DOMAIN libs : ~IsWritable(libs[i])
    BY <1>9, <1>11
  <2>2. i \in DOMAIN read /\ read[i] = Refused
    BY <1>8, <2>1 DEF read
  <2>3. all = Refused
    BY <2>2, OneIsRefused
  <2> HIDE DEF all
  <2>4. QED
    BY <1>7, <1>11, <2>3 DEF libs, json
<1>12. QED
  BY <1>10, <1>11 DEF libs

LEMMA NormalIsNormal ==
  ASSUME NEW path \in Seq(STRING)
  PROVE  Man!Normal(Man!Normal(path)) = Man!Normal(path)
  BY NormalIsShort, ShortIsNormal

FilesOf(dir, libs) == UNION {Man!SourcesOf(dir, lib) : lib \in Man!ToSet(libs)}

(* What a distribution has of each library is what the directory has, and  *)
(* that is there where the distribution says it is.                        *)
LEMMA SameSources ==
  ASSUME NEW p \in FinitePackages, NEW dir, NEW sdist,
         sdist.files = FilesOf(dir, p.libraries)
  PROVE  \A i \in DOMAIN p.libraries :
            /\ Man!SourcesOf(sdist, p.libraries[i]) = Man!SourcesOf(dir, p.libraries[i])
            /\ Man!SourcesOf(sdist, Man!WithNormalPath(p.libraries[i])) =
                  Man!SourcesOf(dir, p.libraries[i])
            /\ Man!SourcesOf(dir, Man!WithNormalPath(p.libraries[i])) =
                  Man!SourcesOf(dir, p.libraries[i])
<1>1. SUFFICES ASSUME NEW i \in DOMAIN p.libraries
               PROVE  /\ Man!SourcesOf(sdist, p.libraries[i]) = Man!SourcesOf(dir, p.libraries[i])
                      /\ \A d : Man!SourcesOf(d, Man!WithNormalPath(p.libraries[i])) =
                                   Man!SourcesOf(d, p.libraries[i])
  OBVIOUS
<1> DEFINE l == p.libraries[i]
<1>2. l \in FiniteLibraries /\ l \in Man!ToSet(p.libraries)
  BY PackageIsOf DEF Man!ToSet
<1>3. Man!Normal(Man!WithNormalPath(l).path) = Man!Normal(l.path)
  BY <1>2, LibraryIsOf, ShortenedIs, NormalIsNormal
<1> HIDE DEF l
<1>4. \A d : Man!SourcesOf(d, Man!WithNormalPath(l)) = Man!SourcesOf(d, l)
  BY <1>3 DEF Man!SourcesOf
<1> DEFINE Has(f) == f.source /\ \E root \in {"include", "src"} :
                                    Man!IsPrefix(Append(Man!Normal(l.path), root), f.dir)
<1>5. /\ Man!SourcesOf(dir, l) = {f \in dir.files : Has(f)}
      /\ Man!SourcesOf(sdist, l) = {f \in sdist.files : Has(f)}
  BY DEF Man!SourcesOf
<1> HIDE DEF Has
<1>6. Man!SourcesOf(dir, l) \subseteq sdist.files
  BY <1>2 DEF FilesOf
<1>7. ASSUME NEW f \in sdist.files PROVE f \in dir.files
  BY DEF Man!SourcesOf, FilesOf
<1>8. Man!SourcesOf(sdist, l) = Man!SourcesOf(dir, l)
  BY <1>5, <1>6, <1>7
<1>9. QED
  BY <1>4, <1>8 DEF l

(* The directories on the way to a library with a source are there.        *)
LEMMA SourcesAreReached ==
  ASSUME NEW path, IsShort(path), NEW dir, NEW f \in dir.files, NEW root \in {"include", "src"},
         Man!IsPrefix(Append(path, root), f.dir), f.dir \in Seq(STRING)
  PROVE  Man!Reaches(dir, path)
<1> DEFINE X == STRING \cup {"include", "src"}
           long == Append(path, root)
<1>1. path \in Seq(STRING) /\ path \in Seq(X) /\ Len(path) \in Nat /\ root \in X
  BY DEF IsShort
<1> HIDE DEF X
<1>2. long \in Seq(X) /\ Len(long) = Len(path) + 1 /\ \A i \in 1..Len(path) : long[i] = path[i]
  BY <1>1, Appended
<1>3. Len(long) <= Len(f.dir) /\ SubSeq(long, 1, Len(long)) = SubSeq(f.dir, 1, Len(long))
  BY DEF Man!IsPrefix
<1> HIDE DEF long
<1>4. \A i \in 1..Len(path) : f.dir[i] = path[i]
  <2>1. Len(f.dir) \in Nat /\ Len(long) \in 0..Len(long) /\ Len(long) \in 0..Len(f.dir)
    BY <1>1, <1>2, <1>3, LenProperties
  <2>2. \A i \in 1..Len(long) : SubSeq(long, 1, Len(long))[i] = long[i]
    BY <1>2, <2>1, Beginning
  <2>3. \A i \in 1..Len(long) : SubSeq(f.dir, 1, Len(long))[i] = f.dir[i]
    BY <2>1, Beginning
  <2>4. \A i \in 1..Len(path) : i \in 1..Len(long)
    BY <1>1, <1>2
  <2>5. QED
    BY <1>2, <1>3, <2>2, <2>3, <2>4
<1>5. ASSUME NEW n \in 0..Len(path)
      PROVE  /\ Man!Normal(SubSeq(path, 1, n)) = SubSeq(path, 1, n)
             /\ Man!IsPrefix(SubSeq(path, 1, n), f.dir)
  <2> DEFINE b == SubSeq(path, 1, n)
             c == SubSeq(f.dir, 1, n)
  <2>1. Man!Normal(b) = b
    BY BeginningIsShort, ShortIsNormal
  <2>2. n \in Nat /\ n \in 0..Len(f.dir) /\ \A i \in 1..n : i \in 1..Len(path)
    <3>1. Len(f.dir) \in Nat
      BY LenProperties
    <3>2. QED
      BY <1>1, <1>2, <1>3, <3>1
  <2>3. b \in Seq(STRING) /\ Len(b) = n /\ \A i \in 1..n : b[i] = path[i]
    BY <1>1, Beginning
  <2>4. c \in Seq(STRING) /\ Len(c) = n /\ \A i \in 1..n : c[i] = f.dir[i]
    BY <2>2, Beginning
  <2> HIDE DEF b, c
  <2>5. DOMAIN b = 1..n /\ DOMAIN c = 1..n /\ b = [i \in 1..n |-> b[i]] /\ c = [i \in 1..n |-> c[i]]
    BY <2>3, <2>4, LenProperties
  <2>6. \A i \in 1..n : b[i] = c[i]
    BY <1>4, <2>2, <2>3, <2>4
  <2>7. b = c
    BY <2>5, <2>6
  <2>8. SubSeq(b, 1, Len(b)) = c
    BY <2>3, <2>7, SubSeqFull
  <2>9. Len(b) <= Len(f.dir) /\ SubSeq(f.dir, 1, Len(b)) = c
    BY <2>2, <2>3 DEF c
  <2>10. QED
    BY <2>1, <2>8, <2>9 DEF Man!IsPrefix, b
<1>6. QED
  BY <1>5 DEF Man!Reaches

(* A library that has a source is there, and has it in the distribution.   *)
LEMMA DistributionHasLibraries ==
  ASSUME NEW p \in FinitePackages, NEW dir, NEW any,
         dir.files \subseteq [dir : Seq(STRING), source : BOOLEAN],
         \A i \in DOMAIN p.libraries :
            /\ Man!SourcesOf(dir, p.libraries[i]) # {}
            /\ Man!SourcesOf(dir, p.libraries[i]) \subseteq any.files
            /\ Man!SourcesOf(any, Man!WithNormalPath(p.libraries[i])) =
                  Man!SourcesOf(dir, p.libraries[i]),
         \A i, j \in DOMAIN p.libraries :
            i # j => Man!SourcesOf(dir, p.libraries[i]) \cap Man!SourcesOf(dir, p.libraries[j]) = {}
  PROVE  Man!Exports(any, ShortenedList(p.libraries))
<1> DEFINE libs == p.libraries
           short == ShortenedList(libs)
<1>1. /\ DOMAIN short = DOMAIN libs
      /\ \A i \in DOMAIN libs : short[i] = Man!WithNormalPath(libs[i]) /\ libs[i] \in FiniteLibraries
  BY PackageIsOf DEF ShortenedList
<1> HIDE DEF short
<1>2. ASSUME NEW i \in DOMAIN short PROVE Man!Reaches(any, short[i].path)
  <2>1. i \in DOMAIN libs /\ libs[i] \in FiniteLibraries
    BY <1>1, <1>2
  <2> DEFINE path == Man!Normal(libs[i].path)
  <2>2. short[i].path = path /\ IsShort(path)
    BY <1>1, <2>1, ShortenedIs, LibraryIsOf, NormalIsShort
  <2>3. PICK f : f \in Man!SourcesOf(dir, libs[i])
    BY <2>1
  <2>4. f \in dir.files /\ \E root \in {"include", "src"} : Man!IsPrefix(Append(path, root), f.dir)
    BY <2>3 DEF Man!SourcesOf
  <2> HIDE DEF path
  <2>5. f \in any.files /\ f.dir \in Seq(STRING)
    BY <2>1, <2>3, <2>4
  <2>6. QED
    BY <2>2, <2>4, <2>5, SourcesAreReached
<1>3. ASSUME NEW i \in DOMAIN short, NEW j \in DOMAIN short, i # j
      PROVE  Man!SourcesOf(any, short[i]) \cap Man!SourcesOf(any, short[j]) = {}
  BY <1>1, <1>3
<1>4. Man!Exports(any, short)
  BY <1>2, <1>3 DEF Man!Exports
<1>5. QED
  BY <1>4 DEF short

(* What is made of a package is read as that package, and made again of it *)
(* is the same.                                                            *)
LEMMA DistributionIsReadBack ==
  ASSUME NEW p \in FinitePackages, ~Man!Implicit(p), NEW dir, NEW sdist,
         dir.files \subseteq [dir : Seq(STRING), source : BOOLEAN],
         sdist = Man!Distribution(dir, p), sdist # Refused
  PROVE  Man!IsReadBack(dir, p, sdist)
<1> DEFINE libs == p.libraries
           json == Man!ToJson(p)
           q == Man!WithNormalPaths(p)
           short == ShortenedList(libs)
<1>1. Man!Exports(dir, libs)
  BY DEF Man!Distribution
<1>2. /\ sdist.pkg_json = <<json>>
      /\ sdist.files = FilesOf(dir, libs)
  BY <1>1 DEF Man!Distribution, FilesOf
<1>3. Man!FromDirectory(sdist) = IF Man!Writable(libs) THEN q ELSE Refused
  <2>1. <<json>> # << >> /\ <<json>>[1] = json
    OBVIOUS
  <2> HIDE DEF json
  <2>2. Man!FromDirectory(sdist) = Man!ReadPackage(json)
    BY <1>2, <2>1 DEF Man!FromDirectory
  <2>3. QED
    BY <2>2, PackageIsRead DEF json
<1>4. \A i \in DOMAIN libs :
         /\ Man!SourcesOf(sdist, libs[i]) = Man!SourcesOf(dir, libs[i])
         /\ Man!SourcesOf(sdist, Man!WithNormalPath(libs[i])) = Man!SourcesOf(dir, libs[i])
         /\ Man!SourcesOf(dir, Man!WithNormalPath(libs[i])) = Man!SourcesOf(dir, libs[i])
         /\ Man!SourcesOf(dir, libs[i]) \subseteq sdist.files
         /\ Man!SourcesOf(dir, libs[i]) \subseteq dir.files
  <2>1. \A i \in DOMAIN libs :
           /\ Man!SourcesOf(sdist, libs[i]) = Man!SourcesOf(dir, libs[i])
           /\ Man!SourcesOf(sdist, Man!WithNormalPath(libs[i])) = Man!SourcesOf(dir, libs[i])
           /\ Man!SourcesOf(dir, Man!WithNormalPath(libs[i])) = Man!SourcesOf(dir, libs[i])
    BY <1>2, SameSources
  <2>2. \A i \in DOMAIN libs : Man!SourcesOf(dir, libs[i]) \subseteq sdist.files
    BY <1>2 DEF Man!ToSet, FilesOf
  <2>3. \A l : Man!SourcesOf(dir, l) \subseteq dir.files
    BY DEF Man!SourcesOf
  <2>4. QED
    BY <2>1, <2>2, <2>3
<1>5. \A lib \in Man!ToSet(libs) : Man!SourcesOf(sdist, lib) = Man!SourcesOf(dir, lib)
  BY <1>4 DEF Man!ToSet
<1>6. ASSUME Man!Writable(libs), \A lib \in Man!ToSet(libs) : Man!SourcesOf(dir, lib) # {}
      PROVE  Man!SdistDirectory(sdist) = Man!Distribution(dir, q)
  <2>1. Man!SdistDirectory(sdist) = Man!Distribution(sdist, q)
    BY <1>3, <1>6 DEF Man!SdistDirectory
  <2>2. q.libraries = short
    BY WithNormalPathsIs
  <2>3. \A i \in DOMAIN libs : Man!SourcesOf(dir, libs[i]) # {}
    BY <1>6 DEF Man!ToSet
  <2>4. \A i, j \in DOMAIN libs :
           i # j => Man!SourcesOf(dir, libs[i]) \cap Man!SourcesOf(dir, libs[j]) = {}
    BY <1>1 DEF Man!Exports
  <2>5. Man!Exports(sdist, short)
    BY <1>4, <2>3, <2>4, DistributionHasLibraries
  <2>6. Man!Exports(dir, short)
    BY <1>4, <2>3, <2>4, DistributionHasLibraries
  <2>7. /\ DOMAIN short = DOMAIN libs
        /\ \A i \in DOMAIN libs : short[i] = Man!WithNormalPath(libs[i])
    BY DEF ShortenedList
  <2> HIDE DEF short, q, libs
  <2>8. {Man!SourcesOf(sdist, lib) : lib \in Man!ToSet(short)} =
        {Man!SourcesOf(dir, lib) : lib \in Man!ToSet(short)}
    <3>1. \A lib \in Man!ToSet(short) : Man!SourcesOf(sdist, lib) = Man!SourcesOf(dir, lib)
      BY <1>4, <2>7 DEF Man!ToSet
    <3>2. QED
      BY <3>1
  <2>9. Man!Distribution(sdist, q) = Man!Distribution(dir, q)
    BY <2>2, <2>5, <2>6, <2>8 DEF Man!Distribution
  <2>10. QED
    BY <2>1, <2>9
<1> HIDE DEF q, libs
<1>7. QED
  BY <1>3, <1>5, <1>6 DEF Man!IsReadBack, libs, q

(* What is read of a dependency.                                           *)
LEMMA BetweenIsFinite ==
  ASSUME NEW low \in Nat, NEW high \in Int
  PROVE  Man!Between(low, high) \in SUBSET Nat /\ IsFiniteSet(Man!Between(low, high))
<1>1. high - 1 \in Int /\ low \in Int
  OBVIOUS
<1>2. IsFiniteSet(low..(high - 1))
  BY <1>1, FS_Interval
<1>3. QED
  BY <1>2 DEF Man!Between

LEMMA AcceptedIsFinite ==
  ASSUME NEW op \in {"=", "~", "@", "^", "+"}, NEW v \in Nat
  PROVE  Man!Accepted(op, v) \in SUBSET Nat /\ IsFiniteSet(Man!Accepted(op, v))
<1>1. Man!NextMinor(v) \in Int /\ Man!NextMajor(v) \in Int /\ Man!MaxVersion \in Int
  BY DEF Man!NextMinor, Man!NextMajor, Man!MaxVersion
<1>2. {v} \in SUBSET Nat /\ IsFiniteSet({v})
  BY FS_Singleton
<1> DEFINE A == Man!Between(v, Man!NextMinor(v))
           B == Man!Between(v, Man!NextMajor(v))
           C == Man!Between(v, Man!MaxVersion)
<1>3. Man!Accepted(op, v) \in {{v}, A, B, C}
  BY DEF Man!Accepted
<1>4. /\ A \in SUBSET Nat /\ IsFiniteSet(A) /\ B \in SUBSET Nat /\ IsFiniteSet(B)
      /\ C \in SUBSET Nat /\ IsFiniteSet(C)
  BY <1>1, BetweenIsFinite
<1> HIDE DEF A, B, C
<1>5. QED
  BY <1>2, <1>3, <1>4

LEMMA UnionIsFinite ==
  ASSUME NEW ranges \in Seq(Man!VersionRange)
  PROVE  Man!UnionOf(ranges) \in SUBSET Nat /\ IsFiniteSet(Man!UnionOf(ranges))
<1>1. /\ Len(ranges) \in Nat /\ DOMAIN ranges = 1..Len(ranges)
      /\ \A i \in DOMAIN ranges : ranges[i].low \in Nat /\ ranges[i].high \in Nat
  <2>1. Len(ranges) \in Nat /\ DOMAIN ranges = 1..Len(ranges)
    BY LenProperties
  <2>2. \A i \in DOMAIN ranges : ranges[i] \in Man!VersionRange
    BY <2>1, ElementOfSeq
  <2>3. QED
    BY <2>1, <2>2 DEF Man!VersionRange
<1> DEFINE Under(n, m) == \A i \in 1..n : ranges[i].high <= m
           T == {n \in 0..Len(ranges) : \E m \in Nat : Under(n, m)}
<1>2. 0 \in T
  <2>1. Under(0, 0)
    OBVIOUS
  <2> HIDE DEF Under
  <2>2. QED
    BY <1>1, <2>1
<1>3. ASSUME NEW n \in 1..Len(ranges), n - 1 \in T PROVE n \in T
  <2>1. PICK m \in Nat : Under(n - 1, m)
    BY <1>3
  <2>2. n \in 0..Len(ranges) /\ ranges[n].high \in Nat /\ m + ranges[n].high \in Nat
    BY <1>1
  <2>3. ASSUME NEW i \in 1..n PROVE ranges[i].high <= m + ranges[n].high
    <3>1. ranges[i].high \in Nat
      BY <1>1
    <3>2. CASE i = n
      BY <2>2, <3>2
    <3>3. CASE i # n
      <4>1. i \in 1..(n - 1)
        BY <3>3
      <4>2. QED
        BY <2>1, <2>2, <3>1, <4>1
    <3>4. QED
      BY <3>2, <3>3
  <2>4. Under(n, m + ranges[n].high)
    BY <2>3
  <2> HIDE DEF Under
  <2>5. QED
    BY <2>2, <2>4
<1>4. PICK m \in Nat : Under(Len(ranges), m)
  <2> HIDE DEF T
  <2>1. \A n \in 0..Len(ranges) : n \in T
    BY <1>1, <1>2, <1>3, Upward
  <2>2. Len(ranges) \in T
    BY <1>1, <2>1
  <2>3. QED
    BY <2>2 DEF T
<1>5. Man!UnionOf(ranges) \in SUBSET Nat
  BY <1>1 DEF Man!UnionOf, Man!Between
<1>6. ASSUME NEW v \in Man!UnionOf(ranges) PROVE v <= m
  <2>1. PICK i \in DOMAIN ranges : v \in Man!Between(ranges[i].low, ranges[i].high)
    BY DEF Man!UnionOf
  <2>2. ranges[i].low \in Nat /\ ranges[i].high \in Nat /\ ranges[i].high <= m
    BY <1>1, <1>4
  <2>3. QED
    BY <2>1, <2>2 DEF Man!Between
<1>7. QED
  BY <1>5, <1>6, FS_BoundedSetOfNaturals

LEMMA FiniteDependencyIs ==
  ASSUME NEW n \in Man!Names, NEW v \in SUBSET Nat, IsFiniteSet(v), NEW u \in {All} \cup SUBSET STRING
  PROVE  DependencyOf(n, v, u) \in FiniteDependencies
  BY DEF DependencyOf, FiniteDependencies, Man!DependencyInfo

LEMMA ShorthandIsRead ==
  ASSUME NEW word \in Man!ShorthandWord, Man!RangeShorthand(word) # Refused
  PROVE  /\ Man!RangeShorthand(word) = DependencyOf(word.name, Man!Accepted(word.op, word.version), All)
         /\ word.name \in Man!Names
         /\ Man!Accepted(word.op, word.version) \in SUBSET Nat
         /\ IsFiniteSet(Man!Accepted(word.op, word.version))
<1>1. word.op # "" /\ word.name \in Man!Names
  BY DEF Man!RangeShorthand
<1>2. word.op \in {"=", "~", "@", "^", "+"} /\ word.version \in Nat
  BY <1>1 DEF Man!ShorthandWord
<1>3. QED
  BY <1>1, <1>2, AcceptedIsFinite DEF Man!RangeShorthand, DependencyOf

(* A dependency with what is used of it. *)
LEMMA UsesAreChanged ==
  ASSUME NEW n, NEW v, NEW u, NEW w
  PROVE  [DependencyOf(n, v, u) EXCEPT !.uses = w] = DependencyOf(n, v, w)
  BY DEF DependencyOf

LEMMA ProjectDependencyIsRead ==
  ASSUME NEW doc \in Man!DependencyDoc
  PROVE  Man!ProjectDependency(doc) \in FiniteDependencies \cup {Refused}
<1>1. CASE doc.words \in Seq(Man!ShorthandWord)
  <2> DEFINE words == doc.words
             dep == Man!RangeShorthand(words[1])
             listed == SubSeq(words, 3, Len(words))
             used == {listed[i].name : i \in {j \in DOMAIN listed : j % 2 = 1}}
  <2>1. Man!ProjectDependency(doc) = Man!FromShorthand(words)
    BY <1>1, NotGivenIsNoText DEF Man!ProjectDependency
  <2>2. CASE words = << >> \/ dep = Refused
    BY <2>1, <2>2 DEF Man!FromShorthand
  <2>3. CASE words # << >> /\ dep # Refused
    <3>1. words[1] \in Man!ShorthandWord
      BY <1>1, <2>3, EmptySeq, ElementOfSeq
    <3> DEFINE n == words[1].name
               v == Man!Accepted(words[1].op, words[1].version)
    <3>2. dep = DependencyOf(n, v, All) /\ n \in Man!Names /\ v \in SUBSET Nat /\ IsFiniteSet(v)
      BY <2>3, <3>1, ShorthandIsRead
    <3>3. used \in SUBSET STRING
      <4>1. listed \in Seq(Man!ShorthandWord)
        BY <1>1
      <4> HIDE DEF listed
      <4>2. \A i \in DOMAIN listed : listed[i] \in Man!ShorthandWord
        BY <4>1, ElementOfSeq, LenProperties
      <4>3. \A i \in DOMAIN listed : listed[i].name \in STRING
        BY <4>2 DEF Man!ShorthandWord
      <4>4. QED
        BY <4>3
    <3> HIDE DEF n, v
    <3>4. Man!FromShorthand(words) \in {Refused, dep, [dep EXCEPT !.uses = used]}
      <4> HIDE DEF words
      <4>1. QED
        BY <2>3 DEF Man!FromShorthand
    <3> HIDE DEF dep, used
    <3>5. dep \in FiniteDependencies
      BY <3>2, FiniteDependencyIs
    <3>6. DependencyOf(n, v, used) \in FiniteDependencies
      BY <3>2, <3>3, FiniteDependencyIs
    <3>7. [dep EXCEPT !.uses = used] = DependencyOf(n, v, used)
      BY <3>2, UsesAreChanged
    <3>8. QED
      BY <2>1, <3>4, <3>5, <3>6, <3>7
  <2>4. QED
    BY <2>2, <2>3
<1>2. CASE ~(doc.words \in Seq(Man!ShorthandWord))
  <2>1. doc \in [words : {NotGiven}, dep : Man!ShorthandWord,
                 versions : {NotGiven} \cup Seq(Man!VersionRange), using : Seq(STRING)]
    BY <1>2 DEF Man!DependencyDoc
  <2>2. /\ doc.words = NotGiven /\ doc.dep \in Man!ShorthandWord /\ doc.using \in Seq(STRING)
        /\ doc.versions # NotGiven => doc.versions \in Seq(Man!VersionRange)
    BY <2>1
  <2> DEFINE listed == [name |-> doc.dep.name, versions |-> Man!UnionOf(doc.versions), uses |-> All]
             known == IF doc.versions = NotGiven THEN Man!RangeShorthand(doc.dep)
                      ELSE IF doc.dep.op # "" \/ doc.dep.name \notin Man!Names \/ Man!Unordered(doc.versions)
                      THEN Refused ELSE listed
             used == Man!ToSet(doc.using)
  <2>3. Man!ProjectDependency(doc) = IF known = Refused \/ ~(used \subseteq Man!Names) THEN Refused
                                     ELSE IF doc.using = << >> THEN known
                                     ELSE [known EXCEPT !.uses = used]
    BY <2>2 DEF Man!ProjectDependency, Man!FromObject
  <2>4. used \in SUBSET STRING
    <3>1. \A i \in DOMAIN doc.using : doc.using[i] \in STRING
      BY <2>2, ElementOfSeq, LenProperties
    <3>2. QED
      BY <3>1 DEF Man!ToSet
  <2>5. ASSUME known # Refused
        PROVE  \E n \in Man!Names : \E v \in SUBSET Nat : IsFiniteSet(v) /\ known = DependencyOf(n, v, All)
    <3>1. CASE doc.versions = NotGiven
      <4>1. known = Man!RangeShorthand(doc.dep)
        BY <3>1
      <4> HIDE DEF known
      <4>2. QED
        BY <2>2, <2>5, <4>1, ShorthandIsRead
    <3>2. CASE doc.versions # NotGiven
      <4>1. known = DependencyOf(doc.dep.name, Man!UnionOf(doc.versions), All) /\ doc.dep.name \in Man!Names
        BY <2>5, <3>2 DEF DependencyOf
      <4>2. Man!UnionOf(doc.versions) \in SUBSET Nat /\ IsFiniteSet(Man!UnionOf(doc.versions))
        BY <2>2, <3>2, UnionIsFinite
      <4> HIDE DEF known
      <4>3. QED
        BY <4>1, <4>2
    <3>3. QED
      BY <3>1, <3>2
  <2> HIDE DEF known, used
  <2>6. CASE known = Refused
    BY <2>3, <2>6
  <2>7. CASE known # Refused
    <3>1. PICK n \in Man!Names, v \in SUBSET Nat : IsFiniteSet(v) /\ known = DependencyOf(n, v, All)
      BY <2>5, <2>7
    <3>2. known \in FiniteDependencies /\ DependencyOf(n, v, used) \in FiniteDependencies
      BY <2>4, <3>1, FiniteDependencyIs
    <3>3. [known EXCEPT !.uses = used] = DependencyOf(n, v, used)
      BY <3>1, UsesAreChanged
    <3>4. QED
      BY <2>3, <3>2, <3>3
  <2>8. QED
    BY <2>6, <2>7
<1>3. QED
  BY <1>1, <1>2

(* Of a list, all elements are there, or it is refused.                    *)
LEMMA AllOrNone ==
  ASSUME NEW X, NEW list \in Seq(X \cup {Refused})
  PROVE  Man!AllOf(list) = Refused \/ (Man!AllOf(list) = list /\ list \in Seq(X))
<1>1. CASE Refused \in Man!ToSet(list)
  BY <1>1 DEF Man!AllOf
<1>2. CASE Refused \notin Man!ToSet(list)
  <2>1. Len(list) \in Nat /\ DOMAIN list = 1..Len(list) /\ list = [i \in 1..Len(list) |-> list[i]]
    BY LenProperties
  <2>2. \A i \in 1..Len(list) : list[i] \in X
    <3>1. \A i \in 1..Len(list) : list[i] \in X \cup {Refused}
      BY <2>1, ElementOfSeq
    <3>2. QED
      BY <1>2, <2>1, <3>1 DEF Man!ToSet
  <2>3. list \in [1..Len(list) -> X]
    BY <2>1, <2>2
  <2>4. list \in Seq(X)
    BY <2>1, <2>3
  <2>5. QED
    BY <1>2, <2>4 DEF Man!AllOf
<1>3. QED
  BY <1>1, <1>2

(* A list of what is read of each element of a list. *)
LEMMA EachIsRead ==
  ASSUME NEW D, NEW X, NEW docs \in Seq(D), NEW read, DOMAIN read = DOMAIN docs,
         read = [i \in DOMAIN docs |-> read[i]],
         \A i \in DOMAIN docs : read[i] \in X
  PROVE  read \in Seq(X) /\ Len(read) = Len(docs)
<1>1. Len(docs) \in Nat /\ DOMAIN docs = 1..Len(docs)
  BY LenProperties
<1>2. read \in [1..Len(docs) -> X]
  BY <1>1
<1>3. QED
  BY <1>1, <1>2

LEMMA ProjectDependenciesAreRead ==
  ASSUME NEW docs \in Seq(Man!DependencyDoc)
  PROVE  Man!ProjectDependencies(docs) \in Seq(FiniteDependencies) \cup {Refused}
<1> DEFINE read == [i \in DOMAIN docs |-> Man!ProjectDependency(docs[i])]
<1>1. \A i \in DOMAIN docs : docs[i] \in Man!DependencyDoc
  BY ElementOfSeq, LenProperties
<1>2. \A i \in DOMAIN docs : read[i] \in FiniteDependencies \cup {Refused}
  BY <1>1, ProjectDependencyIsRead
<1>3. DOMAIN read = DOMAIN docs /\ read = [i \in DOMAIN docs |-> read[i]]
  OBVIOUS
<1>4. Man!ProjectDependencies(docs) = Man!AllOf(read)
  BY DEF Man!ProjectDependencies
<1> HIDE DEF read
<1>5. read \in Seq(FiniteDependencies \cup {Refused})
  BY <1>2, <1>3, EachIsRead
<1>6. QED
  BY <1>4, <1>5, AllOrNone

LEMMA LibraryIsFinite ==
  ASSUME NEW n \in Man!Names, NEW p \in Seq(STRING), NEW u \in SUBSET Man!Names,
         NEW t \in SUBSET Man!Names, NEW d \in Seq(FiniteDependencies), NEW e \in Seq(FiniteDependencies)
  PROVE  LibraryOf(n, p, u, t, d, e) \in FiniteLibraries
<1>1. d \in Seq(Man!DependencyInfo) /\ e \in Seq(Man!DependencyInfo)
  <2>1. FiniteDependencies \subseteq Man!DependencyInfo
    BY DEF FiniteDependencies
  <2>2. QED
    BY <2>1
<1>2. QED
  BY <1>1 DEF LibraryOf, FiniteLibraries, Man!LibraryInfo

(* A library with the dependencies that are read of it. *)
LEMMA WithDependenciesIs ==
  ASSUME NEW n \in Man!Names, NEW p \in Seq(STRING), NEW u \in SUBSET Man!Names,
         NEW t \in SUBSET Man!Names, NEW d, NEW e,
         NEW x \in Seq(FiniteDependencies) \cup {Refused},
         NEW y \in Seq(FiniteDependencies) \cup {Refused}
  PROVE  Man!WithDependencies(LibraryOf(n, p, u, t, d, e), x, y) \in FiniteLibraries \cup {Refused}
<1>1. CASE x = Refused \/ y = Refused
  BY <1>1 DEF Man!WithDependencies
<1>2. CASE x # Refused /\ y # Refused
  <2> DEFINE l == LibraryOf(n, p, u, t, d, e)
  <2>1. \A r : Man!WithDependencies(r, x, y) = WithBoth(r, x, y)
    BY <1>2 DEF Man!WithDependencies, WithBoth
  <2>2. WithBoth(l, x, y) = LibraryOf(n, p, u, t, x, y)
    BY BothAreChanged
  <2> HIDE DEF l
  <2>3. Man!WithDependencies(l, x, y) = LibraryOf(n, p, u, t, x, y)
    BY <2>1, <2>2
  <2>4. QED
    BY <1>2, <2>3, LibraryIsFinite DEF l
<1>3. QED
  BY <1>1, <1>2

LEMMA ProjectLibraryIsRead ==
  ASSUME NEW doc \in Man!LibraryDoc
  PROVE  Man!ProjectLibrary(doc) \in FiniteLibraries \cup {Refused}
<1>1. /\ doc = LibraryOf(doc.name, doc.path, doc.using, doc.test_using, doc.dependencies,
                         doc.test_dependencies)
      /\ doc.path # NotGiven => doc.path \in Seq(STRING)
      /\ doc.dependencies \in Seq(Man!DependencyDoc) /\ doc.test_dependencies \in Seq(Man!DependencyDoc)
  BY DEF Man!LibraryDoc, LibraryOf
<1>2. CASE doc.path = NotGiven \/ ~({doc.name} \cup doc.using \cup doc.test_using \subseteq Man!Names)
  BY <1>2 DEF Man!ProjectLibrary
<1>3. CASE doc.path # NotGiven /\ {doc.name} \cup doc.using \cup doc.test_using \subseteq Man!Names
  <2> DEFINE x == Man!ProjectDependencies(doc.dependencies)
             y == Man!ProjectDependencies(doc.test_dependencies)
  <2>1. x \in Seq(FiniteDependencies) \cup {Refused} /\ y \in Seq(FiniteDependencies) \cup {Refused}
    BY <1>1, ProjectDependenciesAreRead
  <2>2. /\ doc.name \in Man!Names /\ doc.using \in SUBSET Man!Names
        /\ doc.test_using \in SUBSET Man!Names /\ doc.path \in Seq(STRING)
    BY <1>1, <1>3
  <2>3. Man!ProjectLibrary(doc) = Man!WithDependencies(doc, x, y)
    BY <1>3 DEF Man!ProjectLibrary
  <2> HIDE DEF x, y
  <2>4. Man!WithDependencies(LibraryOf(doc.name, doc.path, doc.using, doc.test_using, doc.dependencies,
                                       doc.test_dependencies), x, y) \in FiniteLibraries \cup {Refused}
    BY <2>1, <2>2, WithDependenciesIs
  <2>5. QED
    BY <1>1, <2>3, <2>4
<1>4. QED
  BY <1>2, <1>3

LEMMA RootLibraryIsRead ==
  ASSUME NEW doc \in Man!LibraryDoc
  PROVE  Man!RootLibrary(doc) \in FiniteLibraries \cup {Refused}
<1> DEFINE placed == [doc EXCEPT !.path = << >>]
           here == LibraryOf(doc.name, << >>, doc.using, doc.test_using, doc.dependencies,
                             doc.test_dependencies)
<1>1. /\ doc = LibraryOf(doc.name, doc.path, doc.using, doc.test_using, doc.dependencies,
                         doc.test_dependencies)
      /\ doc.name \in STRING /\ doc.using \in SUBSET STRING /\ doc.test_using \in SUBSET STRING
      /\ doc.dependencies \in Seq(Man!DependencyDoc) /\ doc.test_dependencies \in Seq(Man!DependencyDoc)
  BY DEF Man!LibraryDoc, LibraryOf
<1>2. \A n, p, u, t, d, e : [LibraryOf(n, p, u, t, d, e) EXCEPT !.path = << >>] =
                               LibraryOf(n, << >>, u, t, d, e)
  BY DEF LibraryOf
<1>3. placed = here
  BY <1>1, <1>2
<1>4. \A n \in STRING : \A u, t \in SUBSET STRING : \A d, e \in Seq(Man!DependencyDoc) :
         LibraryOf(n, << >>, u, t, d, e) \in Man!LibraryDoc
  <2>1. << >> \in Seq(STRING)
    OBVIOUS
  <2>2. QED
    BY <2>1 DEF LibraryOf, Man!LibraryDoc
<1> HIDE DEF placed, here
<1>5. here \in Man!LibraryDoc
  BY <1>1, <1>4 DEF here
<1>6. Man!ProjectLibrary(placed) \in FiniteLibraries \cup {Refused}
  BY <1>3, <1>5, ProjectLibraryIsRead
<1>7. QED
  BY <1>6 DEF Man!RootLibrary, placed

(* Two lists, one after the other. *)
LEMMA BothAreLists ==
  ASSUME NEW X, NEW s \in Seq(X), NEW t \in Seq(X)
  PROVE  s \o t \in Seq(X)
  BY ConcatProperties

(* A project, and what is read of it.                                      *)
ProjectOf(n, v, m, l, d, e) ==
  [name |-> n, version |-> v, meta |-> m, libraries |-> l, dependencies |-> d,
   test_dependencies |-> e]

LEMMA ProjectIsChanged ==
  ASSUME NEW n, NEW v, NEW m, NEW l, NEW d, NEW e, NEW x, NEW y
  PROVE  WithBoth(ProjectOf(n, v, m, l, d, e), x, y) = ProjectOf(n, v, m, l, x, y)
<1>1. [ProjectOf(n, v, m, l, d, e) EXCEPT !.dependencies = x] = ProjectOf(n, v, m, l, x, e)
  BY DEF ProjectOf
<1>2. [ProjectOf(n, v, m, l, x, e) EXCEPT !.test_dependencies = y] = ProjectOf(n, v, m, l, x, y)
  BY DEF ProjectOf
<1>3. QED
  BY <1>1, <1>2 DEF WithBoth

LEMMA ProjectLibrariesAreRead ==
  ASSUME NEW root \in Seq(Man!LibraryDoc), NEW docs \in Seq(Man!LibraryDoc)
  PROVE  Man!AllOf([i \in DOMAIN root |-> Man!RootLibrary(root[i])]
                   \o [i \in DOMAIN docs |-> Man!ProjectLibrary(docs[i])])
            \in Seq(FiniteLibraries) \cup {Refused}
<1> DEFINE r == [i \in DOMAIN root |-> Man!RootLibrary(root[i])]
           l == [i \in DOMAIN docs |-> Man!ProjectLibrary(docs[i])]
           X == FiniteLibraries \cup {Refused}
<1>1. /\ \A i \in DOMAIN root : root[i] \in Man!LibraryDoc
      /\ \A i \in DOMAIN docs : docs[i] \in Man!LibraryDoc
  BY ElementOfSeq, LenProperties
<1>2. \A i \in DOMAIN root : r[i] \in X
  BY <1>1, RootLibraryIsRead
<1>3. \A i \in DOMAIN docs : l[i] \in X
  BY <1>1, ProjectLibraryIsRead
<1>4. /\ DOMAIN r = DOMAIN root /\ r = [i \in DOMAIN root |-> r[i]]
      /\ DOMAIN l = DOMAIN docs /\ l = [i \in DOMAIN docs |-> l[i]]
  OBVIOUS
<1> HIDE DEF r, l, X
<1>5. r \in Seq(X)
  BY <1>2, <1>4, EachIsRead
<1>6. l \in Seq(X)
  BY <1>3, <1>4, EachIsRead
<1>7. r \o l \in Seq(X)
  BY <1>5, <1>6, BothAreLists
<1> DEFINE b == r \o l
<1> HIDE DEF b
<1>8. b \in Seq(FiniteLibraries \cup {Refused})
  BY <1>7 DEF b, X
<1>9. Man!AllOf(b) \in Seq(FiniteLibraries) \cup {Refused}
  BY <1>8, AllOrNone
<1>10. QED
  BY <1>9 DEF b, r, l

LEMMA ProjectIsRead ==
  ASSUME NEW doc \in Man!ManifestDoc, Man!Project(doc) # Refused
  PROVE  \E libs \in Seq(FiniteLibraries) : \E d, e \in Seq(FiniteDependencies) :
            /\ Man!Project(doc) = ProjectOf(doc.name, doc.version, doc.meta, libs, d, e)
            /\ doc.name \in Man!Names
<1> DEFINE libs == Man!AllOf([i \in DOMAIN doc.lib |-> Man!RootLibrary(doc.lib[i])]
                             \o [i \in DOMAIN doc.libs |-> Man!ProjectLibrary(doc.libs[i])])
           d == Man!ProjectDependencies(doc.dependencies)
           e == Man!ProjectDependencies(doc.test_dependencies)
           bare == ProjectOf(doc.name, doc.version, doc.meta, libs, << >>, << >>)
           whole == ProjectOf(doc.name, doc.version, doc.meta, libs, d, e)
           read == Man!WithDependencies(bare, d, e)
<1>1. /\ doc.lib \in Seq(Man!LibraryDoc) /\ doc.libs \in Seq(Man!LibraryDoc)
      /\ doc.dependencies \in Seq(Man!DependencyDoc) /\ doc.test_dependencies \in Seq(Man!DependencyDoc)
  BY DEF Man!ManifestDoc
<1>2. libs \in Seq(FiniteLibraries) \cup {Refused}
  BY <1>1, ProjectLibrariesAreRead
<1>3. d \in Seq(FiniteDependencies) \cup {Refused} /\ e \in Seq(FiniteDependencies) \cup {Refused}
  BY <1>1, ProjectDependenciesAreRead
<1>4. doc.name \in Man!Names /\ Man!Project(doc) = Man!Validated(read)
  BY DEF Man!Project, ProjectOf
<1> HIDE DEF libs, d, e
<1>5. d = Refused \/ e = Refused => read = Refused
  BY DEF Man!WithDependencies
<1>6. d # Refused /\ e # Refused => read = whole
  <2>1. WithBoth(bare, d, e) = whole
    BY ProjectIsChanged
  <2>2. \A r : d # Refused /\ e # Refused => Man!WithDependencies(r, d, e) = WithBoth(r, d, e)
    BY DEF Man!WithDependencies, WithBoth
  <2> HIDE DEF bare, whole
  <2>3. QED
    BY <2>1, <2>2
<1>7. whole.libraries = libs
  BY DEF ProjectOf
<1> HIDE DEF read, whole
<1>8. read # Refused /\ read.libraries # Refused /\ Man!Validated(read) = read
  BY <1>4 DEF Man!Validated
<1>9. /\ d \in Seq(FiniteDependencies) /\ e \in Seq(FiniteDependencies) /\ libs \in Seq(FiniteLibraries)
      /\ Man!Project(doc) = whole
  BY <1>2, <1>3, <1>4, <1>5, <1>6, <1>7, <1>8
<1>10. QED
  BY <1>4, <1>9 DEF whole

(* The dependencies of the project are added to those of each library. *)
WithAdded(l, d, e) == [l EXCEPT !.dependencies = @ \o d, !.test_dependencies = @ \o e]

LEMMA AddedAreDependencies ==
  ASSUME NEW l \in FiniteLibraries, NEW d \in Seq(FiniteDependencies), NEW e \in Seq(FiniteDependencies)
  PROVE  WithAdded(l, d, e) \in FiniteLibraries
<1> DEFINE x == l.dependencies \o d
           y == l.test_dependencies \o e
<1>1. /\ l = LibraryOf(l.name, l.path, l.using, l.test_using, l.dependencies, l.test_dependencies)
      /\ l.name \in Man!Names /\ l.path \in Seq(STRING)
      /\ l.using \in SUBSET Man!Names /\ l.test_using \in SUBSET Man!Names
      /\ l.dependencies \in Seq(FiniteDependencies) /\ l.test_dependencies \in Seq(FiniteDependencies)
  BY LibraryIsOf
<1>2. x \in Seq(FiniteDependencies) /\ y \in Seq(FiniteDependencies)
  BY <1>1, BothAreLists
<1>3. WithAdded(l, d, e) = WithBoth(l, x, y)
  BY DEF WithAdded, WithBoth
<1> HIDE DEF x, y
<1>4. WithBoth(LibraryOf(l.name, l.path, l.using, l.test_using, l.dependencies, l.test_dependencies),
               x, y) = LibraryOf(l.name, l.path, l.using, l.test_using, x, y)
  BY BothAreChanged
<1>5. LibraryOf(l.name, l.path, l.using, l.test_using, x, y) \in FiniteLibraries
  BY <1>1, <1>2, LibraryIsFinite
<1>6. QED
  BY <1>1, <1>3, <1>4, <1>5

LEMMA PackageIsFinite ==
  ASSUME NEW n \in Man!Names, NEW v \in Nat, NEW r \in Int, NEW m \in STRING,
         NEW libs \in Seq(FiniteLibraries), libs # << >>
  PROVE  [name |-> n, version |-> v, revision |-> r, meta |-> m, libraries |-> libs] \in FinitePackages
<1>1. libs \in Seq(Man!LibraryInfo)
  <2>1. FiniteLibraries \subseteq Man!LibraryInfo
    BY DEF FiniteLibraries
  <2>2. QED
    BY <2>1
<1>2. QED
  BY <1>1 DEF FinitePackages, Man!PackageInfo

LEMMA ProjectIsPackage ==
  ASSUME NEW n \in Man!Names, NEW v \in Nat, NEW m \in STRING, NEW libs \in Seq(FiniteLibraries),
         NEW d \in Seq(FiniteDependencies), NEW e \in Seq(FiniteDependencies)
  PROVE  Man!Package(ProjectOf(n, v, m, libs, d, e)) \in FinitePackages
<1> DEFINE whole == LibraryOf(n, << >>, {}, {}, << >>, << >>)
           own == IF libs = << >> THEN <<whole>> ELSE libs
           added == [i \in DOMAIN own |-> WithAdded(own[i], d, e)]
           project == ProjectOf(n, v, m, libs, d, e)
<1>1. whole \in FiniteLibraries
  <2>1. << >> \in Seq(STRING) /\ << >> \in Seq(FiniteDependencies)
    OBVIOUS
  <2>2. QED
    BY <2>1, LibraryIsFinite
<1>2. /\ project.name = n /\ project.version = v /\ project.meta = m /\ project.libraries = libs
      /\ project.dependencies = d /\ project.test_dependencies = e
  BY DEF ProjectOf
<1> HIDE DEF project
<1>3. Man!Package(project) =
         [name |-> n, version |-> v, revision |-> 1, meta |-> m, libraries |-> added]
  BY <1>2 DEF Man!Package, LibraryOf, WithAdded
<1> HIDE DEF whole
<1>4. own \in Seq(FiniteLibraries) /\ own # << >>
  BY <1>1
<1> HIDE DEF own
<1>5. \A i \in DOMAIN own : own[i] \in FiniteLibraries
  BY <1>4, ElementOfSeq, LenProperties
<1>6. \A i \in DOMAIN own : added[i] \in FiniteLibraries
  BY <1>5, AddedAreDependencies
<1>7. DOMAIN added = DOMAIN own /\ added = [i \in DOMAIN own |-> added[i]]
  OBVIOUS
<1> HIDE DEF added
<1>8. added \in Seq(FiniteLibraries) /\ Len(added) = Len(own)
  BY <1>4, <1>6, <1>7, EachIsRead
<1>9. added # << >>
  BY <1>4, <1>8, EmptySeq
<1>10. QED
  BY <1>3, <1>8, <1>9, PackageIsFinite DEF project

(* What is read of a pkg.json.                                             *)
LEMMA DependencyDataIsRead ==
  ASSUME NEW doc \in Man!DependencyData
  PROVE  Man!Dependency(doc) \in FiniteDependencies \cup {Refused}
<1>1. doc.versions \in Seq(Man!VersionRange) /\ doc.using \in SUBSET STRING
  BY DEF Man!DependencyData
<1>2. Man!UnionOf(doc.versions) \in SUBSET Nat /\ IsFiniteSet(Man!UnionOf(doc.versions))
  BY <1>1, UnionIsFinite
<1>3. CASE doc.name \in Man!Names
  <2>1. DependencyOf(doc.name, Man!UnionOf(doc.versions), doc.using) \in FiniteDependencies
    BY <1>1, <1>2, <1>3, FiniteDependencyIs
  <2>2. \/ Man!Dependency(doc) = Refused
        \/ Man!Dependency(doc) = DependencyOf(doc.name, Man!UnionOf(doc.versions), doc.using)
    BY DEF Man!Dependency, DependencyOf
  <2>3. QED
    BY <2>1, <2>2
<1>4. CASE doc.name \notin Man!Names
  BY <1>4 DEF Man!Dependency
<1>5. QED
  BY <1>3, <1>4

LEMMA DependencyDatasAreRead ==
  ASSUME NEW docs \in Seq(Man!DependencyData)
  PROVE  Man!Dependencies(docs) \in Seq(FiniteDependencies) \cup {Refused}
<1> DEFINE read == [i \in DOMAIN docs |-> Man!Dependency(docs[i])]
<1>1. \A i \in DOMAIN docs : docs[i] \in Man!DependencyData
  BY ElementOfSeq, LenProperties
<1>2. \A i \in DOMAIN docs : read[i] \in FiniteDependencies \cup {Refused}
  BY <1>1, DependencyDataIsRead
<1>3. DOMAIN read = DOMAIN docs /\ read = [i \in DOMAIN docs |-> read[i]]
  OBVIOUS
<1>4. Man!Dependencies(docs) = Man!AllOf(read)
  BY DEF Man!Dependencies
<1> HIDE DEF read
<1>5. read \in Seq(FiniteDependencies \cup {Refused})
  BY <1>2, <1>3, EachIsRead
<1>6. QED
  BY <1>4, <1>5, AllOrNone

LEMMA LibraryDataIsRead ==
  ASSUME NEW doc \in Man!LibraryData
  PROVE  Man!Library(doc) \in FiniteLibraries \cup {Refused}
<1> DEFINE x == Man!Dependencies(doc.dependencies)
           y == Man!Dependencies(doc.test_dependencies)
           p == Man!Normal(doc.path)
           short == LibraryOf(doc.name, p, doc.using, doc.test_using, doc.dependencies,
                              doc.test_dependencies)
<1>1. /\ doc = LibraryOf(doc.name, doc.path, doc.using, doc.test_using, doc.dependencies,
                         doc.test_dependencies)
      /\ doc.path \in Seq(STRING)
      /\ doc.dependencies \in Seq(Man!DependencyData) /\ doc.test_dependencies \in Seq(Man!DependencyData)
  BY DEF Man!LibraryData, LibraryOf
<1>2. p \in Seq(STRING)
  BY <1>1, NormalIsShort DEF IsShort
<1>3. x \in Seq(FiniteDependencies) \cup {Refused} /\ y \in Seq(FiniteDependencies) \cup {Refused}
  BY <1>1, DependencyDatasAreRead
<1>4. Man!WithNormalPath(doc) = short
  <2>1. \A n, q, u, t, d, e : Man!WithNormalPath(LibraryOf(n, q, u, t, d, e)) =
                                LibraryOf(n, Man!Normal(q), u, t, d, e)
    BY DEF Man!WithNormalPath, LibraryOf
  <2>2. QED
    BY <1>1, <2>1
<1> HIDE DEF x, y, p, short
<1>5. CASE doc.name \in Man!Names /\ doc.using \in SUBSET Man!Names /\ doc.test_using \in SUBSET Man!Names
  <2>1. Man!WithDependencies(short, x, y) \in FiniteLibraries \cup {Refused}
    BY <1>2, <1>3, <1>5, WithDependenciesIs DEF short
  <2>2. Man!Library(doc) = Refused \/ Man!Library(doc) = Man!WithDependencies(short, x, y)
    BY <1>4 DEF Man!Library, x, y
  <2>3. QED
    BY <2>1, <2>2
<1>6. CASE ~({doc.name} \cup doc.using \cup doc.test_using \subseteq Man!Names)
  BY <1>6 DEF Man!Library
<1>7. QED
  BY <1>5, <1>6

LEMMA PackageDataIsRead ==
  ASSUME NEW doc \in Man!PackageData
  PROVE  Man!ReadPackage(doc) \in FinitePackages \cup {Refused}
<1> DEFINE docs == doc.libraries
           read == [i \in DOMAIN docs |-> Man!Library(docs[i])]
           libs == Man!AllOf(read)
<1>1. docs \in Seq(Man!LibraryData) /\ doc.version \in Nat /\ doc.pkg_version \in Int /\ doc.meta \in STRING
  BY DEF Man!PackageData
<1> HIDE DEF docs
<1>2. \A i \in DOMAIN docs : docs[i] \in Man!LibraryData
  BY <1>1, ElementOfSeq, LenProperties
<1>3. \A i \in DOMAIN docs : read[i] \in FiniteLibraries \cup {Refused}
  BY <1>2, LibraryDataIsRead
<1>4. DOMAIN read = DOMAIN docs /\ read = [i \in DOMAIN docs |-> read[i]]
  OBVIOUS
<1>5. \/ Man!ReadPackage(doc) = Refused
      \/ /\ doc.name \in Man!Names /\ docs # << >> /\ libs # Refused
         /\ Man!ReadPackage(doc) = [name |-> doc.name, version |-> doc.version,
                                    revision |-> doc.pkg_version, meta |-> doc.meta, libraries |-> libs]
  BY DEF Man!ReadPackage, docs
<1> HIDE DEF read
<1>6. read \in Seq(FiniteLibraries \cup {Refused}) /\ Len(read) = Len(docs)
  BY <1>1, <1>3, <1>4, EachIsRead
<1>7. libs = Refused \/ (libs = read /\ libs \in Seq(FiniteLibraries))
  BY <1>6, AllOrNone
<1> HIDE DEF libs
<1>8. CASE /\ doc.name \in Man!Names /\ docs # << >> /\ libs # Refused
           /\ Man!ReadPackage(doc) = [name |-> doc.name, version |-> doc.version,
                                      revision |-> doc.pkg_version, meta |-> doc.meta, libraries |-> libs]
  <2>1. libs \in Seq(FiniteLibraries) /\ libs # << >>
    BY <1>1, <1>6, <1>7, <1>8, EmptySeq
  <2>2. QED
    BY <1>1, <1>8, <2>1, PackageIsFinite
<1>9. QED
  BY <1>5, <1>8

(* What is read of a directory. *)
LEMMA DirectoryIsRead ==
  ASSUME NEW dir \in Man!Directory
  PROVE  Man!FromDirectory(dir) \in FinitePackages \cup {Refused}
<1>1. /\ \A i \in DOMAIN dir.pkg_json : dir.pkg_json[i] \in Man!PackageData
      /\ \A i \in DOMAIN dir.pkg_yaml : dir.pkg_yaml[i] \in Man!ManifestDoc
      /\ dir.pkg_json # << >> => 1 \in DOMAIN dir.pkg_json
      /\ dir.pkg_yaml # << >> => 1 \in DOMAIN dir.pkg_yaml
  <2>1. dir.pkg_json \in Seq(Man!PackageData) /\ dir.pkg_yaml \in Seq(Man!ManifestDoc)
    BY DEF Man!Directory
  <2>2. QED
    BY <2>1, ElementOfSeq, LenProperties, EmptySeq
<1>2. CASE dir.pkg_json # << >>
  BY <1>1, <1>2, PackageDataIsRead DEF Man!FromDirectory
<1>3. CASE dir.pkg_json = << >> /\ dir.pkg_yaml # << >>
  <2> DEFINE doc == dir.pkg_yaml[1]
             project == Man!Project(doc)
  <2>1. doc \in Man!ManifestDoc
    BY <1>1, <1>3
  <2>2. Man!FromDirectory(dir) = Man!PackageOf(project)
    BY <1>3 DEF Man!FromDirectory
  <2>3. doc.version \in Nat /\ doc.meta \in STRING
    BY <2>1 DEF Man!ManifestDoc
  <2> HIDE DEF doc
  <2>4. ASSUME project # Refused PROVE Man!Package(project) \in FinitePackages
    <3>1. PICK libs \in Seq(FiniteLibraries) : \E d, e \in Seq(FiniteDependencies) :
             /\ project = ProjectOf(doc.name, doc.version, doc.meta, libs, d, e)
             /\ doc.name \in Man!Names
      BY <2>1, <2>4, ProjectIsRead
    <3>2. PICK d \in Seq(FiniteDependencies), e \in Seq(FiniteDependencies) :
             /\ project = ProjectOf(doc.name, doc.version, doc.meta, libs, d, e)
             /\ doc.name \in Man!Names
      BY <3>1
    <3> HIDE DEF project
    <3>3. QED
      BY <2>3, <3>2, ProjectIsPackage
  <2> HIDE DEF project
  <2>5. QED
    BY <2>2, <2>4 DEF Man!PackageOf
<1>4. CASE dir.pkg_json = << >> /\ dir.pkg_yaml = << >>
  BY <1>4 DEF Man!FromDirectory
<1>5. QED
  BY <1>2, <1>3, <1>4

LEMMA DirectoriesAreReadBack ==
  ASSUME NEW dir \in Man!Directory
  PROVE  Man!WrittenIsReadBack(dir)
<1> DEFINE pkg == Man!FromDirectory(dir)
           sdist == Man!SdistDirectory(dir)
<1>1. pkg \in FinitePackages \cup {Refused}
  BY DirectoryIsRead
<1>2. sdist = Man!Distribution(dir, pkg)
  BY DEF Man!SdistDirectory
<1>3. dir.files \subseteq [dir : Seq(STRING), source : BOOLEAN]
  BY DEF Man!Directory
<1>4. Man!WrittenIsReadBack(dir) <=>
         (pkg # Refused /\ ~Man!Implicit(pkg) /\ sdist # Refused => Man!IsReadBack(dir, pkg, sdist))
  BY DEF Man!WrittenIsReadBack
<1> HIDE DEF pkg, sdist
<1>5. ASSUME pkg # Refused, ~Man!Implicit(pkg), sdist # Refused
      PROVE  Man!IsReadBack(dir, pkg, sdist)
  BY <1>1, <1>2, <1>3, <1>5, DistributionIsReadBack
<1>6. QED
  BY <1>4, <1>5
-----------------------------------------------------------------------------
AQuery == \/ IsAlgebraQuery \/ IsCandidatesQuery \/ IsPlanQuery \/ IsAskedQuery
          \/ IsCommandsQuery \/ IsTextQuery \/ IsPairsQuery \/ IsManifestQuery

LEMMA QueryStays == AlgorithmsSpec => []AQuery
<1>1. AQuery /\ [Answer]_algorithmVars => AQuery'
  BY DEF AQuery, IsAlgebraQuery, IsCandidatesQuery, IsPlanQuery, IsAskedQuery,
         IsCommandsQuery, IsTextQuery, IsPairsQuery, IsManifestQuery, Answer, algorithmVars
<1>2. QED
  BY <1>1, PTL DEF AlgorithmsSpec, AQuery

(* The algebra that the search of the solver relies on (solve/solve.cpp,   *)
(* struct requirement) is that of the sets of candidates, whatever versions *)
(* and libraries there are.                                                *)
THEOREM RequirementsAreAlgebra == AlgorithmsSpec => []AlgebraIsOfCandidates
<1>1. AQuery => AlgebraIsOfCandidates
  BY AlgebraIsExact DEF AQuery, IsAlgebraQuery, IsCandidatesQuery, IsPlanQuery, IsAskedQuery,
                        IsCommandsQuery, IsTextQuery, IsPairsQuery, IsManifestQuery, Asked,
                        AlgebraIsOfCandidates
<1>2. QED
  BY <1>1, QueryStays, PTL

(* What best_candidate and requirements_of answer the solver: a candidate  *)
(* that matches, if there is one, and the dependencies of the libraries    *)
(* that are used, directly or not, in packages with any libraries.         *)
THEOREM CandidatesAreRequirements == AlgorithmsSpec => []RequirementsAreTheCandidates
<1>1. AQuery => RequirementsAreTheCandidates
  <2>1. ASSUME IsCandidatesQuery
        PROVE  Alg!RequirementsAreTheCandidates(query.list, query.req)
    BY <2>1, CandidatesAnswer DEF IsCandidatesQuery
  <2>2. QED
    BY <2>1 DEF AQuery, IsAlgebraQuery, IsPlanQuery, IsAskedQuery,
                IsCommandsQuery, IsTextQuery, IsPairsQuery, IsManifestQuery, Asked,
                RequirementsAreTheCandidates
<1>2. QED
  BY <1>1, QueryStays, PTL

(* Two steps of a library's build (build/plan/library.cpp:32-207) do not   *)
(* write one file, however many files it has in which directories, but for *)
(* the cases that the property names.                                      *)
THEOREM PlansWriteDistinctFiles == AlgorithmsSpec => []OutputsAreDistinct
<1>1. AQuery => OutputsAreDistinct
  BY PlanOutputsAreDistinct DEF AQuery, IsAlgebraQuery, IsCandidatesQuery, IsPlanQuery, IsAskedQuery,
                                IsCommandsQuery, IsTextQuery, IsPairsQuery, IsManifestQuery, Asked,
                                OutputsAreDistinct
<1>2. QED
  BY <1>1, QueryStays, PTL

(* compile_files (build/plan/full.cpp:52-94), for any number of libraries: *)
(* a file that was asked for is compiled, with what its library uses, or   *)
(* is reported as missing.                                                 *)
THEOREM FilesAreCompiledOrMissing == AlgorithmsSpec => []AskedIsCompiledOrMissing
<1>1. AQuery => AskedIsCompiledOrMissing
  BY PlanAnswers DEF AQuery, IsAlgebraQuery, IsCandidatesQuery, IsPlanQuery, IsAskedQuery,
                     IsCommandsQuery, IsTextQuery, IsPairsQuery, IsManifestQuery, Asked,
                     AskedIsCompiledOrMissing
<1>2. QED
  BY <1>1, QueryStays, PTL

(* The command that is stored with an object (quote_command,               *)
(* util/proc.common.cpp:12-39) is another text for another command, however*)
(* many arguments of whichever characters there are: only so does a change *)
(* of flags make the object be compiled again.                             *)
THEOREM CommandsHaveTheirTexts == AlgorithmsSpec => []CommandsAreTold
<1>1. AQuery => CommandsAreTold
  BY EachCommandIsTold DEF AQuery, IsAlgebraQuery, IsCandidatesQuery, IsPlanQuery, IsAskedQuery,
                           IsCommandsQuery, IsTextQuery, IsPairsQuery, IsManifestQuery, Asked, CommandsAreTold
<1>2. QED
  BY <1>1, QueryStays, PTL

(* For texts of any length: split_shell_string (util/shlex.cpp) splits     *)
(* plain flags as a shell does, calc_invalid_name_reason (util/name.cpp)   *)
(* does not reach its assertion, a package id (crs/info/pkg_id.cpp) and    *)
(* the pairs of a libman file (libman/parse.cpp) are read back as written. *)
THEOREM TextsAreUnderstood == AlgorithmsSpec => []WordsAreUnderstood
<1>1. AQuery => WordsAreUnderstood
  <2>1. ASSUME IsTextQuery
        PROVE  /\ Words!SplitsPlainWords(query.text) /\ Words!NamesHaveReasons(query.text)
               /\ Words!IdsAreReadBack(query.text)
    BY <2>1, PlainWordsAreSplit, EveryNameHasReasons, EveryIdIsReadBack DEF IsTextQuery
  <2>2. IsPairsQuery => Words!PairsAreReadBack(query.pairs)
    BY PairsAreRead DEF IsPairsQuery
  <2>3. QED
    BY <2>1, <2>2 DEF AQuery, IsAlgebraQuery, IsCandidatesQuery, IsPlanQuery, IsAskedQuery,
                      IsCommandsQuery, IsTextQuery, IsPairsQuery, IsManifestQuery, Asked, WordsAreUnderstood
<1>2. QED
  BY <1>1, QueryStays, PTL

(* A source distribution (sdist/dist.cpp:102-111) is the package that the  *)
(* directory has, whatever its pkg.yaml says: its pkg.json (to_json,       *)
(* crs/info/package.cpp:68-130) is read (crs/info/package.walk.v1.cpp) as  *)
(* it was written, each library has its sources, and a distribution of the *)
(* distribution is the same, but for the cases that the property names.    *)
THEOREM DistributionsAreReadBack == AlgorithmsSpec => []PackagesAreReadBack
<1>1. AQuery => PackagesAreReadBack
  <2>1. IsManifestQuery => Man!WrittenIsReadBack(query.dir)
    BY DirectoriesAreReadBack DEF IsManifestQuery
  <2>2. QED
    BY <2>1 DEF AQuery, IsAlgebraQuery, IsCandidatesQuery, IsPlanQuery, IsAskedQuery,
                IsCommandsQuery, IsTextQuery, IsPairsQuery, IsManifestQuery, Asked, PackagesAreReadBack
<1>2. QED
  BY <1>1, QueryStays, PTL
===============================================================================
