------------------------------ MODULE Algorithms ------------------------------
(***************************************************************************)
(* Algorithms that keep no state: a state has a query, which is an input,  *)
(* and the one step answers it. Here are those that hold for inputs of any *)
(* size: the algebra and the candidates of the solver, the plan of a       *)
(* library, small texts, and what a package's documents say.               *)
(***************************************************************************)
EXTENDS Integers, Sequences, FiniteSets

CONSTANTS All, NoRevision,  \* Solver
          SolverVersions, SolverLibraries,
          NoFile,           \* LibraryPlan
          Invalid,          \* Words
          NotGiven, Refused, \* Manifest
          Characters        \* of which texts are made

VARIABLES query,    \* which algorithm, and its input
          answered

Alg == INSTANCE Solver
Lib == INSTANCE LibraryPlan
Words == INSTANCE Words
Man == INSTANCE Manifest

ASSUME AllIsNoList == \A u \in SUBSET SolverLibraries : u # All

ASSUME MarksAreCharacters ==
    {Words!Quote, "\\", Words!Blank, ":", "\n", "@", "~", "1"} \subseteq Characters

algorithmVars == <<query, answered>>

Answer == ~answered /\ answered' = TRUE /\ UNCHANGED query

Asked(kind) == answered /\ query.kind = kind
-----------------------------------------------------------------------------
Requirements == {Alg!Requirement(v, u) : v \in SUBSET SolverVersions,
                                         u \in {All} \cup SUBSET SolverLibraries}

IsAlgebraQuery ==
    query.kind = "algebra" /\ query.a \in Requirements /\ query.b \in Requirements

IsPlanQuery ==
    query.kind = "plan" /\ query.lib \in Lib!Library /\ query.params \in Lib!Params

(* Two libraries have no file in common. *)
IsAskedQuery ==
    /\ query.kind = "asked"
    /\ \A p \in query.plan : p.lib \in Lib!Library /\ p.params \in Lib!Params
    /\ \A p, q \in query.plan : p.lib.files \cap q.lib.files # {} => p = q

(* What package_info::throw_if_invalid lets through: a library uses those  *)
(* of its own package.                                                     *)
IsEntry(e) == /\ e.version \in Int /\ e.revision \in Int
              /\ IsFiniteSet(Alg!Libraries(e))
              /\ \A l \in Alg!Libraries(e) : e.libs[l].using \subseteq Alg!Libraries(e)

IsCandidatesQuery ==
    /\ query.kind = "candidates"
    /\ \E n \in Nat : DOMAIN query.list = 1..n
    /\ \A i \in DOMAIN query.list : IsEntry(query.list[i])

Text == Seq(Characters)

\* What is refused is told from what is read.
ASSUME InvalidIsNoList == Invalid \notin Seq([key : Text, value : Text])

IsCommandsQuery ==
    /\ query.kind = "commands"
    /\ query.commands \subseteq Seq(Text \ {<< >>}) /\ IsFiniteSet(query.commands)

IsTextQuery == query.kind \in {"shell", "name", "id"} /\ query.text \in Text

IsPairsQuery == query.kind = "pairs" /\ query.pairs \in Seq([key : Text, value : Text])

\* A key that is missing is told from one that is there, and an error from
\* what is read.
ASSUME NotGivenIsNoText == NotGiven \notin Seq(Man!ShorthandWord)
ASSUME RefusedIsNoInfo ==
    Refused \notin Man!DependencyInfo \cup Seq(Man!DependencyInfo) \cup Man!LibraryInfo
                   \cup Seq(Man!LibraryInfo) \cup Man!ProjectInfo \cup Man!PackageInfo

IsManifestQuery == query.kind = "manifest" /\ query.dir \in Man!Directory

AlgorithmsSpec == /\ answered = FALSE
                  /\ \/ IsAlgebraQuery \/ IsCandidatesQuery \/ IsPlanQuery \/ IsAskedQuery
                     \/ IsCommandsQuery \/ IsTextQuery \/ IsPairsQuery \/ IsManifestQuery
                  /\ [][Answer]_algorithmVars
-----------------------------------------------------------------------------
(* See Solver. *)
AlgebraIsOfCandidates ==
    Asked("algebra") => Alg!AlgebraIsOfCandidates(query.a, query.b, SolverLibraries)

(* See Solver. *)
RequirementsAreTheCandidates ==
    Asked("candidates") => Alg!RequirementsAreTheCandidates(query.list, query.req)

(* See LibraryPlan. *)
OutputsAreDistinct ==
    Asked("plan") => Lib!OutputsAreDistinct("pkg", query.lib, query.params)

(* See LibraryPlan. *)
AskedIsCompiledOrMissing ==
    Asked("asked") => Lib!AskedIsCompiledOrMissing(query.plan, query.asked)

(* See Words. *)
CommandsAreTold == Asked("commands") => Words!CommandsAreTold(query.commands)

(* See Words: shell texts, names, ids and pairs. *)
WordsAreUnderstood ==
    /\ Asked("shell") => Words!SplitsPlainWords(query.text)
    /\ Asked("name") => Words!NamesHaveReasons(query.text)
    /\ Asked("id") => Words!IdsAreReadBack(query.text)
    /\ Asked("pairs") => Words!PairsAreReadBack(query.pairs)

(* See Manifest. *)
PackagesAreReadBack == Asked("manifest") => Man!WrittenIsReadBack(query.dir)
===============================================================================
