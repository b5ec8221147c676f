----------------------------- MODULE MCComponents -----------------------------
(* Small instances of components that share no state, and the algorithms of *)
(* MCAlgorithms. One of them is chosen in the initial state and takes all   *)
(* steps: the state space is the sum of theirs, not the product.            *)
EXTENDS Components, MCAlgorithms

VARIABLE part

(* An older bpt knows one migration, the others two. *)
CONSTANT OldUser
MCKnown == [p \in Users |-> IF p = OldUser THEN 1 ELSE 2]

(* The start-up files that every user has, and those of one more shell. *)
MCShellFiles == <<"profile", "fish">>

(* Three libraries, each using up to two of them or an unknown one; the     *)
(* first may link the third. Only for maps without a cycle are paths asked  *)
(* for; nobody looks for cycles of links.                                   *)
UsesLists == {<< >>} \cup {<<u>> : u \in 1..3 \cup {9}} \cup {<<u, v>> : u, v \in 1..3}
MCUsageMaps == [1..3 -> [uses : UsesLists]]

PlanOf(m, links) ==
    [u \in DOMAIN m |-> [name |-> u, uses |-> m[u].uses, links |-> IF u = 1 THEN links ELSE << >>]]
MCUsagePlans ==
    {PlanOf(m, << >>) : m \in {n \in MCUsageMaps : C!Acyclic(n)}}
    \cup {PlanOf(m, <<3>>) : m \in {n \in MCUsageMaps : C!Acyclic([n EXCEPT ![1].uses = @ \o <<3>>])}}
    \cup {<<p[1], p[1]>> : p \in {PlanOf([u \in {1} |-> [uses |-> << >>]], << >>)}}

MCQuestions == [paths : {"link", "include"}, of : {<<1>>, <<1, 9>>, <<2, 1>>}]

vars == <<part, procVars, migrateVars, dbVars, fetchVars, installVars, searchVars, pathVars, algorithmVars>>

Parts == {"RunProc", "Migrate", "BuildDbOpen", "Prefetch", "Install", "CycleSearch", "UsagePaths",
          "Algorithms"}

(* The parts that do not run are in one of their initial states. *)

MCInit ==
    /\ part \in Parts
    /\ Init /\ M!Init
    /\ IF part = "BuildDbOpen" THEN B!Init ELSE
          /\ bpc = [p \in Builds |-> "start"] /\ conn = [p \in Builds |-> NoDbFile]
          /\ path = NoDbFile /\ schema = [f \in Files |-> "absent"]
          /\ rows = [f \in Files |-> {}] /\ held = [p \in Builds |-> "none"]
          /\ again = {} /\ reading = {} /\ session = {} /\ kept = {} /\ collided = FALSE
    /\ IF part = "Prefetch" THEN P!Init ELSE
          /\ fpc = [p \in Fetchers |-> "start"] /\ listing = [r \in Remotes |-> {}]
          /\ enabled = [p \in Fetchers |-> << >>] /\ wanted = [p \in Fetchers |-> 0]
          /\ from = [p \in Fetchers |-> Absent] /\ todo = [p \in Fetchers |-> {}]
          /\ dir = [r \in Revisions |->
                       [exists |-> FALSE, files |-> [f \in P!PackageFiles |-> Absent]]]
          /\ loaded = [p \in Fetchers |-> [f \in P!PackageFiles |-> Absent]]
          /\ disturbed = {}
    /\ IF part = "Install" THEN I!Init ELSE
          /\ ipc = "ended" /\ dest = "nothing" /\ self = TRUE /\ shell = 0 /\ buffer = {}
          /\ opts = [symlink |-> FALSE, dry_run |-> FALSE, fixup |-> FALSE]
          /\ files = [f \in I!Names |-> [now |-> {}, tmp |-> Gone, bak |-> Gone]]
          /\ saved = [f \in I!Names |-> {}] /\ exposed = [f \in I!Names |-> {}] /\ runs = 0 /\ saves = 0
    /\ IF part = "CycleSearch" THEN C!Init ELSE
          /\ reqs = << >> /\ spc = "acyclic" /\ roots = {} /\ mark = << >> /\ tried = << >>
          /\ calls = << >> /\ cycle = << >>
    /\ IF part = "UsagePaths" THEN U!Init ELSE
          /\ plan = << >> /\ ureqs = << >> /\ upc = "answered" /\ ask = [paths |-> "link", of |-> << >>]
          /\ asked = 0 /\ given = << >> /\ pending = << >>
    /\ IF part = "Algorithms" THEN AlgInit ELSE query = [kind |-> "none"] /\ answered = TRUE

OtherThanProc == UNCHANGED <<migrateVars, dbVars, fetchVars, installVars, searchVars, pathVars, algorithmVars>>

MCNext ==
    /\ UNCHANGED part
    /\ \/ part = "RunProc" /\ Next /\ OtherThanProc
       \/ part = "Migrate" /\ M!Next
          /\ UNCHANGED <<procVars, dbVars, fetchVars, installVars, searchVars, pathVars, algorithmVars>>
       \/ part = "BuildDbOpen" /\ B!Next
          /\ UNCHANGED <<procVars, migrateVars, fetchVars, installVars, searchVars, pathVars, algorithmVars>>
       \/ part = "Prefetch" /\ P!Next
          /\ UNCHANGED <<procVars, migrateVars, dbVars, installVars, searchVars, pathVars, algorithmVars>>
       \/ part = "Install" /\ I!Next
          /\ UNCHANGED <<procVars, migrateVars, dbVars, fetchVars, searchVars, pathVars, algorithmVars>>
       \/ part = "CycleSearch" /\ C!Next
          /\ UNCHANGED <<procVars, migrateVars, dbVars, fetchVars, installVars, pathVars, algorithmVars>>
       \/ part = "UsagePaths" /\ U!Next
          /\ UNCHANGED <<procVars, migrateVars, dbVars, fetchVars, installVars, searchVars, algorithmVars>>
       \/ part = "Algorithms" /\ Answer
          /\ UNCHANGED <<procVars, migrateVars, dbVars, fetchVars, installVars, searchVars, pathVars>>

(* Threads and children are scheduled, when there are any. *)
ProcFairness ==
    \A p \in Callers :
        /\ WF_vars(part = "RunProc" /\ UNCHANGED part /\ Call(p) /\ OtherThanProc)
        /\ WF_vars(part = "RunProc" /\ UNCHANGED part /\ EndsBySigint(p) /\ OtherThanProc)

(* The searches are one thread each, which does nothing else. *)
SearchFairness == WF_vars(part \in {"CycleSearch", "UsagePaths"} /\ MCNext)

MCSpec == MCInit /\ [][MCNext]_vars /\ ProcFairness /\ SearchFairness
-----------------------------------------------------------------------------
(* See RunProc, CycleSearch and UsagePaths: every call of run_proc returns,  *)
(* and so do the searches.                                                  *)
EverythingEnds == CallsReturn /\ C!SearchEnds /\ U!PathsEnd
==============================================================================
