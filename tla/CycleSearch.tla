----------------------------- MODULE CycleSearch -----------------------------
(***************************************************************************)
(* usage_requirement_map::find_usage_cycle (usage_reqs.cpp): the search    *)
(* for a cycle among the libraries of a build, depth first from each of    *)
(* them in the order of the map, and how the cycle is recovered from what  *)
(* the search has left. The recursion of find_cycle is a stack of calls.   *)
(***************************************************************************)
EXTENDS Integers, Usages

CONSTANT UsageMaps  \* the maps that are searched

VARIABLES reqs,    \* the map
          spc,     \* where find_usage_cycle is
          roots,   \* the libraries that its loop has yet to come to
          mark,    \* vertex_info::status
          tried,   \* how many of its uses each library's loop has come to
          calls,   \* the libraries of the calls of find_cycle that have begun
          cycle    \* what is recovered of the cycle

searchVars == <<reqs, spc, roots, mark, tried, calls, cycle>>

Init == /\ reqs \in UsageMaps
        /\ spc = "search"
        /\ roots = DOMAIN reqs
        /\ mark = [u \in DOMAIN reqs |-> "unvisited"]
        /\ tried = [u \in DOMAIN reqs |-> 0]
        /\ calls = << >>
        /\ cycle = << >>

(* vertex_info::next: the use that the loop has come to. *)
Onward(u) == reqs[u].uses[tried[u]]

Caller == calls[Len(calls)]
-----------------------------------------------------------------------------
(* A call of find_cycle: there is no cycle below, or u is in one, or the   *)
(* search goes on below u.                                                 *)
NoCycleBelow(u) == mark[u] = "visited" /\ UNCHANGED <<spc, mark, calls, cycle>>

(* Mutant: a vertex that is being visited is passed over like a visited one. *)
PassOver(u) == mark[u] = "visiting" /\ UNCHANGED <<spc, mark, calls, cycle>>

MetAgain(u) == /\ mark[u] = "visiting"
               /\ spc' = "chase"
               /\ cycle' = <<u>>
               /\ UNCHANGED <<mark, calls>>

GoBelow(u) == /\ mark[u] = "unvisited"
              /\ mark' = [mark EXCEPT ![u] = "visiting"]
              /\ calls' = Append(calls, u)
              /\ UNCHANGED <<spc, cycle>>

FindCycle(u) == NoCycleBelow(u) \/ MetAgain(u) \/ GoBelow(u)

(* find_usage_cycle starts from the next library of the map. *)
SearchFrom(u) == /\ spc = "search" /\ calls = << >>
                 /\ u \in roots /\ \A v \in roots : u <= v
                 /\ roots' = roots \ {u}
                 /\ FindCycle(u)
                 /\ UNCHANGED <<reqs, tried>>

(* The loop of a call comes to the next use; one that is not known is      *)
(* ignored for now.                                                        *)
TryNext == /\ spc = "search" /\ calls # << >>
           /\ tried[Caller] < Len(reqs[Caller].uses)
           /\ tried' = [tried EXCEPT ![Caller] = @ + 1]
           /\ LET next == reqs[Caller].uses[tried[Caller] + 1]
              IN IF next \in DOMAIN reqs THEN FindCycle(next)
                 ELSE UNCHANGED <<spc, mark, calls, cycle>>
           /\ UNCHANGED <<reqs, roots>>

Return == /\ spc = "search" /\ calls # << >>
          /\ tried[Caller] = Len(reqs[Caller].uses)
          /\ mark' = [mark EXCEPT ![Caller] = "visited"]
          /\ calls' = SubSeq(calls, 1, Len(calls) - 1)
          /\ UNCHANGED <<reqs, spc, roots, tried, cycle>>

NoCycle == /\ spc = "search" /\ calls = << >> /\ roots = {}
           /\ spc' = "acyclic"
           /\ UNCHANGED <<reqs, roots, mark, tried, calls, cycle>>

(* Along `next' until the vertex is met again. *)
Chase == /\ spc = "chase"
         /\ LET cur == Onward(cycle[Len(cycle)])
            IN IF cur = cycle[1] THEN spc' = "cyclic" /\ UNCHANGED cycle
               ELSE cycle' = Append(cycle, cur) /\ UNCHANGED spc
         /\ UNCHANGED <<reqs, roots, mark, tried, calls>>

Next == (\E u \in roots : SearchFrom(u)) \/ TryNext \/ Return \/ NoCycle \/ Chase

Spec == Init /\ [][Next]_searchVars
-----------------------------------------------------------------------------
TypeOK == /\ spc \in {"search", "chase", "acyclic", "cyclic"}
          /\ roots \subseteq DOMAIN reqs
          /\ mark \in [DOMAIN reqs -> {"unvisited", "visiting", "visited"}]
          /\ tried \in [DOMAIN reqs -> Nat]
          /\ calls \in Seq(DOMAIN reqs)
          /\ cycle \in Seq(DOMAIN reqs)

(* What is reported as a cycle is one, in which no library comes twice,    *)
(* and without a report no library reaches itself: link_paths and          *)
(* include_paths, which do not look for cycles, end.                       *)
CyclesAreFound ==
    /\ spc = "acyclic" => Acyclic(reqs)
    /\ spc = "cyclic" =>
          /\ cycle # << >>
          /\ \A i, j \in DOMAIN cycle : i # j => cycle[i] # cycle[j]
          /\ \A i \in DOMAIN cycle : <<cycle[i], cycle[(i % Len(cycle)) + 1]>> \in Uses(reqs)

(* The search comes to an end, as no library is visited twice. *)
SearchEnds == <>(spc \in {"acyclic", "cyclic"})
===============================================================================
