------------------------------ MODULE UsagePaths ------------------------------
(***************************************************************************)
(* usage_reqs.cpp: how the map of the libraries of a build is filled, and  *)
(* what a compilation or a link then takes from it. The paths of a library *)
(* (its archive, if it has one, or its include directories) stand for the  *)
(* library: `given' are the libraries whose paths are in the result, in    *)
(* this order. The recursion of link_paths and include_paths is a stack of *)
(* calls, each known by its place in `given'.                              *)
(***************************************************************************)
EXTENDS Integers, Usages

CONSTANTS UsagePlans,  \* what the map is filled with: libraries with their names
          Questions    \* which paths are asked for, and of which libraries

VARIABLES plan,     \* the libraries that are yet to be added
          ureqs,    \* the map
          upc,      \* where it all is
          ask,      \* the question
          asked,    \* how many of its libraries have been come to
          given,
          pending   \* the calls that have not returned: their places in `given',
                    \* and how many libraries the loop of each has come to

pathVars == <<plan, ureqs, upc, ask, asked, given, pending>>

Init == /\ plan \in UsagePlans /\ ask \in Questions
        /\ ureqs = << >> /\ upc = "fill"
        /\ asked = 0 /\ given = << >> /\ pending = << >>

(* usage_requirement_map::add, for each library of the plan or the index.  *)
Add == /\ upc = "fill" /\ plan # << >>
       /\ LET lib == plan[1] IN
          IF lib.name \in DOMAIN ureqs THEN upc' = "dup_library" /\ UNCHANGED <<plan, ureqs>>
          ELSE /\ ureqs' = [u \in DOMAIN ureqs \cup {lib.name} |->
                               IF u = lib.name THEN [uses |-> lib.uses, links |-> lib.links]
                               ELSE ureqs[u]]
               /\ plan' = Tail(plan)
               /\ UNCHANGED upc
       /\ UNCHANGED <<ask, asked, given, pending>>

Filled == /\ upc = "fill" /\ plan = << >>
          /\ upc' = "ask"
          /\ UNCHANGED <<plan, ureqs, ask, asked, given, pending>>
-----------------------------------------------------------------------------
(* Whose paths those of u include, in this order.                          *)
Follows(u) == IF ask.paths = "link" THEN ureqs[u].uses \o ureqs[u].links ELSE ureqs[u].uses

Begun(u, loops) == /\ given' = Append(given, u)
                   /\ pending' = Append(loops, [at |-> Len(given) + 1, looked |-> 0])

(* Mutant: the paths of a library are taken once. *)
GiveOnce(u, loops) == /\ u \in DOMAIN ureqs
                      /\ IF \E i \in DOMAIN given : given[i] = u
                         THEN UNCHANGED given /\ pending' = loops
                         ELSE Begun(u, loops)
                      /\ UNCHANGED upc

(* A call of link_paths or include_paths, from the loops that have come to *)
(* it: the library's own paths come first.                                 *)
Give(u, loops) == u \in DOMAIN ureqs /\ Begun(u, loops) /\ UNCHANGED upc

Nonesuch(u) == u \notin DOMAIN ureqs /\ upc' = "nonesuch_library" /\ UNCHANGED <<given, pending>>

(* link_executable_plan::link and generate_compile_command come to the     *)
(* next library.                                                           *)
AskNext == /\ upc = "ask" /\ pending = << >> /\ asked < Len(ask.of)
           /\ asked' = asked + 1
           /\ LET u == ask.of[asked + 1] IN Give(u, pending) \/ Nonesuch(u)
           /\ UNCHANGED <<plan, ureqs, ask>>

Top == Len(pending)

LookNext == /\ upc = "ask" /\ pending # << >>
            /\ LET f == Follows(given[pending[Top].at])  n == pending[Top].looked + 1 IN
               /\ n <= Len(f)
               /\ Give(f[n], [pending EXCEPT ![Top].looked = n]) \/ Nonesuch(f[n])
            /\ UNCHANGED <<plan, ureqs, ask, asked>>

Return == /\ upc = "ask" /\ pending # << >>
          /\ pending[Top].looked = Len(Follows(given[pending[Top].at]))
          /\ pending' = SubSeq(pending, 1, Top - 1)
          /\ UNCHANGED <<plan, ureqs, upc, ask, asked, given>>

Answered == /\ upc = "ask" /\ pending = << >> /\ asked = Len(ask.of)
            /\ upc' = "answered"
            /\ UNCHANGED <<plan, ureqs, ask, asked, given, pending>>

Next == Add \/ Filled \/ AskNext \/ LookNext \/ Return \/ Answered

Spec == Init /\ [][Next]_pathVars
-----------------------------------------------------------------------------
TypeOK == /\ upc \in {"fill", "ask", "answered", "dup_library", "nonesuch_library"}
          /\ \A u \in DOMAIN ureqs : ureqs[u].uses \in Seq(Int) /\ ureqs[u].links \in Seq(Int)
          /\ asked \in 0..Len(ask.of)
          /\ given \in Seq(DOMAIN ureqs)
          /\ pending \in Seq([at : 1..Len(given), looked : Nat])

(* What includes what, as a graph of uses.                                 *)
Graph == [u \in DOMAIN ureqs |-> [uses |-> Follows(u)]]

(* In what is given to the linker, which reads each archive once, each     *)
(* archive is followed by those of all libraries that its own uses or      *)
(* links, directly or not; what is given are the paths of what is asked    *)
(* for and of all that this includes, and of nothing else; and if          *)
(* something of it is not known there is no answer.                        *)
UsedArchivesFollow ==
    LET wanted(v) == \E t \in 1..asked : Reaches(Graph, ask.of[t], v) IN
    /\ upc = "answered" =>
          /\ \A i \in DOMAIN given, v \in DOMAIN ureqs :
                Reaches(Graph, given[i], v) => v = given[i] \/ \E j \in DOMAIN given : j > i /\ given[j] = v
          /\ {given[i] : i \in DOMAIN given} = {v \in DOMAIN ureqs : wanted(v)}
          /\ \A i \in DOMAIN given : \A n \in DOMAIN Follows(given[i]) :
                Follows(given[i])[n] \in DOMAIN ureqs
          /\ \A t \in DOMAIN ask.of : ask.of[t] \in DOMAIN ureqs
    /\ upc = "nonesuch_library" =>
          \/ \E t \in DOMAIN ask.of : ask.of[t] \notin DOMAIN ureqs
          \/ \E v \in DOMAIN ureqs : /\ wanted(v)
                                     /\ \E n \in DOMAIN Follows(v) : Follows(v)[n] \notin DOMAIN ureqs

(* The answer comes, if no library includes itself.                        *)
PathsEnd == <>(upc \in {"answered", "dup_library", "nonesuch_library"})
===============================================================================
