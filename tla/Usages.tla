-------------------------------- MODULE Usages --------------------------------
(* The graph of a usage_requirement_map: `reqs' is a function from the     *)
(* names that are known to libraries, of which `uses' is a sequence of     *)
(* names; those that are not known are in no edge.                         *)
EXTENDS Sequences

Uses(reqs) == {e \in (DOMAIN reqs) \X (DOMAIN reqs) :
                  \E i \in DOMAIN reqs[e[1]].uses : reqs[e[1]].uses[i] = e[2]}

Closed(reqs, S) == \A e \in Uses(reqs) : e[1] \in S => e[2] \in S

(* v is in each set that has u and is closed under uses. *)
Reaches(reqs, u, v) == \A S \in SUBSET DOMAIN reqs : u \in S /\ Closed(reqs, S) => v \in S

Acyclic(reqs) == \A e \in Uses(reqs) : ~Reaches(reqs, e[2], e[1])
===============================================================================
