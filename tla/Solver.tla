-------------------------------- MODULE Solver --------------------------------
(***************************************************************************)
(* What bpt tells the pubgrub library (solve/solve.cpp): the algebra of    *)
(* requirements, the candidate for a requirement, and the requirements of  *)
(* a candidate. The search is the library's.                               *)
(*                                                                         *)
(* A requirement names versions (a set: what ranges are, is the library's  *)
(* as well) and the libraries it uses, or All of them.                     *)
(***************************************************************************)
EXTENDS Integers, Sequences, FiniteSets

CONSTANTS All,        \* implicit_uses_all
          NoRevision  \* pkg_version is not set

NoRequirement == [versions |-> {}, uses |-> {}, pkg_version |-> NoRevision]

Requirement(versions, uses) ==
    [versions |-> versions, uses |-> uses, pkg_version |-> NoRevision]
-----------------------------------------------------------------------------
(* The algebra. An operation that has no result (nullopt) answers << >>,   *)
(* otherwise a sequence of the one requirement.                            *)
ImpliedBy(self, other) ==
    /\ other.versions \subseteq self.versions
    /\ \/ self.uses = All \/ other.uses = All
       \/ self.uses \subseteq other.uses

Excludes(self, other) == self.versions \cap other.versions = {}

(* Not symmetric: All on the left gives way. *)
UnionUsages(l, r) == IF l = All THEN r ELSE IF r = All THEN All ELSE l \cup r

IntersectUsages(l, r) == IF l = All THEN r ELSE IF r = All THEN l ELSE l \cap r

UsesIsEmpty(u) == u = All \/ u = {}

(* Mutant: a term that both imply needs what both use. *)
IntersectionOfUses(self, other) ==
    LET range == self.versions \cap other.versions IN
    IF range = {} THEN << >>
    ELSE <<Requirement(range, IntersectUsages(self.uses, other.uses))>>

Intersection(self, other) ==
    LET range == self.versions \cap other.versions IN
    IF range = {} THEN << >>
    ELSE <<Requirement(range, UnionUsages(self.uses, other.uses))>>

Union(self, other) ==
    LET range == self.versions \cup other.versions IN
    IF range = {} THEN << >>
    ELSE <<Requirement(range, IntersectUsages(self.uses, other.uses))>>

Difference(self, other) ==
    LET range == self.versions \ other.versions IN
    IF range = {} /\ (UsesIsEmpty(self.uses) \/ self.uses = other.uses) THEN << >>
    ELSE <<Requirement(range, UnionUsages(self.uses, other.uses))>>
-----------------------------------------------------------------------------
(* Packages: an entry has a version, a revision, and for each library what *)
(* it uses within the package and the requirements that it has.            *)
Libraries(entry) == DOMAIN entry.libs

Matches(entry, req) ==
    /\ entry.version \in req.versions
    /\ req.uses # All => req.uses \subseteq Libraries(entry)

(* The order by (version, -revision). *)
Precedes(a, b) == \/ a.version < b.version
                  \/ a.version = b.version /\ a.revision > b.revision

(* best_candidate: the first that matches. The sort is not stable: entries *)
(* of one id from several remotes may come in any order.                   *)
BestCandidates(entries, req) ==
    {e \in entries : /\ Matches(e, req)
                     /\ \A f \in entries : Matches(f, req) => ~Precedes(f, e)}

CandidateTerm(entry, req) ==
    [versions |-> {entry.version}, uses |-> req.uses, pkg_version |-> entry.revision]

SoleVersion(versions) == CHOOSE v \in versions : \A w \in versions : v <= w

(* requirements_of asks the database again: the entries of the version in  *)
(* the order of the remotes, of which it takes the first.                  *)
EntryOf(list, term) ==
    list[CHOOSE i \in DOMAIN list :
            /\ list[i].version = SoleVersion(term.versions)
            /\ \A j \in 1..(i - 1) : list[j].version # SoleVersion(term.versions)]

(* One round of the loop that follows intra_using. An assertion fails if a *)
(* library does not exist.                                                 *)
MoreUses(entry, uses) == uses \cup UNION {entry.libs[l].using : l \in uses}

(* Mutant: what is used by a used library is looked up once. *)
UsesOnce(entry, uses) == MoreUses(entry, uses)

(* The loop ends when a round adds nothing: after as many rounds as there  *)
(* are libraries at the latest.                                            *)
ClosedUses(entry, uses) ==
    LET after[n \in 0..Cardinality(Libraries(entry))] ==
            IF n = 0 THEN uses ELSE MoreUses(entry, after[n - 1])
    IN after[Cardinality(Libraries(entry))]

UsedLibraries(entry, term) ==
    ClosedUses(entry, IF term.uses = All THEN Libraries(entry) ELSE term.uses)

RequirementsOf(list, term) ==
    LET entry == EntryOf(list, term)
    IN UNION {entry.libs[l].deps : l \in UsedLibraries(entry, term) \cap Libraries(entry)}

(* resolve_implicit_usages (cli/cmd/build_common.cpp): All of a dependency *)
(* becomes the list of what the package that was fetched has.              *)
ResolveImplicit(uses, entry) == IF uses = All THEN Libraries(entry) ELSE uses

(* repo validate: each library of the package is asked for by name. *)
ValidationTerm(entry) == Requirement({entry.version}, Libraries(entry))
-----------------------------------------------------------------------------
(* What a requirement means: the candidates <<version, libraries>> that    *)
(* satisfy it.                                                             *)
Meaning(r, Libs) == {c \in r.versions \X SUBSET Libs : r.uses = All \/ r.uses \subseteq c[2]}

MeaningOf(result, Libs) == IF result = << >> THEN {} ELSE Meaning(result[1], Libs)

(* For requirements that say which libraries they use, the algebra is that *)
(* of the sets of candidates, in the direction that the search relies on:  *)
(* an intersection is exact, a union loses nothing, a difference contains  *)
(* nothing that was to be taken away.                                      *)
AlgebraIsOfCandidates(a, b, Libs) ==
    LET A == Meaning(a, Libs)  B == Meaning(b, Libs) IN
    a.uses # All /\ b.uses # All =>
        /\ a.versions # {} /\ b.versions # {} =>
              /\ ImpliedBy(a, b) <=> B \subseteq A
              /\ Excludes(a, b) <=> A \cap B = {}
        /\ MeaningOf(Intersection(a, b), Libs) = A \cap B
        /\ A \cup B \subseteq MeaningOf(Union(a, b), Libs)
        /\ MeaningOf(Difference(a, b), Libs) \subseteq A \ B

(* The candidate that is chosen satisfies the requirement, and what is     *)
(* taken for its requirements are those of the libraries that are used or  *)
(* reachable from them: unless its version is listed more than once, when  *)
(* another entry may be read. No candidate means that none satisfies it.   *)
Reached(entry, uses, l) ==
    \A S \in SUBSET Libraries(entry) :
        (uses \subseteq S /\ \A k \in S : entry.libs[k].using \subseteq S) => l \in S

RequirementsAreTheCandidates(list, req) ==
    LET entries == {list[i] : i \in DOMAIN list}
        best == BestCandidates(entries, req) IN
    /\ best = {} => \A e \in entries : ~Matches(e, req)
    /\ \A e \in best :
          LET term == CandidateTerm(e, req)
              uses == ResolveImplicit(req.uses, e) IN
          /\ Matches(e, term)
          /\ Cardinality({i \in DOMAIN list : list[i].version = e.version}) = 1 =>
                RequirementsOf(list, term) =
                    UNION {e.libs[l].deps : l \in {k \in Libraries(e) : Reached(e, uses, k)}}
=============================================================================
