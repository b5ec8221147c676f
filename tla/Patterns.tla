------------------------------- MODULE Patterns -------------------------------
(***************************************************************************)
(* util/fnmatch and util/glob: file name patterns, compiled when bpt is    *)
(* (ct_pattern) or when it runs (pattern_impl), and patterns of whole      *)
(* paths, which are matched or looked for in a directory tree. Texts are   *)
(* sequences of characters.                                                *)
(***************************************************************************)
EXTENDS Integers, Sequences, FiniteSets, SequencesExt

CONSTANTS Invalid,  \* the pattern is refused
          Rglob     \* `**'

From(s, i) == SubSeq(s, i, Len(s))

(* The inside of a [group]: the characters, and what follows the bracket.  *)
RECURSIVE Group(_, _)
Group(rest, chars) ==
    CASE rest = << >> -> Invalid
      [] rest # << >> /\ rest[1] = "]" -> [chars |-> chars, rest |-> Tail(rest)]
      [] rest # << >> /\ rest[1] = "\\" ->
            IF Len(rest) = 1 THEN Invalid ELSE Group(From(rest, 3), chars \cup {rest[2]})
      [] OTHER -> Group(Tail(rest), chars \cup {rest[1]})

(* A run of characters that stand for themselves. *)
RECURSIVE Literal(_, _)
Literal(rest, lit) ==
    CASE rest = << >> \/ Head(rest \o <<"*">>) \in {"*", "[", "?"} ->
            [lit |-> lit, rest |-> rest]
      [] rest # << >> /\ rest[1] = "\\" ->
            IF Len(rest) = 1 THEN Invalid ELSE Literal(From(rest, 3), Append(lit, rest[2]))
      [] OTHER -> Literal(Tail(rest), Append(lit, rest[1]))

Star == [is |-> "star", chars |-> {}, lit |-> << >>]
AnyChar == [is |-> "any", chars |-> {}, lit |-> << >>]
OneOf(chars) == [is |-> "oneof", chars |-> chars, lit |-> << >>]
NotOneOf(chars) == [is |-> "not_oneof", chars |-> chars, lit |-> << >>]
Lit(lit) == [is |-> "lit", chars |-> {}, lit |-> lit]

Then(elem, elems) == IF elems = Invalid THEN Invalid ELSE <<elem>> \o elems

(* pattern_impl: runs of literals are one element, a `!' in a group is a   *)
(* character like the others.                                              *)
RECURSIVE Compile(_)
Compile(p) ==
    CASE p = << >> -> << >>
      [] p # << >> /\ p[1] = "*" -> Then(Star, Compile(Tail(p)))
      [] p # << >> /\ p[1] = "?" -> Then(AnyChar, Compile(Tail(p)))
      [] p # << >> /\ p[1] = "[" ->
            LET g == Group(Tail(p), {})
            IN IF g = Invalid THEN Invalid ELSE Then(OneOf(g.chars), Compile(g.rest))
      [] OTHER ->
            LET l == Literal(p, << >>)
            IN IF l = Invalid THEN Invalid ELSE Then(Lit(l.lit), Compile(l.rest))

(* ct_pattern: an element for each literal, and negated groups. *)
RECURSIVE CtCompile(_)
CtCompile(p) ==
    CASE p = << >> -> << >>
      [] p # << >> /\ p[1] = "*" -> Then(Star, CtCompile(Tail(p)))
      [] p # << >> /\ p[1] = "?" -> Then(AnyChar, CtCompile(Tail(p)))
      [] p # << >> /\ p[1] = "[" ->
            LET negated == Len(p) > 1 /\ p[2] = "!"
                g == Group(From(p, IF negated THEN 3 ELSE 2), {})
            IN IF g = Invalid THEN Invalid
               ELSE Then(IF negated THEN NotOneOf(g.chars) ELSE OneOf(g.chars), CtCompile(g.rest))
      [] p # << >> /\ p[1] = "\\" ->
            IF Len(p) = 1 THEN Invalid ELSE Then(Lit(<<p[2]>>), CtCompile(From(p, 3)))
      [] OTHER -> Then(Lit(<<p[1]>>), CtCompile(Tail(p)))
-----------------------------------------------------------------------------
(* An element that stands for one character. *)
Takes(elem, c) ==
    CASE elem.is = "any" -> TRUE
      [] elem.is = "oneof" -> c \in elem.chars
      [] elem.is = "not_oneof" -> c \notin elem.chars
      [] OTHER -> FALSE

(* Mutant: `*' is not tried at the end of the name. *)
StarBeforeEnd(s) == 0..(Len(s) - 1)

(* How many characters a `*' may take: rt_star::match tries all. *)
StarTakes(s) == 0..Len(s)

RECURSIVE Match(_, _)
Match(elems, s) ==
    IF elems = << >> THEN s = << >>
    ELSE CASE elems[1].is = "star" ->
                 \E n \in StarTakes(s) : Match(Tail(elems), From(s, n + 1))
           [] elems[1].is = "lit" ->
                 /\ IsPrefix(elems[1].lit, s)
                 /\ Match(Tail(elems), From(s, Len(elems[1].lit) + 1))
           [] OTHER -> s # << >> /\ Takes(elems[1], s[1]) /\ Match(Tail(elems), Tail(s))

(* The cases that match_1 has overloads for come first: nothing but        *)
(* literals, and those after a `*', for which it skips ahead.              *)
AllLits(elems) == \A i \in DOMAIN elems : elems[i].is = "lit"

Text(elems) == FlattenSeq([i \in DOMAIN elems |-> elems[i].lit])

RECURSIVE CtMatch(_, _)
CtMatch(elems, s) ==
    CASE elems = << >> -> s = << >>
      [] elems # << >> /\ AllLits(elems) -> s = Text(elems)
      [] Len(elems) > 1 /\ Head(elems).is = "star" /\ AllLits(Tail(elems)) ->
            /\ Len(s) >= Len(elems) - 1
            /\ CtMatch(Tail(elems), From(s, Len(s) - Len(elems) + 2))
      [] OTHER ->
            CASE elems[1].is = "star" ->
                    \E n \in 0..Len(s) : CtMatch(Tail(elems), From(s, n + 1))
              [] elems[1].is = "lit" ->
                    s # << >> /\ s[1] = elems[1].lit[1] /\ CtMatch(Tail(elems), Tail(s))
              [] OTHER -> s # << >> /\ Takes(elems[1], s[1]) /\ CtMatch(Tail(elems), Tail(s))
-----------------------------------------------------------------------------
(* A glob is a sequence of sets of names (those that the pattern of the    *)
(* component matches) and Rglob; an empty one is refused.                  *)
RECURSIVE CheckMatches(_, _)
CheckMatches(path, glob) ==
    CASE path = << >> /\ glob = << >> -> TRUE
      [] (path = << >>) # (glob = << >>) -> FALSE
      [] OTHER ->
            IF glob[1] # Rglob THEN path[1] \in glob[1] /\ CheckMatches(Tail(path), Tail(glob))
            ELSE \/ Len(glob) = 1
                 \/ \E i \in DOMAIN path : CheckMatches(From(path, i), Tail(glob))

(* A directory tree is the set of the paths of its files.                  *)
Children(tree, dir) ==
    {SubSeq(f, 1, Len(dir) + 1) : f \in {g \in tree : IsStrictPrefix(dir, g)}}

IsDirectory(tree, path) == \E f \in tree : IsStrictPrefix(path, f)

(* Mutant: a directory that the next pattern matches is not searched again *)
(* with the `**'.                                                          *)
DescendsIfUnmatched(tree, entry, glob) ==
    IsDirectory(tree, entry) /\ Last(entry) \notin glob[2]

Descends(tree, entry, glob) == IsDirectory(tree, entry)

(* glob_iterator, for globs without two `**' in a row (they throw). Behind *)
(* a `**', an entry that the next pattern matches is a result, or its      *)
(* children are matched with that pattern again, not with the one after.   *)
RECURSIVE Scan(_, _, _)
Scan(tree, dir, glob) ==
    LET Found(entry) ==
            CASE glob[1] = Rglob /\ Len(glob) = 1 -> {entry}
              [] glob[1] = Rglob /\ Len(glob) > 1 ->
                    IF Last(entry) \notin glob[2] THEN {}
                    ELSE IF IsDirectory(tree, entry) THEN Scan(tree, entry, Tail(glob)) ELSE {entry}
              [] glob[1] # Rglob ->
                    IF Last(entry) \notin glob[1] THEN {}
                    ELSE IF Len(glob) = 1 THEN {entry}
                    ELSE IF IsDirectory(tree, entry) THEN Scan(tree, entry, Tail(glob)) ELSE {}
        Below(entry) ==
            IF glob[1] = Rglob /\ (Len(glob) = 1 \/ Descends(tree, entry, glob))
            THEN Scan(tree, entry, glob) ELSE {}
    IN UNION {Found(entry) \cup Below(entry) : entry \in Children(tree, dir)}
-----------------------------------------------------------------------------
(* The name can be cut into one piece for each element. *)
InLanguage(elems, s) ==
    \E cut \in [0..Len(elems) -> 0..Len(s)] :
        /\ cut[0] = 0 /\ cut[Len(elems)] = Len(s)
        /\ \A i \in DOMAIN elems :
              LET piece == SubSeq(s, cut[i - 1] + 1, cut[i]) IN
              /\ cut[i - 1] <= cut[i]
              /\ CASE elems[i].is = "star" -> TRUE
                   [] elems[i].is = "lit" -> piece = elems[i].lit
                   [] OTHER -> Len(piece) = 1 /\ Takes(elems[i], piece[1])

(* Both kinds of patterns accept the names they describe, and they agree   *)
(* on which texts are patterns and, but for negated groups, on the names.  *)
PatternsMean(p, s) ==
    LET rt == Compile(p)  ct == CtCompile(p)
        negates == \E i \in 1..(Len(p) - 1) : p[i] = "[" /\ p[i + 1] = "!" IN
    /\ rt # Invalid => (Match(rt, s) <=> InLanguage(rt, s))
    /\ ct # Invalid => (CtMatch(ct, s) <=> InLanguage(ct, s))
    /\ ~negates => /\ (rt = Invalid) <=> (ct = Invalid)
                   /\ rt # Invalid => (Match(rt, s) <=> CtMatch(ct, s))

(* A search finds the files that match, for globs with at most one pattern *)
(* behind a `**'.                                                          *)
ScanFindsMatches(tree, glob) ==
    (\A i \in DOMAIN glob : glob[i] = Rglob => i >= Len(glob) - 1) =>
        Scan(tree, << >>, glob) \cap tree = {f \in tree : CheckMatches(f, glob)}
=============================================================================
