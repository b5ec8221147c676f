-------------------------------- MODULE License --------------------------------
(***************************************************************************)
(* SPDX license expressions (project/spdx.cpp). A text is a sequence of    *)
(* pieces: " ", "(", ")", "+", the words AND, OR and WITH, licenses, and   *)
(* exceptions of more than one piece. Pieces of ids that follow each other *)
(* are one token. The text that is left is what a parser hands on.         *)
(***************************************************************************)
EXTENDS Integers, Sequences, FiniteSets, SequencesExt

CONSTANT Refused

Licenses == {"MIT", "GPL"}
Exceptions == {<<"class", "path">>}
Punctuation == {"(", ")", "+"}

Without(text, n) == SubSeq(text, n + 1, Len(text))

(* trim_view, of which only the front matters.                             *)
Trimmed(text) == Without(text, Cardinality({i \in DOMAIN text : \A j \in 1..i : text[j] = " "}))

TokenOf(s) ==
    IF s = << >> THEN << >>
    ELSE IF s[1] \in Punctuation THEN <<s[1]>>
    ELSE SubSeq(s, 1, Cardinality({i \in DOMAIN s : \A j \in 1..i : s[j] \notin Punctuation \cup {" "}}))

NextToken(text) == TokenOf(Trimmed(text))

IsLicense(token) == Len(token) = 1 /\ token[1] \in Licenses

(* simple_expression::parse. For a "+" after a space one piece too little  *)
(* is taken from the text.                                                 *)
LicenseAnd(id, rest) ==
    IF NextToken(rest) = <<"+">> THEN [expr |-> <<id, "+">>, rest |-> Without(rest, 1)]
    ELSE [expr |-> <<id>>, rest |-> rest]

ParseSimple(text) ==
    IF IsLicense(NextToken(text)) THEN LicenseAnd(NextToken(text)[1], Without(Trimmed(text), 1))
    ELSE Refused

(* An expression is kept as its text, so that to_string is in the          *)
(* parser: all that it adds are the spaces around the words.               *)
Spaced(word) == <<" ", word, " ">>

Grouped(inner) == <<"(">> \o inner \o <<")">>

(* compound_expression::parse. A group ends the expression, and the space  *)
(* before the id of an exception is taken for a part of the id.            *)
Closed(inner) ==
    IF inner = Refused THEN Refused
    ELSE IF NextToken(inner.rest) # <<")">> THEN Refused
    ELSE [expr |-> Grouped(inner.expr), rest |-> Without(Trimmed(inner.rest), 1)]

Joined(simple, operator, right) ==
    IF right = Refused THEN Refused
    ELSE [expr |-> simple.expr \o Spaced(operator) \o right.expr, rest |-> right.rest]

Excepted(simple, after) ==
    IF NextToken(after) \notin Exceptions THEN Refused
    ELSE [expr |-> simple.expr \o Spaced("WITH") \o NextToken(after),
          rest |-> Without(after, Len(NextToken(after)))]

RECURSIVE ParseCompound(_)

Continued(simple, operator) ==
    LET after == Without(Trimmed(simple.rest), 1) IN
    CASE operator \in {<<"OR">>, <<"AND">>} -> Joined(simple, operator[1], ParseCompound(after))
      [] operator = <<"WITH">> -> Excepted(simple, after)
      [] OTHER -> simple

ParseCompound(text) ==
    IF NextToken(text) = <<"(">> THEN Closed(ParseCompound(Without(Trimmed(text), 1)))
    ELSE LET simple == ParseSimple(text) IN
         IF simple = Refused THEN Refused ELSE Continued(simple, NextToken(simple.rest))

(* The expression, printed: << >> or the one text.                         *)
Parse(text) ==
    LET parsed == ParseCompound(text) IN
    IF parsed = Refused THEN << >>
    ELSE IF Trimmed(parsed.rest) # << >> THEN << >> ELSE <<parsed.expr>>
-----------------------------------------------------------------------------
Tokens(text) == SelectSeq(text, LAMBDA piece : piece # " ")

(* What is printed of a license is what was written, up to spaces, and is  *)
(* read as the same.                                                       *)
LicensesAreReadBack(text) ==
    \A expr \in ToSet(Parse(text)) : Tokens(expr) = Tokens(text) /\ Parse(expr) = <<expr>>
=============================================================================
