------------------------------ MODULE StdString -----------------------------
(***************************************************************************)
(* What the parser, the router and the formatter use of std::string: a     *)
(* text is a sequence of characters, and find() looks for a part of it.    *)
(***************************************************************************)
EXTENDS Naturals, Sequences

(* The places, from a position on, where the text part is.                 *)
Occurrences(text, part, from) ==
    {i \in from..(Len(text) + 1 - Len(part)) : SubSeq(text, i, i + Len(part) - 1) = part}

Has(text, part) == Occurrences(text, part, 1) # {}

(* The one that find() returns, if there is any.                           *)
First(places) == CHOOSE i \in places : \A j \in places : i <= j
=============================================================================
