------------------------------- MODULE Picks -------------------------------
(***************************************************************************)
(* A list comprehension with a condition, as a recursive function: what    *)
(* SelectSeq does, in a form that can be reasoned about.                   *)
(***************************************************************************)
EXTENDS Integers, Sequences

\* Those of the entries that belong to the set, in their order.
Chosen(seq, those) ==
    LET upto[n \in 0 .. Len(seq)] ==
            IF n = 0 THEN <<>> ELSE IF seq[n] \in those THEN Append(upto[n - 1], seq[n]) ELSE upto[n - 1]
    IN  upto[Len(seq)]
=============================================================================
