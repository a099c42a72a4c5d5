---------------------------- MODULE ReorderBuffer ----------------------------
(***************************************************************************)
(* What the receiver's list of early packets promises, without an array:   *)
(* a set of seqnums ahead of the one expected.  When the expected packet   *)
(* comes, it and all that follow it without a gap leave at once.           *)
(***************************************************************************)
EXTENDS Integers

CONSTANTS SeqMod, Capacity

VARIABLES expected, kept

vars == <<expected, kept>>

Ahead(n) == (expected + n) % SeqMod

Init == expected = 0 /\ kept = {}

\* Early packets only; one that is kept already changes nothing.
Put ==
    /\ \E n \in 1 .. Capacity - 1 : kept' = kept \cup {Ahead(n)}
    /\ UNCHANGED expected

\* n packets follow the expected one; the one after them is missing.
Advance ==
    \E n \in 0 .. Capacity - 1 :
        /\ \A i \in 1 .. n : Ahead(i) \in kept
        /\ Ahead(n + 1) \notin kept
        /\ expected' = Ahead(n + 1)
        /\ kept' = kept \ {Ahead(i) : i \in 1 .. n}

Next == Put \/ Advance

Spec == Init /\ [][Next]_vars
=============================================================================
