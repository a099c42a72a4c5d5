------------------------------ MODULE MCSeqNum ------------------------------
(***************************************************************************)
(* The arithmetic of SeqNum checked against modular distance on every pair *)
(* of seqnums, with the constants of the program.                          *)
(***************************************************************************)
EXTENDS SeqNum

VARIABLES ref, other     \* two seqnums

vars == <<ref, other>>

Init == ref \in Seqnum /\ other \in Seqnum

\* Both counters move on together, as a transfer moves them.
Next == ref' = NextSeq(ref) /\ other' = NextSeq(other)

Spec == Init /\ [][Next]_vars

\* How many increments lead from a to b.
Dist(a, b) == (b - a) % SeqMod

\* The largest distance behind the window at which an acknowledgement is
\* still read as old (155 is the other limit in the program).
StaleReach == IF AckGap <= SeqMod - AckGap - 1 THEN AckGap ELSE SeqMod - AckGap - 1

\* sorted_list.c ind(): the index a packet gets in the receiver's array is its
\* distance from the awaited seqnum, across the wrap of the byte as well.
IndIsDistance == Ind(other, ref) = Dist(ref, other)

\* read_write_loop_server.c in_window(): a packet is accepted exactly when the
\* index ind() gives it is at most AcceptSpan; the two are computed by different
\* code, with and without a cast to a byte.
InWindowAgreesWithInd == InWindow(ref, other) <=> Ind(other, ref) <= AcceptSpan

\* queue.c is_higher_or_equal(): an acknowledgement whose last covered seqnum is
\* less than a window ahead of the head covers it, and one that is at most
\* StaleReach behind does not; the gap of AckGap makes both right at the wrap.
AckCoversIffAhead ==
    /\ Dist(ref, other) < MaxWindow => IsHigherOrEqual(other, ref)
    /\ Dist(other, ref) \in 1 .. StaleReach => ~IsHigherOrEqual(other, ref)

\* read_write_loop_sender.c:151: the seqnum an acknowledgement covers is the one
\* whose successor it names, at 0 too.
PrevIsInverse == [][PrevSeq(ref') = ref]_vars
=============================================================================
