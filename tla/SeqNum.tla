------------------------------- MODULE SeqNum -------------------------------
(***************************************************************************)
(* The sequence-number arithmetic both programs share.  A seqnum is one    *)
(* byte on the wire, and four comparisons are built on it: the two         *)
(* increments, the index of a packet in the receiver's window, the test    *)
(* that a packet is in that window, and the test that an acknowledgement   *)
(* covers a packet of the sender's window.                                 *)
(*                                                                         *)
(* In the program SeqMod = 256, MaxWindow = 31 (MAX_WINDOW_SIZE),          *)
(* AcceptSpan = 32 (the literal of in_window) and AckGap = 100 (the        *)
(* literal of is_higher_or_equal).                                         *)
(***************************************************************************)
EXTENDS Integers

CONSTANTS SeqMod, MaxWindow, AcceptSpan, AckGap

\* What the correctness of the protocol needs of the four numbers; the
\* program's values 256, 31, 32 and 100 satisfy it.
ASSUME SeqNumAssumption ==
    /\ SeqMod \in Nat /\ MaxWindow \in Nat \ {0}
    /\ AcceptSpan \in Nat /\ AckGap \in Nat
    /\ MaxWindow <= AcceptSpan
    /\ AcceptSpan + MaxWindow < SeqMod
    /\ MaxWindow <= AckGap + 1
    /\ AckGap + MaxWindow < SeqMod + 1

Seqnum == 0 .. SeqMod - 1

\* The seqnum of the packet that carries block number n + 1 of the input.
SeqOf(n) == n % SeqMod

\* Faulty variants of the definition that follows them, here and in the other
\* modules, have names in ...Bug: the properties are tested by putting them in its
\* place.  These two forget the wrap-around, and wrap one too early.
NextSeqBug(s) == s + 1
NextSeqEarlyBug(s) == (s + 1) % (SeqMod - 1)

NextSeq(s) == (s + 1) % SeqMod

\* No wrap-around; and the seqnum acknowledged taken for the last one covered.
PrevSeqBug(s) == s - 1
PrevSeqSameBug(s) == s

\* The last seqnum an acknowledgement of s covers.
PrevSeq(s) == IF s # 0 THEN s - 1 ELSE SeqMod - 1

\* The byte wraps at 255 instead of 256.
IndBug(toPlace, waited) ==
    LET diff == toPlace - waited IN IF diff < 0 THEN diff + SeqMod - 1 ELSE diff

\* How far toPlace is ahead of waited.
Ind(toPlace, waited) ==
    LET diff == toPlace - waited IN IF diff < 0 THEN diff + SeqMod ELSE diff

\* No window across the wrap-around.
InWindowBug(waited, received) == received >= waited /\ received - waited <= AcceptSpan

\* Is received at most AcceptSpan ahead of waited?
InWindow(waited, received) ==
    IF received >= waited THEN received - waited <= AcceptSpan
                          ELSE SeqMod + received - waited <= AcceptSpan

\* No gap, so no wrap-around; and a strict comparison.
IsHigherOrEqualBug(seqnum, ref) == seqnum >= ref
IsHigherBug(seqnum, ref) ==
    \/ ref - seqnum > AckGap
    \/ seqnum > ref /\ ~(seqnum - ref > AckGap)

\* Does an acknowledgement up to seqnum cover the packet ref?  A gap above
\* AckGap is read as a wrap-around of the counter.
IsHigherOrEqual(seqnum, ref) ==
    \/ ref - seqnum > AckGap
    \/ seqnum >= ref /\ ~(seqnum - ref > AckGap)
=============================================================================
