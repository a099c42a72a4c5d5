--------------------------- MODULE MCSeqNumProofs ---------------------------
(***************************************************************************)
(* The comparisons of bytes against distance on the circle, for every      *)
(* modulus and window that satisfies SeqNumAssumption: what TLC finds for  *)
(* the constants of the program.                                           *)
(***************************************************************************)
EXTENDS MCSeqNum, TLAPS

LEMMA Constants ==
    /\ SeqMod \in Nat /\ MaxWindow \in Nat /\ MaxWindow >= 1
    /\ AcceptSpan \in Nat /\ AckGap \in Nat
    /\ AcceptSpan + MaxWindow < SeqMod /\ MaxWindow <= AckGap + 1
    /\ AckGap + MaxWindow < SeqMod + 1
BY SeqNumAssumption

\* The remainder of a number less than a modulus away from the range of one.
LEMMA Modulo ==
    ASSUME NEW m \in Nat, m >= 1, NEW x \in Int, -m < x, x < 2 * m
    PROVE  x % m = IF x < 0 THEN x + m ELSE IF x < m THEN x ELSE x - m
<1>1. PICK q \in Int, r \in 0 .. m - 1 : r = x % m /\ x = m * q + r
  OBVIOUS
<1>2. CASE q <= -2
  BY <1>1, <1>2
<1>3. CASE q >= 2
  BY <1>1, <1>3
<1>4. CASE q = -1
  BY <1>1, <1>4
<1>5. CASE q = 0
  BY <1>1, <1>5
<1>6. CASE q = 1
  BY <1>1, <1>6
<1> QED
  BY <1>1, <1>2, <1>3, <1>4, <1>5, <1>6

\* The distance between two bytes.
LEMMA DistIs ==
    ASSUME NEW a \in Seqnum, NEW b \in Seqnum
    PROVE  Dist(a, b) = IF a <= b THEN b - a ELSE b - a + SeqMod
<1>1. PICK m \in Nat : m = SeqMod /\ m >= 1
  BY Constants
<1>2. a \in 0 .. m - 1 /\ b \in 0 .. m - 1
  BY <1>1 DEF Seqnum
<1>3. b - a \in Int /\ -m < b - a /\ b - a < m
  BY <1>1, <1>2
<1>4. (b - a) % m = IF b - a < 0 THEN b - a + m ELSE b - a
  BY <1>1, <1>3, Modulo
<1> QED
  BY <1>1, <1>2, <1>4 DEF Dist

LEMMA NextSeqIs ==
    ASSUME NEW s \in Seqnum
    PROVE  /\ NextSeq(s) \in Seqnum
           /\ NextSeq(s) = IF s = SeqMod - 1 THEN 0 ELSE s + 1
<1>1. PICK m \in Nat : m = SeqMod /\ m >= 1
  BY Constants
<1>2. s \in 0 .. m - 1
  BY <1>1 DEF Seqnum
<1>3. PICK x \in Int : x = s + 1 /\ 0 <= x /\ x <= m
  BY <1>1, <1>2
<1>4. -m < x /\ x < 2 * m
  BY <1>1, <1>3
<1>5. x % m = IF x < m THEN x ELSE x - m
  BY <1>1, <1>3, <1>4, Modulo
<1> QED
  BY <1>1, <1>2, <1>3, <1>5 DEF NextSeq, Seqnum

Bytes == ref \in Seqnum /\ other \in Seqnum

LEMMA BytesHold == Spec => []Bytes
<1>1. Init => Bytes
  BY DEF Init, Bytes
<1>2. Bytes /\ [Next]_vars => Bytes'
  BY NextSeqIs DEF Bytes, Next, vars
<1> QED
  BY <1>1, <1>2, PTL DEF Spec

\* sorted_list.c ind(): the index of a packet is its distance from the awaited seqnum.
THEOREM IndDistance == Spec => []IndIsDistance
<1>1. Bytes => IndIsDistance
  <2> SUFFICES ASSUME Bytes
               PROVE  Ind(other, ref) = Dist(ref, other)
    BY DEF IndIsDistance
  <2>1. Dist(ref, other) = IF ref <= other THEN other - ref ELSE other - ref + SeqMod
    BY DistIs DEF Bytes
  <2> QED
    BY <2>1, Constants DEF Bytes, Seqnum, Ind
<1> QED
  BY <1>1, BytesHold, PTL

\* read_write_loop_server.c:13-19 and sorted_list.c:8-12: in_window() accepts a packet
\* if and only if ind() gives it an index of at most AcceptSpan.
THEOREM InWindowAgrees == Spec => []InWindowAgreesWithInd
<1>1. Bytes => InWindowAgreesWithInd
  BY Constants DEF Bytes, Seqnum, InWindowAgreesWithInd, InWindow, Ind
<1> QED
  BY <1>1, BytesHold, PTL

\* queue.c is_higher_or_equal(): an acknowledgement less than a window ahead covers the
\* head, one at most StaleReach behind it does not.
THEOREM AckCovers == Spec => []AckCoversIffAhead
<1>1. Bytes => AckCoversIffAhead
  <2> SUFFICES ASSUME Bytes
               PROVE  AckCoversIffAhead
    OBVIOUS
  <2>1. Dist(ref, other) = IF ref <= other THEN other - ref ELSE other - ref + SeqMod
    BY DistIs DEF Bytes
  <2>2. Dist(other, ref) = IF other <= ref THEN ref - other ELSE ref - other + SeqMod
    BY DistIs DEF Bytes
  <2>3. /\ ref \in Int /\ 0 <= ref /\ ref < SeqMod
        /\ other \in Int /\ 0 <= other /\ other < SeqMod
    BY Constants DEF Bytes, Seqnum
  <2>4. StaleReach <= AckGap /\ StaleReach <= SeqMod - AckGap - 1 /\ StaleReach \in Int
    BY Constants DEF StaleReach
  <2>5. Dist(ref, other) < MaxWindow => IsHigherOrEqual(other, ref)
    BY <2>1, <2>3, Constants DEF IsHigherOrEqual
  <2>6. Dist(other, ref) \in 1 .. StaleReach => ~IsHigherOrEqual(other, ref)
    BY <2>2, <2>3, <2>4, Constants DEF IsHigherOrEqual
  <2> QED
    BY <2>5, <2>6 DEF AckCoversIffAhead
<1> QED
  BY <1>1, BytesHold, PTL

\* read_write_loop_sender.c:151: the seqnum an acknowledgement covers is the one before
\* the seqnum it names, at 0 too.
THEOREM PrevInvertsNext == Spec => PrevIsInverse
<1>1. Bytes /\ [Next]_vars => [PrevSeq(ref') = ref]_vars
  <2> SUFFICES ASSUME Bytes, Next
               PROVE  PrevSeq(ref') = ref
    OBVIOUS
  <2>1. ref' = IF ref = SeqMod - 1 THEN 0 ELSE ref + 1
    BY NextSeqIs DEF Bytes, Next
  <2> QED
    BY <2>1, Constants DEF Bytes, Seqnum, PrevSeq
<1> QED
  BY <1>1, BytesHold, PTL DEF Spec, PrevIsInverse
=============================================================================
