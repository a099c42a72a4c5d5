---------------------------- MODULE SeqNumProofs ----------------------------
(***************************************************************************)
(* Facts about the arithmetic of SeqNum for every modulus and window: the  *)
(* operators on seqnums compute what the same operators on block numbers   *)
(* would, as long as the numbers compared are close enough.                *)
(***************************************************************************)
EXTENDS SeqNum, TLAPS

\* Division by SeqMod, with products the provers can reason about.
LEMMA DivMod ==
    ASSUME NEW a \in Nat
    PROVE  /\ a = SeqMod * (a \div SeqMod) + (a % SeqMod)
           /\ a % SeqMod \in 0 .. SeqMod - 1
           /\ a \div SeqMod \in Nat
<1>1. SeqMod \in Nat \ {0}
  BY SeqNumAssumption, SMT
<1> QED
  BY <1>1, Z3

LEMMA TwiceOrMore ==
    ASSUME NEW k \in Int, k >= 2
    PROVE  SeqMod * k >= 2 * SeqMod
<1>1. SeqMod \in Nat \ {0}
  BY SeqNumAssumption, SMT
<1> QED
  BY <1>1, Z3

LEMMA MinusOneOrLess ==
    ASSUME NEW k \in Int, k <= -1
    PROVE  SeqMod * k <= -SeqMod
<1>1. SeqMod \in Nat \ {0}
  BY SeqNumAssumption, SMT
<1> QED
  BY <1>1, Z3

\* A block number has a seqnum.
LEMMA SeqOfType ==
    ASSUME NEW a \in Nat
    PROVE  SeqOf(a) \in Seqnum
BY DivMod DEF SeqOf, Seqnum

\* The seqnum of a number d places ahead, d less than the modulus.
LEMMA SeqOfAhead ==
    ASSUME NEW a \in Nat, NEW d \in 0 .. SeqMod - 1
    PROVE  SeqOf(a + d) = IF SeqOf(a) + d < SeqMod THEN SeqOf(a) + d
                                                  ELSE SeqOf(a) + d - SeqMod
<1> DEFINE q == a \div SeqMod
           r == a % SeqMod
           p == (a + d) \div SeqMod
           s == (a + d) % SeqMod
<1>0. SeqMod \in Nat \ {0}
  BY SeqNumAssumption, SMT
<1>1. a = SeqMod * q + r /\ r \in 0 .. SeqMod - 1 /\ q \in Int
  BY DivMod
<1>2. a + d = SeqMod * p + s /\ s \in 0 .. SeqMod - 1 /\ p \in Int
  <2>1. a + d \in Nat
    BY <1>0
  <2> QED
    BY <2>1, DivMod
<1>3. SeqMod * (p - q) = r + d - s
  <2> HIDE DEF p, q, r, s
  <2>1. SeqMod * (p - q) = SeqMod * p - SeqMod * q
    BY <1>0, <1>1, <1>2, Z3
  <2> QED
    BY <2>1, <1>0, <1>1, <1>2, Z3
<1> HIDE DEF p, q, r, s
<1>4. p - q <= 1
  <2> SUFFICES ASSUME p - q >= 2 PROVE FALSE
    BY <1>1, <1>2, SMT
  <2>1. SeqMod * (p - q) >= 2 * SeqMod
    BY <1>1, <1>2, TwiceOrMore
  <2> QED
    BY <2>1, <1>0, <1>1, <1>2, <1>3, SMT
<1>5. p - q >= 0
  <2> SUFFICES ASSUME p - q <= -1 PROVE FALSE
    BY <1>1, <1>2, SMT
  <2>1. SeqMod * (p - q) <= -SeqMod
    BY <1>1, <1>2, MinusOneOrLess
  <2> QED
    BY <2>1, <1>0, <1>1, <1>2, <1>3, SMT
<1>6. s = r + d \/ s = r + d - SeqMod
  <2>1. p - q = 0 \/ p - q = 1
    BY <1>1, <1>2, <1>4, <1>5, SMT
  <2>2. CASE p - q = 0
    BY <2>2, <1>0, <1>1, <1>2, <1>3, Z3
  <2>3. CASE p - q = 1
    BY <2>3, <1>0, <1>1, <1>2, <1>3, Z3
  <2> QED
    BY <2>1, <2>2, <2>3
<1>7. s = IF r + d < SeqMod THEN r + d ELSE r + d - SeqMod
  BY <1>6, <1>0, <1>1, <1>2, SMT
<1> QED
  BY <1>7 DEF s, r, SeqOf

\* A seqnum is its own residue.
LEMMA SeqOfSmall ==
    ASSUME NEW s \in Seqnum
    PROVE  SeqOf(s) = s
<1>1. SeqMod \in Nat \ {0} /\ s \in Nat
  BY SeqNumAssumption, SMT DEF Seqnum
<1>2. SeqOf(0) = 0
  BY <1>1, Z3 DEF SeqOf
<1>3. SeqOf(0 + s) = IF SeqOf(0) + s < SeqMod THEN SeqOf(0) + s ELSE SeqOf(0) + s - SeqMod
  BY <1>1, SeqOfAhead DEF Seqnum
<1> QED
  BY <1>1, <1>2, <1>3, SMT DEF Seqnum

\* The place n after a seqnum, n less than the modulus: the (s + n) % 256 of the
\* two programs, on seqnums and on block numbers.
LEMMA SeqOfPlus ==
    ASSUME NEW a \in Nat, NEW n \in 0 .. SeqMod - 1
    PROVE  (SeqOf(a) + n) % SeqMod = SeqOf(a + n)
<1>1. SeqOf(a) \in Seqnum /\ SeqOf(a) \in Nat /\ SeqMod \in Nat
  BY SeqOfType, SeqNumAssumption, SMT DEF Seqnum
<1>2. SeqOf(SeqOf(a)) = SeqOf(a)
  BY <1>1, SeqOfSmall
<1>3. SeqOf(a + n) = IF SeqOf(a) + n < SeqMod THEN SeqOf(a) + n ELSE SeqOf(a) + n - SeqMod
  BY SeqOfAhead
<1>4. SeqOf(SeqOf(a) + n) = IF SeqOf(SeqOf(a)) + n < SeqMod THEN SeqOf(SeqOf(a)) + n
                                               ELSE SeqOf(SeqOf(a)) + n - SeqMod
  BY <1>1, SeqOfAhead
<1>5. SeqOf(SeqOf(a) + n) = SeqOf(a + n)
  BY <1>2, <1>3, <1>4
<1> QED
  BY <1>5 DEF SeqOf

\* The next seqnum (sender.c's and server.c's increment).
LEMMA NextSeqOf ==
    ASSUME NEW a \in Nat
    PROVE  NextSeq(SeqOf(a)) = SeqOf(a + 1)
<1>1. 1 \in 0 .. SeqMod - 1
  BY SeqNumAssumption, SMT
<1> QED
  BY <1>1, SeqOfPlus DEF NextSeq

\* The seqnum before, at 0 too (read_write_loop_sender.c:151).
LEMMA PrevSeqOf ==
    ASSUME NEW a \in Nat
    PROVE  PrevSeq(SeqOf(a + 1)) = SeqOf(a)
<1>1. SeqOf(a + 1) = IF SeqOf(a) + 1 < SeqMod THEN SeqOf(a) + 1 ELSE SeqOf(a) + 1 - SeqMod
  <2>1. 1 \in 0 .. SeqMod - 1
    BY SeqNumAssumption, SMT
  <2> QED
    BY <2>1, SeqOfAhead
<1>2. SeqOf(a) \in 0 .. SeqMod - 1 /\ SeqMod \in Nat
  BY SeqOfType, SeqNumAssumption DEF Seqnum
<1> QED
  BY <1>1, <1>2, SMT DEF PrevSeq

\* ind() of a packet ahead of the one waited for, and of one behind it.
THEOREM IndAhead ==
    ASSUME NEW a \in Nat, NEW d \in 0 .. SeqMod - 1
    PROVE  Ind(SeqOf(a + d), SeqOf(a)) = d
<1>1. SeqOf(a + d) = IF SeqOf(a) + d < SeqMod THEN SeqOf(a) + d ELSE SeqOf(a) + d - SeqMod
  BY SeqOfAhead
<1>2. SeqOf(a) \in 0 .. SeqMod - 1 /\ SeqMod \in Nat
  BY SeqOfType, SeqNumAssumption DEF Seqnum
<1> QED
  BY <1>1, <1>2, SMT DEF Ind

THEOREM IndBehind ==
    ASSUME NEW a \in Nat, NEW d \in 1 .. SeqMod - 1
    PROVE  Ind(SeqOf(a), SeqOf(a + d)) = SeqMod - d
<1>1. SeqOf(a + d) = IF SeqOf(a) + d < SeqMod THEN SeqOf(a) + d ELSE SeqOf(a) + d - SeqMod
  BY SeqOfAhead, SeqNumAssumption, SMT
<1>2. SeqOf(a) \in 0 .. SeqMod - 1 /\ SeqMod \in Nat
  BY SeqOfType, SeqNumAssumption DEF Seqnum
<1> QED
  BY <1>1, <1>2, SMT DEF Ind

\* Two block numbers less than SeqMod apart have different seqnums.
THEOREM SeqOfInjective ==
    ASSUME NEW a \in Nat, NEW d \in 1 .. SeqMod - 1
    PROVE  SeqOf(a + d) # SeqOf(a)
<1>1. SeqOf(a + d) = IF SeqOf(a) + d < SeqMod THEN SeqOf(a) + d ELSE SeqOf(a) + d - SeqMod
  BY SeqOfAhead, SeqNumAssumption, SMT
<1>2. SeqOf(a) \in 0 .. SeqMod - 1 /\ SeqMod \in Nat
  BY SeqOfType, SeqNumAssumption DEF Seqnum
<1> QED
  BY <1>1, <1>2, SMT

\* in_window() and ind(), written apart in two files, compute the same distance.
THEOREM InWindowIsInd ==
    ASSUME NEW waited \in Seqnum, NEW received \in Seqnum
    PROVE  InWindow(waited, received) <=> Ind(received, waited) <= AcceptSpan
BY SeqNumAssumption, SMT DEF InWindow, Ind, Seqnum

\* is_higher_or_equal() refuses to read an acknowledgement at most AckGap (and
\* less than SeqMod - AckGap) behind the head of the window as one of the future.
THEOREM OldAckIsOld ==
    ASSUME NEW a \in Nat, NEW d \in 1 .. SeqMod - 1,
           d <= AckGap, d + AckGap < SeqMod
    PROVE  ~IsHigherOrEqual(SeqOf(a), SeqOf(a + d))
<1>1. SeqOf(a + d) = IF SeqOf(a) + d < SeqMod THEN SeqOf(a) + d ELSE SeqOf(a) + d - SeqMod
  BY SeqOfAhead, SeqNumAssumption, SMT
<1>2. SeqOf(a) \in 0 .. SeqMod - 1 /\ SeqMod \in Nat /\ AckGap \in Nat
  BY SeqOfType, SeqNumAssumption DEF Seqnum
<1> QED
  BY <1>1, <1>2, SMT DEF IsHigherOrEqual

\* ... and reads one that reaches less than a window ahead of the head as covering it.
THEOREM NewAckCovers ==
    ASSUME NEW a \in Nat, NEW d \in 0 .. MaxWindow - 1
    PROVE  IsHigherOrEqual(SeqOf(a + d), SeqOf(a))
<1>1. d \in 0 .. SeqMod - 1
  BY SeqNumAssumption, SMT
<1>2. SeqOf(a + d) = IF SeqOf(a) + d < SeqMod THEN SeqOf(a) + d ELSE SeqOf(a) + d - SeqMod
  BY <1>1, SeqOfAhead
<1>3. SeqOf(a) \in 0 .. SeqMod - 1
  BY SeqOfType DEF Seqnum
<1> QED
  BY <1>2, <1>3, SeqNumAssumption, SMT DEF IsHigherOrEqual
=============================================================================
