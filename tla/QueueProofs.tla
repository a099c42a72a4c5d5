----------------------------- MODULE QueueProofs -----------------------------
(***************************************************************************)
(* The sender's ring of slots, for every modulus and window: it holds the  *)
(* packets added last, get() is the search FirstMatch() on them, and an    *)
(* ACK takes off what CoversExactly() says.                                *)
(***************************************************************************)
EXTENDS Queue, TLAPS, SequenceTheorems, WellFoundedInduction

LEMMA Sizes ==
    /\ SeqMod \in Nat \ {0} /\ MaxWindow \in Nat \ {0} /\ 2 * MaxWindow < SeqMod
    /\ Slots = 0 .. MaxWindow - 1 /\ Seqnum = 0 .. SeqMod - 1 /\ 0 \in Slots /\ 0 \in Seqnum
BY SeqNumAssumption, SMT DEF Slots, Seqnum

LEMMA TwiceOrMore ==
    ASSUME NEW m \in Nat \ {0}, NEW k \in Int, k >= 2
    PROVE  m * k >= 2 * m
BY Z3

LEMMA MinusTwoOrLess ==
    ASSUME NEW m \in Nat \ {0}, NEW k \in Int, k <= -2
    PROVE  m * k <= -(2 * m)
BY Z3

\* The remainder of a number less than one modulus away from its range.
LEMMA ModNear ==
    ASSUME NEW m \in Nat \ {0}, NEW a \in Int, -m <= a, a < 2 * m
    PROVE  a % m = IF a < 0 THEN a + m ELSE IF a < m THEN a ELSE a - m
<1> DEFINE q == a \div m
           r == a % m
<1>1. a = m * q + r /\ r \in 0 .. m - 1 /\ q \in Int
  BY Z3
<1> HIDE DEF q, r
<1>2. q < 2
  <2> SUFFICES ASSUME q >= 2 PROVE FALSE
    BY <1>1, SMT
  <2>1. m * q >= 2 * m
    BY <1>1, TwiceOrMore
  <2> QED
    BY <1>1, <2>1, SMT
<1>3. q > -2
  <2> SUFFICES ASSUME q <= -2 PROVE FALSE
    BY <1>1, SMT
  <2>1. m * q <= -(2 * m)
    BY <1>1, MinusTwoOrLess
  <2> QED
    BY <1>1, <2>1, SMT
<1>4. q = -1 \/ q = 0 \/ q = 1
  BY <1>1, <1>2, <1>3, SMT
<1>5. r = IF a < 0 THEN a + m ELSE IF a < m THEN a ELSE a - m
  <2>1. CASE q = -1
    BY <1>1, <2>1, Z3
  <2>2. CASE q = 0
    BY <1>1, <2>2, Z3
  <2>3. CASE q = 1
    BY <1>1, <2>3, Z3
  <2> QED
    BY <1>4, <2>1, <2>2, <2>3
<1> QED
  BY <1>5 DEF r
\* The slot after a slot.
LEMMA NextSlotIs ==
    ASSUME NEW i \in Slots
    PROVE  /\ NextSlot(i) = IF i + 1 < MaxWindow THEN i + 1 ELSE 0
           /\ NextSlot(i) \in Slots
<1>1. PICK a \in Int : a = i + 1 /\ -MaxWindow <= a /\ a < 2 * MaxWindow
  BY Sizes, SMT
<1>2. a % MaxWindow = IF a < 0 THEN a + MaxWindow ELSE IF a < MaxWindow THEN a ELSE a - MaxWindow
  BY <1>1, Sizes, ModNear
<1> QED
  BY <1>1, <1>2, Sizes, SMT DEF NextSlot

\* The place of slot i in a queue whose head is in slot p, the slot of its n-th packet,
\* and the seqnum of the n-th of k packets before the one numbered x.
Pos(p, i) == ((i - p) % MaxWindow) + 1
At(p, n) == (p + n - 1) % MaxWindow
SeqnumAt(x, k, n) == (x - k + n - 1) % SeqMod

LEMMA PosIs ==
    ASSUME NEW p \in Slots, NEW i \in Slots
    PROVE  /\ Pos(p, i) = IF i >= p THEN i - p + 1 ELSE i - p + MaxWindow + 1
           /\ Pos(p, i) \in 1 .. MaxWindow
<1>1. PICK a \in Int : a = i - p /\ -MaxWindow <= a /\ a < 2 * MaxWindow
  BY Sizes, SMT
<1>2. a % MaxWindow = IF a < 0 THEN a + MaxWindow ELSE IF a < MaxWindow THEN a ELSE a - MaxWindow
  BY <1>1, Sizes, ModNear
<1> QED
  BY <1>1, <1>2, Sizes, SMT DEF Pos

LEMMA AtIs ==
    ASSUME NEW p \in Slots, NEW n \in 1 .. MaxWindow + 1
    PROVE  /\ At(p, n) = IF p + n - 1 < MaxWindow THEN p + n - 1 ELSE p + n - 1 - MaxWindow
           /\ At(p, n) \in Slots
<1>1. PICK a \in Int : a = p + n - 1 /\ -MaxWindow <= a /\ a < 2 * MaxWindow
  BY Sizes, SMT
<1>2. a % MaxWindow = IF a < 0 THEN a + MaxWindow ELSE IF a < MaxWindow THEN a ELSE a - MaxWindow
  BY <1>1, Sizes, ModNear
<1> QED
  BY <1>1, <1>2, Sizes, SMT DEF At

\* The two undo each other.
LEMMA AtPos ==
    ASSUME NEW p \in Slots
    PROVE  /\ \A i \in Slots : At(p, Pos(p, i)) = i
           /\ \A n \in 1 .. MaxWindow : Pos(p, At(p, n)) = n
<1>1. ASSUME NEW i \in Slots PROVE At(p, Pos(p, i)) = i
  <2> DEFINE n == Pos(p, i)
  <2>1. /\ n = IF i >= p THEN i - p + 1 ELSE i - p + MaxWindow + 1
        /\ n \in 1 .. MaxWindow
    BY PosIs
  <2> HIDE DEF n
  <2>2. n \in 1 .. MaxWindow + 1
    BY <2>1, Sizes, SMT
  <2>3. At(p, n) = IF p + n - 1 < MaxWindow THEN p + n - 1 ELSE p + n - 1 - MaxWindow
    BY <2>2, AtIs
  <2>4. At(p, n) = i
    BY <2>1, <2>3, Sizes, SMT
  <2> QED
    BY <2>4 DEF n
<1>2. ASSUME NEW n \in 1 .. MaxWindow PROVE Pos(p, At(p, n)) = n
  <2>1. n \in 1 .. MaxWindow + 1
    BY Sizes, SMT
  <2> DEFINE i == At(p, n)
  <2>2. /\ i = IF p + n - 1 < MaxWindow THEN p + n - 1 ELSE p + n - 1 - MaxWindow
        /\ i \in Slots
    BY <2>1, AtIs
  <2> HIDE DEF i
  <2>3. Pos(p, i) = IF i >= p THEN i - p + 1 ELSE i - p + MaxWindow + 1
    BY <2>2, PosIs
  <2>4. Pos(p, i) = n
    BY <2>2, <2>3, Sizes, SMT
  <2> QED
    BY <2>4 DEF i
<1> QED
  BY <1>1, <1>2

LEMMA SeqnumAtIs ==
    ASSUME NEW x \in Seqnum, NEW k \in 0 .. MaxWindow, NEW n \in 0 .. MaxWindow
    PROVE  /\ SeqnumAt(x, k, n) = IF x - k + n - 1 < 0 THEN x - k + n - 1 + SeqMod
                                 ELSE IF x - k + n - 1 < SeqMod THEN x - k + n - 1
                                 ELSE x - k + n - 1 - SeqMod
           /\ SeqnumAt(x, k, n) \in Seqnum
<1>1. PICK a \in Int : a = x - k + n - 1 /\ -SeqMod <= a /\ a < 2 * SeqMod
  BY Sizes, SMT
<1>2. a % SeqMod = IF a < 0 THEN a + SeqMod ELSE IF a < SeqMod THEN a ELSE a - SeqMod
  BY <1>1, Sizes, ModNear
<1> QED
  BY <1>1, <1>2, Sizes, SMT DEF SeqnumAt

LEMMA NextSeqIs ==
    ASSUME NEW s \in Seqnum
    PROVE  NextSeq(s) = (IF s + 1 < SeqMod THEN s + 1 ELSE 0) /\ NextSeq(s) \in Seqnum
<1>1. PICK a \in Int : a = s + 1 /\ -SeqMod <= a /\ a < 2 * SeqMod
  BY Sizes, SMT
<1>2. a % SeqMod = IF a < 0 THEN a + SeqMod ELSE IF a < SeqMod THEN a ELSE a - SeqMod
  BY <1>1, Sizes, ModNear
<1> QED
  BY <1>1, <1>2, Sizes, SMT DEF NextSeq

\* What a ring r holds in slot i when k packets lie in it from slot p on and x is the
\* next seqnum.
Holds(r, p, k, x, i) ==
    r[i] = IF Pos(p, i) <= k THEN [seqnum |-> SeqnumAt(x, k, Pos(p, i))] ELSE Null

\* RingHoldsLast slot by slot.
LEMMA SlotBySlot ==
    ASSUME NEW r, NEW p \in Slots, NEW k \in 0 .. MaxWindow, NEW x
    PROVE  (/\ \A n \in 1 .. k : r[At(p, n)] = [seqnum |-> SeqnumAt(x, k, n)]
            /\ \A i \in Slots : Pos(p, i) > k => r[i] = Null)
           <=> \A i \in Slots : Holds(r, p, k, x, i)
<1>1. \A n \in 1 .. k : n \in 1 .. MaxWindow /\ n \in 1 .. MaxWindow + 1
  BY Sizes, SMT
<1>2. ASSUME \A n \in 1 .. k : r[At(p, n)] = [seqnum |-> SeqnumAt(x, k, n)],
             \A i \in Slots : Pos(p, i) > k => r[i] = Null,
             NEW i \in Slots
      PROVE  Holds(r, p, k, x, i)
  <2>1. Pos(p, i) \in 1 .. MaxWindow
    BY PosIs
  <2>2. CASE Pos(p, i) <= k
    <3>1. Pos(p, i) \in 1 .. k
      BY <2>1, <2>2, Sizes, SMT
    <3>2. At(p, Pos(p, i)) = i
      BY AtPos
    <3> QED
      BY <1>2, <2>2, <3>1, <3>2 DEF Holds
  <2>3. CASE ~(Pos(p, i) <= k)
    <3>1. Pos(p, i) > k
      BY <2>1, <2>3, Sizes, SMT
    <3> QED
      BY <1>2, <2>3, <3>1 DEF Holds
  <2> QED
    BY <2>2, <2>3
<1>3. ASSUME \A i \in Slots : Holds(r, p, k, x, i), NEW n \in 1 .. k
      PROVE  r[At(p, n)] = [seqnum |-> SeqnumAt(x, k, n)]
  <2>1. At(p, n) \in Slots /\ Pos(p, At(p, n)) = n /\ n <= k
    BY <1>1, AtIs, AtPos
  <2> QED
    BY <1>3, <2>1 DEF Holds
<1>4. ASSUME \A i \in Slots : Holds(r, p, k, x, i), NEW i \in Slots, Pos(p, i) > k
      PROVE  r[i] = Null
  <2>0. Pos(p, i) \in 1 .. MaxWindow
    BY PosIs
  <2>1. ~(Pos(p, i) <= k)
    BY <1>4, <2>0, Sizes, SMT
  <2> QED
    BY <1>4, <2>1 DEF Holds
<1> QED
  BY <1>2, <1>3, <1>4

LEMMA RingSlots ==
    ASSUME ptrPop \in Slots, size \in 0 .. MaxWindow
    PROVE  RingHoldsLast <=> \A i \in Slots : Holds(ring, ptrPop, size, next, i)
<1>1. RingHoldsLast <=>
          /\ \A n \in 1 .. size : ring[At(ptrPop, n)] = [seqnum |-> SeqnumAt(next, size, n)]
          /\ \A i \in Slots : Pos(ptrPop, i) > size => ring[i] = Null
  BY DEF RingHoldsLast, Content, Position, Pos, At, SeqnumAt
<1> QED
  BY <1>1, SlotBySlot

LEMMA RingSlotsNext ==
    ASSUME ptrPop' \in Slots, size' \in 0 .. MaxWindow
    PROVE  RingHoldsLast' <=> \A i \in Slots : Holds(ring', ptrPop', size', next', i)
<1>1. RingHoldsLast' <=>
          /\ \A n \in 1 .. size' : ring'[At(ptrPop', n)] = [seqnum |-> SeqnumAt(next', size', n)]
          /\ \A i \in Slots : Pos(ptrPop', i) > size' => ring'[i] = Null
  BY DEF RingHoldsLast, Content, Position, Pos, At, SeqnumAt
<1> QED
  BY <1>1, SlotBySlot

\* What the queue holds is a sequence of packets.
LEMMA ContentType ==
    ASSUME TypeOK, RingHoldsLast
    PROVE  /\ Content \in Seq(Pkt) /\ Len(Content) = size
           /\ \A i \in Slots : Position(i) <= size =>
                 /\ ring[i] \in Pkt /\ ring[i] # Null /\ Position(i) \in 1 .. size
                 /\ Content[Position(i)] = ring[i]
           /\ \A i \in Slots : ring[i] # Null => Position(i) <= size
<1>1. ptrPop \in Slots /\ size \in 0 .. MaxWindow /\ next \in Seqnum
  BY DEF TypeOK
<1>2. \A i \in Slots : Holds(ring, ptrPop, size, next, i) /\ Position(i) = Pos(ptrPop, i)
  BY <1>1, RingSlots DEF Position, Pos
<1>3. Content = [n \in 1 .. size |-> ring[At(ptrPop, n)]]
  BY DEF Content, At
<1>4. ASSUME NEW i \in Slots, Position(i) <= size
      PROVE  /\ ring[i] \in Pkt /\ ring[i] # Null /\ Position(i) \in 1 .. size
             /\ Content[Position(i)] = ring[i]
  <2>1. Position(i) \in 1 .. MaxWindow
    BY <1>1, <1>2, PosIs
  <2>2. Position(i) \in 0 .. MaxWindow /\ Position(i) \in 1 .. size
    BY <1>1, <1>4, <2>1, Sizes, SMT
  <2>3. /\ ring[i] = [seqnum |-> SeqnumAt(next, size, Position(i))]
        /\ SeqnumAt(next, size, Position(i)) \in Seqnum
    BY <1>1, <1>2, <1>4, <2>2, SeqnumAtIs DEF Holds
  <2>4. ring[i] \in Pkt
    BY <2>3 DEF Pkt
  <2>5. Content[Position(i)] = ring[i]
    BY <1>1, <1>2, <1>3, <2>2, AtPos
  <2> QED
    BY <2>2, <2>4, <2>5, NullAssumption
<1>5. ASSUME NEW n \in 1 .. size
      PROVE  ring[At(ptrPop, n)] \in Pkt
  <2>1. n \in 1 .. MaxWindow /\ n \in 1 .. MaxWindow + 1
    BY <1>1, Sizes, SMT
  <2>2. /\ At(ptrPop, n) \in Slots /\ Position(At(ptrPop, n)) = n /\ n <= size
    BY <1>1, <1>2, <2>1, AtIs, AtPos
  <2> QED
    BY <1>4, <2>2
<1>6. Content \in Seq(Pkt) /\ Len(Content) = size
  <2>1. size \in Nat
    BY <1>1, Sizes, SMT
  <2> QED
    BY <1>3, <1>5, <2>1
<1>7. \A i \in Slots : ring[i] # Null => Position(i) <= size
  BY <1>2 DEF Holds
<1> QED
  BY <1>4, <1>6, <1>7
----------------------------------------------------------------------------
LEMMA InitQueue == Init => LoopInv
<1> SUFFICES ASSUME Init PROVE LoopInv
  OBVIOUS
<1>1. /\ ring = [i \in Slots |-> Null] /\ size = 0 /\ ptrAdd = 0 /\ ptrPop = 0
      /\ next = 0 /\ ack = Null /\ search = Null
  BY DEF Init
<1>2. TypeOK
  <2>1. 0 \in 0 .. MaxWindow
    BY Sizes, SMT
  <2> QED
    BY <1>1, <2>1, Sizes DEF TypeOK
<1>3. RingHoldsLast
  BY <1>1, SMT DEF RingHoldsLast
<1>4. ptrAdd = (ptrPop + size) % MaxWindow
  <2>1. PICK a \in Int : a = 0 /\ -MaxWindow <= a /\ a < 2 * MaxWindow /\ a < MaxWindow
    BY Sizes, SMT
  <2>2. a % MaxWindow = IF a < 0 THEN a + MaxWindow
                        ELSE IF a < MaxWindow THEN a ELSE a - MaxWindow
    BY <2>1, Sizes, ModNear
  <2>3. ptrPop + size = a /\ a % MaxWindow = 0
    BY <1>1, <2>1, <2>2, SMT
  <2> QED
    BY <1>1, <2>3
<1> QED
  BY <1>1, <1>2, <1>3, <1>4 DEF LoopInv, RingInv, SearchInv, AckInv

\* What the steps that leave the ring alone keep.
LEMMA StaysPut ==
    ASSUME UNCHANGED <<ring, size, ptrAdd, ptrPop, next>>
    PROVE  /\ Content' = Content /\ (RingHoldsLast => RingHoldsLast')
           /\ \A i : Position(i)' = Position(i)
BY DEF Content, RingHoldsLast, Position

\* add() fills the first free slot after the last packet.
LEMMA AddPreserves == LoopInv /\ Add => LoopInv'
<1> SUFFICES ASSUME LoopInv, Add PROVE LoopInv'
  OBVIOUS
<1>1. /\ ack = Null /\ search = Null /\ size < MaxWindow
      /\ ring' = [ring EXCEPT ![ptrAdd] = [seqnum |-> next]]
      /\ ptrAdd' = NextSlot(ptrAdd)
      /\ size' = size + 1
      /\ next' = NextSeq(next)
      /\ UNCHANGED <<ptrPop, ack, search>>
  BY DEF Add, Idle
<1>2. /\ TypeOK /\ ptrPop \in Slots /\ ptrAdd \in Slots /\ next \in Seqnum
      /\ size \in 0 .. MaxWindow
      /\ ring \in [Slots -> Pkt \cup {Null}]
  BY DEF LoopInv, RingInv, TypeOK
<1>3. \A i \in Slots : Holds(ring, ptrPop, size, next, i)
  BY <1>2, RingSlots DEF LoopInv, RingInv
<1>4. Pos(ptrPop, ptrAdd) = size + 1 /\ ptrAdd = At(ptrPop, size + 1)
  <2>1. size + 1 \in 1 .. MaxWindow /\ ptrPop + (size + 1) - 1 = ptrPop + size
    BY <1>1, <1>2, Sizes, SMT
  <2>2. ptrAdd = At(ptrPop, size + 1)
    BY <2>1 DEF At, LoopInv, RingInv
  <2> QED
    BY <1>2, <2>1, <2>2, AtPos
<1>5. next' \in Seqnum /\ next' = IF next + 1 < SeqMod THEN next + 1 ELSE 0
  BY <1>1, <1>2, NextSeqIs
<1>6. size' \in 0 .. MaxWindow
  BY <1>1, <1>2, Sizes, SMT
<1>7. TypeOK'
  <2>1. [seqnum |-> next] \in Pkt
    BY <1>2 DEF Pkt
  <2>2. ptrAdd' \in Slots
    BY <1>1, <1>2, NextSlotIs
  <2>3. ring' \in [Slots -> Pkt \cup {Null}]
    BY <1>1, <1>2, <2>1
  <2> QED
    BY <1>1, <1>2, <1>5, <1>6, <2>2, <2>3 DEF TypeOK, LoopInv, RingInv
<1>8. ASSUME NEW i \in Slots
      PROVE  Holds(ring', ptrPop, size', next', i)
  <2> DEFINE n == Pos(ptrPop, i)
  <2>1. n \in 1 .. MaxWindow
    BY <1>2, PosIs
  <2> HIDE DEF n
  <2>2. n \in 0 .. MaxWindow
    BY <2>1, Sizes, SMT
  <2>3. /\ SeqnumAt(next', size', n) =
             IF next' - size' + n - 1 < 0 THEN next' - size' + n - 1 + SeqMod
             ELSE IF next' - size' + n - 1 < SeqMod THEN next' - size' + n - 1
             ELSE next' - size' + n - 1 - SeqMod
        /\ SeqnumAt(next, size, n) =
             IF next - size + n - 1 < 0 THEN next - size + n - 1 + SeqMod
             ELSE IF next - size + n - 1 < SeqMod THEN next - size + n - 1
             ELSE next - size + n - 1 - SeqMod
    BY <1>2, <1>5, <1>6, <2>2, SeqnumAtIs
  <2>4. CASE i = ptrAdd
    <3>1. n = size + 1 /\ ring'[i] = [seqnum |-> next]
      BY <1>1, <1>2, <1>4, <2>4 DEF n
    <3>2. n <= size' /\ SeqnumAt(next', size', n) = next
      BY <1>1, <1>2, <1>5, <2>2, <2>3, <3>1, Sizes, SMT
    <3> QED
      BY <3>1, <3>2 DEF Holds, n
  <2>5. CASE i # ptrAdd
    <3>1. n # size + 1
      <4>1. At(ptrPop, n) = i
        BY <1>2, AtPos DEF n
      <4> QED
        BY <1>4, <2>5, <4>1
    <3>2. ring'[i] = ring[i] /\ Holds(ring, ptrPop, size, next, i)
      BY <1>1, <1>2, <1>3, <2>5
    <3>3. n <= size => SeqnumAt(next', size', n) = SeqnumAt(next, size, n)
      BY <1>1, <1>2, <1>5, <2>2, <2>3, Sizes, SMT
    <3>4. n <= size' <=> n <= size
      BY <1>1, <1>2, <2>2, <3>1, SMT
    <3> QED
      BY <3>2, <3>3, <3>4 DEF Holds, n
  <2> QED
    BY <2>4, <2>5
<1>9. RingHoldsLast'
  <2>1. ptrPop' \in Slots /\ size' \in 0 .. MaxWindow
    BY <1>1, <1>2, <1>6
  <2>2. \A i \in Slots : Holds(ring', ptrPop', size', next', i)
    BY <1>1, <1>8
  <2> QED
    BY <2>1, <2>2, RingSlotsNext
<1>10. ptrAdd' = (ptrPop' + size') % MaxWindow
  <2>1. /\ size + 1 \in 1 .. MaxWindow + 1 /\ size + 2 \in 1 .. MaxWindow + 1
        /\ ptrPop + (size + 2) - 1 = ptrPop' + size'
    BY <1>1, <1>2, Sizes, SMT
  <2>2. /\ At(ptrPop, size + 2) = IF ptrPop + (size + 2) - 1 < MaxWindow
                                  THEN ptrPop + (size + 2) - 1
                                  ELSE ptrPop + (size + 2) - 1 - MaxWindow
        /\ At(ptrPop, size + 1) = IF ptrPop + (size + 1) - 1 < MaxWindow
                                  THEN ptrPop + (size + 1) - 1
                                  ELSE ptrPop + (size + 1) - 1 - MaxWindow
    BY <1>2, <2>1, AtIs
  <2>3. ptrAdd' = IF ptrAdd + 1 < MaxWindow THEN ptrAdd + 1 ELSE 0
    BY <1>1, <1>2, NextSlotIs
  <2>4. ptrAdd' = At(ptrPop, size + 2)
    BY <1>1, <1>2, <1>4, <2>2, <2>3, Sizes, SMT
  <2> QED
    BY <2>1, <2>4 DEF At
<1> QED
  BY <1>1, <1>7, <1>9, <1>10 DEF LoopInv, RingInv, SearchInv, AckInv

\* The places of the slots once the head has moved on.
LEMMA NextHead ==
    ASSUME NEW p \in Slots, NEW i \in Slots
    PROVE  Pos(NextSlot(p), i) = IF i = p THEN MaxWindow ELSE Pos(p, i) - 1
<1>1. NextSlot(p) = (IF p + 1 < MaxWindow THEN p + 1 ELSE 0) /\ NextSlot(p) \in Slots
  BY NextSlotIs
<1> DEFINE q == NextSlot(p)
<1> HIDE DEF q
<1>2. /\ q = IF p + 1 < MaxWindow THEN p + 1 ELSE 0
      /\ q \in Slots
  BY <1>1 DEF q
<1>3. /\ Pos(q, i) = IF i >= q THEN i - q + 1 ELSE i - q + MaxWindow + 1
      /\ Pos(p, i) = IF i >= p THEN i - p + 1 ELSE i - p + MaxWindow + 1
  BY <1>2, PosIs
<1>4. Pos(q, i) = IF i = p THEN MaxWindow ELSE Pos(p, i) - 1
  BY <1>2, <1>3, Sizes, SMT
<1> QED
  BY <1>4 DEF q

\* The place of the slot after a slot.
LEMMA NextPos ==
    ASSUME NEW p \in Slots, NEW i \in Slots
    PROVE  Pos(p, NextSlot(i)) = IF Pos(p, i) < MaxWindow THEN Pos(p, i) + 1 ELSE 1
<1> DEFINE j == NextSlot(i)
<1>1. j = (IF i + 1 < MaxWindow THEN i + 1 ELSE 0) /\ j \in Slots
  BY NextSlotIs
<1> HIDE DEF j
<1>2. /\ Pos(p, j) = IF j >= p THEN j - p + 1 ELSE j - p + MaxWindow + 1
      /\ Pos(p, i) = IF i >= p THEN i - p + 1 ELSE i - p + MaxWindow + 1
  BY <1>1, PosIs
<1>3. Pos(p, j) = IF Pos(p, i) < MaxWindow THEN Pos(p, i) + 1 ELSE 1
  BY <1>1, <1>2, Sizes, SMT
<1> QED
  BY <1>3 DEF j

\* The head is in the first place.
LEMMA HeadPos ==
    ASSUME NEW p \in Slots
    PROVE  Pos(p, p) = 1 /\ At(p, 1) = p
<1>1. Pos(p, p) = IF p >= p THEN p - p + 1 ELSE p - p + MaxWindow + 1
  BY PosIs
<1>2. Pos(p, p) = 1
  BY <1>1, Sizes, SMT
<1> QED
  BY <1>2, AtPos

\* dequeue() moves the head on and frees its slot.
LEMMA DequeuePreserves == LoopInv /\ Dequeue => LoopInv'
<1> SUFFICES ASSUME LoopInv, Dequeue PROVE LoopInv'
  OBVIOUS
<1>1. /\ ack # Null /\ size # 0 /\ IsHigherOrEqual(ack.upto, ring[ptrPop].seqnum)
      /\ ring' = [ring EXCEPT ![ptrPop] = Null]
      /\ ptrPop' = NextSlot(ptrPop)
      /\ size' = size - 1
      /\ UNCHANGED <<ptrAdd, next, ack, search>>
  BY DEF Dequeue, HeadIsCovered
<1>2. /\ TypeOK /\ ptrPop \in Slots /\ ptrAdd \in Slots /\ next \in Seqnum
      /\ size \in 0 .. MaxWindow
      /\ ring \in [Slots -> Pkt \cup {Null}]
      /\ ack \in Ack /\ search = Null
  BY <1>1 DEF LoopInv, RingInv, TypeOK
<1>3. \A i \in Slots : Holds(ring, ptrPop, size, next, i)
  BY <1>2, RingSlots DEF LoopInv, RingInv
<1>4. ptrPop' \in Slots /\ size' \in 0 .. MaxWindow /\ size' \in Int /\ size \in 1 .. MaxWindow
  BY <1>1, <1>2, NextSlotIs, Sizes, SMT
<1>5. TypeOK'
  <2>1. ring' \in [Slots -> Pkt \cup {Null}]
    BY <1>1, <1>2
  <2> QED
    BY <1>1, <1>2, <1>4, <2>1 DEF TypeOK
<1>6. RingHoldsLast'
  <2>1. ASSUME NEW i \in Slots
        PROVE  Holds(ring', ptrPop', size', next', i)
    <3>1. CASE i = ptrPop
      <4>1. ring'[i] = Null /\ Pos(ptrPop', i) = MaxWindow
        BY <1>1, <1>2, <3>1, NextHead
      <4>2. ~(MaxWindow <= size')
        BY <1>1, <1>4, Sizes, SMT
      <4> QED
        BY <4>1, <4>2 DEF Holds
    <3>2. CASE i # ptrPop
      <4> DEFINE n == Pos(ptrPop, i)
      <4>1. /\ n \in 1 .. MaxWindow /\ Pos(ptrPop', i) = n - 1 /\ ring'[i] = ring[i]
            /\ Holds(ring, ptrPop, size, next, i) /\ next' = next
        BY <1>1, <1>2, <1>3, <3>2, NextHead, PosIs
      <4>2. ring[i] = IF n <= size THEN [seqnum |-> SeqnumAt(next, size, n)] ELSE Null
        BY <4>1 DEF Holds
      <4> HIDE DEF n
      <4>3. n - 1 <= size' <=> n <= size
        BY <1>1, <1>4, <4>1, Sizes, SMT
      <4>4. SeqnumAt(next', size', n - 1) = SeqnumAt(next, size, n)
        <5>1. next' - size' + (n - 1) - 1 = next - size + n - 1
          BY <1>1, <1>2, <1>4, <4>1, Sizes, SMT
        <5> QED
          BY <5>1 DEF SeqnumAt
      <4> QED
        BY <4>1, <4>2, <4>3, <4>4 DEF Holds
    <3> QED
      BY <3>1, <3>2
  <2> QED
    BY <1>4, <2>1, RingSlotsNext
<1>7. \A n \in 1 .. size' + 1 : At(ptrPop', n) = At(ptrPop, n + 1)
  <2> SUFFICES ASSUME NEW n \in 1 .. size' + 1 PROVE At(ptrPop', n) = At(ptrPop, n + 1)
    OBVIOUS
  <2>1. n \in 1 .. MaxWindow + 1 /\ n + 1 \in 1 .. MaxWindow + 1
    BY <1>1, <1>4, Sizes, SMT
  <2>2. /\ At(ptrPop', n) = IF ptrPop' + n - 1 < MaxWindow THEN ptrPop' + n - 1
                            ELSE ptrPop' + n - 1 - MaxWindow
        /\ At(ptrPop, n + 1) = IF ptrPop + (n + 1) - 1 < MaxWindow THEN ptrPop + (n + 1) - 1
                               ELSE ptrPop + (n + 1) - 1 - MaxWindow
    BY <1>2, <1>4, <2>1, AtIs
  <2>3. ptrPop' = IF ptrPop + 1 < MaxWindow THEN ptrPop + 1 ELSE 0
    BY <1>1, <1>2, NextSlotIs
  <2> QED
    BY <1>2, <1>4, <2>1, <2>2, <2>3, Sizes, SMT
<1>8. ptrAdd' = (ptrPop' + size') % MaxWindow
  <2>1. /\ size' + 1 \in 1 .. size' + 1 /\ (size' + 1) + 1 = size + 1
        /\ ptrPop + (size + 1) - 1 = ptrPop + size
        /\ ptrPop' + (size' + 1) - 1 = ptrPop' + size'
    BY <1>1, <1>2, <1>4, Sizes, SMT
  <2>2. At(ptrPop', size' + 1) = At(ptrPop, size + 1)
    BY <1>7, <2>1
  <2>3. ptrAdd = (ptrPop + size) % MaxWindow
    BY DEF LoopInv, RingInv
  <2> QED
    BY <1>1, <2>1, <2>2, <2>3 DEF At
<1>9. AckInv'
  <2> DEFINE popped == Len(ack.before) - size
  <2>1. /\ popped >= 0
        /\ \A i \in 1 .. popped : IsHigherOrEqual(ack.upto, ack.before[i].seqnum)
        /\ \A i \in 1 .. size : Content[i] = ack.before[popped + i]
    BY <1>1 DEF LoopInv, AckInv
  <2>2. popped \in Int /\ Len(ack.before) - size' = popped + 1
    <3>1. Len(ack.before) \in Nat
      BY <1>2 DEF Ack
    <3> QED
      BY <1>1, <1>4, <3>1, SMT
  <2> HIDE DEF popped
  <2>3. \A i \in 1 .. popped + 1 : IsHigherOrEqual(ack.upto, ack.before[i].seqnum)
    <3>1. ack.before[popped + 1] = ring[ptrPop]
      <4>1. 1 \in 1 .. size /\ Content[1] = ring[At(ptrPop, 1)]
        BY <1>4, SMT DEF Content, At
      <4> QED
        BY <1>2, <2>1, <4>1, HeadPos
    <3>2. \A i \in 1 .. popped + 1 : i \in 1 .. popped \/ i = popped + 1
      BY <2>2, SMT
    <3> QED
      BY <1>1, <2>1, <3>1, <3>2
  <2>4. ASSUME NEW i \in 1 .. size'
        PROVE  Content'[i] = ack.before[popped + 1 + i]
    <3>1. /\ i \in 1 .. size' + 1 /\ i + 1 \in 1 .. size /\ i + 1 \in 1 .. MaxWindow
          /\ i + 1 \in 1 .. MaxWindow + 1
          /\ i + 1 # 1 /\ popped + (i + 1) = popped + 1 + i
      BY <1>1, <1>4, <2>2, Sizes, SMT
    <3>2. Content'[i] = ring'[At(ptrPop', i)] /\ Content[i + 1] = ring[At(ptrPop, i + 1)]
      BY <3>1 DEF Content, At
    <3>3. At(ptrPop', i) = At(ptrPop, i + 1) /\ At(ptrPop, i + 1) \in Slots
      BY <1>2, <1>7, <3>1, AtIs
    <3>4. At(ptrPop, i + 1) # ptrPop
      BY <1>2, <3>1, HeadPos, AtPos
    <3>5. ring'[At(ptrPop, i + 1)] = ring[At(ptrPop, i + 1)]
      BY <1>1, <1>2, <3>3, <3>4
    <3>6. Content[i + 1] = ack.before[popped + 1 + i]
      BY <2>1, <3>1
    <3> QED
      BY <3>2, <3>3, <3>5, <3>6
  <2>5. popped + 1 >= 0
    BY <2>1, <2>2, SMT
  <2> QED
    BY <1>1, <2>2, <2>3, <2>4, <2>5 DEF AckInv
<1> QED
  BY <1>1, <1>2, <1>5, <1>6, <1>8, <1>9 DEF LoopInv, RingInv, SearchInv

\* An ACK begins with the whole content, all of it still in the queue.
LEMMA TakeAckPreserves == LoopInv /\ TakeAck => LoopInv'
<1> SUFFICES ASSUME LoopInv, TakeAck PROVE LoopInv'
  OBVIOUS
<1>1. PICK s \in Seqnum : ack' = [upto |-> s, before |-> Content]
  BY DEF TakeAck
<1>2. search = Null /\ UNCHANGED <<ring, size, ptrAdd, ptrPop, next, search>>
  BY DEF TakeAck, Idle
<1>3. TypeOK /\ RingHoldsLast /\ ptrAdd = (ptrPop + size) % MaxWindow /\ size \in 0 .. MaxWindow
  BY DEF LoopInv, RingInv, TypeOK
<1>4. Content \in Seq(Pkt) /\ Len(Content) = size
  BY <1>3, ContentType
<1>5. TypeOK'
  <2>1. ack' \in Ack
    BY <1>1, <1>4 DEF Ack
  <2> QED
    BY <1>2, <1>3, <2>1 DEF TypeOK
<1>6. Content' = Content /\ RingHoldsLast'
  BY <1>2, <1>3, StaysPut
<1>7. AckInv'
  <2>1. ack'.before = Content /\ ack'.upto = s
    BY <1>1
  <2>2. /\ size' = size /\ Len(Content) - size = 0 /\ \A i \in 1 .. 0 : FALSE
        /\ \A i \in 1 .. size : 0 + i = i
    BY <1>2, <1>3, <1>4, Sizes, SMT
  <2>3. Content' = Content
    BY <1>6
  <2>4. Len(ack'.before) - size' = 0
    BY <2>1, <2>2
  <2>5. \A i \in 1 .. size' : Content'[i] = ack'.before[0 + i]
    BY <2>1, <2>2, <2>3
  <2>6. 0 >= 0
    BY SMT
  <2> HIDE DEF Content
  <2> QED
    BY <2>2, <2>4, <2>5, <2>6 DEF AckInv
<1> QED
  BY <1>2, <1>3, <1>5, <1>6, <1>7 DEF LoopInv, RingInv, SearchInv

LEMMA AckDonePreserves == LoopInv /\ AckDone => LoopInv'
<1> SUFFICES ASSUME LoopInv, AckDone PROVE LoopInv'
  OBVIOUS
<1>1. /\ ack # Null /\ ack' = Null /\ search = Null
      /\ UNCHANGED <<ring, size, ptrAdd, ptrPop, next, search>>
  BY DEF AckDone, LoopInv, RingInv
<1>2. TypeOK'
  BY <1>1 DEF TypeOK, LoopInv, RingInv
<1>3. RingHoldsLast'
  BY <1>1, StaysPut DEF LoopInv, RingInv
<1> QED
  BY <1>1, <1>2, <1>3 DEF LoopInv, RingInv, SearchInv, AckInv

\* A search keeps the ring, so only its own place matters.
LEMMA SearchSteps ==
    ASSUME LoopInv, ack = Null, UNCHANGED <<ring, size, ptrAdd, ptrPop, next, ack>>,
           search' \in Search \cup {Null}, SearchInv'
    PROVE  LoopInv'
<1>1. TypeOK' /\ RingHoldsLast'
  BY StaysPut DEF LoopInv, RingInv, TypeOK
<1> QED
  BY <1>1 DEF LoopInv, RingInv, AckInv

\* A call of get() begins at a slot of its own choice, with nothing passed over.
LEMMA SearchBegins ==
    ASSUME LoopInv, UNCHANGED <<ring, size, ptrAdd, ptrPop, next>>,
           search' # Null, search'.index \in Slots, search'.firstTime = TRUE,
           search'.from \in 1 .. size + 1,
           Position(search'.index) = IF search'.from > MaxWindow THEN 1 ELSE search'.from
    PROVE  SearchInv'
<1>1. search'.from <= size'
          + 1
  BY SMT DEF LoopInv, RingInv, TypeOK
<1>2. Position(search.index)' = Position(search'.index)
  BY DEF Position
<1> QED
  BY <1>1, <1>2 DEF SearchInv

LEMMA GetPreserves == LoopInv /\ (GetForNack \/ GetForTimers) => LoopInv'
<1> SUFFICES ASSUME LoopInv, GetForNack \/ GetForTimers PROVE LoopInv'
  OBVIOUS
<1>1. /\ ack = Null /\ UNCHANGED <<ring, size, ptrAdd, ptrPop, next, ack>>
      /\ TypeOK /\ RingHoldsLast /\ ptrPop \in Slots /\ size \in 0 .. MaxWindow
  BY DEF GetForNack, GetForTimers, Idle, LoopInv, RingInv, TypeOK
<1>2. PICK s \in Seqnum, f \in Seqnum \cup {Null} :
          search' = [index |-> ptrPop, firstTime |-> TRUE, target |-> s, from |-> 1,
                     first |-> f, visited |-> {}]
  <2>1. CASE GetForNack
    BY <2>1 DEF GetForNack
  <2>2. CASE GetForTimers
    <3>1. size > 0
      BY <2>2 DEF GetForTimers
    <3>2. Position(ptrPop) = 1
      BY <1>1, HeadPos DEF Position, Pos
    <3>3. Position(ptrPop) <= size
      BY <1>1, <3>1, <3>2, Sizes, SMT
    <3>4. ring[ptrPop].seqnum \in Seqnum
      BY <1>1, <3>3, ContentType DEF Pkt
    <3> QED
      BY <2>2, <3>4 DEF GetForTimers
  <2> QED
    BY <2>1, <2>2
<1>3. search' \in Search
  <2>1. 1 \in 1 .. MaxWindow + 1
    BY Sizes, SMT
  <2> QED
    BY <1>1, <1>2, <2>1 DEF Search
<1>4. search' # Null
  BY <1>3, NullAssumption
<1>5. search'.from \in 1 .. size + 1 /\ ~(search'.from > MaxWindow) /\ search'.from = 1
  BY <1>1, <1>2, Sizes, SMT
<1>6. Position(search'.index) = 1
  BY <1>1, <1>2, HeadPos DEF Position, Pos
<1>7. search'.index \in Slots /\ search'.firstTime = TRUE
  BY <1>1, <1>2
<1>8. SearchInv'
  BY <1>1, <1>4, <1>5, <1>6, <1>7, SearchBegins
<1> QED
  BY <1>1, <1>3, <1>8, SearchSteps

LEMMA MissPreserves == LoopInv /\ Miss => LoopInv'
<1> SUFFICES ASSUME LoopInv, Miss PROVE LoopInv'
  OBVIOUS
<1>1. search # Null /\ search' = Null /\ UNCHANGED <<ring, size, ptrAdd, ptrPop, next, ack>>
  BY DEF Miss
<1>2. ack = Null /\ SearchInv'
  BY <1>1 DEF LoopInv, RingInv, SearchInv
<1> QED
  BY <1>1, <1>2, SearchSteps

\* Where a search is and where it began.
LEMMA SearchPlace ==
    ASSUME LoopInv, search # Null
    PROVE  /\ TypeOK /\ RingHoldsLast /\ ack = Null /\ search \in Search
           /\ ptrPop \in Slots /\ search.index \in Slots /\ size \in 0 .. MaxWindow
           /\ Position(search.index) \in 1 .. MaxWindow
           /\ search.from \in 1 .. MaxWindow + 1 /\ search.from <= size + 1
           /\ ring[search.index] # Null =>
                 /\ Position(search.index) <= size
                 /\ Content[Position(search.index)] = ring[search.index]
           /\ ring[search.index] = Null => Position(search.index) > size
<1>1. /\ TypeOK /\ RingHoldsLast /\ ack = Null /\ search \in Search
      /\ ptrPop \in Slots /\ size \in 0 .. MaxWindow
  BY DEF LoopInv, RingInv, TypeOK
<1>2. search.index \in Slots /\ search.from \in 1 .. MaxWindow + 1
  BY <1>1 DEF Search
<1>3. Position(search.index) \in 1 .. MaxWindow
  BY <1>1, <1>2, PosIs DEF Position, Pos
<1>4. search.from <= size + 1
  BY DEF LoopInv, SearchInv
<1>5. ring[search.index] # Null => /\ Position(search.index) <= size
                                   /\ Content[Position(search.index)] = ring[search.index]
  BY <1>1, <1>2, ContentType
<1>6. ring[search.index] = Null => Position(search.index) > size
  <2>1. ring[search.index] = Null => ~(Position(search.index) <= size)
    BY <1>1, <1>2, ContentType
  <2> QED
    BY <1>1, <1>3, <2>1, Sizes, SMT
<1> QED
  BY <1>1, <1>2, <1>3, <1>4, <1>5, <1>6

\* One turn of get() passes over one packet that does not match.
LEMMA AdvancePreserves == LoopInv /\ Advance => LoopInv'
<1> SUFFICES ASSUME LoopInv, Advance PROVE LoopInv'
  OBVIOUS
<1>1. /\ search # Null /\ ring[search.index] # Null
      /\ ring[search.index].seqnum # search.target
      /\ search.firstTime \/ search.index # ptrPop
      /\ search' = [search EXCEPT !.index = NextSlot(@), !.firstTime = FALSE]
      /\ UNCHANGED <<ring, size, ptrAdd, ptrPop, next, ack>>
  BY DEF Advance, Matches, BackAtHead
<1> DEFINE at    == Position(search.index)
           start == IF search.from > MaxWindow THEN 1 ELSE search.from
           nxt   == Position(search'.index)
<1>2. /\ TypeOK /\ RingHoldsLast /\ ack = Null /\ search \in Search
      /\ ptrPop \in Slots /\ search.index \in Slots /\ size \in 0 .. MaxWindow
      /\ at \in 1 .. MaxWindow /\ search.from \in 1 .. MaxWindow + 1 /\ search.from <= size + 1
      /\ at <= size /\ Content[at] = ring[search.index]
  BY <1>1, SearchPlace
<1>3. search' \in Search
  BY <1>1, <1>2, NextSlotIs DEF Search
<1>4. /\ search'.from = search.from /\ search'.target = search.target
      /\ search'.firstTime = FALSE /\ search'.index = NextSlot(search.index)
  BY <1>1, <1>2 DEF Search
<1>5. nxt = IF at < MaxWindow THEN at + 1 ELSE 1
  BY <1>2, <1>4, NextPos DEF Position, Pos
<1>6. at = 1 => search.index = ptrPop
  BY <1>2, AtPos, HeadPos DEF Position, Pos
<1>7. /\ search.firstTime => at = start
      /\ ~search.firstTime =>
            /\ at > start \/ (at = 1 /\ size = MaxWindow)
            /\ \A j \in start .. IF at > start THEN at - 1 ELSE size :
                  j <= size /\ Content[j].seqnum # search.target
  BY <1>1 DEF LoopInv, SearchInv
<1>8. start \in 1 .. MaxWindow
  BY <1>2, Sizes, SMT
<1>9. Content[at].seqnum # search.target
  BY <1>1, <1>2
<1>10. search.firstTime \in BOOLEAN
  BY <1>2 DEF Search
<1> HIDE DEF at, start, nxt
<1>11. at >= start /\ \A j \in start .. at : j <= size /\ Content[j].seqnum # search.target
  <2>1. CASE search.firstTime
    <3>1. at = start /\ \A j \in start .. at : j = at
      BY <1>7, <1>8, <2>1, Sizes, SMT
    <3>2. at >= start
      BY <1>8, <3>1, Sizes, SMT
    <3> QED
      BY <1>2, <1>9, <3>1, <3>2
  <2>2. CASE ~search.firstTime
    <3>1. at # 1
      BY <1>1, <1>6, <2>2
    <3>2. at > start /\ \A j \in start .. at - 1 : j <= size /\ Content[j].seqnum # search.target
      BY <1>7, <2>2, <3>1
    <3>3. at >= start /\ \A j \in start .. at : j \in start .. at - 1 \/ j = at
      BY <1>2, <1>8, <3>2, Sizes, SMT
    <3> QED
      BY <1>2, <1>9, <3>2, <3>3
  <2> QED
    BY <1>10, <2>1, <2>2
<1>12. /\ nxt > start \/ (nxt = 1 /\ size = MaxWindow)
       /\ \A j \in start .. IF nxt > start THEN nxt - 1 ELSE size :
              j <= size /\ Content[j].seqnum # search.target
  <2>1. /\ nxt > start \/ (nxt = 1 /\ size = MaxWindow)
        /\ (IF nxt > start THEN nxt - 1 ELSE size) = at
    BY <1>2, <1>5, <1>8, <1>11, Sizes, SMT
  <2> QED
    BY <1>11, <2>1
<1>13. SearchInv'
  <2>1. /\ Position(search.index)' = nxt /\ search'.from <= size' + 1 /\ Content' = Content
        /\ size' = size
    BY <1>1, <1>2, <1>4, StaysPut DEF nxt, Position
  <2>2. start = IF search'.from > MaxWindow THEN 1 ELSE search'.from
    BY <1>4 DEF start
  <2> HIDE DEF Content
  <2>3. /\ search'.from <= size' + 1
        /\ search'.firstTime = FALSE
        /\ nxt > start \/ (nxt = 1 /\ size' = MaxWindow)
        /\ \A j \in start .. IF nxt > start THEN nxt - 1 ELSE size' :
              j <= size' /\ Content'[j].seqnum # search'.target
    BY <1>4, <1>12, <2>1
  <2> QED
    BY <2>1, <2>2, <2>3 DEF SearchInv
<1> QED
  BY <1>1, <1>2, <1>3, <1>13, SearchSteps

\* A search that goes on is a search, from the next slot on.
LEMMA SearchGoesOn ==
    ASSUME LoopInv, search # Null, Matches, NEW s,
           s = [search EXCEPT !.index = NextSlot(@), !.firstTime = TRUE,
                              !.target = NextTarget(@),
                              !.from = Position(search.index) + 1,
                              !.visited = @ \cup {Position(search.index)}]
    PROVE  /\ s \in Search /\ s # Null
           /\ s.index = NextSlot(search.index) /\ s.firstTime = TRUE
           /\ s.from = Position(search.index) + 1 /\ s.from \in 1 .. size + 1
<1> DEFINE at == Position(search.index)
<1>1. /\ search \in Search /\ search.index \in Slots
      /\ size \in 0 .. MaxWindow /\ at \in 1 .. MaxWindow /\ at <= size
  BY SearchPlace DEF Matches
<1>2. NextTarget(search.target) \in Seqnum
  <2>1. search.target \in Seqnum
    BY <1>1 DEF Search
  <2>2. search.target + 1 \in Nat
    BY <2>1, Sizes, SMT
  <2>3. (search.target + 1) % MaxWindow \in 0 .. MaxWindow - 1
    BY <2>2, Sizes, Z3
  <2>4. 0 .. MaxWindow - 1 \subseteq Seqnum
    BY Sizes, SMT
  <2> QED
    BY <2>3, <2>4 DEF NextTarget
<1>3. NextSlot(search.index) \in Slots
  BY <1>1, NextSlotIs
<1>4. at + 1 \in 1 .. MaxWindow + 1 /\ at + 1 \in 1 .. size + 1
  BY <1>1, Sizes, SMT
<1>5. s \in Search
  BY <1>1, <1>2, <1>3, <1>4 DEF Search
<1> QED
  BY <1>1, <1>4, <1>5, NullAssumption DEF Search

\* A hit ends the search of a NACK; the timer check goes on behind it.
LEMMA HitPreserves == LoopInv /\ Hit => LoopInv'
<1> SUFFICES ASSUME LoopInv, Hit PROVE LoopInv'
  OBVIOUS
<1> DEFINE at == Position(search.index)
<1>1. /\ search # Null /\ Matches /\ ring[search.index] # Null
      /\ UNCHANGED <<ring, size, ptrAdd, ptrPop, next, ack>>
  BY DEF Hit, Matches
<1>2. /\ ack = Null /\ search \in Search /\ ptrPop \in Slots /\ search.index \in Slots
      /\ size \in 0 .. MaxWindow /\ at \in 1 .. MaxWindow /\ at <= size
  BY <1>1, SearchPlace
<1>3. CASE search' = Null
  BY <1>1, <1>2, <1>3, SearchSteps DEF SearchInv
<1>4. CASE search' = [search EXCEPT !.index = NextSlot(@), !.firstTime = TRUE,
                              !.target = NextTarget(@),
                              !.from = at + 1,
                              !.visited = @ \cup {at}]
  <2>1. /\ search' \in Search /\ search' # Null
        /\ search'.index = NextSlot(search.index) /\ search'.firstTime = TRUE
        /\ search'.from = at + 1 /\ search'.from \in 1 .. size + 1
    BY <1>1, <1>4, SearchGoesOn
  <2>2. NextSlot(search.index) \in Slots
    BY <1>2, NextSlotIs
  <2>3. Position(search'.index) = IF at < MaxWindow THEN at + 1 ELSE 1
    BY <1>2, <2>1, NextPos DEF Position, Pos
  <2>4. (IF at < MaxWindow THEN at + 1 ELSE 1) = (IF at + 1 > MaxWindow THEN 1 ELSE at + 1)
    BY <1>2, Sizes, SMT
  <2>5. SearchInv'
    BY <1>1, <2>1, <2>2, <2>3, <2>4, SearchBegins
  <2> QED
    BY <1>1, <1>2, <2>1, <2>5, SearchSteps
<1> QED
  BY <1>3, <1>4 DEF Hit

\* A hit that ends a timer check is of the seqnum it began with.
LEMMA HitStops ==
    ASSUME LoopInv, Hit, search' = Null, search.first # Null
    PROVE  search.visited # {} /\ search.target = search.first
<1>1. search # Null /\ Matches
  BY DEF Hit
<1>2. PICK s : s = [search EXCEPT !.index = NextSlot(@), !.firstTime = TRUE,
                              !.target = NextTarget(@),
                              !.from = Position(search.index) + 1,
                              !.visited = @ \cup {Position(search.index)}]
  OBVIOUS
<1>3. s # Null
  BY <1>1, <1>2, SearchGoesOn
<1> QED
  BY <1>2, <1>3 DEF Hit

LEMMA NextQueue == LoopInv /\ [Next]_vars => LoopInv'
<1>1. LoopInv /\ UNCHANGED vars => LoopInv'
  <2> SUFFICES ASSUME LoopInv, UNCHANGED vars PROVE LoopInv'
    OBVIOUS
  <2>1. UNCHANGED <<ring, size, ptrAdd, ptrPop, next, ack, search>>
    BY DEF vars
  <2> QED
    BY <2>1 DEF LoopInv, RingInv, SearchInv, AckInv, TypeOK, RingHoldsLast, Content, Position
<1> QED
  BY <1>1, AddPreserves, TakeAckPreserves, DequeuePreserves, AckDonePreserves, GetPreserves,
     AdvancePreserves, MissPreserves, HitPreserves DEF Next
----------------------------------------------------------------------------
\* In every state the ring holds the packets added last and no other, a search has
\* passed over no match, and an ACK has taken off only what it covers (queue.c).
LEMMA LoopInvHolds == Spec => []LoopInv
<1> QED
  BY InitQueue, NextQueue, PTL DEF Spec

\* However often the ring has gone round, it holds the packets added last, in order,
\* and every other slot is free, so a search never reads a freed packet (queue.c:25-46).
THEOREM RingHolds == Spec => []RingHoldsLast
<1>1. LoopInv => RingHoldsLast
  BY DEF LoopInv, RingInv
<1> QED
  BY <1>1, LoopInvHolds, PTL

\* The two halves of GetIsLookup, for one step.
LEMMA HitIsFirst ==
    ASSUME LoopInv, Hit
    PROVE  Position(search.index) \in FirstMatch(Content, search.target, search.from)
<1> DEFINE at    == Position(search.index)
           start == IF search.from > MaxWindow THEN 1 ELSE search.from
           ahead == {i \in start .. size : Content[i].seqnum = search.target}
<1>1. search # Null /\ ring[search.index] # Null /\ ring[search.index].seqnum = search.target
  BY DEF Hit, Matches
<1>2. /\ TypeOK /\ RingHoldsLast /\ search \in Search /\ size \in 0 .. MaxWindow
      /\ at \in 1 .. MaxWindow /\ search.from \in 1 .. MaxWindow + 1 /\ search.from <= size + 1
      /\ at <= size /\ Content[at] = ring[search.index]
  BY <1>1, SearchPlace
<1>3. Content[at].seqnum = search.target
  BY <1>1, <1>2
<1>4. /\ search.firstTime => at = start
      /\ ~search.firstTime =>
            /\ at > start \/ (at = 1 /\ size = MaxWindow)
            /\ \A j \in start .. IF at > start THEN at - 1 ELSE size :
                  j <= size /\ Content[j].seqnum # search.target
  BY <1>1 DEF LoopInv, SearchInv
<1>5. start \in 1 .. MaxWindow /\ search.firstTime \in BOOLEAN
  BY <1>2, Sizes, SMT DEF Search
<1>6. FirstMatch(Content, search.target, search.from) =
          IF ahead # {} THEN {i \in ahead : \A j \in ahead : i <= j}
          ELSE {i \in {1} : size = MaxWindow /\ Content[i].seqnum = search.target}
  <2>1. Len(Content) = size
    BY <1>2, ContentType
  <2>2. start = IF size = MaxWindow /\ search.from > MaxWindow THEN 1 ELSE search.from
    BY <1>2, Sizes, SMT
  <2> HIDE DEF Content, start
  <2> QED
    BY <2>1, <2>2 DEF FirstMatch
<1> HIDE DEF at, start, Content
<1>7. CASE at >= start /\ \A j \in start .. at - 1 : Content[j].seqnum # search.target
  <2>1. at \in ahead
    <3>1. at \in start .. size
      BY <1>2, <1>5, <1>7, Sizes, SMT
    <3> QED
      BY <1>3, <3>1
  <2>2. ASSUME NEW j \in ahead PROVE at <= j
    <3>1. j \in start .. size /\ Content[j].seqnum = search.target
      OBVIOUS
    <3>2. j \notin start .. at - 1
      BY <1>7, <3>1
    <3> QED
      BY <1>2, <1>5, <3>1, <3>2, Sizes, SMT
  <2> HIDE DEF ahead
  <2> QED
    BY <1>6, <2>1, <2>2 DEF at
<1>8. CASE at = 1 /\ size = MaxWindow /\ \A j \in start .. size : Content[j].seqnum # search.target
  <2>1. ahead = {}
    BY <1>8
  <2> QED
    BY <1>3, <1>6, <1>8, <2>1 DEF at
<1>9. CASE search.firstTime
  <2>1. at >= start /\ \A j \in start .. at - 1 : FALSE
    BY <1>4, <1>5, <1>9, Sizes, SMT
  <2> QED
    BY <1>7, <2>1
<1>10. CASE ~search.firstTime /\ at > start
  <2>1. at >= start
    BY <1>2, <1>5, <1>10, Sizes, SMT
  <2> QED
    BY <1>4, <1>7, <1>10, <2>1
<1>11. CASE ~search.firstTime /\ ~(at > start)
  BY <1>4, <1>8, <1>11
<1> QED
  BY <1>5, <1>9, <1>10, <1>11

LEMMA MissIsNone ==
    ASSUME LoopInv, Miss
    PROVE  FirstMatch(Content, search.target, search.from) = {}
<1> DEFINE at    == Position(search.index)
           start == IF search.from > MaxWindow THEN 1 ELSE search.from
           ahead == {i \in start .. size : Content[i].seqnum = search.target}
<1>1. /\ search # Null /\ ~Matches
      /\ ring[search.index] = Null \/ (~search.firstTime /\ search.index = ptrPop)
  BY DEF Miss, BackAtHead
<1>2. /\ TypeOK /\ RingHoldsLast /\ search \in Search /\ size \in 0 .. MaxWindow
      /\ ptrPop \in Slots
      /\ at \in 1 .. MaxWindow /\ search.from \in 1 .. MaxWindow + 1 /\ search.from <= size + 1
  BY <1>1, SearchPlace
<1>3. /\ search.firstTime => at = start
      /\ ~search.firstTime =>
            /\ at > start \/ (at = 1 /\ size = MaxWindow)
            /\ \A j \in start .. IF at > start THEN at - 1 ELSE size :
                  j <= size /\ Content[j].seqnum # search.target
  BY <1>1 DEF LoopInv, SearchInv
<1>4. start \in 1 .. MaxWindow /\ search.firstTime \in BOOLEAN
  BY <1>2, Sizes, SMT DEF Search
<1>5. FirstMatch(Content, search.target, search.from) =
          IF ahead # {} THEN {i \in ahead : \A j \in ahead : i <= j}
          ELSE {i \in {1} : size = MaxWindow /\ Content[i].seqnum = search.target}
  <2>1. Len(Content) = size
    BY <1>2, ContentType
  <2>2. start = IF size = MaxWindow /\ search.from > MaxWindow THEN 1 ELSE search.from
    BY <1>2, Sizes, SMT
  <2> HIDE DEF Content, start
  <2> QED
    BY <2>1, <2>2 DEF FirstMatch
<1>6. ring[search.index] = Null => at > size
  BY <1>1, SearchPlace
<1>7. ring[search.index] # Null => Content[at] = ring[search.index]
  BY <1>1, SearchPlace
<1>8. search.index = ptrPop => at = 1
  BY <1>2, HeadPos DEF Position, Pos
<1> HIDE DEF at, start, Content
<1>9. CASE ring[search.index] = Null
  <2>1. at > size /\ size # MaxWindow
    BY <1>2, <1>6, <1>9, Sizes, SMT
  <2>2. ahead = {}
    <3>1. CASE search.firstTime
      <4>1. \A j \in start .. size : FALSE
        BY <1>2, <1>3, <1>4, <2>1, <3>1, Sizes, SMT
      <4> QED
        BY <4>1
    <3>2. CASE ~search.firstTime
      <4>1. at > start /\ \A j \in start .. at - 1 : Content[j].seqnum # search.target
        BY <1>3, <2>1, <3>2
      <4>2. \A j \in start .. size : j \in start .. at - 1
        BY <1>2, <1>4, <2>1, Sizes, SMT
      <4> QED
        BY <4>1, <4>2
    <3> QED
      BY <1>4, <3>1, <3>2
  <2> QED
    BY <1>5, <2>1, <2>2
<1>10. CASE ring[search.index] # Null
  <2>1. at = 1 /\ ~search.firstTime
    BY <1>1, <1>8, <1>10
  <2>2. ~(at > start)
    BY <1>4, <2>1, Sizes, SMT
  <2>3. \A j \in start .. size : Content[j].seqnum # search.target
    BY <1>3, <2>1, <2>2
  <2>4. ahead = {}
    BY <2>3
  <2>5. Content[1].seqnum # search.target
    BY <1>1, <1>7, <1>10, <2>1 DEF Matches
  <2> QED
    BY <1>5, <2>4, <2>5
<1> QED
  BY <1>9, <1>10

\* get() on the ring returns the packet FirstMatch() says of what the queue holds, and
\* nothing where FirstMatch() says nothing (queue.c:66-84).
THEOREM GetFindsFirst == Spec => GetIsLookup
<1>1. LoopInv /\ [Next]_vars =>
          [Hit => Position(search.index) \in FirstMatch(Content, search.target, search.from)]_vars
  BY HitIsFirst
<1>2. LoopInv /\ [Next]_vars =>
          [Miss => FirstMatch(Content, search.target, search.from) = {}]_vars
  BY MissIsNone
<1> QED
  BY <1>1, <1>2, LoopInvHolds, PTL DEF Spec, GetIsLookup

\* What an ACK that is done took off, and what it left.
LEMMA AckTakes ==
    ASSUME LoopInv, AckDone
    PROVE  /\ CoversExactly(ack.before, Len(ack.before) - size, ack.upto)
           /\ Content = SubSeq(ack.before, Len(ack.before) - size + 1, Len(ack.before))
<1> DEFINE popped == Len(ack.before) - size
<1>1. /\ ack # Null /\ ~HeadIsCovered /\ TypeOK /\ RingHoldsLast /\ size \in 0 .. MaxWindow
      /\ ack \in Ack /\ ptrPop \in Slots
  BY DEF AckDone, LoopInv, RingInv, TypeOK
<1>2. /\ popped >= 0
      /\ \A i \in 1 .. popped : IsHigherOrEqual(ack.upto, ack.before[i].seqnum)
      /\ \A i \in 1 .. size : Content[i] = ack.before[popped + i]
  BY <1>1 DEF LoopInv, AckInv
<1>3. ack.before \in Seq(Pkt) /\ Len(ack.before) \in Nat
  BY <1>1 DEF Ack
<1>4. Content \in Seq(Pkt) /\ Len(Content) = size
  BY <1>1, ContentType
<1>5. size \in Nat /\ popped \in Nat /\ popped + size = Len(ack.before)
  BY <1>1, <1>2, <1>3, Sizes, SMT
<1> HIDE DEF popped
<1>6. popped < Len(ack.before) => ~IsHigherOrEqual(ack.upto, ack.before[popped + 1].seqnum)
  <2> SUFFICES ASSUME popped < Len(ack.before)
               PROVE  ~IsHigherOrEqual(ack.upto, ack.before[popped + 1].seqnum)
    OBVIOUS
  <2>1. 1 \in 1 .. size /\ size # 0
    BY <1>5, SMT
  <2>2. ring[ptrPop] = ack.before[popped + 1]
    <3>1. Content[1] = ring[At(ptrPop, 1)]
      BY <2>1 DEF Content, At
    <3> QED
      BY <1>1, <1>2, <2>1, <3>1, HeadPos
  <2> QED
    BY <1>1, <2>1, <2>2 DEF HeadIsCovered
<1>7. Content = SubSeq(ack.before, popped + 1, Len(ack.before))
  <2> DEFINE rest == SubSeq(ack.before, popped + 1, Len(ack.before))
  <2> HIDE DEF Content
  <2>1. popped + 1 \in 1 .. Len(ack.before) + 1 /\ Len(ack.before) - (popped + 1) + 1 = size
    BY <1>5, SMT
  <2>2. /\ rest \in Seq(Pkt) /\ Len(rest) = size
        /\ \A i \in 1 .. size : rest[i] = ack.before[popped + 1 + i - 1]
    BY <1>3, <1>5, <2>1, SMT
  <2>3. \A i \in 1 .. size : rest[i] = Content[i]
    <3>1. \A i \in 1 .. size : popped + 1 + i - 1 = popped + i
      BY <1>5, SMT
    <3> QED
      BY <1>2, <2>2, <3>1
  <2> HIDE DEF rest
  <2>4. rest = Content
    BY <1>4, <2>2, <2>3, SeqEqual
  <2> QED
    BY <2>4 DEF rest
<1> QED
  BY <1>2, <1>6, <1>7 DEF CoversExactly, popped
----------------------------------------------------------------------------
(***************************************************************************)
(* The timer check.  Visits() is a recursive function; with Induction,     *)
(* which stands for induction over numbers, it is shown to have the values *)
(* its equation says, and to stay empty from where a search found nothing. *)
(***************************************************************************)
LEMMA Induction ==
    ASSUME NEW P, 0 \in P, \A k \in Nat : k \in P => k + 1 \in P
    PROVE  \A k \in Nat : k \in P
<1> SUFFICES ASSUME NEW k \in Nat, k \notin P PROVE FALSE
  OBVIOUS
<1> DEFINE T == {x \in Nat : x \notin P}
           smaller == {ss \in Nat \X Nat : ss[1] < ss[2]}
<1>1. IsWellFoundedOn(smaller, Nat)
  BY NatLessThanWellFounded DEF OpToRel
<1>2. \A x, y \in Nat : y < x => <<y, x>> \in smaller
  OBVIOUS
<1> HIDE DEF smaller
<1>3. PICK x \in T : \A y \in T : ~(<<y, x>> \in smaller)
  BY <1>1, WFMin
<1>4. x # 0 /\ x \in Nat /\ x \notin P
  BY <1>3
<1>5. x - 1 \in Nat /\ x - 1 < x /\ (x - 1) + 1 = x
  BY <1>4
<1>6. x - 1 \in P
  BY <1>2, <1>3, <1>4, <1>5
<1> QED
  BY <1>4, <1>5, <1>6

IsVisits(f, pkts, m) ==
    f = [n \in 1 .. m |-> IF n = 1 THEN {i \in 1 .. Len(pkts) : i = 1}
                          ELSE UNION {NextVisit(pkts, i) : i \in f[n - 1]}]

LEMMA VisitsExist ==
    ASSUME NEW pkts, NEW m \in Nat
    PROVE  \E f : IsVisits(f, pkts, m)
<1> DEFINE visit(f, n) == IF n = 1 THEN {i \in 1 .. Len(pkts) : i = 1}
                          ELSE UNION {NextVisit(pkts, i) : i \in f[n - 1]}
           P == {k \in Nat : \E f : IsVisits(f, pkts, k)}
<1>1. 0 \in P
  <2>1. PICK f : f = [n \in 1 .. 0 |-> {}]
    OBVIOUS
  <2>2. \A n \in 1 .. 0 : f[n] = visit(f, n)
    BY SMT
  <2>3. f = [n \in 1 .. 0 |-> visit(f, n)]
    <3> HIDE DEF visit
    <3> QED
      BY <2>1, <2>2
  <2> QED
    BY <2>3 DEF IsVisits
<1>2. ASSUME NEW k \in Nat, k \in P PROVE k + 1 \in P
  <2>1. PICK f : IsVisits(f, pkts, k)
    BY <1>2
  <2>2. PICK g : g = [n \in 1 .. k + 1 |-> IF n \in 1 .. k THEN f[n] ELSE visit(f, n)]
    OBVIOUS
  <2>3. ASSUME NEW n \in 1 .. k + 1
        PROVE  g[n] = visit(g, n)
    <3>1. n # 1 => n - 1 \in 1 .. k
      BY SMT
    <3>2. n # 1 => g[n - 1] = f[n - 1]
      BY <2>2, <3>1
    <3>3. visit(g, n) = visit(f, n)
      BY <3>2
    <3>4. n \in 1 .. k => f[n] = visit(f, n)
      BY <2>1 DEF IsVisits
    <3> QED
      BY <2>2, <3>3, <3>4
  <2>4. g = [n \in 1 .. k + 1 |-> visit(g, n)]
    <3> HIDE DEF visit
    <3> QED
      BY <2>2, <2>3
  <2> QED
    BY <2>4 DEF IsVisits
<1>3. m \in P
  <2> HIDE DEF P
  <2> QED
    BY <1>1, <1>2, Induction
<1> QED
  BY <1>3

LEMMA VisitsAre ==
    ASSUME NEW pkts
    PROVE  /\ Visits(pkts)[1] = {i \in 1 .. Len(pkts) : i = 1}
           /\ \A n \in 2 .. MaxWindow :
                 Visits(pkts)[n] = UNION {NextVisit(pkts, i) : i \in Visits(pkts)[n - 1]}
<1> DEFINE visit[n \in 1 .. MaxWindow] ==
             IF n = 1 THEN {i \in 1 .. Len(pkts) : i = 1}
             ELSE UNION {NextVisit(pkts, i) : i \in visit[n - 1]}
<1>1. Visits(pkts) = visit
  BY DEF Visits
<1>2. IsVisits(visit, pkts, MaxWindow)
  <2>1. \E f : IsVisits(f, pkts, MaxWindow)
    BY Sizes, VisitsExist
  <2> QED
    BY <2>1, Zenon DEF IsVisits
<1> HIDE DEF visit
<1>3. 1 \in 1 .. MaxWindow /\ \A n \in 2 .. MaxWindow : n \in 1 .. MaxWindow /\ n # 1
  BY Sizes, SMT
<1> QED
  BY <1>1, <1>2, <1>3 DEF IsVisits

\* A search finds one packet at most.
LEMMA OneMatch ==
    ASSUME NEW pkts, Len(pkts) \in Nat, NEW s, NEW from \in Nat,
           NEW i \in FirstMatch(pkts, s, from), NEW j \in FirstMatch(pkts, s, from)
    PROVE  i = j
<1> DEFINE start == IF Len(pkts) = MaxWindow /\ from > MaxWindow THEN 1 ELSE from
           ahead == {x \in start .. Len(pkts) : pkts[x].seqnum = s}
<1>1. FirstMatch(pkts, s, from) =
          IF ahead # {} THEN {x \in ahead : \A y \in ahead : x <= y}
          ELSE {x \in {1} : Len(pkts) = MaxWindow /\ pkts[x].seqnum = s}
  BY DEF FirstMatch
<1>2. ahead \subseteq Int
  OBVIOUS
<1> HIDE DEF ahead
<1>3. CASE ahead # {}
  <2>1. i \in ahead /\ j \in ahead /\ i <= j /\ j <= i
    BY <1>1, <1>3
  <2> QED
    BY <1>2, <2>1, SMT
<1>4. CASE ahead = {}
  BY <1>1, <1>4
<1> QED
  BY <1>3, <1>4

\* What a search finds has the seqnum it looks for.
LEMMA MatchesHave ==
    ASSUME NEW pkts, NEW s, NEW from, NEW i \in FirstMatch(pkts, s, from)
    PROVE  pkts[i].seqnum = s
BY DEF FirstMatch

\* A search from the head for the seqnum of the head finds the head.
LEMMA HeadIsFound ==
    ASSUME NEW pkts, Len(pkts) \in Nat, Len(pkts) # 0
    PROVE  FirstMatch(pkts, pkts[1].seqnum, 1) = {1}
<1> DEFINE s == pkts[1].seqnum
           ahead == {x \in 1 .. Len(pkts) : pkts[x].seqnum = s}
<1>1. FirstMatch(pkts, s, 1) =
          IF ahead # {} THEN {x \in ahead : \A y \in ahead : x <= y}
          ELSE {x \in {1} : Len(pkts) = MaxWindow /\ pkts[x].seqnum = s}
  <2>1. ~(1 > MaxWindow)
    BY Sizes, SMT
  <2> QED
    BY <2>1 DEF FirstMatch
<1>2. 1 \in ahead /\ \A y \in ahead : 1 <= y /\ y \in Int
  OBVIOUS
<1> HIDE DEF ahead
<1>3. {x \in ahead : \A y \in ahead : x <= y} = {1}
  <2>1. ASSUME NEW x \in ahead, \A y \in ahead : x <= y PROVE x = 1
    <3>1. x <= 1 /\ 1 <= x /\ x \in Int
      BY <1>2, <2>1
    <3> QED
      BY <3>1, SMT
  <2> QED
    BY <1>2, <2>1
<1> QED
  BY <1>1, <1>2, <1>3
----------------------------------------------------------------------------
\* Behind a head past the window size no packet has the seqnum MaxWindow - 1: the last
\* of a window that wraps round is MaxWindow - 2 at most.
LEMMA PastTheWindow ==
    ASSUME TypeOK, RingHoldsLast, NEW j \in 1 .. size, Content[1].seqnum >= MaxWindow
    PROVE  Content[j].seqnum # MaxWindow - 1
<1>1. next \in Seqnum /\ size \in 0 .. MaxWindow
  BY DEF TypeOK
<1>2. 1 \in 1 .. size /\ 1 \in 0 .. MaxWindow /\ j \in 0 .. MaxWindow
  BY <1>1, Sizes, SMT
<1> HIDE DEF Content
<1>3. \A i \in 1 .. size : Content[i].seqnum = SeqnumAt(next, size, i)
  <2>1. TAKE i \in 1 .. size
  <2>2. Content[i] = [seqnum |-> SeqnumAt(next, size, i)]
    BY DEF RingHoldsLast, SeqnumAt
  <2>3. [seqnum |-> SeqnumAt(next, size, i)].seqnum = SeqnumAt(next, size, i)
    OBVIOUS
  <2> QED
    BY <2>2, <2>3
<1> DEFINE d    == next - size
           head == Content[1].seqnum
           here == Content[j].seqnum
<1>4. /\ head = IF d < 0 THEN d + SeqMod ELSE d
      /\ here = IF d + j - 1 < 0 THEN d + j - 1 + SeqMod
                ELSE IF d + j - 1 < SeqMod THEN d + j - 1 ELSE d + j - 1 - SeqMod
  <2>1. /\ head = SeqnumAt(next, size, 1) /\ here = SeqnumAt(next, size, j)
    BY <1>2, <1>3
  <2>2. SeqnumAt(next, size, 1) = IF d + 1 - 1 < 0 THEN d + 1 - 1 + SeqMod
                                  ELSE IF d + 1 - 1 < SeqMod THEN d + 1 - 1
                                  ELSE d + 1 - 1 - SeqMod
    BY <1>1, <1>2, SeqnumAtIs
  <2>3. SeqnumAt(next, size, j) = IF d + j - 1 < 0 THEN d + j - 1 + SeqMod
                                  ELSE IF d + j - 1 < SeqMod THEN d + j - 1
                                  ELSE d + j - 1 - SeqMod
    BY <1>1, <1>2, SeqnumAtIs
  <2>4. d \in Int /\ d < SeqMod /\ d + 1 - 1 = d
    BY <1>1, Sizes, SMT
  <2> HIDE DEF d, head, here
  <2> QED
    BY <2>1, <2>2, <2>3, <2>4
<1>5. d \in Int /\ d < SeqMod /\ head >= MaxWindow
  BY <1>1, Sizes, SMT
<1> HIDE DEF d, head, here
<1>6. here # MaxWindow - 1
  BY <1>2, <1>4, <1>5, Sizes, SMT
<1> QED
  BY <1>6 DEF here

\* The remainder by the window size of what lies below twice that size.
LEMMA TargetNear ==
    ASSUME NEW a \in Nat, a < 2 * MaxWindow
    PROVE  a % MaxWindow = IF a < MaxWindow THEN a ELSE a - MaxWindow
<1>1. -MaxWindow <= a /\ ~(a < 0) /\ a \in Int
  BY Sizes, SMT
<1> QED
  BY <1>1, Sizes, ModNear

\* The check goes on to one seqnum more, and to no more than the window holds.
LEMMA NthFollows ==
    ASSUME NEW first \in Seqnum, NEW s \in Seqnum, NEW n \in 1 .. MaxWindow,
           IsNth(s, n, first), NEW t, t = NextTarget(s), t # first,
           first >= MaxWindow => t # MaxWindow - 1
    PROVE  n + 1 \in 1 .. MaxWindow /\ IsNth(t, n + 1, first)
<1>1. n + 1 # 1 /\ (n + 1) - 1 = n /\ (n + 1) - 2 = n - 1 /\ first \in Nat /\ s \in Nat
  BY Sizes, SMT
<1>2. s + 1 \in Nat /\ t = (s + 1) % MaxWindow
  BY <1>1, SMT DEF NextTarget
<1>3. t \in 0 .. MaxWindow - 1
  BY <1>2, Sizes, Z3
<1>4. CASE first < MaxWindow
  <2>1. first + n \in Nat /\ first + n < 2 * MaxWindow
    BY <1>1, <1>4, Sizes, SMT
  <2>2. (first + n) % MaxWindow = IF first + n < MaxWindow THEN first + n
                                  ELSE first + n - MaxWindow
    <3>1. PICK a \in Nat : a = first + n /\ a < 2 * MaxWindow
      BY <2>1
    <3>2. a % MaxWindow = IF a < MaxWindow THEN a ELSE a - MaxWindow
      BY <3>1, TargetNear
    <3>3. (first + n) % MaxWindow = a % MaxWindow
      BY <3>1, Zenon
    <3> QED
      BY <1>1, <3>1, <3>2, <3>3, Sizes, SMT
  <2>3. s = IF first + n - 1 < MaxWindow THEN first + n - 1 ELSE first + n - 1 - MaxWindow
    <3>1. CASE n = 1
      BY <1>1, <1>4, <3>1, Sizes, SMT DEF IsNth
    <3>2. CASE n # 1
      <4>1. s = (first + n - 1) % MaxWindow
        BY <1>1, <1>4, <3>2, Sizes, SMT DEF IsNth
      <4>2. PICK a \in Nat : a = first + n - 1 /\ a < 2 * MaxWindow
        BY <1>1, <1>4, Sizes, SMT
      <4>3. a % MaxWindow = IF a < MaxWindow THEN a ELSE a - MaxWindow
        BY <4>2, TargetNear
      <4>4. (first + n - 1) % MaxWindow = a % MaxWindow
        BY <4>2, Zenon
      <4>5. s = a % MaxWindow
        BY <4>1, <4>4, Zenon
      <4> QED
        BY <1>1, <4>2, <4>3, <4>5, Sizes, SMT
    <3> QED
      BY <3>1, <3>2
  <2>4. t = IF s + 1 < MaxWindow THEN s + 1 ELSE s + 1 - MaxWindow
    <3>1. s + 1 < 2 * MaxWindow
      BY <1>1, <1>4, <2>3, Sizes, SMT
    <3>2. PICK a \in Nat : a = s + 1 /\ a < 2 * MaxWindow
      BY <1>2, <3>1
    <3>3. a % MaxWindow = IF a < MaxWindow THEN a ELSE a - MaxWindow
      BY <3>2, TargetNear
    <3>4. t = a % MaxWindow
      BY <1>2, <3>2, Zenon
    <3> QED
      BY <1>1, <3>2, <3>3, <3>4, Sizes, SMT
  <2>5. n + 1 <= MaxWindow /\ t = (first + n) % MaxWindow
    BY <1>1, <1>4, <2>2, <2>3, <2>4, Sizes, SMT
  <2>6. n + 1 \in 1 .. MaxWindow /\ first + (n + 1) - 1 = first + n
    BY <1>1, <2>5, Sizes, SMT
  <2> QED
    BY <1>1, <1>4, <2>5, <2>6 DEF IsNth
<1>5. CASE ~(first < MaxWindow)
  <2>0. first >= MaxWindow
    BY <1>1, <1>5, Sizes, SMT
  <2>1. t \in n - 1 .. MaxWindow - 2
    <3>1. CASE n = 1
      BY <1>3, <2>0, <3>1, Sizes, SMT
    <3>2. CASE n # 1
      <4>1. s \in n - 2 .. MaxWindow - 2
        BY <1>5, <3>2 DEF IsNth
      <4>2. s + 1 < 2 * MaxWindow /\ s + 1 < MaxWindow
        BY <1>1, <4>1, Sizes, SMT
      <4>3. t = s + 1
        <5>1. PICK a \in Nat : a = s + 1 /\ a < 2 * MaxWindow /\ a < MaxWindow
          BY <1>2, <4>2
        <5>2. a % MaxWindow = a
          BY <5>1, TargetNear
        <5> QED
          BY <1>2, <5>1, <5>2
      <4> QED
        BY <1>1, <2>0, <4>1, <4>3, Sizes, SMT
    <3> QED
      BY <3>1, <3>2
  <2>2. n + 1 \in 1 .. MaxWindow
    BY <1>3, <2>1, Sizes, SMT
  <2> QED
    BY <1>1, <2>0, <2>1, <2>2 DEF IsNth
<1> QED
  BY <1>4, <1>5

\* A hit of a timer check is the next visit.
LEMMA HitVisits ==
    ASSUME LoopInv, TimerInv, Hit, search' # Null, search'.first # Null
    PROVE  TimerInv'
<1> DEFINE j     == Position(search.index)
           first == search.first
           visit == Visits(Content)
<1>1. /\ search # Null /\ Matches /\ UNCHANGED <<ring, size, ptrAdd, ptrPop, next>>
      /\ search' = [search EXCEPT !.index = NextSlot(@), !.firstTime = TRUE,
                                  !.target = NextTarget(@), !.from = j + 1,
                                  !.visited = @ \cup {j}]
      /\ search.visited # {} => search.target # first
  BY DEF Hit
<1>2. /\ TypeOK /\ RingHoldsLast /\ search \in Search /\ size \in 0 .. MaxWindow
      /\ j \in 1 .. MaxWindow /\ j <= size /\ Content[j].seqnum = search.target
  BY <1>1, SearchPlace DEF Matches
<1>3. /\ search'.first = first /\ search'.from = j + 1
      /\ search'.target = NextTarget(search.target)
      /\ search'.visited = search.visited \cup {j}
  BY <1>1, <1>2 DEF Search
<1>4. Content' = Content /\ size' = size
  BY <1>1, StaysPut
<1>5. j \in FirstMatch(Content, search.target, search.from)
  BY HitIsFirst
<1>6. /\ first # Null /\ size # 0 /\ first = Content[1].seqnum /\ search.visited \subseteq 1 .. size
      /\ \/ search.visited = {} /\ search.from = 1 /\ search.target = first
         \/ \E n \in 1 .. MaxWindow, at \in 1 .. size :
               /\ visit[n] = {at} /\ IsNth(Content[at].seqnum, n, first)
               /\ search.from = at + 1
               /\ search.target = NextTarget(Content[at].seqnum)
               /\ search.visited = UNION {visit[k] : k \in 1 .. n}
  BY <1>1, <1>3 DEF TimerInv
<1>7. Len(Content) = size /\ Content \in Seq(Pkt) /\ size \in Nat /\ j \in 1 .. size
  BY <1>2, ContentType, Sizes, SMT
<1> HIDE DEF j, first, Content
<1>8. \A i \in 1 .. size : Content[i].seqnum \in Seqnum
  <2>1. TAKE i \in 1 .. size
  <2>2. Content[i] \in Pkt
    BY <1>7, ElementOfSeq
  <2> QED
    BY <2>2 DEF Pkt
<1>9. \E n \in 1 .. MaxWindow : /\ visit[n] = {j} /\ IsNth(Content[j].seqnum, n, first)
                               /\ search'.visited = UNION {visit[k] : k \in 1 .. n}
  <2>1. CASE search.visited = {} /\ search.from = 1 /\ search.target = first
    <3>1. j = 1
      BY <1>5, <1>6, <1>7, <2>1, HeadIsFound
    <3>2. visit[1] = {1}
      <4>1. visit[1] = {i \in 1 .. Len(Content) : i = 1}
        BY VisitsAre
      <4> HIDE DEF visit
      <4> QED
        BY <1>6, <1>7, <4>1
    <3>3. 1 \in 1 .. MaxWindow /\ 1 .. 1 = {1}
      BY Sizes, SMT
    <3>4. IsNth(Content[j].seqnum, 1, first)
      BY <1>6, <3>1 DEF IsNth
    <3> HIDE DEF visit
    <3>5. search'.visited = UNION {visit[k] : k \in 1 .. 1}
      BY <1>3, <2>1, <3>1, <3>2, <3>3
    <3> QED
      BY <3>1, <3>2, <3>3, <3>4, <3>5
  <2>2. CASE \E n \in 1 .. MaxWindow, at \in 1 .. size :
               /\ visit[n] = {at} /\ IsNth(Content[at].seqnum, n, first)
               /\ search.from = at + 1
               /\ search.target = NextTarget(Content[at].seqnum)
               /\ search.visited = UNION {visit[k] : k \in 1 .. n}
    <3>1. PICK n \in 1 .. MaxWindow, at \in 1 .. size :
               /\ visit[n] = {at} /\ IsNth(Content[at].seqnum, n, first)
               /\ search.from = at + 1
               /\ search.target = NextTarget(Content[at].seqnum)
               /\ search.visited = UNION {visit[k] : k \in 1 .. n}
      BY <2>2
    <3>2. search.target # first
      <4>1. n \in 1 .. n
        BY Sizes, SMT
      <4>2. at \in search.visited
        BY <3>1, <4>1
      <4> QED
        BY <1>1, <4>2 DEF first
    <3>3. first >= MaxWindow => search.target # MaxWindow - 1
      BY <1>2, <1>6, <1>7, PastTheWindow
    <3>4. n + 1 \in 1 .. MaxWindow /\ IsNth(search.target, n + 1, first)
      <4>1. first \in Seqnum /\ Content[at].seqnum \in Seqnum
        BY <1>6, <1>7, <1>8, Sizes, SMT
      <4> QED
        BY <3>1, <3>2, <3>3, <4>1, NthFollows
    <3>5. NextVisit(Content, at) = {j}
      <4>1. NextVisit(Content, at) =
                {x \in FirstMatch(Content, search.target, search.from) :
                    Content[x].seqnum # Content[1].seqnum}
        BY <3>1 DEF NextVisit, NextTarget
      <4>2. \A x \in FirstMatch(Content, search.target, search.from) : x = j
        <5>1. search.from \in Nat
          BY <1>2, Sizes, SMT DEF Search
        <5> QED
          BY <1>5, <1>7, <5>1, OneMatch
      <4> QED
        BY <1>2, <1>5, <1>6, <3>2, <4>1, <4>2
    <3>6. visit[n + 1] = {j}
      <4>1. n + 1 \in 2 .. MaxWindow /\ (n + 1) - 1 = n
        BY <3>4, Sizes, SMT
      <4>2. visit[n + 1] = UNION {NextVisit(Content, i) : i \in visit[n]}
        BY <4>1, VisitsAre
      <4> HIDE DEF visit
      <4> QED
        BY <3>1, <3>5, <4>2
    <3> HIDE DEF visit
    <3>7. search'.visited = UNION {visit[k] : k \in 1 .. n + 1}
      <4>1. \A k : k \in 1 .. n + 1 <=> k \in 1 .. n \/ k = n + 1
        BY Sizes, SMT
      <4> QED
        BY <1>3, <3>1, <3>6, <4>1
    <3> QED
      BY <1>2, <3>4, <3>6, <3>7
  <2> QED
    BY <1>6, <2>1, <2>2
<1>10. search'.visited \subseteq 1 .. size
  BY <1>3, <1>6, <1>7
<1>11. \E n \in 1 .. MaxWindow, at \in 1 .. size :
           /\ visit[n] = {at} /\ IsNth(Content[at].seqnum, n, first)
           /\ search'.from = at + 1
           /\ search'.target = NextTarget(Content[at].seqnum)
           /\ search'.visited = UNION {visit[k] : k \in 1 .. n}
  <2> HIDE DEF visit
  <2> QED
    BY <1>2, <1>3, <1>7, <1>9
<1> QED
  BY <1>3, <1>4, <1>6, <1>10, <1>11 DEF TimerInv

LEMMA TimersNext == LoopInv /\ TimerInv /\ [Next]_vars => TimerInv'
<1> SUFFICES ASSUME LoopInv, TimerInv, [Next]_vars PROVE TimerInv'
  OBVIOUS
<1>1. CASE search' = Null \/ search'.first = Null
  BY <1>1 DEF TimerInv
<1>2. CASE UNCHANGED vars \/ Advance
  <2>1. UNCHANGED <<ring, size, ptrAdd, ptrPop, next>> /\ (search' # Null => search # Null)
    BY <1>2 DEF vars, Advance
  <2>2. Content' = Content /\ size' = size
    BY <2>1, StaysPut
  <2>3. search' # Null =>
           /\ search'.first = search.first /\ search'.from = search.from
           /\ search'.target = search.target /\ search'.visited = search.visited
    <3>1. CASE UNCHANGED vars
      BY <3>1 DEF vars
    <3>2. CASE Advance
      <4>1. search \in Search
        BY <3>2 DEF Advance, LoopInv, RingInv, TypeOK
      <4> QED
        BY <3>2, <4>1 DEF Advance, Search
    <3> QED
      BY <1>2, <3>1, <3>2
  <2> QED
    BY <2>1, <2>2, <2>3 DEF TimerInv
<1>3. CASE GetForTimers
  <2>1. /\ size > 0 /\ UNCHANGED <<ring, size, ptrAdd, ptrPop, next>>
        /\ search' = [index |-> ptrPop, firstTime |-> TRUE, target |-> ring[ptrPop].seqnum,
                      from |-> 1, first |-> ring[ptrPop].seqnum, visited |-> {}]
    BY <1>3 DEF GetForTimers
  <2>2. ptrPop \in Slots /\ size \in 0 .. MaxWindow
    BY DEF LoopInv, RingInv, TypeOK
  <2>3. 1 \in 1 .. size /\ size # 0
    BY <2>1, <2>2, Sizes, SMT
  <2>4. Content[1] = ring[ptrPop]
    <3>1. Content[1] = ring[At(ptrPop, 1)]
      BY <2>3 DEF Content, At
    <3> QED
      BY <2>2, <3>1, HeadPos
  <2>5. Content' = Content /\ size' = size
    BY <2>1, StaysPut
  <2>6. /\ search'.first = Content[1].seqnum /\ search'.target = search'.first
        /\ search'.from = 1 /\ search'.visited = {}
    BY <2>1, <2>4
  <2> HIDE DEF Content
  <2> QED
    BY <2>3, <2>5, <2>6 DEF TimerInv
<1>4. CASE Hit
  BY <1>1, <1>4, HitVisits
<1>5. CASE Add \/ TakeAck \/ Dequeue \/ AckDone \/ GetForNack \/ Miss
  <2>1. search' = Null \/ search'.first = Null
    BY <1>5
    DEF Add, TakeAck, Dequeue, AckDone, GetForNack, Miss, Idle, LoopInv, RingInv
  <2> QED
    BY <1>1, <2>1
<1> QED
  BY <1>2, <1>3, <1>4, <1>5 DEF Next

\* In every state the ring holds the packets added last and no other, a search has
\* passed over no match, a timer check has looked at the first visits, and an ACK has
\* taken off only what it covers (queue.c, read_write_loop_sender.c:214-237).
THEOREM QueueInvHolds == Spec => []QueueInv
<1>1. Init => TimerInv
  BY DEF Init, TimerInv
<1> QED
  BY <1>1, TimersNext, LoopInvHolds, PTL DEF Spec, QueueInv

\* When get() finds nothing more, or the head again, all the visits were made.
LEMMA TimersAreVisits ==
    ASSUME LoopInv, TimerInv, Hit \/ Miss, search' = Null, search.first # Null
    PROVE  search.visited = VisitedIn(Content)
<1> DEFINE first == search.first
           visit == Visits(Content)
<1>1. search # Null /\ search \in Search /\ TypeOK /\ RingHoldsLast /\ size \in 0 .. MaxWindow
  BY SearchPlace DEF Hit, Miss
<1>2. /\ size # 0 /\ first = Content[1].seqnum /\ search.visited \subseteq 1 .. size
      /\ \/ search.visited = {} /\ search.from = 1 /\ search.target = first
         \/ \E n \in 1 .. MaxWindow, at \in 1 .. size :
               /\ visit[n] = {at} /\ IsNth(Content[at].seqnum, n, first)
               /\ search.from = at + 1
               /\ search.target = NextTarget(Content[at].seqnum)
               /\ search.visited = UNION {visit[k] : k \in 1 .. n}
  BY <1>1 DEF TimerInv
<1>3. Len(Content) = size /\ size \in Nat
  BY <1>1, ContentType, Sizes, SMT
<1>4. \/ search.visited # {} /\ search.target = first
      \/ FirstMatch(Content, search.target, search.from) = {}
  BY HitStops, MissIsNone
<1> HIDE DEF first, Content
<1>5. ~(search.visited = {} /\ search.from = 1 /\ search.target = first)
  BY <1>2, <1>3, <1>4, HeadIsFound
<1>6. PICK n \in 1 .. MaxWindow, at \in 1 .. size :
         /\ visit[n] = {at}
         /\ search.from = at + 1 /\ search.target = NextTarget(Content[at].seqnum)
         /\ search.visited = UNION {visit[k] : k \in 1 .. n}
  BY <1>2, <1>5
<1>7. NextVisit(Content, at) = {}
  <2>1. NextVisit(Content, at) =
            {x \in FirstMatch(Content, search.target, search.from) :
                Content[x].seqnum # Content[1].seqnum}
    BY <1>6 DEF NextVisit, NextTarget
  <2>2. \A x \in FirstMatch(Content, search.target, search.from) :
            Content[x].seqnum = search.target
    BY MatchesHave
  <2> QED
    BY <1>2, <1>4, <2>1, <2>2
<1>8. \A k \in 2 .. MaxWindow : visit[k] = UNION {NextVisit(Content, i) : i \in visit[k - 1]}
  BY VisitsAre
<1>9. VisitedIn(Content) = {i \in 1 .. size : \E k \in 1 .. MaxWindow : i \in visit[k]}
  BY <1>3 DEF VisitedIn
<1> HIDE DEF visit
<1>10. ASSUME NEW k \in Nat, n + 1 + k <= MaxWindow
       PROVE  visit[n + 1 + k] = {}
  <2> DEFINE P == {x \in Nat : n + 1 + x <= MaxWindow => visit[n + 1 + x] = {}}
  <2>1. 0 \in P
    <3>1. n + 1 + 0 = n + 1 /\ (n + 1) - 1 = n
      BY Sizes, SMT
    <3>2. n + 1 <= MaxWindow => n + 1 \in 2 .. MaxWindow
      BY Sizes, SMT
    <3> QED
      BY <1>6, <1>7, <1>8, <3>1, <3>2
  <2>2. ASSUME NEW x \in Nat, x \in P PROVE x + 1 \in P
    <3>1. n + 1 + (x + 1) <= MaxWindow =>
             /\ n + 1 + x <= MaxWindow /\ n + 1 + (x + 1) \in 2 .. MaxWindow
             /\ (n + 1 + (x + 1)) - 1 = n + 1 + x
      BY Sizes, SMT
    <3> QED
      BY <1>8, <2>2, <3>1
  <2>3. k \in P
    <3> HIDE DEF P
    <3> QED
      BY <2>1, <2>2, Induction
  <2> QED
    BY <1>10, <2>3
<1>11. ASSUME NEW k \in 1 .. MaxWindow, k \notin 1 .. n
       PROVE  visit[k] = {}
  <2>1. k - n - 1 \in Nat /\ n + 1 + (k - n - 1) = k /\ k <= MaxWindow
    BY <1>11, Sizes, SMT
  <2> QED
    BY <1>10, <2>1
<1>12. \A k \in 1 .. n : k \in 1 .. MaxWindow
  BY Sizes, SMT
<1> QED
  BY <1>2, <1>6, <1>9, <1>11, <1>12

\* The loops of the caller come to what Lookup says at once: an ACK takes off just
\* the packets CoversExactly() says, and the timer check looks at just the timers of
\* VisitedIn(), wherever the ring and the seqnums wrap round
\* (read_write_loop_sender.c:165, 214-237).
THEOREM LoopsComeToLookups == Spec => LoopsAreLookups
<1>1. QueueInv /\ [Next]_vars =>
          [AckDone =>
              LET popped == Len(ack.before) - size
              IN  /\ CoversExactly(ack.before, popped, ack.upto)
                  /\ Content = SubSeq(ack.before, popped + 1, Len(ack.before))]_vars
  BY AckTakes DEF QueueInv
<1>2. QueueInv /\ [Next]_vars =>
          [(Hit \/ Miss) /\ search' = Null /\ search.first # Null =>
              search.visited = VisitedIn(Content)]_vars
  BY TimersAreVisits DEF QueueInv
<1> QED
  BY <1>1, <1>2, QueueInvHolds, PTL DEF Spec, LoopsAreLookups
=============================================================================
