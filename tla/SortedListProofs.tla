-------------------------- MODULE SortedListProofs --------------------------
(***************************************************************************)
(* The receiver's array of early packets, for every modulus and window: on *)
(* zeroed memory its invariant is inductive, peek() stays in the array,    *)
(* add() refuses duplicates only, and a whole drain with its reset() is    *)
(* one step of the abstract buffer.                                        *)
(***************************************************************************)
EXTENDS SortedList, SeqNumProofs, FiniteSetTheorems

LEMMA Sizes ==
    /\ SeqMod \in Nat /\ MaxWindow \in Nat \ {0} /\ 2 * MaxWindow < SeqMod
    /\ Null \notin Seqnum /\ Garbage \notin Seqnum /\ Null # Garbage
    /\ Slots \subseteq Nat /\ Slots = 0 .. MaxWindow - 1 /\ Seqnum = 0 .. SeqMod - 1
BY SeqNumAssumption, ListAssumption, SMT DEF Slots, Seqnum

\* The increment without a division.
LEMMA NextSeqIs ==
    ASSUME NEW s \in Seqnum
    PROVE  NextSeq(s) = IF s + 1 < SeqMod THEN s + 1 ELSE 0
<1>1. s \in Nat /\ 1 \in 0 .. SeqMod - 1 /\ s < SeqMod
  BY Sizes, SMT
<1>2. SeqOf(s) = s
  BY SeqOfSmall
<1>3. SeqOf(s + 1) = IF s + 1 < SeqMod THEN s + 1 ELSE s + 1 - SeqMod
  BY <1>1, <1>2, SeqOfAhead
<1> QED
  BY <1>1, <1>3, Sizes, SMT DEF SeqOf, NextSeq

\* ind() is a distance: it is in range, and it determines the packet.
LEMMA IndType ==
    ASSUME NEW s \in Seqnum, NEW w \in Seqnum
    PROVE  Ind(s, w) \in 0 .. SeqMod - 1
BY Sizes, SMT DEF Ind

LEMMA IndDetermines ==
    ASSUME NEW s \in Seqnum, NEW t \in Seqnum, NEW w \in Seqnum, Ind(s, w) = Ind(t, w)
    PROVE  s = t
BY Sizes, SMT DEF Ind

\* The distance of the next seqnum is one more.
LEMMA IndOfNext ==
    ASSUME NEW s \in Seqnum, NEW w \in Seqnum, Ind(s, w) < SeqMod - 1
    PROVE  NextSeq(s) \in Seqnum /\ Ind(NextSeq(s), w) = Ind(s, w) + 1
BY NextSeqIs, Sizes, SMT DEF Ind

\* Distances add up.
LEMMA IndFromNearer ==
    ASSUME NEW s \in Seqnum, NEW t \in Seqnum, NEW w \in Seqnum, Ind(t, w) <= Ind(s, w)
    PROVE  Ind(s, t) = Ind(s, w) - Ind(t, w)
BY Sizes, SMT DEF Ind

LEMMA FilledFinite == Filled \subseteq Slots /\ IsFiniteSet(Filled)
<1>1. IsFiniteSet(Slots)
  <2>1. 0 \in Int /\ MaxWindow - 1 \in Int
    BY Sizes, SMT
  <2> QED
    BY <2>1, FS_Interval DEF Slots
<1>2. Filled \in SUBSET Slots
  BY DEF Filled
<1> QED
  BY <1>1, <1>2, FS_Subset

----------------------------------------------------------------------------
LEMMA InitList == ZeroedHeap /\ Init => ListInv
<1> SUFFICES ASSUME ZeroedHeap, Init PROVE ListInv
  OBVIOUS
<1>1. window \in [Slots -> {Null}]
  BY DEF Init
<1>2. Filled = {}
  BY <1>1 DEF Filled
<1>3. TypeOK
  <2>1. window \in [Slots -> Seqnum \cup {Null, Garbage}]
    BY <1>1, Zenon
  <2>2. 0 \in 0 .. MaxWindow /\ 0 \in Seqnum
    BY Sizes, SMT
  <2> QED
    BY <2>1, <2>2 DEF Init, TypeOK
<1>4. Cardinality(Filled) = 0
  BY <1>2, FS_EmptySet
<1> QED
  BY <1>2, <1>3, <1>4 DEF Init, ListInv

\* A call of add() that finds its slot free.
LEMMA AddPreserves ==
    ASSUME ListInv, NEW s \in Seqnum, Add(s)
    PROVE  ListInv'
<1>1. PICK index \in Slots :
          /\ AddTo(index, s) /\ window[index] = Null
          /\ window' = [window EXCEPT ![index] = s]
          /\ size' = size + 1
          /\ refused' = Null
          /\ UNCHANGED <<ptr, waited, old, draining>>
  BY Zenon DEF Add
<1>2. ~draining /\ index = Ind(s, waited) /\ index # 0
  BY <1>1 DEF AddTo
<1>3. window \in [Slots -> Seqnum \cup {Null, Garbage}]
  BY DEF ListInv, TypeOK
<1>4. Filled' = Filled \cup {index} /\ index \notin Filled
  BY <1>1, <1>3, Sizes, Zenon DEF Filled
<1>5. size' = Cardinality(Filled')
  BY <1>1, <1>4, FilledFinite, FS_AddElement DEF ListInv
<1>6. size' \in 0 .. MaxWindow
  <2>1. Filled' \in SUBSET Slots
    BY <1>4, FilledFinite
  <2>2. IsFiniteSet(Slots) /\ Cardinality(Slots) = MaxWindow
    <3>1. 0 \in Int /\ MaxWindow - 1 \in Int /\ MaxWindow \in Nat \ {0}
      BY Sizes, SMT
    <3>2. Cardinality(0 .. MaxWindow - 1) = MaxWindow
      BY <3>1, FS_Interval, SMT
    <3> QED
      BY <3>1, <3>2, FS_Interval DEF Slots
  <2>3. Cardinality(Filled') <= MaxWindow /\ IsFiniteSet(Filled')
    BY <2>1, <2>2, FS_Subset
  <2> QED
    BY <1>5, <2>3, Sizes, FS_CardinalityType, SMT
<1>7. TypeOK'
  BY <1>1, <1>3, <1>6 DEF ListInv, TypeOK
<1>8. \A i \in Filled' : i # 0 /\ window'[i] \in Seqnum /\ Ind(window'[i], Base') = i
  <2>1. \A i \in Filled : window'[i] = window[i]
    BY <1>1, <1>3, <1>4, FilledFinite
  <2>2. window'[index] = s
    BY <1>1, <1>3
  <2> QED
    BY <1>1, <1>2, <1>4, <2>1, <2>2 DEF ListInv, Base
<1> QED
  BY <1>1, <1>2, <1>5, <1>7, <1>8 DEF ListInv

\* The slot a packet belongs in holds that packet or none.
LEMMA RefusePreserves ==
    ASSUME ListInv, NEW s \in Seqnum, Refuse(s)
    PROVE  ListInv'
<1>1. PICK index \in Slots : AddTo(index, s) /\ window[index] # Null
  BY DEF Refuse
<1>2. refused' = s /\ UNCHANGED <<window, size, ptr, waited, old, draining>>
  BY DEF Refuse
<1>3. ~draining /\ index = Ind(s, waited) /\ index \in Filled /\ waited \in Seqnum
  BY <1>1 DEF AddTo, Filled, ListInv, TypeOK
<1>4. window[index] = s
  <2>1. window[index] \in Seqnum /\ Ind(window[index], waited) = index
    BY <1>3 DEF ListInv, Base
  <2> QED
    BY <1>3, <2>1, IndDetermines
<1>5. Filled' = Filled
  BY <1>2 DEF Filled
<1> QED
  BY <1>2, <1>3, <1>4, <1>5 DEF ListInv, TypeOK, Base

LEMMA WaitedPreserves == ListInv /\ WaitedArrives => ListInv'
<1> SUFFICES ASSUME ListInv, WaitedArrives PROVE ListInv'
  OBVIOUS
<1>1. /\ ~draining /\ draining' = TRUE /\ old' = waited /\ waited' = NextSeq(waited)
      /\ refused' = Null /\ UNCHANGED <<window, size, ptr>>
  BY DEF WaitedArrives
<1>2. waited \in Seqnum /\ ptr = 0
  BY <1>1 DEF ListInv, TypeOK
<1>3. waited' \in Seqnum /\ Ind(waited', old') = 1
  <2>1. Ind(waited, waited) = 0
    BY <1>2, Sizes, SMT DEF Ind
  <2>2. 0 < SeqMod - 1
    BY Sizes, SMT
  <2> QED
    BY <1>1, <1>2, <2>1, <2>2, IndOfNext, SMT
<1>4. Filled' = Filled
  BY <1>1 DEF Filled
<1>5. \A i \in Filled : i >= ptr /\ i >= 1
  BY <1>2, FilledFinite, Sizes, SMT DEF ListInv
<1>6. \A i \in Filled : Ind(window[i], waited) = i
  BY <1>1 DEF ListInv, Base
<1>7. 1 \in 1 .. MaxWindow
  BY Sizes, SMT
<1>8. TypeOK'
  BY <1>1, <1>2, <1>3 DEF ListInv, TypeOK
<1> QED
  BY <1>1, <1>3, <1>4, <1>5, <1>6, <1>7, <1>8 DEF ListInv, Base

\* Where peek() and pop() are in the middle of a drain: a packet is left, so ptr is
\* the index of a slot, and the packet peek() stops at is there.
LEMMA PtrInSlots ==
    ASSUME ListInv, size # 0
    PROVE  ptr \in Slots /\ Filled # {} /\ \A i \in Filled : i >= ptr
<1>1. Filled # {}
  BY FilledFinite, FS_EmptySet DEF ListInv
<1>2. ptr \in Nat /\ \A i \in Filled : i >= ptr
  BY FilledFinite, Sizes, SMT DEF ListInv, TypeOK
<1>3. PICK i \in Filled : TRUE
  BY <1>1
<1>4. i \in Slots /\ i >= ptr
  BY <1>2, <1>3, FilledFinite
<1>5. ptr \in Slots
  BY <1>2, <1>4, Sizes, SMT
<1> QED
  BY <1>1, <1>2, <1>5

LEMMA ScanPreserves == ListInv /\ Scan => ListInv'
<1> SUFFICES ASSUME ListInv, Scan PROVE ListInv'
  OBVIOUS
<1>1. /\ draining /\ size # 0 /\ window[ptr] = Null /\ ptr' = ptr + 1
      /\ UNCHANGED <<window, size, waited, old, draining, refused>>
  BY DEF Scan
<1>2. ptr \in Slots /\ \A i \in Filled : i >= ptr
  BY <1>1, PtrInSlots
<1>3. \A i \in Filled : i # ptr
  BY <1>1 DEF Filled
<1>4. \A i \in Filled : i >= ptr + 1
  BY <1>2, <1>3, FilledFinite, Sizes, SMT
<1>5. ptr' \in 0 .. MaxWindow
  BY <1>1, <1>2, Sizes, SMT
<1>6. Filled' = Filled
  BY <1>1 DEF Filled
<1>7. TypeOK'
  BY <1>1, <1>5 DEF ListInv, TypeOK
<1> QED
  BY <1>1, <1>4, <1>6, <1>7 DEF ListInv, Base

\* What pop() takes off: the packet waited for, from the slot of its distance.
LEMMA PopTakesWaited ==
    ASSUME ListInv, Pop
    PROVE  /\ ptr \in Filled /\ window[ptr] = waited /\ ptr = Ind(waited, old)
           /\ Filled' = Filled \ {ptr}
           /\ \A i \in Filled' : window'[i] = window[i]
           /\ waited' \in Seqnum /\ Ind(waited', old) = ptr + 1
<1>1. /\ draining /\ size # 0 /\ window[ptr] \in {waited, Garbage}
      /\ window' = [window EXCEPT ![ptr] = Null]
      /\ waited' = NextSeq(waited)
      /\ waited \in Seqnum /\ old \in Seqnum
      /\ window \in [Slots -> Seqnum \cup {Null, Garbage}]
  BY DEF Pop, ListInv, TypeOK
<1>2. ptr \in Slots
  BY <1>1, PtrInSlots
<1>3. window[ptr] # Null
  BY <1>1, Sizes
<1>4. ptr \in Filled
  BY <1>2, <1>3 DEF Filled
<1>5. window[ptr] = waited /\ ptr = Ind(waited, old)
  BY <1>1, <1>4, Sizes DEF ListInv, Base
<1>6. Filled' = Filled \ {ptr} /\ \A i \in Filled' : window'[i] = window[i]
  BY <1>1, <1>2 DEF Filled
<1>7. ptr < SeqMod - 1
  BY <1>2, Sizes, SMT
<1>8. waited' \in Seqnum /\ Ind(waited', old) = ptr + 1
  BY <1>1, <1>5, <1>7, IndOfNext
<1> QED
  BY <1>4, <1>5, <1>6, <1>8

LEMMA PopPreserves == ListInv /\ Pop => ListInv'
<1> SUFFICES ASSUME ListInv, Pop PROVE ListInv'
  OBVIOUS
<1>1. /\ draining /\ size # 0 /\ size' = size - 1
      /\ window' = [window EXCEPT ![ptr] = Null]
      /\ UNCHANGED <<ptr, old, draining, refused>>
  BY DEF Pop
<1>2. /\ ptr \in Filled /\ window[ptr] = waited /\ ptr = Ind(waited, old)
      /\ Filled' = Filled \ {ptr}
      /\ \A i \in Filled' : window'[i] = window[i]
      /\ waited' \in Seqnum /\ Ind(waited', old) = ptr + 1
  BY PopTakesWaited
<1>3. ptr \in Slots
  BY <1>2, FilledFinite
<1>4. size' = Cardinality(Filled')
  BY <1>1, <1>2, FilledFinite, FS_RemoveElement DEF ListInv
<1>5. size' \in 0 .. MaxWindow
  BY <1>1, Sizes, SMT DEF ListInv, TypeOK
<1>6. TypeOK'
  BY <1>1, <1>2, <1>5 DEF ListInv, TypeOK
<1>7. Ind(waited', old') \in 1 .. MaxWindow
  BY <1>1, <1>2, <1>3, Sizes, SMT
<1>8. \A i \in Filled' : i >= ptr' /\ i >= Ind(waited', old')
  BY <1>1, <1>2, <1>3, FilledFinite, Sizes, SMT DEF ListInv
<1>9. \A i \in Filled' : i # 0 /\ window'[i] \in Seqnum /\ Ind(window'[i], Base') = i
  BY <1>1, <1>2 DEF ListInv, Base
<1> QED
  BY <1>1, <1>4, <1>6, <1>7, <1>8, <1>9 DEF ListInv

\* reset() after a drain: all that is left lies past the packet waited for, and moves
\* by its distance.
LEMMA EndMovesRest ==
    ASSUME ListInv, EndDrain
    PROVE  /\ Ind(waited, old) \in 1 .. MaxWindow
           /\ \A i \in Filled : i > Ind(waited, old)
           /\ window' = [i \in Slots |-> IF i + Ind(waited, old) \in Filled
                                        THEN window[i + Ind(waited, old)] ELSE Null]
<1> DEFINE d == Ind(waited, old)
<1>1. /\ draining
      /\ size = 0 \/ window[ptr] \notin {Null, waited}
      /\ window' = [i \in Slots |->
             IF i + d \in Moved(d) THEN window[i + d]
             ELSE IF i \in Moved(d) THEN Null ELSE window[i]]
  BY DEF EndDrain, Reset
<1>2. d \in 1 .. MaxWindow /\ \A i \in Filled : i >= d
  BY <1>1 DEF ListInv
<1>3. d \notin Filled
  <2> SUFFICES ASSUME d \in Filled PROVE FALSE
    OBVIOUS
  <2>1. size # 0
    BY FilledFinite, FS_EmptySet DEF ListInv
  <2>2. ptr \in Slots /\ d >= ptr /\ ptr \in Filled
    BY <1>1, <2>1, PtrInSlots DEF Filled
  <2>3. ptr = d
    BY <1>2, <2>2, Sizes, SMT
  <2>4. window[d] \in Seqnum /\ Ind(window[d], old) = d /\ waited \in Seqnum /\ old \in Seqnum
    BY <1>1 DEF ListInv, Base, TypeOK
  <2>5. window[d] = waited
    BY <2>4, IndDetermines
  <2> QED
    BY <1>1, <2>1, <2>3, <2>5
<1> HIDE DEF d
<1>4. \A i \in Filled : i > d
  <2> SUFFICES ASSUME NEW i \in Filled PROVE i > d
    OBVIOUS
  <2>1. i >= d /\ i # d /\ i \in Nat
    BY <1>2, <1>3, FilledFinite, Sizes
  <2> QED
    BY <1>2, <2>1, SMT
<1>5. Moved(d) = Filled
  <2> SUFFICES ASSUME NEW i \in Filled
               PROVE  i >= d /\ Cardinality(Filled \cap d .. i - 1) < size
    BY DEF Moved
  <2>1. i \in Nat /\ i \notin d .. i - 1
    BY FilledFinite, Sizes, SMT
  <2>2. Filled \cap d .. i - 1 \in SUBSET Filled /\ Filled \cap d .. i - 1 # Filled
    BY <2>1
  <2>3. /\ Cardinality(Filled \cap d .. i - 1) <= Cardinality(Filled)
        /\ Cardinality(Filled) # Cardinality(Filled \cap d .. i - 1)
        /\ IsFiniteSet(Filled \cap d .. i - 1)
    BY <2>2, FilledFinite, FS_Subset
  <2>4. Cardinality(Filled \cap d .. i - 1) \in Nat /\ Cardinality(Filled) \in Nat
    BY <2>3, FilledFinite, FS_CardinalityType
  <2>5. Cardinality(Filled \cap d .. i - 1) < Cardinality(Filled)
    BY <2>3, <2>4, SMT
  <2> QED
    BY <1>2, <2>5 DEF ListInv
<1>6. \A i \in Slots : i \notin Filled => window[i] = Null
  BY DEF Filled
<1>7. window' = [i \in Slots |-> IF i + d \in Filled THEN window[i + d] ELSE Null]
  BY <1>1, <1>5, <1>6
<1> QED
  BY <1>2, <1>4, <1>7 DEF d

LEMMA EndPreserves == ListInv /\ EndDrain => ListInv'
<1> SUFFICES ASSUME ListInv, EndDrain PROVE ListInv'
  OBVIOUS
<1> DEFINE d == Ind(waited, old)
<1>1. /\ d \in 1 .. MaxWindow /\ \A i \in Filled : i > d
      /\ window' = [i \in Slots |-> IF i + d \in Filled THEN window[i + d] ELSE Null]
  BY EndMovesRest
<1>2. /\ draining /\ draining' = FALSE /\ ptr' = 0
      /\ UNCHANGED <<size, waited, old, refused>>
  BY DEF EndDrain, Reset
<1>3. \A i \in Filled : window[i] \in Seqnum /\ Ind(window[i], old) = i
  BY <1>2 DEF ListInv, Base
<1>4. waited \in Seqnum /\ old \in Seqnum /\ refused = Null
  BY <1>2 DEF ListInv, TypeOK
<1>5. Filled' = {i \in Slots : i + d \in Filled}
  <2>1. Filled' = {i \in Slots : window'[i] # Null}
    BY DEF Filled
  <2>2. \A i \in Slots : window'[i] # Null <=> i + d \in Filled
    BY <1>1, <1>3, Sizes
  <2> QED
    BY <2>1, <2>2
<1>6. \A i \in Filled' : /\ i # 0 /\ window'[i] \in Seqnum
                         /\ Ind(window'[i], waited) = i
  <2> SUFFICES ASSUME NEW i \in Filled'
               PROVE  i # 0 /\ window'[i] \in Seqnum /\ Ind(window'[i], waited) = i
    OBVIOUS
  <2>1. i \in Slots /\ i + d \in Filled /\ window'[i] = window[i + d]
    BY <1>1, <1>5
  <2>2. i \in Nat /\ i # 0
    BY <1>1, <2>1, Sizes, SMT
  <2>3. Ind(window[i + d], waited) = Ind(window[i + d], old) - d
    <3>1. Ind(window[i + d], old) = i + d /\ window[i + d] \in Seqnum
      BY <1>3, <2>1
    <3>2. d <= Ind(window[i + d], old)
      BY <1>1, <2>2, <3>1, SMT
    <3> QED
      BY <1>4, <3>1, <3>2, IndFromNearer
  <2>4. Ind(window[i + d], waited) = i
    BY <1>1, <1>3, <2>1, <2>2, <2>3, SMT
  <2> QED
    BY <1>3, <2>1, <2>2, <2>4
<1> HIDE DEF d
<1>7. Cardinality(Filled') = Cardinality(Filled)
  <2> DEFINE g == [i \in Filled |-> i - d]
  <2>1. \A i \in Filled : i \in Nat /\ i - d \in Slots /\ (i - d) + d = i
    <3> SUFFICES ASSUME NEW i \in Filled
                 PROVE  i \in Nat /\ i - d \in Slots /\ (i - d) + d = i
      OBVIOUS
    <3>1. i \in Slots /\ i > d
      BY <1>1, FilledFinite
    <3> QED
      BY <1>1, <3>1, Sizes, SMT
  <2>2. g \in [Filled -> Filled']
    BY <1>5, <2>1
  <2>3. \A i, j \in Filled : g[i] = g[j] => i = j
    BY <2>1, <1>1, SMT
  <2>4. \A j \in Filled' : \E i \in Filled : g[i] = j
    <3> SUFFICES ASSUME NEW j \in Filled' PROVE g[j + d] = j /\ j + d \in Filled
      OBVIOUS
    <3>1. j \in Nat /\ j + d \in Filled
      BY <1>5, Sizes
    <3>2. (j + d) - d = j
      BY <1>1, <3>1, SMT
    <3> QED
      BY <3>1, <3>2
  <2>5. g \in Bijection(Filled, Filled')
    BY <2>2, <2>3, <2>4, Zenon DEF Bijection, Injection, Surjection, IsInjective
  <2>6. ExistsBijection(Filled, Filled')
    BY <2>5 DEF ExistsBijection
  <2> QED
    BY <2>6, FilledFinite, FS_Bijection
<1>8. TypeOK'
  <2>1. window' \in [Slots -> Seqnum \cup {Null, Garbage}]
    BY <1>1, <1>3
  <2>2. 0 \in 0 .. MaxWindow
    BY Sizes, SMT
  <2> QED
    BY <1>2, <2>1, <2>2 DEF ListInv, TypeOK
<1> QED
  BY <1>2, <1>4, <1>6, <1>7, <1>8 DEF ListInv, Base
----------------------------------------------------------------------------
LEMMA NextList == ListInv /\ [Next]_vars => ListInv'
<1> SUFFICES ASSUME ListInv, [Next]_vars PROVE ListInv'
  OBVIOUS
<1>1. CASE UNCHANGED vars
  BY <1>1 DEF vars, ListInv, TypeOK, Filled, Base
<1> QED
  BY <1>1, AddPreserves, RefusePreserves, WaitedPreserves, ScanPreserves, PopPreserves,
     EndPreserves DEF Next

\* sorted_list.c on a heap that gives zeroed memory: every packet lies in the slot
\* of its distance, size counts them all, and reset() leaves none behind.
THEOREM ListInvHolds == ZeroedHeap /\ Spec => []ListInv
<1>1. ZeroedHeap /\ Init => ListInv
  BY InitList
<1> QED
  BY <1>1, NextList, PTL DEF Spec

\* sorted_list.c:71: the loop of peek(), which has no bound on its index, never
\* leaves the array, and size counts just the packets from ptr on.
THEOREM PeekStaysInside == ZeroedHeap /\ Spec => []PeekInBounds
<1>1. ListInv => PeekInBounds
  <2> SUFFICES ASSUME ListInv, size # 0
               PROVE  ptr \in Slots /\ Cardinality(Filled \cap ptr .. MaxWindow - 1) = size
    BY DEF PeekInBounds
  <2>1. ptr \in Slots /\ \A i \in Filled : i >= ptr
    BY PtrInSlots
  <2>2. \A i \in Filled : i \in ptr .. MaxWindow - 1
    BY <2>1, FilledFinite, Sizes, SMT
  <2>3. Filled \cap ptr .. MaxWindow - 1 = Filled
    BY <2>2
  <2> QED
    BY <2>1, <2>3 DEF ListInv
<1> QED
  BY <1>1, ListInvHolds, PTL

\* sorted_list.c:38: a refused packet is one the list holds.
THEOREM OnlyDuplicatesRefused == ZeroedHeap /\ Spec => []RefusesOnlyDuplicates
<1>1. ListInv => RefusesOnlyDuplicates
  BY DEF ListInv, RefusesOnlyDuplicates
<1> QED
  BY <1>1, ListInvHolds, PTL
----------------------------------------------------------------------------
\* The place n after a seqnum, which the abstract buffer counts with, and ind().
LEMMA AheadIsInd ==
    ASSUME NEW w \in Seqnum, NEW n \in 0 .. SeqMod - 1
    PROVE  /\ (w + n) % SeqMod \in Seqnum /\ Ind((w + n) % SeqMod, w) = n
           /\ \A s \in Seqnum : Ind(s, w) = n => s = (w + n) % SeqMod
<1>1. w \in Nat /\ w + n \in Nat
  BY Sizes, SMT
<1>2. SeqOf(w + n) \in Seqnum /\ Ind(SeqOf(w + n), SeqOf(w)) = n /\ SeqOf(w) = w
  BY <1>1, SeqOfType, SeqOfSmall, IndAhead
<1>3. (w + n) % SeqMod \in Seqnum /\ Ind((w + n) % SeqMod, w) = n
  BY <1>2 DEF SeqOf
<1> QED
  BY <1>3, IndDetermines

Kept == Popped \cup {window[i] : i \in Filled}

LEMMA BaseType == ListInv => Base \in Seqnum
BY DEF ListInv, TypeOK, Base

\* Between two drains nothing is popped.
LEMMA PoppedNone == ~draining => Popped = {}
BY DEF Popped

\* What is popped first is the packet after the one written from the datagram.
LEMMA DrainBegins == ListInv /\ WaitedArrives => Base' = Base /\ Kept' = Kept
<1> SUFFICES ASSUME ListInv, WaitedArrives PROVE Base' = Base /\ Kept' = Kept
  OBVIOUS
<1>1. /\ ~draining /\ draining' = TRUE /\ old' = waited /\ waited' = NextSeq(waited)
      /\ window' = window
  BY DEF WaitedArrives
<1>2. waited \in Seqnum
  BY DEF ListInv, TypeOK
<1>3. Ind(waited', old') = 1
  <2>1. Ind(waited, waited) = 0 /\ 0 < SeqMod - 1
    BY <1>2, Sizes, SMT DEF Ind
  <2> QED
    BY <1>1, <1>2, <2>1, IndOfNext, SMT
<1>4. Popped' = {}
  BY <1>3, SMT DEF Popped
<1>5. Popped = {} /\ Filled' = Filled
  BY <1>1, PoppedNone DEF Filled
<1> QED
  BY <1>1, <1>4, <1>5 DEF Base, Kept

\* A packet that is popped stays, to the abstract buffer, until the drain is over.
LEMMA PopKeeps == ListInv /\ Pop => Base' = Base /\ Kept' = Kept
<1> SUFFICES ASSUME ListInv, Pop PROVE Base' = Base /\ Kept' = Kept
  OBVIOUS
<1>1. draining /\ UNCHANGED <<old, draining>>
  BY DEF Pop
<1>2. /\ ptr \in Filled /\ window[ptr] = waited /\ ptr = Ind(waited, old)
      /\ Filled' = Filled \ {ptr}
      /\ \A i \in Filled' : window'[i] = window[i]
      /\ Ind(waited', old) = ptr + 1
  BY PopTakesWaited
<1>3. waited \in Seqnum /\ old \in Seqnum /\ ptr \in Nat /\ ptr \in 1 .. MaxWindow
  BY <1>1, <1>2, FilledFinite, Sizes DEF ListInv, TypeOK
<1>4. Popped' = Popped \cup {waited}
  <2>1. Popped' = {s \in Seqnum : Ind(s, old) \in 1 .. ptr}
    <3>1. Ind(waited', old') - 1 = ptr
      BY <1>1, <1>2, <1>3, SMT
    <3> QED
      BY <1>1, <3>1 DEF Popped
  <2>2. Popped = {s \in Seqnum : Ind(s, old) \in 1 .. ptr - 1}
    BY <1>1, <1>2 DEF Popped
  <2>3. ASSUME NEW s \in Seqnum
        PROVE  Ind(s, old) \in 1 .. ptr <=> Ind(s, old) \in 1 .. ptr - 1 \/ s = waited
    <3>1. Ind(s, old) = ptr <=> s = waited
      BY <1>2, <1>3, IndDetermines
    <3>2. Ind(s, old) \in 0 .. SeqMod - 1
      BY <1>3, IndType
    <3> QED
      BY <1>3, <3>1, <3>2, Sizes, SMT
  <2> QED
    BY <1>3, <2>1, <2>2, <2>3
<1>5. {window'[i] : i \in Filled'} \cup {waited} = {window[i] : i \in Filled}
  BY <1>2
<1> QED
  BY <1>1, <1>4, <1>5 DEF Base, Kept

\* The end of a drain: the packets popped are those that followed the expected one,
\* the next one is missing, and the others are all still there.
LEMMA DrainAdvances == ListInv /\ EndDrain => Buffer!Advance
<1> SUFFICES ASSUME ListInv, EndDrain PROVE Buffer!Advance
  OBVIOUS
<1> DEFINE d == Ind(waited, old)
           Follows(n) == (old + n) % SeqMod
<1>1. /\ d \in 1 .. MaxWindow /\ \A i \in Filled : i > d
      /\ window' = [i \in Slots |-> IF i + d \in Filled THEN window[i + d] ELSE Null]
  BY EndMovesRest
<1>2. /\ draining /\ draining' = FALSE /\ UNCHANGED <<waited, old>>
      /\ waited \in Seqnum /\ old \in Seqnum
  BY DEF EndDrain, ListInv, TypeOK
<1>3. \A i \in Filled : window[i] \in Seqnum /\ Ind(window[i], old) = i
  BY <1>2 DEF ListInv, Base
<1>4. d - 1 \in 0 .. MaxWindow - 1 /\ (d - 1) + 1 = d /\ d \in 0 .. SeqMod - 1
  BY <1>1, Sizes, SMT
<1>5. \A n \in 1 .. d : /\ Follows(n) \in Seqnum /\ Ind(Follows(n), old) = n
                        /\ \A s \in Seqnum : Ind(s, old) = n => s = Follows(n)
  <2> SUFFICES ASSUME NEW n \in 1 .. d
               PROVE  /\ Follows(n) \in Seqnum /\ Ind(Follows(n), old) = n
                      /\ \A s \in Seqnum : Ind(s, old) = n => s = Follows(n)
    OBVIOUS
  <2>1. n \in 0 .. SeqMod - 1
    <3> HIDE DEF d
    <3> QED
      BY <1>4, Sizes, SMT
  <2> QED
    BY <1>2, <2>1, AheadIsInd
<1>6. Follows(d) = waited
  <2>1. d \in 1 .. d
    BY <1>1, SMT
  <2> QED
    BY <1>2, <1>5, <2>1
<1> HIDE DEF d, Follows
<1>7. Popped = {Follows(n) : n \in 1 .. d - 1}
  <2>1. Popped = {s \in Seqnum : Ind(s, old) \in 1 .. d - 1}
    BY <1>2 DEF Popped, d
  <2>2. \A n \in 1 .. d - 1 : n \in 1 .. d
    BY <1>1, SMT
  <2> QED
    BY <1>5, <2>1, <2>2
<1>8. waited \notin Kept
  <2>1. waited \notin Popped
    BY <1>1, SMT DEF Popped, d
  <2>2. \A i \in Filled : window[i] # waited
    <3> SUFFICES ASSUME NEW i \in Filled, window[i] = waited PROVE FALSE
      OBVIOUS
    <3>1. i = d
      BY <1>3 DEF d
    <3> QED
      BY <1>1, <3>1, SMT
  <2> QED
    BY <2>1, <2>2 DEF Kept
<1>9. Popped' = {} /\ Base' = waited /\ Base = old
  BY <1>2, PoppedNone DEF Base, Popped
<1>10. {window'[i] : i \in Filled'} = {window[i] : i \in Filled}
  <2>1. \A i \in Filled' : i + d \in Filled /\ window'[i] = window[i + d]
    BY <1>1 DEF Filled
  <2>2. \A i \in Filled : i - d \in Filled' /\ window'[i - d] = window[i]
    <3> SUFFICES ASSUME NEW i \in Filled
                 PROVE  i - d \in Filled' /\ window'[i - d] = window[i]
      OBVIOUS
    <3>1. i \in Slots /\ i > d
      BY <1>1, FilledFinite
    <3>2. i - d \in Slots /\ (i - d) + d = i
      BY <1>1, <3>1, Sizes, SMT
    <3>3. window'[i - d] = window[i]
      BY <1>1, <3>2
    <3>4. window[i] # Null
      BY DEF Filled
    <3> QED
      BY <3>2, <3>3, <3>4 DEF Filled
  <2> QED
    BY <2>1, <2>2
<1>11. Kept' = Kept \ {Follows(n) : n \in 1 .. d - 1}
  <2>1. \A i \in Filled : \A n \in 1 .. d - 1 : window[i] # Follows(n)
    <3> SUFFICES ASSUME NEW i \in Filled, NEW n \in 1 .. d - 1, window[i] = Follows(n)
                 PROVE  FALSE
      OBVIOUS
    <3>1. n \in 1 .. d
      BY <1>1, SMT
    <3>2. i = n
      BY <1>3, <1>5, <3>1
    <3> QED
      BY <1>1, <3>2, SMT
  <2> QED
    BY <1>7, <1>9, <1>10, <2>1 DEF Kept
<1>12. /\ \A n \in 1 .. d - 1 : Follows(n) \in Kept
       /\ Follows(d) \notin Kept /\ Base' = Follows(d)
  BY <1>6, <1>7, <1>8, <1>9 DEF Kept
<1>13. Buffer!Ahead(d - 1 + 1) = Follows(d) /\ \A n : Buffer!Ahead(n) = Follows(n)
  BY <1>4, <1>9 DEF Buffer!Ahead, Follows, Base
<1> QED
  BY <1>4, <1>9, <1>11, <1>12, <1>13 DEF Buffer!Advance, Kept, Base

\* Every step is one of the abstract buffer, or changes nothing it sees.
LEMMA ListStepsMap == ListInv /\ [Next]_vars => [Buffer!Next]_(Buffer!vars)
<1> SUFFICES ASSUME ListInv, [Next]_vars PROVE [Buffer!Next]_(Buffer!vars)
  OBVIOUS
<1>0. ASSUME Base' = Base, Kept' = Kept
      PROVE  UNCHANGED Buffer!vars
  BY <1>0 DEF Buffer!vars, Base, Kept
<1>1. ASSUME NEW s \in Seqnum, Add(s)
      PROVE  Buffer!Put
  <2>1. PICK index \in Slots :
            /\ AddTo(index, s) /\ window[index] = Null
            /\ window' = [window EXCEPT ![index] = s]
            /\ UNCHANGED <<waited, old, draining>>
    BY <1>1, Zenon DEF Add
  <2>2. ~draining /\ index = Ind(s, waited) /\ index # 0 /\ waited \in Seqnum
    BY <2>1 DEF AddTo, ListInv, TypeOK
  <2>3. index \in 1 .. MaxWindow - 1 /\ index \in 0 .. SeqMod - 1
    BY <2>1, <2>2, Sizes, SMT
  <2>4. s = Buffer!Ahead(index)
    BY <2>2, <2>3, AheadIsInd DEF Buffer!Ahead, Base
  <2>5. Filled' = Filled \cup {index} /\ window'[index] = s
        /\ index \notin Filled /\ \A i \in Filled : window'[i] = window[i]
    BY <2>1, Sizes DEF ListInv, TypeOK, Filled
  <2>6. Kept' = Kept \cup {s} /\ Base' = Base
    BY <2>1, <2>2, <2>5, PoppedNone DEF Kept, Popped, Base
  <2> QED
    BY <2>3, <2>4, <2>6 DEF Buffer!Put, Kept, Base
<1>2. CASE \E s \in Seqnum : Refuse(s)
  BY <1>0, <1>2 DEF Refuse, Base, Kept, Popped, Filled
<1>3. CASE Scan
  BY <1>0, <1>3 DEF Scan, Base, Kept, Popped, Filled
<1>4. CASE UNCHANGED vars
  BY <1>0, <1>4 DEF vars, Base, Kept, Popped, Filled
<1> QED
  BY <1>0, <1>1, <1>2, <1>3, <1>4, DrainBegins, PopKeeps, DrainAdvances
  DEF Next, Buffer!Next

\* To the receiver the array is a set of early packets, and a drain one step.
THEOREM ListImplementsBuffer == ZeroedHeap /\ Spec => ImplementsReorderBuffer
<1>1. ZeroedHeap /\ Init => Buffer!Init
  <2> SUFFICES ASSUME ZeroedHeap, Init PROVE Buffer!Init
    OBVIOUS
  <2>1. Filled = {} /\ Popped = {} /\ Base = 0
    BY DEF Init, Filled, Popped, Base
  <2> QED
    BY <2>1 DEF Buffer!Init, Base
<1> QED
  BY <1>1, ListStepsMap, ListInvHolds, PTL DEF Spec, ImplementsReorderBuffer, Buffer!Spec
=============================================================================
