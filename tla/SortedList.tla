----------------------------- MODULE SortedList -----------------------------
(***************************************************************************)
(* sorted_list.c: the array in which the receiver keeps packets that came  *)
(* early, with its caller, the loop of the receiver.  The array is indexed *)
(* by the distance to the seqnum waited for; when that one comes, the      *)
(* caller takes the packets that follow it off the array one by one, peek  *)
(* then pop, and reset() moves the rest.  A packet is its seqnum.          *)
(*                                                                         *)
(* The caller passes no packet with an index outside the array: that is    *)
(* the invariant NoOverrun of Transfer.  malloc() does not fail.           *)
(***************************************************************************)
EXTENDS SeqNum, FiniteSets

CONSTANTS
    Null,        \* the null pointer
    Garbage,     \* what a fresh block of the heap may hold instead
    ZeroedHeap   \* TRUE: malloc() returned zeroed memory

ASSUME ListAssumption ==
    /\ Null \notin Seqnum /\ Garbage \notin Seqnum /\ Null # Garbage
    /\ ZeroedHeap \in BOOLEAN

VARIABLES
    window, size, ptr,   \* the fields of list_t
    waited,              \* the caller's waitedSeqnum
    old,                 \* its oldSeqnum
    draining,            \* is the caller in its loop over peek() and pop()?
    refused              \* the packet the last call refused, if it was a refusal

vars == <<window, size, ptr, waited, old, draining, refused>>

Slots == 0 .. MaxWindow - 1

TypeOK ==
    /\ window \in [Slots -> Seqnum \cup {Null, Garbage}]
    /\ size \in 0 .. MaxWindow /\ ptr \in 0 .. MaxWindow
    /\ waited \in Seqnum /\ old \in Seqnum /\ draining \in BOOLEAN
    /\ refused \in Seqnum \cup {Null}

\* new_list() clears size and ptr, not the array.
Init ==
    /\ window \in [Slots -> IF ZeroedHeap THEN {Null} ELSE {Null, Garbage}]
    /\ size = 0 /\ ptr = 0
    /\ waited = 0 /\ old = 0 /\ draining = FALSE /\ refused = Null

Filled == {i \in Slots : window[i] # Null}

\* A caller with a packet that is ahead, where it has a slot.
AddTo(index, s) == ~draining /\ index = Ind(s, waited) /\ index \in Slots \ {0}

Add(s) ==
    \E index \in Slots :
        /\ AddTo(index, s) /\ window[index] = Null
        /\ window' = [window EXCEPT ![index] = s]
        /\ size' = size + 1
        /\ refused' = Null
        /\ UNCHANGED <<ptr, waited, old, draining>>

\* A packet whose slot is taken counts as a duplicate.
Refuse(s) ==
    /\ \E index \in Slots : AddTo(index, s) /\ window[index] # Null
    /\ refused' = s
    /\ UNCHANGED <<window, size, ptr, waited, old, draining>>

\* The packet waited for is written from the datagram itself.
WaitedArrives ==
    /\ ~draining
    /\ draining' = TRUE
    /\ old' = waited
    /\ waited' = NextSeq(waited)
    /\ refused' = Null
    /\ UNCHANGED <<window, size, ptr>>

\* One turn of the loop of peek(), which stops at the first pointer.
Scan ==
    /\ draining /\ size # 0 /\ window[ptr] = Null
    /\ ptr' = ptr + 1
    /\ UNCHANGED <<window, size, waited, old, draining, refused>>

\* The packet is forgotten but still counted.
PopBug ==
    /\ draining /\ size # 0 /\ window[ptr] \in {waited, Garbage}
    /\ window' = [window EXCEPT ![ptr] = Null]
    /\ waited' = NextSeq(waited)
    /\ UNCHANGED <<size, ptr, old, draining, refused>>

\* The packet peek() returns follows the last one written: pop() takes it.  What
\* is read through a garbage pointer may be anything.
Pop ==
    /\ draining /\ size # 0 /\ window[ptr] \in {waited, Garbage}
    /\ window' = [window EXCEPT ![ptr] = Null]
    /\ size' = size - 1
    /\ waited' = NextSeq(waited)
    /\ UNCHANGED <<ptr, old, draining, refused>>

\* The count stops one packet short.
MovedBug(shift) ==
    {i \in Filled : i >= shift /\ Cardinality(Filled \cap shift .. i - 1) < size - 1}

\* The slots reset() empties: it stops when it has moved size packets.
Moved(shift) ==
    {i \in Filled : i >= shift /\ Cardinality(Filled \cap shift .. i - 1) < size}

\* ptr keeps its value.
ResetBug ==
    LET shift == Ind(waited, old)
    IN  /\ window' = [i \in Slots |->
              IF i + shift \in Moved(shift) THEN window[i + shift]
              ELSE IF i \in Moved(shift) THEN Null ELSE window[i]]
        /\ UNCHANGED ptr

Reset ==
    LET shift == Ind(waited, old)
    IN  /\ window' = [i \in Slots |->
              IF i + shift \in Moved(shift) THEN window[i + shift]
              ELSE IF i \in Moved(shift) THEN Null ELSE window[i]]
        /\ ptr' = 0

\* The list is empty or its first packet is not the next one.
EndDrain ==
    /\ draining
    /\ size = 0 \/ window[ptr] \notin {Null, waited}
    /\ Reset
    /\ draining' = FALSE
    /\ UNCHANGED <<size, waited, old, refused>>

Next ==
    \/ \E s \in Seqnum : Add(s) \/ Refuse(s)
    \/ WaitedArrives \/ Scan \/ Pop \/ EndDrain

Spec == Init /\ [][Next]_vars
----------------------------------------------------------------------------
\* peek() has no bound on its index: it stays in the array because size counts
\* the packets from ptr on, in the middle of a drain as well (sorted_list.c:71).
PeekInBounds ==
    size # 0 => ptr \in Slots /\ Cardinality(Filled \cap ptr .. MaxWindow - 1) = size

\* add() refuses only a packet that is in the list ("returns 1 if the pkt was
\* already in the window", sorted_list.c:38): whatever occupies a slot is the very
\* packet that belongs there, after any number of drains and across the wrap.
RefusesOnlyDuplicates == refused # Null => \E i \in Filled : window[i] = refused

----------------------------------------------------------------------------
\* The seqnum the indices are counted from: it stays put while the list drains.
Base == IF draining THEN old ELSE waited

\* The inductive invariant behind the two: a packet lies at its distance, size
\* counts them all, and a drain has emptied every slot before ptr and before the
\* packet it waits for.
ListInv ==
    /\ TypeOK
    /\ \A i \in Filled : i # 0 /\ window[i] \in Seqnum /\ Ind(window[i], Base) = i
    /\ size = Cardinality(Filled)
    /\ ~draining => ptr = 0
    /\ draining =>
          /\ Ind(waited, old) \in 1 .. MaxWindow
          /\ \A i \in Filled : i >= ptr /\ i >= Ind(waited, old)
          /\ refused = Null
    /\ refused # Null => \E i \in Filled : window[i] = refused
----------------------------------------------------------------------------
\* The packets popped since the drain began.
Popped ==
    {s \in Seqnum : draining /\ Ind(s, old) \in 1 .. Ind(waited, old) - 1}

Buffer == INSTANCE ReorderBuffer WITH
    Capacity <- MaxWindow,
    expected <- Base,
    kept     <- Popped \cup {window[i] : i \in Filled}

\* To the receiver a whole drain with its reset() is one step that takes exactly
\* the packets up to the first gap and loses none of the others.
ImplementsReorderBuffer == Buffer!Spec
=============================================================================
