-------------------------------- MODULE Queue --------------------------------
(***************************************************************************)
(* queue.c: the ring of slots that holds the sender's unacknowledged       *)
(* packets, with the three loops of its caller, call by call: the one that *)
(* takes off what an ACK covers, and the two that search with get(), for   *)
(* the one packet a NACK names, and again and again in the timer check.    *)
(* The search has no count to stop at: it stops at a free slot, or when it *)
(* is back at the head.                                                    *)
(*                                                                         *)
(* The caller adds no packet to a full ring: that is the invariant         *)
(* CountsAgree of Transfer with the bound on pktInWindow.                  *)
(***************************************************************************)
EXTENDS Lookup

CONSTANT Null    \* the null pointer

VARIABLES
    ring, size, ptrAdd, ptrPop,   \* the fields of the queue
    next,                         \* the seqnum of the caller's next packet
    ack,                          \* the ACK being handled, or Null
    search                        \* the search under way, or Null

vars == <<ring, size, ptrAdd, ptrPop, next, ack, search>>

Slots == 0 .. MaxWindow - 1

Pkt == [seqnum : Seqnum]

\* index and firstTime are get()'s own, target and from its arguments; first is
\* the seqnum a timer check began with, or Null for a NACK, and visited the
\* positions where the check has looked at the timer.
Search == [index : Slots, firstTime : BOOLEAN, target : Seqnum, from : 1 .. MaxWindow + 1,
           first : Seqnum \cup {Null}, visited : SUBSET (1 .. MaxWindow)]

\* The seqnum an ACK covers up to, and what the queue held when it came.
Ack == [upto : Seqnum, before : Seq(Pkt)]

ASSUME NullAssumption == Null \notin Pkt \cup Search \cup Seqnum \cup Ack

TypeOK ==
    /\ ring \in [Slots -> Pkt \cup {Null}]
    /\ size \in 0 .. MaxWindow
    /\ ptrAdd \in Slots /\ ptrPop \in Slots /\ next \in Seqnum
    /\ ack \in Ack \cup {Null}
    /\ search \in Search \cup {Null}

\* new_list() does clear the slots here.
Init ==
    /\ ring = [i \in Slots |-> Null]
    /\ size = 0 /\ ptrAdd = 0 /\ ptrPop = 0 /\ next = 0
    /\ ack = Null /\ search = Null

NextSlot(i) == (i + 1) % MaxWindow

\* The packets in the queue, from the head.
Content == [i \in 1 .. size |-> ring[(ptrPop + i - 1) % MaxWindow]]

Idle == ack = Null /\ search = Null

Add ==
    /\ Idle /\ size < MaxWindow
    /\ ring' = [ring EXCEPT ![ptrAdd] = [seqnum |-> next]]
    /\ ptrAdd' = NextSlot(ptrAdd)
    /\ size' = size + 1
    /\ next' = NextSeq(next)
    /\ UNCHANGED <<ptrPop, ack, search>>

\* An ACK up to any seqnum ...
TakeAck ==
    /\ Idle
    /\ \E s \in Seqnum : ack' = [upto |-> s, before |-> Content]
    /\ UNCHANGED <<ring, size, ptrAdd, ptrPop, next, search>>

\* No wrap-around of the seqnums.
HeadIsCoveredBug == size # 0 /\ ack.upto >= ring[ptrPop].seqnum

\* is_higher_or_equal() of the ACK and the head.
HeadIsCovered == size # 0 /\ IsHigherOrEqual(ack.upto, ring[ptrPop].seqnum)

\* The pointer to the freed packet stays in the ring.
DequeueBug ==
    /\ ack # Null /\ HeadIsCovered
    /\ ptrPop' = NextSlot(ptrPop)
    /\ size' = size - 1
    /\ UNCHANGED <<ring, ptrAdd, next, ack, search>>

\* ... takes off one packet in each turn of its loop ...
Dequeue ==
    /\ ack # Null /\ HeadIsCovered
    /\ ring' = [ring EXCEPT ![ptrPop] = Null]
    /\ ptrPop' = NextSlot(ptrPop)
    /\ size' = size - 1
    /\ UNCHANGED <<ptrAdd, next, ack, search>>

\* ... until it covers the head no more.
AckDone ==
    /\ ack # Null /\ ~HeadIsCovered
    /\ ack' = Null
    /\ UNCHANGED <<ring, size, ptrAdd, ptrPop, next, search>>

\* get() called with *supportIt = -1, by a NACK for any seqnum ...
GetForNack ==
    /\ Idle
    /\ \E s \in Seqnum :
          search' = [index |-> ptrPop, firstTime |-> TRUE, target |-> s, from |-> 1,
                     first |-> Null, visited |-> {}]
    /\ UNCHANGED <<ring, size, ptrAdd, ptrPop, next, ack>>

\* ... and by a timer check for the seqnum of the head.
GetForTimers ==
    /\ Idle /\ size > 0
    /\ LET head == ring[ptrPop].seqnum
       IN  search' = [index |-> ptrPop, firstTime |-> TRUE, target |-> head, from |-> 1,
                      first |-> head, visited |-> {}]
    /\ UNCHANGED <<ring, size, ptrAdd, ptrPop, next, ack>>

Matches == ring[search.index] # Null /\ ring[search.index].seqnum = search.target

\* The head ends the search even where it begins, and nothing else does.
BackAtHeadBug == search.index = ptrPop
BackAtHeadNeverBug == FALSE

BackAtHead == ~search.firstTime /\ search.index = ptrPop

\* One turn of the loop of get().
Advance ==
    /\ search # Null /\ ring[search.index] # Null /\ ~Matches /\ ~BackAtHead
    /\ search' = [search EXCEPT !.index = NextSlot(@), !.firstTime = FALSE]
    /\ UNCHANGED <<ring, size, ptrAdd, ptrPop, next, ack>>

\* get() returns 0, which ends a timer check too.
Miss ==
    /\ search # Null /\ ~Matches
    /\ ring[search.index] = Null \/ BackAtHead
    /\ search' = Null
    /\ UNCHANGED <<ring, size, ptrAdd, ptrPop, next, ack>>

\* The position in the queue of the packet in a slot.
Position(i) == ((i - ptrPop) % MaxWindow) + 1

\* The seqnum the timer check goes on with, modulo the size of the window.
NextTarget(s) == (s + 1) % MaxWindow

\* get() returns 1; a timer check goes on unless it is back at its first packet.
Hit ==
    /\ search # Null /\ Matches
    /\ search' =
          IF search.first = Null \/ (search.visited # {} /\ search.target = search.first)
          THEN Null
          ELSE [search EXCEPT !.index = NextSlot(@), !.firstTime = TRUE,
                              !.target = NextTarget(@),
                              !.from = Position(search.index) + 1,
                              !.visited = @ \cup {Position(search.index)}]
    /\ UNCHANGED <<ring, size, ptrAdd, ptrPop, next, ack>>

Next ==
    \/ Add
    \/ TakeAck \/ Dequeue \/ AckDone
    \/ GetForNack \/ GetForTimers \/ Advance \/ Miss \/ Hit

Spec == Init /\ [][Next]_vars

\* The caller runs on until it returns from a loop.
FairSpec == Spec /\ WF_vars(Dequeue \/ AckDone \/ Advance \/ Miss \/ Hit)
----------------------------------------------------------------------------
\* The ring holds the packets added last, in order, and every other slot is free:
\* a search that needs a free slot to stop at never reads a freed packet, however
\* often the ring has gone round (queue.c:25-46).
RingHoldsLast ==
    /\ \A i \in 1 .. size : Content[i] = [seqnum |-> (next - size + i - 1) % SeqMod]
    /\ \A i \in Slots : Position(i) > size => ring[i] = Null

----------------------------------------------------------------------------
(***************************************************************************)
(* The inductive invariant behind the properties: what the ring holds, how *)
(* far a search has come, and what an ACK has taken off so far.            *)
(***************************************************************************)
RingInv ==
    /\ TypeOK /\ RingHoldsLast
    /\ ptrAdd = (ptrPop + size) % MaxWindow
    /\ ack = Null \/ search = Null

\* No packet from where a search began to where it is has the seqnum it looks for;
\* it is back at the head only if the ring is full.
SearchInv ==
    search # Null =>
        LET at    == Position(search.index)
            start == IF search.from > MaxWindow THEN 1 ELSE search.from
        IN  /\ search.from <= size + 1
            /\ search.firstTime => at = start
            /\ ~search.firstTime =>
                  /\ at > start \/ (at = 1 /\ size = MaxWindow)
                  /\ \A j \in start .. IF at > start THEN at - 1 ELSE size :
                        j <= size /\ Content[j].seqnum # search.target

\* What an ACK took off it covers, and the rest is in the queue.
AckInv ==
    ack # Null =>
        LET popped == Len(ack.before) - size
        IN  /\ popped >= 0
            /\ \A i \in 1 .. popped : IsHigherOrEqual(ack.upto, ack.before[i].seqnum)
            /\ \A i \in 1 .. size : Content[i] = ack.before[popped + i]

LoopInv == RingInv /\ SearchInv /\ AckInv

\* The n-th seqnum that a timer check from `first' on finds.  They go round modulo the
\* window size; from a head past the window they stop short of it, for no packet
\* behind such a head has the seqnum MaxWindow - 1.
IsNth(s, n, first) ==
    \/ n = 1 /\ s = first
    \/ n # 1 /\ first < MaxWindow /\ s = (first + n - 1) % MaxWindow
    \/ n # 1 /\ first >= MaxWindow /\ s \in n - 2 .. MaxWindow - 2

\* A timer check has looked at the first visits and goes on behind the last of them.
TimerInv ==
    search # Null /\ search.first # Null =>
        LET visit == Visits(Content)
        IN  /\ size # 0 /\ search.first = Content[1].seqnum /\ search.visited \subseteq 1 .. size
            /\ \/ search.visited = {} /\ search.from = 1 /\ search.target = search.first
               \/ \E n \in 1 .. MaxWindow, at \in 1 .. size :
                     /\ visit[n] = {at} /\ IsNth(Content[at].seqnum, n, search.first)
                     /\ search.from = at + 1
                     /\ search.target = NextTarget(Content[at].seqnum)
                     /\ search.visited = UNION {visit[k] : k \in 1 .. n}

QueueInv == LoopInv /\ TimerInv
----------------------------------------------------------------------------
\* get() finds the packet FirstMatch() says, or finds none where FirstMatch() says none,
\* from any slot of an empty, a partly filled and a full ring: the model of the
\* sender's loop uses no more of the queue than that (queue.c:66-84).
GetIsLookup ==
    /\ [][Hit => Position(search.index) \in FirstMatch(Content, search.target, search.from)]_vars
    /\ [][Miss => FirstMatch(Content, search.target, search.from) = {}]_vars

\* The loop over is_higher_or_equal() and dequeue() takes off just the packets
\* CoversExactly() says and leaves the others in place, and a timer check looks at
\* just the timers VisitedIn() says, however the ring lies in its slots: the two
\* other things the model of the sender's loop takes from its queue
\* (read_write_loop_sender.c:165, 220).
LoopsAreLookups ==
    /\ [][AckDone =>
              LET popped == Len(ack.before) - size
              IN  /\ CoversExactly(ack.before, popped, ack.upto)
                  /\ Content = SubSeq(ack.before, popped + 1, Len(ack.before))]_vars
    /\ [][(Hit \/ Miss) /\ search' = Null /\ search.first # Null =>
              search.visited = VisitedIn(Content)]_vars

\* Every search ends, on a full ring without the seqnum and over the repeated calls
\* of the timer check as well (read_write_loop_sender.c:220).
SearchEnds == search # Null ~> search = Null
=============================================================================
