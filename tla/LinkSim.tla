------------------------------- MODULE LinkSim -------------------------------
(***************************************************************************)
(* link_sim.c: the proxy between sender and receiver that the tests use.   *)
(* One turn of its loop is: wait in select() for a datagram or for the end *)
(* of the first delay, read the clock, send the packets whose delay is     *)
(* over, and handle one datagram.  What it alters in a packet is in Codec. *)
(*                                                                         *)
(* The unit of time is the microsecond of a timeval.  Delays are in        *)
(* milliseconds, of UsPerMs microseconds each.                             *)
(***************************************************************************)
EXTENDS Integers, FiniteSets

CONSTANTS
    Packets,     \* the datagrams both programs send
    UsPerMs,     \* 1000
    MsPerSec,    \* 1000
    Delay,       \* delay, in milliseconds, 0 for none
    Jitter,      \* jitter, in milliseconds
    Simulated,   \* link_direction: the directions it alters, the others it relays
    MaxTime      \* bound of the clock

ASSUME LinkAssumption ==
    /\ UsPerMs \in Nat \ {0} /\ MsPerSec \in Nat \ {0} /\ MaxTime \in Nat
    /\ Delay \in Nat /\ Jitter \in Nat /\ Simulated \subseteq {"forward", "reverse"}

PerSec == MsPerSec * UsPerMs

\* timeval_cmp(): the seconds are compared first.
Later(a, b) == IF a.sec = b.sec THEN a.usec > b.usec ELSE a.sec > b.sec

Heap == INSTANCE MinQueue

VARIABLES
    now,         \* the system's clock
    lastClock,   \* last_clock
    queue,       \* pkt_queue
    pending,     \* the datagrams in the socket
    fate,        \* where each datagram is
    ready,       \* FD_ISSET(sfd, &rfds)
    pc           \* the part of the loop that is next

vars == <<now, lastClock, queue, pending, fate, ready, pc>>

Timeval == [sec : 0 .. MaxTime, usec : Nat]

Slot == [sec : Nat, usec : Nat, dir : {"forward", "reverse"}, pkt : Packets]

TypeOK ==
    /\ now \in 0 .. MaxTime /\ lastClock \in Timeval
    /\ Heap!Size(queue) \in Nat /\ queue \in [0 .. Heap!Size(queue) - 1 -> Slot]
    /\ pending \subseteq [from : {"source", "dest", "alien"}, pkt : Packets]
    /\ fate \in [Packets -> {"unsent", "pending", "queued", "forward", "reverse", "dropped"}]
    /\ ready \in BOOLEAN /\ pc \in {"select", "deliver", "receive", "stopped"}

Date(t) == [sec |-> t \div PerSec, usec |-> t % PerSec]

\* The moment a timeval stands for, normalised or not.
Moment(tv) == tv.sec * PerSec + tv.usec

Init ==
    /\ now = 0 /\ lastClock = Date(0) /\ queue = Heap!Empty
    /\ pending = {} /\ fate = [p \in Packets |-> "unsent"]
    /\ ready = FALSE /\ pc = "select"

Tick ==
    /\ now < MaxTime
    /\ now' = now + 1
    /\ UNCHANGED <<lastClock, queue, pending, fate, ready, pc>>

\* The host whose datagram is handled first is the source, and the receiver answers what
\* it got.  An alien's datagram is one of another host, or one too short to be a packet,
\* which may come before the source is known as well.
Arrive ==
    /\ \E p \in Packets, from \in {"source", "dest", "alien"} :
          /\ fate[p] = "unsent"
          /\ from = "dest" => \E q \in Packets : fate[q] = "forward"
          /\ pending' = pending \cup {[from |-> from, pkt |-> p]}
          /\ fate' = [fate EXCEPT ![p] = "pending"]
    /\ UNCHANGED <<now, lastClock, queue, ready, pc>>

\* The second that is borrowed is not taken off.
DiffBug(a, b) ==
    LET usec == a.usec - b.usec
    IN  [sec |-> a.sec - b.sec, usec |-> IF usec >= 0 THEN usec ELSE usec + PerSec]

\* timeval_diff(): a second is borrowed, but not added if it was the only one.
Diff(a, b) ==
    LET sec  == a.sec - b.sec
        usec == a.usec - b.usec
    IN  IF usec >= 0 THEN [sec |-> sec, usec |-> usec]
        ELSE [sec |-> sec - 1, usec |-> IF sec - 1 # 0 THEN usec + PerSec ELSE usec]

\* get_queue_timeout(): until the first date in the queue, and 1 ms if it is past.
Timeout ==
    LET left == Diff(queue[0], lastClock)
    IN  IF left.sec < 0 \/ (left.sec = 0 /\ left.usec <= 0) THEN UsPerMs ELSE Moment(left)

\* select() returns, and the clock is read.  One that a signal interrupts is called again
\* with the clock as it was read before, which changes nothing here.
Wake ==
    /\ pc = "select"
    /\ pending # {} \/ (queue # Heap!Empty /\ now >= Moment(lastClock) + Timeout)
    /\ ready' = (pending # {})
    /\ lastClock' = Date(now)
    /\ pc' = "deliver"
    /\ UNCHANGED <<now, queue, pending, fate>>

\* select() fails, or the clock cannot be read: the loop ends.
WaitFails ==
    /\ pc = "select"
    /\ pc' = "stopped"
    /\ UNCHANGED <<now, lastClock, queue, pending, fate, ready>>

\* Only the seconds are compared.
ExpiredBug == queue # Heap!Empty /\ lastClock.sec >= queue[0].sec

Expired == queue # Heap!Empty /\ Later(lastClock, queue[0])

DeliverOne ==
    /\ pc = "deliver" /\ Expired
    /\ fate' = [fate EXCEPT ![queue[0].pkt] = queue[0].dir]
    /\ queue' = Heap!Pop(queue)
    /\ UNCHANGED <<now, lastClock, pending, ready, pc>>

\* No packet's delay is over, or the send buffer is full and the packet waits.
DeliverDone ==
    /\ pc = "deliver"
    /\ pc' = IF ready THEN "receive" ELSE "select"
    /\ UNCHANGED <<now, lastClock, queue, pending, fate, ready>>

\* A packet from the source goes forward, one from the destination back.
Direction(from) == IF from = "source" THEN "forward" ELSE "reverse"

\* applied_delay: the delay with the jitter around it, or anything up to their sum
\* when the jitter is the larger one; what is above 10 s starts again at 0.
AppliedDelays ==
    LET delays ==
            IF Jitter = 0 THEN {Delay}
            ELSE IF Jitter > Delay THEN 0 .. Delay + Jitter - 1
            ELSE Delay - Jitter .. Delay + Jitter - 1
    IN  {d % (10 * MsPerSec) : d \in delays}

Enqueue(d, delay) ==
    /\ queue' = Heap!Push(queue,
           [sec |-> lastClock.sec + (delay \div MsPerSec),
            usec |-> lastClock.usec + (delay % MsPerSec) * UsPerMs,
            dir |-> Direction(d.from), pkt |-> d.pkt])
    /\ fate' = [fate EXCEPT ![d.pkt] = "queued"]

\* process_incoming_pkt() and simulate_link(): aliens are dropped, the direction
\* that is not simulated is relayed, a packet of the other is lost, delayed, or
\* forwarded at once when there is no delay.
Receive ==
    /\ pc = "receive"
    /\ \E d \in pending :
          LET simulated == Direction(d.from) \in Simulated
              settled(f) == fate' = [fate EXCEPT ![d.pkt] = f] /\ UNCHANGED queue
          IN  /\ pending' = pending \ {d}
              /\ \/ d.from = "alien" /\ settled("dropped")
                 \/ d.from # "alien" /\ simulated /\ settled("dropped")
                 \/ d.from # "alien" /\ simulated /\ Delay # 0
                    /\ \E delay \in AppliedDelays : Enqueue(d, delay)
                 \/ /\ d.from # "alien" /\ (simulated => Delay = 0)
                    /\ settled(Direction(d.from))
    /\ pc' = "select"
    /\ UNCHANGED <<now, lastClock, ready>>

\* recvfrom() has nothing after all and the loop goes on, or it fails and the loop ends.
ReceiveNothing ==
    /\ pc = "receive"
    /\ pc' \in {"select", "stopped"}
    /\ UNCHANGED <<now, lastClock, queue, pending, fate, ready>>

\* sendto() fails for a packet that is due, which stays queued: the loop ends.
DeliverFails ==
    /\ pc = "deliver" /\ Expired
    /\ pc' = "stopped"
    /\ UNCHANGED <<now, lastClock, queue, pending, fate, ready>>

\* sendto() fails for a packet that is not queued: the loop ends.
SendFails ==
    /\ pc = "receive"
    /\ \E d \in pending :
          /\ d.from # "alien"
          /\ Direction(d.from) \in Simulated => Delay = 0
          /\ pending' = pending \ {d}
          /\ fate' = [fate EXCEPT ![d.pkt] = "dropped"]
    /\ pc' = "stopped"
    /\ UNCHANGED <<now, lastClock, queue, ready>>

Next ==
    \/ Tick \/ Arrive \/ Wake \/ WaitFails
    \/ DeliverOne \/ DeliverDone \/ DeliverFails
    \/ Receive \/ ReceiveNothing \/ SendFails

Spec == Init /\ [][Next]_vars
----------------------------------------------------------------------------
\* The head of the queue is the packet with the least date, by the comparison the
\* program makes, through any sequence of pushes and pops ("The root is the minimal
\* node", min_queue.c:41): the root that is its own child does no harm.
HeadIsLeast == \A i \in DOMAIN queue : ~Later(queue[0], queue[i])

\* No packet is lost or doubled in the heap: it holds each delayed one once.
QueueHoldsQueued ==
    \A p \in Packets :
        Cardinality({i \in DOMAIN queue : queue[i].pkt = p}) = IF fate[p] = "queued" THEN 1 ELSE 0

\* The inductive invariant behind the properties.  The queue is a heap, whose slots hold
\* different packets; they are those that wait in it, and the packets in the socket are
\* others.  A date that is not normalised is less than two seconds in its microseconds.
HeapInv ==
    /\ \A i \in DOMAIN queue : ~Later(queue[Heap!Parent(i)], queue[i])
    /\ \A i, j \in DOMAIN queue : queue[i].pkt = queue[j].pkt => i = j

FateInv ==
    /\ \A p \in Packets : fate[p] = "queued" <=> \E i \in DOMAIN queue : queue[i].pkt = p
    /\ \A d \in pending : fate[d.pkt] = "pending"
    /\ \A c, d \in pending : c.pkt = d.pkt => c = d

DateInv ==
    /\ lastClock.usec < PerSec
    /\ \A i \in DOMAIN queue : queue[i].usec <= 2 * PerSec - 2

LinkSimInv == TypeOK /\ HeapInv /\ FateInv /\ DateInv

\* A packet may leave before its date, which is not normalised, but less than a
\* second before (link_sim.c:106-112, 230).
NeverASecondEarly ==
    [][DeliverOne => Moment(queue[0]) - Moment(lastClock) < PerSec]_vars

\* select() waits until the date of the head, or, from a second before it on, for a
\* millisecond, even if less is left: never longer than the larger of the two, and it
\* is never told not to wait at all (link_sim.c:115-126, 328-347).
SleepsNoLonger ==
    queue # Heap!Empty =>
        LET left == Moment(queue[0]) - Moment(lastClock)
        IN  \/ Timeout = UsPerMs /\ left < PerSec
            \/ Timeout = left /\ left > 0
=============================================================================
