------------------------------- MODULE Lookup -------------------------------
(***************************************************************************)
(* What the loop of the sender gets from its queue, said of the content of *)
(* the queue from its head: what get() returns, the packets the timer      *)
(* check visits, and those an acknowledgement takes off.  Sender is        *)
(* modelled with these, and Queue shows that the calls on the ring of      *)
(* slots, one after the other, come to them.                               *)
(***************************************************************************)
EXTENDS SeqNum, Sequences

\* The search from position `from' of a queue in a ring of MaxWindow slots: the
\* first match up to the first free slot.  A full ring has none, so the search goes
\* on at the head, whose seqnum is compared once more before the search stops.
FirstMatch(pkts, s, from) ==
    LET full  == Len(pkts) = MaxWindow
        start == IF full /\ from > MaxWindow THEN 1 ELSE from
        ahead == {i \in start .. Len(pkts) : pkts[i].seqnum = s}
    IN  IF ahead # {} THEN {i \in ahead : \A j \in ahead : i <= j}
        ELSE {i \in {1} : full /\ pkts[i].seqnum = s}

\* The positions the timer check visits, one per turn of its loop: from the head,
\* then on to the next seqnum modulo the window size (not modulo 256), until one
\* is not found or the head comes round again.  Visits(pkts)[n] is the n-th, or {}.
NextVisit(pkts, i) ==
    LET found == FirstMatch(pkts, (pkts[i].seqnum + 1) % MaxWindow, i + 1)
    IN  {j \in found : pkts[j].seqnum # pkts[1].seqnum}

Visits(pkts) ==
    LET visit[n \in 1 .. MaxWindow] ==
            IF n = 1 THEN {i \in 1 .. Len(pkts) : i = 1}
            ELSE UNION {NextVisit(pkts, i) : i \in visit[n - 1]}
    IN  visit

VisitedIn(pkts) ==
    LET visit == Visits(pkts)
    IN  {i \in 1 .. Len(pkts) : \E n \in 1 .. MaxWindow : i \in visit[n]}

\* The while loop over is_higher_or_equal() stops after k packets.
CoversExactly(pkts, k, s) ==
    /\ \A i \in 1 .. k : IsHigherOrEqual(s, pkts[i].seqnum)
    /\ k < Len(pkts) => ~IsHigherOrEqual(s, pkts[k + 1].seqnum)
=============================================================================
