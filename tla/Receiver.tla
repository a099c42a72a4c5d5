------------------------------ MODULE Receiver ------------------------------
(***************************************************************************)
(* The receiving program: wait_for_client() and the loop of                *)
(* read_write_loop_server().  The loop handles one datagram per turn       *)
(* without giving way, so each kind of datagram is one action.             *)
(*                                                                         *)
(* `list' is the array of out-of-order packets, indexed as ind() does.     *)
(***************************************************************************)
EXTENDS Network, Sequences

VARIABLES
    rstate,         \* "wait" for a client, "run", or how the loop ended
    waitedSeqnum,   \* the seqnum the receiver waits for
    receivePkt,     \* has it written a block yet?
    list,           \* the packets received ahead of waitedSeqnum
    out             \* the blocks written to the output, in order

receiverVars == <<rstate, waitedSeqnum, receivePkt, list, out>>

Slots == 0 .. MaxWindow - 1

\* "overrun" stands for any behaviour after a store outside the array.
ReceiverTypeOK ==
    /\ rstate \in {"wait", "run", "disconnected", "timedout", "overrun"}
    /\ waitedSeqnum \in Seqnum
    /\ receivePkt \in BOOLEAN
    /\ list \in [Slots -> DataPkt \cup {NoPkt}]
    /\ out \in Seq(1 .. NBlocks)

ReceiverInit ==
    /\ rstate = "wait" /\ waitedSeqnum = 0 /\ receivePkt = FALSE
    /\ list = [i \in Slots |-> NoPkt] /\ out = <<>>

Written == Len(out)

ReceiverGone == rstate \in {"disconnected", "timedout"}

Reply(type, seq, upto) ==
    [type |-> type, seqnum |-> seq, window |-> MaxWindow, upto |-> upto]
----------------------------------------------------------------------------
\* wait_for_client() blocks until a datagram is there, and does not consume it.
ClientArrives ==
    /\ rstate = "wait" /\ toReceiver # {}
    /\ rstate' = "run"
    /\ UNCHANGED <<networkVars, waitedSeqnum, receivePkt, list, out>>

\* A packet the network cut down to its header: a NACK of the seqnum waited for,
\* whichever packet was cut.  The packet that closes has nothing to cut.
ReceiveTruncated(p) ==
    /\ rstate = "run" /\ p.block # 0
    /\ toSender' = toSender \cup {Reply("NACK", waitedSeqnum, Written)}
    /\ UNCHANGED <<toReceiver, receiverVars>>

\* Any packet of the window is taken for the one waited for.
IsWaitedBug(p) == InWindow(waitedSeqnum, p.seqnum)

IsWaited(p) == p.seqnum = waitedSeqnum

\* A packet without payload ends the transfer wherever it lies.
ReceiveDisconnectBug(p) ==
    /\ rstate = "run" /\ p.block = 0
    /\ rstate' = "disconnected"
    /\ UNCHANGED <<networkVars, waitedSeqnum, receivePkt, list, out>>

ReceiveDisconnect(p) ==
    /\ rstate = "run" /\ IsWaited(p) /\ p.block = 0
    /\ rstate' = "disconnected"
    /\ UNCHANGED <<networkVars, waitedSeqnum, receivePkt, list, out>>

\* The seqnum of the packet n places after the one waited for.
Following(n) == (waitedSeqnum + n) % SeqMod

InOrder(n) == list[n] # NoPkt /\ list[n].seqnum = Following(n)

\* Popping the list stops after the n packets that follow the one just received,
\* at a gap, at the end of the list, or at the packet that closes.
DrainsExactly(n) ==
    /\ \A i \in 1 .. n : InOrder(i) /\ list[i].block # 0
    /\ n + 1 < MaxWindow => ~(InOrder(n + 1) /\ list[n + 1].block # 0)

EndsInDrain(n) == n + 1 < MaxWindow /\ InOrder(n + 1) /\ list[n + 1].block = 0

\* The packets popped leave, the others stay where they are.
ShiftedBug(n) == [i \in Slots |-> IF i < n THEN NoPkt ELSE list[i]]

\* reset(): every packet left moves n slots towards the front.
Shifted(n) == [i \in Slots |-> IF i + n < MaxWindow THEN list[i + n] ELSE NoPkt]

\* The packet waited for: it is written, then those that follow it in the list,
\* and all of them are acknowledged at once.
ReceiveWaited(p) ==
    /\ rstate = "run" /\ IsWaited(p) /\ p.block # 0
    /\ receivePkt' = TRUE
    /\ \E n \in 0 .. MaxWindow - 1 :
          /\ DrainsExactly(n)
          /\ out' = Append(out, p.block) \o [i \in 1 .. n |-> list[i].block]
          /\ waitedSeqnum' = Following(n + 1)
          /\ list' = Shifted(n + 1)
          /\ toReceiver' = LivingData(toReceiver, Written + n + 1)
          /\ IF EndsInDrain(n)
             THEN rstate' = "disconnected" /\ UNCHANGED toSender
             ELSE /\ toSender' = toSender \cup
                        {Reply("ACK", Following(n + 1), Written + n + 1)}
                  /\ UNCHANGED rstate

\* Any other packet: it is stored if it is in the window, ignored if it is not or
\* is there already, and the last acknowledgement is repeated if there was one.
ReceiveOther(p) ==
    /\ rstate = "run" /\ ~IsWaited(p)
    /\ LET index  == Ind(p.seqnum, waitedSeqnum)
           stores == InWindow(waitedSeqnum, p.seqnum)
       IN  IF stores /\ index \notin Slots
           THEN rstate' = "overrun" /\ UNCHANGED list
           ELSE /\ list' = IF stores /\ list[index] = NoPkt
                           THEN [list EXCEPT ![index] = p] ELSE list
                /\ UNCHANGED rstate
    /\ toSender' = IF receivePkt
                   THEN toSender \cup {Reply("ACK", waitedSeqnum, Written)}
                   ELSE toSender
    /\ UNCHANGED <<toReceiver, waitedSeqnum, receivePkt, out>>

ReceiveData ==
    \E p \in toReceiver :
        ReceiveDisconnect(p) \/ ReceiveWaited(p) \/ ReceiveOther(p)

Truncation == \E p \in toReceiver : ReceiveTruncated(p)

\* poll() saw nothing for three seconds.
GiveUp ==
    /\ rstate = "run"
    /\ rstate' = "timedout"
    /\ UNCHANGED <<networkVars, waitedSeqnum, receivePkt, list, out>>
=============================================================================
