------------------------------ MODULE Transfer ------------------------------
(***************************************************************************)
(* One transfer: the two programs of Sender and Receiver over the network  *)
(* of Network, each step of one interleaved with the steps of the others.  *)
(***************************************************************************)
EXTENDS Sender, Receiver

vars == <<networkVars, senderVars, receiverVars>>

SenderDone == spc \in {"closed", "failed"}

Init == NetworkInit /\ SenderInit /\ ReceiverInit

SenderActs == SenderStep /\ UNCHANGED receiverVars

\* send() reports an error only once the receiver's port is closed.
SenderRefused == ReceiverGone /\ ReadAndFail /\ UNCHANGED receiverVars

ReceiverActs == (ClientArrives \/ ReceiveData) /\ UNCHANGED senderVars

Truncate == Truncation /\ UNCHANGED senderVars

\* The three silent seconds may pass at any time.
Timeout == GiveUp /\ UNCHANGED senderVars

Lose == (LoseData \/ LoseAck) /\ UNCHANGED senderVars

\* What happens without the two programs: the pipe fills, a datagram is lost.
Outside == (InputArrives \/ Lose) /\ UNCHANGED receiverVars

\* Both programs have returned: nothing is left to do.
Terminated == SenderDone /\ ReceiverGone /\ UNCHANGED vars

Next ==
    \/ SenderActs \/ SenderRefused
    \/ ReceiverActs \/ Timeout
    \/ Truncate \/ Outside
    \/ Terminated

Spec == Init /\ [][Next]_vars
----------------------------------------------------------------------------
TypeOK == NetworkTypeOK /\ SenderTypeOK /\ ReceiverTypeOK

\* The output is the beginning of the input: no block is lost, doubled or out of
\* place in it, whatever the network does (the drain loop and reset() of
\* read_write_loop_server.c:86-142 on seqnums that wrap).
OutputIsPrefix == \A i \in 1 .. Written : out[i] = i

\* The sender forgets a packet only when its block is on disk at the receiver: no
\* ACK, however old, is read by is_higher_or_equal() as one of the future.
AckedIsWritten == Acked <= Written

\* in_window() lets seqnums through that have no slot in the receiver's array
\* (32 against 31 slots): no run of the real sender ever gets one stored there.
NoOverrun == rstate # "overrun"

\* Each packet the receiver keeps lies in the slot of its distance, is one the
\* sender really read, and is never the closing packet, so the drain loop can
\* not end the transfer without an acknowledgement (server.c:110-118).
ListIsAhead ==
    \A i \in Slots : list[i] # NoPkt =>
        /\ i # 0
        /\ list[i].seqnum = Following(i)
        /\ list[i].block = Written + 1 + i

\* A sender that has returned after its closing packet left nothing behind: all
\* it read is written, and a regular file was read to its end.
ClosedIsWritten ==
    spc = "closed" => Written = inPos /\ (StreamInput \/ inPos = NBlocks)

\* The closing packet is sent only after everything is written, and until the
\* end it is the only packet that carries its seqnum: the receiver takes no
\* data packet for it and it for no data packet.
DisconnectIsLast ==
    \A p \in toReceiver : p.block = 0 =>
        /\ spc = "closed" /\ Written = inPos
        /\ \A q \in toReceiver : q.block # 0 => q.seqnum # p.seqnum

\* A NACK never brings back the packet that was cut: what it has the sender
\* resend, the packet before the one waited for, is already written.
NackResendsOnlyWritten ==
    [][ReceiveNack => \A p \in toReceiver' \ toReceiver : p.block <= Written]_vars

\* The three counts of unacknowledged packets, pktInWindow, the queue, and the
\* distance from its head to seqnum, agree: the wrap-around of the byte and a
\* NACK that halves the window in use leave them equal.
CountsAgree ==
    spc # "failed" =>
        /\ pktInWindow = Len(window)
        /\ \A i \in 1 .. Len(window) : window[i].seqnum = SeqOf(Acked + i - 1)
        /\ seqnum = SeqOf(Acked + pktInWindow)

----------------------------------------------------------------------------
(***************************************************************************)
(* The inductive invariant behind the safety properties: every seqnum in   *)
(* the system, in a variable, in a window or in flight, is that of the     *)
(* block number it stands for, and every block number lies in the range    *)
(* where its seqnum is not ambiguous.                                      *)
(***************************************************************************)

\* The sender's window holds the blocks after the acknowledged ones, in order.
WindowInv ==
    /\ Acked \in Nat
    /\ \A i \in 1 .. Len(window) :
          window[i] = [seqnum |-> SeqOf(Acked + i - 1), block |-> Acked + i]
    /\ spc = "closed" => window = <<>>

\* What the sender read, the receiver wrote and the sender forgot, in this order.
PositionsInv ==
    /\ Acked <= Written /\ Written <= inPos
    /\ waitedSeqnum = SeqOf(Written)
    /\ receivePkt => Written # 0
    /\ \A i \in Slots : list[i] # NoPkt => list[i].block <= inPos

\* A data packet in flight is one of the blocks read, or it is the closing packet.
IsSent(p) ==
    IF p.block = 0
    THEN spc = "closed" /\ p.seqnum = SeqOf(inPos) /\ Written = inPos
    ELSE /\ p.block <= inPos
         /\ p.seqnum = SeqOf(p.block - 1)
         /\ Written - (p.block - 1) <= DataLife

\* An ACK or NACK in flight names a place the receiver really reached.
IsReplied(a) ==
    /\ a.upto <= Written
    /\ a.seqnum = SeqOf(a.upto)
    /\ a.type = "ACK" => a.upto # 0
    /\ Acked - a.upto < AckLife

FlightInv ==
    /\ \A p \in toReceiver : IsSent(p)
    /\ \A a \in toSender : IsReplied(a)
    /\ inbox # NoPkt => IsReplied(inbox)

Inv ==
    /\ TypeOK
    /\ WindowInv /\ PositionsInv /\ FlightInv
    /\ CountsAgree /\ OutputIsPrefix /\ ListIsAhead /\ NoOverrun

\* nb is 0 before the first read() and after one at the end of the input only; a
\* first turn on a regular file does read.
ReadsToEnd ==
    /\ ~StreamInput => inAvail = NBlocks
    /\ ~StreamInput /\ nb = 0 =>
          \/ inPos = NBlocks
          \/ spc \in {"poll", "input"} /\ pktInWindow = 0 /\ (spc = "input" => inReady)
    /\ spc = "closed" => nb = 0

\* The receiver is told of the end by a sender that closed.
EndInv == ReadsToEnd /\ (rstate = "disconnected" => spc = "closed")
----------------------------------------------------------------------------
Abstract == INSTANCE FileTransfer WITH
    taken    <- inPos,
    written  <- out,
    sender   <- IF spc = "closed" THEN "finished"
                ELSE IF spc = "failed" THEN "aborted" ELSE "sending",
    receiver <- IF rstate = "disconnected" THEN "complete"
                ELSE IF rstate = "timedout" THEN "cut"
                ELSE IF rstate = "overrun" THEN "overrun" ELSE "receiving"

\* The transfer implements its abstract specification.
ImplementsFileTransfer == Abstract!Spec

\* The sender closes when finished (sender.c:104, "close when finished"): not
\* before it has read its whole input.
ClosesOnlyWhenFinished == spc = "closed" => inPos = NBlocks

\* The timer check goes over the whole window (send_window_test.c:86, "iterate
\* over the window to resend some packets").
TimersCoverWindow == spc = "timers" => Visited = 1 .. Len(window)
=============================================================================
