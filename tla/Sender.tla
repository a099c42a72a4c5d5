------------------------------- MODULE Sender -------------------------------
(***************************************************************************)
(* The loop of the sending program, read_write_loop_sender().  One turn of *)
(* the loop is: poll the input and the socket, read at most one block and  *)
(* send it, handle at most one acknowledgement, resend the packets whose   *)
(* timer ran out, and close when everything is acknowledged.  Each of the  *)
(* five is a value of spc, so the receiver and the network may act between *)
(* any two of them.                                                        *)
(*                                                                         *)
(* The queue of unacknowledged packets is its content in order, `window'.  *)
(***************************************************************************)
EXTENDS Network, Lookup

CONSTANT StreamInput   \* TRUE: the input is a pipe; FALSE: a regular file

ASSUME StreamAssumption == StreamInput \in BOOLEAN

VARIABLES
    spc,                \* the part of the loop that is next
    inReady,            \* pfd[1].revents & POLLIN
    inbox,              \* the datagram pfd[0].revents & POLLIN announces, or NoPkt
    nb,                 \* the last result of read(): 0, or 1 for any other
    inPos,              \* blocks read from the input so far
    inAvail,            \* blocks the other end of the pipe has written so far
    seqnum,             \* seqnum of the next new packet
    pktInWindow,        \* the sender's count of packets in its window
    sendingWindowSize,  \* how many it may have there
    window              \* the unacknowledged packets, oldest first

senderVars == <<spc, inReady, inbox, nb, inPos, inAvail, seqnum, pktInWindow,
                sendingWindowSize, window>>

SenderTypeOK ==
    /\ spc \in {"poll", "input", "socket", "timers", "close", "closed", "failed"}
    /\ inReady \in BOOLEAN
    /\ inbox \in AckPkt \cup {NoPkt}
    /\ nb \in {0, 1}
    /\ inPos \in 0 .. NBlocks /\ inAvail \in 0 .. NBlocks
    /\ seqnum \in Seqnum
    /\ pktInWindow \in 0 .. MaxWindow
    /\ sendingWindowSize \in 1 .. MaxWindow
    /\ window \in Seq(DataPkt) /\ Len(window) <= MaxWindow

\* The first window is not one packet but two.
SenderInitBug ==
    /\ spc = "poll" /\ inReady = FALSE /\ inbox = NoPkt /\ nb = 0
    /\ inPos = 0 /\ inAvail = IF StreamInput THEN 0 ELSE NBlocks
    /\ seqnum = 0 /\ pktInWindow = 0 /\ sendingWindowSize = 2 /\ window = <<>>

SenderInit ==
    /\ spc = "poll" /\ inReady = FALSE /\ inbox = NoPkt /\ nb = 0
    /\ inPos = 0 /\ inAvail = IF StreamInput THEN 0 ELSE NBlocks
    /\ seqnum = 0 /\ pktInWindow = 0 /\ sendingWindowSize = 1 /\ window = <<>>

\* Blocks that left the window: what the sender takes for delivered.
Acked == inPos - Len(window)

\* A regular file always polls readable, at its end too.  A pipe polls readable
\* while it holds data; once it is empty and closed poll() reports POLLHUP alone.
InputReadable == ~StreamInput \/ inPos < inAvail

SendData(pkts) == toReceiver' = toReceiver \cup pkts
----------------------------------------------------------------------------
\* More data reaches the pipe the sender reads from.
InputArrives ==
    /\ inAvail < NBlocks
    /\ inAvail' = inAvail + 1
    /\ UNCHANGED <<networkVars, spc, inReady, inbox, nb, inPos, seqnum, pktInWindow,
                   sendingWindowSize, window>>

\* poll() returns with what is ready, or with nothing after its timeout.
Poll ==
    /\ spc = "poll"
    /\ spc' = "input"
    /\ inReady' = InputReadable
    /\ inbox' \in toSender \cup {NoPkt}
    /\ UNCHANGED <<networkVars, nb, inPos, inAvail, seqnum, pktInWindow,
                   sendingWindowSize, window>>

\* One packet more than the window allows.
MayReadBug == inReady /\ pktInWindow <= sendingWindowSize

MayRead == inReady /\ pktInWindow < sendingWindowSize

\* inReady is not read again before the next poll(): every step here resets it.
InputDone == spc' = "socket" /\ inReady' = FALSE

SkipInput ==
    /\ spc = "input" /\ ~MayRead
    /\ InputDone
    /\ UNCHANGED <<networkVars, inbox, nb, inPos, inAvail, seqnum, pktInWindow,
                   sendingWindowSize, window>>

\* The result of read() at the end is not kept for the test that closes.
ReadEndBug ==
    /\ spc = "input" /\ MayRead /\ inPos = inAvail
    /\ InputDone
    /\ UNCHANGED <<networkVars, inbox, nb, inPos, inAvail, seqnum, pktInWindow,
                   sendingWindowSize, window>>

\* read() returns 0 at the end of the file.
ReadEnd ==
    /\ spc = "input" /\ MayRead /\ inPos = inAvail
    /\ InputDone
    /\ nb' = 0
    /\ UNCHANGED <<networkVars, inbox, inPos, inAvail, seqnum, pktInWindow,
                   sendingWindowSize, window>>

\* The next block is put in a packet and the packet in the window.
TakeBlock ==
    /\ spc = "input" /\ MayRead /\ inPos < inAvail
    /\ nb' = 1
    /\ inPos' = inPos + 1
    /\ window' = Append(window, [seqnum |-> seqnum, block |-> inPos + 1])
    /\ UNCHANGED <<toSender, inbox, inAvail, sendingWindowSize>>

ReadAndSend ==
    /\ TakeBlock
    /\ InputDone
    /\ SendData({[seqnum |-> seqnum, block |-> inPos + 1]})
    /\ pktInWindow' = pktInWindow + 1
    /\ seqnum' = NextSeq(seqnum)

\* send() fails, as it does once the peer's port is closed: the loop returns
\* before it counts the packet.
ReadAndFail ==
    /\ TakeBlock
    /\ spc' = "failed" /\ inReady' = FALSE
    /\ UNCHANGED <<toReceiver, pktInWindow, seqnum>>
----------------------------------------------------------------------------
SocketDone == spc' = "timers" /\ inbox' = NoPkt

SkipSocket ==
    /\ spc = "socket" /\ inbox = NoPkt
    /\ SocketDone
    /\ UNCHANGED <<networkVars, inReady, nb, inPos, inAvail, seqnum, pktInWindow,
                   sendingWindowSize, window>>

\* What arrived is damaged: its length is kept as the result of read(), and no more.
ReceiveGarbled ==
    /\ spc = "socket" /\ inbox # NoPkt
    /\ SocketDone
    /\ nb' = 1
    /\ UNCHANGED <<networkVars, inReady, inPos, inAvail, seqnum, pktInWindow,
                   sendingWindowSize, window>>

\* Any ACK empties the window.
DequeuesExactlyBug(k, s) == k = Len(window) /\ s \in Seqnum

DequeuesExactly(k, s) == CoversExactly(window, k, s)

\* An ACK removes what it covers from the head and sets the sending window.
ReceiveAck ==
    /\ spc = "socket" /\ inbox # NoPkt /\ inbox.type = "ACK"
    /\ SocketDone
    /\ nb' = 1
    /\ \E k \in 0 .. Len(window) :
          /\ DequeuesExactly(k, PrevSeq(inbox.seqnum))
          /\ window' = SubSeq(window, k + 1, Len(window))
          /\ pktInWindow' = pktInWindow - k
          /\ toSender' = LivingAcks(toSender, Acked + k)
    /\ sendingWindowSize' = inbox.window
    /\ UNCHANGED <<toReceiver, inReady, inPos, inAvail, seqnum>>

\* get() from position `from' of the window.
Found(s, from) == FirstMatch(window, s, from)

\* A NACK has the packet before the seqnum it names resent, if that packet is in
\* the window, and then halves the sending window.
ReceiveNack ==
    /\ spc = "socket" /\ inbox # NoPkt /\ inbox.type = "NACK"
    /\ SocketDone
    /\ nb' = 1
    /\ LET found == Found(PrevSeq(inbox.seqnum), 1)
       IN  /\ SendData({window[i] : i \in found})
           /\ sendingWindowSize' = IF found = {} \/ sendingWindowSize = 1
                                   THEN sendingWindowSize
                                   ELSE sendingWindowSize \div 2
    /\ UNCHANGED <<toSender, inReady, inPos, inAvail, seqnum, pktInWindow, window>>
----------------------------------------------------------------------------
\* The timers are never looked at.
VisitedBug == {}

Visited == VisitedIn(window)

\* Any of the packets visited may have timed out; those are sent again.
CheckTimers ==
    /\ spc = "timers"
    /\ spc' = "close"
    /\ \E expired \in SUBSET Visited : SendData({window[i] : i \in expired})
    /\ UNCHANGED <<toSender, inReady, inbox, nb, inPos, inAvail, seqnum, pktInWindow,
                   sendingWindowSize, window>>

\* The packets still unacknowledged are forgotten.
FinishedBug == nb = 0

Finished == nb = 0 /\ pktInWindow = 0

KeepGoing ==
    /\ spc = "close" /\ ~Finished
    /\ spc' = "poll"
    /\ UNCHANGED <<networkVars, inReady, inbox, nb, inPos, inAvail, seqnum, pktInWindow,
                   sendingWindowSize, window>>

\* The empty packet is sent once, whether or not send() succeeds.
Close ==
    /\ spc = "close" /\ Finished
    /\ spc' = "closed"
    /\ SendData({[seqnum |-> seqnum, block |-> 0]})
    /\ UNCHANGED <<toSender, inReady, inbox, nb, inPos, inAvail, seqnum, pktInWindow,
                   sendingWindowSize, window>>

SenderStep ==
    \/ Poll
    \/ SkipInput \/ ReadEnd \/ ReadAndSend
    \/ SkipSocket \/ ReceiveGarbled \/ ReceiveAck \/ ReceiveNack
    \/ CheckTimers
    \/ KeepGoing \/ Close
=============================================================================
