------------------------------ MODULE Programs ------------------------------
(***************************************************************************)
(* The two programs from main() to their return: the transfer of Transfer, *)
(* started in any order, with the sockets as the kernel keeps them.  The   *)
(* receiver's port is bound from create_socket() to close().  A datagram   *)
(* that reaches the host while it is not is refused, and the refusal stays *)
(* with the sender's connected socket as a pending error: the next send()  *)
(* or read() fails with it, whatever it was about, and clears it.          *)
(*                                                                         *)
(* A refusal is there as soon as the datagram is refused, as between two   *)
(* programs of one host.  One that reaches the receiver changes nothing:   *)
(* recv() fails, pkt_decode() finds the length of -1 too short, and an     *)
(* acknowledgement that is not sent is one that is lost.                   *)
(***************************************************************************)
EXTENDS Transfer

VARIABLES
    smain, rmain,   \* where main() is: "start", "loop", "exit", or "failed"
    refused,        \* is an error pending on the sender's socket?
    stale,          \* did the read() of this turn fail with it?
    buffer          \* what a 12-byte decode of pkt_buffer gives: a packet or NoPkt

socketVars == <<smain, rmain, refused, stale, buffer>>

programVars == <<vars, socketVars>>

ProgramsInit ==
    /\ Init
    /\ smain = "start" /\ rmain = "start" /\ refused = FALSE
    /\ stale = FALSE /\ buffer = NoPkt

PortBound == rmain = "loop"
----------------------------------------------------------------------------
\* main() makes a socket connected to the receiver's address and enters the loop, or
\* returns when it cannot.  An input that open() refuses does not stop it: the loop
\* polls descriptor -1, which is never readable, as a pipe to which nobody writes.
SenderStarts ==
    /\ smain = "start" /\ smain' \in {"loop", "failed"}
    /\ UNCHANGED <<vars, rmain, refused, stale, buffer>>

\* poll() fails: the loop is left where it is.
PollFails ==
    /\ smain = "loop" /\ spc = "poll" /\ smain' = "failed"
    /\ UNCHANGED <<vars, rmain, refused, stale, buffer>>

\* The loop is left on success and on failure alike with EXIT_SUCCESS.
SenderReturns ==
    /\ smain = "loop" /\ SenderDone /\ smain' = "exit"
    /\ UNCHANGED <<vars, rmain, refused, stale, buffer>>

\* connection_to_sender() binds the port and goes on to wait_for_client().
ReceiverStarts ==
    /\ rmain = "start" /\ rmain' \in {"loop", "failed"}
    /\ UNCHANGED <<vars, smain, refused, stale, buffer>>

\* wait_for_client() fails in recvfrom() or connect(), with the port bound.
ReceiverFails ==
    /\ rmain = "loop" /\ rstate = "wait" /\ rmain' = "failed"
    /\ UNCHANGED <<vars, smain, refused, stale, buffer>>

ReceiverReturns ==
    /\ rmain = "loop" /\ ReceiverGone /\ rmain' = "exit"
    /\ UNCHANGED <<vars, smain, refused, stale, buffer>>

\* A datagram reaches the host and nobody has the port.
Bounce ==
    /\ toReceiver # {} /\ ~PortBound
    /\ refused' = TRUE
    /\ UNCHANGED <<vars, smain, rmain, stale, buffer>>
----------------------------------------------------------------------------
\* The steps of the sender's loop that make no call on the socket.
NoCall ==
    /\ Poll \/ SkipInput \/ ReadEnd \/ SkipSocket \/ KeepGoing
    /\ stale' = FALSE
    /\ UNCHANGED <<refused, buffer>>

\* An encoded packet overwrites the buffer; 12 bytes of it are too short to decode.
SendBlock ==
    /\ IF refused THEN ReadAndFail ELSE ReadAndSend
    /\ refused' = FALSE /\ buffer' = NoPkt
    /\ UNCHANGED stale

\* read() fails: the loop decodes what the buffer held before, as if it had been
\* read, and the datagram poll() announced is still to be read.
ReadStale ==
    /\ spc = "socket" /\ inbox # NoPkt /\ refused /\ ~stale
    /\ inbox' = buffer
    /\ nb' = 1
    /\ refused' = FALSE /\ stale' = TRUE
    /\ UNCHANGED <<networkVars, spc, inReady, inPos, inAvail, seqnum, pktInWindow,
                   sendingWindowSize, window, buffer>>

\* An error that comes after the read() meets the packet a NACK has resent.
ReadDatagram ==
    /\ refused => stale
    /\ stale' = FALSE
    /\ \/ ~stale /\ ReceiveGarbled /\ buffer' = NoPkt /\ UNCHANGED refused
       \/ ReceiveAck /\ buffer' = inbox /\ UNCHANGED refused
       \/ /\ ReceiveNack
          /\ LET resends == Found(PrevSeq(inbox.seqnum), 1) # {}
             IN  /\ refused' = (refused /\ ~resends)
                 /\ buffer' = IF resends THEN NoPkt ELSE inbox

\* Of the packets resent in one check, the first meets the pending error.
Sent(expired) ==
    {i \in expired : refused => \E j \in expired : j < i}

Resend ==
    /\ spc = "timers"
    /\ spc' = "close"
    /\ \E expired \in SUBSET Visited :
          /\ SendData({window[i] : i \in Sent(expired)})
          /\ refused' = (refused /\ expired = {})
          /\ buffer' = IF expired = {} THEN buffer ELSE NoPkt
    /\ UNCHANGED <<toSender, inReady, inbox, nb, inPos, inAvail, seqnum, pktInWindow,
                   sendingWindowSize, window, stale>>

\* A closing packet that is not sent is only logged.
SendLast ==
    /\ ~refused => Close
    /\ refused =>
          /\ spc = "close" /\ Finished /\ spc' = "closed"
          /\ UNCHANGED <<networkVars, inReady, inbox, nb, inPos, inAvail, seqnum,
                         pktInWindow, sendingWindowSize, window>>
    /\ refused' = FALSE /\ buffer' = NoPkt /\ UNCHANGED stale

SenderLoop ==
    /\ smain = "loop"
    /\ NoCall \/ SendBlock \/ ReadStale \/ ReadDatagram \/ Resend \/ SendLast
    /\ UNCHANGED <<receiverVars, smain, rmain>>

ReceiverLoop ==
    /\ PortBound
    /\ ReceiverActs \/ Timeout \/ Truncate
    /\ UNCHANGED socketVars

Surroundings == Outside /\ UNCHANGED socketVars

Returned == smain \in {"exit", "failed"} /\ rmain \in {"exit", "failed"}

AllReturned == Returned /\ UNCHANGED programVars

ProgramsNext ==
    \/ SenderStarts \/ PollFails \/ SenderLoop \/ SenderReturns
    \/ ReceiverStarts \/ ReceiverFails \/ ReceiverLoop \/ ReceiverReturns
    \/ Bounce \/ Surroundings
    \/ AllReturned

ProgramsSpec == ProgramsInit /\ [][ProgramsNext]_programVars
----------------------------------------------------------------------------
(***************************************************************************)
(* Fairness.  The sender's loop never blocks.  The links are fair-lossy:   *)
(* they lose, delay and reorder at will, but of infinitely many datagrams  *)
(* of a kind that matters some arrive: news of progress at the sender, the *)
(* packet waited for and an old packet at the receiver.  A timer that is   *)
(* checked again and again is seen to have run out.                        *)
(***************************************************************************)
IsNews(a) == a.type = "ACK" /\ a.upto > Acked

NewsInFlight == ~SenderDone /\ \E a \in toSender : IsNews(a)

\* News arrives undamaged, even if read() has another error to report first.
TakeNews ==
    SenderLoop /\ inbox # NoPkt /\ IsNews(inbox) /\ (ReceiveAck \/ ReadStale)

\* Stated on the acknowledgements in flight and not as strong fairness of TakeNews:
\* the sender polls only now and then, and a network that emptied the line just
\* before each poll() would never enable TakeNews.
FairAcks == []<>NewsInFlight => []<><<TakeNews>>_programVars

\* No datagram is delivered again for ever: the sender now and then finds its
\* socket empty.  It needs that to close, because the length of the datagram it
\* reads replaces the 0 that announced the end of the file.
FindsNothing == SenderLoop /\ Poll /\ inbox' = NoPkt

\* Every timer looked at has run out; a pending error is cleared by that too.
ResendAll ==
    /\ SenderLoop /\ Resend
    /\ {window[i] : i \in Sent(Visited)} \subseteq toReceiver'
    /\ ~refused'

ReceiverAdvances ==
    /\ ReceiverLoop
    /\ \/ ClientArrives
       \/ \E p \in toReceiver : ReceiveDisconnect(p) \/ ReceiveWaited(p)

ReceiverRepeats == ReceiverLoop /\ \E p \in toReceiver : ReceiveOther(p)

\* A sender that has returned sends nothing, so three silent seconds come.
SilenceComes == ReceiverLoop /\ Timeout /\ smain \in {"exit", "failed"}

Fairness ==
    /\ WF_programVars(SenderStarts) /\ WF_programVars(ReceiverStarts)
    /\ WF_programVars(SenderReturns) /\ WF_programVars(ReceiverReturns)
    /\ WF_programVars(SenderLoop)
    /\ WF_programVars(Surroundings /\ InputArrives)
    /\ FairAcks
    /\ SF_programVars(FindsNothing)
    /\ SF_programVars(ResendAll)
    /\ SF_programVars(ReceiverAdvances)
    /\ SF_programVars(ReceiverRepeats)
    /\ WF_programVars(SilenceComes)

FairSpec == ProgramsSpec /\ Fairness
----------------------------------------------------------------------------
(***************************************************************************)
(* What the sockets add to the invariant of Transfer: a packet decoded a   *)
(* second time is still one the receiver sent, and an error that a first   *)
(* send() could meet is pending only once the receiver is gone.  One left  *)
(* by a packet sent too early is cleared by the first read(), before the   *)
(* window is wide enough for a second packet.                              *)
(***************************************************************************)
SocketTypeOK ==
    /\ smain \in {"start", "loop", "exit", "failed"}
    /\ rmain \in {"start", "loop", "exit", "failed"}
    /\ refused \in BOOLEAN /\ stale \in BOOLEAN
    /\ buffer \in AckPkt \cup {NoPkt}

SocketInv ==
    /\ SocketTypeOK
    /\ buffer # NoPkt => IsReplied(buffer)
    /\ rmain \in {"start", "failed"} => rstate = "wait"
    /\ rmain = "exit" => ReceiverGone
    /\ rstate = "wait" =>
          /\ toSender = {} /\ inbox = NoPkt /\ buffer = NoPkt /\ ~stale
          /\ sendingWindowSize = 1 /\ Acked = 0
    /\ refused /\ ~ReceiverGone =>
          ~stale /\ (SenderDone \/ pktInWindow >= sendingWindowSize)

ProgramsInv == Inv /\ EndInv /\ SocketInv
----------------------------------------------------------------------------
\* The receiver's three silent seconds passed while the sender was at work, or one
\* of the programs failed before its loop, in the rendezvous or in poll().
Missed ==
    \/ smain = "failed" \/ rmain = "failed"
    \/ rstate = "timedout" /\ ~SenderDone

\* The file is written to its end and the sender knows it, in whatever order the
\* programs are started and whatever the network loses, unless one of the two has
\* missed the other (sender.c:104-111, receiver.c:212-217).
CompletesUnlessMissed == <>[](spc = "closed" /\ Written = NBlocks) \/ <>Missed

\* Both programs return, even when the closing packet, sent once, is lost.
ReturnUnlessMissed == <>[](smain = "exit" /\ rmain = "exit") \/ <>Missed

\* A sender nobody answers any more either finds out and returns, or stays in its
\* loop with packets outstanding that it resends for ever: it does not idle with
\* nothing left to do (read_write_loop_sender.c:231, "Error while RESEND").
ReturnsOrResends ==
    \/ <>(smain \in {"exit", "failed"})
    \/ <>[](pktInWindow # 0 /\ (pktInWindow >= sendingWindowSize \/ inPos = NBlocks))

\* A receiver that listens while the sender is at work returns too, or fails, once the
\* sender has closed ("if lost the receiver will automaticly stop with a timeout",
\* read_write_loop_sender.c:240).
ReceiverStops ==
    []((PortBound /\ ~SenderDone) =>
         [](spc = "closed" => <>(ReceiverGone \/ rmain = "failed")))

\* The sender comes to close when it has finished: when its whole input is read and
\* acknowledged (sender.c:104, "close when finished"), unless poll() fails.
ClosesWhenFinished ==
    (smain = "loop" /\ inPos = NBlocks /\ window = <<>>)
        ~> (SenderDone \/ smain = "failed")
=============================================================================
