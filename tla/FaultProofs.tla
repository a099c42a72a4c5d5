----------------------------- MODULE FaultProofs -----------------------------
(***************************************************************************)
(* The two programs with their system calls failing, for every value of    *)
(* the constants: what is proved of the transfer holds with the sockets of *)
(* Programs, which report errors late, too, and an input whose read()      *)
(* fails, of ReadErrors, never lets the sender of a pipe close.            *)
(***************************************************************************)
EXTENDS Programs, ReadErrors, TransferProofs

USE DEF Acked, Written

\* A read() that fails hands the loop what the buffer held before.
StaleStep == ReadStale /\ UNCHANGED receiverVars

\* A closing packet that is not sent.
SilentClose ==
    /\ spc = "close" /\ Finished /\ spc' = "closed"
    /\ UNCHANGED <<networkVars, inReady, inbox, nb, inPos, inAvail, seqnum,
                   pktInWindow, sendingWindowSize, window, receiverVars>>

\* While an error is pending that is not about a receiver that is gone, the window
\* has no room.
LEMMA RefusedIsFull ==
    ASSUME ProgramsInv, refused, MayRead, spc = "input"
    PROVE  ReceiverGone
<1>1. pktInWindow \in 0 .. MaxWindow /\ sendingWindowSize \in 1 .. MaxWindow
  BY DEF ProgramsInv, Inv, TypeOK, SenderTypeOK
<1>2. ~(pktInWindow >= sendingWindowSize) /\ ~SenderDone
  BY <1>1, Constants, SMT DEF MayRead, SenderDone
<1> QED
  BY <1>2 DEF ProgramsInv, SocketInv

\* To the variables of Transfer every step of the programs is one of Transfer, a
\* failed read() or a closing packet that is lost at once.
LEMMA ProgramSteps ==
    ASSUME ProgramsInv, [ProgramsNext]_programVars
    PROVE  [Next]_vars \/ StaleStep \/ SilentClose
<1>1. CASE SenderStarts \/ PollFails \/ SenderReturns \/ ReceiverStarts
           \/ ReceiverFails \/ ReceiverReturns \/ Bounce \/ AllReturned \/ UNCHANGED programVars
  BY <1>1
  DEF SenderStarts, PollFails, SenderReturns, ReceiverStarts, ReceiverFails,
      ReceiverReturns, Bounce, AllReturned, programVars
<1>2. CASE ReceiverLoop \/ Surroundings
  BY <1>2 DEF ReceiverLoop, Surroundings, Next
<1>3. CASE SenderLoop
  <2>0. UNCHANGED receiverVars
    BY <1>3 DEF SenderLoop
  <2>1. CASE NoCall
    BY <2>0, <2>1 DEF NoCall, Next, SenderActs, SenderStep
  <2>2. CASE SendBlock /\ ~refused
    BY <2>0, <2>2 DEF SendBlock, Next, SenderActs, SenderStep
  <2>3. CASE SendBlock /\ refused
    <3>1. ReadAndFail
      BY <2>3 DEF SendBlock
    <3>2. ReceiverGone
      BY <2>3, <3>1, RefusedIsFull DEF ReadAndFail, TakeBlock
    <3> QED
      BY <2>0, <3>1, <3>2 DEF SenderRefused, Next
  <2>4. CASE ReadStale
    BY <2>0, <2>4 DEF StaleStep
  <2>5. CASE ReadDatagram
    BY <2>0, <2>5 DEF ReadDatagram, Next, SenderActs, SenderStep
  <2>6. CASE Resend
    <3>1. PICK expired \in SUBSET Visited : SendData({window[i] : i \in Sent(expired)})
      BY <2>6 DEF Resend
    <3>2. Sent(expired) \in SUBSET Visited
      BY DEF Sent
    <3>3. CheckTimers
      BY <2>6, <3>1, <3>2 DEF Resend, CheckTimers
    <3> QED
      BY <2>0, <3>3 DEF Next, SenderActs, SenderStep
  <2>7. CASE SendLast /\ ~refused
    BY <2>0, <2>7 DEF SendLast, Next, SenderActs, SenderStep
  <2>8. CASE SendLast /\ refused
    BY <2>0, <2>8 DEF SendLast, SilentClose
  <2> QED
    BY <1>3, <2>1, <2>2, <2>3, <2>4, <2>5, <2>6, <2>7, <2>8 DEF SenderLoop
<1> QED
  BY <1>1, <1>2, <1>3 DEF ProgramsNext

LEMMA StaleKeepsInv == ProgramsInv /\ StaleStep => Inv' /\ EndInv'
<1> SUFFICES ASSUME ProgramsInv, StaleStep PROVE Inv' /\ EndInv'
  OBVIOUS
<1>1. /\ spc = "socket" /\ inbox' = buffer /\ nb' = 1
      /\ UNCHANGED <<toReceiver, toSender, spc, inReady, inPos, inAvail, seqnum, pktInWindow,
                     sendingWindowSize, window, rstate, waitedSeqnum, receivePkt, list, out>>
  BY DEF StaleStep, ReadStale, networkVars, receiverVars
<1>2. Inv /\ buffer \in AckPkt \cup {NoPkt} /\ (buffer # NoPkt => IsReplied(buffer))
  BY DEF ProgramsInv, SocketInv, SocketTypeOK
<1>3. TypeOK'
  BY <1>1, <1>2 DEF Inv, TypeOK, NetworkTypeOK, SenderTypeOK, ReceiverTypeOK
<1>4. rstate' # "overrun"
  BY <1>1, <1>2 DEF Inv, NoOverrun
<1>5. /\ WindowInv' /\ PositionsInv' /\ CountsAgree'
      /\ OutputIsPrefix' /\ ListIsAhead' /\ NoOverrun'
      /\ \A p : IsSent(p) => IsSent(p)'
      /\ \A a : IsReplied(a) => IsReplied(a)'
  BY <1>1, <1>2, <1>4, Frame
<1>6. FlightInv'
  BY <1>1, <1>2, <1>5 DEF Inv, FlightInv
<1>7. EndInv'
  BY <1>1 DEF ProgramsInv, EndInv, ReadsToEnd
<1> QED
  BY <1>3, <1>5, <1>6, <1>7 DEF Inv

\* An empty window leaves nothing behind, whether or not the receiver is told.
LEMMA EmptyIsWritten ==
    ASSUME Inv, spc = "close", pktInWindow = 0
    PROVE  window = <<>> /\ Written = inPos
<1>1. Len(window) = 0
  BY DEF Inv, CountsAgree
<1>2. window = <<>>
  BY <1>1, EmptySeq DEF Inv, TypeOK, SenderTypeOK
<1>3. Written = inPos
  BY <1>1, Positions, SMT
<1> QED
  BY <1>2, <1>3

LEMMA SilentCloseKeepsInv == ProgramsInv /\ SilentClose => Inv' /\ EndInv'
<1> SUFFICES ASSUME ProgramsInv, SilentClose PROVE Inv' /\ EndInv'
  OBVIOUS
<1>1. /\ spc = "close" /\ spc' = "closed" /\ nb = 0 /\ pktInWindow = 0
      /\ UNCHANGED <<toReceiver, toSender, inbox, nb, inReady, inPos, inAvail, seqnum, pktInWindow,
                     sendingWindowSize, window, rstate, waitedSeqnum, receivePkt, list, out>>
  BY DEF SilentClose, Finished, networkVars, receiverVars
<1>2. Inv /\ window = <<>> /\ Written = inPos
  BY <1>1, EmptyIsWritten DEF ProgramsInv
<1>3. TypeOK'
  BY <1>1, <1>2 DEF Inv, TypeOK, NetworkTypeOK, SenderTypeOK, ReceiverTypeOK
<1>4. WindowInv' /\ PositionsInv' /\ CountsAgree'
  BY <1>1, <1>2 DEF Inv, WindowInv, PositionsInv, CountsAgree
<1>8. OutputIsPrefix' /\ ListIsAhead' /\ NoOverrun'
  BY <1>1, <1>2 DEF Inv, OutputIsPrefix, ListIsAhead, NoOverrun, Following
<1>5. FlightInv'
  BY <1>1, <1>2 DEF Inv, FlightInv, IsSent, IsReplied
<1>6. EndInv'
  BY <1>1 DEF ProgramsInv, EndInv, ReadsToEnd
<1> QED
  BY <1>3, <1>4, <1>5, <1>6, <1>8 DEF Inv
----------------------------------------------------------------------------
\* SocketInv, one lemma per group of actions.
LEMMA StartsAndEnds ==
    ASSUME ProgramsInv,
           SenderStarts \/ PollFails \/ SenderReturns \/ ReceiverStarts
              \/ ReceiverFails \/ ReceiverReturns \/ AllReturned \/ UNCHANGED programVars
    PROVE  SocketInv'
<1>1. /\ UNCHANGED <<toSender, spc, inbox, inPos, window, pktInWindow, sendingWindowSize,
                     rstate, out, refused, stale, buffer>>
      /\ smain' \in {smain, "loop", "exit", "failed"}
      /\ \/ rmain' = rmain
         \/ rmain = "start" /\ rmain' \in {"loop", "failed"}
         \/ rstate = "wait" /\ rmain' = "failed"
         \/ ReceiverGone /\ rmain' = "exit"
  BY DEF SenderStarts, PollFails, SenderReturns, ReceiverStarts, ReceiverFails, ReceiverReturns,
         AllReturned, programVars, socketVars, vars, networkVars, senderVars, receiverVars
<1>2. SocketInv
  BY DEF ProgramsInv
<1>3. SocketTypeOK'
  BY <1>1, <1>2 DEF SocketInv, SocketTypeOK
<1>4. /\ IsReplied(buffer)' <=> IsReplied(buffer)
      /\ ReceiverGone' <=> ReceiverGone
      /\ SenderDone' <=> SenderDone
  BY <1>1 DEF IsReplied, ReceiverGone, SenderDone
<1> QED
  BY <1>1, <1>2, <1>3, <1>4 DEF SocketInv

\* A packet of a sender that started first bounces off a port that is not bound yet:
\* until the receiver answers, the window of one packet is full.
LEMMA BounceKeeps == ProgramsInv /\ Bounce => SocketInv'
<1> SUFFICES ASSUME ProgramsInv, Bounce PROVE SocketInv'
  OBVIOUS
<1>1. /\ toReceiver # {} /\ rmain # "loop" /\ refused' = TRUE
      /\ UNCHANGED <<toSender, spc, inbox, inPos, window, pktInWindow, sendingWindowSize,
                     rstate, out, smain, rmain, stale, buffer>>
  BY DEF Bounce, PortBound, vars, networkVars, senderVars, receiverVars
<1>2. SocketInv /\ SocketTypeOK /\ Inv
  BY DEF ProgramsInv, SocketInv
<1>3. SocketTypeOK'
  BY <1>1, <1>2 DEF SocketTypeOK
<1>4. /\ IsReplied(buffer)' <=> IsReplied(buffer)
      /\ ReceiverGone' <=> ReceiverGone
      /\ SenderDone' <=> SenderDone
  BY <1>1 DEF IsReplied, ReceiverGone, SenderDone
<1>5. ASSUME ~ReceiverGone
      PROVE  ~stale /\ (SenderDone \/ pktInWindow >= sendingWindowSize)
  <2>1. rstate = "wait" /\ ~stale /\ sendingWindowSize = 1 /\ Acked = 0
    BY <1>1, <1>2, <1>5 DEF SocketInv, SocketTypeOK
  <2>2. PICK p \in toReceiver : p \in DataPkt /\ IsSent(p)
    BY <1>1, <1>2 DEF Inv, FlightInv, TypeOK, NetworkTypeOK
  <2>3. CASE p.block = 0
    BY <2>1, <2>2, <2>3 DEF IsSent, SenderDone
  <2>4. CASE p.block # 0
    <3>1. p.block <= inPos /\ p.block \in 0 .. NBlocks
      BY <2>2, <2>4 DEF IsSent, DataPkt
    <3>2. inPos = Acked + Len(window) /\ Len(window) \in 0 .. MaxWindow /\ inPos \in 0 .. NBlocks
      BY <1>2, Positions
    <3>3. Len(window) >= 1
      BY <2>1, <2>4, <3>1, <3>2, Constants, SMT
    <3>4. spc # "failed" => pktInWindow = Len(window)
      BY <1>2 DEF Inv, CountsAgree
    <3> QED
      BY <2>1, <3>3, <3>4 DEF SenderDone
  <2> QED
    BY <2>3, <2>4
<1> QED
  BY <1>1, <1>2, <1>3, <1>4, <1>5 DEF SocketInv

LEMMA SurroundingsKeep == ProgramsInv /\ Surroundings => SocketInv'
<1> SUFFICES ASSUME ProgramsInv, Surroundings PROVE SocketInv'
  OBVIOUS
<1>1. /\ UNCHANGED <<spc, inbox, inPos, window, pktInWindow, sendingWindowSize,
                     rstate, out, smain, rmain, refused, stale, buffer>>
      /\ toSender' \subseteq toSender
  BY DEF Surroundings, Outside, InputArrives, Lose, LoseData, LoseAck, networkVars,
         senderVars, receiverVars, socketVars
<1>2. SocketInv
  BY DEF ProgramsInv
<1>3. /\ IsReplied(buffer)' <=> IsReplied(buffer)
      /\ ReceiverGone' <=> ReceiverGone
      /\ SenderDone' <=> SenderDone
      /\ SocketTypeOK' <=> SocketTypeOK
  BY <1>1 DEF IsReplied, ReceiverGone, SenderDone, SocketTypeOK
<1>4. toSender = {} => toSender' = {}
  BY <1>1
<1> QED
  BY <1>1, <1>2, <1>3, <1>4 DEF SocketInv

\* What the receiver does keeps an old reply a reply.
LEMMA ReceiverKeeps == ProgramsInv /\ ReceiverLoop => SocketInv'
<1> SUFFICES ASSUME ProgramsInv, ReceiverLoop PROVE SocketInv'
  OBVIOUS
<1>1. /\ rmain = "loop" /\ UNCHANGED <<senderVars, socketVars>>
      /\ ReceiverActs \/ Timeout \/ Truncate
  BY DEF ReceiverLoop, PortBound, ReceiverActs, Timeout, Truncate
<1>2. SocketInv /\ SocketTypeOK /\ Inv
  BY DEF ProgramsInv, SocketInv
<1>3. Written \in Nat
  BY <1>2, Positions
<1>4. rstate \in {"wait", "run"} /\ rstate' # "wait" /\ Written <= Written'
  <2>1. CASE ClientArrives \/ Timeout \/ Truncate \/ \E p \in toReceiver : ReceiveDisconnect(p)
    <3>1. rstate \in {"wait", "run"} /\ rstate' # "wait" /\ Written' = Written
      BY <2>1
      DEF ClientArrives, Timeout, GiveUp, Truncate, Truncation, ReceiveTruncated,
          ReceiveDisconnect, receiverVars
    <3> QED
      BY <1>3, <3>1, SMT
  <2>2. ASSUME NEW p \in toReceiver, ReceiveOther(p)
        PROVE  rstate = "run" /\ rstate' # "wait" /\ Written' = Written
    BY <2>2, Zenon DEF ReceiveOther
  <2>3. ASSUME NEW p \in toReceiver, ReceiveWaited(p)
        PROVE  rstate = "run" /\ rstate' # "wait" /\ Written <= Written'
    <3>1. PICK n \in 0 .. MaxWindow - 1 : Written' = Written + n + 1 /\ rstate' = rstate
      BY <1>2, <2>3, WaitedDrains
    <3>2. Written <= Written'
      BY <1>3, <3>1, Constants, SMT
    <3> QED
      BY <2>3, <3>1, <3>2 DEF ReceiveWaited
  <2> QED
    BY <1>1, <1>3, <2>1, <2>2, <2>3, SMT DEF ReceiverActs, ReceiveData
<1>5. /\ UNCHANGED <<spc, inPos, window, pktInWindow, sendingWindowSize, inbox,
                     smain, rmain, refused, stale, buffer>>
  BY <1>1 DEF senderVars, socketVars
<1>6. buffer # NoPkt => IsReplied(buffer)'
  <2> SUFFICES ASSUME buffer # NoPkt PROVE IsReplied(buffer)'
    OBVIOUS
  <2>1. buffer.upto <= Written /\ buffer.upto \in Nat
    BY <1>2 DEF SocketInv, SocketTypeOK, IsReplied, AckPkt
  <2>2. Written' \in Nat
    <3>1. Inv'
      BY <1>1, <1>2, NextInv DEF Next
    <3> QED
      BY <3>1 DEF Inv, TypeOK, ReceiverTypeOK
  <2>3. buffer.upto <= Written'
    BY <1>3, <1>4, <2>1, <2>2, SMT
  <2>4. IsReplied(buffer)
    BY <1>2 DEF SocketInv
  <2> QED
    BY <1>5, <2>3, <2>4 DEF IsReplied
<1>7. SocketTypeOK'
  BY <1>2, <1>5 DEF SocketTypeOK
<1>8. ~ReceiverGone /\ (SenderDone' <=> SenderDone)
  BY <1>4, <1>5 DEF ReceiverGone, SenderDone
<1> QED
  BY <1>1, <1>2, <1>4, <1>5, <1>6, <1>7, <1>8 DEF SocketInv

\* What the sender keeps in the buffer after a datagram is a reply to the window as
\* the datagram left it.
LEMMA DatagramKeeps ==
    ASSUME ProgramsInv, ReadDatagram, UNCHANGED <<receiverVars, smain, rmain>>
    PROVE  SocketInv'
<1>1. /\ inbox # NoPkt /\ inbox' = NoPkt /\ (refused => stale) /\ stale' = FALSE
      /\ buffer' \in {inbox, NoPkt} /\ refused' \in BOOLEAN /\ (refused' => refused)
      /\ UNCHANGED <<rstate, out, smain, rmain, inPos>>
      /\ ReceiveAck \/ UNCHANGED window
  <2>1. refused \in BOOLEAN
    BY DEF ProgramsInv, SocketInv, SocketTypeOK
  <2>2. CASE \/ ReceiveAck /\ buffer' = inbox /\ UNCHANGED refused
             \/ ~stale /\ ReceiveGarbled /\ buffer' = NoPkt /\ UNCHANGED refused
    BY <2>1, <2>2 DEF ReadDatagram, ReceiveAck, ReceiveGarbled, SocketDone, receiverVars
  <2>3. CASE /\ ReceiveNack
             /\ LET resends == Found(PrevSeq(inbox.seqnum), 1) # {}
                IN  /\ refused' = (refused /\ ~resends)
                    /\ buffer' = IF resends THEN NoPkt ELSE inbox
    <3>1. \E resends \in BOOLEAN : /\ refused' = (refused /\ ~resends)
                                  /\ buffer' = IF resends THEN NoPkt ELSE inbox
      BY <2>3, Zenon
    <3>2. refused' \in BOOLEAN /\ (refused' => refused) /\ buffer' \in {inbox, NoPkt}
      BY <2>1, <3>1
    <3> QED
      BY <2>3, <3>2 DEF ReadDatagram, ReceiveNack, SocketDone, receiverVars
  <2> QED
    BY <2>2, <2>3 DEF ReadDatagram
<1>2. SocketInv /\ SocketTypeOK /\ Inv
  BY DEF ProgramsInv, SocketInv
<1>3. inbox \in AckPkt /\ IsReplied(inbox) /\ inbox.upto \in Nat
  BY <1>1, <1>2 DEF Inv, TypeOK, SenderTypeOK, FlightInv, AckPkt
<1>4. rstate # "wait" /\ (refused => ReceiverGone)
  BY <1>1, <1>2 DEF SocketInv
<1>5. IsReplied(inbox)' = (/\ inbox'.upto <= Written'
                           /\ inbox'.seqnum = SeqOf(inbox'.upto)
                           /\ inbox'.type = "ACK" => inbox'.upto # 0
                           /\ Acked' - inbox'.upto < AckLife)
  BY DEF IsReplied
<1>6. ASSUME NEW a, a = inbox
      PROVE  /\ a.upto <= Written' /\ a.seqnum = SeqOf(a.upto)
             /\ a.type = "ACK" => a.upto # 0
             /\ Acked' - a.upto < AckLife
  <2>1. /\ a.upto <= Written' /\ a.seqnum = SeqOf(a.upto)
        /\ a.type = "ACK" => a.upto # 0
        /\ Acked - a.upto < AckLife
    BY <1>1, <1>3, <1>6 DEF IsReplied
  <2>2. CASE UNCHANGED window
    BY <1>1, <2>1, <2>2
  <2>3. CASE ReceiveAck
    <3>1. PICK k \in 0 .. Len(window) :
              /\ DequeuesExactly(k, PrevSeq(inbox.seqnum))
              /\ window' = SubSeq(window, k + 1, Len(window))
      BY <2>3 DEF ReceiveAck
    <3>2. window \in Seq(DataPkt)
      BY <1>2 DEF Inv, TypeOK, SenderTypeOK
    <3>3. Len(window') = Len(window) - k
      BY <3>1, <3>2, SuffixOfSeq
    <3>4. k = 0 \/ Acked + k <= inbox.upto
      <4>1. /\ Written \in Nat /\ Acked \in Nat /\ Len(window) \in 0 .. MaxWindow
            /\ Acked + Len(window) = inPos /\ Written <= inPos
        BY <1>2, Positions, Constants, SMT
      <4>2. spc = "socket" /\ inbox.type = "ACK"
        BY <2>3 DEF ReceiveAck
      <4>3. \A i \in 1 .. Len(window) : window[i].seqnum = SeqOf(Acked + i - 1)
        BY <1>2, <4>2 DEF Inv, CountsAgree
      <4> QED
        BY <1>3, <3>1, <4>1, <4>2, <4>3, AckRemovesOnlyWritten
    <3>5. /\ inPos \in 0 .. NBlocks /\ Acked \in Nat /\ Len(window) \in 0 .. MaxWindow
          /\ inPos = Acked + Len(window)
      BY <1>2, Positions
    <3>6. Acked' = Acked + k
      <4>1. inPos' = inPos
        BY <1>1
      <4> QED
        BY <3>3, <3>5, <4>1, Constants, SMT
    <3>7. Acked' - a.upto < AckLife
      BY <1>3, <1>6, <2>1, <3>1, <3>4, <3>5, <3>6, Constants, SMT
    <3> QED
      BY <2>1, <3>7
  <2> QED
    BY <1>1, <2>2, <2>3
<1>7. buffer' # NoPkt => IsReplied(buffer)'
  BY <1>1, <1>6 DEF IsReplied
<1>8. SocketTypeOK'
  BY <1>1, <1>2, <1>3 DEF SocketTypeOK
<1> QED
  BY <1>1, <1>2, <1>4, <1>7, <1>8 DEF SocketInv, ReceiverGone

LEMMA SenderKeeps == ProgramsInv /\ SenderLoop => SocketInv'
<1> SUFFICES ASSUME ProgramsInv, SenderLoop PROVE SocketInv'
  OBVIOUS
<1>1. UNCHANGED <<receiverVars, smain, rmain>> /\ UNCHANGED <<rstate, out>>
  BY DEF SenderLoop, receiverVars
<1>2. SocketInv /\ SocketTypeOK /\ Inv /\ (ReceiverGone' <=> ReceiverGone)
  BY <1>1 DEF ProgramsInv, SocketInv, ReceiverGone
<1>3. CASE NoCall
  <2>1. /\ UNCHANGED <<toSender, inPos, window, pktInWindow, sendingWindowSize, refused, buffer>>
        /\ stale' = FALSE /\ ~SenderDone
        /\ inbox' \in toSender \cup {NoPkt, inbox}
    BY <1>3
    DEF NoCall, Poll, SkipInput, ReadEnd, SkipSocket, KeepGoing, InputDone, SocketDone,
        networkVars, SenderDone
  <2>2. SocketTypeOK' /\ (IsReplied(buffer)' <=> IsReplied(buffer))
    BY <1>1, <1>2, <2>1 DEF SocketTypeOK, IsReplied
  <2> QED
    BY <1>1, <1>2, <2>1, <2>2 DEF SocketInv
<1>4. CASE SendBlock
  <2>1. /\ UNCHANGED <<toSender, inbox, sendingWindowSize, stale>>
        /\ refused' = FALSE /\ buffer' = NoPkt
        /\ inPos' = inPos + 1
        /\ window' = Append(window, [seqnum |-> seqnum, block |-> inPos + 1])
    BY <1>4 DEF SendBlock, ReadAndFail, ReadAndSend, TakeBlock
  <2>2. Acked' = Acked
    <3>1. window \in Seq(DataPkt) /\ inPos \in 0 .. NBlocks
      BY <1>2 DEF Inv, TypeOK, SenderTypeOK
    <3>2. Len(window') = Len(window) + 1 /\ Len(window) \in Nat
      BY <2>1, <3>1, SMT
    <3> QED
      BY <2>1, <3>1, <3>2, Constants, SMT
  <2>3. SocketTypeOK'
    BY <1>1, <1>2, <2>1 DEF SocketTypeOK
  <2> QED
    BY <1>1, <1>2, <2>1, <2>2, <2>3 DEF SocketInv
<1>5. CASE ReadStale
  <2>1. /\ UNCHANGED <<toSender, inPos, window, buffer>> /\ refused' = FALSE /\ stale' = TRUE
        /\ inbox # NoPkt
    BY <1>5 DEF ReadStale, networkVars
  <2>2. SocketTypeOK' /\ (IsReplied(buffer)' <=> IsReplied(buffer))
    BY <1>1, <1>2, <2>1 DEF SocketTypeOK, IsReplied
  <2> QED
    BY <1>1, <1>2, <2>1, <2>2 DEF SocketInv
<1>6. CASE ReadDatagram
  BY <1>1, <1>6, DatagramKeeps
<1>7. CASE Resend
  <2>1. /\ UNCHANGED <<toSender, inbox, inPos, window, pktInWindow, sendingWindowSize, stale>>
        /\ refused' \in BOOLEAN /\ (refused' => refused) /\ buffer' \in {buffer, NoPkt}
        /\ ~SenderDone
    BY <1>2, <1>7 DEF Resend, SenderDone, SocketTypeOK
  <2>2. SocketTypeOK'
    BY <1>1, <1>2, <2>1 DEF SocketTypeOK
  <2>3. buffer' # NoPkt => IsReplied(buffer)'
    BY <1>1, <1>2, <2>1 DEF IsReplied, SocketInv
  <2> QED
    BY <1>1, <1>2, <2>1, <2>2, <2>3 DEF SocketInv
<1>8. CASE SendLast
  <2>1. /\ UNCHANGED <<toSender, inbox, inPos, window, sendingWindowSize, stale>>
        /\ refused' = FALSE /\ buffer' = NoPkt
    BY <1>8 DEF SendLast, Close, networkVars
  <2>2. SocketTypeOK'
    BY <1>1, <1>2, <2>1 DEF SocketTypeOK
  <2> QED
    BY <1>1, <1>2, <2>1, <2>2 DEF SocketInv
<1> QED
  BY <1>3, <1>4, <1>5, <1>6, <1>7, <1>8 DEF SenderLoop
----------------------------------------------------------------------------
\* The invariant of the transfer and what the sockets add to it hold of the two
\* programs in whatever order they start, and whatever the kernel refuses.
THEOREM ProgramsInvHolds == ProgramsSpec => []ProgramsInv
<1>1. ProgramsInit => ProgramsInv
  <2> SUFFICES ASSUME ProgramsInit PROVE ProgramsInv
    OBVIOUS
  <2>1. Init /\ Inv /\ EndInv
    BY InitInv, EndInvInit DEF ProgramsInit
  <2>2. SocketInv
    <3>1. Acked = 0 /\ sendingWindowSize = 1 /\ inbox = NoPkt /\ toSender = {} /\ rstate = "wait"
      <4>1. Len(window) = 0 /\ inPos = 0
        BY <2>1, EmptySeq DEF Init, SenderInit
      <4>2. Acked = 0
        BY <4>1, SMT
      <4> QED
        BY <2>1, <4>2 DEF Init, SenderInit, NetworkInit, ReceiverInit
    <3> QED
      BY <3>1 DEF ProgramsInit, SocketInv, SocketTypeOK
  <2> QED
    BY <2>1, <2>2 DEF ProgramsInv
<1>2. ProgramsInv /\ [ProgramsNext]_programVars => ProgramsInv'
  <2> SUFFICES ASSUME ProgramsInv, [ProgramsNext]_programVars PROVE ProgramsInv'
    OBVIOUS
  <2>1. Inv' /\ EndInv'
    BY ProgramSteps, NextInv, EndInvNext, StaleKeepsInv, SilentCloseKeepsInv DEF ProgramsInv
  <2>2. SocketInv'
    BY StartsAndEnds, BounceKeeps, SurroundingsKeep, ReceiverKeeps, SenderKeeps DEF ProgramsNext
  <2> QED
    BY <2>1, <2>2 DEF ProgramsInv
<1> QED
  BY <1>1, <1>2, PTL DEF ProgramsSpec

\* A sender whose closing packet is refused has delivered everything too, and read a
\* regular file to its end (read_write_loop_sender.c:239-262).
THEOREM ProgramsLeaveNothing == ProgramsSpec => []ClosedIsWritten
<1>1. ProgramsInv => ClosedIsWritten
  BY InvCloses DEF ProgramsInv
<1> QED
  BY <1>1, ProgramsInvHolds, PTL

\* The two programs do what a transfer of a file promises, whatever order they start
\* in and whatever errors their sockets report: the sender gives up only after the
\* receiver did (sender.c:104-111, receiver.c:212-217).
THEOREM ProgramsImplement == ProgramsSpec => ImplementsFileTransfer
<1>1. ProgramsInit => Abstract!Init
  BY DEF ProgramsInit, Init, SenderInit, ReceiverInit, Abstract!Init
<1>2. ProgramsInv /\ ProgramsInv' /\ [ProgramsNext]_programVars
          => [Abstract!Next]_(Abstract!vars)
  <2> SUFFICES ASSUME ProgramsInv, ProgramsInv', [ProgramsNext]_programVars
               PROVE  [Abstract!Next]_(Abstract!vars)
    OBVIOUS
  <2>1. CASE [Next]_vars
    BY <2>1, StepsMap DEF ProgramsInv
  <2>2. CASE StaleStep
    <3>1. UNCHANGED <<inPos, out, spc, rstate>>
      BY <2>2 DEF StaleStep, ReadStale, receiverVars
    <3> QED
      BY <3>1 DEF Abstract!vars
  <2>3. CASE SilentClose
    <3>1. /\ spc = "close" /\ spc' = "closed" /\ UNCHANGED <<inPos, out, rstate>>
          /\ nb = 0 /\ pktInWindow = 0
      BY <2>3 DEF SilentClose, Finished, receiverVars
    <3>2. Len(out) = inPos
      BY <3>1, EmptyIsWritten DEF ProgramsInv
    <3>3. CASE StreamInput
      BY <3>1, <3>2, <3>3 DEF Abstract!Finish, Abstract!Next
    <3>4. CASE inPos = NBlocks
      BY <3>1, <3>2, <3>4 DEF Abstract!Finish, Abstract!Next
    <3>5. StreamInput \/ inPos = NBlocks
      BY <3>1, StreamAssumption DEF ProgramsInv, EndInv, ReadsToEnd
    <3> QED
      BY <3>3, <3>4, <3>5
  <2> QED
    BY <2>1, <2>2, <2>3, ProgramSteps
<1> QED
  BY <1>1, <1>2, ProgramsInvHolds, PTL DEF ProgramsSpec, ImplementsFileTransfer, Abstract!Spec
----------------------------------------------------------------------------
(***************************************************************************)
(* A read() that fails: ErrorsInv is inductive.                            *)
(***************************************************************************)
LEMMA Ranges ==
    ErrorsInv => /\ inPos \in 0 .. NBlocks /\ inPos \in Nat /\ Written \in Nat /\ Acked \in Nat
                 /\ Len(window) \in 0 .. MaxWindow /\ inPos = Acked + Len(window)
                 /\ Acked <= Written /\ Written <= inPos
BY LenProperties, Constants
DEF ErrorsInv, TypeOK, SenderTypeOK, ReceiverTypeOK, WindowHolds, OrderHolds

LEMMA PacketFields ==
    ASSUME NEW n
    PROVE  PacketAt(n).seqnum = SeqOf(n - 1) /\ PacketAt(n).block = Carried(n)
BY DEF PacketAt

LEMMA CarriedIsPlace ==
    ASSUME NEW n \in Nat \ {0}
    PROVE  /\ Carried(n) = 0 <=> n \in Places("zero")
           /\ Carried(n) # 0 => Carried(n) = n
BY DEF Carried

\* One more failed read() adds its place to those of its length.
LEMMA PlacesAdded ==
    ASSUME NEW length, NEW l,
           failed' = failed \cup {[place |-> inPos + 1, length |-> length]}
    PROVE  Places(l)' = IF l = length THEN Places(l) \cup {inPos + 1} ELSE Places(l)
<1>1. PICK g : g = [place |-> inPos + 1, length |-> length]
  OBVIOUS
<1>2. g.place = inPos + 1 /\ g.length = length
  BY <1>1
<1>3. failed' = failed \cup {g}
  BY <1>1
<1>4. Places(l)' = {f.place : f \in {h \in failed' : h.length = l}}
  BY DEF Places
<1>5. ASSUME NEW n
      PROVE  n \in Places(l)' <=> n \in Places(l) \/ (l = length /\ n = inPos + 1)
  <2>1. n \in Places(l)' <=> \E f \in failed' : f.length = l /\ n = f.place
    BY <1>4
  <2>2. n \in Places(l) <=> \E f \in failed : f.length = l /\ n = f.place
    BY DEF Places
  <2> QED
    BY <1>2, <1>3, <2>1, <2>2
<1> QED
  BY <1>5

\* While the receiver is at work, the sender closed only after everything.
LEMMA ClosedHasNothingLeft ==
    ASSUME ErrorsInv, spc = "closed"
    PROVE  Written = inPos /\ Places("zero") = {}
<1>1. Len(window) = 0
  BY EmptySeq DEF ErrorsInv, WindowHolds
<1>2. Written = inPos
  BY <1>1, Ranges, SMT
<1>3. ASSUME NEW n \in Places("zero")
      PROVE  FALSE
  <2>1. n \in 1 .. inPos /\ Written < n
    BY DEF ErrorsInv, PlacesInv
  <2> QED
    BY <1>2, <2>1, Ranges, SMT
<1> QED
  BY <1>2, <1>3

\* Where a data packet that arrives may lie.
LEMMA PlaceOfArrival ==
    ASSUME ErrorsInv, NEW p \in toReceiver
    PROVE  \/ \E n \in 1 .. inPos :
                 /\ p = PacketAt(n) /\ n - 1 \in Nat
                 /\ n - 1 - Written < MaxWindow /\ Written - (n - 1) <= DataLife
           \/ /\ spc = "closed" /\ p = [seqnum |-> SeqOf(inPos), block |-> 0]
              /\ Written = inPos
<1>1. IsUnderWay(p)
  BY DEF ErrorsInv, FlightHolds
<1>2. ASSUME NEW n \in 1 .. inPos
      PROVE  n - 1 \in Nat /\ n - 1 - Written < MaxWindow
  BY Ranges, Constants, SMT
<1> QED
  BY <1>1, <1>2, ClosedHasNothingLeft DEF IsUnderWay

\* Every packet of the window is of a place that was read.
LEMMA WindowUnderWay ==
    ASSUME ErrorsInv, NEW i \in 1 .. Len(window)
    PROVE  window[i] \in DataPkt /\ IsUnderWay(window[i])
<1>1. window[i] \in DataPkt
  BY ElementOfSeq DEF ErrorsInv, TypeOK, SenderTypeOK
<1>2. window[i] = PacketAt(Acked + i)
  BY DEF ErrorsInv, WindowHolds
<1>3. PICK n \in 1 .. inPos : n = Acked + i /\ Written - (n - 1) <= DataLife
  <2>1. Acked + i \in 1 .. inPos /\ Written - ((Acked + i) - 1) <= DataLife
    BY Ranges, Constants, SMT
  <2> QED
    BY <2>1
<1> QED
  BY <1>1, <1>2, <1>3 DEF IsUnderWay

\* What the steps that move neither end of the transfer leave true.
LEMMA ErrorsFrame ==
    ASSUME ErrorsInv,
           UNCHANGED <<inPos, seqnum, pktInWindow, window,
                       waitedSeqnum, receivePkt, list, out, failed>>,
           spc' = "closed" <=> spc = "closed",
           spc' = "failed" <=> spc = "failed",
           rstate' # "overrun", ReceiverGone => ReceiverGone'
    PROVE  /\ PlacesInv' /\ WindowHolds' /\ OrderHolds' /\ ListHolds'
           /\ OutputIsPrefix' /\ NoOverrun'
           /\ (rstate' = "disconnected" => rstate = "disconnected") => EndsAtError'
           /\ \A p : IsUnderWay(p) => IsUnderWay(p)'
           /\ \A a : IsReplied(a) => IsReplied(a)'
<1>1. \A l : Places(l)' = Places(l)
  BY DEF Places
<1>2. \A n : PacketAt(n)' = PacketAt(n)
  BY <1>1 DEF PacketAt, Carried
<1>3. PlacesInv'
  BY <1>1 DEF ErrorsInv, PlacesInv
<1>4. WindowHolds'
  BY <1>2 DEF ErrorsInv, WindowHolds
<1>5. OrderHolds' /\ ListHolds'
  BY <1>2 DEF ErrorsInv, OrderHolds, ListHolds
<1>6. OutputIsPrefix' /\ NoOverrun'
  BY DEF ErrorsInv, OutputIsPrefix, NoOverrun
<1>7. (rstate' = "disconnected" => rstate = "disconnected") => EndsAtError'
  BY <1>1 DEF ErrorsInv, EndsAtError
<1>8. \A p : IsUnderWay(p) => IsUnderWay(p)'
  BY <1>2 DEF IsUnderWay
<1>9. \A a : IsReplied(a) => IsReplied(a)'
  BY DEF IsReplied
<1> QED
  BY <1>3, <1>4, <1>5, <1>6, <1>7, <1>8, <1>9
----------------------------------------------------------------------------
LEMMA ErrorsInitInv == ErrorsInit => ErrorsInv
<1> SUFFICES ASSUME ErrorsInit PROVE ErrorsInv
  OBVIOUS
<1>1. Init /\ Inv /\ failed = {}
  BY InitInv DEF ErrorsInit
<1>2. TypeOK /\ OutputIsPrefix /\ NoOverrun
  BY <1>1 DEF Inv
<1>3. \A l : Places(l) = {}
  BY <1>1 DEF Places
<1> USE DEF Init, NetworkInit, SenderInit, ReceiverInit
<1>4. PlacesInv /\ EndsAtError /\ ListHolds
  BY <1>1, <1>3 DEF PlacesInv, EndsAtError, ListHolds
<1>5. FlightHolds /\ OrderHolds
  BY <1>1 DEF FlightHolds, Inv, PositionsInv, OrderHolds
<1>6. WindowHolds
  <2>1. Len(window) = 0
    BY <1>1, EmptySeq
  <2>2. CountsAgree /\ Acked \in Nat
    BY <1>1 DEF Inv, WindowInv
  <2> QED
    BY <1>1, <2>1, <2>2 DEF WindowHolds, CountsAgree
<1> QED
  BY <1>2, <1>4, <1>5, <1>6 DEF ErrorsInv

\* The steps that leave both ends of the transfer where they are.
LEMMA QuietKeepsErrors ==
    ASSUME ErrorsInv, UNCHANGED failed,
           \/ /\ Poll \/ SkipInput \/ ReadEnd \/ SkipSocket \/ ReceiveGarbled \/ KeepGoing
              /\ UNCHANGED receiverVars
           \/ Outside \/ Timeout \/ Truncate \/ Terminated \/ UNCHANGED vars
           \/ ClientArrives /\ UNCHANGED senderVars
    PROVE  ErrorsInv'
<1>1. CASE /\ Poll \/ SkipInput \/ ReadEnd \/ SkipSocket \/ ReceiveGarbled \/ KeepGoing
           /\ UNCHANGED receiverVars
  <2> USE <1>1 DEF Poll, SkipInput, ReadEnd, SkipSocket, ReceiveGarbled, KeepGoing, InputDone,
                  SocketDone, networkVars, receiverVars
  <2>1. inReady' \in BOOLEAN
    BY Zenon DEF InputReadable, ErrorsInv, TypeOK, SenderTypeOK
  <2>2. TypeOK'
    BY <2>1 DEF ErrorsInv, TypeOK, NetworkTypeOK, SenderTypeOK, ReceiverTypeOK
  <2>3. rstate' # "overrun" /\ rstate' = rstate
    BY DEF ErrorsInv, NoOverrun
  <2> QED
    BY <2>2, <2>3, ErrorsFrame DEF ErrorsInv, FlightHolds, ReceiverGone
<1>2. CASE Outside
  <2> USE <1>2 DEF Outside, InputArrives, Lose, LoseData, LoseAck, networkVars, senderVars,
                  receiverVars
  <2>1. TypeOK'
    <3>1. inAvail' \in 0 .. NBlocks
      <4>1. inAvail \in 0 .. NBlocks
        BY DEF ErrorsInv, TypeOK, SenderTypeOK
      <4>2. inAvail' = inAvail \/ (inAvail < NBlocks /\ inAvail' = inAvail + 1)
        OBVIOUS
      <4> QED
        BY <4>1, <4>2, Constants, SMT
    <3> QED
      BY <3>1 DEF ErrorsInv, TypeOK, NetworkTypeOK, SenderTypeOK, ReceiverTypeOK
  <2>2. rstate' # "overrun" /\ rstate' = rstate
    BY DEF ErrorsInv, NoOverrun
  <2> QED
    BY <2>1, <2>2, ErrorsFrame DEF ErrorsInv, FlightHolds, ReceiverGone
<1>3. CASE Truncate
  <2>1. PICK a : a = Reply("NACK", waitedSeqnum, Written)
    OBVIOUS
  <2>2. /\ toSender' = toSender \cup {a}
        /\ UNCHANGED <<toReceiver, senderVars, receiverVars>>
    BY <1>3, <2>1 DEF Truncate, Truncation, ReceiveTruncated
  <2>3. a \in AckPkt /\ IsReplied(a)
    <3>1. Written \in 0 .. NBlocks /\ Acked - Written < AckLife
      BY Ranges, Constants, SMT
    <3>2. waitedSeqnum = SeqOf(Written) /\ waitedSeqnum \in Seqnum
      BY DEF ErrorsInv, OrderHolds, TypeOK, ReceiverTypeOK
    <3> QED
      BY <2>1, <3>1, <3>2, Ranges DEF Reply, AckPkt, IsReplied
  <2>4. TypeOK'
    BY <2>2, <2>3
    DEF ErrorsInv, TypeOK, NetworkTypeOK, SenderTypeOK, ReceiverTypeOK, senderVars, receiverVars
  <2>5. rstate' # "overrun" /\ rstate' = rstate
    BY <2>2 DEF ErrorsInv, NoOverrun, receiverVars
  <2>6. UNCHANGED <<inPos, seqnum, pktInWindow, window, waitedSeqnum, receivePkt, list, out,
                    spc, inbox>>
    BY <2>2 DEF senderVars, receiverVars
  <2> QED
    BY <2>2, <2>3, <2>4, <2>5, <2>6, ErrorsFrame DEF ErrorsInv, FlightHolds, ReceiverGone
<1>4. CASE Timeout \/ (ClientArrives /\ UNCHANGED senderVars)
  <2>1. /\ rstate' \in {"run", "timedout"} /\ ~ReceiverGone
        /\ UNCHANGED <<toReceiver, toSender, senderVars, waitedSeqnum, receivePkt, list, out>>
    BY <1>4 DEF Timeout, GiveUp, ClientArrives, ReceiverGone, networkVars
  <2>2. TypeOK'
    BY <2>1 DEF ErrorsInv, TypeOK, NetworkTypeOK, SenderTypeOK, ReceiverTypeOK, senderVars
  <2>3. UNCHANGED <<inPos, seqnum, pktInWindow, window, waitedSeqnum, receivePkt, list, out,
                    spc, inbox>>
    BY <2>1 DEF senderVars
  <2> QED
    BY <2>1, <2>2, <2>3, ErrorsFrame DEF ErrorsInv, FlightHolds
<1>5. CASE Terminated \/ UNCHANGED vars
  <2> USE <1>5 DEF Terminated, vars, networkVars, senderVars, receiverVars
  <2>1. TypeOK'
    BY DEF ErrorsInv, TypeOK, NetworkTypeOK, SenderTypeOK, ReceiverTypeOK
  <2>2. rstate' # "overrun" /\ rstate' = rstate
    BY DEF ErrorsInv, NoOverrun
  <2> QED
    BY <2>1, <2>2, ErrorsFrame DEF ErrorsInv, FlightHolds, ReceiverGone
<1> QED
  BY <1>1, <1>2, <1>3, <1>4, <1>5

\* Packets are sent again from the window.
LEMMA ResendKeepsErrors ==
    ASSUME ErrorsInv, UNCHANGED failed, UNCHANGED receiverVars, ReceiveNack \/ CheckTimers
    PROVE  ErrorsInv'
<1>1. /\ UNCHANGED <<toSender, inReady, inPos, inAvail, seqnum, pktInWindow, window>>
      /\ spc \in {"socket", "timers"} /\ spc' \in {"timers", "close"}
      /\ inbox' \in {inbox, NoPkt} /\ nb' \in {nb, 1}
  BY DEF ReceiveNack, CheckTimers, SocketDone
<1>2. PICK S \in SUBSET (1 .. Len(window)) :
          toReceiver' = toReceiver \cup {window[i] : i \in S}
  <2>1. CASE ReceiveNack
    <3>1. Found(PrevSeq(inbox.seqnum), 1) \subseteq 1 .. Len(window)
      BY Ranges, Constants DEF Found, FirstMatch
    <3> QED
      BY <2>1, <3>1 DEF ReceiveNack, SendData
  <2>2. CASE CheckTimers
    <3>1. Visited \subseteq 1 .. Len(window)
      BY DEF Visited, VisitedIn
    <3>2. PICK expired \in SUBSET Visited :
              toReceiver' = toReceiver \cup {window[i] : i \in expired}
      BY <2>2 DEF CheckTimers, SendData
    <3> QED
      BY <3>1, <3>2
  <2> QED
    BY <2>1, <2>2
<1>3. sendingWindowSize' \in 1 .. MaxWindow
  <2>1. \/ sendingWindowSize' = sendingWindowSize
        \/ sendingWindowSize # 1 /\ sendingWindowSize' = sendingWindowSize \div 2
    BY Zenon DEF ReceiveNack, CheckTimers
  <2>2. sendingWindowSize \in 1 .. MaxWindow
    BY DEF ErrorsInv, TypeOK, SenderTypeOK
  <2> QED
    BY <2>1, <2>2, Constants, Z3
<1>4. rstate' # "overrun" /\ rstate' = rstate
      /\ UNCHANGED <<waitedSeqnum, receivePkt, list, out>>
  BY DEF ErrorsInv, NoOverrun, receiverVars
<1>5. /\ toReceiver' \subseteq DataPkt
      /\ \A p \in toReceiver' : IsUnderWay(p)
  BY <1>2, WindowUnderWay DEF ErrorsInv, FlightHolds, TypeOK, NetworkTypeOK
<1>6. TypeOK'
  BY <1>1, <1>3, <1>4, <1>5
  DEF ErrorsInv, TypeOK, NetworkTypeOK, SenderTypeOK, ReceiverTypeOK
<1> QED
  BY <1>1, <1>4, <1>5, <1>6, ErrorsFrame DEF ErrorsInv, FlightHolds, ReceiverGone

\* The step of a read(): a block, or the packet of a read() that failed, takes the
\* next place.
Takes(pkt, zeros) ==
    /\ spc = "input" /\ MayRead /\ inPos < inAvail
    /\ inPos' = inPos + 1 /\ inReady' = FALSE /\ nb' = 1
    /\ Places("zero")' = Places("zero") \cup zeros
    /\ Places("long")' = Places("long")
    /\ pkt = [seqnum |-> seqnum, block |-> IF zeros = {} THEN inPos + 1 ELSE 0]
    /\ window' = Append(window, pkt)
    /\ UNCHANGED <<toSender, inbox, inAvail, sendingWindowSize, receiverVars>>
    /\ \/ /\ spc' = "socket" /\ pktInWindow' = pktInWindow + 1
          /\ seqnum' = NextSeq(seqnum) /\ toReceiver' = toReceiver \cup {pkt}
       \/ /\ spc' = "failed" /\ ReceiverGone
          /\ UNCHANGED <<toReceiver, pktInWindow, seqnum>>

LEMMA TakesKeepsErrors ==
    ASSUME ErrorsInv, NEW pkt, NEW zeros \in {{}, {inPos + 1}}, Takes(pkt, zeros)
    PROVE  ErrorsInv'
<1>1. /\ spc = "input" /\ spc' \in {"socket", "failed"} /\ spc' # "closed"
      /\ inPos' = inPos + 1 /\ inPos < inAvail /\ inReady' = FALSE /\ nb' = 1
      /\ window' = Append(window, pkt)
      /\ pkt = [seqnum |-> seqnum, block |-> IF zeros = {} THEN inPos + 1 ELSE 0]
      /\ pktInWindow < sendingWindowSize
      /\ UNCHANGED <<toSender, inbox, inAvail, sendingWindowSize, rstate, waitedSeqnum,
                     receivePkt, list, out>>
      /\ Places("zero")' = Places("zero") \cup zeros
      /\ Places("long")' = Places("long")
      /\ toReceiver' = toReceiver \/ toReceiver' = toReceiver \cup {pkt}
      /\ spc' = "failed" => ReceiverGone
  BY DEF Takes, MayRead, receiverVars
<1>2. /\ inPos \in Nat /\ Written \in Nat /\ Acked \in Nat
      /\ Len(window) \in 0 .. MaxWindow /\ inPos = Acked + Len(window)
      /\ Acked <= Written /\ Written <= inPos
  BY Ranges
<1>3. inAvail \in 0 .. NBlocks /\ sendingWindowSize \in 1 .. MaxWindow
      /\ pktInWindow \in 0 .. MaxWindow
  BY DEF ErrorsInv, TypeOK, SenderTypeOK
<1>4. pktInWindow = Len(window) /\ seqnum = SeqOf(inPos)
  BY <1>1, <1>2 DEF ErrorsInv, WindowHolds
<1>5. /\ inPos' \in 0 .. NBlocks /\ inPos + 1 \in 1 .. NBlocks /\ inPos + 1 \in Nat \ {0}
      /\ Len(window) + 1 <= MaxWindow
      /\ (inPos + 1) - 1 = inPos
  BY <1>1, <1>2, <1>3, <1>4, Constants, SMT
\* The places read before carry what they carried.
<1>6. PICK new \in Nat \ {0} : new = inPos + 1 /\ new - 1 = inPos /\ new \notin Places("zero")
  <2>1. inPos + 1 \notin 1 .. inPos
    BY <1>2, SMT
  <2>2. inPos + 1 \notin Places("zero")
    BY <2>1 DEF ErrorsInv, PlacesInv
  <2> QED
    BY <1>5, <2>2
<1>7. \A n \in 1 .. inPos : PacketAt(n)' = PacketAt(n)
  <2> SUFFICES ASSUME NEW n \in 1 .. inPos PROVE PacketAt(n)' = PacketAt(n)
    OBVIOUS
  <2>1. n # inPos + 1
    BY <1>2, SMT
  <2>2. n \in Places("zero")' <=> n \in Places("zero")
    BY <1>1, <2>1
  <2> QED
    BY <2>2 DEF PacketAt, Carried
<1>8. pkt = PacketAt(new)'
  <2>1. new \in Places("zero")' <=> zeros # {}
    BY <1>1, <1>6
  <2>2. Carried(new)' = IF zeros = {} THEN inPos + 1 ELSE 0
    BY <1>6, <2>1 DEF Carried
  <2> QED
    BY <1>1, <1>4, <1>6, <2>2 DEF PacketAt
<1>9. pkt \in DataPkt
  <2>1. seqnum \in Seqnum
    BY DEF ErrorsInv, TypeOK, SenderTypeOK
  <2>2. inPos + 1 \in 0 .. NBlocks /\ 0 \in 0 .. NBlocks
    BY <1>5, Constants, SMT
  <2> QED
    BY <1>1, <2>1, <2>2 DEF DataPkt
<1>10. /\ window' \in Seq(DataPkt) /\ Len(window') = Len(window) + 1
       /\ \A i \in 1 .. Len(window) : window'[i] = window[i]
       /\ window'[Len(window) + 1] = pkt
  <2>1. window \in Seq(DataPkt)
    BY DEF ErrorsInv, TypeOK, SenderTypeOK
  <2> QED
    BY <1>1, <1>9, <2>1, AppendProperties
<1>11. Acked' = Acked /\ Written' = Written
  <2>1. inPos' = inPos + 1 /\ Len(window') = Len(window) + 1 /\ Len(out') = Len(out)
    BY <1>1, <1>10
  <2> QED
    BY <1>2, <2>1, SMT
<1>12. /\ seqnum' \in Seqnum /\ pktInWindow' \in 0 .. MaxWindow
       /\ spc' # "failed" => pktInWindow' = Len(window') /\ seqnum' = SeqOf(Acked' + pktInWindow')
  <2>1. CASE spc' = "failed"
    <3>1. UNCHANGED <<pktInWindow, seqnum>>
      BY <2>1 DEF Takes
    <3> QED
      BY <1>3, <2>1, <3>1 DEF ErrorsInv, TypeOK, SenderTypeOK
  <2>2. CASE spc' # "failed"
    <3>1. pktInWindow' = pktInWindow + 1 /\ seqnum' = NextSeq(seqnum)
      BY <2>2 DEF Takes
    <3>2. seqnum' = SeqOf(inPos + 1)
      BY <1>2, <1>4, <3>1, NextSeqOf
    <3>3. /\ pktInWindow' = Len(window') /\ pktInWindow' \in 0 .. MaxWindow
          /\ Acked' + pktInWindow' = inPos + 1
      BY <1>2, <1>3, <1>4, <1>5, <1>10, <1>11, <3>1, Constants, SMT
    <3>4. SeqOf(inPos + 1) \in Seqnum
      BY <1>5, SeqOfType
    <3> QED
      BY <3>2, <3>3, <3>4
  <2> QED
    BY <2>1, <2>2
<1>13. TypeOK'
  <2>1. NetworkTypeOK'
    BY <1>1, <1>9 DEF ErrorsInv, TypeOK, NetworkTypeOK
  <2>2. SenderTypeOK'
    BY <1>1, <1>5, <1>10, <1>12 DEF ErrorsInv, TypeOK, SenderTypeOK
  <2>3. ReceiverTypeOK'
    BY <1>1 DEF ErrorsInv, TypeOK, ReceiverTypeOK
  <2> QED
    BY <2>1, <2>2, <2>3 DEF TypeOK
<1>14. PlacesInv'
  <2>1. ASSUME NEW n \in Places("zero")'
        PROVE  n \in 1 .. inPos' /\ Written' < n
    <3>1. n \in Places("zero") \/ n = inPos + 1
      BY <1>1
    <3>2. CASE n \in Places("zero")
      <4>1. n \in 1 .. inPos /\ Written < n
        BY <3>2 DEF ErrorsInv, PlacesInv
      <4> QED
        BY <1>1, <1>2, <1>11, <4>1, SMT
    <3>3. CASE n = inPos + 1
      BY <1>1, <1>2, <1>11, <3>3, SMT
    <3> QED
      BY <3>1, <3>2, <3>3
  <2>2. Places("long") = {}
    BY <1>1 DEF ErrorsInv, PlacesInv
  <2> QED
    BY <1>1, <2>1, <2>2 DEF PlacesInv, ReceiverGone
<1>15. WindowHolds'
  <2>1. ASSUME NEW i \in 1 .. Len(window')
        PROVE  window'[i] = PacketAt(Acked + i)'
    <3>1. i \in 1 .. Len(window) \/ i = Len(window) + 1
      BY <1>2, <1>10, SMT
    <3>2. CASE i \in 1 .. Len(window)
      <4>1. window'[i] = PacketAt(Acked + i)
        BY <1>10, <3>2 DEF ErrorsInv, WindowHolds
      <4>2. Acked + i \in 1 .. inPos
        BY <1>2, <3>2, SMT
      <4> QED
        BY <1>7, <1>11, <4>1, <4>2
    <3>3. CASE i = Len(window) + 1
      <4>1. Acked' + i = new
        BY <1>2, <1>6, <1>11, <3>3, SMT
      <4> QED
        BY <1>8, <1>10, <3>3, <4>1
    <3> QED
      BY <3>1, <3>2, <3>3
  <2> QED
    BY <1>1, <1>2, <1>11, <1>12, <2>1 DEF WindowHolds
<1>16. OrderHolds'
  <2>1. Written' <= inPos'
    BY <1>1, <1>2, <1>11, SMT
  <2> QED
    BY <1>1, <1>11, <2>1 DEF ErrorsInv, OrderHolds
<1>17. ListHolds'
  <2> SUFFICES ASSUME ~ReceiverGone, NEW i \in Slots, list[i] # NoPkt
               PROVE  i # 0 /\ Written + 1 + i <= inPos + 1 /\ list[i] = PacketAt(Written + 1 + i)'
    BY <1>1, <1>11 DEF ListHolds, ReceiverGone
  <2>1. i # 0 /\ Written + 1 + i <= inPos /\ list[i] = PacketAt(Written + 1 + i)
    BY DEF ErrorsInv, ListHolds
  <2>2. Written + 1 + i \in 1 .. inPos /\ Written + 1 + i <= inPos + 1
    BY <1>2, <2>1, Constants, SMT DEF Slots
  <2> QED
    BY <1>7, <1>11, <2>1, <2>2
<1>18. FlightHolds'
  <2>1. ASSUME NEW p \in toReceiver
        PROVE  IsUnderWay(p)'
    <3>1. PICK n \in 1 .. inPos : p = PacketAt(n) /\ Written - (n - 1) <= DataLife
      BY <1>1 DEF ErrorsInv, FlightHolds, IsUnderWay
    <3>2. n \in 1 .. inPos'
      BY <1>1, <1>2, SMT
    <3> QED
      BY <1>7, <1>11, <3>1, <3>2 DEF IsUnderWay
  <2>2. IsUnderWay(pkt)'
    <3>1. new \in 1 .. inPos' /\ Written' - (new - 1) <= DataLife
      BY <1>1, <1>2, <1>6, <1>11, Constants, SMT
    <3> QED
      BY <1>8, <3>1 DEF IsUnderWay
  <2>3. \A a : IsReplied(a) => IsReplied(a)'
    BY <1>11 DEF IsReplied
  <2> QED
    BY <1>1, <2>1, <2>2, <2>3 DEF ErrorsInv, FlightHolds
<1>19. OutputIsPrefix' /\ NoOverrun'
  BY <1>1 DEF ErrorsInv, OutputIsPrefix, NoOverrun
<1>20. EndsAtError'
  BY <1>1, <1>11 DEF ErrorsInv, EndsAtError
<1> QED
  BY <1>13, <1>14, <1>15, <1>16, <1>17, <1>18, <1>19, <1>20 DEF ErrorsInv

LEMMA ReadKeepsErrors ==
    ASSUME ErrorsInv,
           \/ ReadAndSend /\ UNCHANGED receiverVars /\ UNCHANGED failed
           \/ SenderRefused /\ UNCHANGED failed
           \/ SendBuilt \/ BuiltRefused
    PROVE  ErrorsInv' /\ \E pkt : \E zeros \in {{}, {inPos + 1}} : Takes(pkt, zeros)
<1>1. CASE /\ UNCHANGED failed
           /\ (ReadAndSend /\ UNCHANGED receiverVars) \/ SenderRefused
  <2>1. Places("zero")' = Places("zero") /\ Places("long")' = Places("long")
    BY <1>1 DEF Places
  <2>2. PICK pkt : pkt = [seqnum |-> seqnum, block |-> inPos + 1]
    OBVIOUS
  <2>3. Takes(pkt, {})
    BY <1>1, <2>1, <2>2
    DEF Takes, ReadAndSend, SenderRefused, ReadAndFail, TakeBlock, InputDone, SendData
  <2> QED
    BY <2>3, TakesKeepsErrors
<1>2. CASE SendBuilt \/ BuiltRefused
  <2>1. PICK length \in Leftovers :
            /\ ReadFails(length) /\ AddBuilt(length)
            /\ \/ /\ spc' = "socket" /\ SendData({Built(length)})
                  /\ pktInWindow' = pktInWindow + 1 /\ seqnum' = NextSeq(seqnum)
               \/ /\ spc' = "failed" /\ ReceiverGone
                  /\ UNCHANGED <<toReceiver, pktInWindow, seqnum>>
    BY <1>2 DEF SendBuilt, BuiltRefused
  <2>2. length # "long"
    BY <2>1 DEF AddBuilt
  <2>3. PICK zeros : zeros = IF length = "zero" THEN {inPos + 1} ELSE {}
    OBVIOUS
  <2>4. failed' = failed \cup {[place |-> inPos + 1, length |-> length]}
    BY <2>1 DEF ReadFails
  <2>5. Places("zero")' = Places("zero") \cup zeros /\ Places("long")' = Places("long")
    <3>1. Places("zero")' = IF "zero" = length THEN Places("zero") \cup {inPos + 1} ELSE Places("zero")
      BY <2>4, PlacesAdded
    <3>2. Places("long")' = IF "long" = length THEN Places("long") \cup {inPos + 1} ELSE Places("long")
      BY <2>4, PlacesAdded
    <3> QED
      BY <2>2, <2>3, <3>1, <3>2
  <2>6. PICK pkt : pkt = Built(length)
    OBVIOUS
  <2>7. Built(length) = [seqnum |-> seqnum, block |-> IF zeros = {} THEN inPos + 1 ELSE 0]
    BY <2>3 DEF Built
  <2>8. Takes(pkt, zeros)
    BY <2>1, <2>5, <2>6, <2>7 DEF Takes, ReadFails, AddBuilt, SendData
  <2>9. zeros \in {{}, {inPos + 1}}
    BY <2>3
  <2> QED
    BY <2>8, <2>9, TakesKeepsErrors
<1> QED
  BY <1>1, <1>2

\* A packet that cannot be encoded ends the loop where it stands.
LEMMA EncodeKeepsErrors == ErrorsInv /\ EncodeFails => ErrorsInv' /\ Places("long")' # {}
<1> SUFFICES ASSUME ErrorsInv, EncodeFails PROVE ErrorsInv' /\ Places("long")' # {}
  OBVIOUS
<1>1. /\ spc = "input" /\ spc' = "failed" /\ inReady' = FALSE /\ nb' = 1
      /\ failed' = failed \cup {[place |-> inPos + 1, length |-> "long"]}
      /\ UNCHANGED <<toSender, inbox, inAvail, sendingWindowSize, toReceiver, inPos,
                     pktInWindow, seqnum, window, rstate, waitedSeqnum, receivePkt, list, out>>
  BY DEF EncodeFails, ReadFails, receiverVars
<1>2. Places("zero")' = Places("zero") /\ inPos + 1 \in Places("long")'
  <2>1. Places("zero")' = IF "zero" = "long" THEN Places("zero") \cup {inPos + 1} ELSE Places("zero")
    BY <1>1, PlacesAdded
  <2>2. Places("long")' = IF "long" = "long" THEN Places("long") \cup {inPos + 1} ELSE Places("long")
    BY <1>1, PlacesAdded
  <2> QED
    BY <2>1, <2>2
<1>3. \A n : PacketAt(n)' = PacketAt(n)
  BY <1>2 DEF PacketAt, Carried
<1>4. TypeOK'
  BY <1>1 DEF ErrorsInv, TypeOK, NetworkTypeOK, SenderTypeOK, ReceiverTypeOK
<1>5. PlacesInv' /\ EndsAtError'
  BY <1>1, <1>2 DEF ErrorsInv, PlacesInv, EndsAtError
<1>6. WindowHolds' /\ OrderHolds' /\ ListHolds'
  BY <1>1, <1>3 DEF ErrorsInv, WindowHolds, OrderHolds, ListHolds, ReceiverGone
<1>7. FlightHolds'
  BY <1>1, <1>3 DEF ErrorsInv, FlightHolds, IsUnderWay, IsReplied
<1>8. OutputIsPrefix' /\ NoOverrun'
  BY <1>1 DEF ErrorsInv, OutputIsPrefix, NoOverrun
<1> QED
  BY <1>2, <1>4, <1>5, <1>6, <1>7, <1>8 DEF ErrorsInv

LEMMA AckKeepsErrors ==
    ASSUME ErrorsInv, ReceiveAck, UNCHANGED receiverVars, UNCHANGED failed
    PROVE  ErrorsInv'
<1>1. /\ spc = "socket" /\ spc' = "timers" /\ inbox # NoPkt /\ inbox.type = "ACK"
      /\ inbox' = NoPkt /\ nb' = 1
      /\ sendingWindowSize' = inbox.window
      /\ UNCHANGED <<toReceiver, inReady, inPos, inAvail, seqnum, rstate, waitedSeqnum,
                     receivePkt, list, out>>
  BY DEF ReceiveAck, SocketDone, receiverVars
<1>2. PICK k \in 0 .. Len(window) :
          /\ DequeuesExactly(k, PrevSeq(inbox.seqnum))
          /\ window' = SubSeq(window, k + 1, Len(window))
          /\ pktInWindow' = pktInWindow - k
          /\ toSender' = LivingAcks(toSender, Acked + k)
  BY DEF ReceiveAck
<1>3. /\ inPos \in Nat /\ Written \in Nat /\ Acked \in Nat
      /\ Len(window) \in 0 .. MaxWindow /\ inPos = Acked + Len(window)
      /\ Acked <= Written /\ Written <= inPos
  BY Ranges
<1>4. inbox \in AckPkt /\ IsReplied(inbox) /\ inbox.upto \in Nat /\ inbox.window = MaxWindow
  BY <1>1 DEF ErrorsInv, TypeOK, SenderTypeOK, FlightHolds, AckPkt
<1>5. Acked + k <= Written
  <2>1. \A i \in 1 .. Len(window) : window[i].seqnum = SeqOf(Acked + i - 1)
    BY PacketFields DEF ErrorsInv, WindowHolds
  <2>2. k = 0 \/ Acked + k <= inbox.upto
    BY <1>1, <1>2, <1>3, <1>4, <2>1, AckRemovesOnlyWritten
  <2>3. inbox.upto <= Written
    BY <1>4 DEF IsReplied
  <2> QED
    BY <1>3, <1>4, <2>2, <2>3, SMT
<1>6. pktInWindow = Len(window) /\ seqnum = SeqOf(Acked + pktInWindow)
  BY <1>1 DEF ErrorsInv, WindowHolds
<1>7. /\ window' \in Seq(DataPkt) /\ Len(window') = Len(window) - k
      /\ \A i \in 1 .. Len(window') : window'[i] = window[k + i] /\ k + i \in 1 .. Len(window)
  <2>1. window \in Seq(DataPkt)
    BY DEF ErrorsInv, TypeOK, SenderTypeOK
  <2>2. \A i \in 1 .. Len(window) - k : k + i \in 1 .. Len(window)
    BY <1>3, SMT
  <2> QED
    BY <1>2, <2>1, <2>2, SuffixOfSeq
<1>8. /\ Acked' = Acked + k /\ Written' = Written /\ pktInWindow' = Len(window')
      /\ Acked' + pktInWindow' = Acked + pktInWindow
  <2>1. inPos' = inPos /\ out' = out
    BY <1>1
  <2>2. Len(window') = Len(window) - k /\ pktInWindow' = pktInWindow - k
    BY <1>2, <1>7
  <2> QED
    BY <1>3, <1>6, <2>1, <2>2, SMT
<1>9. TypeOK'
  <2>1. NetworkTypeOK'
    BY <1>1, <1>2 DEF ErrorsInv, TypeOK, NetworkTypeOK, LivingAcks
  <2>2. SenderTypeOK'
    <3>1. pktInWindow' \in 0 .. MaxWindow /\ Len(window') <= MaxWindow
          /\ sendingWindowSize' \in 1 .. MaxWindow
      BY <1>1, <1>3, <1>4, <1>7, <1>8, Constants, SMT
    <3> QED
      BY <1>1, <1>7, <3>1 DEF ErrorsInv, TypeOK, SenderTypeOK
  <2>3. ReceiverTypeOK'
    BY <1>1 DEF ErrorsInv, TypeOK, ReceiverTypeOK
  <2> QED
    BY <2>1, <2>2, <2>3 DEF TypeOK
<1>10. (\A l : Places(l)' = Places(l)) /\ \A n : PacketAt(n)' = PacketAt(n)
  BY DEF Places, PacketAt, Carried
<1>11. WindowHolds'
  <2>1. ASSUME NEW i \in 1 .. Len(window')
        PROVE  window'[i] = PacketAt(Acked' + i)
    <3>1. window[k + i] = PacketAt(Acked + (k + i))
      BY <1>7 DEF ErrorsInv, WindowHolds
    <3>2. Acked + (k + i) = Acked' + i
      BY <1>3, <1>7, <1>8, SMT
    <3> QED
      BY <1>7, <3>1, <3>2
  <2>2. Acked' \in Nat
    BY <1>3, <1>8, SMT
  <2> QED
    BY <1>1, <1>6, <1>8, <1>10, <2>1, <2>2 DEF WindowHolds
<1>12. PlacesInv' /\ OrderHolds' /\ ListHolds'
  BY <1>1, <1>5, <1>8, <1>10
  DEF ErrorsInv, PlacesInv, OrderHolds, ListHolds, ReceiverGone
<1>13. FlightHolds'
  <2>1. \A p \in toReceiver' : IsUnderWay(p)'
    BY <1>1, <1>8, <1>10 DEF ErrorsInv, FlightHolds, IsUnderWay
  <2>2. \A a \in toSender' : IsReplied(a)'
    BY <1>2, <1>8 DEF ErrorsInv, FlightHolds, IsReplied, LivingAcks
  <2> QED
    BY <1>1, <2>1, <2>2 DEF FlightHolds
<1>14. OutputIsPrefix' /\ NoOverrun' /\ EndsAtError'
  BY <1>1, <1>8, <1>10 DEF ErrorsInv, OutputIsPrefix, NoOverrun, EndsAtError
<1> QED
  BY <1>9, <1>11, <1>12, <1>13, <1>14 DEF ErrorsInv

LEMMA CloseKeepsErrors ==
    ASSUME ErrorsInv, Close, UNCHANGED receiverVars, UNCHANGED failed
    PROVE  ErrorsInv' /\ Written = inPos
<1>0. PICK pkt : pkt = [seqnum |-> seqnum, block |-> 0]
  OBVIOUS
<1>1. /\ spc = "close" /\ spc' = "closed" /\ pktInWindow = 0
      /\ toReceiver' = toReceiver \cup {pkt}
      /\ UNCHANGED <<toSender, inReady, inbox, nb, inPos, inAvail, seqnum, pktInWindow,
                     sendingWindowSize, window, rstate, waitedSeqnum, receivePkt, list, out>>
  BY <1>0 DEF Close, Finished, SendData, receiverVars
<1>2. Len(window) = 0 /\ seqnum = SeqOf(Acked + 0)
  BY <1>1 DEF ErrorsInv, WindowHolds
<1>3. Written = inPos /\ seqnum = SeqOf(inPos) /\ window = <<>>
  <2>1. Written = inPos /\ Acked + 0 = inPos
    BY <1>2, Ranges, SMT
  <2>2. window = <<>>
    BY <1>2, EmptySeq DEF ErrorsInv, TypeOK, SenderTypeOK
  <2> QED
    BY <1>2, <2>1, <2>2
<1>4. pkt = [seqnum |-> SeqOf(inPos), block |-> 0] /\ pkt \in DataPkt
  BY <1>0, <1>3, Constants DEF ErrorsInv, TypeOK, SenderTypeOK, DataPkt
<1>5. (\A l : Places(l)' = Places(l)) /\ \A n : PacketAt(n)' = PacketAt(n)
  BY DEF Places, PacketAt, Carried
<1>6. TypeOK'
  BY <1>1, <1>4 DEF ErrorsInv, TypeOK, NetworkTypeOK, SenderTypeOK, ReceiverTypeOK
<1>7. FlightHolds'
  <2>1. \A p \in toReceiver : IsUnderWay(p)'
    BY <1>1, <1>5 DEF ErrorsInv, FlightHolds, IsUnderWay
  <2>2. IsUnderWay(pkt)'
    BY <1>1, <1>4 DEF IsUnderWay
  <2> QED
    BY <1>1, <2>1, <2>2 DEF ErrorsInv, FlightHolds, IsReplied
<1>8. PlacesInv' /\ WindowHolds' /\ OrderHolds' /\ ListHolds'
  BY <1>1, <1>3, <1>5
  DEF ErrorsInv, PlacesInv, WindowHolds, OrderHolds, ListHolds, ReceiverGone
<1>9. OutputIsPrefix' /\ NoOverrun' /\ EndsAtError'
  BY <1>1, <1>5 DEF ErrorsInv, OutputIsPrefix, NoOverrun, EndsAtError
<1> QED
  BY <1>3, <1>6, <1>7, <1>8, <1>9 DEF ErrorsInv

----------------------------------------------------------------------------
\* A packet without payload that is the one waited for is the closing packet, or it
\* comes from the failed read() at just this place.
LEMMA DisconnectKeepsErrors ==
    ASSUME ErrorsInv, NEW p \in toReceiver, ReceiveDisconnect(p), UNCHANGED senderVars,
           UNCHANGED failed
    PROVE  ErrorsInv'
<1>1. /\ rstate = "run" /\ rstate' = "disconnected"
      /\ p.block = 0 /\ p.seqnum = waitedSeqnum
      /\ UNCHANGED <<toReceiver, toSender, waitedSeqnum, receivePkt, list, out>>
      /\ UNCHANGED <<inPos, seqnum, pktInWindow, window, spc, inbox>>
  BY DEF ReceiveDisconnect, IsWaited, networkVars, senderVars
<1>2. TypeOK'
  BY <1>1 DEF ErrorsInv, TypeOK, NetworkTypeOK, SenderTypeOK, ReceiverTypeOK, senderVars
<1>3. (spc = "closed" /\ Written = inPos) \/ Written + 1 \in Places("zero")
  <2>1. ASSUME NEW n \in 1 .. inPos, p = PacketAt(n), n - 1 \in Nat,
               n - 1 - Written < MaxWindow, Written - (n - 1) <= DataLife
        PROVE  Written + 1 \in Places("zero")
    <3>1. SeqOf(n - 1) = SeqOf(Written)
      BY <1>1, <2>1, PacketFields DEF ErrorsInv, OrderHolds
    <3>2. n - 1 = Written
      BY <2>1, <3>1, Ranges, SameSeqnum
    <3>3. n = Written + 1 /\ n \in Nat \ {0}
      BY <3>2, Ranges, SMT
    <3>4. Carried(n) = 0
      BY <1>1, <2>1, PacketFields
    <3> QED
      BY <3>3, <3>4, CarriedIsPlace
  <2> QED
    BY <2>1, PlaceOfArrival
<1>4. EndsAtError'
  <2>1. \A l : Places(l)' = Places(l)
    BY DEF Places
  <2> QED
    BY <1>1, <1>3, <2>1 DEF EndsAtError
<1>5. rstate' # "overrun" /\ (ReceiverGone => ReceiverGone')
  BY <1>1 DEF ReceiverGone
<1> QED
  BY <1>1, <1>2, <1>4, <1>5, ErrorsFrame DEF ErrorsInv, FlightHolds

LEMMA OtherKeepsErrors ==
    ASSUME ErrorsInv, NEW p \in toReceiver, ReceiveOther(p), UNCHANGED senderVars,
           UNCHANGED failed
    PROVE  ErrorsInv' /\ rstate' = rstate /\ out' = out
<1> DEFINE index == Ind(p.seqnum, waitedSeqnum)
           stores == InWindow(waitedSeqnum, p.seqnum)
           a == Reply("ACK", waitedSeqnum, Written)
<1>1. /\ rstate = "run" /\ p.seqnum # waitedSeqnum
      /\ UNCHANGED <<toReceiver, waitedSeqnum, receivePkt, out>>
      /\ UNCHANGED <<spc, inReady, inbox, nb, inPos, inAvail, seqnum, pktInWindow,
                     sendingWindowSize, window>>
  BY DEF ReceiveOther, IsWaited, senderVars
<1>2. waitedSeqnum = SeqOf(Written) /\ waitedSeqnum \in Seqnum /\ Written \in Nat
  BY Ranges DEF ErrorsInv, OrderHolds, TypeOK, ReceiverTypeOK
<1>3. PICK n \in 1 .. inPos :
          /\ p = PacketAt(n) /\ n - 1 \in Nat
          /\ n - 1 - Written < MaxWindow /\ Written - (n - 1) <= DataLife
  BY <1>1, <1>2, PlaceOfArrival
<1>4. p \in DataPkt /\ p.seqnum = SeqOf(n - 1) /\ n - 1 # Written
  BY <1>1, <1>2, <1>3, PacketFields DEF ErrorsInv, TypeOK, NetworkTypeOK
<1>5. stores => /\ index \in 1 .. MaxWindow - 1 /\ index = n - 1 - Written
  BY <1>2, <1>3, <1>4, AheadIsPlaced
<1>6. stores => /\ index \in Slots /\ index # 0 /\ Written + 1 + index = n
  <2> SUFFICES ASSUME stores PROVE index \in Slots /\ index # 0 /\ Written + 1 + index = n
    OBVIOUS
  <2>1. index \in 1 .. MaxWindow - 1 /\ index = n - 1 - Written
    BY <1>5
  <2> HIDE DEF index, stores
  <2> QED
    BY <1>2, <1>3, <2>1, Ranges, Constants, SMT DEF Slots
<1>7. /\ rstate' = rstate
      /\ \/ list' = list
         \/ stores /\ list' = [list EXCEPT ![index] = p]
  BY <1>6, Zenon DEF ReceiveOther
<1>8. \/ toSender' = toSender
      \/ receivePkt /\ toSender' = toSender \cup {a}
  BY Zenon DEF ReceiveOther
<1>9. toSender' \subseteq AckPkt /\ \A b \in toSender' : IsReplied(b)
  <2>1. receivePkt => a \in AckPkt /\ IsReplied(a)
    <3>1. Written \in 0 .. NBlocks /\ Acked - Written < AckLife
      BY Ranges, Constants, SMT
    <3> QED
      BY <1>2, <3>1, Ranges DEF Reply, AckPkt, IsReplied, ErrorsInv, OrderHolds
  <2> HIDE DEF a
  <2> QED
    BY <1>8, <2>1 DEF ErrorsInv, TypeOK, NetworkTypeOK, FlightHolds
<1> HIDE DEF index, stores, a
<1>10. /\ list' \in [Slots -> DataPkt \cup {NoPkt}]
       /\ \A i \in Slots : list'[i] = list[i] \/ (i = index /\ stores /\ list'[i] = p)
  <2>1. list \in [Slots -> DataPkt \cup {NoPkt}]
    BY DEF ErrorsInv, TypeOK, ReceiverTypeOK
  <2> QED
    BY <1>4, <1>7, <2>1
<1>11. TypeOK'
  <2>1. NetworkTypeOK'
    BY <1>1, <1>9 DEF ErrorsInv, TypeOK, NetworkTypeOK
  <2>2. SenderTypeOK'
    BY <1>1 DEF ErrorsInv, TypeOK, SenderTypeOK
  <2>3. ReceiverTypeOK'
    BY <1>1, <1>7, <1>10 DEF ErrorsInv, TypeOK, ReceiverTypeOK
  <2> QED
    BY <2>1, <2>2, <2>3 DEF TypeOK
<1>12. (\A l : Places(l)' = Places(l)) /\ \A m : PacketAt(m)' = PacketAt(m)
  BY DEF Places, PacketAt, Carried
<1>13. PlacesInv' /\ WindowHolds' /\ OrderHolds'
  BY <1>1, <1>7, <1>12 DEF ErrorsInv, PlacesInv, WindowHolds, OrderHolds, ReceiverGone
<1>14. ListHolds'
  <2> SUFFICES ASSUME ~ReceiverGone, NEW i \in Slots, list'[i] # NoPkt
               PROVE  i # 0 /\ Written + 1 + i <= inPos /\ list'[i] = PacketAt(Written + 1 + i)
    BY <1>1, <1>7, <1>12 DEF ListHolds, ReceiverGone
  <2>1. CASE list'[i] = list[i]
    BY <2>1 DEF ErrorsInv, ListHolds
  <2>2. CASE i = index /\ stores /\ list'[i] = p
    <3>1. n <= inPos
      BY Ranges
    <3> QED
      BY <1>3, <1>6, <2>2, <3>1
  <2> QED
    BY <1>10, <2>1, <2>2
<1>15. FlightHolds'
  <2>1. \A q : IsUnderWay(q)' <=> IsUnderWay(q)
    BY <1>1, <1>12 DEF IsUnderWay
  <2>2. \A q : IsReplied(q)' <=> IsReplied(q)
    BY <1>1 DEF IsReplied
  <2> QED
    BY <1>1, <1>9, <2>1, <2>2 DEF ErrorsInv, FlightHolds
<1>16. OutputIsPrefix' /\ NoOverrun' /\ EndsAtError'
  BY <1>1, <1>7, <1>12 DEF ErrorsInv, OutputIsPrefix, NoOverrun, EndsAtError
<1> QED
  BY <1>1, <1>7, <1>11, <1>13, <1>14, <1>15, <1>16 DEF ErrorsInv

\* What a turn of the loop does with the packet waited for: n packets of the list
\* follow it to the output, and the one after them is missing or without payload.
LEMMA ErrorsDrain ==
    ASSUME ErrorsInv, NEW p \in toReceiver, ReceiveWaited(p)
    PROVE  \E n \in 0 .. MaxWindow - 1 :
              /\ Written' = Written + n + 1 /\ Written' <= inPos
              /\ out' \in Seq(1 .. NBlocks) /\ \A i \in 1 .. Written' : out'[i] = i
              /\ \A m \in Written + 1 .. Written' : m \notin Places("zero")
              /\ waitedSeqnum' = Following(n + 1) /\ list' = Shifted(n + 1)
              /\ toReceiver' = LivingData(toReceiver, Written + n + 1)
              /\ \/ /\ rstate' = "disconnected" /\ toSender' = toSender
                    /\ Written' + 1 \in Places("zero")
                 \/ /\ rstate' = rstate
                    /\ n + 1 < MaxWindow => list[n + 1] = NoPkt
                    /\ toSender' = toSender \cup {Reply("ACK", waitedSeqnum', Written')}
<1>1. /\ rstate = "run" /\ p.seqnum = waitedSeqnum /\ p.block # 0 /\ ~ReceiverGone
  BY DEF ReceiveWaited, IsWaited, ReceiverGone
<1>2. PICK n \in 0 .. MaxWindow - 1 :
          /\ DrainsExactly(n)
          /\ out' = Append(out, p.block) \o [i \in 1 .. n |-> list[i].block]
          /\ waitedSeqnum' = Following(n + 1)
          /\ list' = Shifted(n + 1)
          /\ toReceiver' = LivingData(toReceiver, Written + n + 1)
          /\ IF EndsInDrain(n)
             THEN rstate' = "disconnected" /\ UNCHANGED toSender
             ELSE /\ toSender' = toSender \cup
                        {Reply("ACK", Following(n + 1), Written + n + 1)}
                  /\ UNCHANGED rstate
  BY DEF ReceiveWaited
<1>3. /\ inPos \in 0 .. NBlocks /\ inPos \in Nat /\ Written \in Nat /\ Acked \in Nat
      /\ Acked <= Written /\ Written <= inPos
  BY Ranges
<1>4. /\ Written + 1 \in 1 .. inPos /\ Written + 1 \in 1 .. NBlocks
      /\ p.block = Written + 1 /\ Written + 1 \notin Places("zero")
  <2>1. PICK m \in 1 .. inPos :
            /\ p = PacketAt(m) /\ m - 1 \in Nat
            /\ m - 1 - Written < MaxWindow /\ Written - (m - 1) <= DataLife
    BY <1>1, PlaceOfArrival
  <2>2. SeqOf(m - 1) = SeqOf(Written)
    BY <1>1, <2>1, PacketFields DEF ErrorsInv, OrderHolds
  <2>3. m - 1 = Written
    BY <1>3, <2>1, <2>2, SameSeqnum
  <2>4. m = Written + 1 /\ m \in Nat \ {0} /\ m \in 1 .. NBlocks
    <3>1. m \in Int /\ 1 <= m /\ m <= inPos /\ inPos <= NBlocks
      BY <1>3, <2>1
    <3> QED
      BY <1>3, <2>3, <3>1, Constants, SMT
  <2>5. Carried(m) # 0
    BY <1>1, <2>1, PacketFields
  <2>6. Carried(m) = m /\ m \notin Places("zero")
    BY <2>4, <2>5, CarriedIsPlace
  <2> QED
    BY <2>1, <2>4, <2>6, PacketFields
<1>5. ASSUME NEW i \in Slots, list[i] # NoPkt
      PROVE  /\ i \in Nat /\ i # 0 /\ Written + 1 + i \in Nat \ {0} /\ Written + 1 + i <= inPos
             /\ list[i].block = Carried(Written + 1 + i) /\ InOrder(i)
  <2>1. i # 0 /\ Written + 1 + i <= inPos /\ list[i] = PacketAt(Written + 1 + i)
    BY <1>1, <1>5 DEF ErrorsInv, ListHolds
  <2>2. i \in Nat /\ i \in 0 .. SeqMod - 1 /\ Written + 1 + i \in Nat \ {0}
        /\ (Written + 1 + i) - 1 = Written + i
    BY <1>3, Constants, SMT DEF Slots
  <2>3. Following(i) = SeqOf(Written + i)
    BY <1>3, <2>2, SeqOfPlus DEF Following, ErrorsInv, OrderHolds
  <2>4. list[i].seqnum = SeqOf((Written + 1 + i) - 1) /\ list[i].block = Carried(Written + 1 + i)
    BY <2>1, PacketFields
  <2> QED
    BY <1>5, <2>1, <2>2, <2>3, <2>4 DEF InOrder
<1>6. \A i \in 1 .. n : /\ list[i].block = Written + 1 + i /\ Written + 1 + i <= inPos
                        /\ Written + 1 + i \notin Places("zero")
  <2> SUFFICES ASSUME NEW i \in 1 .. n
               PROVE  /\ list[i].block = Written + 1 + i /\ Written + 1 + i <= inPos
                      /\ Written + 1 + i \notin Places("zero")
    OBVIOUS
  <2>1. i \in Slots
    BY Constants, SMT DEF Slots
  <2>2. list[i] # NoPkt /\ list[i].block # 0
    BY <1>2 DEF DrainsExactly, InOrder
  <2>3. /\ Written + 1 + i \in Nat \ {0} /\ Written + 1 + i <= inPos
        /\ list[i].block = Carried(Written + 1 + i)
    BY <1>5, <2>1, <2>2
  <2> QED
    BY <2>2, <2>3, CarriedIsPlace
<1>7. Written + n + 1 <= inPos /\ Written + n + 1 \in Nat
  <2>1. CASE n = 0
    BY <1>3, <1>4, <2>1, SMT
  <2>2. CASE n # 0
    <3>1. n \in 1 .. n
      BY <2>2, Constants, SMT
    <3>2. Written + 1 + n <= inPos
      BY <1>6, <3>1
    <3> QED
      BY <1>3, <3>2, SMT
  <2> QED
    BY <2>1, <2>2
<1>8. /\ out' \in Seq(1 .. NBlocks) /\ Written' = Written + n + 1
      /\ \A i \in 1 .. Written' : out'[i] = i
  <2>1. \A i \in 1 .. n : list[i].block = Written + 1 + i /\ list[i].block \in 1 .. NBlocks
    <3>1. \A i \in 1 .. n : Written + 1 + i <= inPos => Written + 1 + i \in 1 .. NBlocks
      BY <1>3, Constants, SMT
    <3> QED
      BY <1>6, <3>1
  <2>2. out \in Seq(1 .. NBlocks) /\ OutputIsPrefix
    BY DEF ErrorsInv, TypeOK, ReceiverTypeOK
  <2>3. out' = Append(out, Written + 1) \o [i \in 1 .. n |-> list[i].block]
    BY <1>2, <1>4
  <2> QED
    BY <1>4, <2>1, <2>2, <2>3, DrainedOutput
<1>9. ASSUME NEW m \in Written + 1 .. Written'
      PROVE  m \notin Places("zero")
  <2>1. m = Written + 1 \/ \E i \in 1 .. n : m = Written + 1 + i
    <3>1. CASE m # Written + 1
      <4>1. m - (Written + 1) \in 1 .. n /\ m = Written + 1 + (m - (Written + 1))
        BY <1>3, <1>8, <3>1, SMT
      <4> QED
        BY <4>1
    <3> QED
      BY <3>1
  <2> QED
    BY <1>4, <1>6, <2>1
<1>10. \/ rstate' = "disconnected" /\ toSender' = toSender /\ Written' + 1 \in Places("zero")
       \/ /\ rstate' = rstate
          /\ n + 1 < MaxWindow => list[n + 1] = NoPkt
          /\ toSender' = toSender \cup {Reply("ACK", waitedSeqnum', Written')}
  <2>0. n + 1 < MaxWindow => n + 1 \in Slots
    BY Constants, SMT DEF Slots
  <2>1. CASE EndsInDrain(n)
    <3>1. n + 1 \in Slots /\ list[n + 1] # NoPkt /\ list[n + 1].block = 0
      BY <2>0, <2>1 DEF EndsInDrain, InOrder
    <3>2. /\ Written + 1 + (n + 1) \in Nat \ {0}
          /\ list[n + 1].block = Carried(Written + 1 + (n + 1))
      BY <1>5, <3>1
    <3>3. Written + 1 + (n + 1) \in Places("zero")
      BY <3>1, <3>2, CarriedIsPlace
    <3>4. Written' + 1 = Written + 1 + (n + 1)
      BY <1>3, <1>8, SMT
    <3> QED
      BY <1>2, <2>1, <3>3, <3>4
  <2>2. CASE ~EndsInDrain(n)
    <3>1. ASSUME n + 1 < MaxWindow, list[n + 1] # NoPkt
          PROVE  FALSE
      <4>1. InOrder(n + 1)
        BY <1>5, <2>0, <3>1
      <4> QED
        BY <1>2, <2>2, <3>1, <4>1 DEF EndsInDrain, DrainsExactly
    <3> QED
      BY <1>2, <1>8, <2>2, <3>1
  <2> QED
    BY <2>1, <2>2
<1> QED
  BY <1>2, <1>7, <1>8, <1>9, <1>10

LEMMA WaitedKeepsErrors ==
    ASSUME ErrorsInv, NEW p \in toReceiver, ReceiveWaited(p), UNCHANGED senderVars,
           UNCHANGED failed
    PROVE  ErrorsInv'
<1>1. /\ rstate = "run" /\ receivePkt' = TRUE
      /\ UNCHANGED <<spc, inReady, inbox, nb, inPos, inAvail, seqnum, pktInWindow,
                     sendingWindowSize, window>>
  BY DEF ReceiveWaited, senderVars
<1>2. PICK n \in 0 .. MaxWindow - 1 :
          /\ Written' = Written + n + 1 /\ Written' <= inPos
          /\ out' \in Seq(1 .. NBlocks) /\ \A i \in 1 .. Written' : out'[i] = i
          /\ \A m \in Written + 1 .. Written' : m \notin Places("zero")
          /\ waitedSeqnum' = Following(n + 1) /\ list' = Shifted(n + 1)
          /\ toReceiver' = LivingData(toReceiver, Written + n + 1)
          /\ \/ /\ rstate' = "disconnected" /\ toSender' = toSender
                /\ Written' + 1 \in Places("zero")
             \/ /\ rstate' = rstate
                /\ n + 1 < MaxWindow => list[n + 1] = NoPkt
                /\ toSender' = toSender \cup {Reply("ACK", waitedSeqnum', Written')}
  BY ErrorsDrain
<1>3. /\ inPos \in 0 .. NBlocks /\ inPos \in Nat /\ Written \in Nat /\ Acked \in Nat
      /\ Acked <= Written /\ Written <= inPos
  BY Ranges
<1>4. waitedSeqnum' = SeqOf(Written') /\ waitedSeqnum' \in Seqnum
  <2>1. n + 1 \in 0 .. SeqMod - 1 /\ Written + (n + 1) = Written + n + 1
    BY <1>3, Constants, SMT
  <2>2. waitedSeqnum = SeqOf(Written)
    BY DEF ErrorsInv, OrderHolds
  <2>3. Following(n + 1) = SeqOf(Written + (n + 1))
    BY <1>3, <2>1, <2>2, SeqOfPlus DEF Following
  <2>4. Written + n + 1 \in Nat
    BY <1>3, SMT
  <2> QED
    BY <1>2, <2>1, <2>3, <2>4, SeqOfType
<1>5. list' \in [Slots -> DataPkt \cup {NoPkt}]
  <2>1. list \in [Slots -> DataPkt \cup {NoPkt}]
    BY DEF ErrorsInv, TypeOK, ReceiverTypeOK
  <2>2. \A i \in Slots : i + (n + 1) < MaxWindow => i + (n + 1) \in Slots
    BY Constants, SMT DEF Slots
  <2> QED
    BY <1>2, <2>1, <2>2 DEF Shifted
<1>6. Acked' = Acked
  BY <1>1
<1>7. /\ Acked <= Written' /\ Written' # 0 /\ Written' \in 0 .. NBlocks
      /\ Acked - Written' < AckLife /\ Written <= Written' /\ Written' \in Nat
  BY <1>3, <1>2, Constants, SMT
<1>8. (\A l : Places(l)' = Places(l)) /\ \A m : PacketAt(m)' = PacketAt(m)
  BY DEF Places, PacketAt, Carried
<1>9. toSender' \subseteq AckPkt /\ \A a \in toSender' : IsReplied(a)'
  <2>1. PICK ack : ack = Reply("ACK", waitedSeqnum', Written')
    OBVIOUS
  <2>2. ack \in AckPkt /\ ack.type = "ACK" /\ ack.seqnum = waitedSeqnum' /\ ack.upto = Written'
    BY <1>4, <1>7, <2>1 DEF Reply, AckPkt
  <2>3. IsReplied(ack)'
    BY <1>4, <1>6, <1>7, <2>2 DEF IsReplied
  <2>4. ASSUME NEW a \in toSender
        PROVE  a \in AckPkt /\ IsReplied(a)'
    <3>1. a \in AckPkt /\ IsReplied(a) /\ a.upto <= Written /\ a.upto \in Nat
      BY DEF ErrorsInv, FlightHolds, TypeOK, NetworkTypeOK, IsReplied, AckPkt
    <3>2. a.upto <= Written'
      BY <1>3, <1>7, <3>1, SMT
    <3> QED
      BY <1>6, <3>1, <3>2 DEF IsReplied
  <2>5. toSender' \in {toSender, toSender \cup {ack}}
    BY <1>2, <2>1
  <2> QED
    BY <2>2, <2>3, <2>4, <2>5
<1>10. inbox' # NoPkt => IsReplied(inbox)'
  <2> SUFFICES ASSUME inbox # NoPkt PROVE IsReplied(inbox)'
    BY <1>1
  <2>1. inbox \in AckPkt /\ IsReplied(inbox) /\ inbox.upto <= Written /\ inbox.upto \in Nat
    BY DEF ErrorsInv, FlightHolds, TypeOK, SenderTypeOK, IsReplied, AckPkt
  <2>2. inbox.upto <= Written'
    BY <1>3, <1>7, <2>1, SMT
  <2> QED
    BY <1>1, <1>6, <2>1, <2>2 DEF IsReplied
<1>11. TypeOK'
  <2>1. NetworkTypeOK'
    BY <1>2, <1>9 DEF ErrorsInv, TypeOK, NetworkTypeOK, LivingData
  <2>2. SenderTypeOK'
    BY <1>1 DEF ErrorsInv, TypeOK, SenderTypeOK
  <2>3. ReceiverTypeOK'
    BY <1>1, <1>2, <1>4, <1>5 DEF ErrorsInv, TypeOK, ReceiverTypeOK
  <2> QED
    BY <2>1, <2>2, <2>3 DEF TypeOK
<1>12. ASSUME NEW m \in Places("zero")
       PROVE  m \in 1 .. inPos /\ Written' < m
  <2>1. m \in 1 .. inPos /\ Written < m
    BY DEF ErrorsInv, PlacesInv
  <2>2. m \notin Written + 1 .. Written'
    BY <1>2
  <2> QED
    BY <1>3, <1>7, <2>1, <2>2, SMT
<1>13. PlacesInv' /\ WindowHolds' /\ OrderHolds'
  <2>1. PlacesInv'
    BY <1>1, <1>2, <1>8, <1>12 DEF ErrorsInv, PlacesInv, ReceiverGone
  <2>2. WindowHolds'
    BY <1>1, <1>6, <1>8 DEF ErrorsInv, WindowHolds
  <2>3. OrderHolds'
    BY <1>1, <1>2, <1>4, <1>6, <1>7 DEF OrderHolds
  <2> QED
    BY <2>1, <2>2, <2>3
<1>14. ListHolds'
  <2> SUFFICES ASSUME rstate' = rstate, NEW i \in Slots, list'[i] # NoPkt
               PROVE  i # 0 /\ Written' + 1 + i <= inPos /\ list'[i] = PacketAt(Written' + 1 + i)
    BY <1>1, <1>2, <1>8 DEF ListHolds, ReceiverGone
  <2>1. i + (n + 1) < MaxWindow /\ list'[i] = list[i + (n + 1)]
    BY <1>2 DEF Shifted
  <2>2. i + (n + 1) \in Slots /\ i \in Nat /\ Written + 1 + (i + (n + 1)) = Written' + 1 + i
    BY <1>2, <1>3, <2>1, Constants, SMT DEF Slots
  <2>3. /\ Written + 1 + (i + (n + 1)) <= inPos
        /\ list[i + (n + 1)] = PacketAt(Written + 1 + (i + (n + 1)))
    BY <1>1, <2>1, <2>2 DEF ErrorsInv, ListHolds, ReceiverGone
  <2>4. i # 0
    <3> SUFFICES ASSUME i = 0 PROVE FALSE
      OBVIOUS
    <3>1. i + (n + 1) = n + 1
      BY SMT
    <3> QED
      BY <1>1, <1>2, <2>1, <3>1
  <2> QED
    BY <2>1, <2>2, <2>3, <2>4
<1>15. FlightHolds'
  <2>1. ASSUME NEW q \in toReceiver'
        PROVE  IsUnderWay(q)'
    <3>1. q \in toReceiver /\ (q.block = 0 \/ Written' - (q.block - 1) <= DataLife)
      BY <1>2 DEF LivingData
    <3>2. ~(Written = inPos)
      BY <1>2, <1>3, SMT
    <3>3. PICK m \in 1 .. inPos : q = PacketAt(m)
      BY <3>1, <3>2, PlaceOfArrival
    <3>4. m \in Nat \ {0} /\ q.block = Carried(m)
      BY <1>3, <3>3, PacketFields
    <3>5. Written' - (m - 1) <= DataLife
      <4>1. CASE q.block = 0
        <5>1. Written' < m
          BY <1>12, <3>4, <4>1, CarriedIsPlace
        <5> QED
          BY <1>7, <3>4, <5>1, Constants, SMT
      <4>2. CASE q.block # 0
        BY <3>1, <3>4, <4>2, CarriedIsPlace
      <4> QED
        BY <4>1, <4>2
    <3> QED
      BY <1>1, <1>8, <3>3, <3>5 DEF IsUnderWay
  <2> QED
    BY <1>9, <1>10, <2>1 DEF FlightHolds
<1>16. OutputIsPrefix' /\ NoOverrun' /\ EndsAtError'
  BY <1>1, <1>2, <1>8 DEF ErrorsInv, OutputIsPrefix, NoOverrun, EndsAtError
<1> QED
  BY <1>11, <1>13, <1>14, <1>15, <1>16 DEF ErrorsInv
----------------------------------------------------------------------------
LEMMA ErrorsNextInv == ErrorsInv /\ [ErrorsNext]_errorVars => ErrorsInv'
<1> SUFFICES ASSUME ErrorsInv, [ErrorsNext]_errorVars PROVE ErrorsInv'
  OBVIOUS
<1>1. CASE SenderActs /\ UNCHANGED failed
  BY <1>1, QuietKeepsErrors, ResendKeepsErrors, ReadKeepsErrors, AckKeepsErrors, CloseKeepsErrors
  DEF SenderActs, SenderStep
<1>2. CASE ReceiverActs /\ UNCHANGED failed
  BY <1>2, QuietKeepsErrors, DisconnectKeepsErrors, WaitedKeepsErrors, OtherKeepsErrors
  DEF ReceiverActs, ReceiveData
<1>3. CASE (Outside \/ Timeout \/ Truncate \/ Terminated) /\ UNCHANGED failed
  BY <1>3, QuietKeepsErrors
<1>4. CASE UNCHANGED errorVars
  BY <1>4, QuietKeepsErrors DEF errorVars
<1>5. CASE (SenderRefused /\ UNCHANGED failed) \/ SendBuilt \/ BuiltRefused
  BY <1>5, ReadKeepsErrors
<1>6. CASE EncodeFails
  BY <1>6, EncodeKeepsErrors
<1> QED
  BY <1>1, <1>2, <1>3, <1>4, <1>5, <1>6 DEF ErrorsNext, Next

\* Across reads that fail every seqnum still stands for one place of the input, and a
\* place without payload for an error (read_write_loop_sender.c:99-129).
THEOREM ErrorsInvHolds == ErrorsSpec => []ErrorsInv
BY ErrorsInitInv, ErrorsNextInv, PTL DEF ErrorsSpec

\* Across a packet without payload the list keeps the order of the reads
\* (read_write_loop_server.c:109-128).
THEOREM ListKeepsPlaces == ErrorsSpec => []KeptInPlace
<1>1. ErrorsInv => KeptInPlace
  <2> SUFFICES ASSUME ErrorsInv, rstate = "run", NEW i \in Slots, list[i] # NoPkt
               PROVE  /\ i # 0 /\ list[i].seqnum = Following(i)
                      /\ IF list[i].block = 0 THEN Written + 1 + i \in Places("zero")
                         ELSE list[i].block = Written + 1 + i
    BY DEF KeptInPlace
  <2>1. i # 0 /\ list[i] = PacketAt(Written + 1 + i)
    BY DEF ErrorsInv, ListHolds, ReceiverGone
  <2>2. i \in 0 .. SeqMod - 1 /\ Written + 1 + i \in Nat \ {0} /\ (Written + 1 + i) - 1 = Written + i
    BY Ranges, Constants, SMT DEF Slots
  <2>3. Following(i) = SeqOf(Written + i)
    BY <2>2, Ranges, SeqOfPlus DEF Following, ErrorsInv, OrderHolds
  <2> QED
    BY <2>1, <2>2, <2>3, PacketFields, CarriedIsPlace
<1> QED
  BY <1>1, ErrorsInvHolds, PTL

\* A receiver takes leave after everything, or exactly where a read() failed
\* (read_write_loop_server.c:88, 110).
THEOREM LeaveIsAtError == ErrorsSpec => []EndsAtError
<1>1. ErrorsInv => EndsAtError
  BY DEF ErrorsInv
<1> QED
  BY <1>1, ErrorsInvHolds, PTL
----------------------------------------------------------------------------
(***************************************************************************)
(* With reads that fail the programs still implement the abstract          *)
(* transfer, one that a failed read() may stall.                           *)
(***************************************************************************)

\* A result of read() other than 0 leaves nb not 0 as well.
LEMMA ErrorsReadToEnd == TypeOK /\ ReadsToEnd /\ [ErrorsNext]_errorVars => ReadsToEnd'
<1> SUFFICES ASSUME TypeOK, ReadsToEnd, [ErrorsNext]_errorVars PROVE ReadsToEnd'
  OBVIOUS
<1>1. CASE [Next]_vars
  BY <1>1, ReadsToEndNext
<1>2. CASE SendBuilt \/ BuiltRefused \/ EncodeFails
  <2>1. /\ nb' = 1 /\ inAvail' = inAvail /\ spc' \in {"socket", "failed"}
    BY <1>2 DEF SendBuilt, BuiltRefused, EncodeFails, ReadFails, AddBuilt
  <2> QED
    BY <2>1 DEF ReadsToEnd
<1> QED
  BY <1>1, <1>2 DEF ErrorsNext, errorVars

\* What the abstract transfer sees of a step.
LEMMA StalledStutters ==
    ASSUME UNCHANGED <<inPos, out, spc, rstate, failed>>
    PROVE  UNCHANGED Stalled!vars
<1>1. Places("long")' = Places("long")
  BY DEF Places
<1> QED
  BY <1>1 DEF Stalled!vars

\* A read() is a Read, or an Abort when the timer of the receiver ran out.
LEMMA TakesMaps ==
    ASSUME ErrorsInv, NEW pkt, NEW zeros, Takes(pkt, zeros)
    PROVE  Stalled!Read \/ Stalled!Abort
<1>1. /\ spc = "input" /\ inPos' = inPos + 1 /\ inPos < inAvail
      /\ Places("long")' = Places("long") /\ UNCHANGED <<rstate, out>>
      /\ spc' = "socket" \/ (spc' = "failed" /\ ReceiverGone)
  BY DEF Takes, receiverVars
<1>2. inPos < NBlocks
  <2>1. inPos \in Nat /\ inAvail \in 0 .. NBlocks
    BY Ranges DEF ErrorsInv, TypeOK, SenderTypeOK
  <2> QED
    BY <1>1, <2>1, Constants, SMT
<1>3. Places("long") = {}
  BY <1>1 DEF ErrorsInv, PlacesInv
<1>4. CASE spc' = "failed" /\ rstate = "timedout"
  BY <1>1, <1>2, <1>3, <1>4 DEF Stalled!Abort
<1>5. CASE ~(spc' = "failed" /\ rstate = "timedout")
  BY <1>1, <1>2, <1>5 DEF Stalled!Read
<1> QED
  BY <1>4, <1>5

\* A receiver that takes leave completes the transfer after the closing packet only.
LEMMA DisconnectMaps ==
    ASSUME ErrorsInv, NEW p \in toReceiver, ReceiveDisconnect(p), UNCHANGED senderVars,
           UNCHANGED failed
    PROVE  Stalled!Complete \/ UNCHANGED Stalled!vars
<1>1. /\ rstate = "run" /\ rstate' = "disconnected" /\ UNCHANGED <<inPos, out, spc>>
  BY DEF ReceiveDisconnect, senderVars
<1>2. CASE spc = "closed"
  BY <1>1, <1>2 DEF Stalled!Complete
<1>3. CASE spc # "closed"
  BY <1>1, <1>3 DEF Stalled!vars
<1> QED
  BY <1>2, <1>3

LEMMA WaitedMaps ==
    ASSUME ErrorsInv, NEW p \in toReceiver, ReceiveWaited(p), UNCHANGED senderVars,
           UNCHANGED failed
    PROVE  Stalled!Write
<1>1. rstate = "run" /\ UNCHANGED <<inPos, spc>>
  BY DEF ReceiveWaited, senderVars
<1>2. PICK n \in 0 .. MaxWindow - 1 :
          /\ Written' = Written + n + 1 /\ Written' <= inPos
          /\ out' \in Seq(1 .. NBlocks) /\ \A i \in 1 .. Written' : out'[i] = i
          /\ rstate' = rstate \/ (rstate' = "disconnected" /\ Written' + 1 \in Places("zero"))
  BY ErrorsDrain
<1>3. rstate' = "run" \/ (rstate' = "disconnected" /\ spc # "closed")
  BY <1>1, <1>2, ClosedHasNothingLeft
<1>4. PICK k : k = n + 1
  OBVIOUS
<1>5. k \in Nat /\ k \in 1 .. inPos - Written /\ Written' = Written + k
  BY <1>2, <1>4, Ranges, Constants, SMT
<1>6. out \in Seq(1 .. NBlocks) /\ OutputIsPrefix
  BY DEF ErrorsInv, TypeOK, ReceiverTypeOK
<1>7. out' = out \o [i \in 1 .. k |-> Written + i]
  BY <1>2, <1>5, <1>6, OutputGrows
<1> QED
  BY <1>1, <1>3, <1>5, <1>7 DEF Stalled!Write, Written

\* The loop closes after everything is written, and nobody took leave before.
LEMMA CloseMaps ==
    ASSUME ErrorsInv, ReadsToEnd, Close, UNCHANGED receiverVars, UNCHANGED failed
    PROVE  Stalled!Finish
<1>1. /\ spc = "close" /\ spc' = "closed" /\ nb = 0
      /\ UNCHANGED <<inPos, out, rstate>>
  BY DEF Close, Finished, receiverVars
<1>2. Written = inPos
  BY CloseKeepsErrors
<1>3. rstate # "disconnected"
  <2>1. Written + 1 \notin 1 .. inPos
    BY <1>2, Ranges, SMT
  <2> QED
    BY <1>1, <2>1 DEF ErrorsInv, EndsAtError, PlacesInv
<1>4. StreamInput \/ inPos = NBlocks
  BY <1>1, StreamAssumption DEF ReadsToEnd
<1>5. CASE StreamInput
  BY <1>1, <1>2, <1>3, <1>5 DEF Stalled!Finish, Written
<1>6. CASE inPos = NBlocks
  BY <1>1, <1>2, <1>3, <1>6 DEF Stalled!Finish, Written
<1> QED
  BY <1>4, <1>5, <1>6

\* The timer of the receiver cuts it off; a sender that failed while the receiver was
\* there failed for a packet it could not encode, and stays stalled.
LEMMA TimeoutMaps ==
    ASSUME ErrorsInv, Timeout, UNCHANGED failed
    PROVE  Stalled!Cut
<1>1. /\ rstate = "run" /\ rstate' = "timedout" /\ UNCHANGED <<inPos, out, spc>>
  BY DEF Timeout, GiveUp, senderVars
<1>2. spc = "failed" => Places("long")' # {}
  <2>1. Places("long")' = Places("long")
    BY DEF Places
  <2> QED
    BY <1>1, <2>1 DEF ErrorsInv, PlacesInv, ReceiverGone
<1> QED
  BY <1>1, <1>2 DEF Stalled!Cut

\* A loop that ends for a packet it could not encode has read no more than it sent.
LEMMA EncodeMaps ==
    ASSUME ErrorsInv, EncodeFails
    PROVE  UNCHANGED Stalled!vars
<1>1. Places("long")' # {}
  BY EncodeKeepsErrors
<1>2. spc = "input" /\ spc' = "failed" /\ UNCHANGED <<inPos, out, rstate>>
  BY DEF EncodeFails, ReadFails, receiverVars
<1> QED
  BY <1>1, <1>2 DEF Stalled!vars

LEMMA ErrorsMap ==
    ErrorsInv /\ ReadsToEnd /\ [ErrorsNext]_errorVars => [Stalled!Next]_(Stalled!vars)
<1> SUFFICES ASSUME ErrorsInv, ReadsToEnd, [ErrorsNext]_errorVars
             PROVE  Stalled!Next \/ UNCHANGED Stalled!vars
  OBVIOUS
<1> USE DEF Stalled!Next
<1>1. CASE \/ ReadAndSend /\ UNCHANGED receiverVars /\ UNCHANGED failed
           \/ SenderRefused /\ UNCHANGED failed
           \/ SendBuilt \/ BuiltRefused
  <2>1. \E pkt : \E zeros \in {{}, {inPos + 1}} : Takes(pkt, zeros)
    BY <1>1, ReadKeepsErrors
  <2> QED
    BY <2>1, TakesMaps
<1>2. CASE SenderActs /\ UNCHANGED failed
  <2>1. CASE ReadAndSend
    BY <1>1, <1>2, <2>1 DEF SenderActs
  <2>2. CASE Close
    BY <1>2, <2>2, CloseMaps DEF SenderActs
  <2>3. CASE ~ReadAndSend /\ ~Close
    <3>1. UNCHANGED <<inPos, out, rstate>>
      BY <1>2, <2>3
      DEF SenderActs, SenderStep, Poll, SkipInput, ReadEnd, SkipSocket, ReceiveGarbled,
          ReceiveAck, ReceiveNack, CheckTimers, KeepGoing, receiverVars
    <3>2. /\ spc \in {"poll", "input", "socket", "timers", "close"}
          /\ spc' \in {"poll", "input", "socket", "timers", "close"}
      BY <1>2, <2>3
      DEF SenderActs, SenderStep, Poll, SkipInput, ReadEnd, SkipSocket, ReceiveGarbled,
          ReceiveAck, ReceiveNack, CheckTimers, KeepGoing, InputDone, SocketDone
    <3> QED
      BY <3>1, <3>2 DEF Stalled!vars
  <2> QED
    BY <2>1, <2>2, <2>3
<1>3. CASE ReceiverActs /\ UNCHANGED failed
  <2>1. CASE ClientArrives
    <3>1. /\ rstate = "wait" /\ rstate' = "run" /\ UNCHANGED <<inPos, out, spc>>
      BY <1>3, <2>1 DEF ReceiverActs, ClientArrives, senderVars
    <3> QED
      BY <3>1 DEF Stalled!vars
  <2>2. ASSUME NEW p \in toReceiver, ReceiveOther(p)
        PROVE  UNCHANGED Stalled!vars
    <3>1. rstate' = rstate /\ out' = out
      BY <1>3, <2>2, OtherKeepsErrors DEF ReceiverActs
    <3>2. UNCHANGED <<inPos, spc>>
      BY <1>3 DEF ReceiverActs, senderVars
    <3> QED
      BY <1>3, <3>1, <3>2, StalledStutters
  <2> QED
    BY <1>3, <2>1, <2>2, DisconnectMaps, WaitedMaps DEF ReceiverActs, ReceiveData
<1>4. CASE Timeout /\ UNCHANGED failed
  BY <1>4, TimeoutMaps
<1>5. CASE \/ (Truncate \/ Outside \/ Terminated) /\ UNCHANGED failed
           \/ UNCHANGED errorVars
  <2>1. UNCHANGED <<inPos, out, spc, rstate, failed>>
    BY <1>5
    DEF Truncate, Truncation, ReceiveTruncated, Outside, InputArrives, Lose, Terminated,
        errorVars, vars, senderVars, receiverVars
  <2> QED
    BY <2>1, StalledStutters
<1>6. CASE EncodeFails
  BY <1>6, EncodeMaps
<1> QED
  BY <1>1, <1>2, <1>3, <1>4, <1>5, <1>6 DEF ErrorsNext, Next

\* Whatever read() fails and wherever it stalls the transfer, each block is written
\* once, in order and before the sender forgets it, and a loop that closed has written
\* all it read (read_write_loop_sender.c:99-129, sender.c:110).
THEOREM ErrorsImplement == ErrorsSpec => ImplementsStalled
<1>1. ErrorsInit => ReadsToEnd
  <2>1. Init => EndInv
    BY EndInvInit
  <2> QED
    BY <2>1 DEF ErrorsInit, EndInv
<1>2. ErrorsInv => TypeOK
  BY DEF ErrorsInv
<1>3. ErrorsSpec => []ReadsToEnd
  BY <1>1, <1>2, ErrorsReadToEnd, ErrorsInvHolds, PTL DEF ErrorsSpec
<1>4. ErrorsInit => Stalled!Init
  <2> SUFFICES ASSUME ErrorsInit PROVE Stalled!Init
    OBVIOUS
  <2>1. inPos = 0 /\ out = <<>> /\ spc = "poll" /\ rstate = "wait"
    BY DEF ErrorsInit, Init, SenderInit, ReceiverInit
  <2> QED
    BY <2>1 DEF Stalled!Init
<1> QED
  BY <1>3, <1>4, ErrorsMap, ErrorsInvHolds, PTL DEF ErrorsSpec, ImplementsStalled, Stalled!Spec
----------------------------------------------------------------------------
\* nb leaves 0 with the first read() and is not 0 again: poll() announces a pipe only
\* when there is something to read, and nobody else reads it before the loop does.
PipeInv ==
    /\ inPos \in Nat /\ inAvail \in Nat
    /\ StreamInput /\ nb = 0 => inPos = 0 /\ failed = {}
    /\ StreamInput /\ spc = "input" /\ inReady => inPos < inAvail
    /\ spc = "closed" => nb = 0

LEMMA PipeNext == PipeInv /\ [ErrorsNext]_errorVars => PipeInv'
<1> SUFFICES ASSUME PipeInv, [ErrorsNext]_errorVars PROVE PipeInv'
  OBVIOUS
<1> USE DEF PipeInv
<1>0. inPos + 1 \in Nat /\ inAvail + 1 \in Nat
  BY SMT
<1>1. CASE SenderActs /\ UNCHANGED failed
  <2>1. CASE Poll
    BY <1>1, <2>1, StreamAssumption DEF Poll, InputReadable
  <2>2. CASE SkipInput \/ SkipSocket \/ CheckTimers \/ KeepGoing
             \/ ReceiveGarbled \/ ReceiveAck \/ ReceiveNack
    BY <1>1, <2>2
    DEF SkipInput, SkipSocket, CheckTimers, KeepGoing, ReceiveGarbled, ReceiveAck, ReceiveNack,
        InputDone, SocketDone
  <2>3. CASE ReadEnd
    <3>1. /\ spc = "input" /\ inReady /\ inPos = inAvail /\ nb' = 0 /\ spc' = "socket"
          /\ UNCHANGED <<inPos, inAvail>> /\ failed' = failed
      BY <1>1, <2>3 DEF ReadEnd, MayRead, InputDone
    <3>2. ~(inPos < inAvail)
      BY <3>1, SMT
    <3> QED
      BY <3>1, <3>2
  <2>4. CASE ReadAndSend
    BY <1>0, <1>1, <2>4 DEF ReadAndSend, TakeBlock, InputDone
  <2>5. CASE Close
    BY <1>1, <2>5 DEF Close, Finished
  <2> QED
    BY <1>1, <2>1, <2>2, <2>3, <2>4, <2>5 DEF SenderActs, SenderStep
<1>2. CASE SenderRefused
  BY <1>0, <1>2 DEF SenderRefused, ReadAndFail, TakeBlock
<1>3. CASE Outside /\ UNCHANGED failed
  <2>1. CASE InputArrives
    <3>1. /\ inAvail' = inAvail + 1 /\ UNCHANGED <<spc, inReady, nb, inPos>> /\ failed' = failed
      BY <1>3, <2>1 DEF InputArrives
    <3>2. inPos < inAvail => inPos < inAvail + 1
      BY SMT
    <3> QED
      BY <1>0, <3>1, <3>2
  <2>2. CASE Lose
    BY <1>3, <2>2 DEF Lose, senderVars
  <2> QED
    BY <1>3, <2>1, <2>2 DEF Outside
<1>4. CASE (ReceiverActs \/ Timeout \/ Truncate \/ Terminated) /\ UNCHANGED failed
  BY <1>4 DEF ReceiverActs, Timeout, Truncate, Terminated, vars, senderVars
<1>5. CASE SendBuilt \/ BuiltRefused
  <2>1. /\ nb' = 1 /\ inPos' = inPos + 1 /\ inAvail' = inAvail /\ spc' \in {"socket", "failed"}
    BY <1>5 DEF SendBuilt, BuiltRefused, ReadFails, AddBuilt
  <2> QED
    BY <1>0, <2>1
<1>6. CASE EncodeFails
  BY <1>6 DEF EncodeFails, ReadFails
<1>7. CASE UNCHANGED errorVars
  BY <1>7 DEF errorVars, vars, senderVars
<1> QED
  BY <1>1, <1>2, <1>3, <1>4, <1>5, <1>6, <1>7 DEF ErrorsNext, Next

\* The sender of a pipe that read anything never closes (sender.c:110, 239).
THEOREM PipeStaysOpen == ErrorsSpec => []PipeNeverCloses
<1>1. ErrorsInit => PipeInv
  BY Constants DEF ErrorsInit, Init, SenderInit, PipeInv
<1>2. PipeInv => PipeNeverCloses
  <2> SUFFICES ASSUME PipeInv, StreamInput, spc = "closed"
               PROVE  ~(inPos > 0) /\ failed = {}
    BY DEF PipeNeverCloses
  <2>1. inPos = 0 /\ failed = {}
    BY DEF PipeInv
  <2> QED
    BY <2>1, SMT
<1> QED
  BY <1>1, <1>2, PipeNext, PTL DEF ErrorsSpec
=============================================================================
