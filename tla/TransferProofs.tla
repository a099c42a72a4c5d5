--------------------------- MODULE TransferProofs ---------------------------
(***************************************************************************)
(* The safety of a transfer, for every modulus, window, lifetime and file  *)
(* length that satisfies the assumptions of SeqNum and Network: Inv is     *)
(* inductive, and the safety properties of Transfer follow from it.        *)
(***************************************************************************)
EXTENDS Transfer, SeqNumProofs, SequenceTheorems

USE SeqNumAssumption, NetworkAssumption DEF Acked, Written

LEMMA Constants ==
    /\ SeqMod \in Nat /\ MaxWindow \in Nat \ {0} /\ AcceptSpan \in Nat /\ AckGap \in Nat
    /\ DataLife \in Nat /\ AckLife \in Nat \ {0} /\ NBlocks \in Nat
    /\ MaxWindow <= AcceptSpan /\ AcceptSpan + MaxWindow < SeqMod
    /\ MaxWindow <= DataLife /\ DataLife + AcceptSpan < SeqMod
    /\ AckLife <= AckGap /\ AckLife + AckGap < SeqMod
BY DEF SeqNumAssumption, NetworkAssumption

\* The sequence that is left when k elements are removed from its head.
LEMMA SuffixOfSeq ==
    ASSUME NEW S, NEW s \in Seq(S), NEW k \in 0 .. Len(s)
    PROVE  /\ SubSeq(s, k + 1, Len(s)) \in Seq(S)
           /\ Len(SubSeq(s, k + 1, Len(s))) = Len(s) - k
           /\ \A i \in 1 .. Len(s) - k : SubSeq(s, k + 1, Len(s))[i] = s[k + i]
<1>1. SubSeq(s, k + 1, Len(s)) \in Seq(S)
  BY LenProperties, SMT
<1>2. Len(SubSeq(s, k + 1, Len(s))) = Len(s) - k
  BY LenProperties, SMT
<1>3. \A i \in 1 .. Len(s) - k : SubSeq(s, k + 1, Len(s))[i] = s[k + i]
  BY LenProperties, SMT
<1> QED
  BY <1>1, <1>2, <1>3

\* Init gives every part of the invariant: nothing is in flight or in a window.
LEMMA InitInv == Init => Inv
<1> SUFFICES ASSUME Init PROVE Inv
  OBVIOUS
<1> USE DEF Init, NetworkInit, SenderInit, ReceiverInit
<1>1. SeqOf(0) = 0 /\ 0 \in Seqnum
  <2>1. 0 \in Seqnum
    BY Constants, SMT DEF Seqnum
  <2> QED
    BY <2>1, SeqOfSmall
<1>2. Len(window) = 0 /\ window \in Seq(DataPkt) /\ Len(out) = 0 /\ out \in Seq(1 .. NBlocks)
  BY EmptySeq
<1>3. TypeOK
  <2>1. NetworkTypeOK
    BY DEF NetworkTypeOK
  <2>2. SenderTypeOK
    <3>1. inPos \in 0 .. NBlocks /\ inAvail \in 0 .. NBlocks
      BY Constants, SMT
    <3>2. pktInWindow \in 0 .. MaxWindow /\ sendingWindowSize \in 1 .. MaxWindow
      BY Constants, SMT
    <3>3. Len(window) <= MaxWindow
      BY <1>2, Constants, SMT
    <3> QED
      BY <1>1, <1>2, <3>1, <3>2, <3>3, Zenon DEF SenderTypeOK
  <2>3. ReceiverTypeOK
    BY <1>1, <1>2, Zenon DEF ReceiverTypeOK
  <2> QED
    BY <2>1, <2>2, <2>3 DEF TypeOK
<1>4. WindowInv /\ PositionsInv /\ FlightInv
  BY <1>1, <1>2, Constants DEF WindowInv, PositionsInv, FlightInv
<1>5. CountsAgree /\ OutputIsPrefix /\ ListIsAhead /\ NoOverrun
  BY <1>1, <1>2, Constants DEF CountsAgree, OutputIsPrefix, ListIsAhead, NoOverrun
<1> QED
  BY <1>3, <1>4, <1>5 DEF Inv

\* What the steps that move neither end of the transfer leave true.
LEMMA Frame ==
    ASSUME Inv, UNCHANGED <<inPos, seqnum, pktInWindow, window,
                            waitedSeqnum, receivePkt, list, out>>,
           spc' = "closed" <=> spc = "closed",
           spc' = "failed" <=> spc = "failed",
           rstate' # "overrun"
    PROVE  /\ WindowInv' /\ PositionsInv' /\ CountsAgree'
           /\ OutputIsPrefix' /\ ListIsAhead' /\ NoOverrun'
           /\ \A p : IsSent(p) => IsSent(p)'
           /\ \A a : IsReplied(a) => IsReplied(a)'
BY DEF Inv, WindowInv, PositionsInv, CountsAgree, OutputIsPrefix, ListIsAhead, NoOverrun,
       IsSent, IsReplied, Following


----------------------------------------------------------------------------
\* The arithmetic the invariant gives about the state.
LEMMA Positions ==
    Inv => /\ inPos \in 0 .. NBlocks /\ Written \in Nat /\ Acked \in Nat
           /\ Len(window) \in 0 .. MaxWindow /\ inPos = Acked + Len(window)
           /\ Acked <= Written /\ Written <= inPos
BY LenProperties DEF Inv, TypeOK, SenderTypeOK, ReceiverTypeOK, WindowInv, PositionsInv

\* Every packet of the window may be sent again.
LEMMA WindowSent ==
    ASSUME Inv, NEW i \in 1 .. Len(window)
    PROVE  window[i] \in DataPkt /\ IsSent(window[i])
<1>1. window[i] \in DataPkt
  BY ElementOfSeq DEF Inv, TypeOK, SenderTypeOK
<1>2. window[i] = [seqnum |-> SeqOf(Acked + i - 1), block |-> Acked + i]
  BY DEF Inv, WindowInv
<1>3. window[i].block = Acked + i /\ window[i].seqnum = SeqOf(Acked + i - 1)
  BY <1>2
<1>4. /\ window[i].block # 0 /\ window[i].block <= inPos
      /\ window[i].block - 1 = Acked + i - 1
      /\ Written - (window[i].block - 1) <= DataLife
  <2>1. /\ inPos \in Nat /\ Written \in Nat /\ Acked \in Nat
        /\ Len(window) \in 0 .. MaxWindow /\ inPos = Acked + Len(window)
        /\ Acked <= Written /\ Written <= inPos
    BY Positions, Constants
  <2> QED
    BY <1>3, <2>1, Constants, SMT
<1> QED
  BY <1>1, <1>3, <1>4 DEF IsSent

\* Where a data packet that arrives may lie.
LEMMA Arriving ==
    ASSUME Inv, NEW p \in toReceiver, p.block # 0
    PROVE  /\ p \in DataPkt /\ p.block \in 1 .. NBlocks
           /\ p.block <= inPos
           /\ p.block - 1 \in Nat /\ p.seqnum = SeqOf(p.block - 1)
           /\ p.block - 1 - Written < MaxWindow
           /\ Written - (p.block - 1) <= DataLife
<1>1. p \in DataPkt /\ IsSent(p)
  BY DEF Inv, FlightInv, TypeOK, NetworkTypeOK
<1>2. p.block \in 0 .. NBlocks
  BY <1>1 DEF DataPkt
<1>3. /\ p.block <= inPos /\ p.seqnum = SeqOf(p.block - 1)
      /\ Written - (p.block - 1) <= DataLife
  BY <1>1 DEF IsSent
<1>4. /\ inPos \in Nat /\ Written \in Nat /\ Acked \in Nat
      /\ Len(window) \in 0 .. MaxWindow /\ inPos = Acked + Len(window)
      /\ Acked <= Written /\ Written <= inPos
  BY Positions, Constants
<1> QED
  BY <1>1, <1>2, <1>3, <1>4, Constants, SMT

\* The packets the sender sends again are packets it sent.
LEMMA ResendSafe ==
    ASSUME Inv, NEW S \in SUBSET (1 .. Len(window)),
           toReceiver' = toReceiver \cup {window[i] : i \in S},
           \A p : IsSent(p) => IsSent(p)'
    PROVE  /\ toReceiver' \subseteq DataPkt
           /\ \A p \in toReceiver' : IsSent(p)'
BY WindowSent DEF Inv, FlightInv, TypeOK, NetworkTypeOK
----------------------------------------------------------------------------
\* One lemma per action.
LEMMA InputPreserves == Inv /\ InputArrives /\ UNCHANGED receiverVars => Inv'
<1> SUFFICES ASSUME Inv, InputArrives, UNCHANGED receiverVars PROVE Inv'
  OBVIOUS
<1> USE DEF InputArrives, networkVars, receiverVars
<1>1. TypeOK'
  BY DEF Inv, TypeOK, NetworkTypeOK, SenderTypeOK, ReceiverTypeOK
<1>2. rstate' # "overrun"
  BY DEF Inv, NoOverrun
<1> QED
  BY <1>1, <1>2, Frame DEF Inv, FlightInv

LEMMA PollPreserves == Inv /\ Poll /\ UNCHANGED receiverVars => Inv'
<1> SUFFICES ASSUME Inv, Poll, UNCHANGED receiverVars PROVE Inv'
  OBVIOUS
<1> USE DEF Poll, networkVars, receiverVars
<1>0. inReady' \in BOOLEAN
  BY Zenon DEF InputReadable
<1>1. TypeOK'
  BY <1>0 DEF Inv, TypeOK, NetworkTypeOK, SenderTypeOK, ReceiverTypeOK
<1>2. rstate' # "overrun"
  BY DEF Inv, NoOverrun
<1> QED
  BY <1>1, <1>2, Frame DEF Inv, FlightInv

LEMMA IdlePreserves ==
    Inv /\ (SkipInput \/ ReadEnd \/ SkipSocket \/ ReceiveGarbled \/ KeepGoing)
        /\ UNCHANGED receiverVars => Inv'
<1> SUFFICES ASSUME Inv, SkipInput \/ ReadEnd \/ SkipSocket \/ ReceiveGarbled \/ KeepGoing,
                    UNCHANGED receiverVars
             PROVE  Inv'
  OBVIOUS
<1> USE DEF SkipInput, ReadEnd, SkipSocket, ReceiveGarbled, KeepGoing, InputDone, SocketDone,
            networkVars, receiverVars
<1>1. TypeOK'
  BY DEF Inv, TypeOK, NetworkTypeOK, SenderTypeOK, ReceiverTypeOK
<1>2. rstate' # "overrun"
  BY DEF Inv, NoOverrun
<1> QED
  BY <1>1, <1>2, Frame DEF Inv, FlightInv

LEMMA LosePreserves == Inv /\ Lose /\ UNCHANGED receiverVars => Inv'
<1> SUFFICES ASSUME Inv, Lose, UNCHANGED receiverVars PROVE Inv'
  OBVIOUS
<1> USE DEF Lose, LoseData, LoseAck, senderVars, receiverVars
<1>1. TypeOK'
  BY DEF Inv, TypeOK, NetworkTypeOK, SenderTypeOK, ReceiverTypeOK
<1>2. rstate' # "overrun"
  BY DEF Inv, NoOverrun
<1> QED
  BY <1>1, <1>2, Frame DEF Inv, FlightInv

LEMMA FoundInWindow ==
    ASSUME Inv, NEW s, NEW from \in Nat \ {0}
    PROVE  Found(s, from) \subseteq 1 .. Len(window)
BY Positions, Constants DEF Found, FirstMatch

LEMMA NackPreserves == Inv /\ ReceiveNack /\ UNCHANGED receiverVars => Inv'
<1> SUFFICES ASSUME Inv, ReceiveNack, UNCHANGED receiverVars PROVE Inv'
  OBVIOUS
<1> USE DEF ReceiveNack, SocketDone, receiverVars
<1>2. rstate' # "overrun"
  BY DEF Inv, NoOverrun
<1>3. \A p : IsSent(p) => IsSent(p)'
  BY <1>2, Frame
<1> DEFINE found == Found(PrevSeq(inbox.seqnum), 1)
<1>4. found \subseteq 1 .. Len(window)
  BY FoundInWindow
<1>5. toReceiver' = toReceiver \cup {window[i] : i \in found}
  BY DEF SendData
<1>6. sendingWindowSize' \in 1 .. MaxWindow
  <2>1. \/ sendingWindowSize' = sendingWindowSize
        \/ sendingWindowSize # 1 /\ sendingWindowSize' = sendingWindowSize \div 2
    BY Zenon
  <2>2. sendingWindowSize \in 1 .. MaxWindow
    BY DEF Inv, TypeOK, SenderTypeOK
  <2> QED
    BY <2>1, <2>2, Constants, Z3
<1> HIDE DEF found
<1>7. toReceiver' \subseteq DataPkt /\ \A p \in toReceiver' : IsSent(p)'
  BY <1>3, <1>4, <1>5, ResendSafe
<1>8. TypeOK'
  BY <1>6, <1>7 DEF Inv, TypeOK, NetworkTypeOK, SenderTypeOK, ReceiverTypeOK
<1> QED
  BY <1>2, <1>7, <1>8, Frame DEF Inv, FlightInv

LEMMA TimersPreserve == Inv /\ CheckTimers /\ UNCHANGED receiverVars => Inv'
<1> SUFFICES ASSUME Inv, CheckTimers, UNCHANGED receiverVars PROVE Inv'
  OBVIOUS
<1> USE DEF CheckTimers, receiverVars
<1>2. rstate' # "overrun"
  BY DEF Inv, NoOverrun
<1>3. \A p : IsSent(p) => IsSent(p)'
  BY <1>2, Frame
<1>4. Visited \subseteq 1 .. Len(window)
  BY DEF Visited, VisitedIn
<1>5. PICK expired \in SUBSET Visited :
          toReceiver' = toReceiver \cup {window[i] : i \in expired}
  BY DEF SendData
<1>7. toReceiver' \subseteq DataPkt /\ \A p \in toReceiver' : IsSent(p)'
  BY <1>3, <1>4, <1>5, ResendSafe
<1>8. TypeOK'
  BY <1>7 DEF Inv, TypeOK, NetworkTypeOK, SenderTypeOK, ReceiverTypeOK
<1> QED
  BY <1>2, <1>7, <1>8, Frame DEF Inv, FlightInv

LEMMA ReadAndSendPreserves == Inv /\ ReadAndSend /\ UNCHANGED receiverVars => Inv'
<1> SUFFICES ASSUME Inv, ReadAndSend, UNCHANGED receiverVars PROVE Inv'
  OBVIOUS
<1>0. PICK pkt : pkt = [seqnum |-> seqnum, block |-> inPos + 1]
  OBVIOUS
<1> USE DEF ReadAndSend, TakeBlock, MayRead, InputDone, SendData, receiverVars
<1>1. /\ spc = "input" /\ spc' = "socket" /\ rstate' = rstate
      /\ inPos' = inPos + 1 /\ inPos < inAvail
      /\ window' = Append(window, pkt)
      /\ toReceiver' = toReceiver \cup {pkt}
      /\ toSender' = toSender /\ inbox' = inbox
      /\ pktInWindow' = pktInWindow + 1 /\ pktInWindow < sendingWindowSize
      /\ UNCHANGED <<waitedSeqnum, receivePkt, list, out>>
  BY <1>0
<1>2. /\ inPos \in Nat /\ Written \in Nat /\ Acked \in Nat
      /\ Len(window) \in 0 .. MaxWindow /\ inPos = Acked + Len(window)
      /\ Acked <= Written /\ Written <= inPos
  BY Positions, Constants
<1>3. inAvail \in 0 .. NBlocks /\ sendingWindowSize \in 1 .. MaxWindow
  BY DEF Inv, TypeOK, SenderTypeOK
<1>4. pktInWindow = Len(window) /\ seqnum = SeqOf(Acked + pktInWindow)
  BY <1>1 DEF Inv, CountsAgree
<1>5. seqnum = SeqOf(inPos) /\ seqnum' = SeqOf(inPos')
  <2>1. seqnum = SeqOf(inPos)
    BY <1>2, <1>4
  <2>2. seqnum' = NextSeq(seqnum)
    OBVIOUS
  <2> QED
    BY <1>1, <1>2, <2>1, <2>2, NextSeqOf
<1>6. /\ inPos' \in 0 .. NBlocks /\ inPos' \in Nat /\ pktInWindow' \in 0 .. MaxWindow
      /\ Len(window) + 1 <= MaxWindow
  BY <1>1, <1>2, <1>3, <1>4, Constants, SMT
<1>7. pkt \in DataPkt /\ seqnum' \in Seqnum
  BY <1>0, <1>1, <1>5, <1>6, SeqOfType DEF Inv, TypeOK, SenderTypeOK, DataPkt
<1>8. /\ window' \in Seq(DataPkt) /\ Len(window') = Len(window) + 1
      /\ \A i \in 1 .. Len(window) : window'[i] = window[i]
      /\ window'[Len(window) + 1] = pkt
  <2>1. window \in Seq(DataPkt)
    BY DEF Inv, TypeOK, SenderTypeOK
  <2> QED
    BY <1>1, <1>7, <2>1, AppendProperties
<1>9. Acked' = Acked /\ Written' = Written
  <2>1. inPos' = inPos + 1 /\ Len(window') = Len(window) + 1
    BY <1>1, <1>8
  <2>2. Len(out') = Len(out)
    BY <1>1
  <2> QED
    BY <1>2, <2>1, <2>2, SMT
<1>10. TypeOK'
  <2>1. NetworkTypeOK'
    BY <1>1, <1>7 DEF Inv, TypeOK, NetworkTypeOK
  <2>2. SenderTypeOK'
    BY <1>1, <1>6, <1>7, <1>8 DEF Inv, TypeOK, SenderTypeOK
  <2>3. ReceiverTypeOK'
    BY <1>1 DEF Inv, TypeOK, ReceiverTypeOK
  <2> QED
    BY <2>1, <2>2, <2>3 DEF TypeOK
<1> HIDE DEF ReadAndSend, TakeBlock, MayRead, InputDone, SendData, receiverVars
<1>11. WindowInv'
  <2>1. \A i \in 1 .. Len(window) :
            window[i] = [seqnum |-> SeqOf(Acked + i - 1), block |-> Acked + i]
    BY DEF Inv, WindowInv
  <2>2. pkt = [seqnum |-> SeqOf(Acked + (Len(window) + 1) - 1),
               block |-> Acked + (Len(window) + 1)]
    BY <1>0, <1>2, <1>5
  <2>3. ASSUME NEW i \in 1 .. Len(window')
        PROVE  window'[i] = [seqnum |-> SeqOf(Acked + i - 1), block |-> Acked + i]
    <3>1. i \in 1 .. Len(window) \/ i = Len(window) + 1
      BY <1>2, <1>8, SMT
    <3> QED
      BY <1>8, <2>1, <2>2, <3>1
  <2> QED
    BY <1>1, <1>2, <1>9, <2>3 DEF WindowInv
<1>12. PositionsInv'
  <2>1. \A i \in Slots : list[i] # NoPkt => list[i].block \in 0 .. NBlocks
    BY DEF Inv, TypeOK, ReceiverTypeOK, DataPkt
  <2>2. \A i \in Slots : list[i] # NoPkt => list[i].block <= inPos + 1
    BY <1>2, <2>1, SMT DEF Inv, PositionsInv
  <2> QED
    BY <1>1, <1>2, <1>9, <2>2 DEF Inv, PositionsInv
<1>13. FlightInv'
  <2>1. \A p \in toReceiver : IsSent(p)'
    <3> SUFFICES ASSUME NEW p \in toReceiver PROVE IsSent(p)'
      OBVIOUS
    <3>1. p.block # 0
      BY <1>1 DEF Inv, FlightInv, IsSent
    <3>2. p.block <= inPos + 1 /\ p.seqnum = SeqOf(p.block - 1)
          /\ Written - (p.block - 1) <= DataLife
      BY <1>2, <3>1, Arriving, SMT
    <3> QED
      BY <1>1, <1>9, <3>1, <3>2 DEF IsSent
  <2>2. IsSent(pkt)'
    <3>1. pkt.block = inPos + 1 /\ pkt.seqnum = SeqOf(inPos) /\ (inPos + 1) - 1 = inPos
      BY <1>0, <1>2, <1>5
    <3>2. Written - inPos <= DataLife /\ inPos + 1 <= inPos' /\ inPos + 1 # 0
      BY <1>1, <1>2, Constants, SMT
    <3> QED
      BY <1>9, <3>1, <3>2 DEF IsSent
  <2>3. \A a : IsReplied(a) => IsReplied(a)'
    BY <1>9 DEF IsReplied
  <2> QED
    BY <1>1, <2>1, <2>2, <2>3 DEF Inv, FlightInv
<1>14. CountsAgree'
  <2>1. pktInWindow' = Len(window')
    BY <1>1, <1>4, <1>8
  <2>2. Acked' + pktInWindow' = inPos'
    BY <1>1, <1>2, <1>4, <1>9, SMT
  <2>3. \A i \in 1 .. Len(window') : window'[i].seqnum = SeqOf(Acked' + i - 1)
    <3> SUFFICES ASSUME NEW i \in 1 .. Len(window')
                 PROVE  window'[i].seqnum = SeqOf(Acked' + i - 1)
      OBVIOUS
    <3>1. window'[i] = [seqnum |-> SeqOf(Acked' + i - 1), block |-> Acked' + i]
      BY <1>11 DEF WindowInv
    <3> QED
      BY <3>1
  <2> QED
    BY <1>5, <2>1, <2>2, <2>3 DEF CountsAgree
<1>15. OutputIsPrefix' /\ ListIsAhead' /\ NoOverrun'
  BY <1>1, <1>9 DEF Inv, OutputIsPrefix, ListIsAhead, NoOverrun, Following
<1> QED
  BY <1>10, <1>11, <1>12, <1>13, <1>14, <1>15 DEF Inv

\* send() failed: the packet counts as read, and the loop is over.
LEMMA ReadAndFailPreserves == Inv /\ SenderRefused => Inv'
<1> SUFFICES ASSUME Inv, SenderRefused PROVE Inv'
  OBVIOUS
<1>0. PICK pkt : pkt = [seqnum |-> seqnum, block |-> inPos + 1]
  OBVIOUS
<1> USE DEF SenderRefused, ReadAndFail, TakeBlock, MayRead, receiverVars
<1>1. /\ spc = "input" /\ spc' = "failed" /\ rstate' = rstate
      /\ inPos' = inPos + 1 /\ inPos < inAvail
      /\ window' = Append(window, pkt)
      /\ toReceiver' = toReceiver /\ toSender' = toSender /\ inbox' = inbox
      /\ pktInWindow < sendingWindowSize
      /\ UNCHANGED <<seqnum, pktInWindow, waitedSeqnum, receivePkt, list, out>>
  BY <1>0
<1>2. /\ inPos \in Nat /\ Written \in Nat /\ Acked \in Nat
      /\ Len(window) \in 0 .. MaxWindow /\ inPos = Acked + Len(window)
      /\ Acked <= Written /\ Written <= inPos
  BY Positions, Constants
<1>3. inAvail \in 0 .. NBlocks /\ sendingWindowSize \in 1 .. MaxWindow
  BY DEF Inv, TypeOK, SenderTypeOK
<1>4. pktInWindow = Len(window) /\ seqnum = SeqOf(inPos)
  BY <1>1, <1>2 DEF Inv, CountsAgree
<1>6. inPos' \in 0 .. NBlocks /\ Len(window) + 1 <= MaxWindow
  BY <1>1, <1>2, <1>3, <1>4, Constants, SMT
<1>7. pkt \in DataPkt
  BY <1>0, <1>1, <1>6 DEF Inv, TypeOK, SenderTypeOK, DataPkt
<1>8. /\ window' \in Seq(DataPkt) /\ Len(window') = Len(window) + 1
      /\ \A i \in 1 .. Len(window) : window'[i] = window[i]
      /\ window'[Len(window) + 1] = pkt
  <2>1. window \in Seq(DataPkt)
    BY DEF Inv, TypeOK, SenderTypeOK
  <2> QED
    BY <1>1, <1>7, <2>1, AppendProperties
<1>9. Acked' = Acked /\ Written' = Written
  <2>1. inPos' = inPos + 1 /\ Len(window') = Len(window) + 1 /\ Len(out') = Len(out)
    BY <1>1, <1>8
  <2> QED
    BY <1>2, <2>1, SMT
<1>10. TypeOK'
  <2>1. NetworkTypeOK'
    BY <1>1 DEF Inv, TypeOK, NetworkTypeOK
  <2>2. SenderTypeOK'
    BY <1>1, <1>6, <1>8 DEF Inv, TypeOK, SenderTypeOK
  <2>3. ReceiverTypeOK'
    BY <1>1 DEF Inv, TypeOK, ReceiverTypeOK
  <2> QED
    BY <2>1, <2>2, <2>3 DEF TypeOK
<1> HIDE DEF SenderRefused, ReadAndFail, TakeBlock, MayRead, receiverVars
<1>11. WindowInv'
  <2>1. \A i \in 1 .. Len(window) :
            window[i] = [seqnum |-> SeqOf(Acked + i - 1), block |-> Acked + i]
    BY DEF Inv, WindowInv
  <2>2. pkt = [seqnum |-> SeqOf(Acked + (Len(window) + 1) - 1),
               block |-> Acked + (Len(window) + 1)]
    BY <1>0, <1>2, <1>4
  <2>3. ASSUME NEW i \in 1 .. Len(window')
        PROVE  window'[i] = [seqnum |-> SeqOf(Acked + i - 1), block |-> Acked + i]
    <3>1. i \in 1 .. Len(window) \/ i = Len(window) + 1
      BY <1>2, <1>8, SMT
    <3> QED
      BY <1>8, <2>1, <2>2, <3>1
  <2> QED
    BY <1>1, <1>2, <1>9, <2>3 DEF WindowInv
<1>12. PositionsInv'
  <2>1. \A i \in Slots : list[i] # NoPkt => list[i].block \in 0 .. NBlocks
    BY DEF Inv, TypeOK, ReceiverTypeOK, DataPkt
  <2>2. \A i \in Slots : list[i] # NoPkt => list[i].block <= inPos + 1
    BY <1>2, <2>1, SMT DEF Inv, PositionsInv
  <2> QED
    BY <1>1, <1>2, <1>9, <2>2 DEF Inv, PositionsInv
<1>13. FlightInv'
  <2>1. \A p \in toReceiver : IsSent(p)'
    <3> SUFFICES ASSUME NEW p \in toReceiver PROVE IsSent(p)'
      OBVIOUS
    <3>1. p.block # 0
      BY <1>1 DEF Inv, FlightInv, IsSent
    <3>2. p.block <= inPos + 1 /\ p.seqnum = SeqOf(p.block - 1)
          /\ Written - (p.block - 1) <= DataLife
      BY <1>2, <3>1, Arriving, SMT
    <3> QED
      BY <1>1, <1>9, <3>1, <3>2 DEF IsSent
  <2>2. \A a : IsReplied(a) => IsReplied(a)'
    BY <1>9 DEF IsReplied
  <2> QED
    BY <1>1, <2>1, <2>2 DEF Inv, FlightInv
<1>14. CountsAgree'
  BY <1>1 DEF CountsAgree
<1>15. OutputIsPrefix' /\ ListIsAhead' /\ NoOverrun'
  BY <1>1, <1>9 DEF Inv, OutputIsPrefix, ListIsAhead, NoOverrun, Following
<1> QED
  BY <1>10, <1>11, <1>12, <1>13, <1>14, <1>15 DEF Inv

\* An acknowledgement removes only what it names: is_higher_or_equal() stops the
\* loop at the first packet past it, and at once if the acknowledgement is old.
LEMMA AckRemovesOnlyWritten ==
    ASSUME Acked \in Nat, Written \in Nat, Len(window) \in 0 .. MaxWindow,
           Acked + Len(window) = inPos, Written <= inPos,
           \A i \in 1 .. Len(window) : window[i].seqnum = SeqOf(Acked + i - 1),
           IsReplied(inbox), inbox \in AckPkt, inbox.type = "ACK",
           NEW k \in 0 .. Len(window), DequeuesExactly(k, PrevSeq(inbox.seqnum))
    PROVE  k = 0 \/ Acked + k <= inbox.upto
<1> SUFFICES ASSUME k # 0, Acked + k > inbox.upto PROVE FALSE
  <2>1. inbox.upto \in Nat
    BY DEF AckPkt
  <2>2. Acked \in Nat /\ k \in Nat
    OBVIOUS
  <2> QED
    BY <2>1, <2>2, SMT
<1>0. PICK u \in Nat : u = inbox.upto
  BY DEF AckPkt
<1>1. u # 0 /\ inbox.seqnum = SeqOf(u) /\ Acked - u < AckLife /\ u <= Written
  BY <1>0 DEF IsReplied
<1>2. /\ inPos \in Nat /\ Written \in Nat /\ Acked \in Nat /\ k \in 1 .. MaxWindow
      /\ Len(window) \in 0 .. MaxWindow /\ inPos = Acked + Len(window)
      /\ Written <= inPos
  BY Constants
<1>3. PrevSeq(inbox.seqnum) = SeqOf(u - 1) /\ u - 1 \in Nat
  <2>1. u - 1 \in Nat /\ (u - 1) + 1 = u
    BY <1>1, SMT
  <2> QED
    BY <1>1, <2>1, PrevSeqOf
<1>4. PICK i \in 1 .. k : Acked + i > u /\ (i = 1 \/ Acked + (i - 1) <= u)
  <2>1. CASE u < Acked
    BY <1>1, <1>2, <2>1, 1 \in 1 .. k, SMT
  <2>2. CASE u >= Acked
    <3>1. u - Acked + 1 \in 1 .. k
      BY <1>0, <1>1, <1>2, <2>2, SMT
    <3>2. Acked + (u - Acked + 1) > u /\ Acked + ((u - Acked + 1) - 1) <= u
      BY <1>1, <1>2, SMT
    <3> QED
      BY <3>1, <3>2
  <2> QED
    BY <1>1, <1>2, <2>1, <2>2, SMT
<1>5. window[i].seqnum = SeqOf(Acked + i - 1) /\ i \in 1 .. Len(window)
  <2>1. i \in 1 .. Len(window)
    BY <1>2, SMT
  <2> QED
    BY <2>1
<1>6. PICK d \in 1 .. SeqMod - 1 :
          d <= AckGap /\ d + AckGap < SeqMod /\ Acked + i - 1 = (u - 1) + d
  <2> DEFINE e == Acked + i - u
  <2>1. e \in 1 .. SeqMod - 1 /\ e <= AckGap /\ e + AckGap < SeqMod
    BY <1>1, <1>2, <1>4, Constants, SMT
  <2>2. Acked + i - 1 = (u - 1) + e
    BY <1>1, <1>2, SMT
  <2> QED
    BY <2>1, <2>2
<1>7. ~IsHigherOrEqual(SeqOf(u - 1), SeqOf((u - 1) + d))
  BY <1>3, <1>6, OldAckIsOld
<1>8. IsHigherOrEqual(SeqOf(u - 1), window[i].seqnum)
  BY <1>3 DEF DequeuesExactly, CoversExactly
<1> QED
  BY <1>5, <1>6, <1>7, <1>8

LEMMA ReceiveAckPreserves == Inv /\ ReceiveAck /\ UNCHANGED receiverVars => Inv'
<1> SUFFICES ASSUME Inv, ReceiveAck, UNCHANGED receiverVars PROVE Inv'
  OBVIOUS
<1>1. /\ spc = "socket" /\ spc' = "timers" /\ inbox # NoPkt /\ inbox.type = "ACK"
      /\ inbox' = NoPkt /\ nb' = 1
      /\ sendingWindowSize' = inbox.window
      /\ UNCHANGED <<toReceiver, inReady, inPos, inAvail, seqnum, receiverVars>>
  BY DEF ReceiveAck, SocketDone
<1>2. PICK k \in 0 .. Len(window) :
          /\ DequeuesExactly(k, PrevSeq(inbox.seqnum))
          /\ window' = SubSeq(window, k + 1, Len(window))
          /\ pktInWindow' = pktInWindow - k
          /\ toSender' = LivingAcks(toSender, Acked + k)
  BY DEF ReceiveAck
<1>3. /\ inPos \in Nat /\ Written \in Nat /\ Acked \in Nat
      /\ Len(window) \in 0 .. MaxWindow /\ inPos = Acked + Len(window)
      /\ Acked <= Written /\ Written <= inPos
  BY Positions, Constants
<1>4. inbox \in AckPkt /\ IsReplied(inbox) /\ inbox.upto \in Nat /\ inbox.window = MaxWindow
  BY <1>1 DEF Inv, TypeOK, SenderTypeOK, FlightInv, AckPkt
<1>5. Acked + k <= Written
  <2>1. k = 0 \/ Acked + k <= inbox.upto
    <3>1. \A i \in 1 .. Len(window) : window[i].seqnum = SeqOf(Acked + i - 1)
      BY <1>1 DEF Inv, CountsAgree
    <3> QED
      BY <1>1, <1>2, <1>3, <1>4, <3>1, AckRemovesOnlyWritten
  <2>2. inbox.upto <= Written
    BY <1>4 DEF IsReplied
  <2> QED
    BY <1>3, <1>4, <2>1, <2>2, SMT
<1>6. pktInWindow = Len(window) /\ seqnum = SeqOf(Acked + pktInWindow)
  BY <1>1 DEF Inv, CountsAgree
<1>7. /\ window' \in Seq(DataPkt) /\ Len(window') = Len(window) - k
      /\ \A i \in 1 .. Len(window') : window'[i] = window[k + i] /\ k + i \in 1 .. Len(window)
  <2>1. window \in Seq(DataPkt)
    BY DEF Inv, TypeOK, SenderTypeOK
  <2>2. \A i \in 1 .. Len(window) - k : k + i \in 1 .. Len(window)
    BY <1>3, SMT
  <2> QED
    BY <1>2, <2>1, <2>2, SuffixOfSeq
<1>8. Acked' = Acked + k /\ Written' = Written /\ pktInWindow' = Len(window')
  <2>1. inPos' = inPos /\ out' = out
    BY <1>1 DEF receiverVars
  <2>2. Len(window') = Len(window) - k /\ pktInWindow' = pktInWindow - k
    BY <1>2, <1>7
  <2> QED
    BY <1>3, <1>6, <2>1, <2>2, SMT
<1>9. TypeOK'
  <2>1. NetworkTypeOK'
    BY <1>1, <1>2 DEF Inv, TypeOK, NetworkTypeOK, LivingAcks
  <2>2. SenderTypeOK'
    <3>1. pktInWindow' \in 0 .. MaxWindow /\ Len(window') <= MaxWindow
          /\ sendingWindowSize' \in 1 .. MaxWindow
      BY <1>1, <1>2, <1>3, <1>4, <1>7, <1>8, Constants, SMT
    <3> QED
      BY <1>1, <1>7, <3>1 DEF Inv, TypeOK, SenderTypeOK
  <2>3. ReceiverTypeOK'
    BY <1>1 DEF Inv, TypeOK, ReceiverTypeOK, receiverVars
  <2> QED
    BY <2>1, <2>2, <2>3 DEF TypeOK
<1>10. WindowInv'
  <2>1. ASSUME NEW i \in 1 .. Len(window')
        PROVE  window'[i] = [seqnum |-> SeqOf(Acked + k + i - 1), block |-> Acked + k + i]
    <3>1. window[k + i] = [seqnum |-> SeqOf(Acked + (k + i) - 1), block |-> Acked + (k + i)]
      BY <1>7 DEF Inv, WindowInv
    <3>2. Acked + (k + i) - 1 = Acked + k + i - 1 /\ Acked + (k + i) = Acked + k + i
      BY <1>3, <1>7, SMT
    <3> QED
      BY <1>7, <3>1, <3>2
  <2>2. Acked + k \in Nat
    BY <1>3
  <2> QED
    BY <1>1, <1>8, <2>1, <2>2 DEF WindowInv
<1>11. PositionsInv'
  BY <1>1, <1>5, <1>8 DEF Inv, PositionsInv, receiverVars
<1>12. FlightInv'
  <2>1. \A p \in toReceiver : IsSent(p)'
    BY <1>1, <1>8 DEF Inv, FlightInv, IsSent
  <2>2. \A a \in toSender' : IsReplied(a)'
    BY <1>2, <1>8 DEF Inv, FlightInv, IsReplied, LivingAcks
  <2> QED
    BY <1>1, <2>1, <2>2 DEF FlightInv
<1>13. CountsAgree'
  <2>1. Acked' + pktInWindow' = Acked + pktInWindow
    BY <1>2, <1>3, <1>6, <1>7, <1>8, SMT
  <2>2. ASSUME NEW i \in 1 .. Len(window')
        PROVE  window'[i].seqnum = SeqOf(Acked' + i - 1)
    <3>1. window'[i] = [seqnum |-> SeqOf(Acked' + i - 1), block |-> Acked' + i]
      BY <1>10 DEF WindowInv
    <3> QED
      BY <3>1
  <2> QED
    BY <1>1, <1>6, <1>8, <2>1, <2>2 DEF CountsAgree
<1>14. OutputIsPrefix' /\ ListIsAhead' /\ NoOverrun'
  BY <1>1 DEF Inv, OutputIsPrefix, ListIsAhead, NoOverrun, Following, receiverVars
<1> QED
  BY <1>9, <1>10, <1>11, <1>12, <1>13, <1>14 DEF Inv

LEMMA ClosePreserves == Inv /\ Close /\ UNCHANGED receiverVars => Inv'
<1> SUFFICES ASSUME Inv, Close, UNCHANGED receiverVars PROVE Inv'
  OBVIOUS
<1>0. PICK pkt : pkt = [seqnum |-> seqnum, block |-> 0]
  OBVIOUS
<1>1. /\ spc = "close" /\ spc' = "closed" /\ pktInWindow = 0
      /\ toReceiver' = toReceiver \cup {pkt}
      /\ UNCHANGED <<toSender, inReady, inbox, nb, inPos, inAvail, seqnum, pktInWindow,
                     sendingWindowSize, window, receiverVars>>
  BY <1>0 DEF Close, Finished, SendData
<1>2. /\ inPos \in Nat /\ Written \in Nat /\ Acked \in Nat
      /\ Len(window) \in 0 .. MaxWindow /\ inPos = Acked + Len(window)
      /\ Acked <= Written /\ Written <= inPos
  BY Positions, Constants
<1>3. Len(window) = 0 /\ seqnum = SeqOf(Acked + 0)
  BY <1>1 DEF Inv, CountsAgree
<1>4. Written = inPos /\ seqnum = SeqOf(inPos) /\ window = <<>>
  <2>1. Written = inPos /\ Acked + 0 = inPos
    BY <1>2, <1>3, SMT
  <2>2. window = <<>>
    BY <1>3, EmptySeq DEF Inv, TypeOK, SenderTypeOK
  <2> QED
    BY <1>3, <2>1, <2>2
<1>5. pkt.block = 0 /\ pkt.seqnum = seqnum /\ pkt \in DataPkt
  BY <1>0, Constants DEF Inv, TypeOK, SenderTypeOK, DataPkt
<1>6. TypeOK'
  BY <1>1, <1>5 DEF Inv, TypeOK, NetworkTypeOK, SenderTypeOK, ReceiverTypeOK, receiverVars
<1>7. FlightInv'
  <2>1. \A p \in toReceiver : IsSent(p)'
    BY <1>1 DEF Inv, FlightInv, IsSent, receiverVars
  <2>2. IsSent(pkt)'
    BY <1>1, <1>4, <1>5 DEF IsSent, receiverVars
  <2> QED
    BY <1>1, <2>1, <2>2 DEF Inv, FlightInv, IsReplied, receiverVars
<1>8. WindowInv' /\ PositionsInv' /\ CountsAgree'
  BY <1>1, <1>4 DEF Inv, WindowInv, PositionsInv, CountsAgree, receiverVars
<1>9. OutputIsPrefix' /\ ListIsAhead' /\ NoOverrun'
  BY <1>1 DEF Inv, OutputIsPrefix, ListIsAhead, NoOverrun, Following, receiverVars
<1> QED
  BY <1>6, <1>7, <1>8, <1>9 DEF Inv

LEMMA SenderPreserves == Inv /\ SenderActs => Inv'
BY PollPreserves, IdlePreserves, ReadAndSendPreserves, ReceiveAckPreserves, NackPreserves,
   TimersPreserve, ClosePreserves DEF SenderActs, SenderStep
----------------------------------------------------------------------------
LEMMA ReplySafe ==
    ASSUME Inv, NEW type \in {"ACK", "NACK"}, type = "ACK" => Written # 0
    PROVE  LET a == Reply(type, waitedSeqnum, Written)
           IN  a \in AckPkt /\ IsReplied(a)
<1>1. /\ inPos \in 0 .. NBlocks /\ Written \in Nat /\ Acked \in Nat
      /\ Acked <= Written /\ Written <= inPos
  BY Positions
<1>2. Written \in 0 .. NBlocks /\ Acked - Written < AckLife
  BY <1>1, Constants, SMT
<1>3. waitedSeqnum = SeqOf(Written) /\ waitedSeqnum \in Seqnum
  BY DEF Inv, PositionsInv, TypeOK, ReceiverTypeOK
<1> QED
  BY <1>1, <1>2, <1>3 DEF Reply, AckPkt, IsReplied

LEMMA TruncatePreserves == Inv /\ Truncate => Inv'
<1> SUFFICES ASSUME Inv, Truncate PROVE Inv'
  OBVIOUS
<1> DEFINE a == Reply("NACK", waitedSeqnum, Written)
<1>1. /\ toSender' = toSender \cup {a}
      /\ UNCHANGED <<toReceiver, senderVars, receiverVars>>
  BY DEF Truncate, Truncation, ReceiveTruncated
<1>2. a \in AckPkt /\ IsReplied(a)
  BY ReplySafe
<1> HIDE DEF a
<1>3. TypeOK'
  BY <1>1, <1>2
  DEF Inv, TypeOK, NetworkTypeOK, SenderTypeOK, ReceiverTypeOK, senderVars, receiverVars
<1>4. rstate' # "overrun"
  BY <1>1 DEF Inv, NoOverrun, receiverVars
<1>5. UNCHANGED <<inPos, seqnum, pktInWindow, window, waitedSeqnum, receivePkt, list, out,
                  spc, rstate, inbox>>
  BY <1>1 DEF senderVars, receiverVars
<1> QED
  BY <1>1, <1>2, <1>3, <1>4, <1>5, Frame DEF Inv, FlightInv

LEMMA EndPreserves ==
    Inv /\ (ClientArrives \/ GiveUp \/ \E p \in toReceiver : ReceiveDisconnect(p))
        /\ UNCHANGED senderVars => Inv'
<1> SUFFICES ASSUME Inv, UNCHANGED senderVars,
                    ClientArrives \/ GiveUp \/ \E p \in toReceiver : ReceiveDisconnect(p)
             PROVE  Inv'
  OBVIOUS
<1>1. /\ rstate' \in {"run", "timedout", "disconnected"}
      /\ UNCHANGED <<toReceiver, toSender, senderVars, waitedSeqnum, receivePkt, list, out>>
  BY DEF ClientArrives, GiveUp, ReceiveDisconnect, networkVars
<1>2. TypeOK'
  BY <1>1 DEF Inv, TypeOK, NetworkTypeOK, SenderTypeOK, ReceiverTypeOK, senderVars
<1>3. UNCHANGED <<inPos, seqnum, pktInWindow, window, waitedSeqnum, receivePkt, list, out,
                  spc, inbox>>
  BY <1>1 DEF senderVars
<1>4. rstate' # "overrun"
  BY <1>1
<1> QED
  BY <1>1, <1>2, <1>3, <1>4, Frame DEF Inv, FlightInv

\* Two block numbers no further apart than the lifetimes allow are equal if their
\* seqnums are.
LEMMA SameSeqnum ==
    ASSUME NEW a \in Nat, NEW b \in Nat, a - b < MaxWindow, b - a <= DataLife,
           SeqOf(a) = SeqOf(b)
    PROVE  a = b
<1>1. CASE a > b
  <2>1. a - b \in 1 .. SeqMod - 1 /\ a = b + (a - b)
    BY <1>1, Constants, SMT
  <2> QED
    BY <2>1, SeqOfInjective
<1>2. CASE b > a
  <2>1. b - a \in 1 .. SeqMod - 1 /\ b = a + (b - a)
    BY <1>2, Constants, SMT
  <2> QED
    BY <2>1, SeqOfInjective
<1> QED
  BY <1>1, <1>2, SMT

\* An old packet that is still alive has an index in_window() refuses.
LEMMA OldIsRefused ==
    ASSUME NEW a \in Nat, NEW b \in Nat, a < b, b - a <= DataLife
    PROVE  Ind(SeqOf(a), SeqOf(b)) > AcceptSpan
<1>1. b - a \in 1 .. SeqMod - 1 /\ b = a + (b - a)
  BY Constants, SMT
<1>2. Ind(SeqOf(a), SeqOf(b)) = SeqMod - (b - a)
  BY <1>1, IndBehind
<1> QED
  BY <1>1, <1>2, Constants, SMT

\* A data packet with the seqnum waited for is the next block: no older or newer
\* one that can still arrive has the same seqnum.
LEMMA WaitedIsNext ==
    ASSUME Inv, NEW p \in toReceiver, p.block # 0, p.seqnum = waitedSeqnum
    PROVE  p.block = Written + 1
<1>1. /\ p.block \in 1 .. NBlocks /\ p.block - 1 \in Nat /\ p.seqnum = SeqOf(p.block - 1)
      /\ p.block - 1 - Written < MaxWindow
      /\ Written - (p.block - 1) <= DataLife
  BY Arriving
<1>2. Written \in Nat /\ waitedSeqnum = SeqOf(Written)
  BY Positions DEF Inv, PositionsInv
<1>3. p.block - 1 = Written
  BY <1>1, <1>2, SameSeqnum
<1> QED
  BY <1>1, <1>2, <1>3, SMT

\* A number that is not the one waited for has no index in the array if it is old,
\* and the index of its distance if it is new: in_window() and ind() never send one
\* past the end.
LEMMA AheadIsPlaced ==
    ASSUME NEW b \in Nat, NEW w \in Nat, b - w < MaxWindow, w - b <= DataLife, b # w,
           InWindow(SeqOf(w), SeqOf(b))
    PROVE  /\ b - w \in 1 .. MaxWindow - 1
           /\ Ind(SeqOf(b), SeqOf(w)) = b - w
           /\ SeqOf(b) = (SeqOf(w) + (b - w)) % SeqMod
<1>1. SeqOf(b) \in Seqnum /\ SeqOf(w) \in Seqnum
  BY SeqOfType
<1>2. ~(Ind(SeqOf(b), SeqOf(w)) > AcceptSpan)
  <2>1. Ind(SeqOf(b), SeqOf(w)) <= AcceptSpan
    BY <1>1, InWindowIsInd
  <2>2. Ind(SeqOf(b), SeqOf(w)) \in Int
    BY <1>1, Constants, SMT DEF Ind, Seqnum
  <2> QED
    BY <2>1, <2>2, Constants, SMT
<1>3. ~(b < w)
  BY <1>2, OldIsRefused
<1>4. b - w \in 1 .. MaxWindow - 1 /\ b - w \in 0 .. SeqMod - 1 /\ b = w + (b - w)
  BY <1>3, Constants, SMT
<1>5. Ind(SeqOf(w + (b - w)), SeqOf(w)) = b - w
  BY <1>4, IndAhead
<1>6. (SeqOf(w) + (b - w)) % SeqMod = SeqOf(w + (b - w))
  BY <1>4, SeqOfPlus
<1> QED
  BY <1>4, <1>5, <1>6

LEMMA OtherIsPlaced ==
    ASSUME Inv, NEW p \in toReceiver, p.block # 0, p.seqnum # waitedSeqnum,
           InWindow(waitedSeqnum, p.seqnum)
    PROVE  LET d == Ind(p.seqnum, waitedSeqnum)
           IN  /\ d \in 1 .. MaxWindow - 1
               /\ p.block = Written + 1 + d
               /\ p.seqnum = Following(d)
<1>1. /\ p.block \in 1 .. NBlocks /\ p.block - 1 \in Nat /\ p.seqnum = SeqOf(p.block - 1)
      /\ p.block - 1 - Written < MaxWindow
      /\ Written - (p.block - 1) <= DataLife
  BY Arriving
<1>2. Written \in Nat /\ waitedSeqnum = SeqOf(Written)
  BY Positions DEF Inv, PositionsInv
<1>3. PICK d : d = p.block - 1 - Written
  OBVIOUS
<1>4. /\ d \in 1 .. MaxWindow - 1 /\ Ind(p.seqnum, waitedSeqnum) = d
      /\ p.seqnum = (waitedSeqnum + d) % SeqMod
  BY <1>1, <1>2, <1>3, AheadIsPlaced
<1>5. p.block = Written + 1 + d
  BY <1>1, <1>2, <1>3, SMT
<1> QED
  BY <1>4, <1>5 DEF Following

\* The closing packet arrives only as the packet waited for.
LEMMA ClosingIsWaited ==
    ASSUME Inv, NEW p \in toReceiver, p.block = 0
    PROVE  p.seqnum = waitedSeqnum /\ Written = inPos
BY DEF Inv, FlightInv, IsSent, PositionsInv

LEMMA ReceiveOtherPreserves ==
    ASSUME Inv, NEW p \in toReceiver, ReceiveOther(p), UNCHANGED senderVars
    PROVE  Inv'
<1> DEFINE index == Ind(p.seqnum, waitedSeqnum)
           stores == InWindow(waitedSeqnum, p.seqnum)
           a == Reply("ACK", waitedSeqnum, Written)
<1>1. /\ rstate = "run" /\ p.seqnum # waitedSeqnum
      /\ UNCHANGED <<toReceiver, waitedSeqnum, receivePkt, out, senderVars>>
  BY DEF ReceiveOther, IsWaited
<1>2. p.block # 0
  BY <1>1, ClosingIsWaited
<1>3. p \in DataPkt /\ p.block <= inPos /\ p.block \in 1 .. NBlocks
  BY <1>2, Arriving
<1>4. stores => /\ index \in 1 .. MaxWindow - 1
                /\ p.block = Written + 1 + index /\ p.seqnum = Following(index)
  BY <1>1, <1>2, OtherIsPlaced
<1>5. stores => index \in Slots /\ index # 0
  BY <1>4, Constants, SMT DEF Slots
<1>6. /\ rstate' = rstate
      /\ \/ list' = list
         \/ stores /\ list' = [list EXCEPT ![index] = p]
  BY <1>5, Zenon DEF ReceiveOther
<1>7. \/ toSender' = toSender
      \/ receivePkt /\ toSender' = toSender \cup {a}
  BY Zenon DEF ReceiveOther
<1>8. toSender' \subseteq AckPkt /\ \A b \in toSender' : IsReplied(b)
  <2>1. receivePkt => a \in AckPkt /\ IsReplied(a)
    BY ReplySafe DEF Inv, PositionsInv
  <2> HIDE DEF a
  <2> QED
    BY <1>7, <2>1 DEF Inv, TypeOK, NetworkTypeOK, FlightInv
<1> HIDE DEF index, stores, a
<1>9. /\ list' \in [Slots -> DataPkt \cup {NoPkt}]
      /\ \A i \in Slots : list'[i] = list[i] \/ (i = index /\ stores /\ list'[i] = p)
  <2>1. list \in [Slots -> DataPkt \cup {NoPkt}]
    BY DEF Inv, TypeOK, ReceiverTypeOK
  <2> QED
    BY <1>3, <1>6, <2>1
<1>10. Written' = Written /\ Acked' = Acked /\ spc' = spc /\ inPos' = inPos /\ inbox' = inbox
       /\ window' = window /\ seqnum' = seqnum /\ pktInWindow' = pktInWindow
  BY <1>1 DEF senderVars
<1>11. TypeOK'
  <2>1. NetworkTypeOK'
    BY <1>1, <1>8 DEF Inv, TypeOK, NetworkTypeOK
  <2>2. SenderTypeOK'
    BY <1>1 DEF Inv, TypeOK, SenderTypeOK, senderVars
  <2>3. ReceiverTypeOK'
    BY <1>1, <1>6, <1>9 DEF Inv, TypeOK, ReceiverTypeOK
  <2> QED
    BY <2>1, <2>2, <2>3 DEF TypeOK
<1>12. WindowInv' /\ CountsAgree'
  BY <1>10 DEF Inv, WindowInv, CountsAgree
<1>13. PositionsInv'
  BY <1>1, <1>3, <1>9, <1>10 DEF Inv, PositionsInv
<1>14. FlightInv'
  <2>1. \A q : IsSent(q)' <=> IsSent(q)
    BY <1>10 DEF IsSent
  <2>2. \A q : IsReplied(q)' <=> IsReplied(q)
    BY <1>10 DEF IsReplied
  <2> QED
    BY <1>1, <1>8, <1>10, <2>1, <2>2 DEF Inv, FlightInv
<1>15. ListIsAhead'
  <2> SUFFICES ASSUME NEW i \in Slots, list'[i] # NoPkt
               PROVE  /\ i # 0 /\ list'[i].seqnum = Following(i)'
                      /\ list'[i].block = Written' + 1 + i
    BY DEF ListIsAhead
  <2>1. Following(i)' = Following(i)
    BY <1>1 DEF Following
  <2>2. CASE list'[i] = list[i]
    BY <1>10, <2>1, <2>2 DEF Inv, ListIsAhead
  <2>3. CASE i = index /\ stores /\ list'[i] = p
    BY <1>4, <1>5, <1>10, <2>1, <2>3
  <2> QED
    BY <1>9, <2>2, <2>3
<1>16. OutputIsPrefix' /\ NoOverrun'
  BY <1>1, <1>6 DEF Inv, OutputIsPrefix, NoOverrun
<1> QED
  BY <1>11, <1>12, <1>13, <1>14, <1>15, <1>16 DEF Inv

\* The output after the block waited for and the n after it.
LEMMA DrainedOutput ==
    ASSUME out \in Seq(1 .. NBlocks), OutputIsPrefix, NEW n \in 0 .. MaxWindow - 1,
           Written + 1 \in 1 .. NBlocks,
           \A i \in 1 .. n : list[i].block = Written + 1 + i /\ list[i].block \in 1 .. NBlocks
    PROVE  LET after == Append(out, Written + 1) \o [i \in 1 .. n |-> list[i].block]
           IN  /\ after \in Seq(1 .. NBlocks) /\ Len(after) = Written + n + 1
               /\ \A i \in 1 .. Len(after) : after[i] = i
<1> DEFINE head == Append(out, Written + 1)
           tail == [i \in 1 .. n |-> list[i].block]
<1>0. Written \in Nat /\ n \in Nat
  BY LenProperties, Constants, SMT
<1>1. /\ head \in Seq(1 .. NBlocks) /\ Len(head) = Written + 1
      /\ \A i \in 1 .. Written : head[i] = out[i]
      /\ head[Written + 1] = Written + 1
  BY AppendProperties
<1>2. /\ tail \in Seq(1 .. NBlocks) /\ Len(tail) = n
      /\ \A i \in 1 .. n : tail[i] = Written + 1 + i
  BY Constants
<1> HIDE DEF head, tail
<1>3. PICK after : after = head \o tail
  OBVIOUS
<1>4. /\ after \in Seq(1 .. NBlocks)
      /\ Len(after) = Len(head) + Len(tail)
      /\ \A i \in 1 .. Len(head) + Len(tail) :
            after[i] = IF i <= Len(head) THEN head[i] ELSE tail[i - Len(head)]
  BY <1>1, <1>2, <1>3, ConcatProperties
<1>5. Len(after) = Written + n + 1
  BY <1>0, <1>1, <1>2, <1>4, SMT
<1>6. ASSUME NEW i \in 1 .. Len(after)
      PROVE  after[i] = i
  <2>0. i \in 1 .. Len(head) + Len(tail) /\ Len(head) = Written + 1 /\ Len(tail) = n
    BY <1>1, <1>2, <1>4
  <2>1. CASE i \in 1 .. Written
    <3>1. i <= Len(head)
      BY <1>0, <2>0, <2>1, SMT
    <3>2. after[i] = head[i]
      BY <1>4, <2>0, <3>1, Zenon
    <3>3. head[i] = out[i] /\ out[i] = i
      BY <1>1, <2>1 DEF OutputIsPrefix
    <3> QED
      BY <3>2, <3>3
  <2>2. CASE i = Written + 1
    <3>1. i <= Len(head)
      BY <1>0, <2>0, <2>2, SMT
    <3>2. after[i] = head[i]
      BY <1>4, <2>0, <3>1, Zenon
    <3> QED
      BY <1>1, <2>2, <3>2
  <2>3. CASE i > Written + 1
    <3>1. i - Len(head) \in 1 .. n /\ ~(i <= Len(head)) /\ Written + 1 + (i - Len(head)) = i
      BY <1>0, <2>0, <2>3, SMT
    <3> QED
      BY <1>2, <1>4, <2>0, <3>1
  <2> QED
    BY <1>0, <2>0, <2>1, <2>2, <2>3, SMT
<1> QED
  BY <1>3, <1>4, <1>5, <1>6 DEF head, tail

\* What a turn of the loop does with the packet waited for: n packets of the list
\* follow it to the output, and the slot after them is empty.
LEMMA WaitedDrains ==
    ASSUME Inv, NEW p \in toReceiver, ReceiveWaited(p)
    PROVE  \E n \in 0 .. MaxWindow - 1 :
              /\ Written' = Written + n + 1 /\ Written' <= inPos
              /\ out' \in Seq(1 .. NBlocks) /\ \A i \in 1 .. Written' : out'[i] = i
              /\ waitedSeqnum' = Following(n + 1) /\ list' = Shifted(n + 1)
              /\ toReceiver' = LivingData(toReceiver, Written + n + 1)
              /\ n + 1 < MaxWindow => list[n + 1] = NoPkt
              /\ rstate' = rstate
              /\ toSender' = toSender \cup {Reply("ACK", waitedSeqnum', Written')}
<1>1. /\ rstate = "run" /\ p.seqnum = waitedSeqnum /\ p.block # 0
  BY DEF ReceiveWaited, IsWaited
<1>2. PICK n \in 0 .. MaxWindow - 1 :
          /\ DrainsExactly(n)
          /\ out' = Append(out, p.block) \o [i \in 1 .. n |-> list[i].block]
          /\ waitedSeqnum' = Following(n + 1)
          /\ list' = Shifted(n + 1)
          /\ toReceiver' = LivingData(toReceiver, Written + n + 1)
          /\ IF EndsInDrain(n)
             THEN rstate' = "disconnected" /\ UNCHANGED toSender
             ELSE /\ toSender' = toSender \cup
                        {Reply("ACK", Following(n + 1), Written + n + 1)}
                  /\ UNCHANGED rstate
  BY DEF ReceiveWaited
<1>3. /\ inPos \in 0 .. NBlocks /\ inPos \in Nat /\ Written \in Nat /\ Acked \in Nat
      /\ Acked <= Written /\ Written <= inPos
  BY Positions, Constants
<1>4. p.block = Written + 1 /\ p.block <= inPos /\ p.block \in 1 .. NBlocks
  BY <1>1, WaitedIsNext, Arriving
<1>5. \A i \in 1 .. n : /\ i \in Slots /\ list[i] # NoPkt
                        /\ list[i].block = Written + 1 + i /\ list[i].block <= inPos
  <2> SUFFICES ASSUME NEW i \in 1 .. n
               PROVE  /\ i \in Slots /\ list[i] # NoPkt
                      /\ list[i].block = Written + 1 + i /\ list[i].block <= inPos
    OBVIOUS
  <2>1. i \in Slots
    BY Constants, SMT DEF Slots
  <2>2. list[i] # NoPkt
    BY <1>2 DEF DrainsExactly, InOrder
  <2> QED
    BY <2>1, <2>2 DEF Inv, ListIsAhead, PositionsInv
<1>6. Written + n + 1 <= inPos
  <2>1. CASE n = 0
    BY <1>3, <1>4, <2>1, SMT
  <2>2. CASE n # 0
    <3>1. n \in 1 .. n
      BY <2>2, Constants, SMT
    <3>2. list[n].block = Written + 1 + n /\ list[n].block <= inPos
      BY <1>5, <3>1
    <3> QED
      BY <1>3, <3>2, SMT
  <2> QED
    BY <2>1, <2>2
<1>7. /\ out' \in Seq(1 .. NBlocks) /\ Written' = Written + n + 1
      /\ \A i \in 1 .. Written' : out'[i] = i
  <2>1. \A i \in 1 .. n : list[i].block = Written + 1 + i /\ list[i].block \in 1 .. NBlocks
    BY <1>3, <1>5, SMT
  <2>2. out \in Seq(1 .. NBlocks) /\ OutputIsPrefix
    BY DEF Inv, TypeOK, ReceiverTypeOK
  <2>3. out' = Append(out, Written + 1) \o [i \in 1 .. n |-> list[i].block]
    BY <1>2, <1>4
  <2>4. Written + 1 \in 1 .. NBlocks
    BY <1>4
  <2> QED
    BY <2>1, <2>2, <2>3, <2>4, DrainedOutput
<1>8. ASSUME n + 1 < MaxWindow, list[n + 1] # NoPkt
      PROVE  FALSE
  <2>1. n + 1 \in Slots /\ n + 1 \in Int
    BY <1>8, Constants, SMT DEF Slots
  <2>2. list[n + 1].seqnum = Following(n + 1) /\ list[n + 1].block = Written + 1 + (n + 1)
    BY <1>8, <2>1 DEF Inv, ListIsAhead
  <2>3. list[n + 1].block # 0
    BY <1>3, <2>2, SMT
  <2> QED
    BY <1>2, <1>8, <2>2, <2>3 DEF DrainsExactly, InOrder
<1>9. /\ rstate' = rstate
       /\ toSender' = toSender \cup {Reply("ACK", waitedSeqnum', Written')}
  BY <1>2, <1>7, <1>8 DEF EndsInDrain, InOrder
<1> QED
  BY <1>2, <1>6, <1>7, <1>8, <1>9

LEMMA ReceiveWaitedPreserves ==
    ASSUME Inv, NEW p \in toReceiver, ReceiveWaited(p), UNCHANGED senderVars
    PROVE  Inv'
<1>1. /\ rstate = "run" /\ p.block # 0 /\ receivePkt' = TRUE
      /\ UNCHANGED senderVars
  BY DEF ReceiveWaited, IsWaited
<1>2. PICK n \in 0 .. MaxWindow - 1 :
          /\ Written' = Written + n + 1 /\ Written' <= inPos
          /\ out' \in Seq(1 .. NBlocks) /\ \A i \in 1 .. Written' : out'[i] = i
          /\ waitedSeqnum' = Following(n + 1) /\ list' = Shifted(n + 1)
          /\ toReceiver' = LivingData(toReceiver, Written + n + 1)
          /\ n + 1 < MaxWindow => list[n + 1] = NoPkt
          /\ rstate' = rstate
          /\ toSender' = toSender \cup {Reply("ACK", waitedSeqnum', Written')}
  BY WaitedDrains
<1>3. /\ inPos \in 0 .. NBlocks /\ inPos \in Nat /\ Written \in Nat /\ Acked \in Nat
      /\ Acked <= Written /\ Written <= inPos
  BY Positions, Constants
<1>4. waitedSeqnum' = SeqOf(Written') /\ waitedSeqnum' \in Seqnum
  <2>1. n + 1 \in 0 .. SeqMod - 1 /\ Written + (n + 1) = Written + n + 1
    BY <1>3, Constants, SMT
  <2>2. waitedSeqnum = SeqOf(Written)
    BY DEF Inv, PositionsInv
  <2>3. Following(n + 1) = SeqOf(Written + (n + 1))
    BY <1>3, <2>1, <2>2, SeqOfPlus DEF Following
  <2>4. Written + n + 1 \in Nat
    BY <1>3, SMT
  <2> QED
    BY <1>2, <2>1, <2>3, <2>4, SeqOfType
<1>5. list' \in [Slots -> DataPkt \cup {NoPkt}]
  <2>1. list \in [Slots -> DataPkt \cup {NoPkt}]
    BY DEF Inv, TypeOK, ReceiverTypeOK
  <2>2. \A i \in Slots : i + (n + 1) < MaxWindow => i + (n + 1) \in Slots
    BY Constants, SMT DEF Slots
  <2> QED
    BY <1>2, <2>1, <2>2 DEF Shifted
<1>6. ASSUME NEW i \in Slots, list'[i] # NoPkt
       PROVE  /\ i # 0 /\ list'[i].seqnum = (waitedSeqnum' + i) % SeqMod
              /\ list'[i].block = Written' + 1 + i /\ list'[i].block <= inPos
  <2>1. i + (n + 1) < MaxWindow /\ list'[i] = list[i + (n + 1)]
    BY <1>2, <1>6 DEF Shifted
  <2>2. /\ i + (n + 1) \in Slots /\ i \in Nat /\ i \in 0 .. SeqMod - 1
        /\ i + (n + 1) \in 0 .. SeqMod - 1
    BY <2>1, Constants, SMT DEF Slots
  <2>3. /\ list[i + (n + 1)].seqnum = Following(i + (n + 1))
        /\ list[i + (n + 1)].block = Written + 1 + (i + (n + 1))
        /\ list[i + (n + 1)].block <= inPos
    BY <1>6, <2>1, <2>2 DEF Inv, ListIsAhead, PositionsInv
  <2>4. i # 0
    <3> SUFFICES ASSUME i = 0 PROVE FALSE
      OBVIOUS
    <3>1. i + (n + 1) = n + 1
      BY SMT
    <3> QED
      BY <1>2, <1>6, <2>1, <3>1
  <2>5. Following(i + (n + 1)) = (waitedSeqnum' + i) % SeqMod
    <3>1. Following(i + (n + 1)) = SeqOf(Written + (i + (n + 1)))
      BY <1>3, <2>2, SeqOfPlus DEF Following, Inv, PositionsInv
    <3>2. Written' \in Nat /\ Written + (i + (n + 1)) = Written' + i
      BY <1>3, <1>2, <2>2, SMT
    <3>3. (SeqOf(Written') + i) % SeqMod = SeqOf(Written' + i)
      BY <2>2, <3>2, SeqOfPlus
    <3> QED
      BY <1>4, <3>1, <3>2, <3>3
  <2>6. Written + 1 + (i + (n + 1)) = Written' + 1 + i
    BY <1>3, <1>2, <2>2, SMT
  <2> QED
    BY <2>1, <2>3, <2>4, <2>5, <2>6
<1>7. Acked' = Acked /\ spc' = spc /\ inPos' = inPos /\ inbox' = inbox
       /\ window' = window /\ seqnum' = seqnum /\ pktInWindow' = pktInWindow
  BY <1>1 DEF senderVars
<1>8. Acked <= Written' /\ Written' <= inPos /\ Written' # 0 /\ Written' \in 0 .. NBlocks
       /\ Acked - Written' < AckLife /\ Written <= Written' /\ Written' \in Nat
  BY <1>3, <1>2, Constants, SMT
<1>9. PICK ack : ack = Reply("ACK", waitedSeqnum', Written')
  OBVIOUS
<1>10. ack \in AckPkt /\ IsReplied(ack)'
  <2>1. ack.type = "ACK" /\ ack.seqnum = waitedSeqnum' /\ ack.upto = Written'
    BY <1>9 DEF Reply
  <2>2. ack \in AckPkt
    BY <1>4, <1>8, <1>9 DEF Reply, AckPkt
  <2> QED
    BY <1>4, <1>7, <1>8, <2>1, <2>2 DEF IsReplied
<1>11. toSender' = toSender \cup {ack}
  BY <1>2, <1>9
<1>12. TypeOK'
  <2>1. NetworkTypeOK'
    BY <1>2, <1>10, <1>11 DEF Inv, TypeOK, NetworkTypeOK, LivingData
  <2>2. SenderTypeOK'
    BY <1>1 DEF Inv, TypeOK, SenderTypeOK, senderVars
  <2>3. ReceiverTypeOK'
    BY <1>1, <1>2, <1>4, <1>5 DEF Inv, TypeOK, ReceiverTypeOK
  <2> QED
    BY <2>1, <2>2, <2>3 DEF TypeOK
<1>13. WindowInv' /\ CountsAgree'
  BY <1>7 DEF Inv, WindowInv, CountsAgree
<1>14. PositionsInv'
  BY <1>4, <1>6, <1>7, <1>8 DEF PositionsInv
<1>15. FlightInv'
  <2>1. ASSUME NEW q \in toReceiver'
        PROVE  IsSent(q)'
    <3>1. q \in toReceiver /\ (q.block = 0 \/ Written' - (q.block - 1) <= DataLife)
      BY <1>2 DEF LivingData
    <3>2. q.block # 0
      <4> SUFFICES ASSUME q.block = 0 PROVE FALSE
        OBVIOUS
      <4>1. Written = inPos
        BY <3>1, ClosingIsWaited
      <4> QED
        BY <1>2, <1>3, <4>1, SMT
    <3>3. q.block <= inPos /\ q.seqnum = SeqOf(q.block - 1)
      BY <3>1, <3>2, Arriving
    <3> QED
      BY <1>7, <3>1, <3>2, <3>3 DEF IsSent
  <2>2. ASSUME NEW a, a \in AckPkt, IsReplied(a)
        PROVE  IsReplied(a)'
    <3>1. a.upto <= Written /\ a.upto \in Nat
      BY <2>2 DEF IsReplied, AckPkt
    <3>2. a.upto <= Written'
      BY <1>3, <1>8, <3>1, SMT
    <3> QED
      BY <1>7, <2>2, <3>2 DEF IsReplied
  <2>3. /\ \A a \in toSender : a \in AckPkt /\ IsReplied(a)
        /\ inbox # NoPkt => inbox \in AckPkt /\ IsReplied(inbox)
    BY DEF Inv, FlightInv, TypeOK, NetworkTypeOK, SenderTypeOK
  <2> QED
    BY <1>7, <1>10, <1>11, <2>1, <2>2, <2>3 DEF FlightInv
<1>16. ListIsAhead'
  BY <1>6 DEF ListIsAhead, Following
<1>17. OutputIsPrefix' /\ NoOverrun'
  BY <1>1, <1>2 DEF OutputIsPrefix, NoOverrun
<1> QED
  BY <1>12, <1>13, <1>14, <1>15, <1>16, <1>17 DEF Inv
----------------------------------------------------------------------------
\* The invariant is inductive.
LEMMA NextInv == Inv /\ [Next]_vars => Inv'
<1> SUFFICES ASSUME Inv, [Next]_vars PROVE Inv'
  OBVIOUS
<1>1. CASE SenderActs
  BY <1>1, SenderPreserves
<1>2. CASE SenderRefused
  BY <1>2, ReadAndFailPreserves
<1>3. CASE Outside
  BY <1>3, InputPreserves, LosePreserves DEF Outside
<1>4. CASE ReceiverActs
  BY <1>4, EndPreserves, ReceiveWaitedPreserves, ReceiveOtherPreserves
  DEF ReceiverActs, ReceiveData
<1>5. CASE Timeout
  BY <1>5, EndPreserves DEF Timeout
<1>6. CASE Truncate
  BY <1>6, TruncatePreserves
<1>7. CASE Terminated \/ UNCHANGED vars
  <2>1. rstate' # "overrun"
    BY <1>7 DEF Terminated, vars, receiverVars, Inv, NoOverrun
  <2>2. TypeOK'
    BY <1>7 DEF Terminated, vars, networkVars, senderVars, receiverVars, Inv, TypeOK,
                NetworkTypeOK, SenderTypeOK, ReceiverTypeOK
  <2> QED
    BY <1>7, <2>1, <2>2, Frame
    DEF Terminated, vars, networkVars, senderVars, receiverVars, Inv, FlightInv
<1> QED
  BY <1>1, <1>2, <1>3, <1>4, <1>5, <1>6, <1>7 DEF Next

\* Every seqnum in the system stands for one block, whatever the network does.
THEOREM InvHolds == Spec => []Inv
<1>1. Init => Inv
  BY InitInv
<1>2. Inv /\ [Next]_vars => Inv'
  BY NextInv
<1> QED
  BY <1>1, <1>2, PTL DEF Spec
----------------------------------------------------------------------------
\* Every variable of the two programs and of the network keeps its type: seqnums
\* and counters stay in a byte, the window within MAX_WINDOW_SIZE.
THEOREM TypeCorrect == Spec => []TypeOK
<1>1. Inv => TypeOK
  BY DEF Inv
<1> QED
  BY <1>1, InvHolds, PTL

\* read_write_loop_server.c:86-142: the output is the beginning of the input.
THEOREM OutputCorrect == Spec => []OutputIsPrefix
<1>1. Inv => OutputIsPrefix
  BY DEF Inv
<1> QED
  BY <1>1, InvHolds, PTL

\* read_write_loop_sender.c:165-170: what leaves the window is on disk.
THEOREM NothingForgotten == Spec => []AckedIsWritten
<1>1. Inv => AckedIsWritten
  BY DEF Inv, PositionsInv, AckedIsWritten
<1> QED
  BY <1>1, InvHolds, PTL

\* read_write_loop_server.c:13-19 and sorted_list.c:41-59: although in_window()
\* accepts seqnums that have no slot, no packet is stored past the array.
THEOREM ArrayNotOverrun == Spec => []NoOverrun
<1>1. Inv => NoOverrun
  BY DEF Inv
<1> QED
  BY <1>1, InvHolds, PTL

\* sorted_list.c:41-96: the packets kept are those of the next blocks, each in
\* the slot of its distance.
THEOREM ListCorrect == Spec => []ListIsAhead
<1>1. Inv => ListIsAhead
  BY DEF Inv
<1> QED
  BY <1>1, InvHolds, PTL

\* read_write_loop_sender.c: the counts of what is unacknowledged agree.
THEOREM CountsCorrect == Spec => []CountsAgree
<1>1. Inv => CountsAgree
  BY DEF Inv
<1> QED
  BY <1>1, InvHolds, PTL
----------------------------------------------------------------------------
\* The closing packet shares its seqnum with no data packet that can still
\* arrive: such a packet would have to be older than its lifetime.
THEOREM ClosingIsLast == Spec => []DisconnectIsLast
<1>1. Inv => DisconnectIsLast
  <2> SUFFICES ASSUME Inv, NEW p \in toReceiver, p.block = 0
               PROVE  /\ spc = "closed" /\ Written = inPos
                      /\ \A q \in toReceiver : q.block # 0 => q.seqnum # p.seqnum
    BY DEF DisconnectIsLast
  <2>1. spc = "closed" /\ p.seqnum = waitedSeqnum /\ Written = inPos
    BY ClosingIsWaited DEF Inv, FlightInv, IsSent
  <2>2. ASSUME NEW q \in toReceiver, q.block # 0, q.seqnum = p.seqnum
        PROVE  FALSE
    <3>1. q.block = Written + 1
      BY <2>1, <2>2, WaitedIsNext
    <3>2. q.block <= inPos
      BY <2>2, Arriving
    <3>3. inPos \in Nat
      BY Positions, Constants
    <3> QED
      BY <2>1, <3>1, <3>2, <3>3, SMT
  <2> QED
    BY <2>1, <2>2
<1> QED
  BY <1>1, InvHolds, PTL

\* The receiver's NACK names the packet it waits for, the sender resends the one
\* before (read_write_loop_sender.c:150-151,184): that one is always written.
THEOREM NackIsUseless == Spec => NackResendsOnlyWritten
<1>1. Inv /\ [Next]_vars =>
          [ReceiveNack => \A p \in toReceiver' \ toReceiver : p.block <= Written]_vars
  <2> SUFFICES ASSUME Inv, ReceiveNack, NEW p \in toReceiver' \ toReceiver
               PROVE  p.block <= Written
    OBVIOUS
  <2>1. PICK i \in Found(PrevSeq(inbox.seqnum), 1) : p = window[i]
    BY DEF ReceiveNack, SendData
  <2>2. i \in 1 .. Len(window) /\ window[i].seqnum = PrevSeq(inbox.seqnum)
    <3>1. i \in 1 .. Len(window)
      BY FoundInWindow
    <3> QED
      BY <3>1 DEF Found, FirstMatch
  <2>3. window[i] = [seqnum |-> SeqOf(Acked + i - 1), block |-> Acked + i]
    BY <2>2 DEF Inv, WindowInv
  <2>4. /\ inPos \in Nat /\ Written \in Nat /\ Acked \in Nat
        /\ Len(window) \in 0 .. MaxWindow /\ inPos = Acked + Len(window)
        /\ Acked <= Written /\ Written <= inPos
    BY Positions, Constants
  <2>5. PICK u \in Nat : /\ u = inbox.upto /\ u <= Written
                         /\ inbox.seqnum = SeqOf(u) /\ Acked - u < AckLife
    BY DEF ReceiveNack, Inv, TypeOK, SenderTypeOK, FlightInv, IsReplied, AckPkt
  <2>6. SeqOf(Acked + i - 1) = PrevSeq(SeqOf(u)) /\ p.block = Acked + i
    BY <2>1, <2>2, <2>3, <2>5
  <2>7. Acked + i - 1 \in Nat
    BY <2>2, <2>4, SMT
  <2>8. CASE u # 0
    <3>1. u - 1 \in Nat /\ (u - 1) + 1 = u
      BY <2>8, SMT
    <3>2. SeqOf(Acked + i - 1) = SeqOf(u - 1)
      BY <2>6, <3>1, PrevSeqOf
    <3>3. CASE Acked + i - 1 > u - 1
      <4>1. /\ Acked + i - u \in 1 .. SeqMod - 1
            /\ Acked + i - 1 = (u - 1) + (Acked + i - u)
        <5>1. AckGap + MaxWindow < SeqMod + 1
          BY SeqNumAssumption
        <5>2. i \in Nat /\ i <= MaxWindow /\ Acked - u < AckLife
          BY <2>2, <2>4, <2>5, Constants, SMT
        <5>3. Acked + i - u < SeqMod /\ Acked + i - u > 0
          BY <2>4, <3>3, <5>1, <5>2, Constants, SMT
        <5> QED
          BY <2>4, <5>2, <5>3, Constants, SMT
      <4> QED
        BY <2>7, <3>1, <3>2, <4>1, SeqOfInjective
    <3>4. CASE ~(Acked + i - 1 > u - 1)
      BY <2>2, <2>4, <2>5, <2>6, <3>4, SMT
    <3> QED
      BY <3>3, <3>4
  <2>9. CASE u = 0
    <3>1. Acked + i - 1 \in Seqnum /\ Acked + i - 1 < SeqMod - 1 /\ 0 \in Seqnum
      BY <2>2, <2>4, <2>5, <2>9, Constants, SMT DEF Seqnum
    <3>2. SeqOf(Acked + i - 1) = Acked + i - 1 /\ SeqOf(0) = 0
      BY <3>1, SeqOfSmall
    <3>3. PrevSeq(SeqOf(u)) = SeqMod - 1
      BY <2>9, <3>2 DEF PrevSeq
    <3> QED
      BY <2>4, <2>6, <3>1, <3>2, <3>3, Constants, SMT
  <2> QED
    BY <2>8, <2>9
<1> QED
  BY <1>1, InvHolds, PTL DEF Spec, NackResendsOnlyWritten
----------------------------------------------------------------------------
\* Init and every step keep what ReadsToEnd says of the end of the file; only a read()
\* or a datagram changes nb, and only an empty window lets the sender close.
LEMMA ReadsToEndNext == TypeOK /\ ReadsToEnd /\ [Next]_vars => ReadsToEnd'
<1> SUFFICES ASSUME TypeOK, ReadsToEnd, [Next]_vars PROVE ReadsToEnd'
  OBVIOUS
<1>1. CASE SenderActs
  <2> USE <1>1 DEF SenderActs, ReadsToEnd
  <2>1. CASE Poll
    BY <2>1 DEF Poll, InputReadable
  <2>2. CASE SkipInput
    <3>1. sendingWindowSize \in 1 .. MaxWindow
      BY DEF TypeOK, SenderTypeOK
    <3>2. pktInWindow = 0 => pktInWindow < sendingWindowSize
      BY <3>1, Constants, SMT
    <3> QED
      BY <2>2, <3>2 DEF SkipInput, MayRead, InputDone
  <2>3. CASE ReadEnd
    BY <2>3 DEF ReadEnd, InputDone
  <2>4. CASE ReadAndSend
    BY <2>4 DEF ReadAndSend, TakeBlock, InputDone
  <2>5. CASE SkipSocket \/ ReceiveGarbled \/ ReceiveAck \/ ReceiveNack
    BY <2>5 DEF SkipSocket, ReceiveGarbled, ReceiveAck, ReceiveNack, SocketDone
  <2>6. CASE CheckTimers \/ KeepGoing
    BY <2>6 DEF CheckTimers, KeepGoing
  <2>7. CASE Close
    BY <2>7 DEF Close, Finished
  <2> QED
    BY <2>1, <2>2, <2>3, <2>4, <2>5, <2>6, <2>7 DEF SenderStep
<1>2. CASE SenderRefused
  BY <1>2 DEF SenderRefused, ReadAndFail, TakeBlock, ReadsToEnd
<1>3. CASE Outside
  <2>1. CASE InputArrives
    <3>1. inAvail # NBlocks
      BY <2>1, Constants, SMT DEF InputArrives, TypeOK, SenderTypeOK
    <3> QED
      BY <2>1, <3>1 DEF InputArrives, ReadsToEnd
  <2>2. CASE Lose
    BY <2>2 DEF Lose, senderVars, ReadsToEnd
  <2> QED
    BY <1>3, <2>1, <2>2 DEF Outside
<1>4. CASE UNCHANGED senderVars
  BY <1>4 DEF senderVars, ReadsToEnd
<1> QED
  BY <1>1, <1>2, <1>3, <1>4
  DEF Next, ReceiverActs, Timeout, Truncate, Terminated, vars

LEMMA EndInvNext == Inv /\ EndInv /\ [Next]_vars => EndInv'
<1> SUFFICES ASSUME Inv, EndInv, [Next]_vars PROVE EndInv'
  OBVIOUS
<1>1. ReadsToEnd'
  BY ReadsToEndNext DEF Inv, EndInv
<1>2. (rstate' = "disconnected" => spc' = "closed")
  <2>1. CASE SenderActs \/ SenderRefused \/ Outside
    <3>1. rstate' = rstate
      BY <2>1 DEF SenderActs, SenderRefused, Outside, receiverVars
    <3>2. spc = "closed" => spc' = "closed"
      BY <2>1
      DEF SenderActs, SenderStep, Poll, SkipInput, ReadEnd, ReadAndSend, TakeBlock, SkipSocket,
          ReceiveGarbled, ReceiveAck, ReceiveNack, CheckTimers, KeepGoing, Close, SenderRefused, ReadAndFail,
          Outside, InputArrives, Lose, senderVars
    <3> QED
      BY <3>1, <3>2 DEF EndInv
  <2>2. CASE ReceiverActs
    <3>0. spc' = spc
      BY <2>2 DEF ReceiverActs, senderVars
    <3>1. CASE ClientArrives
      BY <3>0, <3>1 DEF ClientArrives
    <3>2. ASSUME NEW p \in toReceiver, ReceiveDisconnect(p)
          PROVE  spc = "closed"
      BY <3>2 DEF ReceiveDisconnect, Inv, FlightInv, IsSent
    <3>3. ASSUME NEW p \in toReceiver, ReceiveWaited(p)
          PROVE  rstate' = rstate
      BY <3>3, WaitedDrains
    <3>4. ASSUME NEW p \in toReceiver, ReceiveOther(p)
          PROVE  rstate' \in {rstate, "overrun"}
      BY <3>4, Zenon DEF ReceiveOther
    <3> QED
      BY <2>2, <3>0, <3>1, <3>2, <3>3, <3>4 DEF ReceiverActs, ReceiveData, EndInv
  <2>3. CASE Timeout \/ Truncate
    BY <2>3 DEF Timeout, GiveUp, Truncate, Truncation, ReceiveTruncated, senderVars,
                receiverVars, EndInv
  <2>4. CASE Terminated \/ UNCHANGED vars
    BY <2>4 DEF Terminated, vars, senderVars, receiverVars, EndInv
  <2> QED
    BY <2>1, <2>2, <2>3, <2>4 DEF Next
<1> QED
  BY <1>1, <1>2 DEF EndInv

LEMMA EndInvInit == Init => EndInv
BY DEF Init, SenderInit, ReceiverInit, EndInv, ReadsToEnd

LEMMA EndInvHolds == Spec => []EndInv
BY EndInvInit, EndInvNext, InvHolds, PTL DEF Spec

\* A sender that closed left nothing behind, and read the whole of a regular file.
LEMMA InvCloses == Inv /\ EndInv => ClosedIsWritten
<1> SUFFICES ASSUME Inv, EndInv, spc = "closed"
             PROVE  Written = inPos /\ (StreamInput \/ inPos = NBlocks)
  BY DEF ClosedIsWritten
<1>1. Written = inPos
  <2>1. Len(window) = 0
    BY EmptySeq DEF Inv, WindowInv
  <2> QED
    BY <2>1, Positions, SMT
<1>2. ~StreamInput => inPos = NBlocks
  BY DEF EndInv, ReadsToEnd
<1> QED
  BY <1>1, <1>2, StreamAssumption

\* read_write_loop_sender.c:239-262: a sender closes with everything delivered.
THEOREM NothingLeftBehind == Spec => []ClosedIsWritten
BY InvHolds, EndInvHolds, InvCloses, PTL
----------------------------------------------------------------------------
\* To the abstract specification an output that has grown is one it wrote.
LEMMA OutputGrows ==
    ASSUME out \in Seq(1 .. NBlocks), OutputIsPrefix, NEW k \in Nat,
           out' \in Seq(1 .. NBlocks), Written' = Written + k,
           \A i \in 1 .. Written' : out'[i] = i
    PROVE  out' = out \o [i \in 1 .. k |-> Written + i]
<1>0. Written \in Nat
  BY LenProperties
<1>1. PICK more : more = [i \in 1 .. k |-> Written + i]
  OBVIOUS
<1>2. /\ out \in Seq(Nat) /\ out' \in Seq(Nat) /\ \A i \in 1 .. Written : out[i] = i
      /\ more \in Seq(Nat) /\ Len(more) = k /\ \A i \in 1 .. k : more[i] = Written + i
  <2>1. out \in Seq(Nat) /\ out' \in Seq(Nat)
    BY Constants, SMT
  <2>2. \A i \in 1 .. Written : out[i] = i
    BY DEF OutputIsPrefix
  <2> QED
    BY <1>0, <1>1, <2>1, <2>2
<1>3. /\ out \o more \in Seq(Nat) /\ Len(out \o more) = Written + k
      /\ \A i \in 1 .. Written + k : (out \o more)[i] =
            IF i <= Written THEN out[i] ELSE more[i - Written]
  <2>1. /\ out \o more \in Seq(Nat) /\ Len(out \o more) = Len(out) + Len(more)
        /\ \A i \in 1 .. Len(out) + Len(more) : (out \o more)[i] =
              IF i <= Len(out) THEN out[i] ELSE more[i - Len(out)]
    BY <1>2, ConcatProperties
  <2> QED
    BY <1>2, <2>1 DEF Written
<1>4. ASSUME NEW i \in 1 .. Written + k
      PROVE  out'[i] = (out \o more)[i]
  <2>1. out'[i] = i
    OBVIOUS
  <2>2. CASE i <= Written
    <3>1. i \in 1 .. Written
      BY <1>0, <2>2, SMT
    <3> QED
      BY <1>2, <1>3, <2>1, <2>2, <3>1
  <2>3. CASE ~(i <= Written)
    <3>1. i - Written \in 1 .. k /\ Written + (i - Written) = i
      BY <1>0, <2>3, SMT
    <3> QED
      BY <1>2, <1>3, <2>1, <2>3, <3>1
  <2> QED
    BY <2>2, <2>3
<1>5. out' = out \o more
  BY <1>2, <1>3, <1>4, SeqEqual DEF Written
<1> QED
  BY <1>1, <1>5

\* Every step is one of the abstract specification, or changes nothing it sees.
LEMMA StepsMap ==
    Inv /\ Inv' /\ EndInv /\ [Next]_vars => [Abstract!Next]_(Abstract!vars)
<1> SUFFICES ASSUME Inv, Inv', EndInv, [Next]_vars
             PROVE  [Abstract!Next]_(Abstract!vars)
  OBVIOUS
<1> USE DEF Abstract!Next, Abstract!vars
<1>0. /\ inPos \in 0 .. NBlocks /\ Written \in Nat /\ Written <= inPos
      /\ rstate # "overrun" /\ rstate' # "overrun"
  BY Positions DEF Inv, NoOverrun
<1>1. ASSUME UNCHANGED <<inPos, out, spc, rstate>>
      PROVE  UNCHANGED Abstract!vars
  BY <1>1
<1>2. CASE SenderActs
  <2>1. CASE ReadAndSend
    <3>1. /\ spc = "input" /\ spc' = "socket" /\ inPos < NBlocks /\ inPos' = inPos + 1
          /\ UNCHANGED <<out, rstate>>
      <4>1. inPos < inAvail /\ inAvail \in 0 .. NBlocks
        BY <2>1 DEF ReadAndSend, TakeBlock, Inv, TypeOK, SenderTypeOK
      <4>2. inPos < NBlocks
        BY <1>0, <4>1, Constants, SMT
      <4> QED
        BY <1>2, <2>1, <4>2
        DEF SenderActs, ReadAndSend, TakeBlock, InputDone, receiverVars
    <3>2. Abstract!Read
      BY <3>1 DEF Abstract!Read
    <3> QED
      BY <3>2
  <2>2. CASE Close
    <3>1. /\ spc = "close" /\ spc' = "closed"
          /\ UNCHANGED <<inPos, out, rstate>>
      BY <1>2, <2>2 DEF SenderActs, Close, receiverVars
    <3>2. Written = inPos
      <4>1. Len(window) = 0
        BY <2>2 DEF Close, Finished, Inv, CountsAgree
      <4>2. /\ inPos = Acked + Len(window) /\ Acked \in Nat
            /\ Acked <= Written /\ Written <= inPos
        BY Positions
      <4> QED
        BY <1>0, <4>1, <4>2, SMT
    <3>3. StreamInput \/ inPos = NBlocks
      BY <2>2, StreamAssumption DEF Close, Finished, EndInv, ReadsToEnd
    <3>4. Abstract!Finish
      <4>1. CASE StreamInput
        BY <3>1, <3>2, <4>1 DEF Abstract!Finish, Written
      <4>2. CASE inPos = NBlocks
        BY <3>1, <3>2, <4>2 DEF Abstract!Finish, Written
      <4> QED
        BY <3>3, <4>1, <4>2
    <3> QED
      BY <3>4
  <2>3. CASE ~ReadAndSend /\ ~Close
    <3>1. UNCHANGED <<inPos, out, rstate>>
      BY <1>2, <2>3
      DEF SenderActs, SenderStep, Poll, SkipInput, ReadEnd, SkipSocket, ReceiveGarbled,
          ReceiveAck, ReceiveNack, CheckTimers, KeepGoing, receiverVars
    <3>2. /\ spc \in {"poll", "input", "socket", "timers", "close"}
          /\ spc' \in {"poll", "input", "socket", "timers", "close"}
      BY <1>2, <2>3
      DEF SenderActs, SenderStep, Poll, SkipInput, ReadEnd, SkipSocket, ReceiveGarbled,
          ReceiveAck, ReceiveNack, CheckTimers, KeepGoing, InputDone, SocketDone
    <3>3. UNCHANGED Abstract!vars
      BY <3>1, <3>2
    <3> QED
      BY <3>3
  <2> QED
    BY <2>1, <2>2, <2>3
<1>3. CASE SenderRefused
  <2>1. /\ spc = "input" /\ spc' = "failed" /\ inPos < NBlocks /\ inPos' = inPos + 1
        /\ UNCHANGED <<out, rstate>>
    <3>1. inPos < inAvail /\ inAvail \in 0 .. NBlocks
      BY <1>3 DEF SenderRefused, ReadAndFail, TakeBlock, Inv, TypeOK, SenderTypeOK
    <3>2. inPos < NBlocks
      BY <1>0, <3>1, Constants, SMT
    <3> QED
      BY <1>3, <3>2 DEF SenderRefused, ReadAndFail, TakeBlock, receiverVars
  <2>2. rstate = "timedout"
    BY <1>3, <2>1 DEF SenderRefused, ReceiverGone, EndInv
  <2>3. Abstract!Abort
    BY <2>1, <2>2 DEF Abstract!Abort
  <2> QED
    BY <2>3
<1>4. CASE ReceiverActs
  <2>0. UNCHANGED <<inPos, spc>>
    BY <1>4 DEF ReceiverActs, senderVars
  <2>1. CASE ClientArrives
    BY <2>0, <2>1 DEF ClientArrives
  <2>2. ASSUME NEW p \in toReceiver, ReceiveDisconnect(p)
        PROVE  Abstract!Complete
    <3>1. /\ rstate = "run" /\ rstate' = "disconnected" /\ spc = "closed"
          /\ UNCHANGED out
      BY <2>2 DEF ReceiveDisconnect, Inv, FlightInv, IsSent
    <3> QED
      BY <2>0, <3>1 DEF Abstract!Complete
  <2>3. ASSUME NEW p \in toReceiver, ReceiveWaited(p)
        PROVE  Abstract!Write
    <3>1. rstate = "run" /\ rstate' = rstate
      BY <2>3, WaitedDrains DEF ReceiveWaited
    <3>2. PICK n \in 0 .. MaxWindow - 1 :
              /\ Written' = Written + n + 1 /\ Written' <= inPos
              /\ out' \in Seq(1 .. NBlocks) /\ \A i \in 1 .. Written' : out'[i] = i
      BY <2>3, WaitedDrains
    <3>3. PICK k : k = n + 1
      OBVIOUS
    <3>4. k \in Nat /\ k \in 1 .. inPos - Written /\ Written' = Written + k
      BY <1>0, <3>2, <3>3, Constants, SMT
    <3>5. out \in Seq(1 .. NBlocks) /\ OutputIsPrefix
      BY DEF Inv, TypeOK, ReceiverTypeOK
    <3>6. out' = out \o [i \in 1 .. k |-> Written + i]
      BY <3>2, <3>4, <3>5, OutputGrows
    <3> QED
      BY <2>0, <3>1, <3>4, <3>6 DEF Abstract!Write, Written
  <2>4. ASSUME NEW p \in toReceiver, ReceiveOther(p)
        PROVE  UNCHANGED Abstract!vars
    <3>1. rstate' \in {rstate, "overrun"} /\ UNCHANGED out
      BY <2>4, Zenon DEF ReceiveOther
    <3> QED
      BY <1>0, <2>0, <3>1
  <2> QED
    BY <1>4, <2>1, <2>2, <2>3, <2>4 DEF ReceiverActs, ReceiveData
<1>5. CASE Timeout
  <2>1. /\ rstate = "run" /\ rstate' = "timedout"
        /\ UNCHANGED <<inPos, out, spc>>
    BY <1>5 DEF Timeout, GiveUp, senderVars
  <2>2. Abstract!Cut
    BY <2>1 DEF Abstract!Cut
  <2> QED
    BY <2>2
<1>6. CASE Outside \/ Truncate \/ Terminated \/ UNCHANGED vars
  BY <1>1, <1>6
  DEF Outside, InputArrives, Lose, Truncate, Truncation, ReceiveTruncated, Terminated, vars,
      senderVars, receiverVars
<1> QED
  BY <1>2, <1>3, <1>4, <1>5, <1>6 DEF Next

\* The two programs over their network do what a transfer of a file promises.
THEOREM Implementation == Spec => ImplementsFileTransfer
<1>1. Init => Abstract!Init
  BY DEF Init, SenderInit, ReceiverInit, Abstract!Init
<1> QED
  BY <1>1, StepsMap, InvHolds, EndInvHolds, PTL
  DEF Spec, ImplementsFileTransfer, Abstract!Spec
=============================================================================
