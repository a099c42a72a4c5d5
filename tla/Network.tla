------------------------------ MODULE Network ------------------------------
(***************************************************************************)
(* The two directions of the UDP path between sender and receiver.  A      *)
(* datagram in flight may be lost, overtaken or delivered more than once:  *)
(* a direction is the set of datagrams that can still arrive, a delivery   *)
(* leaves its datagram there, and Lose takes one away at any moment.  A    *)
(* corrupted datagram fails its CRC: the receiver ignores it, as if it had *)
(* been lost, and what else it does in the sender is an action there.  A   *)
(* truncated one is an action of the receiver.                             *)
(*                                                                         *)
(* A payload is the number of the block of the input it carries, 1, 2,     *)
(* ..., and 0 stands for the empty payload of the packet that closes the   *)
(* connection.  An ACK or NACK also carries `upto', the number of blocks   *)
(* written when it was sent.  Neither program reads `upto', and no guard   *)
(* of a program reads a block number except to test it against 0: with the *)
(* lifetimes they bound how old a datagram can be when it arrives, which a *)
(* one-byte seqnum cannot tell.                                            *)
(***************************************************************************)
EXTENDS SeqNum

CONSTANTS
    NBlocks,    \* number of blocks of the input
    DataLife,   \* how many blocks may be written while a data packet is in flight
    AckLife,    \* how many blocks may leave the window while an ACK is in flight
    NoPkt       \* the absence of a packet

\* A data packet older than DataLife blocks could be taken for a new one and an
\* ACK older than AckLife blocks could be taken for an ACK of the future.
ASSUME NetworkAssumption ==
    /\ NBlocks \in Nat
    /\ DataLife \in Nat /\ MaxWindow <= DataLife /\ DataLife + AcceptSpan < SeqMod
    /\ AckLife \in Nat \ {0}
    /\ AckLife <= AckGap /\ AckLife + AckGap < SeqMod

VARIABLES
    toReceiver,   \* data packets in flight
    toSender      \* ACK and NACK packets in flight

networkVars == <<toReceiver, toSender>>

DataPkt == [seqnum : Seqnum, block : 0 .. NBlocks]

AckPkt == [type : {"ACK", "NACK"}, seqnum : Seqnum, window : {MaxWindow},
           upto : 0 .. NBlocks]

ASSUME NoPktAssumption == NoPkt \notin DataPkt \cup AckPkt

NetworkTypeOK ==
    /\ toReceiver \subseteq DataPkt
    /\ toSender \subseteq AckPkt

NetworkInit == toReceiver = {} /\ toSender = {}

\* The data packets of pkts that can still arrive once `written' blocks are written.
LivingData(pkts, written) ==
    {p \in pkts : p.block = 0 \/ written - (p.block - 1) <= DataLife}

\* The ACKs of acks that can still arrive once `gone' blocks left the window.
LivingAcks(acks, gone) == {a \in acks : gone - a.upto < AckLife}

LoseData == \E p \in toReceiver :
    toReceiver' = toReceiver \ {p} /\ UNCHANGED toSender

LoseAck == \E a \in toSender :
    toSender' = toSender \ {a} /\ UNCHANGED toReceiver
=============================================================================
