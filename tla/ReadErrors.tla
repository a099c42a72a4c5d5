----------------------------- MODULE ReadErrors -----------------------------
(***************************************************************************)
(* The transfer of an input whose read() may fail.  The loop tests the     *)
(* result of read() for 0 only, so -1 is taken for a length: build_pkt()   *)
(* asks for a packet of that length, pkt_set_length() and                  *)
(* pkt_set_payload() refuse it, nobody looks at their results, and the     *)
(* length of the packet is what malloc() left in the struct:               *)
(*                                                                         *)
(*   "zero"   a packet without payload, as the closing packet is one;      *)
(*   "short"  at most 512: what malloc() left there goes out as a block;   *)
(*   "long"   more: pkt_encode() refuses, and the loop returns.            *)
(*                                                                         *)
(* A block is here whatever a result of read() other than 0 was made into, *)
(* so a failed read() takes a place among the blocks.                      *)
(***************************************************************************)
EXTENDS Transfer, FiniteSets

CONSTANTS
    Leftovers,    \* the lengths malloc() may leave: a subset of the three above
    MaxErrors     \* bound: how often read() fails

ASSUME ErrorsAssumption ==
    Leftovers \subseteq {"zero", "short", "long"} /\ MaxErrors \in Nat

VARIABLE failed   \* the failed reads, each with its place and what it left

errorVars == <<vars, failed>>

Places(length) == {f.place : f \in {g \in failed : g.length = length}}

ErrorsInit == Init /\ failed = {}
----------------------------------------------------------------------------
\* read() returns -1 and the packet has the length `length'.
ReadFails(length) ==
    /\ spc = "input" /\ MayRead /\ inPos < inAvail
    /\ Cardinality(failed) < MaxErrors
    /\ inReady' = FALSE
    /\ nb' = 1
    /\ failed' = failed \cup {[place |-> inPos + 1, length |-> length]}
    /\ UNCHANGED <<toSender, inbox, inAvail, sendingWindowSize, receiverVars>>

\* The packet of a failed read() carries a block, or nothing.
Built(length) ==
    [seqnum |-> seqnum, block |-> IF length = "zero" THEN 0 ELSE inPos + 1]

AddBuilt(length) ==
    /\ length # "long"
    /\ inPos' = inPos + 1
    /\ window' = Append(window, Built(length))

\* It is sent, kept and counted like any other ...
SendBuilt ==
    \E length \in Leftovers :
        /\ ReadFails(length) /\ AddBuilt(length)
        /\ spc' = "socket"
        /\ SendData({Built(length)})
        /\ pktInWindow' = pktInWindow + 1
        /\ seqnum' = NextSeq(seqnum)

\* ... or the receiver is gone and send() fails.
BuiltRefused ==
    \E length \in Leftovers :
        /\ ReceiverGone
        /\ ReadFails(length) /\ AddBuilt(length)
        /\ spc' = "failed"
        /\ UNCHANGED <<toReceiver, pktInWindow, seqnum>>

\* pkt_encode() has no room for it: the loop returns in the middle of the input.
EncodeFails ==
    /\ "long" \in Leftovers /\ ReadFails("long")
    /\ spc' = "failed"
    /\ UNCHANGED <<toReceiver, inPos, pktInWindow, seqnum, window>>

ErrorsNext ==
    \/ Next /\ UNCHANGED failed
    \/ SendBuilt \/ BuiltRefused \/ EncodeFails

ErrorsSpec == ErrorsInit /\ [][ErrorsNext]_errorVars
----------------------------------------------------------------------------
\* What waits in the list lies at its distance, and a packet without payload waits
\* there only where a read() failed: also across such a packet the list keeps the
\* order of the reads (server.c:109-128).
KeptInPlace ==
    rstate = "run" => \A i \in Slots : list[i] # NoPkt =>
        /\ i # 0 /\ list[i].seqnum = Following(i)
        /\ IF list[i].block = 0 THEN Written + 1 + i \in Places("zero")
           ELSE list[i].block = Written + 1 + i

\* A receiver that takes leave has been told to: by the closing packet, after
\* everything, or by a failed read(), exactly at its place, with all that was
\* read before it written and nothing of what was read after it (server.c:88, 110).
EndsAtError ==
    rstate = "disconnected" =>
        \/ spc = "closed" /\ Written = inPos
        \/ Written + 1 \in Places("zero")

\* Once it has read from a pipe the sender never closes: nb is not 0 again, for
\* at the end poll() reports POLLHUP, for which nobody looks (sender.c:110, 239).
PipeNeverCloses == StreamInput /\ (inPos > 0 \/ failed # {}) => spc # "closed"

----------------------------------------------------------------------------
(***************************************************************************)
(* The inductive invariant behind these: that of Transfer, with a packet   *)
(* that carries nothing in the places where a read() left a length of 0.   *)
(***************************************************************************)
Carried(n) == IF n \in Places("zero") THEN 0 ELSE n

PacketAt(n) == [seqnum |-> SeqOf(n - 1), block |-> Carried(n)]

\* A place without payload is read and never written; a loop that read one too long
\* is over, and it is over only for that or because the receiver is gone.
PlacesInv ==
    /\ \A n \in Places("zero") : n \in 1 .. inPos /\ Written < n
    /\ spc # "failed" => Places("long") = {}
    /\ spc = "failed" => ReceiverGone \/ Places("long") # {}

WindowHolds ==
    /\ Acked \in Nat
    /\ \A i \in 1 .. Len(window) : window[i] = PacketAt(Acked + i)
    /\ spc = "closed" => window = <<>>
    /\ spc # "failed" => pktInWindow = Len(window) /\ seqnum = SeqOf(Acked + pktInWindow)

OrderHolds ==
    /\ Acked <= Written /\ Written <= inPos
    /\ waitedSeqnum = SeqOf(Written)
    /\ receivePkt => Written # 0

ListHolds ==
    ~ReceiverGone => \A i \in Slots : list[i] # NoPkt =>
        i # 0 /\ Written + 1 + i <= inPos /\ list[i] = PacketAt(Written + 1 + i)

\* Under way are packets of places that were read, and the closing packet.
IsUnderWay(p) ==
    \/ \E n \in 1 .. inPos : p = PacketAt(n) /\ Written - (n - 1) <= DataLife
    \/ spc = "closed" /\ p = [seqnum |-> SeqOf(inPos), block |-> 0]

FlightHolds ==
    /\ \A p \in toReceiver : IsUnderWay(p)
    /\ \A a \in toSender : IsReplied(a)
    /\ inbox # NoPkt => IsReplied(inbox)

ErrorsInv ==
    /\ TypeOK /\ PlacesInv /\ WindowHolds /\ OrderHolds /\ ListHolds /\ FlightHolds
    /\ OutputIsPrefix /\ NoOverrun /\ EndsAtError
----------------------------------------------------------------------------
\* To the abstract transfer a program that a failed read() stops is one that takes
\* no more steps: a receiver that took a packet for the closing one, or a sender
\* that could not encode.
Stalled == INSTANCE FileTransfer WITH
    taken    <- inPos,
    written  <- out,
    sender   <- IF spc = "closed" THEN "finished"
                ELSE IF spc = "failed" /\ rstate = "timedout" /\ Places("long") = {}
                THEN "aborted" ELSE "sending",
    receiver <- IF rstate = "disconnected" /\ spc = "closed" THEN "complete"
                ELSE IF rstate = "timedout" THEN "cut"
                ELSE IF rstate = "overrun" THEN "overrun" ELSE "receiving"

\* Whatever read() fails, every block is written once, in order and before the
\* sender forgets it, and a sender that says it finished has.
ImplementsStalled == Stalled!Spec
=============================================================================
