---------------------------- MODULE FileTransfer ----------------------------
(***************************************************************************)
(* What a transfer promises, without packets, windows or a network: the    *)
(* receiver writes the blocks the sender read, each once and in order; the *)
(* sender finishes only when all it read is written, which for a regular   *)
(* file is the whole file; the receiver is told of the end only when the   *)
(* sender finished, and may otherwise be cut off by its timer, after which *)
(* the sender may give up.                                                 *)
(***************************************************************************)
EXTENDS Integers, Sequences

CONSTANTS NBlocks, StreamInput

VARIABLES
    taken,      \* how many blocks the sender has read
    written,    \* what the receiver has written
    sender,     \* "sending", "finished" or "aborted"
    receiver    \* "receiving", "complete" or "cut"

vars == <<taken, written, sender, receiver>>

Init == taken = 0 /\ written = <<>> /\ sender = "sending" /\ receiver = "receiving"

Read ==
    /\ sender = "sending" /\ taken < NBlocks
    /\ taken' = taken + 1
    /\ UNCHANGED <<written, sender, receiver>>

\* Any number of the blocks read and not yet written, in order.
Write ==
    /\ receiver = "receiving"
    /\ \E k \in 1 .. taken - Len(written) :
          written' = written \o [i \in 1 .. k |-> Len(written) + i]
    /\ UNCHANGED <<taken, sender, receiver>>

Finish ==
    /\ sender = "sending"
    /\ Len(written) = taken
    /\ StreamInput \/ taken = NBlocks
    /\ sender' = "finished"
    /\ UNCHANGED <<taken, written, receiver>>

Complete ==
    /\ receiver = "receiving" /\ sender = "finished"
    /\ receiver' = "complete"
    /\ UNCHANGED <<taken, written, sender>>

Cut ==
    /\ receiver = "receiving"
    /\ receiver' = "cut"
    /\ UNCHANGED <<taken, written, sender>>

\* The sender had read one more block when it found out that nobody listens.
Abort ==
    /\ sender = "sending" /\ receiver = "cut" /\ taken < NBlocks
    /\ taken' = taken + 1
    /\ sender' = "aborted"
    /\ UNCHANGED <<written, receiver>>

Next == Read \/ Write \/ Finish \/ Complete \/ Cut \/ Abort

Spec == Init /\ [][Next]_vars
=============================================================================
