----------------------------- MODULE MCLinkSim -----------------------------
(***************************************************************************)
(* LinkSim for model checking: the datagrams are interchangeable.          *)
(***************************************************************************)
EXTENDS LinkSim, TLC

Symmetry == Permutations(Packets)
=============================================================================
