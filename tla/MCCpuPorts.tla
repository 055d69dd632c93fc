----------------------------- MODULE MCCpuPorts -----------------------------
(***************************************************************************)
(* Two lines and two ports; neither lines nor ports can be told apart.     *)
(***************************************************************************)
EXTENDS CpuPorts, TLC

Symmetry == Permutations(Lines) \cup Permutations(Ports)
=============================================================================
