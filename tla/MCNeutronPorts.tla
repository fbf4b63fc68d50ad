---------------------------- MODULE MCNeutronPorts ----------------------------
(* Four calls of any kind about one port name and two addresses. *)
EXTENDS NeutronPorts, TLC

Symmetry == Permutations(Calls) \cup Permutations(Addresses)
================================================================================
