------------------------------ MODULE MCNode ------------------------------
(***************************************************************************)
(* Node with limits below, at and above the least values, on a host whose  *)
(* own are above them.                                                     *)
(***************************************************************************)
EXTENDS Node

GivenNumbers == {-1, 0, 2}
HostDefaults == [l \in Limits |-> 2]
=============================================================================
