--------------------------- MODULE MCResourcePool ---------------------------
(* ResourcePool for TLC. *)
EXTENDS ResourcePool

CONSTANTS u1, u2

MCUsers == {u1, u2}
MCSizes == {1}
MCNoSizes == {}
=============================================================================
