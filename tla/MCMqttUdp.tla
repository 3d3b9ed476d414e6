----------------------------- MODULE MCMqttUdp -----------------------------
(* MqttUdp for TLC. Devices, addresses and ids are interchangeable.        *)
EXTENDS MqttUdp, TLC

CONSTANTS d1, d2, a1, a2, n1, n2

MCDevices == {d1, d2}
MCAddrs == {a1, a2}
MCConnIds == {n1, n2}

Symmetry ==
  Permutations(MCDevices) \cup Permutations(MCAddrs) \cup Permutations(MCConnIds)
=============================================================================
