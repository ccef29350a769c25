--------------------------- MODULE MCMqttSession ---------------------------
(* MqttSession for TLC: the pcbs are interchangeable.                      *)
EXTENDS MqttSession, TLC

PcbSymmetry == Permutations(Pcbs)
=============================================================================
