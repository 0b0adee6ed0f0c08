---------------------------- MODULE MCMqttBridge ----------------------------
(* MqttBridge, for TLC. *)
EXTENDS MqttBridge

\* Off; on; on with commands; on with a host that is refused.
Offered ==
  {[enabled |-> FALSE, host |-> "broker", commands |-> TRUE],
   [enabled |-> TRUE, host |-> "broker", commands |-> FALSE],
   [enabled |-> TRUE, host |-> "broker", commands |-> TRUE],
   [enabled |-> TRUE, host |-> "blocked", commands |-> FALSE]}
=============================================================================
