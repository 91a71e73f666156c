-------------------------- MODULE MCMqttWsClient --------------------------
(* Three envelopes in packets of three units, and a loop that takes two     *)
(* packets at most: a packet is cut in two places, another socket's rest    *)
(* comes before it, and a chunk leaves a whole packet in the buffer.        *)
EXTENDS MqttWsClient
============================================================================
