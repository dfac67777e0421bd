------------------------- MODULE MCPacketScheduler -------------------------
(* Strict priority, and round robin with the weights of tb_scheduler.cpp:121  *)
(* (2, 1, 1), with a larger weight on the lowest queue, and with a queue that *)
(* has none.  Classes 0, 2 and 3 are the testbench's, 7 is the default case.  *)
EXTENDS PacketScheduler, TLC

Weights(high, med, low) == (Q_HIGH :> high) @@ (Q_MED :> med) @@ (Q_LOW :> low)

MCConfigs ==
  {[SCHED_MODE |-> STRICT, wrr_weight |-> Weights(1, 1, 1)]} \cup
  {[SCHED_MODE |-> WRR, wrr_weight |-> w] :
     w \in {Weights(2, 1, 1), Weights(1, 2, 3), Weights(0, 1, 2), Weights(1, 0, 2)}}

MCClasses == {0, 2, 3, 7}
=============================================================================
