--------------------------- MODULE MCTokenBucket ---------------------------
(* Four-bit tokens.  The configurations lower and raise the burst and the     *)
(* interval against each other; the third has a burst and a rate whose sum    *)
(* wraps, and refills on every edge.                                          *)
EXTENDS TokenBucket

Config(rate, burst, interval) ==
  [rate |-> rate, burst |-> burst, interval |-> interval]

MCConfigs == {Config(3, 10, 2), Config(1, 4, 1), Config(4, 14, 0)}
MCLengths == {0, 2, 5}
=============================================================================
