---------------------------- MODULE MCFifoFormal ----------------------------
(* The harness at its own depth of 4, over two data values: enough to tell a  *)
(* slot that was overwritten, skipped or read twice.                          *)
EXTENDS FifoFormal

CONSTANTS d1, d2

MCData == {d1, d2}
MCDepth == 4
=============================================================================
