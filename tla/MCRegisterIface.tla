-------------------------- MODULE MCRegisterIface --------------------------
(* A register, half of a counter, and an address documented as a register     *)
(* (0x40 or 0x60) that selects none; two data values; every kind of master.   *)
EXTENDS RegisterIface

CONSTANTS r1, s1, x1

MCReg == {r1}
MCStat == {s1}
MCBeyond == {x1}
MCData == {0, 1}
MCMasters == [apart : BOOLEAN, delays : BOOLEAN]
=============================================================================
