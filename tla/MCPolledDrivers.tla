--------------------------- MODULE MCPolledDrivers ---------------------------
(* Bounds for TLC: every loop polls twice, four commands are given; a      *)
(* transfer is of no byte, of one, or reaches SPMI_OWNER_REG.              *)
EXTENDS PolledDrivers
=============================================================================
