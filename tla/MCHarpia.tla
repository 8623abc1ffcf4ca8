------------------------------ MODULE MCHarpia ------------------------------
(***************************************************************************)
(* Bounds: two threads in the I2C and SPI drivers, two polls in each loop; *)
(* three I2C transfers, of which a read has two bytes; two SPI transfers   *)
(* of up to two bytes through a fifo of one, and lengths refused at either *)
(* end; two writers and two readers of the UART, fifos of two characters,  *)
(* a character that arrives; the voltages around every limit of            *)
(* pmicRegulatorSetVoltage and both ends of a UInt16, three calls.         *)
(***************************************************************************)
EXTENDS Harpia, TLC

CONSTANTS c1, c2

Limits == {0, 371, 1140, 1500, 1525, 1775, 2300, 4340, 65535}
MCVoltages == UNION {(l - 8)..(l + 16) : l \in Limits} \cap 0..65535
MCText == c1 :> <<"a", "NL">> @@ c2 :> <<"b">>
=============================================================================
