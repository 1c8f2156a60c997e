------------------------------ MODULE MCAtaIrq ------------------------------
(***************************************************************************)
(* Small instances of AtaIrq: two sectors of two values.                   *)
(***************************************************************************)
EXTENDS AtaIrq

Sectors == {0, 1}
Bits == {"zero", "one"}
=============================================================================
