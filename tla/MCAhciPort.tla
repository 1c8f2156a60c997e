----------------------------- MODULE MCAhciPort -----------------------------
(***************************************************************************)
(* Small instances of AhciPort: two sectors of two values.                 *)
(***************************************************************************)
EXTENDS AhciPort

Sectors == {0, 1}
Bits == {"zero", "one"}
=============================================================================
