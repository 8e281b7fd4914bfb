--------------------------- MODULE MCPowerConfig ---------------------------
(***************************************************************************)
(* Small instances of PowerConfigController for TLC.                       *)
(***************************************************************************)
EXTENDS PowerConfigController

=============================================================================
