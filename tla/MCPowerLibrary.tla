--------------------------- MODULE MCPowerLibrary ---------------------------
(***************************************************************************)
(* Small instances of PowerLibrary for TLC.                                *)
(***************************************************************************)
EXTENDS PowerLibrary

MCTwoCPUs == {0, 1}
MCTwoLists == {{0}, {0, 1}}

=============================================================================
