------------------------- MODULE MCWorkspaceSystem -------------------------
(* Small instances of WorkspaceSystem for TLC. *)
EXTENDS WorkspaceSystem
=============================================================================
