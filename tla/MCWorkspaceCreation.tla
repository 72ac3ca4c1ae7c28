------------------------- MODULE MCWorkspaceCreation -------------------------
(* Small instances of WorkspaceCreation for TLC.  The run checks liveness, so
   requests and names are not taken to be symmetric. *)
EXTENDS WorkspaceCreation, TLC
=============================================================================
