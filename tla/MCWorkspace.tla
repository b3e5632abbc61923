---------------------------- MODULE MCWorkspace ----------------------------
(* Two tabs and two hunts: one tab saves or undoes what the other has not    *)
(* read; and as many queries as are kept, so that a run can push one out.    *)
EXTENDS Workspace
=============================================================================
