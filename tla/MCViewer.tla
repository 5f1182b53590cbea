------------------------------ MODULE MCViewer ------------------------------
(* Instances of Viewer for TLC. *)
EXTENDS Viewer, TLC
=============================================================================
