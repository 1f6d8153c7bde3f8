------------------------------ MODULE MCViewerHome ------------------------------
(* The starters of one home; they and their bounds are in viewerhome.cfg. *)
EXTENDS ViewerHome
=============================================================================
