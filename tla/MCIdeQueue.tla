------------------------------ MODULE MCIdeQueue ------------------------------
(* IdeQueue with three clients, for TLC.                                   *)
EXTENDS IdeQueue

=============================================================================
