------------------------------- MODULE MCStream -------------------------------
(* Stream with a short buffer, for TLC.                                    *)
EXTENDS Stream

=============================================================================
