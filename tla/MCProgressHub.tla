---------------------------- MODULE MCProgressHub ----------------------------
(* Instances of ProgressHub for TLC. *)
EXTENDS ProgressHub

=============================================================================
