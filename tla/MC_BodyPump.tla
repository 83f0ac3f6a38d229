---------------------------- MODULE MC_BodyPump ----------------------------
(* Small instances of BodyPump for TLC. *)
EXTENDS BodyPump

ThePump == {Pump}
TheHandler == {Handler}
=============================================================================
