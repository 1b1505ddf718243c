-------------------------- MODULE MCCanIsoTpSocket --------------------------
(* Two values of everything that can be set. *)
EXTENDS CanIsoTpSocket

MCStructValues == {"default", "other"}
=============================================================================
