----------------------------- MODULE MCCanFrame -----------------------------
(* Frames of up to one and two bytes instead of 8 and 64. *)
EXTENDS CanFrame

MCPayload == {7}
=============================================================================
