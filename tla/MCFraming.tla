------------------------------- MODULE MCFraming -------------------------------
(* One stream of up to three frames: empty, at the limit, beyond it, and     *)
(* beyond what the length field holds.                                       *)
EXTENDS Framing

MCSize == {0, 1, 2, 5}

=============================================================================
