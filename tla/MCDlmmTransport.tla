---------------------------- MODULE MCDlmmTransport ----------------------------
(* Instances of DlmmTransport for TLC. *)
EXTENDS DlmmTransport

CONSTANTS m1, m2

=============================================================================
