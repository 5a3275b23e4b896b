------------------------------- MODULE MCBridge -------------------------------
(* Instances of Bridge for TLC. *)
EXTENDS Bridge, TLC

CONSTANTS n1, n2, c1, c2, t1, t2

\* One DLMM that can dial twice, so that a reconnect may overlap.
OneNodeOwner == c1 :> n1 @@ c2 :> n1
OneNodeTarget == t1 :> n1 @@ t2 :> n1
OneTaskTarget == t1 :> n1

\* Two DLMMs with one slot each.
TwoNodeOwner == c1 :> n1 @@ c2 :> n2

\* The slots of one DLMM are interchangeable.
SlotSymmetry == Permutations({c1, c2})

=============================================================================
