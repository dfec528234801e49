---------------------------- MODULE MCStripeWrite ---------------------------
(* Model-checking instances of StripeWrite. *)
EXTENDS StripeWrite, TLC

\* Calls differ only in what they choose to do, so they may be permuted.
CallSymmetry == Permutations(Calls)
=============================================================================
