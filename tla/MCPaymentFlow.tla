----------------------------- MODULE MCPaymentFlow -----------------------------
(***************************************************************************)
(* A small instance of PaymentFlow: one row, two handlers.                 *)
(***************************************************************************)
EXTENDS PaymentFlow, TLC

CONSTANTS pay1, a, b

Handlers == Permutations({a, b})
===============================================================================
