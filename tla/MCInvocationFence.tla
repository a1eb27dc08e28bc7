------------------------- MODULE MCInvocationFence -------------------------
(***************************************************************************)
(* Instances of InvocationFence: two workers share one attempt through its *)
(* generations, or two attempts share one aggregate budget.                *)
(***************************************************************************)
EXTENDS InvocationFence

CONSTANTS w1, w2

MCWorkers == {w1, w2}

=============================================================================
