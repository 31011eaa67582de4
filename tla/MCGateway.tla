----------------------------- MODULE MCGateway -----------------------------
(* Small instances of Gateway for TLC. *)
EXTENDS GatewayPools, TLC

Unlimited == [w \in Windows |-> 0]
Caps == [minute |-> 2, day |-> 3, month |-> 1]
TwoTokens == [w \in Windows |-> 2]

\* Requests are interchangeable in Init and Next.
RequestSymmetry == Permutations(Requests)

=============================================================================
