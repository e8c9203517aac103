------------------------------ MODULE MCFaucet ------------------------------
(* Instances of Faucet for TLC: who asks for what. *)
EXTENDS Faucet, TLC

CONSTANTS w1, w2, w3, b1, b2, b3, b4, a1, a2, u1, u2

MCAuto == NoOverride

\* The two faucets share the signer.  w1 and w2 are for one address; so are
\* b1 and b2, while b2 and b3 are of one user.  w3 names an address that
\* does not parse, b4 the wrong amount.
MCMixedAddress ==
  (w1 :> a1) @@ (w2 :> a1) @@ (w3 :> a2) @@
  (b1 :> a1) @@ (b2 :> a1) @@ (b3 :> a2) @@ (b4 :> a1)
MCMixedDiscord == (b1 :> u1) @@ (b2 :> u2) @@ (b3 :> u2) @@ (b4 :> u1)

\* Every request is for one address and of one user.
MCSameAddress == [r \in Req |-> a1]
MCSameDiscord == [r \in Bot |-> u1]
=============================================================================
