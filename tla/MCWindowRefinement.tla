-------------------------- MODULE MCWindowRefinement --------------------------
(***************************************************************************)
(* HtlcManager implements RevocationWindow in both directions: the chain   *)
(* of each peer, extended by the other, follows the window protocol        *)
(* whatever payments, batches and timers do on top of it.                  *)
(***************************************************************************)
EXTENDS MCChannelRestart

\* The signatures p has in flight, by the revocation key they were made for.
Signatures(p) ==
  LET sent == SelectSeq(wire[p], LAMBDA m : m.type = "sig")
  IN [i \in DOMAIN sent |-> sent[i].txn.key]

\* The revocations p has in flight.
Revocations(p) ==
  LET sent == SelectSeq(wire[p], LAMBDA m : m.type = "rev")
  IN [i \in DOMAIN sent |-> [secret |-> sent[i].secret, next |-> sent[i].next]]

AliceSigns == INSTANCE RevocationWindow WITH
  NumUpdates <- 0, MaxHeight <- 50,
  window <- lc[A].window, used <- lc[A].used,
  current <- lc[A].current, secrets <- lc[A].secrets,
  height <- lc[B].height, edge <- lc[B].edge,
  sigs <- Signatures(A), revs <- Revocations(B),
  failed <- ~(up[A] /\ up[B])

BobSigns == INSTANCE RevocationWindow WITH
  NumUpdates <- 0, MaxHeight <- 50,
  window <- lc[B].window, used <- lc[B].used,
  current <- lc[B].current, secrets <- lc[B].secrets,
  height <- lc[A].height, edge <- lc[A].edge,
  sigs <- Signatures(B), revs <- Revocations(A),
  failed <- ~(up[A] /\ up[B])

(***************************************************************************)
(* Every step of the two htlcManagers is a step of the window protocol of  *)
(* Bob's commitment chain, which Alice extends, or leaves it unchanged,    *)
(* and likewise for Alice's chain, which Bob extends; so what              *)
(* RevocationWindowProofs proves holds of channel.go driven by peer.go.    *)
(***************************************************************************)
ChainsFollowWindow == AliceSigns!Spec /\ BobSigns!Spec
===============================================================================
