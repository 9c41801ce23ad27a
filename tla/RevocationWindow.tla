--------------------------- MODULE RevocationWindow ---------------------------
(***************************************************************************)
(* The revocation-window protocol of one commitment chain.                 *)
(*                                                                         *)
(* A channel has two commitment chains, one per party.  The chain of the   *)
(* "owner" is extended by the "signer": the signer signs a new commitment  *)
(* with the next unused revocation key the owner has handed out, the owner *)
(* verifies it against the key it expects at currentHeight + 1, revokes    *)
(* its current commitment by revealing the elkrem secret of that height,   *)
(* and hands out one more key.  The signer checks the secret against       *)
(* TheirCurrentRevocation.  Keys and secrets are named by their elkrem     *)
(* index, so "the key matches" is equality of indexes.                     *)
(*                                                                         *)
(* This is what lnwallet/channel.go promises when it is driven by          *)
(* htlcManager in peer.go; HtlcManager.tla is shown to implement it, once  *)
(* in each direction.                                                      *)
(***************************************************************************)
EXTENDS Integers, Sequences

CONSTANTS InitialRevocationWindow,  \* lnwallet.InitialRevocationWindow (4)
          NumUpdates,               \* channel height at which the session starts
          MaxHeight                 \* bound on the height of signed commitments

\* The window holds at least one key; the session starts below the bound.
ASSUME WindowAssumption == /\ InitialRevocationWindow \in Nat \ {0}
                           /\ NumUpdates \in Nat
                           /\ MaxHeight \in Nat
                           /\ NumUpdates <= MaxHeight

VARIABLES
  window,   \* signer: revocationWindow, keys not used yet
  used,     \* signer: usedRevocations, keys of unrevoked signed commitments
  current,  \* signer: TheirCurrentRevocation, key of the remote chain's tail
  secrets,  \* signer: number of secrets held by the elkrem receiver
  height,   \* owner: currentHeight, height of its local chain's tail
  edge,     \* owner: revocationWindowEdge, last key handed out
  sigs,     \* CommitSignature messages in flight, signer to owner
  revs,     \* CommitRevocation messages in flight, owner to signer
  failed    \* a signature or a revocation was refused

signer == <<window, used, current, secrets>>
owner == <<height, edge>>
vars == <<window, used, current, secrets, height, edge, sigs, revs, failed>>

W == InitialRevocationWindow

\* The all-zero preimage of a message that only extends the window.
NoSecret == -1

(***************************************************************************)
(* NewLightningChannel: the chain tails sit at NumUpdates, the window is   *)
(* empty, and secrets 0 .. NumUpdates - 1 have been exchanged.             *)
(***************************************************************************)
Init ==
  /\ window = <<>> /\ used = <<>>
  /\ current = NumUpdates /\ secrets = NumUpdates
  /\ height = NumUpdates /\ edge = NumUpdates
  /\ sigs = <<>> /\ revs = <<>>
  /\ failed = FALSE

\* htlcManager has sent the initial extensions before it reads any message.
Started == edge > height

(***************************************************************************)
(* htlcManager's start: InitialRevocationWindow calls of                   *)
(* ExtendRevocationWindow, each sending the next key with no secret.       *)
(***************************************************************************)
Extensions(e) == [i \in 1..W |-> [secret |-> NoSecret, next |-> e + i]]

StartSession ==
  /\ ~Started
  /\ revs' = Extensions(edge)
  /\ edge' = edge + W
  /\ UNCHANGED <<signer, height, sigs, failed>>

\* ReceiveRevocation with a zero preimage: the key joins the window.
ReceiveExtension ==
  /\ revs # <<>> /\ Head(revs).secret = NoSecret
  /\ window' = Append(window, Head(revs).next)
  /\ revs' = Tail(revs)
  /\ UNCHANGED <<used, current, secrets, owner, sigs, failed>>

(***************************************************************************)
(* SignNextCommitment: refused with ErrNoWindow when the window is empty   *)
(* or InitialRevocationWindow signed commitments are still unrevoked.      *)
(***************************************************************************)
HasWindow == Len(window) # 0 /\ Len(used) # W

SignNextCommitment ==
  /\ HasWindow
  /\ current + Len(used) < MaxHeight
  /\ sigs' = Append(sigs, Head(window))
  /\ used' = Append(used, Head(window))
  /\ window' = Tail(window)
  /\ UNCHANGED <<current, secrets, owner, revs, failed>>

(***************************************************************************)
(* The owner's CommitSignature handler.  ReceiveNewCommitment verifies the *)
(* signature over a transaction built with the key at currentHeight + 1    *)
(* and htlcManager disconnects when it does not verify;                    *)
(* RevokeCurrentCommitment then reveals the secret of the current height.  *)
(***************************************************************************)
\* Mutants: the secret of the new commitment is revealed; the same key is
\* handed out twice.
RevokeMsg_NewSecret(h, e) == [secret |-> h + 1, next |-> e + 1]
RevokeMsg_StaleEdge(h, e) == [secret |-> h, next |-> e]

RevokeMsg(h, e) == [secret |-> h, next |-> e + 1]

ReceiveNewCommitment ==
  /\ Started /\ sigs # <<>>
  /\ sigs' = Tail(sigs)
  /\ IF Head(sigs) = height + 1
       THEN /\ revs' = Append(revs, RevokeMsg(height, edge))
            /\ height' = height + 1
            /\ edge' = edge + 1
            /\ UNCHANGED failed
       ELSE failed' = TRUE /\ UNCHANGED <<revs, owner>>
  /\ UNCHANGED signer

(***************************************************************************)
(* ReceiveRevocation with a secret: the elkrem receiver takes it as the    *)
(* next secret, the derived key must be TheirCurrentRevocation, the oldest *)
(* used key becomes current and the new key joins the window.              *)
(***************************************************************************)
Matches(rev) == rev.secret = secrets /\ rev.secret = current /\ used # <<>>

\* Mutant: the key that comes with the secret is not added to the window.
ReceiveRevocation_DropKey ==
  /\ revs # <<>> /\ Head(revs).secret # NoSecret /\ used # <<>>
  /\ revs' = Tail(revs)
  /\ secrets' = secrets + 1 /\ current' = Head(used) /\ used' = Tail(used)
  /\ UNCHANGED <<window, owner, sigs, failed>>

ReceiveRevocation ==
  /\ revs # <<>> /\ Head(revs).secret # NoSecret
  /\ revs' = Tail(revs)
  /\ IF Matches(Head(revs))
       THEN /\ secrets' = secrets + 1
            /\ current' = Head(used)
            /\ used' = Tail(used)
            /\ window' = Append(window, Head(revs).next)
            /\ UNCHANGED failed
       ELSE failed' = TRUE /\ UNCHANGED signer
  /\ UNCHANGED <<owner, sigs>>

(***************************************************************************)
(* htlcManager's CommitRevocation handler when the revocation lets it      *)
(* settle an HTLC: it receives the revocation and signs the next           *)
(* commitment in the same step.                                            *)
(***************************************************************************)
ReceiveRevocationAndSign ==
  /\ revs # <<>> /\ Matches(Head(revs))
  /\ Len(Tail(used)) # W
  /\ current + Len(used) < MaxHeight
  /\ LET w == Append(window, Head(revs).next)
     IN /\ window' = Tail(w)
        /\ used' = Append(Tail(used), Head(w))
        /\ sigs' = Append(sigs, Head(w))
  /\ secrets' = secrets + 1
  /\ current' = Head(used)
  /\ revs' = Tail(revs)
  /\ UNCHANGED <<owner, failed>>

Next ==
  /\ ~failed
  /\ \/ StartSession \/ ReceiveExtension \/ SignNextCommitment
     \/ ReceiveNewCommitment \/ ReceiveRevocation \/ ReceiveRevocationAndSign

Spec == Init /\ [][Next]_vars

(***************************************************************************)
(* The goroutines of a connected peer keep handling what they receive; no  *)
(* fairness is asked of signing, which needs a payment or a timer.         *)
(***************************************************************************)
Fairness ==
  /\ WF_vars(StartSession) /\ WF_vars(ReceiveExtension)
  /\ WF_vars(ReceiveNewCommitment) /\ WF_vars(ReceiveRevocation)

-----------------------------------------------------------------------------
\* Heights of commitments, indexes of keys.
Heights == NumUpdates .. MaxHeight
Keys == NumUpdates .. (MaxHeight + W)
Revocations == [secret : Heights \cup {NoSecret}, next : Keys]

\* Every variable ranges over heights of this session or keys of its window.
TypeOK ==
  /\ window \in Seq(Keys) /\ used \in Seq(Keys) /\ sigs \in Seq(Keys)
  /\ current \in Heights /\ secrets \in Heights /\ height \in Heights
  /\ edge \in Keys
  /\ revs \in Seq(Revocations)
  /\ failed \in BOOLEAN

(***************************************************************************)
(* No honest message is refused: every signature verifies under the key    *)
(* the owner expects next (channel.go ReceiveNewCommitment), and every     *)
(* secret matches TheirCurrentRevocation and finds a used key to promote   *)
(* (ReceiveRevocation), however the two directions interleave.             *)
(***************************************************************************)
NeverRefused == ~failed

(***************************************************************************)
(* The owner never reveals the secret of a commitment it could still       *)
(* broadcast: every secret in flight or in the signer's elkrem receiver is *)
(* of a height strictly below the owner's current height                   *)
(* (RevokeCurrentCommitment reveals only the tail it just replaced).       *)
(***************************************************************************)
OnlyPastRevoked ==
  /\ secrets <= height
  /\ \A i \in 1..Len(revs) : revs[i].secret < height

(***************************************************************************)
(* Every unrevoked commitment the signer has made is accounted for by      *)
(* exactly one message: a signature the owner has not read or a revocation *)
(* the signer has not read; and there are never more than                  *)
(* InitialRevocationWindow of them (SignNextCommitment's window check).    *)
(***************************************************************************)
InFlightAccounted ==
  /\ Len(used) = Len(sigs) + (height - current)
  /\ Len(used) <= W

(***************************************************************************)
(* Keys are conserved: once the session is up, the keys the signer holds   *)
(* unused or used plus the keys on the wire are the InitialRevocationWindow *)
(* initial ones plus one for each revocation the signer has yet to read,   *)
(* so a signer with no signature or revocation outstanding always has its  *)
(* whole window (the window "edge" arithmetic of ExtendRevocationWindow    *)
(* and RevokeCurrentCommitment).                                           *)
(***************************************************************************)
WindowRestored ==
  (Started /\ used = <<>> /\ revs = <<>>) => Len(window) = W

(***************************************************************************)
(* The ledger of all keys and secrets, from the signer's current key to    *)
(* the owner's window edge: used keys, then unused keys, then keys on the  *)
(* wire are consecutive; the signatures in flight carry the keys just      *)
(* above the owner's height, and the last height - current revocations in  *)
(* flight carry the secrets just below it, after all extensions.  It is    *)
(* the inductive form of the other invariants.                             *)
(***************************************************************************)
Position(i) == height - Len(revs) + i - 1

Counts ==
  /\ secrets = current /\ current <= height
  /\ Len(used) = Len(sigs) + (height - current)
  /\ current + Len(used) <= MaxHeight
  /\ height - current <= Len(revs)

UsedKeys == \A i \in 1..Len(used) : used[i] = current + i

UnusedKeys == \A i \in 1..Len(window) : window[i] = current + Len(used) + i

SignedKeys == \A i \in 1..Len(sigs) : sigs[i] = height + i

HandedKeys ==
  \A i \in 1..Len(revs) :
    revs[i].next = current + Len(used) + Len(window) + i

RevealedSecrets ==
  \A i \in 1..Len(revs) :
    /\ Position(i) < current => revs[i].secret = NoSecret
    /\ Position(i) >= current => revs[i].secret = Position(i)

EdgeReached ==
  \/ /\ edge = height /\ height = NumUpdates
     /\ Len(window) = 0 /\ Len(used) = 0 /\ Len(revs) = 0
  \/ /\ edge = height + W
     /\ edge = current + Len(used) + Len(window) + Len(revs)

KeyLedger ==
  /\ Counts /\ UsedKeys /\ UnusedKeys /\ SignedKeys
  /\ HandedKeys /\ RevealedSecrets /\ EdgeReached

(***************************************************************************)
(* ErrNoWindow is temporary: whenever the window is exhausted (or not yet  *)
(* received) it opens again without the signer doing anything but reading  *)
(* its messages, so that updateCommitTx may just try again later.          *)
(***************************************************************************)
WindowReopens == ~HasWindow ~> HasWindow

===============================================================================
