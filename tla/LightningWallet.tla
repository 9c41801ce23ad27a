---------------------------- MODULE LightningWallet ---------------------------
(***************************************************************************)
(* The LightningWallet of lnwallet/wallet.go and the reservations of       *)
(* lnwallet/reservation.go.  One goroutine (requestHandler) runs every     *)
(* handler to its end before the next, and the caller waits for the        *)
(* answer, so a handler is an operator from the wallet it finds to the     *)
(* wallet it leaves and the answer.                                        *)
(*                                                                         *)
(* A wallet is the record of                                               *)
(*   node      whose it is                                                 *)
(*   utxos     its confirmed outputs in the order they are listed          *)
(*   spent     those a published transaction spends                        *)
(*   locked    lockedOutPoints                                             *)
(*   res       the reservations made, by reservationID                     *)
(*   limbo     fundingLimbo: the IDs of the reservations being negotiated  *)
(*   keys      how many key pairs the HD chain has handed out              *)
(* A call to the key store, to the colored-coins services, to the signer,  *)
(* to the chain or to the database may fail: "fail" says where.            *)
(***************************************************************************)
EXTENDS Transactions

commitFee == 0

NewWallet(node, utxos) ==
  [node |-> node, utxos |-> utxos, spent |-> {}, locked |-> {},
   res |-> <<>>, limbo |-> {}, keys |-> 0]

\* The wallet of a daemon that starts again: reservations and locks are gone.
Reopened(w) == [w EXCEPT !.locked = {}, !.res = <<>>, !.limbo = {}]

Answer(w, ok) == [w |-> w, ok |-> ok]

(***************************************************************************)
(* Coin selection.                                                         *)
(***************************************************************************)

\* Mutant: locked outpoints are offered again.
ListUnlocked(w) == SelectSeq(w.utxos, LAMBDA c : c.op \notin w.spent)

ListUnspentWitness(w) ==
  SelectSeq(w.utxos, LAMBDA c : c.op \notin w.locked \cup w.spent)

\* The coins of our asset among the first k.
Ours(coins, asset, k) ==
  SelectSeq(SubSeq(coins, 1, k), LAMBDA c : c.asset = asset)

ValueOf(coins) ==
  LET upTo[k \in 0..Len(coins)] ==
        IF k = 0 THEN 0 ELSE upTo[k - 1] + coins[k].value
  IN  upTo[Len(coins)]

Enough(amt, coins, asset) ==
  {k \in 0..Len(coins) : ValueOf(Ours(coins, asset, k)) >= amt}

\* selectInputs: walk down the list until what was taken is worth amt;
\* ErrInsufficientFunds when the list ends first.
selectInputs(amt, coins, asset) ==
  IF Enough(amt, coins, asset) = {} THEN [ok |-> FALSE, coins |-> <<>>]
  ELSE [ok |-> TRUE,
        coins |-> Ours(coins, asset,
                       CHOOSE k \in Enough(amt, coins, asset) :
                         \A j \in Enough(amt, coins, asset) : k <= j)]

changeAmt(amt, sel) == ValueOf(sel.coins) - amt

OutPoints(coins) == [i \in DOMAIN coins |-> coins[i].op]

(***************************************************************************)
(* NewChannelReservation, and what handleFundingReserveRequest puts in it. *)
(***************************************************************************)
OurBalance(capacity, fundingAmt) ==
  IF fundingAmt = 0 THEN 0
  ELSE IF capacity = fundingAmt + commitFee THEN capacity - commitFee
  ELSE fundingAmt - commitFee

TheirBalance(capacity, fundingAmt) ==
  IF fundingAmt = 0 THEN capacity - commitFee
  ELSE capacity - fundingAmt - commitFee

Contribution(amt, inputs, change, multiSigKey, commitKey, revocationKey, csvDelay) ==
  [amt |-> amt, inputs |-> inputs, change |-> change,
   multiSigKey |-> multiSigKey, commitKey |-> commitKey,
   revocationKey |-> revocationKey, csvDelay |-> csvDelay]

\* Mutant: the responder is credited with the whole capacity.
ReservationOfAll(w, capacity, fundingAmt, csvDelay, coins, change) ==
  [capacity |-> capacity,
   ourBalance |-> OurBalance(capacity, fundingAmt),
   theirBalance |-> capacity - commitFee,
   ours |-> Contribution(OurBalance(capacity, fundingAmt), OutPoints(coins),
                         change, <<w.node, w.keys, "funding">>,
                         <<w.node, w.keys, "commit">>, <<>>, csvDelay),
   theirs |-> Contribution(TheirBalance(capacity, fundingAmt), <<>>, <<>>,
                           <<>>, <<>>, <<>>, 0),
   fundingTx |-> <<>>, outpoint |-> <<>>, theirRevocation |-> <<>>,
   ourCommitTx |-> <<>>, ourCommitSig |-> <<>>, ourSig |-> <<>>]

NewChannelReservation(w, capacity, fundingAmt, csvDelay, coins, change) ==
  [capacity |-> capacity,
   ourBalance |-> OurBalance(capacity, fundingAmt),
   theirBalance |-> TheirBalance(capacity, fundingAmt),
   ours |-> Contribution(OurBalance(capacity, fundingAmt), OutPoints(coins),
                         change, <<w.node, w.keys, "funding">>,
                         <<w.node, w.keys, "commit">>, <<>>, csvDelay),
   theirs |-> Contribution(TheirBalance(capacity, fundingAmt), <<>>, <<>>,
                           <<>>, <<>>, <<>>, 0),
   fundingTx |-> <<>>, outpoint |-> <<>>, theirRevocation |-> <<>>,
   ourCommitTx |-> <<>>, ourCommitSig |-> <<>>, ourSig |-> <<>>]

Change(w, amt) ==
  IfAny(amt, UnencumberedPkScript(<<w.node, w.keys, "change">>))

\* The reservation is made and enters limbo, its coins are locked; a call that
\* fails after coin selection leaves the coins locked and nothing in limbo.
Reserved(w, r, failed) ==
  Answer([w EXCEPT !.keys = @ + 1,
                   !.locked = @ \cup {r.ours.inputs[i] :
                                        i \in DOMAIN r.ours.inputs},
                   !.res = Append(@, r),
                   !.limbo = IF failed THEN @ ELSE @ \cup {Len(w.res) + 1}],
         ~failed)

ReserveWith(w, capacity, fundingAmt, csvDelay, sel, fail) ==
  IF fail = "list" \/ ~sel.ok
  THEN Answer([w EXCEPT !.res = Append(@, <<>>)], FALSE)
  ELSE Reserved(w, NewChannelReservation(w, capacity + commitFee, fundingAmt,
                     csvDelay, sel.coins,
                     Change(w, changeAmt(fundingAmt + commitFee, sel))),
                fail = "keys")

handleFundingReserveRequest(w, capacity, fundingAmt, csvDelay, asset, fail) ==
  IF fundingAmt = 0
  THEN Reserved(w, NewChannelReservation(w, capacity + commitFee, 0, csvDelay,
                                         <<>>, <<>>), fail = "keys")
  ELSE ReserveWith(w, capacity, fundingAmt, csvDelay,
                   selectInputs(fundingAmt + commitFee, ListUnspentWitness(w),
                                asset), fail)

\* Cancel: the coins are unlocked and the reservation leaves limbo.
handleFundingCancelRequest(w, id) ==
  IF id \notin w.limbo THEN Answer(w, FALSE)
  ELSE Answer([w EXCEPT !.limbo = @ \ {id},
                        !.locked = @ \ {w.res[id].ours.inputs[i] :
                                          i \in DOMAIN w.res[id].ours.inputs}],
              TRUE)

(***************************************************************************)
(* The initiator: the responder's contribution completes the funding       *)
(* transaction and both commitments, and the responder's is signed.        *)
(***************************************************************************)
RedeemScript(r) == FundingPkScript(r.ours.multiSigKey, r.theirs.multiSigKey)

FundingTx(r) ==
  ColorifyTx(InPlaceSort(
    [ins |-> r.ours.inputs \o r.theirs.inputs,
     outs |-> r.ours.change \o r.theirs.change
              \o <<Output(r.capacity, RedeemScript(r))>>]), TRUE)

\* Our revocation key at height 0, made from the commitment key they sent.
OurRevokeKey(r) ==
  DeriveRevocationPubkey(r.theirs.commitKey,
    ElkremAtIndex(r.ours.multiSigKey, r.theirs.multiSigKey, 0))

\* The commitments that spend the output: ours, and theirs.
OurCommitTx(r, outpoint, revokeKey) ==
  ColoredCommitTx(outpoint, r.ours.commitKey, r.theirs.commitKey, revokeKey,
                  r.ours.csvDelay, r.ours.amt, r.theirs.amt)

TheirCommitTx(r, outpoint, revokeKey) ==
  ColoredCommitTx(outpoint, r.theirs.commitKey, r.ours.commitKey, revokeKey,
                  r.theirs.csvDelay, r.theirs.amt, r.ours.amt)

SignTheirs(r, commitTx) ==
  Sign(r.ours.multiSigKey, commitTx, RedeemScript(r), r.capacity)

FundingOutpoint(r, tx) == <<tx, FindScriptOutputIndex(tx, RedeemScript(r))>>

Committed(r, tx, outpoint, revokeKey) ==
  [r EXCEPT !.fundingTx = tx, !.outpoint = outpoint,
            !.theirRevocation = r.theirs.revocationKey,
            !.ours.revocationKey = revokeKey,
            !.ourCommitTx = OurCommitTx(r, outpoint, revokeKey),
            !.ourSig = SignTheirs(r, TheirCommitTx(r, outpoint,
                                                   r.theirs.revocationKey))]

CommittedTo(r, tx) ==
  Committed(r, tx, FundingOutpoint(r, tx), OurRevokeKey(r))

WithTheirs(w, id, contribution) ==
  [w EXCEPT !.res[id].theirs = contribution]

Update(w, id, r) == [w EXCEPT !.res[id] = r]

\* GenFundingPkScript refuses a capacity that is not positive.  A failure
\* leaves the reservation in limbo with their contribution in it.
Contribute(w, id, fail) ==
  IF fail \/ w.res[id].capacity <= 0 THEN Answer(w, FALSE)
  ELSE Answer(Update(w, id, CommittedTo(w.res[id], FundingTx(w.res[id]))), TRUE)

handleContributionMsg(w, id, contribution, fail) ==
  IF id \notin w.limbo THEN Answer(w, FALSE)
  ELSE Contribute(WithTheirs(w, id, contribution), id, fail)

(***************************************************************************)
(* The responder: the initiator's contribution is stored, then the funding *)
(* outpoint and the initiator's signature complete both commitments.       *)
(***************************************************************************)
ContributeSingle(w, id, fail) ==
  IF fail \/ w.res[id].capacity <= 0 THEN Answer(w, FALSE)
  ELSE Answer([w EXCEPT !.res[id].ours.revocationKey = OurRevokeKey(w.res[id])],
              TRUE)

handleSingleContribution(w, id, contribution, fail) ==
  IF id \notin w.limbo THEN Answer(w, FALSE)
  ELSE ContributeSingle(WithTheirs(w, id, contribution), id, fail)

\* Mutant: the signature is not compared with the commitment.
VerifiesKey(sig, r, commitTx) == sig.key = r.theirs.multiSigKey

\* Their signature must be over the commitment we have built, by the key they
\* sent, for the output that we expect.
Verifies(sig, r, commitTx) ==
  sig = Sign(r.theirs.multiSigKey, commitTx, RedeemScript(r), r.capacity)

WithOutpoint(r, outpoint, revokeKey) ==
  [r EXCEPT !.outpoint = outpoint, !.theirRevocation = revokeKey,
            !.ourCommitTx = OurCommitTx(r, outpoint, r.ours.revocationKey)]

CheckSigs(w, id, sig, fail) ==
  IF fail \/ ~Verifies(sig, w.res[id], w.res[id].ourCommitTx)
  THEN Answer(w, FALSE)
  ELSE Answer(Update(w, id,
         [w.res[id] EXCEPT !.ourCommitSig = sig,
            !.ourSig = SignTheirs(w.res[id],
                         TheirCommitTx(w.res[id], w.res[id].outpoint,
                                       w.res[id].theirRevocation))]), TRUE)

handleSingleFunderSigs(w, id, outpoint, revokeKey, sig, fail) ==
  IF id \notin w.limbo THEN Answer(w, FALSE)
  ELSE CheckSigs(Update(w, id, WithOutpoint(w.res[id], outpoint, revokeKey)),
                 id, sig, fail)

(***************************************************************************)
(* The initiator: the responder's signature is checked, the reservation    *)
(* leaves limbo, and only then is the funding transaction published and    *)
(* the channel written to disk.  "fail" is the first of the calls that     *)
(* fails ("verify", "publish", "sync"), "none" when all succeed.           *)
(***************************************************************************)
Published(w, id) ==
  [w EXCEPT !.spent = @ \cup {w.res[id].fundingTx.ins[i] :
                                i \in DOMAIN w.res[id].fundingTx.ins}]

Sealed(w, id, sig) ==
  [w EXCEPT !.limbo = @ \ {id}, !.res[id].ourCommitSig = sig]

handleFundingCounterPartySigs(w, id, sig, fail) ==
  IF \/ id \notin w.limbo \/ fail = "verify"
     \/ ~Verifies(sig, w.res[id], w.res[id].ourCommitTx)
  THEN Answer(w, FALSE)
  ELSE IF fail = "publish" THEN Answer(Sealed(w, id, sig), FALSE)
  ELSE Answer(Published(Sealed(w, id, sig), id), fail = "none")

\* The responder's last step: the reservation leaves limbo, the channel is
\* written to disk.
handleChannelOpen(w, id, fail) == Answer([w EXCEPT !.limbo = @ \ {id}], ~fail)

(***************************************************************************)
(* The channel that FullSync writes for a reservation.                     *)
(***************************************************************************)
PartialState(r) ==
  [chanID |-> r.outpoint, capacity |-> r.capacity,
   ourBalance |-> r.ourBalance, theirBalance |-> r.theirBalance,
   ourCommitTx |-> r.ourCommitTx, ourCommitSig |-> r.ourCommitSig,
   theirRevocation |-> r.theirRevocation, ours |-> r.ours, theirs |-> r.theirs]
===============================================================================
