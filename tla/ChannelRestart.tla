---------------------------- MODULE ChannelRestart ----------------------------
(***************************************************************************)
(* The channel of HtlcManager when the connection is lost and set up       *)
(* again.  On every new connection newPeer reads the channel from          *)
(* channeldb, NewLightningChannel and restoreStateLogs rebuild its state,  *)
(* and a new htlcManager starts; whatever was on the wire, in the batch or *)
(* in the htlcManager's tables is gone.  A message a peer still handles    *)
(* after the line went dead is a message it handled before.                *)
(***************************************************************************)
EXTENDS HtlcManager

CONSTANTS MaxRestarts,  \* bound on the number of reconnections
          MinHeight     \* least height of a channel that is lost in good order

VARIABLES restarts,     \* reconnections so far
          orderly,      \* every connection so far was lost in good order
          serial,       \* every payment so far was made on a quiet channel
          held          \* per peer, every commitment its disk has held, by height

allVars == <<vars, restarts, orderly, serial, held>>

\* What the disk says of p's broadcastable commitment.
OnDisk(p) == [balance |-> lc[p].disk.balance, htlcs |-> lc[p].disk.htlcs]

RInit ==
  /\ Init
  /\ restarts = 0 /\ orderly = TRUE /\ serial = TRUE
  /\ held = [p \in Peers |-> 0 :> OnDisk(p)]

\* A step of the session; the commitments it puts on disk are remembered.
Session ==
  /\ Next
  /\ held' = [p \in Peers |-> (lc'[p].disk.numUpdates :> OnDisk(p)') @@ held[p]]
  /\ serial' = (serial /\ (todo' # todo => Quiet))
  /\ UNCHANGED <<restarts, orderly>>

(***************************************************************************)
(* A connection is lost in good order when the disks of the two peers      *)
(* agree: nothing is outstanding, both chains have converged, and the      *)
(* channel has been updated at least MinHeight times.                      *)
(***************************************************************************)
InOrder == Quiet /\ \A p \in Peers : Converged(p) /\ lc[p].height >= MinHeight

Reconnect ==
  /\ restarts < MaxRestarts
  /\ restarts' = restarts + 1
  /\ orderly' = (orderly /\ InOrder)
  /\ lc' = [p \in Peers |-> NewLightningChannel(lc[p].disk)]
  /\ wire' = [p \in Peers |-> <<>>]
  /\ state' = [p \in Peers |-> NewState]
  /\ bandwidth' = [p \in Peers |-> lc[p].disk.balance["our"]]
  /\ up' = [p \in Peers |-> TRUE]
  /\ UNCHANGED <<todo, fulfilled, serial, held>>

\* The connection may be lost at any time.
CrashSpec == RInit /\ [][Session \/ Reconnect]_allVars

-----------------------------------------------------------------------------
\* A commitment as the other party sees it.
Mirror(c) == [our |-> c.balance["their"], their |-> c.balance["our"],
              offered |-> Outputs(c.htlcs["their"]),
              received |-> Outputs(c.htlcs["our"])]

Facing(c) == [our |-> c.balance["our"], their |-> c.balance["their"],
              offered |-> Outputs(c.htlcs["our"]),
              received |-> Outputs(c.htlcs["their"])]

(***************************************************************************)
(* The revocation log is complete and true: for every commitment whose     *)
(* secret a peer holds, the log entry FindPreviousState would return is    *)
(* the commitment the remote party had on disk at that height, with its    *)
(* balances and HTLCs (ReceiveRevocation, AppendToRevocationLog).          *)
(***************************************************************************)
RevocationLogTrue ==
  \A p \in Peers : \A n \in 0..(lc[p].disk.secrets - 1) :
    /\ n \in DOMAIN lc[p].disk.revocationLog
    /\ Facing(lc[p].disk.revocationLog[n]) = Mirror(held[Remote(p)][n])

(***************************************************************************)
(* However often and whenever the connection is lost, what a peer has on   *)
(* disk is current: the commitment it would broadcast is not revoked       *)
(* (DiskNeverRevoked), and the state it keeps of the remote party is       *)
(* consistent: TheirCurrentRevocation is the key of the commitment after   *)
(* the last secret in the elkrem receiver (AppendToRevocationLog writes    *)
(* both in one transaction).                                               *)
(***************************************************************************)
DiskConsistent ==
  /\ DiskNeverRevoked
  /\ \A p \in Peers : lc[p].disk.current = lc[p].disk.secrets

(***************************************************************************)
(* A channel that was never lost but in good order goes on as if nothing   *)
(* had happened: what NewLightningChannel and restoreStateLogs rebuild     *)
(* refuses no message and loses no satoshi.                                *)
(***************************************************************************)
RestoredGoesOn == orderly => NeverDisconnects /\ BalancesConserved

(***************************************************************************)
(* Payments made one after the other, each on a quiet channel, complete:   *)
(* once the channel is quiet again both chains of both peers are in        *)
(* identical state, and every requester has been told of the fulfilment,   *)
(* and only because the remote peer has settled (logCommitTimer, the       *)
(* signature that answers a signature, clearedHTCLs in htlcManager).       *)
(***************************************************************************)
SerialPaymentsComplete ==
  serial => ConvergedWhenQuiet /\ FulfilledWhenQuiet /\ FulfilledOnlyIfSettled
===============================================================================
