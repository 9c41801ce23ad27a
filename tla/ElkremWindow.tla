----------------------------- MODULE ElkremWindow -----------------------------
(***************************************************************************)
(* The revocation window with the elkrem trees that feed it: the owner of  *)
(* a commitment chain derives the secrets it reveals from its tree         *)
(* (LocalElkrem of one party), the signer adds each to its receiver        *)
(* (RemoteElkrem of the other), checks it, and stores the receiver in the  *)
(* transaction that appends to the revocation log.                         *)
(***************************************************************************)
EXTENDS RevocationWindow, Elkrem

VARIABLES receiver,  \* signer: the stack of RemoteElkrem
          stored     \* signer: the bytes of the receiver in channeldb

elkremVars == <<vars, receiver, stored>>

\* The owner's secret of a height; the tree is named "owner".
Secret(k) == SenderAtIndex("owner", k)

\* A receiver given secrets 0 .. n - 1, secret j being another tree's.
Given(n, j) ==
  LET shaOf(k) == IF k = j THEN <<"other">> ELSE Secret(k)
      s[k \in 0..n] == IF k = 0 THEN <<>> ELSE AddNext(s[k - 1], shaOf(k - 1))
  IN s[n]

EInit ==
  /\ Init
  /\ receiver = Given(NumUpdates, NoSecret)
  /\ stored = ToBytes(receiver)

(***************************************************************************)
(* ReceiveRevocation adds a secret to the receiver before its other checks *)
(* and stores the receiver once it has passed them; an extension carries   *)
(* no secret.                                                              *)
(***************************************************************************)
IsGiven == revs # <<>> /\ revs' = Tail(revs) /\ Head(revs).secret # NoSecret

ENext ==
  /\ Next
  /\ receiver' = IF IsGiven THEN AddNext(receiver, Secret(Head(revs).secret))
                 ELSE receiver
  /\ stored' = IF secrets' # secrets THEN ToBytes(receiver') ELSE stored

ESpec == EInit /\ [][ENext]_elkremVars

\* The fairness of the window protocol.
FairElkremSpec == ESpec /\ Fairness

-----------------------------------------------------------------------------
(***************************************************************************)
(* The receiver on disk reads back, with the limits and the order test of  *)
(* ElkremReceiverFromBytes, and holds every secret that was given and no   *)
(* other: AtIndex derives the owner's secret of each revoked height from   *)
(* the few nodes on the stack, so that a revoked commitment can be         *)
(* punished however old it is and whenever the daemon starts again, and    *)
(* fails for the heights that are not revoked.                             *)
(***************************************************************************)
SecretsKept ==
  LET read == FromBytes(stored)
  IN /\ Readable(stored)
     /\ \A k \in 0..(secrets - 1) : AtIndex(read, k) = Secret(k)
     /\ \A k \in secrets..maxIndex : AtIndex(read, k) = NoHash

(***************************************************************************)
(* A secret that is not of the owner's tree does not stay unnoticed: once  *)
(* its parent has been given, AddNext has refused it.  Until then it is    *)
(* itself on the stack (the tests of the left and of the right child).     *)
(***************************************************************************)
WrongSecretCaught ==
  \A j \in 0..(secrets - 1) :
    LET s == Given(secrets, j)
    IN s[Len(s)].i = secrets - 1 => \E m \in DOMAIN s : s[m].i = j

(***************************************************************************)
(* Whatever it is given, the receiver's stack keeps its shape, in which    *)
(* AtIndex finds the right subtree first, ElkremReceiverFromBytes finds    *)
(* the heights in order, and the length is within two of the height of the *)
(* bottom node (AddNext).                                                  *)
(***************************************************************************)
StackInShape == InShape(receiver)
===============================================================================
