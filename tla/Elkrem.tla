-------------------------------- MODULE Elkrem --------------------------------
(***************************************************************************)
(* The elkrem tree of elkrem/elkrem.go and serdes.go: a sender derives the *)
(* secret of any index from one root, a receiver that is given them in     *)
(* order keeps a stack of subtree roots from which it derives every one it *)
(* has been given.  Indexes number the nodes of the tree in post-order.    *)
(*                                                                         *)
(* A hash is the sequence of what it was hashed from: the root's name and  *)
(* the turns taken below it, so that two hashes are equal only if they     *)
(* were derived alike.                                                     *)
(***************************************************************************)
EXTENDS Integers, Sequences, SequencesExt

CONSTANT TreeHeight     \* maxHeight, 47 in the code

ASSUME TreeAssumption == TreeHeight \in Nat

maxIndex == 2^(TreeHeight + 1) - 2

LeftSha(sha) == Append(sha, 0)
RightSha(sha) == Append(sha, 1)

\* An ElkremNode: its height, its index, its hash.
Node(h, i, sha) == [h |-> h, i |-> i, sha |-> sha]

NoHash == <<>>

(***************************************************************************)
(* descend: from a node to index w below it, left if w is in the left      *)
(* subtree, right if not.  The loop ends at w, or at a leaf.               *)
(***************************************************************************)
\* Mutant: the root of the left subtree is looked for on the right.
GoesLeft_Strict(w, n) == w < n.i - 2^n.h

GoesLeft(w, n) == w <= n.i - 2^n.h

Below(h) == IF h = 0 THEN 0 ELSE h - 1

Descent(w, n) ==
  IF w >= n.i THEN n
  ELSE IF GoesLeft(w, n) THEN Node(Below(n.h), n.i - 2^n.h, LeftSha(n.sha))
  ELSE Node(Below(n.h), n.i - 1, RightSha(n.sha))

Reached(w, n) == IF n.i = w THEN n.sha ELSE NoHash

descend(w, n) ==
  LET after[k \in Nat] == IF k = 0 THEN n ELSE Descent(w, after[k - 1])
  IN Reached(w, after[n.h + 1])

\* ElkremSender.AtIndex.
SenderAtIndex(root, w) == descend(w, Node(TreeHeight, maxIndex, <<root>>))

(***************************************************************************)
(* AddNext: when the two nodes on top of the stack are of equal height the *)
(* next one is their parent; it must hash to both, and replaces them.      *)
(***************************************************************************)
ParentDue(s) == Len(s) > 1 /\ s[Len(s) - 1].h = s[Len(s)].h

Incoming(s, sha) ==
  Node(IF ParentDue(s) THEN s[Len(s)].h + 1 ELSE 0,
       IF s = <<>> THEN 0 ELSE s[Len(s)].i + 1, sha)

\* Mutant: the right child is not tested.
Fits_LeftOnly(s, sha) == ParentDue(s) => LeftSha(sha) = s[Len(s) - 1].sha

Fits(s, sha) ==
  ParentDue(s) => /\ LeftSha(sha) = s[Len(s) - 1].sha
                  /\ RightSha(sha) = s[Len(s)].sha

\* Mutant: only the right child is removed.
Kept_Left(s) == IF ParentDue(s) THEN SubSeq(s, 1, Len(s) - 1) ELSE s

Kept(s) == IF ParentDue(s) THEN SubSeq(s, 1, Len(s) - 2) ELSE s

AddNext(s, sha) == IF Fits(s, sha) THEN Append(Kept(s), Incoming(s, sha)) ELSE s

\* ElkremReceiver.AtIndex: from the first node whose index is not below w.
FromFirst(s, w, j) == IF j = 0 THEN NoHash ELSE descend(w, s[j])

AtIndex(s, w) == FromFirst(s, w, SelectInSeq(s, LAMBDA n : w <= n.i))

(***************************************************************************)
(* ToBytes and ElkremReceiverFromBytes.  Bytes are the count of nodes, cut *)
(* to one byte, and the nodes, 41 bytes each; nothing at all for an empty  *)
(* receiver.  What cannot be written or read is Broken.                    *)
(***************************************************************************)
Empty == [count |-> 0, nodes |-> <<>>]
Broken == [count |-> -1, nodes |-> <<>>]

ToBytes(s) ==
  LET numOfNodes == Len(s) % 256
  IN IF numOfNodes = 0 THEN Empty
     ELSE IF numOfNodes > TreeHeight + 1 THEN Broken
     ELSE [count |-> numOfNodes, nodes |-> s]

\* wire.ReadVarBytes gives up on more than the 1000 bytes fetchChanElkremState
\* allows.
ReadLimit == 1000
SerializedLen(b) == IF b = Empty THEN 0 ELSE 1 + 41 * b.count

Ordered(nodes) == \A j \in 2..Len(nodes) : nodes[j - 1].h >= nodes[j].h

\* The receiver that is read, or FALSE.
Readable(b) ==
  /\ b # Broken /\ SerializedLen(b) <= ReadLimit
  /\ b # Empty =>
       /\ b.count \in 1..(TreeHeight + 1) /\ b.count = Len(b.nodes)
       /\ \A j \in 1..b.count :
            b.nodes[j].h <= TreeHeight /\ b.nodes[j].i <= maxIndex
       /\ Ordered(b.nodes)

FromBytes(b) == b.nodes

-----------------------------------------------------------------------------
(***************************************************************************)
(* The shape of a receiver's stack: from one node to the next the index    *)
(* rises and the height falls by at least one, except that the top two may *)
(* be of equal height.                                                     *)
(***************************************************************************)
IsStack(s) ==
  /\ s \in Seq({s[j] : j \in DOMAIN s})
  /\ \A j \in DOMAIN s : s[j].h \in Nat /\ s[j].i \in Nat

Rising(s) == \A j, k \in DOMAIN s : j < k => s[j].i < s[k].i

Falling(s) ==
  \A j, k \in DOMAIN s :
    j < k => s[j].h + j >= s[k].h + k - IF k = Len(s) /\ ParentDue(s) THEN 1 ELSE 0

InShape(s) == IsStack(s) /\ Rising(s) /\ Falling(s)
===============================================================================
