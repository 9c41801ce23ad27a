------------------------ MODULE RevocationWindowProofs ------------------------
(***************************************************************************)
(* Proofs about RevocationWindow, for every window size, starting height   *)
(* and height bound.  The inductive invariant is the type invariant, the   *)
(* absence of a refusal, and the key ledger.                               *)
(***************************************************************************)
EXTENDS RevocationWindow, TLAPS

IInv == TypeOK /\ NeverRefused /\ KeyLedger

\* What the assumption says of the window size and the bounds.
LEMMA Constants ==
  /\ W \in Nat /\ W >= 1 /\ NumUpdates \in Nat /\ MaxHeight \in Nat
  /\ NumUpdates <= MaxHeight
BY WindowAssumption DEF W

(***************************************************************************)
(* The indexed form of Head, Tail and Append, which is what the ledger     *)
(* speaks about.                                                           *)
(***************************************************************************)
LEMMA TailFacts ==
  ASSUME NEW S, NEW s \in Seq(S), s # <<>>
  PROVE  /\ Head(s) = s[1] /\ Head(s) \in S
         /\ Tail(s) \in Seq(S) /\ Len(s) >= 1 /\ Len(Tail(s)) = Len(s) - 1
         /\ \A i \in 1..Len(Tail(s)) : Tail(s)[i] = s[i + 1]
OBVIOUS

LEMMA AppendFacts ==
  ASSUME NEW S, NEW s \in Seq(S), NEW e \in S
  PROVE  /\ Append(s, e) \in Seq(S) /\ Len(Append(s, e)) = Len(s) + 1
         /\ \A i \in 1..Len(s) : Append(s, e)[i] = s[i]
         /\ Append(s, e)[Len(s) + 1] = e
OBVIOUS

(***************************************************************************)
(* The initial state of NewLightningChannel satisfies the invariant.       *)
(***************************************************************************)
LEMMA InitIInv == Init => IInv
<1> SUFFICES ASSUME Init PROVE IInv
  OBVIOUS
<1>1. /\ current \in Heights /\ secrets \in Heights /\ height \in Heights
      /\ edge \in Keys
  BY Constants DEF Init, Heights, Keys
<1>2. /\ window \in Seq(Keys) /\ used \in Seq(Keys) /\ sigs \in Seq(Keys)
      /\ revs \in Seq(Revocations)
  BY DEF Init
<1>3. TypeOK
  BY <1>1, <1>2, ZenonT(30) DEF Init, TypeOK
<1>4. KeyLedger
  BY Constants DEF Init, KeyLedger, Counts, UsedKeys, UnusedKeys, SignedKeys,
     HandedKeys, RevealedSecrets, EdgeReached
<1>5. NeverRefused
  BY DEF Init, NeverRefused
<1> QED
  BY <1>3, <1>4, <1>5 DEF IInv

\* The integer facts that the steps below share.
Numbers ==
  /\ current \in Nat /\ height \in Nat /\ edge \in Nat /\ secrets \in Nat
  /\ Len(window) \in Nat /\ Len(used) \in Nat
  /\ Len(sigs) \in Nat /\ Len(revs) \in Nat
  /\ NumUpdates <= current /\ NumUpdates <= height
  /\ NumUpdates \in Nat /\ MaxHeight \in Nat /\ W \in Nat /\ W >= 1
  /\ NoSecret \in Int /\ NoSecret < NumUpdates

LEMMA Arithmetic == TypeOK => Numbers
BY Constants DEF TypeOK, Heights, Keys, NoSecret, Numbers

(***************************************************************************)
(* StartSession puts the InitialRevocationWindow keys above the current    *)
(* height on the wire, in order and without secrets.                       *)
(***************************************************************************)
LEMMA StartSessionIInv ==
  ASSUME IInv, StartSession PROVE IInv'
<1>1. TypeOK /\ Numbers /\ Counts /\ EdgeReached /\ NeverRefused
  BY Arithmetic DEF IInv, KeyLedger
<1>2. /\ UNCHANGED <<window, used, current, secrets, height, sigs, failed>>
      /\ edge' = edge + W /\ ~(edge > height)
      /\ revs' = [i \in 1..W |-> [secret |-> NoSecret, next |-> edge + i]]
  BY DEF StartSession, signer, Started, Extensions
<1>3. edge = height /\ height = NumUpdates
  BY <1>1, <1>2 DEF EdgeReached, Numbers
<1>4. Len(window) = 0 /\ Len(used) = 0 /\ Len(revs) = 0
  BY <1>1, <1>2, <1>3 DEF EdgeReached, Numbers
<1>5. current = height /\ Len(sigs) = 0
  BY <1>1, <1>3, <1>4 DEF Counts, Numbers
<1>6. edge' \in Keys /\ \A i \in 1..W : edge + i \in Keys
  BY <1>1, <1>2, <1>3, Constants DEF Keys, Numbers
<1>7. \A i \in 1..W : [secret |-> NoSecret, next |-> edge + i] \in Revocations
  BY <1>6 DEF Revocations
<1>8. revs' \in Seq(Revocations) /\ Len(revs') = W
  <2>1. revs' \in [1..W -> Revocations]
    BY <1>2, <1>7
  <2> QED
    BY <1>1, <2>1 DEF Numbers
<1>9. \A i \in 1..W : revs'[i].secret = NoSecret /\ revs'[i].next = edge + i
  BY <1>2
<1>10. TypeOK'
  BY <1>1, <1>2, <1>6, <1>8 DEF TypeOK
<1>11. Counts' /\ EdgeReached'
  BY <1>1, <1>2, <1>3, <1>4, <1>5, <1>8 DEF Counts, EdgeReached, Numbers
<1>12. UsedKeys' /\ UnusedKeys' /\ SignedKeys'
  BY <1>2 DEF IInv, KeyLedger, UsedKeys, UnusedKeys, SignedKeys
<1>13. HandedKeys' /\ RevealedSecrets'
  BY <1>1, <1>2, <1>3, <1>4, <1>5, <1>8, <1>9
  DEF HandedKeys, RevealedSecrets, Position, Numbers
<1>14. NeverRefused'
  BY <1>1, <1>2 DEF NeverRefused
<1> QED
  BY <1>10, <1>11, <1>12, <1>13, <1>14 DEF IInv, KeyLedger

(***************************************************************************)
(* ReceiveExtension moves the first key on the wire to the end of the      *)
(* window; the positions of all keys in the ledger are unchanged.          *)
(***************************************************************************)
LEMMA ReceiveExtensionIInv ==
  ASSUME IInv, ReceiveExtension PROVE IInv'
<1>1. TypeOK /\ Numbers /\ KeyLedger /\ NeverRefused
  BY Arithmetic DEF IInv
<1>2. /\ UNCHANGED <<used, current, secrets, height, edge, sigs, failed>>
      /\ revs \in Seq(Revocations) /\ revs # <<>> /\ window \in Seq(Keys)
      /\ revs' = Tail(revs) /\ window' = Append(window, Head(revs).next)
      /\ Head(revs).secret = NoSecret
  BY <1>1 DEF TypeOK, ReceiveExtension, owner
<1>3. /\ Head(revs) = revs[1] /\ Head(revs) \in Revocations
      /\ revs' \in Seq(Revocations)
      /\ Len(revs) >= 1 /\ Len(revs') = Len(revs) - 1
      /\ \A i \in 1..Len(revs') : revs'[i] = revs[i + 1]
  BY <1>2, TailFacts
<1>4. Head(revs).next \in Keys
  BY <1>3 DEF Revocations
<1>5. /\ window' \in Seq(Keys) /\ Len(window') = Len(window) + 1
      /\ \A i \in 1..Len(window) : window'[i] = window[i]
      /\ window'[Len(window) + 1] = revs[1].next
  BY <1>2, <1>3, <1>4, AppendFacts
<1>6. height - Len(revs) < current
  <2>1. /\ Position(1) \in Int /\ Position(1) = height - Len(revs)
        /\ Position(1) >= current => revs[1].secret = Position(1)
    BY <1>1, <1>3 DEF KeyLedger, RevealedSecrets, Position, Numbers
  <2> QED
    BY <1>1, <1>2, <1>3, <2>1 DEF Numbers
<1>7. TypeOK'
  BY <1>1, <1>2, <1>3, <1>5 DEF TypeOK
<1>8. Counts'
  BY <1>1, <1>2, <1>3, <1>5, <1>6 DEF KeyLedger, Counts, Numbers
<1>9. EdgeReached'
  <2>1. /\ edge = height + W
        /\ edge = current + Len(used) + Len(window) + Len(revs)
    BY <1>1, <1>3 DEF KeyLedger, EdgeReached, Numbers
  <2>2. /\ edge' = edge /\ height' = height /\ current' = current
        /\ Len(used') = Len(used) /\ Len(window') = Len(window) + 1
        /\ Len(revs') = Len(revs) - 1
    BY <1>2, <1>3, <1>5
  <2> QED
    BY <1>1, <2>1, <2>2 DEF EdgeReached, Numbers
<1>10. UsedKeys' /\ SignedKeys'
  BY <1>1, <1>2 DEF KeyLedger, UsedKeys, SignedKeys
<1>11. UnusedKeys'
  <2>1. revs[1].next = current + Len(used) + Len(window) + 1
    BY <1>1, <1>3 DEF KeyLedger, HandedKeys, Numbers
  <2>2. \A i \in 1..Len(window) : window[i] = current + Len(used) + i
    BY <1>1 DEF KeyLedger, UnusedKeys
  <2>3. \A i \in 1..Len(window') : window'[i] = current + Len(used) + i
    BY <1>1, <1>5, <2>1, <2>2 DEF Numbers
  <2> QED
    BY <1>2, <2>3 DEF UnusedKeys
<1>12. HandedKeys'
  BY <1>1, <1>2, <1>3, <1>5 DEF KeyLedger, HandedKeys, Numbers
<1>13. RevealedSecrets'
  BY <1>1, <1>2, <1>3 DEF KeyLedger, RevealedSecrets, Position, Numbers
<1>14. NeverRefused'
  BY <1>1, <1>2 DEF NeverRefused
<1> QED
  BY <1>7, <1>8, <1>9, <1>10, <1>11, <1>12, <1>13, <1>14 DEF IInv, KeyLedger

(***************************************************************************)
(* SignNextCommitment moves the first unused key to the end of the used    *)
(* keys and puts it on the wire: it is the key at the owner's height plus  *)
(* the number of signatures in flight, plus one.                           *)
(***************************************************************************)
LEMMA SignNextCommitmentIInv ==
  ASSUME IInv, SignNextCommitment PROVE IInv'
<1>1. TypeOK /\ Numbers /\ KeyLedger /\ NeverRefused
  BY Arithmetic DEF IInv
<1>2. /\ UNCHANGED <<current, secrets, height, edge, revs, failed>>
      /\ window \in Seq(Keys) /\ used \in Seq(Keys) /\ sigs \in Seq(Keys)
      /\ window' = Tail(window) /\ used' = Append(used, Head(window))
      /\ sigs' = Append(sigs, Head(window))
      /\ Len(window) # 0 /\ current + Len(used) < MaxHeight
  BY <1>1 DEF TypeOK, SignNextCommitment, HasWindow, owner
<1>3. /\ Head(window) = window[1] /\ Head(window) \in Keys
      /\ window' \in Seq(Keys)
      /\ Len(window) >= 1 /\ Len(window') = Len(window) - 1
      /\ \A i \in 1..Len(window') : window'[i] = window[i + 1]
  <2>1. window # <<>>
    BY <1>2
  <2> QED
    BY <1>2, <2>1, TailFacts
<1>4. /\ used' \in Seq(Keys) /\ Len(used') = Len(used) + 1
      /\ \A i \in 1..Len(used) : used'[i] = used[i]
      /\ used'[Len(used) + 1] = window[1]
  BY <1>2, <1>3, AppendFacts
<1>5. /\ sigs' \in Seq(Keys) /\ Len(sigs') = Len(sigs) + 1
      /\ \A i \in 1..Len(sigs) : sigs'[i] = sigs[i]
      /\ sigs'[Len(sigs) + 1] = window[1]
  BY <1>2, <1>3, AppendFacts
<1>6. window[1] = current + Len(used) + 1
  BY <1>1, <1>3 DEF KeyLedger, UnusedKeys, Numbers
<1>7. TypeOK'
  BY <1>1, <1>2, <1>3, <1>4, <1>5 DEF TypeOK
<1>8. Counts'
  BY <1>1, <1>2, <1>4, <1>5 DEF KeyLedger, Counts, Numbers
<1>9. EdgeReached'
  <2>1. /\ edge = height + W
        /\ edge = current + Len(used) + Len(window) + Len(revs)
    BY <1>1, <1>3 DEF KeyLedger, EdgeReached, Numbers
  <2>2. /\ edge' = edge /\ height' = height /\ current' = current
        /\ Len(used') = Len(used) + 1 /\ Len(window') = Len(window) - 1
        /\ Len(revs') = Len(revs)
    BY <1>2, <1>3, <1>4
  <2> QED
    BY <1>1, <2>1, <2>2 DEF EdgeReached, Numbers
<1>10. UsedKeys'
  <2>1. ASSUME NEW i \in 1..Len(used') PROVE used'[i] = current + i
    <3>1. CASE i = Len(used) + 1
      BY <1>1, <1>4, <1>6, <3>1 DEF Numbers
    <3>2. CASE i # Len(used) + 1
      BY <1>1, <1>4, <3>2 DEF KeyLedger, UsedKeys, Numbers
    <3> QED
      BY <3>1, <3>2
  <2> QED
    BY <1>2, <2>1, SMTT(30) DEF UsedKeys
<1>11. UnusedKeys'
  <2>1. \A i \in 1..Len(window') : window'[i] = current + (Len(used) + 1) + i
    BY <1>1, <1>3 DEF KeyLedger, UnusedKeys, Numbers
  <2> QED
    BY <1>2, <1>4, <2>1 DEF UnusedKeys
<1>12. SignedKeys'
  <2>1. window[1] = height + Len(sigs) + 1
    BY <1>1, <1>6 DEF KeyLedger, Counts, Numbers
  <2>2. ASSUME NEW i \in 1..Len(sigs') PROVE sigs'[i] = height + i
    <3>1. CASE i = Len(sigs) + 1
      BY <1>1, <1>5, <2>1, <3>1 DEF Numbers
    <3>2. CASE i # Len(sigs) + 1
      BY <1>1, <1>5, <3>2, SMTT(30) DEF KeyLedger, SignedKeys, Numbers
    <3> QED
      BY <3>1, <3>2
  <2> QED
    BY <1>2, <2>2 DEF SignedKeys
<1>13. HandedKeys'
  <2>1. Len(used') + Len(window') = Len(used) + Len(window)
    BY <1>1, <1>3, <1>4 DEF Numbers
  <2> QED
    BY <1>1, <1>2, <1>3, <1>4, <2>1 DEF KeyLedger, HandedKeys, Numbers
<1>14. RevealedSecrets'
  BY <1>1, <1>2 DEF KeyLedger, RevealedSecrets, Position
<1>15. NeverRefused'
  BY <1>1, <1>2 DEF NeverRefused
<1> QED
  BY <1>7, <1>8, <1>9, <1>10, <1>11, <1>12, <1>13, <1>14, <1>15
  DEF IInv, KeyLedger

(***************************************************************************)
(* ReceiveNewCommitment never takes its failing branch: the first          *)
(* signature in flight carries the key just above the owner's height.  The *)
(* revocation it sends extends both ends of the ledger by one.             *)
(***************************************************************************)
LEMMA ReceiveNewCommitmentIInv ==
  ASSUME IInv, ReceiveNewCommitment PROVE IInv'
<1>1. TypeOK /\ Numbers /\ KeyLedger /\ NeverRefused
  BY Arithmetic DEF IInv
<1>2. /\ edge > height /\ sigs \in Seq(Keys) /\ sigs # <<>>
      /\ revs \in Seq(Revocations) /\ sigs' = Tail(sigs)
      /\ UNCHANGED <<window, used, current, secrets>>
  BY <1>1 DEF TypeOK, ReceiveNewCommitment, Started, signer
<1>3. /\ Head(sigs) = sigs[1] /\ sigs' \in Seq(Keys)
      /\ Len(sigs) >= 1 /\ Len(sigs') = Len(sigs) - 1
      /\ \A i \in 1..Len(sigs') : sigs'[i] = sigs[i + 1]
  BY <1>2, TailFacts
<1>4. Head(sigs) = height + 1
  BY <1>1, <1>3 DEF KeyLedger, SignedKeys, Numbers
<1>5. /\ height' = height + 1 /\ edge' = edge + 1 /\ UNCHANGED failed
      /\ revs' = Append(revs, [secret |-> height, next |-> edge + 1])
  BY <1>4 DEF ReceiveNewCommitment, RevokeMsg
<1>6. height + 1 <= MaxHeight /\ current <= height
  BY <1>1, <1>3 DEF KeyLedger, Counts, Numbers
<1>7. /\ edge = height + W
      /\ edge = current + Len(used) + Len(window) + Len(revs)
  BY <1>1, <1>2 DEF KeyLedger, EdgeReached, Numbers
<1>8. height' \in Heights /\ edge' \in Keys
  BY <1>1, <1>5, <1>6, <1>7 DEF Heights, Keys, Numbers
<1>9. [secret |-> height, next |-> edge + 1] \in Revocations
  <2>1. height \in Heights /\ edge + 1 \in Keys
    BY <1>1, <1>5, <1>8 DEF TypeOK
  <2> QED
    BY <2>1 DEF Revocations
<1>10. /\ revs' \in Seq(Revocations) /\ Len(revs') = Len(revs) + 1
       /\ \A i \in 1..Len(revs) : revs'[i] = revs[i]
       /\ revs'[Len(revs) + 1] = [secret |-> height, next |-> edge + 1]
  BY <1>2, <1>5, <1>9, AppendFacts
<1>11. TypeOK'
  BY <1>1, <1>2, <1>3, <1>5, <1>8, <1>10 DEF TypeOK
<1>12. /\ Len(used') = Len(used) /\ Len(window') = Len(window)
       /\ current' = current /\ secrets' = secrets
  BY <1>2
<1>13. Counts' /\ EdgeReached'
  <2>1. Counts
    BY <1>1 DEF KeyLedger
  <2>2. Counts'
    BY <1>1, <1>3, <1>5, <1>10, <1>12, <2>1 DEF Counts, Numbers
  <2>3. edge' = height' + W
    BY <1>1, <1>5, <1>7 DEF Numbers
  <2>4. edge + 1 = current + Len(used) + Len(window) + (Len(revs) + 1)
    BY <1>1, <1>7 DEF Numbers
  <2>5. EdgeReached'
    BY <1>5, <1>10, <1>12, <2>3, <2>4 DEF EdgeReached
  <2> QED
    BY <2>2, <2>5
<1>14. UsedKeys' /\ UnusedKeys'
  BY <1>1, <1>2 DEF KeyLedger, UsedKeys, UnusedKeys
<1>15. SignedKeys'
  <2>1. \A i \in 1..Len(sigs') : sigs'[i] = (height + 1) + i
    BY <1>1, <1>3 DEF KeyLedger, SignedKeys, Numbers
  <2> QED
    BY <1>5, <2>1 DEF SignedKeys
<1>16. HandedKeys'
  <2>1. ASSUME NEW i \in 1..Len(revs')
        PROVE  revs'[i].next = current + Len(used) + Len(window) + i
    <3>1. CASE i = Len(revs) + 1
      BY <1>1, <1>7, <1>10, <3>1 DEF Numbers
    <3>2. CASE i # Len(revs) + 1
      BY <1>1, <1>10, <3>2, SMTT(30) DEF KeyLedger, HandedKeys, Numbers
    <3> QED
      BY <3>1, <3>2
  <2> QED
    BY <1>2, <2>1 DEF HandedKeys
<1>17. RevealedSecrets'
  <2> DEFINE P(i) == (height + 1) - (Len(revs) + 1) + i - 1
  <2>1. ASSUME NEW i \in 1..Len(revs')
        PROVE  /\ P(i) < current => revs'[i].secret = NoSecret
               /\ P(i) >= current => revs'[i].secret = P(i)
    <3>1. CASE i = Len(revs) + 1
      BY <1>1, <1>6, <1>10, <3>1 DEF Numbers
    <3>2. CASE i # Len(revs) + 1
      <4>1. i \in 1..Len(revs) /\ revs'[i] = revs[i] /\ P(i) = Position(i)
        BY <1>1, <1>10, <3>2 DEF Position, Numbers
      <4> QED
        BY <1>1, <4>1 DEF KeyLedger, RevealedSecrets
    <3> QED
      BY <3>1, <3>2
  <2> QED
    BY <1>2, <1>5, <1>10, <2>1 DEF RevealedSecrets, Position
<1>18. NeverRefused'
  BY <1>1, <1>5 DEF NeverRefused
<1> QED
  BY <1>11, <1>12, <1>13, <1>14, <1>15, <1>16, <1>17, <1>18
  DEF IInv, KeyLedger


(***************************************************************************)
(* ReceiveRevocation never takes its failing branch: the first secret in   *)
(* flight is that of the current key, and a used key is there to replace   *)
(* it.  The ledger's lower end moves up by one.                            *)
(***************************************************************************)
LEMMA ReceiveRevocationIInv ==
  ASSUME IInv, ReceiveRevocation PROVE IInv'
<1>1. TypeOK /\ Numbers /\ KeyLedger /\ NeverRefused
  BY Arithmetic DEF IInv
<1>2. /\ revs \in Seq(Revocations) /\ revs # <<>> /\ revs' = Tail(revs)
      /\ window \in Seq(Keys) /\ used \in Seq(Keys)
      /\ Head(revs).secret # NoSecret
      /\ UNCHANGED <<height, edge, sigs>>
  BY <1>1 DEF TypeOK, ReceiveRevocation, owner
<1>3. /\ Head(revs) = revs[1] /\ Head(revs) \in Revocations
      /\ revs' \in Seq(Revocations)
      /\ Len(revs) >= 1 /\ Len(revs') = Len(revs) - 1
      /\ \A i \in 1..Len(revs') : revs'[i] = revs[i + 1]
  BY <1>2, TailFacts
<1>4. /\ revs[1].secret = height - Len(revs) /\ height - Len(revs) >= current
      /\ height - current <= Len(revs)
  <2>1. /\ Position(1) = height - Len(revs)
        /\ Position(1) < current => revs[1].secret = NoSecret
        /\ Position(1) >= current => revs[1].secret = Position(1)
    BY <1>1, <1>3 DEF KeyLedger, RevealedSecrets, Position, Numbers
  <2>2. height - current <= Len(revs)
    BY <1>1 DEF KeyLedger, Counts
  <2> QED
    BY <1>1, <1>2, <1>3, <2>1, <2>2 DEF Numbers
<1>5. /\ revs[1].secret = current /\ secrets = current
      /\ Len(used) >= 1 /\ height - current >= 1
  <2>1. /\ secrets = current
        /\ Len(used) = Len(sigs) + (height - current)
    BY <1>1 DEF KeyLedger, Counts
  <2>2. height - current = Len(revs)
    BY <1>1, <1>4 DEF Numbers
  <2> QED
    BY <1>1, <1>3, <1>4, <2>1, <2>2 DEF Numbers
<1>6. used # <<>>
  BY <1>5
<1>7. /\ secrets' = secrets + 1 /\ current' = Head(used) /\ used' = Tail(used)
      /\ window' = Append(window, Head(revs).next) /\ UNCHANGED failed
  BY <1>3, <1>5, <1>6 DEF ReceiveRevocation, Matches
<1>8. /\ Head(used) = used[1] /\ used' \in Seq(Keys)
      /\ Len(used') = Len(used) - 1
      /\ \A i \in 1..Len(used') : used'[i] = used[i + 1]
  BY <1>2, <1>6, <1>7, TailFacts
<1>9. current' = current + 1
  BY <1>1, <1>5, <1>7, <1>8 DEF KeyLedger, UsedKeys, Numbers
<1>10. Head(revs).next \in Keys
  BY <1>3 DEF Revocations
<1>11. /\ window' \in Seq(Keys) /\ Len(window') = Len(window) + 1
       /\ \A i \in 1..Len(window) : window'[i] = window[i]
       /\ window'[Len(window) + 1] = revs[1].next
  BY <1>2, <1>3, <1>7, <1>10, AppendFacts
<1>12. TypeOK'
  <2>1. current' \in Heights /\ secrets' \in Heights
    BY <1>1, <1>5, <1>7, <1>9, SMTT(30) DEF TypeOK, Heights, Numbers
  <2> QED
    BY <1>1, <1>2, <1>3, <1>7, <1>8, <1>11, <2>1 DEF TypeOK
<1>13. /\ height' = height /\ edge' = edge /\ Len(sigs') = Len(sigs)
       /\ secrets' = current + 1
  BY <1>2, <1>5, <1>7
<1>14. Counts' /\ EdgeReached'
  <2>1. Counts
    BY <1>1 DEF KeyLedger
  <2>2. Counts'
    BY <1>1, <1>3, <1>4, <1>5, <1>8, <1>9, <1>13, <2>1 DEF Counts, Numbers
  <2>3. /\ edge = height + W
        /\ edge = current + Len(used) + Len(window) + Len(revs)
    BY <1>1, <1>5 DEF KeyLedger, EdgeReached, Numbers
  <2>4. edge = (current + 1) + (Len(used) - 1)
                 + (Len(window) + 1) + (Len(revs) - 1)
    BY <1>1, <2>3 DEF Numbers
  <2>5. EdgeReached'
    BY <1>3, <1>8, <1>9, <1>11, <1>13, <2>3, <2>4 DEF EdgeReached
  <2> QED
    BY <2>2, <2>5
<1>15. UsedKeys'
  <2>1. \A i \in 1..Len(used') : used'[i] = (current + 1) + i
    BY <1>1, <1>8 DEF KeyLedger, UsedKeys, Numbers
  <2> QED
    BY <1>9, <2>1 DEF UsedKeys
<1>16. UnusedKeys'
  <2>1. revs[1].next = current + Len(used) + Len(window) + 1
    BY <1>1, <1>3 DEF KeyLedger, HandedKeys, Numbers
  <2>2. ASSUME NEW i \in 1..Len(window')
        PROVE  window'[i] = (current + 1) + (Len(used) - 1) + i
    <3>1. CASE i = Len(window) + 1
      BY <1>1, <1>11, <2>1, <3>1 DEF Numbers
    <3>2. CASE i # Len(window) + 1
      <4>1. i \in 1..Len(window) /\ window'[i] = window[i]
        BY <1>1, <1>11, <3>2 DEF Numbers
      <4>2. window[i] = current + Len(used) + i
        BY <1>1, <4>1 DEF KeyLedger, UnusedKeys
      <4> QED
        BY <1>1, <4>1, <4>2 DEF Numbers
    <3> QED
      BY <3>1, <3>2
  <2> QED
    BY <1>8, <1>9, <2>2 DEF UnusedKeys
<1>17. SignedKeys'
  BY <1>1, <1>2 DEF KeyLedger, SignedKeys
<1>18. HandedKeys'
  <2>1. ASSUME NEW i \in 1..Len(revs')
        PROVE  revs'[i].next =
                 (current + 1) + (Len(used) - 1) + (Len(window) + 1) + i
    <3>1. i \in Int /\ i + 1 \in 1..Len(revs) /\ revs'[i] = revs[i + 1]
      BY <1>1, <1>3 DEF Numbers
    <3>2. revs[i + 1].next = current + Len(used) + Len(window) + (i + 1)
      BY <1>1, <3>1 DEF KeyLedger, HandedKeys
    <3> QED
      BY <1>1, <3>1, <3>2 DEF Numbers
  <2> QED
    BY <1>8, <1>9, <1>11, <2>1 DEF HandedKeys
<1>19. RevealedSecrets'
  <2> DEFINE P(i) == height - (Len(revs) - 1) + i - 1
  <2>1. ASSUME NEW i \in 1..Len(revs')
        PROVE  P(i) >= current + 1 /\ P(i) \in Int /\ revs'[i].secret = P(i)
    <3>1. i \in Int /\ i + 1 \in 1..Len(revs) /\ revs'[i] = revs[i + 1]
      BY <1>1, <1>3 DEF Numbers
    <3>2. /\ P(i) \in Int /\ P(i) = Position(i + 1) /\ P(i) >= current + 1
      BY <1>1, <1>4, <3>1 DEF Position, Numbers
    <3>3. Position(i + 1) >= current
      BY <1>1, <3>2 DEF Numbers
    <3> QED
      BY <1>1, <3>1, <3>2, <3>3 DEF KeyLedger, RevealedSecrets
  <2>2. \A i \in 1..Len(revs') : Position(i)' = P(i)
    BY <1>3, <1>13 DEF Position
  <2> HIDE DEF P
  <2>3. ASSUME NEW i \in 1..Len(revs')
        PROVE  /\ ~(Position(i)' < current') /\ revs'[i].secret = Position(i)'
    BY <1>1, <1>9, <2>1, <2>2 DEF Numbers
  <2> QED
    BY <2>3 DEF RevealedSecrets
<1>20. NeverRefused'
  BY <1>1, <1>7 DEF NeverRefused
<1> QED
  BY <1>12, <1>14, <1>15, <1>16, <1>17, <1>18, <1>19, <1>20
  DEF IInv, KeyLedger

(***************************************************************************)
(* ReceiveRevocationAndSign moves the ledger's lower end up by one, as     *)
(* ReceiveRevocation does, and the first unused key from the window to the *)
(* used keys, as SignNextCommitment does.                                  *)
(***************************************************************************)
LEMMA ReceiveRevocationAndSignIInv ==
  ASSUME IInv, ReceiveRevocationAndSign PROVE IInv'
<1> DEFINE w == Append(window, Head(revs).next)
<1>1. TypeOK /\ Numbers /\ KeyLedger /\ NeverRefused
  BY Arithmetic DEF IInv
<1>2. /\ revs \in Seq(Revocations) /\ revs # <<>> /\ revs' = Tail(revs)
      /\ window \in Seq(Keys) /\ used \in Seq(Keys) /\ sigs \in Seq(Keys)
      /\ used # <<>> /\ Head(revs).secret = current /\ secrets = current
      /\ current + Len(used) < MaxHeight
      /\ window' = Tail(w) /\ used' = Append(Tail(used), Head(w))
      /\ sigs' = Append(sigs, Head(w))
      /\ secrets' = secrets + 1 /\ current' = Head(used)
      /\ UNCHANGED <<height, edge, failed>>
  BY <1>1 DEF TypeOK, ReceiveRevocationAndSign, Matches, owner
<1>3. /\ Head(revs) = revs[1] /\ Head(revs) \in Revocations
      /\ revs' \in Seq(Revocations)
      /\ Len(revs) >= 1 /\ Len(revs') = Len(revs) - 1
      /\ \A i \in 1..Len(revs') : revs'[i] = revs[i + 1]
  BY <1>2, TailFacts
<1>4. height - Len(revs) >= current /\ height - current <= Len(revs)
  <2>1. /\ Position(1) = height - Len(revs)
        /\ Position(1) < current => revs[1].secret = NoSecret
    BY <1>1, <1>3 DEF KeyLedger, RevealedSecrets, Position, Numbers
  <2>2. height - current <= Len(revs)
    BY <1>1 DEF KeyLedger, Counts
  <2> QED
    BY <1>1, <1>2, <1>3, <2>1, <2>2 DEF Numbers
<1>5. /\ Head(used) = used[1] /\ Tail(used) \in Seq(Keys) /\ Len(used) >= 1
      /\ Len(Tail(used)) = Len(used) - 1
      /\ \A i \in 1..Len(Tail(used)) : Tail(used)[i] = used[i + 1]
  BY <1>2, TailFacts
<1>6. current' = current + 1
  BY <1>1, <1>2, <1>5 DEF KeyLedger, UsedKeys, Numbers
<1>7. /\ w \in Seq(Keys) /\ Len(w) = Len(window) + 1
      /\ \A i \in 1..Len(w) : w[i] = current + Len(used) + i
  <2>1. Head(revs).next \in Keys
    BY <1>3 DEF Revocations
  <2>2. /\ w \in Seq(Keys) /\ Len(w) = Len(window) + 1
        /\ \A i \in 1..Len(window) : w[i] = window[i]
        /\ w[Len(window) + 1] = revs[1].next
    BY <1>2, <1>3, <2>1, AppendFacts
  <2>3. revs[1].next = current + Len(used) + Len(window) + 1
    BY <1>1, <1>3 DEF KeyLedger, HandedKeys, Numbers
  <2>4. ASSUME NEW i \in 1..Len(w) PROVE w[i] = current + Len(used) + i
    <3>1. CASE i = Len(window) + 1
      BY <1>1, <2>2, <2>3, <3>1 DEF Numbers
    <3>2. CASE i # Len(window) + 1
      BY <1>1, <2>2, <3>2 DEF KeyLedger, UnusedKeys, Numbers
    <3> QED
      BY <3>1, <3>2
  <2> QED
    BY <2>2, <2>4
<1> HIDE DEF w
<1>8. w # <<>>
  BY <1>1, <1>7 DEF Numbers
<1>9. /\ Head(w) = w[1] /\ Head(w) \in Keys
      /\ window' \in Seq(Keys) /\ Len(window') = Len(window)
      /\ \A i \in 1..Len(window') : window'[i] = w[i + 1]
  <2>1. /\ Head(w) = w[1] /\ Head(w) \in Keys
        /\ window' \in Seq(Keys) /\ Len(window') = Len(w) - 1
        /\ \A i \in 1..Len(window') : window'[i] = w[i + 1]
    BY <1>2, <1>7, <1>8, TailFacts
  <2> QED
    BY <1>1, <1>7, <2>1 DEF Numbers
<1>10. w[1] = current + Len(used) + 1
  BY <1>1, <1>7 DEF Numbers
<1>11. /\ used' \in Seq(Keys) /\ Len(used') = Len(used)
       /\ \A i \in 1..(Len(used) - 1) : used'[i] = used[i + 1]
       /\ used'[Len(used)] = w[1]
  <2>1. /\ used' \in Seq(Keys) /\ Len(used') = Len(Tail(used)) + 1
        /\ \A i \in 1..Len(Tail(used)) : used'[i] = Tail(used)[i]
        /\ used'[Len(Tail(used)) + 1] = w[1]
    BY <1>2, <1>5, <1>9, AppendFacts
  <2>2. Len(Tail(used)) + 1 = Len(used)
    BY <1>1, <1>5 DEF Numbers
  <2> QED
    BY <1>5, <2>1, <2>2
<1>12. /\ sigs' \in Seq(Keys) /\ Len(sigs') = Len(sigs) + 1
       /\ \A i \in 1..Len(sigs) : sigs'[i] = sigs[i]
       /\ sigs'[Len(sigs) + 1] = w[1]
  BY <1>2, <1>9, AppendFacts
<1>13. /\ height' = height /\ edge' = edge /\ secrets' = current + 1
       /\ current + Len(used) < MaxHeight
  BY <1>2
<1>14. TypeOK'
  <2>1. current' \in Heights /\ secrets' \in Heights
    BY <1>1, <1>6, <1>13 DEF Heights, Numbers
  <2> QED
    BY <1>1, <1>2, <1>3, <1>9, <1>11, <1>12, <2>1 DEF TypeOK
<1>15. Counts'
  <2>1. Counts
    BY <1>1 DEF KeyLedger
  <2> QED
    BY <1>1, <1>3, <1>4, <1>6, <1>11, <1>12, <1>13, <2>1, SMTT(30) DEF Counts,
       Numbers
<1>16. EdgeReached'
  <2>1. /\ edge = height + W
        /\ edge = current + Len(used) + Len(window) + Len(revs)
    BY <1>1, <1>5 DEF KeyLedger, EdgeReached, Numbers
  <2>2. edge = (current + 1) + Len(used) + Len(window) + (Len(revs) - 1)
    BY <1>1, <2>1 DEF Numbers
  <2> QED
    BY <1>3, <1>6, <1>9, <1>11, <1>13, <2>1, <2>2 DEF EdgeReached
<1>17. UsedKeys'
  <2>1. ASSUME NEW i \in 1..Len(used') PROVE used'[i] = (current + 1) + i
    <3>1. CASE i = Len(used)
      BY <1>1, <1>10, <1>11, <3>1 DEF Numbers
    <3>2. CASE i # Len(used)
      <4>1. i \in 1..(Len(used) - 1) /\ i + 1 \in 1..Len(used)
        BY <1>1, <1>11, <3>2 DEF Numbers
      <4> QED
        BY <1>1, <1>11, <4>1 DEF KeyLedger, UsedKeys, Numbers
    <3> QED
      BY <3>1, <3>2
  <2> QED
    BY <1>6, <2>1 DEF UsedKeys
<1>18. UnusedKeys'
  <2>1. ASSUME NEW i \in 1..Len(window')
        PROVE  window'[i] = (current + 1) + Len(used) + i
    <3>1. i + 1 \in 1..Len(w) /\ i \in Int
      BY <1>1, <1>7, <1>9 DEF Numbers
    <3> QED
      BY <1>1, <1>7, <1>9, <3>1 DEF Numbers
  <2> QED
    BY <1>6, <1>11, <2>1 DEF UnusedKeys
<1>19. SignedKeys'
  <2>1. w[1] = height + Len(sigs) + 1
    BY <1>1, <1>10 DEF KeyLedger, Counts, Numbers
  <2>2. ASSUME NEW i \in 1..Len(sigs') PROVE sigs'[i] = height + i
    <3>1. CASE i = Len(sigs) + 1
      BY <1>1, <1>12, <2>1, <3>1 DEF Numbers
    <3>2. CASE i # Len(sigs) + 1
      BY <1>1, <1>12, <3>2 DEF KeyLedger, SignedKeys, Numbers
    <3> QED
      BY <3>1, <3>2
  <2> QED
    BY <1>13, <2>2 DEF SignedKeys
<1>20. HandedKeys'
  <2>1. ASSUME NEW i \in 1..Len(revs')
        PROVE  revs'[i].next = (current + 1) + Len(used) + Len(window) + i
    <3>1. i \in Int /\ i + 1 \in 1..Len(revs) /\ revs'[i] = revs[i + 1]
      BY <1>1, <1>3 DEF Numbers
    <3>2. revs[i + 1].next = current + Len(used) + Len(window) + (i + 1)
      BY <1>1, <3>1 DEF KeyLedger, HandedKeys
    <3> QED
      BY <1>1, <3>1, <3>2 DEF Numbers
  <2> QED
    BY <1>6, <1>9, <1>11, <2>1 DEF HandedKeys
<1>21. RevealedSecrets'
  <2> DEFINE P(i) == height - (Len(revs) - 1) + i - 1
  <2>1. ASSUME NEW i \in 1..Len(revs')
        PROVE  P(i) >= current + 1 /\ P(i) \in Int /\ revs'[i].secret = P(i)
    <3>1. i \in Int /\ i + 1 \in 1..Len(revs) /\ revs'[i] = revs[i + 1]
      BY <1>1, <1>3 DEF Numbers
    <3>2. /\ P(i) \in Int /\ P(i) = Position(i + 1) /\ P(i) >= current + 1
      BY <1>1, <1>4, <3>1 DEF Position, Numbers
    <3>3. Position(i + 1) >= current
      BY <1>1, <3>2 DEF Numbers
    <3> QED
      BY <1>1, <3>1, <3>2, <3>3 DEF KeyLedger, RevealedSecrets
  <2>2. \A i \in 1..Len(revs') : Position(i)' = P(i)
    BY <1>3, <1>13 DEF Position
  <2> HIDE DEF P
  <2>3. ASSUME NEW i \in 1..Len(revs')
        PROVE  /\ ~(Position(i)' < current') /\ revs'[i].secret = Position(i)'
    BY <1>1, <1>6, <2>1, <2>2 DEF Numbers
  <2> QED
    BY <2>3 DEF RevealedSecrets
<1>22. NeverRefused'
  BY <1>1, <1>2 DEF NeverRefused
<1> QED
  BY <1>14, <1>15, <1>16, <1>17, <1>18, <1>19, <1>20, <1>21, <1>22
  DEF IInv, KeyLedger

(***************************************************************************)
(* The invariant is inductive.                                             *)
(***************************************************************************)
LEMMA NextIInv == IInv /\ [Next]_vars => IInv'
<1> SUFFICES ASSUME IInv, [Next]_vars PROVE IInv'
  OBVIOUS
<1>1. CASE UNCHANGED vars
  BY <1>1 DEF vars, IInv, TypeOK, NeverRefused, KeyLedger, Counts, UsedKeys,
     UnusedKeys, SignedKeys, HandedKeys, RevealedSecrets, EdgeReached, Position
<1>2. CASE Next
  BY <1>2, StartSessionIInv, ReceiveExtensionIInv, SignNextCommitmentIInv,
     ReceiveNewCommitmentIInv, ReceiveRevocationIInv,
     ReceiveRevocationAndSignIInv DEF Next
<1> QED
  BY <1>1, <1>2

(***************************************************************************)
(* Every reachable state satisfies the inductive invariant.                *)
(***************************************************************************)
THEOREM Invariance == Spec => []IInv
BY InitIInv, NextIInv, PTL DEF Spec

(***************************************************************************)
(* Heights, keys and messages stay within the session's ranges.            *)
(***************************************************************************)
THEOREM TypeCorrect == Spec => []TypeOK
<1>1. IInv => TypeOK
  BY DEF IInv
<1> QED
  BY <1>1, Invariance, PTL

(***************************************************************************)
(* For every window size, no honest signature or revocation is ever        *)
(* refused by ReceiveNewCommitment or ReceiveRevocation.                   *)
(***************************************************************************)
THEOREM HonestMessagesAccepted == Spec => []NeverRefused
<1>1. IInv => NeverRefused
  BY DEF IInv
<1> QED
  BY <1>1, Invariance, PTL

(***************************************************************************)
(* RevokeCurrentCommitment never exposes the secret of the commitment the  *)
(* owner could still broadcast.                                            *)
(***************************************************************************)
THEOREM CurrentNeverRevoked == Spec => []OnlyPastRevoked
<1>1. IInv => OnlyPastRevoked
  <2> SUFFICES ASSUME IInv PROVE OnlyPastRevoked
    OBVIOUS
  <2>1. Numbers /\ Counts /\ RevealedSecrets
    BY Arithmetic DEF IInv, KeyLedger
  <2>2. secrets <= height
    BY <2>1 DEF Counts, Numbers
  <2>3. ASSUME NEW i \in 1..Len(revs) PROVE revs[i].secret < height
    <3>1. Position(i) \in Int /\ Position(i) < height
      BY <2>1 DEF Position, Numbers
    <3> QED
      BY <2>1, <3>1 DEF RevealedSecrets, Numbers
  <2> QED
    BY <2>2, <2>3 DEF OnlyPastRevoked
<1> QED
  BY <1>1, Invariance, PTL

(***************************************************************************)
(* Unrevoked commitments are exactly the ones with a message in flight,    *)
(* and SignNextCommitment's window check bounds them.                      *)
(***************************************************************************)
THEOREM WindowBounded == Spec => []InFlightAccounted
<1>1. IInv => InFlightAccounted
  <2> SUFFICES ASSUME IInv PROVE InFlightAccounted
    OBVIOUS
  <2>1. Numbers /\ Counts /\ EdgeReached
    BY Arithmetic DEF IInv, KeyLedger
  <2>2. Len(used) <= W
    BY <2>1 DEF Counts, EdgeReached, Numbers
  <2> QED
    BY <2>1, <2>2 DEF InFlightAccounted, Counts
<1> QED
  BY <1>1, Invariance, PTL

(***************************************************************************)
(* A quiet signer has its whole window back: the protocol never leaks a    *)
(* revocation key.                                                         *)
(***************************************************************************)
THEOREM WindowNeverLeaks == Spec => []WindowRestored
<1>1. IInv => WindowRestored
  <2> SUFFICES ASSUME IInv, Started, used = <<>>, revs = <<>>
               PROVE  Len(window) = W
    BY DEF WindowRestored
  <2>1. Numbers /\ Counts /\ EdgeReached
    BY Arithmetic DEF IInv, KeyLedger
  <2>2. Len(used) = 0 /\ Len(revs) = 0 /\ edge > height
    BY DEF Started
  <2> QED
    BY <2>1, <2>2 DEF Counts, EdgeReached, Numbers
<1> QED
  BY <1>1, Invariance, PTL

===============================================================================
