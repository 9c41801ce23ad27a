--------------------------- MODULE HtlcSwitchProofs ---------------------------
(***************************************************************************)
(* A proof about the payments of the switch, for every set of channels and *)
(* payments, every balance and any number of connections, overlapping or   *)
(* not.                                                                    *)
(***************************************************************************)
EXTENDS HtlcSwitch, TLAPS

\* Payment pay is in no goroutine of a send and with no htlcManager.
NotSent(pay) ==
  /\ \A g \in sends : g.pay # pay
  /\ \A h \in handed : h[1] # pay

\* A payment is to be made, or queued, or answered with an error, or sent.
OneFate ==
  /\ todo \cap outgoing = {}
  /\ rejected \cap (todo \cup outgoing) = {}
  /\ \A pay \in todo \cup outgoing \cup rejected : NotSent(pay)

LEMMA InitOneFate == Init => OneFate
BY DEF Init, OneFate, NotSent

\* Everything but the three steps of a payment leaves it where it is.
LEMMA SamePayments ==
  ASSUME OneFate, UNCHANGED payments
  PROVE  OneFate'
BY DEF OneFate, NotSent, payments

LEMMA SendStep ==
  ASSUME OneFate, NEW pay, SendHTLC(pay)
  PROVE  OneFate'
BY DEF OneFate, NotSent, SendHTLC

\* The forwarder answers with an error only if it has made no goroutine.
LEMMA ForwardStep ==
  ASSUME OneFate, NEW pay, Forward(pay)
  PROVE  OneFate'
<1>1. /\ pay \in outgoing /\ outgoing' = outgoing \ {pay}
      /\ todo' = todo /\ handed' = handed
  BY DEF Forward
<1>2. CASE Nil \in ToSet(interfaces)
  <2>1. sends' = sends /\ rejected' = rejected
    BY <1>2 DEF Forward
  <2> QED
    BY <1>1, <2>1 DEF OneFate, NotSent
<1>3. CASE Nil \notin ToSet(interfaces)
  <2> DEFINE used == {i \in DOMAIN interfaces : HasBandwidth(interfaces[i], pay.amt)}
             later(i) == {interfaces[j] : j \in i..Len(interfaces)}
             made == {[pay |-> pay, for |-> interfaces[i], sees |-> later(i)] :
                        i \in used}
  <2>1. sends' = sends \cup made /\ rejected' = Answer(pay, used)
    BY <1>3 DEF Forward
  <2>2. \A g \in made : g.pay = pay
    OBVIOUS
  <2>3. used = {} => made = {}
    OBVIOUS
  <2> HIDE DEF used, made
  <2>4. CASE used = {}
    BY <1>1, <2>1, <2>3, <2>4, SMTT(30) DEF OneFate, NotSent, Answer
  <2>5. CASE used # {}
    BY <1>1, <2>1, <2>2, <2>5, SMTT(30) DEF OneFate, NotSent, Answer
  <2> QED
    BY <2>4, <2>5
<1> QED
  BY <1>2, <1>3

LEMMA DeliverStep ==
  ASSUME OneFate, NEW g \in sends, Deliver(g)
  PROVE  OneFate'
<1>1. PICK l \in g.sees : handed' = handed \cup {<<g.pay, l>>}
  BY DEF Deliver
<1>2. /\ sends' \subseteq sends
      /\ todo' = todo /\ outgoing' = outgoing /\ rejected' = rejected
  BY DEF Deliver
<1> QED
  BY <1>1, <1>2 DEF OneFate, NotSent

LEMMA StepOneFate == OneFate /\ [Next]_vars => OneFate'
<1> SUFFICES ASSUME OneFate, [Next]_vars PROVE OneFate'
  OBVIOUS
<1>1. CASE UNCHANGED vars
  BY <1>1, SamePayments DEF vars
<1>2. CASE newPeer \/ handleLocalClose \/ \E c \in Chans : CloseLink(c)
  BY <1>2, SamePayments, ZenonT(30) DEF newPeer, handleLocalClose, CloseLink
<1>3. CASE \E s \in Sessions : Disconnect(s) \/ GoroutineQuits(s)
  BY <1>3, SamePayments DEF Disconnect, GoroutineQuits
<1>4. CASE \E s \in Sessions, c \in Chans :
             \/ NewChannel(s, c) \/ UpdateLink(s, c) \/ Confirmed(s, c)
             \/ Spent(s, c) \/ handleRemoteClose(s, c)
  BY <1>4, SamePayments DEF NewChannel, UpdateLink, Confirmed, Spent,
     handleRemoteClose
<1>5. CASE networkAdmin
  BY <1>5, SamePayments, ZenonT(30) DEF networkAdmin, RegisterLink,
     UnregisterLink, Purge,
     handleLinkUpdate, handleCloseLink
<1>6. CASE \E pay \in plan.pays : SendHTLC(pay) \/ Forward(pay)
  BY <1>6, SendStep, ForwardStep
<1>7. CASE \E g \in sends : Deliver(g)
  BY <1>7, DeliverStep
<1> QED
  BY <1>1, <1>2, <1>3, <1>4, <1>5, <1>6, <1>7, SMTT(30) DEF Next

(***************************************************************************)
(* A payment whose requester got an error from SendHTLC is in no goroutine *)
(* and with no htlcManager, then or later, though the forwarder tries all  *)
(* links and its goroutines outlive the answer (htlcForwarder).            *)
(***************************************************************************)
THEOREM ErrorMeansUnpaid == Spec => []RejectedNotSent
<1>1. OneFate => RejectedNotSent
  <2> SUFFICES ASSUME OneFate, NEW pay \in rejected
               PROVE  /\ \A g \in sends : g.pay # pay
                      /\ \A l \in Links : <<pay, l>> \notin handed
    BY DEF RejectedNotSent
  <2>1. NotSent(pay)
    BY DEF OneFate
  <2>2. \A l \in Links : <<pay, l>>[1] = pay
    OBVIOUS
  <2> QED
    BY <2>1, <2>2 DEF NotSent
<1> QED
  BY <1>1, InitOneFate, StepOneFate, PTL DEF Spec
===============================================================================
