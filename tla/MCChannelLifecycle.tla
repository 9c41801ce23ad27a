-------------------------- MODULE MCChannelLifecycle --------------------------
EXTENDS ChannelLifecycle

Point(h) == [Hash |-> h, Index |-> 0]

ChanSet == {Point("c1"), Point("c2"), Point("c3")}

\* Two channels with one node and one with another.
Remotes == [o \in ChanSet |-> IF o.Hash = "c3" THEN "bob" ELSE "alice"]

Htlc(in, hash) ==
  [Incoming |-> in, Amt |-> 2, RHash |-> hash, RefundTimeout |-> 9, RevocationDelay |-> 5]

Lists == {<<>>, <<Htlc(TRUE, "h1"), Htlc(FALSE, "h2")>>}

Inv(preimage, whole) ==
  [Memo |-> "memo", Receipt |-> "receipt", CreationDate |-> [at |-> 3, wholeMinutes |-> whole],
   PaymentPreimage |-> preimage, Value |-> 5, Settled |-> FALSE]

Plan(open, close, u, f) ==
  [open |-> {Point(h) : h \in open}, close |-> {Point(h) : h \in close},
   updates |-> u, faults |-> f]

\* One channel, with faults; two with the same node, one of which is closed,
\* then both kept, with faults; two with different nodes.
PlanSet == {Plan({"c1"}, {"c1"}, 2, 1), Plan({"c1", "c2"}, {"c1"}, 1, 0),
            Plan({"c1", "c2"}, {}, 3, 1), Plan({"c1", "c3"}, {"c1"}, 1, 0)}

InvoiceSet == {Inv("p1", TRUE), Inv("p2", FALSE), Inv("p3", TRUE)}
===============================================================================
