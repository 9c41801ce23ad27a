----------------------------- MODULE MCHtlcSwitch -----------------------------
EXTENDS HtlcSwitch
Balances == [c \in Chans |-> IF c = "c" THEN 2 ELSE 1]
Pay(id, amt) == [id |-> id, amt |-> amt]
Plan(open, new, pays, conns, credit, local, remote) ==
  [open |-> open, new |-> new, pays |-> pays, peers |-> conns,
   credit |-> credit, local |-> local, remote |-> remote]

\* One connection, two channels and everything; two connections with one
\* channel, closed in every way; two connections with two channels, closed by
\* the chain or by the remote node; two connections, a channel and a payment.
MCPlans ==
  {Plan({"c"}, {"d"}, {Pay(1, 2)}, 1, 2, {"c"}, {"c"}),
   Plan({"c"}, {}, {}, 2, 3, {"c"}, {"c"}),
   Plan({"c"}, {"d"}, {}, 2, 0, {}, {"c"}),
   Plan({"c"}, {}, {Pay(1, 2)}, 2, 2, {}, {})}
===============================================================================
