--------------------------- MODULE MCFundingManager ---------------------------
EXTENDS FundingManager
Coin(n, i, asset, value) == [op |-> <<n, i>>, asset |-> asset, value |-> value]
\* "a" owns two coins of the asset around one of another, "b" owns one.
Coins == [n \in Nodes |->
  IF n = "a" THEN <<Coin(n, 1, "gold", 2), Coin(n, 2, "lead", 9),
                    Coin(n, 3, "gold", 2)>>
  ELSE <<Coin(n, 1, "gold", 3)>>]
Plan(opensA, opensB, requests, dials) ==
  [opens |-> [n \in Nodes |-> IF n = "a" THEN opensA ELSE opensB],
   requests |-> requests, dials |-> dials]

\* Two channels of "a" over two connections; one of each over one; one of
\* amounts that need both coins, are funded by both, by the other, or are more
\* than there is.
Workloads ==
  {Plan(2, 0, {<<2, 0>>}, <<"a", "b">>),
   Plan(1, 1, {<<2, 0>>}, <<"a">>),
   Plan(1, 0, {<<3, 0>>, <<1, 1>>, <<0, 2>>, <<0, 0>>, <<5, 0>>}, <<"b">>)}
OneChannel == {Plan(1, 0, {<<2, 0>>}, <<"a">>)}
===============================================================================
