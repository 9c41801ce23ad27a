--------------------------- MODULE MCChannelRestart ---------------------------
EXTENDS ChannelRestart

A == "alice"
B == "bob"
MCPeers == {A, B}
Pay(id, amt, hash) == [id |-> id, amt |-> amt, hash |-> hash]
Tight == (A :> {Pay(1, 1, "h"), Pay(2, 2, "h")}) @@ (B :> {Pay(1, 3, "h")})
OneEach == (A :> {Pay(1, 1, "h")}) @@ (B :> {Pay(1, 1, "h")})
Unknown == (A :> {Pay(1, 1, "h"), Pay(2, 2, "g")}) @@ (B :> {Pay(1, 1, "h")})
Both == (A :> {"h"}) @@ (B :> {"h"})
OnlyBob == (A :> {}) @@ (B :> {"h"})
Balances == (A :> 3) @@ (B :> 2)
===============================================================================
