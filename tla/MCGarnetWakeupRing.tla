------------------------- MODULE MCGarnetWakeupRing -------------------------
(* Two routers and a team of two threads: controllers k0 and k1 feed the   *)
(* NIs n0 and n1, whose links l0 and l1 lead to routers 0 and 1.  The ring *)
(* has three slots, so that it wraps, and a router may ask for a wakeup    *)
(* two cycles ahead, so that globalWakeup jumps over slots that are        *)
(* registered later.                                                       *)
EXTENDS GarnetWakeup, TLC

CONSTANTS l0, l1, n0, n1, k0, k1

MCRouters       == {0, 1}
MCLinks         == {l0, l1}
MCNIs           == {n0, n1}
MCControllers   == {k0, k1}
MCLinkConsumer  == (l0 :> 0) @@ (l1 :> 1)
MCRouterOut     == (0 :> {}) @@ (1 :> {})
MCNIFlitLinks   == (n0 :> {l0}) @@ (n1 :> {l1})
MCNICreditLinks == (n0 :> {}) @@ (n1 :> {})
MCNIRouter      == (n0 :> 0) @@ (n1 :> 1)
MCNIOf          == (k0 :> n0) @@ (k1 :> n1)
OneClock        == [c \in {0, 1, l0, l1, n0, n1, k0, k1} |-> 1]
=============================================================================
