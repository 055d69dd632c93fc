--------------------------- MODULE MCGarnetWakeup ---------------------------
(* One router at half the speed of its network interface, everything run   *)
(* by the calling thread: controller k - NI n - l0 -> router 0, a credit   *)
(* link k0 from the router back to n, and an output unit o0 of the router. *)
EXTENDS GarnetWakeup, TLC

CONSTANTS l0, k0, o0, n, k

MCLinks         == {l0, k0}
MCOutputUnits   == {o0}
MCNIs           == {n}
MCControllers   == {k}
MCLinkConsumer  == (l0 :> 0) @@ (k0 :> n)
MCRouterOut     == 0 :> {k0, o0}
MCNIFlitLinks   == n :> {l0}
MCNICreditLinks == n :> {}
MCNIRouter      == n :> 0
MCNIOf          == k :> n
TwoClocks       == [c \in {0, l0, k0, o0, n, k} |-> IF c \in {0, o0} THEN 2 ELSE 1]
=============================================================================
