--------------------------- MODULE WakeupService ---------------------------
(***************************************************************************)
(* What waking promises to the objects of the network, without events,     *)
(* queues, masks and threads: a consumer asks for ticks to come, is woken  *)
(* exactly once at each of them and at no other, and time never passes a   *)
(* tick that somebody still waits for.  GarnetWakeup implements it.        *)
(***************************************************************************)
EXTENDS Naturals

CONSTANT Consumers

VARIABLES
    now,        \* the current tick
    pending,    \* consumer -> ticks it asked for and was not yet woken at
    woken       \* consumers woken at tick now

vars == <<now, pending, woken>>

Init ==
    /\ now = 0
    /\ pending \in [Consumers -> SUBSET {0}]
    /\ woken = {}

(* Time moves to the tick now', or stays, when nobody waits for an earlier *)
(* tick.                                                                   *)
Advance ==
    /\ now' \in Nat
    /\ now <= now'
    /\ \A c \in Consumers : \A u \in pending[c] : now' <= u

(* The consumers that were already woken at the tick time has moved to *)
AlreadyWoken == IF now' = now THEN woken ELSE {}

(* A consumer waiting for the tick is woken, once.  It may ask for later   *)
(* ticks meanwhile, for itself and for others.                             *)
Wake(c) ==
    /\ Advance
    /\ now' \in pending[c]
    /\ c \notin AlreadyWoken
    /\ woken' = AlreadyWoken \cup {c}
    /\ DOMAIN pending' = Consumers
    /\ \A d \in Consumers :
          LET kept == pending[d] \ (IF d = c THEN {now'} ELSE {})
          IN  /\ kept \subseteq pending'[d]
              /\ \A u \in pending'[d] \ kept : u \in Nat /\ now' < u

(* Time passes and nobody is woken *)
Pass ==
    /\ Advance
    /\ woken' = AlreadyWoken
    /\ UNCHANGED pending

Next == Pass \/ \E c \in Consumers : Wake(c)

Spec == Init /\ [][Next]_vars
=============================================================================
