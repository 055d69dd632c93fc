----------------------------- MODULE NetworkLink -----------------------------
(***************************************************************************)
(* NetworkLink::wakeup(), for flits and (as CreditLink) for credits.       *)
(***************************************************************************)
EXTENDS GarnetTypes

(* Slip: the receiver is woken a cycle after the arrival.                  *)
TransferLateWake(me, latency, from, to, receiver) ==
    [from |-> AfterConsume(from),
     to   |-> IF Ready(from) THEN Append(to, At(Head(from), latency)) ELSE to,
     wake |-> Woken(me, IF AfterConsume(from) # <<>> THEN {1} ELSE {},
                    IF Ready(from) THEN {<<receiver, latency + 1>>} ELSE {})]

(* The link takes one ready flit from its source queue, stamps it with its *)
(* arrival tick, wakes the receiver for that tick, and asks to run again   *)
(* while the queue holds more.                                             *)
Transfer(me, latency, from, to, receiver) ==
    [from |-> AfterConsume(from),
     to   |-> IF Ready(from) THEN Append(to, At(Head(from), latency)) ELSE to,
     wake |-> Woken(me, IF AfterConsume(from) # <<>> THEN {1} ELSE {},
                    IF Ready(from) THEN {<<receiver, latency>>} ELSE {})]

NetworkLinkWakeup(ch) ==
    LET me == <<"flits", ch>>
        move == Transfer(me, LinkLatency[ch], srcQ[ch], lnk[ch], ch[2])
    IN  /\ 0 \in wake[me]
        /\ srcQ' = [srcQ EXCEPT ![ch] = move.from]
        /\ lnk' = [lnk EXCEPT ![ch] = move.to]
        /\ wake' = move.wake
        /\ UNCHANGED <<crQ, crL, outVc, routerVars, niVars, history>>

CreditLinkWakeup(ch) ==
    LET me == <<"credits", ch>>
        move == Transfer(me, LinkLatency[ch], crQ[ch], crL[ch], ch[1])
    IN  /\ 0 \in wake[me]
        /\ crQ' = [crQ EXCEPT ![ch] = move.from]
        /\ crL' = [crL EXCEPT ![ch] = move.to]
        /\ wake' = move.wake
        /\ UNCHANGED <<srcQ, lnk, outVc, routerVars, niVars, history>>
=============================================================================
