------------------------------- MODULE Router -------------------------------
(***************************************************************************)
(* Router::wakeup(): the input units, the output units, the two stages of  *)
(* the SwitchAllocator and the crossbar, run in this order in one event.   *)
(*                                                                         *)
(* A VirtualChannel is a record: `rank' orders the packets of one input    *)
(* port as m_enqueue_time does (set_active() stamps them when their head   *)
(* arrives), 0 when the VC is idle; the tick of a buffered flit is the one *)
(* in which it enters the SA stage.                                        *)
(***************************************************************************)
EXTENDS GarnetTypes

NoPort == <<>>
NoVc == -1

IdleVc == [active |-> FALSE, outport |-> NoPort, outvc |-> NoVc,
           rank |-> 0, buf |-> <<>>]

(***************************************************************************)
(* InputUnit::wakeup(): one flit per input port.  A head activates its VC  *)
(* and has its route computed; every flit waits PipeStages - 1 cycles      *)
(* before switch allocation.                                               *)
(***************************************************************************)
NextRank(ranks) == 1 + Max(ranks \cup {0})

InputUnitWakeup(r, ch) ==
    [v \in VCs |->
        IF Ready(lnk[ch]) /\ Head(lnk[ch]).vc = v
        THEN LET f == Head(lnk[ch])
                 vc == vcs[ch][v]
                 opened == [vc EXCEPT !.active = TRUE,
                                      !.outport = Route[r][f.dst],
                                      !.rank = NextRank({vcs[ch][w].rank : w \in VCs})]
             IN  [(IF IsHead(f) THEN opened ELSE vc)
                    EXCEPT !.buf = Append(@, At(f, PipeStages - 1))]
        ELSE vcs[ch][v]]

(***************************************************************************)
(* SwitchAllocator::send_allowed(): a head needs an idle output VC, any    *)
(* other flit a credit of its output VC; in an ordered virtual network no  *)
(* packet that arrived earlier at this input port may want the same output *)
(* port.  vc is the input port's VCs, out the router's output VCs.         *)
(***************************************************************************)
FreeVcs(ovcs, vn) == {v \in VcsOf(vn) : ~ovcs[v].active}

(* Slip: arrival order is not looked at.                                   *)
MayOvertakeAlways(vc, v) == TRUE

MayOvertake(vc, v) ==
    \/ VnetOf(v) \notin Ordered
    \/ ~ \E w \in VcsOf(VnetOf(v)) : /\ Ready(vc[w].buf)
                                     /\ vc[w].outport = vc[v].outport
                                     /\ vc[w].rank < vc[v].rank

(* Slip: a packet that holds an output VC sends without looking at its     *)
(* credits.                                                                *)
SendAllowedNoCredit(vc, out, v) ==
    /\ vc[v].outvc = NoVc => FreeVcs(out[vc[v].outport], VnetOf(v)) # {}
    /\ MayOvertake(vc, v)

SendAllowed(vc, out, v) ==
    /\ IF vc[v].outvc = NoVc
       THEN FreeVcs(out[vc[v].outport], VnetOf(v)) # {}
       ELSE out[vc[v].outport][vc[v].outvc].credits > 0
    /\ MayOvertake(vc, v)

(* SA-I: the VC an input port puts forward.                                *)
ArbitrateInport(vc, out, ch) ==
    LET able == {v \in VCs : Ready(vc[v].buf) /\ SendAllowed(vc, out, v)}
    IN  IF able = {} THEN NoVc ELSE RoundRobin(able, rrVc[ch], Cardinality(VCs))

(* SA-II: the input port an output port grants.                            *)
ArbitrateOutport(r, o, vc, winner) ==
    LET asking == {i \in DOMAIN InPorts[r] :
                     LET ch == InPorts[r][i]
                     IN  winner[ch] # NoVc /\ vc[ch][winner[ch]].outport = o}
    IN  IF asking = {} THEN NoPort
        ELSE InPorts[r][RoundRobin(asking, rrIn[o], Len(InPorts[r]))]

(* Slip: the lowest output VC, idle or not.                                *)
VcAllocateLowest(vc, ovcs, v) ==
    IF vc[v].outvc = NoVc THEN Min(VcsOf(VnetOf(v))) ELSE vc[v].outvc

(* select_free_vc(): the lowest idle output VC; later flits of the packet  *)
(* keep the VC their head was given.                                       *)
VcAllocate(vc, ovcs, v) ==
    IF vc[v].outvc = NoVc THEN Min(FreeVcs(ovcs, VnetOf(v))) ELSE vc[v].outvc

(* The input VC once its top flit has been sent on output VC ov.           *)
AfterGrant(vc, ov) ==
    IF IsTail(Head(vc.buf)) THEN [IdleVc EXCEPT !.buf = Tail(vc.buf)]
    ELSE [vc EXCEPT !.buf = Tail(@), !.outvc = ov]

(* InputUnit::increment_credit(): a tail's credit frees the input VC.      *)
IncrementCredit(v, f) == Credit(v, IsTail(f))

(* CrossbarSwitch::wakeup(): the granted flit leaves in the next cycle.    *)
ThroughCrossbar(f, ov) == [f EXCEPT !.vc = ov, !.t = 1]

(* check_for_wakeup(): a flit will be in the SA stage in the next cycle.   *)
CheckForWakeup(after) ==
    \E ch \in DOMAIN after, v \in VCs :
        after[ch][v].buf # <<>> /\ Head(after[ch][v].buf).t <= 1

(***************************************************************************)
(* The crossbar forwards every granted flit in the same cycle into the     *)
(* output port's queue, with the link scheduled for the next one.          *)
(* InputUnit and OutputUnit ask to run again when a second flit or credit  *)
(* is ready; with one clock this never happens (OneReadyPerLink).          *)
(***************************************************************************)
SwitchTraversal(r, vc, out, winner, grant) ==
    LET busy == {o \in Outs(r) : grant[o] # NoPort}
        served == {grant[o] : o \in busy}
        ov == [ch \in served |->
                 VcAllocate(vc[ch], out[vc[ch][winner[ch]].outport], winner[ch])]
        top == [ch \in served |-> Head(vc[ch][winner[ch]].buf)]
        after == [ch \in Ins(r) |->
                    IF ch \in served
                    THEN [vc[ch] EXCEPT ![winner[ch]] = AfterGrant(@, ov[ch])]
                    ELSE vc[ch]]
        arrived == {ch \in Ins(r) : Ready(lnk[ch])}
    IN  /\ lnk' = [ch \in Channels |->
                     IF ch \in Ins(r) THEN AfterConsume(lnk[ch]) ELSE lnk[ch]]
        /\ crL' = [ch \in Channels |->
                     IF ch \in Outs(r) THEN AfterConsume(crL[ch]) ELSE crL[ch]]
        /\ vcs' = [ch \in DOMAIN vcs |-> IF ch \in Ins(r) THEN after[ch] ELSE vcs[ch]]
        /\ outVc' = [ch \in Channels |->
                       CASE ch \in busy ->
                              [out[ch] EXCEPT ![ov[grant[ch]]] = Spend(Allocate(@))]
                         [] ch \in Outs(r) \ busy -> out[ch]
                         [] OTHER -> outVc[ch]]
        /\ srcQ' = [ch \in Channels |->
                      IF ch \in busy
                      THEN Append(srcQ[ch], ThroughCrossbar(top[grant[ch]], ov[grant[ch]]))
                      ELSE srcQ[ch]]
        /\ crQ' = [ch \in Channels |->
                     IF ch \in served
                     THEN Append(crQ[ch], IncrementCredit(winner[ch], top[ch]))
                     ELSE crQ[ch]]
        /\ rrIn' = [ch \in DOMAIN rrIn |->
                      IF ch \in busy
                      THEN (IndexOf(grant[ch], InPorts[r]) % Len(InPorts[r])) + 1
                      ELSE rrIn[ch]]
        /\ rrVc' = [ch \in DOMAIN rrVc |->
                      IF ch \in served THEN (winner[ch] + 1) % Cardinality(VCs)
                      ELSE rrVc[ch]]
        /\ wake' = Woken(r, (IF CheckForWakeup(after) THEN {1} ELSE {})
                              \cup {PipeStages - 1 : ch \in {c \in arrived : PipeStages > 1}},
                         {<<<<"flits", o>>, 1>> : o \in busy}
                           \cup {<<<<"credits", ch>>, 1>> : ch \in served})
        /\ UNCHANGED <<niVars, history>>

(* The event: what each part hands to the next is bound to a name.         *)
RouterWakeup(r) ==
    /\ 0 \in wake[r]
    /\ \E vc \in {[ch \in Ins(r) |-> InputUnitWakeup(r, ch)]},
          out \in {[o \in Outs(r) |-> [v \in VCs |-> AfterCredit(outVc[o][v], o, v)]]} :
       \E winner \in {[ch \in Ins(r) |-> ArbitrateInport(vc[ch], out, ch)]} :
       \E grant \in {[o \in Outs(r) |-> ArbitrateOutport(r, o, vc, winner)]} :
          SwitchTraversal(r, vc, out, winner, grant)
=============================================================================
