------------------------------ MODULE GarnetNet ------------------------------
(***************************************************************************)
(* The network: routers, links and network interfaces that interact by     *)
(* flits, credits and wakeups.  The events of one tick run in any order;   *)
(* time moves on when none is left.                                        *)
(***************************************************************************)
EXTENDS NetworkLink, Router, NetworkInterface

RouterChannels == {ch \in Channels : ch[2] \in Routers}

Messages == UNION {{Program[n][i] : i \in DOMAIN Program[n]} : n \in NIs}

Flit == [msg : Messages, dst : NIs, type : {"HEAD", "BODY", "TAIL", "HEAD_TAIL"},
         vc : VCs, t : Nat]
CreditType == [vc : VCs, free : BOOLEAN, t : Nat]
VirtualChannel == [active : BOOLEAN, outport : Channels \cup {NoPort},
                   outvc : VCs \cup {NoVc}, rank : Nat, buf : Seq(Flit)]

(* Every part of the network's state has the shape the classes give it; in *)
(* particular no credit count is ever negative (the assertion of           *)
(* OutVcState::decrement_credit) and every arbiter points at a port or VC. *)
TypeOK ==
    /\ wake \in [Consumers -> SUBSET Nat]
    /\ srcQ \in [Channels -> Seq(Flit)]
    /\ lnk \in [Channels -> Seq(Flit)]
    /\ crQ \in [Channels -> Seq(CreditType)]
    /\ crL \in [Channels -> Seq(CreditType)]
    /\ outVc \in [Channels -> [VCs -> [active : BOOLEAN, credits : Nat]]]
    /\ vcs \in [RouterChannels -> [VCs -> VirtualChannel]]
    /\ rrVc \in [RouterChannels -> VCs]
    /\ \A ch \in DOMAIN rrIn : rrIn[ch] \in DOMAIN InPorts[ch[1]]
    /\ niVcs \in [NIs -> [VCs -> Seq(Flit)]]
    /\ niRank \in [NIs -> [VCs -> Nat]]
    /\ niAlloc \in [NIs -> [Vnets -> 0 .. VcPerVnet - 1]]
    /\ niRR \in [NIs -> VCs]
    /\ inNode \in [NIs -> [Vnets -> Seq([msg : Messages, dests : Seq(NIs), t : Nat])]]
    /\ outNode \in [NIs -> [Vnets -> [q : Seq([msg : Messages, t : Nat]),
                                      start : Nat \cup {NoPop}]]]
    /\ stall \in [NIs -> Seq(Flit)]
    /\ callback \in [NIs -> [Vnets -> BOOLEAN]]
    /\ sent \in [NIs -> Seq(Messages)]
    /\ got \in [NIs -> [Vnets -> Seq(Messages)]]

Init ==
    /\ wake = [c \in Consumers |-> {}]
    /\ srcQ = [ch \in Channels |-> <<>>]
    /\ lnk = [ch \in Channels |-> <<>>]
    /\ crQ = [ch \in Channels |-> <<>>]
    /\ crL = [ch \in Channels |-> <<>>]
    /\ outVc = [ch \in Channels |-> [v \in VCs |-> FreshOutVc(v)]]
    /\ vcs = [ch \in RouterChannels |-> [v \in VCs |-> IdleVc]]
    /\ rrVc = [ch \in RouterChannels |-> 0]
    /\ rrIn = [ch \in {c \in Channels : c[1] \in Routers} |-> 1]
    /\ niVcs = [n \in NIs |-> [v \in VCs |-> <<>>]]
    /\ niRank = [n \in NIs |-> [v \in VCs |-> 0]]
    /\ niAlloc = [n \in NIs |-> [vn \in Vnets |-> 0]]
    /\ niRR = [n \in NIs |-> 0]
    /\ inNode = [n \in NIs |-> [vn \in Vnets |-> <<>>]]
    /\ outNode = [n \in NIs |-> [vn \in Vnets |-> EmptyBuffer]]
    /\ stall = [n \in NIs |-> <<>>]
    /\ callback = [n \in NIs |-> [vn \in Vnets |-> FALSE]]
    /\ sent = [n \in NIs |-> <<>>]
    /\ got = [n \in NIs |-> [vn \in Vnets |-> <<>>]]

(***************************************************************************)
(* The next tick: no event of this tick is left, and every tick the state  *)
(* holds comes one closer.                                                 *)
(***************************************************************************)
Tick ==
    /\ \A c \in Consumers : 0 \notin wake[c]
    /\ wake' = [c \in Consumers |-> {t - 1 : t \in wake[c]}]
    /\ srcQ' = [ch \in Channels |-> Nearer(srcQ[ch])]
    /\ lnk' = [ch \in Channels |-> Nearer(lnk[ch])]
    /\ crL' = [ch \in Channels |-> Nearer(crL[ch])]
    /\ vcs' = [ch \in RouterChannels |->
                 [v \in VCs |-> [vcs[ch][v] EXCEPT !.buf = Nearer(@)]]]
    /\ inNode' = [n \in NIs |-> [vn \in Vnets |-> Nearer(inNode[n][vn])]]
    /\ outNode' = [n \in NIs |-> [vn \in Vnets |->
                     [q |-> Nearer(outNode[n][vn].q), start |-> NoPop]]]
    /\ UNCHANGED <<crQ, outVc, rrVc, rrIn, niVcs, niRank, niAlloc, niRR,
                   stall, callback, history>>

NetworkStep ==
    \/ Tick
    \/ \E ch \in Channels : NetworkLinkWakeup(ch) \/ CreditLinkWakeup(ch)
    \/ \E r \in Routers : RouterWakeup(r)
    \/ \E n \in NIs : NIWakeup(n)

Next ==
    \/ NetworkStep
    \/ \E n \in NIs : Enqueue(n)
    \/ \E n \in NIs, vn \in Vnets : Dequeue(n, vn)

Spec == Init /\ [][Next]_vars

(* Pending events are run and time advances (simulate() loops until the    *)
(* queue is empty), and controllers consume what is delivered to them.     *)
FairSpec ==
    /\ Spec
    /\ WF_vars(NetworkStep)
    /\ \A n \in NIs, vn \in Vnets : WF_vars(Dequeue(n, vn))

-----------------------------------------------------------------------------
(* The items of a queue that belong to VC v.                               *)
OnVc(q, v) == SelectSeq(q, LAMBDA x : x.vc = v)

(* Flits of channel ch's VC v that hold a slot downstream, oldest first.   *)
InFlight(ch, v) ==
    (IF ch[2] \in Routers THEN vcs[ch][v].buf ELSE OnVc(stall[ch[2]], v))
        \o OnVc(lnk[ch], v) \o OnVc(srcQ[ch], v)

(* Credits are neither lost nor made: for each VC of each channel, the     *)
(* sender's credit count, the flits under way or buffered downstream, and  *)
(* the credits under way back add up to the buffer size, so that the       *)
(* InputUnit buffers, which have no bound of their own, never overflow.    *)
CreditsConserved ==
    \A ch \in Channels, v \in VCs :
        outVc[ch][v].credits + Len(InFlight(ch, v))
            + Len(OnVc(crQ[ch], v)) + Len(OnVc(crL[ch], v)) = Buffers[VnetOf(v)]

(* An output VC that its sender may allocate is really unused: all its     *)
(* credits are home and, at a router, the VC it names is idle.  The        *)
(* allocator relies on it ("each VC has at least one buffer, so no need    *)
(* for additional credit check"), and so does the assertion in             *)
(* InputUnit::wakeup that a head finds its VC IDLE_.                       *)
IdleOutVcIsUnused ==
    \A ch \in Channels, v \in VCs :
        ~outVc[ch][v].active =>
            /\ outVc[ch][v].credits = Buffers[VnetOf(v)]
            /\ ch[2] \in Routers => ~vcs[ch][v].active
            /\ ch[1] \in NIs => niVcs[ch[1]][v] = <<>>

(* An output VC belongs to one packet at a time: no two input VCs of a     *)
(* router hold the same one, and a held one is ACTIVE_ (the assertion of   *)
(* OutputUnit::has_credit).                                                *)
Holders(o, ov) ==
    {<<ch, v>> \in RouterChannels \X VCs : vcs[ch][v].outport = o /\ vcs[ch][v].outvc = ov}

OutVcHeldOnce ==
    \A o \in Channels, ov \in VCs :
        /\ Cardinality(Holders(o, ov)) <= 1
        /\ Holders(o, ov) # {} => outVc[o][ov].active

(* Packets never share a VC: what is under way on one VC is a stretch of   *)
(* the flits of one packet, its head first and its tail last, and the next *)
(* flit to reach a router is a head exactly when the VC there is idle (the *)
(* two assertions of InputUnit::wakeup).                                   *)
OnePacketPerVc ==
    \A ch \in Channels, v \in VCs :
        LET fs == InFlight(ch, v)
            coming == OnVc(lnk[ch], v) \o OnVc(srcQ[ch], v)
        IN  /\ \A i \in DOMAIN fs :
                  /\ fs[i].msg = fs[1].msg /\ fs[i].dst = fs[1].dst
                  /\ IsHead(fs[i]) => i = 1
                  /\ IsTail(fs[i]) => i = Len(fs)
            /\ (ch[2] \in Routers /\ coming # <<>>) =>
                  (IsHead(coming[1]) <=> ~vcs[ch][v].active)

(* In one clock domain a receiver always keeps up: no link ever holds two  *)
(* flits or two credits that are ready, so the second-flit branches of     *)
(* InputUnit, OutputUnit and NetworkInterface serve only slower receivers. *)
OneReadyPerLink ==
    \A ch \in Channels :
        /\ Cardinality({i \in DOMAIN lnk[ch] : lnk[ch][i].t = 0}) <= 1
        /\ Cardinality({i \in DOMAIN crL[ch] : crL[ch][i].t = 0}) <= 1

(* No wakeup is forgotten: when no event is pending, nothing is on its     *)
(* way: no message or flit waits at an NI, on a link or in a router VC,    *)
(* and no credit is under way.  (Tails in a stall queue wait for their     *)
(* controller; EveryMessageDelivered is about them.)                       *)
NothingStranded ==
    (\A c \in Consumers : wake[c] = {}) =>
        /\ \A ch \in Channels, v \in VCs :
              /\ lnk[ch] \o srcQ[ch] = <<>> /\ crL[ch] \o crQ[ch] = <<>>
              /\ ch \in RouterChannels => vcs[ch][v].buf = <<>>
        /\ \A n \in NIs, v \in VCs : inNode[n][VnetOf(v)] \o niVcs[n][v] = <<>>

(* A bounded ejection buffer is never overfilled (the assertion in         *)
(* MessageBuffer::enqueue), although the NI checks for room against the    *)
(* size the buffer had at the start of the cycle.                          *)
EjectionBufferBounded ==
    \A n \in NIs, vn \in Vnets :
        OutSize[vn] # 0 => Len(outNode[n][vn].q) <= OutSize[vn]

(* A buffer's dequeue callback is registered exactly while a message for   *)
(* it is stalled, whatever the order of stalls and ejections of the        *)
(* virtual networks that share the stall queue.                            *)
CallbackWhileStalled ==
    \A n \in NIs, vn \in Vnets :
        callback[n][vn] <=> \E i \in DOMAIN stall[n] : VnetOf(stall[n][i].vc) = vn

(* The network implements the service its controllers rely on.             *)
Service == INSTANCE NetworkService
ImplementsService == Service!Spec

Arrived(m) == \A i \in DOMAIN MsgDests[m] :
    \E j \in DOMAIN got[MsgDests[m][i]][MsgVnet[m]] :
        got[MsgDests[m][i]][MsgVnet[m]][j] = m

(* Every message a controller sends reaches all its destinations.          *)
EveryMessageDelivered ==
    \A n \in NIs : \A i \in DOMAIN Program[n] :
        Len(sent[n]) >= i ~> Arrived(Program[n][i])
=============================================================================
