----------------------------- MODULE GarnetTypes -----------------------------
(***************************************************************************)
(* The constants, the state and the common helpers of the Garnet data      *)
(* path: flits and credits that travel between network interfaces (NIs)    *)
(* and routers over one-directional channels.  A channel <<a, b>> stands   *)
(* for the NetworkLink from a to b, the CreditLink that returns credits    *)
(* from b to a, the output port of a and the input port of b.              *)
(*                                                                         *)
(* All ticks are kept RELATIVE to the current tick: the program only ever  *)
(* compares a tick with curTick(), so "0" means "due now or earlier" and   *)
(* the step Tick of GarnetNet moves everything one cycle closer.  All      *)
(* objects are in one clock domain of period 1 here; clock domains are the *)
(* subject of GarnetWakeup.  The wakeup service is used through what is    *)
(* proved of it in GarnetWakeupProofs: a consumer is woken exactly once in *)
(* each of its pending ticks, and globalWakeup() never runs a router.      *)
(***************************************************************************)
EXTENDS Integers, Sequences, FiniteSets, FiniteSetsExt

CONSTANTS
    Routers, NIs,   \* the nodes
    Channels,       \* set of pairs of nodes
    InPorts,        \* InPorts[r]: the channels into r, in port order
    OutPorts,       \* OutPorts[r]: the channels out of r, in port order
    Route,          \* Route[r][n]: the channel r's routing table names for n
    NumVnets, VcPerVnet,
    Ordered,        \* the virtual networks with point-to-point order
    Buffers,        \* Buffers[vn]: the buffer slots of a VC of vn
    PipeStages,
    LinkLatency,    \* LinkLatency[ch]: of the link and of the credit link
    OutSize,        \* OutSize[vn]: capacity of an ejection buffer, 0 = infinite
    Program,        \* Program[n]: the messages NI n's protocol sends, in order
    MsgVnet, MsgDests, MsgFlits

VARIABLES
    wake,           \* wake[c]: the pending wakeup ticks of consumer c
    srcQ, lnk,      \* per channel: the sender's queue and the link's buffer
    crQ, crL,       \* the same for the credits of the channel
    outVc,          \* outVc[ch][v]: the sender's OutVcState
    vcs,            \* vcs[ch][v]: the receiving router's VirtualChannel
    rrVc, rrIn,     \* the SwitchAllocator's round robin pointers
    niVcs, niRank,  \* niOutVcs and m_ni_out_vcs_enqueue_time
    niAlloc, niRR,  \* m_vc_allocator and _vcRoundRobin
    inNode, outNode,\* the protocol's buffers, towards and from the network
    stall, callback,\* m_stall_queue; is a dequeue callback registered?
    sent, got       \* history: messages handed to, and by, the network

linkVars == <<srcQ, lnk, crQ, crL>>
routerVars == <<vcs, rrVc, rrIn>>
niVars == <<niVcs, niRank, niAlloc, niRR, inNode, outNode, stall, callback>>
history == <<sent, got>>
vars == <<wake, linkVars, outVc, routerVars, niVars, history>>

Vnets == 0 .. NumVnets - 1
VCs == 0 .. NumVnets * VcPerVnet - 1
VnetOf(v) == v \div VcPerVnet
VcsOf(vn) == {v \in VCs : VnetOf(v) = vn}

Ins(r) == {ch \in Channels : ch[2] = r}
Outs(r) == {ch \in Channels : ch[1] = r}
InLink(n) == CHOOSE ch \in Channels : ch[2] = n
OutLink(n) == CHOOSE ch \in Channels : ch[1] = n
IndexOf(port, ports) == CHOOSE i \in DOMAIN ports : ports[i] = port

Consumers == Routers \cup NIs \cup ({"flits", "credits"} \X Channels)

(***************************************************************************)
(* Flits, credits and time.                                                *)
(***************************************************************************)
FlitType(i, size) ==
    CASE size = 1 -> "HEAD_TAIL"
      [] size > 1 /\ i = 1 -> "HEAD"
      [] size > 1 /\ i = size -> "TAIL"
      [] OTHER -> "BODY"

IsHead(f) == f.type \in {"HEAD", "HEAD_TAIL"}
IsTail(f) == f.type \in {"TAIL", "HEAD_TAIL"}

Flits(m, dst, v) ==
    [i \in 1 .. MsgFlits[m] |->
        [msg |-> m, dst |-> dst, type |-> FlitType(i, MsgFlits[m]),
         vc |-> v, t |-> 0]]

(* Slip: every credit frees the VC.                                        *)
CreditAlwaysFree(v, free) == [vc |-> v, free |-> TRUE, t |-> 0]

Credit(v, free) == [vc |-> v, free |-> free, t |-> 0]

At(item, t) == [item EXCEPT !.t = t]
Ready(q) == q # <<>> /\ Head(q).t = 0
AfterConsume(q) == IF Ready(q) THEN Tail(q) ELSE q

Sooner(t) == IF t > 0 THEN t - 1 ELSE 0
Nearer(q) == [i \in DOMAIN q |-> At(q[i], Sooner(q[i].t))]

(***************************************************************************)
(* OutVcState: is the VC allocated, and how many slots are free downstream *)
(***************************************************************************)
FreshOutVc(v) == [active |-> FALSE, credits |-> Buffers[VnetOf(v)]]
Spend(ov) == [ov EXCEPT !.credits = @ - 1]

(* Slip: the VC is not marked as taken.                                    *)
AllocateNothing(ov) == ov

Allocate(ov) == [ov EXCEPT !.active = TRUE]

(* Slip: a free signal is taken for a state change only.                   *)
ReturnFreeOrCredit(ov, c) ==
    IF c.free THEN [ov EXCEPT !.active = FALSE] ELSE [ov EXCEPT !.credits = @ + 1]

Return(ov, c) == [ov EXCEPT !.credits = @ + 1, !.active = @ /\ ~c.free]

AfterCredit(ov, ch, v) ==
    IF Ready(crL[ch]) /\ Head(crL[ch]).vc = v THEN Return(ov, Head(crL[ch])) ELSE ov

(* The first member of S met by counting up from `from' modulo n.          *)
RoundRobin(S, from, n) ==
    CHOOSE i \in S : \A j \in S : (i - from) % n <= (j - from) % n

(* c has run: it asked for the ticks in `asked', and scheduled the         *)
(* consumers of the pairs <<consumer, tick>> in `calls'.                   *)
Woken(c, asked, calls) ==
    [d \in Consumers |->
        (IF d = c THEN (wake[d] \ {0}) \cup asked ELSE wake[d])
            \cup {k[2] : k \in {x \in calls : x[1] = d}}]
=============================================================================
