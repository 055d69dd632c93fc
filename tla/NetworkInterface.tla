-------------------------- MODULE NetworkInterface --------------------------
(***************************************************************************)
(* NetworkInterface::wakeup(), with one input and one output port, and the *)
(* two ways the protocol touches its message buffers: enqueue towards the  *)
(* network and dequeue of a delivered message.                             *)
(*                                                                         *)
(* A message buffer towards the protocol is a record: its queue q, and     *)
(* `start', its size at the first dequeue of the current cycle (NoPop when *)
(* nothing was dequeued in this cycle): areNSlotsAvailable() does not let  *)
(* a dequeue be seen before the next cycle.                                *)
(***************************************************************************)
EXTENDS GarnetTypes

NoPop == -1
EmptyBuffer == [q |-> <<>>, start |-> NoPop]

VisibleSize(b) == IF b.start = NoPop THEN Len(b.q) ELSE b.start

(* Slip: the message to be enqueued is not counted.                        *)
AreNSlotsAvailableOneMore(n, vn) ==
    OutSize[vn] = 0 \/ VisibleSize(outNode[n][vn]) <= OutSize[vn]

AreNSlotsAvailable(n, vn) ==
    OutSize[vn] = 0 \/ VisibleSize(outNode[n][vn]) + 1 <= OutSize[vn]

(***************************************************************************)
(* flitisizeMessage() and calculateVC(): the message at the head of a      *)
(* virtual network's buffer takes one idle VC per destination, round       *)
(* robin, as far as they go.  The destinations served are struck from it,  *)
(* and it is dequeued when all are.                                        *)
(***************************************************************************)
Acquired(n, vn) ==
    LET from(i) == vn * VcPerVnet + ((niAlloc[n][vn] + i - 1) % VcPerVnet)
        idle == SelectSeq([i \in 1 .. VcPerVnet |-> from(i)],
                          LAMBDA v : ~outVc[OutLink(n)][v].active)
        wanted == Len(Head(inNode[n][vn]).dests)
    IN  IF Ready(inNode[n][vn])
        THEN SubSeq(idle, 1, Min({wanted, Len(idle)}))
        ELSE <<>>

NextAllocator(n, vn, acquired) ==
    IF acquired = <<>> THEN niAlloc[n][vn]
    ELSE (acquired[Len(acquired)] + 1) % VcPerVnet

(* Slip: the destinations that got no VC are forgotten.                    *)
AfterFlitisizeForgets(q, acquired) == IF acquired = <<>> THEN q ELSE Tail(q)

AfterFlitisize(q, acquired) ==
    IF acquired = <<>> THEN q
    ELSE IF Len(acquired) = Len(Head(q).dests) THEN Tail(q)
    ELSE [q EXCEPT ![1].dests = SubSeq(@, Len(acquired) + 1, Len(@))]

Flitisized(n, v, acquired) ==
    LET vn == VnetOf(v)
        m == Head(inNode[n][vn])
    IN  IF \E i \in DOMAIN acquired : acquired[i] = v
        THEN niVcs[n][v] \o Flits(m.msg, m.dests[IndexOf(v, acquired)], v)
        ELSE niVcs[n][v]

(***************************************************************************)
(* scheduleOutputPort(): the VCs whose top flit may be sent.  `queues' and *)
(* `ranks' are the NI's VCs after flitisizing.                             *)
(***************************************************************************)
CandidateVcs(n, queues, ranks) ==
    {v \in VCs :
        /\ queues[v] # <<>>
        /\ outVc[OutLink(n)][v].credits > 0
        /\ VnetOf(v) \in Ordered =>
              ~ \E w \in VcsOf(VnetOf(v)) : queues[w] # <<>> /\ ranks[w] < ranks[v]}

(* curTick() as m_ni_out_vcs_enqueue_time: later than every packet that    *)
(* still waits in the virtual network.                                     *)
LaterRank(n, v) == 1 + Max({niRank[n][w] : w \in VcsOf(VnetOf(v))})

(* Slip: the newest stalled tail goes first.                               *)
UnstalledNewest(n) ==
    LET can == {i \in DOMAIN stall[n] : AreNSlotsAvailable(n, VnetOf(stall[n][i].vc))}
    IN  IF can = {} THEN 0 ELSE Max(can)

(* checkStallQueue(): the first stalled tail that its buffer can take.     *)
Unstalled(n) ==
    LET can == {i \in DOMAIN stall[n] : AreNSlotsAvailable(n, VnetOf(stall[n][i].vc))}
    IN  IF can = {} THEN 0 ELSE Min(can)

Without(q, i) == SubSeq(q, 1, i - 1) \o SubSeq(q, i + 1, Len(q))

(* The part of wakeup() that reads the incoming link: a tail is ejected    *)
(* unless this cycle's one ejection is used up or the buffer is full.      *)
Ejects(n, f) ==
    IsTail(f) /\ Unstalled(n) = 0 /\ AreNSlotsAvailable(n, VnetOf(f.vc))
Stalls(n, f) == IsTail(f) /\ ~Ejects(n, f)

(***************************************************************************)
(* The first half of wakeup(), towards the network: flitisize the waiting  *)
(* messages, put at most one flit on the output link, and (last in the     *)
(* code) apply one incoming credit.                                        *)
(***************************************************************************)
SendSide(n) ==
    LET out == OutLink(n)
        acq == [vn \in Vnets |-> Acquired(n, vn)]
        fresh == {v \in VCs : \E i \in DOMAIN acq[VnetOf(v)] : acq[VnetOf(v)][i] = v}
        queues == [v \in VCs |-> Flitisized(n, v, acq[VnetOf(v)])]
        ranks == [v \in VCs |-> IF v \in fresh THEN LaterRank(n, v) ELSE niRank[n][v]]
        cand == CandidateVcs(n, queues, ranks)
        vc == RoundRobin(cand, niRR[n] + 1, Cardinality(VCs))
        allocated(v) == IF v \in fresh THEN Allocate(outVc[out][v]) ELSE outVc[out][v]
        spent(v) == IF cand # {} /\ v = vc THEN Spend(allocated(v)) ELSE allocated(v)
    IN  /\ inNode' = [inNode EXCEPT ![n] =
                        [vn \in Vnets |-> AfterFlitisize(@[vn], acq[vn])]]
        /\ niAlloc' = [niAlloc EXCEPT ![n] =
                         [vn \in Vnets |-> NextAllocator(n, vn, acq[vn])]]
        /\ outVc' = [outVc EXCEPT ![out] = [v \in VCs |-> AfterCredit(spent(v), out, v)]]
        /\ crL' = [crL EXCEPT ![out] = AfterConsume(@)]
        /\ IF cand = {}
           THEN /\ niVcs' = [niVcs EXCEPT ![n] = queues]
                /\ niRank' = [niRank EXCEPT ![n] = ranks]
                /\ UNCHANGED <<niRR, srcQ>>
           ELSE LET f == Head(queues[vc])
                IN  /\ niVcs' = [niVcs EXCEPT ![n] = [queues EXCEPT ![vc] = Tail(@)]]
                    /\ niRank' = [niRank EXCEPT ![n] =
                                    [ranks EXCEPT ![vc] = IF IsTail(f) THEN 0 ELSE @]]
                    /\ niRR' = [niRR EXCEPT ![n] = vc]
                    /\ srcQ' = [srcQ EXCEPT ![out] = Append(@, At(f, 1))]

(***************************************************************************)
(* The second half, towards the protocol: eject one stalled message if one *)
(* fits, then take one flit from the input link.  A tail that cannot be    *)
(* ejected stalls and registers the dequeue callback of its buffer; the    *)
(* callback goes when the last stalled message of the buffer does.         *)
(***************************************************************************)
Eject(n, fs) ==
    LET of(vn) == SelectSeq(fs, LAMBDA f : VnetOf(f.vc) = vn)
    IN  /\ outNode' = [outNode EXCEPT ![n] =
             [vn \in Vnets |-> [@[vn] EXCEPT !.q = @ \o
                 [i \in DOMAIN of(vn) |-> [msg |-> of(vn)[i].msg, t |-> 1]]]]]
        /\ got' = [got EXCEPT ![n] =
             [vn \in Vnets |-> @[vn] \o [i \in DOMAIN of(vn) |-> of(vn)[i].msg]]]

(* Slip: the first ejection unregisters the callback, more stalled or not. *)
NextCallbackDropped(registered, stalls, frees, more) ==
    stalls \/ (registered /\ ~frees)

NextCallback(registered, stalls, frees, more) ==
    stalls \/ (registered /\ ~(frees /\ ~more))

ReceiveSide(n) ==
    LET in == InLink(n)
        un == Unstalled(n)
        freed == IF un = 0 THEN <<>> ELSE <<stall[n][un]>>
        kept == IF un = 0 THEN stall[n] ELSE Without(stall[n], un)
        came == IF Ready(lnk[in]) THEN <<Head(lnk[in])>> ELSE <<>>
        ejected == SelectSeq(came, LAMBDA f : Ejects(n, f))
        stalled == SelectSeq(came, LAMBDA f : Stalls(n, f))
        passed == SelectSeq(came, LAMBDA f : ~Stalls(n, f))
        any(q, vn) == \E i \in DOMAIN q : VnetOf(q[i].vc) = vn
        credits == freed \o passed
    IN  /\ lnk' = [lnk EXCEPT ![in] = AfterConsume(@)]
        /\ Eject(n, freed \o ejected)
        /\ stall' = [stall EXCEPT ![n] = kept \o stalled]
        /\ callback' = [callback EXCEPT ![n] =
             [vn \in Vnets |-> NextCallback(@[vn], any(stalled, vn), any(freed, vn),
                                            any(kept, vn))]]
        /\ crQ' = [crQ EXCEPT ![in] = @ \o
             [i \in DOMAIN credits |-> Credit(credits[i].vc, IsTail(credits[i]))]]

(* Slip: flits left in the output VCs are not looked for.                  *)
CheckRescheduleMessages(n) ==
    IF \E vn \in Vnets : Ready(inNode'[n][vn]) THEN {1} ELSE {}

(***************************************************************************)
(* checkReschedule(): run again while a message or a flit waits to be      *)
(* sent.  The stall queue is not consulted.  (The clauses about a second   *)
(* ready flit or credit cannot hold with one clock: OneReadyPerLink.)      *)
(***************************************************************************)
CheckReschedule(n) ==
    IF \/ \E vn \in Vnets : Ready(inNode'[n][vn])
       \/ \E v \in VCs : niVcs'[n][v] # <<>>
    THEN {1} ELSE {}

NIWakeup(n) ==
    /\ 0 \in wake[n]
    /\ SendSide(n)
    /\ ReceiveSide(n)
    /\ wake' = Woken(n, CheckReschedule(n),
                  {<<<<"flits", ch>>, 1>> : ch \in {c \in {OutLink(n)} : srcQ' # srcQ}}
                    \cup {<<<<"credits", ch>>, 1>> :
                             ch \in {c \in {InLink(n)} : crQ'[c] # <<>>}})
    /\ UNCHANGED <<routerVars, sent>>

(***************************************************************************)
(* The protocol side.  A controller enqueues the next message of its       *)
(* program (arriving one cycle later) and dequeues delivered ones; a       *)
(* dequeue runs the callback registered on the buffer, dequeueCallback(),  *)
(* which wakes the NI in the next cycle.                                   *)
(***************************************************************************)
Enqueue(n) ==
    /\ Len(sent[n]) < Len(Program[n])
    /\ LET m == Program[n][Len(sent[n]) + 1]
       IN  /\ inNode' = [inNode EXCEPT ![n][MsgVnet[m]] =
                           Append(@, [msg |-> m, dests |-> MsgDests[m], t |-> 1])]
           /\ sent' = [sent EXCEPT ![n] = Append(@, m)]
    /\ wake' = [wake EXCEPT ![n] = @ \cup {1}]
    /\ UNCHANGED <<linkVars, outVc, routerVars, niVcs, niRank, niAlloc, niRR,
                   outNode, stall, callback, got>>

(* dequeueCallback() *)
DequeueCallback(n) == [wake EXCEPT ![n] = @ \cup {1}]

Dequeue(n, vn) ==
    /\ Ready(outNode[n][vn].q)
    /\ outNode' = [outNode EXCEPT ![n][vn] =
                     [q |-> Tail(@.q), start |-> VisibleSize(@)]]
    /\ wake' = IF callback[n][vn] THEN DequeueCallback(n) ELSE wake
    /\ UNCHANGED <<linkVars, outVc, routerVars, niVcs, niRank, niAlloc, niRR,
                   inNode, stall, callback, history>>
=============================================================================
