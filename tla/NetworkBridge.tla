--------------------------- MODULE NetworkBridge ---------------------------
(***************************************************************************)
(* A link between two objects of other widths or clocks than its own, with *)
(* a NetworkBridge at each end: serializer, deserializer and clock domain  *)
(* crossing (CDC) for the flits, and for the credits that come back.  The  *)
(* consumers form a ring, each taking from the queue of the one before:    *)
(*    src -> srcNet -> link -> dstNet -> dst  (flits)                      *)
(*    dst -> dstCred -> credLink -> srcCred -> src  (credits)              *)
(* src and dst stand for a router or an NI.  Ticks are relative to the     *)
(* current one, and phase is the current tick modulo all clock periods.    *)
(***************************************************************************)
EXTENDS Integers, Sequences, FiniteSets, FiniteSetsExt

CONSTANTS
    Messages,      \* Messages[v]: sizes in bytes of the messages sent on VC v
    Configs,       \* configurations: widths, clock periods, where CDC is on
    CdcLatency, SerDesLatency, LinkLatency,
    Buffers        \* credits of a VC, in flits of src's width

(* A side whose widths agree has a bridge only for its clock *)
ASSUME BridgesEnabled ==
    \A g \in Configs, side \in {"src", "dst"} :
        g.width[side] # g.width.link \/ g.cdc[side]

VARIABLES
    conf,          \* the configuration
    phase,         \* the current tick modulo Hyperperiod
    wake,          \* pending wakeup ticks of every consumer
    queue,         \* output queue of every consumer
    bridge,        \* state of the four bridges
    tosend,        \* per VC: flits src still has to send, packet by packet
    outVc,         \* src's OutVcState per VC
    inVc,          \* dst's buffer per VC
    drained        \* per VC: how many flits have left dst's buffer

vars == <<conf, phase, wake, queue, bridge, tosend, outVc, inVc, drained>>

Succ == [src |-> "srcNet", srcNet |-> "link", link |-> "dstNet", dstNet |-> "dst",
         dst |-> "dstCred", dstCred |-> "credLink", credLink |-> "srcCred",
         srcCred |-> "src"]
Consumers == DOMAIN Succ
Pred(c) == CHOOSE d \in Consumers : Succ[d] = c
Bridges == {"srcNet", "dstNet", "dstCred", "srcCred"}
CoBridge == [srcNet |-> "srcCred", srcCred |-> "srcNet",
             dstNet |-> "dstCred", dstCred |-> "dstNet"]
VCs == DOMAIN Messages
Width == conf.width
Side(b) == IF b \in {"srcNet", "srcCred"} THEN "src" ELSE "dst"
(* Links and objects have clocks of their own, bridges that of the network *)
Period == [c \in Consumers |->
    CASE c \in {"src", "dst"} -> conf.period[c]
      [] c \in {"link", "credLink"} -> conf.period.link
      [] c \in Bridges -> conf.period.net]
Hyperperiod == conf.period.src * conf.period.dst * conf.period.link * conf.period.net

(* cur_width and target_width of a bridge *)
CurWidth == [srcNet |-> Width.src, dstNet |-> Width.link,
             dstCred |-> Width.dst, srcCred |-> Width.link]
TargetWidth == [srcNet |-> Width.link, dstNet |-> Width.dst,
                dstCred |-> Width.link, srcCred |-> Width.src]
EnSerDes(b) == CurWidth[b] # TargetWidth[b]
EnCdc(b) == conf.cdc[Side(b)]

CeilDiv(a, b) == (a + b - 1) \div b
-----------------------------------------------------------------------------
(* Time: clockEdge(Cycles(d)) of c, and t rounded up to an edge of c *)
ClockEdge(c, d) == ((-phase) % Period[c]) + d * Period[c]
Rounded(c, t) == CeilDiv(t + phase, Period[c]) * Period[c] - phase

At(item, t) == [item EXCEPT !.t = t]
Ready(c) == queue[Pred(c)] # <<>> /\ Head(queue[Pred(c)]).t <= 0
Rest(c) == IF Ready(c) THEN Tail(queue[Pred(c)]) ELSE queue[Pred(c)]

(* A bridge or a link comes back in a cycle while its source queue holds more *)
Rescheduled(c) == IF Rest(c) # <<>> THEN {ClockEdge(c, 1)} ELSE {}

(* c has run, asking for the ticks asked and scheduling its successor at   *)
(* the ticks of calls (scheduleEventAbsolute rounds up to its clock).      *)
Woken(c, asked, calls) ==
    [wake EXCEPT ![c] = (@ \ {0}) \cup asked,
                 ![Succ[c]] = @ \cup {Rounded(Succ[c], t) : t \in calls}]

(* Number of flits of a message of this size cut into flits of width w *)
FlitCount(size, w) == CeilDiv(size, w)
Flit(v, size, id, w) == [vc |-> v, size |-> size, id |-> id, width |-> w, t |-> 0]
IsHead(f) == f.id = 0
IsTail(f) == f.id = FlitCount(f.size, f.width) - 1
IsCredit(f) == "free" \in DOMAIN f
Credit(v, free) == [vc |-> v, free |-> free, t |-> 0]

(* The flits of all messages of a VC, in order *)
FlitsOf(v, w) ==
    LET Cut(m) == [i \in 1..FlitCount(Messages[v][m], w) |->
                     Flit(v, Messages[v][m], i - 1, w)]
        Upto[m \in 0..Len(Messages[v])] == IF m = 0 THEN <<>> ELSE Upto[m - 1] \o Cut(m)
    IN  Upto[Len(Messages[v])]
-----------------------------------------------------------------------------
(* Slip: the id of a last, partial flit is rounded down *)
DeserializedFloor(f, w) ==
    Flit(f.vc, f.size, ((f.id + 1) \div CeilDiv(w, f.width)) - 1, w)

(* flit::serialize and flit::deserialize: the i-th part of f, and the flit *)
(* that f completes.                                                       *)
Serialized(f, i, w) == Flit(f.vc, f.size, f.id * CeilDiv(f.width, w) + i, w)
Deserialized(f, w) == Flit(f.vc, f.size, CeilDiv(f.id + 1, CeilDiv(w, f.width)) - 1, w)

(* flitPossible: how many items of the target width f releases *)
FlitPossible(b, f) ==
    LET st == bridge[b]
        v == f.vc
        target == TargetWidth[b]
        soFar == (f.id + 1) * CurWidth[b] - st.size[v]
    IN  CASE IsCredit(f) /\ CurWidth[b] > target -> Head(st.extra[v])
          [] IsCredit(f) /\ CurWidth[b] < target ->
                IF st.len[v] + 1 = Head(st.extra[v]) THEN 1 ELSE 0
          [] ~IsCredit(f) /\ IsTail(f) -> CeilDiv(f.size - st.size[v], target)
          [] OTHER -> soFar \div target

(* Slip: every part of a credit frees the VC *)
CreditPartAllFree(f, i, n) == Credit(f.vc, f.free)

(* Credit::serialize and Credit::deserialize: only the last of n is free *)
CreditPart(f, i, n) == Credit(f.vc, f.free /\ i = n)

(* The items f is turned into *)
Parts(b, f) ==
    LET n == FlitPossible(b, f)
        target == TargetWidth[b]
    IN  [i \in 1..n |->
            CASE IsCredit(f) -> CreditPart(f, i, n)
              [] ~IsCredit(f) /\ CurWidth[b] > target -> Serialized(f, i - 1, target)
              [] OTHER -> Deserialized(f, target)]

(* The assertions of flitisizeAndSend, serialize and deserialize on f *)
Asserted(b, f) ==
    LET out == Parts(b, f)
    IN  /\ IsCredit(f) => bridge[b].extra[f.vc] # <<>> /\ Head(bridge[b].extra[f.vc]) # 0
        /\ CurWidth[b] > TargetWidth[b] => out # <<>>
        /\ CurWidth[b] < TargetWidth[b] => Len(out) < 2
        /\ ~IsCredit(f) => \A i \in DOMAIN out :
               out[i].id < FlitCount(f.size, TargetWidth[b])

(* Slip: the size sent is carried over to the next packet of the VC *)
ForgottenSizeKept(st, v) == [st EXCEPT !.flits[v] = 0]

(* At a tail the bridge stops tracking the packet *)
Forgotten(st, v) == [st EXCEPT !.size[v] = 0, !.flits[v] = 0]

(* sizeSent, flitsSent, lenBuffer and extraCredit after f.  The serializer *)
(* counts flitsSent in flits of its own, but never reads it.               *)
Tracked(st, b, f) ==
    LET v == f.vc
        n == FlitPossible(b, f)
        serial == CurWidth[b] > TargetWidth[b]
    IN  CASE IsCredit(f) /\ (serial \/ n > 0) ->
                [st EXCEPT !.extra[v] = Tail(@), !.len[v] = 0]
          [] IsCredit(f) /\ ~serial /\ n = 0 -> [st EXCEPT !.len[v] = @ + 1]
          [] ~IsCredit(f) /\ IsTail(f) -> Forgotten(st, v)
          [] ~IsCredit(f) /\ ~IsTail(f) /\ n > 0 ->
                [st EXCEPT !.size[v] = @ + n * TargetWidth[b],
                           !.flits[v] = IF serial THEN @ + n ELSE f.id + 1]
          [] OTHER -> st

(* Slip: the flits told before are told again *)
NeutralizedFromStart(b, f) ==
    IF IsCredit(f) \/ Parts(b, f) = <<>> THEN <<>>
    ELSE IF CurWidth[b] > TargetWidth[b] THEN <<FlitPossible(b, f)>>
    ELSE <<f.id + 1>>

(* What neutralize() pushes to the credit bridge: how many credits make    *)
(* one (serialized flits), or one makes (deserialized flits).              *)
Neutralized(b, f) ==
    IF IsCredit(f) \/ Parts(b, f) = <<>> THEN <<>>
    ELSE IF CurWidth[b] > TargetWidth[b] THEN <<FlitPossible(b, f)>>
    ELSE <<f.id + 1 - bridge[b].flits[f.vc]>>

(* scheduleFlit: at the edge of the consumer's clock after the latency,    *)
(* and a consumer cycle after the flit before.                             *)
FirstTick(b, latency) ==
    Max({ClockEdge(Succ[b], latency + (IF EnCdc(b) THEN CdcLatency ELSE 0)),
         bridge[b].last + Period[Succ[b]]})

Scheduled(b, items, latency) ==
    [i \in DOMAIN items |->
        At(items[i], FirstTick(b, latency) + (i - 1) * Period[Succ[b]])]

(* NetworkBridge::wakeup *)
BridgeWakeup(b) ==
    /\ 0 \in wake[b]
    /\ LET f == Head(queue[Pred(b)])
           items == CASE ~Ready(b) -> <<>>
                      [] Ready(b) /\ EnSerDes(b) -> Parts(b, f)
                      [] OTHER -> <<f>>
           out == Scheduled(b, items, IF EnSerDes(b) THEN SerDesLatency ELSE 0)
           serdes == Ready(b) /\ EnSerDes(b)
       IN  /\ serdes => Asserted(b, f)
           /\ queue' = [queue EXCEPT ![Pred(b)] = Rest(b), ![b] = @ \o out]
           /\ bridge' = [bridge EXCEPT
                 ![b] = [(IF serdes THEN Tracked(@, b, f) ELSE @) EXCEPT
                            !.last = IF out = <<>> THEN @ ELSE out[Len(out)].t],
                 ![CoBridge[b]] = IF serdes
                                  THEN [@ EXCEPT !.extra[f.vc] = @ \o Neutralized(b, f)]
                                  ELSE @]
           /\ wake' = Woken(b, Rescheduled(b),
                            {out[i].t : i \in DOMAIN out})
    /\ UNCHANGED <<conf, phase, tosend, outVc, inVc, drained>>

(* NetworkLink::wakeup of the link and the credit link *)
LinkWakeup(l) ==
    LET arrival == ClockEdge(l, LinkLatency)
    IN  /\ 0 \in wake[l]
        /\ queue' = [queue EXCEPT
              ![Pred(l)] = Rest(l),
              ![l] = IF Ready(l) THEN Append(@, At(Head(queue[Pred(l)]), arrival)) ELSE @]
        /\ wake' = Woken(l, Rescheduled(l),
                         IF Ready(l) THEN {arrival} ELSE {})
        /\ UNCHANGED <<conf, phase, bridge, tosend, outVc, inVc, drained>>
-----------------------------------------------------------------------------
(* The object at the source takes one credit and sends one flit: a head on *)
(* an idle VC, without a look at its credits, another where it has one.    *)
Credited(v) ==
    IF Ready("src") /\ Head(queue.srcCred).vc = v
    THEN [credits |-> outVc[v].credits + 1,
          active |-> outVc[v].active /\ ~Head(queue.srcCred).free]
    ELSE outVc[v]

Sendable(v) ==
    /\ tosend[v] # <<>>
    /\ IF IsHead(Head(tosend[v])) THEN ~Credited(v).active ELSE Credited(v).credits > 0

SourceWakeup ==
    /\ 0 \in wake.src
    /\ \E send \in {S \in SUBSET {v \in VCs : Sendable(v)} :
                       Cardinality(S) = IF \E v \in VCs : Sendable(v) THEN 1 ELSE 0} :
          /\ outVc' = [v \in VCs |->
                IF v \in send
                THEN [credits |-> Credited(v).credits - 1, active |-> TRUE]
                ELSE Credited(v)]
          /\ tosend' = [v \in VCs |-> IF v \in send THEN Tail(tosend[v]) ELSE tosend[v]]
          /\ queue' = [queue EXCEPT
                !.srcCred = Rest("src"),
                !.src = IF send = {} THEN @
                        ELSE Append(@, At(Head(tosend[CHOOSE v \in send : TRUE]),
                                          ClockEdge("src", 1)))]
          /\ wake' = Woken("src",
                IF send # {} \/ (Rest("src") # <<>> /\ Head(Rest("src")).t <= 0)
                THEN {ClockEdge("src", 1)} ELSE {},
                IF send = {} THEN {} ELSE {ClockEdge("src", 1)})
    /\ UNCHANGED <<conf, phase, bridge, inVc, drained>>

Buffered(v) ==
    IF Ready("dst") /\ Head(queue.dstNet).vc = v
    THEN Append(inVc[v], Head(queue.dstNet)) ELSE inVc[v]

(* The object at the destination: a flit is buffered, and the flits of the *)
(* set drain (at most one) leave with a credit.                            *)
DestinationWakeup(drain) ==
    /\ 0 \in wake.dst
    /\ \A v \in drain : Buffered(v) # <<>>
    /\ inVc' = [v \in VCs |-> IF v \in drain THEN Tail(Buffered(v)) ELSE Buffered(v)]
    /\ drained' = [v \in VCs |-> drained[v] + (IF v \in drain THEN 1 ELSE 0)]
    /\ queue' = [queue EXCEPT
          !.dstNet = Rest("dst"),
          !.dst = IF drain = {} THEN @
                  ELSE LET v == CHOOSE w \in drain : TRUE
                       IN  Append(@, Credit(v, IsTail(Head(Buffered(v)))))]
    /\ wake' = Woken("dst",
          IF \/ \E v \in VCs : inVc'[v] # <<>>
             \/ Rest("dst") # <<>> /\ Head(Rest("dst")).t <= 0
          THEN {ClockEdge("dst", 1)} ELSE {},
          IF drain = {} THEN {} ELSE {ClockEdge("dst", 1)})
    /\ UNCHANGED <<conf, phase, bridge, tosend, outVc>>

(* The next tick; lastScheduledAt matters for one consumer cycle only *)
Tick ==
    /\ \A c \in Consumers : 0 \notin wake[c]
    /\ \E c \in Consumers : wake[c] # {}
    /\ phase' = (phase + 1) % Hyperperiod
    /\ wake' = [c \in Consumers |-> {t - 1 : t \in wake[c]}]
    /\ queue' = [c \in Consumers |->
                   [i \in DOMAIN queue[c] |->
                      At(queue[c][i], Max({0, queue[c][i].t - 1}))]]
    /\ bridge' = [b \in Bridges |->
                    [bridge[b] EXCEPT !.last = Max({@ - 1, -Period[Succ[b]]})]]
    /\ UNCHANGED <<conf, tosend, outVc, inVc, drained>>
-----------------------------------------------------------------------------
Init ==
    /\ conf \in Configs
    /\ phase = 0
    /\ wake = [c \in Consumers |-> IF c = "src" THEN {0} ELSE {}]
    /\ queue = [c \in Consumers |-> <<>>]
    /\ bridge = [b \in Bridges |->
                   [len |-> [v \in VCs |-> 0], size |-> [v \in VCs |-> 0],
                    flits |-> [v \in VCs |-> 0], extra |-> [v \in VCs |-> <<>>],
                    last |-> 0]]
    /\ tosend = [v \in VCs |-> FlitsOf(v, Width.src)]
    /\ outVc = [v \in VCs |-> [credits |-> Buffers, active |-> FALSE]]
    /\ inVc = [v \in VCs |-> <<>>]
    /\ drained = [v \in VCs |-> 0]

Next ==
    \/ \E b \in Bridges : BridgeWakeup(b)
    \/ \E l \in {"link", "credLink"} : LinkWakeup(l)
    \/ SourceWakeup
    \/ \E drain \in {{}} \cup {{v} : v \in VCs} : DestinationWakeup(drain)
    \/ Tick

Spec == Init /\ [][Next]_vars

(* The event queue goes on to the next event, and the round robin of the   *)
(* destination's switch allocator serves every VC that keeps flits.        *)
FairSpec ==
    /\ Spec
    /\ WF_vars(Next)
    /\ \A v \in VCs : SF_vars(DestinationWakeup({v}))
-----------------------------------------------------------------------------
(* Every assertion of flitisizeAndSend, flit::serialize and                *)
(* flit::deserialize holds of the flit or credit a bridge takes: a credit  *)
(* always finds the ratio its flits left behind, and no part gets an id    *)
(* beyond the packet.                                                      *)
AssertionsHold ==
    \A b \in Bridges : 0 \in wake[b] /\ Ready(b) /\ EnSerDes(b) =>
        Asserted(b, Head(queue[Pred(b)]))

(* The buffer of a destination VC holds, in order, the flits of the sent   *)
(* packets cut to the destination's width, from where it has been drained: *)
(* no part is lost, doubled, reordered, or put together with another       *)
(* packet's.                                                               *)
PacketsArriveIntact ==
    \A v \in VCs : \A i \in DOMAIN inVc[v] :
        At(inVc[v][i], 0) = FlitsOf(v, Width.dst)[drained[v] + i]

(* An idle VC has all its credits, which is what lets a head be sent       *)
(* without a look at them: the credit that frees a VC stays the last one   *)
(* of its packet however credits are split and merged.                     *)
IdleVcHasAllCredits ==
    \A v \in VCs : ~outVc[v].active => outVc[v].credits = Buffers

(* All packets get across and all credits come back, given the buffers for *)
(* the narrow flits of a wide one                                          *)
EverythingCrosses ==
    <>(\A v \in VCs : /\ drained[v] = Len(FlitsOf(v, Width.dst))
                      /\ outVc[v].credits = Buffers)
=============================================================================
