---------------------------- MODULE GarnetWakeup ----------------------------
(***************************************************************************)
(* Who wakes a router, and when.  A router of Garnet can be woken on two   *)
(* paths:                                                                  *)
(*   - its own Consumer event, at priority Default_Pri of the event queue; *)
(*   - GarnetNetwork::globalWakeup, at priority Default_Pri + 1, which     *)
(*     takes one slot of a ring of 128 router bit masks and runs the       *)
(*     routers in it inline or on a team of OpenMP threads.                *)
(* What the routers, links and network interfaces compute is abstracted to *)
(* the calls their wakeup() may make to the scheduling interfaces.         *)
(***************************************************************************)
EXTENDS Consumer, FiniteSets

CONSTANTS
    Routers,          \* router ids: a set of naturals
    Links,            \* NetworkLinks and CreditLinks
    OutputUnits,      \* output units of the routers
    NIs,              \* network interfaces
    Controllers,      \* protocol controllers behind the NIs (external)
    Period,           \* clock period of every consumer
    NetPeriod,        \* clock period of the GarnetNetwork object
    LinkConsumer,     \* link_consumer of every link
    RouterOut,        \* links and output units a router schedules
    NIFlitLinks,      \* flit links out of an NI
    NICreditLinks,    \* credit links out of an NI
    NIRouter,         \* m_router of an NI, the router of its first port
    NIOf,             \* the NI of a controller
    Delays,           \* cycles a router may ask to be woken in
    LinkLatency,      \* m_latency of the links, in cycles
    ThinkTimes,       \* cycles between two wakeups of a controller
    RingSize,         \* slots of m_wakeup_mask, 128 in the code
    NumThreads,       \* m_num_threads
    Threshold,        \* m_parallel_threshold
    MaxTick           \* bound: no event after it is served

Consumers == Routers \cup Links \cup OutputUnits \cup NIs \cup Controllers
Threads   == 0..(NumThreads - 1)
Slots     == 0..(RingSize - 1)

ASSUME ConstantsAssumption ==
    /\ Routers \subseteq Nat
    /\ Period \in [Consumers -> Nat \ {0}]
    /\ NetPeriod \in Nat \ {0}
    /\ LinkConsumer \in [Links -> Routers \cup NIs]
    /\ RouterOut \in [Routers -> SUBSET (Links \cup OutputUnits)]
    /\ NIFlitLinks \in [NIs -> SUBSET Links]
    /\ NICreditLinks \in [NIs -> SUBSET Links]
    /\ NIRouter \in [NIs -> Routers]
    /\ NIOf \in [Controllers -> NIs]
    /\ Delays \subseteq Nat \ {0}
    /\ LinkLatency \in Nat \ {0}
    /\ ThinkTimes \subseteq Nat \ {0}
    /\ RingSize \in Nat \ {0}
    /\ NumThreads \in Nat \ {0}
    /\ Threshold \in Nat
    /\ MaxTick \in Nat

ASSUME KindsAssumption ==
    /\ Routers \cap (Links \cup OutputUnits \cup NIs \cup Controllers) = {}
    /\ Links \cap (OutputUnits \cup NIs \cup Controllers) = {}
    /\ NIs \cap (OutputUnits \cup Controllers) = {}

VARIABLES
    now,        \* curTick() of the main event queue
    cons,       \* the Consumer part of every object
    globalWhen, \* tick globalWakeupEvent is scheduled for
    mask,       \* m_wakeup_mask: slot -> set of router ids
    active,     \* m_active_lo and m_active_hi: set of slots
    phase,      \* "events", or "run" inside globalWakeup
    parallel,   \* Consumer::s_parallel_active
    todo,       \* mask still to be run by every thread
    deferred,   \* m_deferred_schedules: thread -> set of <<consumer, tick>>
    served      \* history: consumers whose wakeup() ran at tick now

vars == <<now, cons, globalWhen, mask, active, phase, parallel, todo,
          deferred, served>>

TypeOK ==
    /\ now \in Nat
    /\ cons \in [Consumers -> ConsumerState]
    /\ globalWhen \in Nat
    /\ mask \in [Slots -> SUBSET Routers]
    /\ active \in SUBSET Slots
    /\ phase \in {"events", "run"}
    /\ parallel \in BOOLEAN
    /\ todo \in [Threads -> SUBSET Routers]
    /\ deferred \in [Threads -> SUBSET (Consumers \X Nat)]
    /\ served \in SUBSET Consumers
-----------------------------------------------------------------------------
(* The slot of m_wakeup_mask a tick falls into *)
SlotOf(tick) == (tick \div NetPeriod) % RingSize

(* Slip: the companion bitmap is not updated *)
RegisterWakeupMaskOnly(regs) ==
    /\ mask' = [i \in Slots |->
                   mask[i] \cup {x[1] : x \in {y \in regs : SlotOf(y[2]) = i}}]
    /\ active' = active

(* Slip: the bit set in the companion bitmap is the next slot's *)
RegisterWakeupBitAbove(regs) ==
    /\ mask' = [i \in Slots |->
                   mask[i] \cup {x[1] : x \in {y \in regs : SlotOf(y[2]) = i}}]
    /\ active' = active \cup {SlotOf(x[2]) + 1 : x \in regs}

(* registerWakeup(id, tick) for every <<id, tick>> of regs.  registerWakeup *)
(* is two read-modify-writes, the slot and its bit of the companion bitmap. *)
RegisterWakeup(regs) ==
    /\ mask' = [i \in Slots |->
                   mask[i] \cup {x[1] : x \in {y \in regs : SlotOf(y[2]) = i}}]
    /\ active' = active \cup {SlotOf(x[2]) : x \in regs}

(* scheduleEventAbsolute(t) on c, at tick at, for every <<c, t>> of calls *)
ScheduleCalls(cs, calls, at) ==
    [c \in Consumers |->
        ScheduleEventAbsolute(cs[c], {x[2] : x \in {y \in calls : y[1] = c}},
                              at, Period[c])]

(* EventQueue::serviceOne: the event at the head has the least tick and,   *)
(* within the tick, the least priority value.  Events of one tick and one  *)
(* priority are served in any order here; the code uses a stack.           *)
HeadOfQueue(c) ==
    /\ phase = "events"
    /\ cons[c].when # Never
    /\ cons[c].when <= MaxTick
    /\ cons[c].when <= globalWhen
    /\ \A d \in Consumers : cons[d].when # Never => cons[c].when <= cons[d].when

(* The Consumer event of c: wakeup() asks for the ticks asked for c itself *)
(* and makes the calls (to others) and registrations given.                *)
ConsumerEvent(c, asked, calls, regs) ==
    LET tick    == cons[c].when
        pending == EdgeAt(tick, Period[c]) \in cons[c].ticks
    IN  /\ HeadOfQueue(c)
        /\ now' = tick
        /\ cons' = [ScheduleCalls(cons, IF pending THEN calls ELSE {}, tick)
                      EXCEPT ![c] = ProcessCurrentEvent(cons[c], asked, tick, Period[c])]
        /\ RegisterWakeup(IF pending THEN regs ELSE {})
        /\ served' = (IF tick = now THEN served ELSE {})
                        \cup (IF pending THEN {c} ELSE {})
        /\ UNCHANGED <<globalWhen, phase, parallel, todo, deferred>>

(* clockEdge(Cycles(d)) of c when its event is served *)
In(c, d) == ClockEdge(cons[c].when, Period[c], d)
-----------------------------------------------------------------------------
(* Router::wakeup from the router's own event.  schedule_wakeup(d) records *)
(* the tick and registers it; deferOrSchedule schedules links and output   *)
(* units for the next cycle.                                               *)
RouterEvent(r) ==
    \E ds \in SUBSET Delays, out \in SUBSET RouterOut[r] :
        ConsumerEvent(r, {In(r, d) : d \in ds},
                      {<<x, In(r, 1)>> : x \in out},
                      {<<r, In(r, d)>> : d \in ds})

(* NetworkLink::wakeup: a ready flit or credit is handed to the consumer   *)
(* of the link; a non-empty source queue is looked at again.               *)
LinkEvent(l) ==
    \E ready, more \in BOOLEAN :
        ConsumerEvent(l, IF more THEN {In(l, 1)} ELSE {},
                      IF ready THEN {<<LinkConsumer[l], In(l, LinkLatency)>>}
                               ELSE {},
                      {})

(* OutputUnit::wakeup from the unit's own event, when it had more than one *)
(* credit to take in a cycle.                                              *)
OutputUnitEvent(o) ==
    \E more \in BOOLEAN :
        ConsumerEvent(o, IF more THEN {In(o, 1)} ELSE {}, {}, {})

(* NetworkInterface::wakeup.  scheduleFlit schedules the flit link and     *)
(* registers the router for the next cycle without recording the tick in   *)
(* the router; a message for the protocol schedules its controller.        *)
NIEvent(n) ==
    \E flits \in SUBSET NIFlitLinks[n], credits \in SUBSET NICreditLinks[n],
       up \in SUBSET {k \in Controllers : NIOf[k] = n}, more \in BOOLEAN :
        ConsumerEvent(n, IF more THEN {In(n, 1)} ELSE {},
                      {<<x, In(n, 1)>> : x \in flits \cup credits \cup up},
                      {<<NIRouter[n], In(n, 1)>> : x \in flits})

(* External: a controller runs, may put a message into the NI or take one  *)
(* from it (either schedules the NI), and runs again later.                *)
ControllerEvent(k) ==
    \E d \in ThinkTimes, msg \in BOOLEAN :
        ConsumerEvent(k, {In(k, d)},
                      IF msg THEN {<<NIOf[k], In(k, 1)>>} ELSE {}, {})
-----------------------------------------------------------------------------
(* m_thread_router_mask *)
ThreadRouters(t) == {r \in Routers : r % NumThreads = t}

(* Slip: globalWakeupEvent has the priority of the Consumer events *)
GlobalEventIsHeadSamePriority ==
    \A c \in Consumers : cons[c].when # Never => globalWhen <= cons[c].when

(* globalWakeupEvent has priority Default_Pri + 1: it is at the head of    *)
(* the queue when every Consumer event is later.                           *)
GlobalEventIsHead ==
    \A c \in Consumers : cons[c].when # Never => globalWhen < cons[c].when

(* The head of globalWakeup, served when no Consumer event is due: the     *)
(* slot is exchanged with 0, its active bit cleared, and the mask given to *)
(* the calling thread or split over the team.  OpenMP may deliver fewer    *)
(* threads than requested; the masks of the missing ones are then dropped. *)
GlobalWakeup ==
    LET slot == SlotOf(globalWhen)
        work == mask[slot]
        inline == \/ work = {}
                  \/ NumThreads <= 1
                  \/ Cardinality(work) < Threshold
    IN  /\ phase = "events"
        /\ globalWhen <= MaxTick
        /\ GlobalEventIsHead
        /\ now' = globalWhen
        /\ served' = IF globalWhen = now THEN served ELSE {}
        /\ mask' = [mask EXCEPT ![slot] = {}]
        /\ active' = IF work # {} THEN active \ {slot} ELSE active
        /\ phase' = "run"
        /\ \/ /\ inline
              /\ todo' = [t \in Threads |-> IF t = 0 THEN work ELSE {}]
              /\ UNCHANGED parallel
           \/ /\ ~inline
              /\ \E size \in 1..NumThreads :
                    todo' = [t \in Threads |->
                                IF t < size THEN work \cap ThreadRouters(t)
                                            ELSE {}]
              /\ parallel' = TRUE
        /\ UNCHANGED <<cons, globalWhen, deferred>>

(* One iteration of runRoutersFromMask.  A router that still has the tick  *)
(* pending is woken here: its own ticks are only recorded, and what it     *)
(* schedules is deferred while the parallel section is active.             *)
RunRouter(t) ==
    LET r == Min(todo[t])
    IN  /\ phase = "run"
        /\ todo[t] # {}
        /\ todo' = [todo EXCEPT ![t] = @ \ {r}]
        /\ IF now \in cons[r].ticks
           THEN \E ds \in SUBSET Delays, out \in SUBSET RouterOut[r] :
                  LET own   == {ClockEdge(now, Period[r], d) : d \in ds}
                      calls == {<<x, ClockEdge(now, Period[r], 1)>> : x \in out}
                      woken == [cons EXCEPT
                                  ![r] = RecordEvent(ConsumeTick(@, now), own)]
                  IN  /\ RegisterWakeup({r} \X own)
                      /\ served' = served \cup {r}
                      /\ IF parallel
                         THEN /\ deferred' = [deferred EXCEPT ![t] = @ \cup calls]
                              /\ cons' = woken
                         ELSE /\ cons' = ScheduleCalls(woken, calls, now)
                              /\ UNCHANGED deferred
           ELSE UNCHANGED <<cons, mask, active, served, deferred>>
        /\ UNCHANGED <<now, globalWhen, phase, parallel>>

(* Slip: the distance around the end of the ring is one short *)
ComputeNextWakeupTickShortWrap(at) ==
    LET idx   == SlotOf(at)
        after == {i \in active : i > idx}
        dist  == IF after # {} THEN Min(after) - idx
                 ELSE IF active # {} THEN (RingSize - 1) - (idx - Min(active))
                 ELSE 1
    IN  at + dist * NetPeriod

(* computeNextWakeupTick at tick at: the first active slot after the       *)
(* current one, else the first active slot of all, else the next cycle.    *)
ComputeNextWakeupTick(at) ==
    LET idx   == SlotOf(at)
        after == {i \in active : i > idx}
        dist  == IF after # {} THEN Min(after) - idx
                 ELSE IF active # {} THEN RingSize - (idx - Min(active))
                 ELSE 1
    IN  at + dist * NetPeriod

(* The tail of globalWakeup, after the barrier: the deferred schedules are *)
(* drained and the event is scheduled again.                               *)
GlobalDone ==
    /\ phase = "run"
    /\ \A t \in Threads : todo[t] = {}
    /\ phase' = "events"
    /\ parallel' = FALSE
    /\ cons' = ScheduleCalls(cons, UNION {deferred[t] : t \in Threads}, now)
    /\ deferred' = [t \in Threads |-> {}]
    /\ globalWhen' = ComputeNextWakeupTick(now)
    /\ UNCHANGED <<now, mask, active, todo, served>>
-----------------------------------------------------------------------------
(* After init(): the first globalWakeup is one cycle ahead and the         *)
(* controllers start at tick 0.                                            *)
Init ==
    /\ now = 0
    /\ cons = [c \in Consumers |->
                 IF c \in Controllers
                 THEN ScheduleEventAbsolute(IdleConsumer, {0}, 0, Period[c])
                 ELSE IdleConsumer]
    /\ globalWhen = NetPeriod
    /\ mask = [i \in Slots |-> {}]
    /\ active = {}
    /\ phase = "events"
    /\ parallel = FALSE
    /\ todo = [t \in Threads |-> {}]
    /\ deferred = [t \in Threads |-> {}]
    /\ served = {}

Next ==
    \/ \E r \in Routers : RouterEvent(r)
    \/ \E l \in Links : LinkEvent(l)
    \/ \E o \in OutputUnits : OutputUnitEvent(o)
    \/ \E n \in NIs : NIEvent(n)
    \/ \E k \in Controllers : ControllerEvent(k)
    \/ GlobalWakeup
    \/ \E t \in Threads : RunRouter(t)
    \/ GlobalDone

Spec == Init /\ [][Next]_vars

(* The simulation loop serves the head of the queue as long as there is    *)
(* one, and every OpenMP thread runs to the barrier.                       *)
FairSpec == Spec /\ WF_vars(Next)
-----------------------------------------------------------------------------
(* No wakeup is lost: every pending tick of a consumer is still to come    *)
(* and the consumer's event is scheduled at or before it, although         *)
(* recordEvent (Router::schedule_wakeup) never schedules one.              *)
PendingTicksCovered ==
    \A c \in Consumers : \A t \in cons[c].ticks :
        /\ now <= t
        /\ cons[c].when # Never
        /\ cons[c].when <= t

(* A consumer woken at a tick is not woken at that tick again: the entry   *)
(* is gone on both wakeup paths (processCurrentEvent, runRoutersFromMask)  *)
(* and no wakeup() asks for the current tick.                              *)
WokenOncePerTick ==
    \A c \in served : now \notin cons[c].ticks

(* When globalWakeup gets to a router of its mask, tryConsumeTick fails:   *)
(* the router's own event has already run, for the event has the higher    *)
(* priority.  No router is ever run by globalWakeup or its threads.        *)
GlobalFindsNothing ==
    phase = "run" => \A t \in Threads : \A r \in todo[t] : now \notin cons[r].ticks

(* "Per-cycle work is dispatched to a libgomp thread pool via a single     *)
(* `#pragma omp parallel` region in globalWakeup()" (GarnetNetwork.hh):    *)
(* when the region opens, some router of the masks has the tick pending.   *)
ParallelRegionHasWork ==
    [][~parallel /\ parallel' =>
          \E t \in Threads : \E r \in todo'[t] : now' \in cons'[r].ticks]_vars

(* "bit i is 1 iff m_wakeup_mask[i].mask != 0" (GarnetNetwork.hh), across  *)
(* registrations, the exchange and the wrap of the ring.                   *)
ActiveBitmapInSync ==
    active = {i \in Slots : mask[i] # {}}

(* globalWakeup is scheduled again exactly for the next registered slot    *)
(* around the ring, the current slot last, or for the next cycle.          *)
NextSlot ==
    LET RegisteredIn(d) == mask[SlotOf(now + d * NetPeriod)] # {}
    IN  \E d \in 1..RingSize :
            /\ globalWhen' = now + d * NetPeriod
            /\ \A e \in 1..(d - 1) : ~RegisteredIn(e)
            /\ RegisteredIn(d) \/ (d = 1 /\ \A i \in Slots : mask[i] = {})

GlobalGoesToNextSlot == [][phase = "run" /\ phase' = "events" => NextSlot]_vars

(* A pending tick is given up only by running the consumer at that tick,   *)
(* whatever path erases it.                                                *)
TicksLeaveByService ==
    [][\A c \in Consumers : \A t \in cons[c].ticks \ cons'[c].ticks :
            t = now' /\ c \in served']_vars

(* The abstract service of waking: what a consumer asked for is the vector *)
(* of its pending ticks.                                                   *)
Wakeups == INSTANCE WakeupService
             WITH pending <- [c \in Consumers |-> cons[c].ticks], woken <- served

(* The two wakeup paths, the ring and the threads together give the        *)
(* service: every consumer is woken once at every tick it asked for, at no *)
(* other, and the event queue never moves past a tick somebody waits for.  *)
ImplementsWakeupService == Wakeups!Spec

(* Within the horizon every tick a consumer asks for is taken: no consumer *)
(* and no run of globalWakeup keeps the queue from getting to it.          *)
EveryPendingTickTaken ==
    []<>(\A c \in Consumers : \A t \in cons[c].ticks : t > MaxTick)
=============================================================================
