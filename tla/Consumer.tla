------------------------------ MODULE Consumer ------------------------------
(***************************************************************************)
(* Ruby's Consumer (mem/ruby/common/Consumer.cc): an object that is woken  *)
(* at ticks it has asked for.  A consumer is a record                      *)
(*    ticks : m_wakeup_ticks, the sorted vector of pending ticks, as a set *)
(*    when  : the tick m_wakeup_event is scheduled for, Never if it is not *)
(* The operators below are the methods that change it.  MaybeLock is left  *)
(* out: each method is one atomic step of the modules that use it.  A      *)
(* definition marked Slip is a wrong variant of the one after it, kept to  *)
(* show that the properties notice it.                                     *)
(***************************************************************************)
EXTENDS Integers, FiniteSetsExt

CONSTANT Never           \* m_wakeup_event is not scheduled

ASSUME NeverAssumption == Never \notin Nat

ConsumerState == [ticks : SUBSET Nat, when : Nat \cup {Never}]

IdleConsumer == [ticks |-> {}, when |-> Never]

(* divCeil(t, period) * period: the first clock edge at or after t.  It is *)
(* clockEdge() when t is the current tick.                                 *)
EdgeAt(t, period) == ((t + period - 1) \div period) * period

(* em->clockEdge(Cycles(d)) at tick t *)
ClockEdge(t, period, d) == EdgeAt(t, period) + d * period

(* A tick of the clock with this period *)
OnEdge(t, period) == (t \div period) * period = t

(* Slip: an event that is not scheduled is never scheduled *)
ScheduleNextWakeupOnlyMoves(c, edge) ==
    LET due   == {t \in c.ticks : t >= edge}
        first == Min(due)
    IN  IF due # {} /\ c.when # Never /\ first < c.when
        THEN [c EXCEPT !.when = first]
        ELSE c

(* m_wakeup_event is moved to the first pending tick that is not past, but *)
(* never to a later tick than the one it already has.                      *)
ScheduleNextWakeup(c, edge) ==
    LET due   == {t \in c.ticks : t >= edge}
        first == Min(due)
    IN  IF due # {} /\ (c.when = Never \/ first < c.when)
        THEN [c EXCEPT !.when = first]
        ELSE c

(* scheduleEventAbsolute(t) for every t of the set ts, at tick now.  The   *)
(* order of the calls does not matter: each inserts its tick and lowers    *)
(* the event to the first pending one.                                     *)
ScheduleEventAbsolute(c, ts, now, period) ==
    IF ts = {}
    THEN c
    ELSE ScheduleNextWakeup(
            [c EXCEPT !.ticks = @ \cup {EdgeAt(t, period) : t \in ts}],
            EdgeAt(now, period))

(* recordEvent: the tick is remembered and no event is scheduled for it *)
RecordEvent(c, ts) == [c EXCEPT !.ticks = @ \cup ts]

(* Slip: the entry is found but not erased *)
ConsumeTickKeepsEntry(c, tick) == c

(* tryConsumeTick when it returns TRUE; it returns tick \in c.ticks *)
ConsumeTick(c, tick) == [c EXCEPT !.ticks = @ \ {tick}]

(* Slip: ticks recorded during wakeup() get no event *)
ProcessCurrentEventNoReschedule(c, asked, now, period) ==
    LET tick == EdgeAt(now, period)
        left == [ConsumeTick(c, tick) EXCEPT !.when = Never]
    IN  IF tick \in c.ticks THEN RecordEvent(left, asked) ELSE left

(* Slip: the whole vector of pending ticks is cleared *)
ProcessCurrentEventClearsAll(c, asked, now, period) ==
    LET tick == EdgeAt(now, period)
    IN  ScheduleNextWakeup(
            [ticks |-> IF tick \in c.ticks THEN asked ELSE {}, when |-> Never],
            tick)

(* processCurrentEvent at tick now: the pending entry is erased; wakeup()  *)
(* runs if there was one and leaves the ticks of the set asked pending;    *)
(* scheduleNextWakeup always closes it.                                    *)
ProcessCurrentEvent(c, asked, now, period) ==
    LET tick == EdgeAt(now, period)
        left == [ConsumeTick(c, tick) EXCEPT !.when = Never]
    IN  ScheduleNextWakeup(
            IF tick \in c.ticks THEN RecordEvent(left, asked) ELSE left,
            tick)
=============================================================================
