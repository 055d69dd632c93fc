----------------------------- MODULE Sequencer -----------------------------
(***************************************************************************)
(* The Ruby Sequencer and the retry list of its RubyPort: requests of one  *)
(* cache line share one request to the cache hierarchy, and its answer is  *)
(* walked over all of them.  Each hit of the walk sends the retries of the *)
(* refused ports, which call back into makeRequest before the walk goes    *)
(* on; the walk is therefore several steps here.  What the ports send and  *)
(* when the hierarchy answers is left to the modules that extend this one. *)
(***************************************************************************)
EXTENDS Integers, Sequences, SequencesExt, FiniteSets

CONSTANTS
    Lines,               \* cache lines
    Ports,               \* MemResponsePorts
    MaxOutstanding,      \* m_max_outstanding_requests
    DeadlockThreshold    \* m_deadlock_threshold, in cycles

ASSUME SequencerAssumption ==
    /\ MaxOutstanding \in Nat \ {0}
    /\ DeadlockThreshold \in Nat \ {0}

VARIABLES
    table,         \* m_RequestTable: the requests of a line and their age in cycles
    outstanding,   \* m_outstanding_count
    issued,        \* per line, the requests issued and not yet called back
    blocked,       \* lines blocked by blockOnQueue
    retryList,
    check,         \* cycles to deadlockCheckEvent
    drainState,
    walk,          \* the callback in progress
    panicked       \* the deadlock check aborted the simulation

seqVars == <<table, outstanding, issued, blocked, retryList, check, drainState,
             walk, panicked>>

Reads == {"LD", "IFETCH"}
Types == Reads \cup {"ST", "RMW_Read", "RMW_Write", "ATOMIC"}
Requests == [line : Lines, type : Types]
Unscheduled == -1
MaxAge == 2 * DeadlockThreshold    \* ages are counted up to this bound
Idle == [kind |-> "none"]
InCallback == walk # Idle

SequencerInit ==
    /\ table = [l \in Lines |-> <<>>]
    /\ outstanding = 0
    /\ issued = [l \in Lines |-> <<>>]
    /\ blocked = {}
    /\ retryList = <<>>
    /\ check = Unscheduled
    /\ drainState = "Running"
    /\ walk = Idle
    /\ panicked = FALSE
-----------------------------------------------------------------------------
(* The type a request is issued with: locked accesses ask like a store *)
SecondaryType(type) == IF type \in {"RMW_Read", "RMW_Write"} THEN "ST" ELSE type

IssueRequest(l, type) ==
    issued' = [issued EXCEPT ![l] = Append(@, SecondaryType(type))]

ScheduleCheck ==
    check' = IF check = Unscheduled /\ drainState # "Draining"
             THEN DeadlockThreshold ELSE check

(* Slip: every request is issued, the line's list is not looked at *)
IssueIfFirstAlways(req) == IssueRequest(req.line, req.type)

(* RequestStatus_Aliased: a request behind another of its line is not issued *)
IssueIfFirst(req) ==
    IF table[req.line] # <<>> THEN UNCHANGED issued
    ELSE IssueRequest(req.line, req.type)

InsertRequest(req) ==
    /\ ScheduleCheck
    /\ table' = [table EXCEPT ![req.line] = Append(@, [type |-> req.type, age |-> 0])]
    /\ outstanding' = outstanding + 1
    /\ IssueIfFirst(req)

(* makeRequest refuses at the limit, and a line locked by an RMW *)
Refuses(req) ==
    \/ outstanding >= MaxOutstanding
    \/ req.line \in blocked /\ req.type # "RMW_Write"

AddToRetryList(p) ==
    retryList' = IF Contains(retryList, p) THEN retryList ELSE Append(retryList, p)

(* recvTimingReq *)
RecvTimingReq(p, req) ==
    /\ IF Refuses(req)
       THEN AddToRetryList(p) /\ UNCHANGED <<table, outstanding, issued, check>>
       ELSE InsertRequest(req) /\ UNCHANGED retryList
    /\ UNCHANGED <<blocked, drainState, panicked>>
-----------------------------------------------------------------------------
CallbackOf(type) ==
    CASE type \in Reads -> "read" [] type = "ST" -> "write" [] type = "ATOMIC" -> "atomic"

(* readCallback, writeCallback, atomicCallback: the hierarchy answers the  *)
(* oldest request of a line.  "first" is ruby_request.                     *)
Callback(l, noCoales) ==
    /\ ~InCallback /\ ~panicked
    /\ issued[l] # <<>>
    /\ walk' = [kind |-> CallbackOf(Head(issued[l])), line |-> l, first |-> TRUE,
                noCoales |-> noCoales, step |-> "front", retries |-> <<>>]
    /\ issued' = [issued EXCEPT ![l] = Tail(@)]
    /\ UNCHANGED <<table, outstanding, blocked, retryList, check, drainState, panicked>>

FrontRequest == Head(table[walk.line])

(* The answer does not serve the request at the front *)
Reissues ==
    CASE walk.kind = "read"   -> FrontRequest.type \notin Reads
      [] walk.kind = "write"  -> ~walk.first /\ (walk.noCoales \/ FrontRequest.type = "ATOMIC")
      [] walk.kind = "atomic" -> ~walk.first

AtFront == InCallback /\ walk.step = "front"

(* The walk stops at the first request that needs an answer of its own *)
Reissue ==
    /\ AtFront /\ Reissues
    /\ IssueRequest(walk.line, FrontRequest.type)
    /\ walk' = Idle
    /\ UNCHANGED <<table, outstanding, blocked, retryList, check, drainState, panicked>>

(* Slip: the locked write does not unblock the line *)
BlockOnQueueKeeps ==
    blocked' = IF FrontRequest.type = "RMW_Read" THEN blocked \cup {walk.line} ELSE blocked

BlockOnQueue ==
    blocked' = CASE FrontRequest.type = "RMW_Read"  -> blocked \cup {walk.line}
                 [] FrontRequest.type = "RMW_Write" -> blocked \ {walk.line}
                 [] OTHER                    -> blocked

(* markRemoved and hitCallback of the front, up to trySendRetries, which   *)
(* takes the list and clears it                                            *)
HitCallback ==
    /\ AtFront /\ ~Reissues
    /\ outstanding' = outstanding - 1
    /\ BlockOnQueue
    /\ walk' = [walk EXCEPT !.first = FALSE, !.step = "retries", !.retries = retryList]
    /\ retryList' = <<>>
    /\ UNCHANGED <<table, issued, check, drainState, panicked>>

(* The next port of the copied list is told to send again *)
SendRetryReq(p) ==
    /\ InCallback /\ walk.step = "retries"
    /\ walk.retries # <<>> /\ p = Head(walk.retries)
    /\ walk' = [walk EXCEPT !.retries = Tail(@)]

TestDrainComplete ==
    drainState' = IF drainState = "Draining" /\ outstanding = 0
                  THEN "Drained" ELSE drainState

(* The end of hitCallback, and pop_front: the walk goes on or is over *)
PopFront ==
    /\ InCallback /\ walk.step = "retries" /\ walk.retries = <<>>
    /\ TestDrainComplete
    /\ table' = [table EXCEPT ![walk.line] = Tail(@)]
    /\ walk' = IF Len(table[walk.line]) = 1 THEN Idle ELSE [walk EXCEPT !.step = "front"]
    /\ UNCHANGED <<outstanding, issued, blocked, retryList, check, panicked>>
-----------------------------------------------------------------------------
Outstanding == UNION {{l} \X DOMAIN table[l] : l \in Lines}
Age(r) == table[r[1]][r[2]].age
Overdue == \E r \in Outstanding : Age(r) >= DeadlockThreshold

(* The deadlock check; the request that is overdue ends the simulation *)
Wakeup ==
    /\ ~InCallback /\ ~panicked /\ check = 0
    /\ panicked' = Overdue
    /\ check' = IF outstanding > 0 THEN DeadlockThreshold ELSE Unscheduled
    /\ UNCHANGED <<table, outstanding, issued, blocked, retryList, drainState, walk>>

Older(r) == [r EXCEPT !.age = IF @ < MaxAge THEN @ + 1 ELSE @]

(* A cycle of the sequencer's clock, once the events of this one are done *)
Tick ==
    /\ ~InCallback /\ ~panicked /\ check # 0
    /\ check' = IF check = Unscheduled THEN check ELSE check - 1
    /\ table' = [l \in Lines |-> [i \in DOMAIN table[l] |-> Older(table[l][i])]]
    /\ UNCHANGED <<outstanding, issued, blocked, retryList, drainState, walk, panicked>>

(* drain() of the port *)
Drain ==
    /\ ~InCallback /\ ~panicked
    /\ drainState \in {"Running", "Drained"}
    /\ check' = Unscheduled
    /\ drainState' = IF outstanding > 0 THEN "Draining" ELSE "Drained"
    /\ UNCHANGED <<table, outstanding, issued, blocked, retryList, walk, panicked>>

(* dmDrainResume, once every object is drained *)
DrainResume ==
    /\ ~InCallback /\ ~panicked
    /\ drainState = "Drained" /\ outstanding = 0
    /\ drainState' = "Running"
    /\ UNCHANGED <<table, outstanding, issued, blocked, retryList, check, walk, panicked>>
-----------------------------------------------------------------------------
SequencerTypeOK ==
    /\ \A l \in Lines : \A i \in DOMAIN table[l] :
          table[l][i] \in [type : Types, age : 0 .. MaxAge]
    /\ outstanding \in 0 .. MaxOutstanding
    /\ \A l \in Lines : issued[l] \in Seq({"LD", "IFETCH", "ST", "ATOMIC"})
    /\ blocked \subseteq Lines
    /\ retryList \in Seq(Ports)
    /\ check \in -1 .. DeadlockThreshold
    /\ drainState \in {"Running", "Draining", "Drained"}
    /\ panicked \in BOOLEAN
=============================================================================
