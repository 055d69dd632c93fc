------------------------------ MODULE CpuPorts ------------------------------
(***************************************************************************)
(* The Sequencer under the ports of a CPU and any cache hierarchy: a port  *)
(* that was refused waits for its retry and then sends the same packet, a  *)
(* locked read-modify-write is one read and one write of its port with     *)
(* nothing between them, and the hierarchy answers the lines in any order. *)
(* The system drains and resumes at any time.                              *)
(***************************************************************************)
EXTENDS Sequencer

CONSTANTS
    ReqTypes,     \* the types of request the ports send
    NoCoales      \* the values of noCoales the protocol passes

VARIABLES
    pending,      \* the packet a refused port holds
    rmw           \* the port and line of the locked access under way

vars == <<seqVars, pending, rmw>>

None == [type |-> "none"]
Locked(p, l) == [type |-> "locked", port |-> p, line |-> l]

Init ==
    /\ SequencerInit
    /\ pending = [p \in Ports |-> None]
    /\ rmw = None

(* The order a CPU keeps around a locked access *)
MaySend(p, req) ==
    CASE req.type = "RMW_Read"  -> rmw = None /\ blocked = {}
      [] req.type = "RMW_Write" -> rmw = Locked(p, req.line) /\ req.line \in blocked
      [] OTHER                  -> \A l \in Lines : rmw # Locked(p, l)

Submit(p, req) ==
    /\ RecvTimingReq(p, req)
    /\ pending' = [pending EXCEPT ![p] = IF Refuses(req) THEN req ELSE None]

SendTimingReq(p, req) ==
    /\ ~InCallback /\ ~panicked
    /\ pending[p] = None
    /\ req.type \in ReqTypes /\ MaySend(p, req)
    /\ Submit(p, req)
    /\ rmw' = CASE req.type = "RMW_Read" -> Locked(p, req.line)
                [] req.type = "RMW_Write" -> None
                [] OTHER -> rmw
    /\ UNCHANGED walk

RecvReqRetry(p) ==
    /\ SendRetryReq(p)
    /\ Submit(p, pending[p])
    /\ UNCHANGED rmw

Sequence ==
    \/ \E l \in Lines, noCoales \in NoCoales : Callback(l, noCoales)
    \/ Reissue
    \/ HitCallback
    \/ PopFront
    \/ Wakeup
    \/ Tick
    \/ Drain
    \/ DrainResume

Next ==
    \/ \E p \in Ports, req \in Requests : SendTimingReq(p, req)
    \/ \E p \in Ports : RecvReqRetry(p)
    \/ Sequence /\ UNCHANGED <<pending, rmw>>

Spec == Init /\ [][Next]_vars

-----------------------------------------------------------------------------
TypeOK ==
    /\ SequencerTypeOK
    /\ pending \in [Ports -> Requests \cup {None}]
    /\ rmw \in {None} \cup [type : {"locked"}, port : Ports, line : Lines]

(* Outside a callback the head of every line's list, and nothing else, is  *)
(* in the hierarchy: aliased requests, reissued ones and those a retry put *)
(* behind the request being reported all get one answer.  An answer        *)
(* without a request fails the assertions at the top of the callbacks.     *)
OneRubyRequestPerLine ==
    \A l \in Lines : ~(InCallback /\ walk.line = l) =>
        issued[l] = IF table[l] = <<>> THEN <<>>
                    ELSE <<SecondaryType(Head(table[l]).type)>>

(* The assertions of the callbacks on the request that caused them *)
CallbackFitsRequest ==
    AtFront /\ walk.first =>
        /\ table[walk.line] # <<>>
        /\ CallbackOf(SecondaryType(FrontRequest.type)) = walk.kind

(* wakeup: m_outstanding_count == total_outstanding *)
CountMatchesTable ==
    ~InCallback => outstanding = Cardinality(Outstanding)

Waiting == retryList \o (IF InCallback THEN walk.retries ELSE <<>>)

(* The refused ports, and they alone, wait for a retry, each of them once: *)
(* on the list or on the copy trySendRetries is working on.                *)
RefusedIsListed ==
    /\ IsInjective(Waiting)
    /\ Range(Waiting) = {p \in Ports : pending[p] # None}

(* Something is still to happen that sends the retries: a request that     *)
(* will hit, or the write that ends a locked access.  (So it is without    *)
(* software prefetches, whose hit returns before trySendRetries.)          *)
RetryWillCome == Waiting # <<>> /\ ~InCallback => outstanding > 0 \/ rmw # None

(* Outside a drain no request stays for two thresholds without an abort *)
StuckIsReported ==
    drainState # "Draining" /\ ~panicked =>
        \A r \in Outstanding : Age(r) < 2 * DeadlockThreshold

(* wakeup asserts that the system is not draining *)
NoCheckWhileDraining == drainState = "Draining" => check = Unscheduled

(* A drain waits for a request: its end is not missed.  (Software          *)
(* prefetches, whose hit returns before the test for the end of a drain,   *)
(* are left out.)                                                          *)
DrainNotMissed == drainState = "Draining" /\ ~InCallback => outstanding > 0

=============================================================================
