--------------------------- MODULE CpuPortsProofs ---------------------------
(***************************************************************************)
(* The sequencer's bookkeeping for any set of lines and ports, any limits  *)
(* and any mix of requests.                                                *)
(***************************************************************************)
EXTENDS CpuPorts, SequenceTheorems, FiniteSetTheorems, TLAPS

Entries == [type : Types, age : 0 .. MaxAge]
Issuable == {"LD", "IFETCH", "ST", "ATOMIC"}
Walks == [kind : {"read", "write", "atomic"}, line : Lines, first : BOOLEAN,
          noCoales : NoCoales, step : {"front", "retries"}, retries : Seq(Ports)]
Retries == IF InCallback THEN walk.retries ELSE <<>>

TableOK == table \in [Lines -> Seq(Entries)]
IssuedOK == issued \in [Lines -> Seq(Issuable)]
ListOK == retryList \in Seq(Ports)
WalkOK == walk \in Walks \cup {Idle}
PendingOK == pending \in [Ports -> Requests \cup {None}]
CountersOK ==
    /\ outstanding \in Int
    /\ check \in -1 .. DeadlockThreshold
    /\ drainState \in {"Running", "Draining", "Drained"}

Typed == TableOK /\ IssuedOK /\ ListOK /\ WalkOK /\ PendingOK /\ CountersOK

(* The ports of P are on the two lists, with none of them twice *)
Listing(R, W, P) ==
    /\ \A i, j \in 1 .. Len(R) : R[i] = R[j] => i = j
    /\ \A i, j \in 1 .. Len(W) : W[i] = W[j] => i = j
    /\ \A i \in 1 .. Len(R), j \in 1 .. Len(W) : R[i] # W[j]
    /\ \A p \in Ports : p \in P <=> \/ \E i \in 1 .. Len(R) : R[i] = p
                                   \/ \E i \in 1 .. Len(W) : W[i] = p

Refused == {p \in Ports : pending[p] # None}
Listed == Listing(retryList, Retries, Refused)

(* The line being walked has no request in the hierarchy and a front *)
Walked ==
    InCallback => /\ table[walk.line] # <<>> /\ issued[walk.line] = <<>>
                  /\ walk.step = "retries" => walk.first = FALSE
                  /\ walk.step = "front" => walk.retries = <<>>

Ruby == OneRubyRequestPerLine /\ Walked /\ CallbackFitsRequest

-----------------------------------------------------------------------------
(* What the sequence operators of the model do *)
LEMMA AppendFacts ==
    ASSUME NEW S, NEW s \in Seq(S), NEW e \in S
    PROVE  /\ Append(s, e) \in Seq(S)
           /\ Append(s, e) # <<>>
           /\ Len(s) \in Nat
           /\ Len(Append(s, e)) = Len(s) + 1
           /\ \A i \in 1 .. Len(s) : Append(s, e)[i] = s[i]
           /\ Append(s, e)[Len(s) + 1] = e
           /\ Head(Append(s, e)) = IF s = <<>> THEN e ELSE Head(s)
           /\ s = <<>> => Append(s, e) = <<e>>
  <1>1. /\ Append(s, e) \in Seq(S) /\ Append(s, e) # <<>> /\ Len(s) \in Nat
        /\ Len(Append(s, e)) = Len(s) + 1
        /\ \A i \in 1 .. Len(s) : Append(s, e)[i] = s[i]
        /\ Append(s, e)[Len(s) + 1] = e
    BY AppendProperties, LenProperties
  <1>2. Head(Append(s, e)) = IF s = <<>> THEN e ELSE Head(s)
    <2>1. Head(Append(s, e)) = Append(s, e)[1]
      BY <1>1, HeadTailProperties
    <2>2. CASE s = <<>>
      BY <1>1, <2>1, <2>2, EmptySeq
    <2>3. CASE s # <<>>
      BY <1>1, <2>1, <2>3, EmptySeq, HeadTailProperties
    <2> QED  BY <2>2, <2>3
  <1>3. s = <<>> => Append(s, e) = <<e>>
    OBVIOUS
  <1> QED  BY <1>1, <1>2, <1>3

LEMMA TailFacts ==
    ASSUME NEW S, NEW s \in Seq(S), s # <<>>
    PROVE  /\ Tail(s) \in Seq(S)
           /\ Len(s) \in Nat \ {0}
           /\ Len(Tail(s)) = Len(s) - 1
           /\ \A i \in 1 .. Len(Tail(s)) : Tail(s)[i] = s[i + 1]
           /\ Head(s) = s[1] /\ Head(s) \in S
           /\ Len(s) = 1 <=> Tail(s) = <<>>
  <1>1. /\ Tail(s) \in Seq(S) /\ Len(Tail(s)) = Len(s) - 1 /\ Head(s) \in S
        /\ \A i \in 1 .. Len(Tail(s)) : Tail(s)[i] = s[i + 1]
    BY HeadTailProperties
  <1>2. Len(s) \in Nat \ {0}
    BY EmptySeq
  <1>3. Len(s) = 1 <=> Tail(s) = <<>>
    <2>1. Len(Tail(s)) = 0 <=> Tail(s) = <<>>
      BY <1>1, EmptySeq
    <2> QED  BY <1>1, <1>2, <2>1
  <1>4. Head(s) = s[1]
    OBVIOUS
  <1> QED  BY <1>1, <1>2, <1>3, <1>4

LEMMA NoneIsNoRequest == None \notin Requests /\ \A w \in Walks : w # Idle
  BY DEF None, Requests, Types, Reads, Walks, Idle

LEMMA InitTyped == Init => Typed /\ Listed /\ Ruby
  <1> SUFFICES ASSUME Init PROVE Typed /\ Listed /\ Ruby
    OBVIOUS
  <1>1. Typed
    BY SequencerAssumption DEF Init, SequencerInit, Typed, Unscheduled,
        TableOK, IssuedOK, ListOK, WalkOK, PendingOK, CountersOK
  <1>2. Listed
    BY EmptySeq DEF Init, SequencerInit, Listed, Listing, Refused, Retries, InCallback
  <1>3. Ruby
    BY DEF Init, SequencerInit, Ruby, OneRubyRequestPerLine, Walked, CallbackFitsRequest,
           InCallback, AtFront
  <1> QED  BY <1>1, <1>2, <1>3
-----------------------------------------------------------------------------
(* A port that is sent a retry holds a packet *)
LEMMA RetryHasPacket ==
    ASSUME Typed, Listed, NEW p \in Ports, SendRetryReq(p)
    PROVE  /\ pending[p] \in Requests
           /\ walk \in Walks /\ InCallback /\ walk.step = "retries"
           /\ Retries = walk.retries /\ Retries # <<>> /\ p = Retries[1]
           /\ walk' = [walk EXCEPT !.retries = Tail(walk.retries)]
  <1>1. walk \in Walks /\ InCallback /\ Retries = walk.retries /\ Retries # <<>>
        /\ p = Head(Retries) /\ walk.step = "retries"
        /\ walk' = [walk EXCEPT !.retries = Tail(walk.retries)]
    BY DEF SendRetryReq, Typed, WalkOK, InCallback, Retries
  <1>2. Retries \in Seq(Ports)
    BY <1>1 DEF Walks
  <1>3. p = Retries[1] /\ Len(Retries) \in Nat \ {0}
    BY <1>1, <1>2, TailFacts
  <1>4. pending[p] # None
    BY <1>3 DEF Listed, Listing, Refused
  <1> QED  BY <1>1, <1>3, <1>4 DEF Typed, PendingOK

(* recvTimingReq refuses ... *)
LEMMA SubmitRefused ==
    ASSUME NEW p, NEW req, Submit(p, req), Refuses(req)
    PROVE  /\ UNCHANGED <<table, outstanding, issued, check, blocked, drainState, panicked>>
           /\ retryList' = IF Contains(retryList, p) THEN retryList ELSE Append(retryList, p)
           /\ pending' = [pending EXCEPT ![p] = req]
  BY DEF Submit, RecvTimingReq, AddToRetryList

(* ... or inserts *)
LEMMA SubmitAccepted ==
    ASSUME NEW p, NEW req, Submit(p, req), ~Refuses(req)
    PROVE  /\ UNCHANGED <<retryList, blocked, drainState, panicked>>
           /\ pending' = [pending EXCEPT ![p] = None]
           /\ check' = IF check = -1 /\ drainState # "Draining" THEN DeadlockThreshold ELSE check
           /\ outstanding' = outstanding + 1
           /\ table' = [table EXCEPT ![req.line] =
                            Append(table[req.line], [type |-> req.type, age |-> 0])]
           /\ issued' = IF table[req.line] # <<>> THEN issued
                        ELSE [issued EXCEPT ![req.line] =
                                 Append(issued[req.line], SecondaryType(req.type))]
  BY DEF Submit, RecvTimingReq, InsertRequest, ScheduleCheck, IssueIfFirst, IssueRequest,
         Unscheduled

LEMMA SecondaryIssuable == \A t \in Types : SecondaryType(t) \in Issuable
  BY DEF Types, Reads, SecondaryType, Issuable

LEMMA SubmitTyped ==
    ASSUME Typed, NEW p \in Ports, NEW req \in Requests, Submit(p, req), WalkOK'
    PROVE  Typed'
  <1>1. req.line \in Lines /\ req.type \in Types /\ SecondaryType(req.type) \in Issuable
    BY SecondaryIssuable DEF Requests
  <1>2. [type |-> req.type, age |-> 0] \in Entries
    BY <1>1, SequencerAssumption DEF Entries, MaxAge
  <1>3. Append(table[req.line], [type |-> req.type, age |-> 0]) \in Seq(Entries)
    BY <1>1, <1>2, AppendFacts DEF Typed, TableOK
  <1>4. Append(issued[req.line], SecondaryType(req.type)) \in Seq(Issuable)
    BY <1>1, AppendFacts DEF Typed, IssuedOK
  <1>5. Append(retryList, p) \in Seq(Ports)
    BY AppendFacts DEF Typed, ListOK
  <1>6. TableOK'
    <2>1. \/ table' = table
          \/ table' = [table EXCEPT ![req.line] =
                          Append(table[req.line], [type |-> req.type, age |-> 0])]
      BY SubmitRefused, SubmitAccepted
    <2> QED  BY <1>1, <1>3, <2>1 DEF Typed, TableOK
  <1>7. IssuedOK'
    <2>1. \/ issued' = issued
          \/ issued' = [issued EXCEPT ![req.line] =
                          Append(issued[req.line], SecondaryType(req.type))]
      BY SubmitRefused, SubmitAccepted
    <2> QED  BY <1>1, <1>4, <2>1 DEF Typed, IssuedOK
  <1>8. ListOK'
    BY <1>5, SubmitRefused, SubmitAccepted DEF Typed, ListOK
  <1>9. PendingOK'
    BY SubmitRefused, SubmitAccepted DEF Typed, PendingOK
  <1>10. CountersOK'
    <2>1. /\ outstanding' \in {outstanding, outstanding + 1}
          /\ check' \in {check, DeadlockThreshold}
          /\ drainState' = drainState
      BY SubmitRefused, SubmitAccepted
    <2> QED  BY <2>1, SequencerAssumption DEF Typed, CountersOK
  <1> QED  BY <1>6, <1>7, <1>8, <1>9, <1>10 DEF Typed

(* Ages are bounded, and a cycle changes nothing else of a request *)
LEMMA OlderEntries ==
    \A r \in Entries : Older(r) \in Entries /\ Older(r).type = r.type
  BY SequencerAssumption DEF Entries, Older, MaxAge

LEMMA TickTable ==
    ASSUME TableOK, Tick
    PROVE  /\ TableOK'
           /\ \A l \in Lines : /\ table'[l] \in Seq(Entries) /\ Len(table'[l]) = Len(table[l])
                               /\ DOMAIN table'[l] = DOMAIN table[l]
                               /\ \A i \in DOMAIN table[l] : table'[l][i] = Older(table[l][i])
  <1>1. table' = [l \in Lines |-> [i \in DOMAIN table[l] |-> Older(table[l][i])]]
    BY DEF Tick
  <1>2. ASSUME NEW l \in Lines
        PROVE  /\ table'[l] \in Seq(Entries) /\ Len(table'[l]) = Len(table[l])
               /\ DOMAIN table'[l] = DOMAIN table[l]
               /\ \A i \in DOMAIN table[l] : table'[l][i] = Older(table[l][i])
    <2>1. table[l] \in Seq(Entries) /\ table'[l] = [i \in DOMAIN table[l] |-> Older(table[l][i])]
      BY <1>1 DEF TableOK
    <2>2. Len(table[l]) \in Nat /\ DOMAIN table[l] = 1 .. Len(table[l])
          /\ \A i \in DOMAIN table[l] : Older(table[l][i]) \in Entries
      BY <2>1, LenProperties, OlderEntries
    <2>3. table'[l] \in [1 .. Len(table[l]) -> Entries]
      BY <2>1, <2>2
    <2>4. table'[l] \in Seq(Entries)
      BY <2>2, <2>3, SeqDef
    <2>5. Len(table'[l]) = Len(table[l])
      BY <2>2, <2>3, <2>4, LenProperties
    <2> QED  BY <2>1, <2>2, <2>4, <2>5
  <1>3. TableOK'
    BY <1>1, <1>2 DEF TableOK
  <1> QED  BY <1>2, <1>3

(* The request at the front of a walk *)
LEMMA FrontIsRequest ==
    ASSUME Typed, Walked, InCallback
    PROVE  /\ walk \in Walks /\ walk.line \in Lines
           /\ table[walk.line] \in Seq(Entries) /\ table[walk.line] # <<>>
           /\ FrontRequest \in Entries /\ FrontRequest.type \in Types
           /\ SecondaryType(FrontRequest.type) \in Issuable
  <1>1. walk \in Walks /\ walk.line \in Lines
    BY DEF Typed, WalkOK, InCallback, Walks
  <1>2. table[walk.line] \in Seq(Entries) /\ table[walk.line] # <<>>
    BY <1>1 DEF Typed, TableOK, Walked
  <1>3. FrontRequest \in Entries
    BY <1>2, TailFacts DEF FrontRequest
  <1>4. FrontRequest.type \in Types
    BY <1>3 DEF Entries
  <1> QED  BY <1>1, <1>2, <1>3, <1>4, SecondaryIssuable

LEMMA TypedNext ==
    ASSUME Typed, Listed, Walked, [Next]_vars
    PROVE  Typed'
  <1>1. ASSUME NEW p \in Ports, NEW req \in Requests, SendTimingReq(p, req) PROVE Typed'
    BY <1>1, SubmitTyped DEF SendTimingReq, Typed, WalkOK
  <1>2. ASSUME NEW p \in Ports, RecvReqRetry(p) PROVE Typed'
    <2>1. /\ pending[p] \in Requests /\ walk \in Walks /\ walk.retries # <<>>
          /\ walk' = [walk EXCEPT !.retries = Tail(walk.retries)]
      BY <1>2, RetryHasPacket DEF RecvReqRetry
    <2>2. Tail(walk.retries) \in Seq(Ports)
      BY <2>1, TailFacts DEF Walks
    <2>3. WalkOK'
      BY <2>1, <2>2 DEF WalkOK, Walks
    <2> QED  BY <1>2, <2>1, <2>3, SubmitTyped DEF RecvReqRetry
  <1>3. ASSUME NEW l \in Lines, NEW c \in NoCoales, Callback(l, c), UNCHANGED <<pending, rmw>>
        PROVE  Typed'
    <2>1. issued[l] \in Seq(Issuable) /\ issued[l] # <<>>
      BY <1>3 DEF Callback, Typed, IssuedOK
    <2>2. Tail(issued[l]) \in Seq(Issuable) /\ Head(issued[l]) \in Issuable
      BY <2>1, TailFacts
    <2>3. CallbackOf(Head(issued[l])) \in {"read", "write", "atomic"}
      BY <2>2 DEF CallbackOf, Issuable, Reads
    <2>4. IssuedOK'
      BY <1>3, <2>2 DEF Callback, Typed, IssuedOK
    <2>5. WalkOK'
      BY <1>3, <2>3, EmptySeq DEF Callback, WalkOK, Walks
    <2>6. UNCHANGED <<table, retryList, outstanding, check, drainState, pending>>
      BY <1>3 DEF Callback
    <2> QED
      BY <2>4, <2>5, <2>6 DEF Typed, TableOK, ListOK, PendingOK, CountersOK
  <1>4. ASSUME Reissue, UNCHANGED <<pending, rmw>> PROVE Typed'
    <2>1. walk.line \in Lines /\ SecondaryType(FrontRequest.type) \in Issuable
      BY <1>4, FrontIsRequest DEF Reissue, AtFront
    <2>2. Append(issued[walk.line], SecondaryType(FrontRequest.type)) \in Seq(Issuable)
      BY <2>1, AppendFacts DEF Typed, IssuedOK
    <2>3. IssuedOK'
      BY <1>4, <2>1, <2>2 DEF Reissue, IssueRequest, Typed, IssuedOK
    <2>4. UNCHANGED <<table, retryList, outstanding, check, drainState, pending>> /\ walk' = Idle
      BY <1>4 DEF Reissue
    <2> QED
      BY <2>3, <2>4 DEF Typed, TableOK, ListOK, WalkOK, PendingOK, CountersOK
  <1>5. ASSUME HitCallback, UNCHANGED <<pending, rmw>> PROVE Typed'
    <2>1. walk \in Walks /\ retryList \in Seq(Ports)
      BY <1>5, FrontIsRequest DEF HitCallback, AtFront, Typed, ListOK
    <2>2. WalkOK'
      BY <1>5, <2>1 DEF HitCallback, WalkOK, Walks
    <2>3. ListOK'
      BY <1>5, EmptySeq DEF HitCallback, ListOK
    <2>4. outstanding' = outstanding - 1 /\ UNCHANGED <<table, issued, check, drainState, pending>>
      BY <1>5 DEF HitCallback
    <2>5. CountersOK'
      BY <2>4 DEF Typed, CountersOK
    <2> QED
      BY <2>2, <2>3, <2>4, <2>5 DEF Typed, TableOK, IssuedOK, PendingOK
  <1>6. ASSUME PopFront, UNCHANGED <<pending, rmw>> PROVE Typed'
    <2>1. walk \in Walks /\ walk.line \in Lines /\ Tail(table[walk.line]) \in Seq(Entries)
      BY <1>6, FrontIsRequest, TailFacts DEF PopFront
    <2>2. TableOK'
      BY <1>6, <2>1 DEF PopFront, Typed, TableOK
    <2>3. WalkOK'
      BY <1>6, <2>1 DEF PopFront, WalkOK, Walks
    <2>4. CountersOK'
      BY <1>6 DEF PopFront, TestDrainComplete, Typed, CountersOK
    <2>5. UNCHANGED <<issued, retryList, pending>>
      BY <1>6 DEF PopFront
    <2> QED
      BY <2>2, <2>3, <2>4, <2>5 DEF Typed, IssuedOK, ListOK, PendingOK
  <1>7. ASSUME Wakeup, UNCHANGED <<pending, rmw>> PROVE Typed'
    <2>1. CountersOK'
      BY <1>7, SequencerAssumption DEF Wakeup, Unscheduled, Typed, CountersOK
    <2>2. UNCHANGED <<table, issued, retryList, walk, pending>>
      BY <1>7 DEF Wakeup
    <2> QED  BY <2>1, <2>2 DEF Typed, TableOK, IssuedOK, ListOK, WalkOK, PendingOK
  <1>8. ASSUME Tick, UNCHANGED <<pending, rmw>> PROVE Typed'
    <2>1. TableOK'
      BY <1>8, TickTable DEF Typed
    <2>2. CountersOK'
      BY <1>8, SequencerAssumption DEF Tick, Unscheduled, Typed, CountersOK
    <2>3. UNCHANGED <<issued, retryList, walk, pending>>
      BY <1>8 DEF Tick
    <2> QED  BY <2>1, <2>2, <2>3 DEF Typed, IssuedOK, ListOK, WalkOK, PendingOK
  <1>9. ASSUME Drain \/ DrainResume, UNCHANGED <<pending, rmw>> PROVE Typed'
    <2>1. CountersOK'
      BY <1>9, SequencerAssumption DEF Drain, DrainResume, Unscheduled, Typed, CountersOK
    <2>2. UNCHANGED <<table, issued, retryList, walk, pending>>
      BY <1>9 DEF Drain, DrainResume
    <2> QED  BY <2>1, <2>2 DEF Typed, TableOK, IssuedOK, ListOK, WalkOK, PendingOK
  <1>10. CASE UNCHANGED vars
    BY <1>10 DEF vars, seqVars, Typed, TableOK, IssuedOK, ListOK, WalkOK, PendingOK, CountersOK
  <1> QED
    BY <1>1, <1>2, <1>3, <1>4, <1>5, <1>6, <1>7, <1>8, <1>9, <1>10 DEF Next, Sequence
-----------------------------------------------------------------------------
(* A request inserted at a line becomes its head and is issued, or waits   *)
(* behind the head                                                         *)
LEMMA SubmitLine ==
    ASSUME Typed, NEW p \in Ports, NEW req \in Requests, Submit(p, req), NEW l \in Lines
    PROVE  /\ table[l] # <<>> => /\ table'[l] # <<>> /\ issued'[l] = issued[l]
                                 /\ Head(table'[l]).type = Head(table[l]).type
           /\ table[l] = <<>> /\ issued[l] = <<>> =>
                 issued'[l] = IF table'[l] = <<>> THEN <<>>
                              ELSE <<SecondaryType(Head(table'[l]).type)>>
  <1> DEFINE e == [type |-> req.type, age |-> 0]
  <1>1. req.line \in Lines /\ e \in Entries /\ e.type = req.type
        /\ SecondaryType(req.type) \in Issuable
    BY SecondaryIssuable, SequencerAssumption DEF Requests, Entries, MaxAge
  <1>2. CASE Refuses(req) \/ l # req.line
    <2>1. table'[l] = table[l] /\ issued'[l] = issued[l]
      BY <1>1, <1>2, SubmitRefused, SubmitAccepted DEF Typed, TableOK, IssuedOK
    <2> QED  BY <2>1
  <1>3. CASE ~Refuses(req) /\ l = req.line
    <2>1. /\ table' = [table EXCEPT ![l] = Append(table[l], e)]
          /\ issued' = IF table[l] # <<>> THEN issued
                       ELSE [issued EXCEPT ![l] = Append(issued[l], SecondaryType(req.type))]
      BY <1>3, SubmitAccepted
    <2>2. table'[l] = Append(table[l], e)
      BY <2>1 DEF Typed, TableOK
    <2>3. issued'[l] = IF table[l] # <<>> THEN issued[l]
                       ELSE Append(issued[l], SecondaryType(req.type))
      BY <2>1 DEF Typed, IssuedOK
    <2>4. /\ Append(table[l], e) # <<>>
          /\ Head(Append(table[l], e)) = IF table[l] = <<>> THEN e ELSE Head(table[l])
      BY <1>1, AppendFacts DEF Typed, TableOK
    <2>5. issued[l] = <<>> => Append(issued[l], SecondaryType(req.type)) = <<SecondaryType(req.type)>>
      BY <1>1, AppendFacts DEF Typed, IssuedOK
    <2> HIDE DEF e
    <2> QED  BY <1>1, <2>2, <2>3, <2>4, <2>5
  <1> QED  BY <1>2, <1>3

LEMMA RubyNext ==
    ASSUME Typed, Listed, Ruby, [Next]_vars
    PROVE  Ruby'
  <1>1. ASSUME NEW p \in Ports, NEW req \in Requests, SendTimingReq(p, req) PROVE Ruby'
    <2>1. Submit(p, req) /\ walk' = walk /\ ~InCallback
      BY <1>1 DEF SendTimingReq
    <2>2. ~InCallback'
      BY <2>1 DEF InCallback
    <2>3. OneRubyRequestPerLine'
      BY <2>1, SubmitLine DEF Ruby, OneRubyRequestPerLine, InCallback
    <2> QED  BY <2>2, <2>3 DEF Ruby, Walked, CallbackFitsRequest, AtFront
  <1>2. ASSUME NEW p \in Ports, RecvReqRetry(p) PROVE Ruby'
    <2>1. /\ pending[p] \in Requests /\ Submit(p, pending[p]) /\ walk \in Walks /\ InCallback
          /\ walk' = [walk EXCEPT !.retries = Tail(walk.retries)] /\ walk.step = "retries"
      BY <1>2, RetryHasPacket DEF RecvReqRetry
    <2>2. walk'.line = walk.line /\ walk'.step = "retries" /\ walk.line \in Lines
          /\ walk'.first = walk.first
      BY <2>1 DEF Walks
    <2>3. walk'.kind = walk.kind /\ walk.kind # "none"
      BY <2>1 DEF Walks
    <2>4. InCallback'
      BY <2>3 DEF InCallback, Idle
    <2>5. OneRubyRequestPerLine'
      BY <2>1, <2>2, <2>4, SubmitLine DEF Ruby, OneRubyRequestPerLine
    <2>6. Walked'
      BY <2>1, <2>2, <2>4, SubmitLine DEF Ruby, Walked
    <2> QED  BY <2>2, <2>5, <2>6 DEF Ruby, CallbackFitsRequest, AtFront
  <1>3. ASSUME NEW l \in Lines, NEW c \in NoCoales, Callback(l, c) PROVE Ruby'
    <2>1. /\ ~InCallback /\ issued[l] # <<>> /\ table' = table
          /\ issued' = [issued EXCEPT ![l] = Tail(issued[l])]
          /\ walk' = [kind |-> CallbackOf(Head(issued[l])), line |-> l, first |-> TRUE,
                      noCoales |-> c, step |-> "front", retries |-> <<>>]
      BY <1>3 DEF Callback
    <2>2. issued[l] = <<SecondaryType(Head(table[l]).type)>> /\ table[l] # <<>>
      BY <2>1 DEF Ruby, OneRubyRequestPerLine
    <2>3. Tail(issued[l]) = <<>> /\ Head(issued[l]) = SecondaryType(Head(table[l]).type)
      BY <2>2
    <2>4. walk'.line = l /\ walk'.kind = CallbackOf(SecondaryType(Head(table[l]).type))
          /\ issued'[l] = <<>> /\ \A m \in Lines \ {l} : issued'[m] = issued[m]
      BY <2>1, <2>3 DEF Typed, IssuedOK
    <2>5. InCallback'
      BY <2>1 DEF InCallback, Idle
    <2>6. OneRubyRequestPerLine'
      BY <2>1, <2>4, <2>5 DEF Ruby, OneRubyRequestPerLine
    <2>7. Walked' /\ CallbackFitsRequest'
      <3>1. walk'.step = "front" /\ walk'.retries = <<>>
        BY <2>1
      <3> QED  BY <2>1, <2>2, <2>4, <3>1 DEF Walked, CallbackFitsRequest, FrontRequest
    <2> QED  BY <2>6, <2>7 DEF Ruby
  <1>4. ASSUME Reissue PROVE Ruby'
    <2>1. /\ walk.line \in Lines /\ table[walk.line] # <<>> /\ issued[walk.line] = <<>>
          /\ SecondaryType(FrontRequest.type) \in Issuable /\ InCallback
      BY <1>4, FrontIsRequest DEF Reissue, AtFront, Ruby, Walked
    <2>2. /\ walk' = Idle /\ table' = table
          /\ issued' = [issued EXCEPT ![walk.line] =
                           Append(issued[walk.line], SecondaryType(FrontRequest.type))]
      BY <1>4 DEF Reissue, IssueRequest
    <2>3. issued'[walk.line] = <<SecondaryType(FrontRequest.type)>>
          /\ \A m \in Lines \ {walk.line} : issued'[m] = issued[m]
      BY <2>1, <2>2 DEF Typed, IssuedOK
    <2>4. ~InCallback'
      BY <2>2 DEF InCallback
    <2>5. OneRubyRequestPerLine'
      BY <2>1, <2>2, <2>3 DEF Ruby, OneRubyRequestPerLine, FrontRequest
    <2> QED  BY <2>4, <2>5 DEF Ruby, Walked, CallbackFitsRequest, AtFront
  <1>5. ASSUME HitCallback PROVE Ruby'
    <2>1. /\ walk \in Walks /\ InCallback /\ UNCHANGED <<table, issued>>
          /\ walk' = [walk EXCEPT !.first = FALSE, !.step = "retries", !.retries = retryList]
      BY <1>5, FrontIsRequest DEF HitCallback, AtFront, Ruby
    <2>2. walk'.line = walk.line /\ walk'.step = "retries" /\ walk'.kind = walk.kind
          /\ walk.kind # "none" /\ walk'.first = FALSE
      BY <2>1 DEF Walks
    <2>3. InCallback'
      BY <2>2 DEF InCallback, Idle
    <2>4. OneRubyRequestPerLine' /\ Walked'
      BY <2>1, <2>2, <2>3 DEF Ruby, OneRubyRequestPerLine, Walked
    <2> QED  BY <2>2, <2>4 DEF Ruby, CallbackFitsRequest, AtFront
  <1>6. ASSUME PopFront PROVE Ruby'
    <2>1. /\ walk \in Walks /\ walk.line \in Lines /\ InCallback /\ issued[walk.line] = <<>>
          /\ table[walk.line] \in Seq(Entries) /\ table[walk.line] # <<>> /\ issued' = issued
          /\ table' = [table EXCEPT ![walk.line] = Tail(table[walk.line])]
          /\ walk' = IF Len(table[walk.line]) = 1 THEN Idle ELSE [walk EXCEPT !.step = "front"]
          /\ walk.first = FALSE /\ walk.retries = <<>>
      BY <1>6, FrontIsRequest DEF PopFront, Ruby, Walked
    <2>2. /\ table'[walk.line] = Tail(table[walk.line])
          /\ Len(table[walk.line]) = 1 <=> Tail(table[walk.line]) = <<>>
          /\ \A m \in Lines \ {walk.line} : table'[m] = table[m]
      BY <2>1, TailFacts DEF Typed, TableOK
    <2>3. CASE Len(table[walk.line]) = 1
      <3>1. ~InCallback'
        BY <2>1, <2>3 DEF InCallback
      <3>2. OneRubyRequestPerLine'
        BY <2>1, <2>2, <2>3 DEF Ruby, OneRubyRequestPerLine
      <3> QED  BY <3>1, <3>2 DEF Ruby, Walked, CallbackFitsRequest, AtFront
    <2>4. CASE Len(table[walk.line]) # 1
      <3>1. walk'.line = walk.line /\ walk'.first = walk.first /\ walk'.kind = walk.kind
            /\ walk.kind # "none" /\ walk'.step = "front" /\ walk'.retries = walk.retries
        BY <2>1, <2>4 DEF Walks
      <3>2. InCallback'
        BY <3>1 DEF InCallback, Idle
      <3>3. OneRubyRequestPerLine' /\ Walked'
        BY <2>1, <2>2, <2>4, <3>1, <3>2 DEF Ruby, OneRubyRequestPerLine, Walked
      <3> QED  BY <2>1, <3>1, <3>3 DEF Ruby, CallbackFitsRequest, AtFront
    <2> QED  BY <2>3, <2>4
  <1>7. ASSUME Tick PROVE Ruby'
    <2>1. ~InCallback /\ UNCHANGED <<issued, walk>>
      BY <1>7 DEF Tick
    <2>2. ~InCallback'
      BY <2>1 DEF InCallback
    <2>3. ASSUME NEW l \in Lines
          PROVE  /\ table'[l] = <<>> <=> table[l] = <<>>
                 /\ table[l] # <<>> => Head(table'[l]).type = Head(table[l]).type
      <3>1. /\ table[l] \in Seq(Entries) /\ table'[l] \in Seq(Entries)
            /\ Len(table'[l]) = Len(table[l])
            /\ \A i \in DOMAIN table[l] : table'[l][i] = Older(table[l][i])
        BY <1>7, TickTable DEF Typed, TableOK
      <3>2. table'[l] = <<>> <=> table[l] = <<>>
        BY <3>1, EmptySeq
      <3>3. ASSUME table[l] # <<>> PROVE Head(table'[l]).type = Head(table[l]).type
        <4>1. Head(table'[l]) = table'[l][1] /\ Head(table[l]) = table[l][1]
              /\ 1 \in DOMAIN table[l] /\ Head(table[l]) \in Entries
          BY <3>1, <3>2, <3>3, TailFacts, LenProperties
        <4> QED  BY <3>1, <4>1, OlderEntries
      <3> QED  BY <3>2, <3>3
    <2>4. OneRubyRequestPerLine'
      BY <2>1, <2>2, <2>3 DEF Ruby, OneRubyRequestPerLine
    <2> QED  BY <2>2, <2>4 DEF Ruby, Walked, CallbackFitsRequest, AtFront
  <1>8. ASSUME UNCHANGED <<table, issued, walk>> PROVE Ruby'
    BY <1>8 DEF Ruby, OneRubyRequestPerLine, Walked, CallbackFitsRequest, InCallback, AtFront,
                FrontRequest
  <1> QED
    BY <1>1, <1>2, <1>3, <1>4, <1>5, <1>6, <1>7, <1>8
    DEF Next, Sequence, Wakeup, Drain, DrainResume, vars, seqVars
-----------------------------------------------------------------------------
(* The three ways the lists change *)
LEMMA ListMoves ==
    ASSUME NEW R \in Seq(Ports), NEW W \in Seq(Ports), NEW P \in SUBSET Ports, Listing(R, W, P)
    PROVE  /\ \A p \in Ports \ P : ~Contains(R, p) /\ Listing(Append(R, p), W, P \cup {p})
           /\ W # <<>> => /\ W[1] \in P /\ ~Contains(R, W[1])
                          /\ Listing(Append(R, W[1]), Tail(W), P)
                          /\ Listing(R, Tail(W), P \ {W[1]})
           /\ W = <<>> => Listing(W, R, P)
  <1>1. Len(R) \in Nat /\ Len(W) \in Nat
        /\ (\A i \in 1 .. Len(R) : R[i] \in Ports) /\ (\A i \in 1 .. Len(W) : W[i] \in Ports)
    BY LenProperties
  <1>2. ASSUME NEW p \in Ports \ P
        PROVE  ~Contains(R, p) /\ Listing(Append(R, p), W, P \cup {p})
    <2>1. /\ Len(Append(R, p)) = Len(R) + 1 /\ Append(R, p)[Len(R) + 1] = p
          /\ \A i \in 1 .. Len(R) : Append(R, p)[i] = R[i]
      BY AppendFacts
    <2>2. /\ \A i \in 1 .. Len(R) : R[i] # p
          /\ \A i \in 1 .. Len(W) : W[i] # p
      BY DEF Listing
    <2>3. ~Contains(R, p)
      BY <2>2 DEF Contains
    <2> QED  BY <1>1, <2>1, <2>2, <2>3 DEF Listing
  <1>3. ASSUME W # <<>>
        PROVE  /\ W[1] \in P /\ ~Contains(R, W[1])
               /\ Listing(Append(R, W[1]), Tail(W), P)
               /\ Listing(R, Tail(W), P \ {W[1]})
    <2>1. /\ Len(W) \in Nat \ {0} /\ Len(Tail(W)) = Len(W) - 1
          /\ \A i \in 1 .. Len(Tail(W)) : Tail(W)[i] = W[i + 1]
      BY <1>3, TailFacts
    <2>2. W[1] \in Ports /\ W[1] \in P /\ (\A i \in 1 .. Len(R) : R[i] # W[1])
          /\ (\A i \in 2 .. Len(W) : W[i] # W[1])
      BY <1>1, <2>1 DEF Listing
    <2>3. /\ Len(Append(R, W[1])) = Len(R) + 1 /\ Append(R, W[1])[Len(R) + 1] = W[1]
          /\ \A i \in 1 .. Len(R) : Append(R, W[1])[i] = R[i]
      BY <2>2, AppendFacts
    <2>4. ~Contains(R, W[1])
      BY <2>2 DEF Contains
    <2>5. /\ \A i, j \in 1 .. Len(Tail(W)) : Tail(W)[i] = Tail(W)[j] => i = j
          /\ \A i \in 1 .. Len(R), j \in 1 .. Len(Tail(W)) : R[i] # Tail(W)[j]
          /\ \A i \in 1 .. Len(Tail(W)) : Tail(W)[i] # W[1]
          /\ \A p \in Ports : (\E i \in 1 .. Len(W) : W[i] = p) <=>
                               p = W[1] \/ \E i \in 1 .. Len(Tail(W)) : Tail(W)[i] = p
      <3>1. \A i \in 1 .. Len(Tail(W)) : i + 1 \in 2 .. Len(W) /\ Tail(W)[i] = W[i + 1]
        BY <2>1
      <3>2. \A i \in 2 .. Len(W) : i - 1 \in 1 .. Len(Tail(W)) /\ Tail(W)[i - 1] = W[i]
        BY <2>1
      <3>3. \A i, j \in 1 .. Len(Tail(W)) : Tail(W)[i] = Tail(W)[j] => i = j
        BY <2>1, <3>1 DEF Listing
      <3>4. /\ \A i \in 1 .. Len(R), j \in 1 .. Len(Tail(W)) : R[i] # Tail(W)[j]
            /\ \A i \in 1 .. Len(Tail(W)) : Tail(W)[i] # W[1]
        BY <2>1, <2>2, <3>1 DEF Listing
      <3>5. ASSUME NEW p \in Ports
            PROVE  (\E i \in 1 .. Len(W) : W[i] = p) <=>
                       p = W[1] \/ \E i \in 1 .. Len(Tail(W)) : Tail(W)[i] = p
        <4>1. ASSUME NEW i \in 1 .. Len(W), W[i] = p
              PROVE  p = W[1] \/ \E k \in 1 .. Len(Tail(W)) : Tail(W)[k] = p
          <5>1. i = 1 \/ i \in 2 .. Len(W)
            BY <2>1
          <5> QED  BY <4>1, <3>2, <5>1
        <4>2. ASSUME NEW i \in 1 .. Len(Tail(W)), Tail(W)[i] = p
              PROVE  \E k \in 1 .. Len(W) : W[k] = p
          <5>1. i + 1 \in 1 .. Len(W) /\ W[i + 1] = p
            BY <4>2, <2>1
          <5> QED  BY <5>1
        <4> QED  BY <2>1, <4>1, <4>2
      <3> QED  BY <3>3, <3>4, <3>5
    <2>6. Listing(R, Tail(W), P \ {W[1]})
      BY <2>2, <2>5 DEF Listing
    <2>7. Listing(Append(R, W[1]), Tail(W), P)
      BY <1>1, <2>2, <2>3, <2>5 DEF Listing
    <2> QED  BY <2>2, <2>4, <2>6, <2>7
  <1>4. W = <<>> => Listing(W, R, P)
    BY DEF Listing
  <1> QED  BY <1>2, <1>3, <1>4

LEMMA ListedNext ==
    ASSUME Typed, Listed, Ruby, [Next]_vars
    PROVE  Listed'
  <1>1. retryList \in Seq(Ports) /\ Refused \in SUBSET Ports
    BY DEF Typed, ListOK, Refused
  <1>2. ASSUME NEW p \in Ports, NEW req \in Requests, SendTimingReq(p, req) PROVE Listed'
    <2>1. Submit(p, req) /\ walk' = walk /\ ~InCallback /\ pending[p] = None
      BY <1>2 DEF SendTimingReq
    <2>2. Retries = <<>> /\ Retries' = <<>> /\ Retries \in Seq(Ports)
      BY <2>1, EmptySeq DEF Retries, InCallback
    <2>3. p \in Ports \ Refused
      BY <2>1 DEF Refused
    <2>4. /\ ~Contains(retryList, p)
          /\ Listing(Append(retryList, p), Retries, Refused \cup {p})
      BY <1>1, <2>2, <2>3, ListMoves DEF Listed
    <2>5. CASE Refuses(req)
      <3>1. retryList' = Append(retryList, p) /\ pending' = [pending EXCEPT ![p] = req]
        BY <2>1, <2>4, <2>5, SubmitRefused
      <3>2. Refused' = Refused \cup {p}
        BY <3>1, NoneIsNoRequest DEF Refused, Typed, PendingOK
      <3> QED  BY <2>2, <2>4, <3>1, <3>2 DEF Listed
    <2>6. CASE ~Refuses(req)
      <3>1. retryList' = retryList /\ pending' = [pending EXCEPT ![p] = None]
        BY <2>1, <2>6, SubmitAccepted
      <3>2. Refused' = Refused
        BY <2>1, <3>1 DEF Refused, Typed, PendingOK
      <3> QED  BY <2>2, <3>1, <3>2 DEF Listed
    <2> QED  BY <2>5, <2>6
  <1>3. ASSUME NEW p \in Ports, RecvReqRetry(p) PROVE Listed'
    <2>1. /\ pending[p] \in Requests /\ Submit(p, pending[p]) /\ walk \in Walks /\ InCallback
          /\ walk' = [walk EXCEPT !.retries = Tail(walk.retries)]
          /\ Retries = walk.retries /\ Retries # <<>> /\ p = Retries[1]
      BY <1>3, RetryHasPacket DEF RecvReqRetry
    <2>2. Retries \in Seq(Ports) /\ walk'.retries = Tail(Retries)
      BY <2>1 DEF Walks
    <2>3. walk'.kind = walk.kind /\ walk.kind # "none"
      BY <2>1 DEF Walks
    <2>4. Retries' = Tail(Retries)
      BY <2>2, <2>3 DEF InCallback, Idle, Retries
    <2>5. /\ ~Contains(retryList, p)
          /\ Listing(Append(retryList, p), Tail(Retries), Refused)
          /\ Listing(retryList, Tail(Retries), Refused \ {p})
      BY <1>1, <2>1, <2>2, ListMoves DEF Listed
    <2>6. CASE Refuses(pending[p])
      <3>1. retryList' = Append(retryList, p) /\ pending' = [pending EXCEPT ![p] = pending[p]]
        BY <2>1, <2>5, <2>6, SubmitRefused
      <3>2. Refused' = Refused
        BY <3>1 DEF Refused, Typed, PendingOK
      <3> QED  BY <2>4, <2>5, <3>1, <3>2 DEF Listed
    <2>7. CASE ~Refuses(pending[p])
      <3>1. retryList' = retryList /\ pending' = [pending EXCEPT ![p] = None]
        BY <2>1, <2>7, SubmitAccepted
      <3>2. Refused' = Refused \ {p}
        BY <3>1 DEF Refused, Typed, PendingOK
      <3> QED  BY <2>4, <2>5, <3>1, <3>2 DEF Listed
    <2> QED  BY <2>6, <2>7
  <1>4. ASSUME HitCallback, UNCHANGED <<pending, rmw>> PROVE Listed'
    <2>1. /\ walk \in Walks /\ InCallback /\ walk.retries = <<>>
          /\ walk' = [walk EXCEPT !.first = FALSE, !.step = "retries", !.retries = retryList]
          /\ retryList' = <<>> /\ Refused' = Refused
      BY <1>4, FrontIsRequest DEF HitCallback, AtFront, Ruby, Walked, Refused
    <2>2. walk'.retries = retryList /\ walk'.kind = walk.kind /\ walk.kind # "none"
      BY <2>1 DEF Walks
    <2>3. Retries = <<>> /\ Retries' = retryList /\ Retries \in Seq(Ports)
      BY <2>1, <2>2, EmptySeq DEF Retries, InCallback, Idle
    <2>4. Listing(Retries, retryList, Refused)
      BY <1>1, <2>3, ListMoves DEF Listed
    <2> QED  BY <2>1, <2>3, <2>4 DEF Listed
  <1>5. ASSUME Retries' = Retries, UNCHANGED <<retryList, pending>> PROVE Listed'
    BY <1>5 DEF Listed, Refused
  <1>6. ASSUME NEW l \in Lines, NEW c \in NoCoales, Callback(l, c) PROVE Retries' = Retries
    <2>1. ~InCallback /\ walk'.retries = <<>>
      BY <1>6 DEF Callback
    <2> QED  BY <2>1 DEF Retries
  <1>7. ASSUME Reissue PROVE Retries' = Retries
    BY <1>7 DEF Reissue, AtFront, Ruby, Walked, Retries, InCallback
  <1>8. ASSUME PopFront PROVE Retries' = Retries
    <2>1. /\ walk \in Walks /\ InCallback /\ walk.retries = <<>>
          /\ walk' = Idle \/ walk' = [walk EXCEPT !.step = "front"]
      BY <1>8, FrontIsRequest DEF PopFront, Ruby
    <2>2. walk' = Idle \/ walk'.retries = <<>>
      BY <2>1 DEF Walks
    <2> QED  BY <2>1, <2>2 DEF Retries, InCallback
  <1>9. UNCHANGED walk => Retries' = Retries
    BY DEF Retries, InCallback
  <1>10. (\E l \in Lines, c \in NoCoales : Callback(l, c)) \/ Reissue \/ PopFront
            => UNCHANGED retryList
    BY DEF Callback, Reissue, PopFront
  <1>11. Wakeup \/ Tick \/ Drain \/ DrainResume => UNCHANGED <<walk, retryList>>
    BY DEF Wakeup, Tick, Drain, DrainResume
  <1>12. UNCHANGED vars => UNCHANGED <<walk, retryList, pending>>
    BY DEF vars, seqVars
  <1> QED
    BY <1>2, <1>3, <1>4, <1>5, <1>6, <1>7, <1>8, <1>9, <1>10, <1>11, <1>12 DEF Next, Sequence
-----------------------------------------------------------------------------
(* The places of the table, and how many of them are counted: the request  *)
(* being reported is counted down before it leaves its list                *)
Reported == IF InCallback /\ walk.step = "retries" THEN 1 ELSE 0
Counted ==
    /\ IsFiniteSet(Outstanding)
    /\ outstanding = Cardinality(Outstanding) - Reported

PlacesOf(t) == UNION {{l} \X DOMAIN t[l] : l \in Lines}

LEMMA Places ==
    ASSUME NEW t \in [Lines -> Seq(Entries)]
    PROVE  /\ \A l, i : <<l, i>> \in PlacesOf(t) <=> l \in Lines /\ i \in 1 .. Len(t[l])
           /\ \A r \in PlacesOf(t) : r = <<r[1], r[2]>>
  <1>1. \A l \in Lines : DOMAIN t[l] = 1 .. Len(t[l])
    BY LenProperties
  <1> QED  BY <1>1 DEF PlacesOf

LEMMA TablePlaces ==
    ASSUME TableOK, TableOK'
    PROVE  /\ \A l, i : <<l, i>> \in Outstanding <=> l \in Lines /\ i \in 1 .. Len(table[l])
           /\ \A l, i : <<l, i>> \in Outstanding' <=> l \in Lines /\ i \in 1 .. Len(table'[l])
           /\ \A r \in Outstanding \cup Outstanding' : r = <<r[1], r[2]>>
  <1>1. Outstanding = PlacesOf(table) /\ Outstanding' = PlacesOf(table')
    BY DEF Outstanding, PlacesOf
  <1>2. table \in [Lines -> Seq(Entries)] /\ table' \in [Lines -> Seq(Entries)]
    BY DEF TableOK
  <1> QED  BY <1>1, <1>2, Places

LEMMA InsertPlace ==
    ASSUME TableOK, TableOK', NEW l \in Lines, NEW e \in Entries,
           table' = [table EXCEPT ![l] = Append(table[l], e)]
    PROVE  /\ Outstanding' = Outstanding \cup {<<l, Len(table[l]) + 1>>}
           /\ <<l, Len(table[l]) + 1>> \notin Outstanding
  <1>1. /\ table[l] \in Seq(Entries) /\ table'[l] = Append(table[l], e)
        /\ \A m \in Lines \ {l} : table'[m] = table[m]
    BY DEF TableOK
  <1>2. Len(table[l]) \in Nat /\ Len(table'[l]) = Len(table[l]) + 1
    BY <1>1, AppendFacts
  <1>3. /\ \A m, i : <<m, i>> \in Outstanding <=> m \in Lines /\ i \in 1 .. Len(table[m])
        /\ \A m, i : <<m, i>> \in Outstanding' <=> m \in Lines /\ i \in 1 .. Len(table'[m])
        /\ \A r \in Outstanding \cup Outstanding' : r = <<r[1], r[2]>>
    BY TablePlaces
  <1>4. <<l, Len(table[l]) + 1>> \notin Outstanding
    BY <1>2, <1>3
  <1>5. ASSUME NEW m, NEW i
        PROVE  <<m, i>> \in Outstanding' <=> <<m, i>> \in Outstanding \/ (m = l /\ i = Len(table[l]) + 1)
    <2>1. CASE m = l
      BY <1>2, <1>3, <2>1
    <2>2. CASE m # l
      BY <1>1, <1>3, <2>2
    <2> QED  BY <2>1, <2>2
  <1>6. \A r \in Outstanding \cup Outstanding' : r \in Outstanding' <=>
            r \in Outstanding \/ r = <<l, Len(table[l]) + 1>>
    BY <1>3, <1>5
  <1>7. <<l, Len(table[l]) + 1>> \in Outstanding'
    BY <1>5
  <1> QED  BY <1>4, <1>6, <1>7

LEMMA RemovePlace ==
    ASSUME TableOK, TableOK', NEW l \in Lines, table[l] # <<>>,
           table' = [table EXCEPT ![l] = Tail(table[l])]
    PROVE  /\ Outstanding' = Outstanding \ {<<l, Len(table[l])>>}
           /\ <<l, Len(table[l])>> \in Outstanding
  <1>1. /\ table[l] \in Seq(Entries) /\ table'[l] = Tail(table[l])
        /\ \A m \in Lines \ {l} : table'[m] = table[m]
    BY DEF TableOK
  <1>2. Len(table[l]) \in Nat \ {0} /\ Len(table'[l]) = Len(table[l]) - 1
    BY <1>1, TailFacts
  <1>3. /\ \A m, i : <<m, i>> \in Outstanding <=> m \in Lines /\ i \in 1 .. Len(table[m])
        /\ \A m, i : <<m, i>> \in Outstanding' <=> m \in Lines /\ i \in 1 .. Len(table'[m])
        /\ \A r \in Outstanding \cup Outstanding' : r = <<r[1], r[2]>>
    BY TablePlaces
  <1>4. <<l, Len(table[l])>> \in Outstanding
    BY <1>2, <1>3
  <1>5. ASSUME NEW m, NEW i
        PROVE  <<m, i>> \in Outstanding' <=> <<m, i>> \in Outstanding /\ ~(m = l /\ i = Len(table[l]))
    <2>1. CASE m = l
      BY <1>2, <1>3, <2>1
    <2>2. CASE m # l
      BY <1>1, <1>3, <2>2
    <2> QED  BY <2>1, <2>2
  <1>6. \A r \in Outstanding \cup Outstanding' : r \in Outstanding' <=>
            r \in Outstanding /\ r # <<l, Len(table[l])>>
    BY <1>3, <1>5
  <1> QED  BY <1>4, <1>6

(* A request that is accepted adds one place and one to the count *)
LEMMA SubmitCounted ==
    ASSUME Typed, Typed', Counted, NEW p \in Ports, NEW req \in Requests, Submit(p, req),
           Reported' = Reported
    PROVE  Counted'
  <1>1. CASE Refuses(req)
    <2>1. UNCHANGED <<table, outstanding>>
      BY <1>1, SubmitRefused
    <2> QED  BY <2>1 DEF Counted, Outstanding
  <1>2. CASE ~Refuses(req)
    <2>1. /\ outstanding' = outstanding + 1
          /\ table' = [table EXCEPT ![req.line] =
                           Append(table[req.line], [type |-> req.type, age |-> 0])]
      BY <1>2, SubmitAccepted
    <2>2. req.line \in Lines /\ [type |-> req.type, age |-> 0] \in Entries
      BY SequencerAssumption DEF Requests, Entries, MaxAge
    <2>3. PICK r : r \notin Outstanding /\ Outstanding' = Outstanding \cup {r}
      BY <2>1, <2>2, InsertPlace DEF Typed
    <2>4. IsFiniteSet(Outstanding') /\ Cardinality(Outstanding') = Cardinality(Outstanding) + 1
      BY <2>3, FS_AddElement DEF Counted
    <2>5. Cardinality(Outstanding) \in Nat /\ Reported \in 0 .. 1
      BY FS_CardinalityType DEF Counted, Reported
    <2> QED  BY <2>1, <2>4, <2>5 DEF Counted
  <1> QED  BY <1>1, <1>2

LEMMA CountedNext ==
    ASSUME Typed, Typed', Listed, Ruby, Counted, [Next]_vars
    PROVE  Counted'
  <1>1. Cardinality(Outstanding) \in Nat
    BY FS_CardinalityType DEF Counted
  <1>2. ASSUME NEW p \in Ports, NEW req \in Requests, SendTimingReq(p, req) PROVE Counted'
    <2>1. Submit(p, req) /\ walk' = walk
      BY <1>2 DEF SendTimingReq
    <2>2. Reported' = Reported
      BY <2>1 DEF Reported, InCallback
    <2> QED  BY <2>1, <2>2, SubmitCounted
  <1>3. ASSUME NEW p \in Ports, RecvReqRetry(p) PROVE Counted'
    <2>1. /\ pending[p] \in Requests /\ Submit(p, pending[p]) /\ walk \in Walks /\ InCallback
          /\ walk' = [walk EXCEPT !.retries = Tail(walk.retries)] /\ walk.step = "retries"
      BY <1>3, RetryHasPacket DEF RecvReqRetry
    <2>2. walk'.step = "retries" /\ walk'.kind = walk.kind /\ walk.kind # "none"
      BY <2>1 DEF Walks
    <2>3. Reported' = Reported
      BY <2>1, <2>2 DEF Reported, InCallback, Idle
    <2> QED  BY <2>1, <2>3, SubmitCounted
  <1>4. ASSUME NEW l \in Lines, NEW c \in NoCoales, Callback(l, c) PROVE Counted'
    <2>1. ~InCallback /\ walk'.step = "front" /\ UNCHANGED <<table, outstanding>>
      BY <1>4 DEF Callback
    <2> QED  BY <2>1 DEF Counted, Reported, Outstanding
  <1>5. ASSUME Reissue PROVE Counted'
    <2>1. walk.step = "front" /\ walk' = Idle /\ UNCHANGED <<table, outstanding>>
      BY <1>5 DEF Reissue, AtFront
    <2> QED  BY <2>1 DEF Counted, Reported, InCallback, Outstanding
  <1>6. ASSUME HitCallback PROVE Counted'
    <2>1. /\ walk \in Walks /\ walk.step = "front" /\ table' = table
          /\ walk' = [walk EXCEPT !.first = FALSE, !.step = "retries", !.retries = retryList]
          /\ outstanding' = outstanding - 1
      BY <1>6, FrontIsRequest DEF HitCallback, AtFront, Ruby
    <2>2. walk'.step = "retries" /\ walk'.kind = walk.kind /\ walk.kind # "none"
      BY <2>1 DEF Walks
    <2>3. Reported = 0 /\ Reported' = 1 /\ Outstanding' = Outstanding
      BY <2>1, <2>2 DEF Reported, InCallback, Idle, Outstanding
    <2> QED  BY <1>1, <2>1, <2>3 DEF Counted
  <1>7. ASSUME PopFront PROVE Counted'
    <2>1. /\ walk \in Walks /\ walk.step = "retries" /\ InCallback /\ outstanding' = outstanding
          /\ walk.line \in Lines /\ table[walk.line] # <<>>
          /\ table' = [table EXCEPT ![walk.line] = Tail(table[walk.line])]
          /\ walk' = Idle \/ walk' = [walk EXCEPT !.step = "front"]
      BY <1>7, FrontIsRequest DEF PopFront, Ruby
    <2>2. walk' = Idle \/ walk'.step = "front"
      BY <2>1 DEF Walks
    <2>3. Reported = 1 /\ Reported' = 0
      BY <2>1, <2>2 DEF Reported, InCallback
    <2>4. PICK r \in Outstanding : Outstanding' = Outstanding \ {r}
      BY <2>1, RemovePlace DEF Typed
    <2>5. IsFiniteSet(Outstanding') /\ Cardinality(Outstanding') = Cardinality(Outstanding) - 1
      BY <2>4, FS_RemoveElement DEF Counted
    <2> QED  BY <1>1, <2>1, <2>3, <2>5 DEF Counted
  <1>8. ASSUME Tick PROVE Counted'
    <2>1. Outstanding' = Outstanding
      BY <1>8, TickTable DEF Outstanding, Typed
    <2>2. UNCHANGED <<outstanding, walk>>
      BY <1>8 DEF Tick
    <2> QED  BY <2>1, <2>2 DEF Counted, Reported, InCallback
  <1>9. ASSUME UNCHANGED <<table, outstanding, walk>> PROVE Counted'
    BY <1>9 DEF Counted, Reported, InCallback, Outstanding
  <1>10. Wakeup \/ Drain \/ DrainResume => UNCHANGED <<table, outstanding, walk>>
    BY DEF Wakeup, Drain, DrainResume
  <1>11. UNCHANGED vars => UNCHANGED <<table, outstanding, walk>>
    BY DEF vars, seqVars
  <1> QED
    BY <1>2, <1>3, <1>4, <1>5, <1>6, <1>7, <1>8, <1>9, <1>10, <1>11 DEF Next, Sequence
-----------------------------------------------------------------------------
(* The drain: no check is pending, and it waits for a request unless one   *)
(* is just being reported                                                  *)
Drains ==
    /\ NoCheckWhileDraining
    /\ drainState = "Draining" /\ (InCallback => walk.step = "front") => outstanding > 0

(* Outside a drain, a check will come before a request is two thresholds old *)
Timely ==
    drainState # "Draining" /\ ~panicked =>
        \A l \in Lines : \A i \in 1 .. Len(table[l]) :
            check >= 0 /\ table[l][i].age + check < 2 * DeadlockThreshold

LEMMA DrainsNext ==
    ASSUME Typed, Listed, Ruby, Counted', Drains, [Next]_vars
    PROVE  Drains'
  <1>1. outstanding \in Int
    BY DEF Typed, CountersOK
  <1>2. ASSUME NEW p \in Ports, NEW req, Submit(p, req),
               (InCallback' => walk'.step = "front") => (InCallback => walk.step = "front")
        PROVE  Drains'
    <2>1. /\ drainState' = drainState /\ outstanding' \in {outstanding, outstanding + 1}
          /\ drainState = "Draining" => check' = check
      BY <1>2, SubmitRefused, SubmitAccepted
    <2> QED  BY <1>1, <1>2, <2>1 DEF Drains, NoCheckWhileDraining
  <1>3. ASSUME NEW p \in Ports, NEW req \in Requests, SendTimingReq(p, req) PROVE Drains'
    BY <1>2, <1>3 DEF SendTimingReq, InCallback
  <1>4. ASSUME NEW p \in Ports, RecvReqRetry(p) PROVE Drains'
    <2>1. /\ Submit(p, pending[p]) /\ walk \in Walks
          /\ walk' = [walk EXCEPT !.retries = Tail(walk.retries)] /\ walk.step = "retries"
      BY <1>4, RetryHasPacket DEF RecvReqRetry
    <2>2. walk'.step = "retries" /\ walk'.kind = walk.kind /\ walk.kind # "none"
      BY <2>1 DEF Walks
    <2>3. InCallback' /\ walk'.step # "front"
      BY <2>2 DEF InCallback, Idle
    <2> QED  BY <1>2, <2>1, <2>3
  <1>5. ASSUME NEW l \in Lines, NEW c \in NoCoales, Callback(l, c) PROVE Drains'
    <2>1. ~InCallback /\ UNCHANGED <<drainState, check, outstanding>>
      BY <1>5 DEF Callback
    <2> QED  BY <2>1 DEF Drains, NoCheckWhileDraining
  <1>6. ASSUME Reissue PROVE Drains'
    <2>1. walk.step = "front" /\ UNCHANGED <<drainState, check, outstanding>>
      BY <1>6 DEF Reissue, AtFront
    <2> QED  BY <2>1 DEF Drains, NoCheckWhileDraining
  <1>7. ASSUME HitCallback PROVE Drains'
    <2>1. /\ walk \in Walks /\ UNCHANGED <<drainState, check>>
          /\ walk' = [walk EXCEPT !.first = FALSE, !.step = "retries", !.retries = retryList]
      BY <1>7, FrontIsRequest DEF HitCallback, AtFront, Ruby
    <2>2. walk'.step = "retries" /\ walk'.kind = walk.kind /\ walk.kind # "none"
      BY <2>1 DEF Walks
    <2>3. InCallback' /\ walk'.step # "front"
      BY <2>2 DEF InCallback, Idle
    <2> QED  BY <2>1, <2>3 DEF Drains, NoCheckWhileDraining
  <1>8. ASSUME PopFront, Counted' PROVE Drains'
    <2>1. UNCHANGED <<check, outstanding>>
          /\ drainState' = IF drainState = "Draining" /\ outstanding = 0
                           THEN "Drained" ELSE drainState
      BY <1>8 DEF PopFront, TestDrainComplete
    <2>2. walk \in Walks /\ (walk' = Idle \/ walk' = [walk EXCEPT !.step = "front"])
      BY <1>8, FrontIsRequest DEF PopFront, Ruby
    <2>3. walk' = Idle \/ walk'.step = "front"
      BY <2>2 DEF Walks
    <2>4. Reported' = 0
      BY <2>3 DEF Reported, InCallback
    <2>5. outstanding >= 0
      <3>1. IsFiniteSet(Outstanding') /\ outstanding' = Cardinality(Outstanding') - Reported'
        BY <1>8 DEF Counted
      <3>2. Cardinality(Outstanding') \in Nat
        BY <3>1, FS_CardinalityType
      <3> QED  BY <2>1, <2>4, <3>1, <3>2
    <2> QED  BY <1>1, <2>1, <2>5 DEF Drains, NoCheckWhileDraining
  <1>9. ASSUME Wakeup PROVE Drains'
    <2>1. check = 0 /\ UNCHANGED <<drainState, outstanding, walk>>
      BY <1>9 DEF Wakeup
    <2>2. drainState # "Draining"
      BY <2>1 DEF Drains, NoCheckWhileDraining, Unscheduled
    <2> QED  BY <2>1, <2>2 DEF Drains, NoCheckWhileDraining
  <1>10. ASSUME Tick PROVE Drains'
    BY <1>10 DEF Tick, Drains, NoCheckWhileDraining, InCallback
  <1>11. ASSUME Drain \/ DrainResume PROVE Drains'
    BY <1>11 DEF Drain, DrainResume, Drains, NoCheckWhileDraining
  <1>12. ASSUME UNCHANGED vars PROVE Drains'
    BY <1>12 DEF vars, seqVars, Drains, NoCheckWhileDraining, InCallback
  <1> QED
    BY <1>3, <1>4, <1>5, <1>6, <1>7, <1>8, <1>9, <1>10, <1>11, <1>12 DEF Next, Sequence

(* No place, no request *)
LEMMA NothingLeft ==
    ASSUME NEW t \in [Lines -> Seq(Entries)], IsFiniteSet(PlacesOf(t)), Cardinality(PlacesOf(t)) = 0
    PROVE  \A l \in Lines : Len(t[l]) = 0
  <1>1. PlacesOf(t) = {}
    BY FS_EmptySet
  <1>2. ASSUME NEW l \in Lines PROVE Len(t[l]) = 0
    <2>1. 1 \notin 1 .. Len(t[l])
      BY <1>1, Places
    <2>2. Len(t[l]) \in Nat
      BY LenProperties
    <2> QED  BY <2>1, <2>2
  <1> QED  BY <1>2

LEMMA TimelyNext ==
    ASSUME Typed, Typed', Listed, Ruby, Counted, Counted', Drains, Timely, [Next]_vars
    PROVE  Timely'
  <1>1. /\ check \in -1 .. DeadlockThreshold /\ DeadlockThreshold \in Nat \ {0}
        /\ \A l \in Lines : Len(table[l]) \in Nat
        /\ \A l \in Lines : \A i \in 1 .. Len(table[l]) : table[l][i] \in Entries
    BY SequencerAssumption, LenProperties DEF Typed, CountersOK, TableOK
  <1>2. \A e \in Entries : e.age \in Nat
    BY SequencerAssumption DEF Entries, MaxAge
  <1>3. ASSUME outstanding = 0, ~InCallback PROVE \A l \in Lines : Len(table[l]) = 0
    <2>1. Outstanding = PlacesOf(table) /\ table \in [Lines -> Seq(Entries)]
      BY DEF Outstanding, PlacesOf, Typed, TableOK
    <2>2. IsFiniteSet(PlacesOf(table)) /\ Cardinality(PlacesOf(table)) = 0
      BY <1>3, <2>1, FS_CardinalityType DEF Counted, Reported
    <2> QED  BY <2>1, <2>2, NothingLeft
  <1>4. ASSUME NEW p \in Ports, NEW req \in Requests, Submit(p, req) PROVE Timely'
    <2>1. CASE Refuses(req)
      BY <1>4, <2>1, SubmitRefused DEF Timely
    <2>2. CASE ~Refuses(req)
      <3> SUFFICES ASSUME drainState' # "Draining", ~panicked', NEW l \in Lines,
                          NEW i \in 1 .. Len(table'[l])
                   PROVE  check' >= 0 /\ table'[l][i].age + check' < 2 * DeadlockThreshold
        BY DEF Timely
      <3> DEFINE e == [type |-> req.type, age |-> 0]
      <3>1. /\ UNCHANGED <<drainState, panicked>>
            /\ check' = IF check = -1 THEN DeadlockThreshold ELSE check
            /\ table' = [table EXCEPT ![req.line] = Append(table[req.line], e)]
        BY <1>4, <2>2, SubmitAccepted
      <3>2. req.line \in Lines /\ e \in Entries /\ e.age = 0
        BY SequencerAssumption DEF Requests, Entries, MaxAge
      <3> HIDE DEF e
      <3>3. table'[l] = IF l = req.line THEN Append(table[l], e) ELSE table[l]
        BY <3>1, <3>2 DEF Typed, TableOK
      <3>4. /\ Len(Append(table[l], e)) = Len(table[l]) + 1
            /\ \A k \in 1 .. Len(table[l]) : Append(table[l], e)[k] = table[l][k]
            /\ Append(table[l], e)[Len(table[l]) + 1] = e
        BY <3>2, AppendFacts DEF Typed, TableOK
      <3>5. table'[l][i] = e \/ (i \in 1 .. Len(table[l]) /\ table'[l][i] = table[l][i])
        BY <1>1, <3>3, <3>4
      <3>6. CASE table'[l][i] = e
        BY <1>1, <3>1, <3>2, <3>6
      <3>7. CASE i \in 1 .. Len(table[l]) /\ table'[l][i] = table[l][i]
        BY <1>1, <3>1, <3>7 DEF Timely
      <3> QED  BY <3>5, <3>6, <3>7
    <2> QED  BY <2>1, <2>2
  <1>5. ASSUME NEW p \in Ports, RecvReqRetry(p) PROVE Timely'
    BY <1>4, <1>5, RetryHasPacket DEF RecvReqRetry
  <1>6. ASSUME PopFront PROVE Timely'
    <2>1. /\ walk \in Walks /\ walk.line \in Lines /\ UNCHANGED <<check, panicked, outstanding>>
          /\ table[walk.line] \in Seq(Entries) /\ table[walk.line] # <<>>
          /\ table' = [table EXCEPT ![walk.line] = Tail(table[walk.line])]
          /\ walk' = Idle \/ walk' = [walk EXCEPT !.step = "front"]
          /\ drainState' = IF drainState = "Draining" /\ outstanding = 0
                           THEN "Drained" ELSE drainState
      BY <1>6, FrontIsRequest DEF PopFront, Ruby, TestDrainComplete
    <2>2. CASE drainState' = drainState
      <3> SUFFICES ASSUME drainState # "Draining", ~panicked, NEW l \in Lines,
                          NEW i \in 1 .. Len(table'[l])
                   PROVE  check >= 0 /\ table'[l][i].age + check < 2 * DeadlockThreshold
        BY <2>1, <2>2 DEF Timely
      <3>1. table'[l] = IF l = walk.line THEN Tail(table[l]) ELSE table[l]
        BY <2>1 DEF Typed, TableOK
      <3>2. l = walk.line => /\ Len(Tail(table[l])) = Len(table[l]) - 1
                             /\ \A k \in 1 .. Len(Tail(table[l])) : Tail(table[l])[k] = table[l][k + 1]
        BY <2>1, TailFacts
      <3>3. \E k \in 1 .. Len(table[l]) : table'[l][i] = table[l][k]
        <4>1. CASE l = walk.line
          <5>1. i + 1 \in 1 .. Len(table[l]) /\ table'[l][i] = table[l][i + 1]
            BY <1>1, <3>1, <3>2, <4>1
          <5> QED  BY <5>1
        <4>2. CASE l # walk.line
          BY <3>1, <4>2
        <4> QED  BY <4>1, <4>2
      <3> QED  BY <3>3 DEF Timely
    <2>3. CASE drainState' # drainState
      <3>1. outstanding' = 0
        BY <2>1, <2>3
      <3>2. walk' = Idle \/ walk'.step = "front"
        BY <2>1 DEF Walks
      <3>3. Reported' = 0
        BY <3>2 DEF Reported, InCallback
      <3>4. Outstanding' = PlacesOf(table') /\ table' \in [Lines -> Seq(Entries)]
        BY DEF Outstanding, PlacesOf, Typed, TableOK
      <3>5. IsFiniteSet(PlacesOf(table')) /\ Cardinality(PlacesOf(table')) - 0 = 0
        BY <3>1, <3>3, <3>4 DEF Counted
      <3>6. Cardinality(PlacesOf(table')) = 0
        BY <3>5, FS_CardinalityType
      <3>7. \A l \in Lines : Len(table'[l]) = 0
        BY <3>4, <3>5, <3>6, NothingLeft
      <3> QED  BY <3>7 DEF Timely
    <2> QED  BY <2>2, <2>3
  <1>7. ASSUME Wakeup PROVE Timely'
    <2> SUFFICES ASSUME ~panicked', NEW l \in Lines, NEW i \in 1 .. Len(table[l])
                 PROVE  check' >= 0 /\ table[l][i].age + check' < 2 * DeadlockThreshold
      BY <1>7 DEF Timely, Wakeup
    <2>1. /\ ~Overdue /\ ~InCallback
          /\ check' = IF outstanding > 0 THEN DeadlockThreshold ELSE -1
      BY <1>7 DEF Wakeup, Unscheduled
    <2>2. outstanding > 0
      <3>1. outstanding \in Nat
        BY <2>1, FS_CardinalityType DEF Counted, Reported
      <3> QED  BY <1>3, <2>1, <3>1
    <2>3. <<l, i>> \in Outstanding /\ Age(<<l, i>>) = table[l][i].age
      <3>1. Outstanding = PlacesOf(table) /\ table \in [Lines -> Seq(Entries)]
        BY DEF Outstanding, PlacesOf, Typed, TableOK
      <3> QED  BY <3>1, Places DEF Age
    <2>4. ~(table[l][i].age >= DeadlockThreshold)
      BY <2>1, <2>3 DEF Overdue
    <2> QED  BY <1>1, <1>2, <2>1, <2>2, <2>4
  <1>8. ASSUME Tick PROVE Timely'
    <2> SUFFICES ASSUME drainState # "Draining", ~panicked, NEW l \in Lines,
                        NEW i \in 1 .. Len(table'[l])
                 PROVE  check' >= 0 /\ table'[l][i].age + check' < 2 * DeadlockThreshold
      BY <1>8 DEF Timely, Tick
    <2>1. i \in 1 .. Len(table[l]) /\ table'[l][i] = Older(table[l][i])
      BY <1>8, TickTable, LenProperties DEF Typed, TableOK
    <2>2. check # 0 /\ check' = IF check = -1 THEN check ELSE check - 1
      BY <1>8 DEF Tick, Unscheduled
    <2>3. table'[l][i].age \in {table[l][i].age, table[l][i].age + 1}
      BY <1>1, <2>1 DEF Older, Entries
    <2>4. check >= 0 /\ table[l][i].age + check < 2 * DeadlockThreshold /\ table[l][i].age \in Nat
      BY <1>1, <1>2, <2>1 DEF Timely
    <2>5. check \in -1 .. DeadlockThreshold /\ DeadlockThreshold \in Nat
      BY <1>1
    <2> DEFINE a == table[l][i].age
               b == table'[l][i].age
    <2>6. a \in Nat /\ b \in {a, a + 1} /\ check >= 0 /\ a + check < 2 * DeadlockThreshold
      BY <2>3, <2>4
    <2> HIDE DEF a, b
    <2>7. check' = check - 1
      BY <2>2, <2>5, <2>6
    <2>8. check' >= 0 /\ b + check' < 2 * DeadlockThreshold
      BY <2>2, <2>5, <2>6, <2>7
    <2> QED  BY <2>8 DEF b
  <1>9. ASSUME Drain PROVE Timely'
    <2>1. /\ ~InCallback /\ table' = table
          /\ drainState' = IF outstanding > 0 THEN "Draining" ELSE "Drained"
      BY <1>9 DEF Drain
    <2>2. outstanding \in Nat
      BY <2>1, FS_CardinalityType DEF Counted, Reported
    <2> QED  BY <1>3, <2>1, <2>2 DEF Timely
  <1>10. ASSUME DrainResume PROVE Timely'
    BY <1>10 DEF DrainResume, Timely
  <1>11. ASSUME UNCHANGED <<table, check, drainState, panicked>> PROVE Timely'
    BY <1>11 DEF Timely
  <1>12. (\E l \in Lines, c \in NoCoales : Callback(l, c)) \/ Reissue \/ HitCallback
            => UNCHANGED <<table, check, drainState, panicked>>
    BY DEF Callback, Reissue, HitCallback
  <1>13. UNCHANGED vars => UNCHANGED <<table, check, drainState, panicked>>
    BY DEF vars, seqVars
  <1>14. \A p \in Ports, req \in Requests : SendTimingReq(p, req) => Submit(p, req)
    BY DEF SendTimingReq
  <1> QED
    BY <1>4, <1>5, <1>6, <1>7, <1>8, <1>9, <1>10, <1>11, <1>12, <1>13, <1>14 DEF Next, Sequence
-----------------------------------------------------------------------------
(* The rest of the type invariant *)
Bounded ==
    /\ outstanding <= MaxOutstanding
    /\ blocked \subseteq Lines
    /\ panicked \in BOOLEAN
    /\ rmw \in {None} \cup [type : {"locked"}, port : Ports, line : Lines]

LEMMA BoundedNext ==
    ASSUME Typed, Listed, Ruby, Bounded, [Next]_vars
    PROVE  Bounded'
  <1>1. outstanding \in Int /\ MaxOutstanding \in Nat
    BY SequencerAssumption DEF Typed, CountersOK
  <1>2. ASSUME NEW p \in Ports, NEW req, Submit(p, req)
        PROVE  outstanding' <= MaxOutstanding /\ UNCHANGED <<blocked, panicked>>
    <2>1. CASE Refuses(req)
      BY <1>2, <2>1, SubmitRefused DEF Bounded
    <2>2. CASE ~Refuses(req)
      <3>1. outstanding' = outstanding + 1 /\ UNCHANGED <<blocked, panicked>>
        BY <1>2, <2>2, SubmitAccepted
      <3>2. ~(outstanding >= MaxOutstanding)
        BY <2>2 DEF Refuses
      <3> QED  BY <1>1, <3>1, <3>2
    <2> QED  BY <2>1, <2>2
  <1>3. ASSUME NEW p \in Ports, NEW req \in Requests, SendTimingReq(p, req) PROVE Bounded'
    <2>1. Submit(p, req) /\ rmw' \in {rmw, None, Locked(p, req.line)}
      BY <1>3 DEF SendTimingReq
    <2>2. Locked(p, req.line) \in [type : {"locked"}, port : Ports, line : Lines]
      BY DEF Locked, Requests
    <2> QED  BY <1>2, <2>1, <2>2 DEF Bounded
  <1>4. ASSUME NEW p \in Ports, RecvReqRetry(p) PROVE Bounded'
    BY <1>2, <1>4 DEF RecvReqRetry, Bounded
  <1>5. ASSUME HitCallback, UNCHANGED <<pending, rmw>> PROVE Bounded'
    <2>1. walk.line \in Lines
      BY <1>5, FrontIsRequest DEF HitCallback, AtFront, Ruby
    <2>2. /\ outstanding' = outstanding - 1 /\ panicked' = panicked /\ rmw' = rmw
          /\ blocked' \in {blocked, blocked \cup {walk.line}, blocked \ {walk.line}}
      BY <1>5 DEF HitCallback, BlockOnQueue
    <2> QED  BY <1>1, <2>1, <2>2 DEF Bounded
  <1>6. ASSUME Wakeup, UNCHANGED <<pending, rmw>> PROVE Bounded'
    BY <1>6 DEF Wakeup, Overdue, Bounded
  <1>7. ASSUME UNCHANGED <<outstanding, blocked, panicked, rmw>> PROVE Bounded'
    BY <1>7 DEF Bounded
  <1>8. (\E l \in Lines, c \in NoCoales : Callback(l, c)) \/ Reissue \/ PopFront \/ Tick \/ Drain
            \/ DrainResume => UNCHANGED <<outstanding, blocked, panicked>>
    BY DEF Callback, Reissue, PopFront, Tick, Drain, DrainResume
  <1>9. UNCHANGED vars => UNCHANGED <<outstanding, blocked, panicked, rmw>>
    BY DEF vars, seqVars
  <1> QED
    BY <1>3, <1>4, <1>5, <1>6, <1>7, <1>8, <1>9 DEF Next, Sequence
-----------------------------------------------------------------------------
(* The inductive invariant *)
IInv == Typed /\ Listed /\ Ruby /\ Counted /\ Drains /\ Timely /\ Bounded

LEMMA InitIInv == Init => IInv
  <1> SUFFICES ASSUME Init PROVE IInv
    OBVIOUS
  <1>1. /\ table = [l \in Lines |-> <<>>] /\ outstanding = 0 /\ walk = Idle /\ check = Unscheduled
        /\ drainState = "Running" /\ blocked = {} /\ panicked = FALSE /\ rmw = None
    BY DEF Init, SequencerInit
  <1>2. Outstanding = {}
    <2>1. \A l \in Lines : {l} \X DOMAIN table[l] = {}
      BY <1>1
    <2> QED  BY <2>1 DEF Outstanding
  <1>3. Counted
    BY <1>1, <1>2, FS_EmptySet DEF Counted, Reported, InCallback
  <1>4. Drains
    BY <1>1 DEF Drains, NoCheckWhileDraining
  <1>5. Timely
    BY <1>1 DEF Timely
  <1>6. Bounded
    <2>1. outstanding <= MaxOutstanding
      BY <1>1, SequencerAssumption
    <2>2. panicked \in BOOLEAN
      BY <1>1
    <2>3. blocked \subseteq Lines /\ rmw \in {None}
      BY <1>1
    <2> QED  BY <2>1, <2>2, <2>3 DEF Bounded
  <1> QED  BY <1>3, <1>4, <1>5, <1>6, InitTyped DEF IInv

LEMMA NextIInv == IInv /\ [Next]_vars => IInv'
  <1> SUFFICES ASSUME Typed, Listed, Ruby, Counted, Drains, Timely, Bounded, [Next]_vars
               PROVE  IInv'
    BY DEF IInv
  <1>1. Typed'
    BY TypedNext DEF Ruby
  <1>2. Counted'
    BY <1>1, CountedNext
  <1>3. Listed' /\ Ruby' /\ Drains' /\ Bounded'
    BY <1>2, ListedNext, RubyNext, DrainsNext, BoundedNext
  <1>4. Timely'
    BY <1>1, <1>2, TimelyNext
  <1> QED  BY <1>1, <1>2, <1>3, <1>4 DEF IInv

LEMMA AlwaysIInv == Spec => []IInv
  BY InitIInv, NextIInv, PTL DEF Spec

(* What the invariant says of a state *)
LEMMA CountOfIInv == IInv => CountMatchesTable /\ outstanding \in 0 .. MaxOutstanding
  <1> SUFFICES ASSUME Typed, Ruby, Counted, Bounded
               PROVE  CountMatchesTable /\ outstanding \in 0 .. MaxOutstanding
    BY DEF IInv
  <1>1. Cardinality(Outstanding) \in Nat
    BY FS_CardinalityType DEF Counted
  <1>2. CountMatchesTable
    BY <1>1 DEF CountMatchesTable, Counted, Reported
  <1>3. ASSUME InCallback PROVE Cardinality(Outstanding) # 0
    <2>1. walk.line \in Lines /\ table[walk.line] # <<>>
      BY <1>3, FrontIsRequest DEF Ruby
    <2>2. Outstanding = PlacesOf(table) /\ table \in [Lines -> Seq(Entries)]
      BY DEF Outstanding, PlacesOf, Typed, TableOK
    <2>3. Len(table[walk.line]) # 0
      BY <2>1, <2>2, EmptySeq
    <2> QED  BY <2>1, <2>2, <2>3, NothingLeft DEF Counted
  <1>4. outstanding \in Nat
    BY <1>1, <1>3 DEF Counted, Reported
  <1> QED  BY <1>2, <1>4, SequencerAssumption DEF Bounded

LEMMA TypeOfIInv == IInv => TypeOK
  <1> SUFFICES ASSUME IInv PROVE TypeOK
    OBVIOUS
  <1>1. /\ blocked \subseteq Lines /\ panicked \in BOOLEAN
        /\ rmw \in {None} \cup [type : {"locked"}, port : Ports, line : Lines]
    BY DEF IInv, Bounded
  <1>2. /\ retryList \in Seq(Ports) /\ check \in -1 .. DeadlockThreshold
        /\ drainState \in {"Running", "Draining", "Drained"}
        /\ pending \in [Ports -> Requests \cup {None}]
    BY DEF IInv, Typed, ListOK, CountersOK, PendingOK
  <1>3. \A l \in Lines : issued[l] \in Seq({"LD", "IFETCH", "ST", "ATOMIC"})
    BY DEF IInv, Typed, IssuedOK, Issuable
  <1>4. \A l \in Lines : \A i \in DOMAIN table[l] :
            table[l][i] \in [type : Types, age : 0 .. MaxAge]
    <2>1. \A l \in Lines : table[l] \in Seq(Entries)
      BY DEF IInv, Typed, TableOK
    <2>2. \A l \in Lines : \A i \in DOMAIN table[l] : table[l][i] \in Entries
      BY <2>1, LenProperties
    <2> QED  BY <2>2 DEF Entries
  <1> QED
    BY <1>1, <1>2, <1>3, <1>4, CountOfIInv DEF TypeOK, SequencerTypeOK

LEMMA ConcatLists ==
    ASSUME NEW R \in Seq(Ports), NEW W \in Seq(Ports), NEW P \in SUBSET Ports, Listing(R, W, P)
    PROVE  IsInjective(R \o W) /\ Range(R \o W) = P
  <1> DEFINE S == R \o W
  <1>1. /\ S \in Seq(Ports) /\ Len(S) = Len(R) + Len(W) /\ Len(R) \in Nat /\ Len(W) \in Nat
        /\ \A i \in 1 .. Len(S) : S[i] = IF i <= Len(R) THEN R[i] ELSE W[i - Len(R)]
    BY ConcatProperties, LenProperties
  <1>2. DOMAIN S = 1 .. Len(S) /\ \A i \in 1 .. Len(S) : S[i] \in Ports
    BY <1>1, LenProperties
  <1> HIDE DEF S
  <1>3. ASSUME NEW i \in 1 .. Len(S)
        PROVE  \/ i \in 1 .. Len(R) /\ S[i] = R[i]
               \/ i - Len(R) \in 1 .. Len(W) /\ S[i] = W[i - Len(R)]
    BY <1>1
  <1>4. ASSUME NEW i \in 1 .. Len(S), NEW j \in 1 .. Len(S), S[i] = S[j]
        PROVE  i = j
    <2>1. i \in Int /\ j \in Int /\ Len(R) \in Int
      BY <1>1
    <2>2. CASE i \in 1 .. Len(R) /\ S[i] = R[i] /\ j \in 1 .. Len(R) /\ S[j] = R[j]
      BY <1>4, <2>2 DEF Listing
    <2>3. CASE /\ i - Len(R) \in 1 .. Len(W) /\ S[i] = W[i - Len(R)]
               /\ j - Len(R) \in 1 .. Len(W) /\ S[j] = W[j - Len(R)]
      <3>1. i - Len(R) = j - Len(R)
        BY <1>4, <2>3 DEF Listing
      <3> QED  BY <2>1, <3>1
    <2>4. ASSUME NEW a \in 1 .. Len(R), NEW b \in 1 .. Len(W) PROVE R[a] # W[b]
      BY DEF Listing
    <2> QED  BY <1>3, <1>4, <2>2, <2>3, <2>4
  <1>5. ASSUME NEW p \in Ports
        PROVE  p \in P <=> \E i \in 1 .. Len(S) : S[i] = p
    <2>1. ASSUME NEW i \in 1 .. Len(R) PROVE \E k \in 1 .. Len(S) : S[k] = R[i]
      <3>1. i \in 1 .. Len(S) /\ S[i] = R[i]
        BY <1>1
      <3> QED  BY <3>1
    <2>2. ASSUME NEW i \in 1 .. Len(W) PROVE \E k \in 1 .. Len(S) : S[k] = W[i]
      <3>1. i + Len(R) \in 1 .. Len(S) /\ ~(i + Len(R) <= Len(R)) /\ (i + Len(R)) - Len(R) = i
        BY <1>1
      <3>2. S[i + Len(R)] = W[i]
        BY <1>1, <3>1
      <3> QED  BY <3>1, <3>2
    <2>3. p \in P <=> \/ \E i \in 1 .. Len(R) : R[i] = p
                     \/ \E i \in 1 .. Len(W) : W[i] = p
      BY DEF Listing
    <2>4. ASSUME NEW i \in 1 .. Len(S), S[i] = p PROVE p \in P
      BY <1>3, <2>3, <2>4
    <2> QED  BY <2>1, <2>2, <2>3, <2>4
  <1>6. IsInjective(S)
    BY <1>2, <1>4 DEF IsInjective
  <1>7. Range(S) = P
    BY <1>2, <1>5 DEF Range
  <1> QED  BY <1>6, <1>7 DEF S

LEMMA ListOfIInv == IInv => RefusedIsListed
  <1> SUFFICES ASSUME IInv PROVE RefusedIsListed
    OBVIOUS
  <1>1. walk = Idle \/ (walk \in Walks /\ walk.retries \in Seq(Ports))
    BY DEF IInv, Typed, WalkOK, Walks
  <1>2. Retries \in Seq(Ports) /\ retryList \in Seq(Ports)
    BY <1>1, EmptySeq DEF Retries, InCallback, IInv, Typed, ListOK
  <1>3. Waiting = retryList \o Retries
    BY DEF Waiting, Retries
  <1>4. Listing(retryList, Retries, Refused) /\ Refused \in SUBSET Ports
    BY DEF IInv, Listed, Refused
  <1>5. IsInjective(retryList \o Retries) /\ Range(retryList \o Retries) = Refused
    BY <1>2, <1>4, ConcatLists
  <1> QED  BY <1>3, <1>5 DEF RefusedIsListed, Refused

LEMMA AgesOfIInv == IInv => StuckIsReported
  <1> SUFFICES ASSUME IInv, drainState # "Draining", ~panicked, NEW r \in Outstanding
               PROVE  Age(r) < 2 * DeadlockThreshold
    BY DEF StuckIsReported
  <1>1. PICK l \in Lines : r \in {l} \X DOMAIN table[l]
    BY DEF Outstanding
  <1>2. PICK i \in DOMAIN table[l] : r = <<l, i>>
    BY <1>1
  <1>3. i \in 1 .. Len(table[l]) /\ table[l][i] \in Entries
    BY <1>2, LenProperties DEF IInv, Typed, TableOK
  <1>4. table[l][i].age \in Nat
    BY <1>3, SequencerAssumption DEF Entries, MaxAge
  <1>5. check >= 0 /\ table[l][i].age + check < 2 * DeadlockThreshold
    BY <1>3 DEF IInv, Timely
  <1>6. check \in -1 .. DeadlockThreshold /\ DeadlockThreshold \in Nat
    BY SequencerAssumption DEF IInv, Typed, CountersOK
  <1> QED  BY <1>2, <1>4, <1>5, <1>6 DEF Age
-----------------------------------------------------------------------------
(* The sequencer never counts more requests than the limit of makeRequest, *)
(* and its state has its type.                                             *)
THEOREM SequencerTyped == Spec => []TypeOK
  BY AlwaysIInv, TypeOfIInv, PTL

(* However requests alias, are reissued or are inserted by a retry in the  *)
(* middle of a callback, the head of a line's list and it alone has been   *)
(* issued (insertRequest, and the while loops of the callbacks).           *)
THEOREM HeadIsIssued == Spec => []OneRubyRequestPerLine
  <1>1. IInv => OneRubyRequestPerLine
    BY DEF IInv, Ruby
  <1> QED  BY <1>1, AlwaysIInv, PTL

(* The assertions of readCallback, writeCallback and atomicCallback on the *)
(* request they were called for cannot fail.                               *)
THEOREM CallbacksFit == Spec => []CallbackFitsRequest
  <1>1. IInv => CallbackFitsRequest
    BY DEF IInv, Ruby
  <1> QED  BY <1>1, AlwaysIInv, PTL

(* The assertion of wakeup, that the count is the number of requests in    *)
(* the table, holds between any two callbacks.                             *)
THEOREM CountIsExact == Spec => []CountMatchesTable
  <1>1. IInv => CountMatchesTable
    BY CountOfIInv
  <1> QED  BY <1>1, AlwaysIInv, PTL

(* No refused port is forgotten or listed twice, although trySendRetries   *)
(* works on a copy while the ports it calls are put back on the list.      *)
THEOREM NoPortIsForgotten == Spec => []RefusedIsListed
  BY AlwaysIInv, ListOfIInv, PTL

(* The deadlock check reports a request before it is two thresholds old,   *)
(* over every way the check is scheduled, dropped by a drain and resumed.  *)
THEOREM DeadlockIsReported == Spec => []StuckIsReported
  BY AlwaysIInv, AgesOfIInv, PTL

(* wakeup never runs during a drain, and a drain that has not ended still  *)
(* waits for a request whose hit will end it.                              *)
THEOREM DrainEndsWithHit == Spec => [](NoCheckWhileDraining /\ DrainNotMissed)
  <1>1. IInv => NoCheckWhileDraining /\ DrainNotMissed
    BY DEF IInv, Drains, DrainNotMissed
  <1> QED  BY <1>1, AlwaysIInv, PTL
=============================================================================
