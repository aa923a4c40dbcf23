-------------------------- MODULE LuaCallbacksProofs --------------------------
(* Proofs about the Lua callbacks: for all scripts and timeouts, and for every    *)
(* number of objects.                                                             *)
EXTENDS LuaCallbacks, SequenceTheorems, TLAPS

USE DEF vars

-----------------------------------------------------------------------------
(* What the filter stage and the worker know of an object. *)

Outcomes == {"pass", "reject", "error"}
InFilter == {"call", "in filter"}
InEvent == {"event", "in event", "unlock"}

(* Objects are numbered as they are received, and each gets one outcome, in turn. *)
InTurn ==
    /\ stage \in {"receive", "failed", "done"} \cup InFilter \cup InEvent
    /\ outcome \in Seq(Outcomes)
    /\ received \in Nat
    /\ received = IF stage \in InFilter THEN Len(outcome) + 1 ELSE Len(outcome)
    /\ stage \in InEvent => outcome # <<>>

(* An object leaves the stage only with a pass; so it does the queue. *)
Passed ==
    /\ queue \in Seq(Nat)
    /\ \A j \in DOMAIN queue : queue[j] \in DOMAIN outcome /\ outcome[queue[j]] = "pass"
    /\ \A i \in deleted : i \in DOMAIN outcome /\ outcome[i] = "pass"

(* An error is the last outcome, and the stage is on its way to its end. *)
ErrorLast ==
    /\ \A i \in DOMAIN outcome : outcome[i] = "error" =>
          i = Len(outcome) /\ stage \in InEvent \cup {"failed", "done"}
    /\ stage = "failed" \/ has_error => outcome # <<>> /\ LastOutcome = "error"

FilterInv == InTurn /\ Passed /\ ErrorLast

LEMMA AppendOutcome ==
    ASSUME NEW s \in Seq(Outcomes), NEW r \in Outcomes
    PROVE  /\ Append(s, r) \in Seq(Outcomes)
           /\ Len(Append(s, r)) = Len(s) + 1 /\ Len(s) \in Nat
           /\ DOMAIN s = 1 .. Len(s) /\ DOMAIN Append(s, r) = 1 .. Len(s) + 1
           /\ \A i \in 1 .. Len(s) : Append(s, r)[i] = s[i]
           /\ Append(s, r)[Len(s) + 1] = r
           /\ Append(s, r) # <<>>
  BY AppendProperties

(* A step that touches neither outcomes nor objects on their way. *)
LEMMA FilterKept ==
    ASSUME FilterInv, UNCHANGED <<received, outcome, queue, deleted, has_error>>,
           stage' = stage \/ (stage \in InEvent /\ stage' \in InEvent)
    PROVE  FilterInv'
  <1>1. InTurn'
    BY DEF FilterInv, InTurn, InFilter, InEvent
  <1>2. Passed'
    BY DEF FilterInv, Passed
  <1>3. ErrorLast'
    BY DEF FilterInv, ErrorLast, LastOutcome, InEvent
  <1>4. QED
    BY <1>1, <1>2, <1>3 DEF FilterInv

LEMMA FilterStep ==
    ASSUME FilterInv, [Next]_vars
    PROVE  FilterInv'
  <1>0. InTurn /\ Passed /\ ErrorLast
    BY DEF FilterInv
  <1>1. CASE LoadFilter \/ LoadEvent \/ Cancel \/ UNCHANGED vars
    <2>1. UNCHANGED <<stage, received, outcome, queue, deleted, has_error>>
      BY <1>1 DEF LoadFilter, LoadEvent, LoadAndCompile, Cancel
    <2>2. QED
      BY <2>1, FilterKept
  <1>2. ASSUME NEW v \in VMs, Tick(v) \/ Slice(v) PROVE FilterInv'
    <2>1. UNCHANGED <<stage, received, outcome, queue, deleted, has_error>>
      BY <1>2 DEF Tick, Slice
    <2>2. QED
      BY <2>1, FilterKept
  <1>3. CASE Receive
    <2>1. InTurn'
      BY <1>0, <1>3 DEF Receive, InTurn, InFilter, InEvent
    <2>2. Passed'
      BY <1>0, <1>3 DEF Receive, StageUnchanged, Passed
    <2>3. ErrorLast'
      BY <1>0, <1>3 DEF Receive, ErrorLast, LastOutcome, InEvent
    <2>4. QED
      BY <2>1, <2>2, <2>3 DEF FilterInv
  <1>4. CASE StageCancelled \/ StageCompleted
    <2>1. stage = "receive" /\ stage' = "done"
          /\ UNCHANGED <<received, outcome, queue, deleted, has_error>>
      BY <1>4 DEF StageCancelled, StageCompleted, StageUnchanged
    <2>2. InTurn' /\ Passed'
      BY <1>0, <2>1 DEF InTurn, InFilter, InEvent, Passed
    <2>3. ErrorLast'
      BY <1>0, <2>1 DEF ErrorLast, LastOutcome, InEvent
    <2>4. QED
      BY <2>2, <2>3 DEF FilterInv
  <1>5. ASSUME NEW r \in Outcomes, stage \in InFilter, outcome' = Append(outcome, r),
               UNCHANGED <<received, deleted, has_error>>,
               \/ r = "pass" /\ queue' = Append(queue, received) /\ stage' = "receive"
               \/ r # "pass" /\ UNCHANGED queue /\ stage' = "event"
        PROVE  FilterInv'
    <2>1. /\ outcome \in Seq(Outcomes) /\ received = Len(outcome) + 1
          /\ received \in Nat
      BY <1>0, <1>5 DEF InTurn
    <2>2. /\ outcome' \in Seq(Outcomes) /\ Len(outcome') = Len(outcome) + 1
          /\ DOMAIN outcome = 1 .. Len(outcome) /\ DOMAIN outcome' = 1 .. received
          /\ \A i \in DOMAIN outcome : i \in DOMAIN outcome' /\ outcome'[i] = outcome[i]
          /\ outcome'[received] = r /\ outcome' # <<>> /\ Len(outcome) \in Nat
          /\ received \in DOMAIN outcome'
      BY <1>5, <2>1, AppendOutcome
    <2>3. InTurn'
      <3>1. stage' \in {"receive", "event"}
        BY <1>5
      <3>2. QED
        BY <1>5, <2>1, <2>2, <3>1 DEF InTurn, InFilter, InEvent
    <2>4. Passed'
      <3>1. \A i \in deleted' : i \in DOMAIN outcome' /\ outcome'[i] = "pass"
        BY <1>0, <1>5, <2>2 DEF Passed
      <3>2. CASE UNCHANGED queue
        BY <1>0, <2>2, <3>1, <3>2 DEF Passed
      <3>3. CASE r = "pass" /\ queue' = Append(queue, received)
        <4>1. /\ queue \in Seq(Nat) /\ queue' \in Seq(Nat) /\ Len(queue) \in Nat
              /\ DOMAIN queue = 1 .. Len(queue) /\ DOMAIN queue' = 1 .. Len(queue) + 1
              /\ \A j \in 1 .. Len(queue) : queue'[j] = queue[j]
              /\ queue'[Len(queue) + 1] = received
          BY <1>0, <2>1, <3>3, AppendProperties DEF Passed
        <4>2. \A j \in DOMAIN queue' : queue'[j] = received \/ (j \in DOMAIN queue /\ queue'[j] = queue[j])
          BY <4>1
        <4>3. \A j \in DOMAIN queue' : queue'[j] \in DOMAIN outcome' /\ outcome'[queue'[j]] = "pass"
          BY <1>0, <2>2, <3>3, <4>2 DEF Passed
        <4>4. QED
          BY <3>1, <4>1, <4>3 DEF Passed
      <3>4. QED
        BY <1>5, <3>2, <3>3
    <2>5. ErrorLast'
      <3>1. \A i \in DOMAIN outcome : outcome[i] # "error"
        BY <1>0, <1>5 DEF ErrorLast, InFilter, InEvent
      <3>2. ~has_error
        BY <1>0, <2>1, <2>2, <3>1 DEF ErrorLast, LastOutcome
      <3>3. \A i \in DOMAIN outcome' : outcome'[i] = "error" => i = received /\ r = "error"
        BY <2>1, <2>2, <3>1
      <3>4. QED
        BY <1>5, <2>1, <2>2, <3>2, <3>3 DEF ErrorLast, InEvent
    <2>6. QED
      BY <2>3, <2>4, <2>5 DEF FilterInv
  <1>6. CASE ExecuteFilter
    <2>1. CASE Begin("filter", "stage") /\ stage' = "in filter" /\ UNCHANGED outcome
      <3>1. stage = "call" /\ UNCHANGED <<received, outcome, queue, deleted, has_error>>
        BY <1>6, <2>1 DEF ExecuteFilter, StageUnchanged
      <3>2. InTurn' /\ Passed'
        BY <1>0, <2>1, <3>1 DEF InTurn, InFilter, InEvent, Passed
      <3>3. ErrorLast'
        BY <1>0, <2>1, <3>1 DEF ErrorLast, LastOutcome, InEvent
      <3>4. QED
        BY <3>2, <3>3 DEF FilterInv
    <2>2. CASE stage' = "event" /\ outcome' = Append(outcome, "error")
      BY <1>5, <1>6, <2>2 DEF ExecuteFilter, StageUnchanged, Outcomes, InFilter
    <2>3. QED
      BY <1>6, <2>1, <2>2 DEF ExecuteFilter
  <1>7. CASE FilterReturns
    BY <1>5, <1>7 DEF FilterReturns, StageUnchanged, Outcomes, InFilter, Forwards
  <1>8. CASE StageEvent \/ StageEventReturns
    BY <1>8, FilterKept DEF StageEvent, StageEventReturns, StageUnchanged, InEvent
  <1>9. CASE StageUnlocks
    <2>1. /\ stage = "unlock" /\ stage' = AfterEvent
          /\ UNCHANGED <<received, outcome, queue, deleted, has_error>>
      BY <1>9 DEF StageUnlocks, StageUnchanged
    <2>2. InTurn' /\ Passed'
      BY <1>0, <2>1 DEF InTurn, InFilter, InEvent, Passed, AfterEvent
    <2>3. ErrorLast'
      BY <1>0, <2>1 DEF ErrorLast, InTurn, LastOutcome, InEvent, AfterEvent
    <2>4. QED
      BY <2>2, <2>3 DEF FilterInv
  <1>10. CASE StageFails
    <2>1. stage = "failed" /\ stage' = "done" /\ UNCHANGED <<received, outcome, queue, deleted>>
      BY <1>10 DEF StageFails, StageUnchanged
    <2>2. InTurn' /\ Passed'
      BY <1>0, <2>1 DEF InTurn, InFilter, InEvent, Passed
    <2>3. ErrorLast'
      BY <1>0, <2>1 DEF ErrorLast, LastOutcome, InEvent
    <2>4. QED
      BY <2>2, <2>3 DEF FilterInv
  <1>11. CASE Delete
    <2>1. /\ queue # <<>> /\ queue' = Tail(queue) /\ deleted' = deleted \cup {Head(queue)}
          /\ UNCHANGED <<stage, received, outcome, has_error>>
      BY <1>11 DEF Delete, WorkerUnchanged
    <2>2. /\ queue \in Seq(Nat) /\ queue' \in Seq(Nat)
          /\ \A j \in DOMAIN queue' : j + 1 \in DOMAIN queue /\ queue'[j] = queue[j + 1]
          /\ Head(queue) = queue[1] /\ 1 \in DOMAIN queue
      BY <1>0, <2>1, HeadTailProperties DEF Passed
    <2>3. Passed'
      BY <1>0, <2>1, <2>2 DEF Passed
    <2>4. InTurn' /\ ErrorLast'
      BY <1>0, <2>1 DEF InTurn, ErrorLast, LastOutcome
    <2>5. QED
      BY <2>3, <2>4 DEF FilterInv
  <1>12. CASE WorkerEvent \/ WorkerEventReturns \/ WorkerUnlocks \/ WorkerEnds
    <2>1. UNCHANGED <<stage, received, outcome, queue, deleted, has_error>>
      BY <1>12 DEF WorkerEvent, WorkerEventReturns, WorkerUnlocks, WorkerEnds, WorkerUnchanged
    <2>2. QED
      BY <2>1, FilterKept
  <1>13. QED
    BY <1>1, <1>2, <1>3, <1>4, <1>6, <1>7, <1>8, <1>9, <1>10, <1>11, <1>12
    DEF Next, StageStep, WorkerStep

LEMMA FilterHolds == Spec => []FilterInv
  <1>1. Init => FilterInv
    <2> SUFFICES ASSUME Init PROVE FilterInv
      OBVIOUS
    <2>0. /\ stage = "receive" /\ received = 0 /\ queue = <<>> /\ outcome = <<>>
          /\ deleted = {} /\ ~has_error
      BY DEF Init
    <2>a. /\ outcome \in Seq(Outcomes) /\ queue \in Seq(Nat) /\ Len(outcome) = 0
          /\ DOMAIN outcome = {} /\ DOMAIN queue = {}
      BY <2>0
    <2>1. InTurn
      BY <2>0, <2>a DEF InTurn, InFilter, InEvent
    <2>2. Passed
      BY <2>0, <2>a DEF Passed
    <2>3. ErrorLast
      BY <2>0, <2>a DEF ErrorLast
    <2>4. QED
      BY <2>1, <2>2, <2>3 DEF FilterInv
  <1>2. QED
    BY <1>1, FilterStep, PTL DEF Spec

(* A stage that is done after an error has failed and cancelled the run. *)
ErrorsEnd == \A i \in DOMAIN outcome : outcome[i] = "error" /\ stage = "done" => has_error /\ cancelled

LEMMA ErrorsEndStep ==
    ASSUME FilterInv, ErrorsEnd, [Next]_vars
    PROVE  ErrorsEnd'
  <1>1. CASE StageFails
    BY <1>1 DEF StageFails, ErrorsEnd
  <1>2. CASE StageCancelled \/ StageCompleted
    BY <1>2 DEF StageCancelled, StageCompleted, ErrorsEnd, FilterInv, ErrorLast, InEvent
  <1>3. CASE StageStep /\ stage' # "done"
    BY <1>3 DEF ErrorsEnd
  <1>4. CASE UNCHANGED <<stage, outcome, has_error>> /\ (cancelled' = cancelled \/ cancelled')
    BY <1>4 DEF ErrorsEnd
  <1>5. StageStep => StageFails \/ StageCancelled \/ StageCompleted \/ stage' # "done"
    BY DEF StageStep, Receive, ExecuteFilter, FilterReturns, StageEvent, StageEventReturns, StageUnlocks,
           AfterEvent
  <1>6. CASE LoadFilter \/ LoadEvent \/ Cancel \/ UNCHANGED vars
    BY <1>4, <1>6 DEF LoadFilter, LoadEvent, LoadAndCompile, Cancel
  <1>7. CASE WorkerStep
    BY <1>4, <1>7 DEF WorkerStep, Delete, WorkerEvent, WorkerEventReturns, WorkerUnlocks, WorkerEnds,
                      WorkerUnchanged
  <1>8. ASSUME NEW v \in VMs, Tick(v) \/ Slice(v) PROVE ErrorsEnd'
    BY <1>4, <1>8 DEF Tick, Slice
  <1>9. QED
    BY <1>1, <1>2, <1>3, <1>5, <1>6, <1>7, <1>8 DEF Next

(* The filter fails closed: whatever the script does, only an object for which it *)
(* was called and returned a true value is deleted or on its way to the worker.   *)
THEOREM FilterFailsClosed == Spec => []FailsClosed
  <1>1. FilterInv => FailsClosed
    BY DEF FilterInv, Passed, FailsClosed
  <1>2. QED
    BY <1>1, FilterHolds, PTL

(* A filter error is the last thing the filter does, it leaves the run failed and *)
(* cancelled, and nothing else fails the run: no event script can.                *)
THEOREM ErrorsStop == Spec => []OnlyFilterErrorsStop
  <1>1. FilterInv /\ ErrorsEnd => OnlyFilterErrorsStop
    <2> SUFFICES ASSUME FilterInv, ErrorsEnd PROVE OnlyFilterErrorsStop
      OBVIOUS
    <2>1. has_error => outcome # <<>> /\ LastOutcome = "error"
      BY DEF FilterInv, ErrorLast
    <2>2. \A i \in DOMAIN outcome : outcome[i] = "error" => i = Len(outcome) /\ received = i
      <3>1. Len(outcome) \in Nat
        BY LenProperties DEF FilterInv, InTurn
      <3>2. stage \in InEvent \cup {"failed", "done"} => received = Len(outcome)
        BY <3>1 DEF FilterInv, InTurn, InFilter, InEvent
      <3>3. QED
        BY <3>2 DEF FilterInv, ErrorLast
    <2>3. QED
      BY <2>1, <2>2 DEF OnlyFilterErrorsStop, ErrorsEnd
  <1>2. Init => ErrorsEnd
    BY DEF Init, ErrorsEnd
  <1>3. QED
    BY <1>1, <1>2, ErrorsEndStep, FilterHolds, PTL DEF Spec

-----------------------------------------------------------------------------
(* Calls, hooks and the mutex of the event callback. *)

Tasks == {"stage", "worker"}
CallType == [slices : Nat, elapsed : Nat, by : {Nobody} \cup Tasks]

(* A call runs no longer on the clock than its timeout, somebody waits for it,    *)
(* and a hook is there only during it.                                            *)
CallsOK ==
    /\ setup \in Setups
    /\ call \in [VMs -> CallType] /\ hook \in [VMs -> BOOLEAN]
    /\ \A v \in VMs : call[v].elapsed <= setup.timeout
    /\ \A v \in VMs : call[v] # Idle => call[v].by \in Tasks
    /\ \A v \in VMs : hook[v] => call[v] # Idle

(* Only the holder of the mutex is inside the callback. *)
MutexOK ==
    /\ holder \in {Nobody} \cup Tasks
    /\ stage \in {"in event", "unlock"} => holder = "stage"
    /\ worker \in {"in event", "unlock"} => holder = "worker"

FlagsOK ==
    /\ startup \in {"load filter", "load event", "running", "refused"}
    /\ received <= Listing
    /\ cancelled \in BOOLEAN /\ has_error \in BOOLEAN

LEMMA Setup ==
    ASSUME setup \in Setups, NEW v \in VMs
    PROVE  setup[v] \in Script /\ setup.timeout \in Nat /\ setup[v].slices \in Nat
  <1>1. setup[v] \in Script /\ setup.timeout \in Nat
    BY LuaAssumption DEF VMs
  <1>2. QED
    BY <1>1 DEF Script

LEMMA BeginOK ==
    ASSUME CallsOK, NEW v \in VMs, NEW a \in Tasks, Begin(v, a), UNCHANGED setup
    PROVE  CallsOK'
  <1> DEFINE c == [slices |-> setup[v].slices, elapsed |-> 0, by |-> a]
  <1>1. c \in CallType /\ c.elapsed = 0 /\ c.by = a
    BY Setup DEF CallsOK, CallType
  <1>2. c # Idle
    BY <1>1 DEF Idle, Tasks
  <1>3. call' = [call EXCEPT ![v] = c]
    BY DEF Begin
  <1> HIDE DEF c
  <1>4. InstallHook(v) \in BOOLEAN
    BY DEF InstallHook
  <1>5. hook' \in [VMs -> BOOLEAN] /\ \A x \in VMs : x # v => hook'[x] = hook[x]
    BY <1>4 DEF Begin, CallsOK
  <1>6. call'[v] = c /\ \A x \in VMs : x # v => call'[x] = call[x]
    BY <1>3 DEF CallsOK
  <1>7. call' \in [VMs -> CallType]
    BY <1>1, <1>3 DEF CallsOK
  <1>8. QED
    BY <1>1, <1>2, <1>5, <1>6, <1>7, Setup DEF CallsOK

LEMMA EndOK ==
    ASSUME CallsOK, NEW v \in VMs, NEW r, End(v, r), UNCHANGED setup
    PROVE  CallsOK'
  <1>1. Idle \in CallType /\ Idle.elapsed = 0
    BY DEF Idle, CallType, Nobody
  <1>2. /\ call' = [call EXCEPT ![v] = Idle] /\ hook' = [hook EXCEPT ![v] = FALSE]
    BY DEF End, RemoveHook
  <1>3. call'[v] = Idle /\ ~hook'[v]
        /\ \A x \in VMs : x # v => call'[x] = call[x] /\ hook'[x] = hook[x]
    BY <1>2 DEF CallsOK
  <1>4. call' \in [VMs -> CallType] /\ hook' \in [VMs -> BOOLEAN]
    BY <1>1, <1>2 DEF CallsOK
  <1>5. QED
    BY <1>1, <1>3, <1>4, Setup DEF CallsOK

LEMMA RunOnOK ==
    ASSUME CallsOK, NEW v \in VMs, Tick(v) \/ Slice(v)
    PROVE  CallsOK'
  <1>1. call[v] \in CallType /\ call[v].by \in Tasks /\ call[v].slices \in Nat
        /\ call[v].elapsed \in Nat /\ setup.timeout \in Nat
    BY Setup DEF CallsOK, Tick, Slice, Busy, CallType
  <1>2. PICK c \in CallType : /\ call' = [call EXCEPT ![v] = c]
                              /\ c.by = call[v].by /\ c.elapsed <= setup.timeout
    <2>1. CASE Tick(v)
      <3> DEFINE c == [call[v] EXCEPT !.elapsed = @ + 1]
      <3>1. c \in CallType /\ c.by = call[v].by /\ c.elapsed = call[v].elapsed + 1
        BY <1>1 DEF CallType
      <3>2. call' = [call EXCEPT ![v] = c]
        BY <2>1 DEF Tick
      <3>3. c.elapsed <= setup.timeout
        BY <1>1, <2>1, <3>1 DEF Tick
      <3>4. QED
        BY <3>1, <3>2, <3>3
    <2>2. CASE Slice(v)
      <3> DEFINE c == [call[v] EXCEPT !.slices = @ - 1]
      <3>1. c \in CallType /\ c.by = call[v].by /\ c.elapsed = call[v].elapsed
        BY <1>1, <2>2 DEF CallType, Slice
      <3>2. call' = [call EXCEPT ![v] = c]
        BY <2>2 DEF Slice
      <3>3. c.elapsed <= setup.timeout
        BY <3>1 DEF CallsOK
      <3>4. QED
        BY <3>1, <3>2, <3>3
    <2>3. QED
      BY <2>1, <2>2
  <1>3. c # Idle
    BY <1>1, <1>2 DEF Idle, Tasks
  <1>4. UNCHANGED <<setup, hook>>
    BY DEF Tick, Slice
  <1>5. call'[v] = c /\ \A x \in VMs : x # v => call'[x] = call[x]
    BY <1>2 DEF CallsOK
  <1>6. call' \in [VMs -> CallType]
    BY <1>2 DEF CallsOK
  <1>7. QED
    BY <1>1, <1>2, <1>3, <1>4, <1>5, <1>6 DEF CallsOK

LEMMA CallsStep ==
    ASSUME CallsOK, [Next]_vars
    PROVE  CallsOK'
  <1>1. CASE UNCHANGED <<setup, call, hook>>
    BY <1>1 DEF CallsOK
  <1>2. ASSUME NEW v \in VMs, NEW a \in Tasks, Begin(v, a), UNCHANGED setup PROVE CallsOK'
    BY <1>2, BeginOK
  <1>3. ASSUME NEW v \in VMs, NEW r, End(v, r), UNCHANGED setup PROVE CallsOK'
    BY <1>3, EndOK
  <1>4. ASSUME NEW v \in VMs, Tick(v) \/ Slice(v) PROVE CallsOK'
    BY <1>4, RunOnOK
  <1>5. "filter" \in VMs /\ "event" \in VMs /\ "stage" \in Tasks /\ "worker" \in Tasks
    BY DEF VMs, Tasks
  <1>6. CASE ExecuteFilter
    BY <1>1, <1>2, <1>5, <1>6 DEF ExecuteFilter, StageUnchanged
  <1>7. CASE StageEvent \/ WorkerEvent
    BY <1>1, <1>2, <1>5, <1>7
    DEF StageEvent, WorkerEvent, OnEvent, StageUnchanged, WorkerUnchanged
  <1>8. CASE FilterReturns \/ StageEventReturns \/ WorkerEventReturns
    BY <1>3, <1>5, <1>8
    DEF FilterReturns, StageEventReturns, WorkerEventReturns, EventReturns, StageUnchanged,
        WorkerUnchanged
  <1>9. CASE \/ LoadFilter \/ LoadEvent \/ Cancel \/ Receive \/ StageCancelled \/ StageCompleted
             \/ StageUnlocks \/ StageFails \/ Delete \/ WorkerUnlocks \/ WorkerEnds
             \/ UNCHANGED vars
    <2>1. UNCHANGED <<setup, call, hook>>
      BY <1>9 DEF LoadFilter, LoadEvent, LoadAndCompile, Cancel, Receive, StageCancelled,
                  StageCompleted, StageUnlocks, StageFails, Delete, WorkerUnlocks, WorkerEnds,
                  StageUnchanged, WorkerUnchanged
    <2>2. QED
      BY <1>1, <2>1
  <1>10. QED
    BY <1>4, <1>6, <1>7, <1>8, <1>9 DEF Next, StageStep, WorkerStep

LEMMA MutexStep ==
    ASSUME MutexOK, [Next]_vars
    PROVE  MutexOK'
  <1>1. CASE UNCHANGED <<holder, stage, worker>>
    BY <1>1 DEF MutexOK
  <1>2. CASE LoadFilter \/ LoadEvent \/ Cancel \/ UNCHANGED vars
    BY <1>1, <1>2 DEF LoadFilter, LoadEvent, LoadAndCompile, Cancel
  <1>3. ASSUME NEW v \in VMs, Tick(v) \/ Slice(v) PROVE MutexOK'
    BY <1>1, <1>3 DEF Tick, Slice
  <1>4. CASE \/ Receive \/ StageCancelled \/ StageCompleted \/ ExecuteFilter \/ FilterReturns
             \/ StageFails
    BY <1>4 DEF Receive, StageCancelled, StageCompleted, ExecuteFilter, FilterReturns, StageFails,
                StageUnchanged, MutexOK
  <1>5. CASE StageEvent \/ StageEventReturns \/ StageUnlocks
    BY <1>5 DEF StageEvent, StageEventReturns, StageUnlocks, OnEvent, LockEvents, EventReturns,
                Unlock, AfterEvent, StageUnchanged, MutexOK, Nobody, Tasks
  <1>6. CASE Delete \/ WorkerEvent \/ WorkerEventReturns \/ WorkerUnlocks \/ WorkerEnds
    BY <1>6 DEF Delete, WorkerEvent, WorkerEventReturns, WorkerUnlocks, WorkerEnds, OnEvent,
                LockEvents, EventReturns, Unlock, WorkerUnchanged, MutexOK, Nobody, Tasks
  <1>7. QED
    BY <1>2, <1>3, <1>4, <1>5, <1>6 DEF Next, StageStep, WorkerStep

LEMMA FlagsStep ==
    ASSUME FlagsOK, received \in Nat, [Next]_vars
    PROVE  FlagsOK'
  <1>0. Listing \in Nat
    BY LuaAssumption
  <1>1. CASE LoadFilter \/ LoadEvent
    BY <1>1 DEF LoadFilter, LoadEvent, LoadAndCompile, FlagsOK
  <1>2. CASE Cancel \/ StageFails
    BY <1>2 DEF Cancel, StageFails, StageUnchanged, FlagsOK
  <1>3. CASE Receive
    <2>1. received' <= Listing
      BY <1>0, <1>3 DEF Receive
    <2>2. UNCHANGED <<startup, cancelled, has_error>>
      BY <1>3 DEF Receive, StageUnchanged
    <2>3. QED
      BY <2>1, <2>2 DEF FlagsOK
  <1>4. CASE UNCHANGED <<startup, received, cancelled, has_error>>
    BY <1>4 DEF FlagsOK
  <1>5. CASE \/ StageCancelled \/ StageCompleted \/ ExecuteFilter \/ FilterReturns \/ StageEvent
             \/ StageEventReturns \/ StageUnlocks
    BY <1>4, <1>5 DEF StageCancelled, StageCompleted, ExecuteFilter, FilterReturns, StageEvent,
                      StageEventReturns, StageUnlocks, StageUnchanged
  <1>6. CASE WorkerStep
    BY <1>4, <1>6 DEF WorkerStep, Delete, WorkerEvent, WorkerEventReturns, WorkerUnlocks,
                      WorkerEnds, WorkerUnchanged
  <1>7. ASSUME NEW v \in VMs, Tick(v) \/ Slice(v) PROVE FlagsOK'
    BY <1>4, <1>7 DEF Tick, Slice
  <1>8. QED
    BY <1>1, <1>2, <1>3, <1>4, <1>5, <1>6, <1>7 DEF Next, StageStep

(* Every variable keeps its type, a task is inside the event callback only while  *)
(* it holds the mutex, and no hook outlives its call.                             *)
THEOREM CallbackTypes == Spec => []TypeOK
  <1> DEFINE I == FilterInv /\ CallsOK /\ MutexOK /\ FlagsOK
  <1>1. Init => CallsOK /\ MutexOK /\ FlagsOK
    <2> SUFFICES ASSUME Init PROVE CallsOK /\ MutexOK /\ FlagsOK
      OBVIOUS
    <2>1. Idle \in CallType /\ Idle.elapsed = 0
      BY DEF Idle, CallType, Nobody
    <2>2. /\ setup \in Setups /\ call = [v \in VMs |-> Idle]
          /\ hook = [v \in VMs |-> FALSE]
      BY DEF Init
    <2>3. CallsOK
      BY <2>1, <2>2, Setup DEF CallsOK
    <2>4. MutexOK
      BY DEF Init, MutexOK
    <2>5. FlagsOK
      <3>1. received <= Listing
        <4>1. received = 0 /\ Listing \in Nat
          BY LuaAssumption DEF Init
        <4>2. QED
          BY <4>1
      <3>2. QED
        BY <3>1 DEF Init, FlagsOK
    <2>6. QED
      BY <2>3, <2>4, <2>5
  <1>2. I /\ [Next]_vars => CallsOK' /\ MutexOK' /\ FlagsOK'
    BY CallsStep, MutexStep, FlagsStep DEF FilterInv, InTurn
  <1>3. I => TypeOK
    <2> SUFFICES ASSUME I PROVE TypeOK
      OBVIOUS
    <2>1. received \in 0 .. Listing
      <3>1. received \in Nat /\ received <= Listing /\ Listing \in Nat
        BY LuaAssumption DEF FilterInv, InTurn, FlagsOK
      <3>2. QED
        BY <3>1
    <2>2. deleted \subseteq 1 .. Listing
      <3>1. \A i \in deleted : i \in 1 .. Len(outcome)
        BY LenProperties DEF FilterInv, InTurn, Passed
      <3>2. Len(outcome) <= received /\ Len(outcome) \in Nat
        BY LenProperties DEF FilterInv, InTurn
      <3>3. QED
        BY <2>1, <3>1, <3>2, LuaAssumption
    <2>3. \A v \in VMs : call[v].elapsed <= setup.timeout /\ call[v].by \in {Nobody, "stage", "worker"}
      BY DEF CallsOK, CallType, Tasks
    <2>4. QED
      BY <2>1, <2>2, <2>3 DEF TypeOK, CallsOK, MutexOK, FlagsOK, Tasks
  <1>4. QED
    BY <1>1, <1>2, <1>3, FilterHolds, PTL DEF Spec

=============================================================================
