---------------------------- MODULE LuaCallbacks ----------------------------
(* Lua filter and event callbacks: loading the scripts, calling them with the     *)
(* timeout hook, and what the user-defined filter stage and a delete worker make  *)
(* of the outcome. Each kind of callback has its own Lua VM; the event VM is      *)
(* shared by both tasks behind a mutex.                                           *)
(*                                                                                *)
(* External: the Lua VM (mlua). A script is reduced to what it does when called:  *)
(* how many slices of 1000 instructions it runs, whether it catches errors        *)
(* (pcall), whether it hangs in a native function, which library it needs and     *)
(* what it returns. Time is what has passed since a call began, up to its         *)
(* timeout.                                                                       *)
EXTENDS Naturals, Sequences, FiniteSets

CONSTANTS
    Setups,      \* [filter, event : Script, timeout : Nat, mode : Modes]
    Listing      \* number of objects the filter stage receives

Forever == 99                \* slices of a script that never ends by itself
Modes == {"safe", "all", "unsafe"}
Script ==
    [ top : {"ok", "error", "loops"}, defined : BOOLEAN, slices : Nat, catches : BOOLEAN,
      native : BOOLEAN, needs : {"string", "os", "debug"},
      returns : {"true", "false", "nil", "other", "error"} ]

ASSUME LuaAssumption ==
    /\ \A s \in Setups : /\ s.filter \in Script /\ s.event \in Script
                         /\ s.timeout \in Nat /\ s.mode \in Modes
    /\ Listing \in Nat

VMs == {"filter", "event"}

VARIABLES
    setup,        \* never changes
    startup,      \* "load filter", "load event", "running" or "refused"
    call,         \* the call a VM executes: [slices, elapsed, by], or Idle
    hook,         \* the VM has a timeout hook
    holder,       \* who holds the mutex of the event callback
    stage,        \* the filter stage: where it is
    received,     \* objects it has received
    queue,        \* objects on their way to the worker
    worker,       \* the delete worker: where it is
    deleted,      \* objects the worker deleted
    cancelled, has_error,
    outcome       \* how the call of the filter for each object ended

vars == <<setup, startup, call, hook, holder, stage, received, queue, worker, deleted, cancelled,
          has_error, outcome>>

Idle == [slices |-> 0, elapsed |-> 0, by |-> "nobody"]
Nobody == "nobody"

Init ==
    /\ setup \in Setups
    /\ startup = "load filter"
    /\ call = [v \in VMs |-> Idle]
    /\ hook = [v \in VMs |-> FALSE]
    /\ holder = Nobody
    /\ stage = "receive" /\ received = 0 /\ queue = <<>>
    /\ worker = "receive" /\ deleted = {}
    /\ cancelled = FALSE /\ has_error = FALSE
    /\ outcome = <<>>

-----------------------------------------------------------------------------
(* The engine and its three modes. *)

Libraries(mode) ==
    CASE mode = "unsafe" -> {"string", "os", "debug"}
      [] mode = "all" -> {"string", "os"}
      [] mode = "safe" -> {"string"}

(* The top level of a script runs at startup, without a timeout. *)
LoadAndCompile(v, then) ==
    /\ setup[v].top # "loops"
    /\ startup' = IF setup[v].top = "ok" THEN then ELSE "refused"
    /\ UNCHANGED <<setup, call, hook, holder, stage, received, queue, worker, deleted, cancelled,
                   has_error, outcome>>
LoadFilter == startup = "load filter" /\ LoadAndCompile("filter", "load event")
LoadEvent == startup = "load event" /\ LoadAndCompile("event", "running")

Running == startup = "running"

(* What a call of a script comes to if nothing interrupts it: a missing function  *)
(* and a library outside the sandbox are errors. The result of the filter is      *)
(* converted to bool: everything but nil and false is true.                       *)
Verdict(v) ==
    LET s == setup[v]
    IN  CASE ~s.defined \/ s.needs \notin Libraries(setup.mode) \/ s.returns = "error" -> "error"
          [] s.returns \in {"nil", "false"} -> "reject"
          [] OTHER -> "pass"

(* Faulty: the timeout is rounded down, and a short one counts as none. *)
InstallHookRounded(v) == setup.timeout > 2
InstallHook(v) == setup.timeout > 0

(* filter_by_lua and on_event up to the call itself. Installing the hook can      *)
(* fail: the filter returns the error, the event callback goes on without it.     *)
Begin(v, a) ==
    /\ call[v] = Idle /\ setup[v].defined
    /\ call' = [call EXCEPT ![v] = [slices |-> setup[v].slices, elapsed |-> 0, by |-> a]]
    /\ \/ hook' = [hook EXCEPT ![v] = InstallHook(v)]
       \/ v = "event" /\ setup.timeout > 0 /\ UNCHANGED hook

Busy(v) == call[v] # Idle /\ ~setup[v].native

Tick(v) ==
    /\ call[v] # Idle /\ call[v].elapsed < setup.timeout
    /\ call' = [call EXCEPT ![v].elapsed = @ + 1]
    /\ UNCHANGED <<setup, startup, hook, holder, stage, received, queue, worker, deleted, cancelled,
                   has_error, outcome>>

(* Every 1000 instructions the hook compares the time with the deadline. *)
TimedOut(v) == hook[v] /\ call[v].elapsed >= setup.timeout

(* The script runs another slice, or catches the error of the hook and goes on. *)
Slice(v) ==
    /\ Busy(v) /\ call[v].slices > 0
    /\ ~TimedOut(v) \/ setup[v].catches
    /\ call[v].slices # Forever
    /\ call' = [call EXCEPT ![v].slices = @ - 1]
    /\ UNCHANGED <<setup, startup, hook, holder, stage, received, queue, worker, deleted, cancelled,
                   has_error, outcome>>

(* The call returns with r; the hook is removed. *)
Finished(v, r) ==
    /\ Busy(v)
    /\ \/ call[v].slices = 0 /\ r = Verdict(v)
       \/ TimedOut(v) /\ ~setup[v].catches /\ r = "error"
RemoveHook(v, r) == hook' = [hook EXCEPT ![v] = FALSE]
End(v, r) ==
    /\ Finished(v, r)
    /\ call' = [call EXCEPT ![v] = Idle]
    /\ RemoveHook(v, r)

-----------------------------------------------------------------------------
(* Events: both tasks enter the callback through its mutex. *)

LockEvents(a) == holder = Nobody /\ holder' = a
(* on_event begins; a script without the function only causes a warning. *)
OnEvent(a, then) ==
    /\ LockEvents(a)
    /\ IF setup.event.defined
       THEN Begin("event", a) /\ then = "in event"
       ELSE UNCHANGED <<call, hook>> /\ then = "unlock"
(* Whatever it comes to, the event callback returns: an error is a warning. *)
EventReturns(a) == holder = a /\ call["event"].by = a /\ \E r \in {"pass", "reject", "error"} : End("event", r)
Unlock(a) == holder = a /\ holder' = Nobody

-----------------------------------------------------------------------------
(* The user-defined filter stage. *)

StageUnchanged == UNCHANGED <<setup, startup, worker, deleted>>

(* select!: an object, or the cancellation. A running script is not interrupted.  *)
Receive ==
    /\ Running /\ stage = "receive" /\ received < Listing
    /\ received' = received + 1
    /\ stage' = "call"
    /\ StageUnchanged /\ UNCHANGED <<call, hook, holder, queue, cancelled, has_error, outcome>>
StageCancelled ==
    /\ Running /\ stage = "receive" /\ cancelled
    /\ stage' = "done"
    /\ StageUnchanged /\ UNCHANGED <<call, hook, holder, received, queue, cancelled, has_error, outcome>>
StageCompleted ==
    /\ Running /\ stage = "receive" /\ received = Listing
    /\ stage' = "done"
    /\ StageUnchanged /\ UNCHANGED <<call, hook, holder, received, queue, cancelled, has_error, outcome>>

ExecuteFilter ==
    /\ stage = "call"
    /\ \/ Begin("filter", "stage") /\ stage' = "in filter" /\ UNCHANGED outcome
       \/ /\ ~setup.filter.defined \/ setup.timeout > 0     \* no function, or no hook
          /\ UNCHANGED <<call, hook>>
          /\ stage' = "event" /\ outcome' = Append(outcome, "error")
    /\ StageUnchanged /\ UNCHANGED <<holder, received, queue, cancelled, has_error>>

(* Faulty: an object whose filter failed is let through. *)
ForwardsUnlessRejected(r) == r # "reject"
Forwards(r) == r = "pass"

FilterReturns ==
    /\ stage = "in filter"
    /\ \E r \in {"pass", "reject", "error"} :
          /\ End("filter", r)
          /\ outcome' = Append(outcome, r)
          /\ IF Forwards(r)
             THEN queue' = Append(queue, received) /\ stage' = "receive"
             ELSE UNCHANGED queue /\ stage' = "event"
    /\ StageUnchanged /\ UNCHANGED <<holder, received, cancelled, has_error>>

(* The event of a rejected object, or of the error that then cancels the run. *)
LastOutcome == outcome[Len(outcome)]
(* Faulty: an object whose filter failed is skipped like a rejected one. *)
AfterEventContinue == "receive"
AfterEvent == IF LastOutcome = "error" THEN "failed" ELSE "receive"
StageEvent ==
    /\ stage = "event"
    /\ \E then \in {"in event", "unlock"} : OnEvent("stage", then) /\ stage' = then
    /\ StageUnchanged /\ UNCHANGED <<received, queue, cancelled, has_error, outcome>>
StageEventReturns ==
    /\ stage = "in event" /\ EventReturns("stage") /\ stage' = "unlock"
    /\ StageUnchanged /\ UNCHANGED <<holder, received, queue, cancelled, has_error, outcome>>
StageUnlocks ==
    /\ stage = "unlock" /\ Unlock("stage")
    /\ stage' = AfterEvent
    /\ StageUnchanged /\ UNCHANGED <<call, hook, received, queue, cancelled, has_error, outcome>>
StageFails ==
    /\ stage = "failed"
    /\ cancelled' = TRUE /\ has_error' = TRUE /\ stage' = "done"
    /\ StageUnchanged /\ UNCHANGED <<call, hook, holder, received, queue, outcome>>

StageStep ==
    \/ Receive \/ StageCancelled \/ StageCompleted \/ ExecuteFilter \/ FilterReturns \/ StageEvent
    \/ StageEventReturns \/ StageUnlocks \/ StageFails

-----------------------------------------------------------------------------
(* The delete worker. *)

WorkerUnchanged == UNCHANGED <<setup, startup, stage, received, cancelled, has_error, outcome>>

Delete ==
    /\ Running /\ worker = "receive" /\ queue # <<>>
    /\ deleted' = deleted \cup {Head(queue)} /\ queue' = Tail(queue)
    /\ worker' = "event"
    /\ WorkerUnchanged /\ UNCHANGED <<call, hook, holder>>
WorkerEvent ==
    /\ worker = "event"
    /\ \E then \in {"in event", "unlock"} : OnEvent("worker", then) /\ worker' = then
    /\ WorkerUnchanged /\ UNCHANGED <<queue, deleted>>
WorkerEventReturns ==
    /\ worker = "in event" /\ EventReturns("worker") /\ worker' = "unlock"
    /\ WorkerUnchanged /\ UNCHANGED <<holder, queue, deleted>>
WorkerUnlocks ==
    /\ worker = "unlock" /\ Unlock("worker") /\ worker' = "receive"
    /\ WorkerUnchanged /\ UNCHANGED <<call, hook, queue, deleted>>
(* The channel is closed, or the run is cancelled. *)
WorkerEnds ==
    /\ Running /\ worker = "receive"
    /\ cancelled \/ (stage = "done" /\ queue = <<>>)
    /\ worker' = "done"
    /\ WorkerUnchanged /\ UNCHANGED <<call, hook, holder, queue, deleted>>

WorkerStep == Delete \/ WorkerEvent \/ WorkerEventReturns \/ WorkerUnlocks \/ WorkerEnds

(* Ctrl+C. *)
Cancel ==
    /\ Running /\ ~cancelled /\ cancelled' = TRUE
    /\ UNCHANGED <<setup, startup, call, hook, holder, stage, received, queue, worker, deleted,
                   has_error, outcome>>

Next ==
    \/ LoadFilter \/ LoadEvent \/ Cancel
    \/ StageStep \/ WorkerStep
    \/ \E v \in VMs : Tick(v) \/ Slice(v)

(* The tasks and the VMs make progress, time passes, the mutex is fair. *)
Spec ==
    /\ Init /\ [][Next]_vars
    /\ WF_vars(LoadFilter \/ LoadEvent) /\ WF_vars(WorkerStep)
    /\ WF_vars(StageStep) /\ SF_vars(StageEvent) /\ SF_vars(WorkerEvent)
    /\ \A v \in VMs : WF_vars(Tick(v)) /\ WF_vars(Slice(v))

-----------------------------------------------------------------------------
(* Properties. *)

(* Every variable has its type, a task is inside the event callback only while it  *)
(* holds the mutex, and no hook outlives its call.                                *)
TypeOK ==
    /\ startup \in {"load filter", "load event", "running", "refused"}
    /\ \A v \in VMs : call[v].elapsed <= setup.timeout /\ call[v].by \in {Nobody, "stage", "worker"}
    /\ stage \in {"in event", "unlock"} => holder = "stage"
    /\ worker \in {"in event", "unlock"} => holder = "worker"
    /\ hook \in [VMs -> BOOLEAN] /\ \A v \in VMs : hook[v] => call[v] # Idle
    /\ holder \in {Nobody, "stage", "worker"}
    /\ received \in 0 .. Listing /\ deleted \subseteq 1 .. Listing
    /\ cancelled \in BOOLEAN /\ has_error \in BOOLEAN

(* The filter fails closed: an object is deleted only if the script was called    *)
(* for this object and returned a true value, never after an error, a timeout, a  *)
(* missing function or a hook that could not be installed.                        *)
FailsClosed == \A i \in deleted \cup {queue[j] : j \in DOMAIN queue} : outcome[i] = "pass"

(* After a filter error no further object is received or filtered, and the stage  *)
(* leaves a failed and cancelled run behind (README: "s3rm will stop the          *)
(* operation"); the event script, on the other hand, never fails the run,         *)
(* whatever it does.                                                              *)
OnlyFilterErrorsStop ==
    /\ has_error => outcome # <<>> /\ LastOutcome = "error"
    /\ \A i \in DOMAIN outcome : outcome[i] = "error" =>
          /\ i = Len(outcome) /\ received = i
          /\ stage = "done" => has_error /\ cancelled

(* A script that neither catches errors nor hangs in native code cannot hang the  *)
(* run if a timeout is set: the filter and, unless its hook could not be          *)
(* installed, the event callback return.                                          *)
Tame(s) == ~s.native /\ s.top # "loops" /\ (s.slices # Forever \/ ~s.catches)
EndsAlone(s) == s.slices # Forever
TameRunEnds ==
    /\ Tame(setup.filter) /\ Tame(setup.event) /\ EndsAlone(setup.event)
    /\ setup.timeout > 0 \/ EndsAlone(setup.filter)
    => <>(startup = "refused" \/ (stage = "done" /\ worker = "done"))

=============================================================================
