------------------------------ MODULE Pipeline ------------------------------
(* DeletionPipeline::run with the tasks it spawns, and the command line program   *)
(* around it: lister, filter stages, delete workers and Terminator, connected by  *)
(* bounded channels; a detached supervisor for each task but the Terminator; the  *)
(* Ctrl+C handler; and the computation of the exit code.                          *)
(*                                                                                *)
(* What a stage does with an object is reduced to what the other tasks see of it: *)
(* messages on channels, the cancellation token, the shared flags and the events  *)
(* it triggers. A channel is the number of objects in it. A channel closes for    *)
(* its receivers when all senders are dropped, and for its senders when all       *)
(* receivers are; a task drops its ends when its inner future ends, which is      *)
(* before its supervisor learns of it.                                            *)
(*                                                                                *)
(* Left out: a panic of the Terminator or of the progress indicator, neither of   *)
(* which runs code that can fail, and the worker's reaction to a closed output    *)
(* channel, which only such a panic could bring about.                            *)
EXTENDS Naturals, FiniteSets

CONSTANTS
    Filters,      \* number of filter stages
    Workers,      \* delete workers
    QueueSize,    \* capacity of a channel
    MaxFaults,    \* bound: how many tasks may fail or panic in one run
    Configs       \* the configurations a run may be started with

ASSUME PipelineAssumption ==
    /\ Filters \in Nat
    /\ IsFiniteSet(Workers) /\ Workers # {} /\ Workers \cap (0 .. Filters) = {}
    /\ QueueSize \in Nat \ {0}
    /\ MaxFaults \in Nat
    /\ Configs \subseteq [warn_as_error : BOOLEAN, cli : BOOLEAN, user_filter : BOOLEAN,
                          objects : Nat]
    /\ (\E c \in Configs : c.user_filter) => Filters > 0

Stages == 0 .. Filters              \* 0 is the lister, i > 0 the i-th filter
Tasks == Stages \cup Workers        \* everything that has a supervisor
Channels == 0 .. Filters + 1        \* channel i is the output of stage i; the last
                                    \* one leads from the workers to the Terminator
Last == Filters + 1

VARIABLES
    config,       \* how the run was started, and config.objects, what the lister finds
    main,         \* where main / run() is
    pc,           \* where each task is
    final,        \* the worker has seen its channel closed
    result,       \* how the inner future of a task ended
    sup,          \* where the supervisor of a task is
    terminator,   \* the Terminator runs
    queue,        \* objects in each channel
    listed,       \* objects the lister has sent
    faults,       \* failures and panics so far
    cancelled, has_error, has_panic, has_warning,
    handler,      \* the Ctrl+C handler
    ctrl_c,       \* CTRL_C_RECEIVED
    end_fired,    \* PIPELINE_END was triggered
    exit,         \* the exit code, once there is one
    late,         \* history: a stage triggered an event after PIPELINE_END
    failedKeys,   \* history: some deletion failed
    cause         \* history: who cancelled the token while execute_pipeline ran

flags == <<cancelled, has_error, has_panic, has_warning>>
tasks == <<pc, final, result, sup, terminator, queue, listed, faults>>
signal == <<handler, ctrl_c>>
program == <<config, main, end_fired, exit>>
history == <<late, failedKeys, cause>>
vars == <<program, tasks, flags, signal, history>>

NoExit == 999
SIGINT_EXIT_CODE == 130
EXIT_CODE_ABNORMAL_TERMINATION == 101
EXIT_CODE_WARNING == 3

Init ==
    /\ config \in Configs
    /\ main = IF config.cli THEN "check" ELSE "run"
    /\ pc = [t \in Tasks |-> "idle"]
    /\ final = [w \in Workers |-> FALSE]
    /\ result = [t \in Tasks |-> "none"]
    /\ sup = [t \in Tasks |-> "watch"]
    /\ terminator = TRUE
    /\ queue = [c \in Channels |-> 0]
    /\ listed = 0
    /\ faults = 0
    /\ cancelled = FALSE /\ has_error = FALSE /\ has_panic = FALSE /\ has_warning = FALSE
    /\ handler = "off"
    /\ ctrl_c = FALSE
    /\ end_fired = FALSE
    /\ exit = NoExit
    /\ late = FALSE
    /\ failedKeys = FALSE
    /\ cause = "nobody"

-----------------------------------------------------------------------------
(* Channels. *)

Running(t) == pc[t] \notin {"idle", "ended"}
SendersDropped(c) ==
    IF c = Last THEN \A w \in Workers : ~Running(w) ELSE ~Running(c)
(* Faulty: delete_objects keeps the receiver the workers' clones are made from. *)
ReceiversDroppedButOne(c) ==
    IF c = Last THEN ~terminator ELSE IF c = Filters THEN FALSE ELSE ~Running(c + 1)
ReceiversDropped(c) ==
    IF c = Last THEN ~terminator
    ELSE IF c = Filters THEN \A w \in Workers : ~Running(w) ELSE ~Running(c + 1)
Room(c) == queue[c] < QueueSize

Put(c) == queue' = [queue EXCEPT ![c] = @ + 1]
Take(c) == queue[c] > 0 /\ queue' = [queue EXCEPT ![c] = @ - 1]

(* The command line program ends the process, and every task with it; after a     *)
(* library call the tasks run on.                                                 *)
Alive == ~(config.cli /\ main = "exited")

At(t, l) == Alive /\ pc[t] = l
Goto(t, l) == pc' = [pc EXCEPT ![t] = l]

(* The inner future of t ends: its channel ends are dropped. *)
End(t, r) == Goto(t, "ended") /\ result' = [result EXCEPT ![t] = r]

(* cancellation_token.cancel() by who; one that comes after the Terminator has    *)
(* ended is not what stops the run.                                               *)
CancelBy(who) ==
    /\ cancelled' = TRUE
    /\ cause' = IF cancelled \/ ~terminator THEN cause ELSE who

(* The event manager triggers an event for a stage. *)
Trigger == late' = (late \/ end_fired)

(* A task fails or panics; a fault that cancels the token itself does so before   *)
(* the future ends.                                                               *)
Fault(t, r, cancels) ==
    /\ faults < MaxFaults
    /\ faults' = faults + 1
    /\ End(t, r)
    /\ IF cancels THEN CancelBy("stage") ELSE UNCHANGED <<cancelled, cause>>

-----------------------------------------------------------------------------
(* The lister: ObjectLister::list_target with the storage's send loop. *)

ListerCheck ==
    /\ At(0, "check")
    /\ IF cancelled \/ listed = config.objects THEN End(0, "ok") ELSE Goto(0, "send") /\ UNCHANGED result
    /\ UNCHANGED <<program, final, sup, terminator, queue, listed, faults, flags, signal, history>>

ListerSend ==
    /\ At(0, "send")
    /\ ~ReceiversDropped(0) /\ Room(0)
    /\ Put(0)
    /\ listed' = listed + 1
    /\ Goto(0, "check")
    /\ UNCHANGED <<program, final, result, sup, terminator, faults, flags, signal, history>>

ListerClosed ==
    /\ At(0, "send")
    /\ ReceiversDropped(0)
    /\ End(0, "ok")
    /\ UNCHANGED <<program, final, sup, terminator, queue, listed, faults, flags, signal, history>>

(* A list request fails (in a sub-listing, after cancelling) or the task panics. *)
ListerFault ==
    /\ At(0, "check")
    /\ Fault(0, "err", TRUE) \/ Fault(0, "err", FALSE) \/ Fault(0, "panic", FALSE)
    /\ UNCHANGED <<program, final, sup, terminator, queue, listed, has_error, has_panic,
                   has_warning, signal, late, failedKeys>>

-----------------------------------------------------------------------------
(* The filter stages. *)

(* The user-defined filter, if a callback is registered, is the last stage. *)
IsUser(f) == config.user_filter /\ f = Filters

(* receive_and_filter of the built-in filters looks at the token only between     *)
(* objects and then waits for the channel alone.                                  *)
FilterCheck(f) ==
    /\ At(f, "check")
    /\ IF cancelled /\ ~IsUser(f) THEN End(f, "ok") ELSE Goto(f, "recv") /\ UNCHANGED result
    /\ UNCHANGED <<program, final, sup, terminator, queue, listed, faults, flags, signal, history>>

FilterReceive(f) ==
    /\ At(f, "recv")
    /\ Take(f - 1)
    /\ Goto(f, "have")
    /\ UNCHANGED <<program, final, result, sup, terminator, listed, faults, flags, signal, history>>

FilterReceiveClosed(f) ==
    /\ At(f, "recv")
    /\ queue[f - 1] = 0 /\ SendersDropped(f - 1)
    /\ End(f, "ok")
    /\ UNCHANGED <<program, final, sup, terminator, queue, listed, faults, flags, signal, history>>

(* The user-defined filter selects between the channel and the token. *)
FilterCancelled(f) ==
    /\ IsUser(f)
    /\ At(f, "recv")
    /\ cancelled
    /\ End(f, "ok")
    /\ UNCHANGED <<program, final, sup, terminator, queue, listed, faults, flags, signal, history>>

FilterReject(f) ==
    /\ At(f, "have")
    /\ Goto(f, "check")
    /\ Trigger
    /\ UNCHANGED <<program, final, result, sup, terminator, queue, listed, faults, flags, signal,
                   failedKeys, cause>>

FilterPass(f) ==
    /\ At(f, "have")
    /\ Goto(f, "send")
    /\ UNCHANGED <<program, final, result, sup, terminator, queue, listed, faults, flags, signal,
                   history>>

FilterSend(f) ==
    /\ At(f, "send")
    /\ ~ReceiversDropped(f) /\ Room(f)
    /\ Put(f)
    /\ Goto(f, "check")
    /\ UNCHANGED <<program, final, result, sup, terminator, listed, faults, flags, signal, history>>

FilterClosed(f) ==
    /\ At(f, "send")
    /\ ReceiversDropped(f)
    /\ End(f, "ok")
    /\ UNCHANGED <<program, final, sup, terminator, queue, listed, faults, flags, signal, history>>

(* A callback panics, or the user's filter callback fails: the stage then         *)
(* triggers PIPELINE_ERROR and cancels before it returns the error.               *)
FilterFault(f) ==
    /\ At(f, "have")
    /\ \/ Fault(f, "panic", FALSE) /\ UNCHANGED late
       \/ IsUser(f) /\ Fault(f, "err", TRUE) /\ Trigger
    /\ UNCHANGED <<program, final, sup, terminator, queue, listed, has_error, has_panic,
                   has_warning, signal, failedKeys>>

-----------------------------------------------------------------------------
(* The delete workers, as the rest of the pipeline sees them. Module              *)
(* ObjectDeleter has the detail.                                                  *)

WorkerReceive(w) ==
    /\ At(w, "recv")
    /\ Take(Filters)
    /\ Goto(w, "have")
    /\ UNCHANGED <<program, final, result, sup, terminator, listed, faults, flags, signal, history>>

(* The channel is closed: the rest of the buffer is deleted before the end. *)
WorkerReceiveClosed(w) ==
    /\ At(w, "recv")
    /\ queue[Filters] = 0 /\ SendersDropped(Filters)
    /\ Goto(w, "have")
    /\ final' = [final EXCEPT ![w] = TRUE]
    /\ UNCHANGED <<program, result, sup, terminator, queue, listed, faults, flags, signal, history>>

WorkerCancelled(w) ==
    /\ At(w, "recv")
    /\ cancelled
    /\ End(w, "ok")
    /\ UNCHANGED <<program, final, sup, terminator, queue, listed, faults, flags, signal, history>>

(* The object is skipped, or it only joins the buffer, or there is nothing to     *)
(* flush at the end.                                                              *)
WorkerNothingToDelete(w) ==
    /\ At(w, "have")
    /\ Goto(w, "next")
    /\ UNCHANGED <<program, final, result, sup, terminator, queue, listed, faults, flags, signal,
                   history>>

(* A batch was deleted and its events triggered; it is forwarded. *)
WorkerDeleted(w) ==
    /\ At(w, "have")
    /\ Goto(w, "send")
    /\ Trigger
    /\ UNCHANGED <<program, final, result, sup, terminator, queue, listed, faults, flags, signal,
                   failedKeys, cause>>

(* A deletion failed: a DELETE_FAILED event and the warning flag, and under       *)
(* warn_as_error the token instead of forwarding. Reaching --max-delete looks     *)
(* the same from here, with the token always.                                     *)
WorkerFailedKey(w) ==
    /\ At(w, "have")
    /\ Trigger
    /\ has_warning' = TRUE
    /\ failedKeys' = TRUE
    /\ \/ ~config.warn_as_error /\ Goto(w, "send") /\ UNCHANGED <<cancelled, cause>>
       \/ Goto(w, "next") /\ CancelBy("stage")
    /\ UNCHANGED <<program, final, result, sup, terminator, queue, listed, faults, has_error,
                   has_panic, signal>>

WorkerForward(w) ==
    /\ At(w, "send")
    /\ Room(Last)
    /\ Put(Last)
    /\ Goto(w, "next")
    /\ UNCHANGED <<program, final, result, sup, terminator, listed, faults, flags, signal, history>>

(* process_object, or the final flush, returned Ok. *)
WorkerNext(w) ==
    /\ At(w, "next")
    /\ IF cancelled \/ final[w] THEN End(w, "ok") ELSE Goto(w, "recv") /\ UNCHANGED result
    /\ UNCHANGED <<program, final, sup, terminator, queue, listed, faults, flags, signal, history>>

(* An API call fails (after cancelling), a regex engine fails, a callback panics. *)
WorkerFault(w) ==
    /\ At(w, "have")
    /\ Fault(w, "err", TRUE) \/ Fault(w, "err", FALSE) \/ Fault(w, "panic", FALSE)
    /\ UNCHANGED <<program, final, sup, terminator, queue, listed, has_error, has_panic,
                   has_warning, signal, late, failedKeys>>

-----------------------------------------------------------------------------
(* The Terminator. *)

(* Faulty: it gives up at a cancellation. *)
TerminatorMayEndEarly == cancelled \/ (queue[Last] = 0 /\ SendersDropped(Last))
(* Faulty: it polls, and takes an empty channel for a closed one. *)
TerminatorMayEndWhenEmpty == queue[Last] = 0
TerminatorMayEnd == queue[Last] = 0 /\ SendersDropped(Last)

TerminatorReceive ==
    /\ terminator /\ main = "await"
    /\ Take(Last)
    /\ UNCHANGED <<program, pc, final, result, sup, terminator, listed, faults, flags, signal,
                   history>>

TerminatorEnd ==
    /\ terminator /\ main = "await"
    /\ TerminatorMayEnd
    /\ terminator' = FALSE
    /\ UNCHANGED <<program, pc, final, result, sup, queue, listed, faults, flags, signal, history>>

-----------------------------------------------------------------------------
(* The supervisor of a task: it learns the result after the inner future is       *)
(* dropped, cancels, and then sets the flags one after the other.                 *)

SupSet(t, l) ==
    /\ sup' = [sup EXCEPT ![t] = l]
    /\ UNCHANGED <<program, pc, final, result, terminator, queue, listed, faults, has_warning,
                   signal, late, failedKeys>>

SupJoin(t) ==
    /\ Alive /\ sup[t] = "watch" /\ pc[t] = "ended"
    /\ IF result[t] = "ok"
       THEN SupSet(t, "done") /\ UNCHANGED <<cancelled, cause>>
       ELSE SupSet(t, "error") /\ CancelBy("stage")
    /\ UNCHANGED <<has_error, has_panic>>

SupError(t) ==
    /\ Alive /\ sup[t] = "error"
    /\ has_error' = TRUE
    /\ SupSet(t, IF result[t] = "panic" THEN "panic" ELSE "done")
    /\ UNCHANGED <<cancelled, has_panic, cause>>

SupPanic(t) ==
    /\ Alive /\ sup[t] = "panic"
    /\ has_panic' = TRUE
    /\ SupSet(t, "done")
    /\ UNCHANGED <<cancelled, has_error, cause>>

-----------------------------------------------------------------------------
(* DeletionPipeline::run and the program around it. *)

Step(m) == main' = m

(* main: check_prerequisites before anything is started. A refusal at the prompt  *)
(* is exit code 0, an invalid configuration 2, a failed request 1.                *)
CheckPrerequisites ==
    /\ main = "check"
    /\ \/ Step("run") /\ handler' = "wait" /\ UNCHANGED exit
       \/ Step("exited") /\ exit' \in {0, 1, 2} /\ UNCHANGED handler
    /\ UNCHANGED <<config, end_fired, tasks, flags, ctrl_c, history>>

(* run: a library caller's prerequisites are checked here, and a failure is       *)
(* recorded; otherwise execute_pipeline spawns all tasks.                         *)
RunRefused ==
    /\ main = "run" /\ ~config.cli
    /\ has_error' = TRUE
    /\ Step("shutdown")
    /\ UNCHANGED <<config, end_fired, exit, tasks, cancelled, has_panic, has_warning, signal,
                   history>>

RunSpawn ==
    /\ main = "run"
    /\ pc' = [t \in Tasks |-> IF t \in Workers THEN "recv" ELSE "check"]
    /\ Step("await")
    /\ UNCHANGED <<config, end_fired, exit, final, result, sup, terminator, queue, listed, faults,
                   flags, signal, history>>

(* Only the Terminator's handle is awaited. *)
AwaitTerminator ==
    /\ main = "await"
    /\ ~terminator
    /\ Step("promote")
    /\ UNCHANGED <<config, end_fired, exit, tasks, flags, signal, history>>

PromoteWarnings ==
    /\ main = "promote"
    /\ has_error' = (has_error \/ (config.warn_as_error /\ has_warning))
    /\ Step("shutdown")
    /\ UNCHANGED <<config, end_fired, exit, tasks, cancelled, has_panic, has_warning, signal,
                   history>>

(* shutdown and fire_completion_events: PIPELINE_ERROR and DELETE_CANCEL depend   *)
(* on the flags of the moment, PIPELINE_END is always the last.                   *)
FireCompletionEvents ==
    /\ main = "shutdown"
    /\ end_fired' = TRUE
    /\ Step(IF config.cli THEN "ctrl_c" ELSE "exited")
    /\ UNCHANGED <<config, exit, tasks, flags, signal, history>>

(* main reads CTRL_C_RECEIVED, has_error, has_panic and has_warning in turn. *)
ExitCtrlC ==
    /\ main = "ctrl_c"
    /\ IF ctrl_c THEN Step("exited") /\ exit' = SIGINT_EXIT_CODE
       ELSE Step("error") /\ UNCHANGED exit
    /\ UNCHANGED <<config, end_fired, tasks, flags, signal, history>>

ExitError ==
    /\ main = "error"
    /\ Step(IF has_error THEN "panic" ELSE "warning")
    /\ UNCHANGED <<config, end_fired, exit, tasks, flags, signal, history>>

ExitPanic ==
    /\ main = "panic"
    /\ Step("exited")
    /\ exit' = IF has_panic THEN EXIT_CODE_ABNORMAL_TERMINATION ELSE 1
    /\ UNCHANGED <<config, end_fired, tasks, flags, signal, history>>

ExitWarning ==
    /\ main = "warning"
    /\ Step("exited")
    /\ exit' = IF has_warning THEN EXIT_CODE_WARNING ELSE 0
    /\ UNCHANGED <<config, end_fired, tasks, flags, signal, history>>

-----------------------------------------------------------------------------
(* The Ctrl+C handler: the flag is stored before the token is cancelled (faulty:  *)
(* after), and the handler is gone once the token is cancelled by someone else.   *)

HandlerFirstCancel == "cancel"
HandlerFirst == "store"
HandlerThen == IF HandlerFirst = "store" THEN "cancel" ELSE "store"

CtrlC ==
    /\ Alive /\ handler = "wait"
    /\ handler' = HandlerFirst
    /\ UNCHANGED <<program, tasks, flags, ctrl_c, history>>

HandlerStep ==
    /\ Alive
    /\ \/ /\ handler = "store"
          /\ ctrl_c' = TRUE
          /\ UNCHANGED <<cancelled, cause>>
       \/ /\ handler = "cancel"
          /\ CancelBy("ctrl_c")
          /\ UNCHANGED ctrl_c
    /\ handler' = IF handler = HandlerFirst THEN HandlerThen ELSE "off"
    /\ UNCHANGED <<program, tasks, has_error, has_panic, has_warning, late, failedKeys>>

HandlerGone ==
    /\ Alive /\ handler = "wait"
    /\ cancelled
    /\ handler' = "off"
    /\ UNCHANGED <<program, tasks, flags, ctrl_c, history>>

(* A library caller cancels the token it passed to DeletionPipeline::new. *)
CallerCancels ==
    /\ ~config.cli
    /\ ~cancelled
    /\ main # "exited"
    /\ CancelBy("caller")
    /\ UNCHANGED <<program, tasks, has_error, has_panic, has_warning, signal, late, failedKeys>>

-----------------------------------------------------------------------------

ListerStep == ListerCheck \/ ListerSend \/ ListerClosed \/ ListerFault
FilterStep(f) ==
    \/ FilterCheck(f) \/ FilterReceive(f) \/ FilterReceiveClosed(f) \/ FilterCancelled(f)
    \/ FilterReject(f) \/ FilterPass(f) \/ FilterSend(f) \/ FilterClosed(f) \/ FilterFault(f)
WorkerStep(w) ==
    \/ WorkerReceive(w) \/ WorkerReceiveClosed(w) \/ WorkerCancelled(w)
    \/ WorkerNothingToDelete(w) \/ WorkerDeleted(w) \/ WorkerFailedKey(w)
    \/ WorkerForward(w) \/ WorkerNext(w) \/ WorkerFault(w)
TerminatorStep == TerminatorReceive \/ TerminatorEnd
SupStep(t) == SupJoin(t) \/ SupError(t) \/ SupPanic(t)
MainStep ==
    \/ CheckPrerequisites \/ RunRefused \/ RunSpawn \/ AwaitTerminator \/ PromoteWarnings
    \/ FireCompletionEvents \/ ExitCtrlC \/ ExitError \/ ExitPanic \/ ExitWarning

Terminated == main = "exited" /\ UNCHANGED vars

Next ==
    \/ MainStep \/ ListerStep \/ TerminatorStep
    \/ \E f \in 1 .. Filters : FilterStep(f)
    \/ \E w \in Workers : WorkerStep(w)
    \/ \E t \in Tasks : SupStep(t)
    \/ CtrlC \/ HandlerStep \/ HandlerGone \/ CallerCancels
    \/ Terminated

Spec == Init /\ [][Next]_vars

(* The runtime polls every ready task, and S3 and the callbacks answer. Nobody is *)
(* obliged to press Ctrl+C or to cancel.                                          *)
Fairness ==
    /\ WF_vars(MainStep)
    /\ WF_vars(ListerStep)
    /\ WF_vars(TerminatorStep)
    /\ \A f \in 1 .. Filters : WF_vars(FilterStep(f))
    /\ \A w \in Workers : WF_vars(WorkerStep(w))
    /\ \A t \in Tasks : WF_vars(SupStep(t))
    /\ WF_vars(HandlerStep)

FairSpec == Spec /\ Fairness

-----------------------------------------------------------------------------
(* Properties. *)

(* Every variable holds a value of its type, and no channel exceeds its bound. *)
TypeOK ==
    /\ config \in Configs
    /\ main \in {"check", "run", "await", "promote", "shutdown", "ctrl_c", "error", "panic",
                 "warning", "exited"}
    /\ pc \in [Tasks -> {"idle", "check", "recv", "have", "send", "next", "ended"}]
    /\ final \in [Workers -> BOOLEAN]
    /\ result \in [Tasks -> {"none", "ok", "err", "panic"}]
    /\ sup \in [Tasks -> {"watch", "error", "panic", "done"}]
    /\ queue \in [Channels -> 0 .. QueueSize]
    /\ listed \in 0 .. config.objects
    /\ faults \in 0 .. MaxFaults
    /\ terminator \in BOOLEAN /\ end_fired \in BOOLEAN /\ ctrl_c \in BOOLEAN
    /\ cancelled \in BOOLEAN /\ has_error \in BOOLEAN
    /\ has_panic \in BOOLEAN /\ has_warning \in BOOLEAN
    /\ late \in BOOLEAN /\ failedKeys \in BOOLEAN
    /\ handler \in {"off", "wait", "store", "cancel"}
    /\ exit \in {NoExit, 0, 1, 2, EXIT_CODE_WARNING, EXIT_CODE_ABNORMAL_TERMINATION,
                 SIGINT_EXIT_CODE}
    /\ cause \in {"nobody", "stage", "ctrl_c", "caller"}

(* When execute_pipeline goes on, no worker is left that could delete anything:   *)
(* each has dropped its sender, also after a cancellation, an error or a panic.   *)
NoDeletionAfterReturn ==
    main \notin {"check", "run", "await"} => \A w \in Workers : ~Running(w)

(* Failed deletions always show in the exit code, and under --warn-as-error as an *)
(* error and not as a warning: the flag is set before the worker's sender is      *)
(* dropped, and read after the Terminator saw all of them dropped.                *)
FailedKeysShowInExitCode ==
    exit # NoExit /\ failedKeys => exit # 0 /\ (config.warn_as_error => exit # EXIT_CODE_WARNING)

(* A run that Ctrl+C stopped exits with 130, whatever else the shutdown brings.   *)
(* The handler's comment promises it to all code that sees the cancellation.      *)
CtrlCExitCode ==
    exit # NoExit /\ cause = "ctrl_c" => exit = SIGINT_EXIT_CODE

(* Unless the run was cancelled or a stage failed, PIPELINE_END is the last       *)
(* event: no stage is still at work on an object when the Terminator ends.        *)
EndEventIsLast == late => cancelled \/ faults > 0

(* The run always comes to an end and, with it, all its tasks and supervisors:    *)
(* no stage waits for ever on a full, an empty or an abandoned channel.           *)
RunEnds ==
    <>(main = "exited" /\ (~Alive \/ \A t \in Tasks : pc[t] \in {"idle", "ended"}))

(* README: a panic in any stage makes the program exit with 101. *)
PanicIsNeverSilent ==
    exit # NoExit /\ ~ctrl_c /\ (\E t \in Tasks : result[t] = "panic")
        => exit = EXIT_CODE_ABNORMAL_TERMINATION

=============================================================================
