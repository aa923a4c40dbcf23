--------------------------- MODULE PipelineProofs ---------------------------
(* Proofs about run(), its tasks and the exit code, for every number of filter    *)
(* stages, workers and objects, every queue size and any number of faults.        *)
EXTENDS Pipeline, TLAPS

USE DEF flags, tasks, signal, program, history, vars

-----------------------------------------------------------------------------
(* Types. TypeOK is split into what the tasks, the channels and main change. *)

Label == {"idle", "check", "recv", "have", "send", "next", "ended"}
Phase == {"check", "run", "await", "promote", "shutdown", "ctrl_c", "error", "panic",
          "warning", "exited"}

TaskTypes ==
    /\ pc \in [Tasks -> Label]
    /\ final \in [Workers -> BOOLEAN]
    /\ result \in [Tasks -> {"none", "ok", "err", "panic"}]
    /\ sup \in [Tasks -> {"watch", "error", "panic", "done"}]

(* The lister goes on to send only while there is an object to send. *)
ChannelTypes ==
    /\ queue \in [Channels -> 0 .. QueueSize]
    /\ listed \in 0 .. config.objects
    /\ faults \in 0 .. MaxFaults
    /\ pc[0] = "send" => listed < config.objects

FlagTypes ==
    /\ terminator \in BOOLEAN /\ end_fired \in BOOLEAN /\ ctrl_c \in BOOLEAN
    /\ cancelled \in BOOLEAN /\ has_error \in BOOLEAN
    /\ has_panic \in BOOLEAN /\ has_warning \in BOOLEAN
    /\ late \in BOOLEAN /\ failedKeys \in BOOLEAN

ProgramTypes ==
    /\ config \in Configs
    /\ main \in Phase
    /\ handler \in {"off", "wait", "store", "cancel"}
    /\ exit \in {NoExit, 0, 1, 2, EXIT_CODE_WARNING, EXIT_CODE_ABNORMAL_TERMINATION,
                 SIGINT_EXIT_CODE}
    /\ cause \in {"nobody", "stage", "ctrl_c", "caller"}

TypeInv == TaskTypes /\ ChannelTypes /\ FlagTypes /\ ProgramTypes

LEMMA TypeInvSplit == TypeInv => TypeOK
  BY DEF TypeInv, TaskTypes, ChannelTypes, FlagTypes, ProgramTypes, TypeOK, Label, Phase

(* The types of the configuration's fields. *)
LEMMA ConfigTypes ==
    ASSUME config \in Configs
    PROVE  /\ config.warn_as_error \in BOOLEAN /\ config.cli \in BOOLEAN
           /\ config.user_filter \in BOOLEAN /\ config.objects \in Nat
  BY PipelineAssumption

(* Lister, filters and workers are different tasks. *)
LEMMA TaskSets ==
    /\ 0 \in Tasks /\ 0 \in Stages /\ 0 \in Channels
    /\ Workers \subseteq Tasks /\ Workers \cap Stages = {} /\ 0 \notin Workers
    /\ Last \in Channels /\ Filters \in Channels /\ Filters \in Stages
    /\ \A f \in 1 .. Filters : /\ f \in Tasks /\ f \in Stages /\ f # 0 /\ f \notin Workers
                               /\ f \in Channels /\ f - 1 \in Channels /\ f - 1 \in Tasks
  BY PipelineAssumption DEF Tasks, Stages, Channels, Last

LEMMA TypeInit == Init => TypeInv
  <1> SUFFICES ASSUME Init PROVE TypeInv
    OBVIOUS
  <1>1. TaskTypes
    BY DEF Init, TaskTypes, Label
  <1>2. ChannelTypes
    BY PipelineAssumption, ConfigTypes, TaskSets DEF Init, ChannelTypes
  <1>3. FlagTypes
    BY DEF Init, FlagTypes
  <1>4. ProgramTypes
    BY DEF Init, ProgramTypes, Phase
  <1>5. QED
    BY <1>1, <1>2, <1>3, <1>4 DEF TypeInv

LEMMA TaskTypesKept == TypeInv /\ [Next]_vars => TaskTypes'
  <1> SUFFICES ASSUME TypeInv, [Next]_vars PROVE TaskTypes'
    OBVIOUS
  <1> USE TaskSets DEF TypeInv, TaskTypes, Label, At, Goto, End, Fault
  <1>1. CASE ListerStep
    BY <1>1 DEF ListerStep, ListerCheck, ListerSend, ListerClosed, ListerFault
  <1>2. ASSUME NEW f \in 1 .. Filters, FilterStep(f) PROVE TaskTypes'
    BY <1>2 DEF FilterStep, FilterCheck, FilterReceive, FilterReceiveClosed, FilterCancelled,
                FilterReject, FilterPass, FilterSend, FilterClosed, FilterFault
  <1>3. ASSUME NEW w \in Workers, WorkerStep(w) PROVE TaskTypes'
    BY <1>3 DEF WorkerStep, WorkerReceive, WorkerReceiveClosed, WorkerCancelled,
                WorkerNothingToDelete, WorkerDeleted, WorkerFailedKey, WorkerForward, WorkerNext,
                WorkerFault
  <1>4. ASSUME NEW t \in Tasks, SupStep(t) PROVE TaskTypes'
    BY <1>4 DEF SupStep, SupJoin, SupError, SupPanic, SupSet
  <1>5. CASE MainStep
    BY <1>5 DEF MainStep, CheckPrerequisites, RunRefused, RunSpawn, AwaitTerminator,
                PromoteWarnings, FireCompletionEvents, ExitCtrlC, ExitError, ExitPanic, ExitWarning
  <1>6. CASE TerminatorStep \/ CtrlC \/ HandlerStep \/ HandlerGone \/ CallerCancels \/ UNCHANGED vars
    BY <1>6 DEF TerminatorStep, TerminatorReceive, TerminatorEnd, CtrlC, HandlerStep, HandlerGone,
                CallerCancels
  <1>7. QED
    BY <1>1, <1>2, <1>3, <1>4, <1>5, <1>6 DEF Next, Terminated

LEMMA ChannelTypesKept == TypeInv /\ [Next]_vars => ChannelTypes'
  <1> SUFFICES ASSUME TypeInv, [Next]_vars PROVE ChannelTypes'
    OBVIOUS
  <1>0. config.objects \in Nat /\ config \in Configs /\ QueueSize \in Nat /\ MaxFaults \in Nat
    BY ConfigTypes, PipelineAssumption DEF TypeInv, ProgramTypes
  <1> USE <1>0, TaskSets DEF TypeInv, TaskTypes, Label, ChannelTypes, At, Goto, End, Fault, Put, Take, Room
  <1>1. CASE ListerStep
    BY <1>1 DEF ListerStep, ListerCheck, ListerSend, ListerClosed, ListerFault
  <1>2. ASSUME NEW f \in 1 .. Filters, FilterStep(f) PROVE ChannelTypes'
    BY <1>2 DEF FilterStep, FilterCheck, FilterReceive, FilterReceiveClosed, FilterCancelled,
                FilterReject, FilterPass, FilterSend, FilterClosed, FilterFault
  <1>3. ASSUME NEW w \in Workers, WorkerStep(w) PROVE ChannelTypes'
    BY <1>3 DEF WorkerStep, WorkerReceive, WorkerReceiveClosed, WorkerCancelled,
                WorkerNothingToDelete, WorkerDeleted, WorkerFailedKey, WorkerForward, WorkerNext,
                WorkerFault
  <1>4. ASSUME NEW t \in Tasks, SupStep(t) PROVE ChannelTypes'
    BY <1>4 DEF SupStep, SupJoin, SupError, SupPanic, SupSet
  <1>5. CASE MainStep
    BY <1>5 DEF MainStep, CheckPrerequisites, RunRefused, RunSpawn, AwaitTerminator,
                PromoteWarnings, FireCompletionEvents, ExitCtrlC, ExitError, ExitPanic, ExitWarning
  <1>6. CASE TerminatorStep \/ CtrlC \/ HandlerStep \/ HandlerGone \/ CallerCancels \/ UNCHANGED vars
    BY <1>6 DEF TerminatorStep, TerminatorReceive, TerminatorEnd, CtrlC, HandlerStep, HandlerGone,
                CallerCancels
  <1>7. QED
    BY <1>1, <1>2, <1>3, <1>4, <1>5, <1>6 DEF Next, Terminated

LEMMA FlagTypesKept == FlagTypes /\ [Next]_vars => FlagTypes'
  <1> SUFFICES ASSUME FlagTypes, [Next]_vars PROVE FlagTypes'
    OBVIOUS
  <1> USE DEF FlagTypes, CancelBy, Trigger, Fault, Step
  <1>1. CASE ListerStep
    BY <1>1, ZenonT(40) DEF ListerStep, ListerCheck, ListerSend, ListerClosed, ListerFault
  <1>2. ASSUME NEW f \in 1 .. Filters, FilterStep(f) PROVE FlagTypes'
    <2>1. CASE FilterReject(f)
      BY <2>1 DEF FilterReject
    <2>2. CASE FilterFault(f)
      BY <2>2 DEF FilterFault
    <2>3. CASE FilterCheck(f) \/ FilterReceive(f) \/ FilterReceiveClosed(f) \/ FilterCancelled(f) \/ FilterPass(f)
             \/ FilterSend(f) \/ FilterClosed(f)
      BY <2>3 DEF FilterCheck, FilterReceive, FilterReceiveClosed, FilterCancelled, FilterPass,
                  FilterSend, FilterClosed
    <2>4. QED
      BY <1>2, <2>1, <2>2, <2>3 DEF FilterStep
  <1>3. ASSUME NEW w \in Workers, WorkerStep(w) PROVE FlagTypes'
    <2>1. CASE WorkerDeleted(w)
      BY <2>1 DEF WorkerDeleted
    <2>2. CASE WorkerFailedKey(w)
      BY <2>2 DEF WorkerFailedKey
    <2>3. CASE WorkerFault(w)
      BY <2>3 DEF WorkerFault
    <2>4. CASE WorkerReceive(w) \/ WorkerReceiveClosed(w) \/ WorkerCancelled(w) \/ WorkerNothingToDelete(w)
             \/ WorkerForward(w) \/ WorkerNext(w)
      BY <2>4 DEF WorkerReceive, WorkerReceiveClosed, WorkerCancelled, WorkerNothingToDelete,
                  WorkerForward, WorkerNext
    <2>5. QED
      BY <1>3, <2>1, <2>2, <2>3, <2>4 DEF WorkerStep
  <1>4. ASSUME NEW t \in Tasks, SupStep(t) PROVE FlagTypes'
    <2>1. CASE SupJoin(t)
      <3>1. CASE result[t] = "ok"
        BY <2>1, <3>1, ZenonT(40) DEF SupJoin, SupSet
      <3>2. CASE result[t] # "ok"
        BY <2>1, <3>2, ZenonT(40) DEF SupJoin, SupSet
      <3>3. QED
        BY <3>1, <3>2
    <2>2. CASE SupError(t)
      BY <2>2 DEF SupError, SupSet
    <2>3. CASE SupPanic(t)
      BY <2>3 DEF SupPanic, SupSet
    <2>4. QED
      BY <1>4, <2>1, <2>2, <2>3 DEF SupStep
  <1>5. CASE MainStep
    <2>1. CASE RunRefused
      BY <2>1 DEF RunRefused
    <2>2. CASE PromoteWarnings
      BY <2>2 DEF PromoteWarnings
    <2>3. CASE FireCompletionEvents
      BY <2>3 DEF FireCompletionEvents
    <2>4. CASE CheckPrerequisites \/ RunSpawn \/ AwaitTerminator \/ ExitCtrlC \/ ExitError \/ ExitPanic
             \/ ExitWarning
      BY <2>4 DEF CheckPrerequisites, RunSpawn, AwaitTerminator, ExitCtrlC, ExitError, ExitPanic,
                  ExitWarning
    <2>5. QED
      BY <1>5, <2>1, <2>2, <2>3, <2>4 DEF MainStep
  <1>6. CASE TerminatorStep \/ CtrlC \/ HandlerStep \/ HandlerGone \/ CallerCancels \/ UNCHANGED vars
    BY <1>6, ZenonT(40) DEF TerminatorStep, TerminatorReceive, TerminatorEnd, CtrlC, HandlerStep, HandlerGone,
                CallerCancels, HandlerFirst, HandlerThen
  <1>7. QED
    BY <1>1, <1>2, <1>3, <1>4, <1>5, <1>6 DEF Next, Terminated

LEMMA ProgramTypesKept == TypeInv /\ [Next]_vars => ProgramTypes'
  <1> SUFFICES ASSUME TypeInv, [Next]_vars PROVE ProgramTypes'
    OBVIOUS
  <1> USE DEF TypeInv, ProgramTypes, Phase, CancelBy, Trigger, Fault, Step
  <1>1. CASE ListerStep
    BY <1>1 DEF ListerStep, ListerCheck, ListerSend, ListerClosed, ListerFault
  <1>2. ASSUME NEW f \in 1 .. Filters, FilterStep(f) PROVE ProgramTypes'
    BY <1>2 DEF FilterStep, FilterCheck, FilterReceive, FilterReceiveClosed, FilterCancelled,
                FilterReject, FilterPass, FilterSend, FilterClosed, FilterFault
  <1>3. ASSUME NEW w \in Workers, WorkerStep(w) PROVE ProgramTypes'
    BY <1>3 DEF WorkerStep, WorkerReceive, WorkerReceiveClosed, WorkerCancelled,
                WorkerNothingToDelete, WorkerDeleted, WorkerFailedKey, WorkerForward, WorkerNext,
                WorkerFault
  <1>4. ASSUME NEW t \in Tasks, SupStep(t) PROVE ProgramTypes'
    BY <1>4 DEF SupStep, SupJoin, SupError, SupPanic, SupSet
  <1>5. CASE MainStep
    BY <1>5, ConfigTypes DEF MainStep, CheckPrerequisites, RunRefused, RunSpawn, AwaitTerminator,
                PromoteWarnings, FireCompletionEvents, ExitCtrlC, ExitError, ExitPanic, ExitWarning
  <1>6. CASE TerminatorStep \/ CtrlC \/ HandlerStep \/ HandlerGone \/ CallerCancels \/ UNCHANGED vars
    BY <1>6 DEF TerminatorStep, TerminatorReceive, TerminatorEnd, CtrlC, HandlerStep, HandlerGone,
                CallerCancels, HandlerFirst, HandlerThen
  <1>7. QED
    BY <1>1, <1>2, <1>3, <1>4, <1>5, <1>6 DEF Next, Terminated

LEMMA TypeStep == TypeInv /\ [Next]_vars => TypeInv'
  BY TaskTypesKept, ChannelTypesKept, FlagTypesKept, ProgramTypesKept DEF TypeInv

(* Every variable keeps its type and no channel holds more than its capacity. *)
THEOREM PipelineTypes == Spec => []TypeOK
  BY TypeInit, TypeStep, TypeInvSplit, PTL DEF Spec

-----------------------------------------------------------------------------
(* Nothing runs after run() has returned. The Terminator ends only after every    *)
(* worker has, run() goes on only after the Terminator has ended, and no task is  *)
(* started but by run() itself.                                                   *)

AllIdle == \A t \in Tasks : pc[t] = "idle"
Started == \A t \in Tasks : pc[t] # "idle"

ReturnInv ==
    /\ main \in {"check", "run"} => terminator /\ AllIdle /\ ~end_fired
    /\ main = "await" => Started /\ ~end_fired
    /\ AllIdle \/ Started
    /\ ~terminator => \A w \in Workers : pc[w] = "ended"
    /\ main \notin {"check", "run", "await"} => AllIdle \/ ~terminator

LEMMA ReturnInit == Init => ReturnInv
  BY TaskSets DEF Init, ReturnInv, AllIdle

LEMMA ReturnKept == TypeInv /\ ReturnInv /\ [Next]_vars => ReturnInv'
  <1> SUFFICES ASSUME TypeInv, ReturnInv, [Next]_vars PROVE ReturnInv'
    OBVIOUS
  <1> USE TaskSets DEF TypeInv, TaskTypes, Label, ReturnInv, AllIdle, Started, At, Goto, End, Fault
  <1>1. CASE ListerStep
    BY <1>1 DEF ListerStep, ListerCheck, ListerSend, ListerClosed, ListerFault
  <1>2. ASSUME NEW f \in 1 .. Filters, FilterStep(f) PROVE ReturnInv'
    BY <1>2 DEF FilterStep, FilterCheck, FilterReceive, FilterReceiveClosed, FilterCancelled,
                FilterReject, FilterPass, FilterSend, FilterClosed, FilterFault
  <1>3. ASSUME NEW w \in Workers, WorkerStep(w) PROVE ReturnInv'
    BY <1>3 DEF WorkerStep, WorkerReceive, WorkerReceiveClosed, WorkerCancelled,
                WorkerNothingToDelete, WorkerDeleted, WorkerFailedKey, WorkerForward, WorkerNext,
                WorkerFault
  <1>4. ASSUME NEW t \in Tasks, SupStep(t) PROVE ReturnInv'
    BY <1>4 DEF SupStep, SupJoin, SupError, SupPanic, SupSet
  <1>5. CASE MainStep
    BY <1>5 DEF MainStep, CheckPrerequisites, RunRefused, RunSpawn, AwaitTerminator, Step,
                PromoteWarnings, FireCompletionEvents, ExitCtrlC, ExitError, ExitPanic, ExitWarning
  <1>6. CASE TerminatorStep
    BY <1>6 DEF TerminatorStep, TerminatorReceive, TerminatorEnd, TerminatorMayEnd, SendersDropped, Running
  <1>7. CASE CtrlC \/ HandlerStep \/ HandlerGone \/ CallerCancels \/ UNCHANGED vars
    BY <1>7 DEF CtrlC, HandlerStep, HandlerGone, CallerCancels
  <1>8. QED
    BY <1>1, <1>2, <1>3, <1>4, <1>5, <1>6, <1>7 DEF Next, Terminated

LEMMA ReturnImplies == ReturnInv => NoDeletionAfterReturn
  BY TaskSets DEF ReturnInv, AllIdle, NoDeletionAfterReturn, Running

(* Once run() goes on, no worker is left that could delete anything. *)
THEOREM ReturnIsFinal == Spec => []NoDeletionAfterReturn
  <1>1. Init => TypeInv /\ ReturnInv
    BY TypeInit, ReturnInit
  <1>2. TypeInv /\ ReturnInv /\ [Next]_vars => (TypeInv /\ ReturnInv)'
    BY TypeStep, ReturnKept
  <1>3. QED
    BY <1>1, <1>2, ReturnImplies, PTL DEF Spec

-----------------------------------------------------------------------------
(* Failed deletions and the exit code. Only a running worker sets has_warning, so *)
(* it has its final value when run() promotes it and when main reads it.          *)

WarningInv ==
    /\ failedKeys => has_warning
    /\ AllIdle => ~has_warning
    /\ main \notin {"check", "run", "await", "promote"} /\ config.warn_as_error /\ has_warning
          => has_error
    /\ main = "warning" /\ config.warn_as_error => ~has_warning
    /\ exit # NoExit => main = "exited"
    /\ FailedKeysShowInExitCode

LEMMA WarningInit == Init => WarningInv
  BY TaskSets DEF Init, WarningInv, AllIdle, FailedKeysShowInExitCode

LEMMA WarningKept == TypeInv /\ ReturnInv /\ WarningInv /\ [Next]_vars => WarningInv'
  <1> SUFFICES ASSUME TypeInv, ReturnInv, WarningInv, [Next]_vars PROVE WarningInv'
    OBVIOUS
  <1> USE TaskSets DEF TypeInv, TaskTypes, Label, FlagTypes, ReturnInv, WarningInv, AllIdle, Started,
              FailedKeysShowInExitCode, NoExit, EXIT_CODE_WARNING, SIGINT_EXIT_CODE,
              EXIT_CODE_ABNORMAL_TERMINATION, At, Goto, End, Fault
  <1>1. CASE ListerStep
    BY <1>1 DEF ListerStep, ListerCheck, ListerSend, ListerClosed, ListerFault
  <1>2. ASSUME NEW f \in 1 .. Filters, FilterStep(f) PROVE WarningInv'
    BY <1>2 DEF FilterStep, FilterCheck, FilterReceive, FilterReceiveClosed, FilterCancelled,
                FilterReject, FilterPass, FilterSend, FilterClosed, FilterFault
  <1>3. ASSUME NEW w \in Workers, WorkerStep(w) PROVE WarningInv'
    BY <1>3 DEF WorkerStep, WorkerReceive, WorkerReceiveClosed, WorkerCancelled,
                WorkerNothingToDelete, WorkerDeleted, WorkerFailedKey, WorkerForward, WorkerNext,
                WorkerFault
  <1>4. ASSUME NEW t \in Tasks, SupStep(t) PROVE WarningInv'
    BY <1>4 DEF SupStep, SupJoin, SupError, SupPanic, SupSet
  <1>5. CASE MainStep
    BY <1>5 DEF MainStep, CheckPrerequisites, RunRefused, RunSpawn, AwaitTerminator, Step,
                PromoteWarnings, FireCompletionEvents, ExitCtrlC, ExitError, ExitPanic, ExitWarning
  <1>6. CASE TerminatorStep
    BY <1>6 DEF TerminatorStep, TerminatorReceive, TerminatorEnd
  <1>7. CASE CtrlC \/ HandlerStep \/ HandlerGone \/ CallerCancels \/ UNCHANGED vars
    BY <1>7 DEF CtrlC, HandlerStep, HandlerGone, CallerCancels
  <1>8. QED
    BY <1>1, <1>2, <1>3, <1>4, <1>5, <1>6, <1>7 DEF Next, Terminated

(* A failed deletion always shows in the exit code. *)
THEOREM FailuresShow == Spec => []FailedKeysShowInExitCode
  <1>1. Init => TypeInv /\ ReturnInv /\ WarningInv
    BY TypeInit, ReturnInit, WarningInit
  <1>2. TypeInv /\ ReturnInv /\ WarningInv /\ [Next]_vars => (TypeInv /\ ReturnInv /\ WarningInv)'
    BY TypeStep, ReturnKept, WarningKept
  <1>3. WarningInv => FailedKeysShowInExitCode
    BY DEF WarningInv
  <1>4. QED
    BY <1>1, <1>2, <1>3, PTL DEF Spec

-----------------------------------------------------------------------------
(* Ctrl+C and the exit code. The handler cancels only after it has stored its     *)
(* flag, and a cancellation that stopped the run came before the Terminator       *)
(* ended, so main finds the flag.                                                 *)

CtrlCInv ==
    /\ handler = "cancel" => ctrl_c
    /\ cause = "ctrl_c" => ctrl_c
    /\ main = "check" => config.cli /\ handler = "off" /\ cause # "ctrl_c"
    /\ config.cli /\ main \notin {"check", "run", "await", "exited"} => ~terminator
    /\ main \in {"error", "panic", "warning"} => cause # "ctrl_c"
    /\ main \in {"ctrl_c", "error", "panic", "warning"} => config.cli
    /\ exit # NoExit => main = "exited" /\ config.cli
    /\ CtrlCExitCode

LEMMA CtrlCInit == Init => CtrlCInv
  BY DEF Init, CtrlCInv, CtrlCExitCode

(* What the tasks and their supervisors leave alone: the handler and main, and    *)
(* they cancel in no name but their own.                                          *)
TaskFrame ==
    /\ UNCHANGED <<config, main, handler, ctrl_c, exit, terminator>>
    /\ cause' \in {cause, "stage"}

LEMMA TasksFramed ==
    ASSUME \/ ListerStep
           \/ \E f \in 1 .. Filters : FilterStep(f)
           \/ \E w \in Workers : WorkerStep(w)
           \/ \E t \in Tasks : SupStep(t)
    PROVE  TaskFrame
  <1> USE DEF TaskFrame, Fault, CancelBy
  <1>1. CASE ListerStep
    BY <1>1 DEF ListerStep, ListerCheck, ListerSend, ListerClosed, ListerFault
  <1>2. ASSUME NEW f \in 1 .. Filters, FilterStep(f) PROVE TaskFrame
    BY <1>2 DEF FilterStep, FilterCheck, FilterReceive, FilterReceiveClosed, FilterCancelled,
                FilterReject, FilterPass, FilterSend, FilterClosed, FilterFault
  <1>3. ASSUME NEW w \in Workers, WorkerStep(w) PROVE TaskFrame
    BY <1>3 DEF WorkerStep, WorkerReceive, WorkerReceiveClosed, WorkerCancelled,
                WorkerNothingToDelete, WorkerDeleted, WorkerFailedKey, WorkerForward, WorkerNext,
                WorkerFault
  <1>4. ASSUME NEW t \in Tasks, SupStep(t) PROVE TaskFrame
    BY <1>4 DEF SupStep, SupJoin, SupError, SupPanic, SupSet
  <1>5. QED
    BY <1>1, <1>2, <1>3, <1>4

LEMMA CtrlCKept == TypeInv /\ CtrlCInv /\ [Next]_vars => CtrlCInv'
  <1> SUFFICES ASSUME TypeInv, CtrlCInv, [Next]_vars PROVE CtrlCInv'
    OBVIOUS
  <1> USE ConfigTypes DEF CtrlCInv, CtrlCExitCode
  <1>1. CASE TaskFrame
    BY <1>1 DEF TaskFrame
  <1>2. CASE MainStep
    BY <1>2 DEF MainStep, CheckPrerequisites, RunRefused, RunSpawn, AwaitTerminator, Step,
                PromoteWarnings, FireCompletionEvents, ExitCtrlC, ExitError, ExitPanic,
                ExitWarning, TypeInv, ProgramTypes, Phase, NoExit, SIGINT_EXIT_CODE
  <1>3. CASE TerminatorStep
    BY <1>3 DEF TerminatorStep, TerminatorReceive, TerminatorEnd
  <1>4. CASE CtrlC \/ HandlerStep \/ HandlerGone \/ CallerCancels \/ UNCHANGED vars
    BY <1>4 DEF CtrlC, HandlerStep, HandlerGone, CallerCancels, CancelBy, HandlerFirst,
                HandlerThen, Alive, TypeInv, ProgramTypes, Phase
  <1>5. \/ TaskFrame \/ MainStep \/ TerminatorStep
        \/ CtrlC \/ HandlerStep \/ HandlerGone \/ CallerCancels \/ UNCHANGED vars
    BY TasksFramed DEF Next, Terminated
  <1>6. QED
    BY <1>1, <1>2, <1>3, <1>4, <1>5

(* A run that Ctrl+C stopped exits with 130. *)
THEOREM CtrlCShows == Spec => []CtrlCExitCode
  <1>1. Init => TypeInv /\ CtrlCInv
    BY TypeInit, CtrlCInit
  <1>2. TypeInv /\ CtrlCInv /\ [Next]_vars => (TypeInv /\ CtrlCInv)'
    BY TypeStep, CtrlCKept
  <1>3. CtrlCInv => CtrlCExitCode
    BY DEF CtrlCInv
  <1>4. QED
    BY <1>1, <1>2, <1>3, PTL DEF Spec

-----------------------------------------------------------------------------
(* PIPELINE_END comes last. In a run that nobody cancels and where nothing fails, *)
(* the stages end in the order of the pipeline: a stage only after all the ones   *)
(* before it, a worker only after the last stage.                                 *)

Undisturbed == ~cancelled /\ faults = 0

StageOrder ==
    Undisturbed =>
        /\ \A f \in Stages : \A g \in Stages : g <= f /\ pc[f] = "ended" => pc[g] = "ended"
        /\ \A w \in Workers : pc[w] = "ended" \/ final[w] => pc[Filters] = "ended"

LEMMA StageNumbers ==
    /\ Filters \in Nat
    /\ \A f \in Stages : f \in Nat /\ f <= Filters /\ f \in Tasks /\ f \notin Workers
    /\ \A f \in Stages : f # Filters => f + 1 \in Stages
    /\ \A f \in 1 .. Filters : f - 1 \in Stages
    /\ \A t \in Tasks : t \in Stages \/ t \in Workers
  BY PipelineAssumption DEF Stages, Tasks

(* In such a run a stage never finds its receivers gone. *)
LEMMA ReceiversStay ==
    ASSUME TypeInv, ReturnInv, StageOrder, Undisturbed, NEW f \in Stages,
           pc[f] \notin {"idle", "ended"}
    PROVE  ~ReceiversDropped(f)
  <1>1. Started
    BY StageNumbers DEF ReturnInv, AllIdle
  <1>2. CASE f = Filters
    <2>1. PICK w \in Workers : TRUE
      BY PipelineAssumption
    <2>2. pc[w] # "ended" /\ pc[w] # "idle"
      BY <1>1, <1>2, TaskSets DEF StageOrder, Started
    <2>3. f # Last
      BY <1>2, StageNumbers DEF Last
    <2>4. QED
      BY <1>2, <2>2, <2>3 DEF ReceiversDropped, Running
  <1>3. CASE f # Filters
    <2>1. f + 1 \in Stages /\ f <= f + 1 /\ f # Last
      BY <1>3, StageNumbers DEF Last
    <2>2. pc[f + 1] # "ended" /\ pc[f + 1] # "idle"
      BY <1>1, <2>1, StageNumbers DEF StageOrder, Started
    <2>3. QED
      BY <1>3, <2>1, <2>2 DEF ReceiversDropped, Running
  <1>4. QED
    BY <1>2, <1>3

(* A running task that finds its senders gone knows that their stage has ended. *)
LEMMA SendersGone ==
    ASSUME ReturnInv, NEW f \in Stages, SendersDropped(f), NEW t \in Tasks, pc[t] # "idle"
    PROVE  pc[f] = "ended"
  <1>1. f # Last /\ f \in Tasks
    BY StageNumbers DEF Last
  <1>2. QED
    BY <1>1 DEF ReturnInv, AllIdle, Started, SendersDropped, Running

(* When PIPELINE_END is triggered, nobody works any more. *)
LEMMA NobodyWorks ==
    ASSUME TypeInv, ReturnInv, StageOrder, Undisturbed, end_fired, NEW t \in Tasks
    PROVE  pc[t] \in {"idle", "ended"}
  <1> SUFFICES ASSUME pc[t] # "idle" PROVE pc[t] = "ended"
    OBVIOUS
  <1>1. ~terminator
    BY DEF ReturnInv, AllIdle
  <1>2. PICK w \in Workers : TRUE
    BY PipelineAssumption
  <1>3. pc[Filters] = "ended"
    BY <1>1, <1>2 DEF ReturnInv, StageOrder
  <1>4. QED
    BY <1>1, <1>3, StageNumbers, TaskSets DEF ReturnInv, StageOrder

(* A task that goes on, or a stage that ends after the one before it, keeps the   *)
(* order.                                                                         *)
LEMMA MoveInOrder ==
    ASSUME TypeInv, StageOrder, Undisturbed' => Undisturbed, NEW t \in Tasks, NEW l,
           l # "ended", pc[t] # "ended", Goto(t, l), UNCHANGED final
    PROVE  StageOrder'
  BY StageNumbers, TaskSets DEF TypeInv, TaskTypes, StageOrder, Goto

LEMMA EndInOrder ==
    ASSUME TypeInv, StageOrder, Undisturbed' => Undisturbed, NEW f \in Stages, NEW r,
           Undisturbed' => f = 0 \/ (f - 1 \in Stages /\ pc[f - 1] = "ended"),
           End(f, r), UNCHANGED final
    PROVE  StageOrder'
  <1> SUFFICES ASSUME Undisturbed' PROVE StageOrder'
    BY DEF StageOrder
  <1>1. \A g \in Stages : g <= f => g = f \/ pc[g] = "ended"
    BY StageNumbers DEF StageOrder
  <1>2. pc' = [pc EXCEPT ![f] = "ended"]
    BY DEF End, Goto
  <1>3. QED
    BY <1>1, <1>2, StageNumbers, TaskSets DEF TypeInv, TaskTypes, StageOrder

LEMMA OrderInit == Init => StageOrder /\ EndEventIsLast
  BY StageNumbers, TaskSets DEF Init, StageOrder, EndEventIsLast

LEMMA OrderKept == TypeInv /\ ReturnInv /\ StageOrder /\ [Next]_vars => StageOrder'
  <1> SUFFICES ASSUME TypeInv, ReturnInv, StageOrder, [Next]_vars PROVE StageOrder'
    OBVIOUS
  <1>1. CASE ListerStep
    <2> USE <1>1, MoveInOrder, EndInOrder, TaskSets DEF At
    <2>1. CASE ListerCheck
      <3>1. Undisturbed' => Undisturbed
        BY <2>1 DEF ListerCheck, Undisturbed
      <3>2. QED
        BY <2>1, <3>1 DEF ListerCheck
    <2>2. CASE ListerSend
      BY <2>2 DEF ListerSend, Undisturbed
    <2>3. CASE ListerClosed
      BY <2>3, ReceiversStay DEF ListerClosed, Undisturbed, StageOrder
    <2>4. CASE ListerFault
      BY <2>4 DEF ListerFault, Fault, StageOrder, Undisturbed, TypeInv, ChannelTypes
    <2>5. QED
      BY <2>1, <2>2, <2>3, <2>4 DEF ListerStep
  <1>2. ASSUME NEW f \in 1 .. Filters, FilterStep(f) PROVE StageOrder'
    <2>0. f \in Stages /\ f \in Tasks /\ f - 1 \in Stages
      BY StageNumbers, TaskSets
    <2> USE <2>0 DEF At
    <2>1. CASE FilterCheck(f)
      <3>1. CASE cancelled
        BY <2>1, <3>1 DEF FilterCheck, Undisturbed, StageOrder
      <3>2. CASE ~cancelled
        BY <2>1, <3>2, MoveInOrder DEF FilterCheck, Undisturbed
      <3>3. QED
        BY <3>1, <3>2
    <2>2. CASE FilterReceive(f) \/ FilterReject(f) \/ FilterPass(f) \/ FilterSend(f)
      BY <2>2, MoveInOrder DEF FilterReceive, FilterReject, FilterPass, FilterSend, Undisturbed
    <2>3. CASE FilterReceiveClosed(f)
      <3>1. pc[f - 1] = "ended"
        BY <2>3, SendersGone DEF FilterReceiveClosed
      <3>2. QED
        BY <2>3, <3>1, EndInOrder DEF FilterReceiveClosed, Undisturbed
    <2>4. CASE FilterClosed(f)
      BY <2>4, ReceiversStay DEF FilterClosed, Undisturbed, StageOrder
    <2>5. CASE FilterFault(f) \/ FilterCancelled(f)
      BY <2>5 DEF FilterFault, FilterCancelled, Fault, StageOrder, Undisturbed, TypeInv, ChannelTypes
    <2>6. QED
      BY <1>2, <2>1, <2>2, <2>3, <2>4, <2>5 DEF FilterStep
  <1>3. ASSUME NEW w \in Workers, WorkerStep(w) PROVE StageOrder'
    <2>0. w \in Tasks /\ Filters \in Stages /\ Filters # w
      BY StageNumbers, TaskSets
    <2> USE <2>0 DEF At
    <2>1. CASE WorkerReceive(w) \/ WorkerNothingToDelete(w) \/ WorkerDeleted(w) \/ WorkerForward(w)
      BY <2>1, MoveInOrder DEF WorkerReceive, WorkerNothingToDelete, WorkerDeleted, WorkerForward,
                               Undisturbed
    <2>2. CASE WorkerFailedKey(w)
      BY <2>2, MoveInOrder DEF WorkerFailedKey, CancelBy, Undisturbed
    <2>3. CASE WorkerReceiveClosed(w)
      <3>1. pc[Filters] = "ended"
        BY <2>3, SendersGone DEF WorkerReceiveClosed
      <3>2. QED
        BY <2>3, <3>1, StageNumbers, TaskSets
           DEF WorkerReceiveClosed, Undisturbed, StageOrder, Goto, TypeInv, TaskTypes
    <2>4. CASE WorkerNext(w)
      <3>1. CASE cancelled \/ ~final[w]
        BY <2>4, <3>1, MoveInOrder DEF WorkerNext, Undisturbed, StageOrder
      <3>2. CASE ~cancelled /\ final[w]
        BY <2>4, <3>2, StageNumbers, TaskSets
           DEF WorkerNext, Undisturbed, StageOrder, End, Goto, TypeInv, TaskTypes
      <3>3. QED
        BY <3>1, <3>2
    <2>5. CASE WorkerFault(w) \/ WorkerCancelled(w)
      BY <2>5 DEF WorkerFault, WorkerCancelled, Fault, StageOrder, Undisturbed, TypeInv, ChannelTypes
    <2>6. QED
      BY <1>3, <2>1, <2>2, <2>3, <2>4, <2>5 DEF WorkerStep
  <1>4. ASSUME NEW t \in Tasks, SupStep(t) PROVE StageOrder'
    BY <1>4 DEF SupStep, SupJoin, SupError, SupPanic, SupSet, CancelBy, StageOrder, Undisturbed
  <1>5. CASE MainStep
    <2>1. CASE RunSpawn
      BY <2>1, StageNumbers, TaskSets DEF RunSpawn, StageOrder, Undisturbed, ReturnInv, AllIdle
    <2>2. QED
      BY <1>5, <2>1 DEF MainStep, CheckPrerequisites, RunRefused, AwaitTerminator, PromoteWarnings,
                        FireCompletionEvents, ExitCtrlC, ExitError, ExitPanic, ExitWarning,
                        StageOrder, Undisturbed
  <1>6. CASE TerminatorStep
    BY <1>6 DEF TerminatorStep, TerminatorReceive, TerminatorEnd, StageOrder, Undisturbed
  <1>7. CASE CtrlC \/ HandlerStep \/ HandlerGone \/ CallerCancels \/ UNCHANGED vars
    BY <1>7 DEF CtrlC, HandlerStep, HandlerGone, CallerCancels, CancelBy, StageOrder, Undisturbed
  <1>8. QED
    BY <1>1, <1>2, <1>3, <1>4, <1>5, <1>6, <1>7 DEF Next, Terminated

LEMMA LateKept ==
    TypeInv /\ ReturnInv /\ StageOrder /\ EndEventIsLast /\ [Next]_vars => EndEventIsLast'
  <1> SUFFICES ASSUME TypeInv, ReturnInv, StageOrder, EndEventIsLast, [Next]_vars
               PROVE  EndEventIsLast'
    OBVIOUS
  <1>0. /\ faults \in Nat
        /\ \A t \in Tasks : end_fired /\ pc[t] \notin {"idle", "ended"} => cancelled \/ faults > 0
    BY NobodyWorks, PipelineAssumption DEF Undisturbed, TypeInv, ChannelTypes
  <1> USE DEF EndEventIsLast
  <1>f. ASSUME faults' = faults + 1 PROVE EndEventIsLast'
    BY <1>0, <1>f
  <1>1. CASE ListerStep
    <2>1. CASE ListerFault
      BY <1>f, <2>1 DEF ListerFault, Fault
    <2>2. QED
      BY <1>1, <2>1 DEF ListerStep, ListerCheck, ListerSend, ListerClosed
  <1>2. ASSUME NEW f \in 1 .. Filters, FilterStep(f) PROVE EndEventIsLast'
    <2>1. CASE FilterFault(f)
      BY <1>f, <2>1 DEF FilterFault, Fault
    <2>2. CASE FilterReject(f)
      BY <1>0, <2>2, TaskSets DEF FilterReject, Trigger, At
    <2>3. QED
      BY <1>2, <2>1, <2>2 DEF FilterStep, FilterCheck, FilterReceive, FilterReceiveClosed,
                              FilterCancelled, FilterPass, FilterSend, FilterClosed
  <1>3. ASSUME NEW w \in Workers, WorkerStep(w) PROVE EndEventIsLast'
    <2>1. CASE WorkerFault(w)
      BY <1>f, <2>1 DEF WorkerFault, Fault
    <2>2. CASE WorkerDeleted(w) \/ WorkerFailedKey(w)
      BY <1>0, <2>2, TaskSets DEF WorkerDeleted, WorkerFailedKey, Trigger, At, CancelBy
    <2>3. QED
      BY <1>3, <2>1, <2>2 DEF WorkerStep, WorkerReceive, WorkerReceiveClosed, WorkerCancelled,
                              WorkerNothingToDelete, WorkerForward, WorkerNext
  <1>4. ASSUME NEW t \in Tasks, SupStep(t) PROVE EndEventIsLast'
    BY <1>4 DEF SupStep, SupJoin, SupError, SupPanic, SupSet, CancelBy
  <1>5. CASE MainStep
    BY <1>5 DEF MainStep, CheckPrerequisites, RunRefused, RunSpawn, AwaitTerminator,
                PromoteWarnings, FireCompletionEvents, ExitCtrlC, ExitError, ExitPanic, ExitWarning
  <1>6. CASE TerminatorStep
    BY <1>6 DEF TerminatorStep, TerminatorReceive, TerminatorEnd
  <1>7. CASE CtrlC \/ HandlerStep \/ HandlerGone \/ CallerCancels \/ UNCHANGED vars
    BY <1>7 DEF CtrlC, HandlerStep, HandlerGone, CallerCancels, CancelBy
  <1>8. QED
    BY <1>1, <1>2, <1>3, <1>4, <1>5, <1>6, <1>7 DEF Next, Terminated

(* Unless the run was disturbed, no stage triggers an event after PIPELINE_END. *)
THEOREM EndIsLast == Spec => []EndEventIsLast
  <1> DEFINE Inv == TypeInv /\ ReturnInv /\ StageOrder /\ EndEventIsLast
  <1>1. Init => Inv
    BY TypeInit, ReturnInit, OrderInit
  <1>2. Inv /\ [Next]_vars => Inv'
    BY TypeStep, ReturnKept, OrderKept, LateKept
  <1>3. QED
    BY <1>1, <1>2, PTL DEF Spec

=============================================================================
