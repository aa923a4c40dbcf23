------------------------------ MODULE EndToEnd ------------------------------
(* A whole run of DeletionPipeline on a storage that answers as the mock storages *)
(* of its integration tests do: prerequisites, listing, the filter chain of       *)
(* module Filters, delete workers with their batches and the fallback,            *)
(* supervisors, promotion of warnings, completion events. Objects keep their      *)
(* identity from the listing to the statistics. An initial state is a case: a     *)
(* configuration, a storage, and what must hold of the finished run.              *)
(*                                                                                *)
(* The tests see the one schedule of the current-thread runtime; here the tasks   *)
(* interleave in every order, one object at a time. Three things follow the       *)
(* tests: a mock lists all it has in one poll, since the channel has room for it; *)
(* that poll comes first, the lister being spawned first; and, no channel being   *)
(* ever full, forwarding to the Terminator needs no step of its own. What happens *)
(* between two steps of a stage is the subject of Pipeline and ObjectDeleter.     *)
EXTENDS Filters, FiniteSets

CONSTANTS
    Cases             \* prompt: supervisors are polled before run() goes on, as on the
                      \* current-thread runtime of the tests; the program's runtime
                      \* has several threads and no such order

NoLimit == -1
ASSUME EndToEndAssumption ==
    \A c \in Cases :
        /\ c.prompt \in BOOLEAN /\ c.cancelled \in BOOLEAN
        /\ c.config.worker_size \in Nat \ {0}
        /\ c.config.max_delete \in Nat \cup {NoLimit}
        /\ Len(c.storage.objects) \in Nat /\ DOMAIN c.storage.objects = 1 .. Len(c.storage.objects)
        /\ c.storage.lists \in {"all", "error", "panic"}

VARIABLES
    case,
    run,              \* where run() is
    task,             \* where the lister, each filter stage and each worker is
    chan,             \* the objects in each channel; stage c sends to channel c
    buffer,           \* the batch of each worker
    delete_all_versions, delete_counter,
    cancelled, has_error, has_panic, has_warning,
    errors,           \* who failed and how, in order
    deleted, failed, filtered,
    removed,          \* objects the storage was asked to delete, and did
    events            \* how often each event was triggered

vars == << case, run, task, chan, buffer, delete_all_versions, delete_counter, cancelled,
           has_error, has_panic, has_warning, errors, deleted, failed, filtered, removed, events >>

config == case.config
storage == case.storage
chain == Chain(config.filter)
Objects == DOMAIN storage.objects
LastStage == Len(chain)
Workers == LastStage + 1 .. LastStage + config.worker_size
Tasks == 0 .. LastStage + config.worker_size
Ended == {"ok", "err", "panic", "joined"}
EventTypes == {"PIPELINE_START", "PIPELINE_ERROR", "PIPELINE_END", "DELETE_CANCEL",
               "DELETE_COMPLETE", "DELETE_FAILED", "DELETE_FILTERED"}
Fire(e, n) == events' = [events EXCEPT ![e] = @ + n]

Init ==
    /\ case \in Cases
    /\ run = "start"
    /\ task = [t \in Tasks |-> "idle"]
    /\ chan = [c \in 0 .. LastStage |-> << >>]
    /\ buffer = [w \in Workers |-> << >>]
    /\ delete_all_versions = config.delete_all_versions
    /\ delete_counter = 0
    /\ cancelled = case.cancelled
    /\ has_error = FALSE /\ has_panic = FALSE /\ has_warning = FALSE
    /\ errors = << >>
    /\ deleted = {} /\ failed = {} /\ filtered = {} /\ removed = {}
    /\ events = [e \in EventTypes |-> 0]

-----------------------------------------------------------------------------
(* DeletionPipeline::run. The mocks answer that versioning is off. *)

Refusal ==
    CASE ~config.force /\ ~config.dry_run -> "safety"
      [] config.filter.keep_latest_only /\ ~config.delete_all_versions -> "keep-latest-only requires"
      [] config.filter.delete_marker_only /\ ~config.delete_all_versions -> "delete-marker-only requires"
      [] config.if_match /\ config.delete_all_versions -> "if-match"
      [] config.filter.keep_latest_only -> "keep-latest-only unversioned"
      [] config.filter.delete_marker_only -> "delete-marker-only unversioned"
      [] OTHER -> "none"

RecordError(kind) == has_error' = TRUE /\ errors' = Append(errors, kind)

Start ==
    /\ run = "start"
    /\ Fire("PIPELINE_START", 1)
    /\ IF Refusal # "none"
       THEN /\ RecordError(<<"run", Refusal>>)
            /\ run' = "completion"
            /\ UNCHANGED <<task, delete_all_versions>>
       ELSE /\ run' = "await"
            /\ task' = [t \in Tasks |-> "run"]
            /\ delete_all_versions' = FALSE
            /\ UNCHANGED <<has_error, errors>>
    /\ UNCHANGED <<case, chan, buffer, delete_counter, cancelled, has_panic, has_warning, deleted,
                   failed, filtered, removed>>

(* The Terminator has ended: all workers have dropped their senders. *)
Await ==
    /\ run = "await"
    /\ \A w \in Workers : task[w] \in Ended
    /\ case.prompt => \A t \in Tasks : task[t] \notin {"ok", "err", "panic"}
    /\ run' = "completion"
    /\ IF config.warn_as_error /\ has_warning THEN RecordError(<<"run", "promoted">>)
       ELSE UNCHANGED <<has_error, errors>>
    /\ UNCHANGED <<case, task, chan, buffer, delete_all_versions, delete_counter, cancelled,
                   has_panic, has_warning, deleted, failed, filtered, removed, events>>

FireCompletionEvents ==
    /\ run = "completion"
    /\ run' = "returned"
    /\ events' = [events EXCEPT !["PIPELINE_ERROR"] = IF has_error THEN @ + 1 ELSE @,
                                !["DELETE_CANCEL"] = IF cancelled THEN @ + 1 ELSE @,
                                !["PIPELINE_END"] = @ + 1]
    /\ UNCHANGED <<case, task, chan, buffer, delete_all_versions, delete_counter, cancelled,
                   has_error, has_panic, has_warning, errors, deleted, failed, filtered, removed>>

(* run() clears `ready`, and asserts it on entry. *)
SecondRun == "panicked"

RunAgain ==
    /\ run = "returned" /\ case.runs = 2
    /\ run' = SecondRun
    /\ UNCHANGED <<case, task, chan, buffer, delete_all_versions, delete_counter, cancelled,
                   has_error, has_panic, has_warning, errors, deleted, failed, filtered, removed,
                   events>>

-----------------------------------------------------------------------------
(* The supervisor of a task: cancel, flags, error list. *)

ErrorOf(t) ==
    LET who == IF t = 0 THEN "lister" ELSE IF t \in Workers THEN "worker" ELSE chain[t]
    IN  <<who, task[t]>>

Supervise(t) ==
    /\ task[t] \in {"ok", "err", "panic"}
    /\ task' = [task EXCEPT ![t] = "joined"]
    /\ IF task[t] = "ok" THEN UNCHANGED <<cancelled, has_error, has_panic, errors>>
       ELSE /\ cancelled' = TRUE
            /\ has_panic' = (has_panic \/ task[t] = "panic")
            /\ RecordError(ErrorOf(t))
    /\ UNCHANGED <<case, run, chan, buffer, delete_all_versions, delete_counter, has_warning,
                   deleted, failed, filtered, removed, events>>

-----------------------------------------------------------------------------
(* Channels and stages. *)

SenderDropped(c) == task[c] \in Ended
ReceiverDropped(c) ==
    IF c = LastStage THEN \A w \in Workers : task[w] \in Ended ELSE task[c + 1] \in Ended

Listed == task[0] \in Ended
End(t, how) == task' = [task EXCEPT ![t] = how]

(* ObjectLister with the mock's list_objects; its list_object_versions is empty. *)
List ==
    /\ task[0] = "run"
    /\ End(0, CASE storage.lists = "all" -> "ok" [] storage.lists = "error" -> "err"
                [] storage.lists = "panic" -> "panic")
    /\ chan' = IF storage.lists = "all" /\ ~delete_all_versions
               THEN [chan EXCEPT ![0] = [i \in Objects |-> i]] ELSE chan
    /\ UNCHANGED <<case, run, buffer, delete_all_versions, delete_counter, cancelled, has_error,
                   has_panic, has_warning, errors, deleted, failed, filtered, removed, events>>

(* A filter stage leaves: its channel is closed, or it sees the token. *)
StageEnds(f) ==
    /\ task[f] = "run" /\ Listed
    /\ cancelled \/ (chan[f - 1] = << >> /\ SenderDropped(f - 1))
    /\ End(f, "ok")
    /\ UNCHANGED <<case, run, chan, buffer, delete_all_versions, delete_counter, cancelled,
                   has_error, has_panic, has_warning, errors, deleted, failed, filtered, removed,
                   events>>

(* The verdict of stage f on object i; the callback of the tests keeps ".log". *)
Verdict(f, i) ==
    LET o == storage.objects[i]
    IN  IF chain[f] # "UserDefined" THEN IF Passes(chain[f], o, config.filter) THEN "pass" ELSE "reject"
        ELSE CASE case.callback = "log" -> IF o.name = "a" THEN "pass" ELSE "reject"
               [] case.callback = "panic" -> "panic"

Filter(f) ==
    /\ task[f] = "run" /\ Listed
    /\ chan[f - 1] # << >>
    /\ LET i == Head(chan[f - 1])
           rest == [chan EXCEPT ![f - 1] = Tail(@)]
       IN  \/ /\ Verdict(f, i) = "reject"
              /\ chan' = rest
              /\ filtered' = filtered \cup {i}
              /\ Fire("DELETE_FILTERED", 1)
              /\ UNCHANGED task
           \/ /\ Verdict(f, i) = "panic"
              /\ chan' = rest
              /\ End(f, "panic")
              /\ UNCHANGED <<filtered, events>>
           \/ /\ Verdict(f, i) = "pass"
              /\ IF ReceiverDropped(f) THEN chan' = rest /\ End(f, "ok")
                 ELSE chan' = [rest EXCEPT ![f] = Append(@, i)] /\ UNCHANGED task
              /\ UNCHANGED <<filtered, events>>
    /\ UNCHANGED <<case, run, buffer, delete_all_versions, delete_counter, cancelled, has_error,
                   has_panic, has_warning, errors, deleted, failed, removed>>

-----------------------------------------------------------------------------
(* The delete workers. *)

EffectiveBatchSize == IF config.batch_size <= 1 THEN 1 ELSE config.batch_size
OverLimit == config.max_delete # NoLimit /\ delete_counter + 1 > config.max_delete

(* process_object up to the request: the object is over the limit, completes a    *)
(* batch, or joins the buffer.                                                    *)
Receive(w) ==
    /\ task[w] = "run" /\ Listed
    /\ chan[LastStage] # << >>
    /\ chan' = [chan EXCEPT ![LastStage] = Tail(@)]
    /\ delete_counter' = delete_counter + 1
    /\ IF OverLimit THEN End(w, "limit") /\ UNCHANGED buffer
       ELSE /\ buffer' = [buffer EXCEPT ![w] = Append(@, Head(chan[LastStage]))]
            /\ End(w, IF Len(buffer[w]) + 1 >= EffectiveBatchSize THEN "full"
                      ELSE IF cancelled THEN "ok" ELSE "run")
    /\ UNCHANGED <<case, run, delete_all_versions, cancelled, has_error, has_panic, has_warning,
                   errors, deleted, failed, filtered, removed, events>>

Closed(w) ==
    /\ task[w] = "run" /\ Listed
    /\ chan[LastStage] = << >> /\ SenderDropped(LastStage)
    /\ End(w, "closed")
    /\ UNCHANGED <<case, run, chan, buffer, delete_all_versions, delete_counter, cancelled,
                   has_error, has_panic, has_warning, errors, deleted, failed, filtered, removed,
                   events>>

Cancelled(w) ==
    /\ task[w] = "run" /\ Listed
    /\ cancelled
    /\ End(w, "ok")
    /\ UNCHANGED <<case, run, chan, buffer, delete_all_versions, delete_counter, cancelled,
                   has_error, has_panic, has_warning, errors, deleted, failed, filtered, removed,
                   events>>

(* Faulty: a retryable key error is final. *)
FallbackNever(keys) == {}
(* Keys the single-delete fallback recovers: those with a retryable error. *)
Fallback(keys) == IF storage.code = "InternalError" THEN keys ELSE {}

(* What the deleter answers for the keys of a batch. *)
Answer(keys) ==
    LET refused == keys \cap storage.fails
    IN  CASE config.dry_run -> [how |-> "ok", deleted |-> keys, failed |-> {}]
          [] ~config.dry_run /\ storage.deletes = "panic" -> [how |-> "panic", deleted |-> {}, failed |-> {}]
          [] ~config.dry_run /\ storage.deletes = "error" ->
                IF EffectiveBatchSize = 1 THEN [how |-> "ok", deleted |-> {}, failed |-> keys]
                ELSE [how |-> "err", deleted |-> {}, failed |-> {}]
          [] OTHER ->
                IF EffectiveBatchSize = 1 THEN [how |-> "ok", deleted |-> keys, failed |-> {}]
                ELSE [ how |-> "ok", deleted |-> (keys \ refused) \cup Fallback(refused),
                       failed |-> refused \ Fallback(refused) ]

NothingToFlush(w) == buffer[w] = << >> \/ cancelled

(* Faulty: the batch is cloned out of the buffer and stays in it. *)
BufferAfterClone(w) == buffer[w]
BufferAfterTake(w) == << >>

(* After the flush: the worker that exceeded --max-delete warns and cancels. *)
AfterFlush(w, stops) ==
    CASE task[w] = "limit" -> "ok"
      [] task[w] = "closed" -> "ok"
      [] task[w] = "full" -> IF stops THEN "ok" ELSE "run"

(* delete_buffered_objects with what follows it in each of its three callers. *)
FlushNothing(w) ==
    /\ task[w] \in {"full", "limit", "closed"}
    /\ NothingToFlush(w)
    /\ has_warning' = (has_warning \/ task[w] = "limit")
    /\ cancelled' = (cancelled \/ task[w] = "limit")
    /\ Fire("DELETE_FAILED", IF task[w] = "limit" THEN 1 ELSE 0)
    /\ End(w, AfterFlush(w, cancelled))
    /\ UNCHANGED <<case, run, chan, buffer, delete_all_versions, delete_counter, has_error,
                   has_panic, errors, deleted, failed, filtered, removed>>

Flush(w) ==
    /\ task[w] \in {"full", "limit", "closed"}
    /\ ~NothingToFlush(w)
    /\ buffer' = [buffer EXCEPT ![w] = BufferAfterTake(w)]
    /\ LET keys == Range(buffer[w])
           answer == Answer(keys)
           limit == task[w] = "limit" /\ answer.how = "ok"
           stops == config.warn_as_error /\ answer.failed # {}
       IN  /\ removed' = IF config.dry_run THEN removed ELSE removed \cup answer.deleted
           /\ deleted' = deleted \cup answer.deleted
           /\ failed' = failed \cup answer.failed
           /\ has_warning' = (has_warning \/ answer.failed # {} \/ limit)
           /\ cancelled' = (answer.how = "err" \/ stops \/ limit)
           /\ events' = [events EXCEPT
                            !["DELETE_COMPLETE"] = @ + Cardinality(answer.deleted),
                            !["DELETE_FAILED"] = @ + Cardinality(answer.failed) + IF limit THEN 1 ELSE 0]
           /\ End(w, IF answer.how # "ok" THEN answer.how ELSE AfterFlush(w, stops))
    /\ UNCHANGED <<case, run, chan, delete_all_versions, delete_counter, has_error, has_panic,
                   errors, filtered>>

-----------------------------------------------------------------------------

WorkerStep(w) == Receive(w) \/ Closed(w) \/ Cancelled(w) \/ FlushNothing(w) \/ Flush(w)
RunStep == Start \/ Await \/ FireCompletionEvents \/ RunAgain

Returned == run = IF case.runs = 2 THEN "panicked" ELSE "returned"
(* run() is over and every task it spawned, supervisors included. *)
Quiet ==
    /\ Returned
    /\ \A t \in Tasks : task[t] \in {"idle", "joined"}
Done == Quiet /\ UNCHANGED vars

Next ==
    \/ RunStep \/ List
    \/ \E f \in 1 .. LastStage : StageEnds(f) \/ Filter(f)
    \/ \E w \in Workers : WorkerStep(w)
    \/ \E t \in Tasks : Supervise(t)
    \/ Done

Spec == Init /\ [][Next]_vars

-----------------------------------------------------------------------------
(* Properties. *)

(* Every variable holds a value of its type, and run() runs once: a pipeline      *)
(* fires PIPELINE_START and PIPELINE_END at most once.                            *)
TypeOK ==
    /\ case \in Cases
    /\ run \in {"start", "await", "completion", "returned", "panicked"}
    /\ task \in [Tasks -> {"idle", "run", "full", "limit", "closed"} \cup Ended]
    /\ \A c \in DOMAIN chan : Range(chan[c]) \subseteq Objects
    /\ \A w \in Workers : Len(buffer[w]) <= EffectiveBatchSize
    /\ delete_counter \in 0 .. Len(storage.objects)
    /\ {cancelled, has_error, has_panic, has_warning, delete_all_versions} \subseteq BOOLEAN
    /\ UNION {deleted, failed, filtered, removed} \subseteq Objects
    /\ events["PIPELINE_START"] <= 1 /\ events["PIPELINE_END"] <= 1

(* Where an object is: in a channel, in a batch, or in one of the statistics. *)
Places(i) ==
    { <<"chan", c>> : c \in {d \in DOMAIN chan : i \in Range(chan[d])} }
    \cup { <<"buffer", w>> : w \in {v \in Workers : i \in Range(buffer[v])} }
    \cup { <<"stats", s>> : s \in {n \in 1 .. 3 : i \in <<deleted, failed, filtered>>[n]} }

(* From the listing on, an object is in exactly one place, and in none only after *)
(* the token was cancelled, or is about to be by the worker that holds the object *)
(* over the limit, or a task panicked; what is counted as deleted is what         *)
(* the storage removed, and nothing in a dry run; and --max-delete bounds it.     *)
Ledger ==
    /\ \A i \in Objects :
          /\ Cardinality(Places(i)) <= 1
          /\ (/\ Listed /\ storage.lists = "all" /\ ~delete_all_versions
              /\ ~cancelled /\ \A t \in Tasks : task[t] \notin {"panic", "limit"})
             => Cardinality(Places(i)) = 1
    /\ removed = IF config.dry_run THEN {} ELSE deleted
    /\ config.max_delete # NoLimit => Cardinality(deleted) <= config.max_delete
    /\ events["DELETE_COMPLETE"] = Cardinality(deleted)

Bytes(S) == FoldSet(LAMBDA i, sum : sum + storage.objects[i].size, 0, S)
Outcome ==
    [ deleted |-> Cardinality(deleted), bytes |-> Bytes(deleted), failed |-> Cardinality(failed),
      error |-> has_error, panic |-> has_panic, warning |-> has_warning, errors |-> Len(errors),
      versions |-> delete_all_versions, run |-> run,
      complete_events |-> events["DELETE_COMPLETE"], error_events |-> events["PIPELINE_ERROR"],
      end_events |-> events["PIPELINE_END"] ]

(* What the integration tests of pipeline.rs assert of a finished run holds under *)
(* every interleaving of its tasks that polls a supervisor before run() goes on.  *)
TestsHold ==
    Returned =>
        /\ \A f \in DOMAIN case.expect : Outcome[f] \in case.expect[f]
        /\ case.records \subseteq Range(errors)

=============================================================================
