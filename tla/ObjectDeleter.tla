--------------------------- MODULE ObjectDeleter ---------------------------
(* The deletion stage of s3rm: the pool of ObjectDeleter workers that share one   *)
(* input channel, one delete counter and one cancellation token, the BatchDeleter *)
(* and SingleDeleter they delegate to, and the supervisors that watch them.       *)
(*                                                                                *)
(* An action ends at every await where others may change what the worker meets    *)
(* next: another worker, the operator (Ctrl+C), another stage or another S3       *)
(* client. The messages and events that report one batch are one action. An       *)
(* object is one (key, version id) pair of the listing. Channels are sets: the    *)
(* order in which objects leave a channel is not something a worker can tell.     *)
EXTENDS Naturals, FiniteSets

CONSTANTS
    Workers,        \* delete workers (config.worker_size of them)
    Objects,        \* the objects the listing finds
    DeleteMarkers,  \* those of them that are delete markers
    Contended,      \* those of them that other S3 clients write to during the run
    WithoutETag,    \* those of them that the endpoint listed without an ETag
    Configs,        \* the configurations a run may be started with
    QueueSize,      \* capacity of the bounded channels (object_listing_queue_size)
    None            \* absence of an object or of a limit

MAX_BATCH_SIZE == 1000

(* The fields of Config the deletion stage reads. The two *_filters fields say    *)
(* whether any content-type / metadata regex, respectively any tag regex, is set. *)
ConfigType ==
    [ max_delete        : Nat \cup {None},
      batch_size        : Nat,
      dry_run           : BOOLEAN,
      warn_as_error     : BOOLEAN,
      if_match          : BOOLEAN,
      force_retry_count : Nat,
      head_filters      : BOOLEAN,
      tag_filters       : BOOLEAN ]

ASSUME ObjectDeleterAssumption ==
    /\ IsFiniteSet(Objects)
    /\ IsFiniteSet(Workers) /\ Workers # {}    \* --worker-size is at least 1
    /\ DeleteMarkers \subseteq Objects
    /\ Contended \subseteq Objects
    /\ WithoutETag \subseteq Objects
    /\ Configs \subseteq ConfigType
    /\ QueueSize \in Nat \ {0}
    /\ None \notin Objects
    /\ None \notin Nat

VARIABLES
    config,         \* the immutable Config of this run
    upstream,       \* objects the lister and the filters have not sent yet
    input,          \* objects in the channel the workers receive from
    closed,         \* the input channel's senders are dropped
    pc,             \* where each worker is
    cur,            \* the object process_object is working on
    buffer,         \* ObjectDeleter::buffer
    batch,          \* the batch delete_buffered_objects took out of the buffer
    result,         \* the DeleteResult being built, and the fallback's progress
    returnTo,       \* what follows the pending call of delete_buffered_objects
    output,         \* number of objects in the channel to the Terminator
    delete_counter, \* the AtomicU64 all workers share
    cancelled,      \* the cancellation token
    has_warning,    \* Stage::has_warning
    has_error,      \* DeletionPipeline::has_error, set by the supervisors
    stats,          \* complete: the report's deleted count and the DeleteComplete
                    \* messages; failed: the report's failed count; error, skip: the
                    \* DeleteError and DeleteSkip messages
    bucket,         \* what S3 holds for each listed object
    admitted,       \* history: objects check_max_delete let through
    outcome,        \* history: what the run told its observers about each object
    removed         \* history: the states in which this run's requests removed it

token   == <<cancelled, has_warning, has_error>>
channel == <<upstream, input, closed, output>>
worker  == <<pc, cur, buffer, batch, result, returnTo>>
history == <<admitted, outcome, removed>>
vars    == <<config, channel, worker, delete_counter, token, stats, bucket, history>>

(* The listed version is still there, another client replaced it by other bytes   *)
(* (its ETag differs from the listed one) or by the same ones (its ETag does      *)
(* not), or there is nothing.                                                     *)
ObjectState == {"listed", "changed", "rewritten", "gone"}

Outcome == {"pending", "skipped", "stopped", "deleted", "failed", "unknown"}

PC == {"recv", "head", "tag", "count", "flush", "request", "retry", "report",
       "forward", "stop", "next", "failed", "done"}

NoResult == [deleted |-> {}, failed |-> {}, errors |-> {}, key |-> None, attempt |-> 0]

Init ==
    /\ config \in Configs
    /\ upstream = Objects
    /\ input = {}
    /\ closed = FALSE
    /\ pc = [w \in Workers |-> "recv"]
    /\ cur = [w \in Workers |-> None]
    /\ buffer = [w \in Workers |-> {}]
    /\ batch = [w \in Workers |-> {}]
    /\ result = [w \in Workers |-> NoResult]
    /\ returnTo = [w \in Workers |-> "next"]
    /\ output = 0
    /\ delete_counter = 0
    /\ cancelled = FALSE
    /\ has_warning = FALSE
    /\ has_error = FALSE
    /\ stats = [complete |-> 0, error |-> 0, skip |-> 0, failed |-> 0]
    /\ bucket = [o \in Objects |-> "listed"]
    /\ admitted = {}
    /\ outcome = [o \in Objects |-> "pending"]
    /\ removed = [o \in Objects |-> {}]

-----------------------------------------------------------------------------
(* The surroundings of the stage. *)

(* A filter stage passes an object on; the channel is bounded. *)
SendUpstream ==
    /\ ~closed
    /\ Cardinality(input) < QueueSize
    /\ \E o \in upstream :
          /\ upstream' = upstream \ {o}
          /\ input' = input \cup {o}
    /\ UNCHANGED <<config, closed, output, worker, delete_counter, token, stats, bucket, history>>

(* The last filter stage drops its sender: the listing is finished, it failed,    *)
(* or the stage saw the cancellation. A failed listing drops the sender before    *)
(* its supervisor cancels, so the token says nothing about the reason.            *)
CloseUpstream ==
    /\ ~closed
    /\ closed' = TRUE
    /\ UNCHANGED <<config, upstream, input, output, worker, delete_counter, token, stats,
                   bucket, history>>

(* Ctrl+C, or an error in another stage. *)
Cancel ==
    /\ ~cancelled
    /\ cancelled' = TRUE
    /\ UNCHANGED <<config, channel, worker, delete_counter, has_warning, has_error, stats,
                   bucket, history>>

(* The Terminator receives until every worker has dropped its sender; faulty: it  *)
(* stops at a cancellation.                                                       *)
TerminatorListensUntilCancelled == ~cancelled
TerminatorListens == TRUE

TerminatorReceive ==
    /\ TerminatorListens
    /\ output > 0
    /\ output' = output - 1
    /\ UNCHANGED <<config, upstream, input, closed, worker, delete_counter, token, stats,
                   bucket, history>>

(* Another S3 client overwrites or deletes an object of the listing. *)
OtherClient(o) ==
    /\ \E s \in {"changed", "rewritten", "gone"} \ {bucket[o]} : bucket' = [bucket EXCEPT ![o] = s]
    /\ UNCHANGED <<config, channel, worker, delete_counter, token, stats, history>>

-----------------------------------------------------------------------------
(* receive_and_delete: a select! between the channel and the token, either branch *)
(* of which may be taken when both are ready.                                     *)

Receive(w) ==
    /\ pc[w] = "recv"
    /\ \E o \in input :
          /\ input' = input \ {o}
          /\ cur' = [cur EXCEPT ![w] = o]
    /\ pc' = [pc EXCEPT ![w] = "head"]
    /\ UNCHANGED <<config, upstream, closed, output, buffer, batch, result, returnTo,
                   delete_counter, token, stats, bucket, history>>

(* The channel is closed and drained: flush the rest of the buffer, then finish. *)
Drained == "flush"

ReceiveClosed(w) ==
    /\ pc[w] = "recv"
    /\ closed /\ input = {}
    /\ pc' = [pc EXCEPT ![w] = Drained]
    /\ returnTo' = [returnTo EXCEPT ![w] = "done"]
    /\ UNCHANGED <<config, channel, cur, buffer, batch, result, delete_counter, token, stats,
                   bucket, history>>

(* The cancellation branch: the worker ends and drops its buffer. *)
ReceiveCancelled(w) ==
    /\ pc[w] = "recv"
    /\ cancelled
    /\ pc' = [pc EXCEPT ![w] = "done"]
    /\ UNCHANGED <<config, channel, cur, buffer, batch, result, returnTo, delete_counter, token,
                   stats, bucket, history>>

(* process_object returned Ok: leave if anyone cancelled, receive again if not. *)
AfterObject(w) ==
    /\ pc[w] = "next"
    /\ pc' = [pc EXCEPT ![w] = IF cancelled THEN "done" ELSE "recv"]
    /\ cur' = [cur EXCEPT ![w] = None]
    /\ UNCHANGED <<config, channel, buffer, batch, result, returnTo, delete_counter, token,
                   stats, bucket, history>>

-----------------------------------------------------------------------------
(* The filters inside the worker. Each consults S3 about the current object. *)

FilterPass(w, next) ==
    /\ pc' = [pc EXCEPT ![w] = next]
    /\ UNCHANGED <<token, stats, outcome>>

(* The object is not to be deleted: a regex rejects it, it is a delete marker, or *)
(* S3 answers 404. One DeleteSkip message each.                                   *)
FilterSkip(w) ==
    /\ pc' = [pc EXCEPT ![w] = "next"]
    /\ stats' = [stats EXCEPT !.skip = @ + 1]
    /\ outcome' = [outcome EXCEPT ![cur[w]] = "skipped"]
    /\ UNCHANGED token

(* Any other API error cancels the pipeline here; an error of the regex engine is *)
(* only returned, and it is the supervisor that cancels.                          *)
FilterFail(w) ==
    /\ pc' = [pc EXCEPT ![w] = "failed"]
    /\ cancelled' \in {cancelled, TRUE}
    /\ UNCHANGED <<has_warning, has_error, stats, outcome>>

AttributeFilters(w, enabled, next) ==
    /\ \/ ~enabled /\ FilterPass(w, next)
       \/ enabled /\ cur[w] \in DeleteMarkers /\ FilterSkip(w)
       \/ /\ enabled /\ cur[w] \notin DeleteMarkers
          /\ FilterPass(w, next) \/ FilterSkip(w) \/ FilterFail(w)
    /\ UNCHANGED <<config, channel, cur, buffer, batch, result, returnTo, delete_counter,
                   bucket, admitted, removed>>

ApplyHeadObjectFilters(w) ==
    /\ pc[w] = "head"
    /\ AttributeFilters(w, config.head_filters, "tag")

ApplyTagFilters(w) ==
    /\ pc[w] = "tag"
    /\ AttributeFilters(w, config.tag_filters, "count")

-----------------------------------------------------------------------------
(* check_max_delete and buffer_and_delete. *)

EffectiveBatchSize ==
    IF config.batch_size <= 1 THEN 1
    ELSE IF config.batch_size <= MAX_BATCH_SIZE THEN config.batch_size ELSE MAX_BATCH_SIZE

(* Faulty: compares what fetch_add returns, without the + 1. *)
WithinMaxDeletePrevious(count) == config.max_delete # None => count - 1 <= config.max_delete

WithinMaxDelete(count) == config.max_delete # None => count <= config.max_delete

(* Whether a buffer of n objects is flushed; faulty: one object later. *)
BufferFullLate(n) == n > EffectiveBatchSize
BufferFull(n) == n >= EffectiveBatchSize

(* fetch_add returned a count within the limit: the object joins the buffer, and  *)
(* a full buffer is flushed.                                                      *)
BufferAndDelete(w) ==
    /\ pc[w] = "count"
    /\ WithinMaxDelete(delete_counter + 1)
    /\ delete_counter' = delete_counter + 1
    /\ buffer' = [buffer EXCEPT ![w] = @ \cup {cur[w]}]
    /\ admitted' = admitted \cup {cur[w]}
    /\ pc' = [pc EXCEPT ![w] =
                 IF BufferFull(Cardinality(buffer'[w])) THEN "flush" ELSE "next"]
    /\ returnTo' = [returnTo EXCEPT ![w] = "next"]
    /\ cur' = [cur EXCEPT ![w] = None]
    /\ UNCHANGED <<config, channel, batch, result, token, stats, bucket, outcome, removed>>

(* What the worker flushes once the limit is exceeded; faulty: with the object    *)
(* that exceeded it.                                                              *)
FlushedAtLimitWithCurrent(w) == buffer[w] \cup {cur[w]}
FlushedAtLimit(w) == buffer[w]

(* The count exceeds the limit: flush what was let through before, then stop. *)
ExceedMaxDelete(w) ==
    /\ pc[w] = "count"
    /\ ~WithinMaxDelete(delete_counter + 1)
    /\ delete_counter' = delete_counter + 1
    /\ pc' = [pc EXCEPT ![w] = "flush"]
    /\ returnTo' = [returnTo EXCEPT ![w] = "stop"]
    /\ buffer' = [buffer EXCEPT ![w] = FlushedAtLimit(w)]
    /\ UNCHANGED <<config, channel, cur, batch, result, token, stats, bucket, history>>

(* ... and after the flush: DeleteError, the warning flag, and the token (faulty: *)
(* the token is forgotten).                                                       *)
CancelledAtLimitNot == cancelled
CancelledAtLimit == TRUE

StopAtMaxDelete(w) ==
    /\ pc[w] = "stop"
    /\ stats' = [stats EXCEPT !.error = @ + 1]
    /\ has_warning' = TRUE
    /\ cancelled' = CancelledAtLimit
    /\ outcome' = [outcome EXCEPT ![cur[w]] = "stopped"]
    /\ pc' = [pc EXCEPT ![w] = "next"]
    /\ UNCHANGED <<config, channel, cur, buffer, batch, result, returnTo, delete_counter,
                   has_error, bucket, admitted, removed>>

-----------------------------------------------------------------------------
(* delete_buffered_objects. *)

NothingToFlush(w) == buffer[w] = {} \/ cancelled

(* std::mem::take leaves an empty buffer behind; faulty: the batch is a clone. *)
BufferAfterClone(w) == buffer[w]
BufferAfterTake(w) == {}

(* An empty buffer or a cancelled token ends the call and leaves the buffer as it *)
(* is; otherwise the whole buffer becomes the batch. A dry run makes up the       *)
(* result; any other run goes on to a delete request.                             *)
Flush(w) ==
    /\ pc[w] = "flush"
    /\ IF NothingToFlush(w)
       THEN /\ pc' = [pc EXCEPT ![w] = returnTo[w]]
            /\ UNCHANGED <<buffer, batch, result>>
       ELSE /\ batch' = [batch EXCEPT ![w] = buffer[w]]
            /\ buffer' = [buffer EXCEPT ![w] = BufferAfterTake(w)]
            /\ result' = [result EXCEPT ![w] =
                  IF config.dry_run THEN [NoResult EXCEPT !.deleted = buffer[w]] ELSE NoResult]
            /\ pc' = [pc EXCEPT ![w] = IF config.dry_run THEN "report" ELSE "request"]
    /\ UNCHANGED <<config, channel, cur, returnTo, delete_counter, token, stats, bucket, history>>

(* Whether a request for o names an ETag: --if-match was given and the listing    *)
(* had one; an object without is deleted unconditionally.                         *)
IfMatch(o) == config.if_match /\ o \notin WithoutETag

(* S3's answer to a delete of o: with an If-Match ETag it refuses an object whose *)
(* bytes changed since the listing, and an object already gone counts as deleted. *)
Accepts(o, etag) == ~(etag /\ bucket[o] = "changed")

(* The effect on the bucket of a request that deletes exactly the objects of D. *)
Remove(D) ==
    /\ bucket' = [o \in Objects |-> IF o \in D THEN "gone" ELSE bucket[o]]
    /\ removed' = [o \in Objects |->
                      IF o \in D /\ bucket[o] # "gone" THEN removed[o] \cup {bucket[o]}
                      ELSE removed[o]]

(* SingleDeleter::delete: one DeleteObject call. An error, whatever its code, is  *)
(* a failed key and a DeleteError; S3 may have deleted the object all the same.   *)
SingleDelete(w) ==
    /\ pc[w] = "request"
    /\ config.batch_size <= 1
    /\ \E D \in SUBSET {o \in batch[w] : Accepts(o, IfMatch(o))} :
       \E ok \in SUBSET D :
          /\ Remove(D)
          /\ result' = [result EXCEPT ![w] = [NoResult EXCEPT !.deleted = ok,
                                                              !.failed = batch[w] \ ok]]
          /\ stats' = [stats EXCEPT !.error = @ + Cardinality(batch[w] \ ok)]
    /\ pc' = [pc EXCEPT ![w] = "report"]
    /\ UNCHANGED <<config, channel, cur, buffer, batch, returnTo, delete_counter, token,
                   admitted, outcome>>

(* The keys of a DeleteObjects answer that get a DeleteError at once: the         *)
(* permanent errors (faulty: all errors, retried ones too).                       *)
CountedAtOnceAll(errors, retryable) == errors
CountedAtOnce(errors, retryable) == errors \ retryable

(* BatchDeleter::delete: one DeleteObjects call answered per key, deleted, a      *)
(* retryable error or a permanent one. A retryable error (InternalError,          *)
(* SlowDown, ..., or no code) may come after the object was deleted.              *)
BatchDelete(w) ==
    /\ pc[w] = "request"
    /\ config.batch_size > 1
    /\ \E ok \in SUBSET {o \in batch[w] : Accepts(o, IfMatch(o))} :
       \E retryable \in SUBSET (batch[w] \ ok) :
       \E late \in SUBSET {o \in retryable : Accepts(o, IfMatch(o))} :
          /\ Remove(ok \cup late)
          /\ result' = [result EXCEPT ![w] =
                [NoResult EXCEPT !.deleted = ok, !.errors = retryable,
                                 !.failed = (batch[w] \ ok) \ retryable]]
          /\ stats' = [stats EXCEPT !.error = @ + Cardinality(CountedAtOnce(batch[w] \ ok, retryable))]
    /\ pc' = [pc EXCEPT ![w] = "retry"]
    /\ UNCHANGED <<config, channel, cur, buffer, batch, returnTo, delete_counter, token,
                   admitted, outcome>>

(* The DeleteObjects call as a whole fails, whatever S3 did of it: the pipeline   *)
(* is cancelled and nothing is reported about the batch.                          *)
BatchDeleteError(w) ==
    /\ pc[w] = "request"
    /\ config.batch_size > 1
    /\ \E D \in SUBSET {o \in batch[w] : Accepts(o, IfMatch(o))} : Remove(D)
    /\ cancelled' = TRUE
    /\ outcome' = [o \in Objects |-> IF o \in batch[w] THEN "unknown" ELSE outcome[o]]
    /\ batch' = [batch EXCEPT ![w] = {}]
    /\ pc' = [pc EXCEPT ![w] = "failed"]
    /\ UNCHANGED <<config, channel, cur, buffer, result, returnTo, delete_counter, has_warning,
                   has_error, stats, admitted>>

(* Whether the fallback DeleteObject for o carries the listed ETag; faulty: never. *)
FallbackETagDropped(o) == FALSE
FallbackETag(o) == config.if_match /\ o \notin WithoutETag

(* Whether the loop over 0 ..= force_retry_count goes on after this attempt;      *)
(* faulty: one round too many.                                                    *)
AttemptsLeftOneMore(w) == result[w].attempt <= config.force_retry_count
AttemptsLeft(w) == result[w].attempt < config.force_retry_count

(* The DeleteResult after one more attempt for key o: it succeeded, it failed and *)
(* another follows, or it was the last one.                                       *)
Recovered(r, o) == [r EXCEPT !.deleted = @ \cup {o}, !.errors = @ \ {o},
                             !.key = None, !.attempt = 0]
Again(r, o) == [r EXCEPT !.key = o, !.attempt = r.attempt + 1]
Exhausted(r, o) == [r EXCEPT !.failed = @ \cup {o}, !.errors = @ \ {o},
                             !.key = None, !.attempt = 0]

(* retry_failed_key_with_single_delete: attempts 0 .. force_retry_count for one   *)
(* key after the other, each carrying the ETag of the batch request, if any. The  *)
(* token is not looked at.                                                        *)
RetrySucceeds(w, o) ==
    /\ Accepts(o, FallbackETag(o))
    /\ Remove({o})
    /\ result' = [result EXCEPT ![w] = Recovered(@, o)]
    /\ UNCHANGED stats

RetryFails(w, o) ==
    /\ \E D \in SUBSET {x \in {o} : Accepts(x, FallbackETag(x))} : Remove(D)
    /\ IF AttemptsLeft(w)
       THEN /\ result' = [result EXCEPT ![w] = Again(@, o)]
            /\ UNCHANGED stats
       ELSE /\ result' = [result EXCEPT ![w] = Exhausted(@, o)]
            /\ stats' = [stats EXCEPT !.error = @ + 1]

Retry(w) ==
    /\ pc[w] = "retry"
    /\ \E o \in IF result[w].key = None THEN result[w].errors ELSE {result[w].key} :
          RetrySucceeds(w, o) \/ RetryFails(w, o)
    /\ UNCHANGED <<config, channel, pc, cur, buffer, batch, returnTo, delete_counter, token,
                   admitted, outcome>>

RetryDone(w) ==
    /\ pc[w] = "retry"
    /\ result[w].errors = {}
    /\ pc' = [pc EXCEPT ![w] = "report"]
    /\ UNCHANGED <<config, channel, cur, buffer, batch, result, returnTo, delete_counter, token,
                   stats, bucket, history>>

(* The warning flag after a report; faulty: a promoted failure sets only the      *)
(* token.                                                                         *)
WarningAfterUnlessPromoted(failed) ==
    has_warning \/ (failed # {} /\ ~config.warn_as_error)
WarningAfter(failed) == has_warning \/ failed # {}

(* The DeleteResult becomes statistics and events. A failure sets the warning     *)
(* flag; under warn_as_error it also cancels, and nothing is forwarded.           *)
Report(w) ==
    /\ pc[w] = "report"
    /\ LET r == result[w]
           promoted == r.failed # {} /\ config.warn_as_error
       IN /\ stats' = [stats EXCEPT !.complete = @ + Cardinality(r.deleted),
                                    !.failed = @ + Cardinality(r.failed)]
          /\ outcome' = [o \in Objects |-> IF o \in r.deleted THEN "deleted"
                                           ELSE IF o \in r.failed THEN "failed"
                                           ELSE outcome[o]]
          /\ has_warning' = WarningAfter(r.failed)
          /\ cancelled' = (cancelled \/ promoted)
          /\ pc' = [pc EXCEPT ![w] = IF promoted THEN returnTo[w] ELSE "forward"]
          /\ batch' = [batch EXCEPT ![w] = IF promoted THEN {} ELSE @]
    /\ result' = [result EXCEPT ![w] = NoResult]
    /\ UNCHANGED <<config, channel, cur, buffer, returnTo, delete_counter, has_error, bucket,
                   admitted, removed>>

(* Each object of the batch goes to the bounded output channel. *)
Forward(w) ==
    /\ pc[w] = "forward"
    /\ output < QueueSize
    /\ \E o \in batch[w] : batch' = [batch EXCEPT ![w] = @ \ {o}]
    /\ output' = output + 1
    /\ UNCHANGED <<config, upstream, input, closed, pc, cur, buffer, result, returnTo,
                   delete_counter, token, stats, bucket, history>>

ForwardDone(w) ==
    /\ pc[w] = "forward"
    /\ batch[w] = {}
    /\ pc' = [pc EXCEPT ![w] = returnTo[w]]
    /\ UNCHANGED <<config, channel, cur, buffer, batch, result, returnTo, delete_counter, token,
                   stats, bucket, history>>

(* The supervisor of a worker that returned an error. *)
Supervise(w) ==
    /\ pc[w] = "failed"
    /\ cancelled' = TRUE
    /\ has_error' = TRUE
    /\ pc' = [pc EXCEPT ![w] = "done"]
    /\ UNCHANGED <<config, channel, cur, buffer, batch, result, returnTo, delete_counter,
                   has_warning, stats, bucket, history>>

-----------------------------------------------------------------------------

WorkerStep(w) ==
    \/ Receive(w) \/ ReceiveClosed(w) \/ ReceiveCancelled(w) \/ AfterObject(w)
    \/ ApplyHeadObjectFilters(w) \/ ApplyTagFilters(w)
    \/ BufferAndDelete(w) \/ ExceedMaxDelete(w) \/ StopAtMaxDelete(w)
    \/ Flush(w) \/ SingleDelete(w) \/ BatchDelete(w) \/ BatchDeleteError(w)
    \/ Retry(w) \/ RetryDone(w) \/ Report(w) \/ Forward(w) \/ ForwardDone(w)
    \/ Supervise(w)

(* Every worker has returned and dropped its sender, so that the Terminator, and  *)
(* with it run(), can end. The supervisors, which nobody awaits, may come later.  *)
StageOver == \A w \in Workers : pc[w] \in {"failed", "done"}

(* Every task of the stage has ended: the run goes no further. *)
AllDone == \A w \in Workers : pc[w] = "done"

Terminated == AllDone /\ UNCHANGED vars

Next ==
    \/ SendUpstream \/ CloseUpstream \/ Cancel \/ TerminatorReceive
    \/ \E o \in Contended : OtherClient(o)
    \/ \E w \in Workers : WorkerStep(w)
    \/ Terminated

Spec == Init /\ [][Next]_vars

(* The runtime polls every ready task: a worker that can step does, the           *)
(* Terminator keeps receiving, and the upstream stages end.                       *)
Fairness ==
    /\ WF_vars(CloseUpstream)
    /\ WF_vars(TerminatorReceive)
    /\ \A w \in Workers : WF_vars(WorkerStep(w))

FairSpec == Spec /\ Fairness

-----------------------------------------------------------------------------
(* Properties. *)

ResultType ==
    [ deleted : SUBSET Objects, failed : SUBSET Objects, errors : SUBSET Objects,
      key : Objects \cup {None}, attempt : Nat ]

StatsType == [complete : Nat, error : Nat, skip : Nat, failed : Nat]

(* Every variable holds a value of its type; in particular a worker never makes   *)
(* more than force_retry_count + 1 fallback attempts for a key.                   *)
TypeOK ==
    /\ config \in Configs
    /\ upstream \in SUBSET Objects
    /\ input \in SUBSET Objects
    /\ closed \in BOOLEAN
    /\ pc \in [Workers -> PC]
    /\ cur \in [Workers -> Objects \cup {None}]
    /\ buffer \in [Workers -> SUBSET Objects]
    /\ batch \in [Workers -> SUBSET Objects]
    /\ result \in [Workers -> ResultType]
    /\ \A w \in Workers : result[w].attempt <= config.force_retry_count
    /\ returnTo \in [Workers -> {"next", "stop", "done"}]
    /\ output \in 0 .. QueueSize
    /\ delete_counter \in Nat
    /\ cancelled \in BOOLEAN
    /\ has_warning \in BOOLEAN
    /\ has_error \in BOOLEAN
    /\ stats \in StatsType
    /\ bucket \in [Objects -> ObjectState]
    /\ admitted \in SUBSET Objects
    /\ outcome \in [Objects -> Outcome]
    /\ removed \in [Objects -> SUBSET {"listed", "changed", "rewritten"}]

(* What the run deleted, or says it deleted. *)
Touched == {o \in Objects : removed[o] # {} \/ outcome[o] = "deleted"}

(* --max-delete is a hard cap: however many workers count and flush at the same   *)
(* time, no more than max_delete objects are deleted or, in a dry run, reported.  *)
MaxDeleteCap == config.max_delete # None => Cardinality(Touched) <= config.max_delete

(* A key reported as deleted (DELETE_COMPLETE, DeleteComplete, the report) is not *)
(* still in the bucket as it was listed, whatever retries were needed.            *)
TruthfulReport ==
    \A o \in Objects : outcome[o] = "deleted" /\ ~config.dry_run => bucket[o] # "listed"

(* With --if-match, an object that was listed with an ETag and whose bytes were   *)
(* replaced after the listing survives: the batch request, the single request and *)
(* every fallback attempt. An object listed without an ETag has no protection,    *)
(* nor has one that was rewritten with the same bytes.                            *)
IfMatchProtects ==
    config.if_match => \A o \in Objects \ WithoutETag : "changed" \notin removed[o]

(* Where an object that has no outcome yet is. *)
HeldBy(w, o) == (IF cur[w] = o THEN 1 ELSE 0) + (IF o \in buffer[w] THEN 1 ELSE 0)
                + (IF o \in batch[w] THEN 1 ELSE 0)

(* No object is ever in two places: not with two workers, not in a buffer and in  *)
(* the batch taken from it, not queued again; so none is deleted or counted twice *)
OneOwner ==
    \A o \in Objects :
        LET held == {w \in Workers : HeldBy(w, o) > 0}
        IN /\ Cardinality(held) <= 1
           /\ \A w \in held : HeldBy(w, o) = 1
           /\ o \in upstream \cup input => held = {} /\ outcome[o] = "pending"
           /\ o \notin upstream \/ o \notin input

(* A run that nobody cancelled resolved every object it received.                 *)
(* receive_and_delete flushes the partial batch when the channel closes.          *)
NothingLost ==
    AllDone /\ ~cancelled =>
        \A o \in Objects \ upstream : outcome[o] \in {"skipped", "deleted", "failed"}

(* From the channel to its outcome every object is in exactly one place of the    *)
(* pool, and in a run nobody cancelled it gets there.                             *)
ObjectsConserved == OneOwner /\ NothingLost

With(x) == Cardinality({o \in Objects : outcome[o] = x})

(* At the end the statistics count each object once and under the right heading:  *)
(* the DeleteError messages come from the deleters, the fallback and the          *)
(* --max-delete stop, the failed count only from delete_buffered_objects.         *)
StatsAgree ==
    AllDone => /\ stats.complete = With("deleted")
               /\ stats.failed = With("failed")
               /\ stats.error = With("failed") + With("stopped")
               /\ stats.skip = With("skipped")

(* When run() can return, a failure has left a trace, though the supervisors of   *)
(* failed workers may still have to run: failed keys and the --max-delete stop    *)
(* have set has_warning, and failed keys under --warn-as-error, the stop, and a   *)
(* batch whose request failed as a whole have cancelled the run. Nothing is said  *)
(* of has_error, which the supervisors set and which run() may miss.              *)
FailuresVisible ==
    StageOver =>
        /\ With("failed") + With("stopped") > 0 => has_warning
        /\ With("failed") > 0 /\ config.warn_as_error => cancelled
        /\ With("stopped") + With("unknown") > 0 => cancelled

(* No request asks for more than the batch size, which is at most the 1000 keys   *)
(* of a DeleteObjects call, nor for nothing: also if a flush was refused because  *)
(* of a cancellation and left a full buffer behind, and whatever the receive loop *)
(* does then.                                                                     *)
BatchesFit ==
    \A w \in Workers :
        /\ Cardinality(buffer[w]) <= EffectiveBatchSize
        /\ pc[w] = "request" => Cardinality(batch[w]) \in 1 .. EffectiveBatchSize

(* Every worker ends, even when it waits for room in the output channel, when the *)
(* token is cancelled in the middle of a batch, or when others fail.              *)
Termination == <>AllDone

(* An object over the limit always stops the run. *)
MaxDeleteStops ==
    (config.max_delete # None /\ delete_counter > config.max_delete) ~> cancelled

=============================================================================
