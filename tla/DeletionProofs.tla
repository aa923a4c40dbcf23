--------------------------- MODULE DeletionProofs ---------------------------
(* Proofs about the deletion stage, for every number of workers and objects,      *)
(* every queue size and every configuration: its types, its batches and requests, *)
(* then that it conserves its objects, counts them and shows their failures, and  *)
(* that it implements Deletion.                                                   *)
EXTENDS DeletionRefinement, FiniteSetTheorems, TLAPS

-----------------------------------------------------------------------------
(* Types, batches and requests.                                                   *)

(* process_object has a current object until it buffers or gives it up. *)
HasCurrent == \A w \in Workers : pc[w] \in {"head", "tag", "count"} => cur[w] \in Objects

(* The strengthening of TypeOK that is inductive. *)
TypeInv == TypeOK /\ HasCurrent

(* Cardinalities of sets of objects are natural numbers. *)
LEMMA CardinalityOfObjects ==
    ASSUME NEW S \in SUBSET Objects
    PROVE  IsFiniteSet(S) /\ Cardinality(S) \in Nat
  BY ObjectDeleterAssumption, FS_Subset, FS_CardinalityType

(* The types of the configuration's fields. *)
LEMMA ConfigTypes ==
    ASSUME TypeOK
    PROVE  /\ config.max_delete \in Nat \cup {None}
           /\ config.batch_size \in Nat
           /\ config.dry_run \in BOOLEAN
           /\ config.warn_as_error \in BOOLEAN
           /\ config.if_match \in BOOLEAN
           /\ config.force_retry_count \in Nat
           /\ config.head_filters \in BOOLEAN
           /\ config.tag_filters \in BOOLEAN
  BY ObjectDeleterAssumption DEF TypeOK, ConfigType

LEMMA NoResultType == NoResult \in ResultType /\ NoResult.attempt = 0
  BY DEF NoResult, ResultType

(* Counting one more message of a kind. *)
LEMMA StatsTypes ==
    ASSUME stats \in StatsType, NEW n \in Nat
    PROVE  /\ [stats EXCEPT !.skip = @ + n] \in StatsType
           /\ [stats EXCEPT !.error = @ + n] \in StatsType
  BY DEF StatsType

LEMMA StatsReported ==
    ASSUME stats \in StatsType, NEW m \in Nat, NEW n \in Nat
    PROVE  [stats EXCEPT !.complete = @ + m, !.failed = @ + n] \in StatsType
  <1> DEFINE s == [stats EXCEPT !.complete = @ + m]
  <1>1. s \in StatsType /\ stats.failed + n \in Nat
    BY DEF StatsType
  <1> HIDE DEF s
  <1>2. [s EXCEPT !.failed = stats.failed + n] \in StatsType
    BY <1>1 DEF StatsType
  <1>3. QED
    BY <1>2 DEF s

(* A worker's new result has its type and keeps to the retry limit. *)
Result == /\ result \in [Workers -> ResultType]
          /\ \A w \in Workers : result[w].attempt <= config.force_retry_count

LEMMA ResultTypes ==
    ASSUME TypeOK, NEW w \in Workers, NEW r \in ResultType,
           r.attempt <= config.force_retry_count,
           result' = [result EXCEPT ![w] = r], config' = config
    PROVE  Result'
  BY DEF TypeOK, Result

LEMMA FreshResult ==
    ASSUME TypeOK, NEW w \in Workers, NEW r, r \in ResultType, r.attempt = 0,
           result' = [result EXCEPT ![w] = r], config' = config
    PROVE  Result'
  <1>1. r.attempt <= config.force_retry_count
    BY ConfigTypes
  <1>2. QED
    BY <1>1, ResultTypes

(* A delete request leaves every object in one of its states. *)
LEMMA RemoveType ==
    ASSUME TypeOK, NEW D, Remove(D)
    PROVE  /\ bucket' \in [Objects -> ObjectState]
           /\ removed' \in [Objects -> SUBSET {"listed", "changed", "rewritten"}]
  <1>1. bucket' \in [Objects -> ObjectState]
    BY DEF Remove, TypeOK, ObjectState
  <1>2. \A o \in Objects : bucket[o] # "gone" => bucket[o] \in {"listed", "changed", "rewritten"}
    BY DEF TypeOK, ObjectState
  <1>3. removed' \in [Objects -> SUBSET {"listed", "changed", "rewritten"}]
    BY <1>2 DEF Remove, TypeOK
  <1>4. QED
    BY <1>1, <1>3

LEMMA TypeInit == Init => TypeInv
  <1> SUFFICES ASSUME Init PROVE TypeInv
    OBVIOUS
  <1>1. config \in ConfigType /\ config.force_retry_count \in Nat
    BY ObjectDeleterAssumption DEF Init, ConfigType
  <1>2. stats \in StatsType
    BY DEF Init, StatsType
  <1>3. /\ result \in [Workers -> ResultType]
        /\ \A w \in Workers : result[w].attempt <= config.force_retry_count
    BY <1>1, NoResultType DEF Init
  <1>4. output \in 0 .. QueueSize
    BY ObjectDeleterAssumption DEF Init
  <1>5. /\ bucket \in [Objects -> ObjectState]
        /\ outcome \in [Objects -> Outcome]
        /\ removed \in [Objects -> SUBSET {"listed", "changed", "rewritten"}]
    BY DEF Init, ObjectState, Outcome
  <1>6. /\ pc \in [Workers -> PC]
        /\ cur \in [Workers -> Objects \cup {None}]
        /\ HasCurrent
    BY DEF Init, PC, HasCurrent
  <1>7. QED
    BY <1>2, <1>3, <1>4, <1>5, <1>6 DEF Init, TypeInv, TypeOK

USE DEF vars, channel, worker, token, history

(* Steps of the surroundings keep the types. *)
LEMMA TypeSurroundings ==
    ASSUME TypeInv, SendUpstream \/ CloseUpstream \/ Cancel \/ TerminatorReceive
                    \/ (\E o \in Contended : OtherClient(o)) \/ UNCHANGED vars
    PROVE  TypeInv'
  <1>1. CASE SendUpstream
    BY <1>1 DEF TypeInv, TypeOK, HasCurrent, SendUpstream
  <1>2. CASE CloseUpstream
    BY <1>2 DEF TypeInv, TypeOK, HasCurrent, CloseUpstream
  <1>3. CASE Cancel
    BY <1>3 DEF TypeInv, TypeOK, HasCurrent, Cancel
  <1>4. CASE TerminatorReceive
    <2>1. output' \in 0 .. QueueSize
      BY <1>4, ObjectDeleterAssumption DEF TypeInv, TypeOK, TerminatorReceive
    <2>2. QED
      BY <1>4, <2>1 DEF TypeInv, TypeOK, HasCurrent, TerminatorReceive
  <1>5. CASE \E o \in Contended : OtherClient(o)
    <2>1. bucket' \in [Objects -> ObjectState]
      BY <1>5 DEF TypeInv, TypeOK, OtherClient, ObjectState
    <2>2. QED
      BY <1>5, <2>1 DEF TypeInv, TypeOK, HasCurrent, OtherClient
  <1>6. CASE UNCHANGED vars
    BY <1>6 DEF TypeInv, TypeOK, HasCurrent
  <1>7. QED
    BY <1>1, <1>2, <1>3, <1>4, <1>5, <1>6

(* Both attribute filters keep the types. *)
LEMMA TypeFilters ==
    ASSUME TypeInv, NEW w \in Workers, NEW enabled \in BOOLEAN, NEW next \in PC,
           pc[w] \in {"head", "tag"}, AttributeFilters(w, enabled, next)
    PROVE  TypeInv'
  <1>0. /\ FilterPass(w, next) \/ FilterSkip(w) \/ FilterFail(w)
        /\ UNCHANGED <<config, channel, cur, buffer, batch, result, returnTo, delete_counter,
                       bucket, admitted, removed>>
    BY DEF AttributeFilters
  <1>1. stats' \in StatsType
    <2>1. [stats EXCEPT !.skip = @ + 1] \in StatsType
      BY StatsTypes DEF TypeInv, TypeOK
    <2>2. QED
      BY <1>0, <2>1 DEF TypeInv, TypeOK, FilterPass, FilterSkip, FilterFail
  <1>2. outcome' \in [Objects -> Outcome]
    BY <1>0 DEF TypeInv, TypeOK, FilterPass, FilterSkip, FilterFail, Outcome
  <1>3. \E x \in PC : pc' = [pc EXCEPT ![w] = x]
    BY <1>0 DEF FilterPass, FilterSkip, FilterFail, PC
  <1>4. pc' \in [Workers -> PC] /\ HasCurrent'
    BY <1>0, <1>3 DEF TypeInv, TypeOK, HasCurrent
  <1>5. cancelled' \in BOOLEAN /\ UNCHANGED <<has_warning, has_error>>
    BY <1>0 DEF TypeInv, TypeOK, FilterPass, FilterSkip, FilterFail
  <1>6. QED
    BY <1>0, <1>1, <1>2, <1>4, <1>5 DEF TypeInv, TypeOK

(* Receiving, filtering and admitting keep the types. *)
LEMMA TypeProcess ==
    ASSUME TypeInv, NEW w \in Workers,
           Receive(w) \/ ReceiveClosed(w) \/ ReceiveCancelled(w) \/ AfterObject(w)
           \/ ApplyHeadObjectFilters(w) \/ ApplyTagFilters(w)
           \/ BufferAndDelete(w) \/ ExceedMaxDelete(w) \/ StopAtMaxDelete(w)
    PROVE  TypeInv'
  <1>1. CASE Receive(w)
    BY <1>1 DEF TypeInv, TypeOK, HasCurrent, Receive, PC
  <1>2. CASE ReceiveClosed(w)
    BY <1>2 DEF TypeInv, TypeOK, HasCurrent, ReceiveClosed, Drained, PC
  <1>3. CASE ReceiveCancelled(w)
    BY <1>3 DEF TypeInv, TypeOK, HasCurrent, ReceiveCancelled, PC
  <1>4. CASE AfterObject(w)
    BY <1>4 DEF TypeInv, TypeOK, HasCurrent, AfterObject, PC
  <1>5. CASE ApplyHeadObjectFilters(w)
    BY <1>5, TypeFilters, ConfigTypes DEF TypeInv, ApplyHeadObjectFilters, PC
  <1>6. CASE ApplyTagFilters(w)
    BY <1>6, TypeFilters, ConfigTypes DEF TypeInv, ApplyTagFilters, PC
  <1>7. CASE BufferAndDelete(w)
    BY <1>7 DEF TypeInv, TypeOK, HasCurrent, BufferAndDelete, PC
  <1>8. CASE ExceedMaxDelete(w)
    BY <1>8 DEF TypeInv, TypeOK, HasCurrent, ExceedMaxDelete, FlushedAtLimit, PC
  <1>9. CASE StopAtMaxDelete(w)
    <2>1. stats' \in StatsType
      BY <1>9, StatsTypes DEF TypeInv, TypeOK, StopAtMaxDelete
    <2>2. outcome' \in [Objects -> Outcome]
      BY <1>9 DEF TypeInv, TypeOK, StopAtMaxDelete, Outcome
    <2>3. QED
      BY <1>9, <2>1, <2>2 DEF TypeInv, TypeOK, HasCurrent, StopAtMaxDelete, CancelledAtLimit, PC
  <1>10. QED
    BY <1>1, <1>2, <1>3, <1>4, <1>5, <1>6, <1>7, <1>8, <1>9

(* Taking a batch, deleting it, retrying keys, reporting and forwarding keep the  *)
(* types.                                                                         *)
LEMMA TypeDelete ==
    ASSUME TypeInv, NEW w \in Workers,
           Flush(w) \/ SingleDelete(w) \/ BatchDelete(w) \/ BatchDeleteError(w)
           \/ Retry(w) \/ RetryDone(w) \/ Report(w) \/ Forward(w) \/ ForwardDone(w)
           \/ Supervise(w)
    PROVE  TypeInv'
  <1>0. TypeOK /\ HasCurrent
    BY DEF TypeInv
  <1>1. CASE Flush(w)
    <2>0. /\ pc[w] = "flush"
          /\ UNCHANGED <<config, channel, cur, returnTo, delete_counter, token, stats, bucket,
                         history>>
      BY <1>1 DEF Flush
    <2>1. CASE NothingToFlush(w)
      BY <1>0, <1>1, <2>1 DEF TypeInv, TypeOK, HasCurrent, Flush, PC
    <2>2. CASE ~NothingToFlush(w)
      <3>1. /\ [NoResult EXCEPT !.deleted = buffer[w]] \in ResultType
            /\ [NoResult EXCEPT !.deleted = buffer[w]].attempt = 0
        BY <1>0 DEF TypeOK, NoResult, ResultType
      <3>2. PICK r \in ResultType : r.attempt = 0 /\ result' = [result EXCEPT ![w] = r]
        BY <1>1, <2>2, <3>1, NoResultType DEF Flush
      <3>3. Result'
        BY <1>0, <2>0, <3>2, FreshResult
      <3>4. /\ pc' \in [Workers -> PC] /\ HasCurrent'
            /\ buffer' \in [Workers -> SUBSET Objects]
            /\ batch' \in [Workers -> SUBSET Objects]
        BY <1>0, <1>1, <2>2, <2>0 DEF TypeOK, HasCurrent, Flush, BufferAfterTake, PC
      <3>5. QED
        BY <1>0, <2>0, <3>3, <3>4 DEF TypeInv, TypeOK, Result
    <2>3. QED
      BY <2>1, <2>2
  <1>2. CASE SingleDelete(w)
    <2>0. /\ pc' \in [Workers -> PC] /\ HasCurrent'
          /\ UNCHANGED <<config, channel, cur, buffer, batch, returnTo, delete_counter, token,
                         admitted, outcome>>
      BY <1>0, <1>2 DEF SingleDelete, TypeOK, HasCurrent, PC
    <2>1. PICK D \in SUBSET batch[w], ok \in SUBSET batch[w] :
             /\ Remove(D)
             /\ result' = [result EXCEPT ![w] = [NoResult EXCEPT !.deleted = ok,
                                                              !.failed = batch[w] \ ok]]
             /\ stats' = [stats EXCEPT !.error = @ + Cardinality(batch[w] \ ok)]
      BY <1>2 DEF SingleDelete
    <2>2. ok \in SUBSET Objects /\ batch[w] \ ok \in SUBSET Objects
      BY <1>0, <2>1 DEF TypeOK
    <2>3. stats' \in StatsType
      BY <1>0, <2>1, <2>2, CardinalityOfObjects, StatsTypes DEF TypeOK
    <2>4. /\ [NoResult EXCEPT !.deleted = ok, !.failed = batch[w] \ ok] \in ResultType
          /\ [NoResult EXCEPT !.deleted = ok, !.failed = batch[w] \ ok].attempt = 0
      BY <2>2 DEF NoResult, ResultType
    <2>5. Result'
      BY <1>0, <2>0, <2>1, <2>4, FreshResult
    <2>6. /\ bucket' \in [Objects -> ObjectState]
          /\ removed' \in [Objects -> SUBSET {"listed", "changed", "rewritten"}]
      BY <1>0, <2>1, RemoveType
    <2>7. QED
      BY <1>0, <2>0, <2>3, <2>5, <2>6 DEF TypeInv, TypeOK, Result
  <1>3. CASE BatchDelete(w)
    <2>0. /\ pc' \in [Workers -> PC] /\ HasCurrent'
          /\ UNCHANGED <<config, channel, cur, buffer, batch, returnTo, delete_counter, token,
                         admitted, outcome>>
      BY <1>0, <1>3 DEF BatchDelete, TypeOK, HasCurrent, PC
    <2>1. PICK ok \in SUBSET batch[w], retryable \in SUBSET batch[w], late \in SUBSET batch[w] :
             /\ Remove(ok \cup late)
             /\ result' = [result EXCEPT ![w] =
                   [NoResult EXCEPT !.deleted = ok, !.errors = retryable,
                                    !.failed = (batch[w] \ ok) \ retryable]]
             /\ stats' = [stats EXCEPT !.error =
                             @ + Cardinality(CountedAtOnce(batch[w] \ ok, retryable))]
      BY <1>3 DEF BatchDelete
    <2>2. /\ ok \in SUBSET Objects /\ retryable \in SUBSET Objects
          /\ (batch[w] \ ok) \ retryable \in SUBSET Objects
      BY <1>0, <2>1 DEF TypeOK
    <2>3. stats' \in StatsType
      BY <1>0, <2>1, <2>2, CardinalityOfObjects, StatsTypes DEF TypeOK, CountedAtOnce
    <2>4. /\ [NoResult EXCEPT !.deleted = ok, !.errors = retryable,
                              !.failed = (batch[w] \ ok) \ retryable] \in ResultType
          /\ [NoResult EXCEPT !.deleted = ok, !.errors = retryable,
                              !.failed = (batch[w] \ ok) \ retryable].attempt = 0
      BY <2>2 DEF NoResult, ResultType
    <2>5. Result'
      BY <1>0, <2>0, <2>1, <2>4, FreshResult
    <2>6. /\ bucket' \in [Objects -> ObjectState]
          /\ removed' \in [Objects -> SUBSET {"listed", "changed", "rewritten"}]
      BY <1>0, <2>1, RemoveType
    <2>7. QED
      BY <1>0, <2>0, <2>3, <2>5, <2>6 DEF TypeInv, TypeOK, Result
  <1>4. CASE BatchDeleteError(w)
    <2>1. /\ pc' \in [Workers -> PC] /\ HasCurrent'
          /\ outcome' \in [Objects -> Outcome]
          /\ batch' \in [Workers -> SUBSET Objects]
      BY <1>0, <1>4 DEF BatchDeleteError, TypeOK, HasCurrent, PC, Outcome
    <2>2. \E D : Remove(D)
      BY <1>4 DEF BatchDeleteError
    <2>3. /\ bucket' \in [Objects -> ObjectState]
          /\ removed' \in [Objects -> SUBSET {"listed", "changed", "rewritten"}]
      BY <1>0, <2>2, RemoveType
    <2>4. QED
      BY <1>0, <1>4, <2>1, <2>3 DEF TypeInv, TypeOK, BatchDeleteError
  <1>5. CASE Retry(w)
    <2>0. UNCHANGED <<config, channel, pc, cur, buffer, batch, returnTo, delete_counter, token,
                      admitted, outcome>>
      BY <1>5 DEF Retry
    <2>1. PICK o \in Objects : RetrySucceeds(w, o) \/ RetryFails(w, o)
      BY <1>0, <1>5 DEF Retry, TypeOK, ResultType
    <2>2. result[w] \in ResultType /\ result[w].attempt <= config.force_retry_count
      BY <1>0 DEF TypeOK
    <2>3. /\ Recovered(result[w], o) \in ResultType /\ Recovered(result[w], o).attempt = 0
          /\ Exhausted(result[w], o) \in ResultType /\ Exhausted(result[w], o).attempt = 0
          /\ Again(result[w], o) \in ResultType
          /\ Again(result[w], o).attempt = result[w].attempt + 1
      <3>1. result[w].attempt + 1 \in Nat
        BY <2>2 DEF ResultType
      <3>2. Recovered(result[w], o) \in ResultType /\ Recovered(result[w], o).attempt = 0
        BY <2>2 DEF Recovered, ResultType
      <3>3. Exhausted(result[w], o) \in ResultType /\ Exhausted(result[w], o).attempt = 0
        BY <2>2 DEF Exhausted, ResultType
      <3>4. /\ Again(result[w], o) \in ResultType
            /\ Again(result[w], o).attempt = result[w].attempt + 1
        BY <2>2, <3>1 DEF Again, ResultType
      <3>5. QED
        BY <3>2, <3>3, <3>4
    <2>4. [stats EXCEPT !.error = @ + 1] \in StatsType
      BY <1>0, StatsTypes DEF TypeOK
    <2>5. Result' /\ stats' \in StatsType /\ \E D : Remove(D)
      <3>1. CASE RetrySucceeds(w, o)
        BY <1>0, <2>0, <2>3, <3>1, FreshResult DEF RetrySucceeds, TypeOK
      <3>2. CASE RetryFails(w, o) /\ AttemptsLeft(w)
        <4>1. /\ result' = [result EXCEPT ![w] = Again(result[w], o)]
              /\ stats' = stats /\ \E D : Remove(D)
          BY <3>2 DEF RetryFails
        <4>2. Again(result[w], o).attempt <= config.force_retry_count
          BY <1>0, <2>2, <2>3, <3>2, ConfigTypes DEF AttemptsLeft, ResultType
        <4>3. QED
          BY <1>0, <2>0, <2>3, <4>1, <4>2, ResultTypes DEF TypeOK
      <3>3. CASE RetryFails(w, o) /\ ~AttemptsLeft(w)
        BY <1>0, <2>0, <2>3, <2>4, <3>3, FreshResult DEF RetryFails, TypeOK
      <3>4. QED
        BY <2>1, <3>1, <3>2, <3>3
    <2>6. /\ bucket' \in [Objects -> ObjectState]
          /\ removed' \in [Objects -> SUBSET {"listed", "changed", "rewritten"}]
      BY <1>0, <2>5, RemoveType
    <2>7. QED
      BY <1>0, <2>0, <2>5, <2>6 DEF TypeInv, TypeOK, HasCurrent, Result
  <1>6. CASE RetryDone(w)
    BY <1>0, <1>6 DEF TypeInv, TypeOK, HasCurrent, RetryDone, PC
  <1>7. CASE Report(w)
    <2>0. UNCHANGED <<config, channel, cur, buffer, returnTo, delete_counter, has_error, bucket,
                      admitted, removed>>
      BY <1>7 DEF Report
    <2>1. stats' \in StatsType
      <3>1. /\ Cardinality(result[w].deleted) \in Nat
            /\ Cardinality(result[w].failed) \in Nat
        BY <1>0, CardinalityOfObjects DEF TypeOK, ResultType
      <3>2. QED
        <4>1. stats' = [stats EXCEPT !.complete = @ + Cardinality(result[w].deleted),
                                     !.failed = @ + Cardinality(result[w].failed)]
          BY <1>7 DEF Report
        <4>2. stats \in StatsType
          BY <1>0 DEF TypeOK
        <4>3. QED
          BY <3>1, <4>1, <4>2, StatsReported
    <2>2. outcome' \in [Objects -> Outcome]
      BY <1>0, <1>7 DEF Report, TypeOK, Outcome
    <2>3. Result'
      BY <1>0, <1>7, <2>0, NoResultType, FreshResult DEF Report
    <2>4. pc' \in [Workers -> PC] /\ HasCurrent'
      BY <1>0, <1>7, <2>0 DEF Report, TypeOK, HasCurrent, PC
    <2>5. batch' \in [Workers -> SUBSET Objects]
      BY <1>0, <1>7 DEF Report, TypeOK
    <2>6. has_warning' \in BOOLEAN /\ cancelled' \in BOOLEAN
      BY <1>0, <1>7 DEF Report, TypeOK, WarningAfter
    <2>7. QED
      BY <1>0, <2>0, <2>1, <2>2, <2>3, <2>4, <2>5, <2>6 DEF TypeInv, TypeOK, Result
  <1>8. CASE Forward(w)
    <2>1. output' \in 0 .. QueueSize
      BY <1>0, <1>8, ObjectDeleterAssumption DEF TypeOK, Forward
    <2>2. QED
      BY <1>0, <1>8, <2>1 DEF TypeInv, TypeOK, HasCurrent, Forward
  <1>9. CASE ForwardDone(w)
    BY <1>0, <1>9 DEF TypeInv, TypeOK, HasCurrent, ForwardDone, PC
  <1>10. CASE Supervise(w)
    BY <1>0, <1>10 DEF TypeInv, TypeOK, HasCurrent, Supervise, PC
  <1>11. QED
    BY <1>1, <1>2, <1>3, <1>4, <1>5, <1>6, <1>7, <1>8, <1>9, <1>10

(* Every step of the stage keeps the types. *)
LEMMA TypeNext == TypeInv /\ [Next]_vars => TypeInv'
  BY TypeSurroundings, TypeProcess, TypeDelete DEF Next, WorkerStep, Terminated

(* TypeOK holds in every reachable state: the workers of delete_objects in        *)
(* pipeline.rs never leave their control states, and no key gets more than        *)
(* force_retry_count + 1 fallback attempts.                                       *)
THEOREM TypeCorrect == Spec => []TypeOK
  <1>1. TypeInv => TypeOK
    BY DEF TypeInv
  <1>2. QED
    BY <1>1, TypeInit, TypeNext, PTL DEF Spec

-----------------------------------------------------------------------------
(* The cap. Every worker deletes only what it counted, and what was counted is    *)
(* bounded because the shared counter moves before the object enters a buffer.    *)

(* The objects a worker may still delete or report as deleted. *)
Held(w) == buffer[w] \cup batch[w] \cup result[w].deleted \cup result[w].errors
               \cup ({result[w].key} \ {None})

(* Whatever is held, was deleted or was reported deleted passed check_max_delete. *)
AdmittedOnly ==
    /\ \A w \in Workers : Held(w) \subseteq admitted
    /\ Touched \subseteq admitted

(* Each admission moved the counter, and moved it to at most the limit. *)
AdmissionCounted ==
    /\ Cardinality(admitted) <= delete_counter
    /\ config.max_delete # None => Cardinality(admitted) <= config.max_delete

CapInv == TypeInv /\ AdmittedOnly /\ AdmissionCounted

LEMMA CapInit == Init => AdmittedOnly /\ AdmissionCounted
  <1> SUFFICES ASSUME Init PROVE AdmittedOnly /\ AdmissionCounted
    OBVIOUS
  <1>1. AdmittedOnly
    BY DEF Init, AdmittedOnly, Held, Touched, NoResult
  <1>2. Cardinality(admitted) = 0 /\ config.max_delete \in Nat \cup {None}
    BY FS_EmptySet, TypeInit, ConfigTypes DEF Init, TypeInv
  <1>3. AdmissionCounted
    BY <1>2 DEF Init, AdmissionCounted
  <1>4. QED
    BY <1>1, <1>3

(* Only BufferAndDelete admits; only counting moves the counter. *)
LEMMA CountedNext ==
    ASSUME TypeInv, AdmissionCounted, [Next]_vars
    PROVE  AdmissionCounted'
  <1>0. TypeOK /\ HasCurrent
    BY DEF TypeInv
  <1>1. ASSUME NEW w \in Workers, BufferAndDelete(w)
        PROVE  AdmissionCounted'
    <2>1. /\ admitted' = admitted \cup {cur[w]} /\ delete_counter' = delete_counter + 1
          /\ config.max_delete # None => delete_counter + 1 <= config.max_delete
          /\ config' = config
      BY <1>1 DEF BufferAndDelete, WithinMaxDelete
    <2>2. /\ IsFiniteSet(admitted) /\ Cardinality(admitted) \in Nat
          /\ delete_counter \in Nat
      BY <1>0, CardinalityOfObjects DEF TypeOK
    <2>3. Cardinality(admitted') \in {Cardinality(admitted), Cardinality(admitted) + 1}
      BY <2>1, <2>2, FS_AddElement
    <2>4. QED
      BY <1>0, <2>1, <2>2, <2>3, ConfigTypes DEF AdmissionCounted
  <1>2. ASSUME NEW w \in Workers, ExceedMaxDelete(w)
        PROVE  AdmissionCounted'
    <2>1. Cardinality(admitted) \in Nat /\ delete_counter \in Nat
      BY <1>0, CardinalityOfObjects DEF TypeOK
    <2>2. QED
      BY <1>2, <2>1 DEF ExceedMaxDelete, AdmissionCounted
  <1>3. CASE UNCHANGED <<config, admitted, delete_counter>>
    BY <1>3 DEF AdmissionCounted
  <1>4. ASSUME NEW w \in Workers, WorkerStep(w), ~BufferAndDelete(w), ~ExceedMaxDelete(w)
        PROVE  UNCHANGED <<config, admitted, delete_counter>>
    <2>1. CASE Receive(w) \/ ReceiveClosed(w) \/ ReceiveCancelled(w) \/ AfterObject(w)
               \/ ApplyHeadObjectFilters(w) \/ ApplyTagFilters(w) \/ StopAtMaxDelete(w)
      BY <2>1 DEF Receive, ReceiveClosed, ReceiveCancelled, AfterObject, ApplyHeadObjectFilters,
                  ApplyTagFilters, AttributeFilters, StopAtMaxDelete
    <2>2. CASE Flush(w) \/ SingleDelete(w) \/ BatchDelete(w) \/ BatchDeleteError(w) \/ Retry(w)
      BY <2>2 DEF Flush, SingleDelete, BatchDelete, BatchDeleteError, Retry
    <2>3. CASE RetryDone(w) \/ Report(w) \/ Forward(w) \/ ForwardDone(w) \/ Supervise(w)
      BY <2>3 DEF RetryDone, Report, Forward, ForwardDone, Supervise
    <2>4. QED
      BY <1>4, <2>1, <2>2, <2>3 DEF WorkerStep
  <1>5. CASE SendUpstream \/ CloseUpstream \/ Cancel \/ TerminatorReceive \/ Terminated
             \/ (\E o \in Contended : OtherClient(o)) \/ UNCHANGED vars
    BY <1>3, <1>5 DEF SendUpstream, CloseUpstream, Cancel, TerminatorReceive, OtherClient, Terminated
  <1>6. QED
    BY <1>1, <1>2, <1>3, <1>4, <1>5 DEF Next

(* A request that removes only held objects removes only admitted ones. *)
LEMMA RemoveAdmitted ==
    ASSUME Touched \subseteq admitted, NEW D \in SUBSET admitted, Remove(D),
           outcome' = outcome, admitted' = admitted
    PROVE  Touched' \subseteq admitted'
  BY DEF Touched, Remove

LEMMA AdmittedNext ==
    ASSUME TypeInv, AdmittedOnly, [Next]_vars
    PROVE  AdmittedOnly'
  <1>0. TypeOK /\ HasCurrent
    BY DEF TypeInv
  <1>1. CASE UNCHANGED <<buffer, batch, result, admitted, outcome, removed>>
    BY <1>1 DEF AdmittedOnly, Held, Touched
  <1>2. ASSUME NEW w \in Workers,
               ApplyHeadObjectFilters(w) \/ ApplyTagFilters(w) \/ StopAtMaxDelete(w)
        PROVE  AdmittedOnly'
    BY <1>0, <1>2
    DEF TypeOK, AdmittedOnly, Held, Touched, ApplyHeadObjectFilters, ApplyTagFilters,
        AttributeFilters, FilterPass, FilterSkip, FilterFail, StopAtMaxDelete
  <1>3. ASSUME NEW w \in Workers, BufferAndDelete(w)
        PROVE  AdmittedOnly'
    BY <1>0, <1>3 DEF TypeOK, AdmittedOnly, Held, Touched, BufferAndDelete
  <1>4. ASSUME NEW w \in Workers, ExceedMaxDelete(w)
        PROVE  AdmittedOnly'
    BY <1>0, <1>4 DEF TypeOK, AdmittedOnly, Held, Touched, ExceedMaxDelete, FlushedAtLimit
  <1>5. ASSUME NEW w \in Workers, Flush(w)
        PROVE  AdmittedOnly'
    <2>1. CASE NothingToFlush(w)
      BY <1>1, <1>5, <2>1 DEF Flush
    <2>2. CASE ~NothingToFlush(w)
      <3>1. /\ batch' = [batch EXCEPT ![w] = buffer[w]]
            /\ buffer' = [buffer EXCEPT ![w] = {}]
            /\ UNCHANGED <<admitted, outcome, removed>>
        BY <1>5, <2>2 DEF Flush, BufferAfterTake
      <3>2. PICK r : /\ result' = [result EXCEPT ![w] = r]
                     /\ r.deleted \subseteq buffer[w] /\ r.errors = {} /\ r.key = None
        BY <1>5, <2>2 DEF Flush, NoResult
      <3>3. QED
        BY <1>0, <3>1, <3>2 DEF TypeOK, AdmittedOnly, Held, Touched
    <2>3. QED
      BY <2>1, <2>2
  <1>6. ASSUME NEW w \in Workers, SingleDelete(w)
        PROVE  AdmittedOnly'
    <2>1. PICK D \in SUBSET batch[w], ok \in SUBSET batch[w] :
             /\ Remove(D)
             /\ result' = [result EXCEPT ![w] = [NoResult EXCEPT !.deleted = ok,
                                                              !.failed = batch[w] \ ok]]
      BY <1>6 DEF SingleDelete
    <2>2. UNCHANGED <<buffer, batch, admitted, outcome>>
      BY <1>6 DEF SingleDelete
    <2>3. D \in SUBSET admitted
      BY <2>1 DEF AdmittedOnly, Held
    <2>4. Touched' \subseteq admitted'
      BY <2>1, <2>2, <2>3, RemoveAdmitted DEF AdmittedOnly
    <2>5. \A v \in Workers : Held(v)' \subseteq Held(v)
      BY <1>0, <2>1, <2>2 DEF TypeOK, Held, NoResult
    <2>6. QED
      BY <2>2, <2>4, <2>5 DEF AdmittedOnly
  <1>7. ASSUME NEW w \in Workers, BatchDelete(w)
        PROVE  AdmittedOnly'
    <2>1. PICK ok \in SUBSET batch[w], retryable \in SUBSET batch[w], late \in SUBSET batch[w] :
             /\ Remove(ok \cup late)
             /\ result' = [result EXCEPT ![w] =
                   [NoResult EXCEPT !.deleted = ok, !.errors = retryable,
                                    !.failed = (batch[w] \ ok) \ retryable]]
      BY <1>7 DEF BatchDelete
    <2>2. UNCHANGED <<buffer, batch, admitted, outcome>>
      BY <1>7 DEF BatchDelete
    <2>3. ok \cup late \in SUBSET admitted
      BY <2>1 DEF AdmittedOnly, Held
    <2>4. Touched' \subseteq admitted'
      BY <2>1, <2>2, <2>3, RemoveAdmitted DEF AdmittedOnly
    <2>5. \A v \in Workers : Held(v)' \subseteq Held(v)
      BY <1>0, <2>1, <2>2 DEF TypeOK, Held, NoResult
    <2>6. QED
      BY <2>2, <2>4, <2>5 DEF AdmittedOnly
  <1>8. ASSUME NEW w \in Workers, BatchDeleteError(w)
        PROVE  AdmittedOnly'
    <2>1. PICK D \in SUBSET batch[w] : Remove(D)
      BY <1>8 DEF BatchDeleteError
    <2>2. /\ UNCHANGED <<buffer, result, admitted>>
          /\ batch' = [batch EXCEPT ![w] = {}]
          /\ \A o \in Objects : outcome'[o] = "deleted" => outcome[o] = "deleted"
      BY <1>8 DEF BatchDeleteError
    <2>3. Touched' \subseteq admitted'
      BY <2>1, <2>2 DEF AdmittedOnly, Held, Touched, Remove
    <2>4. \A v \in Workers : Held(v)' \subseteq Held(v)
      BY <1>0, <2>2 DEF TypeOK, Held
    <2>5. QED
      BY <2>2, <2>3, <2>4 DEF AdmittedOnly
  <1>9. ASSUME NEW w \in Workers, Retry(w)
        PROVE  AdmittedOnly'
    <2>1. PICK o \in result[w].errors \cup ({result[w].key} \ {None}) :
             RetrySucceeds(w, o) \/ RetryFails(w, o)
      BY <1>9 DEF Retry
    <2>2. PICK D \in SUBSET {o}, r \in {Recovered(result[w], o), Again(result[w], o),
                                        Exhausted(result[w], o)} :
             Remove(D) /\ result' = [result EXCEPT ![w] = r]
      BY <2>1 DEF RetrySucceeds, RetryFails
    <2>3. UNCHANGED <<buffer, batch, admitted, outcome>>
      BY <1>9 DEF Retry
    <2>4. Touched' \subseteq admitted'
      BY <2>1, <2>2, <2>3, RemoveAdmitted DEF AdmittedOnly, Held
    <2>5. /\ r.deleted \subseteq result[w].deleted \cup {o}
          /\ r.errors \subseteq result[w].errors
          /\ r.key \in {o, None}
      <3>1. result[w] \in ResultType
        BY <1>0 DEF TypeOK
      <3>2. QED
        BY <2>2, <3>1 DEF Recovered, Again, Exhausted, ResultType
    <2>6. \A v \in Workers : Held(v)' \subseteq Held(v)
      BY <1>0, <2>1, <2>2, <2>3, <2>5 DEF TypeOK, Held
    <2>7. QED
      BY <2>3, <2>4, <2>6 DEF AdmittedOnly
  <1>10. ASSUME NEW w \in Workers, Report(w)
        PROVE  AdmittedOnly'
    <2>1. /\ UNCHANGED <<buffer, admitted, removed>>
          /\ result' = [result EXCEPT ![w] = NoResult]
          /\ batch' \in [Workers -> SUBSET Objects] /\ \A v \in Workers : batch'[v] \subseteq batch[v]
      BY <1>0, <1>10 DEF Report, TypeOK
    <2>2. \A o \in Objects : outcome'[o] = "deleted" =>
                                 outcome[o] = "deleted" \/ o \in result[w].deleted
      BY <1>10 DEF Report
    <2>3. \A v \in Workers : Held(v)' \subseteq Held(v)
      BY <1>0, <2>1 DEF TypeOK, Held, NoResult
    <2>4. QED
      BY <2>1, <2>2, <2>3 DEF AdmittedOnly, Held, Touched
  <1>11. ASSUME NEW w \in Workers, Forward(w)
        PROVE  AdmittedOnly'
    BY <1>0, <1>11 DEF TypeOK, Forward, AdmittedOnly, Held, Touched
  <1>12. ASSUME NEW w \in Workers,
                Receive(w) \/ ReceiveClosed(w) \/ ReceiveCancelled(w) \/ AfterObject(w)
                \/ RetryDone(w) \/ ForwardDone(w) \/ Supervise(w)
         PROVE  AdmittedOnly'
    BY <1>1, <1>12 DEF Receive, ReceiveClosed, ReceiveCancelled, AfterObject, RetryDone,
                       ForwardDone, Supervise
  <1>13. CASE SendUpstream \/ CloseUpstream \/ Cancel \/ TerminatorReceive \/ Terminated
              \/ (\E o \in Contended : OtherClient(o)) \/ UNCHANGED vars
    BY <1>1, <1>13
    DEF SendUpstream, CloseUpstream, Cancel, TerminatorReceive, OtherClient, Terminated
  <1>14. QED
    BY <1>2, <1>3, <1>4, <1>5, <1>6, <1>7, <1>8, <1>9, <1>10, <1>11, <1>12, <1>13
    DEF Next, WorkerStep

(* --max-delete is a hard cap for any number of workers: the SeqCst counter of    *)
(* check_max_delete moves before the object is buffered, so at most max_delete    *)
(* objects are ever deleted, and no more are reported in a dry run.               *)
THEOREM CapHolds == Spec => []MaxDeleteCap
  <1>1. Init => CapInv
    BY TypeInit, CapInit DEF CapInv
  <1>2. CapInv /\ [Next]_vars => CapInv'
    BY TypeNext, CountedNext, AdmittedNext DEF CapInv
  <1>3. CapInv => MaxDeleteCap
    <2> SUFFICES ASSUME CapInv, config.max_delete # None
                 PROVE  Cardinality(Touched) <= config.max_delete
      BY DEF MaxDeleteCap
    <2>1. IsFiniteSet(admitted) /\ Cardinality(admitted) \in Nat
      BY CardinalityOfObjects DEF CapInv, TypeInv, TypeOK
    <2>2. Cardinality(Touched) <= Cardinality(admitted) /\ Cardinality(Touched) \in Nat
      BY <2>1, FS_Subset, FS_CardinalityType DEF CapInv, AdmittedOnly
    <2>3. config.max_delete \in Nat
      BY ConfigTypes DEF CapInv, TypeInv
    <2>4. QED
      BY <2>1, <2>2, <2>3 DEF CapInv, AdmissionCounted
  <1>4. QED
    BY <1>1, <1>2, <1>3, PTL DEF Spec

-----------------------------------------------------------------------------
(* --if-match. Every request for an object that was listed with an ETag carries   *)
(* it, the fallback's too.                                                        *)

(* A request that S3 accepts removes no object  of other bytes than the listed    *)
(* ones, unless the listing had no ETag to name.                                  *)
LEMMA RemoveAccepted ==
    ASSUME IfMatchProtects, config' = config, NEW D, Remove(D),
           \A o \in D : Accepts(o, IfMatch(o))
    PROVE  IfMatchProtects'
  BY DEF IfMatchProtects, Remove, Accepts, IfMatch

LEMMA IfMatchDelete ==
    ASSUME IfMatchProtects, NEW w \in Workers,
           SingleDelete(w) \/ BatchDelete(w) \/ BatchDeleteError(w) \/ Retry(w)
    PROVE  IfMatchProtects'
  <1>1. CASE SingleDelete(w)
    <2>1. PICK D \in SUBSET {o \in batch[w] : Accepts(o, IfMatch(o))} : Remove(D)
      BY <1>1 DEF SingleDelete
    <2>2. QED
      BY <1>1, <2>1, RemoveAccepted DEF SingleDelete
  <1>2. CASE BatchDelete(w)
    <2>1. PICK ok \in SUBSET {o \in batch[w] : Accepts(o, IfMatch(o))},
               late \in SUBSET {o \in batch[w] : Accepts(o, IfMatch(o))} :
             Remove(ok \cup late)
      BY <1>2 DEF BatchDelete
    <2>2. QED
      BY <1>2, <2>1, RemoveAccepted DEF BatchDelete
  <1>3. CASE BatchDeleteError(w)
    <2>1. PICK D \in SUBSET {o \in batch[w] : Accepts(o, IfMatch(o))} : Remove(D)
      BY <1>3 DEF BatchDeleteError
    <2>2. QED
      BY <1>3, <2>1, RemoveAccepted DEF BatchDeleteError
  <1>4. CASE Retry(w)
    <2>1. PICK o : RetrySucceeds(w, o) \/ RetryFails(w, o)
      BY <1>4 DEF Retry
    <2>2. PICK D \in SUBSET {x \in {o} : Accepts(x, IfMatch(x))} : Remove(D)
      BY <2>1 DEF RetrySucceeds, RetryFails, FallbackETag, IfMatch
    <2>3. QED
      BY <1>4, <2>2, RemoveAccepted DEF Retry
  <1>5. QED
    BY <1>1, <1>2, <1>3, <1>4

LEMMA IfMatchNext == IfMatchProtects /\ [Next]_vars => IfMatchProtects'
  <1> SUFFICES ASSUME IfMatchProtects, [Next]_vars PROVE IfMatchProtects'
    OBVIOUS
  <1>1. CASE UNCHANGED <<config, removed>>
    BY <1>1 DEF IfMatchProtects
  <1>2. ASSUME NEW w \in Workers,
               Receive(w) \/ ReceiveClosed(w) \/ ReceiveCancelled(w) \/ AfterObject(w)
               \/ ApplyHeadObjectFilters(w) \/ ApplyTagFilters(w)
               \/ BufferAndDelete(w) \/ ExceedMaxDelete(w) \/ StopAtMaxDelete(w)
        PROVE  UNCHANGED <<config, removed>>
    BY <1>2 DEF Receive, ReceiveClosed, ReceiveCancelled, AfterObject, ApplyHeadObjectFilters,
                ApplyTagFilters, AttributeFilters, BufferAndDelete, ExceedMaxDelete,
                StopAtMaxDelete, history
  <1>3. ASSUME NEW w \in Workers,
               Flush(w) \/ RetryDone(w) \/ Report(w) \/ Forward(w) \/ ForwardDone(w)
               \/ Supervise(w)
        PROVE  UNCHANGED <<config, removed>>
    BY <1>3 DEF Flush, RetryDone, Report, Forward, ForwardDone, Supervise, history
  <1>4. CASE SendUpstream \/ CloseUpstream \/ Cancel \/ TerminatorReceive \/ Terminated
             \/ (\E o \in Contended : OtherClient(o)) \/ UNCHANGED vars
    BY <1>1, <1>4 DEF SendUpstream, CloseUpstream, Cancel, TerminatorReceive, OtherClient,
                      Terminated, vars, history
  <1>5. QED
    BY <1>1, <1>2, <1>3, <1>4, IfMatchDelete DEF Next, WorkerStep

(* With --if-match no request of the run removes an object that was listed with   *)
(* an ETag and that another client replaced by other bytes after the listing: not *)
(* the DeleteObjects call of BatchDeleter, not the DeleteObject call of           *)
(* SingleDeleter, and no attempt of the fallback in                               *)
(* retry_failed_key_with_single_delete, whatever the other clients do meanwhile.  *)
THEOREM IfMatchHolds == Spec => []IfMatchProtects
  <1>1. Init => IfMatchProtects
    BY DEF Init, IfMatchProtects
  <1>2. QED
    BY <1>1, IfMatchNext, PTL DEF Spec

-----------------------------------------------------------------------------
(* The report. A key enters a DeleteResult as deleted only with S3's answer, and  *)
(* nothing brings the listed version of an object back.                           *)

(* TruthfulReport extended to the results that are not reported yet. *)
TruthInv ==
    ~config.dry_run =>
        \A o \in Objects :
            outcome[o] = "deleted" \/ (\E w \in Workers : o \in result[w].deleted)
                => bucket[o] # "listed"

(* No step puts a listed version back. *)
NeverRelisted == \A o \in Objects : bucket'[o] = "listed" => bucket[o] = "listed"

(* A request that removes D and answers "deleted" for some of D keeps TruthInv. *)
LEMMA TruthRemove ==
    ASSUME TypeOK, TruthInv, NEW w \in Workers, NEW D, Remove(D), NEW r,
           r.deleted \subseteq D \cup result[w].deleted,
           result' = [result EXCEPT ![w] = r],
           UNCHANGED <<config, outcome>>
    PROVE  TruthInv'
  <1>1. NeverRelisted /\ \A o \in Objects : o \in D => bucket'[o] # "listed"
    BY DEF Remove, NeverRelisted
  <1>2. \A o \in Objects, v \in Workers :
            o \in result'[v].deleted => o \in D \/ \E u \in Workers : o \in result[u].deleted
    BY DEF TypeOK
  <1>3. QED
    BY <1>1, <1>2 DEF TruthInv, NeverRelisted

(* A step that reports nothing new as deleted keeps TruthInv. *)
LEMMA TruthFrame ==
    ASSUME TruthInv, NeverRelisted, config' = config,
           \A o \in Objects : outcome'[o] = "deleted" =>
               outcome[o] = "deleted" \/ \E w \in Workers : o \in result[w].deleted,
           \A w \in Workers : result'[w].deleted \subseteq result[w].deleted
    PROVE  TruthInv'
  BY DEF TruthInv, NeverRelisted

LEMMA TruthDelete ==
    ASSUME TypeOK, TruthInv, NEW w \in Workers,
           SingleDelete(w) \/ BatchDelete(w) \/ BatchDeleteError(w) \/ Retry(w)
    PROVE  TruthInv'
  <1>1. CASE SingleDelete(w)
    <2>1. PICK D, ok :
             /\ ok \subseteq D
             /\ Remove(D)
             /\ result' = [result EXCEPT ![w] = [NoResult EXCEPT !.deleted = ok,
                                                              !.failed = batch[w] \ ok]]
      BY <1>1 DEF SingleDelete
    <2>2. [NoResult EXCEPT !.deleted = ok, !.failed = batch[w] \ ok].deleted = ok
      BY DEF NoResult
    <2>3. UNCHANGED <<config, outcome>>
      BY <1>1 DEF SingleDelete
    <2>4. QED
      BY <2>1, <2>2, <2>3, TruthRemove
  <1>2. CASE BatchDelete(w)
    <2>1. PICK ok, retryable, late :
             /\ Remove(ok \cup late)
             /\ result' = [result EXCEPT ![w] =
                   [NoResult EXCEPT !.deleted = ok, !.errors = retryable,
                                    !.failed = (batch[w] \ ok) \ retryable]]
      BY <1>2 DEF BatchDelete
    <2>2. [NoResult EXCEPT !.deleted = ok, !.errors = retryable,
                           !.failed = (batch[w] \ ok) \ retryable].deleted = ok
      BY DEF NoResult
    <2>3. UNCHANGED <<config, outcome>>
      BY <1>2 DEF BatchDelete
    <2>4. PICK r : r.deleted = ok /\ result' = [result EXCEPT ![w] = r]
      BY <2>1, <2>2
    <2>5. r.deleted \subseteq (ok \cup late) \cup result[w].deleted
      BY <2>4
    <2>6. QED
      BY <2>1, <2>3, <2>4, <2>5, TruthRemove
  <1>3. CASE BatchDeleteError(w)
    <2>1. NeverRelisted
      BY <1>3 DEF BatchDeleteError, Remove, NeverRelisted
    <2>2. /\ UNCHANGED <<config, result>>
          /\ \A o \in Objects : outcome'[o] = "deleted" => outcome[o] = "deleted"
      BY <1>3 DEF BatchDeleteError
    <2>3. QED
      BY <2>1, <2>2, TruthFrame
  <1>4. CASE Retry(w)
    <2>1. PICK o : RetrySucceeds(w, o) \/ RetryFails(w, o)
      BY <1>4 DEF Retry
    <2>2. result[w] \in ResultType /\ UNCHANGED <<config, outcome>>
      BY <1>4 DEF Retry, TypeOK
    <2>3. CASE RetrySucceeds(w, o)
      <3>1. Recovered(result[w], o).deleted \subseteq {o} \cup result[w].deleted
        BY <2>2 DEF Recovered, ResultType
      <3>2. QED
        BY <2>2, <2>3, <3>1, TruthRemove DEF RetrySucceeds
    <2>4. CASE RetryFails(w, o)
      <3>1. PICK D : Remove(D)
        BY <2>4 DEF RetryFails
      <3>2. PICK r \in {Again(result[w], o), Exhausted(result[w], o)} :
               result' = [result EXCEPT ![w] = r]
        BY <2>4 DEF RetryFails
      <3>3. r.deleted = result[w].deleted
        BY <2>2, <3>2 DEF Again, Exhausted, ResultType
      <3>4. QED
        BY <2>2, <3>1, <3>2, <3>3, TruthRemove
    <2>5. QED
      BY <2>1, <2>3, <2>4
  <1>5. QED
    BY <1>1, <1>2, <1>3, <1>4

LEMMA TruthNext == TypeInv /\ TruthInv /\ [Next]_vars => TruthInv'
  <1> SUFFICES ASSUME TypeInv, TypeOK, TruthInv, [Next]_vars PROVE TruthInv'
    BY DEF TypeInv
  <1>1. CASE UNCHANGED <<config, bucket, outcome, result>>
    BY <1>1 DEF TruthInv
  <1>2. ASSUME NEW w \in Workers,
               ApplyHeadObjectFilters(w) \/ ApplyTagFilters(w) \/ StopAtMaxDelete(w)
        PROVE  TruthInv'
    <2>1. /\ UNCHANGED <<config, bucket, result>>
          /\ \A o \in Objects : outcome'[o] = "deleted" => outcome[o] = "deleted"
      BY <1>2 DEF TypeOK, ApplyHeadObjectFilters, ApplyTagFilters, AttributeFilters, FilterPass,
                  FilterSkip, FilterFail, StopAtMaxDelete
    <2>2. QED
      BY <2>1, TruthFrame DEF NeverRelisted
  <1>3. ASSUME NEW w \in Workers, Flush(w)
        PROVE  TruthInv'
    <2>1. UNCHANGED <<config, bucket, outcome>>
      BY <1>3 DEF Flush, history
    <2>2. CASE config.dry_run
      BY <2>1, <2>2 DEF TruthInv
    <2>3. CASE ~config.dry_run
      <3>1. UNCHANGED result \/ result' = [result EXCEPT ![w] = NoResult]
        BY <1>3, <2>3 DEF Flush
      <3>2. \A v \in Workers : result'[v].deleted \subseteq result[v].deleted
        BY <3>1 DEF TypeOK, NoResult
      <3>3. QED
        BY <2>1, <3>2, TruthFrame DEF NeverRelisted
    <2>4. QED
      BY <2>2, <2>3
  <1>4. ASSUME NEW w \in Workers, Report(w)
        PROVE  TruthInv'
    <2>1. /\ UNCHANGED <<config, bucket>>
          /\ result' = [result EXCEPT ![w] = NoResult]
          /\ \A o \in Objects : outcome'[o] = "deleted" =>
                                    outcome[o] = "deleted" \/ o \in result[w].deleted
      BY <1>4 DEF Report
    <2>2. \A v \in Workers : result'[v].deleted \subseteq result[v].deleted
      BY <2>1 DEF TypeOK, NoResult
    <2>3. QED
      BY <2>1, <2>2, TruthFrame DEF NeverRelisted
  <1>5. ASSUME NEW w \in Workers,
               Receive(w) \/ ReceiveClosed(w) \/ ReceiveCancelled(w) \/ AfterObject(w)
               \/ BufferAndDelete(w) \/ ExceedMaxDelete(w)
        PROVE  UNCHANGED <<config, bucket, outcome, result>>
    BY <1>5 DEF Receive, ReceiveClosed, ReceiveCancelled, AfterObject, BufferAndDelete,
                ExceedMaxDelete, history
  <1>6. ASSUME NEW w \in Workers,
               RetryDone(w) \/ Forward(w) \/ ForwardDone(w) \/ Supervise(w)
        PROVE  UNCHANGED <<config, bucket, outcome, result>>
    BY <1>6 DEF RetryDone, Forward, ForwardDone, Supervise, history
  <1>7. ASSUME NEW o \in Contended, OtherClient(o)
        PROVE  TruthInv'
    <2>1. UNCHANGED <<config, outcome, result>> /\ NeverRelisted
      BY <1>7 DEF OtherClient, NeverRelisted, TypeOK, history, worker
    <2>2. QED
      BY <2>1, TruthFrame
  <1>8. CASE SendUpstream \/ CloseUpstream \/ Cancel \/ TerminatorReceive \/ Terminated
             \/ UNCHANGED vars
    BY <1>1, <1>8 DEF SendUpstream, CloseUpstream, Cancel, TerminatorReceive, Terminated,
                      vars, worker, history
  <1>9. QED
    BY <1>1, <1>2, <1>3, <1>4, <1>5, <1>6, <1>7, <1>8, TruthDelete DEF Next, WorkerStep

(* A key that delete_buffered_objects reports as deleted (the DeleteComplete      *)
(* message, the event, the report) is no longer in the bucket as it was listed,   *)
(* also when the fallback of BatchDeleter deleted it and when other clients       *)
(* write to the bucket meanwhile.                                                 *)
THEOREM ReportIsTruthful == Spec => []TruthfulReport
  <1>1. Init => TruthInv
    BY DEF Init, TruthInv, NoResult
  <1>2. TruthInv => TruthfulReport
    BY DEF TruthInv, TruthfulReport
  <1>3. QED
    BY <1>1, <1>2, TypeInit, TypeNext, TruthNext, PTL DEF Spec

-----------------------------------------------------------------------------
(* Ownership. An object moves from the listing into the channel, from there to    *)
(* one worker, and inside the worker from cur to the buffer to the batch.         *)

Has(w, o) == cur[w] = o \/ o \in buffer[w] \/ o \in batch[w]

(* The steps of delete_buffered_objects. *)
Flushing == {"flush", "request", "retry", "report", "forward"}

(* The object in process_object: it has no outcome and was not admitted, until it *)
(* is given up; during a flush there is one only if the flush precedes a stop.    *)
CurrentOK(w) ==
    /\ cur[w] \notin admitted
    /\ pc[w] = "recv" => cur[w] = None
    /\ pc[w] = "stop" => returnTo[w] = "stop"
    /\ pc[w] \in Flushing /\ returnTo[w] # "stop" => cur[w] = None
    /\ pc[w] \in {"head", "tag", "count"} \/ (pc[w] \in Flushing \cup {"stop"} /\ returnTo[w] = "stop")
           => cur[w] \in Objects /\ outcome[cur[w]] = "pending"
    /\ pc[w] = "next" /\ cur[w] # None => outcome[cur[w]] # "pending"

(* The buffer waits for an outcome, and so does the batch until it is reported. *)
BatchOK(w) ==
    /\ cur[w] \notin buffer[w] \cup batch[w]
    /\ buffer[w] \cap batch[w] = {}
    /\ \A o \in buffer[w] : outcome[o] = "pending"
    /\ pc[w] \notin {"request", "retry", "report", "forward"} => batch[w] = {}
    /\ pc[w] \in {"request", "retry", "report"} =>
           batch[w] # {} /\ \A o \in batch[w] : outcome[o] = "pending"
    /\ pc[w] = "forward" => \A o \in batch[w] : outcome[o] \in {"deleted", "failed"}

(* Between the request and the report the DeleteResult splits the batch. *)
Splits(S, r) ==
    /\ S = r.deleted \cup r.failed \cup r.errors
    /\ r.deleted \cap r.failed = {}
    /\ r.errors \cap (r.deleted \cup r.failed) = {}
    /\ r.key # None => r.key \in r.errors

ResultOK(w) ==
    /\ pc[w] \notin {"retry", "report"} => result[w] = NoResult
    /\ pc[w] \in {"retry", "report"} => Splits(batch[w], result[w])
    /\ pc[w] = "report" => result[w].errors = {}
    /\ pc[w] \in {"request", "retry"} => ~config.dry_run

Mine(w) == CurrentOK(w) /\ BatchOK(w) /\ ResultOK(w)

(* No two workers hold the same object. *)
Apart == \A v, w \in Workers : \A o \in Objects : Has(v, o) /\ Has(w, o) => v = w

(* What no worker received yet is in one place, and nothing was done with it. *)
Unreceived ==
    /\ upstream \cap input = {}
    /\ \A o \in upstream \cup input :
          /\ outcome[o] = "pending" /\ o \notin admitted
          /\ \A w \in Workers : ~Has(w, o)

OwnInv == Apart /\ Unreceived /\ \A w \in Workers : Mine(w)

USE DEF vars, channel, worker, token, history

(* Only worker w moves. *)
Others(w) ==
    \A v \in Workers \ {w} :
        /\ pc'[v] = pc[v] /\ cur'[v] = cur[v] /\ buffer'[v] = buffer[v]
        /\ batch'[v] = batch[v] /\ result'[v] = result[v] /\ returnTo'[v] = returnTo[v]

(* A step of one worker that settles and admits only what it holds, and takes     *)
(* only from the channel, keeps the ownership if it keeps its own part of it.     *)
LEMMA OwnFrame ==
    ASSUME TypeOK, TypeOK', OwnInv, NEW w \in Workers, Others(w), Mine(w)',
           UNCHANGED <<config, upstream>>, input' \subseteq input,
           \A o \in Objects : outcome'[o] # outcome[o] => Has(w, o),
           \A o \in Objects : o \in admitted' => o \in admitted \/ Has(w, o),
           \A o \in Objects : Has(w, o)' => Has(w, o) \/ o \in input \ input'
    PROVE  OwnInv'
  <1>1. ASSUME NEW v \in Workers \ {w}, NEW o \in Objects
        PROVE  Has(v, o)' <=> Has(v, o)
    BY DEF Others, Has
  <1>2. Apart'
    BY <1>1 DEF Apart, OwnInv, Unreceived
  <1>3. Unreceived'
    <2>1. ASSUME NEW o \in upstream \cup input'
          PROVE  /\ outcome'[o] = "pending" /\ o \notin admitted'
                 /\ \A v \in Workers : ~Has(v, o)'
      <3>1. /\ o \in Objects /\ o \in upstream \cup input
            /\ o \notin input \ input'
            /\ outcome[o] = "pending" /\ o \notin admitted
            /\ \A v \in Workers : ~Has(v, o)
        BY <2>1 DEF OwnInv, Unreceived, TypeOK
      <3>2. QED
        BY <1>1, <3>1
    <2>2. QED
      BY <2>1 DEF OwnInv, Unreceived
  <1>4. ASSUME NEW v \in Workers \ {w}
        PROVE  Mine(v)'
    <2>0. Mine(v) /\ Apart
      BY DEF OwnInv
    <2>1. \A o \in Objects : Has(v, o) => outcome'[o] = outcome[o] /\ (o \in admitted' => o \in admitted)
      BY <2>0 DEF Apart
    <2>2. /\ cur[v] \in Objects \cup {None} /\ buffer[v] \subseteq Objects /\ batch[v] \subseteq Objects
          /\ None \notin admitted'
      BY ObjectDeleterAssumption DEF TypeOK
    <2>3. /\ cur[v] \in Objects => outcome'[cur[v]] = outcome[cur[v]] /\ (cur[v] \in admitted' => cur[v] \in admitted)
          /\ \A o \in buffer[v] \cup batch[v] : outcome'[o] = outcome[o]
      BY <2>1, <2>2 DEF Has
    <2>4. CurrentOK(v)'
      BY <2>0, <2>2, <2>3 DEF Mine, CurrentOK, Others
    <2>5. BatchOK(v)'
      BY <2>0, <2>2, <2>3 DEF Mine, BatchOK, Others
    <2>6. ResultOK(v)'
      BY <2>0 DEF Mine, ResultOK, Others
    <2>7. QED
      BY <2>4, <2>5, <2>6 DEF Mine
  <1>5. QED
    BY <1>2, <1>3, <1>4 DEF OwnInv

(* Receiving and filtering. *)
LEMMA OwnReceive ==
    ASSUME TypeOK, TypeOK', OwnInv, NEW w \in Workers,
           Receive(w) \/ ReceiveClosed(w) \/ ReceiveCancelled(w) \/ AfterObject(w)
    PROVE  OwnInv'
  <1>0. Mine(w) /\ None \notin Objects /\ None \notin admitted /\ Unreceived
    BY ObjectDeleterAssumption DEF OwnInv, TypeOK
  <1>1. CASE Receive(w)
    <2>1. Others(w) /\ UNCHANGED <<config, upstream, outcome, admitted>> /\ input' \subseteq input
      BY <1>1 DEF Receive, Others, TypeOK
    <2>2. PICK o \in input : input' = input \ {o} /\ cur'[w] = o
      BY <1>1 DEF Receive, TypeOK
    <2>3. /\ pc[w] = "recv" /\ pc'[w] = "head" /\ buffer'[w] = buffer[w] /\ batch'[w] = batch[w]
          /\ result'[w] = result[w]
      BY <1>1 DEF Receive, TypeOK
    <2>4. o \in Objects /\ outcome[o] = "pending" /\ o \notin admitted /\ ~Has(w, o)
      BY <1>0, <2>2 DEF Unreceived, TypeOK
    <2>5. Mine(w)'
      BY <1>0, <2>1, <2>2, <2>3, <2>4 DEF Mine, CurrentOK, BatchOK, ResultOK, Has, Flushing
    <2>6. \A x \in Objects : Has(w, x)' => Has(w, x) \/ x \in input \ input'
      BY <2>2, <2>3 DEF Has
    <2>7. QED
      BY <2>1, <2>5, <2>6, OwnFrame
  <1>2. CASE ReceiveClosed(w) \/ ReceiveCancelled(w)
    <2>1. Others(w) /\ UNCHANGED <<config, upstream, input, outcome, admitted, cur, buffer, batch, result>>
      BY <1>2 DEF ReceiveClosed, ReceiveCancelled, Others, TypeOK
    <2>2. pc[w] = "recv" /\ \/ pc'[w] = "flush" /\ returnTo'[w] = "done"
                            \/ pc'[w] = "done"
      BY <1>2 DEF ReceiveClosed, ReceiveCancelled, TypeOK, Drained
    <2>3. Mine(w)'
      BY <1>0, <2>1, <2>2 DEF Mine, CurrentOK, BatchOK, ResultOK, Flushing
    <2>4. QED
      BY <2>1, <2>3, OwnFrame DEF Has
  <1>3. CASE AfterObject(w)
    <2>1. Others(w) /\ UNCHANGED <<config, upstream, input, outcome, admitted, buffer, batch, result>>
      BY <1>3 DEF AfterObject, Others, TypeOK
    <2>2. pc[w] = "next" /\ pc'[w] \in {"done", "recv"} /\ cur'[w] = None
      BY <1>3 DEF AfterObject, TypeOK
    <2>3. buffer[w] \subseteq Objects /\ batch[w] \subseteq Objects
      BY DEF TypeOK
    <2>4. Mine(w)'
      BY <1>0, <2>1, <2>2, <2>3 DEF Mine, CurrentOK, BatchOK, ResultOK, Flushing
    <2>5. QED
      BY <1>0, <2>1, <2>2, <2>4, OwnFrame DEF Has
  <1>4. QED
    BY <1>1, <1>2, <1>3

LEMMA OwnFilter ==
    ASSUME TypeOK, TypeOK', OwnInv, NEW w \in Workers,
           ApplyHeadObjectFilters(w) \/ ApplyTagFilters(w)
    PROVE  OwnInv'
  <1>0. Mine(w)
    BY DEF OwnInv
  <1>1. /\ pc[w] \in {"head", "tag"}
        /\ FilterPass(w, "tag") \/ FilterPass(w, "count") \/ FilterSkip(w) \/ FilterFail(w)
        /\ UNCHANGED <<config, upstream, input, admitted, cur, buffer, batch, result, returnTo>>
    BY DEF ApplyHeadObjectFilters, ApplyTagFilters, AttributeFilters
  <1>2. Others(w)
    BY <1>1 DEF FilterPass, FilterSkip, FilterFail, Others, TypeOK
  <1>3. cur[w] \in Objects /\ outcome[cur[w]] = "pending"
    BY <1>0, <1>1 DEF Mine, CurrentOK
  <1>4. /\ \A o \in Objects : outcome'[o] # outcome[o] => o = cur[w]
        /\ \/ pc'[w] \in {"tag", "count", "failed"} /\ outcome' = outcome
           \/ pc'[w] = "next" /\ outcome'[cur[w]] = "skipped"
    <2>1. CASE FilterSkip(w)
      BY <1>3, <2>1 DEF FilterSkip, TypeOK
    <2>2. CASE FilterPass(w, "tag") \/ FilterPass(w, "count") \/ FilterFail(w)
      BY <2>2 DEF FilterPass, FilterFail, TypeOK
    <2>3. QED
      BY <1>1, <2>1, <2>2
  <1>5. buffer[w] \subseteq Objects /\ batch[w] = {} /\ \A o \in buffer[w] : outcome'[o] = "pending"
    BY <1>0, <1>1, <1>4 DEF Mine, BatchOK, TypeOK
  <1>6. CurrentOK(w)'
    BY <1>0, <1>1, <1>3, <1>4 DEF Mine, CurrentOK, Flushing
  <1>7. BatchOK(w)' /\ ResultOK(w)'
    BY <1>0, <1>1, <1>4, <1>5 DEF Mine, BatchOK, ResultOK
  <1>8. QED
    BY <1>1, <1>2, <1>4, <1>6, <1>7, OwnFrame DEF Has, Mine

(* Counting, buffering and stopping at the limit. *)
LEMMA OwnAdmit ==
    ASSUME TypeOK, TypeOK', OwnInv, NEW w \in Workers,
           BufferAndDelete(w) \/ ExceedMaxDelete(w) \/ StopAtMaxDelete(w)
    PROVE  OwnInv'
  <1>0. /\ CurrentOK(w) /\ BatchOK(w) /\ ResultOK(w)
        /\ None \notin Objects /\ None \notin admitted'
        /\ buffer[w] \subseteq Objects /\ batch[w] \subseteq Objects
    BY ObjectDeleterAssumption DEF OwnInv, Mine, TypeOK
  <1>1. CASE BufferAndDelete(w)
    <2>1. Others(w) /\ UNCHANGED <<config, upstream, input, outcome, batch, result>>
      BY <1>1 DEF BufferAndDelete, Others, TypeOK
    <2>2. /\ pc[w] = "count" /\ pc'[w] \in {"flush", "next"} /\ returnTo'[w] = "next"
          /\ cur'[w] = None /\ buffer'[w] = buffer[w] \cup {cur[w]}
          /\ admitted' = admitted \cup {cur[w]}
      BY <1>1 DEF BufferAndDelete, TypeOK
    <2>3. cur[w] \in Objects /\ outcome[cur[w]] = "pending"
      BY <1>0, <2>2 DEF CurrentOK
    <2>4. CurrentOK(w)'
      BY <1>0, <2>2 DEF CurrentOK, Flushing
    <2>5. BatchOK(w)' /\ ResultOK(w)'
      BY <1>0, <2>1, <2>2, <2>3 DEF BatchOK, ResultOK
    <2>6. QED
      BY <1>0, <2>1, <2>2, <2>4, <2>5, OwnFrame DEF Has, Mine
  <1>2. CASE ExceedMaxDelete(w)
    <2>1. Others(w) /\ UNCHANGED <<config, upstream, input, outcome, admitted, cur, batch, result>>
      BY <1>2 DEF ExceedMaxDelete, Others, TypeOK, FlushedAtLimit
    <2>2. /\ pc[w] = "count" /\ pc'[w] = "flush" /\ returnTo'[w] = "stop"
          /\ buffer'[w] = buffer[w]
      BY <1>2 DEF ExceedMaxDelete, TypeOK, FlushedAtLimit
    <2>3. Mine(w)'
      BY <1>0, <2>1, <2>2 DEF Mine, CurrentOK, BatchOK, ResultOK, Flushing
    <2>4. QED
      BY <2>1, <2>2, <2>3, OwnFrame DEF Has
  <1>3. CASE StopAtMaxDelete(w)
    <2>1. /\ Others(w)
          /\ UNCHANGED <<config, upstream, input, admitted, cur, buffer, batch, result, returnTo>>
      BY <1>3 DEF StopAtMaxDelete, Others, TypeOK
    <2>2. pc[w] = "stop" /\ pc'[w] = "next"
      BY <1>3 DEF StopAtMaxDelete, TypeOK
    <2>3. cur[w] \in Objects /\ outcome[cur[w]] = "pending"
      BY <1>0, <2>2 DEF CurrentOK
    <2>4. /\ \A o \in Objects : outcome'[o] # outcome[o] => o = cur[w]
          /\ outcome'[cur[w]] = "stopped"
      BY <1>3, <2>3 DEF StopAtMaxDelete, TypeOK
    <2>5. CurrentOK(w)'
      BY <1>0, <2>1, <2>2, <2>4 DEF CurrentOK, Flushing
    <2>6. BatchOK(w)' /\ ResultOK(w)'
      BY <1>0, <2>1, <2>2, <2>4 DEF BatchOK, ResultOK
    <2>7. QED
      BY <2>1, <2>4, <2>5, <2>6, OwnFrame DEF Has, Mine
  <1>4. QED
    BY <1>1, <1>2, <1>3

(* Taking the buffer as a batch. *)
LEMMA OwnFlush ==
    ASSUME TypeOK, TypeOK', OwnInv, NEW w \in Workers, Flush(w)
    PROVE  OwnInv'
  <1>0. /\ CurrentOK(w) /\ BatchOK(w) /\ ResultOK(w)
        /\ pc[w] = "flush" /\ returnTo[w] \in {"next", "stop", "done"}
        /\ buffer[w] \subseteq Objects /\ batch[w] \subseteq Objects
        /\ UNCHANGED <<config, upstream, input, cur, returnTo, outcome, admitted>>
    BY DEF OwnInv, Mine, TypeOK, Flush
  <1>1. CASE NothingToFlush(w)
    <2>1. Others(w) /\ UNCHANGED <<buffer, batch, result>> /\ pc'[w] = returnTo[w]
      BY <1>1 DEF Flush, Others, TypeOK
    <2>2. Mine(w)'
      BY <1>0, <2>1 DEF Mine, CurrentOK, BatchOK, ResultOK, Flushing
    <2>3. QED
      BY <1>0, <2>1, <2>2, OwnFrame DEF Has
  <1>2. CASE ~NothingToFlush(w)
    <2>1. Others(w) /\ batch'[w] = buffer[w] /\ buffer'[w] = {}
      BY <1>2 DEF Flush, Others, TypeOK, BufferAfterTake
    <2>2. buffer[w] # {}
      BY <1>2 DEF NothingToFlush
    <2>3. \/ /\ config.dry_run /\ pc'[w] = "report"
             /\ result'[w] = [NoResult EXCEPT !.deleted = buffer[w]]
          \/ ~config.dry_run /\ pc'[w] = "request" /\ result'[w] = NoResult
      BY <1>2 DEF Flush, TypeOK
    <2>4. CurrentOK(w)'
      BY <1>0, <2>3 DEF CurrentOK, Flushing
    <2>5. BatchOK(w)'
      BY <1>0, <2>1, <2>2, <2>3 DEF BatchOK
    <2>6. ResultOK(w)'
      BY <1>0, <2>1, <2>3 DEF ResultOK, Splits, NoResult
    <2>7. QED
      BY <1>0, <2>1, <2>4, <2>5, <2>6, OwnFrame DEF Has, Mine
  <1>3. QED
    BY <1>1, <1>2

(* A new DeleteResult, and nothing else. *)
ResultStep(w, r) ==
    /\ pc[w] \in {"request", "retry"} /\ pc'[w] \in {"retry", "report"}
    /\ pc'[w] = "report" => r.errors = {}
    /\ \A v \in Workers \ {w} : pc'[v] = pc[v]
    /\ result' = [result EXCEPT ![w] = r]
    /\ UNCHANGED <<config, upstream, input, outcome, admitted, cur, buffer, batch, returnTo>>

LEMMA OwnResult ==
    ASSUME TypeOK, TypeOK', OwnInv, NEW w \in Workers, NEW r, ResultStep(w, r),
           Splits(batch[w], r)
    PROVE  OwnInv'
  <1>0. CurrentOK(w) /\ BatchOK(w) /\ ResultOK(w) /\ result'[w] = r
    BY DEF OwnInv, Mine, TypeOK, ResultStep
  <1>1. Others(w)
    BY DEF Others, TypeOK, ResultStep
  <1>2. CurrentOK(w)' /\ BatchOK(w)'
    BY <1>0 DEF CurrentOK, BatchOK, Flushing, ResultStep
  <1>3. ResultOK(w)'
    BY <1>0 DEF ResultOK, ResultStep, Splits
  <1>4. QED
    BY <1>1, <1>2, <1>3, OwnFrame DEF Has, ResultStep, Mine

LEMMA OwnRequest ==
    ASSUME TypeOK, TypeOK', OwnInv, NEW w \in Workers,
           SingleDelete(w) \/ BatchDelete(w) \/ BatchDeleteError(w)
    PROVE  OwnInv'
  <1>1. CASE SingleDelete(w)
    <2>0. /\ pc[w] = "request" /\ pc'[w] = "report" /\ \A v \in Workers \ {w} : pc'[v] = pc[v]
          /\ UNCHANGED <<config, upstream, input, outcome, admitted, cur, buffer, batch, returnTo>>
      BY <1>1 DEF SingleDelete, TypeOK
    <2>1. PICK ok \in SUBSET batch[w] :
             result' = [result EXCEPT ![w] = [NoResult EXCEPT !.deleted = ok,
                                                              !.failed = batch[w] \ ok]]
      BY <1>1 DEF SingleDelete
    <2> DEFINE r == [NoResult EXCEPT !.deleted = ok, !.failed = batch[w] \ ok]
    <2>2. r.deleted = ok /\ r.failed = batch[w] \ ok /\ r.errors = {} /\ r.key = None
      BY DEF NoResult
    <2>3. result' = [result EXCEPT ![w] = r]
      BY <2>1
    <2> HIDE DEF r
    <2>4. ResultStep(w, r) /\ Splits(batch[w], r)
      BY <2>0, <2>2, <2>3 DEF ResultStep, Splits
    <2>5. QED
      BY <2>4, OwnResult
  <1>2. CASE BatchDelete(w)
    <2>0. /\ pc[w] = "request" /\ pc'[w] = "retry" /\ \A v \in Workers \ {w} : pc'[v] = pc[v]
          /\ UNCHANGED <<config, upstream, input, outcome, admitted, cur, buffer, batch, returnTo>>
      BY <1>2 DEF BatchDelete, TypeOK
    <2>1. PICK ok \in SUBSET batch[w], retryable \in SUBSET batch[w] :
             ok \cap retryable = {} /\ result' = [result EXCEPT ![w] =
                   [NoResult EXCEPT !.deleted = ok, !.errors = retryable,
                                    !.failed = (batch[w] \ ok) \ retryable]]
      BY <1>2 DEF BatchDelete
    <2> DEFINE r == [NoResult EXCEPT !.deleted = ok, !.errors = retryable,
                                     !.failed = (batch[w] \ ok) \ retryable]
    <2>2. /\ r.deleted = ok /\ r.failed = (batch[w] \ ok) \ retryable /\ r.errors = retryable
          /\ r.key = None
      BY DEF NoResult
    <2>3. result' = [result EXCEPT ![w] = r]
      BY <2>1
    <2> HIDE DEF r
    <2>4. ResultStep(w, r) /\ Splits(batch[w], r)
      BY <2>0, <2>1, <2>2, <2>3 DEF ResultStep, Splits
    <2>5. QED
      BY <2>4, OwnResult
  <1>3. CASE BatchDeleteError(w)
    <2>0. /\ CurrentOK(w) /\ BatchOK(w) /\ ResultOK(w)
          /\ pc[w] = "request" /\ pc'[w] = "failed" /\ Others(w) /\ batch'[w] = {}
          /\ UNCHANGED <<config, upstream, input, cur, buffer, result, returnTo, admitted>>
      BY <1>3 DEF BatchDeleteError, OwnInv, Mine, Others, TypeOK
    <2>1. \A o \in Objects : outcome'[o] # outcome[o] => o \in batch[w]
      BY <1>3 DEF BatchDeleteError
    <2>2. \A o \in buffer[w] : outcome'[o] = "pending"
      BY <2>0, <2>1 DEF BatchOK, TypeOK
    <2>3. CurrentOK(w)' /\ ResultOK(w)'
      BY <2>0 DEF CurrentOK, ResultOK, Flushing
    <2>4. BatchOK(w)'
      BY <2>0, <2>2 DEF BatchOK
    <2>5. QED
      BY <2>0, <2>1, <2>3, <2>4, OwnFrame DEF Has, Mine
  <1>4. QED
    BY <1>1, <1>2, <1>3

(* What an attempt of the fallback leaves of the result. *)
LEMMA RetryResult ==
    ASSUME NEW r \in ResultType, NEW o
    PROVE  /\ Recovered(r, o).deleted = r.deleted \cup {o} /\ Recovered(r, o).failed = r.failed
           /\ Recovered(r, o).errors = r.errors \ {o} /\ Recovered(r, o).key = None
           /\ Again(r, o).deleted = r.deleted /\ Again(r, o).failed = r.failed
           /\ Again(r, o).errors = r.errors /\ Again(r, o).key = o
           /\ Exhausted(r, o).deleted = r.deleted /\ Exhausted(r, o).failed = r.failed \cup {o}
           /\ Exhausted(r, o).errors = r.errors \ {o} /\ Exhausted(r, o).key = None
  BY DEF Recovered, Again, Exhausted, ResultType

(* The key a fallback attempt is for is one of the batch that S3 has not settled. *)
LEMMA RetryKey ==
    ASSUME TypeOK, OwnInv, NEW w \in Workers, Retry(w)
    PROVE  \E o \in result[w].errors :
               /\ o \in batch[w] /\ o \in Objects
               /\ RetrySucceeds(w, o) \/ RetryFails(w, o)
  <1>1. PICK o \in IF result[w].key = None THEN result[w].errors ELSE {result[w].key} :
            RetrySucceeds(w, o) \/ RetryFails(w, o)
    BY DEF Retry
  <1>2. pc[w] = "retry" /\ ResultOK(w)
    BY DEF Retry, OwnInv, Mine
  <1>3. o \in result[w].errors
    BY <1>1, <1>2 DEF ResultOK, Splits
  <1>4. o \in batch[w] /\ o \in Objects
    BY <1>2, <1>3 DEF ResultOK, Splits, TypeOK
  <1>5. QED
    BY <1>1, <1>3, <1>4

LEMMA OwnRetry ==
    ASSUME TypeOK, TypeOK', OwnInv, NEW w \in Workers, Retry(w) \/ RetryDone(w)
    PROVE  OwnInv'
  <1>0. ResultOK(w) /\ result[w] \in ResultType
    BY DEF OwnInv, Mine, TypeOK
  <1>1. CASE Retry(w)
    <2>0. /\ pc[w] = "retry" /\ pc' = pc
          /\ UNCHANGED <<config, upstream, input, outcome, admitted, cur, buffer, batch, returnTo>>
      BY <1>1 DEF Retry
    <2>1. PICK o \in result[w].errors : RetrySucceeds(w, o) \/ RetryFails(w, o)
      BY <1>1, RetryKey
    <2>2. PICK r \in {Recovered(result[w], o), Again(result[w], o), Exhausted(result[w], o)} :
             result' = [result EXCEPT ![w] = r]
      BY <2>1 DEF RetrySucceeds, RetryFails
    <2>3. Splits(batch[w], r)
      <3>1. CASE r = Recovered(result[w], o)
        BY <1>0, <2>0, <2>1, <3>1, RetryResult DEF ResultOK, Splits
      <3>2. CASE r = Again(result[w], o)
        BY <1>0, <2>0, <2>1, <3>2, RetryResult DEF ResultOK, Splits
      <3>3. CASE r = Exhausted(result[w], o)
        BY <1>0, <2>0, <2>1, <3>3, RetryResult DEF ResultOK, Splits
      <3>4. QED
        BY <2>2, <3>1, <3>2, <3>3
    <2>4. ResultStep(w, r)
      BY <2>0, <2>2 DEF ResultStep
    <2>5. QED
      BY <2>3, <2>4, OwnResult
  <1>2. CASE RetryDone(w)
    <2>0. /\ pc[w] = "retry" /\ pc'[w] = "report" /\ result[w].errors = {}
          /\ \A v \in Workers \ {w} : pc'[v] = pc[v]
          /\ UNCHANGED <<config, upstream, input, outcome, admitted, cur, buffer, batch, returnTo>>
          /\ result' = [result EXCEPT ![w] = result[w]]
      BY <1>2 DEF RetryDone, TypeOK
    <2>1. ResultStep(w, result[w]) /\ Splits(batch[w], result[w])
      BY <1>0, <2>0 DEF ResultStep, Splits, ResultOK
    <2>2. QED
      BY <2>1, OwnResult
  <1>3. QED
    BY <1>1, <1>2

(* What a report does to the objects of the batch and to the others. *)
LEMMA Reported ==
    ASSUME TypeOK, OwnInv, NEW w \in Workers, Report(w)
    PROVE  /\ batch[w] = result[w].deleted \cup result[w].failed
           /\ result[w].deleted \cap result[w].failed = {}
           /\ \A o \in Objects :
                 /\ o \in result[w].deleted => outcome'[o] = "deleted"
                 /\ o \in result[w].failed => outcome'[o] = "failed"
                 /\ o \notin batch[w] => outcome'[o] = outcome[o]
  <1>1. pc[w] = "report" /\ ResultOK(w)
    BY DEF Report, OwnInv, Mine
  <1>2. /\ batch[w] = result[w].deleted \cup result[w].failed
        /\ result[w].deleted \cap result[w].failed = {}
    BY <1>1 DEF ResultOK, Splits
  <1>3. QED
    BY <1>2 DEF Report

LEMMA OwnReport ==
    ASSUME TypeOK, TypeOK', OwnInv, NEW w \in Workers, Report(w)
    PROVE  OwnInv'
  <1>0. /\ CurrentOK(w) /\ BatchOK(w) /\ ResultOK(w) /\ returnTo[w] \in {"next", "stop", "done"}
        /\ pc[w] = "report" /\ buffer[w] \subseteq Objects /\ batch[w] \subseteq Objects
        /\ UNCHANGED <<config, upstream, input, admitted, cur, buffer, returnTo>>
    BY DEF OwnInv, Mine, TypeOK, Report
  <1>1. /\ \/ pc'[w] = returnTo[w] /\ batch'[w] = {}
           \/ pc'[w] = "forward" /\ batch'[w] = batch[w]
        /\ result'[w] = NoResult
    BY DEF Report, TypeOK
  <1>2. Others(w)
    BY DEF Report, Others, TypeOK
  <1>3. /\ \A o \in batch[w] : outcome'[o] \in {"deleted", "failed"}
        /\ \A o \in Objects : outcome'[o] # outcome[o] => o \in batch[w]
    BY <1>0, Reported
  <1>4. /\ cur[w] \in Objects => outcome'[cur[w]] = outcome[cur[w]]
        /\ \A o \in buffer[w] : outcome'[o] = outcome[o]
    BY <1>0, <1>3 DEF BatchOK
  <1>5. CurrentOK(w)'
    BY <1>0, <1>1, <1>4 DEF CurrentOK, Flushing
  <1>6. BatchOK(w)'
    BY <1>0, <1>1, <1>3, <1>4 DEF BatchOK
  <1>7. ResultOK(w)'
    BY <1>0, <1>1 DEF ResultOK
  <1>8. QED
    BY <1>0, <1>1, <1>2, <1>3, <1>5, <1>6, <1>7, OwnFrame DEF Has, Mine

LEMMA OwnForward ==
    ASSUME TypeOK, TypeOK', OwnInv, NEW w \in Workers,
           Forward(w) \/ ForwardDone(w) \/ Supervise(w)
    PROVE  OwnInv'
  <1>0. /\ CurrentOK(w) /\ BatchOK(w) /\ ResultOK(w) /\ returnTo[w] \in {"next", "stop", "done"}
        /\ UNCHANGED <<config, upstream, input, admitted, outcome, cur, buffer, result, returnTo>>
    BY DEF OwnInv, Mine, TypeOK, Forward, ForwardDone, Supervise
  <1>1. CASE Forward(w)
    <2>1. pc[w] = "forward" /\ pc' = pc /\ Others(w) /\ batch'[w] \subseteq batch[w]
      BY <1>1 DEF Forward, Others, TypeOK
    <2>2. Mine(w)'
      BY <1>0, <2>1 DEF Mine, CurrentOK, BatchOK, ResultOK, Flushing
    <2>3. QED
      BY <1>0, <2>1, <2>2, OwnFrame DEF Has
  <1>2. CASE ForwardDone(w) \/ Supervise(w)
    <2>1. /\ Others(w) /\ UNCHANGED batch
          /\ \/ pc[w] = "forward" /\ pc'[w] = returnTo[w] /\ batch[w] = {}
             \/ pc[w] = "failed" /\ pc'[w] = "done"
      BY <1>2 DEF ForwardDone, Supervise, Others, TypeOK
    <2>2. Mine(w)'
      BY <1>0, <2>1 DEF Mine, CurrentOK, BatchOK, ResultOK, Flushing
    <2>3. QED
      BY <1>0, <2>1, <2>2, OwnFrame DEF Has
  <1>3. QED
    BY <1>1, <1>2

LEMMA OwnSurroundings ==
    ASSUME TypeOK, OwnInv,
           SendUpstream \/ CloseUpstream \/ Cancel \/ TerminatorReceive
           \/ (\E o \in Contended : OtherClient(o)) \/ UNCHANGED vars
    PROVE  OwnInv'
  <1>1. UNCHANGED <<config, worker, admitted, outcome>>
    BY DEF SendUpstream, CloseUpstream, Cancel, TerminatorReceive, OtherClient
  <1>2. Apart' /\ \A w \in Workers : Mine(w)'
    BY <1>1 DEF OwnInv, Apart, Mine, CurrentOK, BatchOK, ResultOK, Has
  <1>3. CASE SendUpstream
    <2>1. PICK o \in upstream : upstream' = upstream \ {o} /\ input' = input \cup {o}
      BY <1>3 DEF SendUpstream
    <2>2. Unreceived'
      BY <1>1, <2>1 DEF OwnInv, Unreceived, Has
    <2>3. QED
      BY <1>2, <2>2 DEF OwnInv
  <1>4. CASE UNCHANGED <<upstream, input>>
    BY <1>1, <1>2, <1>4 DEF OwnInv, Unreceived, Has
  <1>5. QED
    BY <1>3, <1>4 DEF CloseUpstream, Cancel, TerminatorReceive, OtherClient

LEMMA OwnInit == Init => OwnInv
  BY ObjectDeleterAssumption
  DEF Init, OwnInv, Apart, Unreceived, Mine, CurrentOK, BatchOK, ResultOK, Has, Flushing

LEMMA OwnNext == TypeInv /\ TypeInv' /\ OwnInv /\ [Next]_vars => OwnInv'
  <1> SUFFICES ASSUME TypeOK, TypeOK', OwnInv, [Next]_vars PROVE OwnInv'
    BY DEF TypeInv
  <1>1. ASSUME NEW w \in Workers, WorkerStep(w) PROVE OwnInv'
    BY <1>1, OwnReceive, OwnFilter, OwnAdmit, OwnFlush, OwnRequest, OwnRetry, OwnReport, OwnForward
    DEF WorkerStep
  <1>2. QED
    BY <1>1, OwnSurroundings DEF Next, Terminated

LEMMA OwnerIsOne == TypeOK /\ OwnInv => OneOwner
  <1> SUFFICES ASSUME TypeOK, OwnInv, NEW o \in Objects
               PROVE  LET held == {w \in Workers : HeldBy(w, o) > 0}
                      IN /\ Cardinality(held) <= 1
                         /\ \A w \in held : HeldBy(w, o) = 1
                         /\ o \in upstream \cup input => held = {} /\ outcome[o] = "pending"
                         /\ o \notin upstream \/ o \notin input
    BY DEF OneOwner
  <1> DEFINE held == {w \in Workers : HeldBy(w, o) > 0}
  <1>1. ASSUME NEW w \in Workers
        PROVE  /\ HeldBy(w, o) > 0 <=> Has(w, o)
               /\ Has(w, o) => HeldBy(w, o) = 1
    <2>1. BatchOK(w)
      BY DEF OwnInv, Mine
    <2>2. QED
      BY <2>1 DEF HeldBy, Has, BatchOK
  <1>2. held = {} \/ \E w \in Workers : held = {w}
    BY <1>1 DEF OwnInv, Apart
  <1>3. Cardinality(held) <= 1
    BY <1>2, FS_EmptySet, FS_Singleton
  <1>4. /\ o \in upstream \cup input => held = {} /\ outcome[o] = "pending"
        /\ o \notin upstream \/ o \notin input
    BY <1>1 DEF OwnInv, Unreceived
  <1>5. QED
    BY <1>1, <1>3, <1>4

-----------------------------------------------------------------------------
(* Nothing gets lost: what has no outcome is somewhere. *)
Tracked ==
    \A o \in Objects : outcome[o] = "pending" =>
        o \in upstream \cup input \/ \E w \in Workers : Has(w, o)

(* An object leaves its place only for another one or with an outcome. *)
LEMMA TrackedFrame ==
    ASSUME Tracked, 
           \A o \in Objects : outcome'[o] = "pending" =>
              /\ outcome[o] = "pending"
              /\ o \in upstream \cup input =>
                     o \in upstream' \cup input' \/ \E w \in Workers : Has(w, o)'
              /\ \A w \in Workers : Has(w, o) => Has(w, o)'
    PROVE  Tracked'
  BY DEF Tracked

LEMMA TrackedNext == TypeInv /\ OwnInv /\ Tracked /\ [Next]_vars => Tracked'
  <1> SUFFICES ASSUME TypeOK, OwnInv, Tracked, [Next]_vars PROVE Tracked'
    BY DEF TypeInv
  <1>1. CASE UNCHANGED <<upstream, input, cur, buffer, batch, outcome>>
    BY <1>1 DEF Tracked, Has
  <1>2. CASE SendUpstream
    BY <1>2, TrackedFrame DEF SendUpstream, Has
  <1>3. ASSUME NEW w \in Workers, Receive(w) PROVE Tracked'
    <2>1. /\ pc[w] = "recv" /\ cur[w] = None /\ None \notin Objects
          /\ UNCHANGED <<upstream, buffer, batch, outcome>>
      BY <1>3, ObjectDeleterAssumption DEF Receive, OwnInv, Mine, CurrentOK
    <2>2. /\ \A v \in Workers \ {w} : cur'[v] = cur[v]
          /\ \A o \in input : o \in input' \/ cur'[w] = o
      BY <1>3 DEF Receive, TypeOK
    <2>3. QED
      BY <1>3, <2>1, <2>2, TrackedFrame DEF Has
  <1>4. ASSUME NEW w \in Workers, AfterObject(w) PROVE Tracked'
    <2>1. /\ cur[w] # None => outcome[cur[w]] # "pending"
          /\ None \notin Objects
          /\ UNCHANGED <<upstream, input, buffer, batch, outcome>>
          /\ \A v \in Workers \ {w} : cur'[v] = cur[v]
      BY <1>4, ObjectDeleterAssumption DEF AfterObject, OwnInv, Mine, CurrentOK, TypeOK
    <2>2. QED
      BY <2>1, TrackedFrame DEF Has
  <1>5. ASSUME NEW w \in Workers,
               ApplyHeadObjectFilters(w) \/ ApplyTagFilters(w) \/ StopAtMaxDelete(w)
        PROVE  Tracked'
    <2>1. /\ UNCHANGED <<upstream, input, cur, buffer, batch>>
          /\ \A o \in Objects : outcome'[o] = "pending" => outcome[o] = "pending"
      BY <1>5 DEF TypeOK, ApplyHeadObjectFilters, ApplyTagFilters, AttributeFilters, FilterPass,
                  FilterSkip, FilterFail, StopAtMaxDelete
    <2>2. QED
      BY <2>1, TrackedFrame DEF Has
  <1>6. ASSUME NEW w \in Workers, BufferAndDelete(w) PROVE Tracked'
    <2>1. /\ UNCHANGED <<upstream, input, batch, outcome>>
          /\ \A v \in Workers \ {w} : cur'[v] = cur[v] /\ buffer'[v] = buffer[v]
          /\ buffer'[w] = buffer[w] \cup {cur[w]}
      BY <1>6 DEF BufferAndDelete, TypeOK
    <2>2. QED
      BY <2>1, TrackedFrame DEF Has
  <1>7. ASSUME NEW w \in Workers, Flush(w) PROVE Tracked'
    <2>1. CASE NothingToFlush(w)
      BY <1>1, <1>7, <2>1 DEF Flush
    <2>2. CASE ~NothingToFlush(w)
      <3>1. /\ UNCHANGED <<upstream, input, cur, outcome>>
            /\ \A v \in Workers \ {w} : batch'[v] = batch[v] /\ buffer'[v] = buffer[v]
            /\ batch'[w] = buffer[w] /\ pc[w] = "flush"
        BY <1>7, <2>2 DEF Flush, TypeOK
      <3>2. batch[w] = {}
        BY <3>1 DEF OwnInv, Mine, BatchOK
      <3>3. QED
        BY <3>1, <3>2, TrackedFrame DEF Has
    <2>3. QED
      BY <2>1, <2>2
  <1>8. ASSUME NEW w \in Workers, BatchDeleteError(w) PROVE Tracked'
    <2>1. /\ UNCHANGED <<upstream, input, cur, buffer>>
          /\ \A v \in Workers \ {w} : batch'[v] = batch[v]
          /\ \A o \in Objects : outcome'[o] = "pending" =>
                                    outcome[o] = "pending" /\ o \notin batch[w]
      BY <1>8 DEF BatchDeleteError, TypeOK
    <2>2. QED
      BY <2>1, TrackedFrame DEF Has
  <1>9. ASSUME NEW w \in Workers, Report(w) PROVE Tracked'
    <2>1. /\ UNCHANGED <<upstream, input, cur, buffer>>
          /\ \A v \in Workers \ {w} : batch'[v] = batch[v]
      BY <1>9 DEF Report, TypeOK
    <2>2. \A o \in Objects : outcome'[o] = "pending" =>
                                    outcome[o] = "pending" /\ o \notin batch[w]
      BY <1>9, Reported
    <2>3. QED
      BY <2>1, <2>2, TrackedFrame DEF Has
  <1>10. ASSUME NEW w \in Workers, Forward(w) PROVE Tracked'
    <2>1. /\ UNCHANGED <<upstream, input, cur, buffer, outcome>> /\ pc[w] = "forward"
          /\ \A v \in Workers \ {w} : batch'[v] = batch[v]
      BY <1>10 DEF Forward, TypeOK
    <2>2. \A o \in batch[w] : outcome[o] # "pending"
      BY <2>1 DEF OwnInv, Mine, BatchOK
    <2>3. QED
      BY <2>1, <2>2, TrackedFrame DEF Has
  <1>11. ASSUME NEW w \in Workers,
                ReceiveClosed(w) \/ ReceiveCancelled(w) \/ ExceedMaxDelete(w) \/ SingleDelete(w)
                \/ BatchDelete(w) \/ Retry(w) \/ RetryDone(w) \/ ForwardDone(w) \/ Supervise(w)
         PROVE  UNCHANGED <<upstream, input, cur, buffer, batch, outcome>>
    BY <1>11 DEF ReceiveClosed, ReceiveCancelled, ExceedMaxDelete, FlushedAtLimit, SingleDelete,
                 BatchDelete, Retry, RetryDone, ForwardDone, Supervise, TypeOK
  <1>12. CASE CloseUpstream \/ Cancel \/ TerminatorReceive \/ Terminated
              \/ (\E o \in Contended : OtherClient(o)) \/ UNCHANGED vars
    BY <1>1, <1>12 DEF CloseUpstream, Cancel, TerminatorReceive, OtherClient, Terminated
  <1>13. QED
    BY <1>1, <1>2, <1>3, <1>4, <1>5, <1>6, <1>7, <1>8, <1>9, <1>10, <1>11, <1>12
    DEF Next, WorkerStep

-----------------------------------------------------------------------------
(* The end of a worker. *)

Drain == closed /\ input = {}

(* A worker that ends without a cancellation met the end of the channel, and its  *)
(* final flush left nothing behind.                                               *)
EndOK(w) ==
    /\ pc[w] \in Flushing /\ returnTo[w] = "done" =>
          Drain /\ (pc[w] # "flush" => buffer[w] = {})
    /\ pc[w] = "done" => cancelled \/ (Drain /\ \A o \in Objects : ~Has(w, o))

Ended == \A w \in Workers : EndOK(w)

(* A drained channel stays drained, and a cancellation is never taken back. *)
LEMMA DrainStays ==
    ASSUME TypeOK, [Next]_vars
    PROVE  (Drain => Drain') /\ (cancelled => cancelled')
  <1>1. CASE UNCHANGED <<closed, input, cancelled>>
    BY <1>1 DEF Drain
  <1>2. CASE SendUpstream \/ CloseUpstream \/ Cancel
    BY <1>2 DEF Drain, SendUpstream, CloseUpstream, Cancel
  <1>3. ASSUME NEW w \in Workers, Receive(w) \/ StopAtMaxDelete(w) \/ BatchDeleteError(w)
                                  \/ Report(w) \/ Supervise(w)
        PROVE  (Drain => Drain') /\ (cancelled => cancelled')
    <2>1. Drain => Drain'
      BY <1>3 DEF Drain, Receive, StopAtMaxDelete, BatchDeleteError, Report, Supervise
    <2>2. CASE Receive(w)
      BY <2>1, <2>2 DEF Receive
    <2>3. CASE StopAtMaxDelete(w) \/ BatchDeleteError(w) \/ Supervise(w)
      BY <2>1, <2>3 DEF StopAtMaxDelete, CancelledAtLimit, BatchDeleteError, Supervise
    <2>4. CASE Report(w)
      BY <2>1, <2>4 DEF Report
    <2>5. QED
      BY <1>3, <2>2, <2>3, <2>4
  <1>4. ASSUME NEW w \in Workers, ApplyHeadObjectFilters(w) \/ ApplyTagFilters(w)
        PROVE  (Drain => Drain') /\ (cancelled => cancelled')
    <2>1. UNCHANGED <<closed, input>> /\ (FilterFail(w) \/ UNCHANGED cancelled)
      BY <1>4 DEF ApplyHeadObjectFilters, ApplyTagFilters, AttributeFilters, FilterPass, FilterSkip
    <2>2. cancelled => cancelled'
      BY <2>1 DEF FilterFail
    <2>3. QED
      BY <2>1, <2>2 DEF Drain
  <1>5. ASSUME NEW w \in Workers,
                ReceiveClosed(w) \/ ReceiveCancelled(w) \/ AfterObject(w) \/ BufferAndDelete(w)
                \/ ExceedMaxDelete(w) \/ Flush(w) \/ SingleDelete(w) \/ BatchDelete(w) \/ Retry(w)
                \/ RetryDone(w) \/ Forward(w) \/ ForwardDone(w)
        PROVE  UNCHANGED <<closed, input, cancelled>>
    BY <1>5 DEF ReceiveClosed, ReceiveCancelled, AfterObject, BufferAndDelete, ExceedMaxDelete,
                Flush, SingleDelete, BatchDelete, Retry, RetryDone, Forward, ForwardDone
  <1>6. CASE TerminatorReceive \/ Terminated \/ (\E o \in Contended : OtherClient(o))
             \/ UNCHANGED vars
    BY <1>1, <1>6 DEF TerminatorReceive, OtherClient, Terminated
  <1>7. QED
    BY <1>1, <1>2, <1>3, <1>4, <1>5, <1>6 DEF Next, WorkerStep

(* A step that leaves a worker alone leaves its end alone. *)
LEMMA EndFrame ==
    ASSUME Ended, [Next]_vars, TypeOK, NEW v \in Workers,
           pc'[v] = pc[v], cur'[v] = cur[v], buffer'[v] = buffer[v], batch'[v] = batch[v],
           returnTo'[v] = returnTo[v]
    PROVE  EndOK(v)'
  BY DrainStays DEF Ended, EndOK, Has

(* A worker writes only its own variables. *)
LEMMA StepOthers ==
    ASSUME TypeOK, NEW w \in Workers, WorkerStep(w)
    PROVE  Others(w)
  <1>1. CASE Receive(w) \/ ReceiveClosed(w) \/ ReceiveCancelled(w) \/ AfterObject(w)
    BY <1>1 DEF Receive, ReceiveClosed, ReceiveCancelled, AfterObject, Others, TypeOK
  <1>2. CASE ApplyHeadObjectFilters(w) \/ ApplyTagFilters(w)
    <2>1. /\ \E x : pc' = [pc EXCEPT ![w] = x]
          /\ UNCHANGED <<cur, buffer, batch, result, returnTo>>
      BY <1>2 DEF ApplyHeadObjectFilters, ApplyTagFilters, AttributeFilters, FilterPass,
                  FilterSkip, FilterFail
    <2>2. QED
      BY <2>1 DEF Others, TypeOK
  <1>3. CASE BufferAndDelete(w)
    BY <1>3 DEF BufferAndDelete, Others, TypeOK
  <1>4. CASE ExceedMaxDelete(w) \/ StopAtMaxDelete(w)
    BY <1>4 DEF ExceedMaxDelete, StopAtMaxDelete, Others, TypeOK
  <1>5. CASE Flush(w)
    BY <1>5 DEF Flush, Others, TypeOK
  <1>6. CASE SingleDelete(w)
    BY <1>6 DEF SingleDelete, Others, TypeOK
  <1>7. CASE BatchDelete(w)
    BY <1>7 DEF BatchDelete, Others, TypeOK
  <1>8. CASE Retry(w)
    BY <1>8 DEF Retry, RetrySucceeds, RetryFails, Others, TypeOK
  <1>9. CASE BatchDeleteError(w) \/ Report(w)
    BY <1>9 DEF BatchDeleteError, Report, Others, TypeOK
  <1>10. CASE RetryDone(w) \/ Forward(w) \/ ForwardDone(w) \/ Supervise(w)
    BY <1>10 DEF RetryDone, Forward, ForwardDone, Supervise, Others, TypeOK
  <1>11. QED
    BY <1>1, <1>2, <1>3, <1>4, <1>5, <1>6, <1>7, <1>8, <1>9, <1>10 DEF WorkerStep

(* The steps of a worker that ends or flushes. *)
LEMMA EndStep ==
    ASSUME TypeInv, OwnInv, OwnInv', Ended, [Next]_vars, NEW w \in Workers, WorkerStep(w)
    PROVE  EndOK(w)' /\ \A v \in Workers \ {w} : EndOK(v)'
  <1>0. TypeOK /\ HasCurrent /\ Mine(w) /\ Mine(w)' /\ EndOK(w) /\ returnTo[w] \in {"next", "stop", "done"}
    BY DEF TypeInv, TypeOK, OwnInv, Ended
  <1>others. Others(w)
    BY <1>0, StepOthers
  <1>1. CASE Receive(w) \/ ReceiveClosed(w) \/ ReceiveCancelled(w) \/ AfterObject(w)
    <2>2. CASE ReceiveClosed(w)
      <3>1. pc'[w] = "flush" /\ Drain'
        BY <1>0, <2>2 DEF ReceiveClosed, Drain, Drained, TypeOK
      <3>2. QED
        BY <1>0, <1>others, <3>1, EndFrame DEF EndOK, Others
    <2>3. CASE Receive(w) \/ ReceiveCancelled(w) \/ AfterObject(w)
      <3>1. pc'[w] \in {"head", "recv"} \/ (pc'[w] = "done" /\ cancelled')
        BY <1>0, <2>3 DEF Receive, ReceiveCancelled, AfterObject, TypeOK
      <3>2. QED
        BY <1>0, <1>others, <3>1, EndFrame DEF EndOK, Others, Flushing
    <2>4. QED
      BY <1>1, <2>2, <2>3
  <1>2. CASE ApplyHeadObjectFilters(w) \/ ApplyTagFilters(w)
    <2>1. /\ FilterPass(w, "tag") \/ FilterPass(w, "count") \/ FilterSkip(w) \/ FilterFail(w)
          /\ UNCHANGED <<cur, buffer, batch, result, returnTo>>
      BY <1>2 DEF ApplyHeadObjectFilters, ApplyTagFilters, AttributeFilters
    <2>2. pc'[w] \in {"tag", "count", "next", "failed"}
      <3>1. \E x \in {"tag", "count", "next", "failed"} : pc' = [pc EXCEPT ![w] = x]
        BY <2>1 DEF FilterPass, FilterSkip, FilterFail
      <3>2. QED
        BY <1>0, <3>1 DEF TypeOK
    <2>3. QED
      BY <1>0, <2>2, <1>others, EndFrame DEF EndOK, Others, Flushing
  <1>3. CASE BufferAndDelete(w) \/ ExceedMaxDelete(w) \/ StopAtMaxDelete(w)
    <2>1. pc'[w] = "next" \/ (pc'[w] = "flush" /\ returnTo'[w] \in {"next", "stop"})
      BY <1>0, <1>3 DEF BufferAndDelete, ExceedMaxDelete, StopAtMaxDelete, TypeOK
    <2>2. QED
      BY <1>0, <2>1, <1>others, EndFrame DEF EndOK, Others, Flushing
  <1>4. CASE Flush(w)
    <2>0. /\ pc[w] = "flush" /\ returnTo' = returnTo /\ cur' = cur
          /\ UNCHANGED <<closed, input, cancelled>>
      BY <1>0, <1>4 DEF Flush, TypeOK
    <2>1. CASE NothingToFlush(w)
      <3>1. pc'[w] = returnTo[w] /\ UNCHANGED <<buffer, batch>> /\ (buffer[w] = {} \/ cancelled)
        BY <1>0, <1>4, <2>1 DEF Flush, TypeOK, NothingToFlush
      <3>2. batch[w] = {} /\ (returnTo[w] = "done" => cur[w] = None) /\ None \notin Objects
        BY <1>0, <2>0, ObjectDeleterAssumption DEF Mine, BatchOK, CurrentOK, Flushing
      <3>3. EndOK(w)'
        BY <1>0, <2>0, <3>1, <3>2 DEF EndOK, Flushing, Has, Drain
      <3>4. QED
        BY <1>0, <2>0, <3>3, <1>others, EndFrame DEF Others
    <2>2. CASE ~NothingToFlush(w)
      <3>1. pc'[w] \in {"report", "request"} /\ buffer'[w] = {}
        BY <1>0, <1>4, <2>2 DEF Flush, TypeOK, BufferAfterTake
      <3>2. EndOK(w)'
        BY <1>0, <2>0, <3>1 DEF EndOK, Flushing, Drain
      <3>3. QED
        BY <1>0, <2>0, <3>2, <1>others, EndFrame DEF Others
    <2>3. QED
      BY <2>1, <2>2
  <1>5. CASE SingleDelete(w) \/ BatchDelete(w) \/ Retry(w) \/ RetryDone(w) \/ Forward(w)
    <2>1. /\ UNCHANGED <<closed, input, buffer, returnTo>>
          /\ pc[w] \in Flushing /\ pc[w] # "flush" /\ pc'[w] \in Flushing
      BY <1>0, <1>5 DEF SingleDelete, BatchDelete, Retry, RetryDone, Forward, TypeOK, Flushing
    <2>2. EndOK(w)'
      BY <1>0, <2>1 DEF EndOK, Flushing, Drain
    <2>3. QED
      BY <1>0, <2>1, <2>2, <1>others, EndFrame DEF Others
  <1>6. CASE BatchDeleteError(w) \/ Supervise(w)
    <2>1. (pc'[w] = "failed" \/ (pc'[w] = "done" /\ cancelled'))
      BY <1>0, <1>6 DEF BatchDeleteError, Supervise, TypeOK
    <2>2. QED
      BY <1>0, <2>1, <1>others, EndFrame DEF EndOK, Others, Flushing
  <1>7. CASE Report(w)
    <2>1. /\ UNCHANGED <<closed, input, buffer, returnTo>>
          /\ pc[w] = "report"
          /\ pc'[w] = "forward" \/ (pc'[w] = returnTo[w] /\ cancelled')
      BY <1>0, <1>7 DEF Report, TypeOK
    <2>2. EndOK(w)'
      BY <1>0, <2>1 DEF EndOK, Flushing, Drain
    <2>3. QED
      BY <1>0, <2>1, <2>2, <1>others, EndFrame DEF Others
  <1>8. CASE ForwardDone(w)
    <2>1. /\ UNCHANGED <<closed, input, cur, buffer, batch, returnTo>>
          /\ pc[w] = "forward" /\ pc'[w] = returnTo[w] /\ batch[w] = {}
      BY <1>0, <1>8 DEF ForwardDone, TypeOK
    <2>2. (returnTo[w] = "done" => cur[w] = None) /\ None \notin Objects
      BY <1>0, <2>1, ObjectDeleterAssumption DEF Mine, CurrentOK, Flushing
    <2>3. EndOK(w)'
      BY <1>0, <2>1, <2>2 DEF EndOK, Flushing, Drain, Has
    <2>4. QED
      BY <1>0, <2>1, <2>3, <1>others, EndFrame DEF Others
  <1>9. QED
    BY <1>1, <1>2, <1>3, <1>4, <1>5, <1>6, <1>7, <1>8 DEF WorkerStep

LEMMA EndNext == TypeInv /\ OwnInv /\ OwnInv' /\ Ended /\ [Next]_vars => Ended'
  <1> SUFFICES ASSUME TypeInv, OwnInv, OwnInv', Ended, [Next]_vars PROVE Ended'
    OBVIOUS
  <1>1. ASSUME NEW w \in Workers, WorkerStep(w) PROVE Ended'
    BY <1>1, EndStep DEF Ended
  <1>2. CASE UNCHANGED <<pc, cur, buffer, batch, returnTo>>
    BY <1>2, EndFrame DEF Ended, TypeInv
  <1>3. QED
    BY <1>1, <1>2 DEF Next, SendUpstream, CloseUpstream, Cancel, TerminatorReceive, OtherClient,
                      Terminated

-----------------------------------------------------------------------------
(* Batch sizes. A worker that goes on receiving has room in its buffer: a full    *)
(* buffer is flushed at once, and if the flush is refused the worker leaves.      *)

FitOK(w) ==
    /\ Cardinality(buffer[w]) <= EffectiveBatchSize
    /\ pc[w] \in {"recv", "head", "tag", "count"} => Cardinality(buffer[w]) < EffectiveBatchSize
    /\ pc[w] = "next" => cancelled \/ Cardinality(buffer[w]) < EffectiveBatchSize
    /\ pc[w] \in {"request", "retry", "report", "forward"} => buffer[w] = {}
    /\ pc[w] = "request" => Cardinality(batch[w]) \in 1 .. EffectiveBatchSize

Fit == \A w \in Workers : FitOK(w)

LEMMA BatchSize ==
    ASSUME TypeOK
    PROVE  EffectiveBatchSize \in Nat /\ EffectiveBatchSize >= 1
  BY ConfigTypes DEF EffectiveBatchSize, MAX_BATCH_SIZE

LEMMA BatchSizeKept ==
    ASSUME config' = config
    PROVE  EffectiveBatchSize' = EffectiveBatchSize
  BY DEF EffectiveBatchSize

(* A configuration never changes. *)
LEMMA ConfigKept ==
    ASSUME [Next]_vars
    PROVE  config' = config
  <1>1. ASSUME NEW w \in Workers, WorkerStep(w)
        PROVE  config' = config
    BY <1>1 DEF WorkerStep, Receive, ReceiveClosed, ReceiveCancelled, AfterObject,
                ApplyHeadObjectFilters, ApplyTagFilters, AttributeFilters, BufferAndDelete,
                ExceedMaxDelete, StopAtMaxDelete, Flush, SingleDelete, BatchDelete,
                BatchDeleteError, Retry, RetryDone, Report, Forward, ForwardDone, Supervise
  <1>2. QED
    BY <1>1 DEF Next, SendUpstream, CloseUpstream, Cancel, TerminatorReceive, OtherClient,
                Terminated

(* A step that leaves a worker alone leaves its sizes alone. *)
LEMMA FitFrame ==
    ASSUME NEW v \in Workers, FitOK(v), config' = config, cancelled => cancelled',
           pc'[v] = pc[v], buffer'[v] = buffer[v], batch'[v] = batch[v]
    PROVE  FitOK(v)'
  BY BatchSizeKept DEF FitOK

(* A worker that keeps its buffer and goes where it may go with it. *)
LEMMA FitMoves ==
    ASSUME NEW w \in Workers, FitOK(w), config' = config, buffer'[w] = buffer[w],
           pc'[w] \in {"recv", "head", "tag", "count"} =>
               Cardinality(buffer[w]) < EffectiveBatchSize,
           pc'[w] = "next" => cancelled' \/ Cardinality(buffer[w]) < EffectiveBatchSize,
           pc'[w] \in {"retry", "report", "forward"} => buffer[w] = {},
           pc'[w] # "request"
    PROVE  FitOK(w)'
  BY BatchSizeKept DEF FitOK

LEMMA FitStep ==
    ASSUME TypeInv, Fit, [Next]_vars, NEW w \in Workers, WorkerStep(w)
    PROVE  FitOK(w)'
  <1>0. /\ TypeOK /\ FitOK(w) /\ config' = config /\ EffectiveBatchSize' = EffectiveBatchSize
        /\ EffectiveBatchSize \in Nat /\ EffectiveBatchSize >= 1
        /\ cancelled => cancelled'
    BY ConfigKept, BatchSizeKept, BatchSize, DrainStays DEF TypeInv, Fit
  <1>b. /\ IsFiniteSet(buffer[w]) /\ Cardinality(buffer[w]) \in Nat
        /\ Cardinality({}) = 0 /\ returnTo[w] \in {"next", "stop", "done"}
    BY <1>0, CardinalityOfObjects, FS_EmptySet DEF TypeOK
  <1>1. CASE Receive(w) \/ ReceiveClosed(w) \/ ReceiveCancelled(w)
    <2>1. pc[w] = "recv" /\ buffer' = buffer /\ pc'[w] \in {"head", "flush", "done"}
      BY <1>0, <1>1 DEF Receive, ReceiveClosed, ReceiveCancelled, Drained, TypeOK
    <2>2. Cardinality(buffer[w]) < EffectiveBatchSize
      BY <1>0, <2>1 DEF FitOK
    <2>3. QED
      BY <1>0, <2>1, <2>2, FitMoves
  <1>2. CASE AfterObject(w)
    <2>1. /\ pc[w] = "next" /\ buffer' = buffer
          /\ pc'[w] = "done" \/ (pc'[w] = "recv" /\ ~cancelled)
      BY <1>0, <1>2 DEF AfterObject, TypeOK
    <2>2. pc'[w] = "recv" => Cardinality(buffer[w]) < EffectiveBatchSize
      BY <1>0, <2>1 DEF FitOK
    <2>3. QED
      BY <1>0, <2>1, <2>2, FitMoves
  <1>3. CASE ApplyHeadObjectFilters(w) \/ ApplyTagFilters(w)
    <2>1. \E x \in {"tag", "count", "next", "failed"} : pc' = [pc EXCEPT ![w] = x]
      BY <1>3 DEF ApplyHeadObjectFilters, ApplyTagFilters, AttributeFilters, FilterPass,
                  FilterSkip, FilterFail
    <2>2. /\ pc[w] \in {"head", "tag"} /\ buffer' = buffer
          /\ pc'[w] \in {"tag", "count", "next", "failed"}
      BY <1>0, <1>3, <2>1 DEF ApplyHeadObjectFilters, ApplyTagFilters, AttributeFilters, TypeOK
    <2>3. Cardinality(buffer[w]) < EffectiveBatchSize
      BY <1>0, <2>2 DEF FitOK
    <2>4. QED
      BY <1>0, <2>2, <2>3, FitMoves
  <1>4. CASE BufferAndDelete(w)
    <2>1. /\ pc[w] = "count" /\ buffer'[w] = buffer[w] \cup {cur[w]}
          /\ pc'[w] = IF BufferFull(Cardinality(buffer'[w])) THEN "flush" ELSE "next"
      BY <1>0, <1>4 DEF BufferAndDelete, TypeOK
    <2>2. Cardinality(buffer[w]) < EffectiveBatchSize
      BY <1>0, <2>1 DEF FitOK
    <2>3. /\ Cardinality(buffer'[w]) \in Nat
          /\ Cardinality(buffer'[w]) <= Cardinality(buffer[w]) + 1
      <3>1. Cardinality(buffer[w] \cup {cur[w]}) =
               IF cur[w] \in buffer[w] THEN Cardinality(buffer[w]) ELSE Cardinality(buffer[w]) + 1
        BY <1>b, FS_AddElement
      <3>2. QED
        BY <1>b, <2>1, <3>1
    <2>4. Cardinality(buffer'[w]) <= EffectiveBatchSize
      BY <1>0, <1>b, <2>2, <2>3
    <2>5. pc'[w] = "flush" \/ (pc'[w] = "next" /\ Cardinality(buffer'[w]) < EffectiveBatchSize)
      BY <1>0, <2>1, <2>3 DEF BufferFull
    <2>6. QED
      BY <1>0, <2>4, <2>5 DEF FitOK
  <1>5. CASE ExceedMaxDelete(w) \/ StopAtMaxDelete(w)
    <2>1. buffer'[w] = buffer[w] /\ (pc'[w] = "flush" \/ (pc'[w] = "next" /\ cancelled'))
      BY <1>0, <1>5 DEF ExceedMaxDelete, StopAtMaxDelete, FlushedAtLimit, CancelledAtLimit, TypeOK
    <2>2. QED
      BY <1>0, <2>1, FitMoves
  <1>6. CASE Flush(w)
    <2>1. CASE NothingToFlush(w)
      <3>1. /\ buffer' = buffer /\ pc'[w] = returnTo[w] /\ cancelled' = cancelled
            /\ buffer[w] = {} \/ cancelled
        BY <1>0, <1>6, <2>1 DEF Flush, NothingToFlush, TypeOK
      <3>2. cancelled' \/ Cardinality(buffer[w]) < EffectiveBatchSize
        BY <1>0, <1>b, <3>1
      <3>3. QED
        BY <1>0, <1>b, <3>1, <3>2, FitMoves
    <2>2. CASE ~NothingToFlush(w)
      <3>1. /\ buffer'[w] = {} /\ batch'[w] = buffer[w] /\ pc'[w] \in {"report", "request"}
            /\ buffer[w] # {}
        BY <1>0, <1>6, <2>2 DEF Flush, NothingToFlush, BufferAfterTake, TypeOK
      <3>2. Cardinality(buffer[w]) # 0 /\ Cardinality(buffer[w]) <= EffectiveBatchSize
        BY <1>0, <1>b, <3>1, FS_EmptySet DEF FitOK
      <3>3. Cardinality(batch'[w]) \in 1 .. EffectiveBatchSize
        BY <1>0, <1>b, <3>1, <3>2
      <3>4. QED
        BY <1>0, <1>b, <3>1, <3>3 DEF FitOK
    <2>3. QED
      BY <2>1, <2>2
  <1>7. CASE SingleDelete(w) \/ BatchDelete(w) \/ BatchDeleteError(w) \/ Retry(w)
             \/ RetryDone(w) \/ Forward(w)
    <2>1. /\ pc[w] \in {"request", "retry", "forward"} /\ buffer' = buffer
          /\ pc'[w] \in {"retry", "report", "forward", "failed"}
      BY <1>0, <1>7 DEF SingleDelete, BatchDelete, BatchDeleteError, Retry, RetryDone, Forward,
                        TypeOK
    <2>2. buffer[w] = {}
      BY <1>0, <2>1 DEF FitOK
    <2>3. QED
      BY <1>0, <2>1, <2>2, FitMoves
  <1>8. CASE Report(w) \/ ForwardDone(w)
    <2>1. /\ pc[w] \in {"report", "forward"} /\ buffer' = buffer
          /\ pc'[w] \in {"forward", "next", "stop", "done"}
      BY <1>0, <1>b, <1>8 DEF Report, ForwardDone, TypeOK
    <2>2. buffer[w] = {} /\ Cardinality(buffer[w]) < EffectiveBatchSize
      BY <1>0, <1>b, <2>1 DEF FitOK
    <2>3. QED
      BY <1>0, <2>1, <2>2, FitMoves
  <1>9. CASE Supervise(w)
    <2>1. buffer' = buffer /\ pc'[w] = "done"
      BY <1>0, <1>9 DEF Supervise, TypeOK
    <2>2. QED
      BY <1>0, <2>1, FitMoves
  <1>10. QED
    BY <1>1, <1>2, <1>3, <1>4, <1>5, <1>6, <1>7, <1>8, <1>9 DEF WorkerStep

LEMMA FitNext == TypeInv /\ Fit /\ [Next]_vars => Fit'
  <1> SUFFICES ASSUME TypeInv, Fit, [Next]_vars PROVE Fit'
    OBVIOUS
  <1>0. TypeOK /\ config' = config /\ (cancelled => cancelled')
    BY ConfigKept, DrainStays DEF TypeInv
  <1>1. ASSUME NEW w \in Workers, WorkerStep(w) PROVE Fit'
    <2>1. FitOK(w)'
      BY <1>1, FitStep
    <2>2. ASSUME NEW v \in Workers \ {w} PROVE FitOK(v)'
      BY <1>0, <1>1, StepOthers, FitFrame DEF Others, Fit
    <2>3. QED
      BY <2>1, <2>2 DEF Fit
  <1>2. CASE UNCHANGED <<pc, buffer, batch>>
    BY <1>0, <1>2, FitFrame DEF Fit
  <1>3. QED
    BY <1>1, <1>2 DEF Next, SendUpstream, CloseUpstream, Cancel, TerminatorReceive, OtherClient,
                      Terminated

(* A request of delete_buffered_objects names at least one object and never more  *)
(* than the effective batch size, in every interleaving: also when the flush of a *)
(* full buffer is refused because another worker cancelled, since the worker then *)
(* ends before it receives again.                                                 *)
THEOREM BatchesHold == Spec => []BatchesFit
  <1>1. Init => TypeInv /\ Fit
    <2> SUFFICES ASSUME Init, TypeInv PROVE Fit
      BY TypeInit
    <2>1. EffectiveBatchSize \in Nat /\ EffectiveBatchSize >= 1 /\ Cardinality({}) = 0
      BY BatchSize, FS_EmptySet DEF TypeInv
    <2>2. ASSUME NEW w \in Workers PROVE pc[w] = "recv" /\ buffer[w] = {}
      BY DEF Init
    <2>3. QED
      BY <2>1, <2>2 DEF Fit, FitOK
  <1>2. TypeInv /\ Fit /\ [Next]_vars => (TypeInv /\ Fit)'
    BY TypeNext, FitNext
  <1>3. Fit => BatchesFit
    BY DEF Fit, FitOK, BatchesFit
  <1>4. QED
    BY <1>1, <1>2, <1>3, PTL DEF Spec

-----------------------------------------------------------------------------
(* Failures. *)

(* Every failure set its flags in the step that recorded it; nobody waits for the *)
(* supervisor.                                                                    *)
ShownOK(o) ==
    /\ outcome[o] \in {"failed", "stopped"} => has_warning
    /\ outcome[o] = "failed" /\ config.warn_as_error => cancelled
    /\ outcome[o] \in {"stopped", "unknown"} => cancelled

Shown == \A o \in Objects : ShownOK(o)

(* The flags are never reset. *)
FlagsStay == (cancelled => cancelled') /\ (has_warning => has_warning')

LEMMA FlagsNext ==
    ASSUME TypeOK, [Next]_vars
    PROVE  FlagsStay
  <1>0. cancelled => cancelled'
    BY DrainStays
  <1>1. ASSUME NEW w \in Workers, StopAtMaxDelete(w)
        PROVE  has_warning => has_warning'
    BY <1>1 DEF StopAtMaxDelete
  <1>2. ASSUME NEW w \in Workers, Report(w)
        PROVE  has_warning => has_warning'
    BY <1>2 DEF Report, WarningAfter
  <1>3. ASSUME NEW w \in Workers, WorkerStep(w), ~StopAtMaxDelete(w), ~Report(w)
        PROVE  UNCHANGED has_warning
    <2>1. CASE Receive(w) \/ ReceiveClosed(w) \/ ReceiveCancelled(w) \/ AfterObject(w)
               \/ ApplyHeadObjectFilters(w) \/ ApplyTagFilters(w) \/ BufferAndDelete(w)
               \/ ExceedMaxDelete(w)
      BY <2>1 DEF Receive, ReceiveClosed, ReceiveCancelled, AfterObject, ApplyHeadObjectFilters,
                  ApplyTagFilters, AttributeFilters, FilterPass, FilterSkip, FilterFail,
                  BufferAndDelete, ExceedMaxDelete
    <2>2. CASE Flush(w) \/ SingleDelete(w) \/ BatchDelete(w) \/ BatchDeleteError(w) \/ Retry(w)
               \/ RetryDone(w) \/ Forward(w) \/ ForwardDone(w) \/ Supervise(w)
      BY <2>2 DEF Flush, SingleDelete, BatchDelete, BatchDeleteError, Retry, RetryDone, Forward,
                  ForwardDone, Supervise
    <2>3. QED
      BY <1>3, <2>1, <2>2 DEF WorkerStep
  <1>4. CASE UNCHANGED has_warning
    BY <1>0, <1>4 DEF FlagsStay
  <1>5. QED
    BY <1>0, <1>1, <1>2, <1>3, <1>4 DEF FlagsStay, Next, SendUpstream, CloseUpstream, Cancel,
                                        TerminatorReceive, OtherClient, Terminated

LEMMA ShownFrame ==
    ASSUME Shown, FlagsStay, config' = config, NEW o \in Objects, outcome'[o] = outcome[o]
    PROVE  ShownOK(o)'
  BY DEF Shown, ShownOK, FlagsStay

(* The steps that settle objects, and what they set. *)
LEMMA ShownNext == TypeInv /\ OwnInv /\ Shown /\ [Next]_vars => Shown'
  <1> SUFFICES ASSUME TypeOK, OwnInv, Shown, [Next]_vars, NEW o \in Objects PROVE ShownOK(o)'
    BY DEF TypeInv, Shown
  <1>0. FlagsStay
    BY FlagsNext
  <1>1. CASE UNCHANGED <<config, outcome>>
    BY <1>0, <1>1, ShownFrame
  <1>2. ASSUME NEW w \in Workers, ApplyHeadObjectFilters(w) \/ ApplyTagFilters(w)
        PROVE  ShownOK(o)'
    <2>1. config' = config /\ (outcome'[o] = outcome[o] \/ outcome'[o] = "skipped")
      BY <1>2 DEF ApplyHeadObjectFilters, ApplyTagFilters, AttributeFilters, FilterPass,
                  FilterSkip, FilterFail, TypeOK
    <2>2. QED
      BY <1>0, <2>1, ShownFrame DEF ShownOK
  <1>3. ASSUME NEW w \in Workers, StopAtMaxDelete(w)
        PROVE  ShownOK(o)'
    <2>1. /\ config' = config /\ has_warning' /\ cancelled'
          /\ outcome'[o] = outcome[o] \/ outcome'[o] = "stopped"
      BY <1>3 DEF StopAtMaxDelete, CancelledAtLimit, TypeOK
    <2>2. QED
      BY <1>0, <2>1, ShownFrame DEF ShownOK
  <1>4. ASSUME NEW w \in Workers, BatchDeleteError(w)
        PROVE  ShownOK(o)'
    <2>1. /\ config' = config /\ cancelled' /\ pc'[w] = "failed"
          /\ outcome'[o] = outcome[o] \/ outcome'[o] = "unknown"
      BY <1>4 DEF BatchDeleteError, TypeOK
    <2>2. QED
      BY <1>0, <2>1, ShownFrame DEF ShownOK
  <1>5. ASSUME NEW w \in Workers, Report(w)
        PROVE  ShownOK(o)'
    <2>1. config' = config
      BY <1>5 DEF Report
    <2>2. CASE o \in result[w].failed
      <3>1. outcome'[o] = "failed"
        BY <1>5, <2>2, Reported
      <3>2. has_warning' /\ (config.warn_as_error => cancelled')
        BY <1>5, <2>2 DEF Report, WarningAfter
      <3>3. QED
        BY <2>1, <3>1, <3>2 DEF ShownOK
    <2>3. CASE o \notin result[w].failed
      <3>1. outcome'[o] = "deleted" \/ outcome'[o] = outcome[o]
        BY <1>5, <2>3, Reported
      <3>2. QED
        BY <1>0, <2>1, <3>1, ShownFrame DEF ShownOK
    <2>4. QED
      BY <2>2, <2>3
  <1>6. ASSUME NEW w \in Workers,
               Receive(w) \/ ReceiveClosed(w) \/ ReceiveCancelled(w) \/ AfterObject(w)
               \/ BufferAndDelete(w) \/ ExceedMaxDelete(w) \/ Flush(w) \/ SingleDelete(w)
               \/ BatchDelete(w) \/ Retry(w) \/ RetryDone(w) \/ Forward(w) \/ ForwardDone(w)
               \/ Supervise(w)
        PROVE  UNCHANGED <<config, outcome>>
    BY <1>6 DEF Receive, ReceiveClosed, ReceiveCancelled, AfterObject, BufferAndDelete,
                ExceedMaxDelete, Flush, SingleDelete, BatchDelete, Retry, RetryDone, Forward,
                ForwardDone, Supervise
  <1>7. CASE SendUpstream \/ CloseUpstream \/ Cancel \/ TerminatorReceive \/ Terminated
             \/ (\E x \in Contended : OtherClient(x)) \/ UNCHANGED vars
    BY <1>1, <1>7 DEF SendUpstream, CloseUpstream, Cancel, TerminatorReceive, OtherClient,
                      Terminated
  <1>8. QED
    BY <1>1, <1>2, <1>3, <1>4, <1>5, <1>6, <1>7 DEF Next, WorkerStep

-----------------------------------------------------------------------------
(* The theorems about conservation and failures. *)

ConserveInv == TypeInv /\ OwnInv /\ Tracked /\ Ended /\ Shown

LEMMA ConserveInit == Init => ConserveInv
  <1> SUFFICES ASSUME Init PROVE ConserveInv
    OBVIOUS
  <1>1. Tracked
    BY DEF Init, Tracked
  <1>2. Ended
    BY DEF Init, Ended, EndOK, Flushing
  <1>3. Shown
    BY DEF Init, Shown, ShownOK
  <1>4. QED
    BY <1>1, <1>2, <1>3, TypeInit, OwnInit DEF ConserveInv

LEMMA ConserveNext == ConserveInv /\ [Next]_vars => ConserveInv'
  BY TypeNext, OwnNext, TrackedNext, EndNext, ShownNext DEF ConserveInv

(* At the end of a run nobody cancelled only the listing may hold an object that  *)
(* has no outcome.                                                                *)
LEMMA EndLosesNothing == ConserveInv => NothingLost
  <1> SUFFICES ASSUME ConserveInv, AllDone, ~cancelled, NEW o \in Objects \ upstream
               PROVE  outcome[o] \in {"skipped", "deleted", "failed"}
    BY DEF NothingLost
  <1>1. \A w \in Workers : Drain /\ ~Has(w, o)
    BY DEF ConserveInv, Ended, EndOK, AllDone
  <1>2. input = {}
    BY <1>1, ObjectDeleterAssumption DEF Drain
  <1>3. outcome[o] # "pending"
    BY <1>1, <1>2 DEF ConserveInv, Tracked
  <1>4. outcome[o] # "stopped" /\ outcome[o] # "unknown"
    BY DEF ConserveInv, Shown, ShownOK
  <1>5. QED
    BY <1>3, <1>4 DEF ConserveInv, TypeInv, TypeOK, Outcome

(* From the channel to its outcome an object is in exactly one place, whatever    *)
(* the workers of delete_objects do at the same time, so delete_buffered_objects  *)
(* never deletes or counts it twice; and when receive_and_delete ends without a   *)
(* cancellation, every object that left the listing has its outcome.              *)
THEOREM Conserved == Spec => []ObjectsConserved
  <1>1. ConserveInv => ObjectsConserved
    BY OwnerIsOne, EndLosesNothing DEF ConserveInv, TypeInv, ObjectsConserved
  <1>2. QED
    BY <1>1, ConserveInit, ConserveNext, PTL DEF Spec

(* A count above zero has an object behind it. *)
LEMMA SomeWith ==
    ASSUME NEW x, With(x) # 0
    PROVE  \E o \in Objects : outcome[o] = x
  BY FS_EmptySet DEF With

(* When the last worker has dropped its sender, so that run() can return, every   *)
(* failed key and every stop at --max-delete has set the warning flag, and a      *)
(* failed key under --warn-as-error, a stop and a batch whose request failed as a *)
(* whole have cancelled the run, before any supervisor was waited for.            *)
THEOREM FailuresDecide == Spec => []FailuresVisible
  <1>1. ConserveInv => FailuresVisible
    <2> SUFFICES ASSUME ConserveInv
                 PROVE  /\ With("failed") + With("stopped") > 0 => has_warning
                        /\ With("failed") > 0 /\ config.warn_as_error => cancelled
                        /\ With("stopped") + With("unknown") > 0 => cancelled
      BY DEF FailuresVisible
    <2>1. \A o \in Objects : ShownOK(o)
      BY DEF ConserveInv, Shown
    <2>2. /\ With("failed") + With("stopped") > 0 => With("failed") # 0 \/ With("stopped") # 0
          /\ With("stopped") + With("unknown") > 0 => With("stopped") # 0 \/ With("unknown") # 0
          /\ With("failed") > 0 => With("failed") # 0
      OBVIOUS
    <2>3. (With("failed") # 0 \/ With("stopped") # 0) => has_warning
      BY <2>1, SomeWith DEF ShownOK
    <2>4. With("failed") # 0 /\ config.warn_as_error => cancelled
      BY <2>1, SomeWith DEF ShownOK
    <2>5. (With("stopped") # 0 \/ With("unknown") # 0) => cancelled
      BY <2>1, SomeWith DEF ShownOK
    <2>6. QED
      BY <2>2, <2>3, <2>4, <2>5
  <1>2. QED
    BY <1>1, ConserveInit, ConserveNext, PTL DEF Spec

-----------------------------------------------------------------------------
(* Statistics. *)

Of(x) == {o \in Objects : outcome[o] = x}

(* The objects that cost a DeleteError message: those a worker stopped at, and    *)
(* the failed keys from the moment they enter a DeleteResult.                     *)
Errors == {o \in Objects : \/ outcome[o] \in {"failed", "stopped"}
                           \/ \E w \in Workers : o \in result[w].failed}

(* The statistics at any time, not only at the end. *)
Counted ==
    /\ stats.complete = Cardinality(Of("deleted"))
    /\ stats.failed = Cardinality(Of("failed"))
    /\ stats.skip = Cardinality(Of("skipped"))
    /\ stats.error = Cardinality(Errors)

LEMMA Grow ==
    ASSUME NEW A \in SUBSET Objects, NEW B \in SUBSET Objects, A \cap B = {}
    PROVE  /\ Cardinality(A \cup B) = Cardinality(A) + Cardinality(B)
           /\ Cardinality(B) \in Nat
  <1>1. /\ IsFiniteSet(A) /\ IsFiniteSet(B)
        /\ Cardinality(A) \in Nat /\ Cardinality(B) \in Nat
    BY CardinalityOfObjects
  <1>2. Cardinality(A \cup B) = Cardinality(A) + Cardinality(B) - Cardinality({})
    BY <1>1, FS_Union
  <1>3. Cardinality({}) = 0
    BY FS_EmptySet
  <1>4. QED
    BY <1>1, <1>2, <1>3

LEMMA One == ASSUME NEW o PROVE Cardinality({o}) = 1
  BY FS_Singleton

(* A key in a DeleteResult waits for its report in the batch of one worker. *)
LEMMA InResult ==
    ASSUME TypeOK, OwnInv, NEW w \in Workers,
           NEW o \in result[w].deleted \cup result[w].failed \cup result[w].errors
    PROVE  o \in Objects /\ o \in batch[w] /\ pc[w] \in {"retry", "report"} /\ outcome[o] = "pending"
  <1>1. ResultOK(w) /\ BatchOK(w)
    BY DEF OwnInv, Mine
  <1>2. pc[w] \in {"retry", "report"}
    BY <1>1 DEF ResultOK, NoResult
  <1>3. o \in batch[w]
    BY <1>1, <1>2 DEF ResultOK, Splits
  <1>4. QED
    BY <1>1, <1>2, <1>3 DEF BatchOK, TypeOK

(* What a worker holds and has no outcome caused no message, unless it is in the  *)
(* worker's own DeleteResult.                                                     *)
LEMMA NotCounted ==
    ASSUME TypeOK, OwnInv, NEW w \in Workers, NEW o \in Objects, Has(w, o),
           outcome[o] = "pending", o \notin result[w].failed
    PROVE  o \notin Errors
  <1>1. ASSUME NEW v \in Workers, o \in result[v].failed
        PROVE  FALSE
    <2>1. Has(v, o)
      BY <1>1, InResult DEF Has
    <2>2. v = w
      BY <2>1 DEF OwnInv, Apart
    <2>3. QED
      BY <1>1, <2>2
  <1>2. QED
    BY <1>1 DEF Errors

(* More DeleteError messages, for objects that had none. *)
LEMMA CountErrors ==
    ASSUME TypeOK, Counted, NEW F \in SUBSET Objects, F \cap Errors = {},
           Errors' = Errors \cup F,
           stats' = [stats EXCEPT !.error = @ + Cardinality(F)],
           UNCHANGED <<Of("deleted"), Of("failed"), Of("skipped")>>
    PROVE  Counted'
  <1>1. Cardinality(Errors') = Cardinality(Errors) + Cardinality(F)
    BY Grow DEF Errors
  <1>2. /\ stats'.error = stats.error + Cardinality(F)
        /\ stats'.complete = stats.complete /\ stats'.failed = stats.failed /\ stats'.skip = stats.skip
    BY DEF TypeOK, StatsType
  <1>3. QED
    BY <1>1, <1>2 DEF Counted

LEMMA CountFrame ==
    ASSUME Counted, stats' = stats, Errors' = Errors,
           UNCHANGED <<Of("deleted"), Of("failed"), Of("skipped")>>
    PROVE  Counted'
  BY DEF Counted

LEMMA CountOutcome ==
    ASSUME TypeOK, OwnInv, Counted, NEW w \in Workers,
           ApplyHeadObjectFilters(w) \/ ApplyTagFilters(w) \/ StopAtMaxDelete(w)
    PROVE  Counted'
  <1>0. UNCHANGED result /\ pc[w] \in {"head", "tag", "stop"}
    BY DEF ApplyHeadObjectFilters, ApplyTagFilters, AttributeFilters, StopAtMaxDelete
  <1>1. CurrentOK(w) /\ BatchOK(w)
    BY DEF OwnInv, Mine
  <1>2. cur[w] \in Objects /\ outcome[cur[w]] = "pending"
    BY <1>0, <1>1 DEF CurrentOK
  <1>3. cur[w] \notin Errors
    <2>1. cur[w] \notin result[w].failed
      BY <1>1, InResult DEF BatchOK
    <2>2. QED
      BY <1>2, <2>1, NotCounted DEF Has
  <1>4. CASE FilterSkip(w)
    <2>1. outcome' = [outcome EXCEPT ![cur[w]] = "skipped"] /\ stats' = [stats EXCEPT !.skip = @ + 1]
      BY <1>4 DEF FilterSkip
    <2>2. /\ UNCHANGED <<Of("deleted"), Of("failed")>> /\ Errors' = Errors
          /\ Of("skipped")' = Of("skipped") \cup {cur[w]} /\ cur[w] \notin Of("skipped")
      BY <1>0, <1>2, <1>3, <2>1 DEF TypeOK, Of, Errors
    <2>3. Cardinality(Of("skipped") \cup {cur[w]}) = Cardinality(Of("skipped")) + Cardinality({cur[w]})
      BY <1>2, <2>2, Grow DEF Of
    <2>4. Cardinality(Of("skipped")') = Cardinality(Of("skipped")) + 1
      BY <2>2, <2>3, One
    <2>5. /\ stats'.skip = stats.skip + 1
          /\ stats'.complete = stats.complete /\ stats'.failed = stats.failed
          /\ stats'.error = stats.error
      BY <2>1 DEF TypeOK, StatsType
    <2>6. QED
      BY <2>2, <2>4, <2>5 DEF Counted
  <1>5. CASE StopAtMaxDelete(w)
    <2>1. /\ outcome' = [outcome EXCEPT ![cur[w]] = "stopped"]
          /\ stats' = [stats EXCEPT !.error = @ + 1]
      BY <1>5 DEF StopAtMaxDelete
    <2>2. /\ UNCHANGED <<Of("deleted"), Of("failed"), Of("skipped")>>
          /\ Errors' = Errors \cup {cur[w]}
      BY <1>0, <1>2, <2>1 DEF TypeOK, Of, Errors
    <2>3. stats' = [stats EXCEPT !.error = @ + Cardinality({cur[w]})]
      BY <2>1, One
    <2>4. QED
      BY <1>2, <1>3, <2>2, <2>3, CountErrors
  <1>6. CASE UNCHANGED <<stats, outcome>>
    BY <1>0, <1>6, CountFrame DEF Of, Errors
  <1>7. QED
    BY <1>4, <1>5, <1>6 DEF ApplyHeadObjectFilters, ApplyTagFilters, AttributeFilters, FilterPass,
                            FilterFail

(* One worker's DeleteResult gains the failed keys F. *)
FailedStep(w, r, F) ==
    /\ pc[w] \in {"request", "retry"} /\ outcome' = outcome
    /\ result' = [result EXCEPT ![w] = r]
    /\ r.failed = result[w].failed \cup F
    /\ F \subseteq batch[w] /\ F \cap result[w].failed = {}
    /\ stats' = [stats EXCEPT !.error = @ + Cardinality(F)]

LEMMA CountFailed ==
    ASSUME TypeOK, OwnInv, Counted, NEW w \in Workers, NEW r, NEW F, FailedStep(w, r, F)
    PROVE  Counted'
  <1>1. BatchOK(w) /\ batch[w] \subseteq Objects
    BY DEF OwnInv, Mine, TypeOK
  <1>2. \A o \in F : o \in Objects /\ outcome[o] = "pending" /\ Has(w, o)
    BY <1>1 DEF BatchOK, Has, FailedStep
  <1>3. F \cap Errors = {}
    BY <1>2, NotCounted DEF FailedStep
  <1>4. Errors' = Errors \cup F
    BY <1>2 DEF Errors, TypeOK, FailedStep
  <1>5. UNCHANGED <<Of("deleted"), Of("failed"), Of("skipped")>>
    BY DEF Of, FailedStep
  <1>6. F \in SUBSET Objects
    BY <1>2
  <1>7. QED
    BY <1>3, <1>4, <1>5, <1>6, CountErrors DEF FailedStep

LEMMA CountRequest ==
    ASSUME TypeOK, OwnInv, Counted, NEW w \in Workers,
           SingleDelete(w) \/ BatchDelete(w) \/ BatchDeleteError(w)
    PROVE  Counted'
  <1>0. pc[w] = "request" /\ ResultOK(w) /\ BatchOK(w)
    BY DEF SingleDelete, BatchDelete, BatchDeleteError, OwnInv, Mine
  <1>1. result[w] = NoResult /\ NoResult.failed = {}
    BY <1>0 DEF ResultOK, NoResult
  <1>2. CASE SingleDelete(w)
    <2>1. PICK ok :
             /\ result' = [result EXCEPT ![w] = [NoResult EXCEPT !.deleted = ok,
                                                              !.failed = batch[w] \ ok]]
             /\ stats' = [stats EXCEPT !.error = @ + Cardinality(batch[w] \ ok)]
      BY <1>2 DEF SingleDelete
    <2> DEFINE r == [NoResult EXCEPT !.deleted = ok, !.failed = batch[w] \ ok]
    <2>2. r.failed = batch[w] \ ok /\ result' = [result EXCEPT ![w] = r] /\ outcome' = outcome
      BY <1>2, <2>1 DEF NoResult, SingleDelete
    <2> HIDE DEF r
    <2>3. r.failed = result[w].failed \cup (batch[w] \ ok) /\ (batch[w] \ ok) \cap result[w].failed = {}
      BY <1>1, <2>2
    <2>4. FailedStep(w, r, batch[w] \ ok)
      BY <1>0, <2>1, <2>2, <2>3 DEF FailedStep
    <2>5. QED
      BY <2>4, CountFailed
  <1>3. CASE BatchDelete(w)
    <2>1. PICK ok, retryable :
             /\ result' = [result EXCEPT ![w] =
                   [NoResult EXCEPT !.deleted = ok, !.errors = retryable,
                                    !.failed = (batch[w] \ ok) \ retryable]]
             /\ stats' = [stats EXCEPT !.error =
                             @ + Cardinality(CountedAtOnce(batch[w] \ ok, retryable))]
      BY <1>3 DEF BatchDelete
    <2> DEFINE r == [NoResult EXCEPT !.deleted = ok, !.errors = retryable,
                                     !.failed = (batch[w] \ ok) \ retryable]
               F == (batch[w] \ ok) \ retryable
    <2>2. r.failed = F /\ result' = [result EXCEPT ![w] = r] /\ outcome' = outcome
      BY <1>3, <2>1 DEF NoResult, BatchDelete
    <2>3. stats' = [stats EXCEPT !.error = @ + Cardinality(F)] /\ F \subseteq batch[w]
      BY <2>1 DEF CountedAtOnce
    <2> HIDE DEF r, F
    <2>4. r.failed = result[w].failed \cup F /\ F \cap result[w].failed = {}
      BY <1>1, <2>2
    <2>5. FailedStep(w, r, F)
      BY <1>0, <2>2, <2>3, <2>4 DEF FailedStep
    <2>6. QED
      BY <2>5, CountFailed
  <1>4. CASE BatchDeleteError(w)
    <2>1. /\ stats' = stats /\ result' = result
          /\ \A o \in Objects : outcome'[o] = outcome[o]
                                \/ (outcome[o] = "pending" /\ outcome'[o] = "unknown")
      BY <1>0, <1>4 DEF BatchDeleteError, BatchOK
    <2>2. Errors' = Errors
      BY <2>1 DEF Errors
    <2>3. UNCHANGED <<Of("deleted"), Of("failed"), Of("skipped")>>
      BY <2>1 DEF Of
    <2>4. QED
      BY <2>1, <2>2, <2>3, CountFrame
  <1>5. QED
    BY <1>2, <1>3, <1>4

LEMMA CountRetry ==
    ASSUME TypeOK, OwnInv, Counted, NEW w \in Workers, Retry(w)
    PROVE  Counted'
  <1>1. PICK o \in result[w].errors :
           /\ o \in batch[w] /\ o \in Objects
           /\ RetrySucceeds(w, o) \/ RetryFails(w, o)
    BY RetryKey
  <1>2. pc[w] = "retry" /\ outcome' = outcome /\ result[w] \in ResultType /\ o \notin result[w].failed
    BY <1>1 DEF Retry, OwnInv, Mine, ResultOK, Splits, TypeOK
  <1>3. CASE stats' = stats /\ \E r \in {Recovered(result[w], o), Again(result[w], o)} :
                                   result' = [result EXCEPT ![w] = r]
    <2>1. \A v \in Workers : result'[v].failed = result[v].failed
      BY <1>2, <1>3, RetryResult DEF TypeOK
    <2>2. Errors' = Errors
      BY <1>2, <2>1 DEF Errors
    <2>3. UNCHANGED <<Of("deleted"), Of("failed"), Of("skipped")>>
      BY <1>2 DEF Of
    <2>4. QED
      BY <1>3, <2>2, <2>3, CountFrame
  <1>4. CASE /\ stats' = [stats EXCEPT !.error = @ + 1]
             /\ result' = [result EXCEPT ![w] = Exhausted(result[w], o)]
    <2>1. stats' = [stats EXCEPT !.error = @ + Cardinality({o})]
      BY <1>4, One
    <2>2. Exhausted(result[w], o).failed = result[w].failed \cup {o}
      BY <1>2, RetryResult
    <2>3. {o} \subseteq batch[w] /\ {o} \cap result[w].failed = {}
      BY <1>1, <1>2
    <2>4. FailedStep(w, Exhausted(result[w], o), {o})
      BY <1>2, <1>4, <2>1, <2>2, <2>3 DEF FailedStep
    <2>5. QED
      BY <2>4, CountFailed
  <1>5. QED
    BY <1>1, <1>3, <1>4 DEF RetrySucceeds, RetryFails

LEMMA CountReport ==
    ASSUME TypeOK, OwnInv, Counted, NEW w \in Workers, Report(w)
    PROVE  Counted'
  <1> DEFINE D == result[w].deleted
             F == result[w].failed
  <1>1. /\ D \cap F = {} /\ batch[w] = D \cup F
        /\ \A o \in Objects : /\ o \in D => outcome'[o] = "deleted"
                              /\ o \in F => outcome'[o] = "failed"
                              /\ o \notin D \cup F => outcome'[o] = outcome[o]
    BY Reported
  <1>2. D \in SUBSET Objects /\ F \in SUBSET Objects /\ \A o \in D \cup F : outcome[o] = "pending"
    BY InResult
  <1>3. result' = [result EXCEPT ![w] = NoResult] /\ NoResult.failed = {}
    BY DEF Report, NoResult
  <1>4. \A o \in Objects : (\E v \in Workers : o \in result[v].failed)
                              <=> o \in F \/ \E v \in Workers : o \in result'[v].failed
    BY <1>3 DEF TypeOK
  <1>5. stats' = [stats EXCEPT !.complete = @ + Cardinality(D), !.failed = @ + Cardinality(F)]
    BY DEF Report
  <1> HIDE DEF D, F
  <1>6. Errors' = Errors
    <2>1. ASSUME NEW o \in Objects, o \in D
          PROVE  outcome'[o] = "deleted" /\ outcome[o] = "pending" /\ o \notin F
      BY <1>1, <1>2, <2>1
    <2>2. ASSUME NEW o \in Objects
          PROVE  o \in Errors' <=> o \in Errors
      <3>1. CASE o \in F
        BY <1>1, <1>4, <3>1 DEF Errors
      <3>2. CASE o \notin F
        BY <1>1, <1>4, <2>1, <3>2 DEF Errors
      <3>3. QED
        BY <3>1, <3>2
    <2>3. QED
      BY <2>2 DEF Errors
  <1>7. /\ Of("deleted")' = Of("deleted") \cup D /\ Of("deleted") \cap D = {}
        /\ Of("failed")' = Of("failed") \cup F /\ Of("failed") \cap F = {}
        /\ Of("skipped")' = Of("skipped")
    BY <1>1, <1>2 DEF Of
  <1>8. /\ Cardinality(Of("deleted")') = Cardinality(Of("deleted")) + Cardinality(D)
        /\ Cardinality(Of("failed")') = Cardinality(Of("failed")) + Cardinality(F)
    BY <1>2, <1>7, Grow DEF Of
  <1>9. /\ stats'.complete = stats.complete + Cardinality(D)
        /\ stats'.failed = stats.failed + Cardinality(F)
        /\ stats'.skip = stats.skip /\ stats'.error = stats.error
    BY <1>5 DEF TypeOK, StatsType
  <1>10. QED
    BY <1>6, <1>7, <1>8, <1>9 DEF Counted

LEMMA CountNext == TypeInv /\ OwnInv /\ Counted /\ [Next]_vars => Counted'
  <1> SUFFICES ASSUME TypeOK, OwnInv, Counted, [Next]_vars PROVE Counted'
    BY DEF TypeInv
  <1>1. CASE UNCHANGED <<stats, outcome, result>>
    BY <1>1, CountFrame DEF Of, Errors
  <1>2. ASSUME NEW w \in Workers, Flush(w) PROVE Counted'
    <2>1. /\ UNCHANGED <<stats, outcome>> /\ pc[w] = "flush" /\ ResultOK(w)
          /\ UNCHANGED result \/ \E r : result' = [result EXCEPT ![w] = r] /\ r.failed = {}
      BY <1>2 DEF Flush, NoResult, OwnInv, Mine
    <2>2. result[w].failed = {}
      BY <2>1 DEF ResultOK, NoResult
    <2>3. \A v \in Workers : result'[v].failed = result[v].failed
      BY <2>1, <2>2 DEF TypeOK
    <2>4. Errors' = Errors
      BY <2>1, <2>3 DEF Errors
    <2>5. QED
      BY <2>1, <2>4, CountFrame DEF Of
  <1>3. ASSUME NEW w \in Workers,
               Receive(w) \/ ReceiveClosed(w) \/ ReceiveCancelled(w) \/ AfterObject(w)
               \/ BufferAndDelete(w) \/ ExceedMaxDelete(w) \/ RetryDone(w) \/ Forward(w)
               \/ ForwardDone(w) \/ Supervise(w)
        PROVE  UNCHANGED <<stats, outcome, result>>
    BY <1>3 DEF Receive, ReceiveClosed, ReceiveCancelled, AfterObject, BufferAndDelete,
                ExceedMaxDelete, RetryDone, Forward, ForwardDone, Supervise
  <1>4. CASE SendUpstream \/ CloseUpstream \/ Cancel \/ TerminatorReceive \/ Terminated
             \/ (\E o \in Contended : OtherClient(o)) \/ UNCHANGED vars
    BY <1>1, <1>4 DEF SendUpstream, CloseUpstream, Cancel, TerminatorReceive, OtherClient,
                      Terminated
  <1>5. QED
    BY <1>1, <1>2, <1>3, <1>4, CountOutcome, CountRequest, CountRetry, CountReport
    DEF Next, WorkerStep

(* The statistics and the messages agree with what became of the objects: one     *)
(* completion per deleted key, one failure and one DeleteError per failed key     *)
(* whether SingleDeleter, BatchDeleter or its fallback met the failure, one       *)
(* DeleteError per stop at --max-delete, one skip per filtered object.            *)
THEOREM CountsMatch == Spec => []StatsAgree
  <1> DEFINE Inv == TypeInv /\ OwnInv /\ Counted
  <1>1. Init => Inv
    <2> SUFFICES ASSUME Init PROVE Counted
      BY TypeInit, OwnInit
    <2>1. Of("deleted") = {} /\ Of("failed") = {} /\ Of("skipped") = {} /\ Errors = {}
      BY DEF Init, Of, Errors, NoResult
    <2>2. stats.complete = 0 /\ stats.failed = 0 /\ stats.skip = 0 /\ stats.error = 0
      BY DEF Init
    <2>3. QED
      BY <2>1, <2>2, FS_EmptySet DEF Counted
  <1>2. Inv /\ [Next]_vars => Inv'
    BY TypeNext, OwnNext, CountNext
  <1>3. Inv => StatsAgree
    <2> SUFFICES ASSUME TypeOK, OwnInv, Counted, AllDone
                 PROVE  /\ stats.complete = With("deleted")
                        /\ stats.failed = With("failed")
                        /\ stats.error = With("failed") + With("stopped")
                        /\ stats.skip = With("skipped")
      BY DEF StatsAgree, TypeInv
    <2>1. Errors = Of("failed") \cup Of("stopped")
      <3>1. \A w \in Workers : result[w].failed = {}
        BY DEF OwnInv, Mine, ResultOK, NoResult, AllDone
      <3>2. QED
        BY <3>1 DEF Errors, Of
    <2>2. Cardinality(Errors) = Cardinality(Of("failed")) + Cardinality(Of("stopped"))
      BY <2>1, Grow DEF Of
    <2>3. QED
      BY <2>2 DEF Counted, With, Of
  <1>4. QED
    BY <1>1, <1>2, <1>3, PTL DEF Spec

-----------------------------------------------------------------------------
(* Refinement. Deletion counts admissions and not attempts, so the shared counter *)
(* has to be related to the admitted objects exactly, not only bounded by them.   *)

(* Every count up to the limit admitted an object, and no later one did. *)
LimitUsed ==
    config.max_delete # None =>
        Cardinality(admitted) =
            IF delete_counter <= config.max_delete THEN delete_counter ELSE config.max_delete

(* A worker that is going to stop found the limit used up. *)
StopOK(w) ==
    pc[w] = "stop" \/ (pc[w] \in Flushing /\ returnTo[w] = "stop") =>
        config.max_delete # None /\ delete_counter > config.max_delete

(* The outcomes that admission leads to are the ones requests have. *)
AdmittedFate ==
    \A o \in Objects :
        /\ o \in admitted => outcome[o] \notin {"skipped", "stopped"}
        /\ outcome[o] \in {"deleted", "failed", "unknown"} => o \in admitted

LimitInv == LimitUsed /\ \A w \in Workers : StopOK(w)

LEMMA LimitNext == TypeInv /\ OwnInv /\ LimitInv /\ [Next]_vars => LimitInv'
  <1> SUFFICES ASSUME TypeInv, TypeOK, OwnInv, LimitInv, [Next]_vars PROVE LimitInv'
    BY DEF TypeInv
  <1>0. /\ delete_counter \in Nat /\ config.max_delete \in Nat \cup {None} /\ None \notin Nat
        /\ Cardinality(admitted) \in Nat /\ IsFiniteSet(admitted)
    BY ConfigTypes, CardinalityOfObjects, ObjectDeleterAssumption DEF TypeOK
  <1>1. ASSUME NEW w \in Workers, BufferAndDelete(w) PROVE LimitInv'
    <2>1. /\ admitted' = admitted \cup {cur[w]} /\ delete_counter' = delete_counter + 1
          /\ config.max_delete # None => delete_counter + 1 <= config.max_delete
          /\ config' = config /\ returnTo'[w] = "next" /\ pc'[w] # "stop"
      BY <1>1 DEF BufferAndDelete, WithinMaxDelete, TypeOK
    <2>2. Cardinality(admitted') = Cardinality(admitted) + 1
      BY <1>0, <2>1, FS_AddElement DEF OwnInv, Mine, CurrentOK
    <2>3. LimitUsed'
      BY <1>0, <2>1, <2>2 DEF LimitInv, LimitUsed
    <2>4. \A v \in Workers \ {w} : StopOK(v)'
      BY <1>0, <1>1, <2>1, StepOthers DEF Others, LimitInv, StopOK, WorkerStep
    <2>5. StopOK(w)'
      BY <2>1 DEF StopOK
    <2>6. QED
      BY <2>3, <2>4, <2>5 DEF LimitInv
  <1>2. ASSUME NEW w \in Workers, ExceedMaxDelete(w) PROVE LimitInv'
    <2>1. /\ admitted' = admitted /\ delete_counter' = delete_counter + 1 /\ config' = config
          /\ config.max_delete # None /\ ~(delete_counter + 1 <= config.max_delete)
      BY <1>2 DEF ExceedMaxDelete, WithinMaxDelete
    <2>2. LimitUsed'
      BY <1>0, <2>1 DEF LimitInv, LimitUsed
    <2>3. \A v \in Workers : StopOK(v)'
      BY <1>0, <2>1 DEF StopOK
    <2>4. QED
      BY <2>2, <2>3 DEF LimitInv
  <1>3. ASSUME NEW w \in Workers, WorkerStep(w), ~BufferAndDelete(w), ~ExceedMaxDelete(w)
        PROVE  LimitInv'
    <2>1. UNCHANGED <<config, admitted, delete_counter>>
      <3>1. CASE Receive(w) \/ ReceiveClosed(w) \/ ReceiveCancelled(w) \/ AfterObject(w)
                 \/ ApplyHeadObjectFilters(w) \/ ApplyTagFilters(w) \/ StopAtMaxDelete(w)
        BY <3>1 DEF Receive, ReceiveClosed, ReceiveCancelled, AfterObject,
                    ApplyHeadObjectFilters, ApplyTagFilters, AttributeFilters, StopAtMaxDelete
      <3>2. CASE Flush(w) \/ SingleDelete(w) \/ BatchDelete(w) \/ BatchDeleteError(w) \/ Retry(w)
        BY <3>2 DEF Flush, SingleDelete, BatchDelete, BatchDeleteError, Retry
      <3>3. CASE RetryDone(w) \/ Report(w) \/ Forward(w) \/ ForwardDone(w) \/ Supervise(w)
        BY <3>3 DEF RetryDone, Report, Forward, ForwardDone, Supervise
      <3>4. QED
        BY <1>3, <3>1, <3>2, <3>3 DEF WorkerStep
    <2>2. \/ pc'[w] \notin Flushing \cup {"stop"}
          \/ returnTo'[w] = "done"
          \/ pc[w] \in Flushing /\ returnTo'[w] = returnTo[w] /\ pc'[w] \in Flushing \cup {returnTo[w]}
      <3>1. CASE Receive(w) \/ ReceiveClosed(w) \/ ReceiveCancelled(w) \/ AfterObject(w)
        BY <3>1 DEF Receive, ReceiveClosed, ReceiveCancelled, AfterObject, TypeOK, Flushing
      <3>2. CASE ApplyHeadObjectFilters(w) \/ ApplyTagFilters(w)
        <4>1. \E x \in {"tag", "count", "next", "failed"} : pc' = [pc EXCEPT ![w] = x]
          BY <3>2 DEF ApplyHeadObjectFilters, ApplyTagFilters, AttributeFilters, FilterPass,
                      FilterSkip, FilterFail
        <4>2. QED
          BY <4>1 DEF TypeOK, Flushing
      <3>3. CASE StopAtMaxDelete(w) \/ BatchDeleteError(w) \/ Supervise(w)
        BY <3>3 DEF StopAtMaxDelete, BatchDeleteError, Supervise, TypeOK, Flushing
      <3>4. CASE Flush(w)
        BY <3>4 DEF Flush, TypeOK, Flushing
      <3>5. CASE SingleDelete(w) \/ BatchDelete(w) \/ Retry(w) \/ RetryDone(w)
        <4>1. returnTo' = returnTo /\ pc[w] \in Flushing
          BY <3>5 DEF SingleDelete, BatchDelete, Retry, RetryDone, Flushing
        <4>2. pc'[w] \in Flushing
          BY <3>5 DEF SingleDelete, BatchDelete, Retry, RetryDone, TypeOK, Flushing
        <4>3. QED
          BY <4>1, <4>2
      <3>6. CASE Report(w) \/ Forward(w) \/ ForwardDone(w)
        BY <3>6 DEF Report, Forward, ForwardDone, TypeOK, Flushing
      <3>7. QED
        BY <1>3, <3>1, <3>2, <3>3, <3>4, <3>5, <3>6 DEF WorkerStep
    <2>3. StopOK(w)'
      <3>1. "stop" \notin Flushing
        BY DEF Flushing
      <3>2. pc'[w] = "stop" => returnTo'[w] = "stop"
        BY <1>3, OwnNext, TypeNext DEF OwnInv, Mine, CurrentOK
      <3>3. QED
        BY <2>1, <2>2, <3>1, <3>2 DEF LimitInv, StopOK
    <2>4. \A v \in Workers \ {w} : StopOK(v)'
      BY <1>3, <2>1, StepOthers DEF Others, LimitInv, StopOK
    <2>5. QED
      BY <2>1, <2>3, <2>4 DEF LimitInv, LimitUsed
  <1>4. CASE UNCHANGED <<config, admitted, delete_counter, pc, returnTo>>
    BY <1>4 DEF LimitInv, LimitUsed, StopOK
  <1>5. QED
    BY <1>1, <1>2, <1>3, <1>4 DEF Next, SendUpstream, CloseUpstream, Cancel, TerminatorReceive,
                                  OtherClient, Terminated

LEMMA FateNext ==
    ASSUME TypeOK, OwnInv, AdmittedOnly, AdmittedFate, [Next]_vars
    PROVE  AdmittedFate'
  <1>1. CASE UNCHANGED <<admitted, outcome>>
    BY <1>1 DEF AdmittedFate
  <1>2. ASSUME NEW w \in Workers,
               ApplyHeadObjectFilters(w) \/ ApplyTagFilters(w) \/ StopAtMaxDelete(w)
        PROVE  AdmittedFate'
    <2>1. /\ UNCHANGED admitted /\ cur[w] \notin admitted
          /\ \A o \in Objects : outcome'[o] = outcome[o]
                \/ (o = cur[w] /\ outcome'[o] \in {"skipped", "stopped"})
      <3>1. cur[w] \notin admitted
        BY DEF OwnInv, Mine, CurrentOK
      <3>2. /\ UNCHANGED admitted
            /\ outcome' = outcome \/ \E x \in {"skipped", "stopped"} :
                                         outcome' = [outcome EXCEPT ![cur[w]] = x]
        BY <1>2 DEF ApplyHeadObjectFilters, ApplyTagFilters, AttributeFilters, FilterPass,
                    FilterSkip, FilterFail, StopAtMaxDelete
      <3>3. QED
        BY <3>1, <3>2 DEF TypeOK
    <2>2. QED
      BY <2>1 DEF AdmittedFate
  <1>3. ASSUME NEW w \in Workers, BufferAndDelete(w)
        PROVE  AdmittedFate'
    <2>1. /\ admitted' = admitted \cup {cur[w]} /\ outcome' = outcome /\ outcome[cur[w]] = "pending"
      BY <1>3 DEF BufferAndDelete, OwnInv, Mine, CurrentOK
    <2>2. QED
      BY <2>1 DEF AdmittedFate
  <1>4. ASSUME NEW w \in Workers, BatchDeleteError(w) \/ Report(w)
        PROVE  AdmittedFate'
    <2>1. /\ UNCHANGED admitted /\ batch[w] \subseteq admitted
          /\ \A o \in Objects : outcome'[o] = outcome[o]
                \/ (o \in batch[w] /\ outcome'[o] \in {"deleted", "failed", "unknown"})
      <3>1. UNCHANGED admitted /\ batch[w] \subseteq admitted
        BY <1>4 DEF BatchDeleteError, Report, AdmittedOnly, Held
      <3>2. CASE BatchDeleteError(w)
        BY <3>1, <3>2 DEF BatchDeleteError
      <3>3. CASE Report(w)
        BY <3>1, <3>3, Reported
      <3>4. QED
        BY <1>4, <3>2, <3>3
    <2>2. QED
      BY <2>1 DEF AdmittedFate
  <1>5. ASSUME NEW w \in Workers,
               Receive(w) \/ ReceiveClosed(w) \/ ReceiveCancelled(w) \/ AfterObject(w)
               \/ ExceedMaxDelete(w) \/ Flush(w) \/ SingleDelete(w)
               \/ BatchDelete(w) \/ Retry(w) \/ RetryDone(w) \/ Forward(w) \/ ForwardDone(w)
               \/ Supervise(w)
        PROVE  UNCHANGED <<admitted, outcome>>
    BY <1>5 DEF Receive, ReceiveClosed, ReceiveCancelled, AfterObject, ExceedMaxDelete, Flush,
                SingleDelete, BatchDelete, Retry, RetryDone, Forward, ForwardDone, Supervise
  <1>6. CASE SendUpstream \/ CloseUpstream \/ Cancel \/ TerminatorReceive \/ Terminated
             \/ (\E x \in Contended : OtherClient(x)) \/ UNCHANGED vars
    BY <1>1, <1>6 DEF SendUpstream, CloseUpstream, Cancel, TerminatorReceive, OtherClient,
                      Terminated
  <1>7. QED
    BY <1>1, <1>2, <1>3, <1>4, <1>5, <1>6 DEF Next, WorkerStep

(* The fate of an object, without the CASE of the refinement mapping. *)
Requested(o) == \E w \in Workers : o \in batch[w]

LEMMA FateIs ==
    ASSUME NEW o
    PROVE  /\ FateOf(o) = IF outcome[o] # "pending" THEN outcome[o]
                          ELSE IF Requested(o) THEN "requested"
                          ELSE IF o \in admitted THEN "admitted" ELSE "pending"
           /\ FateOf(o)' = IF outcome'[o] # "pending" THEN outcome'[o]
                           ELSE IF Requested(o)' THEN "requested"
                           ELSE IF o \in admitted' THEN "admitted" ELSE "pending"
  BY DEF FateOf, Requested

RefineInv == TypeInv /\ OwnInv /\ AdmittedOnly /\ AdmissionCounted /\ TruthInv /\ LimitInv /\ AdmittedFate

(* Deletion counts with the same Cardinality. *)
LEMMA SameCardinality == \A S : Abstract!Cardinality(S) = Cardinality(S)
  BY DEF Abstract!Cardinality, Cardinality

(* What Deletion calls admitted is what check_max_delete let through. *)
LEMMA AbstractAdmitted == RefineInv => Abstract!Admitted = admitted
  <1> SUFFICES ASSUME RefineInv PROVE Abstract!Admitted = admitted
    OBVIOUS
  <1>1. admitted \subseteq Objects /\ outcome \in [Objects -> Outcome]
    BY DEF RefineInv, TypeInv, TypeOK
  <1>2. ASSUME NEW o \in Objects
        PROVE  FateOf(o) \in {"admitted", "requested", "deleted", "failed", "unknown"} <=> o \in admitted
    <2>1. Requested(o) => o \in admitted
      BY DEF RefineInv, AdmittedOnly, Held, Requested
    <2>2. QED
      BY <1>1, <2>1, FateIs DEF RefineInv, AdmittedFate, Outcome
  <1>3. QED
    BY <1>1, <1>2 DEF Abstract!Admitted, Abstract!With

(* Objects change their fate together, or not at all. *)
LEMMA Becomes ==
    ASSUME NEW S, NEW f, \A o \in Objects : FateOf(o)' = IF o \in S THEN f ELSE FateOf(o)
    PROVE  Abstract!Become(S, f)
  BY DEF Abstract!Become

LEMMA FateKept ==
    ASSUME \A o \in Objects : FateOf(o)' = FateOf(o)
    PROVE  UNCHANGED [o \in Objects |-> FateOf(o)]
  OBVIOUS

LEMMA Stutters ==
    ASSUME UNCHANGED <<config, bucket, cancelled>>, \A o \in Objects : FateOf(o)' = FateOf(o)
    PROVE  UNCHANGED Abstract!vars
  BY FateKept DEF Abstract!vars

LEMMA RefineInit == Init => Abstract!Init
  <1> SUFFICES ASSUME Init PROVE Abstract!Init
    OBVIOUS
  <1>1. /\ config.max_delete \in Nat \cup {None} /\ config.if_match \in BOOLEAN
        /\ config.dry_run \in BOOLEAN
    BY TypeInit, ConfigTypes DEF TypeInv
  <1>2. \A o \in Objects : FateOf(o) = "pending"
    BY FateIs DEF Init, Requested
  <1>3. QED
    BY <1>1, <1>2 DEF Init, Abstract!Init

AbstractStep == Abstract!Next \/ UNCHANGED Abstract!vars

(* Steps Deletion does not see, or sees as a cancellation. *)
LEMMA RefineStutter ==
    ASSUME TypeOK, UNCHANGED <<config, bucket, outcome, batch, admitted>>,
           cancelled' = cancelled \/ cancelled' = TRUE
    PROVE  AbstractStep
  <1>1. \A o \in Objects : FateOf(o)' = FateOf(o)
    BY FateIs DEF Requested
  <1>2. CASE cancelled' = cancelled
    BY <1>1, <1>2, Stutters DEF AbstractStep
  <1>3. CASE cancelled' = TRUE /\ ~cancelled
    <2>1. Abstract!Cancel
      BY <1>1, <1>3, FateKept DEF Abstract!Cancel, Abstract!options
    <2>2. QED
      BY <2>1 DEF AbstractStep, Abstract!Next
  <1>4. cancelled \in BOOLEAN
    BY DEF TypeOK
  <1>5. QED
    BY <1>2, <1>3, <1>4

LEMMA RefineOtherClient ==
    ASSUME TypeOK, NEW c \in Contended, OtherClient(c)
    PROVE  AbstractStep
  <1>1. /\ UNCHANGED <<config, cancelled, outcome, batch, admitted>>
        /\ \E s \in {"changed", "rewritten", "gone"} : bucket' = [bucket EXCEPT ![c] = s]
    BY DEF OtherClient
  <1>2. \A o \in Objects : FateOf(o)' = FateOf(o)
    BY <1>1, FateIs DEF Requested
  <1>3. Abstract!OtherClient(c)
    BY <1>1, <1>2, FateKept DEF Abstract!OtherClient, Abstract!options
  <1>4. QED
    BY <1>3 DEF AbstractStep, Abstract!Next

(* The object in process_object is pending in Deletion too. *)
LEMMA CurrentPending ==
    ASSUME RefineInv, NEW w \in Workers, pc[w] \in {"head", "tag", "count", "stop"}
    PROVE  /\ cur[w] \in Objects /\ outcome[cur[w]] = "pending" /\ cur[w] \notin admitted
           /\ ~Requested(cur[w]) /\ FateOf(cur[w]) = "pending"
  <1>1. CurrentOK(w) /\ BatchOK(w) /\ Apart
    BY DEF RefineInv, OwnInv, Mine
  <1>2. cur[w] \in Objects /\ outcome[cur[w]] = "pending" /\ cur[w] \notin admitted
    BY <1>1 DEF CurrentOK
  <1>3. ~Requested(cur[w])
    BY <1>1, <1>2 DEF Requested, Apart, BatchOK, Has
  <1>4. QED
    BY <1>2, <1>3, FateIs

LEMMA RefineFilter ==
    ASSUME RefineInv, NEW w \in Workers, ApplyHeadObjectFilters(w) \/ ApplyTagFilters(w)
    PROVE  AbstractStep
  <1>0. TypeOK /\ pc[w] \in {"head", "tag"} /\ UNCHANGED <<config, bucket, batch, admitted>>
    BY DEF RefineInv, TypeInv, ApplyHeadObjectFilters, ApplyTagFilters, AttributeFilters
  <1>1. CASE FilterSkip(w)
    <2>1. outcome' = [outcome EXCEPT ![cur[w]] = "skipped"] /\ UNCHANGED cancelled
      BY <1>1 DEF FilterSkip
    <2>2. \A o \in Objects : FateOf(o)' = IF o \in {cur[w]} THEN "skipped" ELSE FateOf(o)
      BY <1>0, <2>1, FateIs DEF Requested, TypeOK
    <2>3. Abstract!Skip(cur[w])
      BY <1>0, <2>1, <2>2, Becomes, CurrentPending DEF Abstract!Skip, Abstract!options
    <2>4. QED
      BY <1>0, <2>3, CurrentPending DEF AbstractStep, Abstract!Next
  <1>2. CASE UNCHANGED outcome /\ (cancelled' = cancelled \/ cancelled' = TRUE)
    BY <1>0, <1>2, RefineStutter
  <1>3. QED
    BY <1>1, <1>2 DEF ApplyHeadObjectFilters, ApplyTagFilters, AttributeFilters, FilterPass,
                      FilterFail

LEMMA RefineAdmit ==
    ASSUME RefineInv, NEW w \in Workers, BufferAndDelete(w) \/ StopAtMaxDelete(w)
    PROVE  AbstractStep
  <1>0. /\ TypeOK /\ pc[w] \in {"count", "stop"} /\ UNCHANGED <<config, bucket, batch>>
        /\ delete_counter \in Nat /\ config.max_delete \in Nat \cup {None} /\ None \notin Nat
        /\ Cardinality(admitted) \in Nat
    BY ConfigTypes, CardinalityOfObjects, ObjectDeleterAssumption
    DEF RefineInv, TypeInv, TypeOK, BufferAndDelete, StopAtMaxDelete
  <1>1. /\ cur[w] \in Objects /\ outcome[cur[w]] = "pending" /\ cur[w] \notin admitted
        /\ ~Requested(cur[w]) /\ FateOf(cur[w]) = "pending"
    BY <1>0, CurrentPending
  <1>2. CASE BufferAndDelete(w)
    <2>1. /\ outcome' = outcome /\ cancelled' = cancelled /\ admitted' = admitted \cup {cur[w]}
          /\ config.max_delete # None => delete_counter + 1 <= config.max_delete
      BY <1>2 DEF BufferAndDelete, WithinMaxDelete
    <2>2. \A o \in Objects : FateOf(o)' = IF o \in {cur[w]} THEN "admitted" ELSE FateOf(o)
      BY <1>0, <1>1, <2>1, FateIs DEF Requested
    <2>3. config.max_delete # None => Cardinality(Abstract!Admitted) < config.max_delete
      BY <1>0, <2>1, AbstractAdmitted DEF RefineInv, AdmissionCounted
    <2>4. Abstract!Admit(cur[w])
      <3>1. Abstract!Become({cur[w]}, "admitted") /\ UNCHANGED <<Abstract!options, bucket, cancelled>>
        BY <1>0, <2>1, <2>2, Becomes DEF Abstract!options
      <3>2. QED
        BY <1>1, <2>3, <3>1, SameCardinality DEF Abstract!Admit
    <2>5. QED
      BY <1>1, <2>4 DEF AbstractStep, Abstract!Next
  <1>3. CASE StopAtMaxDelete(w)
    <2>1. /\ outcome' = [outcome EXCEPT ![cur[w]] = "stopped"] /\ cancelled' = TRUE
          /\ admitted' = admitted /\ pc[w] = "stop"
      BY <1>3 DEF StopAtMaxDelete, CancelledAtLimit
    <2>2. \A o \in Objects : FateOf(o)' = IF o \in {cur[w]} THEN "stopped" ELSE FateOf(o)
      BY <1>0, <2>1, FateIs DEF Requested, TypeOK
    <2>3. config.max_delete # None /\ delete_counter > config.max_delete
      BY <2>1 DEF RefineInv, LimitInv, StopOK
    <2>4. Cardinality(Abstract!Admitted) >= config.max_delete
      BY <1>0, <2>3, AbstractAdmitted DEF RefineInv, LimitInv, LimitUsed
    <2>5. Abstract!Stop(cur[w])
      <3>1. Abstract!Become({cur[w]}, "stopped") /\ UNCHANGED <<Abstract!options, bucket>>
        BY <1>0, <2>2, Becomes DEF Abstract!options
      <3>2. QED
        BY <1>1, <2>1, <2>3, <2>4, <3>1, SameCardinality DEF Abstract!Stop
    <2>6. QED
      BY <1>1, <2>5 DEF AbstractStep, Abstract!Next
  <1>4. QED
    BY <1>2, <1>3

(* Taking a batch is a request. *)
LEMMA RefineFlush ==
    ASSUME RefineInv, NEW w \in Workers, Flush(w)
    PROVE  AbstractStep
  <1>0. /\ TypeOK /\ pc[w] = "flush"
        /\ UNCHANGED <<config, bucket, outcome, admitted, cancelled>>
    BY DEF RefineInv, TypeInv, Flush
  <1>1. CASE NothingToFlush(w)
    BY <1>0, <1>1, RefineStutter DEF Flush
  <1>2. CASE ~NothingToFlush(w)
    <2>1. /\ ~cancelled /\ buffer[w] # {} /\ buffer[w] \subseteq Objects
          /\ batch' = [batch EXCEPT ![w] = buffer[w]]
      BY <1>0, <1>2 DEF Flush, NothingToFlush, TypeOK
    <2>2. batch[w] = {} /\ Apart /\ \A o \in buffer[w] : o \in admitted /\ outcome[o] = "pending"
      BY <1>0 DEF RefineInv, OwnInv, Mine, BatchOK, AdmittedOnly, Held
    <2>3. \A o \in buffer[w] : ~Requested(o)
      BY <2>1, <2>2 DEF Requested, Apart, Has
    <2>4. \A o \in Objects : Requested(o)' <=> (Requested(o) \/ o \in buffer[w])
      BY <1>0, <2>1, <2>2 DEF Requested, TypeOK
    <2>5. \A o \in Objects : FateOf(o)' = IF o \in buffer[w] THEN "requested" ELSE FateOf(o)
      BY <1>0, <2>2, <2>4, FateIs
    <2>6. buffer[w] \subseteq Abstract!With({"admitted"})
      BY <2>1, <2>2, <2>3, FateIs DEF Abstract!With
    <2>7. Abstract!Request(buffer[w])
      BY <1>0, <2>1, <2>5, <2>6, Becomes DEF Abstract!Request, Abstract!options
    <2>8. QED
      BY <2>1, <2>7 DEF AbstractStep, Abstract!Next
  <1>3. QED
    BY <1>1, <1>2

(* An answered request is a Delete of what S3 removed. *)
LEMMA RefineRemove ==
    ASSUME RefineInv, NEW w \in Workers, pc[w] \in {"request", "retry"}, NEW D, Remove(D),
           D \subseteq batch[w], \A o \in D : Accepts(o, IfMatch(o)),
           UNCHANGED <<config, batch, outcome, admitted, cancelled>>
    PROVE  AbstractStep
  <1>0. TypeOK /\ batch[w] \subseteq Objects
    BY DEF RefineInv, TypeInv, TypeOK
  <1>1. \A o \in Objects : FateOf(o)' = FateOf(o)
    BY FateIs DEF Requested
  <1>2. CASE D = {}
    <2>1. bucket' = bucket
      BY <1>0, <1>2 DEF Remove, TypeOK
    <2>2. QED
      BY <1>1, <2>1, Stutters DEF AbstractStep
  <1>3. CASE D # {}
    <2>1. ~config.dry_run /\ \A o \in batch[w] : outcome[o] = "pending"
      BY DEF RefineInv, OwnInv, Mine, BatchOK, ResultOK
    <2>2. \A o \in D : o \in Objects /\ FateOf(o) = "requested"
      BY <1>0, <2>1, FateIs DEF Requested
    <2>3. \A o \in D : Abstract!Removable(o)
      BY <2>1, <2>2 DEF Abstract!Removable, Accepts, IfMatch
    <2>4. Abstract!Removed(D)
      BY DEF Remove, Abstract!Removed
    <2>5. UNCHANGED <<Abstract!options, cancelled, [o \in Objects |-> FateOf(o)]>>
      BY <1>1, FateKept DEF Abstract!options
    <2>6. Abstract!Delete(D)
      BY <1>3, <2>3, <2>4, <2>5 DEF Abstract!Delete
    <2>7. D \in SUBSET Objects
      BY <2>2
    <2>8. QED
      BY <2>6, <2>7 DEF AbstractStep, Abstract!Next
  <1>4. QED
    BY <1>2, <1>3

LEMMA RefineRequest ==
    ASSUME RefineInv, NEW w \in Workers, SingleDelete(w) \/ BatchDelete(w) \/ Retry(w)
    PROVE  AbstractStep
  <1>0. /\ pc[w] \in {"request", "retry"}
        /\ UNCHANGED <<config, batch, outcome, admitted, cancelled>>
    BY DEF SingleDelete, BatchDelete, Retry
  <1>1. \E D \in SUBSET batch[w] : Remove(D) /\ \A o \in D : Accepts(o, IfMatch(o))
    <2>1. CASE SingleDelete(w)
      <3>1. PICK D \in SUBSET {o \in batch[w] : Accepts(o, IfMatch(o))} : Remove(D)
        BY <2>1 DEF SingleDelete
      <3>2. QED
        BY <3>1
    <2>2. CASE BatchDelete(w)
      <3>1. PICK ok \in SUBSET {o \in batch[w] : Accepts(o, IfMatch(o))},
                 late \in SUBSET {o \in batch[w] : Accepts(o, IfMatch(o))} :
               Remove(ok \cup late)
        BY <2>2 DEF BatchDelete
      <3>2. QED
        BY <3>1
    <2>3. CASE Retry(w)
      <3>1. PICK o \in result[w].errors :
               /\ o \in batch[w] /\ o \in Objects
               /\ RetrySucceeds(w, o) \/ RetryFails(w, o)
        BY <2>3, RetryKey DEF RefineInv, TypeInv
      <3>2. PICK D \in SUBSET {x \in {o} : Accepts(x, IfMatch(x))} : Remove(D)
        BY <3>1 DEF RetrySucceeds, RetryFails, FallbackETag, IfMatch
      <3>3. D \in SUBSET batch[w] /\ \A x \in D : Accepts(x, IfMatch(x))
        BY <3>1, <3>2
      <3>4. QED
        BY <3>2, <3>3
    <2>4. QED
      BY <2>1, <2>2, <2>3
  <1>2. QED
    BY <1>0, <1>1, RefineRemove

(* A DeleteObjects call that fails as a whole loses the batch. *)
LEMMA RefineError ==
    ASSUME RefineInv, NEW w \in Workers, BatchDeleteError(w)
    PROVE  AbstractStep
  <1>0. /\ TypeOK /\ pc[w] = "request" /\ UNCHANGED <<config, admitted>> /\ cancelled' = TRUE
        /\ batch[w] \subseteq Objects /\ batch' = [batch EXCEPT ![w] = {}]
        /\ \A o \in Objects : outcome'[o] = IF o \in batch[w] THEN "unknown" ELSE outcome[o]
    BY DEF RefineInv, TypeInv, TypeOK, BatchDeleteError
  <1>1. /\ ~config.dry_run /\ batch[w] # {} /\ \A o \in batch[w] : outcome[o] = "pending"
    BY <1>0 DEF RefineInv, OwnInv, Mine, BatchOK, ResultOK
  <1>2. PICK T \in SUBSET {o \in batch[w] : Accepts(o, IfMatch(o))} : Remove(T)
    BY DEF BatchDeleteError
  <1>3. \A o \in batch[w] : FateOf(o) = "requested"
    BY <1>1, FateIs DEF Requested
  <1>4. \A o \in Objects \ batch[w] : Requested(o)' <=> Requested(o)
    BY <1>0 DEF Requested, TypeOK
  <1>5. \A o \in Objects : FateOf(o)' = IF o \in batch[w] THEN "unknown" ELSE FateOf(o)
    BY <1>0, <1>4, FateIs
  <1>6. Abstract!Become(batch[w], "unknown") /\ Abstract!Removed(T)
    BY <1>2, <1>5, Becomes DEF Remove, Abstract!Removed
  <1>7. \A o \in T : Abstract!Removable(o)
    BY <1>0, <1>1, <1>2, <1>3 DEF Abstract!Removable, Accepts, IfMatch
  <1>8. batch[w] \subseteq Abstract!With({"requested"})
    BY <1>0, <1>3 DEF Abstract!With
  <1>9. UNCHANGED Abstract!options
    BY <1>0 DEF Abstract!options
  <1>10. T \subseteq batch[w]
    BY <1>2
  <1>11. Abstract!Lose(batch[w], T)
    BY <1>0, <1>1, <1>6, <1>7, <1>8, <1>9, <1>10 DEF Abstract!Lose
  <1>12. batch[w] \in SUBSET Objects /\ T \in SUBSET batch[w]
    BY <1>0, <1>10
  <1>13. QED
    BY <1>11, <1>12 DEF AbstractStep, Abstract!Next

(* A report settles the batch. *)
LEMMA RefineReport ==
    ASSUME RefineInv, NEW w \in Workers, Report(w)
    PROVE  AbstractStep
  <1> DEFINE D == result[w].deleted
             F == result[w].failed
  <1>0. TypeOK /\ OwnInv /\ UNCHANGED <<config, bucket, admitted>>
    BY DEF RefineInv, TypeInv, Report
  <1>1. /\ batch[w] = D \cup F /\ D \cap F = {}
        /\ \A o \in Objects : /\ o \in D => outcome'[o] = "deleted"
                              /\ o \in F => outcome'[o] = "failed"
                              /\ o \notin D \cup F => outcome'[o] = outcome[o]
    BY <1>0, Reported
  <1>2. D \in SUBSET Objects /\ F \in SUBSET Objects /\ \A o \in D \cup F : outcome[o] = "pending"
    BY <1>0, InResult
  <1>3. \A o \in Objects \ (D \cup F) : Requested(o)' <=> Requested(o)
    <2>1. /\ \A v \in Workers \ {w} : batch'[v] = batch[v]
          /\ batch'[w] \subseteq D \cup F
      BY <1>0, <1>1 DEF Report, TypeOK
    <2>2. QED
      BY <1>1, <2>1 DEF Requested
  <1>4. \A o \in D : config.dry_run \/ bucket[o] # "listed"
    BY <1>2 DEF RefineInv, TruthInv
  <1>5. cancelled' = cancelled \/ (F # {} /\ cancelled' = TRUE)
    <2>1. cancelled \in BOOLEAN /\ cancelled' = (cancelled \/ (F # {} /\ config.warn_as_error))
      BY <1>0 DEF Report, TypeOK
    <2>2. config.warn_as_error \in BOOLEAN
      BY <1>0, ConfigTypes
    <2>3. QED
      BY <2>1, <2>2
  <1> HIDE DEF D, F
  <1>6. \A o \in D \cup F : FateOf(o) = "requested"
    BY <1>1, <1>2, FateIs DEF Requested
  <1>7. \A o \in Objects : FateOf(o)' = IF o \in D THEN "deleted" ELSE IF o \in F THEN "failed"
                                        ELSE FateOf(o)
    BY <1>0, <1>1, <1>3, FateIs
  <1>8. D \cup F \subseteq Abstract!With({"requested"})
    BY <1>2, <1>6 DEF Abstract!With
  <1>9. Abstract!Settle(D, F)
    BY <1>0, <1>1, <1>4, <1>5, <1>7, <1>8 DEF Abstract!Settle, Abstract!options
  <1>10. QED
    BY <1>2, <1>9 DEF AbstractStep, Abstract!Next

(* What is forwarded has its fate already. *)
LEMMA RefineForward ==
    ASSUME RefineInv, NEW w \in Workers, Forward(w)
    PROVE  AbstractStep
  <1>1. /\ TypeOK /\ pc[w] = "forward"
        /\ UNCHANGED <<config, bucket, outcome, admitted, cancelled>>
    BY DEF RefineInv, TypeInv, Forward
  <1>2. \A o \in batch[w] : outcome[o] # "pending"
    BY <1>1 DEF RefineInv, OwnInv, Mine, BatchOK
  <1>3. \A v \in Workers : /\ batch'[v] \subseteq batch[v]
                           /\ v # w => batch'[v] = batch[v]
    BY <1>1 DEF Forward, TypeOK
  <1>4. \A o \in Objects : FateOf(o)' = FateOf(o)
    BY <1>1, <1>2, <1>3, FateIs DEF Requested
  <1>5. QED
    BY <1>1, <1>4, Stutters DEF AbstractStep

LEMMA RefineNext == RefineInv /\ [Next]_vars => AbstractStep
  <1> SUFFICES ASSUME RefineInv, TypeOK, [Next]_vars PROVE AbstractStep
    BY DEF RefineInv, TypeInv
  <1>1. ASSUME NEW w \in Workers,
               Receive(w) \/ ReceiveClosed(w) \/ ReceiveCancelled(w) \/ AfterObject(w)
               \/ ExceedMaxDelete(w) \/ RetryDone(w) \/ ForwardDone(w) \/ Supervise(w)
        PROVE  AbstractStep
    <2>1. UNCHANGED <<config, bucket, outcome, batch, admitted>>
      BY <1>1 DEF Receive, ReceiveClosed, ReceiveCancelled, AfterObject, ExceedMaxDelete,
                  RetryDone, ForwardDone, Supervise
    <2>2. cancelled' = cancelled \/ cancelled' = TRUE
      BY <1>1 DEF Receive, ReceiveClosed, ReceiveCancelled, AfterObject, ExceedMaxDelete,
                  RetryDone, ForwardDone, Supervise
    <2>3. QED
      BY <2>1, <2>2, RefineStutter
  <1>2. CASE SendUpstream \/ CloseUpstream \/ Cancel \/ TerminatorReceive \/ Terminated
             \/ UNCHANGED vars
    <2>1. UNCHANGED <<config, bucket, outcome, batch, admitted>>
      BY <1>2 DEF SendUpstream, CloseUpstream, Cancel, TerminatorReceive, Terminated
    <2>2. cancelled' = cancelled \/ cancelled' = TRUE
      BY <1>2 DEF SendUpstream, CloseUpstream, Cancel, TerminatorReceive, Terminated
    <2>3. QED
      BY <2>1, <2>2, RefineStutter
  <1>3. QED
    BY <1>1, <1>2, RefineOtherClient, RefineFilter, RefineAdmit, RefineFlush, RefineRequest,
       RefineError, RefineReport, RefineForward
    DEF Next, WorkerStep

(* ObjectDeleter implements Deletion: whatever its workers, batches, fallback     *)
(* attempts, cancellations and channels do, each step either leaves the fates,    *)
(* the bucket and the token as they are or is one of Deletion's steps; so an      *)
(* object is admitted only under the limit, requested only before a cancellation, *)
(* removed only while requested, and settled once.                                *)
THEOREM Implements == Spec => ImplementsDeletion
  <1>1. Init => RefineInv
    <2> SUFFICES ASSUME Init PROVE RefineInv
      OBVIOUS
    <2>1. TruthInv
      BY DEF Init, TruthInv, NoResult
    <2>2. Cardinality(admitted) = 0 /\ config.max_delete \in Nat \cup {None} /\ delete_counter = 0
      BY FS_EmptySet, TypeInit, ConfigTypes DEF Init, TypeInv
    <2>3. LimitInv
      <3>1. LimitUsed
        BY <2>2 DEF LimitUsed
      <3>2. \A w \in Workers : StopOK(w)
        BY DEF Init, StopOK, Flushing
      <3>3. QED
        BY <3>1, <3>2 DEF LimitInv
    <2>4. AdmittedFate
      BY DEF Init, AdmittedFate
    <2>5. QED
      BY <2>1, <2>3, <2>4, TypeInit, OwnInit, CapInit DEF RefineInv
  <1>2. RefineInv /\ [Next]_vars => RefineInv'
    BY TypeNext, OwnNext, AdmittedNext, CountedNext, TruthNext, LimitNext, FateNext
    DEF RefineInv, TypeInv
  <1>3. RefineInv /\ [Next]_vars => [Abstract!Next]_(Abstract!vars)
    BY RefineNext DEF AbstractStep
  <1>4. QED
    BY <1>1, <1>2, <1>3, RefineInit, PTL DEF Spec, ImplementsDeletion, Abstract!Spec

=============================================================================
