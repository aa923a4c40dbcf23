----------------------------- MODULE Reporting ------------------------------
(* What a run says about itself while and after it deletes: the atomic counters   *)
(* of DeletionStatsReport, the statistics channel with the progress indicator at  *)
(* its other end, and the EventManager with the registered callback. Delete       *)
(* workers and a filter stage report the outcomes of their objects concurrently;  *)
(* run() reports its own beginning and end.                                       *)
(*                                                                                *)
(* Every actor executes a sequence of small operations, each of them atomic in    *)
(* the program: one fetch_add, one send, one critical section of the statistics   *)
(* mutex, entering and leaving the callback mutex. The callback itself is         *)
(* external: it returns, after any time.                                          *)
EXTENDS Integers, Sequences, FiniteSets

CONSTANTS
    Workers,      \* delete workers
    Filter,       \* the filter stage
    Run,          \* run() itself
    Cases         \* the runs considered

Nobody == "nobody"
Reporters == Workers \cup {Filter}
Actors == Reporters \cup {Run}

Zero == [deleted |-> 0, bytes |-> 0, failed |-> 0, skipped |-> 0, errors |-> 0]
Counters == [deleted : Nat, bytes : Nat, failed : Nat, skipped : Nat, errors : Nat]
Outcome == [kind : {"deleted", "failed", "skipped", "missing", "error"}, size : Nat]

ASSUME ReportingAssumption ==
    /\ IsFiniteSet(Workers) /\ Run \notin Reporters /\ Nobody \notin Actors
    /\ \A c \in Cases :
          /\ DOMAIN c = {"outcomes", "registered", "flags", "user_filter", "closed_early",
                         "prerequisites", "carried"}
          /\ c.outcomes \in [Reporters -> Seq(Outcome)]
          /\ {c.registered, c.user_filter, c.closed_early, c.prerequisites} \subseteq BOOLEAN
          /\ c.carried \in Counters

VARIABLES
    case,         \* the run; never changes
    todo,         \* what is left to do of the operations an actor has begun
    left,         \* outcomes a reporter has still to report
    pc,           \* where run() is
    report,       \* DeletionStatsReport
    channel, closed,        \* statistics channel
    indicator, total,       \* the indicator task and its totals
    pipeline_stats,         \* EventManager::pipeline_stats
    cloned,                 \* the copy of it that trigger_event takes for STATS_REPORT
    holder,                 \* who holds the callback mutex
    delivered,              \* the events the callback has received
    cancelled, has_error,
    sent,                   \* history: the messages the channel accepted
    raced                   \* history: the channel was closed after the indicator's last look
                            \* into it and before its question whether it is

vars == <<case, todo, left, pc, report, channel, closed, indicator, total, pipeline_stats, cloned,
          holder, delivered, cancelled, has_error, sent, raced>>

Plus(c, f, n) == [c EXCEPT ![f] = @ + n]

Init ==
    /\ case \in Cases
    /\ todo = [a \in Actors |-> <<>>]
    /\ left = [r \in Reporters |-> <<>>]
    /\ pc = "start"
    /\ report = Zero
    /\ channel = <<>> /\ closed = case.closed_early
    /\ indicator = "drain" /\ total = Zero
    /\ pipeline_stats = case.carried /\ cloned = Zero
    /\ holder = Nobody /\ delivered = <<>>
    /\ cancelled = FALSE /\ has_error = FALSE
    /\ sent = <<>> /\ raced = FALSE

-----------------------------------------------------------------------------
(* The operations reports are made of. *)

Op(do, what, n) == [do |-> do, what |-> what, n |-> n]
Subscribed(e) == case.registered /\ e \in case.flags

Dispatch(e) == IF Subscribed(e) THEN <<Op("enter", e, 0), Op("leave", e, 0)>> ELSE <<>>

(* Faulty: the statistics are reported before the end they belong to. *)
ReportBeforeEnd(e, n) ==
    <<Op("update", e, n)>>
        \o (IF e = "PIPELINE_END" /\ Subscribed("STATS_REPORT")
            THEN <<Op("clone", e, 0)>> \o Dispatch("STATS_REPORT") ELSE <<>>)
        \o Dispatch(e)
TriggerEvent(e, n) ==
    <<Op("update", e, n)>> \o Dispatch(e)
        \o (IF e = "PIPELINE_END" /\ Subscribed("STATS_REPORT")
            THEN <<Op("clone", e, 0)>> \o Dispatch("STATS_REPORT") ELSE <<>>)

IfRegistered(ops) == IF case.registered THEN ops ELSE <<>>

IncrementDeleted(n) == <<Op("fetch_add", "deleted", 1), Op("fetch_add", "bytes", n)>>

(* The report of one deleted object. *)
ReportDeleted(n) ==
    IncrementDeleted(n)
        \o <<Op("send", "deleted", 1), Op("send", "bytes", n)>>
        \o TriggerEvent("DELETE_COMPLETE", n)
(* The deleter has sent DeleteError before the worker reports the failure. *)
ReportFailed ==
    <<Op("send", "failed", 1), Op("fetch_add", "failed", 1)>> \o TriggerEvent("DELETE_FAILED", 0)
(* A built-in filter sends the statistic first, the user-defined one the event. *)
ReportSkipped ==
    LET event == IfRegistered(TriggerEvent("DELETE_FILTERED", 0))
        statistic == <<Op("send", "skipped", 1)>>
    IN  IF case.user_filter THEN event \o statistic ELSE statistic \o event
(* The object is gone when HeadObject or GetObjectTagging asks for it: the worker *)
(* skips it with a statistic and without an event.                                *)
ReportMissing == <<Op("send", "skipped", 1)>>
(* A user-defined filter that fails: its supervisor records the error later. *)
ReportFilterError ==
    IfRegistered(TriggerEvent("PIPELINE_ERROR", 0))
        \o <<Op("cancel", "", 0), Op("record_error", "", 0)>>

ReportOf(o) ==
    CASE o.kind = "deleted" -> ReportDeleted(o.size)
      [] o.kind = "failed" -> ReportFailed
      [] o.kind = "skipped" -> ReportSkipped
      [] o.kind = "missing" -> ReportMissing
      [] o.kind = "error" -> ReportFilterError

-----------------------------------------------------------------------------
(* Executing them. *)

(* What an event adds to the accumulated statistics. *)
UpdatePipelineStats(s, e, n) ==
    CASE e = "DELETE_COMPLETE" -> Plus(Plus(s, "deleted", 1), "bytes", n)
      [] e = "DELETE_FAILED" -> Plus(s, "failed", 1)
      [] e = "DELETE_FILTERED" -> Plus(s, "skipped", 1)
      [] e = "PIPELINE_ERROR" -> Plus(s, "errors", 1)
      [] OTHER -> s

Doing(a, do) == todo[a] # <<>> /\ Head(todo[a]).do = do
Done(a) == todo' = [todo EXCEPT ![a] = Tail(@)]

FetchAdd(a) ==
    /\ Doing(a, "fetch_add")
    /\ report' = Plus(report, Head(todo[a]).what, Head(todo[a]).n)
    /\ Done(a)
    /\ UNCHANGED <<case, left, pc, channel, closed, indicator, total, pipeline_stats, cloned, holder,
                   delivered, cancelled, has_error, sent, raced>>

(* A closed channel refuses the message, which nobody notices. *)
SendStats(a) ==
    /\ Doing(a, "send")
    /\ LET m == Head(todo[a])
       IN  IF closed THEN UNCHANGED <<channel, sent>>
           ELSE channel' = Append(channel, m) /\ sent' = Append(sent, m)
    /\ Done(a)
    /\ UNCHANGED <<case, left, pc, report, closed, indicator, total, pipeline_stats, cloned, holder,
                   delivered, cancelled, has_error, raced>>

Update(a) ==
    /\ Doing(a, "update")
    /\ pipeline_stats' = UpdatePipelineStats(pipeline_stats, Head(todo[a]).what, Head(todo[a]).n)
    /\ Done(a)
    /\ UNCHANGED <<case, left, pc, report, channel, closed, indicator, total, cloned, holder,
                   delivered, cancelled, has_error, sent, raced>>

(* callback.lock().await.on_event(..) begins, *)
EnterCallback(a) ==
    /\ Doing(a, "enter") /\ holder = Nobody
    /\ holder' = a
    /\ LET e == Head(todo[a]).what
       IN  delivered' = Append(delivered, [event |-> e, stats |-> IF e = "STATS_REPORT" THEN cloned ELSE Zero])
    /\ Done(a)
    /\ UNCHANGED <<case, left, pc, report, channel, closed, indicator, total, pipeline_stats, cloned,
                   cancelled, has_error, sent, raced>>
(* and ends. *)
LeaveCallback(a) ==
    /\ Doing(a, "leave") /\ holder = a
    /\ holder' = Nobody
    /\ Done(a)
    /\ UNCHANGED <<case, left, pc, report, channel, closed, indicator, total, pipeline_stats, cloned,
                   delivered, cancelled, has_error, sent, raced>>

CloneStats(a) ==
    /\ Doing(a, "clone")
    /\ cloned' = pipeline_stats
    /\ Done(a)
    /\ UNCHANGED <<case, left, pc, report, channel, closed, indicator, total, pipeline_stats, holder,
                   delivered, cancelled, has_error, sent, raced>>

CancelToken(a) ==
    /\ Doing(a, "cancel")
    /\ cancelled' = TRUE
    /\ Done(a)
    /\ UNCHANGED <<case, left, pc, report, channel, closed, indicator, total, pipeline_stats, cloned,
                   holder, delivered, has_error, sent, raced>>

RecordError(a) ==
    /\ Doing(a, "record_error")
    /\ has_error' = TRUE
    /\ Done(a)
    /\ UNCHANGED <<case, left, pc, report, channel, closed, indicator, total, pipeline_stats, cloned,
                   holder, delivered, cancelled, sent, raced>>

Perform(a) ==
    \/ FetchAdd(a) \/ SendStats(a) \/ Update(a) \/ EnterCallback(a) \/ LeaveCallback(a)
    \/ CloneStats(a) \/ CancelToken(a) \/ RecordError(a)

(* A reporter turns to its next outcome. A cancelled stage takes no new object.   *)
NextOutcome(r) ==
    /\ todo[r] = <<>> /\ left[r] # <<>>
    /\ \/ /\ todo' = [todo EXCEPT ![r] = ReportOf(Head(left[r]))]
          /\ left' = [left EXCEPT ![r] = Tail(@)]
       \/ cancelled /\ left' = [left EXCEPT ![r] = <<>>] /\ UNCHANGED todo
    /\ UNCHANGED <<case, pc, report, channel, closed, indicator, total, pipeline_stats, cloned, holder,
                   delivered, cancelled, has_error, sent, raced>>

(* Somebody else cancels the run: Ctrl+C or another stage. *)
Cancel ==
    /\ pc = "wait" /\ ~cancelled
    /\ cancelled' = TRUE
    /\ UNCHANGED <<case, todo, left, pc, report, channel, closed, indicator, total, pipeline_stats,
                   cloned, holder, delivered, has_error, sent, raced>>

-----------------------------------------------------------------------------
(* run(). *)

Idle(r) == todo[r] = <<>> /\ left[r] = <<>>
Reporting(ops) == todo' = [todo EXCEPT ![Run] = ops]
RunAt(where) == pc = where /\ todo[Run] = <<>>
RunUnchanged == UNCHANGED <<case, report, channel, indicator, total, pipeline_stats, cloned, holder,
                            delivered, cancelled, sent>>

Start ==
    /\ RunAt("start") /\ pc' = "prerequisites"
    /\ Reporting(TriggerEvent("PIPELINE_START", 0))
    /\ RunUnchanged /\ UNCHANGED <<left, closed, raced, has_error>>

Prerequisites ==
    /\ RunAt("prerequisites")
    /\ IF case.prerequisites
       THEN pc' = "wait" /\ left' = case.outcomes /\ UNCHANGED has_error
       ELSE pc' = "shutdown" /\ has_error' = TRUE /\ UNCHANGED left
    /\ RunUnchanged /\ UNCHANGED <<todo, closed, raced>>

(* The Terminator ends when the workers have; a filter stage that was cancelled,  *)
(* and its supervisor, may still be at work.                                      *)
Executed ==
    /\ RunAt("wait") /\ pc' = "shutdown"
    /\ \A w \in Workers : Idle(w)
    /\ cancelled \/ Idle(Filter)
    /\ RunUnchanged /\ UNCHANGED <<todo, left, closed, raced, has_error>>

(* Faulty: a run that failed its prerequisites leaves the channel open. *)
ShutdownIfExecuted == closed' = (closed \/ case.prerequisites)
Shutdown == closed' = TRUE

CloseStats ==
    /\ RunAt("shutdown") /\ pc' = "error"
    /\ Shutdown
    /\ raced' = (~closed /\ indicator = "ask")
    /\ RunUnchanged /\ UNCHANGED <<todo, left, has_error>>

(* fire_completion_events. *)
FireError ==
    /\ RunAt("error") /\ pc' = "cancel"
    /\ Reporting(IF has_error THEN TriggerEvent("PIPELINE_ERROR", 0) ELSE <<>>)
    /\ RunUnchanged /\ UNCHANGED <<left, closed, raced, has_error>>
FireCancel ==
    /\ RunAt("cancel") /\ pc' = "end"
    /\ Reporting(IF cancelled THEN TriggerEvent("DELETE_CANCEL", 0) ELSE <<>>)
    /\ RunUnchanged /\ UNCHANGED <<left, closed, raced, has_error>>
FireEnd ==
    /\ RunAt("end") /\ pc' = "returning"
    /\ Reporting(TriggerEvent("PIPELINE_END", 0))
    /\ RunUnchanged /\ UNCHANGED <<left, closed, raced, has_error>>
Return ==
    /\ RunAt("returning") /\ pc' = "returned"
    /\ RunUnchanged /\ UNCHANGED <<todo, left, closed, raced, has_error>>

RunStep ==
    \/ Start \/ Prerequisites \/ Executed \/ CloseStats \/ FireError \/ FireCancel \/ FireEnd
    \/ Return

-----------------------------------------------------------------------------
(* The progress indicator. *)

IndicatorUnchanged == UNCHANGED <<case, todo, left, pc, report, closed, pipeline_stats, cloned, holder,
                                  delivered, cancelled, has_error, sent>>

(* Faulty: a skipped object is counted as an error. *)
CountSkipAsError(t, m) == Plus(t, IF m.what = "skipped" THEN "failed" ELSE m.what, m.n)
Count(t, m) == Plus(t, m.what, m.n)

(* try_recv returns a message, *)
TryRecv ==
    /\ indicator = "drain" /\ channel # <<>>
    /\ total' = Count(total, Head(channel)) /\ channel' = Tail(channel)
    /\ UNCHANGED <<indicator, raced>> /\ IndicatorUnchanged
(* or there is none: once a second the line is drawn and a new period begins,     *)
(* otherwise the next question is whether the channel is closed.                  *)
Drained ==
    /\ indicator = "drain" /\ channel = <<>>
    /\ indicator' = "ask" /\ raced' = FALSE
    /\ UNCHANGED <<total, channel>> /\ IndicatorUnchanged
Refresh ==
    /\ indicator = "ask"
    /\ indicator' = "drain"
    /\ UNCHANGED <<total, channel, raced>> /\ IndicatorUnchanged
IsClosed ==
    /\ indicator = "ask"
    /\ indicator' = IF closed THEN "returned" ELSE "sleep"
    /\ UNCHANGED <<total, channel, raced>> /\ IndicatorUnchanged
Sleep ==
    /\ indicator = "sleep"
    /\ indicator' = "drain"
    /\ UNCHANGED <<total, channel, raced>> /\ IndicatorUnchanged

Next ==
    \/ \E a \in Actors : Perform(a)
    \/ \E r \in Reporters : NextOutcome(r)
    \/ Cancel \/ RunStep
    \/ TryRecv \/ Drained \/ Refresh \/ IsClosed \/ Sleep

(* The tasks are scheduled, the callback returns and its mutex is fair; the       *)
(* refresh comes at most once a second, so the other branch is not starved.       *)
Spec ==
    /\ Init /\ [][Next]_vars
    /\ \A a \in Actors : WF_vars(FetchAdd(a) \/ SendStats(a) \/ Update(a) \/ LeaveCallback(a)
                                   \/ CloneStats(a) \/ CancelToken(a) \/ RecordError(a))
    /\ \A a \in Actors : SF_vars(EnterCallback(a))
    /\ \A r \in Reporters : WF_vars(NextOutcome(r))
    /\ WF_vars(RunStep)
    /\ WF_vars(TryRecv \/ Drained \/ Sleep) /\ SF_vars(IsClosed)

-----------------------------------------------------------------------------
(* Properties. *)

Events == {"PIPELINE_START", "PIPELINE_END", "PIPELINE_ERROR", "DELETE_CANCEL", "DELETE_COMPLETE",
           "DELETE_FAILED", "DELETE_FILTERED", "STATS_REPORT"}

(* Every variable has its type; whoever is inside the callback holds its mutex. *)
TypeOK ==
    /\ pc \in {"start", "prerequisites", "wait", "shutdown", "error", "cancel", "end", "returning",
               "returned"}
    /\ report \in Counters /\ total \in Counters /\ pipeline_stats \in Counters /\ cloned \in Counters
    /\ \A a \in Actors : \A i \in DOMAIN todo[a] :
          /\ todo[a][i].do \in {"fetch_add", "send", "update", "enter", "leave", "clone", "cancel",
                                "record_error"}
          /\ todo[a][i].do = "leave" /\ i = 1 => holder = a
    /\ holder \in Actors \cup {Nobody}
    /\ \A i \in DOMAIN delivered : delivered[i].event \in Events
    /\ indicator \in {"drain", "ask", "sleep", "returned"}
    /\ {closed, cancelled, has_error, raced} \subseteq BOOLEAN

HowMany(s, Test(_)) == Cardinality({i \in DOMAIN s : Test(s[i])})
DeliveredOf(e) == HowMany(delivered, LAMBDA d : d.event = e)
(* The outcomes of some kinds in the whole run: by whom, and which of its own. *)
Happened(kinds) ==
    UNION {{r} \X {i \in DOMAIN case.outcomes[r] : case.outcomes[r][i].kind \in kinds} : r \in Reporters}
Outcomes(kinds) == Cardinality(Happened(kinds))

(* What the caller reads after run() returned a run nobody cancelled is exact:    *)
(* the atomic counters, the callback's statistics and the events tell the same    *)
(* numbers, although three workers update them in separate steps. The callback    *)
(* hears of skipped objects a filter rejected, not of those that were missing.    *)
FinalCountsExact ==
    pc = "returned" /\ ~cancelled /\ case.prerequisites =>
        /\ report.deleted = Outcomes({"deleted"}) /\ report.failed = Outcomes({"failed"})
        /\ report.bytes = pipeline_stats.bytes - case.carried.bytes
        /\ pipeline_stats.deleted - case.carried.deleted = Outcomes({"deleted"})
        /\ Subscribed("DELETE_COMPLETE") => DeliveredOf("DELETE_COMPLETE") = Outcomes({"deleted"})
        /\ Subscribed("DELETE_FAILED") => DeliveredOf("DELETE_FAILED") = Outcomes({"failed"})
        /\ case.registered => pipeline_stats.skipped - case.carried.skipped = Outcomes({"skipped"})

(* A STATS_REPORT counts every event the callback was told of up to PIPELINE_END, *)
(* and in a run nobody cancelled exactly what the callback hears in all: the      *)
(* statistics are updated before the callback is called, and the copy is taken    *)
(* after PIPELINE_END was delivered.                                              *)
StatsReportCovers ==
    \A i, k \in DOMAIN delivered :
        delivered[i].event = "STATS_REPORT" /\ delivered[k].event = "PIPELINE_END" =>
            LET before(e) == HowMany(SubSeq(delivered, 1, k), LAMBDA d : d.event = e)
                gained(f) == delivered[i].stats[f] - case.carried[f]
            IN  /\ gained("deleted") >= before("DELETE_COMPLETE")
                /\ gained("failed") >= before("DELETE_FAILED")
                /\ gained("skipped") >= before("DELETE_FILTERED")
                /\ gained("errors") >= before("PIPELINE_ERROR")
                /\ ~cancelled /\ Subscribed("DELETE_COMPLETE")
                      => gained("deleted") = DeliveredOf("DELETE_COMPLETE")

(* The statistics of the run close what its callback hears: PIPELINE_START comes  *)
(* first, PIPELINE_END and STATS_REPORT come once, in that order, and without a   *)
(* cancellation nothing comes after them.                                         *)
CallbackOrder ==
    LET at(e) == {i \in DOMAIN delivered : delivered[i].event = e}
    IN  /\ at("PIPELINE_START") \subseteq {1}
        /\ Cardinality(at("PIPELINE_END")) <= 1 /\ Cardinality(at("STATS_REPORT")) <= 1
        /\ \A i \in at("STATS_REPORT") : \A j \in at("PIPELINE_END") : j < i
        /\ \A i \in at("PIPELINE_END") \cup at("STATS_REPORT") : \A j \in DOMAIN delivered :
              j > i => cancelled \/ delivered[j].event = "STATS_REPORT"

(* What a callback is told is complete and in order. *)
CallbackContract == StatsReportCovers /\ CallbackOrder

(* What the first messages of a sequence, and all of them, add to a total. *)
Sums(s, f) ==
    LET sum[i \in 0 .. Len(s)] ==
            IF i = 0 THEN 0 ELSE sum[i - 1] + (IF s[i].what = f THEN s[i].n ELSE 0)
    IN  sum
Amount(s, f) == Sums(s, f)[Len(s)]

(* The totals of the indicator and what is still in the channel are what was      *)
(* sent: nothing is counted twice or under another heading.                       *)
IndicatorConserves ==
    \A f \in DOMAIN Zero : total[f] + Amount(channel, f) = Amount(sent, f)

(* Unless the channel was closed just between its last look and its question, the *)
(* indicator has left no message behind when it returns; and then its summary of  *)
(* a run nobody cancelled counts every deleted and failed object, and among the   *)
(* skipped ones, unlike the callback's, those that were missing too.              *)
SummaryExact ==
    indicator = "returned" /\ ~raced =>
        /\ channel = <<>>
        /\ ~cancelled /\ case.prerequisites /\ ~case.closed_early =>
              /\ total.deleted = Outcomes({"deleted"}) /\ total.failed = Outcomes({"failed"})
              /\ total.skipped = Outcomes({"skipped", "missing"})

(* The three accounts of a run agree with what happened: the atomic counters, the *)
(* callback's statistics and the indicator's totals.                              *)
CountsAgree == FinalCountsExact /\ IndicatorConserves /\ SummaryExact

(* main gets to its exit code: run() returns, and so does the indicator main then *)
(* waits for, also if the prerequisites fail inside run().                        *)
RunReturns == <>(pc = "returned" /\ indicator = "returned")

=============================================================================
