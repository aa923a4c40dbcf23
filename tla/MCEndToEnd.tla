----------------------------- MODULE MCEndToEnd -----------------------------
(* The integration tests, and cases no test has: two workers, small batches,      *)
(* limits, dry runs, failing keys and promoted warnings in all combinations.      *)
EXTENDS PipelineTests

Mixed == <<Object("a", 1, 0), Object("b", 2, 0), Object("a", 3, 0), Object("a", 4, 0)>>
Combined ==
    { [Forced EXCEPT !.worker_size = 2, !.batch_size = b, !.dry_run = d, !.max_delete = m,
                     !.warn_as_error = w, !.filter.exclude_regex = x] :
        b \in {1, 2}, d, w, x \in BOOLEAN, m \in {NoLimit, 1, 2} }
Storages ==
    { ListingMockStorage(Mixed), PartialFailureMockStorage(Mixed, {1, 2}),
      NonRetryableFailureMockStorage(Mixed, {2, 3}), ErrorDeleteMockStorage(Mixed),
      PanickingDeleteMockStorage(Mixed) }
NoExpectation == [x \in {} |-> {}]

(* What can go wrong in a run of three stages. *)
Faults ==
    { [ Test([Forced EXCEPT !.filter.user = TRUE, !.batch_size = 2, !.max_delete = m], s, NoExpectation)
        EXCEPT !.callback = k, !.cancelled = c, !.prompt = FALSE ] :
        m \in {NoLimit, 1}, s \in Storages, k \in {"log", "panic"}, c \in BOOLEAN }

(* The tests again, on a runtime with several threads. *)
Threaded == { [t EXCEPT !.prompt = FALSE, !.expect = NoExpectation, !.records = {}] : t \in IntegrationTests }

MCCases ==
    IntegrationTests \cup Threaded \cup Faults
    \cup { Test(c, s, NoExpectation) : c \in Combined, s \in Storages }
=============================================================================
