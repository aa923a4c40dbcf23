---------------------------- MODULE PipelineTests ---------------------------
(* The integration tests of pipeline.rs as cases of EndToEnd: the configuration,  *)
(* the mock storage, and the assertions. `expect` has a field for every value a   *)
(* test asserts, `records` the errors it looks for. A key that ends in ".log" has *)
(* the name "a", which include expressions and the callback match, or "b" where   *)
(* the test excludes it. Long listings are cut to what the test is about.         *)
EXTENDS EndToEnd

NoFilter ==
    [ larger_size |-> NoThreshold, smaller_size |-> NoThreshold,
      after_time |-> NoThreshold, before_time |-> NoThreshold,
      include_regex |-> FALSE, exclude_regex |-> FALSE,
      include_content_type |-> FALSE, exclude_content_type |-> FALSE,
      include_metadata |-> FALSE, exclude_metadata |-> FALSE,
      include_tag |-> FALSE, exclude_tag |-> FALSE,
      keep_latest_only |-> FALSE, delete_marker_only |-> FALSE, user |-> FALSE ]

create_test_config ==
    [ filter |-> NoFilter, force |-> FALSE, dry_run |-> FALSE, batch_size |-> 1000,
      worker_size |-> 1, max_delete |-> NoLimit, warn_as_error |-> FALSE,
      delete_all_versions |-> FALSE, if_match |-> FALSE ]
Forced == [create_test_config EXCEPT !.force = TRUE]
Single == [Forced EXCEPT !.batch_size = 1]

Object(name, size, mtime) ==
    [ kind |-> "NotVersioning", key |-> "k", name |-> name, version |-> 0, is_latest |-> "absent",
      size |-> size, mtime |-> mtime ]
Sized(sizes) == [i \in DOMAIN sizes |-> Object("c", sizes[i], 0)]

(* The mock storages. *)
ListingMockStorage(objects) ==
    [objects |-> objects, lists |-> "all", deletes |-> "ok", fails |-> {}, code |-> "none"]
PartialFailureMockStorage(objects, fails) ==
    [ListingMockStorage(objects) EXCEPT !.fails = fails, !.code = "InternalError"]
NonRetryableFailureMockStorage(objects, fails) ==
    [ListingMockStorage(objects) EXCEPT !.fails = fails, !.code = "AccessDenied"]
FailingListerStorage == [ListingMockStorage(<< >>) EXCEPT !.lists = "error"]
PanickingListerMockStorage == [ListingMockStorage(<< >>) EXCEPT !.lists = "panic"]
ErrorDeleteMockStorage(objects) == [ListingMockStorage(objects) EXCEPT !.deletes = "error"]
PanickingDeleteMockStorage(objects) == [ListingMockStorage(objects) EXCEPT !.deletes = "panic"]

Test(config_, storage_, expect) ==
    [ config |-> config_, storage |-> storage_, callback |-> "none", cancelled |-> FALSE,
      runs |-> 1, prompt |-> TRUE, records |-> {}, expect |-> expect ]
Deletes(count, bytes) == [error |-> {FALSE}, deleted |-> {count}, bytes |-> {bytes}]

-----------------------------------------------------------------------------

pipeline_runs_with_mock_storage_dry_run ==
    Test([Single EXCEPT !.dry_run = TRUE], ListingMockStorage(Sized(<<100, 200>>)), [error |-> {FALSE}])

pipeline_runs_with_mock_storage_and_deletes ==
    Test(Single, ListingMockStorage(Sized(<<50>>)), Deletes(1, 50))

pipeline_empty_listing_completes ==
    Test(Forced, ListingMockStorage(<< >>), [error |-> {FALSE}, deleted |-> {0}])

pipeline_cancellation_stops_processing ==
    [ Test(Single, ListingMockStorage(Sized(<<10, 20, 30>>)), Deletes(0, 0)) EXCEPT !.cancelled = TRUE ]

pipeline_with_filters ==
    Test([Single EXCEPT !.filter.include_regex = TRUE],
         ListingMockStorage(<<Object("a", 100, 0), Object("c", 200, 0)>>), Deletes(1, 100))

(* Twenty objects in the test. *)
pipeline_multiple_workers ==
    Test([Single EXCEPT !.worker_size = 4], ListingMockStorage(Sized(<<10, 10, 10, 10, 10>>)), Deletes(5, 50))

pipeline_batch_deletion ==
    Test(Forced, ListingMockStorage(Sized(<<25, 25, 25, 25, 25>>)), Deletes(5, 125))

pipeline_panics_on_double_run ==
    [ Test(Forced, ListingMockStorage(<< >>), [run |-> {"panicked"}]) EXCEPT !.runs = 2 ]

pipeline_safety_check_cancelled ==
    [ Test(Forced, ListingMockStorage(<< >>), [run |-> {"returned"}]) EXCEPT !.cancelled = TRUE ]

pipeline_delete_all_versions_on_unversioned_bucket_clears_flag ==
    Test([Forced EXCEPT !.delete_all_versions = TRUE], ListingMockStorage(<< >>),
         [error |-> {FALSE}, versions |-> {FALSE}])

(* These four call check_prerequisites alone; run() fails with its error. *)
Refused(config_, kind) ==
    [ Test(config_, ListingMockStorage(<< >>), [error |-> {TRUE}]) EXCEPT !.records = {<<"run", kind>>} ]

pipeline_keep_latest_only_without_delete_all_versions_errors ==
    Refused([Forced EXCEPT !.filter.keep_latest_only = TRUE], "keep-latest-only requires")

pipeline_if_match_with_delete_all_versions_errors ==
    Refused([Forced EXCEPT !.if_match = TRUE, !.delete_all_versions = TRUE], "if-match")

pipeline_delete_marker_only_without_delete_all_versions_errors ==
    Refused([Forced EXCEPT !.filter.delete_marker_only = TRUE], "delete-marker-only requires")

pipeline_delete_marker_only_on_non_versioned_bucket_errors ==
    Refused([Forced EXCEPT !.filter.delete_marker_only = TRUE, !.delete_all_versions = TRUE],
            "delete-marker-only unversioned")

(* Ten objects in both tests of --max-delete. *)
pipeline_max_delete_cancels_when_threshold_exceeded ==
    Test([Single EXCEPT !.max_delete = 3], ListingMockStorage(Sized(<<10, 10, 10, 10, 10>>)),
         [error |-> {FALSE}, warning |-> {TRUE}, deleted |-> 0 .. 3])

pipeline_max_delete_stops_at_threshold ==
    Test([Single EXCEPT !.max_delete = 3], ListingMockStorage(Sized(<<50, 50, 50, 50, 50, 50>>)),
         [warning |-> {TRUE}, deleted |-> 0 .. 4])

pipeline_event_callback_fires_during_execution ==
    Test(Single, ListingMockStorage(Sized(<<50, 75>>)),
         [error |-> {FALSE}, complete_events |-> {2}, end_events |-> {1}])

pipeline_rust_filter_callback_integration ==
    [ Test([Single EXCEPT !.filter.user = TRUE],
           ListingMockStorage(<<Object("a", 100, 0), Object("c", 200, 0), Object("a", 300, 0)>>),
           Deletes(2, 400)) EXCEPT !.callback = "log" ]

pipeline_partial_batch_failure_retries_via_single_delete ==
    Test(Forced, PartialFailureMockStorage(Sized(<<10, 20, 30, 40>>), {2, 4}), Deletes(4, 100))

pipeline_listing_failure_produces_error ==
    [ Test(Forced, FailingListerStorage, [error |-> {TRUE}]) EXCEPT !.records = {<<"lister", "err">>} ]

pipeline_event_callback_fires_on_error ==
    Test(Forced, FailingListerStorage, [error |-> {TRUE}, error_events |-> {1}, end_events |-> {1}])

prop_listing_failure_always_sets_error == Test(Forced, FailingListerStorage, [error |-> {TRUE}])

pipeline_warn_as_error_true_promotes_warnings_to_errors ==
    [ Test([Forced EXCEPT !.warn_as_error = TRUE],
           NonRetryableFailureMockStorage(Sized(<<10, 20>>), {2}),
           [error |-> {TRUE}, warning |-> {TRUE}]) EXCEPT !.records = {<<"run", "promoted">>} ]

pipeline_warn_as_error_false_does_not_promote_warnings ==
    Test(Forced, NonRetryableFailureMockStorage(Sized(<<10, 20>>), {2}),
         [error |-> {FALSE}, warning |-> {TRUE}, deleted |-> {1}, failed |-> {1}])

pipeline_prerequisites_failure_records_error_and_stops ==
    [ Test(create_test_config, ListingMockStorage(Sized(<<100>>)), [error |-> {TRUE}, deleted |-> {0}])
      EXCEPT !.records = {<<"run", "safety">>} ]

OldAndNew == ListingMockStorage(<<Object("c", 10, 1000), Object("c", 20, 2000)>>)
SmallAndLarge == ListingMockStorage(Sized(<<50, 500>>))

pipeline_mtime_before_filter_applied ==
    Test([Single EXCEPT !.filter.before_time = 1500], OldAndNew, Deletes(1, 10))

pipeline_mtime_after_filter_applied ==
    Test([Single EXCEPT !.filter.after_time = 1500], OldAndNew, Deletes(1, 20))

pipeline_smaller_size_filter_applied ==
    Test([Single EXCEPT !.filter.smaller_size = 100], SmallAndLarge, Deletes(1, 50))

pipeline_larger_size_filter_applied ==
    Test([Single EXCEPT !.filter.larger_size = 100], SmallAndLarge, Deletes(1, 500))

pipeline_exclude_regex_filter_applied ==
    Test([Single EXCEPT !.filter.exclude_regex = TRUE],
         ListingMockStorage(<<Object("c", 10, 0), Object("b", 20, 0)>>), Deletes(1, 10))

pipeline_multiple_filters_combined ==
    Test([Single EXCEPT !.filter.smaller_size = 100, !.filter.before_time = 2000],
         ListingMockStorage(<<Object("c", 50, 1000), Object("c", 50, 3000), Object("c", 500, 1000)>>),
         Deletes(1, 50))

list_target_panic_sets_has_error_and_has_panic ==
    [ Test(Forced, PanickingListerMockStorage, [error |-> {TRUE}, panic |-> {TRUE}, errors |-> {1}])
      EXCEPT !.records = {<<"lister", "panic">>} ]

user_defined_filter_panic_sets_has_error_and_has_panic ==
    [ Test([Forced EXCEPT !.filter.user = TRUE], ListingMockStorage(Sized(<<100>>)),
           [error |-> {TRUE}, panic |-> {TRUE}])
      EXCEPT !.callback = "panic", !.records = {<<"UserDefined", "panic">>} ]

delete_worker_error_sets_has_error ==
    [ Test(Forced, ErrorDeleteMockStorage(Sized(<<100>>)), [error |-> {TRUE}, panic |-> {FALSE}])
      EXCEPT !.records = {<<"worker", "err">>} ]

delete_worker_panic_sets_has_error_and_has_panic ==
    [ Test(Forced, PanickingDeleteMockStorage(Sized(<<100>>)), [error |-> {TRUE}, panic |-> {TRUE}])
      EXCEPT !.records = {<<"worker", "panic">>} ]

-----------------------------------------------------------------------------

IntegrationTests ==
    { pipeline_runs_with_mock_storage_dry_run, pipeline_runs_with_mock_storage_and_deletes,
      pipeline_empty_listing_completes, pipeline_cancellation_stops_processing,
      pipeline_with_filters, pipeline_multiple_workers, pipeline_batch_deletion,
      pipeline_panics_on_double_run, pipeline_safety_check_cancelled,
      pipeline_delete_all_versions_on_unversioned_bucket_clears_flag,
      pipeline_keep_latest_only_without_delete_all_versions_errors,
      pipeline_if_match_with_delete_all_versions_errors,
      pipeline_delete_marker_only_without_delete_all_versions_errors,
      pipeline_delete_marker_only_on_non_versioned_bucket_errors,
      pipeline_max_delete_cancels_when_threshold_exceeded, pipeline_max_delete_stops_at_threshold,
      pipeline_event_callback_fires_during_execution, pipeline_rust_filter_callback_integration,
      pipeline_partial_batch_failure_retries_via_single_delete,
      pipeline_listing_failure_produces_error, pipeline_event_callback_fires_on_error,
      prop_listing_failure_always_sets_error,
      pipeline_warn_as_error_true_promotes_warnings_to_errors,
      pipeline_warn_as_error_false_does_not_promote_warnings,
      pipeline_prerequisites_failure_records_error_and_stops,
      pipeline_mtime_before_filter_applied, pipeline_mtime_after_filter_applied,
      pipeline_smaller_size_filter_applied, pipeline_larger_size_filter_applied,
      pipeline_exclude_regex_filter_applied, pipeline_multiple_filters_combined,
      list_target_panic_sets_has_error_and_has_panic,
      user_defined_filter_panic_sets_has_error_and_has_panic,
      delete_worker_error_sets_has_error, delete_worker_panic_sets_has_error_and_has_panic }

=============================================================================
