-------------------------- MODULE MCObjectDeleter --------------------------
(* Small instances of ObjectDeleter: the configurations TLC starts from. *)
EXTENDS DeletionRefinement, TLC

CONSTANTS o1, o2, o3

MCObjects == {o1, o2, o3}
MCDeleteMarkers == {o1}
(* Others write to two objects, one listed with an ETag and one without. *)
MCContended == {o2, o3}
MCWithoutETag == {o3}

(* The plain run: batches of two, no cap, one fallback round, no extra filter. *)
Base == [ max_delete |-> None, batch_size |-> 2, dry_run |-> FALSE,
          warn_as_error |-> FALSE, if_match |-> FALSE, force_retry_count |-> 0,
          head_filters |-> FALSE, tag_filters |-> FALSE ]

(* One configuration per feature, and the pairs that interact. *)
MCConfigs ==
    { [Base EXCEPT !.max_delete = 2, !.if_match = TRUE, !.warn_as_error = TRUE],
      [Base EXCEPT !.max_delete = 1, !.if_match = TRUE, !.force_retry_count = 1],
      [Base EXCEPT !.max_delete = 1, !.dry_run = TRUE, !.tag_filters = TRUE],
      [Base EXCEPT !.batch_size = 0, !.if_match = TRUE, !.head_filters = TRUE] }

(* Two objects are enough for a worker to block on a full output channel, for a    *)
(* worker to hold a partial batch, and for the cap to be exceeded.                 *)
MCTwoObjects == {o1, o2}
MCOneContended == {o2}
MCLivenessConfigs ==
    { [Base EXCEPT !.max_delete = 1, !.tag_filters = TRUE],
      [Base EXCEPT !.max_delete = 1, !.if_match = TRUE, !.batch_size = 1],
      [Base EXCEPT !.max_delete = 1, !.dry_run = TRUE],
      [Base EXCEPT !.force_retry_count = 1, !.warn_as_error = TRUE] }

Symmetry == Permutations(Workers)
=============================================================================
