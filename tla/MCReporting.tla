---------------------------- MODULE MCReporting -----------------------------
(* Small instances of Reporting: two workers with one or two outcomes each and a  *)
(* filter stage, with and without a callback, subscribed to all or few events.    *)
EXTENDS Reporting

Deleted == [kind |-> "deleted", size |-> 3]
Failed == [kind |-> "failed", size |-> 0]
Skipped == [kind |-> "skipped", size |-> 0]
Missing == [kind |-> "missing", size |-> 0]
FilterError == [kind |-> "error", size |-> 0]

OutcomesOf(w1, w2, f) ==
    [r \in Reporters |-> IF r = Filter THEN f ELSE IF r = "w1" THEN w1 ELSE w2]
Base ==
    [ outcomes |-> OutcomesOf(<<Deleted>>, <<Failed>>, <<Skipped>>), registered |-> TRUE,
      flags |-> Events, user_filter |-> FALSE, closed_early |-> FALSE, prerequisites |-> TRUE,
      carried |-> Zero ]

SafetyCases ==
    { Base,
      [Base EXCEPT !.outcomes = OutcomesOf(<<Deleted>>, <<Deleted>>, <<>>),
                   !.carried = Plus(Plus(Zero, "deleted", 2), "bytes", 6)],
      [Base EXCEPT !.registered = FALSE, !.outcomes = OutcomesOf(<<Deleted, Deleted>>, <<Failed>>, <<>>)],
      [Base EXCEPT !.user_filter = TRUE, !.outcomes = OutcomesOf(<<Deleted>>, <<>>, <<FilterError>>)],
      [Base EXCEPT !.user_filter = TRUE, !.flags = {"DELETE_FILTERED", "STATS_REPORT"},
                   !.outcomes = OutcomesOf(<<Deleted>>, <<Missing>>, <<Skipped>>)],
      [Base EXCEPT !.flags = {"DELETE_COMPLETE", "PIPELINE_END"}, !.closed_early = TRUE],
      [Base EXCEPT !.prerequisites = FALSE] }
=============================================================================
