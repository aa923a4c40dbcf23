----------------------------- MODULE MCStartup ------------------------------
(* Small instances of Startup: command lines and library configurations that      *)
(* vary one group of options at a time.                                           *)
EXTENDS Startup

Plain == [scheme |-> TRUE, bucket |-> "plain", slash |-> TRUE, prefix |-> "p"]
Base ==
    [ target |-> Plain,
      dry_run |-> FALSE, force |-> FALSE, show_no_progress |-> FALSE,
      delete_all_versions |-> FALSE, keep_latest_only |-> FALSE,
      filter_delete_marker_only |-> FALSE, if_match |-> FALSE, warn_as_error |-> FALSE,
      key_regex |-> "none", attribute_regex |-> "none", size |-> "none", mtime |-> FALSE,
      verbosity |-> 2, json_tracing |-> FALSE, disable_color_tracing |-> FALSE,
      profile |-> FALSE, access_key |-> FALSE, secret_key |-> FALSE, session_token |-> FALSE,
      endpoint_url |-> "none",
      worker_size |-> 16, batch_size |-> 200, max_parallel_listings |-> 16,
      max_parallel_listing_max_depth |-> 2, rate_limit_objects |-> None,
      object_listing_queue_size |-> 200000, max_keys |-> 1000,
      max_delete |-> 0, given_max_delete |-> FALSE,
      allow_parallel_listings_in_express_one_zone |-> FALSE,
      filter_script |-> "none", event_script |-> "none", memory_limit |-> "valid",
      allow_lua_os_library |-> FALSE, allow_lua_unsafe_vm |-> FALSE,
      auto_complete_shell |-> FALSE ]

(* What is asked before deleting. *)
SafetyArgs ==
    { [Base EXCEPT !.dry_run = d, !.force = f, !.json_tracing = j, !.verbosity = v,
                   !.delete_all_versions = a, !.keep_latest_only = k,
                   !.filter_delete_marker_only = m, !.if_match = i] :
         d, f, j, a, k, m, i \in BOOLEAN, v \in {0, 1, 2} }
(* Filters and the options they conflict with. *)
FilterArgs ==
    { [Base EXCEPT !.force = TRUE, !.delete_all_versions = a, !.keep_latest_only = k,
                   !.filter_delete_marker_only = m, !.attribute_regex = r, !.size = z, !.mtime = t,
                   !.filter_script = s] :
         a, k, m, t \in BOOLEAN, r, z \in {"none", "valid"}, s \in Script }
(* Targets, batch sizes and rate limits. *)
LimitArgs ==
    { [Base EXCEPT !.dry_run = TRUE, !.target = t, !.batch_size = b, !.rate_limit_objects = r,
                   !.allow_parallel_listings_in_express_one_zone = p] :
         t \in {[Plain EXCEPT !.bucket = u, !.slash = s] : u \in {"", "plain", "express"}, s \in BOOLEAN},
         b \in {0, 1, 20, 1001}, r \in {None, 9, 10, 20}, p \in BOOLEAN }
(* Credentials, Lua modes, values that do not parse, completion scripts. *)
OtherArgs ==
    { [Base EXCEPT !.dry_run = TRUE, !.profile = p, !.access_key = k, !.secret_key = s,
                   !.session_token = t] : p, k, s, t \in BOOLEAN }
    \cup { [Base EXCEPT !.dry_run = TRUE, !.allow_lua_os_library = o, !.allow_lua_unsafe_vm = u,
                        !.event_script = s, !.auto_complete_shell = c] :
              o, u, c \in BOOLEAN, s \in Script }
    \cup { [Base EXCEPT !.force = TRUE, !.key_regex = "invalid"],
           [Base EXCEPT !.force = TRUE, !.endpoint_url = "invalid"],
           [Base EXCEPT !.force = TRUE, !.size = "invalid"],
           [Base EXCEPT !.force = TRUE, !.given_max_delete = TRUE],
           [Base EXCEPT !.force = TRUE, !.target = [Plain EXCEPT !.scheme = FALSE]] }

MCCommandLines == SafetyArgs \cup FilterArgs \cup LimitArgs \cup OtherArgs

MCConfigs ==
    { [ForTarget("plain", "") EXCEPT
           !.dry_run = d, !.force = f, !.delete_all_versions = a, !.if_match = i, !.credential = c,
           !.filter_script = s,
           !.filter = [@ EXCEPT !.keep_latest_only = k, !.delete_marker_only = m]] :
         d, f, a, i, k, m \in BOOLEAN, c \in {"none", "FromEnvironment"}, s \in {"none", "good"} }
    \cup { [ForTarget("express", "") EXCEPT !.delete_all_versions = TRUE] }

NoCommandLines == {}
=============================================================================
