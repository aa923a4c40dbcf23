----------------------------- MODULE Arguments ------------------------------
(* The command line: what clap accepts, and what Config::try_from makes of it.    *)
(*                                                                                *)
(* A record of CLIArgs holds the options that decide something; an option with a  *)
(* value parser is "none", "valid" or "invalid", and the six attribute options    *)
(* (content type, metadata and tag, include and exclude) and the two sizes are    *)
(* one field each, because every rule below treats them alike. A target is what   *)
(* its text decomposes into: scheme, bucket, whether a "/" follows, and prefix.   *)
(* External: the parser generated by clap, which enforces the attributes of the   *)
(* struct, and the Lua compiler.                                                  *)
EXTENDS Naturals, FiniteSets

None == 0                      \* an absent number: every range below starts at 1
DEFAULT_BATCH_SIZE == 200

OptionValue == {"none", "valid", "invalid"}
Script == {"none", "missing", "good", "broken"}
LogLevels == <<"error", "warn", "info", "debug", "trace">>

Target == [scheme : BOOLEAN, bucket : {"", "plain", "express"}, slash : BOOLEAN, prefix : {"", "p"}]

CLIArgs ==
    [ target : Target,
      dry_run : BOOLEAN, force : BOOLEAN, show_no_progress : BOOLEAN,
      delete_all_versions : BOOLEAN, keep_latest_only : BOOLEAN,
      filter_delete_marker_only : BOOLEAN, if_match : BOOLEAN, warn_as_error : BOOLEAN,
      key_regex : OptionValue, attribute_regex : OptionValue, size : OptionValue, mtime : BOOLEAN,
      verbosity : 0 .. 5, json_tracing : BOOLEAN, disable_color_tracing : BOOLEAN,
      profile : BOOLEAN, access_key : BOOLEAN, secret_key : BOOLEAN, session_token : BOOLEAN,
      endpoint_url : OptionValue,
      worker_size : Nat, batch_size : Nat, max_parallel_listings : Nat,
      max_parallel_listing_max_depth : Nat, rate_limit_objects : Nat,
      object_listing_queue_size : Nat, max_keys : Nat, max_delete : Nat, given_max_delete : BOOLEAN,
      allow_parallel_listings_in_express_one_zone : BOOLEAN,
      filter_script : Script, event_script : Script, memory_limit : OptionValue,
      allow_lua_os_library : BOOLEAN, allow_lua_unsafe_vm : BOOLEAN,
      auto_complete_shell : BOOLEAN ]

-----------------------------------------------------------------------------
(* Value parsers. *)

CheckS3Target(t) == t.scheme /\ (t.bucket # "" \/ t.slash)

ParseHumanBytes(v) == v # "invalid"
ParseRegex(v) == v # "invalid"
CheckScheme(v) == v # "invalid"
IsFileExist(s) == s # "missing"

ValuesParse(a) ==
    /\ CheckS3Target(a.target)
    /\ ParseRegex(a.key_regex) /\ ParseRegex(a.attribute_regex)
    /\ ParseHumanBytes(a.size) /\ ParseHumanBytes(a.memory_limit)
    /\ CheckScheme(a.endpoint_url)
    /\ IsFileExist(a.filter_script) /\ IsFileExist(a.event_script)

InRange(a) ==
    /\ a.given_max_delete => a.max_delete >= 1
    /\ a.worker_size >= 1
    /\ a.batch_size \in 1 .. 1000
    /\ a.max_parallel_listings >= 1
    /\ a.max_parallel_listing_max_depth >= 1
    /\ a.rate_limit_objects # None => a.rate_limit_objects >= 10
    /\ a.object_listing_queue_size >= 1
    /\ a.max_keys \in 1 .. 32767

-----------------------------------------------------------------------------
(* The `requires` and `conflicts_with` attributes of the options. *)

KeepLatestOnlyRules(a) ==
    a.keep_latest_only =>
        /\ a.delete_all_versions
        /\ a.attribute_regex = "none" /\ a.size = "none" /\ ~a.mtime
        /\ a.filter_script = "none"

DeleteMarkerOnlyRules(a) ==
    a.filter_delete_marker_only =>
        a.delete_all_versions /\ a.attribute_regex = "none" /\ a.size = "none"

CredentialRules(a) ==
    /\ a.profile => ~a.access_key /\ ~a.secret_key /\ ~a.session_token
    /\ a.access_key <=> a.secret_key
    /\ a.session_token => a.access_key

FlagRules(a) ==
    /\ ~(a.dry_run /\ a.force)
    /\ a.json_tracing => a.force
    /\ ~(a.if_match /\ a.delete_all_versions)
    /\ ~(a.allow_lua_os_library /\ a.allow_lua_unsafe_vm)

Accepts(a) ==
    /\ ValuesParse(a) /\ InRange(a)
    /\ KeepLatestOnlyRules(a) /\ DeleteMarkerOnlyRules(a)
    /\ CredentialRules(a) /\ FlagRules(a)

-----------------------------------------------------------------------------
(* Config::try_from. *)

ParseTarget(t) == t.bucket # ""

IsExpressOnezoneStorage(bucket) == bucket = "express"

BatchSize(a) ==
    IF /\ IsExpressOnezoneStorage(a.target.bucket)
       /\ ~a.allow_parallel_listings_in_express_one_zone
    THEN 1 ELSE a.batch_size

(* Faulty: the rate limit is not compared with the batch size. *)
AnyRateLimit(a) == TRUE
RateLimitFits(a) == a.rate_limit_objects # None => a.rate_limit_objects >= BatchSize(a)

ScriptsCompile(a) == a.filter_script # "broken" /\ a.event_script # "broken"

Converts(a) == ParseTarget(a.target) /\ RateLimitFits(a) /\ ScriptsCompile(a)

BuildClientConfig(a) ==
    IF a.profile THEN "Profile" ELSE IF a.access_key THEN "Credentials" ELSE "FromEnvironment"

(* Verbosity 0 is -qq: no tracing configuration at all. *)
BuildTracingConfig(a) ==
    IF a.verbosity = 0
    THEN [on |-> FALSE, level |-> 0, json |-> FALSE, disable_color |-> FALSE]
    ELSE [ on |-> TRUE,
           level |-> IF a.dry_run /\ LogLevels[a.verbosity] = "warn" THEN 3 ELSE a.verbosity,
           json |-> a.json_tracing, disable_color |-> a.disable_color_tracing ]

LuaMode(a) ==
    IF a.allow_lua_unsafe_vm THEN "unsafe" ELSE IF a.allow_lua_os_library THEN "all" ELSE "safe"

BuildFilterConfig(a) ==
    [ attribute |-> a.attribute_regex # "none", size |-> a.size # "none", mtime |-> a.mtime,
      key |-> a.key_regex # "none",
      keep_latest_only |-> a.keep_latest_only, delete_marker_only |-> a.filter_delete_marker_only ]

ToConfig(a) ==
    [ bucket |-> a.target.bucket, prefix |-> IF a.target.slash THEN a.target.prefix ELSE "",
      credential |-> BuildClientConfig(a), tracing |-> BuildTracingConfig(a),
      filter |-> BuildFilterConfig(a),
      dry_run |-> a.dry_run, force |-> a.force, show_no_progress |-> a.show_no_progress,
      delete_all_versions |-> a.delete_all_versions, if_match |-> a.if_match,
      warn_as_error |-> a.warn_as_error,
      batch_size |-> BatchSize(a), rate_limit_objects |-> a.rate_limit_objects,
      filter_script |-> a.filter_script, filter_registered |-> a.filter_script # "none",
      event_registered |-> a.event_script # "none", lua |-> LuaMode(a),
      auto_complete_shell |-> a.auto_complete_shell ]

(* Config::for_target: nothing is validated, no client is configured and no       *)
(* callback is registered; the caller then sets fields of the result.             *)
ForTarget(bucket, prefix) ==
    [ bucket |-> bucket, prefix |-> prefix, credential |-> "none",
      tracing |-> [on |-> FALSE, level |-> 0, json |-> FALSE, disable_color |-> FALSE],
      filter |-> [ attribute |-> FALSE, size |-> FALSE, mtime |-> FALSE, key |-> FALSE,
                   keep_latest_only |-> FALSE, delete_marker_only |-> FALSE ],
      dry_run |-> FALSE, force |-> TRUE, show_no_progress |-> FALSE,
      delete_all_versions |-> FALSE, if_match |-> FALSE, warn_as_error |-> FALSE,
      batch_size |-> DEFAULT_BATCH_SIZE, rate_limit_objects |-> None,
      filter_script |-> "none", filter_registered |-> FALSE, event_registered |-> FALSE,
      lua |-> "safe", auto_complete_shell |-> FALSE ]

-----------------------------------------------------------------------------
(* What the command line program draws on the terminal. *)

IsShowResultNeeded(c) == ~c.show_no_progress /\ (c.tracing.on => ~c.tracing.json)
IsProgressIndicatorNeeded(c) ==
    ~c.show_no_progress /\ (c.tracing.on => LogLevels[c.tracing.level] \in {"error", "warn"} /\ ~c.tracing.json)

=============================================================================
