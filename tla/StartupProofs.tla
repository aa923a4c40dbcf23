---------------------------- MODULE StartupProofs ----------------------------
(* Proofs about the way from the command line, or a library caller's Config, to   *)
(* the first listing request: for every set of command lines and configurations   *)
(* and for every number of calls a library caller makes.                          *)
EXTENDS Startup, SequenceTheorems, TLAPS

USE DEF vars, given, pipeline, history

-----------------------------------------------------------------------------
(* What the check leaves behind. *)

Checking == {"safety", "prompt", "combinations", "versioning"}

(* The program is loaded with a configuration before anything looks at it. *)
ConfigLoaded ==
    /\ caller \in {"main", "library"} /\ (caller = "main" => args \in CLIArgs)
    /\ pc = "load" => caller = "main" /\ config = Absent
    /\ pc \notin {"load", "exited"} => config \in ConfigType
    /\ versioning \in VersioningStates
    /\ listing \in {"none", "Objects", "Versions"}

(* The user may not be asked, or was asked and said yes. *)
Asked(c) == c.dry_run \/ c.force \/ confirmed

(* The configuration fits itself and the bucket. *)
Agrees(c) ==
    /\ ~ForbiddenCombination(c)
    /\ c.delete_all_versions => versioning # "never" /\ c.bucket # "express"

(* What each point of check_prerequisites has established, which stays true of    *)
(* the configuration it rewrites and whatever a library caller calls afterwards.  *)
CheckedFor ==
    /\ pc = "load" => ~prerequisites_checked
    /\ pc = "execute" => prerequisites_checked
    /\ pc \in {"combinations", "versioning"} => Asked(config)
    /\ pc = "versioning" => ~ForbiddenCombination(config) /\ config.delete_all_versions
    /\ prerequisites_checked => Asked(config) /\ Agrees(config)
    /\ Executed => /\ stages \in ConfigType /\ Asked(stages) /\ Agrees(stages)
                   /\ listing = IF stages.delete_all_versions THEN "Versions" ELSE "Objects"

CheckInv == ConfigLoaded /\ CheckedFor

(* What run() has reported so far. *)
Reported ==
    /\ ready => events = <<>> /\ errors = <<>>
    /\ pc \in {"execute", "executing"} => within = "run"
    /\ within = "run" /\ pc \in Checking \cup {"execute", "executing"} =>
          events = <<"PIPELINE_START">> /\ errors = <<>>
    /\ EventsBracketRun

(* The options of the request layer fit each other. *)
Limited(c) ==
    /\ c.rate_limit_objects # None => c.batch_size <= c.rate_limit_objects
    /\ c.bucket = "express" /\ ~args.allow_parallel_listings_in_express_one_zone
          => c.batch_size = 1

(* main checks once, runs once, and stops at the first refusal. *)
MainOnce ==
    caller = "main" =>
        /\ pc \notin {"load", "exited"} => ~ForbiddenCombination(config) /\ Limited(config)
        /\ refused # "no" => /\ pc = "exited" /\ ~Executed /\ (exit = 0 <=> refused = "Cancelled")
                             /\ refused # "Combination"
        /\ within = "run" => pc \in {"execute", "executing", "returned", "exited", "panicked"}
        /\ within = "caller" => ~Executed
        /\ within \in {"caller", "run"}
        /\ prompts \in {0, 1}
        /\ pc \in {"load", "completion", "safety"} => prompts = 0
        /\ pc = "created" /\ ~prerequisites_checked => prompts = 0
        /\ Executed => Limited(stages)

MainInv == ConfigLoaded /\ MainOnce

-----------------------------------------------------------------------------
(* Configurations. *)

(* Clearing delete_all_versions leaves a configuration, alike otherwise. *)
LEMMA FlagCleared ==
    ASSUME NEW c \in ConfigType
    PROVE  LET d == [c EXCEPT !.delete_all_versions = FALSE]
           IN  /\ d \in ConfigType
               /\ d.delete_all_versions = FALSE
               /\ d.dry_run = c.dry_run /\ d.force = c.force
               /\ d.filter = c.filter /\ d.if_match = c.if_match
               /\ d.bucket = c.bucket /\ d.tracing = c.tracing
               /\ d.rate_limit_objects = c.rate_limit_objects /\ d.batch_size = c.batch_size
  BY DEF ConfigType

(* Config::try_from makes a configuration of every command line. *)
LEMMA TracingBuilt ==
    ASSUME NEW a \in CLIArgs
    PROVE  /\ BuildTracingConfig(a) \in
                [on : BOOLEAN, level : 0 .. 5, json : BOOLEAN, disable_color : BOOLEAN]
           /\ BuildTracingConfig(a).on => BuildTracingConfig(a).level > 0
  <1>1. a.verbosity \in 0 .. 5 /\ a.json_tracing \in BOOLEAN /\ a.disable_color_tracing \in BOOLEAN
    BY DEF CLIArgs
  <1>2. CASE a.verbosity = 0
    BY <1>2 DEF BuildTracingConfig
  <1>3. CASE a.verbosity # 0
    <2> DEFINE l == IF a.dry_run /\ LogLevels[a.verbosity] = "warn" THEN 3 ELSE a.verbosity
    <2>1. l \in 1 .. 5
      BY <1>1, <1>3
    <2> HIDE DEF l
    <2>2. BuildTracingConfig(a) = [ on |-> TRUE, level |-> l, json |-> a.json_tracing,
                                    disable_color |-> a.disable_color_tracing ]
      BY <1>3 DEF BuildTracingConfig, l
    <2>3. QED
      BY <1>1, <2>1, <2>2
  <1>4. QED
    BY <1>2, <1>3

LEMMA ArgTypes ==
    ASSUME NEW a \in CLIArgs
    PROVE  /\ a.target.bucket \in {"", "plain", "express"} /\ a.target.prefix \in {"", "p"}
           /\ a.batch_size \in Nat /\ a.rate_limit_objects \in Nat
           /\ a.dry_run \in BOOLEAN /\ a.force \in BOOLEAN /\ a.show_no_progress \in BOOLEAN
           /\ a.delete_all_versions \in BOOLEAN /\ a.if_match \in BOOLEAN
           /\ a.warn_as_error \in BOOLEAN /\ a.mtime \in BOOLEAN
           /\ a.keep_latest_only \in BOOLEAN /\ a.filter_delete_marker_only \in BOOLEAN
           /\ a.filter_script \in Script /\ a.auto_complete_shell \in BOOLEAN
  BY DEF CLIArgs, Target

LEMMA Translated ==
    ASSUME NEW a \in CLIArgs
    PROVE  ToConfig(a) \in ConfigType
  <1> DEFINE Tracing == [on : BOOLEAN, level : 0 .. 5, json : BOOLEAN, disable_color : BOOLEAN]
             Filter == [ attribute : BOOLEAN, size : BOOLEAN, mtime : BOOLEAN, key : BOOLEAN,
                         keep_latest_only : BOOLEAN, delete_marker_only : BOOLEAN ]
             Credential == {"Profile", "Credentials", "FromEnvironment", "none"}
             Lua == {"safe", "all", "unsafe"}
             Bucket == {"", "plain", "express"}
             Prefix == {"", "p"}
             prefix == IF a.target.slash THEN a.target.prefix ELSE ""
             filtered == a.filter_script # "none"
             observed == a.event_script # "none"
  <1>1. BuildTracingConfig(a) \in Tracing
    BY TracingBuilt
  <1>2. BuildFilterConfig(a) \in Filter
    BY ArgTypes DEF BuildFilterConfig
  <1>3. BuildClientConfig(a) \in Credential
    BY DEF BuildClientConfig
  <1>4. LuaMode(a) \in Lua
    BY DEF LuaMode
  <1>5. BatchSize(a) \in Nat
    BY ArgTypes DEF BatchSize
  <1>6. prefix \in Prefix /\ filtered \in BOOLEAN /\ observed \in BOOLEAN
    BY ArgTypes
  <1>7. a.target.bucket \in Bucket
    BY ArgTypes
  <1>8. [ bucket |-> a.target.bucket, prefix |-> prefix,
          credential |-> BuildClientConfig(a), tracing |-> BuildTracingConfig(a),
          filter |-> BuildFilterConfig(a),
          dry_run |-> a.dry_run, force |-> a.force, show_no_progress |-> a.show_no_progress,
          delete_all_versions |-> a.delete_all_versions, if_match |-> a.if_match,
          warn_as_error |-> a.warn_as_error,
          batch_size |-> BatchSize(a), rate_limit_objects |-> a.rate_limit_objects,
          filter_script |-> a.filter_script, filter_registered |-> filtered,
          event_registered |-> observed, lua |-> LuaMode(a),
          auto_complete_shell |-> a.auto_complete_shell ]
        \in [ bucket : Bucket, prefix : Prefix, credential : Credential, tracing : Tracing,
              filter : Filter, dry_run : BOOLEAN, force : BOOLEAN, show_no_progress : BOOLEAN,
              delete_all_versions : BOOLEAN, if_match : BOOLEAN, warn_as_error : BOOLEAN,
              batch_size : Nat, rate_limit_objects : Nat, filter_script : Script,
              filter_registered : BOOLEAN, event_registered : BOOLEAN, lua : Lua,
              auto_complete_shell : BOOLEAN ]
    <2> HIDE DEF Tracing, Filter, Credential, Lua, Bucket, Prefix, prefix, filtered, observed
    <2>1. /\ a.dry_run \in BOOLEAN /\ a.force \in BOOLEAN /\ a.show_no_progress \in BOOLEAN
          /\ a.delete_all_versions \in BOOLEAN /\ a.if_match \in BOOLEAN
          /\ a.warn_as_error \in BOOLEAN /\ a.rate_limit_objects \in Nat
          /\ a.filter_script \in Script /\ a.auto_complete_shell \in BOOLEAN
      BY ArgTypes
    <2>2. QED
      BY <1>1, <1>2, <1>3, <1>4, <1>5, <1>6, <1>7, <2>1
  <1>9. QED
    BY <1>8, Zenon DEF ToConfig, ConfigType

(* What clap and Config::try_from accept breaks no rule of check_prerequisites,   *)
(* and a rate limiter that holds a batch.                                         *)
LEMMA Validated ==
    ASSUME NEW a \in CLIArgs, Accepts(a), Converts(a)
    PROVE  LET c == ToConfig(a)
           IN  /\ ~ForbiddenCombination(c)
               /\ c.rate_limit_objects # None => c.batch_size <= c.rate_limit_objects
               /\ c.bucket = "express" /\ ~a.allow_parallel_listings_in_express_one_zone
                     => c.batch_size = 1
               /\ c.tracing = BuildTracingConfig(a)
  <1> DEFINE c == ToConfig(a)
  <1>1. /\ c.filter = BuildFilterConfig(a) /\ c.delete_all_versions = a.delete_all_versions
        /\ c.if_match = a.if_match /\ c.rate_limit_objects = a.rate_limit_objects
        /\ c.batch_size = BatchSize(a) /\ c.bucket = a.target.bucket
        /\ c.tracing = BuildTracingConfig(a)
    BY DEF ToConfig
  <1> HIDE DEF c
  <1>2. c.filter.keep_latest_only = a.keep_latest_only
        /\ c.filter.delete_marker_only = a.filter_delete_marker_only
    BY <1>1 DEF BuildFilterConfig
  <1>3. ~ForbiddenCombination(c)
    BY <1>1, <1>2
    DEF Accepts, KeepLatestOnlyRules, DeleteMarkerOnlyRules, FlagRules, ForbiddenCombination
  <1>4. c.rate_limit_objects # None => c.batch_size <= c.rate_limit_objects
    BY <1>1, ArgTypes DEF Converts, RateLimitFits, BatchSize
  <1>5. c.bucket = "express" /\ ~a.allow_parallel_listings_in_express_one_zone => c.batch_size = 1
    BY <1>1 DEF BatchSize, IsExpressOnezoneStorage
  <1>6. QED
    BY <1>1, <1>3, <1>4, <1>5 DEF c

-----------------------------------------------------------------------------
(* The configuration is there when somebody looks. *)

LEMMA ConfigInit == Init => ConfigLoaded
  BY StartupAssumption DEF Init, ConfigLoaded

(* The step by which check_prerequisites clears the flag. *)
ClearsFlag ==
    /\ pc = "versioning"
    /\ IsExpressOnezoneStorage(config.bucket) \/ ~IsVersionedStatus(versioning)
    /\ ~NeedsVersions(config)
    /\ config' = [config EXCEPT !.delete_all_versions = FALSE]
    /\ Succeed

(* Every step but two leaves the configuration alone. *)
LEMMA ConfigSteps ==
    ASSUME [Next]_vars
    PROVE  \/ UNCHANGED config
           \/ LoadConfig
           \/ ClearsFlag
  <1>1. CASE CheckVersioning
    BY <1>1 DEF CheckVersioning, ClearsFlag, Succeed, Fail, Panic
  <1>2. CASE Confirm \/ CheckCombinations \/ CheckBeforeDeletion
    BY <1>2 DEF Confirm, CheckCombinations, CheckBeforeDeletion, Fail, Succeed
  <1>3. CASE \/ OtherClient \/ PrintCompletionScript \/ CheckPrerequisites \/ InterruptPrompt
             \/ Run \/ Execute \/ Finish \/ Return
    BY <1>3 DEF OtherClient, PrintCompletionScript, CheckPrerequisites, InterruptPrompt, Run,
                Execute, Finish, Return
  <1>4. QED
    BY <1>1, <1>2, <1>3 DEF Next

(* Where a refused check leads. *)
LEMMA FailSteps ==
    ASSUME NEW e, Fail(e)
    PROVE  /\ UNCHANGED <<caller, args, versioning, within, config, ready, prerequisites_checked,
                          listing, stages>>
           /\ refused' = e
           /\ \/ /\ within = "caller" /\ caller = "main" /\ pc' = "exited"
                 /\ exit' = (IF IsCancelledError(e) THEN 0 ELSE ExitCode(e))
                 /\ UNCHANGED <<errors, events>>
              \/ within = "caller" /\ caller = "library" /\ pc' = "created"
                    /\ UNCHANGED <<errors, events>>
              \/ /\ within = "run" /\ pc' = "returned"
                 /\ errors' = Append(errors, e)
                 /\ \E c \in BOOLEAN : events' = events \o CompletionEvents(errors', c)
  BY DEF Fail, Exit

(* The steps of a check, by what they establish and what they leave alone. *)
LEMMA CheckSteps ==
    ASSUME CheckBeforeDeletion \/ Confirm \/ CheckCombinations \/ CheckVersioning
    PROVE  \/ /\ UNCHANGED <<caller, args, versioning, within, ready, errors, events, listing,
                             stages, refused>>
              /\ \/ pc = "safety" /\ SkipsConfirmation /\ pc' = "combinations"
                    /\ UNCHANGED <<config, prerequisites_checked, prompts, confirmed>>
                 \/ pc = "safety" /\ pc' = "prompt" /\ prompts' = prompts + 1
                    /\ UNCHANGED <<config, prerequisites_checked, confirmed>>
                 \/ pc = "prompt" /\ confirmed' = TRUE /\ pc' = "combinations"
                    /\ UNCHANGED <<config, prerequisites_checked, prompts>>
                 \/ pc = "combinations" /\ ~ForbiddenCombination(config)
                    /\ config.delete_all_versions /\ pc' = "versioning"
                    /\ UNCHANGED <<config, prerequisites_checked, prompts, confirmed>>
                 \/ pc = "versioning" /\ pc' = "panicked"
                    /\ UNCHANGED <<config, prerequisites_checked, prompts, confirmed>>
           \/ /\ pc = "combinations" /\ ~ForbiddenCombination(config)
              /\ ~config.delete_all_versions /\ Succeed /\ UNCHANGED config
           \/ /\ pc = "versioning" /\ config.bucket # "express"
              /\ IsVersionedStatus(versioning) /\ Succeed /\ UNCHANGED config
           \/ ClearsFlag
           \/ /\ pc \in Checking /\ UNCHANGED confirmed /\ UNCHANGED prompts
              /\ \E e \in Errors : /\ Fail(e)
                                   /\ e = "Combination" => ForbiddenCombination(config)
  <1>1. CASE CheckBeforeDeletion
    BY <1>1 DEF CheckBeforeDeletion, Checking, Errors
  <1>2. CASE Confirm
    BY <1>2 DEF Confirm, Checking, Errors
  <1>3. CASE CheckCombinations
    BY <1>3 DEF CheckCombinations, Checking, Errors
  <1>4. CASE CheckVersioning
    BY <1>4 DEF CheckVersioning, Checking, Errors, Panic, ClearsFlag, IsExpressOnezoneStorage
  <1>5. QED
    BY <1>1, <1>2, <1>3, <1>4

LEMMA ConfigStep ==
    ASSUME ConfigLoaded, [Next]_vars
    PROVE  ConfigLoaded'
  <1>1. CASE LoadConfig
    <2>1. CASE Accepts(args) /\ Converts(args)
      <3>1. config' \in ConfigType
        BY <1>1, <2>1, Translated DEF LoadConfig, ConfigLoaded
      <3>2. QED
        BY <1>1, <2>1, <3>1 DEF LoadConfig, ConfigLoaded
    <2>2. CASE ~(Accepts(args) /\ Converts(args))
      BY <1>1, <2>2 DEF LoadConfig, ConfigLoaded, Exit
    <2>3. QED
      BY <2>1, <2>2
  <1>2. CASE CheckBeforeDeletion \/ Confirm \/ CheckCombinations \/ CheckVersioning
    <2>1. CASE ClearsFlag
      <3>1. config' \in ConfigType
        BY <2>1, FlagCleared DEF ClearsFlag, ConfigLoaded
      <3>2. QED
        BY <2>1, <3>1 DEF ClearsFlag, Succeed, ConfigLoaded
    <2>2. ASSUME NEW e, Fail(e), pc \in Checking PROVE ConfigLoaded'
      BY <2>2, FailSteps DEF ConfigLoaded, Checking
    <2>3. CASE Succeed /\ UNCHANGED config /\ pc \in Checking
      BY <2>3 DEF Succeed, ConfigLoaded, Checking
    <2>4. QED
      BY <1>2, <2>1, <2>2, <2>3, CheckSteps DEF ConfigLoaded, Checking
  <1>3. CASE OtherClient
    BY <1>3 DEF OtherClient, ConfigLoaded, VersioningStates
  <1>4. CASE PrintCompletionScript \/ CheckPrerequisites \/ InterruptPrompt \/ Return
    BY <1>4 DEF PrintCompletionScript, CheckPrerequisites, InterruptPrompt, Return, Exit,
                ConfigLoaded
  <1>5. CASE Run \/ Execute \/ Finish
    BY <1>5 DEF Run, Execute, Finish, Panic, ConfigLoaded
  <1>6. CASE UNCHANGED vars
    BY <1>6 DEF ConfigLoaded
  <1>7. QED
    BY <1>1, <1>2, <1>3, <1>4, <1>5, <1>6 DEF Next

-----------------------------------------------------------------------------
(* Nothing is listed that was not asked for and checked. *)

LEMMA AskedKept ==
    ASSUME NEW c, confirmed => confirmed', Asked(c)
    PROVE  Asked(c)'
  BY DEF Asked

LEMMA AgreesKept ==
    ASSUME NEW c, versioning # "never" => versioning' # "never", Agrees(c)
    PROVE  Agrees(c)'
  BY DEF Agrees

LEMMA CheckStep ==
    ASSUME CheckInv, [Next]_vars
    PROVE  CheckInv'
  <1>0. ConfigLoaded /\ CheckedFor /\ ConfigLoaded'
    BY ConfigStep DEF CheckInv
  <1> SUFFICES CheckedFor'
    BY <1>0 DEF CheckInv
  <1>1. CASE LoadConfig
    BY <1>0, <1>1 DEF LoadConfig, Exit, CheckedFor, ConfigLoaded, Executed, Asked, Agrees
  <1>2. CASE CheckBeforeDeletion \/ Confirm \/ CheckCombinations \/ CheckVersioning
    <2>1. CASE ClearsFlag
      <3> DEFINE d == [config EXCEPT !.delete_all_versions = FALSE]
      <3>1. config \in ConfigType /\ pc = "versioning" /\ config' = d
        BY <1>0, <2>1 DEF ClearsFlag, ConfigLoaded
      <3>2. /\ d.delete_all_versions = FALSE
            /\ d.dry_run = config.dry_run /\ d.force = config.force
            /\ d.filter = config.filter
        BY <3>1, FlagCleared
      <3> HIDE DEF d
      <3>3. Agrees(d)
        BY <2>1, <3>2 DEF ClearsFlag, NeedsVersions, Agrees, ForbiddenCombination
      <3>4. Asked(d)
        BY <1>0, <3>1, <3>2 DEF CheckedFor, Asked
      <3>5. UNCHANGED <<versioning, confirmed, listing, stages>>
            /\ pc' \in {"execute", "created"} /\ prerequisites_checked'
        BY <2>1 DEF ClearsFlag, Succeed, Checked
      <3>6. \A c : (Asked(c)' <=> Asked(c)) /\ (Agrees(c)' <=> Agrees(c))
        BY <3>5 DEF Asked, Agrees
      <3>7. QED
        BY <1>0, <3>1, <3>3, <3>4, <3>5, <3>6 DEF CheckedFor, Executed
    <2>2. ASSUME NEW e, Fail(e), pc \in Checking, UNCHANGED confirmed PROVE CheckedFor'
      BY <1>0, <2>2, FailSteps DEF CheckedFor, Executed, Asked, Agrees
    <2>3. CASE /\ Succeed /\ UNCHANGED config /\ pc \in {"combinations", "versioning"}
               /\ ~ForbiddenCombination(config)
               /\ config.delete_all_versions =>
                     config.bucket # "express" /\ IsVersionedStatus(versioning)
      <3>1. Agrees(config) /\ Asked(config)
        BY <1>0, <2>3 DEF CheckedFor, Agrees, IsVersionedStatus
      <3>2. UNCHANGED <<config, versioning, confirmed, listing, stages>>
            /\ pc' \in {"execute", "created"} /\ prerequisites_checked'
        BY <2>3 DEF Succeed, Checked
      <3>3. \A c : (Asked(c)' <=> Asked(c)) /\ (Agrees(c)' <=> Agrees(c))
        BY <3>2 DEF Asked, Agrees
      <3>4. QED
        BY <1>0, <3>1, <3>2, <3>3 DEF CheckedFor, Executed
    <2>4. CASE /\ UNCHANGED <<config, versioning, listing, stages, prerequisites_checked>>
               /\ \/ pc = "safety" /\ SkipsConfirmation /\ pc' = "combinations"
                     /\ UNCHANGED confirmed
                  \/ pc = "safety" /\ pc' = "prompt" /\ UNCHANGED confirmed
                  \/ pc = "prompt" /\ confirmed' = TRUE /\ pc' = "combinations"
                  \/ pc = "combinations" /\ ~ForbiddenCombination(config)
                     /\ config.delete_all_versions /\ pc' = "versioning"
                     /\ UNCHANGED confirmed
                  \/ pc = "versioning" /\ pc' = "panicked" /\ UNCHANGED confirmed
      BY <1>0, <2>4 DEF CheckedFor, Executed, Asked, Agrees, SkipsConfirmation
    <2>5. pc = "versioning" => ~ForbiddenCombination(config) /\ config.delete_all_versions
      BY <1>0 DEF CheckedFor
    <2>6. QED
      BY <1>2, <2>1, <2>2, <2>3, <2>4, <2>5, CheckSteps
  <1>3. CASE OtherClient
    BY <1>0, <1>3 DEF OtherClient, CheckedFor, Executed, Asked, Agrees, ConfigLoaded
  <1>4. CASE PrintCompletionScript \/ CheckPrerequisites \/ InterruptPrompt \/ Return
    BY <1>0, <1>4 DEF PrintCompletionScript, CheckPrerequisites, InterruptPrompt, Return, Exit,
                CheckedFor, Executed, Asked, Agrees
  <1>5. CASE Run \/ Finish
    BY <1>0, <1>5 DEF Run, Finish, Panic, MayExecute, CheckedFor, Executed, Asked, Agrees
  <1>6. CASE Execute
    BY <1>0, <1>6 DEF Execute, ConfigLoaded, CheckedFor, Executed, Asked, Agrees
  <1>7. CASE UNCHANGED vars
    BY <1>0, <1>7 DEF CheckedFor, Executed, Asked, Agrees
  <1>8. QED
    BY <1>1, <1>2, <1>3, <1>4, <1>5, <1>6, <1>7 DEF Next

LEMMA CheckHolds == Spec => []CheckInv
  <1>1. Init => CheckInv
    BY ConfigInit DEF Init, CheckInv, CheckedFor, Executed
  <1>2. QED
    BY <1>1, CheckStep, PTL DEF Spec

(* Nothing is listed by a run that is not a dry run, was not forced and was not   *)
(* confirmed, for the program and for every sequence of calls of a library user.  *)
THEOREM Unconfirmed == Spec => []NoUnconfirmedDeletion
  <1>1. CheckInv => NoUnconfirmedDeletion
    BY DEF CheckInv, CheckedFor, Asked, NoUnconfirmedDeletion
  <1>2. QED
    BY <1>1, CheckHolds, PTL

(* The lister, the filters and the deleters agree on the mode, however the check  *)
(* rewrote the configuration and whatever other clients did to the bucket.        *)
THEOREM Agreement == Spec => []ModesAgree
  <1>1. CheckInv => ModesAgree
    <2> SUFFICES ASSUME CheckInv, Executed PROVE ModesAgree
      BY DEF ModesAgree
    <2>1. stages.delete_all_versions \in BOOLEAN
      <3>1. stages \in ConfigType
        BY DEF CheckInv, CheckedFor
      <3>2. QED
        BY <3>1 DEF ConfigType
    <2>2. QED
      BY <2>1 DEF CheckInv, CheckedFor, Agrees, ForbiddenCombination, ModesAgree
  <1>2. QED
    BY <1>1, CheckHolds, PTL

(* The flag that asks for all versions is only ever cleared for a bucket that     *)
(* holds no versions.                                                             *)
THEOREM VersionsHonoured == Spec => AllVersionsHonoured
  <1> DEFINE A == listing = "none" /\ config # Absent /\ config' # Absent
                  /\ config.delete_all_versions /\ ~config'.delete_all_versions
                  => versioning = "never" \/ config.bucket = "express"
  <1>1. CheckInv /\ [Next]_vars => [A]_vars
    <2> SUFFICES ASSUME CheckInv, [Next]_vars PROVE A
      OBVIOUS
    <2>1. CASE UNCHANGED config
      BY <2>1
    <2>2. CASE LoadConfig
      BY <2>2 DEF LoadConfig, CheckInv, ConfigLoaded
    <2>3. CASE ClearsFlag
      BY <2>3 DEF ClearsFlag, CheckInv, ConfigLoaded, IsExpressOnezoneStorage, IsVersionedStatus,
                  VersioningStates
    <2>4. QED
      BY <2>1, <2>2, <2>3, ConfigSteps
  <1>2. QED
    BY <1>1, CheckHolds, PTL DEF Spec, AllVersionsHonoured

-----------------------------------------------------------------------------
(* Events of a run. *)

Bracketed(evs, errs) ==
    \E cancel \in {<<>>, <<"DELETE_CANCEL">>} :
        evs = <<"PIPELINE_START">> \o (IF errs = <<>> THEN <<>> ELSE <<"PIPELINE_ERROR">>)
                  \o cancel \o <<"PIPELINE_END">>
LEMMA Brackets ==
    ASSUME NEW errs, NEW c \in BOOLEAN
    PROVE  Bracketed(<<"PIPELINE_START">> \o CompletionEvents(errs, c), errs)
  <1> DEFINE evs == <<"PIPELINE_START">> \o CompletionEvents(errs, c)
             x == IF errs = <<>> THEN <<>> ELSE <<"PIPELINE_ERROR">>
  <1>1. CASE c
    <2>1. evs = <<"PIPELINE_START">> \o x \o <<"DELETE_CANCEL">> \o <<"PIPELINE_END">>
      <3>1. CASE errs = <<>>
        BY <1>1, <3>1 DEF CompletionEvents
      <3>2. CASE errs # <<>>
        BY <1>1, <3>2 DEF CompletionEvents
      <3>3. QED
        BY <3>1, <3>2
    <2> HIDE DEF evs
    <2>2. Bracketed(evs, errs)
      BY <2>1 DEF Bracketed
    <2>3. QED
      BY <2>2 DEF evs
  <1>2. CASE ~c
    <2>1. evs = <<"PIPELINE_START">> \o x \o <<>> \o <<"PIPELINE_END">>
      <3>1. CASE errs = <<>>
        BY <1>2, <3>1 DEF CompletionEvents
      <3>2. CASE errs # <<>>
        BY <1>2, <3>2 DEF CompletionEvents
      <3>3. QED
        BY <3>1, <3>2
    <2> HIDE DEF evs
    <2>2. Bracketed(evs, errs)
      BY <2>1 DEF Bracketed
    <2>3. QED
      BY <2>2 DEF evs
  <1>3. QED
    BY <1>1, <1>2

LEMMA ReportStep ==
    ASSUME Reported, [Next]_vars
    PROVE  Reported'
  <1>1. CASE LoadConfig \/ PrintCompletionScript \/ InterruptPrompt
    BY <1>1 DEF LoadConfig, PrintCompletionScript, InterruptPrompt, Exit, Reported, Checking,
                EventsBracketRun
  <1>2. CASE CheckBeforeDeletion \/ Confirm \/ CheckCombinations \/ CheckVersioning
    <2>1. CASE Succeed /\ pc \in Checking
      BY <2>1 DEF Succeed, Reported, Checking, EventsBracketRun
    <2>2. ASSUME NEW e, Fail(e), pc \in Checking PROVE Reported'
      <3>1. CASE within = "caller"
        BY <2>2, <3>1, FailSteps DEF Reported, Checking, EventsBracketRun
      <3>2. CASE within = "run"
        <4>0. events = <<"PIPELINE_START">> /\ errors = <<>>
          BY <2>2, <3>2 DEF Reported
        <4>1. /\ pc' = "returned" /\ errors' = <<e>> /\ UNCHANGED ready
              /\ \E c \in BOOLEAN : events' = <<"PIPELINE_START">> \o CompletionEvents(errors', c)
          BY <2>2, <3>2, <4>0, FailSteps
        <4>2. ~ready
          BY <2>2, <3>2 DEF Reported
        <4>3. EventsBracketRun'
          BY <4>1, Brackets DEF EventsBracketRun, Bracketed
        <4>4. QED
          BY <4>1, <4>2, <4>3 DEF Reported, Checking
      <3>3. QED
        BY <2>2, <3>1, <3>2, FailSteps
    <2>3. CASE /\ UNCHANGED <<within, ready, errors, events>>
               /\ pc \in Checking /\ pc' \in Checking \cup {"panicked"}
      BY <2>3 DEF Reported, Checking, EventsBracketRun
    <2>4. QED
      BY <1>2, <2>1, <2>2, <2>3, CheckSteps DEF Checking, ClearsFlag
  <1>3. CASE OtherClient \/ UNCHANGED vars
    BY <1>3 DEF OtherClient, Reported, EventsBracketRun
  <1>4. CASE CheckPrerequisites \/ Return \/ Execute
    BY <1>4 DEF CheckPrerequisites, Return, Execute, Exit, Reported, Checking, EventsBracketRun
  <1>5. CASE Run
    <2>1. CASE ready
      <3>1. events = <<>> /\ errors = <<>>
        BY <2>1 DEF Reported
      <3>2. events' = <<"PIPELINE_START">> /\ errors' = <<>> /\ ready' = FALSE
            /\ within' = "run" /\ pc' \in {"execute", "safety"}
        BY <1>5, <2>1, <3>1 DEF Run
      <3>3. QED
        BY <3>2 DEF Reported, EventsBracketRun
    <2>2. CASE ~ready
      BY <1>5, <2>2 DEF Run, Panic, Reported, Checking, EventsBracketRun
    <2>3. QED
      BY <2>1, <2>2
  <1>6. CASE Finish
    <2>1. events = <<"PIPELINE_START">> /\ errors = <<>> /\ ~ready
      BY <1>6 DEF Finish, Reported
    <2>2. /\ errors' = <<>> \/ errors' = <<"Pipeline">>
          /\ \E c \in BOOLEAN : events' = <<"PIPELINE_START">> \o CompletionEvents(errors', c)
          /\ pc' = "returned" /\ UNCHANGED ready
      BY <1>6, <2>1 DEF Finish
    <2>3. EventsBracketRun'
      BY <2>2, Brackets DEF EventsBracketRun, Bracketed
    <2>4. QED
      BY <2>1, <2>2, <2>3 DEF Reported, Checking
  <1>7. QED
    BY <1>1, <1>2, <1>3, <1>4, <1>5, <1>6 DEF Next

(* Every run() that returns, refused, failed or well, has triggered its start and *)
(* its end, once each, and an error between them if and only if it recorded one.  *)
THEOREM EventsBracket == Spec => []EventsBracketRun
  <1>1. Init => Reported
    BY DEF Init, Reported, Checking, EventsBracketRun
  <1>2. Reported => EventsBracketRun
    BY DEF Reported
  <1>3. QED
    BY <1>1, <1>2, ReportStep, PTL DEF Spec

-----------------------------------------------------------------------------
(* The program. *)

LEMMA ExitCodes ==
    ASSUME NEW e
    PROVE  (IF IsCancelledError(e) THEN 0 ELSE ExitCode(e)) = 0 <=> e = "Cancelled"
  BY DEF IsCancelledError, ExitCode

LEMMA MainStep ==
    ASSUME MainInv, Reported, [Next]_vars
    PROVE  MainInv'
  <1>0. ConfigLoaded /\ MainOnce /\ ConfigLoaded'
    BY ConfigStep DEF MainInv
  <1> SUFFICES ASSUME caller = "main" PROVE MainOnce'
    <2>1. UNCHANGED caller
      <3>1. CASE CheckBeforeDeletion \/ Confirm \/ CheckCombinations \/ CheckVersioning
        BY <3>1, CheckSteps, FailSteps DEF ClearsFlag, Succeed
      <3>2. QED
        BY <3>1 DEF Next, OtherClient, LoadConfig, PrintCompletionScript, CheckPrerequisites,
                    InterruptPrompt, Run, Execute, Finish, Return
    <2>2. QED
      BY <1>0, <2>1 DEF MainInv, MainOnce
  <1> USE DEF Executed
  <1>1. CASE LoadConfig
    <2>1. CASE Accepts(args) /\ Converts(args)
      <3>1. config' = ToConfig(args) /\ UNCHANGED args
        BY <1>1, <2>1 DEF LoadConfig
      <3>2. ~ForbiddenCombination(config)' /\ Limited(config)'
        BY <1>0, <2>1, <3>1, Validated DEF ConfigLoaded, Limited, ForbiddenCombination
      <3>3. QED
        BY <1>0, <1>1, <2>1, <3>2 DEF LoadConfig, MainOnce, Limited
    <2>2. CASE ~(Accepts(args) /\ Converts(args))
      BY <1>0, <1>1, <2>2 DEF LoadConfig, MainOnce, Exit, Limited
    <2>3. QED
      BY <2>1, <2>2
  <1>2. CASE CheckBeforeDeletion \/ Confirm \/ CheckCombinations \/ CheckVersioning
    <2>0. within = "caller" /\ pc \in Checking /\ refused = "no" /\ listing = "none"
          /\ ~ForbiddenCombination(config) /\ Limited(config) /\ prompts \in {0, 1}
          /\ (pc = "safety" => prompts = 0)
      BY <1>0, <1>2 DEF CheckBeforeDeletion, Confirm, CheckCombinations, CheckVersioning,
                        MainOnce, Checking
    <2>1. ASSUME NEW e, Fail(e), e = "Combination" => ForbiddenCombination(config),
                 UNCHANGED prompts
          PROVE  MainOnce'
      <3>1. pc' = "exited" /\ refused' = e /\ UNCHANGED <<within, listing>>
            /\ exit' = (IF IsCancelledError(e) THEN 0 ELSE ExitCode(e))
        BY <2>0, <2>1, FailSteps
      <3>2. exit' = 0 <=> e = "Cancelled"
        BY <3>1, ExitCodes
      <3>3. QED
        BY <2>0, <2>1, <3>1, <3>2 DEF MainOnce
    <2>2. CASE Succeed
      <3>1. /\ pc' = "created" /\ prerequisites_checked'
            /\ UNCHANGED <<args, within, listing, stages, refused, prompts>>
        BY <2>0, <2>2 DEF Succeed, Checked
      <3>2. ~ForbiddenCombination(config)' /\ Limited(config)'
        <4>1. CASE UNCHANGED config
          BY <2>0, <3>1, <4>1 DEF ForbiddenCombination, Limited
        <4>2. CASE ClearsFlag
          <5> DEFINE d == [config EXCEPT !.delete_all_versions = FALSE]
          <5>1. config \in ConfigType /\ config' = d
            BY <1>0, <4>2 DEF ClearsFlag, ConfigLoaded
          <5>2. /\ d.delete_all_versions = FALSE /\ d.filter = config.filter
                /\ d.bucket = config.bucket
                /\ d.rate_limit_objects = config.rate_limit_objects
                /\ d.batch_size = config.batch_size
            BY <5>1, FlagCleared
          <5> HIDE DEF d
          <5>3. QED
            BY <2>0, <3>1, <4>2, <5>1, <5>2
            DEF ForbiddenCombination, Limited, ClearsFlag, NeedsVersions
        <4>3. QED
          BY <2>0, <4>1, <4>2, ConfigSteps DEF LoadConfig, Checking
      <3>3. QED
        BY <2>0, <3>1, <3>2 DEF MainOnce
    <2>3. CASE /\ UNCHANGED <<args, within, listing, stages, refused, config>>
               /\ \/ pc' \in {"combinations", "versioning", "panicked"} /\ UNCHANGED prompts
                  \/ pc = "safety" /\ pc' = "prompt" /\ prompts' = prompts + 1
      BY <2>0, <2>3 DEF MainOnce, ForbiddenCombination, Limited
    <2>4. QED
      BY <1>2, <2>1, <2>2, <2>3, CheckSteps DEF ClearsFlag
  <1>3. CASE OtherClient \/ UNCHANGED vars
    BY <1>0, <1>3 DEF OtherClient, MainOnce, Limited, ForbiddenCombination
  <1>4. CASE CheckPrerequisites
    BY <1>0, <1>4 DEF CheckPrerequisites, MainOnce, Limited, ForbiddenCombination
  <1>5. CASE PrintCompletionScript \/ InterruptPrompt \/ Return
    BY <1>0, <1>5 DEF PrintCompletionScript, InterruptPrompt, Return, Exit, MainOnce, Limited,
                      ForbiddenCombination
  <1>6. CASE Run
    BY <1>0, <1>6 DEF Run, MayExecute, Panic, MainOnce, Limited, ForbiddenCombination
  <1>7. CASE Execute \/ Finish
    BY <1>0, <1>7 DEF Execute, Finish, Reported, MainOnce, Limited, ForbiddenCombination
  <1>8. QED
    BY <1>1, <1>2, <1>3, <1>4, <1>5, <1>6, <1>7 DEF Next

(* What the program gets right on its way to the first request: a refusal ends it *)
(* with the status its reason calls for, clap refuses every combination that the  *)
(* check would, the user is asked at most once, and a batch fits the rate limit.  *)
THEOREM MainKeepsContract == Spec => []MainContract
  <1>1. Init => MainInv /\ Reported
    <2> SUFFICES ASSUME Init PROVE MainInv /\ Reported
      OBVIOUS
    <2>1. Reported
      BY DEF Init, Reported, Checking, EventsBracketRun
    <2>2. MainOnce
      BY DEF Init, MainOnce, Executed
    <2>3. QED
      BY <2>1, <2>2, ConfigInit DEF MainInv
  <1>2. MainInv => MainContract
    BY DEF MainInv, MainOnce, MainContract, RefusalEndsMain, ClapCoversCombinations, PromptedOnce,
           LimitsHold, Limited
  <1>3. QED
    BY <1>1, <1>2, MainStep, ReportStep, PTL DEF Spec

-----------------------------------------------------------------------------
(* Types. *)

EventNames == {"PIPELINE_START", "PIPELINE_ERROR", "DELETE_CANCEL", "PIPELINE_END"}
ConfigOK == config # Absent => config \in ConfigType /\ (config.tracing.on => config.tracing.level > 0)
StateOK ==
    /\ interactive \in BOOLEAN
    /\ within \in {"caller", "run"}
    /\ ready \in BOOLEAN /\ prerequisites_checked \in BOOLEAN
    /\ calls \in 0 .. MaxCalls /\ prompts \in Nat /\ confirmed \in BOOLEAN
    /\ args = Absent \/ args \in CLIArgs
    /\ stages = Absent \/ stages \in ConfigType
PlaceOK ==
    pc \in {"load", "completion", "created", "safety", "prompt", "combinations", "versioning",
            "execute", "executing", "returned", "exited", "panicked"}
RecordOK ==
    /\ errors \in Seq(Errors)
    /\ events \in Seq(EventNames)
    /\ exit \in {0, 1, 2, 3, 101, 130, NoExit}
    /\ refused \in Errors \cup {"no"}
TypeInv == ConfigLoaded /\ ConfigOK /\ StateOK /\ PlaceOK /\ RecordOK

LEMMA ConfigOKStep ==
    ASSUME TypeInv, [Next]_vars
    PROVE  ConfigOK'
  <1>0. ConfigLoaded /\ ConfigOK
    BY DEF TypeInv
  <1>1. CASE UNCHANGED config
    BY <1>0, <1>1 DEF ConfigOK
  <1>2. CASE LoadConfig
    <2>1. CASE Accepts(args) /\ Converts(args)
      <3>1. config' = ToConfig(args) /\ args \in CLIArgs
        BY <1>0, <1>2, <2>1 DEF LoadConfig, ConfigLoaded
      <3>2. config'.tracing = BuildTracingConfig(args) /\ config' \in ConfigType
        BY <2>1, <3>1, Validated, Translated
      <3>3. QED
        BY <3>1, <3>2, TracingBuilt DEF ConfigOK
    <2>2. CASE ~(Accepts(args) /\ Converts(args))
      BY <1>0, <1>2, <2>2 DEF LoadConfig, ConfigOK
    <2>3. QED
      BY <2>1, <2>2
  <1>3. CASE ClearsFlag
    <2> DEFINE d == [config EXCEPT !.delete_all_versions = FALSE]
    <2>1. config \in ConfigType /\ config' = d
      BY <1>0, <1>3 DEF ClearsFlag, ConfigLoaded
    <2>2. d \in ConfigType /\ d.tracing = config.tracing
      BY <2>1, FlagCleared
    <2> HIDE DEF d
    <2>3. config # Absent
      <3>1. DOMAIN Absent = {"absent"}
        BY DEF Absent
      <3>2. "bucket" \in DOMAIN config
        BY <2>1 DEF ConfigType
      <3>3. QED
        BY <3>1, <3>2
    <2>4. QED
      BY <1>0, <2>1, <2>2, <2>3 DEF ConfigOK
  <1>4. QED
    BY <1>1, <1>2, <1>3, ConfigSteps

LEMMA StateOKStep ==
    ASSUME TypeInv, [Next]_vars
    PROVE  StateOK'
  <1>0. ConfigLoaded /\ StateOK /\ MaxCalls \in Nat
    BY StartupAssumption DEF TypeInv
  <1>1. CASE CheckBeforeDeletion \/ Confirm \/ CheckCombinations \/ CheckVersioning
    <2>1. UNCHANGED <<interactive, args, within, ready, calls, stages>>
      BY <1>1 DEF CheckBeforeDeletion, Confirm, CheckCombinations, CheckVersioning, Fail, Succeed,
                  Panic
    <2>2. prerequisites_checked' \in BOOLEAN
      BY <1>0, <1>1 DEF CheckBeforeDeletion, Confirm, CheckCombinations, CheckVersioning, Fail,
                        Succeed, Checked, Panic, StateOK
    <2>3. prompts' \in Nat
      BY <1>0, <1>1 DEF CheckBeforeDeletion, Confirm, CheckCombinations, CheckVersioning,
                        Succeed, Panic, StateOK
    <2>4. confirmed' \in BOOLEAN
      BY <1>0, <1>1 DEF CheckBeforeDeletion, Confirm, CheckCombinations, CheckVersioning,
                        Succeed, Panic, StateOK
    <2>5. QED
      BY <1>0, <2>1, <2>2, <2>3, <2>4 DEF StateOK
  <1>2. CASE Execute
    BY <1>0, <1>2 DEF Execute, ConfigLoaded, StateOK
  <1>3. CASE CheckPrerequisites \/ Run
    <2>1. calls' \in 0 .. MaxCalls
      BY <1>0, <1>3 DEF CheckPrerequisites, Run, StateOK
    <2>2. ready' \in BOOLEAN /\ within' \in {"caller", "run"}
      BY <1>0, <1>3 DEF CheckPrerequisites, Run, StateOK
    <2>3. UNCHANGED <<interactive, args, prerequisites_checked, prompts, confirmed, stages>>
      BY <1>3 DEF CheckPrerequisites, Run
    <2>4. QED
      BY <1>0, <2>1, <2>2, <2>3 DEF StateOK
  <1>4. CASE \/ OtherClient \/ LoadConfig \/ PrintCompletionScript \/ InterruptPrompt \/ Finish
             \/ Return \/ UNCHANGED vars
    <2>1. UNCHANGED <<interactive, args, within, ready, prerequisites_checked, calls, prompts,
                      confirmed, stages>>
      BY <1>4 DEF OtherClient, LoadConfig, PrintCompletionScript, InterruptPrompt, Finish, Return
    <2>2. QED
      BY <1>0, <2>1 DEF StateOK
  <1>5. QED
    BY <1>1, <1>2, <1>3, <1>4 DEF Next

LEMMA PlaceOKStep ==
    ASSUME TypeInv, [Next]_vars
    PROVE  PlaceOK'
  <1>0. PlaceOK
    BY DEF TypeInv
  <1>1. CASE CheckBeforeDeletion \/ Confirm \/ CheckCombinations \/ CheckVersioning
    <2>1. ASSUME NEW e, Fail(e) PROVE PlaceOK'
      BY <2>1, FailSteps DEF PlaceOK
    <2>2. CASE Succeed
      BY <2>2 DEF Succeed, PlaceOK
    <2>3. CASE pc' \in {"combinations", "prompt", "versioning", "panicked"}
      BY <2>3 DEF PlaceOK
    <2>4. QED
      BY <1>1, <2>1, <2>2, <2>3, CheckSteps DEF ClearsFlag
  <1>2. CASE \/ OtherClient \/ LoadConfig \/ PrintCompletionScript \/ CheckPrerequisites
             \/ InterruptPrompt \/ Run \/ Execute \/ Finish \/ Return \/ UNCHANGED vars
    BY <1>0, <1>2 DEF OtherClient, LoadConfig, PrintCompletionScript, CheckPrerequisites,
                      InterruptPrompt, Run, Execute, Finish, Return, Exit, Panic, PlaceOK
  <1>3. QED
    BY <1>1, <1>2 DEF Next

LEMMA CompletionNames ==
    ASSUME NEW errs, NEW c
    PROVE  CompletionEvents(errs, c) \in Seq(EventNames)
  <1>1. /\ <<"PIPELINE_ERROR">> \in Seq(EventNames) /\ <<"PIPELINE_END">> \in Seq(EventNames)
        /\ <<"DELETE_CANCEL">> \in Seq(EventNames) /\ <<>> \in Seq(EventNames)
    BY DEF EventNames
  <1>2. /\ (IF errs # <<>> THEN <<"PIPELINE_ERROR">> ELSE <<>>) \in Seq(EventNames)
        /\ (IF c THEN <<"DELETE_CANCEL">> ELSE <<>>) \in Seq(EventNames)
    BY <1>1
  <1>3. QED
    BY <1>1, <1>2, ConcatProperties DEF CompletionEvents

LEMMA ExitCodeType ==
    ASSUME NEW e
    PROVE  ExitCode(e) \in {0, 1, 2, 3}
  BY DEF ExitCode

LEMMA RecordOKStep ==
    ASSUME TypeInv, [Next]_vars
    PROVE  RecordOK'
  <1>0. RecordOK
    BY DEF TypeInv
  <1>1. CASE CheckBeforeDeletion \/ Confirm \/ CheckCombinations \/ CheckVersioning
    <2>1. ASSUME NEW e \in Errors, Fail(e) PROVE RecordOK'
      <3>1. refused' = e
        BY <2>1 DEF Fail
      <3>2. errors' \in Seq(Errors) /\ (errors' = errors \/ errors' = Append(errors, e))
        <4>1. Append(errors, e) \in Seq(Errors)
          BY <1>0, <2>1, AppendProperties DEF RecordOK
        <4>2. QED
          BY <1>0, <2>1, <4>1 DEF Fail, RecordOK
      <3>3. events' \in Seq(EventNames)
        <4>1. \A c \in BOOLEAN : events \o CompletionEvents(errors', c) \in Seq(EventNames)
          BY <1>0, CompletionNames, ConcatProperties DEF RecordOK
        <4>2. QED
          BY <1>0, <2>1, <4>1 DEF Fail, RecordOK
      <3>4. exit' \in {0, 1, 2, 3, 101, 130, NoExit}
        BY <1>0, <2>1, ExitCodeType DEF Fail, Exit, RecordOK
      <3>5. QED
        BY <3>1, <3>2, <3>3, <3>4 DEF RecordOK
    <2>2. CASE Succeed
      BY <1>0, <2>2 DEF Succeed, RecordOK
    <2>3. CASE Panic /\ UNCHANGED <<errors, events, refused>>
      BY <1>0, <2>3 DEF Panic, RecordOK
    <2>4. CASE UNCHANGED <<errors, events, exit, refused>>
      BY <1>0, <2>4 DEF RecordOK
    <2>5. QED
      BY <1>1, <2>1, <2>2, <2>3, <2>4
      DEF CheckBeforeDeletion, Confirm, CheckCombinations, CheckVersioning, Errors
  <1>2. CASE LoadConfig \/ PrintCompletionScript \/ InterruptPrompt
    BY <1>0, <1>2 DEF LoadConfig, PrintCompletionScript, InterruptPrompt, Exit, RecordOK
  <1>3. CASE OtherClient \/ CheckPrerequisites \/ Execute \/ UNCHANGED vars
    BY <1>0, <1>3 DEF OtherClient, CheckPrerequisites, Execute, RecordOK
  <1>4. CASE Run
    <2>1. Append(events, "PIPELINE_START") \in Seq(EventNames)
      BY <1>0, AppendProperties DEF RecordOK, EventNames
    <2>2. UNCHANGED <<errors, refused>> /\ events' \in Seq(EventNames)
      BY <1>0, <1>4, <2>1 DEF Run, RecordOK
    <2>3. exit' \in {0, 1, 2, 3, 101, 130, NoExit}
      BY <1>0, <1>4 DEF Run, Panic, RecordOK
    <2>4. QED
      BY <1>0, <2>2, <2>3 DEF RecordOK
  <1>5. CASE Finish
    <2>1. errors' \in Seq(Errors)
      BY <1>0, <1>5 DEF Finish, RecordOK, Errors
    <2>2. events' \in Seq(EventNames)
      <3>1. \A c \in BOOLEAN : events \o CompletionEvents(errors', c) \in Seq(EventNames)
        BY <1>0, CompletionNames, ConcatProperties DEF RecordOK
      <3>2. QED
        BY <1>5, <3>1 DEF Finish
    <2>3. QED
      BY <1>0, <1>5, <2>1, <2>2 DEF Finish, RecordOK
  <1>6. CASE Return
    BY <1>0, <1>6, ExitCodeType DEF Return, Exit, RecordOK
  <1>7. QED
    BY <1>1, <1>2, <1>3, <1>4, <1>5, <1>6 DEF Next

(* Every variable keeps its type: the configuration in particular is one that the *)
(* rest of the pipeline can read, from the moment it exists.                      *)
THEOREM StartupTypes == Spec => []TypeOK
  <1>1. Init => TypeInv
    <2> SUFFICES ASSUME Init PROVE TypeInv
      OBVIOUS
    <2>1. ConfigOK
      BY StartupAssumption DEF Init, ConfigOK
    <2>2. StateOK
      <3>1. args = Absent \/ args \in CLIArgs
        BY StartupAssumption DEF Init
      <3>2. calls \in 0 .. MaxCalls
        BY StartupAssumption DEF Init
      <3>3. QED
        BY <3>1, <3>2 DEF Init, StateOK
    <2>3. RecordOK
      BY DEF Init, RecordOK
    <2>4. PlaceOK
      BY DEF Init, PlaceOK
    <2>5. QED
      BY <2>1, <2>2, <2>3, <2>4, ConfigInit DEF TypeInv
  <1>2. TypeInv /\ [Next]_vars => TypeInv'
    BY ConfigStep, ConfigOKStep, StateOKStep, PlaceOKStep, RecordOKStep DEF TypeInv
  <1>3. TypeInv => TypeOK
    BY DEF TypeInv, ConfigLoaded, ConfigOK, StateOK, PlaceOK, RecordOK, EventNames, TypeOK
  <1>4. QED
    BY <1>1, <1>2, <1>3, PTL DEF Spec

=============================================================================
