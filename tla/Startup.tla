------------------------------ MODULE Startup -------------------------------
(* From the command line, or a library caller's Config, to the first listing      *)
(* request: loading the configuration, DeletionPipeline::check_prerequisites with *)
(* the SafetyChecker, DeletionPipeline::run around it, and the early exits of the *)
(* program. What happens between the first listing request and the end of the     *)
(* last stage is one step here; Pipeline models it.                               *)
(*                                                                                *)
(* The program (main) checks the prerequisites and then runs; a library caller    *)
(* may check and run in any order and any number of times, and goes on after an   *)
(* error. Other clients may change the versioning state of the bucket at any      *)
(* moment; S3 never lets a bucket return to the unversioned state.                *)
EXTENDS Arguments, Sequences

CONSTANTS
    CommandLines,  \* the command lines main may be started with
    Configs,       \* the configurations a library caller may build
    MaxCalls       \* bound: calls of check_prerequisites and run by a library caller

ConfigType ==
    [ bucket : {"", "plain", "express"}, prefix : {"", "p"},
      credential : {"Profile", "Credentials", "FromEnvironment", "none"},
      tracing : [on : BOOLEAN, level : 0 .. 5, json : BOOLEAN, disable_color : BOOLEAN],
      filter : [ attribute : BOOLEAN, size : BOOLEAN, mtime : BOOLEAN, key : BOOLEAN,
                 keep_latest_only : BOOLEAN, delete_marker_only : BOOLEAN ],
      dry_run : BOOLEAN, force : BOOLEAN, show_no_progress : BOOLEAN,
      delete_all_versions : BOOLEAN, if_match : BOOLEAN, warn_as_error : BOOLEAN,
      batch_size : Nat, rate_limit_objects : Nat,
      filter_script : Script, filter_registered : BOOLEAN, event_registered : BOOLEAN,
      lua : {"safe", "all", "unsafe"}, auto_complete_shell : BOOLEAN ]

ASSUME StartupAssumption ==
    /\ CommandLines \subseteq CLIArgs
    /\ Configs \subseteq ConfigType
    /\ \A c \in Configs : c.tracing.on => c.tracing.level > 0
    /\ MaxCalls \in Nat

VARIABLES
    caller,                 \* "main" or "library"
    args,                   \* the command line, or Absent
    config,                 \* DeletionPipeline::config, or Absent before it is built
    interactive,            \* stdin and stdout are terminals
    versioning,             \* versioning state of the bucket
    pc,
    within,                 \* who called check_prerequisites: "caller" or "run"
    ready, prerequisites_checked,
    errors,                 \* the recorded errors
    events,                 \* the pipeline events triggered so far
    listing,                \* the listing call made, if any
    stages,                 \* the configuration the stages were built with
    exit,                   \* exit status of the program
    calls, prompts,         \* history: calls by the library user; prompts shown
    confirmed,              \* history: a prompt was answered with "yes"
    refused                 \* history: the last check_prerequisites that failed, and why

given == <<caller, args, interactive>>
pipeline == <<config, ready, prerequisites_checked, errors, events, listing, stages>>
history == <<calls, prompts, confirmed, refused>>
vars == <<given, versioning, pc, within, pipeline, exit, history>>

NoExit == 999
Absent == [absent |-> TRUE]
VersioningStates == {"never", "Enabled", "Suspended"}

Init ==
    /\ \/ caller = "main" /\ args \in CommandLines /\ config = Absent /\ pc = "load"
       \/ caller = "library" /\ args = Absent /\ config \in Configs /\ pc = "created"
    /\ interactive \in BOOLEAN
    /\ versioning \in VersioningStates
    /\ within = "caller"
    /\ ready = TRUE /\ prerequisites_checked = FALSE
    /\ errors = <<>> /\ events = <<>>
    /\ listing = "none" /\ stages = Absent
    /\ exit = NoExit
    /\ calls = 0 /\ prompts = 0 /\ confirmed = FALSE /\ refused = "no"

OtherClient ==
    /\ versioning' \in (IF versioning = "never" THEN {"Enabled"} ELSE {"Enabled", "Suspended"})
    /\ UNCHANGED <<given, pc, within, pipeline, exit, history>>

-----------------------------------------------------------------------------
(* main before the pipeline exists. *)

Exit(code) == pc' = "exited" /\ exit' = code

(* load_config_exit_if_err: clap and a failing conversion both exit with 2. *)
LoadConfig ==
    /\ pc = "load"
    /\ \/ /\ Accepts(args) /\ Converts(args)
          /\ config' = ToConfig(args)
          /\ pc' = IF args.auto_complete_shell THEN "completion" ELSE "created"
          /\ UNCHANGED exit
       \/ /\ ~(Accepts(args) /\ Converts(args))
          /\ Exit(2) /\ UNCHANGED config
    /\ UNCHANGED <<given, versioning, within, ready, prerequisites_checked, errors, events,
                   listing, stages, history>>

IgnoreBrokenPipe(result) == IF result = "BrokenPipe" THEN "Ok" ELSE result

PrintCompletionScript ==
    /\ pc = "completion"
    /\ \E result \in {"Ok", "BrokenPipe", "Other"} :
          Exit(IF IgnoreBrokenPipe(result) = "Ok" THEN 0 ELSE 1)
    /\ UNCHANGED <<given, versioning, within, pipeline, history>>

-----------------------------------------------------------------------------
(* check_prerequisites. *)

CheckPrerequisites ==
    /\ pc = "created"
    /\ IF caller = "main" THEN ~prerequisites_checked /\ UNCHANGED calls
                          ELSE calls < MaxCalls /\ calls' = calls + 1
    /\ pc' = "safety" /\ within' = "caller"
    /\ UNCHANGED <<given, versioning, pipeline, exit, prompts, confirmed, refused>>

ExitCode(e) ==
    CASE e = "Cancelled" -> 0
      [] e \in {"InvalidConfig", "InvalidUri", "InvalidRegex"} -> 2
      [] e = "PartialFailure" -> 3
      [] OTHER -> 1

IsCancelledError(e) == e = "Cancelled"

(* Faulty: an error of the prerequisites ends the run without PIPELINE_END. *)
CompletionEventsEarly(errs, cancelled) ==
    IF errs # <<>> THEN <<"PIPELINE_ERROR">> ELSE <<"PIPELINE_END">>
(* The events of fire_completion_events. A library caller, Ctrl+C or a stage may  *)
(* have cancelled the token by then.                                              *)
CompletionEvents(errs, cancelled) ==
    (IF errs # <<>> THEN <<"PIPELINE_ERROR">> ELSE <<>>)
        \o (IF cancelled THEN <<"DELETE_CANCEL">> ELSE <<>>)
        \o <<"PIPELINE_END">>

(* check_prerequisites returns Err(e): main exits, a library caller is free to go *)
(* on, and run() records the error, shuts down and fires the completion events.   *)
Fail(e) ==
    /\ refused' = e
    /\ \/ /\ within = "caller" /\ caller = "main"
          /\ Exit(IF IsCancelledError(e) THEN 0 ELSE ExitCode(e))
          /\ UNCHANGED <<errors, events>>
       \/ /\ within = "caller" /\ caller = "library"
          /\ pc' = "created" /\ UNCHANGED <<exit, errors, events>>
       \/ /\ within = "run"
          /\ errors' = Append(errors, e)
          /\ \E cancelled \in BOOLEAN : events' = events \o CompletionEvents(errors', cancelled)
          /\ pc' = "returned" /\ UNCHANGED exit
    /\ UNCHANGED <<given, versioning, within, config, ready, prerequisites_checked, listing,
                   stages, calls>>

(* SafetyChecker::is_non_interactive. *)
IsNonInteractive == config.tracing.json \/ ~interactive

SkipsConfirmation == config.dry_run \/ config.force

CheckBeforeDeletion ==
    /\ pc = "safety"
    /\ \/ /\ SkipsConfirmation
          /\ pc' = "combinations"
          /\ UNCHANGED <<given, versioning, within, pipeline, exit, history>>
       \/ /\ ~SkipsConfirmation /\ IsNonInteractive
          /\ Fail("InvalidConfig") /\ UNCHANGED <<prompts, confirmed>>
       \/ /\ ~SkipsConfirmation /\ ~IsNonInteractive
          /\ pc' = "prompt" /\ prompts' = prompts + 1
          /\ UNCHANGED <<given, versioning, within, pipeline, exit, calls, confirmed, refused>>

(* prompt_confirmation: the trimmed line must be "yes"; reading it may fail. *)
Confirm ==
    /\ pc = "prompt"
    /\ \E input \in {"yes", "anything else", "read error"} :
          \/ /\ input = "yes"
             /\ confirmed' = TRUE /\ pc' = "combinations"
             /\ UNCHANGED <<given, versioning, within, pipeline, exit, calls, refused>>
          \/ /\ input # "yes"
             /\ Fail(IF input = "read error" THEN "Io" ELSE "Cancelled")
             /\ UNCHANGED confirmed
    /\ UNCHANGED prompts

(* Ctrl+C at the prompt: no handler is installed yet, SIGINT ends the process and *)
(* the shell sees 128 + 2.                                                        *)
InterruptPrompt ==
    /\ pc = "prompt" /\ caller = "main"
    /\ Exit(130)
    /\ UNCHANGED <<given, versioning, within, pipeline, history>>

ForbiddenCombination(c) ==
    \/ c.filter.keep_latest_only /\ ~c.delete_all_versions
    \/ c.filter.delete_marker_only /\ ~c.delete_all_versions
    \/ c.if_match /\ c.delete_all_versions

Checked == prerequisites_checked' = TRUE

(* check_prerequisites returns Ok. *)
Succeed ==
    /\ Checked
    /\ pc' = IF within = "run" THEN "execute" ELSE "created"
    /\ UNCHANGED <<given, versioning, within, ready, errors, events, listing, stages, exit, history>>

CheckCombinations ==
    /\ pc = "combinations"
    /\ \/ ForbiddenCombination(config) /\ Fail("Combination") /\ UNCHANGED <<prompts, confirmed>>
       \/ /\ ~ForbiddenCombination(config) /\ ~config.delete_all_versions
          /\ Succeed /\ UNCHANGED config
       \/ /\ ~ForbiddenCombination(config) /\ config.delete_all_versions
          /\ pc' = "versioning"
          /\ UNCHANGED <<given, versioning, within, pipeline, exit, history>>

(* Faulty: a bucket whose versioning is suspended counts as unversioned. *)
IsVersionedStatusEnabled(status) == status = "Enabled"
IsVersionedStatus(status) == status \in {"Enabled", "Suspended"}

(* Faulty: the flag is cleared for every run on an unversioned bucket. *)
NeedsVersionsNever(c) == FALSE
NeedsVersions(c) == c.filter.keep_latest_only \/ c.filter.delete_marker_only

Panic == pc' = "panicked" /\ (IF caller = "main" THEN exit' = 101 ELSE UNCHANGED exit)

(* S3Storage::is_versioning_enabled and what check_prerequisites makes of it. *)
CheckVersioning ==
    /\ pc = "versioning"
    /\ LET express == IsExpressOnezoneStorage(config.bucket)
           versioned == ~express /\ IsVersionedStatus(versioning)
       IN  \/ /\ ~express /\ config.credential = "none"      \* no client: expect() fails
              /\ Panic /\ UNCHANGED <<given, versioning, within, pipeline, history>>
           \/ /\ ~express /\ config.credential # "none"      \* the request fails
              /\ Fail("AwsSdk") /\ UNCHANGED <<prompts, confirmed>>
           \/ /\ express \/ config.credential # "none"
              /\ versioned /\ Succeed /\ UNCHANGED config
           \/ /\ express \/ config.credential # "none"
              /\ ~versioned /\ NeedsVersions(config)
              /\ Fail("Unversioned") /\ UNCHANGED <<prompts, confirmed>>
           \/ /\ express \/ config.credential # "none"
              /\ ~versioned /\ ~NeedsVersions(config)
              /\ config' = [config EXCEPT !.delete_all_versions = FALSE]
              /\ Succeed

-----------------------------------------------------------------------------
(* run. *)

(* Faulty: the explicit check is trusted whatever it returned. *)
MayExecuteAfterAnyCheck == prerequisites_checked \/ refused # "no"
MayExecute == prerequisites_checked

Run ==
    /\ pc = "created"
    /\ IF caller = "main" THEN prerequisites_checked /\ UNCHANGED calls
                          ELSE calls < MaxCalls /\ calls' = calls + 1
    /\ \/ /\ ready /\ ready' = FALSE
          /\ events' = Append(events, "PIPELINE_START")
          /\ within' = "run"
          /\ pc' = IF MayExecute THEN "execute" ELSE "safety"
          /\ UNCHANGED exit
       \/ ~ready /\ Panic /\ UNCHANGED <<ready, events, within>>
    /\ UNCHANGED <<given, versioning, config, prerequisites_checked, errors, listing, stages,
                   prompts, confirmed, refused>>

(* execute_pipeline builds every stage from the configuration as it is now; the   *)
(* lister's call depends on it.                                                   *)
Execute ==
    /\ pc = "execute"
    /\ listing' = IF config.delete_all_versions THEN "Versions" ELSE "Objects"
    /\ stages' = config
    /\ pc' = "executing"
    /\ UNCHANGED <<given, versioning, within, config, ready, prerequisites_checked, errors,
                   events, exit, history>>

(* The stages end, with or without an error of their own. *)
Finish ==
    /\ pc = "executing"
    /\ \E failed, cancelled \in BOOLEAN :
          /\ errors' = IF failed THEN Append(errors, "Pipeline") ELSE errors
          /\ events' = events \o CompletionEvents(errors', cancelled)
    /\ pc' = "returned"
    /\ UNCHANGED <<given, versioning, within, config, ready, prerequisites_checked, listing,
                   stages, exit, history>>

(* main computes the exit code; the details are in Pipeline. A library caller     *)
(* gets control back.                                                             *)
Return ==
    /\ pc = "returned"
    /\ \/ caller = "main" /\ Exit(IF errors = <<>> THEN 0 ELSE ExitCode(Head(errors)))
       \/ caller = "library" /\ calls < MaxCalls /\ pc' = "created" /\ UNCHANGED exit
    /\ UNCHANGED <<given, versioning, within, pipeline, history>>

Next ==
    \/ OtherClient \/ LoadConfig \/ PrintCompletionScript
    \/ CheckPrerequisites \/ CheckBeforeDeletion \/ Confirm \/ InterruptPrompt
    \/ CheckCombinations \/ CheckVersioning
    \/ Run \/ Execute \/ Finish \/ Return

Spec == Init /\ [][Next]_vars

-----------------------------------------------------------------------------
(* Properties. *)

Errors == {"Cancelled", "InvalidConfig", "Io", "Combination", "AwsSdk", "Unversioned", "Pipeline"}

(* Every variable has its type. *)
TypeOK ==
    /\ caller \in {"main", "library"}
    /\ args = Absent \/ args \in CLIArgs
    /\ config # Absent => config \in ConfigType /\ (config.tracing.on => config.tracing.level > 0)
    /\ interactive \in BOOLEAN /\ versioning \in VersioningStates
    /\ pc \in {"load", "completion", "created", "safety", "prompt", "combinations", "versioning",
               "execute", "executing", "returned", "exited", "panicked"}
    /\ within \in {"caller", "run"}
    /\ ready \in BOOLEAN /\ prerequisites_checked \in BOOLEAN
    /\ errors \in Seq(Errors)
    /\ events \in Seq({"PIPELINE_START", "PIPELINE_ERROR", "DELETE_CANCEL", "PIPELINE_END"})
    /\ listing \in {"none", "Objects", "Versions"}
    /\ stages = Absent \/ stages \in ConfigType
    /\ exit \in {0, 1, 2, 3, 101, 130, NoExit}
    /\ calls \in 0 .. MaxCalls /\ prompts \in Nat /\ confirmed \in BOOLEAN
    /\ refused \in Errors \cup {"no"}

Executed == listing # "none"

(* Nothing is listed, and so nothing is deleted, by a run that is not a dry run,  *)
(* was not forced and was not confirmed with "yes" (safety/mod.rs), whatever a    *)
(* library caller does after an error and whatever the versioning check returns.  *)
NoUnconfirmedDeletion == Executed /\ ~stages.dry_run => stages.force \/ confirmed

(* The lister, the filters and the deleters agree on the mode: --keep-latest-only *)
(* and --filter-delete-marker-only only ever act on a listing of versions of a    *)
(* versioned bucket, where "not the latest" means something, and If-Match never   *)
(* meets a version id, although check_prerequisites rewrites the configuration    *)
(* half-way and other clients change the bucket in the meantime.                  *)
ModesAgree ==
    Executed =>
        /\ (listing = "Versions") = stages.delete_all_versions
        /\ stages.filter.keep_latest_only \/ stages.filter.delete_marker_only
              => listing = "Versions"
        /\ stages.if_match => listing = "Objects"
        /\ listing = "Versions" => versioning # "never" /\ stages.bucket # "express"

(* A bucket that holds versions is listed by version whenever all versions were   *)
(* asked for, also while its versioning is suspended (is_versioned_status): if    *)
(* the flag was cleared, the bucket was unversioned at the check.                 *)
AllVersionsHonoured ==
    [][listing = "none" /\ config # Absent /\ config' # Absent
         /\ config.delete_all_versions /\ ~config'.delete_all_versions
       => versioning = "never" \/ config.bucket = "express"]_vars

(* What clap accepts never reaches the combination checks that exist for library  *)
(* callers, so a command line error is reported before anything is prompted.      *)
ClapCoversCombinations == caller = "main" => refused # "Combination"

(* main asks for confirmation at most once, although both main and run() check.   *)
PromptedOnce == caller = "main" => prompts <= 1

(* Every run() that returns has triggered PIPELINE_START first and PIPELINE_END   *)
(* last, once each, with PIPELINE_ERROR between them if and only if an error was  *)
(* recorded, and DELETE_CANCEL at most once and after it: a refused run is        *)
(* reported to the callback like a failed one.                                    *)
EventsBracketRun ==
    pc = "returned" =>
        \E cancel \in {<<>>, <<"DELETE_CANCEL">>} :
            events = <<"PIPELINE_START">>
                        \o (IF errors = <<>> THEN <<>> ELSE <<"PIPELINE_ERROR">>)
                        \o cancel \o <<"PIPELINE_END">>

(* Once check_prerequisites has refused main's run, the process ends without a    *)
(* listing; it ends with 0 only if the user declined.                             *)
RefusalEndsMain ==
    caller = "main" /\ refused # "no" =>
        pc = "exited" /\ ~Executed /\ (exit = 0 <=> refused = "Cancelled")

(* A batch the workers of the program may send never needs more tokens than the   *)
(* rate limiter can hold, and an Express One Zone bucket is only ever sent        *)
(* single deletions unless that was allowed.                                      *)
LimitsHold ==
    caller = "main" /\ Executed =>
        /\ stages.rate_limit_objects # None => stages.batch_size <= stages.rate_limit_objects
        /\ stages.bucket = "express" /\ ~args.allow_parallel_listings_in_express_one_zone
              => stages.batch_size = 1

(* What the program, as opposed to a library caller, gets right on its way to the *)
(* first request: refusals end it, in clap where clap can tell, the user is asked *)
(* once, and the limits of the request layer fit each other.                      *)
MainContract == RefusalEndsMain /\ ClapCoversCombinations /\ PromptedOnce /\ LimitsHold

-----------------------------------------------------------------------------
(* What documents of the repository say, and the code does not do. *)

(* lib.rs: "Lua filter and event callbacks can be registered via script paths in  *)
(* the Config": a run whose Config names a filter script is filtered by it.       *)
ScriptedFilterApplies ==
    Executed /\ stages.filter_script # "none" => stages.filter_registered

=============================================================================
