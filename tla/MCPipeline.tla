----------------------------- MODULE MCPipeline -----------------------------
(* Small instances of Pipeline. *)
EXTENDS Pipeline

Cli == [warn_as_error |-> FALSE, cli |-> TRUE, user_filter |-> FALSE, objects |-> 1]
Library == [Cli EXCEPT !.cli = FALSE]

(* The command line program with a built-in filter and --warn-as-error, and a     *)
(* library caller, who may cancel, with a user-defined filter. There a second     *)
(* object fills the channels after the workers are gone.                          *)
MCConfigs ==
    { [Cli EXCEPT !.warn_as_error = TRUE], [Library EXCEPT !.user_filter = TRUE, !.objects = 2] }
CliConfig == {Cli}

=============================================================================
