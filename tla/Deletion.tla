------------------------------ MODULE Deletion ------------------------------
(* What the deletion stage promises of every object it receives, whatever its     *)
(* workers, buffers, batches, retries and channels are: an object is admitted     *)
(* under the limit or not at all, it is requested only if nobody cancelled        *)
(* before, it is removed only while it is requested, and its fate is settled      *)
(* once. ObjectDeleter is shown to implement this.                                *)
EXTENDS Naturals, FiniteSets

CONSTANTS Objects, Contended, WithoutETag, None

VARIABLES
    limit, if_match, dry_run,   \* the options of the run
    fate,                       \* what has become of each object
    bucket,                     \* what S3 holds for it
    cancelled

vars == <<limit, if_match, dry_run, fate, bucket, cancelled>>
options == <<limit, if_match, dry_run>>

Fate == {"pending", "skipped", "stopped", "admitted", "requested", "deleted", "failed", "unknown"}
Open == {"pending", "admitted", "requested"}

With(fates) == {o \in Objects : fate[o] \in fates}
Admitted == With({"admitted", "requested", "deleted", "failed", "unknown"})
Become(S, f) == fate' = [o \in Objects |-> IF o \in S THEN f ELSE fate[o]]

Init ==
    /\ limit \in Nat \cup {None} /\ if_match \in BOOLEAN /\ dry_run \in BOOLEAN
    /\ fate = [o \in Objects |-> "pending"]
    /\ bucket = [o \in Objects |-> "listed"]
    /\ cancelled = FALSE

(* One object after the other is let through, as long as the limit allows. *)
Admit(o) ==
    /\ fate[o] = "pending"
    /\ limit # None => Cardinality(Admitted) < limit
    /\ Become({o}, "admitted")
    /\ UNCHANGED <<options, bucket, cancelled>>

(* A filter of the worker rejects it. *)
Skip(o) ==
    /\ fate[o] = "pending"
    /\ Become({o}, "skipped")
    /\ UNCHANGED <<options, bucket, cancelled>>

(* The limit is used up: the run stops. *)
Stop(o) ==
    /\ fate[o] = "pending"
    /\ limit # None /\ Cardinality(Admitted) >= limit
    /\ Become({o}, "stopped")
    /\ cancelled' = TRUE
    /\ UNCHANGED <<options, bucket>>

(* A batch: never after a cancellation. *)
Request(S) ==
    /\ ~cancelled
    /\ S # {} /\ S \subseteq With({"admitted"})
    /\ Become(S, "requested")
    /\ UNCHANGED <<options, bucket, cancelled>>

(* With if_match, an object listed with an ETag is removed only with that ETag.   *)
Removable(o) ==
    /\ fate[o] = "requested" /\ ~dry_run
    /\ if_match /\ o \notin WithoutETag => bucket[o] # "changed"
Removed(S) == bucket' = [o \in Objects |-> IF o \in S THEN "gone" ELSE bucket[o]]

(* S3 deletes some of what was requested. *)
Delete(S) ==
    /\ S # {} /\ \A o \in S : Removable(o)
    /\ Removed(S)
    /\ UNCHANGED <<options, fate, cancelled>>

(* The run learns and reports what became of a batch; a failure may cancel it. *)
Settle(D, F) ==
    /\ D \cup F \subseteq With({"requested"}) /\ D \cap F = {}
    /\ \A o \in D : dry_run \/ bucket[o] # "listed"
    /\ fate' = [o \in Objects |->
                   IF o \in D THEN "deleted" ELSE IF o \in F THEN "failed" ELSE fate[o]]
    /\ \/ UNCHANGED cancelled
       \/ F # {} /\ cancelled' = TRUE
    /\ UNCHANGED <<options, bucket>>

(* It never learns: S3 may have deleted any of the batch. *)
Lose(S, T) ==
    /\ S # {} /\ S \subseteq With({"requested"})
    /\ T \subseteq S /\ \A o \in T : Removable(o)
    /\ Become(S, "unknown") /\ Removed(T)
    /\ cancelled' = TRUE
    /\ UNCHANGED options

Cancel ==
    /\ ~cancelled /\ cancelled' = TRUE
    /\ UNCHANGED <<options, fate, bucket>>

OtherClient(o) ==
    /\ bucket' \in {[bucket EXCEPT ![o] = s] : s \in {"changed", "rewritten", "gone"}}
    /\ UNCHANGED <<options, fate, cancelled>>

Next ==
    \/ \E o \in Objects : Admit(o) \/ Skip(o) \/ Stop(o)
    \/ \E S \in SUBSET Objects : Request(S) \/ Delete(S) \/ \E T \in SUBSET S : Lose(S, T)
    \/ \E D, F \in SUBSET Objects : Settle(D, F)
    \/ Cancel
    \/ \E o \in Contended : OtherClient(o)

Spec == Init /\ [][Next]_vars

=============================================================================
