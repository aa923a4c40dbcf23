------------------------- MODULE DeletionRefinement -------------------------
(* ObjectDeleter implements Deletion: the fate of an object is read off what was  *)
(* reported about it, the batch it is in, and whether it was let through.         *)
EXTENDS ObjectDeleter

FateOf(o) ==
    CASE outcome[o] # "pending" -> outcome[o]
      [] outcome[o] = "pending" /\ \E w \in Workers : o \in batch[w] -> "requested"
      [] outcome[o] = "pending" /\ (\A w \in Workers : o \notin batch[w]) /\ o \in admitted -> "admitted"
      [] OTHER -> "pending"

Abstract == INSTANCE Deletion WITH
    limit <- config.max_delete, if_match <- config.if_match, dry_run <- config.dry_run,
    fate <- [o \in Objects |-> FateOf(o)]

(* The deletion stage does nothing that Deletion does not allow: all of the       *)
(* interleavings of workers, retries, cancellations and other clients end in one  *)
(* settled fate per object, under the limit, and with no new request after a      *)
(* cancellation.                                                                  *)
ImplementsDeletion == Abstract!Spec

=============================================================================
