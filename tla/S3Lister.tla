------------------------------ MODULE S3Lister ------------------------------
(* Listing a bucket: list_dispatch, list_sequential and list_with_parallel of     *)
(* S3Storage. The parallel listing is a tree of tasks, one per prefix, that share *)
(* a semaphore. A task lists its prefix page by page, sends the objects of the    *)
(* page, starts a task for each sub-prefix of the page in a JoinSet, and waits    *)
(* for all of them before it fetches the next page.                               *)
(*                                                                                *)
(* The bucket is given by the prefixes each key starts with. S3 returns the       *)
(* entries of a prefix in pages of at most max_keys; which entries share a page is *)
(* left open.                                                                     *)
EXTENDS Naturals, FiniteSets

CONSTANTS
    Objects,    \* the objects of the bucket
    Prefixes,   \* the prefixes that end in "/", and the prefix of the run
    Root,       \* the prefix of the run (S3Storage::prefix)
    Depth,      \* Depth[p]: 1 for Root, one more for each "/" after it
    Ancestors,  \* Ancestors[o]: the prefixes that o's key starts with
    Configs,    \* the configurations a run may be started with
    Faulty      \* whether list requests may fail and markers may be missing

ConfigType == [ max_parallel_listings : Nat, max_depth : Nat, max_keys : Nat \ {0},
                express : BOOLEAN, allow_parallel_in_express : BOOLEAN ]

ASSUME S3ListerAssumption ==
    /\ IsFiniteSet(Objects)
    /\ IsFiniteSet(Prefixes)
    /\ Root \in Prefixes
    /\ Objects \cap Prefixes = {}
    /\ Depth \in [Prefixes -> Nat] /\ Depth[Root] = 1
    /\ Ancestors \in [Objects -> SUBSET Prefixes]
    /\ \A o \in Objects : Root \in Ancestors[o]
    \* The prefixes of a key are nested, with one on every level, and the prefixes of
    \* a prefix are those of every key under it.
    /\ \A p \in Prefixes : Depth[p] > 0
    /\ \A o \in Objects : \A p, q \in Ancestors[o] : Depth[p] = Depth[q] => p = q
    /\ \A o \in Objects : \A q \in Ancestors[o] :
          \A d \in 1 .. Depth[q] : \E p \in Ancestors[o] : Depth[p] = d
    /\ \A o, x \in Objects : \A q \in Ancestors[o] \cap Ancestors[x] :
          \A p \in Ancestors[o] : Depth[p] <= Depth[q] => p \in Ancestors[x]
    /\ Configs \subseteq ConfigType
    /\ Faulty \in BOOLEAN

VARIABLES
    config,
    pc,         \* where the task of each prefix is
    remaining,  \* entries of the prefix that no page returned yet
    objects,    \* objects of the current page still to send
    subs,       \* sub-prefixes of the current page still to start
    joinset,    \* tasks the JoinSet of a task waits for
    holders,    \* tasks that own a semaphore permit
    permits,    \* free permits of listing_worker_semaphore
    aborting,   \* tasks whose JoinSet was dropped: they end at their next await
    cancelled,  \* the cancellation token
    receiving,  \* the receiver of the object channel still exists
    sent        \* history: how often each object was sent

vars == <<config, pc, remaining, objects, subs, joinset, holders, permits, aborting,
          cancelled, receiving, sent>>

Ended == {"done", "failed", "aborted"}
PC == {"idle", "start", "list", "fetch", "send", "spawn", "acquire", "join", "page"} \cup Ended

(* list_dispatch: parallel unless limited to one listing or on Express One Zone. *)
UseParallel ==
    /\ config.max_parallel_listings > 1
    /\ ~config.express \/ config.allow_parallel_in_express

(* Whether the requests for p carry Delimiter="/". *)
Delimited(p) == UseParallel /\ Depth[p] <= config.max_depth

(* What S3 lists under p with and without a delimiter: with one, the objects      *)
(* directly under p and its sub-prefixes; without, every object under p.          *)
SubPrefixes(p) ==
    {q \in Prefixes : Depth[q] = Depth[p] + 1 /\ \E o \in Objects : {p, q} \subseteq Ancestors[o]}
ObjectsUnder(p) == {o \in Objects : p \in Ancestors[o]}
DirectObjects(p) == {o \in ObjectsUnder(p) : Ancestors[o] \cap SubPrefixes(p) = {}}

(* Faulty: the depth limit stops the descent but the requests keep the delimiter. *)
EntriesAlwaysDelimited(p) ==
    IF Delimited(p) THEN DirectObjects(p) \cup SubPrefixes(p) ELSE DirectObjects(p)
Entries(p) ==
    IF Delimited(p) THEN DirectObjects(p) \cup SubPrefixes(p) ELSE ObjectsUnder(p)

(* The pages S3 may answer with when the entries of E are left. *)
PagesOf(E) ==
    IF Cardinality(E) <= config.max_keys THEN {E}
    ELSE {P \in SUBSET E : Cardinality(P) = config.max_keys}

Init ==
    /\ config \in Configs
    /\ pc = [p \in Prefixes |-> IF p = Root THEN "start" ELSE "idle"]
    /\ remaining = [p \in Prefixes |-> {}]
    /\ objects = [p \in Prefixes |-> {}]
    /\ subs = [p \in Prefixes |-> {}]
    /\ joinset = [p \in Prefixes |-> {}]
    /\ holders = {}
    /\ permits = config.max_parallel_listings
    /\ aborting = {}
    /\ cancelled = FALSE
    /\ receiving = TRUE
    /\ sent = [o \in Objects |-> 0]

-----------------------------------------------------------------------------

Goto(p, l) == pc' = [pc EXCEPT ![p] = l]

(* acquire_owned returns when a permit is free. *)
PermitFree == permits > 0

(* Faulty: the permit is forgotten instead of dropped. *)
ReleaseForgets(p) ==
    /\ holders' = holders \ {p}
    /\ UNCHANGED permits

(* A permit is an RAII guard: it returns to the semaphore when the task drops it, *)
(* at the latest when the task ends.                                              *)
Release(p) ==
    /\ holders' = holders \ {p}
    /\ permits' = IF p \in holders THEN permits + 1 ELSE permits

End(p, l) == Goto(p, l) /\ Release(p)

(* Faulty: a task keeps its permit while it waits for those of its sub-tasks. *)
ReleaseBeforeAcquireNot(p) == UNCHANGED <<holders, permits>>
ReleaseBeforeAcquire(p) == Release(p)

(* list_dispatch starts the first task, in the parallel case with a permit. *)
Dispatch ==
    /\ pc[Root] = "start"
    /\ UseParallel => PermitFree
    /\ holders' = IF UseParallel THEN {Root} ELSE {}
    /\ permits' = IF UseParallel THEN permits - 1 ELSE permits
    /\ remaining' = [remaining EXCEPT ![Root] = Entries(Root)]
    /\ Goto(Root, "list")
    /\ UNCHANGED <<config, objects, subs, joinset, aborting, cancelled, receiving, sent>>

(* The top of the loop: a cancelled listing ends without an error. *)
Loop(p) ==
    /\ pc[p] = "list"
    /\ IF cancelled THEN End(p, "done") ELSE Goto(p, "fetch") /\ UNCHANGED <<holders, permits>>
    /\ UNCHANGED <<config, remaining, objects, subs, joinset, aborting, cancelled, receiving, sent>>

(* fetch_list_page. *)
FetchListPage(p) ==
    /\ pc[p] = "fetch"
    /\ \E P \in PagesOf(remaining[p]) :
          /\ remaining' = [remaining EXCEPT ![p] = @ \ P]
          /\ objects' = [objects EXCEPT ![p] = P \cap Objects]
          /\ subs' = [subs EXCEPT ![p] = P \cap Prefixes]
    /\ Goto(p, "send")
    /\ UNCHANGED <<config, joinset, holders, permits, aborting, cancelled, receiving, sent>>

(* The request fails, or the task panics: its parent treats both alike. *)
FetchError(p) ==
    /\ Faulty
    /\ pc[p] = "fetch"
    /\ End(p, "failed")
    /\ UNCHANGED <<config, remaining, objects, subs, joinset, aborting, cancelled, receiving, sent>>

(* send_listed_objects: one object after the other; a cancelled token or a closed *)
(* channel ends the task without an error. A send that waits for room when the    *)
(* token is cancelled still succeeds; no other task sees when, so it counts as    *)
(* sent before the cancellation.                                                  *)
SendListedObject(p) ==
    /\ pc[p] = "send"
    /\ ~cancelled /\ receiving
    /\ \E o \in objects[p] :
          /\ objects' = [objects EXCEPT ![p] = @ \ {o}]
          /\ sent' = [sent EXCEPT ![o] = @ + 1]
    /\ UNCHANGED <<config, pc, remaining, subs, joinset, holders, permits, aborting, cancelled,
                   receiving>>

StopSending(p) ==
    /\ pc[p] = "send"
    /\ objects[p] # {}
    /\ cancelled \/ ~receiving
    /\ End(p, "done")
    /\ UNCHANGED <<config, remaining, objects, subs, joinset, aborting, cancelled, receiving, sent>>

PageSent(p) ==
    /\ pc[p] = "send"
    /\ objects[p] = {}
    /\ Goto(p, "spawn")
    /\ UNCHANGED <<config, remaining, objects, subs, joinset, holders, permits, aborting,
                   cancelled, receiving, sent>>

(* The loop over sub_prefixes. Its body drops the task's own permit the first     *)
(* time, waits for a new one, and gives that to the sub-task.                     *)
NextSubPrefix(p) ==
    /\ pc[p] = "spawn"
    /\ subs[p] # {} /\ ~cancelled
    /\ ReleaseBeforeAcquire(p)
    /\ Goto(p, "acquire")
    /\ UNCHANGED <<config, remaining, objects, subs, joinset, aborting, cancelled, receiving, sent>>

SpawnSubPrefix(p) ==
    /\ pc[p] = "acquire"
    /\ PermitFree
    /\ \E q \in subs[p] :
          /\ subs' = [subs EXCEPT ![p] = @ \ {q}]
          /\ joinset' = [joinset EXCEPT ![p] = @ \cup {q}]
          /\ holders' = holders \cup {q}
          /\ permits' = permits - 1
          /\ remaining' = [remaining EXCEPT ![q] = Entries(q)]
          /\ pc' = [pc EXCEPT ![p] = "spawn", ![q] = "list"]
    /\ UNCHANGED <<config, objects, aborting, cancelled, receiving, sent>>

(* All sub-tasks of the page are started, or a cancellation cuts the loop short. *)
SpawnDone(p) ==
    /\ pc[p] = "spawn"
    /\ subs[p] = {} \/ cancelled
    /\ Goto(p, "join")
    /\ UNCHANGED <<config, remaining, objects, subs, joinset, holders, permits, aborting,
                   cancelled, receiving, sent>>

(* The outcomes of a sub-task join_next reports as an error; faulty: none. *)
JoinErrorsIgnored == {"none"}
JoinErrors == {"failed", "aborted"}

JoinNext(p) ==
    /\ pc[p] = "join"
    /\ \E q \in joinset[p] : /\ pc[q] \in Ended \ JoinErrors
                             /\ joinset' = [joinset EXCEPT ![p] = @ \ {q}]
    /\ UNCHANGED <<config, pc, remaining, objects, subs, holders, permits, aborting, cancelled,
                   receiving, sent>>

(* The first failed sub-task cancels the pipeline; returning drops the JoinSet,   *)
(* which aborts the sub-tasks that still run.                                     *)
JoinError(p) ==
    /\ pc[p] = "join"
    /\ \E q \in joinset[p] : /\ pc[q] \in JoinErrors
                             /\ aborting' = aborting \cup (joinset[p] \ {q})
    /\ cancelled' = TRUE
    /\ joinset' = [joinset EXCEPT ![p] = {}]
    /\ End(p, "failed")
    /\ UNCHANGED <<config, remaining, objects, subs, receiving, sent>>

(* An aborted task is dropped at its next await, and with it its own JoinSet. *)
Abort(p) ==
    /\ p \in aborting
    /\ pc[p] \notin Ended
    /\ aborting' = aborting \cup joinset[p]
    /\ joinset' = [joinset EXCEPT ![p] = {}]
    /\ End(p, "aborted")
    /\ UNCHANGED <<config, remaining, objects, subs, cancelled, receiving, sent>>

JoinDone(p) ==
    /\ pc[p] = "join"
    /\ joinset[p] = {}
    /\ Goto(p, "page")
    /\ UNCHANGED <<config, remaining, objects, subs, joinset, holders, permits, aborting,
                   cancelled, receiving, sent>>

(* is_truncated: another round with the next marker, or the task is finished. *)
Paginate(p) ==
    /\ pc[p] = "page"
    /\ IF remaining[p] = {} THEN End(p, "done")
       ELSE Goto(p, "list") /\ UNCHANGED <<holders, permits>>
    /\ UNCHANGED <<config, remaining, objects, subs, joinset, aborting, cancelled, receiving, sent>>

(* A truncated page without a marker, or with the marker of the page before. *)
MarkerError(p) ==
    /\ Faulty
    /\ pc[p] = "page"
    /\ remaining[p] # {}
    /\ End(p, "failed")
    /\ UNCHANGED <<config, remaining, objects, subs, joinset, aborting, cancelled, receiving, sent>>

(* The operator or another stage cancels. *)
Cancel ==
    /\ ~cancelled
    /\ cancelled' = TRUE
    /\ UNCHANGED <<config, pc, remaining, objects, subs, joinset, holders, permits, aborting,
                   receiving, sent>>

(* The first filter stage ends and drops the receiver. *)
DropReceiver ==
    /\ receiving
    /\ receiving' = FALSE
    /\ UNCHANGED <<config, pc, remaining, objects, subs, joinset, holders, permits, aborting,
                   cancelled, sent>>

TaskStep(p) ==
    \/ Loop(p) \/ FetchListPage(p) \/ FetchError(p) \/ SendListedObject(p) \/ StopSending(p)
    \/ PageSent(p) \/ NextSubPrefix(p) \/ SpawnSubPrefix(p) \/ SpawnDone(p)
    \/ JoinNext(p) \/ JoinError(p) \/ Abort(p) \/ JoinDone(p) \/ Paginate(p) \/ MarkerError(p)

Listed == pc[Root] \in Ended
Quiet == \A p \in Prefixes : pc[p] \in Ended \cup {"idle"}
Terminated == Quiet /\ UNCHANGED vars

Next == Dispatch \/ Cancel \/ DropReceiver \/ (\E p \in Prefixes : TaskStep(p)) \/ Terminated

Spec == Init /\ [][Next]_vars

(* The runtime polls every ready task; list requests are answered, and the        *)
(* semaphore hands a free permit to a waiting task.                               *)
Fairness == WF_vars(Dispatch) /\ \A p \in Prefixes : WF_vars(TaskStep(p))

FairSpec == Spec /\ Fairness

-----------------------------------------------------------------------------
(* Properties. *)

(* Every variable holds a value of its type. *)
TypeOK ==
    /\ config \in Configs
    /\ pc \in [Prefixes -> PC]
    /\ remaining \in [Prefixes -> SUBSET (Objects \cup Prefixes)]
    /\ objects \in [Prefixes -> SUBSET Objects]
    /\ subs \in [Prefixes -> SUBSET Prefixes]
    /\ joinset \in [Prefixes -> SUBSET Prefixes]
    /\ holders \in SUBSET Prefixes
    /\ permits \in Nat
    /\ aborting \in SUBSET Prefixes
    /\ cancelled \in BOOLEAN
    /\ receiving \in BOOLEAN
    /\ sent \in [Objects -> Nat]

(* No object reaches the pipeline twice, although its prefix is visible to the    *)
(* tasks of all its ancestors: it would be counted twice against --max-delete.    *)
NoDuplicates == \A o \in Objects : sent[o] <= 1

(* A listing that ends in success, with nobody cancelling and nobody leaving, has *)
(* sent every object under the prefix of the run, whatever the depth limit.       *)
Complete ==
    pc[Root] = "done" /\ ~cancelled /\ receiving => \A o \in Objects : sent[o] = 1

(* The listing sends every object exactly once: sub-listings over nested prefixes *)
(* neither overlap nor leave a gap at the depth limit.                            *)
ListedExactlyOnce == NoDuplicates /\ Complete

(* A failed sub-listing is never taken for the end of the listing: it fails the   *)
(* whole listing and cancels the pipeline.                                        *)
FailurePropagates ==
    Listed /\ (\E p \in Prefixes \ {Root} : pc[p] = "failed")
        => pc[Root] = "failed" /\ cancelled

(* Permits are neither lost nor made up, whichever way a task ends. *)
PermitsConserved ==
    /\ permits + Cardinality(holders) = config.max_parallel_listings
    /\ \A p \in holders : pc[p] \notin Ended \cup {"idle"}

(* Waiting for a permit and for sub-tasks never closes into a cycle: the listing  *)
(* ends, and so does every task it started.                                       *)
ListingEnds == <>Quiet

=============================================================================
