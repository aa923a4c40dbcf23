----------------------------- MODULE Selection ------------------------------
(* One listed entry after another from the listing through the configured filter  *)
(* stages and the attribute filters of a worker to its deletion, in a bucket that *)
(* other clients write to. Batches, retries, the delete cap and the channels are  *)
(* left to ObjectDeleter and Pipeline: here every entry goes its own way.         *)
(*                                                                                *)
(* A key of the bucket is the sequence of its entries, newest first. A request    *)
(* that names a version id acts on that entry; one that does not acts on the      *)
(* newest one, and adds a delete marker if the bucket is versioned.               *)
(*                                                                                *)
(* is_versioned_status takes a bucket whose versioning is suspended for a         *)
(* versioned one. What is written while it is suspended, a delete marker too, has *)
(* the version id "null" and replaces the entry that had it; what is written      *)
(* while versioning is enabled has an id of its own. The status may change at any *)
(* time, so a write to a versioned bucket is of the one or of the other kind.     *)
(*                                                                                *)
(* An ETag stands for the bytes of an object and for nothing else: a rewrite with *)
(* the same bytes keeps it and may change everything but the size. An endpoint    *)
(* may leave it out of a listing.                                                 *)
EXTENDS Filters, FiniteSets, Bags

CONSTANTS
    Keys,
    Cases,          \* the starting points: [config, names, versions, if_match, versioned, bucket]
    SizeOf,         \* the size of the bytes that an ETag stands for
    Written,        \* what other clients write: [etag, attributes]
    Now,            \* the time of the run
    MaxWrites       \* bound: changes made by other clients

Entry == [id : Nat, etag : Nat, marker : BOOLEAN, attributes : Attributes]
NullId == 0         \* the version id "null"
FirstId == 10       \* version ids below are those of what is there before the run

SameBytes(e) == e.etag # NoETag => e.attributes.size = SizeOf[e.etag]

ASSUME SelectionAssumption ==
    /\ Keys \subseteq STRING
    /\ \A c \in Cases :
          /\ c.config \in FilterConfig
          /\ c.names \in [Keys -> Text]
          /\ {c.versions, c.if_match, c.versioned} \subseteq BOOLEAN
          /\ c.versions => c.versioned /\ ~c.if_match
          /\ c.bucket \in [Keys -> Seq(Entry)]
          /\ \A k \in Keys : \A i \in DOMAIN c.bucket[k] :
                /\ c.bucket[k][i].id < FirstId
                /\ SameBytes(c.bucket[k][i])
                /\ \A j \in DOMAIN c.bucket[k] : c.bucket[k][i].id = c.bucket[k][j].id => i = j
          /\ ~c.versioned => \A k \in Keys : Len(c.bucket[k]) <= 1
    /\ Written \subseteq [etag : Nat, attributes : Attributes]
    /\ \A o \in Written : SameBytes(o)
    /\ Now \in Nat /\ MaxWrites \in Nat

VARIABLES
    case,           \* configuration of the run; never changes
    bucket,         \* entries of each key
    next_id,        \* version id of the next entry written while versioning is enabled
    listed,         \* keys whose page was fetched
    work,           \* entries on their way, each with the place it has reached
    skipped,        \* DeleteSkip statistics sent, per entry
    removed,        \* entries the run removed or hid, as they were at that moment
    completed,      \* entries reported as deleted
    refused,        \* entries S3 did not delete
    failed,         \* entries whose filter or request failed, cancelling the run
    writes,         \* changes made by other clients so far
    entries,        \* history: every entry that was listed
    disturbed       \* history: what other clients did to which key

vars == <<case, bucket, next_id, listed, work, skipped, removed, completed, refused, failed, writes,
          entries, disturbed>>

Config == case.config
Stages == Chain(Config)

Visible(b, k) == b[k] # <<>> /\ ~Head(b[k]).marker

Init ==
    /\ case \in Cases
    /\ bucket = case.bucket
    /\ next_id = FirstId
    /\ listed = {}
    /\ work = {}
    /\ skipped = EmptyBag
    /\ removed = {} /\ refused = {} /\ failed = {}
    /\ completed = {} /\ entries = {}
    /\ writes = 0 /\ disturbed = {}

-----------------------------------------------------------------------------
(* S3 and its other clients. *)

(* The entry that has a version id makes room for the one that gets it. *)
Without(s, id) ==
    IF \E i \in DOMAIN s : s[i].id = id
    THEN RemoveAt(s, CHOOSE i \in DOMAIN s : s[i].id = id)
    ELSE s
WithEntry(k, e) == IF case.versioned THEN <<e>> \o Without(bucket[k], e.id) ELSE <<e>>
NewIds == IF case.versioned THEN {next_id, NullId} ELSE {NullId}

(* A delete marker written during the run: it has a time and nothing else. *)
NewMarker(id) ==
    [ id |-> id, etag |-> NoETag, marker |-> TRUE,
      attributes |-> [size |-> 0, mtime |-> Now, content_type |-> "none", metadata |-> "none", tags |-> "b"] ]

(* Another client writes an object, or deletes one without naming a version; *)
Write(k) ==
    /\ \/ \E id \in NewIds, o \in Written :
             bucket' = [bucket EXCEPT ![k] =
                WithEntry(k, [id |-> id, etag |-> o.etag, marker |-> FALSE, attributes |-> o.attributes])]
       \/ /\ Visible(bucket, k)
          /\ IF case.versioned
             THEN \E id \in NewIds : bucket' = [bucket EXCEPT ![k] = WithEntry(k, NewMarker(id))]
             ELSE bucket' = [bucket EXCEPT ![k] = <<>>]
    /\ disturbed' = disturbed \cup {<<k, "write">>}
(* changes the tags of an entry, which keeps its version id and its ETag; *)
WithTags(e, tags) ==
    [ id |-> e.id, etag |-> e.etag, marker |-> e.marker,
      attributes |-> [ size |-> e.attributes.size, mtime |-> e.attributes.mtime,
                       content_type |-> e.attributes.content_type,
                       metadata |-> e.attributes.metadata, tags |-> tags ] ]
PutTagging(k) ==
    /\ \E i \in DOMAIN bucket[k], tags \in Text :
          /\ ~bucket[k][i].marker
          /\ bucket' = [bucket EXCEPT ![k] = [bucket[k] EXCEPT ![i] = WithTags(bucket[k][i], tags)]]
    /\ disturbed' = disturbed \cup {<<k, "tags">>}
(* or removes an entry by its version id, as a lifecycle rule does. *)
Purge(k) ==
    /\ case.versioned
    /\ \E i \in DOMAIN bucket[k] : bucket' = [bucket EXCEPT ![k] = RemoveAt(@, i)]
    /\ disturbed' = disturbed \cup {<<k, "purge">>}

OtherClient(k) ==
    /\ writes < MaxWrites /\ writes' = writes + 1
    /\ Write(k) \/ PutTagging(k) \/ Purge(k)
    /\ next_id' = next_id + 1
    /\ UNCHANGED <<case, listed, work, skipped, removed, completed, refused, failed, entries>>

(* What a page says of entry i of key k. An endpoint may leave is_latest out. *)
Reported(k, i, said) ==
    LET e == bucket[k][i]
    IN  [ kind |-> IF ~case.versions THEN "NotVersioning"
                   ELSE IF e.marker THEN "DeleteMarker" ELSE "Versioning",
          key |-> k, name |-> case.names[k], version |-> IF case.versions THEN e.id ELSE NullId,
          is_latest |-> IF said THEN IF i = 1 THEN "yes" ELSE "no" ELSE "absent",
          size |-> e.attributes.size, mtime |-> e.attributes.mtime, etag |-> e.etag ]

(* The entry a request for o acts on: by version id, or the newest one. *)
Addressed(o) ==
    IF case.versions
    THEN {i \in DOMAIN bucket[o.key] : bucket[o.key][i].id = o.version}
    ELSE {i \in DOMAIN bucket[o.key] : i = 1 /\ Visible(bucket, o.key)}

-----------------------------------------------------------------------------
(* Listing. *)

At(o, place) == [object |-> o, place |-> place]
AfterStage(i) == IF i > Len(Stages) THEN <<"head", 0>> ELSE <<"stage", i>>

ListKey(k) ==
    /\ k \notin listed
    /\ listed' = listed \cup {k}
    /\ \E said \in BOOLEAN :
          work' = work \cup
             (IF case.versions
              THEN {At(Reported(k, i, said), AfterStage(1)) : i \in DOMAIN bucket[k]}
              ELSE {At(Reported(k, i, FALSE), AfterStage(1)) : i \in {j \in DOMAIN bucket[k] : j = 1 /\ Visible(bucket, k)}})
    /\ entries' = entries \cup {w.object : w \in work'}
    /\ UNCHANGED <<case, bucket, next_id, skipped, removed, completed, refused, failed, writes, disturbed>>

-----------------------------------------------------------------------------
(* Filter stages. *)

Move(w, place) == work' = (work \ {w}) \cup {At(w.object, place)}
Leave(w) == work' = work \ {w}
(* Faulty: an entry the filters reject is dropped without a DeleteSkip. *)
SkipSilently(w) == Leave(w) /\ UNCHANGED skipped
Skip(w) == Leave(w) /\ skipped' = skipped (+) SetToBag({w.object})
Unmoved == UNCHANGED <<case, bucket, next_id, listed, completed, writes, entries, disturbed>>

(* A built-in stage forwards what its predicate accepts and counts the rest. *)
BuiltinStage(w) ==
    /\ w.place[1] = "stage"
    /\ LET i == w.place[2]
           f == Stages[i]
       IN  /\ f # "UserDefined"
           /\ IF Passes(f, w.object, Config)
              THEN Move(w, AfterStage(i + 1)) /\ UNCHANGED skipped
              ELSE Skip(w)
    /\ UNCHANGED <<removed, refused, failed>> /\ Unmoved

(* The user-defined callback accepts, rejects, or fails, which cancels the run. *)
UserDefinedStage(w) ==
    /\ w.place[1] = "stage"
    /\ Stages[w.place[2]] = "UserDefined"
    /\ \/ Move(w, AfterStage(w.place[2] + 1)) /\ UNCHANGED <<skipped, failed>>
       \/ Skip(w) /\ UNCHANGED failed
       \/ Leave(w) /\ failed' = failed \cup {w.object} /\ UNCHANGED skipped
    /\ UNCHANGED <<removed, refused>> /\ Unmoved

-----------------------------------------------------------------------------
(* The worker. *)

(* Faulty: delete markers are let through instead of skipped. *)
MarkersUnfiltered(o) == FALSE
MarkerExcluded(o) == IsDeleteMarker(o)

(* The filters of one request: none configured lets the entry pass; a delete      *)
(* marker has no attributes and is skipped; otherwise the request reads what the  *)
(* addressed entry holds now, finds nothing (404) or fails.                       *)
AttributeFilter(w, place, needed, Decision(_, _), onward) ==
    /\ w.place = place
    /\ \/ ~needed /\ Move(w, onward) /\ UNCHANGED <<skipped, failed>>
       \/ needed /\ MarkerExcluded(w.object) /\ Skip(w) /\ UNCHANGED failed
       \/ /\ needed /\ ~MarkerExcluded(w.object)
          /\ \/ Addressed(w.object) = {} /\ Skip(w) /\ UNCHANGED failed
             \/ \E i \in Addressed(w.object) :
                   LET d == Decision(bucket[w.object.key][i].attributes, Config)
                   IN  \/ d = "pass" /\ Move(w, onward) /\ UNCHANGED <<skipped, failed>>
                       \/ d = "skip" /\ Skip(w) /\ UNCHANGED failed
                       \/ /\ d = "error"
                          /\ Leave(w) /\ failed' = failed \cup {w.object} /\ UNCHANGED skipped
             \/ Leave(w) /\ failed' = failed \cup {w.object} /\ UNCHANGED skipped
    /\ UNCHANGED <<removed, refused>> /\ Unmoved

ApplyHeadObjectFilters(w) ==
    AttributeFilter(w, <<"head", 0>>, NeedsHeadObject(Config), HeadDecision, <<"tag", 0>>)
ApplyTagFilters(w) ==
    AttributeFilter(w, <<"tag", 0>>, NeedsTagging(Config), TagDecision, <<"delete", 0>>)

(* The request for o names the ETag of the listing, if the listing had one. *)
Conditional(o) == case.if_match /\ o.etag # NoETag
ETagMatches(o, e) == Conditional(o) => e.etag = o.etag

(* A request that names no version puts a delete marker on a versioned key. *)
AddMarker(k) ==
    /\ \E id \in NewIds : bucket' = [bucket EXCEPT ![k] = WithEntry(k, NewMarker(id))]
    /\ next_id' = next_id + 1

(* The deletion of one entry: by version id it removes the entry; without one it  *)
(* removes the object of an unversioned bucket and hides the one of a versioned   *)
(* bucket. S3 may refuse, and refuses if the ETag is not the one that was named.  *)
Delete(w) ==
    LET k == w.object.key
        place == Addressed(w.object)
        removes == case.versions \/ ~case.versioned
    IN  /\ w.place = <<"delete", 0>>
        /\ Leave(w)
        /\ \/ /\ place = {} /\ ~Conditional(w.object)        \* nothing there: S3 reports success
              /\ IF removes THEN UNCHANGED <<bucket, next_id>> ELSE AddMarker(k)
              /\ completed' = completed \cup {w.object}
              /\ UNCHANGED <<removed, refused>>
           \/ \E i \in place :
                 /\ ETagMatches(w.object, bucket[k][i])
                 /\ removed' = removed \cup {[object |-> w.object, entry |-> bucket[k][i],
                                               newest |-> i = 1]}
                 /\ completed' = completed \cup {w.object}
                 /\ IF removes THEN bucket' = [bucket EXCEPT ![k] = RemoveAt(@, i)] /\ UNCHANGED next_id
                    ELSE AddMarker(k)
                 /\ UNCHANGED refused
           \/ /\ refused' = refused \cup {w.object}
              /\ UNCHANGED <<bucket, removed, completed, next_id>>
        /\ UNCHANGED <<case, listed, skipped, failed, writes, entries, disturbed>>

Next ==
    \/ \E k \in Keys : OtherClient(k) \/ ListKey(k)
    \/ \E w \in work : \/ BuiltinStage(w) \/ UserDefinedStage(w)
                       \/ ApplyHeadObjectFilters(w) \/ ApplyTagFilters(w) \/ Delete(w)

Spec == Init /\ [][Next]_vars

-----------------------------------------------------------------------------
(* Properties. *)

(* Every variable has its type. *)
TypeOK ==
    /\ \A k \in Keys : bucket[k] \in Seq(Entry)
    /\ next_id \in Nat /\ listed \subseteq Keys
    /\ disturbed \subseteq Keys \X {"write", "tags", "purge"}
    /\ \A w \in work : /\ w.object \in S3Object
                       /\ \/ w.place[1] = "stage" /\ w.place[2] \in DOMAIN Stages
                          \/ w.place \in {<<"head", 0>>, <<"tag", 0>>, <<"delete", 0>>}
    /\ completed \cup refused \cup failed \cup entries \subseteq S3Object
    /\ IsABag(skipped) /\ DOMAIN skipped \subseteq S3Object
    /\ writes \in 0 .. MaxWrites

(* What the options promise of what is removed, stated on the entry itself: the   *)
(* size in the half-open interval, the time in the half-open interval, the key    *)
(* and the attributes matching what is included and nothing that is excluded. A   *)
(* delete marker satisfies no option about something it does not have.            *)
KeyPromised(k) ==
    /\ Config.include_regex => case.names[k] = "a"
    /\ Config.exclude_regex => case.names[k] = "a"
SizePromised(e) ==
    /\ Config.larger_size # NoThreshold => ~e.marker /\ e.attributes.size >= Config.larger_size
    /\ Config.smaller_size # NoThreshold => ~e.marker /\ e.attributes.size \in 0 .. Config.smaller_size - 1
FixedPromised(e) ==
    LET c == Config
        a == e.attributes
        describes == ~e.marker
    IN  /\ c.after_time # NoThreshold => a.mtime >= c.after_time
        /\ c.before_time # NoThreshold => a.mtime # NoTime /\ a.mtime < c.before_time
        /\ c.include_content_type => describes /\ a.content_type = "a"
        /\ c.exclude_content_type => describes /\ a.content_type \in {"a", "none"}
        /\ c.include_metadata => describes /\ a.metadata = "a"
        /\ c.exclude_metadata => describes /\ a.metadata \in {"a", "none"}
        /\ c.delete_marker_only => e.marker
TagsPromised(e) ==
    /\ Config.include_tag => ~e.marker /\ e.attributes.tags = "a"
    /\ Config.exclude_tag => ~e.marker /\ e.attributes.tags = "a"

(* Other clients neither wrote to the key nor removed versions of it; *)
Settled(k) == disturbed \cap {<<k, "write">>, <<k, "purge">>} = {}
(* a request for o acts on the entry that was listed as o, or on none.            *)
Pinned(o) == (case.versions /\ o.version # NullId) \/ Settled(o.key)

(* What is removed is what was promised, although the attributes are read long    *)
(* after the listing and the deletion comes later still. The key matches in any   *)
(* case. A version id other than "null" holds the entry and all about it but its  *)
(* tags, which may change after they were read; an ETag that was listed and sent  *)
(* as If-Match holds the bytes, so the size, and nothing else; without either the *)
(* options are kept if nobody else wrote to the key.                              *)
OnlyPromisedRemoved ==
    \A r \in removed :
        /\ KeyPromised(r.object.key)
        /\ Pinned(r.object) \/ Conditional(r.object) => SizePromised(r.entry)
        /\ Pinned(r.object) => FixedPromised(r.entry)
        /\ Pinned(r.object) /\ <<r.object.key, "tags">> \notin disturbed => TagsPromised(r.entry)

(* --keep-latest-only never removes the entry that is current when its request    *)
(* arrives, also if the endpoint leaves is_latest out of its answers, and also if *)
(* other clients add entries in the meantime. Two things can make an old entry    *)
(* the current one behind the listing's back: another client removes those above  *)
(* it, or, with the version id "null", a write while versioning is suspended      *)
(* takes the place and the id of the entry that was listed.                       *)
CurrentKept ==
    Config.keep_latest_only =>
        \A r \in removed :
            /\ <<r.object.key, "purge">> \notin disturbed
            /\ r.object.version # NullId \/ <<r.object.key, "write">> \notin disturbed
            => ~r.newest

(* A run scoped by size, content type, metadata or tags never makes a hidden      *)
(* object visible again (deleter/mod.rs: "deleting a latest delete marker         *)
(* resurrects the object it hides, which an attribute-scoped run never intends"). *)
AttributeScoped ==
    \/ Config.larger_size # NoThreshold \/ Config.smaller_size # NoThreshold
    \/ NeedsHeadObject(Config) \/ NeedsTagging(Config)
NothingResurrected ==
    AttributeScoped =>
        \A k \in Keys : Settled(k) /\ Visible(bucket, k) => Visible(case.bucket, k)

(* Every entry that was listed is in exactly one account: on its way, skipped     *)
(* once, reported as deleted, refused by S3, or the cause of a cancellation.      *)
TimesSkipped(o) == IF o \in DOMAIN skipped THEN skipped[o] ELSE 0
Account(o) ==
    TimesSkipped(o)
      + Cardinality({s \in {"deleted", "refused", "failed", "on its way"} :
                        CASE s = "deleted" -> o \in completed
                          [] s = "refused" -> o \in refused
                          [] s = "failed" -> o \in failed
                          [] s = "on its way" -> \E w \in work : w.object = o})
AccountedOnce == \A o \in entries : Account(o) = 1

=============================================================================
