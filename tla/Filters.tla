------------------------------ MODULE Filters -------------------------------
(* What decides whether a listed entry is deleted: the accessors of S3Object, the *)
(* predicates of the filter stages, in the order DeletionPipeline::filter_objects *)
(* chains them, and the content type, metadata and tag decisions of the worker.   *)
(*                                                                                *)
(* A regular expression is reduced to the class of the text it is matched with:   *)
(* an include expression matches "a", an exclude expression matches "b", and      *)
(* "error" is a text on which the engine gives up (fancy_regex backtracks).       *)
EXTENDS Integers, Sequences, SequencesExt

NoTime == -1                 \* a last_modified that chrono cannot represent
NoThreshold == -1            \* an option that was not given
NoETag == 0                  \* an ETag that the endpoint leaves out; delete markers have none

Text == {"a", "b", "error"}
OptionalText == Text \cup {"none"}

(* Attributes of an entry: size and mtime come with the listing, the content      *)
(* type and the metadata with HeadObject, the tags with GetObjectTagging.         *)
Attributes == [size : Int, mtime : Int, content_type : OptionalText, metadata : OptionalText, tags : Text]

(* An entry of a listing. is_latest is what the endpoint said, if it said it.     *)
S3Object ==
    [ kind : {"NotVersioning", "Versioning", "DeleteMarker"}, key : STRING, name : Text,
      version : Nat, is_latest : {"yes", "no", "absent"}, size : Int, mtime : Int, etag : Nat ]

FilterConfig ==
    [ larger_size : Int, smaller_size : Int, after_time : Int, before_time : Int,
      include_regex : BOOLEAN, exclude_regex : BOOLEAN,
      include_content_type : BOOLEAN, exclude_content_type : BOOLEAN,
      include_metadata : BOOLEAN, exclude_metadata : BOOLEAN,
      include_tag : BOOLEAN, exclude_tag : BOOLEAN,
      keep_latest_only : BOOLEAN, delete_marker_only : BOOLEAN, user : BOOLEAN ]

-----------------------------------------------------------------------------
(* Accessors of S3Object. *)

IsDeleteMarker(o) == o.kind = "DeleteMarker"
(* Faulty: an entry whose flag is absent counts as an old version. *)
IsLatestOnlyIfSaid(o) == o.kind = "NotVersioning" \/ o.is_latest = "yes"
IsLatest(o) == o.kind = "NotVersioning" \/ o.is_latest # "no"
Size(o) == IF IsDeleteMarker(o) THEN 0 ELSE o.size

-----------------------------------------------------------------------------
(* Predicates of the filter stages: TRUE lets the entry pass to deletion. *)

IsSmaller(o, c) ==
    /\ ~IsDeleteMarker(o)
    /\ c.smaller_size # NoThreshold
    /\ Size(o) >= 0 /\ Size(o) < c.smaller_size

IsLargerOrEqual(o, c) ==
    /\ ~IsDeleteMarker(o)
    /\ c.larger_size # NoThreshold
    /\ Size(o) >= 0 /\ Size(o) >= c.larger_size

(* Faulty: an object modified at the very moment passes both mtime filters. *)
IsBeforeOrEqual(o, c) ==
    c.before_time # NoThreshold /\ o.mtime # NoTime /\ o.mtime <= c.before_time
IsBefore(o, c) ==
    /\ c.before_time # NoThreshold
    /\ o.mtime # NoTime
    /\ o.mtime < c.before_time
IsAfterOrEqual(o, c) ==
    /\ c.after_time # NoThreshold
    /\ o.mtime # NoTime
    /\ o.mtime >= c.after_time

(* An expression the engine gives up on skips the entry, on both sides. *)
IncludeRegex(o, c) == c.include_regex /\ o.name = "a"
ExcludeRegex(o, c) == c.exclude_regex /\ o.name \notin {"b", "error"}

IsNotLatestVersion(o, c) == ~IsLatest(o)

IsDeleteMarkerOnly(o, c) == IsDeleteMarker(o)

(* The stages filter_objects chains, each if its option was given, in this order. *)
StageIf(given, f) == IF given THEN <<f>> ELSE << >>
Chain(c) ==
    StageIf(c.delete_marker_only, "DeleteMarkerOnly")
    \o StageIf(c.before_time # NoThreshold, "MtimeBefore")
    \o StageIf(c.after_time # NoThreshold, "MtimeAfter")
    \o StageIf(c.smaller_size # NoThreshold, "SmallerSize")
    \o StageIf(c.larger_size # NoThreshold, "LargerSize")
    \o StageIf(c.include_regex, "IncludeRegex")
    \o StageIf(c.exclude_regex, "ExcludeRegex")
    \o StageIf(c.keep_latest_only, "KeepLatestOnly")
    \o StageIf(c.user, "UserDefined")

(* The predicate of a built-in stage. *)
Passes(f, o, c) ==
    CASE f = "DeleteMarkerOnly" -> IsDeleteMarkerOnly(o, c)
      [] f = "MtimeBefore" -> IsBefore(o, c)
      [] f = "MtimeAfter" -> IsAfterOrEqual(o, c)
      [] f = "SmallerSize" -> IsSmaller(o, c)
      [] f = "LargerSize" -> IsLargerOrEqual(o, c)
      [] f = "IncludeRegex" -> IncludeRegex(o, c)
      [] f = "ExcludeRegex" -> ExcludeRegex(o, c)
      [] f = "KeepLatestOnly" -> IsNotLatestVersion(o, c)

-----------------------------------------------------------------------------
(* Decisions of the worker. *)

DecideDeleteByRegex(configured, value, is_include) ==
    CASE ~configured -> "pass"
      [] configured /\ value = "none" -> IF is_include THEN "skip" ELSE "pass"
      [] configured /\ value = "error" -> "error"
      [] OTHER -> IF (value = IF is_include THEN "a" ELSE "b") = is_include THEN "pass" ELSE "skip"

NeedsHeadObject(c) ==
    \/ c.include_content_type \/ c.exclude_content_type
    \/ c.include_metadata \/ c.exclude_metadata
NeedsTagging(c) == c.include_tag \/ c.exclude_tag

(* Decisions are taken in order; the first one that is not "pass" is final. *)
FirstDecision(ds) ==
    IF \A i \in DOMAIN ds : ds[i] = "pass" THEN "pass"
    ELSE ds[CHOOSE i \in DOMAIN ds : ds[i] # "pass" /\ \A j \in 1 .. i - 1 : ds[j] = "pass"]

(* What apply_head_object_filters makes of the attributes HeadObject returned,    *)
(* and apply_tag_filters of the tags. An object without tags has the empty text,  *)
(* never "none"; empty metadata is "none".                                        *)
HeadDecision(attributes, c) ==
    FirstDecision(<< DecideDeleteByRegex(c.include_content_type, attributes.content_type, TRUE),
                     DecideDeleteByRegex(c.exclude_content_type, attributes.content_type, FALSE),
                     DecideDeleteByRegex(c.include_metadata, attributes.metadata, TRUE),
                     DecideDeleteByRegex(c.exclude_metadata, attributes.metadata, FALSE) >>)
TagDecision(attributes, c) ==
    FirstDecision(<< DecideDeleteByRegex(c.include_tag, attributes.tags, TRUE),
                     DecideDeleteByRegex(c.exclude_tag, attributes.tags, FALSE) >>)

=============================================================================
