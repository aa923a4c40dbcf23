---------------------------- MODULE MCSelection -----------------------------
(* Small instances of Selection: a key with at most three entries,              *)
(* every option on its own and some together, and every value at its boundary.    *)
EXTENDS Selection

NoFilter ==
    [ larger_size |-> NoThreshold, smaller_size |-> NoThreshold,
      after_time |-> NoThreshold, before_time |-> NoThreshold,
      include_regex |-> FALSE, exclude_regex |-> FALSE,
      include_content_type |-> FALSE, exclude_content_type |-> FALSE,
      include_metadata |-> FALSE, exclude_metadata |-> FALSE,
      include_tag |-> FALSE, exclude_tag |-> FALSE,
      keep_latest_only |-> FALSE, delete_marker_only |-> FALSE, user |-> FALSE ]

VersionConfigs ==
    { NoFilter,
      [NoFilter EXCEPT !.larger_size = 1, !.smaller_size = 2],
      [NoFilter EXCEPT !.after_time = 1, !.before_time = 2],
      [NoFilter EXCEPT !.include_content_type = TRUE, !.exclude_metadata = TRUE],
      [NoFilter EXCEPT !.exclude_content_type = TRUE, !.include_metadata = TRUE],
      [NoFilter EXCEPT !.include_tag = TRUE], [NoFilter EXCEPT !.exclude_tag = TRUE],
      [NoFilter EXCEPT !.keep_latest_only = TRUE],
      [NoFilter EXCEPT !.keep_latest_only = TRUE, !.exclude_regex = TRUE],
      [NoFilter EXCEPT !.delete_marker_only = TRUE, !.before_time = 2] }
PlainConfigs ==
    { [NoFilter EXCEPT !.include_regex = TRUE, !.include_content_type = TRUE],
      [NoFilter EXCEPT !.smaller_size = 2, !.exclude_tag = TRUE],
      [NoFilter EXCEPT !.exclude_regex = TRUE, !.user = TRUE] }

Good == [size |-> 1, mtime |-> 1, content_type |-> "a", metadata |-> "a", tags |-> "a"]
Variants ==
    { Good, [Good EXCEPT !.size = 0, !.mtime = 0], [Good EXCEPT !.size = 2, !.mtime = 2],
      [Good EXCEPT !.size = -1, !.mtime = NoTime],
      [Good EXCEPT !.content_type = "none", !.metadata = "none"],
      [Good EXCEPT !.content_type = "b"], [Good EXCEPT !.metadata = "b"],
      [Good EXCEPT !.content_type = "error"], [Good EXCEPT !.tags = "b"] }
(* Each size has an ETag; other clients write other bytes, or the same ones with  *)
(* other attributes, or to an endpoint that has no ETags.                         *)
MCSizeOf == <<1, 2, 0, -1>>
ETagOf(a) == CHOOSE t \in DOMAIN MCSizeOf : MCSizeOf[t] = a.size
Object(etag, a) == [etag |-> etag, attributes |-> a]
Odd == [Good EXCEPT !.mtime = 2, !.content_type = "b", !.tags = "b"]
MCWritten == {Object(1, Odd), Object(2, [Odd EXCEPT !.size = 2]), Object(NoETag, Good)}

Item(id, marker, a) ==
    [id |-> id, etag |-> IF marker THEN NoETag ELSE ETagOf(a), marker |-> marker, attributes |-> a]
Unmarked(id, a) == [id |-> id, etag |-> NoETag, marker |-> FALSE, attributes |-> a]
Histories == { <<Item(i, FALSE, a)>> : i \in {NullId, 1}, a \in Variants }
    \cup { <<Item(2, m, a), Item(NullId, FALSE, Good)>> : a \in Variants, m \in BOOLEAN }
    \cup { <<Item(NullId, TRUE, Good), Item(1, FALSE, a)>> : a \in Variants }
    \cup { <<Item(2, FALSE, Good), Item(NullId, FALSE, Good), Item(1, FALSE, Good)>> }
Single == { <<Item(NullId, FALSE, a)>> : a \in Variants } \cup { <<Unmarked(NullId, a)>> : a \in Variants }

Case(config, name, versions, if_match, versioned, history) ==
    [ config |-> config, names |-> [k \in Keys |-> name], versions |-> versions,
      if_match |-> if_match, versioned |-> versioned, bucket |-> [k \in Keys |-> history] ]
NamesFor(c) == IF c.include_regex \/ c.exclude_regex THEN Text ELSE {"a"}

MCCases ==
    UNION { { Case(c, n, TRUE, FALSE, TRUE, h) : n \in NamesFor(c), h \in Histories } :
              c \in VersionConfigs }
    \cup UNION { { Case(c, n, FALSE, i, v, h) :
                     n \in NamesFor(c), i, v \in BOOLEAN, h \in Single } : c \in PlainConfigs }
=============================================================================
