--------------------------- MODULE SelectionProofs ---------------------------
(* Proofs about what a run removes, for every set of keys and every history of    *)
(* each, every combination of filters, and any number of writes by other clients. *)
EXTENDS Selection, FiniteSetTheorems, TLAPS

USE DEF vars

-----------------------------------------------------------------------------
(* Sequences. *)

LEMMA Concatenation ==
    ASSUME NEW S, NEW s \in Seq(S), NEW t \in Seq(S)
    PROVE  /\ s \o t \in Seq(S)
           /\ Len(s \o t) = Len(s) + Len(t)
           /\ \A i \in 1 .. Len(s) + Len(t) :
                 (s \o t)[i] = IF i <= Len(s) THEN s[i] ELSE t[i - Len(s)]
  OBVIOUS

LEMMA Pushed ==
    ASSUME NEW S, NEW e \in S, NEW s \in Seq(S)
    PROVE  /\ <<e>> \o s \in Seq(S)
           /\ DOMAIN (<<e>> \o s) = 1 .. Len(s) + 1
           /\ (<<e>> \o s)[1] = e
           /\ \A i \in 2 .. Len(s) + 1 : (<<e>> \o s)[i] = s[i - 1] /\ i - 1 \in DOMAIN s
  OBVIOUS

LEMMA Removing ==
    ASSUME NEW S, NEW s \in Seq(S), NEW i \in DOMAIN s
    PROVE  /\ RemoveAt(s, i) \in Seq(S)
           /\ DOMAIN RemoveAt(s, i) = 1 .. Len(s) - 1
           /\ \A j \in 1 .. Len(s) - 1 :
                 /\ RemoveAt(s, i)[j] = s[IF j < i THEN j ELSE j + 1]
                 /\ (IF j < i THEN j ELSE j + 1) \in DOMAIN s
  <1> DEFINE a == SubSeq(s, 1, i - 1)
             b == SubSeq(s, i + 1, Len(s))
  <1>1. /\ a \in Seq(S)
        /\ Len(a) = i - 1
        /\ \A j \in 1 .. i - 1 : a[j] = s[j]
    OBVIOUS
  <1>2. /\ b \in Seq(S)
        /\ Len(b) = Len(s) - i
        /\ \A j \in 1 .. Len(s) - i : b[j] = s[i + j]
    OBVIOUS
  <1>3. RemoveAt(s, i) = a \o b
    BY DEF RemoveAt
  <1> HIDE DEF a, b
  <1>4. /\ a \o b \in Seq(S)
        /\ Len(a \o b) = Len(a) + Len(b)
        /\ \A j \in 1 .. Len(a) + Len(b) :
              (a \o b)[j] = IF j <= Len(a) THEN a[j] ELSE b[j - Len(a)]
    BY <1>1, <1>2, Concatenation
  <1>5. Len(s) \in Nat /\ i \in 1 .. Len(s) /\ DOMAIN s = 1 .. Len(s)
    OBVIOUS
  <1>6. DOMAIN (a \o b) = 1 .. Len(s) - 1
    <2>1. Len(a \o b) = Len(s) - 1
      BY <1>1, <1>2, <1>4, <1>5
    <2>2. QED
      BY <1>4, <2>1
  <1>7. ASSUME NEW j \in 1 .. Len(s) - 1
        PROVE  /\ (a \o b)[j] = s[IF j < i THEN j ELSE j + 1]
               /\ (IF j < i THEN j ELSE j + 1) \in DOMAIN s
    <2>1. CASE j < i
      BY <1>1, <1>2, <1>4, <1>5, <1>7, <2>1
    <2>2. CASE ~(j < i)
      <3>1. (a \o b)[j] = b[j - (i - 1)]
        <4>1. j \in 1 .. Len(a) + Len(b) /\ ~(j <= Len(a))
          BY <1>1, <1>2, <1>5, <1>7, <2>2
        <4>2. QED
          BY <1>1, <1>4, <4>1
      <3>2. b[j - (i - 1)] = s[i + (j - (i - 1))]
        BY <1>1, <1>2, <1>5, <1>7, <2>2
      <3>3. i + (j - (i - 1)) = j + 1
        BY <1>5, <1>7
      <3>4. QED
        BY <1>5, <1>7, <2>2, <3>1, <3>2, <3>3
    <2>3. QED
      BY <2>1, <2>2
  <1>8. QED
    BY <1>3, <1>4, <1>6, <1>7

-----------------------------------------------------------------------------
(* The chain of filter stages holds every filter whose option was given. *)

FilterNames ==
    { "DeleteMarkerOnly", "MtimeBefore", "MtimeAfter", "SmallerSize", "LargerSize",
      "IncludeRegex", "ExcludeRegex", "KeepLatestOnly", "UserDefined" }
HasStage(s, f) == \E i \in DOMAIN s : s[i] = f

(* t is s with a stage for f after it, if that was asked for. *)
Extended(s, t, given, f) ==
    /\ t \in Seq(FilterNames)
    /\ given => HasStage(t, f)
    /\ \A g \in FilterNames : HasStage(s, g) => HasStage(t, g)

LEMMA StageKept ==
    ASSUME NEW s \in Seq(FilterNames), NEW given, NEW f \in FilterNames
    PROVE  Extended(s, s \o StageIf(given, f), given, f)
  <1>1. CASE given
    <2> DEFINE t == <<f>>
    <2>1. StageIf(given, f) = t
      BY <1>1 DEF StageIf
    <2>2. t \in Seq(FilterNames) /\ Len(t) = 1 /\ t[1] = f
      OBVIOUS
    <2> HIDE DEF t
    <2>3. /\ s \o t \in Seq(FilterNames)
          /\ Len(s \o t) = Len(s) + 1
          /\ \A i \in 1 .. Len(s) + 1 : (s \o t)[i] = IF i <= Len(s) THEN s[i] ELSE t[i - Len(s)]
      BY <2>2, Concatenation
    <2>4. Len(s) \in Nat /\ DOMAIN s = 1 .. Len(s) /\ DOMAIN (s \o t) = 1 .. Len(s) + 1
      BY <2>3
    <2>5. HasStage(s \o t, f)
      <3>1. Len(s) + 1 \in DOMAIN (s \o t) /\ (s \o t)[Len(s) + 1] = t[1]
        BY <2>3, <2>4
      <3>2. QED
        BY <2>2, <3>1 DEF HasStage
    <2>6. ASSUME NEW g \in FilterNames, HasStage(s, g) PROVE HasStage(s \o t, g)
      <3>1. PICK i \in DOMAIN s : s[i] = g
        BY <2>6 DEF HasStage
      <3>2. i \in DOMAIN (s \o t) /\ (s \o t)[i] = g
        BY <2>3, <2>4, <3>1
      <3>3. QED
        BY <3>2 DEF HasStage
    <2>7. QED
      BY <2>1, <2>3, <2>5, <2>6 DEF Extended
  <1>2. CASE ~given
    <2>1. StageIf(given, f) = << >>
      BY <1>2 DEF StageIf
    <2>2. s \o << >> = s
      OBVIOUS
    <2>3. QED
      BY <1>2, <2>1, <2>2 DEF Extended
  <1>3. QED
    BY <1>1, <1>2

LEMMA ChainComplete ==
    ASSUME NEW c \in FilterConfig
    PROVE  /\ Chain(c) \in Seq(FilterNames)
           /\ c.delete_marker_only => HasStage(Chain(c), "DeleteMarkerOnly")
           /\ c.before_time # NoThreshold => HasStage(Chain(c), "MtimeBefore")
           /\ c.after_time # NoThreshold => HasStage(Chain(c), "MtimeAfter")
           /\ c.smaller_size # NoThreshold => HasStage(Chain(c), "SmallerSize")
           /\ c.larger_size # NoThreshold => HasStage(Chain(c), "LargerSize")
           /\ c.include_regex => HasStage(Chain(c), "IncludeRegex")
           /\ c.exclude_regex => HasStage(Chain(c), "ExcludeRegex")
           /\ c.keep_latest_only => HasStage(Chain(c), "KeepLatestOnly")
  <1> DEFINE s1 == StageIf(c.delete_marker_only, "DeleteMarkerOnly")
             s2 == s1 \o StageIf(c.before_time # NoThreshold, "MtimeBefore")
             s3 == s2 \o StageIf(c.after_time # NoThreshold, "MtimeAfter")
             s4 == s3 \o StageIf(c.smaller_size # NoThreshold, "SmallerSize")
             s5 == s4 \o StageIf(c.larger_size # NoThreshold, "LargerSize")
             s6 == s5 \o StageIf(c.include_regex, "IncludeRegex")
             s7 == s6 \o StageIf(c.exclude_regex, "ExcludeRegex")
             s8 == s7 \o StageIf(c.keep_latest_only, "KeepLatestOnly")
             s9 == s8 \o StageIf(c.user, "UserDefined")
  <1>1. s1 \in Seq(FilterNames) /\ (c.delete_marker_only => HasStage(s1, "DeleteMarkerOnly"))
    <2>1. CASE c.delete_marker_only
      <3>1. s1 = <<"DeleteMarkerOnly">>
        BY <2>1 DEF StageIf
      <3> HIDE DEF s1
      <3>2. s1 \in Seq(FilterNames) /\ 1 \in DOMAIN s1 /\ s1[1] = "DeleteMarkerOnly"
        BY <3>1 DEF FilterNames
      <3>3. QED
        BY <3>2 DEF HasStage
    <2>2. CASE ~c.delete_marker_only
      BY <2>2 DEF StageIf
    <2>3. QED
      BY <2>1, <2>2
  <1> HIDE DEF s1
  <1>2. Extended(s1, s2, c.before_time # NoThreshold, "MtimeBefore")
    BY <1>1, StageKept, Zenon DEF Extended, FilterNames
  <1> HIDE DEF s2
  <1>3. Extended(s2, s3, c.after_time # NoThreshold, "MtimeAfter")
    BY <1>2, StageKept, Zenon DEF Extended, FilterNames
  <1> HIDE DEF s3
  <1>4. Extended(s3, s4, c.smaller_size # NoThreshold, "SmallerSize")
    BY <1>3, StageKept, Zenon DEF Extended, FilterNames
  <1> HIDE DEF s4
  <1>5. Extended(s4, s5, c.larger_size # NoThreshold, "LargerSize")
    BY <1>4, StageKept, Zenon DEF Extended, FilterNames
  <1> HIDE DEF s5
  <1>6. Extended(s5, s6, c.include_regex, "IncludeRegex")
    BY <1>5, StageKept, Zenon DEF Extended, FilterNames
  <1> HIDE DEF s6
  <1>7. Extended(s6, s7, c.exclude_regex, "ExcludeRegex")
    BY <1>6, StageKept, Zenon DEF Extended, FilterNames
  <1> HIDE DEF s7
  <1>8. Extended(s7, s8, c.keep_latest_only, "KeepLatestOnly")
    BY <1>7, StageKept, Zenon DEF Extended, FilterNames
  <1> HIDE DEF s8
  <1>9. Extended(s8, s9, c.user, "UserDefined")
    BY <1>8, StageKept, Zenon DEF Extended, FilterNames
  <1> HIDE DEF s9
  <1>10. Chain(c) = s9
    BY DEF Chain, s1, s2, s3, s4, s5, s6, s7, s8, s9
  <1>11. ASSUME NEW g \in FilterNames,
               \/ HasStage(s1, g) \/ HasStage(s2, g) \/ HasStage(s3, g) \/ HasStage(s4, g)
               \/ HasStage(s5, g) \/ HasStage(s6, g) \/ HasStage(s7, g) \/ HasStage(s8, g)
         PROVE  HasStage(Chain(c), g)
    BY <1>2, <1>3, <1>4, <1>5, <1>6, <1>7, <1>8, <1>9, <1>10, <1>11, Zenon DEF Extended
  <1>12. Chain(c) \in Seq(FilterNames)
    BY <1>9, <1>10, Zenon DEF Extended
  <1>13. /\ c.delete_marker_only => HasStage(s1, "DeleteMarkerOnly")
         /\ c.before_time # NoThreshold => HasStage(s2, "MtimeBefore")
         /\ c.after_time # NoThreshold => HasStage(s3, "MtimeAfter")
         /\ c.smaller_size # NoThreshold => HasStage(s4, "SmallerSize")
         /\ c.larger_size # NoThreshold => HasStage(s5, "LargerSize")
         /\ c.include_regex => HasStage(s6, "IncludeRegex")
         /\ c.exclude_regex => HasStage(s7, "ExcludeRegex")
         /\ c.keep_latest_only => HasStage(s8, "KeepLatestOnly")
    BY <1>1, <1>2, <1>3, <1>4, <1>5, <1>6, <1>7, <1>8, Zenon DEF Extended
  <1>14. QED
    BY <1>11, <1>12, <1>13, Zenon DEF FilterNames

-----------------------------------------------------------------------------
(* The decisions of the worker. *)

LEMMA AllFourPass ==
    ASSUME NEW a, NEW b, NEW c, NEW d, FirstDecision(<<a, b, c, d>>) = "pass"
    PROVE  a = "pass" /\ b = "pass" /\ c = "pass" /\ d = "pass"
  <1> DEFINE ds == <<a, b, c, d>>
             First(i) == ds[i] # "pass" /\ \A j \in 1 .. i - 1 : ds[j] = "pass"
  <1>1. DOMAIN ds = {1, 2, 3, 4} /\ ds[1] = a /\ ds[2] = b /\ ds[3] = c /\ ds[4] = d
    OBVIOUS
  <1>2. ASSUME ~(\A i \in DOMAIN ds : ds[i] = "pass") PROVE FALSE
    <2>1. \E i \in DOMAIN ds : First(i)
      <3>1. CASE a # "pass"
        BY <1>1, <3>1
      <3>2. CASE a = "pass" /\ b # "pass"
        BY <1>1, <3>2
      <3>3. CASE a = "pass" /\ b = "pass" /\ c # "pass"
        BY <1>1, <3>3
      <3>4. CASE a = "pass" /\ b = "pass" /\ c = "pass" /\ d # "pass"
        BY <1>1, <3>4
      <3>5. QED
        BY <1>1, <1>2, <3>1, <3>2, <3>3, <3>4
    <2>2. First(CHOOSE i \in DOMAIN ds : First(i))
      BY <2>1
    <2>3. FirstDecision(ds) = ds[CHOOSE i \in DOMAIN ds : First(i)]
      BY <1>2 DEF FirstDecision
    <2>4. QED
      BY <2>2, <2>3
  <1>3. QED
    BY <1>1, <1>2

LEMMA BothPass ==
    ASSUME NEW a, NEW b, FirstDecision(<<a, b>>) = "pass"
    PROVE  a = "pass" /\ b = "pass"
  <1> DEFINE ds == <<a, b>>
             First(i) == ds[i] # "pass" /\ \A j \in 1 .. i - 1 : ds[j] = "pass"
  <1>1. DOMAIN ds = {1, 2} /\ ds[1] = a /\ ds[2] = b
    OBVIOUS
  <1>2. ASSUME ~(\A i \in DOMAIN ds : ds[i] = "pass") PROVE FALSE
    <2>1. \E i \in DOMAIN ds : First(i)
      <3>1. CASE a # "pass"
        BY <1>1, <3>1
      <3>2. CASE a = "pass" /\ b # "pass"
        BY <1>1, <3>2
      <3>3. QED
        BY <1>1, <1>2, <3>1, <3>2
    <2>2. First(CHOOSE i \in DOMAIN ds : First(i))
      BY <2>1
    <2>3. FirstDecision(ds) = ds[CHOOSE i \in DOMAIN ds : First(i)]
      BY <1>2 DEF FirstDecision
    <2>4. QED
      BY <2>2, <2>3
  <1>3. QED
    BY <1>1, <1>2

LEMMA RegexPass ==
    ASSUME NEW value \in OptionalText, NEW configured \in BOOLEAN, configured
    PROVE  /\ DecideDeleteByRegex(configured, value, TRUE) = "pass" => value = "a"
           /\ DecideDeleteByRegex(configured, value, FALSE) = "pass" => value \in {"a", "none"}
  BY DEF DecideDeleteByRegex, OptionalText, Text

(* An object whose attributes pass satisfies the options about them. *)
LEMMA HeadPass ==
    ASSUME NEW c \in FilterConfig, NEW a \in Attributes, HeadDecision(a, c) = "pass"
    PROVE  /\ c.include_content_type => a.content_type = "a"
           /\ c.exclude_content_type => a.content_type \in {"a", "none"}
           /\ c.include_metadata => a.metadata = "a"
           /\ c.exclude_metadata => a.metadata \in {"a", "none"}
  <1>1. /\ a.content_type \in OptionalText /\ a.metadata \in OptionalText
        /\ c.include_content_type \in BOOLEAN /\ c.exclude_content_type \in BOOLEAN
        /\ c.include_metadata \in BOOLEAN /\ c.exclude_metadata \in BOOLEAN
    BY DEF Attributes, FilterConfig
  <1>2. /\ DecideDeleteByRegex(c.include_content_type, a.content_type, TRUE) = "pass"
        /\ DecideDeleteByRegex(c.exclude_content_type, a.content_type, FALSE) = "pass"
        /\ DecideDeleteByRegex(c.include_metadata, a.metadata, TRUE) = "pass"
        /\ DecideDeleteByRegex(c.exclude_metadata, a.metadata, FALSE) = "pass"
    <2> DEFINE p == DecideDeleteByRegex(c.include_content_type, a.content_type, TRUE)
               q == DecideDeleteByRegex(c.exclude_content_type, a.content_type, FALSE)
               r == DecideDeleteByRegex(c.include_metadata, a.metadata, TRUE)
               t == DecideDeleteByRegex(c.exclude_metadata, a.metadata, FALSE)
    <2>1. FirstDecision(<<p, q, r, t>>) = "pass"
      BY DEF HeadDecision
    <2> HIDE DEF p, q, r, t
    <2>2. p = "pass" /\ q = "pass" /\ r = "pass" /\ t = "pass"
      BY <2>1, AllFourPass
    <2>3. QED
      BY <2>2 DEF p, q, r, t
  <1>3. QED
    BY <1>1, <1>2, RegexPass, Zenon

LEMMA TagPass ==
    ASSUME NEW c \in FilterConfig, NEW a \in Attributes, TagDecision(a, c) = "pass"
    PROVE  /\ c.include_tag => a.tags = "a"
           /\ c.exclude_tag => a.tags = "a"
  <1>1. /\ a.tags \in OptionalText /\ a.tags # "none"
        /\ c.include_tag \in BOOLEAN /\ c.exclude_tag \in BOOLEAN
    BY DEF Attributes, FilterConfig, OptionalText, Text
  <1>2. /\ DecideDeleteByRegex(c.include_tag, a.tags, TRUE) = "pass"
        /\ DecideDeleteByRegex(c.exclude_tag, a.tags, FALSE) = "pass"
    BY BothPass, Zenon DEF TagDecision
  <1>3. c.exclude_tag => a.tags \in {"a", "none"}
    BY <1>1, <1>2, RegexPass, Zenon
  <1>4. QED
    BY <1>1, <1>2, <1>3, RegexPass, Zenon

-----------------------------------------------------------------------------
(* The history of one key: no two entries have the same version id. *)

KeyOK(s, n, versioned) ==
    /\ s \in Seq(Entry)
    /\ \A i \in DOMAIN s : s[i].id < n
    /\ \A i \in DOMAIN s : SameBytes(s[i])
    /\ \A i, j \in DOMAIN s : s[i].id = s[j].id => i = j
    /\ ~versioned => Len(s) <= 1

LEMMA EntryIds ==
    ASSUME NEW s \in Seq(Entry)
    PROVE  Len(s) \in Nat /\ \A i \in DOMAIN s : s[i] \in Entry /\ s[i].id \in Nat
  <1>1. \A e \in Entry : e.id \in Nat
    BY DEF Entry
  <1>2. \A i \in DOMAIN s : s[i] \in Entry
    OBVIOUS
  <1>3. QED
    BY <1>1, <1>2

LEMMA KeyLater ==
    ASSUME NEW s, NEW v \in BOOLEAN, NEW n \in Nat, NEW m \in Nat, n <= m, KeyOK(s, n, v)
    PROVE  KeyOK(s, m, v)
  <1>1. \A i \in DOMAIN s : s[i].id \in Nat
    BY EntryIds DEF KeyOK
  <1>2. QED
    BY <1>1 DEF KeyOK

LEMMA KeyPushed ==
    ASSUME NEW s, NEW v \in BOOLEAN, NEW n \in Nat, KeyOK(s, n, v), v,
           NEW e \in Entry, e.id < n, SameBytes(e), \A i \in DOMAIN s : s[i].id # e.id
    PROVE  KeyOK(<<e>> \o s, n, v)
  <1> DEFINE t == <<e>> \o s
  <1>1. s \in Seq(Entry) /\ Len(s) \in Nat /\ \A i \in DOMAIN s : s[i].id \in Nat /\ s[i].id < n
    BY EntryIds DEF KeyOK
  <1>2. /\ t \in Seq(Entry) /\ DOMAIN t = 1 .. Len(s) + 1 /\ t[1] = e
        /\ \A i \in 2 .. Len(s) + 1 : t[i] = s[i - 1] /\ i - 1 \in DOMAIN s
    BY <1>1, Pushed
  <1> HIDE DEF t
  <1>3. ASSUME NEW i \in DOMAIN t PROVE i = 1 \/ i \in 2 .. Len(s) + 1
    BY <1>1, <1>2
  <1>4. ASSUME NEW i \in DOMAIN t
        PROVE  t[i].id < n /\ SameBytes(t[i]) /\ (i # 1 => t[i].id # e.id)
    BY <1>1, <1>2, <1>3 DEF KeyOK
  <1>5. ASSUME NEW i \in DOMAIN t, NEW j \in DOMAIN t, t[i].id = t[j].id
        PROVE  i = j
    <2>1. CASE i = 1 \/ j = 1
      BY <1>2, <1>4, <1>5, <2>1
    <2>2. CASE i # 1 /\ j # 1
      <3>1. /\ i - 1 \in DOMAIN s /\ j - 1 \in DOMAIN s /\ s[i - 1].id = s[j - 1].id
            /\ i \in Int /\ j \in Int
        BY <1>1, <1>2, <1>3, <1>5, <2>2
      <3>2. i - 1 = j - 1
        BY <3>1 DEF KeyOK
      <3>3. QED
        BY <3>1, <3>2
    <2>3. QED
      BY <2>1, <2>2
  <1>6. QED
    BY <1>2, <1>4, <1>5 DEF KeyOK, t

LEMMA KeySingle ==
    ASSUME NEW v \in BOOLEAN, NEW n \in Nat, NEW e \in Entry, e.id < n, SameBytes(e)
    PROVE  KeyOK(<<e>>, n, v)
  <1> DEFINE t == <<e>>
  <1>1. t \in Seq(Entry) /\ DOMAIN t = {1} /\ t[1] = e /\ Len(t) = 1
    OBVIOUS
  <1> HIDE DEF t
  <1>2. KeyOK(t, n, v)
    BY <1>1 DEF KeyOK
  <1>3. QED
    BY <1>2 DEF t

LEMMA KeyEmpty ==
    ASSUME NEW v \in BOOLEAN, NEW n \in Nat
    PROVE  KeyOK(<< >>, n, v)
  BY DEF KeyOK

LEMMA KeyDropped ==
    ASSUME NEW s, NEW v \in BOOLEAN, NEW n \in Nat, KeyOK(s, n, v), NEW i \in DOMAIN s
    PROVE  /\ KeyOK(RemoveAt(s, i), n, v)
           /\ \A j \in DOMAIN RemoveAt(s, i) : RemoveAt(s, i)[j].id # s[i].id
  <1> DEFINE t == RemoveAt(s, i)
             At0(j) == IF j < i THEN j ELSE j + 1
  <1>1. s \in Seq(Entry) /\ Len(s) \in Nat /\ DOMAIN s = 1 .. Len(s) /\ i \in 1 .. Len(s)
    BY DEF KeyOK
  <1>2. /\ t \in Seq(Entry) /\ DOMAIN t = 1 .. Len(s) - 1
        /\ \A j \in 1 .. Len(s) - 1 : t[j] = s[At0(j)] /\ At0(j) \in DOMAIN s
    BY <1>1, Removing
  <1> HIDE DEF t
  <1>3. \A j \in DOMAIN t : t[j].id < n /\ SameBytes(t[j])
    BY <1>2 DEF KeyOK
  <1>4. ASSUME NEW j \in DOMAIN t, NEW k \in DOMAIN t, t[j].id = t[k].id
        PROVE  j = k
    <2>1. /\ At0(j) \in DOMAIN s /\ At0(k) \in DOMAIN s
          /\ s[At0(j)].id = s[At0(k)].id
          /\ j \in Int /\ k \in Int /\ i \in Int
      BY <1>1, <1>2, <1>4
    <2>2. At0(j) = At0(k)
      <3> HIDE DEF At0
      <3>1. QED
        BY <2>1 DEF KeyOK
    <2>3. QED
      BY <2>1, <2>2
  <1>5. ~v => Len(t) <= 1
    BY <1>1, <1>2 DEF KeyOK
  <1>6. ASSUME NEW j \in DOMAIN t PROVE t[j].id # s[i].id
    <2>1. At0(j) # i /\ At0(j) \in DOMAIN s /\ t[j] = s[At0(j)]
      BY <1>1, <1>2
    <2> HIDE DEF At0
    <2>2. QED
      BY <1>1, <2>1 DEF KeyOK
  <1>7. QED
    BY <1>2, <1>3, <1>4, <1>5, <1>6 DEF KeyOK, t

(* Making room for an id removes the entry that has it, or nothing. *)
LEMMA RoomMade ==
    ASSUME NEW s, NEW id
    PROVE  \/ Without(s, id) = s /\ \A i \in DOMAIN s : s[i].id # id
           \/ \E i \in DOMAIN s : s[i].id = id /\ Without(s, id) = RemoveAt(s, i)
  <1>1. CASE \E i \in DOMAIN s : s[i].id = id
    <2> DEFINE c == CHOOSE i \in DOMAIN s : s[i].id = id
    <2>1. c \in DOMAIN s /\ s[c].id = id
      BY <1>1
    <2>2. Without(s, id) = RemoveAt(s, c)
      BY <1>1 DEF Without
    <2>3. QED
      BY <2>1, <2>2
  <1>2. CASE ~\E i \in DOMAIN s : s[i].id = id
    BY <1>2 DEF Without
  <1>3. QED
    BY <1>1, <1>2

LEMMA KeyRoom ==
    ASSUME NEW s, NEW v \in BOOLEAN, NEW n \in Nat, KeyOK(s, n, v), NEW id
    PROVE  /\ KeyOK(Without(s, id), n, v)
           /\ \A i \in DOMAIN Without(s, id) : Without(s, id)[i].id # id
  BY RoomMade, KeyDropped

(* Two entries that differ in their tags at most. *)
Alike(e, f) ==
    /\ e.id = f.id /\ e.etag = f.etag /\ e.marker = f.marker
    /\ e.attributes.size = f.attributes.size /\ e.attributes.mtime = f.attributes.mtime
    /\ e.attributes.content_type = f.attributes.content_type
    /\ e.attributes.metadata = f.attributes.metadata
Tagged(s, i, tags) == [s EXCEPT ![i] = WithTags(s[i], tags)]

LEMMA Retagging ==
    ASSUME NEW s \in Seq(Entry), NEW i \in DOMAIN s, NEW tags \in Text
    PROVE  /\ Tagged(s, i, tags) \in Seq(Entry)
           /\ DOMAIN Tagged(s, i, tags) = DOMAIN s
           /\ \A j \in DOMAIN s : Alike(Tagged(s, i, tags)[j], s[j])
  <1> DEFINE x == WithTags(s[i], tags)
             t == Tagged(s, i, tags)
  <1>1. x \in Entry /\ Alike(x, s[i])
    <2>1. s[i] \in Entry /\ s[i].attributes \in Attributes
      BY EntryIds DEF Entry
    <2>2. /\ x.id = s[i].id /\ x.etag = s[i].etag /\ x.marker = s[i].marker
          /\ x.attributes = [ size |-> s[i].attributes.size, mtime |-> s[i].attributes.mtime,
                 content_type |-> s[i].attributes.content_type,
                 metadata |-> s[i].attributes.metadata, tags |-> tags ]
          /\ x = [id |-> x.id, etag |-> x.etag, marker |-> x.marker, attributes |-> x.attributes]
      BY DEF WithTags
    <2> HIDE DEF x
    <2>3. x.attributes \in Attributes
      BY <2>1, <2>2 DEF Attributes
    <2>4. x \in Entry
      BY <2>1, <2>2, <2>3 DEF Entry
    <2>5. QED
      BY <2>2, <2>4 DEF Alike
  <1> HIDE DEF x
  <1>2. t = [s EXCEPT ![i] = x]
    BY DEF Tagged, x
  <1>3. t \in Seq(Entry) /\ DOMAIN t = DOMAIN s /\ \A j \in DOMAIN s : t[j] = IF j = i THEN x ELSE s[j]
    BY <1>1, <1>2
  <1> HIDE DEF t
  <1>4. ASSUME NEW j \in DOMAIN s PROVE Alike(t[j], s[j])
    <2>1. CASE j = i
      BY <1>1, <1>3, <2>1
    <2>2. CASE j # i
      BY <1>3, <2>2 DEF Alike
    <2>3. QED
      BY <2>1, <2>2
  <1>5. QED
    BY <1>3, <1>4 DEF t

LEMMA KeyTagged ==
    ASSUME NEW s, NEW v \in BOOLEAN, NEW n \in Nat, KeyOK(s, n, v), NEW i \in DOMAIN s, NEW tags \in Text
    PROVE  KeyOK(Tagged(s, i, tags), n, v)
  <1> DEFINE t == Tagged(s, i, tags)
  <1>1. s \in Seq(Entry)
    BY DEF KeyOK
  <1>2. t \in Seq(Entry) /\ DOMAIN t = DOMAIN s /\ \A j \in DOMAIN s : Alike(t[j], s[j])
    BY <1>1, Retagging
  <1> HIDE DEF t
  <1>3. Len(t) = Len(s)
    BY <1>1, <1>2
  <1>4. \A j \in DOMAIN s : t[j].id = s[j].id /\ (SameBytes(s[j]) => SameBytes(t[j]))
    BY <1>2 DEF Alike, SameBytes
  <1>5. QED
    BY <1>2, <1>3, <1>4 DEF KeyOK, t

(* An entry e of s that a request for version v can reach. *)
Hit(s, versions, v, e) ==
    \E i \in DOMAIN s : s[i] = e /\ IF versions THEN e.id = v ELSE i = 1 /\ ~e.marker

LEMMA HitPushed ==
    ASSUME NEW s \in Seq(Entry), NEW e \in Entry, NEW v, e.id # v,
           NEW x, Hit(<<e>> \o s, TRUE, v, x)
    PROVE  Hit(s, TRUE, v, x)
  <1> DEFINE t == <<e>> \o s
  <1>1. /\ DOMAIN t = 1 .. Len(s) + 1 /\ t[1] = e /\ Len(s) \in Nat
        /\ \A i \in 2 .. Len(s) + 1 : t[i] = s[i - 1] /\ i - 1 \in DOMAIN s
    BY Pushed
  <1>2. PICK i \in DOMAIN t : t[i] = x /\ x.id = v
    BY DEF Hit
  <1> HIDE DEF t
  <1>3. i \in 2 .. Len(s) + 1 /\ i # 1
    BY <1>1, <1>2
  <1>4. s[i - 1] = x /\ i - 1 \in DOMAIN s
    BY <1>1, <1>2, <1>3
  <1>5. QED
    BY <1>2, <1>4 DEF Hit

LEMMA HitDropped ==
    ASSUME NEW s \in Seq(Entry), NEW i \in DOMAIN s, NEW versions \in BOOLEAN, NEW v,
           ~versions => Len(s) <= 1, NEW x, Hit(RemoveAt(s, i), versions, v, x)
    PROVE  Hit(s, versions, v, x)
  <1> DEFINE t == RemoveAt(s, i)
             At0(j) == IF j < i THEN j ELSE j + 1
  <1>1. /\ DOMAIN t = 1 .. Len(s) - 1 /\ Len(s) \in Nat
        /\ \A j \in 1 .. Len(s) - 1 : t[j] = s[At0(j)] /\ At0(j) \in DOMAIN s
    BY Removing
  <1>2. PICK j \in DOMAIN t : t[j] = x /\ (versions => x.id = v)
    BY DEF Hit
  <1> HIDE DEF t
  <1>3. s[At0(j)] = x /\ At0(j) \in DOMAIN s
    BY <1>1, <1>2
  <1>4. versions
    BY <1>1, <1>2
  <1>5. QED
    BY <1>2, <1>3, <1>4 DEF Hit

LEMMA HitRoom ==
    ASSUME NEW s \in Seq(Entry), NEW id, NEW v, NEW x, Hit(Without(s, id), TRUE, v, x)
    PROVE  Hit(s, TRUE, v, x)
  <1>1. ASSUME NEW i \in DOMAIN s, Without(s, id) = RemoveAt(s, i) PROVE Hit(s, TRUE, v, x)
    <2>1. Hit(RemoveAt(s, i), TRUE, v, x)
      BY <1>1
    <2>2. QED
      BY <2>1, HitDropped
  <1>2. QED
    BY <1>1, RoomMade

LEMMA HitTagged ==
    ASSUME NEW s \in Seq(Entry), NEW i \in DOMAIN s, NEW tags \in Text, NEW versions \in BOOLEAN, NEW v,
           NEW x, Hit(Tagged(s, i, tags), versions, v, x)
    PROVE  \E y : Hit(s, versions, v, y) /\ Alike(x, y)
  <1> DEFINE t == Tagged(s, i, tags)
  <1>1. DOMAIN t = DOMAIN s /\ \A j \in DOMAIN s : Alike(t[j], s[j])
    BY Retagging
  <1>2. PICK j \in DOMAIN t : t[j] = x /\ IF versions THEN x.id = v ELSE j = 1 /\ ~x.marker
    BY DEF Hit
  <1> HIDE DEF t
  <1>3. j \in DOMAIN s /\ Alike(x, s[j])
    BY <1>1, <1>2
  <1>4. Hit(s, versions, v, s[j])
    BY <1>2, <1>3 DEF Hit, Alike
  <1>5. QED
    BY <1>3, <1>4

-----------------------------------------------------------------------------
(* The order of the entries of a key, in terms of their version ids. *)

Occurs(s, b) == \E i \in DOMAIN s : s[i].id = b
Ahead(s, a, b) == \E i, j \in DOMAIN s : i < j /\ s[i].id = a /\ s[j].id = b

LEMMA OccursPushed ==
    ASSUME NEW s \in Seq(Entry), NEW e \in Entry, NEW b, e.id # b, Occurs(<<e>> \o s, b)
    PROVE  Occurs(s, b)
  <1> DEFINE t == <<e>> \o s
  <1>1. /\ DOMAIN t = 1 .. Len(s) + 1 /\ t[1] = e /\ Len(s) \in Nat
        /\ \A i \in 2 .. Len(s) + 1 : t[i] = s[i - 1] /\ i - 1 \in DOMAIN s
    BY Pushed
  <1>2. PICK i \in DOMAIN t : t[i].id = b
    BY DEF Occurs
  <1> HIDE DEF t
  <1>3. i \in 2 .. Len(s) + 1
    BY <1>1, <1>2
  <1>4. QED
    BY <1>1, <1>2, <1>3 DEF Occurs

LEMMA OccursDropped ==
    ASSUME NEW s \in Seq(Entry), NEW i \in DOMAIN s, NEW b, Occurs(RemoveAt(s, i), b)
    PROVE  Occurs(s, b)
  <1> DEFINE t == RemoveAt(s, i)
             At0(j) == IF j < i THEN j ELSE j + 1
  <1>1. /\ DOMAIN t = 1 .. Len(s) - 1
        /\ \A j \in 1 .. Len(s) - 1 : t[j] = s[At0(j)] /\ At0(j) \in DOMAIN s
    BY Removing
  <1>2. PICK j \in DOMAIN t : t[j].id = b
    BY DEF Occurs
  <1> HIDE DEF t, At0
  <1>3. At0(j) \in DOMAIN s /\ s[At0(j)].id = b
    BY <1>1, <1>2
  <1>4. QED
    BY <1>3 DEF Occurs

LEMMA OccursKept ==
    ASSUME NEW s \in Seq(Entry), NEW d \in DOMAIN s, NEW b, Occurs(s, b), s[d].id # b
    PROVE  Occurs(RemoveAt(s, d), b)
  <1> DEFINE t == RemoveAt(s, d)
  <1>1. /\ DOMAIN t = 1 .. Len(s) - 1 /\ Len(s) \in Nat /\ DOMAIN s = 1 .. Len(s)
        /\ \A j \in 1 .. Len(s) - 1 : t[j] = s[IF j < d THEN j ELSE j + 1]
    BY Removing
  <1> HIDE DEF t
  <1>2. PICK x \in DOMAIN s : s[x].id = b
    BY DEF Occurs
  <1>3. \E y \in DOMAIN t : t[y] = s[x]
    <2>1. CASE x < d
      BY <1>1, <1>2, <2>1
    <2>2. CASE ~(x < d)
      <3>1. x - 1 \in 1 .. Len(s) - 1 /\ ~(x - 1 < d) /\ (x - 1) + 1 = x
        BY <1>1, <1>2, <2>2
      <3>2. t[x - 1] = s[(x - 1) + 1]
        BY <1>1, <3>1
      <3>3. QED
        BY <1>1, <3>1, <3>2
    <2>3. QED
      BY <2>1, <2>2
  <1>4. QED
    BY <1>2, <1>3 DEF Occurs, t

LEMMA AheadPushed ==
    ASSUME NEW s \in Seq(Entry), NEW e \in Entry
    PROVE  /\ \A a, b : Ahead(s, a, b) => Ahead(<<e>> \o s, a, b)
           /\ \A b : Occurs(s, b) => Ahead(<<e>> \o s, e.id, b)
  <1> DEFINE t == <<e>> \o s
  <1>1. /\ DOMAIN t = 1 .. Len(s) + 1 /\ t[1] = e /\ Len(s) \in Nat /\ DOMAIN s = 1 .. Len(s)
        /\ \A i \in 2 .. Len(s) + 1 : t[i] = s[i - 1]
    BY Pushed
  <1> HIDE DEF t
  <1>2. ASSUME NEW i \in DOMAIN s
        PROVE  i + 1 \in DOMAIN t /\ 1 \in DOMAIN t /\ 1 < i + 1 /\ t[i + 1] = s[i] /\ i \in Int
    <2>1. i + 1 \in 2 .. Len(s) + 1 /\ (i + 1) - 1 = i
      BY <1>1
    <2>2. t[i + 1] = s[(i + 1) - 1]
      BY <1>1, <2>1
    <2>3. QED
      BY <1>1, <2>1, <2>2
  <1>3. ASSUME NEW a, NEW b, Ahead(s, a, b) PROVE Ahead(t, a, b)
    <2>1. PICK i, j \in DOMAIN s : i < j /\ s[i].id = a /\ s[j].id = b
      BY <1>3 DEF Ahead
    <2>2. /\ i + 1 \in DOMAIN t /\ j + 1 \in DOMAIN t /\ i + 1 < j + 1
          /\ t[i + 1].id = a /\ t[j + 1].id = b
      BY <1>2, <2>1
    <2>3. QED
      BY <2>2 DEF Ahead
  <1>4. ASSUME NEW b, Occurs(s, b) PROVE Ahead(t, e.id, b)
    <2>1. PICK j \in DOMAIN s : s[j].id = b
      BY <1>4 DEF Occurs
    <2>2. j + 1 \in DOMAIN t /\ 1 \in DOMAIN t /\ 1 < j + 1 /\ t[j + 1].id = b /\ t[1].id = e.id
      BY <1>1, <1>2, <2>1
    <2>3. QED
      BY <2>2 DEF Ahead
  <1>5. QED
    BY <1>3, <1>4 DEF t

LEMMA AheadDropped ==
    ASSUME NEW s \in Seq(Entry), NEW d \in DOMAIN s, NEW a, NEW b, Ahead(s, a, b),
           s[d].id # a, s[d].id # b
    PROVE  Ahead(RemoveAt(s, d), a, b)
  <1> DEFINE t == RemoveAt(s, d)
             To(i) == IF i < d THEN i ELSE i - 1
  <1>1. /\ DOMAIN t = 1 .. Len(s) - 1 /\ Len(s) \in Nat /\ DOMAIN s = 1 .. Len(s)
        /\ \A j \in 1 .. Len(s) - 1 : t[j] = s[IF j < d THEN j ELSE j + 1]
    BY Removing
  <1> HIDE DEF t
  <1>2. PICK i, j \in DOMAIN s : i < j /\ s[i].id = a /\ s[j].id = b
    BY DEF Ahead
  <1>3. ASSUME NEW x \in DOMAIN s, x # d PROVE To(x) \in DOMAIN t /\ t[To(x)] = s[x]
    <2>1. CASE x < d
      BY <1>1, <1>3, <2>1
    <2>2. CASE ~(x < d)
      <3>1. x - 1 \in 1 .. Len(s) - 1 /\ ~(x - 1 < d) /\ (x - 1) + 1 = x
        BY <1>1, <1>3, <2>2
      <3>2. t[x - 1] = s[(x - 1) + 1]
        BY <1>1, <3>1
      <3>3. QED
        BY <1>1, <2>2, <3>1, <3>2
    <2>3. QED
      BY <2>1, <2>2
  <1>4. i # d /\ j # d
    BY <1>2
  <1>5. To(i) < To(j)
    BY <1>1, <1>2, <1>4
  <1>6. /\ To(i) \in DOMAIN t /\ t[To(i)] = s[i]
        /\ To(j) \in DOMAIN t /\ t[To(j)] = s[j]
    BY <1>3, <1>4
  <1> HIDE DEF To
  <1>7. QED
    BY <1>2, <1>5, <1>6 DEF Ahead, t

LEMMA OrderTagged ==
    ASSUME NEW s \in Seq(Entry), NEW i \in DOMAIN s, NEW tags \in Text
    PROVE  /\ \A b : Occurs(Tagged(s, i, tags), b) => Occurs(s, b)
           /\ \A a, b : Ahead(s, a, b) => Ahead(Tagged(s, i, tags), a, b)
  <1> DEFINE t == Tagged(s, i, tags)
  <1>1. DOMAIN t = DOMAIN s /\ \A j \in DOMAIN s : t[j].id = s[j].id
    BY Retagging DEF Alike
  <1> HIDE DEF t
  <1>2. (\A b : Occurs(t, b) => Occurs(s, b)) /\ \A a, b : Ahead(s, a, b) => Ahead(t, a, b)
    BY <1>1 DEF Occurs, Ahead
  <1>3. QED
    BY <1>2 DEF t

(* A new entry takes no place from the others but from the one that had its id. *)
LEMMA OrderWritten ==
    ASSUME NEW s \in Seq(Entry), NEW e \in Entry, NEW b, b # e.id
    PROVE  LET t == <<e>> \o Without(s, e.id)
           IN  /\ Occurs(t, b) => Occurs(s, b)
               /\ \A a : Ahead(s, a, b) => Ahead(t, a, b)
  <1> DEFINE r == Without(s, e.id)
  <1>1. r = s \/ \E i \in DOMAIN s : s[i].id = e.id /\ r = RemoveAt(s, i)
    BY RoomMade
  <1>2. r \in Seq(Entry)
    BY <1>1, Removing
  <1> HIDE DEF r
  <1>3. ASSUME Occurs(<<e>> \o r, b) PROVE Occurs(s, b)
    <2>1. Occurs(r, b)
      BY <1>2, <1>3, OccursPushed
    <2>2. ASSUME NEW i \in DOMAIN s, r = RemoveAt(s, i) PROVE Occurs(s, b)
      <3>1. Occurs(RemoveAt(s, i), b)
        BY <2>1, <2>2
      <3>2. QED
        BY <3>1, OccursDropped
    <2>3. QED
      BY <1>1, <2>1, <2>2
  <1>4. ASSUME NEW a, Ahead(s, a, b) PROVE Ahead(<<e>> \o r, a, b)
    <2>1. CASE a = e.id
      <3>1. Occurs(s, b)
        BY <1>4 DEF Ahead, Occurs
      <3>2. Occurs(r, b)
        BY <1>1, <3>1, OccursKept
      <3>3. QED
        BY <1>2, <2>1, <3>2, AheadPushed
    <2>2. CASE a # e.id
      <3>1. Ahead(r, a, b)
        BY <1>1, <1>4, <2>2, AheadDropped
      <3>2. QED
        BY <1>2, <3>1, AheadPushed
    <2>3. QED
      BY <2>1, <2>2
  <1>5. QED
    BY <1>3, <1>4 DEF r

(* What is behind an entry is not the first. *)
LEMMA BehindNotFirst ==
    ASSUME NEW s, NEW n, NEW v, KeyOK(s, n, v), NEW a, NEW b, Ahead(s, a, b),
           NEW i \in DOMAIN s, s[i].id = b
    PROVE  i # 1
  <1>1. PICK x, y \in DOMAIN s : x < y /\ s[x].id = a /\ s[y].id = b
    BY DEF Ahead
  <1>2. y = i
    BY <1>1 DEF KeyOK
  <1>3. DOMAIN s = 1 .. Len(s) /\ Len(s) \in Nat
    BY DEF KeyOK
  <1>4. QED
    BY <1>1, <1>2, <1>3

-----------------------------------------------------------------------------
(* Invariants. *)

BucketOK ==
    /\ case \in Cases
    /\ bucket \in [Keys -> Seq(Entry)]
    /\ next_id \in Nat /\ NullId < next_id
    /\ \A k \in Keys : KeyOK(bucket[k], next_id, case.versioned)

(* The entry a request for o acts on, if there is one. *)
Target(o) ==
    {e \in {bucket[o.key][i] : i \in DOMAIN bucket[o.key]} :
        Hit(bucket[o.key], case.versions, o.version, e)}

ObjectOK(o) ==
    /\ o \in S3Object /\ o.key \in Keys /\ o.key \in listed
    /\ o.version < next_id
    /\ o.name = case.names[o.key]
    /\ o.kind = "NotVersioning" <=> ~case.versions
    /\ o.is_latest = "no" => case.versions
    /\ o.etag # NoETag => o.size = SizeOf[o.etag]

InPlace(p) ==
    \/ \E i \in DOMAIN Stages : p = <<"stage", i>>
    \/ p \in {<<"head", 0>>, <<"tag", 0>>, <<"delete", 0>>}

(* What was listed is what is there. *)
Describes(o, e) ==
    /\ o.size = e.attributes.size /\ o.mtime = e.attributes.mtime
    /\ IsDeleteMarker(o) <=> e.marker

(* The stages an entry has behind it. *)
Behind(p, i) == p[1] = "stage" => i < p[2]
StagesPassed(o, p) ==
    \A i \in DOMAIN Stages :
        Behind(p, i) /\ Stages[i] # "UserDefined" => Passes(Stages[i], o, Config)

(* An entry past the attribute filters was no delete marker, and what they read   *)
(* is true of what a request acts on, if that cannot have changed since.          *)
HeadPassed(o, p) ==
    p \in {<<"tag", 0>>, <<"delete", 0>>} /\ NeedsHeadObject(Config) =>
        /\ ~IsDeleteMarker(o)
        /\ Pinned(o) => \A e \in Target(o) : HeadDecision(e.attributes, Config) = "pass"
TagsPinned(o) == Pinned(o) /\ <<o.key, "tags">> \notin disturbed
TagPassed(o, p) ==
    p = <<"delete", 0>> /\ NeedsTagging(Config) =>
        /\ ~IsDeleteMarker(o)
        /\ TagsPinned(o) => \A e \in Target(o) : TagDecision(e.attributes, Config) = "pass"
Described(o) == Pinned(o) => \A e \in Target(o) : Describes(o, e)

EntryOK(o, p) ==
    /\ ObjectOK(o) /\ InPlace(p)
    /\ Described(o)
    /\ StagesPassed(o, p) /\ HeadPassed(o, p) /\ TagPassed(o, p)
WorkOK == \A w \in work : w = At(w.object, w.place) /\ EntryOK(w.object, w.place)

SelectInv == BucketOK /\ WorkOK

(* An entry listed as an old version has one ahead of it that the run leaves.     *)
AgeFixed(o) ==
    /\ <<o.key, "purge">> \notin disturbed
    /\ o.version # NullId \/ <<o.key, "write">> \notin disturbed
OldOnes(k) == {w.object.version : w \in {v \in work : v.object.key = k /\ v.object.is_latest = "no"}}
StaysOld ==
    Config.keep_latest_only =>
        \A w \in work :
            /\ w.object.is_latest = "no" /\ AgeFixed(w.object)
            /\ Occurs(bucket[w.object.key], w.object.version)
            => \E a : a \notin OldOnes(w.object.key) /\ Ahead(bucket[w.object.key], a, w.object.version)

(* Where an entry that was listed is. *)
Split(all, way, skips, done, no, bad) ==
    /\ all = way \cup skips \cup done \cup no \cup bad
    /\ way \cap (skips \cup done \cup no \cup bad) = {}
    /\ skips \cap (done \cup no \cup bad) = {}
    /\ done \cap (no \cup bad) = {}
    /\ no \cap bad = {}
OnTheWay == {w.object : w \in work}
Accounts ==
    /\ \A v, w \in work : v.object = w.object => v = w
    /\ \A o \in entries : o.key \in listed
    /\ Split(entries, OnTheWay, DOMAIN skipped, completed, refused, failed)
    /\ skipped = [o \in DOMAIN skipped |-> 1]

-----------------------------------------------------------------------------
(* What a step does to the bucket. *)

LEMMA CaseFacts ==
    ASSUME case \in Cases
    PROVE  /\ Config \in FilterConfig
           /\ case.names \in [Keys -> Text]
           /\ case.versions \in BOOLEAN /\ case.if_match \in BOOLEAN /\ case.versioned \in BOOLEAN
           /\ case.versions => case.versioned /\ ~case.if_match
           /\ Stages \in Seq(FilterNames)
  BY SelectionAssumption, ChainComplete DEF Config, Stages

(* What may become of the history of one key: nothing; the run hides its object   *)
(* or removes an entry of it; another client writes, tags or removes an entry.    *)
Put(k, e) ==
    /\ e \in Entry /\ e.id \in {next_id, NullId} /\ SameBytes(e)
    /\ next_id' = next_id + 1
    /\ bucket'[k] = WithEntry(k, e)
Hides(k) == ~case.versions /\ \E e : Put(k, e) /\ e.marker
Drops(k) ==
    /\ case.versions \/ ~case.versioned
    /\ \E i \in DOMAIN bucket[k] : bucket'[k] = RemoveAt(bucket[k], i)
Writes(k) ==
    /\ <<k, "write">> \in disturbed'
    /\ (\E e : Put(k, e)) \/ (~case.versioned /\ bucket'[k] = << >>)
Tags(k) ==
    /\ <<k, "tags">> \in disturbed'
    /\ \E i \in DOMAIN bucket[k], tags \in Text : bucket'[k] = Tagged(bucket[k], i, tags)
Purges(k) ==
    /\ <<k, "purge">> \in disturbed'
    /\ case.versioned
    /\ \E i \in DOMAIN bucket[k] : bucket'[k] = RemoveAt(bucket[k], i)
KeyStep(k) ==
    bucket'[k] = bucket[k] \/ Hides(k) \/ Drops(k) \/ Writes(k) \/ Tags(k) \/ Purges(k)

BucketStep ==
    /\ case' = case /\ disturbed \subseteq disturbed'
    /\ next_id' \in {next_id, next_id + 1}
    /\ bucket' = [k \in Keys |-> bucket'[k]]
    /\ \A k \in Keys : KeyStep(k)

LEMMA MarkerIsEntry ==
    ASSUME NEW id \in Nat
    PROVE  /\ NewMarker(id) \in Entry /\ NewMarker(id).id = id /\ NewMarker(id).marker
           /\ SameBytes(NewMarker(id))
  BY SelectionAssumption DEF NewMarker, Entry, Attributes, OptionalText, Text, SameBytes, NoETag

LEMMA NewIdsKnown ==
    ASSUME BucketOK, NEW id \in NewIds
    PROVE  id \in Nat /\ id \in {next_id, NullId}
  BY DEF BucketOK, NewIds, NullId

LEMMA Rewritten ==
    ASSUME BucketOK, NEW k \in Keys, NEW s, bucket' = [bucket EXCEPT ![k] = s]
    PROVE  /\ bucket' = [l \in Keys |-> bucket'[l]] /\ bucket'[k] = s
           /\ \A l \in Keys : l # k => bucket'[l] = bucket[l]
  BY DEF BucketOK

LEMMA WriteStep ==
    ASSUME BucketOK, NEW k \in Keys, Write(k), next_id' = next_id + 1
    PROVE  /\ Writes(k)
           /\ bucket' = [l \in Keys |-> bucket'[l]]
           /\ \A l \in Keys : l # k => bucket'[l] = bucket[l]
  <1>1. <<k, "write">> \in disturbed'
    BY DEF Write
  <1>2. ASSUME NEW id \in NewIds, NEW o \in Written,
               bucket' = [bucket EXCEPT ![k] =
                  WithEntry(k, [id |-> id, etag |-> o.etag, marker |-> FALSE, attributes |-> o.attributes])]
        PROVE  /\ \E e : Put(k, e)
               /\ bucket' = [l \in Keys |-> bucket'[l]]
               /\ \A l \in Keys : l # k => bucket'[l] = bucket[l]
    <2> DEFINE e == [id |-> id, etag |-> o.etag, marker |-> FALSE, attributes |-> o.attributes]
    <2>1. o \in [etag : Nat, attributes : Attributes] /\ SameBytes(o)
      BY SelectionAssumption
    <2>2. e \in Entry /\ e.id \in {next_id, NullId}
      BY <2>1, NewIdsKnown DEF Entry
    <2>3. SameBytes(e)
      BY <2>1 DEF SameBytes
    <2>4. bucket' = [bucket EXCEPT ![k] = WithEntry(k, e)]
      BY <1>2
    <2> HIDE DEF e
    <2>5. Put(k, e)
      BY <2>2, <2>3, <2>4, Rewritten DEF Put
    <2>6. QED
      BY <2>4, <2>5, Rewritten
  <1>3. ASSUME NEW id \in NewIds, bucket' = [bucket EXCEPT ![k] = WithEntry(k, NewMarker(id))]
        PROVE  /\ \E e : Put(k, e)
               /\ bucket' = [l \in Keys |-> bucket'[l]]
               /\ \A l \in Keys : l # k => bucket'[l] = bucket[l]
    <2>1. Put(k, NewMarker(id))
      BY <1>3, MarkerIsEntry, NewIdsKnown, Rewritten DEF Put
    <2>2. QED
      BY <1>3, <2>1, Rewritten
  <1>4. CASE ~case.versioned /\ bucket' = [bucket EXCEPT ![k] = << >>]
    BY <1>1, <1>4, Rewritten DEF Writes
  <1>5. QED
    BY <1>1, <1>2, <1>3, <1>4 DEF Write, Writes

LEMMA OtherClientStep ==
    ASSUME BucketOK, NEW k \in Keys, OtherClient(k)
    PROVE  /\ BucketStep
           /\ Writes(k) \/ Tags(k) \/ Purges(k)
           /\ \A l \in Keys : l # k => bucket'[l] = bucket[l]
  <1>1. next_id' = next_id + 1 /\ case' = case
    BY DEF OtherClient
  <1>2. disturbed \subseteq disturbed'
    BY DEF OtherClient, Write, PutTagging, Purge
  <1>3. /\ Writes(k) \/ Tags(k) \/ Purges(k)
        /\ bucket' = [l \in Keys |-> bucket'[l]]
        /\ \A l \in Keys : l # k => bucket'[l] = bucket[l]
    <2>1. CASE Write(k)
      BY <1>1, <2>1, WriteStep
    <2>2. CASE PutTagging(k)
      <3>1. PICK i \in DOMAIN bucket[k], tags \in Text :
               bucket' = [bucket EXCEPT ![k] = [bucket[k] EXCEPT ![i] = WithTags(bucket[k][i], tags)]]
        BY <2>2 DEF PutTagging
      <3>2. bucket' = [bucket EXCEPT ![k] = Tagged(bucket[k], i, tags)]
        BY <3>1 DEF Tagged
      <3>3. <<k, "tags">> \in disturbed'
        BY <2>2 DEF PutTagging
      <3>4. QED
        BY <3>2, <3>3, Rewritten DEF Tags
    <2>3. CASE Purge(k)
      <3>1. PICK i \in DOMAIN bucket[k] : bucket' = [bucket EXCEPT ![k] = RemoveAt(@, i)]
        BY <2>3 DEF Purge
      <3>2. bucket' = [bucket EXCEPT ![k] = RemoveAt(bucket[k], i)]
        BY <3>1 DEF BucketOK
      <3>3. <<k, "purge">> \in disturbed' /\ case.versioned
        BY <2>3 DEF Purge
      <3>4. QED
        BY <3>2, <3>3, Rewritten DEF Purges
    <2>4. QED
      BY <2>1, <2>2, <2>3 DEF OtherClient
  <1>4. QED
    BY <1>1, <1>2, <1>3 DEF BucketStep, KeyStep

(* What the run does to the bucket with one deletion. *)
Deletion(w) ==
    \/ UNCHANGED <<bucket, next_id>>
    \/ ~case.versions /\ AddMarker(w.object.key)
    \/ /\ case.versions \/ ~case.versioned
       /\ UNCHANGED next_id
       /\ \E i \in Addressed(w.object) :
             bucket' = [bucket EXCEPT ![w.object.key] = RemoveAt(bucket[w.object.key], i)]

LEMMA DeletionOf ==
    ASSUME BucketOK, NEW w, w.object.key \in Keys, Delete(w)
    PROVE  Deletion(w) /\ case' = case /\ disturbed' = disturbed
  <1> DEFINE k == w.object.key
  <1>1. ASSUME NEW i, bucket' = [bucket EXCEPT ![k] = RemoveAt(@, i)]
        PROVE  bucket' = [bucket EXCEPT ![k] = RemoveAt(bucket[k], i)]
    BY <1>1 DEF BucketOK
  <1>2. case' = case /\ disturbed' = disturbed
    BY DEF Delete
  <1>3. case.versions \in BOOLEAN /\ case.versioned \in BOOLEAN
    BY CaseFacts DEF BucketOK
  <1>4. QED
    BY <1>1, <1>2, <1>3 DEF Delete, Deletion

LEMMA DeleteStep ==
    ASSUME BucketOK, NEW w, w.object.key \in Keys, Delete(w)
    PROVE  BucketStep
  <1> DEFINE k == w.object.key
  <1>0. Deletion(w) /\ case' = case /\ disturbed' = disturbed
    BY DeletionOf
  <1>1. CASE UNCHANGED <<bucket, next_id>>
    BY <1>0, <1>1 DEF BucketStep, KeyStep, BucketOK
  <1>2. CASE ~case.versions /\ AddMarker(k)
    <2>1. PICK id \in NewIds : bucket' = [bucket EXCEPT ![k] = WithEntry(k, NewMarker(id))]
      BY <1>2 DEF AddMarker
    <2>2. next_id' = next_id + 1
      BY <1>2 DEF AddMarker
    <2>3. Put(k, NewMarker(id)) /\ NewMarker(id).marker
      BY <2>1, <2>2, MarkerIsEntry, NewIdsKnown, Rewritten DEF Put
    <2>4. Hides(k)
      BY <1>2, <2>3 DEF Hides
    <2>5. QED
      BY <1>0, <2>1, <2>2, <2>4, Rewritten DEF BucketStep, KeyStep
  <1>3. ASSUME NEW i \in Addressed(w.object), case.versions \/ ~case.versioned, UNCHANGED next_id,
               bucket' = [bucket EXCEPT ![k] = RemoveAt(bucket[k], i)]
        PROVE  BucketStep
    <2>1. i \in DOMAIN bucket[k]
      BY DEF Addressed
    <2>2. Drops(k)
      BY <1>3, <2>1, Rewritten DEF Drops
    <2>3. QED
      BY <1>0, <1>3, <2>2, Rewritten DEF BucketStep, KeyStep
  <1>4. QED
    BY <1>0, <1>1, <1>2, <1>3 DEF Deletion

(* Every step changes the bucket in one of these ways. *)
LEMMA StepKinds ==
    ASSUME BucketOK, \A w \in work : w.object.key \in Keys, [Next]_vars
    PROVE  BucketStep
  <1>0. ASSUME UNCHANGED <<bucket, next_id, case, disturbed>> PROVE BucketStep
    BY <1>0 DEF BucketStep, KeyStep, BucketOK
  <1>1. CASE UNCHANGED vars
    BY <1>0, <1>1
  <1>2. ASSUME NEW k \in Keys, OtherClient(k) PROVE BucketStep
    BY <1>2, OtherClientStep
  <1>3. ASSUME NEW k \in Keys, ListKey(k) PROVE BucketStep
    BY <1>0, <1>3 DEF ListKey
  <1>4. ASSUME NEW w \in work,
               \/ BuiltinStage(w) \/ UserDefinedStage(w)
               \/ ApplyHeadObjectFilters(w) \/ ApplyTagFilters(w)
        PROVE  BucketStep
    <2>1. Unmoved
      BY <1>4 DEF BuiltinStage, UserDefinedStage, ApplyHeadObjectFilters, ApplyTagFilters,
                  AttributeFilter
    <2>2. QED
      BY <1>0, <2>1 DEF Unmoved
  <1>5. ASSUME NEW w \in work, Delete(w) PROVE BucketStep
    BY <1>5, DeleteStep
  <1>6. QED
    BY <1>1, <1>2, <1>3, <1>4, <1>5 DEF Next

LEMMA BucketKept ==
    ASSUME BucketOK, BucketStep
    PROVE  BucketOK' /\ next_id' >= next_id
  <1>0. /\ bucket \in [Keys -> Seq(Entry)] /\ next_id \in Nat /\ case \in Cases /\ NullId < next_id
        /\ case.versioned \in BOOLEAN /\ case' = case
        /\ \A k \in Keys : KeyOK(bucket[k], next_id, case.versioned)
    BY CaseFacts DEF BucketOK, BucketStep
  <1>1. next_id' \in Nat /\ next_id' >= next_id /\ NullId < next_id'
    BY <1>0 DEF BucketStep, NullId
  <1>2. ASSUME NEW k \in Keys PROVE KeyOK(bucket'[k], next_id', case.versioned)
    <2>1. KeyOK(bucket[k], next_id, case.versioned)
      BY <1>0
    <2>2. KeyOK(bucket[k], next_id', case.versioned)
      BY <1>0, <1>1, <2>1, KeyLater
    <2>3. ASSUME NEW e, Put(k, e) PROVE KeyOK(bucket'[k], next_id', case.versioned)
      <3>1. e \in Entry /\ SameBytes(e) /\ bucket'[k] = WithEntry(k, e)
        BY <2>3 DEF Put
      <3>2. e.id < next_id'
        BY <1>0, <2>3 DEF Put, NullId
      <3>3. CASE case.versioned
        <4>1. /\ KeyOK(Without(bucket[k], e.id), next_id', case.versioned)
              /\ \A i \in DOMAIN Without(bucket[k], e.id) : Without(bucket[k], e.id)[i].id # e.id
          BY <1>0, <1>1, <2>2, KeyRoom
        <4>2. QED
          BY <1>0, <1>1, <3>1, <3>2, <3>3, <4>1, KeyPushed DEF WithEntry
      <3>4. CASE ~case.versioned
        BY <1>0, <1>1, <3>1, <3>2, <3>4, KeySingle DEF WithEntry
      <3>5. QED
        BY <3>3, <3>4
    <2>4. CASE bucket'[k] = << >>
      BY <1>0, <1>1, <2>4, KeyEmpty
    <2>5. ASSUME NEW i \in DOMAIN bucket[k], bucket'[k] = RemoveAt(bucket[k], i)
          PROVE  KeyOK(bucket'[k], next_id', case.versioned)
      BY <1>0, <1>1, <2>2, <2>5, KeyDropped
    <2>6. ASSUME NEW i \in DOMAIN bucket[k], NEW tags \in Text, bucket'[k] = Tagged(bucket[k], i, tags)
          PROVE  KeyOK(bucket'[k], next_id', case.versioned)
      BY <1>0, <1>1, <2>2, <2>6, KeyTagged
    <2>7. QED
      BY <2>2, <2>3, <2>4, <2>5, <2>6 DEF BucketStep, KeyStep, Hides, Drops, Writes, Tags, Purges
  <1>3. bucket' \in [Keys -> Seq(Entry)]
    <2>1. bucket' = [k \in Keys |-> bucket'[k]]
      BY DEF BucketStep
    <2>2. \A k \in Keys : bucket'[k] \in Seq(Entry)
      BY <1>2 DEF KeyOK
    <2>3. QED
      BY <2>1, <2>2
  <1>4. QED
    BY <1>0, <1>1, <1>2, <1>3 DEF BucketOK

(* What a request for o acts on, in terms of the history of its key. *)
LEMMA AddressedFacts ==
    ASSUME BucketOK, NEW o, o.key \in Keys
    PROVE  Addressed(o) = {i \in DOMAIN bucket[o.key] :
              IF case.versions THEN bucket[o.key][i].id = o.version
              ELSE i = 1 /\ ~bucket[o.key][i].marker}
  <1> DEFINE s == bucket[o.key]
  <1>1. s \in Seq(Entry)
    BY DEF BucketOK
  <1>2. \A i \in DOMAIN s : i = 1 => (Visible(bucket, o.key) <=> ~s[i].marker)
    BY <1>1 DEF Visible
  <1>3. QED
    BY <1>2 DEF Addressed

LEMMA AddressedIsTarget ==
    ASSUME BucketOK, NEW o, o.key \in Keys, NEW i \in Addressed(o)
    PROVE  bucket[o.key][i] \in Target(o)
  <1> DEFINE s == bucket[o.key]
  <1>1. i \in DOMAIN s /\ IF case.versions THEN s[i].id = o.version ELSE i = 1 /\ ~s[i].marker
    BY AddressedFacts
  <1>2. Hit(s, case.versions, o.version, s[i])
    BY <1>1 DEF Hit
  <1>3. QED
    BY <1>1, <1>2 DEF Target

(* While o is pinned, what a request for it acts on is what it was before the     *)
(* step, but for its tags, or nothing.                                            *)
LEMMA PinnedStays ==
    ASSUME disturbed \subseteq disturbed', case' = case, NEW o, Pinned(o)'
    PROVE  Pinned(o)
  BY DEF Pinned, Settled

LEMMA TargetKept ==
    ASSUME BucketOK, BucketStep, NEW o, o.key \in Keys, o.version \in Nat, o.version < next_id,
           Pinned(o)', NEW e \in Target(o)'
    PROVE  \E f \in Target(o) : Alike(e, f) /\ (<<o.key, "tags">> \notin disturbed' => e = f)
  <1> DEFINE k == o.key
             v == o.version
  <1>0. /\ bucket[k] \in Seq(Entry) /\ next_id \in Nat
        /\ case.versioned \in BOOLEAN /\ case.versions \in BOOLEAN
        /\ case.versions => case.versioned
        /\ ~case.versioned => Len(bucket[k]) <= 1
        /\ case' = case
    BY CaseFacts DEF BucketOK, KeyOK, BucketStep
  <1>1. Hit(bucket'[k], case.versions, v, e)
    BY <1>0 DEF Target
  <1>2. ASSUME NEW f, Hit(bucket[k], case.versions, v, f) PROVE f \in Target(o)
    BY <1>2 DEF Target, Hit
  <1>3. SUFFICES \E f : /\ Hit(bucket[k], case.versions, v, f) /\ Alike(e, f)
                        /\ <<k, "tags">> \notin disturbed' => e = f
    BY <1>2
  <1>4. Alike(e, e)
    BY DEF Alike
  <1>5. ASSUME Hit(bucket[k], case.versions, v, e)
        PROVE  \E f : /\ Hit(bucket[k], case.versions, v, f) /\ Alike(e, f)
                      /\ <<k, "tags">> \notin disturbed' => e = f
    BY <1>4, <1>5
  <1>6. CASE bucket'[k] = bucket[k]
    BY <1>1, <1>5, <1>6
  <1>7. CASE Hides(k)
    <2>1. PICK x : Put(k, x) /\ x.marker
      BY <1>7 DEF Hides
    <2>2. bucket'[k] = WithEntry(k, x) /\ x \in Entry /\ ~case.versions
      BY <1>7, <2>1 DEF Put, Hides
    <2>3. bucket'[k][1] = x
      <3>1. CASE case.versioned
        <4>1. Without(bucket[k], x.id) \in Seq(Entry)
          BY <1>0, RoomMade, Removing
        <4>2. QED
          BY <2>2, <3>1, <4>1, Pushed DEF WithEntry
      <3>2. CASE ~case.versioned
        BY <2>2, <3>2 DEF WithEntry
      <3>3. QED
        BY <3>1, <3>2
    <2>4. bucket'[k][1] = e /\ ~e.marker
      BY <1>1, <2>2 DEF Hit
    <2>5. QED
      BY <2>1, <2>3, <2>4
  <1>8. ASSUME NEW i \in DOMAIN bucket[k], bucket'[k] = RemoveAt(bucket[k], i),
               case.versions \/ ~case.versioned
        PROVE  Hit(bucket[k], case.versions, v, e)
    <2>1. Hit(RemoveAt(bucket[k], i), case.versions, v, e)
      BY <1>1, <1>8
    <2>2. ~case.versions => Len(bucket[k]) <= 1
      BY <1>0, <1>8
    <2>3. QED
      BY <1>0, <2>1, <2>2, HitDropped
  <1>9. CASE Writes(k)
    <2>1. case.versions /\ v # NullId
      BY <1>0, <1>9 DEF Writes, Pinned, Settled
    <2>2. PICK x : Put(k, x)
      BY <1>0, <1>9, <2>1 DEF Writes
    <2>3. /\ bucket'[k] = <<x>> \o Without(bucket[k], x.id) /\ x \in Entry
          /\ x.id = next_id \/ x.id = NullId
      BY <1>0, <2>1, <2>2 DEF Put, WithEntry
    <2>4. x.id # v
      BY <1>0, <2>1, <2>3
    <2>5. Without(bucket[k], x.id) \in Seq(Entry)
      BY <1>0, RoomMade, Removing
    <2>6. Hit(<<x>> \o Without(bucket[k], x.id), TRUE, v, e)
      BY <1>1, <2>1, <2>3 DEF Hit
    <2>7. Hit(Without(bucket[k], x.id), TRUE, v, e)
      BY <2>3, <2>4, <2>5, <2>6, HitPushed
    <2>8. Hit(bucket[k], TRUE, v, e)
      BY <1>0, <2>7, HitRoom
    <2>9. QED
      BY <1>5, <2>1, <2>8 DEF Hit
  <1>10. CASE Tags(k)
    <2>1. PICK i \in DOMAIN bucket[k], tags \in Text : bucket'[k] = Tagged(bucket[k], i, tags)
      BY <1>10 DEF Tags
    <2>2. Hit(Tagged(bucket[k], i, tags), case.versions, v, e)
      BY <1>1, <2>1
    <2>3. \E f : Hit(bucket[k], case.versions, v, f) /\ Alike(e, f)
      BY <1>0, <2>1, <2>2, HitTagged
    <2>4. QED
      BY <1>10, <2>3 DEF Tags
  <1>11. CASE Purges(k)
    <2>1. case.versions
      BY <1>0, <1>11 DEF Purges, Pinned, Settled
    <2>2. QED
      BY <1>5, <1>8, <1>11, <2>1 DEF Purges
  <1>12. CASE Drops(k)
    BY <1>5, <1>8, <1>12 DEF Drops
  <1>13. QED
    BY <1>6, <1>7, <1>9, <1>10, <1>11, <1>12 DEF BucketStep, KeyStep

-----------------------------------------------------------------------------
(* Entries on their way. *)

LEMMA ObjectFacts ==
    ASSUME NEW o, ObjectOK(o)
    PROVE  o.key \in Keys /\ o.version \in Nat /\ o.version < next_id
  BY DEF ObjectOK, S3Object

(* An entry stays what it is while others come and go. *)
LEMMA EntryKept ==
    ASSUME BucketOK, NEW o, NEW p, EntryOK(o, p), BucketStep, listed \subseteq listed'
    PROVE  EntryOK(o, p)'
  <1>1. /\ next_id \in Nat /\ next_id' \in Nat /\ next_id' >= next_id
        /\ case' = case /\ disturbed \subseteq disturbed'
    BY BucketKept DEF BucketOK, BucketStep
  <1>2. o.key \in Keys /\ o.version \in Nat /\ o.version < next_id
    BY ObjectFacts DEF EntryOK
  <1>3. ASSUME Pinned(o)', NEW e \in Target(o)'
        PROVE  /\ Pinned(o)
               /\ \E f \in Target(o) : Alike(e, f) /\ (<<o.key, "tags">> \notin disturbed' => e = f)
    BY <1>1, <1>2, <1>3, PinnedStays, TargetKept
  <1>4. ObjectOK(o)'
    <2>1. o.version < next_id'
      BY <1>1, <1>2
    <2>2. QED
      BY <1>1, <2>1 DEF EntryOK, ObjectOK
  <1>5. InPlace(p)' /\ StagesPassed(o, p)'
    BY <1>1 DEF EntryOK, InPlace, StagesPassed, Stages, Config
  <1>6. HeadPassed(o, p)'
    <2>1. SUFFICES ASSUME p \in {<<"tag", 0>>, <<"delete", 0>>}, NeedsHeadObject(Config)
                   PROVE  /\ ~IsDeleteMarker(o)
                          /\ Pinned(o)' => \A e \in Target(o)' : HeadDecision(e.attributes, Config) = "pass"
      BY <1>1 DEF HeadPassed, Config
    <2>2. /\ ~IsDeleteMarker(o)
          /\ Pinned(o) => \A e \in Target(o) : HeadDecision(e.attributes, Config) = "pass"
      BY <2>1 DEF EntryOK, HeadPassed
    <2>3. ASSUME NEW e, NEW f, Alike(e, f)
          PROVE  HeadDecision(e.attributes, Config) = HeadDecision(f.attributes, Config)
      BY <2>3 DEF Alike, HeadDecision
    <2>4. QED
      BY <1>3, <2>2, <2>3
  <1>7. TagPassed(o, p)'
    <2>1. SUFFICES ASSUME p = <<"delete", 0>>, NeedsTagging(Config)
                   PROVE  /\ ~IsDeleteMarker(o)
                          /\ TagsPinned(o)' => \A e \in Target(o)' : TagDecision(e.attributes, Config) = "pass"
      BY <1>1 DEF TagPassed, Config
    <2>2. /\ ~IsDeleteMarker(o)
          /\ TagsPinned(o) => \A e \in Target(o) : TagDecision(e.attributes, Config) = "pass"
      BY <2>1 DEF EntryOK, TagPassed
    <2>3. ASSUME TagsPinned(o)', NEW e \in Target(o)' PROVE TagsPinned(o) /\ e \in Target(o)
      <3>1. Pinned(o)' /\ <<o.key, "tags">> \notin disturbed'
        BY <2>3 DEF TagsPinned
      <3>2. QED
        BY <1>1, <1>3, <2>3, <3>1 DEF TagsPinned
    <2>4. QED
      BY <2>2, <2>3
  <1>8. Described(o)'
    <2>1. ASSUME NEW e, NEW f, Alike(e, f), Describes(o, f) PROVE Describes(o, e)
      BY <2>1 DEF Alike, Describes
    <2>2. QED
      BY <1>3, <2>1 DEF EntryOK, Described
  <1>9. QED
    BY <1>4, <1>5, <1>6, <1>7, <1>8 DEF EntryOK

(* A request acts on one entry at most. *)
LEMMA OneAddressed ==
    ASSUME BucketOK, NEW o, o.key \in Keys, NEW i \in Addressed(o), NEW e \in Target(o)
    PROVE  e = bucket[o.key][i]
  <1> DEFINE s == bucket[o.key]
  <1>1. KeyOK(s, next_id, case.versioned) /\ case.versions \in BOOLEAN
    BY CaseFacts DEF BucketOK
  <1>2. /\ i \in DOMAIN s
        /\ case.versions => s[i].id = o.version
        /\ ~case.versions => i = 1
    BY AddressedFacts
  <1>3. PICK j \in DOMAIN s : s[j] = e /\ (case.versions => e.id = o.version) /\ (case.versions \/ j = 1)
    BY <1>1 DEF Target, Hit
  <1>4. CASE case.versions
    BY <1>1, <1>2, <1>3, <1>4 DEF KeyOK
  <1>5. CASE ~case.versions
    BY <1>2, <1>3, <1>5
  <1>6. QED
    BY <1>4, <1>5

LEMMA StageFacts ==
    ASSUME BucketOK
    PROVE  Len(Stages) \in Nat /\ DOMAIN Stages = 1 .. Len(Stages)
  BY CaseFacts DEF BucketOK

LEMMA NextStage ==
    ASSUME BucketOK, NEW o, NEW i \in DOMAIN Stages, EntryOK(o, <<"stage", i>>),
           Stages[i] # "UserDefined" => Passes(Stages[i], o, Config)
    PROVE  EntryOK(o, AfterStage(i + 1))
  <1> DEFINE p == AfterStage(i + 1)
             q == <<"stage", i>>
  <1>0. Len(Stages) \in Nat /\ DOMAIN Stages = 1 .. Len(Stages) /\ i \in 1 .. Len(Stages)
    BY StageFacts
  <1>1. \/ p = <<"head", 0>> /\ i + 1 > Len(Stages)
        \/ p = <<"stage", i + 1>> /\ i + 1 \in DOMAIN Stages
    BY <1>0 DEF AfterStage
  <1>2. InPlace(p) /\ p # <<"tag", 0>> /\ p # <<"delete", 0>>
    BY <1>1 DEF InPlace
  <1>3. ASSUME NEW j \in DOMAIN Stages, Behind(p, j) PROVE j = i \/ Behind(q, j)
    <2>1. j \in Int /\ i \in Int /\ j < i + 1
      BY <1>0, <1>1, <1>3 DEF Behind
    <2>2. j = i \/ j < i
      BY <2>1
    <2>3. QED
      BY <2>2 DEF Behind
  <1>4. StagesPassed(o, q)
    BY DEF EntryOK
  <1> HIDE DEF p, q
  <1>5. StagesPassed(o, p)
    BY <1>3, <1>4 DEF StagesPassed
  <1>6. HeadPassed(o, p) /\ TagPassed(o, p)
    BY <1>2 DEF HeadPassed, TagPassed
  <1>7. ObjectOK(o) /\ Described(o)
    BY DEF EntryOK
  <1>8. EntryOK(o, p)
    BY <1>2, <1>5, <1>6, <1>7 DEF EntryOK
  <1>9. QED
    BY <1>8 DEF p

(* A step of a filter drops its entry or passes it on to the right place. *)
Forwards(w) ==
    \/ work' = work \ {w}
    \/ \E p : work' = (work \ {w}) \cup {At(w.object, p)} /\ EntryOK(w.object, p)

LEMMA AtStage ==
    ASSUME NEW p, InPlace(p), p[1] = "stage"
    PROVE  p = <<"stage", p[2]>> /\ p[2] \in DOMAIN Stages
  BY DEF InPlace

LEMMA StageForwards ==
    ASSUME SelectInv, NEW w \in work, BuiltinStage(w) \/ UserDefinedStage(w)
    PROVE  Forwards(w) /\ Unmoved
  <1> DEFINE i == w.place[2]
  <1>1. w.place = <<"stage", i>> /\ i \in DOMAIN Stages
    BY AtStage DEF SelectInv, WorkOK, EntryOK, BuiltinStage, UserDefinedStage
  <1>2. BucketOK /\ EntryOK(w.object, <<"stage", i>>)
    BY <1>1 DEF SelectInv, WorkOK
  <1>3. CASE BuiltinStage(w)
    <2>1. CASE Passes(Stages[i], w.object, Config)
      <3>1. EntryOK(w.object, AfterStage(i + 1))
        BY <1>1, <1>2, <2>1, NextStage
      <3>2. QED
        BY <1>3, <2>1, <3>1 DEF BuiltinStage, Move, Forwards
    <2>2. CASE ~Passes(Stages[i], w.object, Config)
      BY <1>3, <2>2 DEF BuiltinStage, Skip, Leave, Forwards
    <2>3. QED
      BY <2>1, <2>2
  <1>4. CASE UserDefinedStage(w)
    <2>1. Stages[i] = "UserDefined"
      BY <1>4 DEF UserDefinedStage
    <2>2. EntryOK(w.object, AfterStage(i + 1))
      BY <1>1, <1>2, <2>1, NextStage
    <2>3. QED
      BY <1>4, <2>2 DEF UserDefinedStage, Move, Skip, Leave, Forwards
  <1>5. QED
    BY <1>3, <1>4

LEMMA HeadForwards ==
    ASSUME SelectInv, NEW w \in work, ApplyHeadObjectFilters(w)
    PROVE  Forwards(w) /\ Unmoved
  <1> DEFINE o == w.object
             Pass == ~NeedsHeadObject(Config) \/
                        /\ ~IsDeleteMarker(o)
                        /\ \E i \in Addressed(o) : HeadDecision(bucket[o.key][i].attributes, Config) = "pass"
  <1>1. BucketOK /\ EntryOK(o, <<"head", 0>>) /\ o.key \in Keys /\ w.place = <<"head", 0>>
    BY ObjectFacts DEF SelectInv, WorkOK, EntryOK, ObjectOK, ApplyHeadObjectFilters, AttributeFilter
  <1>2. ASSUME Pass PROVE EntryOK(o, <<"tag", 0>>)
    <2>1. HeadPassed(o, <<"tag", 0>>)
      BY <1>1, <1>2, OneAddressed DEF HeadPassed
    <2>2. TagPassed(o, <<"tag", 0>>) /\ InPlace(<<"tag", 0>>)
      BY DEF TagPassed, InPlace
    <2>3. StagesPassed(o, <<"tag", 0>>)
      BY <1>1 DEF EntryOK, StagesPassed, Behind
    <2>4. QED
      BY <1>1, <2>1, <2>2, <2>3 DEF EntryOK
  <1>3. Unmoved /\ (Leave(w) \/ (Move(w, <<"tag", 0>>) /\ Pass))
    BY DEF ApplyHeadObjectFilters, AttributeFilter, Skip, MarkerExcluded
  <1>4. QED
    BY <1>2, <1>3 DEF Forwards, Leave, Move

LEMMA TagForwards ==
    ASSUME SelectInv, NEW w \in work, ApplyTagFilters(w)
    PROVE  Forwards(w) /\ Unmoved
  <1> DEFINE o == w.object
             Pass == ~NeedsTagging(Config) \/
                        /\ ~IsDeleteMarker(o)
                        /\ \E i \in Addressed(o) : TagDecision(bucket[o.key][i].attributes, Config) = "pass"
  <1>1. BucketOK /\ EntryOK(o, <<"tag", 0>>) /\ o.key \in Keys /\ w.place = <<"tag", 0>>
    BY ObjectFacts DEF SelectInv, WorkOK, EntryOK, ObjectOK, ApplyTagFilters, AttributeFilter
  <1>2. ASSUME Pass PROVE EntryOK(o, <<"delete", 0>>)
    <2>1. TagPassed(o, <<"delete", 0>>)
      BY <1>1, <1>2, OneAddressed DEF TagPassed
    <2>2. HeadPassed(o, <<"delete", 0>>) /\ InPlace(<<"delete", 0>>)
      BY <1>1 DEF EntryOK, HeadPassed, InPlace
    <2>3. StagesPassed(o, <<"delete", 0>>)
      BY <1>1 DEF EntryOK, StagesPassed, Behind
    <2>4. QED
      BY <1>1, <2>1, <2>2, <2>3 DEF EntryOK
  <1>3. Unmoved /\ (Leave(w) \/ (Move(w, <<"delete", 0>>) /\ Pass))
    BY DEF ApplyTagFilters, AttributeFilter, Skip, MarkerExcluded
  <1>4. QED
    BY <1>2, <1>3 DEF Forwards, Leave, Move

(* What a page says of an entry, in the state after the page. *)
LEMMA ReportedFields ==
    ASSUME BucketOK, NEW k \in Keys, NEW i \in DOMAIN bucket[k], NEW said \in BOOLEAN
    PROVE  LET o == Reported(k, i, said)
               e == bucket[k][i]
           IN  /\ o \in S3Object /\ o.key = k /\ o.name = case.names[k]
               /\ o.version = IF case.versions THEN e.id ELSE NullId
               /\ o.size = e.attributes.size /\ o.mtime = e.attributes.mtime /\ o.etag = e.etag
               /\ o.kind = "NotVersioning" <=> ~case.versions
               /\ IsDeleteMarker(o) <=> case.versions /\ e.marker
               /\ o.is_latest = "no" => said /\ i # 1
  <1> DEFINE e == bucket[k][i]
             o == Reported(k, i, said)
  <1>1. /\ e \in Entry /\ e.id \in Nat /\ e.etag \in Nat /\ e.attributes \in Attributes
        /\ e.attributes.size \in Int /\ e.attributes.mtime \in Int
    <2>1. e \in Entry
      BY EntryIds DEF BucketOK
    <2>2. QED
      BY <2>1 DEF Entry, Attributes
  <1>2. k \in STRING /\ case.names[k] \in Text
    BY SelectionAssumption, CaseFacts DEF BucketOK
  <1>3. /\ o.key = k /\ o.name = case.names[k] /\ o.version = IF case.versions THEN e.id ELSE NullId
        /\ o.size = e.attributes.size /\ o.mtime = e.attributes.mtime /\ o.etag = e.etag
        /\ o.kind = IF ~case.versions THEN "NotVersioning"
                    ELSE IF e.marker THEN "DeleteMarker" ELSE "Versioning"
        /\ o.is_latest = IF said THEN IF i = 1 THEN "yes" ELSE "no" ELSE "absent"
        /\ o = [ kind |-> o.kind, key |-> o.key, name |-> o.name, version |-> o.version,
                 is_latest |-> o.is_latest, size |-> o.size, mtime |-> o.mtime, etag |-> o.etag ]
    BY DEF Reported
  <1> HIDE DEF e, o
  <1>4. /\ o.kind \in {"NotVersioning", "Versioning", "DeleteMarker"}
        /\ o.is_latest \in {"yes", "no", "absent"}
    BY <1>3
  <1>5. o.version \in Nat
    BY <1>1, <1>3 DEF NullId
  <1>6. o \in S3Object
    BY <1>1, <1>2, <1>3, <1>4, <1>5 DEF S3Object
  <1>7. /\ o.kind = "NotVersioning" <=> ~case.versions
        /\ IsDeleteMarker(o) <=> case.versions /\ e.marker
        /\ o.is_latest = "no" => said /\ i # 1
    BY <1>3 DEF IsDeleteMarker
  <1>8. QED
    BY <1>3, <1>6, <1>7 DEF e, o

(* The entries one page adds. *)
PageOf(k, said) ==
    IF case.versions
    THEN {At(Reported(k, i, said), AfterStage(1)) : i \in DOMAIN bucket[k]}
    ELSE {At(Reported(k, i, FALSE), AfterStage(1)) : i \in {j \in DOMAIN bucket[k] : j = 1 /\ Visible(bucket, k)}}

LEMMA PageMember ==
    ASSUME NEW k, NEW said \in BOOLEAN, NEW w \in PageOf(k, said)
    PROVE  \E i \in DOMAIN bucket[k], t \in BOOLEAN :
              /\ w = At(Reported(k, i, t), AfterStage(1))
              /\ case.versions => t = said
              /\ ~case.versions => i = 1 /\ ~t /\ Visible(bucket, k)
  BY DEF PageOf

LEMMA PageEntryOK ==
    ASSUME BucketOK, NEW k \in Keys, ListKey(k), NEW i \in DOMAIN bucket[k], NEW t \in BOOLEAN,
           ~case.versions => i = 1 /\ ~t,
           NEW o, o = Reported(k, i, t), NEW p, p = AfterStage(1)
    PROVE  EntryOK(o, p)'
  <1> DEFINE e == bucket[k][i]
  <1>1. case' = case /\ bucket' = bucket /\ next_id' = next_id /\ k \in listed' /\ disturbed' = disturbed
    BY DEF ListKey
  <1>2. /\ o \in S3Object /\ o.key = k /\ o.name = case.names[k]
        /\ o.version = IF case.versions THEN e.id ELSE NullId
        /\ o.size = e.attributes.size /\ o.mtime = e.attributes.mtime /\ o.etag = e.etag
        /\ o.kind = "NotVersioning" <=> ~case.versions
        /\ IsDeleteMarker(o) <=> case.versions /\ e.marker
        /\ o.is_latest = "no" => t
    BY ReportedFields
  <1>4. KeyOK(bucket[k], next_id, case.versioned) /\ case.versions \in BOOLEAN /\ NullId < next_id
    BY CaseFacts DEF BucketOK
  <1>5. Len(Stages) \in Nat /\ DOMAIN Stages = 1 .. Len(Stages)
    BY StageFacts
  <1>6. \/ p = <<"head", 0>> /\ DOMAIN Stages = {}
        \/ p = <<"stage", 1>> /\ 1 \in DOMAIN Stages
    BY <1>5 DEF AfterStage
  <1>7. o.version < next_id /\ (o.etag # NoETag => o.size = SizeOf[o.etag])
    BY <1>2, <1>4 DEF KeyOK, SameBytes
  <1>8. ASSUME NEW x \in Target(o) PROVE Describes(o, x)
    <2>1. PICK j \in DOMAIN bucket[k] :
             /\ bucket[k][j] = x /\ (case.versions => x.id = o.version)
             /\ ~case.versions => j = 1 /\ ~x.marker
      BY <1>2, <1>4, <1>8 DEF Target, Hit
    <2>2. j = i
      <3>1. CASE case.versions
        BY <1>2, <1>4, <2>1, <3>1 DEF KeyOK
      <3>2. CASE ~case.versions
        BY <2>1, <3>2
      <3>3. QED
        BY <3>1, <3>2
    <2>3. QED
      BY <1>2, <2>1, <2>2 DEF Describes
  <1>9. ObjectOK(o)'
    <2>1. o.is_latest = "no" => case.versions
      BY <1>2, <1>4
    <2>2. QED
      BY <1>1, <1>2, <1>7, <2>1 DEF ObjectOK
  <1>10. InPlace(p) /\ StagesPassed(o, p) /\ p # <<"tag", 0>> /\ p # <<"delete", 0>>
    <2>1. InPlace(p) /\ p # <<"tag", 0>> /\ p # <<"delete", 0>>
      BY <1>6 DEF InPlace
    <2>2. \A j \in DOMAIN Stages : ~Behind(p, j)
      BY <1>5, <1>6 DEF Behind
    <2>3. QED
      BY <2>1, <2>2 DEF StagesPassed
  <1>11. Target(o)' = Target(o)
    BY <1>1 DEF Target
  <1>12. InPlace(p)' /\ StagesPassed(o, p)'
    BY <1>1, <1>10 DEF InPlace, StagesPassed, Stages, Config
  <1>13. HeadPassed(o, p)' /\ TagPassed(o, p)'
    BY <1>10 DEF HeadPassed, TagPassed
  <1>14. Described(o)'
    BY <1>8, <1>11 DEF Described
  <1>15. QED
    BY <1>9, <1>12, <1>13, <1>14 DEF EntryOK

LEMMA ListKeeps ==
    ASSUME SelectInv, NEW k \in Keys, ListKey(k)
    PROVE  WorkOK'
  <1>1. BucketOK /\ listed \subseteq listed' /\ UNCHANGED <<bucket, next_id, case, disturbed>>
    BY DEF SelectInv, ListKey
  <1>2. BucketStep
    BY <1>1 DEF BucketStep, KeyStep, BucketOK
  <1>3. PICK said \in BOOLEAN : work' = work \cup PageOf(k, said)
    BY DEF ListKey, PageOf
  <1>4. SUFFICES ASSUME NEW w \in work'
                 PROVE  w = At(w.object, w.place) /\ EntryOK(w.object, w.place)'
    BY DEF WorkOK, At
  <1>5. CASE w \in work
    BY <1>1, <1>2, <1>5, EntryKept DEF SelectInv, WorkOK
  <1>6. CASE w \in PageOf(k, said)
    <2>1. PICK i \in DOMAIN bucket[k], t \in BOOLEAN :
             w = At(Reported(k, i, t), AfterStage(1)) /\ (~case.versions => i = 1 /\ ~t)
      BY <1>6, PageMember
    <2>2. w.object = Reported(k, i, t) /\ w.place = AfterStage(1) /\ w = At(w.object, w.place)
      BY <2>1 DEF At
    <2>3. EntryOK(w.object, w.place)'
      BY <1>1, <2>1, <2>2, PageEntryOK
    <2>4. QED
      BY <2>2, <2>3
  <1>7. QED
    BY <1>3, <1>5, <1>6

LEMMA ForwardKeeps ==
    ASSUME SelectInv, NEW w \in work, Forwards(w), Unmoved
    PROVE  WorkOK'
  <1>1. BucketOK /\ BucketStep /\ listed \subseteq listed'
    BY DEF SelectInv, Unmoved, BucketStep, KeyStep, BucketOK
  <1>2. SUFFICES ASSUME NEW v \in work'
                 PROVE  v = At(v.object, v.place) /\ EntryOK(v.object, v.place)'
    BY DEF WorkOK, At
  <1>3. CASE v \in work
    BY <1>1, <1>3, EntryKept DEF SelectInv, WorkOK
  <1>4. ASSUME NEW p, v = At(w.object, p), EntryOK(w.object, p)
        PROVE  v = At(v.object, v.place) /\ EntryOK(v.object, v.place)'
    <2>1. v.object = w.object /\ v.place = p
      BY <1>4 DEF At
    <2>2. EntryOK(w.object, p)'
      BY <1>1, <1>4, EntryKept
    <2>3. QED
      BY <1>4, <2>1, <2>2
  <1>5. QED
    BY <1>3, <1>4 DEF Forwards

LEMMA ShrinkKeeps ==
    ASSUME SelectInv, BucketStep, listed' = listed, work' \subseteq work
    PROVE  WorkOK'
  <1>1. SUFFICES ASSUME NEW v \in work'
                 PROVE  v = At(v.object, v.place) /\ EntryOK(v.object, v.place)'
    BY DEF WorkOK, At
  <1>2. QED
    BY EntryKept DEF SelectInv, WorkOK

LEMMA SelectInit == Init => SelectInv
  <1> SUFFICES ASSUME Init PROVE SelectInv
    OBVIOUS
  <1>1. case \in Cases /\ bucket \in [Keys -> Seq(Entry)] /\ next_id = 10
    BY SelectionAssumption DEF Init, FirstId
  <1>2. ASSUME NEW k \in Keys PROVE KeyOK(bucket[k], next_id, case.versioned)
    BY <1>1, SelectionAssumption DEF Init, FirstId, KeyOK
  <1>3. WorkOK
    BY DEF Init, WorkOK
  <1>4. QED
    BY <1>1, <1>2, <1>3 DEF SelectInv, BucketOK, NullId

LEMMA KeysOfWork ==
    ASSUME SelectInv
    PROVE  \A w \in work : w.object.key \in Keys
  BY DEF SelectInv, WorkOK, EntryOK, ObjectOK

LEMMA SelectNext == SelectInv /\ [Next]_vars => SelectInv'
  <1> SUFFICES ASSUME SelectInv, [Next]_vars PROVE SelectInv'
    OBVIOUS
  <1>1. BucketOK /\ BucketStep
    BY StepKinds, KeysOfWork DEF SelectInv
  <1>2. BucketOK'
    BY <1>1, BucketKept
  <1>3. WorkOK'
    <2>1. CASE UNCHANGED vars
      BY <1>1, <2>1, ShrinkKeeps
    <2>2. ASSUME NEW k \in Keys, OtherClient(k) PROVE WorkOK'
      BY <1>1, <2>2, ShrinkKeeps DEF OtherClient
    <2>3. ASSUME NEW k \in Keys, ListKey(k) PROVE WorkOK'
      BY <2>3, ListKeeps
    <2>4. ASSUME NEW w \in work, BuiltinStage(w) \/ UserDefinedStage(w) PROVE WorkOK'
      BY <2>4, StageForwards, ForwardKeeps
    <2>5. ASSUME NEW w \in work, ApplyHeadObjectFilters(w) PROVE WorkOK'
      BY <2>5, HeadForwards, ForwardKeeps
    <2>6. ASSUME NEW w \in work, ApplyTagFilters(w) PROVE WorkOK'
      BY <2>6, TagForwards, ForwardKeeps
    <2>7. ASSUME NEW w \in work, Delete(w) PROVE WorkOK'
      BY <1>1, <2>7, ShrinkKeeps DEF Delete, Leave
    <2>8. QED
      BY <2>1, <2>2, <2>3, <2>4, <2>5, <2>6, <2>7 DEF Next
  <1>4. QED
    BY <1>2, <1>3 DEF SelectInv

(* What reaches the deletion has passed every stage there is. *)
LEMMA AllPassed ==
    ASSUME NEW o, EntryOK(o, <<"delete", 0>>), NEW f, HasStage(Stages, f), f # "UserDefined"
    PROVE  Passes(f, o, Config)
  BY DEF EntryOK, StagesPassed, Behind, HasStage

LEMMA Deleting ==
    ASSUME SelectInv, NEW w \in work, Delete(w)
    PROVE  /\ BucketOK /\ EntryOK(w.object, <<"delete", 0>>) /\ w.object.key \in Keys
           /\ case' = case /\ work' = work \ {w}
  BY ObjectFacts DEF SelectInv, WorkOK, EntryOK, ObjectOK, Delete, Leave

-----------------------------------------------------------------------------
(* --keep-latest-only. *)

LEMMA DeletesOld ==
    ASSUME BucketOK, Config.keep_latest_only, NEW o, EntryOK(o, <<"delete", 0>>), NEW i \in Addressed(o)
    PROVE  /\ case.versions /\ o.is_latest = "no"
           /\ i \in DOMAIN bucket[o.key] /\ bucket[o.key][i].id = o.version
  <1>1. HasStage(Stages, "KeepLatestOnly")
    BY ChainComplete, CaseFacts DEF Stages, BucketOK
  <1>2. Passes("KeepLatestOnly", o, Config)
    BY <1>1, AllPassed
  <1>3. o.kind # "NotVersioning" /\ o.is_latest = "no"
    BY <1>2 DEF Passes, IsNotLatestVersion, IsLatest
  <1>4. case.versions
    BY <1>3 DEF EntryOK, ObjectOK
  <1>5. QED
    BY <1>3, <1>4 DEF Addressed

(* The objects on their way come from those before the step or from a page. *)
LEMMA ObjectsCome ==
    ASSUME SelectInv, [Next]_vars, NEW v \in work'
    PROVE  \/ \E w \in work : v.object = w.object
           \/ \E k \in Keys : ListKey(k) /\ \E said \in BOOLEAN : v \in PageOf(k, said)
  <1>1. CASE UNCHANGED vars
    BY <1>1
  <1>2. ASSUME NEW k \in Keys, OtherClient(k) PROVE v \in work
    BY <1>2 DEF OtherClient
  <1>3. ASSUME NEW k \in Keys, ListKey(k)
        PROVE  v \in work \/ \E said \in BOOLEAN : v \in PageOf(k, said)
    BY <1>3 DEF ListKey, PageOf
  <1>4. ASSUME NEW w \in work, Forwards(w) PROVE v \in work \/ v.object = w.object
    BY <1>4 DEF Forwards, At
  <1>5. ASSUME NEW w \in work, BuiltinStage(w) \/ UserDefinedStage(w) PROVE Forwards(w)
    BY <1>5, StageForwards
  <1>6. ASSUME NEW w \in work, ApplyHeadObjectFilters(w) PROVE Forwards(w)
    BY <1>6, HeadForwards
  <1>7. ASSUME NEW w \in work, ApplyTagFilters(w) PROVE Forwards(w)
    BY <1>7, TagForwards
  <1>8. ASSUME NEW w \in work, Delete(w) PROVE v \in work
    BY <1>8 DEF Delete, Leave
  <1>9. QED
    BY <1>1, <1>2, <1>3, <1>4, <1>5, <1>6, <1>7, <1>8 DEF Next

LEMMA OldOnesShrink ==
    ASSUME SelectInv, [Next]_vars, NEW k \in listed
    PROVE  OldOnes(k)' \subseteq OldOnes(k)
  <1>1. SUFFICES ASSUME NEW u \in work', u.object.key = k, u.object.is_latest = "no"
                 PROVE  \E w \in work : u.object = w.object
    BY DEF OldOnes
  <1>2. ASSUME NEW l \in Keys, ListKey(l), NEW said \in BOOLEAN, u \in PageOf(l, said) PROVE FALSE
    <2>1. PICK i \in DOMAIN bucket[l], t \in BOOLEAN : u = At(Reported(l, i, t), AfterStage(1))
      BY <1>2, PageMember
    <2>2. u.object = Reported(l, i, t)
      BY <2>1 DEF At
    <2>3. u.object.key = l
      BY <2>2, ReportedFields DEF SelectInv
    <2>4. QED
      BY <1>1, <1>2, <2>3 DEF ListKey
  <1>3. QED
    BY <1>2, ObjectsCome

(* A step keeps what is ahead of an old version, unless it is an old one itself. *)
OrderKept(k, b) ==
    Occurs(bucket'[k], b) =>
        /\ Occurs(bucket[k], b)
        /\ \A a : a \notin OldOnes(k) /\ Ahead(bucket[k], a, b) => Ahead(bucket'[k], a, b)

LEMMA OrderKeptByOthers ==
    ASSUME BucketOK, NEW l \in Keys, OtherClient(l), NEW o, ObjectOK(o), o.is_latest = "no", AgeFixed(o)'
    PROVE  OrderKept(o.key, o.version)
  <1> DEFINE k == o.key
             b == o.version
  <1>1. /\ k \in Keys /\ b \in Nat /\ b < next_id /\ next_id \in Nat
        /\ case.versioned /\ bucket[k] \in Seq(Entry)
    BY ObjectFacts, CaseFacts DEF ObjectOK, BucketOK
  <1>2. CASE bucket'[k] = bucket[k]
    BY <1>2 DEF OrderKept
  <1>3. CASE Writes(k)
    <2>1. b # NullId
      BY <1>3 DEF Writes, AgeFixed
    <2>2. PICK e : Put(k, e)
      BY <1>1, <1>3 DEF Writes
    <2>3. /\ e \in Entry /\ e.id \in {next_id, NullId}
          /\ bucket'[k] = <<e>> \o Without(bucket[k], e.id)
      BY <1>1, <2>2 DEF Put, WithEntry
    <2>4. e.id # b
      BY <1>1, <2>1, <2>3
    <2>5. QED
      BY <1>1, <2>3, <2>4, OrderWritten DEF OrderKept
  <1>4. CASE Tags(k)
    BY <1>1, <1>4, OrderTagged DEF Tags, OrderKept
  <1>5. CASE Purges(k)
    BY <1>5 DEF Purges, AgeFixed
  <1>6. QED
    BY <1>1, <1>2, <1>3, <1>4, <1>5, OtherClientStep

LEMMA OrderKeptByDelete ==
    ASSUME SelectInv, Config.keep_latest_only, NEW w \in work, Delete(w), NEW o, ObjectOK(o), o.is_latest = "no"
    PROVE  OrderKept(o.key, o.version)
  <1> DEFINE k == o.key
             b == o.version
             l == w.object.key
  <1>1. /\ BucketOK /\ EntryOK(w.object, <<"delete", 0>>) /\ l \in Keys
        /\ k \in Keys /\ case.versions /\ bucket \in [Keys -> Seq(Entry)]
    BY Deleting, ObjectFacts DEF ObjectOK, BucketOK
  <1>2. CASE bucket'[k] = bucket[k]
    BY <1>2 DEF OrderKept
  <1>3. ASSUME NEW i \in Addressed(w.object), bucket' = [bucket EXCEPT ![l] = RemoveAt(bucket[l], i)], k = l
        PROVE  OrderKept(k, b)
    <2> DEFINE s == bucket[k]
    <2>1. /\ i \in DOMAIN s /\ s[i].id \in OldOnes(k) /\ s \in Seq(Entry)
          /\ bucket'[k] = RemoveAt(s, i)
      BY <1>1, <1>3, DeletesOld DEF OldOnes
    <2>2. KeyOK(s, next_id, case.versioned) /\ next_id \in Nat /\ case.versioned \in BOOLEAN
      BY <1>1, CaseFacts DEF BucketOK
    <2>3. ~Occurs(RemoveAt(s, i), s[i].id)
      BY <2>1, <2>2, KeyDropped DEF Occurs
    <2> HIDE DEF s, b
    <2>4. ASSUME Occurs(RemoveAt(s, i), b)
          PROVE  /\ Occurs(s, b)
                 /\ \A a : a \notin OldOnes(k) /\ Ahead(s, a, b) => Ahead(RemoveAt(s, i), a, b)
      <3>1. s[i].id # b /\ Occurs(s, b)
        BY <2>1, <2>3, <2>4, OccursDropped
      <3>2. QED
        BY <2>1, <3>1, AheadDropped
    <2>5. QED
      BY <2>1, <2>4 DEF OrderKept, s
  <1>4. Deletion(w)
    BY <1>1, DeletionOf
  <1>5. CASE k = l
    BY <1>1, <1>2, <1>3, <1>4, <1>5 DEF Deletion
  <1>6. CASE k # l
    <2>1. bucket'[k] = bucket[k]
      BY <1>1, <1>4, <1>6 DEF Deletion
    <2>2. QED
      BY <1>2, <2>1
  <1>7. QED
    BY <1>5, <1>6

LEMMA OldStaysOld == SelectInv /\ StaysOld /\ [Next]_vars => StaysOld'
  <1> SUFFICES ASSUME SelectInv, StaysOld, [Next]_vars PROVE StaysOld'
    OBVIOUS
  <1>1. BucketOK /\ BucketStep /\ case' = case /\ disturbed \subseteq disturbed'
    BY StepKinds, KeysOfWork DEF SelectInv, BucketStep
  <1>2. SUFFICES ASSUME Config.keep_latest_only, NEW v \in work', v.object.is_latest = "no",
                        AgeFixed(v.object)', Occurs(bucket'[v.object.key], v.object.version)
                 PROVE  \E a : /\ a \notin OldOnes(v.object.key)'
                               /\ Ahead(bucket'[v.object.key], a, v.object.version)
    BY <1>1 DEF StaysOld, Config
  <1> DEFINE k == v.object.key
             b == v.object.version
             Goal == \E a : a \notin OldOnes(k)' /\ Ahead(bucket'[k], a, b)
  <1>3. ASSUME NEW w \in work, v.object = w.object PROVE Goal
    <2>1. ObjectOK(v.object) /\ k \in listed
      BY <1>3 DEF SelectInv, WorkOK, EntryOK, ObjectOK
    <2>2. OldOnes(k)' \subseteq OldOnes(k)
      BY <2>1, OldOnesShrink
    <2>3. OrderKept(k, b)
      <3>1. CASE bucket' = bucket
        BY <3>1 DEF OrderKept
      <3>2. ASSUME NEW l \in Keys, OtherClient(l) PROVE OrderKept(k, b)
        BY <1>1, <1>2, <2>1, <3>2, OrderKeptByOthers
      <3>3. ASSUME NEW x \in work, Delete(x) PROVE OrderKept(k, b)
        BY <1>2, <2>1, <3>3, OrderKeptByDelete
      <3>4. ASSUME NEW l \in Keys, ListKey(l) PROVE bucket' = bucket
        BY <3>4 DEF ListKey
      <3>5. ASSUME NEW x \in work,
                   \/ BuiltinStage(x) \/ UserDefinedStage(x)
                   \/ ApplyHeadObjectFilters(x) \/ ApplyTagFilters(x)
            PROVE  bucket' = bucket
        <4>1. Unmoved
          BY <3>5 DEF BuiltinStage, UserDefinedStage, ApplyHeadObjectFilters, ApplyTagFilters,
                      AttributeFilter
        <4>2. QED
          BY <4>1 DEF Unmoved
      <3>6. QED
        BY <3>1, <3>2, <3>3, <3>4, <3>5 DEF Next
    <2>4. AgeFixed(v.object)
      BY <1>1, <1>2 DEF AgeFixed
    <2>5. Occurs(bucket[k], b)
      BY <1>2, <2>3 DEF OrderKept
    <2>6. PICK a : a \notin OldOnes(k) /\ Ahead(bucket[k], a, b)
      BY <1>2, <1>3, <2>4, <2>5 DEF StaysOld
    <2>7. a \notin OldOnes(k)' /\ Ahead(bucket'[k], a, b)
      BY <1>2, <2>2, <2>3, <2>6 DEF OrderKept
    <2>8. QED
      BY <2>7
  <1>4. ASSUME NEW l \in Keys, ListKey(l), NEW said \in BOOLEAN, v \in PageOf(l, said)
        PROVE  Goal
    <2>1. ASSUME NEW u \in work', u.object.key = l, u.object.is_latest = "no"
          PROVE  \E i \in DOMAIN bucket[l] : i # 1 /\ u.object.version = bucket[l][i].id
      <3>1. ~\E w \in work : u.object = w.object
        BY <1>4, <2>1 DEF SelectInv, WorkOK, EntryOK, ObjectOK, ListKey
      <3>2. PICK m \in Keys, t \in BOOLEAN : u \in PageOf(m, t)
        BY <3>1, ObjectsCome
      <3>3. PICK i \in DOMAIN bucket[m], y \in BOOLEAN :
               u = At(Reported(m, i, y), AfterStage(1)) /\ (~case.versions => ~y)
        BY <3>2, PageMember
      <3>4. u.object = Reported(m, i, y)
        BY <3>3 DEF At
      <3>5. /\ u.object.key = m /\ u.object.version = IF case.versions THEN bucket[m][i].id ELSE NullId
            /\ u.object.is_latest = "no" => y /\ i # 1
        BY <1>1, <3>4, ReportedFields
      <3>6. QED
        BY <2>1, <3>3, <3>5
    <2>2. k = l
      <3>1. PICK i \in DOMAIN bucket[l], y \in BOOLEAN : v = At(Reported(l, i, y), AfterStage(1))
        BY <1>4, PageMember
      <3>2. v.object = Reported(l, i, y)
        BY <3>1 DEF At
      <3>3. QED
        BY <1>1, <3>2, ReportedFields
    <2>3. PICK i \in DOMAIN bucket[l] : i # 1 /\ b = bucket[l][i].id
      BY <1>2, <2>1, <2>2
    <2>4. bucket' = bucket /\ KeyOK(bucket[l], next_id, case.versioned)
      BY <1>1, <1>4 DEF ListKey, BucketOK
    <2>5. 1 \in DOMAIN bucket[l] /\ 1 < i
      BY <2>3, <2>4 DEF KeyOK
    <2>6. Ahead(bucket[l], bucket[l][1].id, b)
      BY <2>3, <2>5 DEF Ahead
    <2>7. bucket[l][1].id \notin OldOnes(l)'
      BY <2>1, <2>4, <2>5 DEF KeyOK, OldOnes
    <2>8. QED
      BY <2>2, <2>4, <2>6, <2>7
  <1>5. QED
    BY <1>3, <1>4, ObjectsCome

(* With --keep-latest-only (KeepLatestOnlyFilter) no request removes the entry    *)
(* that is current when it arrives, for any history, any number of foreign writes *)
(* with versioning enabled or suspended, and whether or not the endpoint says     *)
(* which entry is the latest, as long as no other client removes versions of the  *)
(* key, nor writes to it while the entry that was listed has the id "null".       *)
THEOREM CurrentIsKept == Spec => []CurrentKept
  <1> DEFINE Inv == SelectInv /\ StaysOld /\ CurrentKept
  <1>1. Init => Inv
    BY SelectInit DEF Init, StaysOld, CurrentKept
  <1>2. Inv /\ [Next]_vars => Inv'
    <2> SUFFICES ASSUME Inv, [Next]_vars PROVE CurrentKept'
      BY SelectNext, OldStaysOld
    <2>1. case' = case /\ disturbed \subseteq disturbed'
      BY StepKinds, KeysOfWork DEF SelectInv, BucketStep
    <2>2. CASE removed' = removed
      BY <2>1, <2>2 DEF CurrentKept, Config
    <2>3. ASSUME NEW w \in work, Delete(w) PROVE CurrentKept'
      <3>0. disturbed' = disturbed
        BY <2>3 DEF Delete
      <3>1. SUFFICES ASSUME Config.keep_latest_only, NEW r \in removed', AgeFixed(r.object)
                     PROVE  ~r.newest
        BY <2>1, <3>0 DEF CurrentKept, Config, AgeFixed
      <3>2. CASE r \in removed
        BY <3>1, <3>2 DEF CurrentKept, AgeFixed
      <3>3. ASSUME NEW i \in Addressed(w.object),
                   r = [object |-> w.object, entry |-> bucket[w.object.key][i], newest |-> i = 1]
            PROVE  ~r.newest
        <4> DEFINE o == w.object
                   s == bucket[o.key]
        <4>1. BucketOK /\ EntryOK(o, <<"delete", 0>>) /\ o.key \in Keys /\ r.object = o
          BY <2>3, <3>3, Deleting
        <4>2. o.is_latest = "no" /\ i \in DOMAIN s /\ s[i].id = o.version
          BY <3>1, <4>1, DeletesOld
        <4>3. \E a : Ahead(s, a, o.version)
          BY <3>1, <4>1, <4>2 DEF StaysOld, Occurs
        <4>4. i # 1
          BY <4>1, <4>2, <4>3, BehindNotFirst DEF BucketOK
        <4>5. QED
          BY <3>3, <4>4
      <3>4. QED
        BY <2>3, <3>2, <3>3 DEF Delete
    <2>4. ASSUME NEW x \in work,
                 \/ BuiltinStage(x) \/ UserDefinedStage(x)
                 \/ ApplyHeadObjectFilters(x) \/ ApplyTagFilters(x)
          PROVE  removed' = removed
      BY <2>4 DEF BuiltinStage, UserDefinedStage, ApplyHeadObjectFilters, ApplyTagFilters,
                  AttributeFilter
    <2>5. QED
      BY <2>2, <2>3, <2>4 DEF Next, OtherClient, ListKey
  <1>3. QED
    BY <1>1, <1>2, PTL DEF Spec

-----------------------------------------------------------------------------
(* What is removed was promised. *)

(* What the stages saw was the listing; it holds of an entry of the same size,    *)
(* time and kind.                                                                 *)
LEMMA SizeKept ==
    ASSUME BucketOK, NEW o, EntryOK(o, <<"delete", 0>>), NEW e \in Entry,
           o.size = e.attributes.size, ~IsDeleteMarker(o) => ~e.marker
    PROVE  SizePromised(e)
  <1> DEFINE c == Config
             a == e.attributes
  <1>1. c \in FilterConfig /\ c.larger_size \in Int /\ c.smaller_size \in Int
    <2>1. c \in FilterConfig
      BY CaseFacts DEF BucketOK
    <2>2. QED
      BY <2>1 DEF FilterConfig
  <1>2. a.size \in Int
    BY DEF Entry, Attributes
  <1>3. c.larger_size # NoThreshold => ~e.marker /\ a.size >= c.larger_size
    <2>1. c.larger_size # NoThreshold => Passes("LargerSize", o, c)
      BY <1>1, ChainComplete, AllPassed DEF Stages
    <2>2. QED
      BY <2>1 DEF Passes, IsLargerOrEqual, Size
  <1>4. c.smaller_size # NoThreshold => ~e.marker /\ a.size \in 0 .. c.smaller_size - 1
    <2>1. c.smaller_size # NoThreshold => Passes("SmallerSize", o, c)
      BY <1>1, ChainComplete, AllPassed DEF Stages
    <2>2. c.smaller_size # NoThreshold => ~e.marker /\ a.size >= 0 /\ a.size < c.smaller_size
      BY <2>1 DEF Passes, IsSmaller, Size
    <2>3. QED
      BY <1>1, <1>2, <2>2
  <1>5. QED
    BY <1>3, <1>4 DEF SizePromised

LEMMA KeyKept ==
    ASSUME BucketOK, NEW o, EntryOK(o, <<"delete", 0>>)
    PROVE  KeyPromised(o.key)
  <1> DEFINE c == Config
  <1>1. /\ c \in FilterConfig /\ case.names \in [Keys -> Text] /\ o.key \in Keys
        /\ o.name = case.names[o.key] /\ o.name \in Text
    BY CaseFacts DEF EntryOK, ObjectOK, BucketOK
  <1>2. c.include_regex => Passes("IncludeRegex", o, c)
    BY <1>1, ChainComplete, AllPassed DEF Stages
  <1>3. c.exclude_regex => Passes("ExcludeRegex", o, c)
    BY <1>1, ChainComplete, AllPassed DEF Stages
  <1>4. QED
    BY <1>1, <1>2, <1>3 DEF Passes, IncludeRegex, ExcludeRegex, Text, KeyPromised

LEMMA TargetEntry ==
    ASSUME BucketOK, NEW o, o.key \in Keys, NEW e \in Target(o)
    PROVE  e \in Entry /\ e.attributes \in Attributes /\ e.marker \in BOOLEAN
  <1>1. bucket[o.key] \in Seq(Entry)
    BY DEF BucketOK
  <1>2. e \in Entry
    BY <1>1, EntryIds DEF Target
  <1>3. QED
    BY <1>2 DEF Entry

(* The other options are satisfied by the entry a pinned object stands for. *)
LEMMA FixedKept ==
    ASSUME BucketOK, NEW o, EntryOK(o, <<"delete", 0>>), Pinned(o), NEW e \in Target(o)
    PROVE  FixedPromised(e)
  <1> DEFINE c == Config
             a == e.attributes
  <1>1. c \in FilterConfig /\ o.key \in Keys
    BY CaseFacts DEF EntryOK, ObjectOK, BucketOK
  <1>2. e \in Entry /\ a \in Attributes /\ e.marker \in BOOLEAN
    BY <1>1, TargetEntry
  <1>3. o.mtime = a.mtime /\ (IsDeleteMarker(o) <=> e.marker)
    BY DEF EntryOK, Described, Describes
  <1>4. c.after_time # NoThreshold => a.mtime >= c.after_time
    <2>1. c.after_time # NoThreshold => Passes("MtimeAfter", o, c)
      BY <1>1, ChainComplete, AllPassed DEF Stages
    <2>2. QED
      BY <1>3, <2>1 DEF Passes, IsAfterOrEqual
  <1>5. c.before_time # NoThreshold => a.mtime # NoTime /\ a.mtime < c.before_time
    <2>1. c.before_time # NoThreshold => Passes("MtimeBefore", o, c)
      BY <1>1, ChainComplete, AllPassed DEF Stages
    <2>2. QED
      BY <1>3, <2>1 DEF Passes, IsBefore
  <1>6. c.delete_marker_only => e.marker
    <2>1. c.delete_marker_only => Passes("DeleteMarkerOnly", o, c)
      BY <1>1, ChainComplete, AllPassed DEF Stages
    <2>2. QED
      BY <1>3, <2>1 DEF Passes, IsDeleteMarkerOnly
  <1>7. NeedsHeadObject(c) => ~e.marker /\ HeadDecision(a, c) = "pass"
    BY <1>3 DEF EntryOK, HeadPassed
  <1> HIDE DEF c, a
  <1>8. /\ c.include_content_type => ~e.marker /\ a.content_type = "a"
        /\ c.exclude_content_type => ~e.marker /\ a.content_type \in {"a", "none"}
        /\ c.include_metadata => ~e.marker /\ a.metadata = "a"
        /\ c.exclude_metadata => ~e.marker /\ a.metadata \in {"a", "none"}
    BY <1>1, <1>2, <1>7, HeadPass DEF NeedsHeadObject
  <1>9. QED
    BY <1>4, <1>5, <1>6, <1>8 DEF FixedPromised, c, a

LEMMA TagsKept ==
    ASSUME BucketOK, NEW o, EntryOK(o, <<"delete", 0>>), TagsPinned(o), NEW e \in Target(o)
    PROVE  TagsPromised(e)
  <1> DEFINE c == Config
             a == e.attributes
  <1>1. c \in FilterConfig /\ o.key \in Keys
    BY CaseFacts DEF EntryOK, ObjectOK, BucketOK
  <1>2. e \in Entry /\ a \in Attributes /\ e.marker \in BOOLEAN
    BY <1>1, TargetEntry
  <1>3. IsDeleteMarker(o) <=> e.marker
    BY DEF EntryOK, Described, Describes, TagsPinned
  <1>4. NeedsTagging(c) => ~e.marker /\ TagDecision(a, c) = "pass"
    BY <1>3 DEF EntryOK, TagPassed
  <1> HIDE DEF c, a
  <1>5. /\ c.include_tag => ~e.marker /\ a.tags = "a"
        /\ c.exclude_tag => ~e.marker /\ a.tags = "a"
    BY <1>1, <1>2, <1>4, TagPass DEF NeedsTagging
  <1>6. QED
    BY <1>5 DEF TagsPromised, c, a

(* A conditional request acts on an entry of the bytes that were listed. *)
LEMMA SameSize ==
    ASSUME BucketOK, NEW o, EntryOK(o, <<"delete", 0>>), NEW i \in Addressed(o),
           Conditional(o), ETagMatches(o, bucket[o.key][i])
    PROVE  SizePromised(bucket[o.key][i])
  <1> DEFINE e == bucket[o.key][i]
  <1>1. o.key \in Keys /\ ~case.versions
    BY CaseFacts DEF EntryOK, ObjectOK, BucketOK, Conditional
  <1>2. i \in DOMAIN bucket[o.key] /\ ~e.marker
    BY <1>1, AddressedFacts
  <1>3. e \in Entry /\ SameBytes(e)
    BY <1>1, <1>2, EntryIds DEF BucketOK, KeyOK
  <1>4. o.etag # NoETag /\ e.etag = o.etag /\ o.size = SizeOf[o.etag]
    BY DEF Conditional, ETagMatches, EntryOK, ObjectOK
  <1>5. o.size = e.attributes.size
    BY <1>3, <1>4 DEF SameBytes
  <1>6. QED
    BY <1>2, <1>3, <1>5, SizeKept

(* The stages and the attribute filters of process_object looked at what a        *)
(* request removes long before it is removed. The key always satisfies the        *)
(* options. What a version id other than "null" names, and what nobody else has   *)
(* written to, satisfies all of them, but for tags that were changed in place;    *)
(* what is deleted with the If-Match of an ETag satisfies those about the size.   *)
THEOREM PromiseKept == Spec => []OnlyPromisedRemoved
  <1> DEFINE Inv == SelectInv /\ OnlyPromisedRemoved
  <1>1. Init => Inv
    BY SelectInit DEF Init, OnlyPromisedRemoved
  <1>2. Inv /\ [Next]_vars => Inv'
    <2> SUFFICES ASSUME Inv, [Next]_vars PROVE OnlyPromisedRemoved'
      BY SelectNext
    <2> DEFINE Kept(r) ==
                  /\ KeyPromised(r.object.key)
                  /\ Pinned(r.object) \/ Conditional(r.object) => SizePromised(r.entry)
                  /\ Pinned(r.object) => FixedPromised(r.entry)
                  /\ TagsPinned(r.object) => TagsPromised(r.entry)
    <2>1. case' = case /\ disturbed \subseteq disturbed'
      BY StepKinds, KeysOfWork DEF SelectInv, BucketStep
    <2>2. ASSUME NEW r, Kept(r)
          PROVE  /\ KeyPromised(r.object.key)'
                 /\ (Pinned(r.object) \/ Conditional(r.object))' => SizePromised(r.entry)'
                 /\ Pinned(r.object)' => FixedPromised(r.entry)'
                 /\ TagsPinned(r.object)' => TagsPromised(r.entry)'
      <3>1. /\ KeyPromised(r.object.key)' <=> KeyPromised(r.object.key)
            /\ SizePromised(r.entry)' <=> SizePromised(r.entry)
            /\ FixedPromised(r.entry)' <=> FixedPromised(r.entry)
            /\ TagsPromised(r.entry)' <=> TagsPromised(r.entry)
            /\ Conditional(r.object)' <=> Conditional(r.object)
        BY <2>1 DEF KeyPromised, SizePromised, FixedPromised, TagsPromised, Config, Conditional
      <3>2. Pinned(r.object)' => Pinned(r.object)
        BY <2>1, PinnedStays
      <3>3. TagsPinned(r.object)' => TagsPinned(r.object)
        BY <2>1, <3>2 DEF TagsPinned
      <3>4. QED
        BY <2>2, <3>1, <3>2, <3>3
    <2>3. ASSUME \A r \in removed' : Kept(r) PROVE OnlyPromisedRemoved'
      BY <2>2, <2>3 DEF OnlyPromisedRemoved, TagsPinned
    <2>4. \A r \in removed : Kept(r)
      BY DEF OnlyPromisedRemoved, TagsPinned
    <2>5. ASSUME NEW w \in work, Delete(w), NEW r \in removed' PROVE Kept(r)
      <3>1. ASSUME NEW i \in Addressed(w.object), ETagMatches(w.object, bucket[w.object.key][i]),
                   r = [object |-> w.object, entry |-> bucket[w.object.key][i], newest |-> i = 1]
            PROVE  Kept(r)
        <4> DEFINE o == w.object
                   e == bucket[o.key][i]
        <4>1. /\ BucketOK /\ EntryOK(o, <<"delete", 0>>) /\ o.key \in Keys
              /\ r.object = o /\ r.entry = e
          BY <2>5, <3>1, Deleting
        <4>2. e \in Target(o)
          BY <4>1, AddressedIsTarget
        <4>3. e \in Entry
          BY <4>1, <4>2, TargetEntry
        <4>4. Pinned(o) => SizePromised(e) /\ FixedPromised(e)
          <5>1. Pinned(o) => Describes(o, e)
            BY <4>1, <4>2 DEF EntryOK, Described
          <5>2. Pinned(o) => SizePromised(e)
            BY <4>1, <4>3, <5>1, SizeKept DEF Describes
          <5>3. Pinned(o) => FixedPromised(e)
            BY <4>1, <4>2, FixedKept
          <5>4. QED
            BY <5>2, <5>3
        <4>5. Conditional(o) => SizePromised(e)
          BY <3>1, <4>1, SameSize
        <4>6. TagsPinned(o) => TagsPromised(e)
          BY <4>1, <4>2, TagsKept
        <4>7. KeyPromised(o.key)
          BY <4>1, KeyKept
        <4> HIDE DEF o, e
        <4>8. QED
          BY <4>1, <4>4, <4>5, <4>6, <4>7
      <3>2. QED
        BY <2>4, <2>5, <3>1 DEF Delete
    <2>6. ASSUME NEW x \in work,
                 \/ BuiltinStage(x) \/ UserDefinedStage(x)
                 \/ ApplyHeadObjectFilters(x) \/ ApplyTagFilters(x)
          PROVE  removed' = removed
      BY <2>6 DEF BuiltinStage, UserDefinedStage, ApplyHeadObjectFilters, ApplyTagFilters,
                  AttributeFilter
    <2> HIDE DEF Kept
    <2>7. CASE removed' = removed
      BY <2>3, <2>4, <2>7
    <2>8. ASSUME NEW w \in work, Delete(w) PROVE OnlyPromisedRemoved'
      BY <2>3, <2>5, <2>8
    <2>9. QED
      BY <2>6, <2>7, <2>8 DEF Next, OtherClient, ListKey
  <1>3. QED
    BY <1>1, <1>2, PTL DEF Spec

-----------------------------------------------------------------------------
(* Nothing hidden comes back. *)

(* A run that is scoped by attributes removes no delete marker. *)
LEMMA DeletesObject ==
    ASSUME BucketOK, AttributeScoped, NEW o, EntryOK(o, <<"delete", 0>>), Pinned(o), NEW i \in Addressed(o)
    PROVE  i \in DOMAIN bucket[o.key] /\ ~bucket[o.key][i].marker
  <1> DEFINE c == Config
             e == bucket[o.key][i]
  <1>1. o.key \in Keys /\ c \in FilterConfig
    BY CaseFacts DEF EntryOK, ObjectOK, BucketOK
  <1>2. /\ i \in DOMAIN bucket[o.key]
        /\ IF case.versions THEN e.id = o.version ELSE ~e.marker
    BY <1>1, AddressedFacts
  <1>3. ~IsDeleteMarker(o)
    <2>1. CASE c.larger_size # NoThreshold
      <3>1. Passes("LargerSize", o, c)
        BY <1>1, <2>1, ChainComplete, AllPassed DEF Stages
      <3>2. QED
        BY <3>1 DEF Passes, IsLargerOrEqual
    <2>2. CASE c.smaller_size # NoThreshold
      <3>1. Passes("SmallerSize", o, c)
        BY <1>1, <2>2, ChainComplete, AllPassed DEF Stages
      <3>2. QED
        BY <3>1 DEF Passes, IsSmaller
    <2>3. CASE NeedsHeadObject(c)
      BY <2>3 DEF EntryOK, HeadPassed
    <2>4. CASE NeedsTagging(c)
      BY <2>4 DEF EntryOK, TagPassed
    <2>5. QED
      BY <2>1, <2>2, <2>3, <2>4 DEF AttributeScoped
  <1>4. CASE case.versions
    <2>1. e \in Target(o)
      BY <1>1, <1>2, <1>4, AddressedIsTarget
    <2>2. QED
      BY <1>2, <1>3, <2>1 DEF EntryOK, Described, Describes
  <1>5. QED
    BY <1>2, <1>4

LEMMA VisibleTop ==
    ASSUME NEW b \in [Keys -> Seq(Entry)], NEW k \in Keys
    PROVE  Visible(b, k) <=> 1 \in DOMAIN b[k] /\ ~b[k][1].marker
  <1>1. b[k] \in Seq(Entry)
    OBVIOUS
  <1>2. b[k] # << >> <=> 1 \in DOMAIN b[k]
    BY <1>1
  <1>3. QED
    BY <1>1, <1>2 DEF Visible

LEMMA WithEntryTop ==
    ASSUME BucketOK, NEW k \in Keys, NEW e \in Entry
    PROVE  WithEntry(k, e)[1] = e
  <1>1. bucket[k] \in Seq(Entry)
    BY DEF BucketOK
  <1>2. CASE case.versioned
    <2>1. Without(bucket[k], e.id) \in Seq(Entry)
      BY <1>1, RoomMade, Removing
    <2>2. QED
      BY <1>2, <2>1, Pushed DEF WithEntry
  <1>3. CASE ~case.versioned
    BY <1>3 DEF WithEntry
  <1>4. QED
    BY <1>2, <1>3

LEMMA DeleteUncoversNothing ==
    ASSUME SelectInv, SelectInv', AttributeScoped, NEW w \in work, Delete(w),
           NEW k \in Keys, Settled(k), Visible(bucket', k)
    PROVE  Visible(bucket, k)
  <1> DEFINE l == w.object.key
  <1>1. /\ BucketOK /\ EntryOK(w.object, <<"delete", 0>>) /\ l \in Keys
        /\ bucket \in [Keys -> Seq(Entry)] /\ Deletion(w)
    BY Deleting, DeletionOf DEF BucketOK
  <1>2. bucket' \in [Keys -> Seq(Entry)]
    BY DEF SelectInv, BucketOK
  <1>3. CASE bucket'[k] = bucket[k]
    BY <1>3 DEF Visible
  <1>4. ASSUME NEW id \in NewIds, bucket' = [bucket EXCEPT ![l] = WithEntry(l, NewMarker(id))], k = l
        PROVE  FALSE
    <2>1. bucket'[k] = WithEntry(k, NewMarker(id))
      BY <1>1, <1>4
    <2>2. bucket'[k][1].marker
      BY <1>1, <2>1, WithEntryTop, MarkerIsEntry, NewIdsKnown
    <2>3. QED
      BY <1>2, <2>2, VisibleTop
  <1>5. ASSUME NEW i \in Addressed(w.object), bucket' = [bucket EXCEPT ![l] = RemoveAt(bucket[l], i)], k = l
        PROVE  Visible(bucket, k)
    <2>0. Pinned(w.object)
      BY <1>5 DEF Pinned
    <2>1. i \in DOMAIN bucket[k] /\ ~bucket[k][i].marker
      BY <1>1, <1>5, <2>0, DeletesObject
    <2>2. bucket[k] \in Seq(Entry) /\ bucket'[k] = RemoveAt(bucket[k], i)
      BY <1>1, <1>5
    <2>3. 1 \in DOMAIN bucket[k] /\ Len(bucket[k]) \in Nat /\ i \in 1 .. Len(bucket[k])
      BY <2>1, <2>2
    <2>4. CASE i = 1
      BY <1>1, <2>1, <2>3, <2>4, VisibleTop
    <2>5. CASE i # 1
      <3>1. 1 \in 1 .. Len(bucket[k]) - 1 /\ 1 < i
        BY <2>3, <2>5
      <3>2. RemoveAt(bucket[k], i)[1] = bucket[k][1]
        BY <2>1, <2>2, <3>1, Removing
      <3>3. QED
        BY <1>1, <1>2, <2>2, <2>3, <3>2, VisibleTop
    <2>6. QED
      BY <2>4, <2>5
  <1>6. CASE k # l
    <2>1. bucket'[k] = bucket[k]
      BY <1>1, <1>6 DEF Deletion, AddMarker
    <2>2. QED
      BY <1>3, <2>1
  <1>7. CASE k = l
    BY <1>1, <1>3, <1>4, <1>5, <1>7 DEF Deletion, AddMarker
  <1>8. QED
    BY <1>6, <1>7

(* Changing tags shows nothing that was hidden. *)
LEMMA TagsShowNothing ==
    ASSUME SelectInv, SelectInv', NEW k \in Keys, Tags(k), Visible(bucket', k)
    PROVE  Visible(bucket, k)
  <1>1. bucket \in [Keys -> Seq(Entry)] /\ bucket' \in [Keys -> Seq(Entry)]
    BY DEF SelectInv, BucketOK
  <1>2. PICK i \in DOMAIN bucket[k], tags \in Text : bucket'[k] = Tagged(bucket[k], i, tags)
    BY DEF Tags
  <1>3. DOMAIN bucket'[k] = DOMAIN bucket[k] /\ \A j \in DOMAIN bucket[k] : bucket'[k][j].marker = bucket[k][j].marker
    BY <1>1, <1>2, Retagging DEF Alike
  <1>4. QED
    BY <1>1, <1>3, VisibleTop

(* process_object skips a delete marker where an attribute is asked for, and the  *)
(* size stages never let one pass, so that a run scoped by size, content type,    *)
(* metadata or tags makes no object visible that was hidden, whatever the history *)
(* of the bucket and the order in which its entries are deleted, if no other      *)
(* client writes to the key or removes versions of it.                            *)
THEOREM HiddenStaysHidden == Spec => []NothingResurrected
  <1> DEFINE Inv == SelectInv /\ NothingResurrected
  <1>1. Init => Inv
    BY SelectInit DEF Init, NothingResurrected
  <1>2. Inv /\ [Next]_vars => Inv'
    <2> SUFFICES ASSUME Inv, [Next]_vars PROVE NothingResurrected'
      BY SelectNext
    <2>1. case' = case /\ SelectInv' /\ disturbed \subseteq disturbed'
      BY StepKinds, KeysOfWork, SelectNext DEF SelectInv, BucketStep
    <2>2. SUFFICES ASSUME AttributeScoped, NEW k \in Keys, Settled(k)', Visible(bucket', k)
                   PROVE  Settled(k) /\ Visible(bucket, k)
      BY <2>1 DEF NothingResurrected, AttributeScoped, Config
    <2>3. Settled(k)
      BY <2>1, <2>2 DEF Settled
    <2>4. CASE bucket'[k] = bucket[k]
      BY <2>2, <2>3, <2>4 DEF Visible
    <2>5. ASSUME NEW l \in Keys, OtherClient(l) PROVE Visible(bucket, k)
      <3>1. bucket'[k] = bucket[k] \/ Writes(k) \/ Tags(k) \/ Purges(k)
        BY <2>5, OtherClientStep DEF SelectInv
      <3>2. ~Writes(k) /\ ~Purges(k)
        BY <2>2 DEF Writes, Purges, Settled
      <3>3. QED
        BY <2>1, <2>2, <2>4, <3>1, <3>2, TagsShowNothing
    <2>6. ASSUME NEW w \in work, Delete(w) PROVE Visible(bucket, k)
      BY <2>1, <2>2, <2>3, <2>6, DeleteUncoversNothing
    <2>7. ASSUME NEW x \in work,
                 \/ BuiltinStage(x) \/ UserDefinedStage(x)
                 \/ ApplyHeadObjectFilters(x) \/ ApplyTagFilters(x)
          PROVE  bucket' = bucket
      <3>1. Unmoved
        BY <2>7 DEF BuiltinStage, UserDefinedStage, ApplyHeadObjectFilters, ApplyTagFilters,
                    AttributeFilter
      <3>2. QED
        BY <3>1 DEF Unmoved
    <2>8. QED
      BY <2>3, <2>4, <2>5, <2>6, <2>7 DEF Next, ListKey
  <1>3. QED
    BY <1>1, <1>2, PTL DEF Spec

-----------------------------------------------------------------------------
(* Every entry is accounted for once. *)

(* What a step of the worker does to the accounts: it keeps the entry, or moves   *)
(* it from its way to one of the four ends.                                       *)
Ends(o) ==
    \/ skipped' = skipped (+) SetToBag({o}) /\ UNCHANGED <<completed, refused, failed>>
    \/ completed' = completed \cup {o} /\ UNCHANGED <<skipped, refused, failed>>
    \/ refused' = refused \cup {o} /\ UNCHANGED <<skipped, completed, failed>>
    \/ failed' = failed \cup {o} /\ UNCHANGED <<skipped, completed, refused>>
Settles(w) ==
    /\ UNCHANGED <<listed, entries>>
    /\ \/ work' = work \ {w} /\ Ends(w.object)
       \/ \E p : /\ work' = (work \ {w}) \cup {At(w.object, p)}
                 /\ UNCHANGED <<skipped, completed, refused, failed>>

LEMMA SkippedOnce ==
    ASSUME NEW o, o \notin DOMAIN skipped, skipped = [x \in DOMAIN skipped |-> 1],
           skipped' = skipped (+) SetToBag({o})
    PROVE  /\ DOMAIN skipped' = DOMAIN skipped \cup {o}
           /\ skipped' = [x \in DOMAIN skipped' |-> 1]
  <1> DEFINE b == SetToBag({o})
  <1>1. DOMAIN b = {o} /\ b[o] = 1
    BY DEF SetToBag
  <1> HIDE DEF b
  <1>2. skipped (+) b = [x \in (DOMAIN skipped) \cup {o} |->
             (IF x \in DOMAIN skipped THEN skipped[x] ELSE 0) + (IF x \in {o} THEN b[x] ELSE 0)]
    BY <1>1 DEF (+)
  <1>3. \A x \in DOMAIN skipped : skipped[x] = 1
    OBVIOUS
  <1>4. skipped (+) b = [x \in (DOMAIN skipped) \cup {o} |-> 1]
    BY <1>1, <1>2, <1>3
  <1>5. QED
    BY <1>4 DEF b

LEMMA SplitEnds ==
    ASSUME NEW all, NEW way, NEW skips, NEW done, NEW no, NEW bad,
           Split(all, way, skips, done, no, bad), NEW o \in way
    PROVE  /\ Split(all, way \ {o}, skips \cup {o}, done, no, bad)
           /\ Split(all, way \ {o}, skips, done \cup {o}, no, bad)
           /\ Split(all, way \ {o}, skips, done, no \cup {o}, bad)
           /\ Split(all, way \ {o}, skips, done, no, bad \cup {o})
           /\ o \notin skips
  BY DEF Split

LEMMA SettlesAccounts ==
    ASSUME Accounts, NEW w \in work, Settles(w)
    PROVE  Accounts'
  <1> DEFINE o == w.object
  <1>1. CASE work' = work \ {w} /\ Ends(o)
    <2>1. OnTheWay' = OnTheWay \ {o} /\ o \in OnTheWay
      BY <1>1 DEF OnTheWay, Accounts
    <2>2. /\ \A u, v \in work' : u.object = v.object => u = v
          /\ \A x \in entries' : x.key \in listed'
      BY <1>1 DEF Accounts, Settles
    <2>3. /\ Split(entries, OnTheWay, DOMAIN skipped, completed, refused, failed)
          /\ entries' = entries /\ skipped = [x \in DOMAIN skipped |-> 1]
      BY DEF Accounts, Settles
    <2>4. /\ o \notin DOMAIN skipped
          /\ Split(entries, OnTheWay \ {o}, DOMAIN skipped \cup {o}, completed, refused, failed)
          /\ Split(entries, OnTheWay \ {o}, DOMAIN skipped, completed \cup {o}, refused, failed)
          /\ Split(entries, OnTheWay \ {o}, DOMAIN skipped, completed, refused \cup {o}, failed)
          /\ Split(entries, OnTheWay \ {o}, DOMAIN skipped, completed, refused, failed \cup {o})
      BY <2>1, <2>3, SplitEnds
    <2>5. /\ Split(entries', OnTheWay', DOMAIN skipped', completed', refused', failed')
          /\ skipped' = [x \in DOMAIN skipped' |-> 1]
      <3>1. CASE skipped' = skipped (+) SetToBag({o}) /\ UNCHANGED <<completed, refused, failed>>
        <4>1. DOMAIN skipped' = DOMAIN skipped \cup {o} /\ skipped' = [x \in DOMAIN skipped' |-> 1]
          BY <2>3, <2>4, <3>1, SkippedOnce
        <4>2. QED
          BY <2>1, <2>3, <2>4, <3>1, <4>1
      <3>2. CASE completed' = completed \cup {o} /\ UNCHANGED <<skipped, refused, failed>>
        BY <2>1, <2>3, <2>4, <3>2
      <3>3. CASE refused' = refused \cup {o} /\ UNCHANGED <<skipped, completed, failed>>
        BY <2>1, <2>3, <2>4, <3>3
      <3>4. CASE failed' = failed \cup {o} /\ UNCHANGED <<skipped, completed, refused>>
        BY <2>1, <2>3, <2>4, <3>4
      <3>5. QED
        BY <1>1, <3>1, <3>2, <3>3, <3>4 DEF Ends
    <2>6. QED
      BY <2>2, <2>5 DEF Accounts
  <1>2. ASSUME NEW p, work' = (work \ {w}) \cup {At(o, p)},
               UNCHANGED <<skipped, completed, refused, failed>>
        PROVE  Accounts'
    <2>1. OnTheWay' = OnTheWay
      <3>1. \A v \in work' : \E u \in work : v.object = u.object
        BY <1>2 DEF At
      <3>2. At(o, p) \in work' /\ At(o, p).object = o
        BY <1>2 DEF At
      <3>3. \A u \in work : \E v \in work' : u.object = v.object
        BY <1>2, <3>2
      <3>4. QED
        BY <3>1, <3>3 DEF OnTheWay
    <2>2. \A u, v \in work' : u.object = v.object => u = v
      BY <1>2 DEF Accounts, At
    <2>3. QED
      BY <1>2, <2>1, <2>2 DEF Accounts, Settles
  <1>3. QED
    BY <1>1, <1>2 DEF Settles

LEMMA StepSettles ==
    ASSUME NEW w \in work,
           \/ BuiltinStage(w) \/ UserDefinedStage(w)
           \/ ApplyHeadObjectFilters(w) \/ ApplyTagFilters(w) \/ Delete(w)
    PROVE  Settles(w)
  <1>1. CASE BuiltinStage(w)
    BY <1>1 DEF BuiltinStage, Unmoved, Move, Skip, Leave, Settles, Ends
  <1>2. CASE UserDefinedStage(w)
    BY <1>2 DEF UserDefinedStage, Unmoved, Move, Skip, Leave, Settles, Ends
  <1>3. CASE ApplyHeadObjectFilters(w)
    BY <1>3 DEF ApplyHeadObjectFilters, AttributeFilter, Unmoved, Move, Skip, Leave, Settles, Ends
  <1>4. CASE ApplyTagFilters(w)
    BY <1>4 DEF ApplyTagFilters, AttributeFilter, Unmoved, Move, Skip, Leave, Settles, Ends
  <1>5. CASE Delete(w)
    BY <1>5 DEF Delete, Leave, Settles, Ends
  <1>6. QED
    BY <1>1, <1>2, <1>3, <1>4, <1>5

LEMMA ListAccounts ==
    ASSUME BucketOK, Accounts, NEW k \in Keys, ListKey(k)
    PROVE  Accounts'
  <1>1. /\ k \notin listed /\ listed' = listed \cup {k}
        /\ UNCHANGED <<skipped, completed, refused, failed>>
        /\ entries' = entries \cup OnTheWay'
    BY DEF ListKey, OnTheWay
  <1>2. PICK said \in BOOLEAN : work' = work \cup PageOf(k, said)
    BY DEF ListKey, PageOf
  <1>3. ASSUME NEW x \in PageOf(k, said)
        PROVE  x.object.key = k /\ x = At(x.object, AfterStage(1))
    <2>1. PICK s \in BOOLEAN : \E i \in DOMAIN bucket[k] : x = At(Reported(k, i, s), AfterStage(1))
      BY <1>3 DEF PageOf
    <2>2. PICK i \in DOMAIN bucket[k] : x = At(Reported(k, i, s), AfterStage(1))
      BY <2>1
    <2>3. x.object = Reported(k, i, s)
      BY <2>2 DEF At
    <2>4. Reported(k, i, s).key = k
      BY ReportedFields
    <2>5. QED
      BY <2>2, <2>3, <2>4
  <1>4. \A v \in work : v.object \in entries /\ v.object.key \in listed
    BY DEF Accounts, Split, OnTheWay
  <1>5. \A u, v \in work' : u.object = v.object => u = v
    <2> SUFFICES ASSUME NEW u \in work', NEW v \in work', u.object = v.object PROVE u = v
      OBVIOUS
    <2>1. CASE u \in work /\ v \in work
      BY <2>1 DEF Accounts
    <2>2. CASE u \in PageOf(k, said) /\ v \in PageOf(k, said)
      BY <1>3, <2>2
    <2>3. QED
      BY <1>1, <1>2, <1>3, <1>4, <2>1, <2>2
  <1> DEFINE new == {x.object : x \in PageOf(k, said)}
  <1>6. OnTheWay' = OnTheWay \cup new
    BY <1>2 DEF OnTheWay
  <1>7. \A o \in new : o.key = k
    BY <1>3
  <1>8. new \cap entries = {}
    BY <1>1, <1>7 DEF Accounts
  <1>9. \A o \in entries' : o.key \in listed'
    <2>1. entries' = entries \cup OnTheWay \cup new
      BY <1>1, <1>6
    <2>2. OnTheWay \subseteq entries
      BY DEF Accounts, Split
    <2> HIDE DEF new
    <2>3. QED
      BY <1>1, <1>7, <2>1, <2>2 DEF Accounts
  <1> HIDE DEF new
  <1>10. Split(entries', OnTheWay', DOMAIN skipped, completed, refused, failed)
    BY <1>1, <1>6, <1>8 DEF Accounts, Split
  <1>11. QED
    BY <1>1, <1>5, <1>9, <1>10 DEF Accounts

(* The five places an entry can be in are disjoint: one of them holds it. *)
LEMMA OneAccount ==
    ASSUME Accounts, NEW o \in entries
    PROVE  Account(o) = 1
  <1> DEFINE Names == {"deleted", "refused", "failed", "on its way"}
             In(s) == CASE s = "deleted" -> o \in completed
                        [] s = "refused" -> o \in refused
                        [] s = "failed" -> o \in failed
                        [] s = "on its way" -> \E w \in work : w.object = o
             S == {s \in Names : In(s)}
  <1>1. /\ In("deleted") <=> o \in completed
        /\ In("refused") <=> o \in refused
        /\ In("failed") <=> o \in failed
        /\ In("on its way") <=> o \in OnTheWay
    BY DEF OnTheWay
  <1>0. Account(o) = TimesSkipped(o) + Cardinality(S)
    BY DEF Account
  <1> HIDE DEF In
  <1>2. CASE o \in DOMAIN skipped
    <2>1. TimesSkipped(o) = 1
      BY <1>2 DEF TimesSkipped, Accounts
    <2>2. S = {}
      <3>1. o \notin completed /\ o \notin refused /\ o \notin failed /\ o \notin OnTheWay
        BY <1>2 DEF Accounts, Split
      <3>2. \A s \in Names : ~In(s)
        BY <1>1, <3>1
      <3>3. QED
        BY <3>2
    <2>3. Cardinality(S) = 0
      BY <2>2, FS_EmptySet
    <2> HIDE DEF S
    <2>4. QED
      BY <1>0, <2>1, <2>3
  <1>3. CASE o \notin DOMAIN skipped
    <2>1. TimesSkipped(o) = 0
      BY <1>3 DEF TimesSkipped
    <2>2. \E s \in Names : S = {s}
      <3>1. \/ o \in completed /\ o \notin refused \cup failed \cup OnTheWay
            \/ o \in refused /\ o \notin completed \cup failed \cup OnTheWay
            \/ o \in failed /\ o \notin completed \cup refused \cup OnTheWay
            \/ o \in OnTheWay /\ o \notin completed \cup refused \cup failed
        BY <1>3 DEF Accounts, Split
      <3>2. \/ S = {"deleted"} \/ S = {"refused"} \/ S = {"failed"} \/ S = {"on its way"}
        BY <1>1, <3>1
      <3>3. QED
        BY <3>2
    <2>3. Cardinality(S) = 1
      BY <2>2, FS_Singleton
    <2> HIDE DEF S
    <2>4. QED
      BY <1>0, <2>1, <2>3
  <1>4. QED
    BY <1>2, <1>3

LEMMA AccountsInit == Init => Accounts
  BY DEF Init, Accounts, Split, OnTheWay, EmptyBag, SetToBag

LEMMA AccountsNext == SelectInv /\ Accounts /\ [Next]_vars => Accounts'
  <1> SUFFICES ASSUME SelectInv, Accounts, [Next]_vars PROVE Accounts'
    OBVIOUS
  <1>1. CASE UNCHANGED vars
    BY <1>1 DEF vars, Accounts, OnTheWay
  <1>2. ASSUME NEW k \in Keys, OtherClient(k) PROVE Accounts'
    BY <1>2 DEF OtherClient, Accounts, OnTheWay
  <1>3. ASSUME NEW k \in Keys, ListKey(k) PROVE Accounts'
    BY <1>3, ListAccounts DEF SelectInv
  <1>4. QED
    BY <1>1, <1>2, <1>3, StepSettles, SettlesAccounts DEF Next

(* No entry is lost and none is counted twice between the listing, the stages and *)
(* the worker: at every moment it is on its way, was skipped with one DeleteSkip, *)
(* was reported as deleted, was refused by S3, or cancelled the run.              *)
THEOREM EntriesAccountedOnce == Spec => []AccountedOnce
  <1> DEFINE Inv == SelectInv /\ Accounts
  <1>1. Init => Inv
    BY SelectInit, AccountsInit
  <1>2. Inv /\ [Next]_vars => Inv'
    BY SelectNext, AccountsNext
  <1>3. Inv => AccountedOnce
    BY OneAccount DEF AccountedOnce
  <1>4. QED
    BY <1>1, <1>2, <1>3, PTL DEF Spec

(* What is listed is a well-formed entry, and other clients keep to their bound. *)
Histories ==
    /\ entries \subseteq S3Object
    /\ listed \subseteq Keys /\ disturbed \subseteq Keys \X {"write", "tags", "purge"}
    /\ writes \in 0 .. MaxWrites

LEMMA HistoriesNext == SelectInv /\ SelectInv' /\ Histories /\ [Next]_vars => Histories'
  <1> SUFFICES ASSUME SelectInv, SelectInv', Histories, [Next]_vars PROVE Histories'
    OBVIOUS
  <1>1. CASE UNCHANGED vars
    BY <1>1 DEF Histories
  <1>2. ASSUME NEW k \in Keys, OtherClient(k) PROVE Histories'
    <2>1. writes' \in 0 .. MaxWrites
      BY <1>2, SelectionAssumption DEF OtherClient, Histories
    <2>2. QED
      BY <1>2, <2>1 DEF OtherClient, Write, PutTagging, Purge, Histories
  <1>3. ASSUME NEW k \in Keys, ListKey(k) PROVE Histories'
    <2>1. \A w \in work' : w.object \in S3Object
      BY DEF SelectInv, WorkOK, EntryOK, ObjectOK
    <2>2. QED
      BY <1>3, <2>1 DEF ListKey, Histories
  <1>4. ASSUME NEW w \in work,
               \/ BuiltinStage(w) \/ UserDefinedStage(w)
               \/ ApplyHeadObjectFilters(w) \/ ApplyTagFilters(w) \/ Delete(w)
        PROVE  UNCHANGED <<entries, listed, disturbed, writes>>
    BY <1>4 DEF BuiltinStage, UserDefinedStage, ApplyHeadObjectFilters, ApplyTagFilters,
                AttributeFilter, Unmoved, Delete
  <1>5. QED
    BY <1>1, <1>2, <1>3, <1>4 DEF Next, Histories

(* Every variable keeps its type: a history is a sequence of entries, an entry on *)
(* its way is at a stage of the chain filter_objects built or with the worker.    *)
THEOREM TypeCorrect == Spec => []TypeOK
  <1> DEFINE Inv == SelectInv /\ Accounts /\ Histories
  <1>1. Init => Inv
    BY SelectInit, AccountsInit, SelectionAssumption DEF Init, Histories
  <1>2. Inv /\ [Next]_vars => Inv'
    BY SelectNext, AccountsNext, HistoriesNext
  <1>3. Inv => TypeOK
    <2> SUFFICES ASSUME SelectInv, Accounts, Histories PROVE TypeOK
      OBVIOUS
    <2>1. (\A k \in Keys : bucket[k] \in Seq(Entry)) /\ next_id \in Nat
      BY DEF SelectInv, BucketOK
    <2>2. ASSUME NEW w \in work
          PROVE  /\ w.object \in S3Object
                 /\ \/ w.place[1] = "stage" /\ w.place[2] \in DOMAIN Stages
                    \/ w.place \in {<<"head", 0>>, <<"tag", 0>>, <<"delete", 0>>}
      BY DEF SelectInv, WorkOK, EntryOK, ObjectOK, InPlace
    <2>3. completed \cup refused \cup failed \cup DOMAIN skipped \subseteq S3Object
      BY DEF Accounts, Split, Histories
    <2>4. IsABag(skipped)
      BY DEF Accounts, IsABag
    <2>5. QED
      BY <2>1, <2>2, <2>3, <2>4 DEF TypeOK, Histories
  <1>4. QED
    BY <1>1, <1>2, <1>3, PTL DEF Spec

=============================================================================
