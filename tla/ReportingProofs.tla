--------------------------- MODULE ReportingProofs ---------------------------
(* Proofs about what a registered callback is told and what the accounts of a run   *)
(* hold, for any number of workers, any sequence of outcomes of each and any set of *)
(* subscribed events.                                                               *)
EXTENDS Reporting, FiniteSetTheorems, WellFoundedInduction, TLAPS

-----------------------------------------------------------------------------
(* Operations. *)

Dos == {"fetch_add", "send", "update", "enter", "leave", "clone", "cancel", "record_error"}
Fields == {"deleted", "bytes", "failed", "skipped", "errors"}
Ops == [do : Dos, what : Events \cup Fields \cup {""}, n : Nat]

(* The operations of a run that come once, in the order in which they come.       *)
Rank(o) ==
    CASE o.do = "enter" /\ o.what \in {"PIPELINE_START", "PIPELINE_END"} -> 1
      [] o.do = "clone" -> 2
      [] o.do = "enter" /\ o.what = "STATS_REPORT" -> 3
      [] OTHER -> 0
HasRank(s, k) == \E i \in DOMAIN s : Rank(s[i]) = k
Unranked(s) == \A i \in DOMAIN s : Rank(s[i]) = 0
Ordered(s) ==
    \A i, j \in DOMAIN s :
        i < j /\ Rank(s[i]) > 0 /\ Rank(s[j]) > 0 => Rank(s[i]) < Rank(s[j])

(* A callback is entered right after its update, or its copy, and left right      *)
(* after it was entered; no update of a subscribed event goes without its call.   *)
Follows(o, before) ==
    /\ o.do = "enter" =>
          IF o.what = "STATS_REPORT" THEN before.do = "clone"
          ELSE before.do = "update" /\ before.what = o.what
    /\ o.do = "leave" => before.do = "enter"
Linked(s, subs) ==
    /\ \A i \in DOMAIN s : i - 1 \in DOMAIN s => Follows(s[i], s[i - 1])
    /\ \A i \in DOMAIN s : s[i].do = "enter" => s[i].what \in subs
    /\ \A i \in DOMAIN s :
          s[i].do = "update" /\ s[i].what \in subs =>
              i + 1 \in DOMAIN s /\ s[i + 1].do = "enter" /\ s[i + 1].what = s[i].what
    /\ \A i \in DOMAIN s : s[i].do \in {"fetch_add", "send"} => s[i].what \in Fields
Fresh(s) == s # << >> => s[1].do \notin {"enter", "leave"}

WellFormed(s, subs) == s \in Seq(Ops) /\ Ordered(s) /\ Linked(s, subs)
EntersOnly(s, E) == \A i \in DOMAIN s : s[i].do = "enter" => s[i].what \in E
Waits(s, e) == s # << >> /\ Head(s).do = "enter" /\ Head(s).what = e
NoCancel(s) == \A i \in DOMAIN s : s[i].do # "cancel"

Subs == {e \in Events : Subscribed(e)}

-----------------------------------------------------------------------------
(* Sequences of operations. *)

LEMMA Popped ==
    ASSUME NEW S, NEW s \in Seq(S), s # << >>
    PROVE  /\ Tail(s) \in Seq(S) /\ DOMAIN Tail(s) = 1 .. Len(s) - 1
           /\ Len(s) \in Nat /\ DOMAIN s = 1 .. Len(s) /\ Head(s) = s[1] /\ 1 \in DOMAIN s
           /\ \A i \in DOMAIN Tail(s) : Tail(s)[i] = s[i + 1] /\ i + 1 \in DOMAIN s
           /\ \A i \in DOMAIN s : i # 1 => i - 1 \in DOMAIN Tail(s)
  OBVIOUS

LEMMA Appended ==
    ASSUME NEW S, NEW s \in Seq(S), NEW x \in S
    PROVE  /\ Append(s, x) \in Seq(S) /\ Len(s) \in Nat /\ Len(Append(s, x)) = Len(s) + 1
           /\ DOMAIN s = 1 .. Len(s) /\ DOMAIN Append(s, x) = 1 .. Len(s) + 1
           /\ \A i \in 1 .. Len(s) : Append(s, x)[i] = s[i]
           /\ Append(s, x)[Len(s) + 1] = x
  OBVIOUS

LEMMA Ranks == \A o : Rank(o) \in 0 .. 3
  BY DEF Rank

LEMMA TailOrdered ==
    ASSUME NEW s \in Seq(Ops), s # << >>, Ordered(s)
    PROVE  Ordered(Tail(s))
  <1>1. SUFFICES ASSUME NEW i \in DOMAIN Tail(s), NEW j \in DOMAIN Tail(s), i < j,
                        Rank(Tail(s)[i]) > 0, Rank(Tail(s)[j]) > 0
                 PROVE  Rank(Tail(s)[i]) < Rank(Tail(s)[j])
    BY DEF Ordered
  <1>2. /\ Tail(s)[i] = s[i + 1] /\ Tail(s)[j] = s[j + 1]
        /\ i + 1 \in DOMAIN s /\ j + 1 \in DOMAIN s /\ i + 1 < j + 1
    BY <1>1, Popped
  <1>3. QED
    BY <1>1, <1>2 DEF Ordered

LEMMA TailLinked ==
    ASSUME NEW s \in Seq(Ops), s # << >>, NEW subs, Linked(s, subs)
    PROVE  Linked(Tail(s), subs)
  <1> DEFINE t == Tail(s)
  <1>1. /\ Len(s) \in Nat /\ DOMAIN t = 1 .. Len(s) - 1 /\ DOMAIN s = 1 .. Len(s)
        /\ \A i \in DOMAIN t : t[i] = s[i + 1] /\ i + 1 \in DOMAIN s
    BY Popped
  <1> HIDE DEF t
  <1>2. ASSUME NEW i \in DOMAIN t, i - 1 \in DOMAIN t PROVE Follows(t[i], t[i - 1])
    <2>1. t[i] = s[i + 1] /\ t[i - 1] = s[(i + 1) - 1] /\ i + 1 \in DOMAIN s /\ (i + 1) - 1 \in DOMAIN s
      <3>1. i \in Int /\ (i - 1) + 1 = i /\ (i + 1) - 1 = i /\ i \in DOMAIN s
        BY <1>1
      <3>2. t[i - 1] = s[(i - 1) + 1]
        BY <1>1, <1>2
      <3>3. QED
        BY <1>1, <3>1, <3>2
    <2>2. QED
      BY <2>1 DEF Linked
  <1>3. ASSUME NEW i \in DOMAIN t, t[i].do = "update", t[i].what \in subs
        PROVE  i + 1 \in DOMAIN t /\ t[i + 1].do = "enter" /\ t[i + 1].what = t[i].what
    <2>1. /\ (i + 1) + 1 \in DOMAIN s /\ s[(i + 1) + 1].do = "enter"
          /\ s[(i + 1) + 1].what = s[i + 1].what /\ t[i] = s[i + 1]
      BY <1>1, <1>3 DEF Linked
    <2>2. i + 1 \in DOMAIN t
      BY <1>1, <2>1
    <2>3. QED
      BY <1>1, <2>1, <2>2
  <1>4. ASSUME NEW i \in DOMAIN t
        PROVE  /\ t[i].do = "enter" => t[i].what \in subs
               /\ t[i].do \in {"fetch_add", "send"} => t[i].what \in Fields
    BY <1>1 DEF Linked
  <1>5. Linked(t, subs)
    BY <1>2, <1>3, <1>4 DEF Linked
  <1>6. QED
    BY <1>5 DEF t

(* What is left of a well-formed sequence is well-formed. *)
LEMMA TailFormed ==
    ASSUME NEW subs, NEW s, WellFormed(s, subs), s # << >>
    PROVE  /\ WellFormed(Tail(s), subs)
           /\ Unranked(s) => Unranked(Tail(s))
           /\ NoCancel(s) => NoCancel(Tail(s))
           /\ \A E : EntersOnly(s, E) => EntersOnly(Tail(s), E)
           /\ \A k : HasRank(Tail(s), k) => HasRank(s, k)
           /\ \A k : HasRank(s, k) => Rank(Head(s)) = k \/ HasRank(Tail(s), k)
           /\ \A k : HasRank(Tail(s), k) /\ k > 0 /\ Rank(Head(s)) > 0 => Rank(Head(s)) < k
  <1>1. s \in Seq(Ops)
    BY DEF WellFormed
  <1>2. WellFormed(Tail(s), subs)
    BY <1>1, TailOrdered, TailLinked, Popped DEF WellFormed
  <1>3. /\ Unranked(s) => Unranked(Tail(s))
        /\ NoCancel(s) => NoCancel(Tail(s))
        /\ \A E : EntersOnly(s, E) => EntersOnly(Tail(s), E)
        /\ \A k : HasRank(Tail(s), k) => HasRank(s, k)
    BY <1>1, Popped DEF Unranked, NoCancel, EntersOnly, HasRank
  <1>4. ASSUME NEW k, HasRank(s, k) PROVE Rank(Head(s)) = k \/ HasRank(Tail(s), k)
    <2>1. PICK i \in DOMAIN s : Rank(s[i]) = k
      BY <1>4 DEF HasRank
    <2>2. CASE i = 1
      BY <1>1, <2>1, <2>2, Popped
    <2>3. CASE i # 1
      <3>1. i - 1 \in DOMAIN Tail(s) /\ (i - 1) + 1 = i
        BY <1>1, <2>3, Popped
      <3>2. Tail(s)[i - 1] = s[i]
        BY <1>1, <3>1, Popped
      <3>3. QED
        BY <2>1, <3>1, <3>2 DEF HasRank
    <2>4. QED
      BY <2>2, <2>3
  <1>5. ASSUME NEW k, HasRank(Tail(s), k), k > 0, Rank(Head(s)) > 0 PROVE Rank(Head(s)) < k
    <2>1. PICK i \in DOMAIN Tail(s) : Rank(Tail(s)[i]) = k
      BY <1>5 DEF HasRank
    <2>2. i + 1 \in DOMAIN s /\ Rank(s[i + 1]) = k /\ 1 \in DOMAIN s /\ Head(s) = s[1] /\ 1 < i + 1
      BY <1>1, <2>1, Popped
    <2>3. QED
      BY <1>5, <2>2 DEF WellFormed, Ordered
  <1>6. QED
    BY <1>2, <1>3, <1>4, <1>5

(* Who is about to enter the callback has just counted the event. *)
LEMMA HeadAfter ==
    ASSUME NEW subs, NEW s, WellFormed(s, subs), s # << >>
    PROVE  /\ \A e : e # "STATS_REPORT" /\ Waits(Tail(s), e) =>
                 Head(s).do = "update" /\ Head(s).what = e
           /\ Head(s).do = "update" /\ Head(s).what \in subs => Waits(Tail(s), Head(s).what)
           /\ Tail(s) # << >> /\ Head(Tail(s)).do = "leave" => Head(s).do = "enter"
  <1>1. s \in Seq(Ops) /\ Tail(s) \in Seq(Ops)
    BY Popped DEF WellFormed
  <1>2. ASSUME Tail(s) # << >>
        PROVE  Head(Tail(s)) = s[2] /\ 2 \in DOMAIN s /\ 2 - 1 \in DOMAIN s /\ s[2 - 1] = Head(s)
    BY <1>1, <1>2, Popped
  <1>3. ASSUME Tail(s) # << >> PROVE Follows(Head(Tail(s)), Head(s))
    BY <1>2, <1>3 DEF WellFormed, Linked
  <1>4. ASSUME Head(s).do = "update", Head(s).what \in subs PROVE Waits(Tail(s), Head(s).what)
    <2>1. 1 \in DOMAIN s /\ s[1] = Head(s)
      BY <1>1, Popped
    <2>2. 1 + 1 \in DOMAIN s /\ s[1 + 1].do = "enter" /\ s[1 + 1].what = s[1].what
      BY <1>4, <2>1 DEF WellFormed, Linked
    <2>3. Tail(s) # << >>
      <3>1. 1 \in DOMAIN Tail(s)
        BY <1>1, <2>2, Popped
      <3>2. DOMAIN << >> = {}
        OBVIOUS
      <3>3. QED
        BY <3>1, <3>2
    <2>4. QED
      BY <1>2, <2>1, <2>2, <2>3 DEF Waits
  <1>5. QED
    BY <1>3, <1>4 DEF Follows, Waits

LEMMA Concatenation ==
    ASSUME NEW S, NEW s \in Seq(S), NEW t \in Seq(S)
    PROVE  /\ s \o t \in Seq(S) /\ Len(s) \in Nat /\ Len(t) \in Nat
           /\ DOMAIN s = 1 .. Len(s) /\ DOMAIN t = 1 .. Len(t)
           /\ DOMAIN (s \o t) = 1 .. Len(s) + Len(t)
           /\ \A i \in 1 .. Len(s) : (s \o t)[i] = s[i]
           /\ \A i \in Len(s) + 1 .. Len(s) + Len(t) : (s \o t)[i] = t[i - Len(s)]
  OBVIOUS

(* Where an element of a concatenation comes from. *)
LEMMA Origin ==
    ASSUME NEW S, NEW s \in Seq(S), NEW t \in Seq(S), NEW i \in DOMAIN (s \o t)
    PROVE  \/ i \in DOMAIN s /\ (s \o t)[i] = s[i]
           \/ /\ i \notin DOMAIN s /\ i - Len(s) \in DOMAIN t
              /\ (s \o t)[i] = t[i - Len(s)]
  <1>1. /\ Len(s) \in Nat /\ Len(t) \in Nat /\ i \in 1 .. Len(s) + Len(t)
        /\ DOMAIN s = 1 .. Len(s) /\ DOMAIN t = 1 .. Len(t)
    BY Concatenation
  <1>2. CASE i <= Len(s)
    BY <1>1, <1>2, Concatenation
  <1>3. CASE ~(i <= Len(s))
    <2>1. i \in Len(s) + 1 .. Len(s) + Len(t) /\ i - Len(s) \in 1 .. Len(t) /\ i \notin 1 .. Len(s)
      BY <1>1, <1>3
    <2>2. QED
      BY <1>1, <2>1, Concatenation
  <1>4. QED
    BY <1>2, <1>3

Below(s, t) ==
    \A i \in DOMAIN s : \A j \in DOMAIN t :
        Rank(s[i]) > 0 /\ Rank(t[j]) > 0 => Rank(s[i]) < Rank(t[j])

LEMMA JoinedOrdered ==
    ASSUME NEW s \in Seq(Ops), NEW t \in Seq(Ops), Ordered(s), Ordered(t), Below(s, t)
    PROVE  Ordered(s \o t)
  <1> DEFINE u == s \o t
  <1>0. /\ Len(s) \in Nat /\ DOMAIN s = 1 .. Len(s) /\ DOMAIN t \subseteq Int /\ DOMAIN u \subseteq Int
        /\ DOMAIN u = 1 .. Len(s) + Len(t) /\ Len(t) \in Nat
    BY Concatenation
  <1>1. SUFFICES ASSUME NEW i \in DOMAIN u, NEW j \in DOMAIN u, i < j,
                        Rank(u[i]) > 0, Rank(u[j]) > 0
                 PROVE  Rank(u[i]) < Rank(u[j])
    BY DEF Ordered
  <1>2. \/ i \in DOMAIN s /\ u[i] = s[i]
        \/ i \notin DOMAIN s /\ i - Len(s) \in DOMAIN t /\ u[i] = t[i - Len(s)]
    BY Origin
  <1>3. \/ j \in DOMAIN s /\ u[j] = s[j]
        \/ j \notin DOMAIN s /\ j - Len(s) \in DOMAIN t /\ u[j] = t[j - Len(s)]
    BY Origin
  <1> HIDE DEF u
  <1>4. CASE i \in DOMAIN s /\ j \in DOMAIN s
    BY <1>1, <1>2, <1>3, <1>4 DEF Ordered
  <1>5. CASE i \in DOMAIN s /\ j \notin DOMAIN s
    BY <1>1, <1>2, <1>3, <1>5 DEF Below
  <1>6. CASE i \notin DOMAIN s /\ j \notin DOMAIN s
    <2>1. i - Len(s) < j - Len(s)
      BY <1>0, <1>1
    <2>2. QED
      BY <1>1, <1>2, <1>3, <1>6, <2>1 DEF Ordered
  <1>7. CASE i \notin DOMAIN s /\ j \in DOMAIN s
    BY <1>0, <1>1, <1>7
  <1>8. QED
    BY <1>4, <1>5, <1>6, <1>7

LEMMA JoinedLinked ==
    ASSUME NEW subs, NEW s \in Seq(Ops), NEW t \in Seq(Ops), Linked(s, subs), Linked(t, subs), Fresh(t)
    PROVE  Linked(s \o t, subs)
  <1> DEFINE u == s \o t
             n == Len(s)
  <1>0. /\ n \in Nat /\ Len(t) \in Nat /\ DOMAIN s = 1 .. n /\ DOMAIN t = 1 .. Len(t)
        /\ DOMAIN u = 1 .. n + Len(t)
        /\ \A i \in 1 .. n : u[i] = s[i]
        /\ \A i \in n + 1 .. n + Len(t) : u[i] = t[i - n]
    BY Concatenation
  <1>1. \A i \in DOMAIN u : \/ i \in DOMAIN s /\ u[i] = s[i]
                            \/ i \notin DOMAIN s /\ i - n \in DOMAIN t /\ u[i] = t[i - n]
    BY Origin
  <1> HIDE DEF u, n
  <1>2. ASSUME NEW i \in DOMAIN u, i - 1 \in DOMAIN u PROVE Follows(u[i], u[i - 1])
    <2>1. CASE i \in DOMAIN s
      <3>1. i - 1 \in DOMAIN s
        BY <1>0, <1>2, <2>1
      <3>2. QED
        BY <1>1, <1>2, <2>1, <3>1 DEF Linked
    <2>2. CASE i = n + 1
      <3>1. 1 \in DOMAIN t /\ u[i] = t[1] /\ t # << >>
        <4>1. i \in n + 1 .. n + Len(t) /\ i - n = 1 /\ 1 \in 1 .. Len(t)
          BY <1>0, <1>2, <2>2
        <4>2. QED
          BY <1>0, <4>1
      <3>2. QED
        BY <3>1 DEF Fresh, Follows
    <2>3. CASE i \notin DOMAIN s /\ i # n + 1
      <3>1. i \in n + 2 .. n + Len(t)
        <4>1. i \in 1 .. n + Len(t) /\ i \notin 1 .. n
          BY <1>0, <2>3
        <4>2. QED
          BY <1>0, <2>3, <4>1
      <3>2. /\ i - n \in DOMAIN t /\ (i - n) - 1 \in DOMAIN t /\ (i - 1) - n = (i - n) - 1
            /\ i \in n + 1 .. n + Len(t) /\ i - 1 \in n + 1 .. n + Len(t)
        BY <1>0, <3>1
      <3>3. u[i] = t[i - n] /\ u[i - 1] = t[(i - n) - 1]
        BY <1>0, <3>2
      <3>4. QED
        BY <3>2, <3>3 DEF Linked
    <2>4. QED
      BY <2>1, <2>2, <2>3
  <1>3. ASSUME NEW i \in DOMAIN u, u[i].do = "update", u[i].what \in subs
        PROVE  i + 1 \in DOMAIN u /\ u[i + 1].do = "enter" /\ u[i + 1].what = u[i].what
    <2>1. CASE i \in DOMAIN s
      <3>1. /\ u[i] = s[i] /\ i + 1 \in DOMAIN s /\ s[i + 1].do = "enter" /\ s[i + 1].what = s[i].what
        BY <1>1, <1>3, <2>1 DEF Linked
      <3>2. i + 1 \in DOMAIN u /\ u[i + 1] = s[i + 1]
        BY <1>0, <3>1
      <3>3. QED
        BY <3>1, <3>2
    <2>2. CASE i \notin DOMAIN s
      <3>1. /\ u[i] = t[i - n] /\ (i - n) + 1 \in DOMAIN t /\ t[(i - n) + 1].do = "enter"
            /\ t[(i - n) + 1].what = t[i - n].what /\ i - n \in DOMAIN t
        BY <1>1, <1>3, <2>2 DEF Linked
      <3>2. i + 1 \in n + 1 .. n + Len(t) /\ (i + 1) - n = (i - n) + 1 /\ i + 1 \in DOMAIN u
        BY <1>0, <1>3, <3>1
      <3>3. u[i + 1] = t[(i - n) + 1]
        BY <1>0, <3>2
      <3>4. QED
        BY <3>1, <3>2, <3>3
    <2>3. QED
      BY <2>1, <2>2
  <1>4. ASSUME NEW i \in DOMAIN u
        PROVE  /\ u[i].do = "enter" => u[i].what \in subs
               /\ u[i].do \in {"fetch_add", "send"} => u[i].what \in Fields
    BY <1>1 DEF Linked
  <1>5. Linked(u, subs)
    BY <1>2, <1>3, <1>4 DEF Linked
  <1>6. QED
    BY <1>5 DEF u

(* A sequence an actor can begin with. *)
Startable(s, subs) == WellFormed(s, subs) /\ Fresh(s)

LEMMA Joined ==
    ASSUME NEW subs, NEW s, NEW t, Startable(s, subs), Startable(t, subs), Below(s, t)
    PROVE  /\ Startable(s \o t, subs)
           /\ Unranked(s) /\ Unranked(t) => Unranked(s \o t)
           /\ NoCancel(s) /\ NoCancel(t) => NoCancel(s \o t)
           /\ \A E : EntersOnly(s, E) /\ EntersOnly(t, E) => EntersOnly(s \o t, E)
           /\ \A k : HasRank(s \o t, k) <=> HasRank(s, k) \/ HasRank(t, k)
  <1>1. s \in Seq(Ops) /\ t \in Seq(Ops)
    BY DEF Startable, WellFormed
  <1>2. WellFormed(s \o t, subs)
    BY <1>1, JoinedOrdered, JoinedLinked, Concatenation DEF Startable, WellFormed
  <1>3. /\ Unranked(s) /\ Unranked(t) => Unranked(s \o t)
        /\ NoCancel(s) /\ NoCancel(t) => NoCancel(s \o t)
        /\ \A E : EntersOnly(s, E) /\ EntersOnly(t, E) => EntersOnly(s \o t, E)
    BY <1>1, Origin DEF Unranked, NoCancel, EntersOnly
  <1>4. Fresh(s \o t)
    <2>1. CASE s = << >>
      BY <1>1, <2>1 DEF Startable
    <2>2. CASE s # << >>
      <3>1. (s \o t)[1] = s[1]
        BY <1>1, <2>2
      <3>2. QED
        BY <2>2, <3>1 DEF Startable, Fresh
    <2>3. QED
      BY <2>1, <2>2
  <1>5. ASSUME NEW k PROVE HasRank(s \o t, k) <=> HasRank(s, k) \/ HasRank(t, k)
    <2>1. ASSUME HasRank(s \o t, k) PROVE HasRank(s, k) \/ HasRank(t, k)
      BY <1>1, <2>1, Origin DEF HasRank
    <2>2. ASSUME HasRank(s, k) PROVE HasRank(s \o t, k)
      <3>1. PICK i \in DOMAIN s : Rank(s[i]) = k
        BY <2>2 DEF HasRank
      <3>2. i \in DOMAIN (s \o t) /\ (s \o t)[i] = s[i]
        BY <1>1, Concatenation
      <3>3. QED
        BY <3>1, <3>2 DEF HasRank
    <2>3. ASSUME HasRank(t, k) PROVE HasRank(s \o t, k)
      <3>1. PICK i \in DOMAIN t : Rank(t[i]) = k
        BY <2>3 DEF HasRank
      <3>2. i + Len(s) \in Len(s) + 1 .. Len(s) + Len(t) /\ (i + Len(s)) - Len(s) = i
            /\ i + Len(s) \in DOMAIN (s \o t)
        BY <1>1, Concatenation
      <3>3. (s \o t)[i + Len(s)] = t[i]
        BY <1>1, <3>2, Concatenation
      <3>4. QED
        BY <3>1, <3>2, <3>3 DEF HasRank
    <2>4. QED
      BY <2>1, <2>2, <2>3
  <1>6. QED
    BY <1>2, <1>3, <1>4, <1>5 DEF Startable

-----------------------------------------------------------------------------
(* The reports. *)

OpNames == Events \cup Fields \cup {""}

LEMMA OneOp ==
    ASSUME NEW subs, NEW d \in Dos, NEW w \in OpNames, NEW n \in Nat,
           d \notin {"enter", "leave"}, d = "update" => w \notin subs,
           d \in {"fetch_add", "send"} => w \in Fields
    PROVE  /\ Startable(<<Op(d, w, n)>>, subs) /\ EntersOnly(<<Op(d, w, n)>>, {})
           /\ d # "clone" => Unranked(<<Op(d, w, n)>>)
           /\ d # "cancel" => NoCancel(<<Op(d, w, n)>>)
           /\ d = "clone" => HasRank(<<Op(d, w, n)>>, 2)
           /\ \A k : HasRank(<<Op(d, w, n)>>, k) => k \in {0, 2}
  <1> DEFINE o == Op(d, w, n)
             s == <<o>>
  <1>1. o \in Ops /\ o.do = d /\ o.what = w
    BY DEF Op, Ops, OpNames
  <1> HIDE DEF o
  <1>2. s \in Seq(Ops) /\ DOMAIN s = {1} /\ s[1] = o
    BY <1>1
  <1> HIDE DEF s
  <1>3. Ordered(s)
    BY <1>2 DEF Ordered
  <1>4. Linked(s, subs)
    <2>1. \A i \in DOMAIN s : i - 1 \notin DOMAIN s
      BY <1>2
    <2>2. QED
      BY <1>1, <1>2, <2>1 DEF Linked
  <1>5. Fresh(s)
    BY <1>1, <1>2 DEF Fresh
  <1>6. EntersOnly(s, {}) /\ (d # "cancel" => NoCancel(s))
    BY <1>1, <1>2 DEF EntersOnly, NoCancel
  <1>7. Rank(o) = IF d = "clone" THEN 2 ELSE 0
    BY <1>1 DEF Rank
  <1>8. QED
    BY <1>2, <1>3, <1>4, <1>5, <1>6, <1>7 DEF Startable, WellFormed, Unranked, HasRank, s, o

(* An update or a copy with the call that follows it. *)
LEMMA Call ==
    ASSUME NEW subs, NEW d \in {"update", "clone"}, NEW w \in Events, NEW e \in subs, NEW n \in Nat,
           e \in Events, IF e = "STATS_REPORT" THEN d = "clone" ELSE d = "update" /\ w = e
    PROVE  LET s == <<Op(d, w, n)>> \o <<Op("enter", e, 0), Op("leave", e, 0)>>
           IN  /\ Startable(s, subs) /\ EntersOnly(s, {e}) /\ NoCancel(s)
               /\ e \notin {"PIPELINE_START", "PIPELINE_END", "STATS_REPORT"} => Unranked(s)
               /\ e = "STATS_REPORT" => HasRank(s, 2)
               /\ \A k : HasRank(s, k) =>
                     k \in {0} \cup IF e = "STATS_REPORT" THEN {2, 3} ELSE {1}
  <1> DEFINE x == Op(d, w, n)
             y == Op("enter", e, 0)
             z == Op("leave", e, 0)
             s == <<x>> \o <<y, z>>
  <1>1. /\ x \in Ops /\ y \in Ops /\ z \in Ops
        /\ x.do = d /\ x.what = w /\ y.do = "enter" /\ y.what = e /\ z.do = "leave" /\ z.what = e
    BY DEF Op, Ops, Dos
  <1> HIDE DEF x, y, z
  <1>2. s \in Seq(Ops) /\ DOMAIN s = 1 .. 3 /\ s[1] = x /\ s[2] = y /\ s[3] = z
    BY <1>1
  <1> HIDE DEF s
  <1>3. /\ Rank(x) = IF d = "clone" THEN 2 ELSE 0
        /\ Rank(y) = IF e = "STATS_REPORT" THEN 3
                     ELSE IF e \in {"PIPELINE_START", "PIPELINE_END"} THEN 1 ELSE 0
        /\ Rank(z) = 0
    BY <1>1 DEF Rank
  <1>4. \A i \in DOMAIN s : i = 1 \/ i = 2 \/ i = 3
    BY <1>2
  <1>5. Ordered(s)
    BY <1>2, <1>3, <1>4 DEF Ordered
  <1>6. Linked(s, subs)
    <2>1. ASSUME NEW i \in DOMAIN s, i - 1 \in DOMAIN s PROVE Follows(s[i], s[i - 1])
      <3>1. i = 2 \/ i = 3
        BY <1>2, <1>4, <2>1
      <3>2. CASE i = 2
        BY <1>1, <1>2, <3>2 DEF Follows
      <3>3. CASE i = 3
        BY <1>1, <1>2, <3>3 DEF Follows
      <3>4. QED
        BY <3>1, <3>2, <3>3
    <2>2. \A i \in DOMAIN s : s[i].do = "enter" => s[i].what \in subs
      BY <1>1, <1>2, <1>4
    <2>3. \A i \in DOMAIN s : s[i].do \notin {"fetch_add", "send"}
      BY <1>1, <1>2, <1>4
    <2>4. ASSUME NEW i \in DOMAIN s, s[i].do = "update"
          PROVE  i + 1 \in DOMAIN s /\ s[i + 1].do = "enter" /\ s[i + 1].what = s[i].what
      <3>1. i = 1 /\ d = "update"
        BY <1>1, <1>2, <1>4, <2>4
      <3>2. QED
        BY <1>1, <1>2, <3>1
    <2>5. QED
      BY <2>1, <2>2, <2>3, <2>4 DEF Linked
  <1>7. Fresh(s) /\ EntersOnly(s, {e}) /\ NoCancel(s)
    BY <1>1, <1>2, <1>4 DEF Fresh, EntersOnly, NoCancel
  <1>8. /\ e \notin {"PIPELINE_START", "PIPELINE_END", "STATS_REPORT"} => Unranked(s)
        /\ e = "STATS_REPORT" => HasRank(s, 2)
        /\ \A k : HasRank(s, k) => k \in {0} \cup IF e = "STATS_REPORT" THEN {2, 3} ELSE {1}
    BY <1>2, <1>3, <1>4 DEF Unranked, HasRank
  <1>9. QED
    BY <1>2, <1>5, <1>6, <1>7, <1>8 DEF Startable, WellFormed, s, x, y, z

LEMMA NoOps ==
    ASSUME NEW subs
    PROVE  /\ Startable(<< >>, subs) /\ Unranked(<< >>) /\ NoCancel(<< >>)
           /\ \A E : EntersOnly(<< >>, E)
           /\ \A k : ~HasRank(<< >>, k)
  <1>1. << >> \in Seq(Ops) /\ DOMAIN << >> = {}
    OBVIOUS
  <1>2. QED
    BY <1>1 DEF Startable, WellFormed, Fresh, Ordered, Linked, Unranked, NoCancel, EntersOnly, HasRank

LEMMA EntersMore ==
    ASSUME NEW s, NEW E, NEW F, EntersOnly(s, E), E \subseteq F
    PROVE  EntersOnly(s, F)
  BY DEF EntersOnly

LEMMA Announced ==
    ASSUME NEW e \in Events \ {"STATS_REPORT"}, NEW n \in Nat
    PROVE  LET s == <<Op("update", e, n)>> \o Dispatch(e)
           IN  /\ Startable(s, Subs) /\ EntersOnly(s, {e}) /\ NoCancel(s)
               /\ e \notin {"PIPELINE_START", "PIPELINE_END"} => Unranked(s)
               /\ \A k : HasRank(s, k) => k \in {0, 1}
  <1> DEFINE x == <<Op("update", e, n)>>
  <1>1. CASE Subscribed(e)
    <2>1. Dispatch(e) = <<Op("enter", e, 0), Op("leave", e, 0)>> /\ e \in Subs
      BY <1>1 DEF Dispatch, Subs
    <2>2. QED
      BY <2>1, Call
  <1>2. CASE ~Subscribed(e)
    <2>1. Dispatch(e) = << >> /\ e \notin Subs
      BY <1>2 DEF Dispatch, Subs
    <2>2. Startable(x, Subs) /\ EntersOnly(x, {}) /\ Unranked(x) /\ NoCancel(x)
      BY <2>1, OneOp DEF Dos, OpNames
    <2>3. x \o Dispatch(e) = x
      <3>1. x \in Seq(Ops)
        BY <2>2 DEF Startable, WellFormed
      <3> HIDE DEF x
      <3>2. QED
        BY <2>1, <3>1
    <2>4. EntersOnly(x, {e}) /\ \A k : HasRank(x, k) => k = 0
      BY <2>2, EntersMore DEF Unranked, HasRank
    <2>5. QED
      BY <2>2, <2>3, <2>4
  <1>3. QED
    BY <1>1, <1>2

LEMMA BelowUnranked ==
    ASSUME NEW s, NEW t, Unranked(s) \/ Unranked(t)
    PROVE  Below(s, t)
  BY DEF Below, Unranked

(* What trigger_event does. *)
LEMMA Triggered ==
    ASSUME NEW e \in Events \ {"STATS_REPORT"}, NEW n \in Nat
    PROVE  /\ Startable(TriggerEvent(e, n), Subs) /\ NoCancel(TriggerEvent(e, n))
           /\ e \notin {"PIPELINE_START", "PIPELINE_END"} => Unranked(TriggerEvent(e, n))
           /\ e # "PIPELINE_END" => EntersOnly(TriggerEvent(e, n), {e}) /\ ~HasRank(TriggerEvent(e, n), 2)
           /\ e = "PIPELINE_END" =>
                 /\ EntersOnly(TriggerEvent(e, n), {"PIPELINE_END", "STATS_REPORT"})
                 /\ Subscribed("STATS_REPORT") => HasRank(TriggerEvent(e, n), 2)
  <1> DEFINE s == <<Op("update", e, n)>> \o Dispatch(e)
             t == <<Op("clone", e, 0)>> \o Dispatch("STATS_REPORT")
  <1>1. /\ Startable(s, Subs) /\ EntersOnly(s, {e}) /\ NoCancel(s)
        /\ e \notin {"PIPELINE_START", "PIPELINE_END"} => Unranked(s)
        /\ \A k : HasRank(s, k) => k \in {0, 1}
    BY Announced
  <1>2. CASE e = "PIPELINE_END" /\ Subscribed("STATS_REPORT")
    <2>1. TriggerEvent(e, n) = s \o t
      BY <1>2 DEF TriggerEvent
    <2>2. /\ Startable(t, Subs) /\ EntersOnly(t, {"STATS_REPORT"}) /\ NoCancel(t) /\ HasRank(t, 2)
          /\ \A k : HasRank(t, k) => k \in {0, 2, 3}
      <3>1. /\ Dispatch("STATS_REPORT") = <<Op("enter", "STATS_REPORT", 0), Op("leave", "STATS_REPORT", 0)>>
            /\ "STATS_REPORT" \in Subs /\ "STATS_REPORT" \in Events
        BY <1>2 DEF Dispatch, Subs, Events
      <3>2. QED
        BY <3>1, Call, SMTT(30)
    <2> HIDE DEF s, t
    <2>3. Below(s, t)
      <3>1. ASSUME NEW i \in DOMAIN s, NEW j \in DOMAIN t, Rank(s[i]) > 0, Rank(t[j]) > 0
            PROVE  Rank(s[i]) < Rank(t[j])
        <4>1. Rank(s[i]) \in {0, 1} /\ Rank(t[j]) \in {0, 2, 3}
          BY <1>1, <2>2 DEF HasRank
        <4>2. QED
          BY <3>1, <4>1
      <3>2. QED
        BY <3>1 DEF Below
    <2>4. EntersOnly(s, {"PIPELINE_END", "STATS_REPORT"}) /\ EntersOnly(t, {"PIPELINE_END", "STATS_REPORT"})
      BY <1>1, <1>2, <2>2 DEF EntersOnly
    <2>5. /\ Startable(s \o t, Subs) /\ NoCancel(s \o t) /\ HasRank(s \o t, 2)
          /\ EntersOnly(s \o t, {"PIPELINE_END", "STATS_REPORT"})
      BY <1>1, <2>2, <2>3, <2>4, Joined
    <2>6. QED
      BY <1>2, <2>1, <2>5
  <1>3. CASE ~(e = "PIPELINE_END" /\ Subscribed("STATS_REPORT"))
    <2>1. TriggerEvent(e, n) = s \o << >>
      BY <1>3 DEF TriggerEvent
    <2> HIDE DEF s
    <2>2. TriggerEvent(e, n) = s
      BY <1>1, <2>1 DEF Startable, WellFormed
    <2>3. ~HasRank(s, 2) /\ EntersOnly(s, {e, "STATS_REPORT"})
      BY <1>1, EntersMore
    <2>4. QED
      BY <1>1, <1>3, <2>2, <2>3
  <1>4. QED
    BY <1>2, <1>3

(* A report of an outcome. *)
Plain(s, subs) == Startable(s, subs) /\ Unranked(s)
LEMMA JoinedPlain ==
    ASSUME NEW subs, NEW s, NEW t, Plain(s, subs), Plain(t, subs)
    PROVE  Plain(s \o t, subs)
  BY Joined, BelowUnranked DEF Plain

LEMMA PlainOp ==
    ASSUME NEW subs, NEW d \in {"fetch_add", "send", "cancel", "record_error"}, NEW w \in OpNames,
           NEW n \in Nat, d \in {"fetch_add", "send"} => w \in Fields
    PROVE  Plain(<<Op(d, w, n)>>, subs)
  BY OneOp DEF Plain, Dos

LEMMA PlainEvent ==
    ASSUME NEW e \in Events \ {"STATS_REPORT", "PIPELINE_START", "PIPELINE_END"}, NEW n \in Nat
    PROVE  Plain(TriggerEvent(e, n), Subs) /\ Plain(IfRegistered(TriggerEvent(e, n)), Subs)
  <1>1. Plain(TriggerEvent(e, n), Subs)
    BY Triggered DEF Plain
  <1>2. Plain(<< >>, Subs)
    BY NoOps DEF Plain
  <1>3. QED
    BY <1>1, <1>2 DEF IfRegistered

LEMMA TwoOps ==
    ASSUME NEW subs, NEW x, NEW y, Plain(<<x>>, subs), Plain(<<y>>, subs)
    PROVE  Plain(<<x, y>>, subs)
  <1>1. <<x, y>> = <<x>> \o <<y>>
    <2>1. <<x>> \in Seq(Ops) /\ <<y>> \in Seq(Ops)
      BY DEF Plain, Startable, WellFormed
    <2>2. x \in Ops /\ y \in Ops
      BY <2>1
    <2> DEFINE u == <<x>> \o <<y>>
               v == <<x, y>>
    <2>3. u \in Seq(Ops) /\ Len(u) = 2 /\ u[1] = x /\ u[2] = y
      BY <2>2
    <2>4. v \in Seq(Ops) /\ Len(v) = 2 /\ v[1] = x /\ v[2] = y
      BY <2>2
    <2> HIDE DEF u, v
    <2>5. \A i \in 1 .. 2 : u[i] = v[i]
      BY <2>3, <2>4
    <2>6. u = v
      BY <2>3, <2>4, <2>5
    <2>7. QED
      BY <2>6 DEF u, v
  <1>2. QED
    BY <1>1, JoinedPlain

LEMMA Reports ==
    ASSUME NEW o \in Outcome
    PROVE  Plain(ReportOf(o), Subs)
  <1>0. o.size \in Nat /\ o.kind \in {"deleted", "failed", "skipped", "missing", "error"}
    BY DEF Outcome
  <1>1. CASE o.kind = "deleted"
    <2>1. Plain(IncrementDeleted(o.size), Subs)
      <3>1. Plain(<<Op("fetch_add", "deleted", 1)>>, Subs) /\ Plain(<<Op("fetch_add", "bytes", o.size)>>, Subs)
        BY <1>0, PlainOp DEF OpNames, Fields
      <3>2. QED
        BY <3>1, TwoOps DEF IncrementDeleted
    <2>2. Plain(<<Op("send", "deleted", 1), Op("send", "bytes", o.size)>>, Subs)
      <3>1. Plain(<<Op("send", "deleted", 1)>>, Subs) /\ Plain(<<Op("send", "bytes", o.size)>>, Subs)
        BY <1>0, PlainOp DEF OpNames, Fields
      <3>2. QED
        BY <3>1, TwoOps
    <2>3. Plain(TriggerEvent("DELETE_COMPLETE", o.size), Subs)
      BY <1>0, PlainEvent DEF Events
    <2>4. QED
      BY <1>1, <2>1, <2>2, <2>3, JoinedPlain DEF ReportOf, ReportDeleted
  <1>2. CASE o.kind = "failed"
    <2>1. Plain(<<Op("send", "failed", 1), Op("fetch_add", "failed", 1)>>, Subs)
      <3>1. Plain(<<Op("send", "failed", 1)>>, Subs) /\ Plain(<<Op("fetch_add", "failed", 1)>>, Subs)
        BY PlainOp DEF OpNames, Fields
      <3>2. QED
        BY <3>1, TwoOps
    <2>2. Plain(TriggerEvent("DELETE_FAILED", 0), Subs)
      BY PlainEvent DEF Events
    <2>3. QED
      BY <1>2, <2>1, <2>2, JoinedPlain DEF ReportOf, ReportFailed
  <1>3. CASE o.kind = "skipped"
    <2>1. Plain(<<Op("send", "skipped", 1)>>, Subs)
      BY PlainOp DEF OpNames, Fields
    <2>2. Plain(IfRegistered(TriggerEvent("DELETE_FILTERED", 0)), Subs)
      BY PlainEvent DEF Events
    <2>3. QED
      BY <1>3, <2>1, <2>2, JoinedPlain DEF ReportOf, ReportSkipped
  <1>4. CASE o.kind = "missing"
    <2>1. Plain(<<Op("send", "skipped", 1)>>, Subs)
      BY PlainOp DEF OpNames, Fields
    <2>2. QED
      BY <1>4, <2>1 DEF ReportOf, ReportMissing
  <1>5. CASE o.kind = "error"
    <2>1. Plain(<<Op("cancel", "", 0), Op("record_error", "", 0)>>, Subs)
      <3>1. Plain(<<Op("cancel", "", 0)>>, Subs) /\ Plain(<<Op("record_error", "", 0)>>, Subs)
        BY PlainOp DEF OpNames
      <3>2. QED
        BY <3>1, TwoOps
    <2>2. Plain(IfRegistered(TriggerEvent("PIPELINE_ERROR", 0)), Subs)
      BY PlainEvent DEF Events
    <2>3. QED
      BY <1>5, <2>1, <2>2, JoinedPlain DEF ReportOf, ReportFilterError
  <1>6. QED
    BY <1>0, <1>1, <1>2, <1>3, <1>4, <1>5

-----------------------------------------------------------------------------
(* Invariants. *)

Types ==
    /\ case \in Cases
    /\ todo \in [Actors -> Seq(Ops)]
    /\ left \in [Reporters -> Seq(Outcome)]
    /\ pipeline_stats \in Counters /\ cloned \in Counters
    /\ delivered \in Seq([event : Events, stats : Counters])
    /\ cancelled \in BOOLEAN /\ has_error \in BOOLEAN
    /\ pc \in {"start", "prerequisites", "wait", "shutdown", "error", "cancel", "end", "returning",
               "returned"}

(* Where run() is says what its sequence can hold. *)
RunHas(s, where) ==
    CASE where = "prerequisites" -> EntersOnly(s, {"PIPELINE_START"}) /\ ~HasRank(s, 2)
      [] where \in {"cancel", "end"} -> Unranked(s)
      [] where = "returning" -> EntersOnly(s, {"PIPELINE_END", "STATS_REPORT"})
      [] OTHER -> s = << >>

(* What the actors have begun. *)
Begun ==
    /\ \A a \in Actors : WellFormed(todo[a], Subs)
    /\ \A r \in Reporters : Unranked(todo[r])
    /\ NoCancel(todo[Run])
    /\ RunHas(todo[Run], pc)

(* Outside the part of run() that waits, reporters are busy only if cancelled. *)
Quiet ==
    /\ pc # "wait" /\ ~cancelled => \A r \in Reporters : Idle(r)
    /\ pc \in {"start", "prerequisites"} => ~cancelled

Was(e, i) == i \in DOMAIN delivered /\ delivered[i].event = e
Finals == {"PIPELINE_END", "STATS_REPORT"}
InOrder ==
    /\ pc = "start" => delivered = << >>
    /\ pc = "prerequisites" /\ HasRank(todo[Run], 1) => delivered = << >>
    /\ \A i : Was("PIPELINE_START", i) => i = 1
    /\ \A i : \A e \in Finals : Was(e, i) => pc \in {"returning", "returned"}
    /\ HasRank(todo[Run], 1) => \A i : \A e \in Finals : ~Was(e, i)
    /\ HasRank(todo[Run], 3) => \A i : ~Was("STATS_REPORT", i)
    /\ \A i, j : \A e \in Finals : Was(e, i) /\ Was(e, j) => i = j
    /\ \A i, j : Was("PIPELINE_END", i) /\ Was("STATS_REPORT", j) => i < j
    /\ ~cancelled => \A i : \A e \in Finals : Was(e, i) => \A j \in DOMAIN delivered :
          j > i => delivered[j].event = "STATS_REPORT"

(* The statistics an event counts for. *)
Counted == {"DELETE_COMPLETE", "DELETE_FAILED", "DELETE_FILTERED", "PIPELINE_ERROR"}
FieldOf(e) ==
    CASE e = "DELETE_COMPLETE" -> "deleted" [] e = "DELETE_FAILED" -> "failed"
      [] e = "DELETE_FILTERED" -> "skipped" [] e = "PIPELINE_ERROR" -> "errors"
Gained(stats, e) == stats[FieldOf(e)] - case.carried[FieldOf(e)]

Waiting(e) == {a \in Actors : Waits(todo[a], e)}
CountIn(s, n, e) == Cardinality({i \in 1 .. n : s[i].event = e})
Heard(e) == CountIn(delivered, Len(delivered), e)

(* An event is counted before its callback is called. *)
Told ==
    \A e \in Counted :
        /\ Heard(e) + Cardinality(Waiting(e)) <= Gained(pipeline_stats, e)
        /\ Subscribed(e) => Heard(e) + Cardinality(Waiting(e)) = Gained(pipeline_stats, e)

(* After the copy was taken, it covers what was told before PIPELINE_END, and in  *)
(* a run nobody cancelled all that is told.                                       *)
Taken ==
    /\ pc \in {"returning", "returned"} /\ Subscribed("STATS_REPORT")
    /\ ~HasRank(todo[Run], 2)
Copied ==
    /\ Taken =>
          /\ ~HasRank(todo[Run], 1)
          /\ \A k : Was("PIPELINE_END", k) =>
                \A e \in Counted : CountIn(delivered, k, e) <= Gained(cloned, e)
          /\ ~cancelled /\ Subscribed("DELETE_COMPLETE")
                => Gained(cloned, "DELETE_COMPLETE") = Heard("DELETE_COMPLETE")
    /\ \A i : Was("STATS_REPORT", i) => Taken /\ delivered[i].stats = cloned

-----------------------------------------------------------------------------
(* Steps. *)

LEMMA CaseFacts ==
    ASSUME case \in Cases
    PROVE  /\ case.outcomes \in [Reporters -> Seq(Outcome)] /\ case.carried \in Counters
           /\ case.registered \in BOOLEAN /\ case.prerequisites \in BOOLEAN
           /\ case.closed_early \in BOOLEAN
  BY ReportingAssumption

LEMMA Sets ==
    /\ Run \in Actors /\ Run \notin Reporters /\ Actors = Reporters \cup {Run}
    /\ IsFiniteSet(Actors) /\ Nobody \notin Actors
  BY ReportingAssumption, FS_AddElement DEF Actors, Reporters

(* Every operation of an actor takes itself off its sequence. *)
LEMMA Pops ==
    ASSUME NEW a \in Actors, Perform(a)
    PROVE  todo[a] # << >> /\ todo' = [todo EXCEPT ![a] = Tail(@)] /\ UNCHANGED <<case, left, pc>>
  BY DEF Perform, FetchAdd, SendStats, Update, EnterCallback, LeaveCallback, CloneStats, CancelToken,
         RecordError, Doing, Done

LEMMA PlusFields ==
    ASSUME NEW c \in Counters, NEW f \in Fields, NEW n \in Nat
    PROVE  /\ Plus(c, f, n) \in Counters
           /\ \A g \in Fields : c[g] \in Nat /\ Plus(c, f, n)[g] = IF g = f THEN c[g] + n ELSE c[g]
  BY DEF Counters, Fields, Plus

LEMMA Updates ==
    ASSUME NEW s \in Counters, NEW e, NEW n \in Nat
    PROVE  /\ UpdatePipelineStats(s, e, n) \in Counters
           /\ \A c \in Counted :
                 /\ s[FieldOf(c)] \in Nat
                 /\ UpdatePipelineStats(s, e, n)[FieldOf(c)] = s[FieldOf(c)] + IF e = c THEN 1 ELSE 0
  <1> DEFINE u == UpdatePipelineStats(s, e, n)
  <1>1. /\ FieldOf("DELETE_COMPLETE") = "deleted" /\ FieldOf("DELETE_FAILED") = "failed"
        /\ FieldOf("DELETE_FILTERED") = "skipped" /\ FieldOf("PIPELINE_ERROR") = "errors"
    BY DEF FieldOf
  <1>2. {"deleted", "bytes", "failed", "skipped", "errors"} \subseteq Fields
    BY DEF Fields
  <1>3. CASE e = "DELETE_COMPLETE"
    <2> DEFINE d == Plus(s, "deleted", 1)
    <2>1. d \in Counters /\ \A g \in Fields : s[g] \in Nat /\ d[g] = IF g = "deleted" THEN s[g] + 1 ELSE s[g]
      BY <1>2, PlusFields
    <2> HIDE DEF d
    <2>2. /\ Plus(d, "bytes", n) \in Counters
          /\ \A g \in Fields : Plus(d, "bytes", n)[g] = IF g = "bytes" THEN d[g] + n ELSE d[g]
      BY <1>2, <2>1, PlusFields
    <2>3. u = Plus(d, "bytes", n)
      BY <1>3 DEF UpdatePipelineStats, d
    <2>4. QED
      BY <1>1, <1>2, <1>3, <2>1, <2>2, <2>3 DEF Counted
  <1>4. CASE e = "DELETE_FAILED"
    <2>1. u = Plus(s, "failed", 1)
      BY <1>4 DEF UpdatePipelineStats
    <2>2. u \in Counters /\ \A g \in Fields : s[g] \in Nat /\ u[g] = IF g = "failed" THEN s[g] + 1 ELSE s[g]
      BY <1>2, <2>1, PlusFields
    <2> HIDE DEF u
    <2>3. /\ s["deleted"] \in Nat /\ s["failed"] \in Nat /\ s["skipped"] \in Nat /\ s["errors"] \in Nat
          /\ u["deleted"] = s["deleted"] + 0
          /\ u["failed"] = s["failed"] + 1
          /\ u["skipped"] = s["skipped"] + 0
          /\ u["errors"] = s["errors"] + 0
      BY <1>2, <2>2
    <2>4. QED
      BY <1>1, <1>4, <2>2, <2>3 DEF Counted, u
  <1>5. CASE e = "DELETE_FILTERED"
    <2>1. u = Plus(s, "skipped", 1)
      BY <1>5 DEF UpdatePipelineStats
    <2>2. u \in Counters /\ \A g \in Fields : s[g] \in Nat /\ u[g] = IF g = "skipped" THEN s[g] + 1 ELSE s[g]
      BY <1>2, <2>1, PlusFields
    <2> HIDE DEF u
    <2>3. /\ s["deleted"] \in Nat /\ s["failed"] \in Nat /\ s["skipped"] \in Nat /\ s["errors"] \in Nat
          /\ u["deleted"] = s["deleted"] + 0
          /\ u["failed"] = s["failed"] + 0
          /\ u["skipped"] = s["skipped"] + 1
          /\ u["errors"] = s["errors"] + 0
      BY <1>2, <2>2
    <2>4. QED
      BY <1>1, <1>5, <2>2, <2>3 DEF Counted, u
  <1>6. CASE e = "PIPELINE_ERROR"
    <2>1. u = Plus(s, "errors", 1)
      BY <1>6 DEF UpdatePipelineStats
    <2>2. u \in Counters /\ \A g \in Fields : s[g] \in Nat /\ u[g] = IF g = "errors" THEN s[g] + 1 ELSE s[g]
      BY <1>2, <2>1, PlusFields
    <2> HIDE DEF u
    <2>3. /\ s["deleted"] \in Nat /\ s["failed"] \in Nat /\ s["skipped"] \in Nat /\ s["errors"] \in Nat
          /\ u["deleted"] = s["deleted"] + 0
          /\ u["failed"] = s["failed"] + 0
          /\ u["skipped"] = s["skipped"] + 0
          /\ u["errors"] = s["errors"] + 1
      BY <1>2, <2>2
    <2>4. QED
      BY <1>1, <1>6, <2>2, <2>3 DEF Counted, u
  <1>7. CASE e \notin Counted
    <2>1. u = s
      BY <1>7 DEF UpdatePipelineStats, Counted
    <2>2. \A g \in Fields : s[g] \in Nat
      BY <1>2, PlusFields
    <2>3. QED
      BY <1>1, <1>2, <1>7, <2>1, <2>2 DEF Counted
  <1>8. QED
    BY <1>3, <1>4, <1>5, <1>6, <1>7 DEF Counted

LEMMA HeadIsOp ==
    ASSUME Types, NEW a \in Actors, todo[a] # << >>
    PROVE  /\ Head(todo[a]) \in Ops /\ Head(todo[a]).n \in Nat
           /\ todo[a] \in Seq(Ops) /\ Tail(todo[a]) \in Seq(Ops)
  <1>1. todo[a] \in Seq(Ops)
    BY DEF Types
  <1>2. Head(todo[a]) \in Ops /\ Tail(todo[a]) \in Seq(Ops)
    BY <1>1
  <1>3. QED
    BY <1>1, <1>2 DEF Ops

(* A run step begins a sequence, or none. *)
LEMMA RunBegins ==
    ASSUME RunStep
    PROVE  /\ todo[Run] = << >> /\ RunUnchanged
           /\ \/ todo' = todo
              \/ \E e \in {"PIPELINE_START", "PIPELINE_ERROR", "DELETE_CANCEL", "PIPELINE_END"} :
                    todo' = [todo EXCEPT ![Run] = TriggerEvent(e, 0)]
              \/ todo' = [todo EXCEPT ![Run] = << >>]
  BY DEF RunStep, Start, Prerequisites, Executed, CloseStats, FireError, FireCancel, FireEnd, Return,
         RunAt, Reporting

LEMMA EnteredEvent ==
    ASSUME Types, Begun, NEW a \in Actors, EnterCallback(a)
    PROVE  Head(todo[a]).what \in Subs /\ Head(todo[a]).what \in Events
  <1>1. todo[a] \in Seq(Ops) /\ todo[a] # << >> /\ Head(todo[a]).do = "enter"
    BY DEF Types, EnterCallback, Doing
  <1>2. Linked(todo[a], Subs)
    BY DEF Begun, WellFormed
  <1>3. 1 \in DOMAIN todo[a] /\ Head(todo[a]) = todo[a][1]
    BY <1>1
  <1>4. Head(todo[a]).what \in Subs
    BY <1>1, <1>2, <1>3 DEF Linked
  <1>5. QED
    BY <1>4 DEF Subs

(* What entering the callback adds to what it was told. *)
Message(a) ==
    [ event |-> Head(todo[a]).what,
      stats |-> IF Head(todo[a]).what = "STATS_REPORT" THEN cloned ELSE Zero ]
LEMMA Entered ==
    ASSUME Types, Begun, NEW a \in Actors, EnterCallback(a)
    PROVE  /\ delivered' = Append(delivered, Message(a))
           /\ Message(a) \in [event : Events, stats : Counters]
           /\ delivered \in Seq([event : Events, stats : Counters])
           /\ delivered' \in Seq([event : Events, stats : Counters])
  <1> DEFINE S == [event : Events, stats : Counters]
  <1>1. delivered' = Append(delivered, Message(a))
    BY DEF EnterCallback, Message
  <1>2. Zero \in Counters
    BY DEF Zero, Counters
  <1>3. Message(a) \in S /\ delivered \in Seq(S)
    BY <1>1, <1>2, EnteredEvent DEF Message, Types
  <1> HIDE DEF S
  <1>4. Append(delivered, Message(a)) \in Seq(S)
    BY <1>3, Appended
  <1>5. QED
    BY <1>1, <1>3, <1>4 DEF S

LEMMA TypesNext == Types /\ Begun /\ [Next]_vars => Types'
  <1> SUFFICES ASSUME Types, Begun, [Next]_vars PROVE Types'
    OBVIOUS
  <1>1. CASE UNCHANGED vars
    BY <1>1 DEF Types, vars
  <1>2. ASSUME NEW a \in Actors, Perform(a) PROVE Types'
    <2>1. todo[a] # << >> /\ todo' = [todo EXCEPT ![a] = Tail(@)] /\ UNCHANGED <<case, left, pc>>
      BY <1>2, Pops
    <2>2. todo' \in [Actors -> Seq(Ops)]
      BY <2>1, HeadIsOp DEF Types
    <2>3. CASE Update(a)
      <3>1. pipeline_stats' \in Counters
        BY <2>1, <2>3, HeadIsOp, Updates DEF Update, Types
      <3>2. QED
        BY <2>1, <2>2, <2>3, <3>1 DEF Update, Types
    <2>4. CASE EnterCallback(a)
      <3>1. delivered' \in Seq([event : Events, stats : Counters])
        BY <2>4, Entered
      <3>2. QED
        BY <2>1, <2>2, <2>4, <3>1 DEF EnterCallback, Types
    <2>5. QED
      BY <1>2, <2>1, <2>2, <2>3, <2>4
      DEF Perform, FetchAdd, SendStats, LeaveCallback, CloneStats, CancelToken, RecordError, Types
  <1>3. ASSUME NEW r \in Reporters, NextOutcome(r) PROVE Types'
    <2>1. left[r] \in Seq(Outcome) /\ left[r] # << >> /\ r \in Actors
      BY <1>3, Sets DEF Types, NextOutcome
    <2>2. Head(left[r]) \in Outcome /\ Tail(left[r]) \in Seq(Outcome) /\ << >> \in Seq(Outcome)
      BY <2>1
    <2>3. ReportOf(Head(left[r])) \in Seq(Ops)
      BY <2>2, Reports DEF Plain, Startable, WellFormed
    <2>4. todo' \in [Actors -> Seq(Ops)] /\ left' \in [Reporters -> Seq(Outcome)]
      BY <1>3, <2>1, <2>2, <2>3 DEF NextOutcome, Types
    <2>5. QED
      BY <1>3, <2>4 DEF NextOutcome, Types
  <1>4. CASE Cancel
    BY <1>4 DEF Cancel, Types
  <1>5. CASE RunStep
    <2>1. todo' \in [Actors -> Seq(Ops)]
      <3>1. \A e \in {"PIPELINE_START", "PIPELINE_ERROR", "DELETE_CANCEL", "PIPELINE_END"} :
               TriggerEvent(e, 0) \in Seq(Ops)
        BY Triggered DEF Startable, WellFormed, Events
      <3>2. << >> \in Seq(Ops)
        OBVIOUS
      <3>3. QED
        BY <1>5, <3>1, <3>2, RunBegins, Sets DEF Types
    <2>2. /\ UNCHANGED <<case, pipeline_stats, cloned, delivered, cancelled>>
      BY <1>5, RunBegins DEF RunUnchanged
    <2>3. /\ pc' \in {"start", "prerequisites", "wait", "shutdown", "error", "cancel", "end",
                      "returning", "returned"}
          /\ left' = left \/ left' = case.outcomes
          /\ has_error' \in BOOLEAN
      BY <1>5 DEF RunStep, Start, Prerequisites, Executed, CloseStats, FireError, FireCancel, FireEnd,
                  Return, Types
    <2>4. QED
      BY <2>1, <2>2, <2>3, CaseFacts DEF Types
  <1>6. CASE TryRecv \/ Drained \/ Refresh \/ IsClosed \/ Sleep
    BY <1>6 DEF TryRecv, Drained, Refresh, IsClosed, Sleep, IndicatorUnchanged, Types
  <1>7. QED
    BY <1>1, <1>2, <1>3, <1>4, <1>5, <1>6 DEF Next

LEMMA SameSubs == case' = case => Subs' = Subs
  BY DEF Subs, Subscribed

LEMMA RunHasTail ==
    ASSUME NEW subs, NEW s, NEW where, WellFormed(s, subs), s # << >>, RunHas(s, where)
    PROVE  RunHas(Tail(s), where)
  BY TailFormed DEF RunHas

LEMMA BegunPop ==
    ASSUME Types, Begun, NEW a \in Actors, Perform(a)
    PROVE  Begun'
  <1>1. /\ todo[a] # << >> /\ todo' = [todo EXCEPT ![a] = Tail(@)] /\ UNCHANGED <<case, left, pc>>
        /\ todo \in [Actors -> Seq(Ops)]
    BY Pops DEF Types
  <1>2. Subs' = Subs
    BY <1>1, SameSubs
  <1>3. WellFormed(todo[a], Subs)
    BY DEF Begun
  <1>4. ASSUME NEW b \in Actors PROVE WellFormed(todo'[b], Subs)
    <2>1. CASE b = a
      BY <1>1, <1>3, <2>1, TailFormed
    <2>2. CASE b # a
      BY <1>1, <2>2 DEF Begun
    <2>3. QED
      BY <2>1, <2>2
  <1>5. ASSUME NEW r \in Reporters PROVE Unranked(todo'[r])
    <2>1. r \in Actors /\ Unranked(todo[r])
      BY Sets DEF Begun
    <2>2. CASE r = a
      BY <1>1, <1>3, <2>1, <2>2, TailFormed
    <2>3. CASE r # a
      BY <1>1, <2>1, <2>3
    <2>4. QED
      BY <2>2, <2>3
  <1>6. NoCancel(todo'[Run]) /\ RunHas(todo'[Run], pc')
    <2>1. NoCancel(todo[Run]) /\ RunHas(todo[Run], pc) /\ Run \in Actors
      BY Sets DEF Begun
    <2>2. CASE Run = a
      BY <1>1, <1>3, <2>1, <2>2, TailFormed, RunHasTail
    <2>3. CASE Run # a
      BY <1>1, <2>1, <2>3
    <2>4. QED
      BY <2>2, <2>3
  <1>7. QED
    BY <1>2, <1>4, <1>5, <1>6 DEF Begun

LEMMA BegunOutcome ==
    ASSUME Types, Begun, NEW r \in Reporters, NextOutcome(r)
    PROVE  Begun'
  <1>1. CASE todo' = todo
    BY <1>1, SameSubs DEF Begun, NextOutcome
  <1>2. CASE todo' = [todo EXCEPT ![r] = ReportOf(Head(left[r]))]
    <2>1. left[r] \in Seq(Outcome) /\ left[r] # << >> /\ todo \in [Actors -> Seq(Ops)]
      BY DEF Types, NextOutcome
    <2>2. Head(left[r]) \in Outcome
      BY <2>1
    <2>3. WellFormed(ReportOf(Head(left[r])), Subs) /\ Unranked(ReportOf(Head(left[r])))
      BY <2>2, Reports DEF Plain, Startable
    <2>4. /\ todo'[r] = ReportOf(Head(left[r]))
          /\ \A b \in Actors \ {r} : todo'[b] = todo[b]
          /\ r \in Actors /\ Run \in Actors \ {r}
      BY <1>2, <2>1, Sets
    <2>5. UNCHANGED <<case, pc>>
      BY DEF NextOutcome
    <2>6. \A b \in Actors : WellFormed(todo'[b], Subs)
      BY <2>3, <2>4 DEF Begun
    <2>7. \A b \in Reporters : Unranked(todo'[b])
      BY <2>3, <2>4, Sets DEF Begun
    <2>8. QED
      BY <2>4, <2>5, <2>6, <2>7, SameSubs DEF Begun
  <1>3. QED
    BY <1>1, <1>2 DEF NextOutcome

(* What run() begins at each of its steps. *)
LEMMA RunBeginsWith ==
    ASSUME Types, RunStep
    PROVE  \E s : /\ todo' = [todo EXCEPT ![Run] = s]
                  /\ Startable(s, Subs) /\ NoCancel(s) /\ RunHas(s, pc')
  <1>0. todo \in [Actors -> Seq(Ops)] /\ Run \in Actors /\ todo[Run] = << >>
    BY Sets, RunBegins DEF Types
  <1>1. Startable(<< >>, Subs) /\ NoCancel(<< >>) /\ \A w : RunHas(<< >>, w)
    BY NoOps DEF RunHas
  <1>2. CASE todo' = todo
    <2>1. todo' = [todo EXCEPT ![Run] = << >>]
      BY <1>0, <1>2
    <2>2. QED
      BY <1>1, <2>1
  <1>3. CASE todo' = [todo EXCEPT ![Run] = << >>]
    BY <1>1, <1>3
  <1>4. CASE Start
    <2> DEFINE s == TriggerEvent("PIPELINE_START", 0)
    <2>1. Startable(s, Subs) /\ NoCancel(s) /\ EntersOnly(s, {"PIPELINE_START"}) /\ ~HasRank(s, 2)
      BY Triggered DEF Events
    <2>2. pc' = "prerequisites" /\ todo' = [todo EXCEPT ![Run] = s]
      BY <1>4 DEF Start, Reporting
    <2> HIDE DEF s
    <2>3. RunHas(s, pc')
      BY <2>1, <2>2 DEF RunHas
    <2>4. QED
      BY <2>1, <2>2, <2>3
  <1>5. ASSUME NEW e \in {"PIPELINE_ERROR", "DELETE_CANCEL"}, pc' \in {"cancel", "end"},
               todo' = [todo EXCEPT ![Run] = TriggerEvent(e, 0)]
        PROVE  \E s : /\ todo' = [todo EXCEPT ![Run] = s]
                      /\ Startable(s, Subs) /\ NoCancel(s) /\ RunHas(s, pc')
    <2> DEFINE s == TriggerEvent(e, 0)
    <2>1. Startable(s, Subs) /\ NoCancel(s) /\ Unranked(s)
      BY Triggered DEF Events
    <2> HIDE DEF s
    <2>2. RunHas(s, pc')
      BY <1>5, <2>1 DEF RunHas
    <2>3. QED
      BY <1>5, <2>1, <2>2 DEF s
  <1>6. CASE FireEnd
    <2> DEFINE s == TriggerEvent("PIPELINE_END", 0)
    <2>1. Startable(s, Subs) /\ NoCancel(s) /\ EntersOnly(s, {"PIPELINE_END", "STATS_REPORT"})
      BY Triggered DEF Events
    <2>2. pc' = "returning" /\ todo' = [todo EXCEPT ![Run] = s]
      BY <1>6 DEF FireEnd, Reporting
    <2> HIDE DEF s
    <2>3. RunHas(s, pc')
      BY <2>1, <2>2 DEF RunHas
    <2>4. QED
      BY <2>1, <2>2, <2>3
  <1>7. CASE FireError
    <2>1. pc' = "cancel"
      BY <1>7 DEF FireError
    <2>2. CASE has_error
      BY <1>5, <1>7, <2>1, <2>2 DEF FireError, Reporting
    <2>3. CASE ~has_error
      BY <1>3, <1>7, <2>3 DEF FireError, Reporting
    <2>4. QED
      BY <2>2, <2>3
  <1>8. CASE FireCancel
    <2>1. pc' = "end"
      BY <1>8 DEF FireCancel
    <2>2. CASE cancelled
      BY <1>5, <1>8, <2>1, <2>2 DEF FireCancel, Reporting
    <2>3. CASE ~cancelled
      BY <1>3, <1>8, <2>3 DEF FireCancel, Reporting
    <2>4. QED
      BY <2>2, <2>3
  <1>9. QED
    BY <1>2, <1>4, <1>6, <1>7, <1>8 DEF RunStep, Prerequisites, Executed, CloseStats, Return

LEMMA BegunNext == Types /\ Begun /\ [Next]_vars => Begun'
  <1> SUFFICES ASSUME Types, Begun, [Next]_vars PROVE Begun'
    OBVIOUS
  <1>1. CASE UNCHANGED <<case, todo, pc>>
    BY <1>1, SameSubs DEF Begun
  <1>2. ASSUME NEW a \in Actors, Perform(a) PROVE Begun'
    BY <1>2, BegunPop
  <1>3. ASSUME NEW r \in Reporters, NextOutcome(r) PROVE Begun'
    BY <1>3, BegunOutcome
  <1>4. ASSUME Cancel PROVE Begun'
    <2>1. UNCHANGED <<case, todo, pc>>
      BY <1>4 DEF Cancel
    <2>2. QED
      BY <1>1, <2>1
  <1>5. CASE RunStep
    <2>1. PICK s : /\ todo' = [todo EXCEPT ![Run] = s]
                   /\ Startable(s, Subs) /\ NoCancel(s) /\ RunHas(s, pc')
      BY <1>5, RunBeginsWith
    <2>2. /\ todo'[Run] = s /\ \A b \in Actors \ {Run} : todo'[b] = todo[b]
          /\ Reporters \subseteq Actors \ {Run} /\ Run \in Actors
      BY <2>1, Sets DEF Types
    <2>3. case' = case
      BY <1>5, RunBegins DEF RunUnchanged
    <2>4. \A b \in Actors : WellFormed(todo'[b], Subs)
      BY <2>1, <2>2 DEF Begun, Startable
    <2>5. \A b \in Reporters : Unranked(todo'[b])
      BY <2>2 DEF Begun
    <2>6. QED
      BY <2>1, <2>2, <2>3, <2>4, <2>5, SameSubs DEF Begun
  <1>6. ASSUME TryRecv \/ Drained \/ Refresh \/ IsClosed \/ Sleep PROVE Begun'
    <2>1. UNCHANGED <<case, todo, pc>>
      BY <1>6 DEF TryRecv, Drained, Refresh, IsClosed, Sleep, IndicatorUnchanged
    <2>2. QED
      BY <1>1, <2>1
  <1>7. QED
    BY <1>1, <1>2, <1>3, <1>4, <1>5, <1>6 DEF Next, vars

(* Only a reporter cancels, and nothing takes it back. *)
LEMMA Cancels ==
    ASSUME Types, Begun, [Next]_vars
    PROVE  /\ cancelled => cancelled'
           /\ cancelled' # cancelled => pc = "wait" \/ \E r \in Reporters : todo[r] # << >>
  <1>1. ASSUME NEW a \in Actors, CancelToken(a) PROVE a \in Reporters /\ todo[a] # << >>
    <2>1. todo[a] # << >> /\ Head(todo[a]).do = "cancel" /\ todo[a] \in Seq(Ops)
      BY <1>1 DEF CancelToken, Doing, Types
    <2>2. 1 \in DOMAIN todo[a] /\ todo[a][1].do = "cancel"
      BY <2>1
    <2>3. a # Run
      BY <2>2 DEF Begun, NoCancel
    <2>4. QED
      BY <2>1, <2>3, Sets
  <1>2. ASSUME NEW a \in Actors, Perform(a) PROVE cancelled' = cancelled \/ (CancelToken(a) /\ cancelled')
    BY <1>2 DEF Perform, FetchAdd, SendStats, Update, EnterCallback, LeaveCallback, CloneStats, CancelToken,
                RecordError
  <1>3. CASE Cancel
    BY <1>3 DEF Cancel
  <1>4. CASE RunStep
    BY <1>4, RunBegins DEF RunUnchanged
  <1>5. QED
    BY <1>1, <1>2, <1>3, <1>4
    DEF Next, NextOutcome, TryRecv, Drained, Refresh, IsClosed, Sleep, IndicatorUnchanged, vars

LEMMA QuietNext == Types /\ Begun /\ Quiet /\ [Next]_vars => Quiet'
  <1> SUFFICES ASSUME Types, Begun, Quiet, [Next]_vars PROVE Quiet'
    OBVIOUS
  <1>0. /\ cancelled => cancelled'
        /\ cancelled' # cancelled => pc = "wait" \/ \E r \in Reporters : todo[r] # << >>
        /\ cancelled \in BOOLEAN /\ cancelled' \in BOOLEAN
        /\ pc \in {"start", "prerequisites"} => \A r \in Reporters : Idle(r)
    BY Cancels, TypesNext DEF Types, Quiet
  <1>1. CASE UNCHANGED <<todo, left, pc>>
    BY <1>0, <1>1 DEF Quiet, Idle
  <1>2. ASSUME NEW a \in Actors, Perform(a) PROVE Quiet'
    <2>1. todo[a] # << >> /\ todo' = [todo EXCEPT ![a] = Tail(@)] /\ UNCHANGED <<case, left, pc>>
      BY <1>2, Pops
    <2>2. CASE \A r \in Reporters : Idle(r)
      <3>1. a \notin Reporters
        BY <2>1, <2>2 DEF Idle
      <3>2. \A r \in Reporters : todo'[r] = todo[r]
        BY <2>1, <3>1, Sets DEF Types
      <3>3. cancelled' = cancelled \/ pc = "wait"
        BY <1>0, <2>2 DEF Idle
      <3>4. QED
        BY <1>0, <2>1, <2>2, <3>2, <3>3 DEF Quiet, Idle
    <2>3. CASE ~(\A r \in Reporters : Idle(r))
      BY <1>0, <2>1, <2>3 DEF Quiet
    <2>4. QED
      BY <2>2, <2>3
  <1>3. ASSUME NEW r \in Reporters, NextOutcome(r) PROVE Quiet'
    <2>1. ~Idle(r) /\ UNCHANGED <<pc, cancelled>>
      BY <1>3 DEF NextOutcome, Idle
    <2>2. QED
      BY <1>0, <2>1 DEF Quiet
  <1>4. ASSUME Cancel PROVE Quiet'
    BY <1>4 DEF Cancel, Quiet
  <1>5. CASE RunStep
    <2>1. \A r \in Reporters : todo'[r] = todo[r]
      BY <1>5, RunBeginsWith, Sets DEF Types
    <2>2. cancelled' = cancelled
      BY <1>5, RunBegins DEF RunUnchanged
    <2>3. CASE Start \/ Prerequisites
      BY <1>0, <2>1, <2>2, <2>3 DEF Start, Prerequisites, RunAt, Quiet, Idle
    <2>4. CASE Executed
      <3>1. ~cancelled => \A r \in Reporters : Idle(r)
        BY <2>4 DEF Executed, Reporters
      <3>2. pc' = "shutdown" /\ left' = left
        BY <2>4 DEF Executed
      <3>3. QED
        BY <2>1, <2>2, <3>1, <3>2 DEF Quiet, Idle
    <2>5. CASE CloseStats \/ FireError \/ FireCancel \/ FireEnd \/ Return
      <3>1. /\ pc \notin {"wait", "start", "prerequisites"} /\ left' = left
            /\ pc' \notin {"start", "prerequisites"}
        BY <2>5 DEF CloseStats, FireError, FireCancel, FireEnd, Return, RunAt
      <3>2. QED
        BY <2>1, <2>2, <3>1 DEF Quiet, Idle
    <2>6. QED
      BY <1>5, <2>3, <2>4, <2>5 DEF RunStep
  <1>6. ASSUME TryRecv \/ Drained \/ Refresh \/ IsClosed \/ Sleep PROVE Quiet'
    <2>1. UNCHANGED <<todo, left, pc>>
      BY <1>6 DEF TryRecv, Drained, Refresh, IsClosed, Sleep, IndicatorUnchanged
    <2>2. QED
      BY <1>1, <2>1
  <1>7. QED
    BY <1>1, <1>2, <1>3, <1>4, <1>5, <1>6 DEF Next, vars

-----------------------------------------------------------------------------
(* The order of what is told. *)

(* Only entering the callback tells it anything. *)
LEMMA Tells ==
    ASSUME [Next]_vars
    PROVE  delivered' = delivered \/ \E a \in Actors : EnterCallback(a)
  <1>1. ASSUME NEW a \in Actors, Perform(a) PROVE delivered' = delivered \/ EnterCallback(a)
    BY <1>1 DEF Perform, FetchAdd, SendStats, Update, LeaveCallback, CloneStats, CancelToken, RecordError
  <1>2. CASE RunStep
    BY <1>2, RunBegins DEF RunUnchanged
  <1>3. QED
    BY <1>1, <1>2 DEF Next, NextOutcome, Cancel, TryRecv, Drained, Refresh, IsClosed, Sleep,
                      IndicatorUnchanged, vars

(* Where an event can be told. *)
LEMMA EnterFacts ==
    ASSUME Types, Begun, Quiet, NEW a \in Actors, EnterCallback(a)
    PROVE  LET e == Message(a).event
           IN  /\ e = Head(todo[a]).what /\ pc' = pc /\ case' = case /\ cancelled' = cancelled
               /\ todo[a] # << >> /\ todo' = [todo EXCEPT ![a] = Tail(@)]
               /\ e \in {"PIPELINE_START", "PIPELINE_END"} =>
                     a = Run /\ HasRank(todo[Run], 1) /\ ~HasRank(todo'[Run], 1)
               /\ e = "PIPELINE_START" => pc = "prerequisites"
               /\ e = "PIPELINE_END" => pc = "returning"
               /\ e = "STATS_REPORT" =>
                     /\ a = Run /\ pc = "returning" /\ HasRank(todo[Run], 3)
                     /\ \A k \in 1 .. 3 : ~HasRank(todo'[Run], k)
               /\ pc # "start"
               /\ pc = "prerequisites" => e = "PIPELINE_START"
               /\ ~cancelled /\ pc \in {"returning", "returned"} => e \in Finals
  <1> DEFINE e == Message(a).event
             o == Head(todo[a])
  <1>1. /\ e = o.what /\ o.do = "enter" /\ todo[a] # << >> /\ todo[a] \in Seq(Ops)
        /\ pc' = pc /\ case' = case /\ cancelled' = cancelled
        /\ todo' = [todo EXCEPT ![a] = Tail(@)] /\ todo \in [Actors -> Seq(Ops)]
    BY Pops DEF EnterCallback, Doing, Message, Types, Perform
  <1>2. 1 \in DOMAIN todo[a] /\ todo[a][1] = o /\ WellFormed(todo[a], Subs)
    BY <1>1 DEF Begun
  <1>3. /\ e \in {"PIPELINE_START", "PIPELINE_END"} => Rank(o) = 1
        /\ e = "STATS_REPORT" => Rank(o) = 3
    BY <1>1 DEF Rank
  <1>4. a \in Reporters => Rank(o) = 0
    BY <1>2 DEF Begun, Unranked
  <1>5. RunHas(todo[Run], pc)
    BY DEF Begun
  <1>6. ASSUME a = Run
        PROVE  /\ pc \in {"prerequisites", "cancel", "end", "returning"}
               /\ pc = "prerequisites" => e = "PIPELINE_START"
               /\ pc \in {"cancel", "end"} => Rank(o) = 0
               /\ pc = "returning" => e \in Finals
    <2>1. RunHas(todo[a], pc)
      BY <1>5, <1>6
    <2>2. EntersOnly(todo[a], {"PIPELINE_START"}) => e = "PIPELINE_START"
      BY <1>1, <1>2 DEF EntersOnly
    <2>3. EntersOnly(todo[a], {"PIPELINE_END", "STATS_REPORT"}) => e \in Finals
      BY <1>1, <1>2 DEF EntersOnly, Finals
    <2>4. Unranked(todo[a]) => Rank(o) = 0
      BY <1>2 DEF Unranked
    <2>5. QED
      BY <1>1, <2>1, <2>2, <2>3, <2>4 DEF RunHas
  <1>7. /\ e \in {"PIPELINE_START", "PIPELINE_END", "STATS_REPORT"} => a = Run
        /\ e = "PIPELINE_START" => pc = "prerequisites"
        /\ e \in Finals => pc = "returning"
    BY <1>3, <1>4, <1>6, Sets DEF Finals
  <1>8. ASSUME a = Run, Rank(o) > 0
        PROVE  /\ HasRank(todo[Run], Rank(o))
               /\ \A k \in 1 .. 3 : HasRank(todo'[Run], k) => Rank(o) < k
    <2>1. todo'[Run] = Tail(todo[a])
      BY <1>1, <1>8
    <2>2. HasRank(todo[Run], Rank(o))
      BY <1>2, <1>8 DEF HasRank
    <2>3. \A k \in 1 .. 3 : HasRank(Tail(todo[a]), k) => Rank(o) < k
      <3>1. \A k : HasRank(Tail(todo[a]), k) /\ k > 0 /\ Rank(o) > 0 => Rank(o) < k
        BY <1>1, <1>2, TailFormed
      <3>2. QED
        BY <1>8, <3>1
    <2>4. QED
      BY <2>1, <2>2, <2>3
  <1>9. /\ e \in {"PIPELINE_START", "PIPELINE_END"} => HasRank(todo[Run], 1) /\ ~HasRank(todo'[Run], 1)
        /\ e = "STATS_REPORT" => HasRank(todo[Run], 3) /\ \A k \in 1 .. 3 : ~HasRank(todo'[Run], k)
    BY <1>3, <1>7, <1>8
  <1>10. pc # "wait" /\ ~cancelled => a = Run
    BY <1>1, Sets DEF Quiet, Idle
  <1>11. pc \in {"start", "prerequisites"} => a = Run
    BY <1>10 DEF Quiet
  <1>12. QED
    BY <1>1, <1>6, <1>7, <1>9, <1>10, <1>11 DEF Finals

LEMMA InOrderKept ==
    ASSUME InOrder, UNCHANGED <<delivered, pc>>, cancelled => cancelled',
           \A k : HasRank(todo'[Run], k) => HasRank(todo[Run], k)
    PROVE  InOrder'
  BY DEF InOrder, Was

LEMMA InOrderEnter ==
    ASSUME Types, Begun, Quiet, InOrder, NEW a \in Actors, EnterCallback(a)
    PROVE  InOrder'
  <1> DEFINE e == Message(a).event
             n == Len(delivered)
  <1>1. /\ n \in Nat /\ DOMAIN delivered = 1 .. n /\ DOMAIN delivered' = 1 .. n + 1
        /\ \A i \in 1 .. n : delivered'[i] = delivered[i]
        /\ delivered'[n + 1] = Message(a)
    BY Entered, Appended
  <1>2. /\ pc' = pc /\ cancelled' = cancelled
        /\ e \in {"PIPELINE_START", "PIPELINE_END"} => HasRank(todo[Run], 1) /\ ~HasRank(todo'[Run], 1)
        /\ e = "PIPELINE_START" => pc = "prerequisites"
        /\ e \in Finals => pc = "returning"
        /\ e = "STATS_REPORT" =>
              HasRank(todo[Run], 3) /\ ~HasRank(todo'[Run], 1) /\ ~HasRank(todo'[Run], 3)
        /\ pc # "start" /\ (pc = "prerequisites" => e = "PIPELINE_START")
        /\ ~cancelled /\ pc \in {"returning", "returned"} => e \in Finals
    BY EnterFacts DEF Finals
  <1>3. \A k : HasRank(todo'[Run], k) => HasRank(todo[Run], k)
    <2>1. todo[a] # << >> /\ todo' = [todo EXCEPT ![a] = Tail(@)] /\ WellFormed(todo[a], Subs)
      BY EnterFacts DEF Begun
    <2>2. todo \in [Actors -> Seq(Ops)] /\ Run \in Actors
      BY Sets DEF Types
    <2>3. CASE a = Run
      BY <2>1, <2>2, <2>3, TailFormed
    <2>4. CASE a # Run
      BY <2>1, <2>2, <2>4
    <2>5. QED
      BY <2>3, <2>4
  <1> HIDE DEF e, n
  <1>4. ASSUME NEW d, NEW i
        PROVE  Was(d, i)' <=> Was(d, i) \/ (i = n + 1 /\ d = e)
    <2>1. CASE i \in 1 .. n
      <3>1. i # n + 1 /\ i \in 1 .. n + 1
        BY <1>1, <2>1
      <3>2. QED
        BY <1>1, <2>1, <3>1 DEF Was
    <2>2. CASE i = n + 1
      <3>1. i \notin 1 .. n /\ i \in 1 .. n + 1
        BY <1>1, <2>2
      <3>2. QED
        BY <1>1, <2>2, <3>1 DEF Was, e
    <2>3. CASE i \notin 1 .. n /\ i # n + 1
      <3>1. i \notin 1 .. n + 1
        BY <1>1, <2>3
      <3>2. QED
        BY <1>1, <2>3, <3>1 DEF Was
    <2>4. QED
      BY <2>1, <2>2, <2>3
  <1>5. \A d, i : Was(d, i) => i \in 1 .. n
    BY <1>1 DEF Was
  <1>6. e = "PIPELINE_START" => n = 0
    BY <1>1, <1>2 DEF InOrder, n
  <1>7. /\ pc' = "start" => delivered' = << >>
        /\ pc' = "prerequisites" /\ HasRank(todo'[Run], 1) => delivered' = << >>
    BY <1>2
  <1>8. \A i : Was("PIPELINE_START", i)' => i = 1
    <2>1. ASSUME NEW i, Was("PIPELINE_START", i)' PROVE i = 1
      <3>1. Was("PIPELINE_START", i) \/ (i = n + 1 /\ "PIPELINE_START" = e)
        BY <1>4, <2>1
      <3>2. QED
        BY <1>1, <1>6, <3>1 DEF InOrder
    <2>2. QED
      BY <2>1
  <1>9. \A i : \A d \in Finals : Was(d, i)' => pc' \in {"returning", "returned"}
    BY <1>2, <1>4 DEF InOrder
  <1>10. HasRank(todo'[Run], 1) => \A i : \A d \in Finals : ~Was(d, i)'
    BY <1>2, <1>3, <1>4 DEF InOrder, Finals
  <1>11. HasRank(todo'[Run], 3) => \A i : ~Was("STATS_REPORT", i)'
    BY <1>2, <1>3, <1>4 DEF InOrder
  <1>12. ASSUME NEW d \in Finals, d = e PROVE \A i : ~Was(d, i)
    BY <1>2, <1>12 DEF InOrder, Finals
  <1>13. \A i, j : \A d \in Finals : Was(d, i)' /\ Was(d, j)' => i = j
    BY <1>4, <1>12 DEF InOrder
  <1>14. \A i, j : Was("PIPELINE_END", i)' /\ Was("STATS_REPORT", j)' => i < j
    <2>1. ASSUME NEW i, NEW j, Was("PIPELINE_END", i)', Was("STATS_REPORT", j)' PROVE i < j
      <3>1. /\ Was("PIPELINE_END", i) \/ (i = n + 1 /\ e = "PIPELINE_END")
            /\ Was("STATS_REPORT", j) \/ (j = n + 1 /\ e = "STATS_REPORT")
        BY <1>4, <2>1
      <3>2. e = "PIPELINE_END" => ~Was("STATS_REPORT", j)
        BY <1>2 DEF InOrder, Finals
      <3>3. CASE Was("PIPELINE_END", i) /\ Was("STATS_REPORT", j)
        BY <3>3 DEF InOrder
      <3>4. CASE Was("PIPELINE_END", i) /\ j = n + 1
        <4>1. i \in 1 .. n
          BY <1>5, <3>4
        <4>2. QED
          BY <1>1, <3>4, <4>1
      <3>5. QED
        BY <3>1, <3>2, <3>3, <3>4
    <2>2. QED
      BY <2>1
  <1>15. ASSUME ~cancelled', NEW i, NEW d \in Finals, Was(d, i)', NEW j \in DOMAIN delivered', j > i
         PROVE  delivered'[j].event = "STATS_REPORT"
    <2>1. i \in 1 .. n + 1 /\ j \in 1 .. n + 1
      BY <1>1, <1>15 DEF Was
    <2>2. i \in 1 .. n
      BY <1>1, <1>15, <2>1
    <2>3. Was(d, i)
      BY <1>1, <1>4, <1>15, <2>2
    <2>4. CASE j \in 1 .. n
      BY <1>1, <1>2, <1>15, <2>3, <2>4 DEF InOrder
    <2>5. CASE j = n + 1
      <3>1. e \in Finals
        BY <1>2, <1>15, <2>3 DEF InOrder
      <3>2. e # "PIPELINE_END"
        BY <1>2, <2>3 DEF InOrder
      <3>3. QED
        BY <1>1, <2>5, <3>1, <3>2 DEF Finals, e
    <2>6. QED
      BY <1>1, <2>1, <2>4, <2>5
  <1>16. QED
    BY <1>7, <1>8, <1>9, <1>10, <1>11, <1>13, <1>14, <1>15 DEF InOrder

LEMMA InOrderRun ==
    ASSUME Types, Begun, InOrder, RunStep
    PROVE  InOrder'
  <1>1. PICK s : todo' = [todo EXCEPT ![Run] = s] /\ RunHas(s, pc')
    BY RunBeginsWith
  <1>2. todo'[Run] = s /\ delivered' = delivered /\ cancelled' = cancelled
    BY <1>1, RunBegins, Sets DEF Types, RunUnchanged
  <1>3. \A d, i : Was(d, i)' <=> Was(d, i)
    BY <1>2 DEF Was
  <1>4. ASSUME NEW k \in {1, 3}, HasRank(s, k) PROVE pc' \in {"prerequisites", "returning"}
    <2>1. ~Unranked(s) /\ s # << >>
      BY <1>4 DEF HasRank, Unranked
    <2>2. QED
      BY <1>1, <2>1 DEF RunHas
  <1>5. /\ pc' # "start"
        /\ pc' = "prerequisites" => pc = "start"
        /\ pc' = "returning" => pc = "end"
        /\ pc \in {"returning", "returned"} => pc' = "returned"
    BY DEF RunStep, Start, Prerequisites, Executed, CloseStats, FireError, FireCancel, FireEnd, Return,
           RunAt
  <1>6. /\ pc' = "prerequisites" => delivered = << >>
        /\ pc' \in {"prerequisites", "returning"} => \A i : \A d \in Finals : ~Was(d, i)
    BY <1>5 DEF InOrder
  <1>7. HasRank(todo'[Run], 1) \/ HasRank(todo'[Run], 3) => \A i : \A d \in Finals : ~Was(d, i)'
    BY <1>2, <1>3, <1>4, <1>6
  <1>8. \A i : \A d \in Finals : Was(d, i)' => pc' \in {"returning", "returned"}
    BY <1>3, <1>5 DEF InOrder
  <1>9. QED
    BY <1>2, <1>3, <1>5, <1>6, <1>7, <1>8 DEF InOrder, Finals

(* What is left of the sequence of run() after the step of another, or its own. *)
LEMMA RunRanks ==
    ASSUME Types, Begun, [Next]_vars, ~RunStep
    PROVE  /\ pc' = pc /\ case' = case
           /\ \A k : HasRank(todo'[Run], k) => HasRank(todo[Run], k)
  <1>0. todo \in [Actors -> Seq(Ops)] /\ Run \in Actors
    BY Sets DEF Types
  <1>1. ASSUME NEW a \in Actors, Perform(a)
        PROVE  pc' = pc /\ case' = case /\ \A k : HasRank(todo'[Run], k) => HasRank(todo[Run], k)
    <2>1. /\ todo[a] # << >> /\ todo' = [todo EXCEPT ![a] = Tail(@)] /\ UNCHANGED <<case, left, pc>>
          /\ WellFormed(todo[a], Subs)
      BY <1>1, Pops DEF Begun
    <2>2. CASE a = Run
      BY <1>0, <2>1, <2>2, TailFormed
    <2>3. CASE a # Run
      BY <1>0, <2>1, <2>3
    <2>4. QED
      BY <2>2, <2>3
  <1>2. ASSUME NEW r \in Reporters, NextOutcome(r) PROVE pc' = pc /\ case' = case /\ todo'[Run] = todo[Run]
    BY <1>0, <1>2, Sets DEF NextOutcome
  <1>3. QED
    BY <1>1, <1>2 DEF Next, Cancel, TryRecv, Drained, Refresh, IsClosed, Sleep, IndicatorUnchanged, vars

LEMMA InOrderNext == Types /\ Begun /\ Quiet /\ InOrder /\ [Next]_vars => InOrder'
  <1> SUFFICES ASSUME Types, Begun, Quiet, InOrder, [Next]_vars PROVE InOrder'
    OBVIOUS
  <1>1. ASSUME NEW a \in Actors, EnterCallback(a) PROVE InOrder'
    BY <1>1, InOrderEnter
  <1>2. CASE RunStep
    BY <1>2, InOrderRun
  <1>3. CASE ~RunStep /\ delivered' = delivered
    BY <1>3, RunRanks, Cancels, InOrderKept
  <1>4. QED
    BY <1>1, <1>2, <1>3, Tells

-----------------------------------------------------------------------------
(* Counting what is told. *)

LEMMA CountAppended ==
    ASSUME NEW S, NEW s \in Seq(S), NEW x \in S, NEW e
    PROVE  /\ CountIn(s, Len(s), e) \in Nat
           /\ CountIn(Append(s, x), Len(s) + 1, e) = CountIn(s, Len(s), e) + IF x.event = e THEN 1 ELSE 0
           /\ \A k \in 1 .. Len(s) : CountIn(Append(s, x), k, e) = CountIn(s, k, e)
  <1> DEFINE n == Len(s)
             t == Append(s, x)
             A == {i \in 1 .. n : s[i].event = e}
             B == {i \in 1 .. n + 1 : t[i].event = e}
  <1>1. n \in Nat /\ t[n + 1] = x /\ \A i \in 1 .. n : t[i] = s[i]
    BY Appended
  <1>2. IsFiniteSet(A) /\ Cardinality(A) \in Nat
    <2>1. IsFiniteSet(1 .. n)
      BY <1>1, FS_Interval
    <2>2. IsFiniteSet(A)
      BY <2>1, FS_Subset
    <2>3. QED
      BY <2>2, FS_CardinalityType
  <1>0. CountIn(s, n, e) = Cardinality(A) /\ CountIn(t, n + 1, e) = Cardinality(B)
    BY DEF CountIn
  <1> HIDE DEF n, t
  <1>3. n + 1 \notin A
    BY <1>1
  <1>4. \A i \in 1 .. n + 1 : i \in 1 .. n \/ i = n + 1
    BY <1>1
  <1>5. 1 .. n \subseteq 1 .. n + 1 /\ n + 1 \in 1 .. n + 1
    BY <1>1
  <1>6. ASSUME x.event = e PROVE CountIn(t, n + 1, e) = CountIn(s, n, e) + 1
    <2>1. B = A \cup {n + 1}
      BY <1>1, <1>4, <1>5, <1>6
    <2>2. Cardinality(B) = Cardinality(A) + 1
      BY <1>2, <1>3, <2>1, FS_AddElement
    <2>3. QED
      BY <1>0, <2>2
  <1>7. ASSUME x.event # e PROVE CountIn(t, n + 1, e) = CountIn(s, n, e)
    <2>1. B = A
      BY <1>1, <1>4, <1>5, <1>7
    <2>2. QED
      BY <1>0, <2>1
  <1>8. ASSUME NEW k \in 1 .. n PROVE CountIn(t, k, e) = CountIn(s, k, e)
    <2>1. 1 .. k \subseteq 1 .. n
      BY <1>1
    <2>2. {i \in 1 .. k : t[i].event = e} = {i \in 1 .. k : s[i].event = e}
      BY <1>1, <2>1
    <2>3. QED
      BY <2>2 DEF CountIn
  <1>9. CountIn(s, n, e) \in Nat
    BY <1>0, <1>2
  <1>10. CountIn(t, n + 1, e) = CountIn(s, n, e) + IF x.event = e THEN 1 ELSE 0
    BY <1>6, <1>7, <1>9
  <1>11. QED
    BY <1>8, <1>9, <1>10 DEF n, t

LEMMA CountBelow ==
    ASSUME NEW S, NEW s \in Seq(S), NEW e, NEW k \in 1 .. Len(s)
    PROVE  CountIn(s, k, e) <= CountIn(s, Len(s), e) /\ CountIn(s, k, e) \in Nat
  <1> DEFINE A == {i \in 1 .. k : s[i].event = e}
             B == {i \in 1 .. Len(s) : s[i].event = e}
  <1>1. Len(s) \in Nat /\ 1 .. k \subseteq 1 .. Len(s)
    OBVIOUS
  <1>2. IsFiniteSet(B)
    <2>1. IsFiniteSet(1 .. Len(s))
      BY <1>1, FS_Interval
    <2>2. QED
      BY <2>1, FS_Subset
  <1>3. A \subseteq B
    BY <1>1
  <1>4. IsFiniteSet(A) /\ Cardinality(A) <= Cardinality(B)
    BY <1>2, <1>3, FS_Subset
  <1>5. Cardinality(A) \in Nat
    BY <1>4, FS_CardinalityType
  <1>6. QED
    BY <1>4, <1>5 DEF CountIn

LEMMA WaitingFacts ==
    ASSUME NEW e
    PROVE  IsFiniteSet(Waiting(e)) /\ Cardinality(Waiting(e)) \in Nat
  <1>1. IsFiniteSet(Waiting(e))
    BY Sets, FS_Subset DEF Waiting
  <1>2. QED
    BY <1>1, FS_CardinalityType

LEMMA WaitingSame ==
    ASSUME NEW e, \A b \in Actors : Waits(todo'[b], e) <=> Waits(todo[b], e)
    PROVE  Waiting(e)' = Waiting(e)
  BY DEF Waiting

(* Who waits after an operation of a: no one else, and a only if it has counted. *)
LEMMA WaitsAfter ==
    ASSUME Types, Begun, NEW a \in Actors, Perform(a), NEW e \in Counted
    PROVE  /\ todo[a] # << >>
           /\ \A b \in Actors \ {a} : Waits(todo'[b], e) <=> Waits(todo[b], e)
           /\ Waits(todo'[a], e) => Head(todo[a]).do = "update" /\ Head(todo[a]).what = e
           /\ Head(todo[a]).do = "update" /\ Head(todo[a]).what = e /\ Subscribed(e) => Waits(todo'[a], e)
           /\ Waits(todo[a], e) <=> Head(todo[a]).do = "enter" /\ Head(todo[a]).what = e
  <1>1. /\ todo[a] # << >> /\ todo' = [todo EXCEPT ![a] = Tail(@)] /\ WellFormed(todo[a], Subs)
        /\ todo \in [Actors -> Seq(Ops)] /\ e # "STATS_REPORT"
    BY Pops DEF Begun, Types, Counted
  <1>2. todo'[a] = Tail(todo[a]) /\ \A b \in Actors \ {a} : todo'[b] = todo[b]
    BY <1>1
  <1>3. Subscribed(e) => e \in Subs
    BY DEF Subs, Counted, Events
  <1>4. QED
    BY <1>1, <1>2, <1>3, HeadAfter DEF Waits

Stat(e) == pipeline_stats[FieldOf(e)]
LEMMA GainedFacts ==
    ASSUME Types, NEW e \in Counted
    PROVE  /\ Gained(pipeline_stats, e) = Stat(e) - case.carried[FieldOf(e)]
           /\ Stat(e) \in Nat /\ case.carried[FieldOf(e)] \in Nat /\ cloned[FieldOf(e)] \in Nat
           /\ Gained(pipeline_stats, e) \in Int /\ Heard(e) \in Nat
  <1>1. case.carried \in Counters /\ pipeline_stats \in Counters /\ cloned \in Counters
    BY CaseFacts DEF Types
  <1>2. Stat(e) \in Nat /\ case.carried[FieldOf(e)] \in Nat /\ cloned[FieldOf(e)] \in Nat
    BY <1>1, Updates DEF Stat
  <1>3. Heard(e) \in Nat
    <2>1. Len(delivered) \in Nat
      BY DEF Types
    <2> DEFINE A == {i \in 1 .. Len(delivered) : delivered[i].event = e}
    <2>2. IsFiniteSet(1 .. Len(delivered)) /\ A \subseteq 1 .. Len(delivered)
      BY <2>1, FS_Interval
    <2>3. IsFiniteSet(A)
      BY <2>2, FS_Subset
    <2>4. Cardinality(A) \in Nat
      BY <2>3, FS_CardinalityType
    <2>5. QED
      BY <2>4 DEF Heard, CountIn
  <1>4. QED
    BY <1>2, <1>3 DEF Gained, Stat

LEMMA ToldKept ==
    ASSUME Types, Told, UNCHANGED <<case, pipeline_stats, delivered>>,
           \A e \in Counted : Waiting(e)' = Waiting(e)
    PROVE  Told'
  <1>1. ASSUME NEW e \in Counted
        PROVE  /\ Heard(e)' = Heard(e) /\ Gained(pipeline_stats, e)' = Gained(pipeline_stats, e)
               /\ Subscribed(e)' = Subscribed(e) /\ Cardinality(Waiting(e))' = Cardinality(Waiting(e))
    BY DEF Heard, CountIn, Gained, Subscribed
  <1>2. QED
    BY <1>1 DEF Told

(* A sequence an actor begins with does not begin with a call. *)
LEMMA FreshWaits ==
    ASSUME NEW subs, NEW s, Startable(s, subs), NEW e
    PROVE  ~Waits(s, e)
  <1>1. s \in Seq(Ops)
    BY DEF Startable, WellFormed
  <1>2. s # << >> => Head(s) = s[1]
    BY <1>1
  <1>3. QED
    BY <1>2 DEF Startable, Fresh, Waits

LEMMA ToldUpdate ==
    ASSUME Types, Begun, Told, NEW a \in Actors, Update(a)
    PROVE  Told'
  <1> DEFINE o == Head(todo[a])
  <1>1. /\ Perform(a) /\ o.do = "update" /\ UNCHANGED <<case, delivered>> /\ todo[a] # << >>
        /\ pipeline_stats' = UpdatePipelineStats(pipeline_stats, o.what, o.n)
    BY DEF Perform, Update, Doing
  <1>2. o.n \in Nat /\ Types' /\ pipeline_stats \in Counters
    BY <1>1, HeadIsOp, TypesNext DEF Next, Types
  <1> HIDE DEF o
  <1>3. ASSUME NEW e \in Counted
        PROVE  /\ Heard(e)' + Cardinality(Waiting(e)') <= Gained(pipeline_stats, e)'
               /\ Subscribed(e)' => Heard(e)' + Cardinality(Waiting(e)') = Gained(pipeline_stats, e)'
    <2>1. Heard(e)' = Heard(e) /\ Subscribed(e)' = Subscribed(e)
      BY <1>1 DEF Heard, CountIn, Subscribed
    <2>2. /\ Stat(e)' = Stat(e) + (IF o.what = e THEN 1 ELSE 0)
          /\ Stat(e) \in Nat /\ case.carried[FieldOf(e)] \in Nat /\ Heard(e) \in Nat
          /\ Gained(pipeline_stats, e) = Stat(e) - case.carried[FieldOf(e)]
          /\ Gained(pipeline_stats, e)' = Stat(e)' - case.carried[FieldOf(e)]
      <3>1. UpdatePipelineStats(pipeline_stats, o.what, o.n)[FieldOf(e)]
              = pipeline_stats[FieldOf(e)] + IF o.what = e THEN 1 ELSE 0
        BY <1>2, Updates
      <3>2. QED
        BY <1>1, <3>1, GainedFacts DEF Stat, Gained
    <2>3. /\ \A b \in Actors \ {a} : Waits(todo'[b], e) <=> Waits(todo[b], e)
          /\ Waits(todo'[a], e) => o.what = e
          /\ o.what = e /\ Subscribed(e) => Waits(todo'[a], e)
          /\ ~Waits(todo[a], e)
      BY <1>1, WaitsAfter DEF o
    <2>4. IsFiniteSet(Waiting(e)) /\ Cardinality(Waiting(e)) \in Nat /\ a \notin Waiting(e)
      BY <2>3, WaitingFacts DEF Waiting
    <2>5. /\ Heard(e) + Cardinality(Waiting(e)) <= Gained(pipeline_stats, e)
          /\ Subscribed(e) => Heard(e) + Cardinality(Waiting(e)) = Gained(pipeline_stats, e)
      BY DEF Told
    <2>6. CASE Waits(todo'[a], e)
      <3>1. Waiting(e)' = Waiting(e) \cup {a}
        BY <2>3, <2>6 DEF Waiting
      <3>2. Cardinality(Waiting(e)') = Cardinality(Waiting(e)) + 1
        BY <2>4, <3>1, FS_AddElement
      <3>3. Stat(e)' = Stat(e) + 1
        BY <2>2, <2>3, <2>6
      <3>4. QED
        BY <2>1, <2>2, <2>4, <2>5, <3>2, <3>3
    <2>7. CASE ~Waits(todo'[a], e)
      <3>1. Waiting(e)' = Waiting(e)
        BY <2>3, <2>7 DEF Waiting
      <3>2. CASE o.what = e
        <4>1. ~Subscribed(e) /\ Stat(e)' = Stat(e) + 1
          BY <2>2, <2>3, <2>7, <3>2
        <4>2. QED
          BY <2>1, <2>2, <2>4, <2>5, <3>1, <4>1
      <3>3. CASE o.what # e
        <4>1. Stat(e)' = Stat(e)
          BY <2>2, <3>3
        <4>2. QED
          BY <2>1, <2>2, <2>4, <2>5, <3>1, <4>1
      <3>4. QED
        BY <3>2, <3>3
    <2>8. QED
      BY <2>6, <2>7
  <1>4. QED
    BY <1>3 DEF Told

LEMMA HeardAfter ==
    ASSUME Types, Begun, NEW a \in Actors, EnterCallback(a), NEW e
    PROVE  /\ Heard(e) \in Nat
           /\ Heard(e)' = Heard(e) + IF Head(todo[a]).what = e THEN 1 ELSE 0
           /\ \A k \in 1 .. Len(delivered) : CountIn(delivered, k, e)' = CountIn(delivered, k, e)
  <1> DEFINE S == [event : Events, stats : Counters]
  <1>1. /\ delivered' = Append(delivered, Message(a)) /\ Message(a) \in S /\ delivered \in Seq(S)
        /\ Message(a).event = Head(todo[a]).what
    BY Entered DEF Message
  <1> HIDE DEF S
  <1>2. Len(delivered') = Len(delivered) + 1
    BY <1>1, Appended
  <1>3. /\ CountIn(delivered, Len(delivered), e) \in Nat
        /\ CountIn(Append(delivered, Message(a)), Len(delivered) + 1, e)
              = CountIn(delivered, Len(delivered), e) + IF Message(a).event = e THEN 1 ELSE 0
        /\ \A k \in 1 .. Len(delivered) :
              CountIn(Append(delivered, Message(a)), k, e) = CountIn(delivered, k, e)
    BY <1>1, CountAppended
  <1>4. QED
    BY <1>1, <1>2, <1>3 DEF Heard

LEMMA ToldEnter ==
    ASSUME Types, Begun, Told, NEW a \in Actors, EnterCallback(a)
    PROVE  Told'
  <1> DEFINE o == Head(todo[a])
  <1>1. /\ Perform(a) /\ o.do = "enter" /\ UNCHANGED <<case, pipeline_stats>>
    BY DEF Perform, EnterCallback, Doing
  <1> HIDE DEF o
  <1>2. ASSUME NEW e \in Counted
        PROVE  /\ Heard(e)' + Cardinality(Waiting(e)') <= Gained(pipeline_stats, e)'
               /\ Subscribed(e)' => Heard(e)' + Cardinality(Waiting(e)') = Gained(pipeline_stats, e)'
    <2>1. /\ Gained(pipeline_stats, e)' = Gained(pipeline_stats, e) /\ Subscribed(e)' = Subscribed(e)
          /\ Gained(pipeline_stats, e) \in Int
      BY <1>1, GainedFacts DEF Gained, Subscribed
    <2>2. Heard(e) \in Nat /\ Heard(e)' = Heard(e) + IF o.what = e THEN 1 ELSE 0
      BY HeardAfter DEF o
    <2>3. /\ \A b \in Actors \ {a} : Waits(todo'[b], e) <=> Waits(todo[b], e)
          /\ ~Waits(todo'[a], e)
          /\ Waits(todo[a], e) <=> o.what = e
      BY <1>1, WaitsAfter DEF o
    <2>4. IsFiniteSet(Waiting(e)) /\ Cardinality(Waiting(e)) \in Nat
      BY WaitingFacts
    <2>5. /\ Heard(e) + Cardinality(Waiting(e)) <= Gained(pipeline_stats, e)
          /\ Subscribed(e) => Heard(e) + Cardinality(Waiting(e)) = Gained(pipeline_stats, e)
      BY DEF Told
    <2>6. CASE o.what = e
      <3>1. Waiting(e)' = Waiting(e) \ {a} /\ a \in Waiting(e)
        BY <2>3, <2>6 DEF Waiting
      <3>2. Cardinality(Waiting(e)') = Cardinality(Waiting(e)) - 1
        BY <2>4, <3>1, FS_RemoveElement
      <3>3. Heard(e)' = Heard(e) + 1
        BY <2>2, <2>6
      <3>4. QED
        BY <2>1, <2>2, <2>4, <2>5, <3>2, <3>3
    <2>7. CASE o.what # e
      <3>1. Waiting(e)' = Waiting(e)
        BY <2>3, <2>7 DEF Waiting
      <3>2. Heard(e)' = Heard(e)
        BY <2>2, <2>7
      <3>3. QED
        BY <2>1, <2>4, <2>5, <3>1, <3>2
    <2>8. QED
      BY <2>6, <2>7
  <1>3. QED
    BY <1>2 DEF Told

LEMMA ToldNext == Types /\ Begun /\ Told /\ [Next]_vars => Told'
  <1> SUFFICES ASSUME Types, Begun, Told, [Next]_vars PROVE Told'
    OBVIOUS
  <1>0. todo \in [Actors -> Seq(Ops)] /\ \A e : ~Waits(<< >>, e)
    BY DEF Types, Waits
  <1>1. CASE UNCHANGED <<case, todo, pipeline_stats, delivered>>
    BY <1>1, ToldKept DEF Waiting
  <1>2. ASSUME NEW a \in Actors, Perform(a) PROVE Told'
    <2>1. CASE Update(a)
      BY <2>1, ToldUpdate
    <2>2. CASE EnterCallback(a)
      BY <2>2, ToldEnter
    <2>3. CASE ~Update(a) /\ ~EnterCallback(a)
      <3>1. /\ Head(todo[a]).do \notin {"update", "enter"}
            /\ UNCHANGED <<case, pipeline_stats, delivered>>
        BY <1>2, <2>3 DEF Perform, FetchAdd, SendStats, LeaveCallback, CloneStats, CancelToken,
                          RecordError, Doing
      <3>2. ASSUME NEW e \in Counted PROVE Waiting(e)' = Waiting(e)
        <4>1. /\ \A b \in Actors \ {a} : Waits(todo'[b], e) <=> Waits(todo[b], e)
              /\ ~Waits(todo'[a], e) /\ ~Waits(todo[a], e)
          BY <1>2, <3>1, WaitsAfter
        <4>2. QED
          BY <4>1, WaitingSame
      <3>3. QED
        BY <3>1, <3>2, ToldKept
    <2>4. QED
      BY <2>1, <2>2, <2>3
  <1>3. ASSUME NEW r \in Actors, NEW s, todo[r] = << >>, todo' = [todo EXCEPT ![r] = s],
               Startable(s, Subs), UNCHANGED <<case, pipeline_stats, delivered>>
        PROVE  Told'
    <2>1. todo'[r] = s /\ \A b \in Actors \ {r} : todo'[b] = todo[b]
      BY <1>0, <1>3
    <2>2. ASSUME NEW e PROVE Waiting(e)' = Waiting(e)
      <3>1. ~Waits(todo'[r], e) /\ ~Waits(todo[r], e)
        BY <1>0, <1>3, <2>1, FreshWaits
      <3>2. QED
        BY <2>1, <3>1, WaitingSame
    <2>3. QED
      BY <1>3, <2>2, ToldKept
  <1>4. ASSUME NEW r \in Reporters, NextOutcome(r) PROVE Told'
    <2>1. /\ left[r] \in Seq(Outcome) /\ left[r] # << >> /\ r \in Actors /\ todo[r] = << >>
          /\ UNCHANGED <<case, pipeline_stats, delivered>>
      BY <1>4, Sets DEF Types, NextOutcome
    <2>2. Head(left[r]) \in Outcome
      BY <2>1
    <2>3. Startable(ReportOf(Head(left[r])), Subs)
      BY <2>2, Reports DEF Plain
    <2>4. CASE todo' = todo
      BY <1>1, <2>1, <2>4
    <2>5. CASE todo' = [todo EXCEPT ![r] = ReportOf(Head(left[r]))]
      BY <1>3, <2>1, <2>3, <2>5
    <2>6. QED
      BY <1>4, <2>4, <2>5 DEF NextOutcome
  <1>5. CASE RunStep
    <2>1. PICK s : todo' = [todo EXCEPT ![Run] = s] /\ Startable(s, Subs)
      BY <1>5, RunBeginsWith
    <2>2. todo[Run] = << >> /\ UNCHANGED <<case, pipeline_stats, delivered>> /\ Run \in Actors
      BY <1>5, RunBegins, Sets DEF RunUnchanged
    <2>3. QED
      BY <1>3, <2>1, <2>2
  <1>6. ASSUME Cancel \/ TryRecv \/ Drained \/ Refresh \/ IsClosed \/ Sleep PROVE Told'
    <2>1. UNCHANGED <<case, todo, pipeline_stats, delivered>>
      BY <1>6 DEF Cancel, TryRecv, Drained, Refresh, IsClosed, Sleep, IndicatorUnchanged
    <2>2. QED
      BY <1>1, <2>1
  <1>7. QED
    BY <1>1, <1>2, <1>4, <1>5, <1>6 DEF Next, vars

-----------------------------------------------------------------------------
(* The copy the report is made of. *)

(* Only trigger_event for PIPELINE_END takes it. *)
LEMMA Clones ==
    ASSUME Types, Begun, [Next]_vars
    PROVE  /\ cloned' = cloned \/ \E a \in Actors : CloneStats(a)
           /\ ~RunStep /\ ~(\E a \in Actors : CloneStats(a)) =>
                 (HasRank(todo[Run], 2) => HasRank(todo'[Run], 2))
  <1>0. todo \in [Actors -> Seq(Ops)] /\ Run \in Actors
    BY Sets DEF Types
  <1>1. ASSUME NEW a \in Actors, Perform(a) PROVE cloned' = cloned \/ CloneStats(a)
    BY <1>1 DEF Perform, FetchAdd, SendStats, Update, EnterCallback, LeaveCallback, CancelToken, RecordError
  <1>2. ASSUME NEW a \in Actors, Perform(a), ~CloneStats(a), HasRank(todo[Run], 2)
        PROVE  HasRank(todo'[Run], 2)
    <2>1. /\ todo[a] # << >> /\ todo' = [todo EXCEPT ![a] = Tail(@)] /\ WellFormed(todo[a], Subs)
          /\ Head(todo[a]).do # "clone"
      BY <1>2, Pops DEF Begun, Perform, FetchAdd, SendStats, Update, EnterCallback, LeaveCallback,
                        CancelToken, RecordError, Doing
    <2>2. Rank(Head(todo[a])) # 2
      BY <2>1 DEF Rank
    <2>3. CASE a = Run
      BY <1>0, <1>2, <2>1, <2>2, <2>3, TailFormed
    <2>4. CASE a # Run
      BY <1>0, <1>2, <2>1, <2>4
    <2>5. QED
      BY <2>3, <2>4
  <1>3. ASSUME NEW r \in Reporters, NextOutcome(r) PROVE cloned' = cloned /\ todo'[Run] = todo[Run]
    BY <1>0, <1>3, Sets DEF NextOutcome
  <1>4. CASE RunStep
    BY <1>4, RunBegins DEF RunUnchanged
  <1>5. QED
    BY <1>1, <1>2, <1>3, <1>4
    DEF Next, Cancel, TryRecv, Drained, Refresh, IsClosed, Sleep, IndicatorUnchanged, vars

LEMMA CopiedKept ==
    ASSUME Copied, UNCHANGED <<delivered, cloned, case>>, cancelled => cancelled', Taken' <=> Taken,
           HasRank(todo'[Run], 1) => HasRank(todo[Run], 1)
    PROVE  Copied'
  <1>1. /\ \A e, k : Was(e, k)' <=> Was(e, k)
        /\ \A e, k : CountIn(delivered, k, e)' = CountIn(delivered, k, e)
        /\ \A e : Gained(cloned, e)' = Gained(cloned, e) /\ Subscribed(e)' = Subscribed(e)
        /\ \A e : Heard(e)' = Heard(e)
    BY DEF Was, CountIn, Gained, Subscribed, Heard
  <1>2. QED
    BY <1>1 DEF Copied

LEMMA CopiedClone ==
    ASSUME Types, Begun, Quiet, Told, Copied, NEW a \in Actors, CloneStats(a)
    PROVE  Copied'
  <1>1. /\ Perform(a) /\ todo[a] # << >> /\ Head(todo[a]).do = "clone" /\ todo[a] \in Seq(Ops)
        /\ UNCHANGED <<delivered, case, pc, cancelled>> /\ cloned' = pipeline_stats
        /\ todo' = [todo EXCEPT ![a] = Tail(@)] /\ todo \in [Actors -> Seq(Ops)]
    BY DEF CloneStats, Perform, Doing, Done, Types
  <1>2. Rank(Head(todo[a])) = 2 /\ 1 \in DOMAIN todo[a] /\ Head(todo[a]) = todo[a][1]
    BY <1>1 DEF Rank
  <1>3. a = Run /\ HasRank(todo[Run], 2)
    <2>1. HasRank(todo[a], 2) /\ ~Unranked(todo[a])
      BY <1>2 DEF HasRank, Unranked
    <2>2. QED
      BY <2>1, Sets DEF Begun
  <1>4. pc = "returning"
    <2>1. ~Unranked(todo[Run]) /\ todo[Run] # << >> /\ RunHas(todo[Run], pc)
      BY <1>1, <1>2, <1>3 DEF Unranked, Begun
    <2>2. QED
      BY <1>3, <2>1 DEF RunHas
  <1>5. ~Taken /\ \A i : ~Was("STATS_REPORT", i)'
    BY <1>1, <1>3 DEF Taken, Copied, Was
  <1>6. ~HasRank(todo'[Run], 1)
    <2>1. WellFormed(todo[a], Subs)
      BY DEF Begun
    <2>2. \A k : HasRank(Tail(todo[a]), k) /\ k > 0 /\ Rank(Head(todo[a])) > 0 => Rank(Head(todo[a])) < k
      BY <1>1, <2>1, TailFormed
    <2>3. ~HasRank(Tail(todo[a]), 1)
      BY <1>2, <2>2
    <2>4. QED
      BY <1>1, <1>3, <2>3
  <1>7. ASSUME NEW e \in Counted
        PROVE  /\ Gained(cloned, e)' = Gained(pipeline_stats, e) /\ Heard(e)' = Heard(e)
               /\ Heard(e) <= Gained(pipeline_stats, e) /\ Heard(e) \in Nat
               /\ Gained(pipeline_stats, e) \in Int
    <2>1. Gained(cloned, e)' = Gained(pipeline_stats, e) /\ Heard(e)' = Heard(e)
      BY <1>1 DEF Gained, Heard, CountIn
    <2>2. /\ Heard(e) \in Nat /\ Gained(pipeline_stats, e) \in Int
          /\ Cardinality(Waiting(e)) \in Nat
          /\ Heard(e) + Cardinality(Waiting(e)) <= Gained(pipeline_stats, e)
      BY GainedFacts, WaitingFacts DEF Told
    <2>3. QED
      BY <2>1, <2>2
  <1>8. ASSUME NEW k, Was("PIPELINE_END", k)', NEW e \in Counted
        PROVE  CountIn(delivered, k, e)' <= Gained(cloned, e)'
    <2>1. k \in 1 .. Len(delivered) /\ CountIn(delivered, k, e)' = CountIn(delivered, k, e)
      BY <1>1, <1>8 DEF Was, Types, CountIn
    <2>2. CountIn(delivered, k, e) <= Heard(e) /\ CountIn(delivered, k, e) \in Nat
      <3> DEFINE S == [event : Events, stats : Counters]
      <3>1. delivered \in Seq(S)
        BY DEF Types
      <3> HIDE DEF S
      <3>2. QED
        BY <2>1, <3>1, CountBelow DEF Heard
    <2>3. QED
      BY <1>7, <2>1, <2>2
  <1>9. ASSUME ~cancelled', Subscribed("DELETE_COMPLETE")'
        PROVE  Gained(cloned, "DELETE_COMPLETE")' = Heard("DELETE_COMPLETE")'
    <2> DEFINE e == "DELETE_COMPLETE"
    <2>1. Waiting(e) = {}
      <3>1. \A r \in Reporters : todo[r] = << >>
        BY <1>1, <1>4, <1>9 DEF Quiet, Idle
      <3>2. \A b \in Actors : ~Waits(todo[b], e)
        BY <1>1, <1>3, <3>1, Sets DEF Waits
      <3>3. QED
        BY <3>2 DEF Waiting
    <2>2. Cardinality(Waiting(e)) = 0 /\ e \in Counted /\ Subscribed(e)
      BY <1>1, <1>9, <2>1, FS_EmptySet DEF Counted, Subscribed
    <2>3. Heard(e) + Cardinality(Waiting(e)) = Gained(pipeline_stats, e)
      BY <2>2 DEF Told
    <2>4. QED
      BY <1>7, <2>2, <2>3
  <1>10. QED
    BY <1>5, <1>6, <1>8, <1>9 DEF Copied

LEMMA CopiedEnter ==
    ASSUME Types, Begun, Quiet, InOrder, Copied, NEW a \in Actors, EnterCallback(a)
    PROVE  Copied'
  <1> DEFINE e == Head(todo[a]).what
             n == Len(delivered)
  <1>1. /\ n \in Nat /\ DOMAIN delivered = 1 .. n /\ DOMAIN delivered' = 1 .. n + 1
        /\ \A i \in 1 .. n : delivered'[i] = delivered[i]
        /\ delivered'[n + 1] = Message(a)
    BY Entered, Appended
  <1>2. Message(a).event = e /\ (e = "STATS_REPORT" => Message(a).stats = cloned)
    BY DEF Message
  <1>3. /\ pc' = pc /\ cancelled' = cancelled
        /\ Message(a).event \in {"PIPELINE_START", "PIPELINE_END"} => HasRank(todo[Run], 1)
        /\ Message(a).event \in Finals => pc = "returning"
        /\ Message(a).event = "STATS_REPORT" => \A k \in 1 .. 3 : ~HasRank(todo'[Run], k)
        /\ ~cancelled /\ pc \in {"returning", "returned"} => Message(a).event \in Finals
    BY EnterFacts DEF Finals
  <1>4. UNCHANGED <<case, cloned>> /\ \A d : Subscribed(d)' = Subscribed(d)
    BY DEF EnterCallback, Subscribed
  <1>5. e \in Subs /\ Subscribed(e)
    BY EnteredEvent DEF Subs
  <1>6. ~(\E b \in Actors : CloneStats(b)) /\ ~RunStep /\ [Next]_vars
    <2>1. delivered' # delivered
      <3>1. n + 1 \notin 1 .. n /\ n + 1 \in 1 .. n + 1
        BY <1>1
      <3>2. QED
        BY <1>1, <3>1
    <2>2. QED
      BY <2>1, RunBegins DEF CloneStats, RunUnchanged, Next, Perform
  <1>7. /\ HasRank(todo'[Run], 2) <=> HasRank(todo[Run], 2)
        /\ HasRank(todo'[Run], 1) => HasRank(todo[Run], 1)
    BY <1>6, Clones, RunRanks
  <1>8. Taken' <=> Taken
    BY <1>3, <1>4, <1>7 DEF Taken
  <1>9. /\ \A d : /\ Heard(d) \in Nat
                  /\ Heard(d)' = Heard(d) + IF e = d THEN 1 ELSE 0
                  /\ \A k \in 1 .. n : CountIn(delivered, k, d)' = CountIn(delivered, k, d)
        /\ \A d : Gained(cloned, d)' = Gained(cloned, d)
    BY <1>4, HeardAfter DEF Gained
  <1> HIDE DEF e, n
  <1>10. ASSUME NEW d, NEW i, Was(d, i)' PROVE (Was(d, i) /\ i \in 1 .. n) \/ (i = n + 1 /\ d = e)
    <2>1. i \in 1 .. n + 1 /\ delivered'[i].event = d
      BY <1>1, <1>10 DEF Was
    <2>2. i \in 1 .. n \/ i = n + 1
      BY <1>1, <2>1
    <2>3. CASE i \in 1 .. n
      BY <1>1, <2>1, <2>3 DEF Was
    <2>4. CASE i = n + 1
      BY <1>1, <1>2, <2>1, <2>4
    <2>5. QED
      BY <2>2, <2>3, <2>4
  <1>11. ASSUME Taken'
         PROVE  /\ ~HasRank(todo'[Run], 1)
                /\ \A k : Was("PIPELINE_END", k)' =>
                      \A d \in Counted : CountIn(delivered, k, d)' <= Gained(cloned, d)'
                /\ ~cancelled' /\ Subscribed("DELETE_COMPLETE")'
                      => Gained(cloned, "DELETE_COMPLETE")' = Heard("DELETE_COMPLETE")'
    <2>1. Taken /\ ~HasRank(todo[Run], 1) /\ ~HasRank(todo'[Run], 1)
      BY <1>7, <1>8, <1>11 DEF Copied
    <2>2. ASSUME NEW k, Was("PIPELINE_END", k)', NEW d \in Counted
          PROVE  CountIn(delivered, k, d)' <= Gained(cloned, d)'
      <3>1. e # "PIPELINE_END"
        BY <1>2, <1>3, <2>1
      <3>2. Was("PIPELINE_END", k) /\ k \in 1 .. n
        BY <1>10, <2>2, <3>1
      <3>3. CountIn(delivered, k, d) <= Gained(cloned, d)
        BY <2>1, <2>2, <3>2 DEF Copied
      <3>4. QED
        BY <1>9, <3>2, <3>3
    <2>3. ASSUME ~cancelled', Subscribed("DELETE_COMPLETE")'
          PROVE  Gained(cloned, "DELETE_COMPLETE")' = Heard("DELETE_COMPLETE")'
      <3>1. ~cancelled /\ Subscribed("DELETE_COMPLETE") /\ pc \in {"returning", "returned"}
        BY <1>3, <1>4, <2>1, <2>3 DEF Taken
      <3>2. e # "DELETE_COMPLETE"
        BY <1>2, <1>3, <3>1 DEF Finals
      <3>3. Heard("DELETE_COMPLETE")' = Heard("DELETE_COMPLETE")
        BY <1>9, <3>2
      <3>4. Gained(cloned, "DELETE_COMPLETE") = Heard("DELETE_COMPLETE")
        BY <2>1, <3>1 DEF Copied
      <3>5. QED
        BY <1>9, <3>3, <3>4
    <2>4. QED
      BY <2>1, <2>2, <2>3
  <1>12. ASSUME NEW i, Was("STATS_REPORT", i)' PROVE Taken' /\ delivered'[i].stats = cloned'
    <2>1. CASE Was("STATS_REPORT", i) /\ i \in 1 .. n
      BY <1>1, <1>4, <1>8, <2>1 DEF Copied
    <2>2. CASE i = n + 1 /\ "STATS_REPORT" = e
      <3>1. delivered'[i].stats = cloned'
        BY <1>1, <1>2, <1>4, <2>2
      <3>2. pc' = "returning" /\ Subscribed("STATS_REPORT")' /\ ~HasRank(todo'[Run], 2)
        BY <1>2, <1>3, <1>4, <1>5, <2>2 DEF Finals
      <3>3. QED
        BY <3>1, <3>2 DEF Taken
    <2>3. QED
      BY <1>10, <1>12, <2>1, <2>2
  <1>13. QED
    BY <1>11, <1>12 DEF Copied

LEMMA CopiedRun ==
    ASSUME Types, Begun, Copied, RunStep
    PROVE  Copied'
  <1>1. UNCHANGED <<delivered, cloned, case, cancelled>> /\ todo[Run] = << >>
    BY RunBegins DEF RunUnchanged
  <1>2. ~(\E k : HasRank(todo[Run], k))
    BY <1>1, NoOps
  <1>3. CASE Return
    <2>1. todo' = todo /\ pc = "returning" /\ pc' = "returned"
      BY <1>3 DEF Return, RunAt
    <2>2. Taken' <=> Taken
      BY <1>1, <2>1 DEF Taken, Subscribed
    <2>3. QED
      BY <1>1, <2>1, <2>2, CopiedKept
  <1>4. CASE ~Return
    <2>1. pc \notin {"returning", "returned"} /\ (pc' \in {"returning", "returned"} => FireEnd)
      BY <1>4 DEF RunStep, Start, Prerequisites, Executed, CloseStats, FireError, FireCancel, FireEnd, RunAt
    <2>2. ~Taken
      BY <2>1 DEF Taken
    <2>3. ~Taken'
      <3>1. CASE FireEnd
        <4>1. todo'[Run] = TriggerEvent("PIPELINE_END", 0)
          BY <3>1, Sets DEF FireEnd, Reporting, Types
        <4>2. Subscribed("STATS_REPORT") => HasRank(TriggerEvent("PIPELINE_END", 0), 2)
          BY Triggered DEF Events
        <4>3. QED
          BY <1>1, <4>1, <4>2 DEF Taken, Subscribed
      <3>2. CASE ~FireEnd
        BY <2>1, <3>2 DEF Taken
      <3>3. QED
        BY <3>1, <3>2
    <2>4. \A i : ~Was("STATS_REPORT", i)'
      BY <1>1, <2>2 DEF Copied, Was
    <2>5. QED
      BY <2>3, <2>4 DEF Copied
  <1>5. QED
    BY <1>3, <1>4

LEMMA CopiedNext == Types /\ Begun /\ Quiet /\ InOrder /\ Told /\ Copied /\ [Next]_vars => Copied'
  <1> SUFFICES ASSUME Types, Begun, Quiet, InOrder, Told, Copied, [Next]_vars PROVE Copied'
    OBVIOUS
  <1>1. ASSUME NEW a \in Actors, EnterCallback(a) PROVE Copied'
    BY <1>1, CopiedEnter
  <1>2. ASSUME NEW a \in Actors, CloneStats(a) PROVE Copied'
    BY <1>2, CopiedClone
  <1>3. CASE RunStep
    BY <1>3, CopiedRun
  <1>4. CASE ~RunStep /\ delivered' = delivered /\ ~(\E a \in Actors : CloneStats(a))
    <2>1. /\ cloned' = cloned /\ pc' = pc /\ case' = case /\ (cancelled => cancelled')
          /\ HasRank(todo'[Run], 2) <=> HasRank(todo[Run], 2)
          /\ HasRank(todo'[Run], 1) => HasRank(todo[Run], 1)
      BY <1>4, Clones, RunRanks, Cancels
    <2>2. Taken' <=> Taken
      BY <2>1 DEF Taken, Subscribed
    <2>3. QED
      BY <1>4, <2>1, <2>2, CopiedKept
  <1>5. QED
    BY <1>1, <1>2, <1>3, <1>4, Tells

-----------------------------------------------------------------------------
(* The contract. *)

IInv == Types /\ Begun /\ Quiet /\ InOrder /\ Told /\ Copied

LEMMA IInvInit == Init => IInv
  <1> SUFFICES ASSUME Init PROVE IInv
    OBVIOUS
  <1>1. /\ case \in Cases /\ todo = [a \in Actors |-> << >>] /\ left = [r \in Reporters |-> << >>]
        /\ pc = "start" /\ pipeline_stats = case.carried /\ cloned = Zero /\ delivered = << >>
        /\ cancelled = FALSE /\ has_error = FALSE
    BY DEF Init
  <1>2. case.carried \in Counters /\ Zero \in Counters
    BY <1>1, CaseFacts DEF Zero, Counters
  <1>3. Types
    <2>1. << >> \in Seq(Ops) /\ << >> \in Seq(Outcome) /\ << >> \in Seq([event : Events, stats : Counters])
      OBVIOUS
    <2>2. QED
      BY <1>1, <1>2, <2>1 DEF Types
  <1>4. Begun
    BY <1>1, NoOps, Sets DEF Begun, Startable, RunHas
  <1>5. Quiet
    BY <1>1, Sets DEF Quiet, Idle
  <1>6. \A d, i : ~Was(d, i)
    <2>1. DOMAIN << >> = {}
      OBVIOUS
    <2>2. QED
      BY <1>1, <2>1 DEF Was
  <1>7. \A k : ~HasRank(todo[Run], k)
    BY <1>1, NoOps, Sets
  <1>8. InOrder
    BY <1>1, <1>6, <1>7 DEF InOrder
  <1>9. ASSUME NEW e \in Counted
        PROVE  Heard(e) = 0 /\ Cardinality(Waiting(e)) = 0 /\ Gained(pipeline_stats, e) = 0
    <2>1. Waiting(e) = {}
      BY <1>1 DEF Waiting, Waits
    <2>2. {i \in 1 .. Len(delivered) : delivered[i].event = e} = {}
      <3>1. 1 .. Len(delivered) = {}
        BY <1>1
      <3>2. QED
        BY <3>1
    <2>3. Stat(e) = case.carried[FieldOf(e)] /\ Stat(e) \in Nat
          /\ Gained(pipeline_stats, e) = Stat(e) - case.carried[FieldOf(e)]
      BY <1>1, <1>3, GainedFacts DEF Stat
    <2>4. Gained(pipeline_stats, e) = 0
      BY <2>3
    <2>5. QED
      BY <2>1, <2>2, <2>4, FS_EmptySet DEF Heard, CountIn
  <1>10. Told
    BY <1>9 DEF Told
  <1>11. Copied
    BY <1>1, <1>6 DEF Copied, Taken
  <1>12. QED
    BY <1>3, <1>4, <1>5, <1>8, <1>10, <1>11 DEF IInv

LEMMA IInvNext == IInv /\ [Next]_vars => IInv'
  BY TypesNext, BegunNext, QuietNext, InOrderNext, ToldNext, CopiedNext DEF IInv

LEMMA AtMostOne ==
    ASSUME NEW T, \A x, y \in T : x = y
    PROVE  Cardinality(T) <= 1
  <1>1. CASE T = {}
    BY <1>1, FS_EmptySet
  <1>2. CASE T # {}
    <2>1. PICK x \in T : TRUE
      BY <1>2
    <2>2. T = {x}
      BY <2>1
    <2>3. Cardinality({x}) = 1
      BY FS_Singleton
    <2>4. QED
      BY <2>2, <2>3
  <1>3. QED
    BY <1>1, <1>2

LEMMA InOrderGives == Types /\ InOrder => CallbackOrder
  <1> SUFFICES ASSUME Types, InOrder PROVE CallbackOrder
    OBVIOUS
  <1> DEFINE at(e) == {i \in DOMAIN delivered : delivered[i].event = e}
  <1>1. \A e, i : i \in at(e) <=> Was(e, i)
    BY DEF Was
  <1> HIDE DEF at
  <1>2. at("PIPELINE_START") \subseteq {1}
    BY <1>1 DEF InOrder
  <1>3. ASSUME NEW e \in Finals PROVE Cardinality(at(e)) <= 1
    <2>1. \A x, y \in at(e) : x = y
      BY <1>1 DEF InOrder
    <2>2. QED
      BY <2>1, AtMostOne
  <1>4. \A i \in at("STATS_REPORT") : \A j \in at("PIPELINE_END") : j < i
    BY <1>1 DEF InOrder
  <1>5. ASSUME NEW i \in at("PIPELINE_END") \cup at("STATS_REPORT"), NEW j \in DOMAIN delivered, j > i
        PROVE  cancelled \/ delivered[j].event = "STATS_REPORT"
    <2>1. PICK e \in Finals : Was(e, i)
      BY <1>1, <1>5 DEF Finals
    <2>2. QED
      BY <1>5, <2>1 DEF InOrder
  <1>6. Cardinality(at("PIPELINE_END")) <= 1 /\ Cardinality(at("STATS_REPORT")) <= 1
    BY <1>3 DEF Finals
  <1>7. QED
    BY <1>2, <1>4, <1>5, <1>6 DEF CallbackOrder, at

LEMMA CopiedGives == Types /\ Copied => StatsReportCovers
  <1> SUFFICES ASSUME Types, Copied,
                      NEW i \in DOMAIN delivered, NEW k \in DOMAIN delivered,
                      delivered[i].event = "STATS_REPORT", delivered[k].event = "PIPELINE_END"
               PROVE  LET before(e) == HowMany(SubSeq(delivered, 1, k), LAMBDA d : d.event = e)
                          gained(f) == delivered[i].stats[f] - case.carried[f]
                      IN  /\ gained("deleted") >= before("DELETE_COMPLETE")
                          /\ gained("failed") >= before("DELETE_FAILED")
                          /\ gained("skipped") >= before("DELETE_FILTERED")
                          /\ gained("errors") >= before("PIPELINE_ERROR")
                          /\ ~cancelled /\ Subscribed("DELETE_COMPLETE")
                                => gained("deleted") = DeliveredOf("DELETE_COMPLETE")
    BY DEF StatsReportCovers
  <1> DEFINE before(e) == HowMany(SubSeq(delivered, 1, k), LAMBDA d : d.event = e)
             gained(f) == delivered[i].stats[f] - case.carried[f]
             S == [event : Events, stats : Counters]
  <1>1. Was("STATS_REPORT", i) /\ Was("PIPELINE_END", k)
    BY DEF Was
  <1>2. Taken /\ delivered[i].stats = cloned
    BY <1>1 DEF Copied
  <1>3. delivered \in Seq(S)
    BY DEF Types
  <1> HIDE DEF S
  <1>4. /\ k \in 1 .. Len(delivered) /\ DOMAIN delivered = 1 .. Len(delivered)
        /\ DOMAIN SubSeq(delivered, 1, k) = 1 .. k
        /\ \A j \in 1 .. k : SubSeq(delivered, 1, k)[j] = delivered[j]
    BY <1>3
  <1>5. ASSUME NEW e PROVE before(e) = CountIn(delivered, k, e) /\ DeliveredOf(e) = Heard(e)
    <2>1. {j \in DOMAIN SubSeq(delivered, 1, k) : SubSeq(delivered, 1, k)[j].event = e}
             = {j \in 1 .. k : delivered[j].event = e}
      BY <1>4
    <2>2. QED
      BY <1>4, <2>1 DEF HowMany, CountIn, DeliveredOf, Heard
  <1>6. ASSUME NEW e \in Counted
        PROVE  /\ gained(FieldOf(e)) = Gained(cloned, e) /\ before(e) <= gained(FieldOf(e))
               /\ before(e) \in Nat /\ gained(FieldOf(e)) \in Int
    <2>1. CountIn(delivered, k, e) <= Gained(cloned, e)
      BY <1>1, <1>2 DEF Copied
    <2>2. cloned[FieldOf(e)] \in Nat /\ case.carried[FieldOf(e)] \in Nat
      BY GainedFacts
    <2>3. gained(FieldOf(e)) = Gained(cloned, e) /\ gained(FieldOf(e)) \in Int
      BY <1>2, <2>2 DEF Gained
    <2>4. CountIn(delivered, k, e) \in Nat
      BY <1>3, <1>4, CountBelow
    <2>5. before(e) = CountIn(delivered, k, e)
      BY <1>5
    <2> HIDE DEF before, gained
    <2>6. QED
      BY <2>1, <2>3, <2>4, <2>5
  <1>7. ~cancelled /\ Subscribed("DELETE_COMPLETE")
           => Gained(cloned, "DELETE_COMPLETE") = Heard("DELETE_COMPLETE")
    BY <1>2 DEF Copied
  <1>8. /\ FieldOf("DELETE_COMPLETE") = "deleted" /\ FieldOf("DELETE_FAILED") = "failed"
        /\ FieldOf("DELETE_FILTERED") = "skipped" /\ FieldOf("PIPELINE_ERROR") = "errors"
    BY DEF FieldOf
  <1> HIDE DEF before, gained
  <1>9. /\ gained("deleted") >= before("DELETE_COMPLETE")
        /\ gained("failed") >= before("DELETE_FAILED")
        /\ gained("skipped") >= before("DELETE_FILTERED")
        /\ gained("errors") >= before("PIPELINE_ERROR")
    <2>1. {"DELETE_COMPLETE", "DELETE_FAILED", "DELETE_FILTERED", "PIPELINE_ERROR"} \subseteq Counted
      BY DEF Counted
    <2>2. /\ gained("deleted") \in Int /\ before("DELETE_COMPLETE") \in Nat
          /\ before("DELETE_COMPLETE") <= gained("deleted")
      BY <1>6, <1>8, <2>1
    <2>3. /\ gained("failed") \in Int /\ before("DELETE_FAILED") \in Nat
          /\ before("DELETE_FAILED") <= gained("failed")
      BY <1>6, <1>8, <2>1
    <2>4. /\ gained("skipped") \in Int /\ before("DELETE_FILTERED") \in Nat
          /\ before("DELETE_FILTERED") <= gained("skipped")
      BY <1>6, <1>8, <2>1
    <2>5. /\ gained("errors") \in Int /\ before("PIPELINE_ERROR") \in Nat
          /\ before("PIPELINE_ERROR") <= gained("errors")
      BY <1>6, <1>8, <2>1
    <2>6. QED
      BY <2>2, <2>3, <2>4, <2>5
  <1>10. ASSUME ~cancelled, Subscribed("DELETE_COMPLETE")
         PROVE  gained("deleted") = DeliveredOf("DELETE_COMPLETE")
    <2>1. "DELETE_COMPLETE" \in Counted
      BY DEF Counted
    <2>2. gained("deleted") = Gained(cloned, "DELETE_COMPLETE")
      BY <1>6, <1>8, <2>1
    <2>3. DeliveredOf("DELETE_COMPLETE") = Heard("DELETE_COMPLETE")
      BY <1>5
    <2>4. QED
      BY <1>7, <1>10, <2>2, <2>3
  <1>11. QED
    BY <1>9, <1>10 DEF before, gained

(* What EventManager tells a registered callback is complete and in order, with   *)
(* any number of workers reporting at the same time: PIPELINE_START comes first,  *)
(* PIPELINE_END and STATS_REPORT once and in that order, and the report counts    *)
(* every event the callback was told of before the end, exactly so unless the     *)
(* run was cancelled.                                                             *)
THEOREM CallbackContractHolds == Spec => []CallbackContract
  <1>1. IInv => CallbackContract
    BY InOrderGives, CopiedGives DEF IInv, CallbackContract
  <1>2. QED
    BY <1>1, IInvInit, IInvNext, PTL DEF Spec

-----------------------------------------------------------------------------
(* What the accounts of a run still lack. *)

(* The operations that add to an account, and where they are in a sequence. *)
Booking == {"fetch_add", "update", "send"}
Books(s, d, w) == \E i \in DOMAIN s : s[i].do = d /\ s[i].what = w
Distinct(s) ==
    \A i, j \in DOMAIN s :
        s[i].do \in Booking /\ s[i].do = s[j].do /\ s[i].what = s[j].what => i = j
(* Objects are counted one by one. *)
ByOne(s) ==
    \A i \in DOMAIN s :
        s[i].do \in {"fetch_add", "send"} /\ s[i].what \in {"deleted", "failed", "skipped"} => s[i].n = 1

(* A reporter books an outcome once; run() books none. *)
ByRun == {"PIPELINE_START", "PIPELINE_ERROR", "DELETE_CANCEL", "PIPELINE_END"}
BooksNone(s) ==
    \A i \in DOMAIN s : s[i].do \notin {"fetch_add", "send"} /\ (s[i].do = "update" => s[i].what \in ByRun)
Booked ==
    /\ \A r \in Reporters : Distinct(todo[r]) /\ ByOne(todo[r])
    /\ BooksNone(todo[Run])

(* One sequence is the end of another. What a reporter has left is the end of its *)
(* outcomes.                                                                      *)
EndOf(c, s) == Len(s) - Len(c) >= 0 /\ \A i \in DOMAIN c : c[i] = s[i + (Len(s) - Len(c))]
Behind(r) == Len(case.outcomes[r]) - Len(left[r])
Remaining == \A r \in Reporters : EndOf(left[r], case.outcomes[r])

(* Outcomes nobody has turned to: all of them until the prerequisites are met. *)
Ahead(r, i) == pc \in {"start", "prerequisites"} \/ i > Behind(r)
Unstarted(k) == {p \in Happened(k) : Ahead(p[1], p[2])}
(* Reporters that have begun a report and not booked it. *)
Pending(d, w) == {r \in Reporters : Books(todo[r], d, w)}

(* The accounts of outcomes, each with the operation that books it and the kinds  *)
(* it counts: what is booked, what is about to be, and what is to come are all    *)
(* that happened.                                                                 *)
Accounts ==
    {<<"fetch_add", "deleted", {"deleted"}>>, <<"fetch_add", "failed", {"failed"}>>,
     <<"update", "DELETE_COMPLETE", {"deleted"}>>, <<"update", "DELETE_FAILED", {"failed"}>>}
        \cup (IF case.registered THEN {<<"update", "DELETE_FILTERED", {"skipped"}>>} ELSE {})
        \cup (IF case.closed_early THEN {}
              ELSE {<<"send", "deleted", {"deleted"}>>, <<"send", "failed", {"failed"}>>,
                    <<"send", "skipped", {"skipped", "missing"}>>})
Value(d, w) ==
    CASE d = "fetch_add" -> report[w]
      [] d = "send" -> Amount(sent, w)
      [] d = "update" -> Gained(pipeline_stats, w)
Balance(d, w, k) ==
    Value(d, w) + Cardinality(Pending(d, w)) + Cardinality(Unstarted(k)) = Outcomes(k)
Balanced ==
    case.prerequisites /\ ~cancelled => \A t \in Accounts : Balance(t[1], t[2], t[3])

(* The bytes of the two accounts differ by what is about to be booked in each:    *)
(* one unit for every byte.                                                       *)
Units(s, d, w) == {u \in Nat : \E i \in DOMAIN s : s[i].do = d /\ s[i].what = w /\ u \in 1 .. s[i].n}
Bytes(d, w) == {p \in Reporters \X Nat : p[2] \in Units(todo[p[1]], d, w)}
Counting == Bytes("fetch_add", "bytes")
Telling == Bytes("update", "DELETE_COMPLETE")
BytesBalanced ==
    /\ IsFiniteSet(Counting) /\ IsFiniteSet(Telling)
    /\ report.bytes + Cardinality(Counting)
          = (pipeline_stats.bytes - case.carried.bytes) + Cardinality(Telling)

(* The channel holds the end of what was sent; the totals count the beginning.    *)
Messages == [do : Dos, what : Fields, n : Nat]
Received == Len(sent) - Len(channel)
Drawn ==
    /\ report \in Counters /\ total \in Counters
    /\ sent \in Seq(Messages) /\ channel \in Seq(Messages)
    /\ EndOf(channel, sent)
    /\ \A f \in Fields : total[f] = Sums(sent, f)[Received]

(* The channel is closed from the start or by run() after its wait; and what the  *)
(* indicator has seen when it asks whether it is.                                 *)
Lookout ==
    /\ closed \in BOOLEAN /\ raced \in BOOLEAN
    /\ closed /\ ~case.closed_early => pc \in {"error", "cancel", "end", "returning", "returned"}
    /\ case.closed_early => closed /\ channel = << >>
    /\ closed /\ ~raced /\ indicator \in {"ask", "returned"} => channel = << >>
    /\ indicator = "returned" => closed

(* A set of natural numbers that has a member has a least one. *)
LEMMA Least ==
    ASSUME NEW T, T \subseteq Nat, T # {}
    PROVE  \E n \in T : \A m \in T : n <= m
  <1> DEFINE R == {ss \in Nat \X Nat : ss[1] < ss[2]}
  <1>1. IsWellFoundedOn(R, Nat)
    BY NatLessThanWellFounded DEF OpToRel
  <1>2. PICK n \in T : \A m \in T : ~(<<m, n>> \in R)
    <2> HIDE DEF R
    <2>1. QED
      BY <1>1, WFMin
  <1>3. \A m \in T : ~(m < n)
    BY <1>2
  <1>4. QED
    BY <1>3

(* A set that has 0 and the successor of each of its members has every number. *)
LEMMA Induct ==
    ASSUME NEW T, T \subseteq Nat, 0 \in T, \A n \in T : n + 1 \in T
    PROVE  T = Nat
  <1>1. SUFFICES ASSUME Nat \ T # {} PROVE FALSE
    OBVIOUS
  <1>2. PICK n \in Nat \ T : \A m \in Nat \ T : n <= m
    BY <1>1, Least
  <1>3. n # 0 /\ n - 1 \in Nat /\ ~(n <= n - 1) /\ (n - 1) + 1 = n
    BY <1>2
  <1>4. n - 1 \in T
    BY <1>2, <1>3
  <1>5. QED
    BY <1>2, <1>3, <1>4

(* What a message adds to a total, and the equation Sums is defined by. *)
Adds(s, f, i) == IF s[i].what = f THEN s[i].n ELSE 0
IsSums(g, s, f, n) == g = [i \in 0 .. n |-> IF i = 0 THEN 0 ELSE g[i - 1] + Adds(s, f, i)]

LEMMA SumsExist ==
    ASSUME NEW s, NEW f, NEW n \in Nat
    PROVE  \E g : IsSums(g, s, f, n)
  <1> DEFINE T == {m \in Nat : \E g : IsSums(g, s, f, m)}
  <1>1. 0 \in T
    <2>1. IsSums([i \in 0 .. 0 |-> 0], s, f, 0)
      BY DEF IsSums
    <2>2. QED
      BY <2>1
  <1>2. ASSUME NEW m \in T
        PROVE  m + 1 \in T
    <2>1. PICK g : IsSums(g, s, f, m)
      OBVIOUS
    <2> DEFINE h == [i \in 0 .. m + 1 |-> IF i = m + 1 THEN g[m] + Adds(s, f, m + 1) ELSE g[i]]
    <2>2. /\ \A i \in 0 .. m : h[i] = g[i]
          /\ h[m + 1] = h[m] + Adds(s, f, m + 1)
      OBVIOUS
    <2>3. \A i \in 0 .. m : g[i] = IF i = 0 THEN 0 ELSE g[i - 1] + Adds(s, f, i)
      BY <2>1 DEF IsSums
    <2>4. \A i \in 0 .. m + 1 : h[i] = IF i = 0 THEN 0 ELSE h[i - 1] + Adds(s, f, i)
      BY <2>2, <2>3
    <2>5. IsSums(h, s, f, m + 1)
      BY <2>4 DEF IsSums
    <2>6. QED
      BY <2>5
  <1>3. T = Nat
    <2> HIDE DEF T
    <2>1. T \subseteq Nat
      BY DEF T
    <2>2. QED
      BY <1>1, <1>2, <2>1, Induct
  <1>4. QED
    BY <1>3

(* Every message adds what it carries to the sum of those before it. *)
LEMMA SumsRule ==
    ASSUME NEW s \in Seq(Messages), NEW f
    PROVE  /\ Len(s) \in Nat /\ Sums(s, f)[0] = 0
           /\ \A i \in 1 .. Len(s) : Adds(s, f, i) \in Nat
           /\ \A i \in 0 .. Len(s) : Sums(s, f)[i] \in Nat
           /\ \A i \in 1 .. Len(s) : Sums(s, f)[i] = Sums(s, f)[i - 1] + Adds(s, f, i)
  <1> DEFINE n == Len(s)
             W == Messages
             g == CHOOSE h : IsSums(h, s, f, n)
  <1>1. \A m \in W : m.n \in Nat
    BY DEF Messages
  <1>2. s \in Seq(W)
    OBVIOUS
  <1> HIDE DEF W
  <1>3. n \in Nat /\ \A i \in 1 .. n : s[i] \in W
    BY <1>2
  <1>4. \A i \in 1 .. n : Adds(s, f, i) \in Nat
    BY <1>1, <1>3 DEF Adds
  <1>5. IsSums(g, s, f, n)
    BY <1>3, SumsExist
  <1>6. Sums(s, f) = g
    BY DEF Sums, IsSums, Adds
  <1> HIDE DEF n, g
  <1>7. /\ g[0] = 0
        /\ \A k \in 1 .. n : g[k] = g[k - 1] + Adds(s, f, k)
    BY <1>3, <1>5 DEF IsSums
  <1> DEFINE T == {k \in Nat : k <= n => g[k] \in Nat}
  <1>8. 0 \in T
    BY <1>7
  <1>9. ASSUME NEW k \in T
        PROVE  k + 1 \in T
    <2>1. k + 1 <= n => g[k + 1] = g[k] + Adds(s, f, k + 1) /\ Adds(s, f, k + 1) \in Nat
      BY <1>3, <1>4, <1>7
    <2>2. QED
      BY <1>3, <2>1
  <1>10. T = Nat
    <2> HIDE DEF T
    <2>1. T \subseteq Nat
      BY DEF T
    <2>2. QED
      BY <1>8, <1>9, <2>1, Induct
  <1>11. \A k \in 0 .. n : g[k] \in Nat
    BY <1>3, <1>10
  <1>12. QED
    BY <1>3, <1>4, <1>6, <1>7, <1>11 DEF n

(* Where one sequence is a part of another, the sums of the one are those of the  *)
(* other less what comes before the part.                                         *)
Part(s, n, t, d) == n <= Len(s) /\ n + d <= Len(t) /\ \A i \in 1 .. n : s[i] = t[i + d]
LEMMA SumsOfPart ==
    ASSUME NEW s \in Seq(Messages), NEW t \in Seq(Messages), NEW f, NEW d \in Nat, NEW n \in Nat,
           Part(s, n, t, d)
    PROVE  \A i \in 0 .. n : Sums(t, f)[i + d] = Sums(t, f)[d] + Sums(s, f)[i]
  <1> USE DEF Part
  <1> DEFINE S == Sums(s, f)
             R == Sums(t, f)
  <1>1. /\ Len(s) \in Nat /\ S[0] = 0 /\ \A i \in 0 .. Len(s) : S[i] \in Nat
        /\ \A i \in 1 .. Len(s) : S[i] = S[i - 1] + Adds(s, f, i) /\ Adds(s, f, i) \in Nat
    BY SumsRule
  <1>2. /\ Len(t) \in Nat /\ \A i \in 0 .. Len(t) : R[i] \in Nat
        /\ \A i \in 1 .. Len(t) : R[i] = R[i - 1] + Adds(t, f, i)
    BY SumsRule
  <1> HIDE DEF S, R
  <1> DEFINE T == {k \in Nat : k <= n => R[k + d] = R[d] + S[k]}
  <1>3. 0 \in T
    BY <1>1, <1>2
  <1>4. ASSUME NEW k \in T
        PROVE  k + 1 \in T
    <2>1. SUFFICES ASSUME k + 1 <= n PROVE R[(k + 1) + d] = R[d] + S[k + 1]
      OBVIOUS
    <2>2. /\ k + 1 \in 1 .. Len(s) /\ (k + 1) + d \in 1 .. Len(t) /\ k + 1 \in 1 .. n
          /\ (k + 1) - 1 = k /\ ((k + 1) + d) - 1 = k + d /\ k \in 0 .. Len(s) /\ d \in 0 .. Len(t)
      BY <1>1, <1>2, <2>1
    <2>3. Adds(t, f, (k + 1) + d) = Adds(s, f, k + 1)
      BY <2>2 DEF Adds
    <2>4. S[k + 1] = S[k] + Adds(s, f, k + 1) /\ Adds(s, f, k + 1) \in Nat /\ S[k] \in Nat
      BY <1>1, <2>2
    <2>5. R[(k + 1) + d] = R[k + d] + Adds(s, f, k + 1) /\ R[d] \in Nat
      BY <1>2, <2>2, <2>3
    <2>6. R[k + d] = R[d] + S[k]
      BY <2>1
    <2>7. QED
      BY <2>4, <2>5, <2>6
  <1>5. T = Nat
    <2> HIDE DEF T
    <2>1. T \subseteq Nat
      BY DEF T
    <2>2. QED
      BY <1>3, <1>4, <2>1, Induct
  <1>6. ASSUME NEW k \in 0 .. n PROVE R[k + d] = R[d] + S[k]
    <2>1. k \in T /\ k <= n
      BY <1>5
    <2>2. QED
      BY <2>1
  <1>7. QED
    BY <1>6 DEF S, R

LEMMA SumsAppended ==
    ASSUME NEW s \in Seq(Messages), NEW x \in Messages, NEW f
    PROVE  \A i \in 0 .. Len(s) : Sums(Append(s, x), f)[i] = Sums(s, f)[i]
  <1> DEFINE t == Append(s, x)
             n == Len(s)
  <1>1. /\ t \in Seq(Messages) /\ n \in Nat /\ Len(t) = n + 1
        /\ \A i \in 1 .. n : s[i] = t[i]
    BY Appended
  <1>2. Sums(t, f)[0] = 0 /\ \A i \in 0 .. n : Sums(s, f)[i] \in Nat
    BY <1>1, SumsRule
  <1> HIDE DEF t, n
  <1> DEFINE z == 0
  <1>3. z \in Nat /\ \A i \in Nat : i + z = i
    OBVIOUS
  <1> HIDE DEF z
  <1>4. Part(s, n, t, z)
    BY <1>1, <1>3 DEF n, Part
  <1>5. \A i \in 0 .. n : Sums(t, f)[i + z] = Sums(t, f)[z] + Sums(s, f)[i]
    BY <1>1, <1>3, <1>4, SumsOfPart
  <1>6. QED
    BY <1>1, <1>2, <1>3, <1>5 DEF t, n, z

LEMMA AmountFacts ==
    ASSUME NEW s \in Seq(Messages), NEW f
    PROVE  /\ Amount(s, f) \in Nat
           /\ \A x \in Messages : Amount(Append(s, x), f) = Amount(s, f) + IF x.what = f THEN x.n ELSE 0
  <1>1. Amount(s, f) \in Nat
    <2>1. Len(s) \in Nat /\ \A i \in 0 .. Len(s) : Sums(s, f)[i] \in Nat
      BY SumsRule
    <2>2. Len(s) \in 0 .. Len(s)
      BY <2>1
    <2>3. QED
      BY <2>1, <2>2 DEF Amount
  <1>2. ASSUME NEW x \in Messages
        PROVE  Amount(Append(s, x), f) = Amount(s, f) + IF x.what = f THEN x.n ELSE 0
    <2> DEFINE t == Append(s, x)
               n == Len(s)
    <2>1. t \in Seq(Messages) /\ n \in Nat /\ Len(t) = n + 1 /\ t[n + 1] = x
      BY Appended
    <2>2. \A i \in 0 .. n : Sums(t, f)[i] = Sums(s, f)[i]
      BY SumsAppended
    <2>3. \A i \in 1 .. Len(t) : Sums(t, f)[i] = Sums(t, f)[i - 1] + Adds(t, f, i)
      BY <2>1, SumsRule
    <2> HIDE DEF t, n
    <2>4. n + 1 \in 1 .. Len(t) /\ (n + 1) - 1 = n /\ n \in 0 .. n
      BY <2>1
    <2>5. Sums(t, f)[n + 1] = Sums(s, f)[n] + Adds(t, f, n + 1)
      BY <2>2, <2>3, <2>4
    <2>6. QED
      BY <2>1, <2>5 DEF Amount, Adds, t, n
  <1>3. QED
    BY <1>1, <1>2

-----------------------------------------------------------------------------
(* The indicator's totals. *)

(* A counter or a message has the name of a field. *)
LEMMA HeadField ==
    ASSUME Types, Begun, NEW a \in Actors, todo[a] # << >>, Head(todo[a]).do \in {"fetch_add", "send"}
    PROVE  Head(todo[a]).what \in Fields /\ Head(todo[a]).n \in Nat /\ Head(todo[a]) \in Messages
  <1>1. Head(todo[a]) \in Ops /\ todo[a] \in Seq(Ops)
    BY HeadIsOp
  <1>2. 1 \in DOMAIN todo[a] /\ Head(todo[a]) = todo[a][1] /\ Linked(todo[a], Subs)
    BY <1>1 DEF Begun, WellFormed
  <1>3. Head(todo[a]).what \in Fields
    BY <1>2 DEF Linked
  <1>4. QED
    BY <1>1, <1>3 DEF Ops, Messages

(* Who writes to the counters, the channel and the totals. *)
LEMMA DrawnSteps ==
    ASSUME [Next]_vars
    PROVE  \/ UNCHANGED <<report, total, channel, sent>>
           \/ \E a \in Actors : FetchAdd(a) \/ SendStats(a)
           \/ TryRecv
  <1>1. ASSUME NEW a \in Actors, Perform(a)
        PROVE  FetchAdd(a) \/ SendStats(a) \/ UNCHANGED <<report, total, channel, sent>>
    BY <1>1 DEF Perform, Update, EnterCallback, LeaveCallback, CloneStats, CancelToken, RecordError
  <1>2. CASE RunStep
    BY <1>2, RunBegins DEF RunUnchanged
  <1>3. QED
    BY <1>1, <1>2 DEF Next, NextOutcome, Cancel, Drained, Refresh, IsClosed, Sleep, IndicatorUnchanged, vars

LEMMA DrawnSend ==
    ASSUME NEW s \in Seq(Messages), NEW c \in Seq(Messages), NEW m \in Messages,
           EndOf(c, s)
    PROVE  /\ Append(s, m) \in Seq(Messages) /\ Append(c, m) \in Seq(Messages)
           /\ Len(Append(s, m)) - Len(Append(c, m)) = Len(s) - Len(c)
           /\ EndOf(Append(c, m), Append(s, m))
           /\ \A f : Sums(Append(s, m), f)[Len(s) - Len(c)] = Sums(s, f)[Len(s) - Len(c)]
  <1> USE DEF EndOf
  <1> DEFINE t == Append(s, m)
             d == Append(c, m)
             n == Len(s)
             k == Len(c)
  <1>1. /\ t \in Seq(Messages) /\ n \in Nat /\ Len(t) = n + 1
        /\ \A i \in 1 .. n : t[i] = s[i]
        /\ t[n + 1] = m
    BY Appended
  <1>2. /\ d \in Seq(Messages) /\ k \in Nat /\ Len(d) = k + 1
        /\ DOMAIN c = 1 .. k /\ DOMAIN d = 1 .. k + 1
        /\ \A i \in 1 .. k : d[i] = c[i]
        /\ d[k + 1] = m
    BY Appended
  <1>3. \A f : \A i \in 0 .. n : Sums(t, f)[i] = Sums(s, f)[i]
    BY SumsAppended
  <1>4. n - k >= 0 /\ \A i \in 1 .. k : c[i] = s[i + (n - k)]
    BY <1>2
  <1> HIDE DEF t, d, n, k
  <1>5. Len(t) - Len(d) = n - k /\ n - k \in 0 .. n
    BY <1>1, <1>2, <1>4
  <1>6. ASSUME NEW i \in 1 .. k + 1 PROVE d[i] = t[i + (n - k)]
    <2>1. CASE i = k + 1
      <3>1. i + (n - k) = n + 1
        BY <1>1, <1>2, <2>1
      <3>2. QED
        BY <1>1, <1>2, <2>1, <3>1
    <2>2. CASE i \in 1 .. k
      <3>1. i + (n - k) \in 1 .. n
        BY <1>1, <1>2, <1>4, <2>2
      <3>2. QED
        BY <1>1, <1>2, <1>4, <2>2, <3>1
    <2>3. QED
      BY <1>2, <2>1, <2>2
  <1>7. \A f : Sums(t, f)[n - k] = Sums(s, f)[n - k]
    BY <1>3, <1>5
  <1>8. QED
    BY <1>1, <1>2, <1>5, <1>6, <1>7 DEF t, d, n, k

(* The end of a sequence, less its first element. *)
LEMMA EndOfTail ==
    ASSUME NEW S, NEW s \in Seq(S), NEW c \in Seq(S), c # << >>, EndOf(c, s)
    PROVE  /\ Tail(c) \in Seq(S) /\ Head(c) \in S /\ EndOf(Tail(c), s)
           /\ Len(s) - Len(Tail(c)) = (Len(s) - Len(c)) + 1 /\ (Len(s) - Len(c)) + 1 \in 1 .. Len(s)
           /\ Len(s) - Len(c) \in Nat /\ Head(c) = s[(Len(s) - Len(c)) + 1]
  <1> USE DEF EndOf
  <1> DEFINE d == Tail(c)
             n == Len(s)
             k == Len(c)
  <1>1. /\ d \in Seq(S) /\ DOMAIN d = 1 .. k - 1 /\ k \in Nat /\ DOMAIN c = 1 .. k
        /\ Head(c) = c[1] /\ 1 \in DOMAIN c
        /\ \A i \in DOMAIN d : d[i] = c[i + 1] /\ i + 1 \in DOMAIN c
    BY Popped
  <1>2. Len(d) = k - 1 /\ n \in Nat /\ Head(c) \in S
    OBVIOUS
  <1>3. n - k >= 0 /\ \A i \in 1 .. k : c[i] = s[i + (n - k)]
    BY <1>1
  <1> HIDE DEF d, n, k
  <1>4. n - Len(d) = (n - k) + 1 /\ (n - k) + 1 \in 1 .. n /\ 1 + (n - k) = (n - k) + 1 /\ n - k \in Nat
    BY <1>1, <1>2, <1>3
  <1>5. ASSUME NEW i \in DOMAIN d PROVE d[i] = s[i + ((n - k) + 1)]
    <2>1. d[i] = c[i + 1] /\ i + 1 \in 1 .. k
      BY <1>1
    <2>2. c[i + 1] = s[(i + 1) + (n - k)] /\ i \in Int
      BY <1>1, <1>3, <2>1
    <2>3. (i + 1) + (n - k) = i + ((n - k) + 1)
      BY <1>1, <1>2, <2>2
    <2>4. QED
      BY <2>1, <2>2, <2>3
  <1>6. Head(c) = s[(n - k) + 1]
    BY <1>1, <1>3, <1>4
  <1>7. n - Len(d) >= 0
    BY <1>1, <1>2, <1>3
  <1>8. QED
    BY <1>1, <1>2, <1>4, <1>5, <1>6, <1>7 DEF d, n, k

LEMMA DrawnRecv ==
    ASSUME NEW s \in Seq(Messages), NEW c \in Seq(Messages), c # << >>, EndOf(c, s)
    PROVE  /\ Tail(c) \in Seq(Messages) /\ Head(c) \in Messages /\ EndOf(Tail(c), s)
           /\ \A f : Sums(s, f)[Len(s) - Len(Tail(c))]
                       = Sums(s, f)[Len(s) - Len(c)] + IF Head(c).what = f THEN Head(c).n ELSE 0
  <1> DEFINE k == Len(s) - Len(c)
  <1>1. /\ Tail(c) \in Seq(Messages) /\ Head(c) \in Messages /\ EndOf(Tail(c), s)
        /\ Len(s) - Len(Tail(c)) = k + 1 /\ k + 1 \in 1 .. Len(s) /\ k \in Nat /\ Head(c) = s[k + 1]
    BY EndOfTail
  <1>2. \A f : \A i \in 1 .. Len(s) : Sums(s, f)[i] = Sums(s, f)[i - 1] + Adds(s, f, i)
    BY SumsRule
  <1> HIDE DEF k
  <1>3. (k + 1) - 1 = k
    BY <1>1
  <1>4. \A f : Sums(s, f)[k + 1] = Sums(s, f)[k] + IF Head(c).what = f THEN Head(c).n ELSE 0
    BY <1>1, <1>2, <1>3 DEF Adds
  <1>5. QED
    BY <1>1, <1>4 DEF k

LEMMA DrawnNext == Types /\ Begun /\ Drawn /\ [Next]_vars => Drawn'
  <1> SUFFICES ASSUME Types, Begun, Drawn, [Next]_vars PROVE Drawn'
    OBVIOUS
  <1>1. CASE UNCHANGED <<report, total, channel, sent>>
    BY <1>1 DEF Drawn, Received
  <1>2. ASSUME NEW a \in Actors, FetchAdd(a) PROVE Drawn'
    <2>1. report' \in Counters
      <3>1. Head(todo[a]).what \in Fields /\ Head(todo[a]).n \in Nat
        BY <1>2, HeadField DEF FetchAdd, Doing
      <3>2. report' = Plus(report, Head(todo[a]).what, Head(todo[a]).n) /\ report \in Counters
        BY <1>2 DEF FetchAdd, Drawn
      <3>3. QED
        BY <3>1, <3>2, PlusFields
    <2>2. UNCHANGED <<total, channel, sent>>
      BY <1>2 DEF FetchAdd
    <2>3. QED
      BY <2>1, <2>2 DEF Drawn, Received
  <1>3. ASSUME NEW a \in Actors, SendStats(a) PROVE Drawn'
    <2>1. UNCHANGED <<report, total>> /\ Head(todo[a]) \in Messages
      BY <1>3, HeadField DEF SendStats, Doing
    <2>2. CASE UNCHANGED <<channel, sent>>
      BY <1>1, <2>1, <2>2
    <2>3. CASE channel' = Append(channel, Head(todo[a])) /\ sent' = Append(sent, Head(todo[a]))
      <3>1. /\ sent \in Seq(Messages) /\ channel \in Seq(Messages)
            /\ EndOf(channel, sent)
        BY DEF Drawn, Received
      <3>2. /\ sent' \in Seq(Messages) /\ channel' \in Seq(Messages)
            /\ Len(sent') - Len(channel') = Len(sent) - Len(channel)
            /\ EndOf(channel', sent')
            /\ \A f : Sums(sent', f)[Len(sent) - Len(channel)] = Sums(sent, f)[Len(sent) - Len(channel)]
        BY <2>1, <2>3, <3>1, DrawnSend
      <3>3. Received' = Received
        BY <3>2 DEF Received
      <3>4. QED
        BY <2>1, <3>2, <3>3 DEF Drawn, Received
    <2>4. QED
      BY <1>3, <2>2, <2>3 DEF SendStats
  <1>4. CASE TryRecv
    <2>1. /\ channel # << >> /\ channel' = Tail(channel) /\ UNCHANGED <<report, sent>>
          /\ total' = Plus(total, Head(channel).what, Head(channel).n)
      BY <1>4 DEF TryRecv, IndicatorUnchanged, Count
    <2>2. /\ sent \in Seq(Messages) /\ channel \in Seq(Messages)
          /\ EndOf(channel, sent)
      BY DEF Drawn, Received
    <2>3. /\ channel' \in Seq(Messages) /\ Head(channel) \in Messages
          /\ EndOf(channel', sent)
          /\ \A f : Sums(sent, f)[Len(sent) - Len(channel')]
                      = Sums(sent, f)[Len(sent) - Len(channel)]
                          + IF Head(channel).what = f THEN Head(channel).n ELSE 0
      BY <2>1, <2>2, DrawnRecv
    <2>4. Head(channel).what \in Fields /\ Head(channel).n \in Nat
      BY <2>3 DEF Messages
    <2>5. total' \in Counters /\ \A f \in Fields : total[f] \in Nat
            /\ total'[f] = IF f = Head(channel).what THEN total[f] + Head(channel).n ELSE total[f]
      <3>1. total \in Counters
        BY DEF Drawn
      <3> DEFINE w == Head(channel).what
                 k == Head(channel).n
      <3>2. w \in Fields /\ k \in Nat /\ total' = Plus(total, w, k)
        BY <2>1, <2>4
      <3> HIDE DEF w, k
      <3>3. /\ Plus(total, w, k) \in Counters
            /\ \A f \in Fields : total[f] \in Nat /\ Plus(total, w, k)[f] = IF f = w THEN total[f] + k ELSE total[f]
        BY <3>1, <3>2, PlusFields
      <3>4. QED
        BY <3>2, <3>3 DEF w, k
    <2>6. ASSUME NEW f \in Fields PROVE total'[f] = Sums(sent, f)[Len(sent) - Len(channel')]
      <3>1. total[f] = Sums(sent, f)[Len(sent) - Len(channel)] /\ total[f] \in Nat
        BY <2>5 DEF Drawn, Received
      <3>2. Sums(sent, f)[Len(sent) - Len(channel')]
              = total[f] + IF Head(channel).what = f THEN Head(channel).n ELSE 0
        BY <2>3, <3>1
      <3>3. total'[f] = IF f = Head(channel).what THEN total[f] + Head(channel).n ELSE total[f]
        BY <2>5
      <3>4. QED
        BY <2>4, <3>1, <3>2, <3>3
    <2>7. QED
      BY <2>1, <2>2, <2>3, <2>5, <2>6 DEF Drawn, Received
  <1>5. QED
    BY <1>1, <1>2, <1>3, <1>4, DrawnSteps

LEMMA LookoutNext == Types /\ Lookout /\ [Next]_vars => Lookout'
  <1> SUFFICES ASSUME Types, Lookout, [Next]_vars PROVE Lookout'
    OBVIOUS
  <1>1. CASE UNCHANGED <<case, pc, channel, closed, raced, indicator>>
    BY <1>1 DEF Lookout
  <1>2. ASSUME NEW a \in Actors, Perform(a) PROVE Lookout'
    <2>1. CASE SendStats(a)
      <3>1. /\ UNCHANGED <<case, pc, closed, raced, indicator>>
            /\ closed => channel' = channel
        BY <2>1 DEF SendStats
      <3>2. QED
        BY <3>1 DEF Lookout
    <2>2. CASE ~SendStats(a)
      BY <1>1, <1>2, <2>2 DEF Perform, FetchAdd, Update, EnterCallback, LeaveCallback, CloneStats,
                              CancelToken, RecordError
    <2>3. QED
      BY <2>1, <2>2
  <1>3. CASE RunStep
    <2>1. UNCHANGED <<case, channel, indicator>>
      BY <1>3, RunBegins DEF RunUnchanged
    <2>2. CASE CloseStats
      <3>1. /\ pc = "shutdown" /\ pc' = "error" /\ closed' = TRUE
            /\ raced' = (~closed /\ indicator = "ask")
        BY <2>2 DEF CloseStats, RunAt, Shutdown
      <3>2. closed => channel = << >>
        BY <3>1 DEF Lookout
      <3>3. ~closed /\ indicator \in {"ask", "returned"} => raced'
        BY <3>1 DEF Lookout
      <3>4. raced' \in BOOLEAN
        BY <3>1
      <3>5. QED
        BY <2>1, <3>1, <3>2, <3>3, <3>4 DEF Lookout
    <2>3. CASE ~CloseStats
      <3> DEFINE Late == {"error", "cancel", "end", "returning", "returned"}
      <3>1. UNCHANGED <<closed, raced>> /\ (pc \in Late => pc' \in Late)
        BY <1>3, <2>3 DEF RunStep, Start, Prerequisites, Executed, FireError, FireCancel, FireEnd, Return, RunAt
      <3>2. QED
        BY <2>1, <3>1 DEF Lookout
    <2>4. QED
      BY <2>2, <2>3
  <1>4. CASE TryRecv \/ Drained \/ Refresh \/ IsClosed \/ Sleep
    <2>1. UNCHANGED <<case, pc, closed>>
      BY <1>4 DEF TryRecv, Drained, Refresh, IsClosed, Sleep, IndicatorUnchanged
    <2>2. CASE TryRecv
      BY <2>1, <2>2 DEF TryRecv, Lookout
    <2>3. CASE Drained
      BY <2>1, <2>3 DEF Drained, Lookout
    <2>4. CASE Refresh \/ Sleep
      BY <2>1, <2>4 DEF Refresh, Sleep, Lookout
    <2>5. CASE IsClosed
      BY <2>1, <2>5 DEF IsClosed, Lookout
    <2>6. QED
      BY <1>4, <2>2, <2>3, <2>4, <2>5
  <1>5. QED
    BY <1>1, <1>2, <1>3, <1>4 DEF Next, NextOutcome, Cancel, vars

LEMMA DrawnGives == Drawn => IndicatorConserves
  <1> SUFFICES ASSUME Drawn, NEW f \in DOMAIN Zero
               PROVE  total[f] + Amount(channel, f) = Amount(sent, f)
    BY DEF IndicatorConserves
  <1>1. f \in Fields
    BY DEF Zero, Fields
  <1> DEFINE d == Received
             n == Len(channel)
  <1>2. /\ sent \in Seq(Messages) /\ channel \in Seq(Messages)
        /\ \A i \in 1 .. n : channel[i] = sent[i + d]
        /\ total[f] = Sums(sent, f)[d]
    BY <1>1 DEF Drawn, EndOf, Received
  <1>3. n \in Nat /\ Len(sent) \in Nat
    BY <1>2
  <1>4. d \in Nat /\ n <= Len(channel) /\ n + d <= Len(sent) /\ n \in 0 .. n /\ n + d = Len(sent)
    BY <1>3 DEF Drawn, Received, EndOf
  <1> HIDE DEF d, n
  <1>5. \A i \in 0 .. n : Sums(sent, f)[i + d] = Sums(sent, f)[d] + Sums(channel, f)[i]
    <2>1. Part(channel, n, sent, d)
      BY <1>2, <1>4 DEF Part
    <2>2. QED
      BY <1>2, <1>3, <1>4, <2>1, SumsOfPart
  <1>6. QED
    BY <1>2, <1>4, <1>5 DEF Amount, n

-----------------------------------------------------------------------------
(* What a report books. *)

(* P are the bookings of s, each of them once. *)
Tally(s, P) ==
    /\ s \in Seq(Ops) /\ Distinct(s)
    /\ \A i \in DOMAIN s : s[i].do \in Booking => s[i] \in P
    /\ \A p \in P : \E i \in DOMAIN s : s[i] = p
Apart(P, Q) == \A p \in P : \A q \in Q : ~(p.do = q.do /\ p.what = q.what)

LEMMA TallyJoined ==
    ASSUME NEW s, NEW t, NEW P, NEW Q, Tally(s, P), Tally(t, Q), Apart(P, Q)
    PROVE  Tally(s \o t, P \cup Q)
  <1> DEFINE u == s \o t
             n == Len(s)
  <1>1. s \in Seq(Ops) /\ t \in Seq(Ops)
    BY DEF Tally
  <1>2. /\ n \in Nat /\ Len(t) \in Nat /\ DOMAIN s = 1 .. n /\ DOMAIN t = 1 .. Len(t)
        /\ u \in Seq(Ops) /\ DOMAIN u = 1 .. n + Len(t)
        /\ \A i \in 1 .. n : u[i] = s[i]
        /\ \A i \in n + 1 .. n + Len(t) : u[i] = t[i - n]
    BY <1>1, Concatenation
  <1>3. \A i \in DOMAIN u : \/ i \in DOMAIN s /\ u[i] = s[i]
                            \/ i \notin DOMAIN s /\ i - n \in DOMAIN t /\ u[i] = t[i - n]
    BY <1>1, Origin
  <1> HIDE DEF u, n
  <1>4. ASSUME NEW i \in DOMAIN s, NEW j \in DOMAIN t,
               s[i].do \in Booking, s[i].do = t[j].do, s[i].what = t[j].what
        PROVE  FALSE
    BY <1>4 DEF Tally, Apart
  <1>5. ASSUME NEW i \in DOMAIN u, NEW j \in DOMAIN u,
               u[i].do \in Booking, u[i].do = u[j].do, u[i].what = u[j].what
        PROVE  i = j
    <2>1. CASE i \in DOMAIN s /\ j \in DOMAIN s
      BY <1>3, <1>5, <2>1 DEF Tally, Distinct
    <2>2. CASE i \notin DOMAIN s /\ j \notin DOMAIN s
      <3>1. i - n = j - n
        BY <1>3, <1>5, <2>2 DEF Tally, Distinct
      <3>2. i \in Int /\ j \in Int
        BY <1>2
      <3>3. QED
        BY <1>2, <3>1, <3>2
    <2>3. CASE i \in DOMAIN s /\ j \notin DOMAIN s
      BY <1>3, <1>4, <1>5, <2>3
    <2>4. CASE i \notin DOMAIN s /\ j \in DOMAIN s
      BY <1>3, <1>4, <1>5, <2>4
    <2>5. QED
      BY <2>1, <2>2, <2>3, <2>4
  <1>6. ASSUME NEW i \in DOMAIN u, u[i].do \in Booking PROVE u[i] \in P \cup Q
    BY <1>3, <1>6 DEF Tally
  <1>7. ASSUME NEW p \in P \cup Q PROVE \E i \in DOMAIN u : u[i] = p
    <2>1. CASE p \in P
      <3>1. PICK i \in DOMAIN s : s[i] = p
        BY <2>1 DEF Tally
      <3>2. i \in DOMAIN u /\ u[i] = p
        BY <1>2, <3>1
      <3>3. QED
        BY <3>2
    <2>2. CASE p \in Q
      <3>1. PICK i \in DOMAIN t : t[i] = p
        BY <2>2 DEF Tally
      <3>2. i + n \in n + 1 .. n + Len(t) /\ (i + n) - n = i /\ i + n \in DOMAIN u
        BY <1>2
      <3>3. u[i + n] = p
        BY <1>2, <3>1, <3>2
      <3>4. QED
        BY <3>2, <3>3
    <2>3. QED
      BY <2>1, <2>2
  <1>8. Tally(u, P \cup Q)
    BY <1>2, <1>5, <1>6, <1>7 DEF Tally, Distinct
  <1>9. QED
    BY <1>8 DEF u

LEMMA TallyMore ==
    ASSUME NEW s, NEW t, NEW P, Tally(s, P), Tally(t, {})
    PROVE  Tally(s \o t, P) /\ Tally(t \o s, P)
  <1>1. Apart(P, {}) /\ Apart({}, P) /\ P \cup {} = P /\ {} \cup P = P
    BY DEF Apart
  <1>2. Tally(s \o t, P \cup {}) /\ Tally(t \o s, {} \cup P)
    BY <1>1, TallyJoined
  <1>3. QED
    BY <1>1, <1>2

LEMMA TallyNone == Tally(<< >>, {})
  <1>1. << >> \in Seq(Ops) /\ DOMAIN << >> = {}
    OBVIOUS
  <1>2. QED
    BY <1>1 DEF Tally, Distinct

LEMMA TallyOne ==
    ASSUME NEW d \in Dos, NEW w \in OpNames, NEW n \in Nat
    PROVE  /\ d \in Booking => Tally(<<Op(d, w, n)>>, {Op(d, w, n)})
           /\ d \notin Booking => Tally(<<Op(d, w, n)>>, {})
  <1> DEFINE o == Op(d, w, n)
             s == <<o>>
  <1>1. o \in Ops /\ o.do = d
    BY DEF Op, Ops, OpNames
  <1> HIDE DEF o
  <1>2. s \in Seq(Ops) /\ DOMAIN s = {1} /\ s[1] = o
    BY <1>1
  <1> HIDE DEF s
  <1>3. Distinct(s)
    BY <1>2 DEF Distinct
  <1>4. QED
    BY <1>1, <1>2, <1>3 DEF Tally, s, o

LEMMA Two ==
    ASSUME NEW x \in Ops, NEW y \in Ops
    PROVE  <<x, y>> = <<x>> \o <<y>>
  <1> DEFINE u == <<x>> \o <<y>>
             v == <<x, y>>
  <1>1. u \in Seq(Ops) /\ Len(u) = 2 /\ u[1] = x /\ u[2] = y
    OBVIOUS
  <1>2. v \in Seq(Ops) /\ Len(v) = 2 /\ v[1] = x /\ v[2] = y
    OBVIOUS
  <1> HIDE DEF u, v
  <1>3. \A i \in 1 .. 2 : u[i] = v[i]
    BY <1>1, <1>2
  <1>4. u = v
    BY <1>1, <1>2, <1>3
  <1>5. QED
    BY <1>4 DEF u, v

LEMMA TallyTwo ==
    ASSUME NEW d \in Dos, NEW w \in OpNames, NEW n \in Nat,
           NEW e \in Dos, NEW v \in OpNames, NEW m \in Nat, ~(d = e /\ w = v)
    PROVE  LET s == <<Op(d, w, n), Op(e, v, m)>>
           IN  /\ d \in Booking /\ e \in Booking => Tally(s, {Op(d, w, n), Op(e, v, m)})
               /\ d \notin Booking /\ e \in Booking => Tally(s, {Op(e, v, m)})
               /\ d \notin Booking /\ e \notin Booking => Tally(s, {})
  <1> DEFINE x == Op(d, w, n)
             y == Op(e, v, m)
  <1>1. x \in Ops /\ y \in Ops /\ x.do = d /\ x.what = w /\ y.do = e /\ y.what = v
    BY DEF Op, Ops, OpNames
  <1>2. /\ d \in Booking => Tally(<<x>>, {x})
        /\ d \notin Booking => Tally(<<x>>, {})
        /\ e \in Booking => Tally(<<y>>, {y})
        /\ e \notin Booking => Tally(<<y>>, {})
    BY TallyOne
  <1> HIDE DEF x, y
  <1>3. <<x, y>> = <<x>> \o <<y>>
    BY <1>1, Two
  <1>4. Apart({x}, {y}) /\ {x} \cup {y} = {x, y}
    BY <1>1 DEF Apart
  <1>5. ASSUME d \in Booking, e \in Booking PROVE Tally(<<x, y>>, {x, y})
    <2>1. Tally(<<x>> \o <<y>>, {x} \cup {y})
      BY <1>2, <1>4, <1>5, TallyJoined
    <2>2. QED
      BY <1>3, <1>4, <2>1
  <1>6. ASSUME d \notin Booking PROVE /\ e \in Booking => Tally(<<x, y>>, {y})
                                      /\ e \notin Booking => Tally(<<x, y>>, {})
    BY <1>2, <1>3, <1>6, TallyMore
  <1>7. QED
    BY <1>5, <1>6 DEF x, y

LEMMA TallyDispatch ==
    ASSUME NEW e \in Events
    PROVE  Tally(Dispatch(e), {})
  <1>1. Tally(<<Op("enter", e, 0), Op("leave", e, 0)>>, {})
    BY TallyTwo DEF Dos, OpNames, Booking
  <1>2. QED
    BY <1>1, TallyNone DEF Dispatch

(* trigger_event books its event. *)
LEMMA TallyEvent ==
    ASSUME NEW e \in Events, NEW n \in Nat
    PROVE  Tally(TriggerEvent(e, n), {Op("update", e, n)})
  <1> DEFINE o == Op("update", e, n)
             c == IF e = "PIPELINE_END" /\ Subscribed("STATS_REPORT")
                  THEN <<Op("clone", e, 0)>> \o Dispatch("STATS_REPORT") ELSE << >>
  <1>1. Tally(<<o>>, {o}) /\ Tally(<<Op("clone", e, 0)>>, {})
    BY TallyOne DEF Dos, OpNames, Booking
  <1>2. Tally(Dispatch(e), {}) /\ Tally(Dispatch("STATS_REPORT"), {})
    BY TallyDispatch DEF Events
  <1>3. Tally(<<Op("clone", e, 0)>> \o Dispatch("STATS_REPORT"), {})
    BY <1>1, <1>2, TallyMore
  <1>4. Tally(c, {})
    BY <1>3, TallyNone
  <1>5. TriggerEvent(e, n) = <<o>> \o Dispatch(e) \o c
    BY DEF TriggerEvent
  <1> HIDE DEF o, c
  <1>6. Tally(<<o>> \o Dispatch(e), {o})
    BY <1>1, <1>2, TallyMore
  <1>7. QED
    BY <1>4, <1>5, <1>6, TallyMore DEF o

Entries(o) ==
    CASE o.kind = "deleted" -> {Op("fetch_add", "deleted", 1), Op("fetch_add", "bytes", o.size)}
                                  \cup {Op("send", "deleted", 1), Op("send", "bytes", o.size)}
                                  \cup {Op("update", "DELETE_COMPLETE", o.size)}
      [] o.kind = "failed" -> {Op("send", "failed", 1), Op("fetch_add", "failed", 1)}
                                  \cup {Op("update", "DELETE_FAILED", 0)}
      [] o.kind = "skipped" -> {Op("send", "skipped", 1)}
                                  \cup (IF case.registered THEN {Op("update", "DELETE_FILTERED", 0)} ELSE {})
      [] o.kind = "missing" -> {Op("send", "skipped", 1)}
      [] o.kind = "error" -> IF case.registered THEN {Op("update", "PIPELINE_ERROR", 0)} ELSE {}

LEMMA ReportTally ==
    ASSUME NEW o \in Outcome
    PROVE  Tally(ReportOf(o), Entries(o))
  <1>0. o.size \in Nat /\ o.kind \in {"deleted", "failed", "skipped", "missing", "error"}
    BY DEF Outcome
  <1>1. CASE o.kind = "deleted"
    <2> DEFINE P == {Op("fetch_add", "deleted", 1), Op("fetch_add", "bytes", o.size)}
               R == {Op("send", "deleted", 1), Op("send", "bytes", o.size)}
               Q == {Op("update", "DELETE_COMPLETE", o.size)}
               s == IncrementDeleted(o.size)
               t == <<Op("send", "deleted", 1), Op("send", "bytes", o.size)>>
               e == TriggerEvent("DELETE_COMPLETE", o.size)
    <2>1. Tally(s, P)
      BY <1>0, TallyTwo DEF IncrementDeleted, Dos, OpNames, Fields, Booking
    <2>2. Tally(t, R)
      BY <1>0, TallyTwo DEF Dos, OpNames, Fields, Booking
    <2>3. Tally(e, Q)
      BY <1>0, TallyEvent DEF Events
    <2>4. Apart(P, R) /\ Apart(P \cup R, Q)
      BY DEF Apart, Op
    <2>5. ReportOf(o) = s \o t \o e /\ Entries(o) = P \cup R \cup Q
      BY <1>1 DEF ReportOf, ReportDeleted, Entries
    <2> HIDE DEF P, Q, R, s, t, e
    <2>6. Tally(s \o t, P \cup R)
      BY <2>1, <2>2, <2>4, TallyJoined
    <2>7. QED
      BY <2>3, <2>4, <2>5, <2>6, TallyJoined
  <1>2. CASE o.kind = "failed"
    <2> DEFINE P == {Op("send", "failed", 1), Op("fetch_add", "failed", 1)}
               Q == {Op("update", "DELETE_FAILED", 0)}
               s == <<Op("send", "failed", 1), Op("fetch_add", "failed", 1)>>
               e == TriggerEvent("DELETE_FAILED", 0)
    <2>1. Tally(s, P)
      BY TallyTwo DEF Dos, OpNames, Fields, Booking
    <2>2. Tally(e, Q)
      BY TallyEvent DEF Events
    <2>3. Apart(P, Q)
      BY DEF Apart, Op
    <2>4. ReportOf(o) = s \o e /\ Entries(o) = P \cup Q
      BY <1>2 DEF ReportOf, ReportFailed, Entries
    <2> HIDE DEF P, Q, s, e
    <2>5. QED
      BY <2>1, <2>2, <2>3, <2>4, TallyJoined
  <1>3. CASE o.kind = "skipped"
    <2> DEFINE s == <<Op("send", "skipped", 1)>>
               e == IfRegistered(TriggerEvent("DELETE_FILTERED", 0))
               P == {Op("send", "skipped", 1)}
               Q == IF case.registered THEN {Op("update", "DELETE_FILTERED", 0)} ELSE {}
    <2>1. Tally(s, P)
      BY TallyOne DEF Dos, OpNames, Fields, Booking
    <2>2. Tally(TriggerEvent("DELETE_FILTERED", 0), {Op("update", "DELETE_FILTERED", 0)})
      BY TallyEvent DEF Events
    <2>3. Tally(e, Q)
      BY <2>2, TallyNone DEF IfRegistered
    <2>4. ReportOf(o) = e \o s \/ ReportOf(o) = s \o e
      BY <1>3 DEF ReportOf, ReportSkipped
    <2>5. Apart(P, Q) /\ Apart(Q, P)
      BY DEF Apart, Op
    <2>6. Entries(o) = P \cup Q
      BY <1>3 DEF Entries
    <2> HIDE DEF s, e, P, Q
    <2>7. Q \cup P = P \cup Q
      OBVIOUS
    <2>8. Tally(s \o e, P \cup Q) /\ Tally(e \o s, Q \cup P)
      BY <2>1, <2>3, <2>5, TallyJoined
    <2>9. QED
      BY <2>4, <2>6, <2>7, <2>8
  <1>4. CASE o.kind = "missing"
    <2>1. Tally(<<Op("send", "skipped", 1)>>, {Op("send", "skipped", 1)})
      BY TallyOne DEF Dos, OpNames, Fields, Booking
    <2>2. QED
      BY <1>4, <2>1 DEF ReportOf, ReportMissing, Entries
  <1>5. CASE o.kind = "error"
    <2> DEFINE s == <<Op("cancel", "", 0), Op("record_error", "", 0)>>
               e == IfRegistered(TriggerEvent("PIPELINE_ERROR", 0))
    <2>1. Tally(s, {})
      BY TallyTwo DEF Dos, OpNames, Booking
    <2>2. Tally(TriggerEvent("PIPELINE_ERROR", 0), {Op("update", "PIPELINE_ERROR", 0)})
      BY TallyEvent DEF Events
    <2>3. Tally(e, Entries(o))
      BY <1>5, <2>2, TallyNone DEF IfRegistered, Entries
    <2>4. ReportOf(o) = e \o s
      BY <1>5 DEF ReportOf, ReportFilterError
    <2> HIDE DEF s, e
    <2>5. QED
      BY <2>1, <2>3, <2>4, TallyMore
  <1>6. QED
    BY <1>0, <1>1, <1>2, <1>3, <1>4, <1>5

LEMMA TallyGives ==
    ASSUME NEW s, NEW P, Tally(s, P), NEW d \in Booking, NEW w
    PROVE  /\ Books(s, d, w) <=> \E p \in P : p.do = d /\ p.what = w
           /\ \A u \in Nat : u \in Units(s, d, w)
                 <=> \E p \in P : p.do = d /\ p.what = w /\ u \in 1 .. p.n
  BY DEF Tally, Books, Units

(* What the report of an outcome says of it. *)
LEMMA ReportBooks ==
    ASSUME NEW o \in Outcome
    PROVE  LET s == ReportOf(o)
           IN  /\ Distinct(s) /\ ByOne(s)
               /\ \A k \in {"deleted", "failed"} : \A d \in {"fetch_add", "send"} :
                     Books(s, d, k) <=> o.kind = k
               /\ Books(s, "send", "skipped") <=> o.kind \in {"skipped", "missing"}
               /\ Books(s, "update", "DELETE_COMPLETE") <=> o.kind = "deleted"
               /\ Books(s, "update", "DELETE_FAILED") <=> o.kind = "failed"
               /\ case.registered => (Books(s, "update", "DELETE_FILTERED") <=> o.kind = "skipped")
               /\ Units(s, "fetch_add", "bytes") = IF o.kind = "deleted" THEN 1 .. o.size ELSE {}
               /\ Units(s, "update", "DELETE_COMPLETE") = IF o.kind = "deleted" THEN 1 .. o.size ELSE {}
  <1> DEFINE s == ReportOf(o)
             P == Entries(o)
             c == case.registered
  <1>0. o.size \in Nat /\ o.kind \in {"deleted", "failed", "skipped", "missing", "error"}
    BY DEF Outcome
  <1>1. Tally(s, P)
    BY ReportTally
  <1>2. \A d \in Booking : \A w :
           /\ Books(s, d, w) <=> \E p \in P : p.do = d /\ p.what = w
           /\ \A u \in Nat : u \in Units(s, d, w) <=> \E p \in P : p.do = d /\ p.what = w /\ u \in 1 .. p.n
    BY <1>1, TallyGives
  <1>3. \A d, w : Units(s, d, w) \subseteq Nat
    BY DEF Units
  <1>4. "fetch_add" \in Booking /\ "update" \in Booking /\ "send" \in Booking
    BY DEF Booking
  <1>5. \A p : p \in P <=>
           \/ o.kind = "deleted" /\ \/ p = Op("fetch_add", "deleted", 1)
                                    \/ p = Op("fetch_add", "bytes", o.size)
                                    \/ p = Op("send", "deleted", 1)
                                    \/ p = Op("send", "bytes", o.size)
                                    \/ p = Op("update", "DELETE_COMPLETE", o.size)
           \/ o.kind = "failed" /\ \/ p = Op("fetch_add", "failed", 1)
                                   \/ p = Op("send", "failed", 1)
                                   \/ p = Op("update", "DELETE_FAILED", 0)
           \/ o.kind = "skipped" /\ c /\ p = Op("update", "DELETE_FILTERED", 0)
           \/ o.kind \in {"skipped", "missing"} /\ p = Op("send", "skipped", 1)
           \/ o.kind = "error" /\ c /\ p = Op("update", "PIPELINE_ERROR", 0)
    <2>1. CASE o.kind = "deleted"
      BY <2>1 DEF Entries
    <2>2. CASE o.kind = "failed"
      BY <2>2 DEF Entries
    <2>3. CASE o.kind = "skipped"
      BY <2>3 DEF Entries
    <2>4. CASE o.kind = "error"
      BY <2>4 DEF Entries
    <2>5. CASE o.kind = "missing"
      BY <2>5 DEF Entries
    <2>6. QED
      BY <1>0, <2>1, <2>2, <2>3, <2>4, <2>5
  <1>6. Distinct(s) /\ \A i \in DOMAIN s : s[i].do \in Booking => s[i] \in P
    BY <1>1 DEF Tally
  <1> HIDE DEF s, P, c
  <1>7. ByOne(s)
    <2>1. ASSUME NEW p \in P, p.do \in {"fetch_add", "send"}, p.what \in {"deleted", "failed", "skipped"}
          PROVE  p.n = 1
      BY <1>5, <2>1 DEF Op
    <2>2. QED
      BY <1>4, <1>6, <2>1 DEF ByOne
  <1>8. \A k \in {"deleted", "failed"} : \A d \in {"fetch_add", "send"} : Books(s, d, k) <=> o.kind = k
    <2>1. ASSUME NEW k \in {"deleted", "failed"}, NEW d \in {"fetch_add", "send"},
                 NEW p \in P, p.do = d, p.what = k
          PROVE  o.kind = k
      BY <1>5, <2>1 DEF Op
    <2>2. ASSUME NEW k \in {"deleted", "failed"}, NEW d \in {"fetch_add", "send"}, o.kind = k
          PROVE  \E p \in P : p.do = d /\ p.what = k
      <3>1. Op(d, k, 1).do = d /\ Op(d, k, 1).what = k
        BY DEF Op
      <3>2. Op(d, k, 1) \in P
        BY <1>5, <2>2
      <3>3. QED
        BY <3>1, <3>2
    <2>3. QED
      BY <1>2, <1>4, <2>1, <2>2
  <1>9. Books(s, "send", "skipped") <=> o.kind \in {"skipped", "missing"}
    <2>1. ASSUME NEW p \in P, p.do = "send", p.what = "skipped" PROVE o.kind \in {"skipped", "missing"}
      BY <1>5, <2>1 DEF Op
    <2>2. o.kind \in {"skipped", "missing"} => \E p \in P : p.do = "send" /\ p.what = "skipped"
      <3>1. Op("send", "skipped", 1).do = "send" /\ Op("send", "skipped", 1).what = "skipped"
        BY DEF Op
      <3>2. QED
        BY <1>5, <3>1
    <2>3. QED
      BY <1>2, <1>4, <2>1, <2>2
  <1>10. /\ Books(s, "update", "DELETE_COMPLETE") <=> o.kind = "deleted"
         /\ Books(s, "update", "DELETE_FAILED") <=> o.kind = "failed"
         /\ c => (Books(s, "update", "DELETE_FILTERED") <=> o.kind = "skipped")
    <2>1. \A p \in P :
             /\ p.do = "update" /\ p.what = "DELETE_COMPLETE" => o.kind = "deleted"
             /\ p.do = "update" /\ p.what = "DELETE_FAILED" => o.kind = "failed"
             /\ p.do = "update" /\ p.what = "DELETE_FILTERED" => o.kind = "skipped"
      BY <1>5 DEF Op
    <2>2. /\ o.kind = "deleted" => \E p \in P : p.do = "update" /\ p.what = "DELETE_COMPLETE"
          /\ o.kind = "failed" => \E p \in P : p.do = "update" /\ p.what = "DELETE_FAILED"
          /\ c /\ o.kind = "skipped" => \E p \in P : p.do = "update" /\ p.what = "DELETE_FILTERED"
      <3>1. \A e, n : Op("update", e, n).do = "update" /\ Op("update", e, n).what = e
        BY DEF Op
      <3>2. QED
        BY <1>5, <3>1
    <2>3. \A w : Books(s, "update", w) <=> \E p \in P : p.do = "update" /\ p.what = w
      BY <1>2, <1>4
    <2>4. Books(s, "update", "DELETE_COMPLETE") <=> o.kind = "deleted"
      BY <2>1, <2>2, <2>3
    <2>5. Books(s, "update", "DELETE_FAILED") <=> o.kind = "failed"
      BY <2>1, <2>2, <2>3
    <2>6. c => (Books(s, "update", "DELETE_FILTERED") <=> o.kind = "skipped")
      BY <2>1, <2>2, <2>3
    <2>7. QED
      BY <2>4, <2>5, <2>6
  <1>11. ASSUME NEW d, NEW w, <<d, w>> \in {<<"fetch_add", "bytes">>, <<"update", "DELETE_COMPLETE">>}
         PROVE  Units(s, d, w) = IF o.kind = "deleted" THEN 1 .. o.size ELSE {}
    <2>1. d \in Booking
      BY <1>4, <1>11
    <2>2. \A p \in P : p.do = d /\ p.what = w => o.kind = "deleted" /\ p.n = o.size
      BY <1>5, <1>11 DEF Op
    <2>3. o.kind = "deleted" => \E p \in P : p.do = d /\ p.what = w /\ p.n = o.size
      <3>1. \A e, f, n : Op(e, f, n).do = e /\ Op(e, f, n).what = f /\ Op(e, f, n).n = n
        BY DEF Op
      <3>2. ASSUME o.kind = "deleted" PROVE Op(d, w, o.size) \in P
        <4>1. Op("fetch_add", "bytes", o.size) \in P /\ Op("update", "DELETE_COMPLETE", o.size) \in P
          BY <1>5, <3>2
        <4>2. QED
          BY <1>11, <4>1
      <3>3. QED
        BY <3>1, <3>2
    <2>4. \A u \in Nat : u \in Units(s, d, w) <=> o.kind = "deleted" /\ u \in 1 .. o.size
      <3>1. \A u \in Nat : u \in Units(s, d, w) <=> \E p \in P : p.do = d /\ p.what = w /\ u \in 1 .. p.n
        BY <1>2, <2>1
      <3>2. QED
        BY <2>2, <2>3, <3>1
    <2>5. 1 .. o.size \subseteq Nat
      BY <1>0
    <2>6. QED
      BY <1>3, <2>4, <2>5
  <1>12. QED
    BY <1>6, <1>7, <1>8, <1>9, <1>10, <1>11 DEF s, c

(* An operation that is done is no longer to be booked. *)
Hits(s, d, w) == Head(s).do = d /\ Head(s).what = w
LEMMA PoppedBooks ==
    ASSUME NEW s \in Seq(Ops), s # << >>, Distinct(s)
    PROVE  /\ Distinct(Tail(s)) /\ (ByOne(s) => ByOne(Tail(s)))
           /\ \A d \in Booking : \A w :
                 /\ Hits(s, d, w) => Books(s, d, w)
                 /\ Books(Tail(s), d, w) <=> Books(s, d, w) /\ ~Hits(s, d, w)
                 /\ Hits(s, d, w) => Units(s, d, w) = 1 .. Head(s).n /\ Units(Tail(s), d, w) = {}
                 /\ ~Hits(s, d, w) => Units(Tail(s), d, w) = Units(s, d, w)
  <1> DEFINE t == Tail(s)
  <1>1. /\ Len(s) \in Nat /\ DOMAIN t = 1 .. Len(s) - 1 /\ DOMAIN s = 1 .. Len(s)
        /\ Head(s) = s[1] /\ 1 \in DOMAIN s
        /\ \A i \in DOMAIN t : t[i] = s[i + 1] /\ i + 1 \in DOMAIN s
        /\ \A i \in DOMAIN s : i # 1 => i - 1 \in DOMAIN t
    BY Popped
  <1>2. Head(s).n \in Nat
    <2>1. Head(s) \in Ops
      OBVIOUS
    <2>2. QED
      BY <2>1 DEF Ops
  <1> HIDE DEF t
  <1>3. \A i \in DOMAIN t : i \in Int /\ i + 1 # 1
    BY <1>1
  <1>4. \A i \in DOMAIN s : i # 1 => t[i - 1] = s[i]
    <2>1. \A i \in DOMAIN s : i \in Int /\ (i - 1) + 1 = i
      BY <1>1
    <2>2. QED
      BY <1>1, <2>1
  <1>5. Distinct(t)
    <2>1. ASSUME NEW i \in DOMAIN t, NEW j \in DOMAIN t,
                 t[i].do \in Booking, t[i].do = t[j].do, t[i].what = t[j].what
          PROVE  i = j
      <3>1. i + 1 = j + 1
        BY <1>1, <2>1 DEF Distinct
      <3>2. QED
        BY <1>3, <3>1
    <2>2. QED
      BY <2>1 DEF Distinct
  <1>6. ByOne(s) => ByOne(t)
    BY <1>1 DEF ByOne
  <1>7. ASSUME NEW d \in Booking, NEW w
        PROVE  /\ Hits(s, d, w) => Books(s, d, w)
               /\ Books(t, d, w) <=> Books(s, d, w) /\ ~Hits(s, d, w)
               /\ Hits(s, d, w) => Units(s, d, w) = 1 .. Head(s).n /\ Units(t, d, w) = {}
               /\ ~Hits(s, d, w) => Units(t, d, w) = Units(s, d, w)
    <2>1. Hits(s, d, w) => Books(s, d, w)
      BY <1>1 DEF Hits, Books
    <2>2. ASSUME Hits(s, d, w), NEW i \in DOMAIN s, s[i].do = d, s[i].what = w PROVE i = 1
      BY <1>1, <2>2 DEF Hits, Distinct
    <2>3. ASSUME Hits(s, d, w), NEW i \in DOMAIN t PROVE ~(t[i].do = d /\ t[i].what = w)
      BY <1>1, <1>3, <2>2, <2>3
    <2>4. ASSUME NEW i \in DOMAIN s, s[i].do = d, s[i].what = w, ~Hits(s, d, w)
          PROVE  i - 1 \in DOMAIN t /\ t[i - 1] = s[i]
      BY <1>1, <1>4, <2>4 DEF Hits
    <2>5. Books(t, d, w) <=> Books(s, d, w) /\ ~Hits(s, d, w)
      BY <1>1, <2>3, <2>4 DEF Books
    <2>6. ASSUME Hits(s, d, w) PROVE Units(s, d, w) = 1 .. Head(s).n /\ Units(t, d, w) = {}
      <3>1. s[1].do = d /\ s[1].what = w
        BY <1>1, <2>6 DEF Hits
      <3>2. \A u : u \in Units(s, d, w) <=> u \in 1 .. Head(s).n
        BY <1>1, <1>2, <2>2, <2>6, <3>1 DEF Units
      <3>3. QED
        BY <2>3, <2>6, <3>2 DEF Units
    <2>7. ASSUME ~Hits(s, d, w) PROVE Units(t, d, w) = Units(s, d, w)
      BY <1>1, <2>4, <2>7 DEF Units
    <2>8. QED
      BY <2>1, <2>5, <2>6, <2>7
  <1>8. QED
    BY <1>5, <1>6, <1>7 DEF t

(* Nothing has more booked than it has. *)
LEMMA BookedNext == Types /\ Begun /\ Booked /\ [Next]_vars => Booked'
  <1> SUFFICES ASSUME Types, Begun, Booked, [Next]_vars PROVE Booked'
    OBVIOUS
  <1>1. CASE todo' = todo
    BY <1>1 DEF Booked
  <1>2. ASSUME NEW a \in Actors, Perform(a) PROVE Booked'
    <2>1. todo[a] # << >> /\ todo' = [todo EXCEPT ![a] = Tail(@)] /\ todo[a] \in Seq(Ops)
      BY <1>2, Pops DEF Types
    <2>2. /\ todo'[a] = Tail(todo[a]) /\ \A b \in Actors \ {a} : todo'[b] = todo[b]
          /\ Run \in Actors /\ Reporters \subseteq Actors
      BY <2>1, Sets DEF Types
    <2>3. a \in Reporters => Distinct(Tail(todo[a])) /\ ByOne(Tail(todo[a]))
      BY <2>1, PoppedBooks DEF Booked
    <2>4. a = Run => BooksNone(Tail(todo[a]))
      <3>1. ASSUME a = Run, NEW i \in DOMAIN Tail(todo[a]) PROVE todo[a][i + 1] = Tail(todo[a])[i] /\ i + 1 \in DOMAIN todo[a]
        BY <2>1, Popped
      <3>2. QED
        BY <3>1 DEF Booked, BooksNone
    <2>5. QED
      BY <2>2, <2>3, <2>4 DEF Booked
  <1>3. ASSUME NEW r \in Reporters, NextOutcome(r), todo' # todo PROVE Booked'
    <2>1. /\ todo' = [todo EXCEPT ![r] = ReportOf(Head(left[r]))]
          /\ left[r] \in Seq(Outcome) /\ left[r] # << >>
      BY <1>3 DEF NextOutcome, Types
    <2>2. Head(left[r]) \in Outcome
      BY <2>1
    <2>3. Distinct(ReportOf(Head(left[r]))) /\ ByOne(ReportOf(Head(left[r])))
      BY <2>2, ReportBooks
    <2>4. /\ todo'[r] = ReportOf(Head(left[r])) /\ \A b \in Actors \ {r} : todo'[b] = todo[b]
          /\ Run \in Actors \ {r} /\ Reporters \subseteq Actors
      BY <2>1, Sets DEF Types
    <2>5. QED
      BY <2>3, <2>4 DEF Booked
  <1>4. CASE RunStep
    <2>1. \/ todo' = todo
          \/ \E e \in ByRun : todo' = [todo EXCEPT ![Run] = TriggerEvent(e, 0)]
          \/ todo' = [todo EXCEPT ![Run] = << >>]
      BY <1>4, RunBegins DEF ByRun
    <2>2. ASSUME NEW s, todo' = [todo EXCEPT ![Run] = s], BooksNone(s) PROVE Booked'
      <3>1. todo'[Run] = s /\ \A r \in Reporters : todo'[r] = todo[r]
        BY <2>2, Sets DEF Types
      <3>2. QED
        BY <2>2, <3>1 DEF Booked
    <2>3. BooksNone(<< >>)
      BY DEF BooksNone
    <2>4. ASSUME NEW e \in ByRun PROVE BooksNone(TriggerEvent(e, 0))
      <3>1. Tally(TriggerEvent(e, 0), {Op("update", e, 0)})
        BY TallyEvent DEF ByRun, Events
      <3>2. Op("update", e, 0).do = "update" /\ Op("update", e, 0).what = e
        BY DEF Op
      <3>3. QED
        BY <3>1, <3>2 DEF Tally, BooksNone, Booking
    <2>5. QED
      BY <1>1, <2>1, <2>2, <2>3, <2>4
  <1>5. QED
    BY <1>1, <1>2, <1>3, <1>4
    DEF Next, Cancel, TryRecv, Drained, Refresh, IsClosed, Sleep, IndicatorUnchanged, vars

(* Only a reporter that turns to an outcome, and run() once, change what is left. *)
LEMMA LeftSteps ==
    ASSUME [Next]_vars
    PROVE  /\ case' = case
           /\ \/ left' = left /\ ~Prerequisites
              \/ left' = left /\ ~case.prerequisites
              \/ Prerequisites /\ left' = case.outcomes
              \/ \E r \in Reporters : NextOutcome(r)
  <1>1. ASSUME NEW a \in Actors, Perform(a) PROVE UNCHANGED <<case, left>> /\ ~Prerequisites
    <2>1. UNCHANGED <<case, left, pc>>
      BY <1>1, Pops
    <2>2. QED
      BY <2>1 DEF Prerequisites, RunAt
  <1>2. CASE RunStep
    <2>1. case' = case
      BY <1>2, RunBegins DEF RunUnchanged
    <2>2. CASE Prerequisites
      BY <2>1, <2>2 DEF Prerequisites
    <2>3. CASE ~Prerequisites
      BY <1>2, <2>1, <2>3 DEF RunStep, Start, Executed, CloseStats, FireError, FireCancel, FireEnd, Return
    <2>4. QED
      BY <2>1, <2>2, <2>3
  <1>3. CASE Cancel \/ TryRecv \/ Drained \/ Refresh \/ IsClosed \/ Sleep \/ UNCHANGED vars
    <2>1. UNCHANGED <<case, left, pc>>
      BY <1>3 DEF Cancel, TryRecv, Drained, Refresh, IsClosed, Sleep, IndicatorUnchanged, vars
    <2>2. QED
      BY <2>1 DEF Prerequisites, RunAt
  <1>4. QED
    BY <1>1, <1>2, <1>3 DEF Next, NextOutcome

LEMMA EndOfEnds ==
    ASSUME NEW S, NEW s \in Seq(S)
    PROVE  EndOf(<< >>, s) /\ EndOf(s, s)
  <1>1. Len(s) \in Nat /\ Len(<< >>) = 0 /\ DOMAIN s = 1 .. Len(s) /\ DOMAIN << >> = {}
    OBVIOUS
  <1>2. Len(s) - Len(s) = 0 /\ Len(s) - Len(<< >>) >= 0
    BY <1>1
  <1>3. \A i \in DOMAIN s : i + 0 = i
    BY <1>1
  <1>4. QED
    BY <1>1, <1>2, <1>3 DEF EndOf

LEMMA RemainingNext == Types /\ Remaining /\ [Next]_vars => Remaining'
  <1> SUFFICES ASSUME Types, Remaining, [Next]_vars PROVE Remaining'
    OBVIOUS
  <1>0. case' = case /\ case.outcomes \in [Reporters -> Seq(Outcome)] /\ left \in [Reporters -> Seq(Outcome)]
    BY LeftSteps, CaseFacts DEF Types
  <1>1. CASE left' = left
    BY <1>0, <1>1 DEF Remaining
  <1>2. CASE left' = case.outcomes
    BY <1>0, <1>2, EndOfEnds DEF Remaining
  <1>3. ASSUME NEW r \in Reporters, NextOutcome(r) PROVE Remaining'
    <2>1. left[r] # << >> /\ (left' = [left EXCEPT ![r] = Tail(@)] \/ left' = [left EXCEPT ![r] = << >>])
      BY <1>3 DEF NextOutcome
    <2>2. /\ left'[r] = Tail(left[r]) \/ left'[r] = << >>
          /\ \A q \in Reporters \ {r} : left'[q] = left[q]
      BY <1>0, <2>1
    <2>3. EndOf(Tail(left[r]), case.outcomes[r]) /\ EndOf(<< >>, case.outcomes[r])
      BY <1>0, <2>1, EndOfTail, EndOfEnds DEF Remaining
    <2>4. QED
      BY <1>0, <2>2, <2>3 DEF Remaining
  <1>4. QED
    BY <1>1, <1>2, <1>3, LeftSteps

-----------------------------------------------------------------------------
(* The accounts of outcomes. *)

LEMMA HappenedFacts ==
    ASSUME case \in Cases, NEW k
    PROVE  /\ IsFiniteSet(Happened(k))
           /\ \A p \in Happened(k) : p = <<p[1], p[2]>>
           /\ \A r, i : <<r, i>> \in Happened(k)
                 <=> r \in Reporters /\ i \in DOMAIN case.outcomes[r] /\ case.outcomes[r][i].kind \in k
  <1> DEFINE own(r) == {i \in DOMAIN case.outcomes[r] : case.outcomes[r][i].kind \in k}
             f == [r \in Reporters |-> {r} \X own(r)]
             T == {f[r] : r \in Reporters}
  <1>1. Happened(k) = UNION T
    BY DEF Happened
  <1>2. ASSUME NEW r \in Reporters PROVE IsFiniteSet({r} \X own(r))
    <2>1. case.outcomes[r] \in Seq(Outcome)
      BY CaseFacts
    <2>2. DOMAIN case.outcomes[r] = 1 .. Len(case.outcomes[r]) /\ Len(case.outcomes[r]) \in Nat
      BY <2>1
    <2>3. IsFiniteSet(1 .. Len(case.outcomes[r]))
      <3> DEFINE m == Len(case.outcomes[r])
      <3>1. 1 \in Int /\ m \in Int
        BY <2>2
      <3> HIDE DEF m
      <3>2. IsFiniteSet(1 .. m)
        BY <3>1, FS_Interval
      <3>3. QED
        BY <3>2 DEF m
    <2>4. own(r) \in SUBSET (1 .. Len(case.outcomes[r]))
      BY <2>2
    <2> HIDE DEF own
    <2>5. IsFiniteSet(own(r))
      BY <2>3, <2>4, FS_Subset
    <2>6. IsFiniteSet({r})
      BY FS_Singleton
    <2>7. QED
      BY <2>5, <2>6, FS_Product
  <1>3. IsFiniteSet(T)
    <2>1. f \in Surjection(Reporters, T)
      <3>1. f \in [Reporters -> T]
        OBVIOUS
      <3>2. \A t \in T : \E r \in Reporters : f[r] = t
        OBVIOUS
      <3> HIDE DEF f, T
      <3>3. QED
        BY <3>1, <3>2 DEF Surjection
    <2>2. IsFiniteSet(Reporters)
      BY ReportingAssumption, FS_AddElement DEF Reporters
    <2> HIDE DEF f, T
    <2>3. QED
      BY <2>1, <2>2, FS_Surjection
  <1>4. \A t \in T : IsFiniteSet(t)
    <2> HIDE DEF own
    <2>1. QED
      BY <1>2
  <1>5. IsFiniteSet(Happened(k))
    <2> HIDE DEF T
    <2>1. QED
      BY <1>1, <1>3, <1>4, FS_UNION
  <1>6. \A p \in Happened(k) : p = <<p[1], p[2]>>
    BY DEF Happened
  <1>7. ASSUME NEW r, NEW i
        PROVE  <<r, i>> \in Happened(k)
                 <=> r \in Reporters /\ i \in DOMAIN case.outcomes[r] /\ case.outcomes[r][i].kind \in k
    BY DEF Happened
  <1>8. QED
    BY <1>5, <1>6, <1>7

LEMMA BalanceFinite ==
    ASSUME Types, NEW d, NEW w, NEW k
    PROVE  /\ IsFiniteSet(Pending(d, w)) /\ Cardinality(Pending(d, w)) \in Nat
           /\ IsFiniteSet(Unstarted(k)) /\ Cardinality(Unstarted(k)) \in Nat
  <1>1. IsFiniteSet(Reporters)
    BY ReportingAssumption, FS_AddElement DEF Reporters
  <1>2. IsFiniteSet(Happened(k))
    BY HappenedFacts DEF Types
  <1>3. Pending(d, w) \in SUBSET Reporters /\ Unstarted(k) \in SUBSET Happened(k)
    BY DEF Pending, Unstarted
  <1>4. IsFiniteSet(Pending(d, w)) /\ IsFiniteSet(Unstarted(k))
    BY <1>1, <1>2, <1>3, FS_Subset
  <1>5. QED
    BY <1>4, FS_CardinalityType

(* An account is balanced after an entry, and after an outcome was turned to. *)
LEMMA BalanceRule ==
    ASSUME NEW P, NEW U, IsFiniteSet(P), IsFiniteSet(U), NEW v \in Int, NEW n,
           v + Cardinality(P) + Cardinality(U) = n
    PROVE  /\ \A a \in P : (v + 1) + Cardinality(P \ {a}) + Cardinality(U) = n
           /\ \A r, x : r \notin P /\ x \in U => v + Cardinality(P \cup {r}) + Cardinality(U \ {x}) = n
  <1>1. Cardinality(P) \in Nat /\ Cardinality(U) \in Nat
    BY FS_CardinalityType
  <1>2. \A a \in P : Cardinality(P \ {a}) = Cardinality(P) - 1
    BY FS_RemoveElement
  <1>3. \A x \in U : Cardinality(U \ {x}) = Cardinality(U) - 1
    BY FS_RemoveElement
  <1>4. \A r : r \notin P => Cardinality(P \cup {r}) = Cardinality(P) + 1
    BY FS_AddElement
  <1> DEFINE c == Cardinality(P)
             e == Cardinality(U)
  <1>5. (v + 1) + (c - 1) + e = n /\ v + (c + 1) + (e - 1) = n
    BY <1>1
  <1>6. QED
    BY <1>2, <1>3, <1>4, <1>5

LEMMA AccountFacts ==
    ASSUME Types, Drawn, NEW d, NEW w, NEW k, <<d, w, k>> \in Accounts
    PROVE  /\ d \in Booking /\ Value(d, w) \in Int
           /\ d = "fetch_add" => w \in {"deleted", "failed"}
           /\ d = "send" => w \in {"deleted", "failed", "skipped"} /\ ~case.closed_early
           /\ d = "update" => w \in Counted \ {"PIPELINE_ERROR"}
           /\ \A o \in Outcome : Books(ReportOf(o), d, w) <=> o.kind \in k
  <1>1. \/ d = "fetch_add" /\ w \in {"deleted", "failed"} /\ k = {w}
        \/ d = "update" /\ w = "DELETE_COMPLETE" /\ k = {"deleted"}
        \/ d = "update" /\ w = "DELETE_FAILED" /\ k = {"failed"}
        \/ d = "update" /\ w = "DELETE_FILTERED" /\ k = {"skipped"} /\ case.registered
        \/ d = "send" /\ w \in {"deleted", "failed"} /\ k = {w} /\ ~case.closed_early
        \/ d = "send" /\ w = "skipped" /\ k = {"skipped", "missing"} /\ ~case.closed_early
    BY DEF Accounts
  <1>2. \A o \in Outcome : Books(ReportOf(o), d, w) <=> o.kind \in k
    BY <1>1, ReportBooks
  <1>3. d = "fetch_add" => Value(d, w) \in Int
    BY <1>1 DEF Value, Drawn, Counters
  <1>4. d = "update" => w \in Counted \ {"PIPELINE_ERROR"}
    BY <1>1 DEF Counted
  <1>5. d = "update" => Value(d, w) \in Int
    BY <1>4, GainedFacts DEF Value
  <1>6. d = "send" => Value(d, w) \in Int
    <2>1. Amount(sent, w) \in Nat
      BY AmountFacts DEF Drawn
    <2>2. QED
      BY <2>1 DEF Value
  <1>7. QED
    BY <1>1, <1>2, <1>3, <1>4, <1>5, <1>6 DEF Booking

(* What an operation takes off the reports that are to be booked, *)
LEMMA PendingPop ==
    ASSUME Types, Booked, NEW a \in Actors, Perform(a), NEW d \in Booking, NEW w
    PROVE  /\ a \in Reporters /\ Hits(todo[a], d, w) =>
                 a \in Pending(d, w) /\ Pending(d, w)' = Pending(d, w) \ {a}
           /\ ~(a \in Reporters /\ Hits(todo[a], d, w)) => Pending(d, w)' = Pending(d, w)
  <1>1. todo[a] # << >> /\ todo' = [todo EXCEPT ![a] = Tail(@)] /\ todo[a] \in Seq(Ops)
    BY Pops DEF Types
  <1>2. /\ todo'[a] = Tail(todo[a]) /\ \A b \in Actors \ {a} : todo'[b] = todo[b]
        /\ Reporters \subseteq Actors
    BY <1>1, Sets DEF Types
  <1>3. ASSUME a \in Reporters
        PROVE  /\ Hits(todo[a], d, w) => Books(todo[a], d, w)
               /\ Books(Tail(todo[a]), d, w) <=> Books(todo[a], d, w) /\ ~Hits(todo[a], d, w)
    BY <1>1, <1>3, PoppedBooks DEF Booked
  <1>4. QED
    BY <1>2, <1>3 DEF Pending

(* and adds to what is booked. *)
LEMMA ValuePerform ==
    ASSUME Types, Begun, Quiet, Booked, Drawn, Lookout, ~cancelled, NEW a \in Actors, Perform(a),
           NEW d, NEW w, NEW k, <<d, w, k>> \in Accounts
    PROVE  /\ a \in Reporters /\ Hits(todo[a], d, w) => Value(d, w)' = Value(d, w) + 1
           /\ ~(a \in Reporters /\ Hits(todo[a], d, w)) => Value(d, w)' = Value(d, w)
  <1>0. /\ d \in Booking /\ Value(d, w) \in Int
        /\ d = "fetch_add" => w \in {"deleted", "failed"}
        /\ d = "send" => w \in {"deleted", "failed", "skipped"} /\ ~case.closed_early
        /\ d = "update" => w \in Counted \ {"PIPELINE_ERROR"}
    BY AccountFacts
  <1>1. todo[a] # << >> /\ case' = case /\ todo[a] \in Seq(Ops) /\ Head(todo[a]).n \in Nat
    BY Pops, HeadIsOp
  <1>2. Head(todo[a]) = todo[a][1] /\ 1 \in DOMAIN todo[a]
    BY <1>1
  <1>3. a \notin Reporters => a = Run /\ Head(todo[a]).do \notin {"fetch_add", "send"}
                              /\ (Head(todo[a]).do = "update" => Head(todo[a]).what \in ByRun)
    BY <1>2, Sets DEF Booked, BooksNone
  <1>4. CASE d = "fetch_add"
    <2>1. Value(d, w) = report[w] /\ Value(d, w)' = report'[w] /\ w \in Fields
      BY <1>0, <1>4 DEF Value, Fields
    <2>2. CASE Head(todo[a]).do = "fetch_add"
      <3>1. Head(todo[a]).what \in Fields
        BY <1>1, <2>2, HeadField
      <3>2. report' = Plus(report, Head(todo[a]).what, Head(todo[a]).n) /\ report \in Counters
        BY <2>2 DEF Perform, FetchAdd, SendStats, Update, EnterCallback, LeaveCallback, CloneStats,
                    CancelToken, RecordError, Doing, Drawn
      <3> DEFINE v == Head(todo[a]).what
                 n == Head(todo[a]).n
      <3>3. v \in Fields /\ n \in Nat /\ report' = Plus(report, v, n)
        BY <1>1, <3>1, <3>2
      <3>4. a \in Reporters /\ (w = v => n = 1)
        BY <1>0, <1>2, <1>3, <1>4, <2>2 DEF Booked, ByOne
      <3>5. Hits(todo[a], d, w) <=> w = v
        BY <1>4, <2>2 DEF Hits
      <3> HIDE DEF v, n
      <3>6. Plus(report, v, n)[w] = IF w = v THEN report[w] + n ELSE report[w]
        BY <2>1, <3>2, <3>3, PlusFields
      <3>7. QED
        BY <2>1, <3>3, <3>4, <3>5, <3>6
    <2>3. CASE Head(todo[a]).do # "fetch_add"
      <3>1. report' = report /\ ~Hits(todo[a], d, w)
        BY <1>4, <2>3 DEF Perform, FetchAdd, SendStats, Update, EnterCallback, LeaveCallback, CloneStats,
                    CancelToken, RecordError, Doing, Hits
      <3>2. QED
        BY <2>1, <3>1
    <2>4. QED
      BY <2>2, <2>3
  <1>5. CASE d = "send"
    <2>1. Value(d, w) = Amount(sent, w) /\ Value(d, w)' = Amount(sent', w)
      BY <1>5 DEF Value
    <2>2. CASE Head(todo[a]).do = "send"
      <3>1. a \in Reporters /\ (w = Head(todo[a]).what => Head(todo[a]).n = 1)
        BY <1>0, <1>2, <1>3, <1>5, <2>2 DEF Booked, ByOne
      <3>2. ~closed
        BY <1>0, <1>1, <1>5, <3>1 DEF Quiet, Idle, Lookout
      <3>3. sent' = Append(sent, Head(todo[a])) /\ sent \in Seq(Messages)
        BY <2>2, <3>2 DEF Perform, FetchAdd, SendStats, Update, EnterCallback, LeaveCallback, CloneStats,
                    CancelToken, RecordError, Doing, Drawn
      <3>4. Head(todo[a]) \in Messages
        BY <1>1, <2>2, HeadField
      <3> DEFINE x == Head(todo[a])
      <3>5. Hits(todo[a], d, w) <=> x.what = w
        BY <1>5, <2>2 DEF Hits
      <3>6. sent' = Append(sent, x) /\ x \in Messages /\ (x.what = w => x.n = 1)
        BY <3>1, <3>3, <3>4
      <3> HIDE DEF x
      <3>7. Amount(sent, w) \in Nat /\ Amount(sent', w) = Amount(sent, w) + IF x.what = w THEN x.n ELSE 0
        BY <3>3, <3>6, AmountFacts
      <3>8. QED
        BY <2>1, <3>1, <3>5, <3>6, <3>7
    <2>3. CASE Head(todo[a]).do # "send"
      <3>1. sent' = sent /\ ~Hits(todo[a], d, w)
        BY <1>5, <2>3 DEF Perform, FetchAdd, SendStats, Update, EnterCallback, LeaveCallback, CloneStats,
                    CancelToken, RecordError, Doing, Hits
      <3>2. QED
        BY <2>1, <3>1
    <2>4. QED
      BY <2>2, <2>3
  <1>6. CASE d = "update"
    <2>0. /\ d = "update" /\ w \in Counted \ {"PIPELINE_ERROR"}
          /\ Value(d, w) = Gained(pipeline_stats, w) /\ Value(d, w)' = Gained(pipeline_stats, w)'
      BY <1>0, <1>6 DEF Value
    <2>1. /\ Gained(pipeline_stats, w) = pipeline_stats[FieldOf(w)] - case.carried[FieldOf(w)]
          /\ Gained(pipeline_stats, w)' = pipeline_stats'[FieldOf(w)] - case.carried[FieldOf(w)]
          /\ pipeline_stats[FieldOf(w)] \in Nat /\ case.carried[FieldOf(w)] \in Nat
      BY <1>1, <2>0, GainedFacts DEF Gained, Stat
    <2>2. CASE Head(todo[a]).do = "update"
      <3>1. pipeline_stats' = UpdatePipelineStats(pipeline_stats, Head(todo[a]).what, Head(todo[a]).n)
        BY <2>2 DEF Perform, FetchAdd, SendStats, Update, EnterCallback, LeaveCallback, CloneStats,
                    CancelToken, RecordError, Doing
      <3> DEFINE e == Head(todo[a]).what
                 n == Head(todo[a]).n
      <3>2. /\ pipeline_stats' = UpdatePipelineStats(pipeline_stats, e, n)
            /\ n \in Nat /\ pipeline_stats \in Counters
        BY <1>1, <3>1 DEF Types
      <3>3. Hits(todo[a], d, w) <=> e = w
        BY <2>0, <2>2 DEF Hits
      <3>4. e = w => a \in Reporters
        BY <1>3, <2>0, <2>2 DEF ByRun, Counted
      <3> HIDE DEF e, n
      <3>5. UpdatePipelineStats(pipeline_stats, e, n)[FieldOf(w)]
              = pipeline_stats[FieldOf(w)] + IF e = w THEN 1 ELSE 0
        BY <2>0, <3>2, Updates
      <3> DEFINE x == pipeline_stats[FieldOf(w)]
                 y == case.carried[FieldOf(w)]
                 z == pipeline_stats'[FieldOf(w)]
      <3>6. z = x + (IF e = w THEN 1 ELSE 0) /\ x \in Nat /\ y \in Nat
            /\ Value(d, w) = x - y /\ Value(d, w)' = z - y
        BY <2>0, <2>1, <3>2, <3>5
      <3> HIDE DEF x, y, z
      <3>7. /\ e = w => z - y = (x - y) + 1
            /\ e # w => z - y = x - y
        BY <3>6
      <3>8. QED
        BY <3>3, <3>4, <3>6, <3>7
    <2>3. CASE Head(todo[a]).do # "update"
      <3>1. pipeline_stats' = pipeline_stats /\ ~Hits(todo[a], d, w)
        BY <2>0, <2>3 DEF Perform, FetchAdd, SendStats, Update, EnterCallback, LeaveCallback, CloneStats,
                    CancelToken, RecordError, Doing, Hits
      <3>2. QED
        BY <1>1, <2>0, <3>1 DEF Gained
    <2>4. QED
      BY <2>2, <2>3
  <1>7. QED
    BY <1>0, <1>4, <1>5, <1>6 DEF Booking

(* Outcomes nobody has turned to stay so, and reports to be booked too. *)
Early == pc \in {"start", "prerequisites"}
LEMMA UnstartedSame ==
    ASSUME UNCHANGED <<case, left>>, Early' <=> Early, NEW k
    PROVE  Unstarted(k)' = Unstarted(k) /\ Outcomes(k)' = Outcomes(k)
  <1>1. Happened(k)' = Happened(k)
    BY DEF Happened
  <1>2. \A r, i : Ahead(r, i)' <=> Ahead(r, i)
    BY DEF Ahead, Behind, Early
  <1>3. QED
    BY <1>1, <1>2 DEF Unstarted, Outcomes

LEMMA PendingSame ==
    ASSUME \A r \in Reporters : todo'[r] = todo[r], NEW d, NEW w
    PROVE  Pending(d, w)' = Pending(d, w)
  BY DEF Pending

(* A reporter that turns to an outcome has it to book. *)
LEMMA OutcomeTurned ==
    ASSUME Types, Begun, Quiet, Remaining, NEW r \in Reporters, NextOutcome(r),
           todo' = [todo EXCEPT ![r] = ReportOf(Head(left[r]))], left' = [left EXCEPT ![r] = Tail(@)]
    PROVE  LET o == Head(left[r])
               x == <<r, Behind(r) + 1>>
           IN  /\ o \in Outcome
               /\ \A d, w : /\ r \notin Pending(d, w)
                            /\ Books(ReportOf(o), d, w) => Pending(d, w)' = Pending(d, w) \cup {r}
                            /\ ~Books(ReportOf(o), d, w) => Pending(d, w)' = Pending(d, w)
               /\ \A k : /\ o.kind \in k => x \in Unstarted(k) /\ Unstarted(k)' = Unstarted(k) \ {x}
                         /\ o.kind \notin k => Unstarted(k)' = Unstarted(k)
                         /\ Outcomes(k)' = Outcomes(k)
  <1> DEFINE o == Head(left[r])
             x == <<r, Behind(r) + 1>>
             b == Behind(r)
             all == case.outcomes[r]
  <1>1. /\ left[r] # << >> /\ todo[r] = << >> /\ UNCHANGED <<case, pc>>
        /\ left[r] \in Seq(Outcome) /\ all \in Seq(Outcome) /\ case \in Cases
    BY CaseFacts DEF Types, NextOutcome
  <1>2. /\ o \in Outcome /\ Len(all) - Len(Tail(left[r])) = b + 1 /\ b + 1 \in 1 .. Len(all)
        /\ b \in Nat /\ o = all[b + 1]
    BY <1>1, EndOfTail DEF Remaining, Behind
  <1>3. /\ todo'[r] = ReportOf(o) /\ \A q \in Reporters \ {r} : todo'[q] = todo[q]
        /\ left'[r] = Tail(left[r]) /\ \A q \in Reporters \ {r} : left'[q] = left[q]
    BY Sets DEF Types
  <1>4. pc \notin {"start", "prerequisites"}
    BY <1>1 DEF Quiet, Idle
  <1>5. \A d, w : ~Books(<< >>, d, w)
    BY DEF Books
  <1>6. ASSUME NEW d, NEW w
        PROVE  /\ r \notin Pending(d, w)
               /\ Books(ReportOf(o), d, w) => Pending(d, w)' = Pending(d, w) \cup {r}
               /\ ~Books(ReportOf(o), d, w) => Pending(d, w)' = Pending(d, w)
    <2> HIDE DEF o
    <2>1. QED
      BY <1>1, <1>3, <1>5 DEF Pending
  <1>7. ASSUME NEW k
        PROVE  /\ o.kind \in k => x \in Unstarted(k) /\ Unstarted(k)' = Unstarted(k) \ {x}
               /\ o.kind \notin k => Unstarted(k)' = Unstarted(k)
               /\ Outcomes(k)' = Outcomes(k)
    <2>1. Happened(k)' = Happened(k) /\ Outcomes(k)' = Outcomes(k)
      BY <1>1 DEF Happened, Outcomes
    <2>2. /\ \A p \in Happened(k) : p = <<p[1], p[2]>>
          /\ \A q, i : <<q, i>> \in Happened(k)
                <=> q \in Reporters /\ i \in DOMAIN case.outcomes[q] /\ case.outcomes[q][i].kind \in k
      BY <1>1, HappenedFacts
    <2>3. DOMAIN all = 1 .. Len(all) /\ Len(all) \in Nat
      BY <1>1
    <2>4. x \in Happened(k) <=> o.kind \in k
      BY <1>2, <2>2, <2>3
    <2>5. Behind(r)' = b + 1 /\ \A q \in Reporters \ {r} : Behind(q)' = Behind(q)
      BY <1>1, <1>2, <1>3 DEF Behind
    <2> HIDE DEF o, b, all
    <2>6. ASSUME NEW p \in Happened(k)
          PROVE  Ahead(p[1], p[2])' <=> Ahead(p[1], p[2]) /\ p # x
      <3>1. CASE p[1] # r
        <4>1. p[1] \in Reporters \ {r}
          BY <2>2, <3>1
        <4>2. p # x
          BY <3>1
        <4>3. QED
          BY <1>1, <2>5, <4>1, <4>2 DEF Ahead
      <3>2. CASE p[1] = r
        <4>1. p[2] \in 1 .. Len(all)
          BY <2>2, <2>3, <3>2 DEF all
        <4>2. p # x <=> p[2] # b + 1
          BY <2>2, <3>2 DEF b
        <4>3. Ahead(p[1], p[2]) <=> p[2] > b
          BY <1>4, <3>2 DEF Ahead, b
        <4>4. Ahead(p[1], p[2])' <=> p[2] > b + 1
          BY <1>1, <1>4, <2>5, <3>2 DEF Ahead
        <4>5. QED
          BY <1>2, <2>3, <4>1, <4>2, <4>3, <4>4
      <3>3. QED
        BY <3>1, <3>2
    <2>7. Ahead(x[1], x[2])
      BY <1>2 DEF Ahead, b
    <2>8. QED
      BY <2>1, <2>4, <2>6, <2>7 DEF Unstarted
  <1>8. QED
    BY <1>2, <1>6, <1>7

LEMMA BalancedNext ==
    Types /\ Begun /\ Quiet /\ Drawn /\ Lookout /\ Booked /\ Remaining /\ Balanced /\ [Next]_vars
        => Balanced'
  <1> SUFFICES ASSUME Types, Begun, Quiet, Drawn, Lookout, Booked, Remaining, Balanced, [Next]_vars,
                      case'.prerequisites, ~cancelled',
                      NEW d, NEW w, NEW k, <<d, w, k>> \in Accounts'
               PROVE  Balance(d, w, k)'
    <2>1. ASSUME NEW t \in Accounts' PROVE t = <<t[1], t[2], t[3]>>
      BY DEF Accounts
    <2>2. QED
      BY <2>1 DEF Balanced
  <1>1. case' = case /\ ~cancelled /\ <<d, w, k>> \in Accounts
    BY LeftSteps, Cancels DEF Accounts
  <1>2. Value(d, w) + Cardinality(Pending(d, w)) + Cardinality(Unstarted(k)) = Outcomes(k)
    <2> DEFINE t == <<d, w, k>>
    <2>1. Balance(t[1], t[2], t[3])
      BY <1>1 DEF Balanced
    <2>2. QED
      BY <2>1 DEF Balance
  <1>3. /\ d \in Booking /\ Value(d, w) \in Int
        /\ \A o \in Outcome : Books(ReportOf(o), d, w) <=> o.kind \in k
    BY <1>1, AccountFacts
  <1>4. IsFiniteSet(Pending(d, w)) /\ IsFiniteSet(Unstarted(k))
    BY BalanceFinite
  <1> DEFINE v == Value(d, w)
             P == Pending(d, w)
             U == Unstarted(k)
             n == Outcomes(k)
  <1>5. SUFFICES Value(d, w)' + Cardinality(Pending(d, w)') + Cardinality(Unstarted(k)') = Outcomes(k)'
    BY DEF Balance
  <1>6. ASSUME Value(d, w)' = v, Pending(d, w)' = P, Unstarted(k)' = U, Outcomes(k)' = n
        PROVE  Value(d, w)' + Cardinality(Pending(d, w)') + Cardinality(Unstarted(k)') = Outcomes(k)'
    BY <1>2, <1>6
  <1>7. /\ \A a \in P : (v + 1) + Cardinality(P \ {a}) + Cardinality(U) = n
        /\ \A r, x : r \notin P /\ x \in U => v + Cardinality(P \cup {r}) + Cardinality(U \ {x}) = n
    <2> HIDE DEF v, P, U, n
    <2>1. v + Cardinality(P) + Cardinality(U) = n /\ IsFiniteSet(P) /\ IsFiniteSet(U) /\ v \in Int
      BY <1>2, <1>3, <1>4 DEF v, P, U, n
    <2>2. QED
      BY <2>1, BalanceRule
  <1>8. ASSUME NEW a \in Actors, Perform(a)
        PROVE  Value(d, w)' + Cardinality(Pending(d, w)') + Cardinality(Unstarted(k)') = Outcomes(k)'
    <2>1. UNCHANGED <<case, left, pc>>
      BY <1>8, Pops
    <2>2. Unstarted(k)' = U /\ Outcomes(k)' = n
      BY <2>1, UnstartedSame DEF Early
    <2>3. CASE a \in Reporters /\ Hits(todo[a], d, w)
      <3>1. Value(d, w)' = v + 1 /\ a \in P /\ Pending(d, w)' = P \ {a}
        BY <1>1, <1>3, <1>8, <2>3, ValuePerform, PendingPop
      <3>2. QED
        BY <1>7, <2>2, <3>1
    <2>4. CASE ~(a \in Reporters /\ Hits(todo[a], d, w))
      <3>1. Value(d, w)' = v /\ Pending(d, w)' = P
        BY <1>1, <1>3, <1>8, <2>4, ValuePerform, PendingPop
      <3>2. QED
        BY <1>6, <2>2, <3>1
    <2>5. QED
      BY <2>3, <2>4
  <1>9. ASSUME NEW r \in Reporters, NextOutcome(r)
        PROVE  Value(d, w)' + Cardinality(Pending(d, w)') + Cardinality(Unstarted(k)') = Outcomes(k)'
    <2>1. /\ todo' = [todo EXCEPT ![r] = ReportOf(Head(left[r]))]
          /\ left' = [left EXCEPT ![r] = Tail(@)]
      BY <1>1, <1>9 DEF NextOutcome
    <2>2. Value(d, w)' = v
      BY <1>9 DEF NextOutcome, Value, Gained, Amount
    <2> DEFINE o == Head(left[r])
               x == <<r, Behind(r) + 1>>
    <2>3. /\ o \in Outcome /\ r \notin P
          /\ Books(ReportOf(o), d, w) => Pending(d, w)' = P \cup {r}
          /\ ~Books(ReportOf(o), d, w) => Pending(d, w)' = P
          /\ o.kind \in k => x \in U /\ Unstarted(k)' = U \ {x}
          /\ o.kind \notin k => Unstarted(k)' = U
          /\ Outcomes(k)' = n
      BY <1>9, <2>1, OutcomeTurned
    <2>4. Books(ReportOf(o), d, w) <=> o.kind \in k
      BY <1>3, <2>3
    <2> HIDE DEF o, x
    <2>5. CASE o.kind \in k
      BY <1>7, <2>2, <2>3, <2>4, <2>5
    <2>6. CASE o.kind \notin k
      BY <1>6, <2>2, <2>3, <2>4, <2>6
    <2>7. QED
      BY <2>5, <2>6
  <1>10. CASE RunStep
    <2>1. \A r \in Reporters : todo'[r] = todo[r]
      BY <1>10, RunBeginsWith, Sets DEF Types
    <2>2. Pending(d, w)' = P
      BY <2>1, PendingSame
    <2>3. Value(d, w)' = v
      BY <1>10, RunBegins DEF RunUnchanged, Value, Gained, Amount
    <2>4. Unstarted(k)' = U /\ Outcomes(k)' = n
      <3>1. CASE Prerequisites
        <4>1. left' = case.outcomes /\ pc = "prerequisites"
          BY <1>1, <3>1 DEF Prerequisites, RunAt
        <4>2. Happened(k)' = Happened(k) /\ Outcomes(k)' = Outcomes(k)
          BY <1>1 DEF Happened, Outcomes
        <4>3. ASSUME NEW p \in Happened(k) PROVE Ahead(p[1], p[2])' /\ Ahead(p[1], p[2])
          <5>1. /\ p[1] \in Reporters /\ p[2] \in DOMAIN case.outcomes[p[1]]
                /\ case.outcomes[p[1]] \in Seq(Outcome)
            BY HappenedFacts, CaseFacts DEF Types
          <5>2. p[2] > 0 /\ Len(case.outcomes[p[1]]) - Len(case.outcomes[p[1]]) = 0
            BY <5>1
          <5>3. Behind(p[1])' = 0
            BY <1>1, <4>1, <5>2 DEF Behind
          <5>4. QED
            BY <4>1, <5>2, <5>3 DEF Ahead
        <4>4. QED
          BY <4>2, <4>3 DEF Unstarted
      <3>2. CASE ~Prerequisites
        <4>1. left' = left /\ (Early' <=> Early)
          BY <1>10, <3>2 DEF RunStep, Start, Executed, CloseStats, FireError, FireCancel, FireEnd, Return,
                             RunAt, Early
        <4>2. QED
          BY <1>1, <4>1, UnstartedSame
      <3>3. QED
        BY <3>1, <3>2
    <2>5. QED
      BY <1>6, <2>2, <2>3, <2>4
  <1>11. CASE Cancel \/ TryRecv \/ Drained \/ Refresh \/ IsClosed \/ Sleep \/ UNCHANGED vars
    <2>1. UNCHANGED <<case, todo, left, pc, report, pipeline_stats, sent>>
      BY <1>11 DEF Cancel, TryRecv, Drained, Refresh, IsClosed, Sleep, IndicatorUnchanged, vars
    <2>2. Unstarted(k)' = U /\ Outcomes(k)' = n
      BY <2>1, UnstartedSame DEF Early
    <2>3. Value(d, w)' = v /\ Pending(d, w)' = P
      BY <2>1, PendingSame DEF Value, Gained, Amount
    <2>4. QED
      BY <1>6, <2>2, <2>3
  <1>12. QED
    BY <1>8, <1>9, <1>10, <1>11 DEF Next

-----------------------------------------------------------------------------
(* The bytes. *)

(* One reporter's part of what is about to be booked. *)
Share(a, n) == {a} \X (1 .. n)
NoneOf(a, n, S) == Share(a, n) \cap S = {}
LEMMA ShareSize ==
    ASSUME NEW a, NEW n \in Nat
    PROVE  IsFiniteSet(Share(a, n)) /\ Cardinality(Share(a, n)) = n
  <1>1. IsFiniteSet(1 .. n) /\ Cardinality(1 .. n) = n
    <2>1. 1 \in Int /\ n \in Int /\ (IF 1 > n THEN 0 ELSE n - 1 + 1) = n
      OBVIOUS
    <2>2. QED
      BY <2>1, FS_Interval
  <1>2. IsFiniteSet({a}) /\ Cardinality({a}) = 1
    BY FS_Singleton
  <1>3. /\ IsFiniteSet({a} \X (1 .. n))
        /\ Cardinality({a} \X (1 .. n)) = Cardinality({a}) * Cardinality(1 .. n)
    BY <1>1, <1>2, FS_Product
  <1>4. 1 * n = n
    OBVIOUS
  <1>5. QED
    BY <1>1, <1>2, <1>3, <1>4 DEF Share

LEMMA Slice ==
    ASSUME NEW S, IsFiniteSet(S), NEW a, NEW n \in Nat, Share(a, n) \subseteq S
    PROVE  IsFiniteSet(S \ Share(a, n)) /\ Cardinality(S \ Share(a, n)) + n = Cardinality(S)
  <1> DEFINE T == Share(a, n)
  <1>1. IsFiniteSet(T) /\ Cardinality(T) = n
    BY ShareSize
  <1>2. Cardinality(S) \in Nat
    BY FS_CardinalityType
  <1>3. S \cap T = T
    OBVIOUS
  <1> HIDE DEF T
  <1>4. IsFiniteSet(S \ T) /\ Cardinality(S \ T) = Cardinality(S) - Cardinality(T)
    BY <1>3, FS_Difference
  <1>5. IsFiniteSet(S \ T) /\ Cardinality(S \ T) + n = Cardinality(S)
    BY <1>1, <1>2, <1>4
  <1>6. QED
    BY <1>5 DEF T

LEMMA SliceAdded ==
    ASSUME NEW S, IsFiniteSet(S), NEW a, NEW n \in Nat, NoneOf(a, n, S)
    PROVE  IsFiniteSet(S \cup Share(a, n)) /\ Cardinality(S \cup Share(a, n)) = Cardinality(S) + n
  <1> DEFINE T == Share(a, n)
  <1>1. IsFiniteSet(T) /\ Cardinality(T) = n
    BY ShareSize
  <1>2. Cardinality(S) \in Nat
    BY FS_CardinalityType
  <1>3. S \cap T = {}
    BY DEF NoneOf
  <1> HIDE DEF T
  <1>4. Cardinality(S \cap T) = 0
    BY <1>3, FS_EmptySet
  <1>5. IsFiniteSet(S \cup T) /\ Cardinality(S \cup T) = Cardinality(S) + Cardinality(T) - Cardinality(S \cap T)
    BY <1>1, FS_Union
  <1>6. IsFiniteSet(S \cup T) /\ Cardinality(S \cup T) = Cardinality(S) + n
    BY <1>1, <1>2, <1>4, <1>5
  <1>7. QED
    BY <1>6 DEF T

LEMMA BytesPop ==
    ASSUME Types, Booked, NEW a \in Actors, Perform(a), NEW d \in Booking, NEW w
    PROVE  LET T == Share(a, Head(todo[a]).n)
           IN  /\ a \in Reporters /\ Hits(todo[a], d, w) =>
                     T \subseteq Bytes(d, w) /\ Bytes(d, w)' = Bytes(d, w) \ T
               /\ ~(a \in Reporters /\ Hits(todo[a], d, w)) => Bytes(d, w)' = Bytes(d, w)
  <1> DEFINE T == Share(a, Head(todo[a]).n)
  <1>1. todo[a] # << >> /\ todo' = [todo EXCEPT ![a] = Tail(@)] /\ todo[a] \in Seq(Ops) /\ Head(todo[a]).n \in Nat
    BY Pops, HeadIsOp
  <1>2. /\ todo'[a] = Tail(todo[a]) /\ \A b \in Actors \ {a} : todo'[b] = todo[b]
        /\ Reporters \subseteq Actors
    BY <1>1, Sets DEF Types
  <1>3. ASSUME a \in Reporters
        PROVE  /\ Hits(todo[a], d, w) =>
                     Units(todo[a], d, w) = 1 .. Head(todo[a]).n /\ Units(Tail(todo[a]), d, w) = {}
               /\ ~Hits(todo[a], d, w) => Units(Tail(todo[a]), d, w) = Units(todo[a], d, w)
    BY <1>1, <1>3, PoppedBooks DEF Booked
  <1>4. ASSUME a \in Reporters, Hits(todo[a], d, w)
        PROVE  T \subseteq Bytes(d, w) /\ Bytes(d, w)' = Bytes(d, w) \ T
    <2> DEFINE n == Head(todo[a]).n
    <2>1. 1 .. n \subseteq Nat /\ Units(todo[a], d, w) = 1 .. n /\ Units(todo'[a], d, w) = {}
      BY <1>1, <1>2, <1>3, <1>4
    <2> HIDE DEF n
    <2>2. \A p \in Reporters \X Nat : p \in T <=> p[1] = a /\ p[2] \in 1 .. n
      BY DEF T, n, Share
    <2>3. T \subseteq Reporters \X Nat
      BY <1>4, <2>1 DEF T, n, Share
    <2>4. \A p \in T : p[1] = a /\ p[2] \in 1 .. n
      BY <2>2, <2>3
    <2> HIDE DEF T
    <2>5. T \subseteq Bytes(d, w)
      BY <2>1, <2>3, <2>4 DEF Bytes
    <2>6. ASSUME NEW p \in Reporters \X Nat
          PROVE  p[2] \in Units(todo'[p[1]], d, w) <=> p[2] \in Units(todo[p[1]], d, w) /\ p \notin T
      <3>1. CASE p[1] = a
        BY <2>1, <2>2, <3>1
      <3>2. CASE p[1] # a
        BY <1>2, <2>2, <3>2
      <3>3. QED
        BY <3>1, <3>2
    <2>7. QED
      BY <2>5, <2>6 DEF Bytes
  <1>5. ASSUME ~(a \in Reporters /\ Hits(todo[a], d, w)) PROVE Bytes(d, w)' = Bytes(d, w)
    <2>1. \A r \in Reporters : Units(todo'[r], d, w) = Units(todo[r], d, w)
      BY <1>2, <1>3, <1>5
    <2>2. QED
      BY <2>1 DEF Bytes
  <1>6. QED
    BY <1>4, <1>5 DEF T

OfBytes(d, w) == (d = "fetch_add" /\ w = "bytes") \/ (d = "update" /\ w = "DELETE_COMPLETE")
LEMMA BytesTurnedOf ==
    ASSUME Types, NEW r \in Reporters, todo[r] = << >>, Head(left[r]) \in Outcome,
           todo' = [todo EXCEPT ![r] = ReportOf(Head(left[r]))],
           NEW d, NEW w, OfBytes(d, w)
    PROVE  LET o == Head(left[r])
           IN  /\ o.kind = "deleted" =>
                     NoneOf(r, o.size, Bytes(d, w)) /\ Bytes(d, w)' = Bytes(d, w) \cup Share(r, o.size)
               /\ o.kind # "deleted" => Bytes(d, w)' = Bytes(d, w)
  <1> DEFINE o == Head(left[r])
             T == Share(r, o.size)
  <1>1. /\ todo'[r] = ReportOf(o) /\ \A q \in Reporters \ {r} : todo'[q] = todo[q]
    BY Sets DEF Types
  <1>2. Units(ReportOf(o), d, w) = IF o.kind = "deleted" THEN 1 .. o.size ELSE {}
    BY ReportBooks DEF OfBytes
  <1>3. Units(todo[r], d, w) = {} /\ o.size \in Nat
    BY DEF Units, Outcome
  <1>4. /\ T \subseteq Reporters \X Nat
        /\ \A p \in Reporters \X Nat : p \in T <=> p[1] = r /\ p[2] \in 1 .. o.size
    BY <1>3 DEF Share
  <1> HIDE DEF T, o
  <1>5. NoneOf(r, o.size, Bytes(d, w))
    BY <1>3, <1>4 DEF Bytes, NoneOf, T
  <1>6. ASSUME NEW p \in Reporters \X Nat
        PROVE  /\ o.kind = "deleted" =>
                     (p[2] \in Units(todo'[p[1]], d, w) <=> p[2] \in Units(todo[p[1]], d, w) \/ p \in T)
               /\ o.kind # "deleted" =>
                     (p[2] \in Units(todo'[p[1]], d, w) <=> p[2] \in Units(todo[p[1]], d, w))
    <2>1. CASE p[1] = r
      BY <1>1, <1>2, <1>3, <1>4, <2>1
    <2>2. CASE p[1] # r
      BY <1>1, <1>4, <2>2
    <2>3. QED
      BY <2>1, <2>2
  <1>7. /\ o.kind = "deleted" => Bytes(d, w)' = Bytes(d, w) \cup T
        /\ o.kind # "deleted" => Bytes(d, w)' = Bytes(d, w)
    BY <1>4, <1>6 DEF Bytes
  <1>8. QED
    BY <1>5, <1>7 DEF o, T

LEMMA BytesTurned ==
    ASSUME Types, NEW r \in Reporters, todo[r] = << >>, Head(left[r]) \in Outcome,
           todo' = [todo EXCEPT ![r] = ReportOf(Head(left[r]))]
    PROVE  LET o == Head(left[r])
           IN  /\ o.kind = "deleted" =>
                     /\ NoneOf(r, o.size, Counting) /\ Counting' = Counting \cup Share(r, o.size)
                     /\ NoneOf(r, o.size, Telling) /\ Telling' = Telling \cup Share(r, o.size)
               /\ o.kind # "deleted" => Counting' = Counting /\ Telling' = Telling
  <1>1. OfBytes("fetch_add", "bytes") /\ OfBytes("update", "DELETE_COMPLETE")
    BY DEF OfBytes
  <1>2. /\ Head(left[r]).kind = "deleted" =>
              /\ NoneOf(r, Head(left[r]).size, Bytes("fetch_add", "bytes"))
              /\ Bytes("fetch_add", "bytes")' = Bytes("fetch_add", "bytes") \cup Share(r, Head(left[r]).size)
        /\ Head(left[r]).kind # "deleted" => Bytes("fetch_add", "bytes")' = Bytes("fetch_add", "bytes")
    BY <1>1, BytesTurnedOf
  <1>3. /\ Head(left[r]).kind = "deleted" =>
              /\ NoneOf(r, Head(left[r]).size, Bytes("update", "DELETE_COMPLETE"))
              /\ Bytes("update", "DELETE_COMPLETE")'
                    = Bytes("update", "DELETE_COMPLETE") \cup Share(r, Head(left[r]).size)
        /\ Head(left[r]).kind # "deleted" =>
              Bytes("update", "DELETE_COMPLETE")' = Bytes("update", "DELETE_COMPLETE")
    BY <1>1, BytesTurnedOf
  <1>4. QED
    BY <1>2, <1>3 DEF Counting, Telling

LEMMA UpdatesBytes ==
    ASSUME NEW s \in Counters, NEW e, NEW n \in Nat
    PROVE  /\ s.bytes \in Nat
           /\ UpdatePipelineStats(s, e, n).bytes = s.bytes + IF e = "DELETE_COMPLETE" THEN n ELSE 0
  <1>1. CASE e = "DELETE_COMPLETE"
    <2> DEFINE d == Plus(s, "deleted", 1)
    <2>1. d \in Counters /\ d.bytes = s.bytes /\ s.bytes \in Nat
      BY DEF Plus, Counters
    <2> HIDE DEF d
    <2>2. Plus(d, "bytes", n).bytes = d.bytes + n
      BY <2>1 DEF Plus, Counters
    <2>3. UpdatePipelineStats(s, e, n) = Plus(d, "bytes", n)
      BY <1>1 DEF UpdatePipelineStats, d
    <2>4. QED
      BY <1>1, <2>1, <2>2, <2>3
  <1>2. CASE e # "DELETE_COMPLETE"
    <2>1. s.bytes \in Nat
      BY DEF Counters
    <2>2. \A f \in {"failed", "skipped", "errors"} : Plus(s, f, 1).bytes = s.bytes
      BY DEF Plus, Counters
    <2>3. UpdatePipelineStats(s, e, n).bytes = s.bytes
      BY <1>2, <2>2 DEF UpdatePipelineStats
    <2>4. QED
      BY <1>2, <2>1, <2>3
  <1>3. QED
    BY <1>1, <1>2

(* What an operation adds to the bytes of either account. *)
LEMMA BytesPerform ==
    ASSUME Types, Begun, Booked, Drawn, NEW a \in Actors, Perform(a)
    PROVE  LET n == Head(todo[a]).n
               counts == a \in Reporters /\ Hits(todo[a], "fetch_add", "bytes")
               tells == a \in Reporters /\ Hits(todo[a], "update", "DELETE_COMPLETE")
           IN  /\ n \in Nat /\ report.bytes \in Nat /\ pipeline_stats.bytes \in Nat
               /\ counts => report'.bytes = report.bytes + n
               /\ ~counts => report'.bytes = report.bytes
               /\ tells => pipeline_stats'.bytes = pipeline_stats.bytes + n
               /\ ~tells => pipeline_stats'.bytes = pipeline_stats.bytes
  <1> DEFINE n == Head(todo[a]).n
             w == Head(todo[a]).what
             counts == a \in Reporters /\ Hits(todo[a], "fetch_add", "bytes")
             tells == a \in Reporters /\ Hits(todo[a], "update", "DELETE_COMPLETE")
  <1>1. todo[a] # << >> /\ todo[a] \in Seq(Ops) /\ n \in Nat
    BY Pops, HeadIsOp
  <1>2. report \in Counters /\ pipeline_stats \in Counters
    BY DEF Types, Drawn
  <1>3. report.bytes \in Nat /\ pipeline_stats.bytes \in Nat
    BY <1>2 DEF Counters
  <1>4. Head(todo[a]) = todo[a][1] /\ 1 \in DOMAIN todo[a]
    BY <1>1
  <1>5. a \notin Reporters => Head(todo[a]).do # "fetch_add" /\ (Head(todo[a]).do = "update" => w \in ByRun)
    BY <1>4, Sets DEF Booked, BooksNone
  <1>6. CASE Head(todo[a]).do = "fetch_add"
    <2>1. report' = Plus(report, w, n) /\ pipeline_stats' = pipeline_stats
      BY <1>6 DEF Perform, FetchAdd, SendStats, Update, EnterCallback, LeaveCallback, CloneStats,
                  CancelToken, RecordError, Doing
    <2>2. w \in Fields
      BY <1>1, <1>6, HeadField
    <2>3. ~tells /\ (counts <=> w = "bytes")
      BY <1>5, <1>6 DEF Hits
    <2> HIDE DEF n, w, counts, tells
    <2>4. /\ w = "bytes" => Plus(report, w, n).bytes = report.bytes + n
          /\ w # "bytes" => Plus(report, w, n).bytes = report.bytes
      BY <1>1, <1>2, <2>2 DEF Plus, Counters, Fields
    <2>5. QED
      BY <1>1, <1>3, <2>1, <2>3, <2>4 DEF n, counts, tells
  <1>7. CASE Head(todo[a]).do = "update"
    <2>1. report' = report /\ pipeline_stats' = UpdatePipelineStats(pipeline_stats, w, n)
      BY <1>7 DEF Perform, FetchAdd, SendStats, Update, EnterCallback, LeaveCallback, CloneStats,
                  CancelToken, RecordError, Doing
    <2>2. ~counts /\ (tells <=> w = "DELETE_COMPLETE")
      BY <1>5, <1>7 DEF Hits, ByRun
    <2> HIDE DEF n, w, counts, tells
    <2>3. /\ w = "DELETE_COMPLETE" => pipeline_stats'.bytes = pipeline_stats.bytes + n
          /\ w # "DELETE_COMPLETE" => pipeline_stats'.bytes = pipeline_stats.bytes
      BY <1>1, <1>2, <1>3, <2>1, UpdatesBytes
    <2>4. QED
      BY <1>1, <1>3, <2>1, <2>2, <2>3 DEF n, counts, tells
  <1>8. CASE Head(todo[a]).do \notin {"fetch_add", "update"}
    <2>1. report' = report /\ pipeline_stats' = pipeline_stats /\ ~counts /\ ~tells
      BY <1>8 DEF Perform, FetchAdd, SendStats, Update, EnterCallback, LeaveCallback, CloneStats,
                  CancelToken, RecordError, Doing, Hits
    <2>2. QED
      BY <1>1, <1>3, <2>1
  <1>9. QED
    BY <1>6, <1>7, <1>8

LEMMA BytesNext == Types /\ Begun /\ Drawn /\ Booked /\ BytesBalanced /\ [Next]_vars => BytesBalanced'
  <1> SUFFICES ASSUME Types, Begun, Drawn, Booked, BytesBalanced, [Next]_vars PROVE BytesBalanced'
    OBVIOUS
  <1> DEFINE C == Counting
             L == Telling
             x == report.bytes
             y == pipeline_stats.bytes
             z == case.carried.bytes
             Cn == Counting'
             Ln == Telling'
             xn == report'.bytes
             yn == pipeline_stats'.bytes
  <1>1. /\ IsFiniteSet(C) /\ IsFiniteSet(L) /\ x + Cardinality(C) = (y - z) + Cardinality(L)
        /\ Cardinality(C) \in Nat /\ Cardinality(L) \in Nat
    BY FS_CardinalityType DEF BytesBalanced
  <1>2. case' = case /\ z \in Nat /\ x \in Nat /\ y \in Nat
    <2>1. case.carried \in Counters /\ report \in Counters /\ pipeline_stats \in Counters
      BY CaseFacts DEF Types, Drawn
    <2>2. QED
      BY <2>1, LeftSteps DEF Counters
  <1>3. SUFFICES IsFiniteSet(Cn) /\ IsFiniteSet(Ln) /\ xn + Cardinality(Cn) = (yn - z) + Cardinality(Ln)
    BY <1>2 DEF BytesBalanced
  <1>4. ASSUME NEW a \in Actors, Perform(a)
        PROVE  IsFiniteSet(Cn) /\ IsFiniteSet(Ln) /\ xn + Cardinality(Cn) = (yn - z) + Cardinality(Ln)
    <2> DEFINE n == Head(todo[a]).n
               T == Share(a, n)
               counts == a \in Reporters /\ Hits(todo[a], "fetch_add", "bytes")
               tells == a \in Reporters /\ Hits(todo[a], "update", "DELETE_COMPLETE")
    <2>1. /\ n \in Nat
          /\ counts => xn = x + n
          /\ ~counts => xn = x
          /\ tells => yn = y + n
          /\ ~tells => yn = y
      BY <1>4, BytesPerform
    <2>2. /\ counts => T \subseteq C /\ Cn = C \ T
          /\ ~counts => Cn = C
          /\ tells => T \subseteq L /\ Ln = L \ T
          /\ ~tells => Ln = L
      BY <1>4, BytesPop DEF Booking, Counting, Telling
    <2>3. ~(counts /\ tells)
      BY DEF Hits
    <2>4. /\ T \subseteq C => IsFiniteSet(C \ T) /\ Cardinality(C \ T) + n = Cardinality(C)
          /\ T \subseteq L => IsFiniteSet(L \ T) /\ Cardinality(L \ T) + n = Cardinality(L)
      BY <1>1, <2>1, Slice
    <2> HIDE DEF n, T, counts, tells, C, L, x, y, z, Cn, Ln, xn, yn
    <2>5. CASE counts
      <3>1. IsFiniteSet(Cn) /\ Cardinality(Cn) + n = Cardinality(C) /\ Ln = L /\ xn = x + n /\ yn = y
        BY <2>1, <2>2, <2>3, <2>4, <2>5
      <3>2. Cardinality(Cn) \in Nat
        BY <3>1, FS_CardinalityType
      <3>3. QED
        BY <1>1, <1>2, <2>1, <3>1, <3>2
    <2>6. CASE tells
      <3>1. IsFiniteSet(Ln) /\ Cardinality(Ln) + n = Cardinality(L) /\ Cn = C /\ xn = x /\ yn = y + n
        BY <2>1, <2>2, <2>3, <2>4, <2>6
      <3>2. Cardinality(Ln) \in Nat
        BY <3>1, FS_CardinalityType
      <3>3. QED
        BY <1>1, <1>2, <2>1, <3>1, <3>2
    <2>7. CASE ~counts /\ ~tells
      BY <1>1, <2>1, <2>2, <2>7
    <2>8. QED
      BY <2>5, <2>6, <2>7
  <1>5. ASSUME UNCHANGED <<report, pipeline_stats>>, \A r \in Reporters : todo'[r] = todo[r]
        PROVE  IsFiniteSet(Cn) /\ IsFiniteSet(Ln) /\ xn + Cardinality(Cn) = (yn - z) + Cardinality(Ln)
    <2>1. Cn = C /\ Ln = L
      BY <1>5 DEF Counting, Telling, Bytes
    <2>2. QED
      BY <1>1, <1>5, <2>1
  <1>6. ASSUME NEW r \in Reporters, NextOutcome(r)
        PROVE  IsFiniteSet(Cn) /\ IsFiniteSet(Ln) /\ xn + Cardinality(Cn) = (yn - z) + Cardinality(Ln)
    <2> DEFINE o == Head(left[r])
    <2>1. UNCHANGED <<report, pipeline_stats>> /\ todo[r] = << >> /\ (todo' = [todo EXCEPT ![r] = ReportOf(o)] \/ todo' = todo)
      BY <1>6 DEF NextOutcome
    <2>2. CASE todo' = todo
      BY <1>5, <2>1, <2>2
    <2>3. CASE todo' = [todo EXCEPT ![r] = ReportOf(o)]
      <3>1. o \in Outcome
        <4>1. left[r] \in Seq(Outcome) /\ left[r] # << >>
          BY <1>6 DEF Types, NextOutcome
        <4>2. QED
          BY <4>1
      <3>2. o.size \in Nat
        BY <3>1 DEF Outcome
      <3> DEFINE m == o.size
                 D == o.kind = "deleted"
      <3>3. /\ D => NoneOf(r, m, C) /\ Cn = C \cup Share(r, m) /\ NoneOf(r, m, L) /\ Ln = L \cup Share(r, m)
            /\ ~D => Cn = C /\ Ln = L
        BY <2>1, <2>3, <3>1, BytesTurned
      <3> HIDE DEF m, D
      <3>4. /\ NoneOf(r, m, C) =>
                  IsFiniteSet(C \cup Share(r, m)) /\ Cardinality(C \cup Share(r, m)) = Cardinality(C) + m
            /\ NoneOf(r, m, L) =>
                  IsFiniteSet(L \cup Share(r, m)) /\ Cardinality(L \cup Share(r, m)) = Cardinality(L) + m
            /\ m \in Nat
        <4>1. m \in Nat
          BY <3>2 DEF m
        <4>2. NoneOf(r, m, C) =>
                  IsFiniteSet(C \cup Share(r, m)) /\ Cardinality(C \cup Share(r, m)) = Cardinality(C) + m
          BY <1>1, <4>1, SliceAdded
        <4>3. NoneOf(r, m, L) =>
                  IsFiniteSet(L \cup Share(r, m)) /\ Cardinality(L \cup Share(r, m)) = Cardinality(L) + m
          BY <1>1, <4>1, SliceAdded
        <4>4. QED
          BY <4>1, <4>2, <4>3
      <3>5. xn = x /\ yn = y
        BY <2>1
      <3> HIDE DEF C, L, x, y, z, Cn, Ln, xn, yn
      <3>6. CASE D
        <4>1. /\ IsFiniteSet(Cn) /\ IsFiniteSet(Ln)
              /\ Cardinality(Cn) = Cardinality(C) + m /\ Cardinality(Ln) = Cardinality(L) + m
          BY <3>3, <3>4, <3>6
        <4>2. QED
          BY <1>1, <1>2, <3>4, <3>5, <4>1
      <3>7. CASE ~D
        BY <1>1, <3>3, <3>5, <3>7
      <3>8. QED
        BY <3>6, <3>7
    <2>4. QED
      BY <2>1, <2>2, <2>3
  <1>7. CASE RunStep
    <2>1. UNCHANGED <<report, pipeline_stats>>
      BY <1>7, RunBegins DEF RunUnchanged
    <2>2. \A r \in Reporters : todo'[r] = todo[r]
      BY <1>7, RunBeginsWith, Sets DEF Types
    <2>3. QED
      BY <1>5, <2>1, <2>2
  <1>8. CASE Cancel \/ TryRecv \/ Drained \/ Refresh \/ IsClosed \/ Sleep \/ UNCHANGED vars
    <2>1. UNCHANGED <<todo, report, pipeline_stats>>
      BY <1>8 DEF Cancel, TryRecv, Drained, Refresh, IsClosed, Sleep, IndicatorUnchanged, vars
    <2>2. QED
      BY <1>5, <2>1
  <1>9. QED
    BY <1>4, <1>6, <1>7, <1>8 DEF Next

-----------------------------------------------------------------------------
(* Where the accounts start, and where they end. *)

(* An actor with nothing to do is about to book nothing. *)
LEMMA NothingToBook ==
    ASSUME \A r \in Reporters : todo[r] = << >>, NEW d, NEW w
    PROVE  Pending(d, w) = {} /\ Bytes(d, w) = {}
  <1>1. DOMAIN << >> = {}
    OBVIOUS
  <1>2. \A r \in Reporters : ~Books(todo[r], d, w)
    BY <1>1 DEF Books
  <1>3. \A r \in Reporters : Units(todo[r], d, w) = {}
    BY <1>1 DEF Units
  <1>4. QED
    BY <1>2, <1>3 DEF Pending, Bytes

(* All the bytes are booked: the two accounts have the same. *)
LEMMA NoBytes ==
    ASSUME \A r \in Reporters : todo[r] = << >>
    PROVE  Counting = {} /\ Telling = {}
  BY NothingToBook DEF Counting, Telling

LEMMA CountsInit == Init => Drawn /\ Lookout /\ Booked /\ Remaining /\ Balanced /\ BytesBalanced
  <1> SUFFICES ASSUME Init PROVE Drawn /\ Lookout /\ Booked /\ Remaining /\ Balanced /\ BytesBalanced
    OBVIOUS
  <1>1. /\ case \in Cases /\ todo = [a \in Actors |-> << >>] /\ left = [r \in Reporters |-> << >>]
        /\ pc = "start" /\ report = Zero /\ channel = << >> /\ total = Zero /\ sent = << >>
        /\ pipeline_stats = case.carried
        /\ closed = case.closed_early /\ raced = FALSE /\ indicator = "drain"
    BY DEF Init
  <1>2. Types
    BY IInvInit DEF IInv
  <1>3. \A a \in Actors : todo[a] = << >>
    BY <1>1
  <1>4. \A r \in Reporters : todo[r] = << >> /\ left[r] = << >>
    BY <1>1, <1>3, Sets
  <1>5. Zero \in Counters /\ \A f \in Fields : Zero[f] = 0
    BY DEF Zero, Counters, Fields
  <1>6. Drawn
    <2> DEFINE W == Messages
    <2>1. << >> \in Seq(W) /\ Len(<< >>) - Len(<< >>) = 0
      OBVIOUS
    <2> HIDE DEF W
    <2>2. EndOf(<< >>, << >>)
      BY <2>1, EndOfEnds
    <2>3. sent \in Seq(Messages) /\ channel \in Seq(Messages)
      BY <1>1, <2>1 DEF W
    <2>4. Received = 0
      BY <1>1, <2>1 DEF Received
    <2>5. \A f : Sums(sent, f)[0] = 0
      BY <2>3, SumsRule
    <2>6. QED
      BY <1>1, <1>5, <2>2, <2>3, <2>4, <2>5 DEF Drawn
  <1>7. Lookout
    <2>1. case.closed_early \in BOOLEAN
      BY <1>1, CaseFacts
    <2>2. QED
      BY <1>1, <2>1 DEF Lookout
  <1>8. Booked
    <2>1. DOMAIN << >> = {}
      OBVIOUS
    <2>2. Distinct(<< >>) /\ ByOne(<< >>) /\ BooksNone(<< >>)
      BY <2>1 DEF Distinct, ByOne, BooksNone
    <2>3. QED
      BY <1>3, <1>4, <2>2, Sets DEF Booked
  <1>9. Remaining
    <2>1. \A r \in Reporters : case.outcomes[r] \in Seq(Outcome)
      BY <1>1, CaseFacts
    <2>2. \A r \in Reporters : EndOf(<< >>, case.outcomes[r])
      BY <2>1, EndOfEnds
    <2>3. QED
      BY <1>4, <2>2 DEF Remaining
  <1>10. ASSUME NEW t \in Accounts PROVE Balance(t[1], t[2], t[3])
    <2> DEFINE d == t[1]
               w == t[2]
               k == t[3]
               u == Cardinality(Unstarted(k))
               p == Cardinality(Pending(d, w))
               v == Value(d, w)
    <2>1. <<d, w, k>> \in Accounts
      BY <1>10 DEF Accounts
    <2>2. /\ d \in Booking
          /\ d = "fetch_add" => w \in {"deleted", "failed"}
          /\ d = "update" => w \in Counted
      BY <1>2, <1>6, <2>1, AccountFacts
    <2>3. p = 0
      BY <1>4, NothingToBook, FS_EmptySet
    <2>4. u = Outcomes(k) /\ u \in Nat
      BY <1>1, <1>2, BalanceFinite DEF Unstarted, Ahead, Outcomes
    <2>5. v = 0
      <3>1. CASE d = "fetch_add"
        BY <1>1, <1>5, <2>2, <3>1 DEF Value, Fields
      <3>2. CASE d = "update"
        <4>1. Gained(pipeline_stats, w) = Stat(w) - case.carried[FieldOf(w)] /\ Stat(w) \in Nat
          BY <1>2, <2>2, <3>2, GainedFacts
        <4>2. Stat(w) = case.carried[FieldOf(w)]
          BY <1>1 DEF Stat
        <4>3. Gained(pipeline_stats, w) = 0
          BY <4>1, <4>2
        <4>4. QED
          BY <3>2, <4>3 DEF Value
      <3>3. CASE d = "send"
        <4>1. sent \in Seq(Messages) /\ Len(sent) = 0
          BY <1>1, <1>6 DEF Drawn
        <4>2. Sums(sent, w)[0] = 0
          BY <4>1, SumsRule
        <4>3. QED
          BY <3>3, <4>1, <4>2 DEF Value, Amount
      <3>4. QED
        BY <2>2, <3>1, <3>2, <3>3 DEF Booking
    <2> HIDE DEF u, p, v
    <2>6. v + p + u = u
      BY <2>3, <2>4, <2>5
    <2>7. QED
      BY <2>4, <2>6 DEF Balance, u, p, v
  <1>11. BytesBalanced
    <2>1. Counting = {} /\ Telling = {} /\ IsFiniteSet({}) /\ Cardinality({}) = 0
      BY <1>4, NoBytes, FS_EmptySet
    <2>2. case.carried.bytes \in Nat /\ report.bytes = 0
      BY <1>1, CaseFacts DEF Counters, Zero
    <2>3. pipeline_stats.bytes - case.carried.bytes = 0
      BY <1>1, <2>2
    <2>4. QED
      BY <2>1, <2>2, <2>3 DEF BytesBalanced
  <1>12. QED
    BY <1>6, <1>7, <1>8, <1>9, <1>10, <1>11 DEF Balanced

(* Once the reporters have nothing left to do, every account has what happened. *)
LEMMA Settled ==
    ASSUME Types, Quiet, Drawn, Balanced, ~Early, pc # "wait", ~cancelled, case.prerequisites,
           NEW d, NEW w, NEW k, <<d, w, k>> \in Accounts
    PROVE  Value(d, w) = Outcomes(k)
  <1>1. \A r \in Reporters : todo[r] = << >> /\ left[r] = << >>
    BY DEF Quiet, Idle
  <1>2. Unstarted(k) = {}
    <2>1. ASSUME NEW q \in Happened(k) PROVE ~Ahead(q[1], q[2])
      <3>1. /\ q[1] \in Reporters /\ q[2] \in DOMAIN case.outcomes[q[1]]
            /\ case.outcomes[q[1]] \in Seq(Outcome)
        BY HappenedFacts, CaseFacts DEF Types
      <3>2. Len(case.outcomes[q[1]]) \in Nat /\ q[2] \in 1 .. Len(case.outcomes[q[1]])
        BY <3>1
      <3>3. Behind(q[1]) = Len(case.outcomes[q[1]])
        <4> DEFINE n == Len(case.outcomes[q[1]])
        <4>1. Len(left[q[1]]) = 0
          BY <1>1, <3>1
        <4>2. n \in Nat
          BY <3>2
        <4> HIDE DEF n
        <4>3. n - 0 = n
          BY <4>2
        <4>4. QED
          BY <4>1, <4>3 DEF Behind, n
      <3>4. QED
        BY <3>2, <3>3 DEF Ahead, Early
    <2>2. QED
      BY <2>1 DEF Unstarted
  <1>3. Pending(d, w) = {} /\ Cardinality({}) = 0
    BY <1>1, NothingToBook, FS_EmptySet
  <1>4. Value(d, w) + Cardinality(Pending(d, w)) + Cardinality(Unstarted(k)) = Outcomes(k)
    <2> DEFINE t == <<d, w, k>>
    <2>1. Balance(t[1], t[2], t[3])
      BY DEF Balanced
    <2>2. QED
      BY <2>1 DEF Balance
  <1>5. Value(d, w) \in Int
    BY AccountFacts
  <1>6. QED
    BY <1>2, <1>3, <1>4, <1>5

LEMMA CountsGive ==
    Types /\ Begun /\ Quiet /\ Told /\ Drawn /\ Balanced /\ BytesBalanced => FinalCountsExact
  <1> SUFFICES ASSUME Types, Begun, Quiet, Told, Drawn, Balanced, BytesBalanced,
                      pc = "returned", ~cancelled, case.prerequisites
               PROVE  /\ report.deleted = Outcomes({"deleted"}) /\ report.failed = Outcomes({"failed"})
                      /\ report.bytes = pipeline_stats.bytes - case.carried.bytes
                      /\ pipeline_stats.deleted - case.carried.deleted = Outcomes({"deleted"})
                      /\ Subscribed("DELETE_COMPLETE") => DeliveredOf("DELETE_COMPLETE") = Outcomes({"deleted"})
                      /\ Subscribed("DELETE_FAILED") => DeliveredOf("DELETE_FAILED") = Outcomes({"failed"})
                      /\ case.registered => pipeline_stats.skipped - case.carried.skipped = Outcomes({"skipped"})
    BY DEF FinalCountsExact
  <1>1. \A r \in Reporters : todo[r] = << >> /\ left[r] = << >>
    BY DEF Quiet, Idle
  <1>2. todo[Run] = << >>
    BY DEF Begun, RunHas
  <1>3. ASSUME NEW d, NEW w, NEW k, <<d, w, k>> \in Accounts
        PROVE  Value(d, w) = Outcomes(k)
    BY <1>3, Settled DEF Early
  <1>4. /\ FieldOf("DELETE_COMPLETE") = "deleted" /\ FieldOf("DELETE_FAILED") = "failed"
        /\ FieldOf("DELETE_FILTERED") = "skipped"
    BY DEF FieldOf
  <1>5. /\ Value("fetch_add", "deleted") = Outcomes({"deleted"})
        /\ Value("fetch_add", "failed") = Outcomes({"failed"})
        /\ Value("update", "DELETE_COMPLETE") = Outcomes({"deleted"})
        /\ Value("update", "DELETE_FAILED") = Outcomes({"failed"})
        /\ case.registered => Value("update", "DELETE_FILTERED") = Outcomes({"skipped"})
    BY <1>3 DEF Accounts
  <1>6. /\ report.deleted = Outcomes({"deleted"}) /\ report.failed = Outcomes({"failed"})
        /\ Gained(pipeline_stats, "DELETE_COMPLETE") = Outcomes({"deleted"})
        /\ Gained(pipeline_stats, "DELETE_FAILED") = Outcomes({"failed"})
        /\ case.registered => Gained(pipeline_stats, "DELETE_FILTERED") = Outcomes({"skipped"})
    BY <1>5 DEF Value
  <1>7. /\ pipeline_stats.deleted - case.carried.deleted = Outcomes({"deleted"})
        /\ case.registered => pipeline_stats.skipped - case.carried.skipped = Outcomes({"skipped"})
    BY <1>4, <1>6 DEF Gained
  <1>8. ASSUME NEW e \in Counted PROVE Subscribed(e) => DeliveredOf(e) = Gained(pipeline_stats, e)
    <2>1. Waiting(e) = {} /\ Cardinality({}) = 0
      BY <1>1, <1>2, Sets, FS_EmptySet DEF Waiting, Waits
    <2>2. Subscribed(e) => Heard(e) + Cardinality(Waiting(e)) = Gained(pipeline_stats, e)
      BY DEF Told
    <2>3. Heard(e) \in Nat
      BY GainedFacts
    <2>4. Subscribed(e) => Heard(e) = Gained(pipeline_stats, e)
      BY <2>1, <2>2, <2>3
    <2> DEFINE S == [event : Events, stats : Counters]
    <2>5. delivered \in Seq(S)
      BY DEF Types
    <2> HIDE DEF S
    <2>6. DOMAIN delivered = 1 .. Len(delivered)
      BY <2>5
    <2>7. DeliveredOf(e) = Heard(e)
      BY <2>6 DEF HowMany, CountIn, DeliveredOf, Heard
    <2>8. QED
      BY <2>4, <2>7
  <1>9. /\ Subscribed("DELETE_COMPLETE") => DeliveredOf("DELETE_COMPLETE") = Outcomes({"deleted"})
        /\ Subscribed("DELETE_FAILED") => DeliveredOf("DELETE_FAILED") = Outcomes({"failed"})
    <2>1. {"DELETE_COMPLETE", "DELETE_FAILED"} \subseteq Counted
      BY DEF Counted
    <2>2. QED
      BY <1>6, <1>8, <2>1
  <1>10. report.bytes = pipeline_stats.bytes - case.carried.bytes
    <2> DEFINE x == report.bytes
               y == pipeline_stats.bytes
               z == case.carried.bytes
    <2>1. x + Cardinality(Counting) = (y - z) + Cardinality(Telling)
      BY DEF BytesBalanced
    <2>2. Cardinality(Counting) = 0 /\ Cardinality(Telling) = 0
      BY <1>1, NoBytes, FS_EmptySet
    <2>3. x \in Nat /\ y \in Nat /\ z \in Nat
      <3>1. report \in Counters /\ pipeline_stats \in Counters /\ case.carried \in Counters
        BY CaseFacts DEF Types, Drawn
      <3>2. QED
        BY <3>1 DEF Counters
    <2> HIDE DEF x, y, z
    <2>4. x = y - z
      BY <2>1, <2>2, <2>3
    <2>5. QED
      BY <2>4 DEF x, y, z
  <1>11. report.deleted = Outcomes({"deleted"}) /\ report.failed = Outcomes({"failed"})
    BY <1>6
  <1>12. QED
    BY <1>7, <1>9, <1>10, <1>11

(* Where the indicator's summary ends. *)
LEMMA SummaryGives ==
    Types /\ Quiet /\ Drawn /\ Lookout /\ Balanced => SummaryExact
  <1> SUFFICES ASSUME Types, Quiet, Drawn, Lookout, Balanced, indicator = "returned", ~raced
               PROVE  /\ channel = << >>
                      /\ ~cancelled /\ case.prerequisites /\ ~case.closed_early =>
                            /\ total.deleted = Outcomes({"deleted"}) /\ total.failed = Outcomes({"failed"})
                            /\ total.skipped = Outcomes({"skipped", "missing"})
    BY DEF SummaryExact
  <1>1. closed /\ channel = << >>
    BY DEF Lookout
  <1>2. ASSUME NEW f \in Fields PROVE total[f] = Amount(sent, f)
    <2>1. total[f] + Amount(channel, f) = Amount(sent, f)
      BY DrawnGives DEF IndicatorConserves, Zero, Fields
    <2>2. Amount(channel, f) = 0
      <3>1. channel \in Seq(Messages) /\ Len(channel) = 0
        BY <1>1 DEF Drawn
      <3>2. Sums(channel, f)[0] = 0
        BY <3>1, SumsRule
      <3>3. QED
        BY <3>1, <3>2 DEF Amount
    <2>3. total[f] \in Nat
      BY DEF Drawn, Counters, Fields
    <2>4. QED
      BY <2>1, <2>2, <2>3
  <1>3. ASSUME ~cancelled, case.prerequisites, ~case.closed_early
        PROVE  /\ total.deleted = Outcomes({"deleted"}) /\ total.failed = Outcomes({"failed"})
               /\ total.skipped = Outcomes({"skipped", "missing"})
    <2>1. ~Early /\ pc # "wait"
      BY <1>1, <1>3 DEF Lookout, Early
    <2>2. ASSUME NEW d, NEW w, NEW k, <<d, w, k>> \in Accounts PROVE Value(d, w) = Outcomes(k)
      BY <1>3, <2>1, <2>2, Settled
    <2>3. /\ Value("send", "deleted") = Outcomes({"deleted"})
          /\ Value("send", "failed") = Outcomes({"failed"})
          /\ Value("send", "skipped") = Outcomes({"skipped", "missing"})
      BY <1>3, <2>2 DEF Accounts
    <2>4. \A w : Value("send", w) = Amount(sent, w)
      BY DEF Value
    <2>5. {"deleted", "failed", "skipped"} \subseteq Fields
      BY DEF Fields
    <2>6. QED
      BY <1>2, <2>3, <2>4, <2>5
  <1>4. QED
    BY <1>1, <1>3

(* The three accounts of a run agree with what happened, for any workers and any  *)
(* outcomes: the atomic counters of DeletionStatsReport and the statistics the    *)
(* EventManager keeps for the callback end at what was deleted, failed and        *)
(* filtered out; the indicator's totals and its channel hold all that was sent to *)
(* it, and unless the channel was closed between its last look and its question,  *)
(* its summary counts every deleted, failed, filtered and missing object. All     *)
(* this however the reporters' operations interleave.                             *)
THEOREM CountsAgreeHold == Spec => []CountsAgree
  <1> DEFINE CInv == IInv /\ Drawn /\ Lookout /\ Booked /\ Remaining /\ Balanced /\ BytesBalanced
  <1>1. Init => CInv
    BY IInvInit, CountsInit
  <1>2. CInv /\ [Next]_vars => CInv'
    BY IInvNext, DrawnNext, LookoutNext, BookedNext, RemainingNext, BalancedNext, BytesNext DEF IInv
  <1>3. CInv => CountsAgree
    BY CountsGive, DrawnGives, SummaryGives DEF IInv, CountsAgree
  <1>4. QED
    BY <1>1, <1>2, <1>3, PTL DEF Spec

=============================================================================
