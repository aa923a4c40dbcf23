--------------------------- MODULE EndToEndProofs ---------------------------
(* Proofs about a whole run, for every listing, chain of filters, number of       *)
(* workers, batch size, limit and storage: no object is lost, counted twice or    *)
(* reported as something it is not (Ledger).                                      *)
EXTENDS EndToEnd, FiniteSetTheorems, TLAPS

-----------------------------------------------------------------------------
(* Invariants. *)

States == {"idle", "run", "full", "limit", "closed"} \cup Ended
Types ==
    /\ case \in Cases
    /\ task \in [Tasks -> States]
    /\ chan \in [0 .. LastStage -> Seq(Objects)]
    /\ buffer \in [Workers -> Seq(Objects)]
    /\ deleted \subseteq Objects /\ failed \subseteq Objects /\ filtered \subseteq Objects
    /\ delete_counter \in Nat /\ cancelled \in BOOLEAN
    /\ events \in [EventTypes -> Nat]

(* No sequence holds an object twice. *)
Once(s) == \A i, j \in DOMAIN s : s[i] = s[j] => i = j
NoRepeats ==
    /\ \A c \in 0 .. LastStage : Once(chan[c])
    /\ \A w \in Workers : Once(buffer[w])

(* No object is in two places. *)
InChan(c, i) == i \in Range(chan[c])
InBuffer(w, i) == i \in Range(buffer[w])
Settled(i) == i \in deleted \/ i \in failed \/ i \in filtered
OnePlace ==
    /\ \A c, d \in 0 .. LastStage : \A i : InChan(c, i) /\ InChan(d, i) => c = d
    /\ \A v, w \in Workers : \A i : InBuffer(v, i) /\ InBuffer(w, i) => v = w
    /\ \A c \in 0 .. LastStage : \A i : InChan(c, i) => ~Settled(i) /\ \A w \in Workers : ~InBuffer(w, i)
    /\ \A w \in Workers : \A i : InBuffer(w, i) => ~Settled(i)
    /\ deleted \cap failed = {} /\ deleted \cap filtered = {} /\ failed \cap filtered = {}

(* Before the listing there is nothing anywhere. *)
Unlisted ==
    /\ run = "start" => \A t \in Tasks : task[t] = "idle"
    /\ ~Listed =>
          /\ \A c \in 0 .. LastStage : chan[c] = << >>
          /\ \A w \in Workers : buffer[w] = << >>
          /\ deleted = {} /\ failed = {} /\ filtered = {}

(* As long as nobody cancelled and nothing panicked, the tasks end in their       *)
(* order, each after the one it receives from.                                    *)
Calm == ~cancelled /\ \A t \in Tasks : task[t] # "panic"
Over == Ended \cup {"closed"}
Before(t) == IF t \in Workers THEN LastStage ELSE t - 1
Orderly == Calm => \A t \in Tasks \ {0} : task[t] \in Over => task[Before(t)] \in Ended

(* Then every listed object is somewhere, except one over the limit. *)
Somewhere(i) ==
    \/ \E c \in 0 .. LastStage : InChan(c, i)
    \/ \E w \in Workers : InBuffer(w, i)
    \/ Settled(i)
Undisturbed ==
    /\ Listed /\ storage.lists = "all" /\ ~delete_all_versions
    /\ ~cancelled /\ \A t \in Tasks : task[t] \notin {"panic", "limit"}
Kept == Undisturbed => \A i \in Objects : Somewhere(i)

(* What was admitted under the limit is in a batch or was answered for. *)
Admitted == deleted \cup failed \cup UNION {Range(buffer[w]) : w \in Workers}
Limited ==
    /\ Cardinality(Admitted) <= delete_counter
    /\ config.max_delete # NoLimit => Cardinality(Admitted) <= config.max_delete

Truthful ==
    /\ removed = IF config.dry_run THEN {} ELSE deleted
    /\ events["DELETE_COMPLETE"] = Cardinality(deleted)

IInv == Types /\ NoRepeats /\ OnePlace /\ Unlisted /\ Orderly /\ Kept /\ Limited /\ Truthful

-----------------------------------------------------------------------------
(* Sequences. *)

LEMMA Taken ==
    ASSUME NEW S, NEW s \in Seq(S), s # << >>, Once(s)
    PROVE  /\ Head(s) \in S /\ Head(s) \in Range(s)
           /\ Tail(s) \in Seq(S) /\ Once(Tail(s)) /\ Range(Tail(s)) = Range(s) \ {Head(s)}
  <1>1. /\ Len(s) \in Nat \ {0} /\ DOMAIN s = 1 .. Len(s) /\ Head(s) = s[1] /\ s[1] \in S
        /\ Tail(s) \in Seq(S) /\ DOMAIN Tail(s) = 1 .. Len(s) - 1
        /\ \A i \in 1 .. Len(s) - 1 : Tail(s)[i] = s[i + 1]
    OBVIOUS
  <1>2. \A i, j \in DOMAIN s : s[i] = s[j] => i = j
    BY DEF Once
  <1>3. Once(Tail(s))
    <2> SUFFICES ASSUME NEW i \in 1 .. Len(s) - 1, NEW j \in 1 .. Len(s) - 1, Tail(s)[i] = Tail(s)[j]
                 PROVE  i = j
      BY <1>1 DEF Once
    <2>1. i + 1 \in DOMAIN s /\ j + 1 \in DOMAIN s /\ s[i + 1] = s[j + 1]
      BY <1>1
    <2>2. i + 1 = j + 1
      BY <1>2, <2>1
    <2>3. QED
      BY <2>2
  <1>4. Head(s) \in Range(s)
    BY <1>1 DEF Range
  <1>5. ASSUME NEW x PROVE x \in Range(Tail(s)) <=> x \in Range(s) /\ x # Head(s)
    <2>1. ASSUME x \in Range(Tail(s)) PROVE x \in Range(s) /\ x # Head(s)
      <3>1. PICK i \in 1 .. Len(s) - 1 : x = Tail(s)[i]
        BY <1>1, <2>1 DEF Range
      <3>2. i + 1 \in DOMAIN s /\ 1 \in DOMAIN s /\ x = s[i + 1] /\ i + 1 # 1
        BY <1>1, <3>1
      <3>3. QED
        BY <1>1, <1>2, <3>2 DEF Range
    <2>2. ASSUME x \in Range(s), x # Head(s) PROVE x \in Range(Tail(s))
      <3>1. PICK i \in 1 .. Len(s) : x = s[i]
        BY <1>1, <2>2 DEF Range
      <3>2. i - 1 \in 1 .. Len(s) - 1 /\ (i - 1) + 1 = i
        BY <1>1, <2>2, <3>1
      <3>3. x = Tail(s)[i - 1]
        BY <1>1, <3>1, <3>2
      <3>4. QED
        BY <1>1, <3>2, <3>3 DEF Range
    <2>3. QED
      BY <2>1, <2>2
  <1>6. QED
    BY <1>1, <1>3, <1>4, <1>5

LEMMA Appended ==
    ASSUME NEW S, NEW s \in Seq(S), NEW x \in S
    PROVE  /\ Append(s, x) \in Seq(S) /\ Append(s, x) # << >>
           /\ Range(Append(s, x)) = Range(s) \cup {x}
           /\ Once(s) /\ x \notin Range(s) => Once(Append(s, x))
  <1> DEFINE t == Append(s, x)
  <1>1. /\ Len(s) \in Nat /\ DOMAIN s = 1 .. Len(s) /\ t \in Seq(S) /\ DOMAIN t = 1 .. Len(s) + 1
        /\ t[Len(s) + 1] = x /\ \A i \in 1 .. Len(s) : t[i] = s[i]
        /\ t # << >>
    OBVIOUS
  <1> HIDE DEF t
  <1>2. ASSUME NEW y PROVE y \in Range(t) <=> y \in Range(s) \/ y = x
    <2>1. ASSUME y \in Range(t) PROVE y \in Range(s) \/ y = x
      <3>1. PICK i \in 1 .. Len(s) + 1 : y = t[i]
        BY <1>1, <2>1 DEF Range
      <3>2. i \in 1 .. Len(s) \/ i = Len(s) + 1
        BY <1>1
      <3>3. QED
        BY <1>1, <3>1, <3>2 DEF Range
    <2>2. ASSUME y \in Range(s) PROVE y \in Range(t)
      <3>1. PICK i \in 1 .. Len(s) : y = s[i]
        BY <1>1, <2>2 DEF Range
      <3>2. i \in 1 .. Len(s) + 1
        BY <1>1
      <3>3. QED
        BY <1>1, <3>1, <3>2 DEF Range
    <2>3. x \in Range(t)
      <3>1. Len(s) + 1 \in 1 .. Len(s) + 1
        BY <1>1
      <3>2. QED
        BY <1>1, <3>1 DEF Range
    <2>4. QED
      BY <2>1, <2>2, <2>3
  <1>3. ASSUME Once(s), x \notin Range(s) PROVE Once(t)
    <2>1. \A i \in 1 .. Len(s) : s[i] # x
      BY <1>1, <1>3 DEF Range
    <2>2. \A i \in 1 .. Len(s) + 1 : i \in 1 .. Len(s) \/ i = Len(s) + 1
      BY <1>1
    <2>3. QED
      BY <1>1, <1>3, <2>1, <2>2 DEF Once
  <1>4. QED
    BY <1>1, <1>2, <1>3 DEF t

LEMMA Nothing == Range(<< >>) = {} /\ Once(<< >>)
  BY DEF Range, Once

-----------------------------------------------------------------------------
(* A case never changes. *)

LEMMA ChainLength == ASSUME NEW c PROVE Len(Chain(c)) \in Nat
  <1> DEFINE N == {"DeleteMarkerOnly", "MtimeBefore", "MtimeAfter", "SmallerSize", "LargerSize",
                   "IncludeRegex", "ExcludeRegex", "KeepLatestOnly", "UserDefined"}
  <1>1. ASSUME NEW g, NEW f \in N PROVE StageIf(g, f) \in Seq(N)
    <2> HIDE DEF N
    <2>1. <<f>> \in Seq(N) /\ << >> \in Seq(N)
      BY <1>1
    <2>2. QED
      BY <2>1 DEF StageIf
  <1>2. /\ StageIf(c.delete_marker_only, "DeleteMarkerOnly") \in Seq(N)
        /\ StageIf(c.before_time # NoThreshold, "MtimeBefore") \in Seq(N)
        /\ StageIf(c.after_time # NoThreshold, "MtimeAfter") \in Seq(N)
        /\ StageIf(c.smaller_size # NoThreshold, "SmallerSize") \in Seq(N)
        /\ StageIf(c.larger_size # NoThreshold, "LargerSize") \in Seq(N)
        /\ StageIf(c.include_regex, "IncludeRegex") \in Seq(N)
        /\ StageIf(c.exclude_regex, "ExcludeRegex") \in Seq(N)
        /\ StageIf(c.keep_latest_only, "KeepLatestOnly") \in Seq(N)
        /\ StageIf(c.user, "UserDefined") \in Seq(N)
    BY <1>1
  <1> HIDE DEF N
  <1>3. \A s, t \in Seq(N) : s \o t \in Seq(N)
    OBVIOUS
  <1>4. Chain(c) \in Seq(N)
    BY <1>2, <1>3 DEF Chain
  <1>5. QED
    BY <1>4

LEMMA CaseFacts ==
    ASSUME case \in Cases
    PROVE  /\ LastStage \in Nat /\ 0 \in 0 .. LastStage /\ LastStage \in 0 .. LastStage
           /\ 0 .. LastStage \subseteq Tasks /\ Workers \subseteq Tasks
           /\ Workers \cap 0 .. LastStage = {} /\ LastStage + 1 \in Workers
           /\ \A f \in 1 .. LastStage : f \in 0 .. LastStage /\ f - 1 \in 0 .. LastStage /\ f # f - 1
                                        /\ (f # LastStage => f + 1 \in 1 .. LastStage /\ (f + 1) - 1 = f)
           /\ config.max_delete \in Nat \cup {NoLimit} /\ case.cancelled \in BOOLEAN
           /\ IsFiniteSet(Objects) /\ Objects = 1 .. Len(storage.objects) /\ Len(storage.objects) \in Nat
  <1>1. LastStage \in Nat
    BY ChainLength DEF LastStage, chain
  <1>2. config.worker_size \in Nat \ {0} /\ config.max_delete \in Nat \cup {NoLimit} /\ case.cancelled \in BOOLEAN
        /\ Len(storage.objects) \in Nat /\ DOMAIN storage.objects = 1 .. Len(storage.objects)
    BY EndToEndAssumption DEF config, storage
  <1>3. Len(storage.objects) \in Nat /\ Objects = 1 .. Len(storage.objects)
    BY <1>2 DEF Objects
  <1>4. IsFiniteSet(Objects)
    <2> DEFINE n == Len(storage.objects)
    <2>1. 1 \in Int /\ n \in Int
      BY <1>3
    <2>2. IsFiniteSet(1 .. n)
      BY <2>1, FS_Interval
    <2>3. QED
      BY <1>3, <2>2
  <1>5. QED
    BY <1>1, <1>2, <1>3, <1>4 DEF Workers, Tasks

LEMMA SameCase ==
    ASSUME case' = case
    PROVE  /\ LastStage' = LastStage /\ Workers' = Workers /\ Tasks' = Tasks /\ Objects' = Objects
           /\ config' = config /\ storage' = storage
  BY DEF LastStage, chain, Workers, Tasks, Objects, config, storage

LEMMA CaseSteps == [Next]_vars => case' = case
  BY DEF Next, vars, RunStep, Start, Await, FireCompletionEvents, RunAgain, List, StageEnds, Filter, WorkerStep,
         Receive, Closed, Cancelled, FlushNothing, Flush, Supervise, Done

-----------------------------------------------------------------------------
(* What the actions move. *)

LEMMA AnswerFacts ==
    ASSUME NEW keys
    PROVE  /\ Answer(keys).how \in {"ok", "err", "panic"}
           /\ Answer(keys).deleted \subseteq keys /\ Answer(keys).failed \subseteq keys
           /\ Answer(keys).deleted \cap Answer(keys).failed = {}
           /\ Answer(keys).how = "ok" => keys = Answer(keys).deleted \cup Answer(keys).failed
  <1> DEFINE refused == keys \cap storage.fails
  <1>1. Fallback(refused) = refused \/ Fallback(refused) = {}
    BY DEF Fallback
  <1>2. CASE config.dry_run
    BY <1>2 DEF Answer
  <1>3. CASE ~config.dry_run /\ storage.deletes = "panic"
    BY <1>3 DEF Answer
  <1>4. CASE ~config.dry_run /\ storage.deletes = "error"
    BY <1>4 DEF Answer
  <1>5. CASE ~config.dry_run /\ storage.deletes \notin {"panic", "error"}
    <2>1. CASE EffectiveBatchSize = 1
      BY <1>5, <2>1 DEF Answer
    <2>2. CASE EffectiveBatchSize # 1
      <3>1. Answer(keys) = [ how |-> "ok", deleted |-> (keys \ refused) \cup Fallback(refused),
                             failed |-> refused \ Fallback(refused) ]
        BY <1>5, <2>2 DEF Answer
      <3>2. QED
        BY <1>1, <3>1
    <2>3. QED
      BY <2>1, <2>2
  <1>6. QED
    BY <1>2, <1>3, <1>4, <1>5

LEMMA RangeIn ==
    ASSUME NEW S, NEW s \in Seq(S)
    PROVE  Range(s) \subseteq S
  BY DEF Range

(* Steps that move nothing. *)
Still ==
    \/ RunStep \/ Done \/ UNCHANGED vars
    \/ \E f \in 1 .. LastStage : StageEnds(f)
    \/ \E w \in Workers : Closed(w) \/ Cancelled(w) \/ FlushNothing(w)
    \/ \E t \in Tasks : Supervise(t)

LEMMA Steps ==
    ASSUME [Next]_vars
    PROVE  \/ Still \/ List
           \/ \E f \in 1 .. LastStage : Filter(f)
           \/ \E w \in Workers : Receive(w) \/ Flush(w)
  BY DEF Next, Still, WorkerStep

LEMMA StillEffect ==
    ASSUME Types, Still
    PROVE  /\ UNCHANGED <<case, chan, buffer, deleted, failed, filtered, removed, delete_counter>>
           /\ events' \in [EventTypes -> Nat] /\ events'["DELETE_COMPLETE"] = events["DELETE_COMPLETE"]
           /\ cancelled' \in BOOLEAN /\ (cancelled => cancelled')
  <1>1. events \in [EventTypes -> Nat] /\ cancelled \in BOOLEAN
    BY DEF Types
  <1>2. CASE RunStep
    BY <1>1, <1>2 DEF RunStep, Start, Await, FireCompletionEvents, RunAgain, Fire, EventTypes
  <1>3. CASE Done \/ UNCHANGED vars
    BY <1>1, <1>3 DEF Done, vars
  <1>4. ASSUME NEW f \in 1 .. LastStage, StageEnds(f)
        PROVE  /\ UNCHANGED <<case, chan, buffer, deleted, failed, filtered, removed, delete_counter>>
               /\ UNCHANGED <<events, cancelled>>
    BY <1>4 DEF StageEnds
  <1>5. ASSUME NEW w \in Workers, Closed(w) \/ Cancelled(w)
        PROVE  /\ UNCHANGED <<case, chan, buffer, deleted, failed, filtered, removed, delete_counter>>
               /\ UNCHANGED <<events, cancelled>>
    BY <1>5 DEF Closed, Cancelled
  <1>6. ASSUME NEW w \in Workers, FlushNothing(w)
        PROVE  /\ UNCHANGED <<case, chan, buffer, deleted, failed, filtered, removed, delete_counter>>
               /\ events' \in [EventTypes -> Nat] /\ events'["DELETE_COMPLETE"] = events["DELETE_COMPLETE"]
               /\ cancelled' \in BOOLEAN /\ (cancelled => cancelled')
    <2> DEFINE n == IF task[w] = "limit" THEN 1 ELSE 0
    <2>1. n \in Nat /\ events' = [events EXCEPT !["DELETE_FAILED"] = @ + n]
      BY <1>6 DEF FlushNothing, Fire
    <2> HIDE DEF n
    <2>2. events' \in [EventTypes -> Nat] /\ events'["DELETE_COMPLETE"] = events["DELETE_COMPLETE"]
      BY <1>1, <2>1 DEF EventTypes
    <2>3. QED
      BY <1>1, <1>6, <2>2 DEF FlushNothing
  <1>7. ASSUME NEW t \in Tasks, Supervise(t)
        PROVE  /\ UNCHANGED <<case, chan, buffer, deleted, failed, filtered, removed, delete_counter>>
               /\ UNCHANGED events /\ cancelled' \in BOOLEAN /\ (cancelled => cancelled')
    BY <1>1, <1>7 DEF Supervise
  <1>8. QED
    BY <1>1, <1>2, <1>3, <1>4, <1>5, <1>6, <1>7 DEF Still

LEMMA ListEffect ==
    ASSUME Types, Unlisted, List
    PROVE  /\ UNCHANGED <<case, run, buffer, deleted, failed, filtered, removed, delete_counter, events,
                          cancelled, delete_all_versions>>
           /\ ~Listed /\ \E how \in {"ok", "err", "panic"} : task' = [task EXCEPT ![0] = how]
           /\ chan' \in [0 .. LastStage -> Seq(Objects)]
           /\ \A c \in 0 .. LastStage \ {0} : chan'[c] = << >>
           /\ \/ chan'[0] = << >> /\ ~(storage.lists = "all" /\ ~delete_all_versions)
              \/ Once(chan'[0]) /\ Range(chan'[0]) = Objects
  <1>1. /\ LastStage \in Nat /\ 0 \in 0 .. LastStage /\ 0 \in Tasks
        /\ Len(storage.objects) \in Nat /\ Objects = 1 .. Len(storage.objects)
    BY CaseFacts DEF Types
  <1>2. ~Listed
    BY DEF List, Listed, Ended
  <1>3. chan \in [0 .. LastStage -> Seq(Objects)] /\ \A c \in 0 .. LastStage : chan[c] = << >>
    BY <1>2 DEF Types, Unlisted
  <1>4. \E how \in {"ok", "err", "panic"} : task' = [task EXCEPT ![0] = how]
    <2>1. storage.lists \in {"all", "error", "panic"}
      BY EndToEndAssumption DEF Types, storage
    <2>2. QED
      BY <2>1 DEF List, End
  <1> DEFINE s == [i \in Objects |-> i]
  <1>5. s \in Seq(Objects) /\ Once(s) /\ Range(s) = Objects
    <2>1. s \in Seq(Objects)
      BY <1>1
    <2>2. DOMAIN s = Objects /\ \A i \in Objects : s[i] = i
      OBVIOUS
    <2> HIDE DEF s
    <2>3. QED
      BY <2>1, <2>2 DEF Once, Range
  <1> HIDE DEF s
  <1>6. chan' = IF storage.lists = "all" /\ ~delete_all_versions THEN [chan EXCEPT ![0] = s] ELSE chan
    BY DEF List, s
  <1>7. /\ chan' \in [0 .. LastStage -> Seq(Objects)]
        /\ \A c \in 0 .. LastStage \ {0} : chan'[c] = << >>
        /\ \/ chan'[0] = << >> /\ ~(storage.lists = "all" /\ ~delete_all_versions)
           \/ Once(chan'[0]) /\ Range(chan'[0]) = Objects
    <2>1. CASE storage.lists = "all" /\ ~delete_all_versions
      <3>1. chan' = [chan EXCEPT ![0] = s]
        BY <1>6, <2>1
      <3>2. QED
        BY <1>1, <1>3, <1>5, <3>1
    <2>2. CASE ~(storage.lists = "all" /\ ~delete_all_versions)
      BY <1>1, <1>3, <1>6, <2>2
    <2>3. QED
      BY <2>1, <2>2
  <1>8. QED
    BY <1>2, <1>4, <1>7 DEF List

LEMMA FilterEffect ==
    ASSUME Types, NoRepeats, OnePlace, NEW f \in 1 .. LastStage, Filter(f)
    PROVE  LET h == Head(chan[f - 1])
           IN  /\ UNCHANGED <<case, run, buffer, deleted, failed, removed, delete_counter, cancelled,
                              delete_all_versions>>
               /\ events' \in [EventTypes -> Nat] /\ events'["DELETE_COMPLETE"] = events["DELETE_COMPLETE"]
               /\ task[f] = "run" /\ Listed
               /\ h \in Objects /\ h \in Range(chan[f - 1])
               /\ chan' \in [0 .. LastStage -> Seq(Objects)]
               /\ \A c \in 0 .. LastStage : Once(chan'[c])
               /\ \A c \in 0 .. LastStage \ {f - 1, f} : chan'[c] = chan[c]
               /\ Range(chan'[f - 1]) = Range(chan[f - 1]) \ {h}
               /\ \/ filtered' = filtered \cup {h} /\ chan'[f] = chan[f] /\ task' = task
                  \/ filtered' = filtered /\ Range(chan'[f]) = Range(chan[f]) \cup {h} /\ task' = task
                  \/ /\ filtered' = filtered /\ chan'[f] = chan[f]
                     /\ \/ task' = [task EXCEPT ![f] = "panic"]
                        \/ task' = [task EXCEPT ![f] = "ok"] /\ ReceiverDropped(f)
  <1> DEFINE h == Head(chan[f - 1])
             rest == [chan EXCEPT ![f - 1] = Tail(@)]
             n == LastStage
  <1>1. n \in Nat /\ f \in 0 .. n /\ f - 1 \in 0 .. n /\ f # f - 1
    BY CaseFacts DEF Types
  <1>2. /\ chan \in [0 .. n -> Seq(Objects)] /\ chan[f - 1] # << >>
        /\ \A c \in 0 .. n : Once(chan[c])
    BY DEF Filter, Types, NoRepeats
  <1>3. /\ h \in Objects /\ h \in Range(chan[f - 1])
        /\ Tail(chan[f - 1]) \in Seq(Objects) /\ Once(Tail(chan[f - 1]))
        /\ Range(Tail(chan[f - 1])) = Range(chan[f - 1]) \ {h}
    BY <1>1, <1>2, Taken
  <1>4. h \notin Range(chan[f])
    BY <1>1, <1>3 DEF OnePlace, InChan
  <1>5. /\ Append(chan[f], h) \in Seq(Objects) /\ Once(Append(chan[f], h))
        /\ Range(Append(chan[f], h)) = Range(chan[f]) \cup {h}
    BY <1>1, <1>2, <1>3, <1>4, Appended
  <1>6. /\ rest \in [0 .. n -> Seq(Objects)] /\ rest[f - 1] = Tail(chan[f - 1])
        /\ \A c \in 0 .. n \ {f - 1} : rest[c] = chan[c]
    BY <1>1, <1>2, <1>3
  <1>7. events \in [EventTypes -> Nat]
    BY DEF Types
  <1>8. /\ UNCHANGED <<case, run, buffer, deleted, failed, removed, delete_counter, cancelled,
                       delete_all_versions>>
        /\ task[f] = "run" /\ Listed
    BY DEF Filter
  <1>9. \/ chan' = rest /\ filtered' = filtered \cup {h} /\ Fire("DELETE_FILTERED", 1) /\ task' = task
        \/ chan' = rest /\ task' = [task EXCEPT ![f] = "panic"] /\ filtered' = filtered /\ events' = events
        \/ /\ chan' = rest /\ task' = [task EXCEPT ![f] = "ok"] /\ filtered' = filtered /\ events' = events
           /\ ReceiverDropped(f)
        \/ /\ chan' = [rest EXCEPT ![f] = Append(@, h)] /\ task' = task /\ filtered' = filtered
           /\ events' = events
    BY DEF Filter, End
  <1>10. events' \in [EventTypes -> Nat] /\ events'["DELETE_COMPLETE"] = events["DELETE_COMPLETE"]
    BY <1>7, <1>9 DEF Fire, EventTypes
  <1> HIDE DEF rest, h, n
  <1>11. CASE chan' = rest
    <2>1. /\ chan' \in [0 .. n -> Seq(Objects)] /\ chan'[f] = chan[f]
          /\ \A c \in 0 .. n : Once(chan'[c])
          /\ \A c \in 0 .. n \ {f - 1, f} : chan'[c] = chan[c]
          /\ Range(chan'[f - 1]) = Range(chan[f - 1]) \ {h}
      BY <1>1, <1>2, <1>3, <1>6, <1>11
    <2>2. \/ filtered' = filtered \cup {h} /\ task' = task
          \/ filtered' = filtered /\ task' = [task EXCEPT ![f] = "panic"]
          \/ filtered' = filtered /\ task' = [task EXCEPT ![f] = "ok"] /\ ReceiverDropped(f)
          \/ filtered' = filtered /\ task' = task /\ chan' = [rest EXCEPT ![f] = Append(@, h)]
      BY <1>9
    <2>3. CASE chan' = [rest EXCEPT ![f] = Append(@, h)]
      <3>1. chan'[f] = Append(chan[f], h)
        BY <1>1, <1>6, <2>3
      <3>2. FALSE
        BY <1>4, <1>5, <2>1, <3>1
      <3>3. QED
        BY <3>2
    <2>4. QED
      BY <1>3, <1>8, <1>10, <2>1, <2>2, <2>3 DEF h, n
  <1>12. CASE chan' = [rest EXCEPT ![f] = Append(@, h)] /\ task' = task /\ filtered' = filtered
    <2>1. chan'[f] = Append(chan[f], h) /\ \A c \in 0 .. n \ {f} : chan'[c] = rest[c]
      BY <1>1, <1>6, <1>12
    <2>2. chan' \in [0 .. n -> Seq(Objects)]
      BY <1>1, <1>5, <1>6, <1>12
    <2>3. /\ Range(chan'[f]) = Range(chan[f]) \cup {h}
          /\ \A c \in 0 .. n : Once(chan'[c])
          /\ \A c \in 0 .. n \ {f - 1, f} : chan'[c] = chan[c]
          /\ Range(chan'[f - 1]) = Range(chan[f - 1]) \ {h}
      BY <1>1, <1>2, <1>3, <1>5, <1>6, <2>1
    <2>4. QED
      BY <1>3, <1>8, <1>10, <1>12, <2>2, <2>3 DEF h, n
  <1>13. QED
    BY <1>9, <1>11, <1>12

LEMMA ReceiveEffect ==
    ASSUME Types, NoRepeats, OnePlace, NEW w \in Workers, Receive(w)
    PROVE  LET h == Head(chan[LastStage])
           IN  /\ UNCHANGED <<case, run, deleted, failed, filtered, removed, cancelled, delete_all_versions,
                              events>>
               /\ delete_counter' = delete_counter + 1
               /\ task[w] = "run" /\ Listed
               /\ h \in Objects /\ h \in Range(chan[LastStage])
               /\ chan' \in [0 .. LastStage -> Seq(Objects)]
               /\ \A c \in 0 .. LastStage : Once(chan'[c])
               /\ \A c \in 0 .. LastStage \ {LastStage} : chan'[c] = chan[c]
               /\ Range(chan'[LastStage]) = Range(chan[LastStage]) \ {h}
               /\ \/ OverLimit /\ buffer' = buffer /\ task' = [task EXCEPT ![w] = "limit"]
                  \/ /\ ~OverLimit
                     /\ buffer' \in [Workers -> Seq(Objects)] /\ Once(buffer'[w])
                     /\ Range(buffer'[w]) = Range(buffer[w]) \cup {h}
                     /\ \A v \in Workers \ {w} : buffer'[v] = buffer[v]
                     /\ \E how \in {"full", "ok", "run"} :
                           task' = [task EXCEPT ![w] = how] /\ (how = "ok" => cancelled)
  <1> DEFINE n == LastStage
             h == Head(chan[n])
  <1>1. n \in Nat /\ n \in 0 .. n
    BY CaseFacts DEF Types
  <1>2. /\ chan \in [0 .. n -> Seq(Objects)] /\ chan[n] # << >> /\ buffer \in [Workers -> Seq(Objects)]
        /\ (\A c \in 0 .. n : Once(chan[c])) /\ Once(buffer[w])
    BY DEF Receive, Types, NoRepeats
  <1>3. /\ h \in Objects /\ h \in Range(chan[n])
        /\ Tail(chan[n]) \in Seq(Objects) /\ Once(Tail(chan[n])) /\ Range(Tail(chan[n])) = Range(chan[n]) \ {h}
    BY <1>1, <1>2, Taken
  <1>4. h \notin Range(buffer[w])
    BY <1>1, <1>3 DEF OnePlace, InChan, InBuffer
  <1>5. /\ Append(buffer[w], h) \in Seq(Objects) /\ Once(Append(buffer[w], h))
        /\ Range(Append(buffer[w], h)) = Range(buffer[w]) \cup {h}
    BY <1>2, <1>3, <1>4, Appended
  <1>6. /\ UNCHANGED <<case, run, deleted, failed, filtered, removed, cancelled, delete_all_versions, events>>
        /\ delete_counter' = delete_counter + 1 /\ task[w] = "run" /\ Listed
        /\ chan' = [chan EXCEPT ![n] = Tail(@)]
        /\ \/ OverLimit /\ buffer' = buffer /\ task' = [task EXCEPT ![w] = "limit"]
           \/ /\ ~OverLimit /\ buffer' = [buffer EXCEPT ![w] = Append(@, h)]
              /\ \E how \in {"full", "ok", "run"} :
                    task' = [task EXCEPT ![w] = how] /\ (how = "ok" => cancelled)
    <2>1. ~OverLimit => \E how \in {"full", "ok", "run"} :
                           task' = [task EXCEPT ![w] = how] /\ (how = "ok" => cancelled)
      BY DEF Receive, End
    <2>2. QED
      BY <2>1 DEF Receive, End
  <1> HIDE DEF n, h
  <1>7. /\ chan' \in [0 .. n -> Seq(Objects)]
        /\ \A c \in 0 .. n : Once(chan'[c])
        /\ \A c \in 0 .. n \ {n} : chan'[c] = chan[c]
        /\ Range(chan'[n]) = Range(chan[n]) \ {h}
    BY <1>1, <1>2, <1>3, <1>6
  <1>8. ASSUME buffer' = [buffer EXCEPT ![w] = Append(@, h)]
        PROVE  /\ buffer' \in [Workers -> Seq(Objects)] /\ Once(buffer'[w])
               /\ Range(buffer'[w]) = Range(buffer[w]) \cup {h}
               /\ \A v \in Workers \ {w} : buffer'[v] = buffer[v]
    BY <1>2, <1>5, <1>8
  <1>9. QED
    BY <1>3, <1>6, <1>7, <1>8 DEF n, h

LEMMA FlushEffect ==
    ASSUME Types, NEW w \in Workers, Flush(w)
    PROVE  LET a == Answer(Range(buffer[w]))
           IN  /\ UNCHANGED <<case, run, chan, delete_all_versions, delete_counter, filtered>>
               /\ ~cancelled /\ cancelled' \in BOOLEAN /\ buffer[w] # << >>
               /\ buffer' \in [Workers -> Seq(Objects)] /\ buffer'[w] = << >>
               /\ \A v \in Workers \ {w} : buffer'[v] = buffer[v]
               /\ deleted' = deleted \cup a.deleted /\ failed' = failed \cup a.failed
               /\ removed' = IF config.dry_run THEN removed ELSE removed \cup a.deleted
               /\ IsFiniteSet(a.deleted) /\ a.deleted \subseteq Objects /\ a.failed \subseteq Objects
               /\ events' \in [EventTypes -> Nat]
               /\ events'["DELETE_COMPLETE"] = events["DELETE_COMPLETE"] + Cardinality(a.deleted)
               /\ task[w] \in {"full", "limit", "closed"}
               /\ \/ a.how \in {"err", "panic"} /\ task' = [task EXCEPT ![w] = a.how] /\ (a.how = "err" => cancelled')
                  \/ /\ a.how = "ok" /\ (task[w] = "limit" => cancelled')
                     /\ \E how \in {"ok", "run"} :
                           /\ task' = [task EXCEPT ![w] = how]
                           /\ how = "ok" /\ task[w] # "closed" => cancelled'
  <1> DEFINE keys == Range(buffer[w])
             a == Answer(keys)
             limit == task[w] = "limit" /\ a.how = "ok"
             stops == config.warn_as_error /\ a.failed # {}
  <1>1. /\ buffer \in [Workers -> Seq(Objects)] /\ events \in [EventTypes -> Nat] /\ cancelled \in BOOLEAN
        /\ buffer[w] \in Seq(Objects) /\ IsFiniteSet(Objects)
    BY CaseFacts DEF Types
  <1>2. keys \subseteq Objects
    BY <1>1, RangeIn
  <1>3. /\ a.how \in {"ok", "err", "panic"} /\ a.deleted \subseteq keys /\ a.failed \subseteq keys
    BY AnswerFacts
  <1>4. a.deleted \subseteq Objects /\ a.failed \subseteq Objects
    BY <1>2, <1>3
  <1>5. /\ IsFiniteSet(a.deleted) /\ Cardinality(a.deleted) \in Nat
        /\ IsFiniteSet(a.failed) /\ Cardinality(a.failed) \in Nat
    <2>1. a.deleted \in SUBSET Objects /\ a.failed \in SUBSET Objects
      BY <1>4
    <2>2. IsFiniteSet(a.deleted) /\ IsFiniteSet(a.failed)
      BY <1>1, <2>1, FS_Subset
    <2>3. QED
      BY <2>2, FS_CardinalityType
  <1>6. /\ UNCHANGED <<case, run, chan, delete_all_versions, delete_counter, filtered>>
        /\ ~cancelled /\ buffer[w] # << >> /\ task[w] \in {"full", "limit", "closed"}
        /\ buffer' = [buffer EXCEPT ![w] = << >>]
        /\ deleted' = deleted \cup a.deleted /\ failed' = failed \cup a.failed
        /\ removed' = IF config.dry_run THEN removed ELSE removed \cup a.deleted
        /\ cancelled' = (a.how = "err" \/ stops \/ limit)
        /\ task' = [task EXCEPT ![w] = IF a.how # "ok" THEN a.how ELSE AfterFlush(w, stops)]
    BY DEF Flush, NothingToFlush, BufferAfterTake, End
  <1>7. events' = [events EXCEPT
                      !["DELETE_COMPLETE"] = @ + Cardinality(a.deleted),
                      !["DELETE_FAILED"] = @ + Cardinality(a.failed) + IF limit THEN 1 ELSE 0]
    BY DEF Flush
  <1>8. /\ events' \in [EventTypes -> Nat]
        /\ events'["DELETE_COMPLETE"] = events["DELETE_COMPLETE"] + Cardinality(a.deleted)
    <2> DEFINE x == Cardinality(a.deleted)
               y == Cardinality(a.failed)
               l == IF limit THEN 1 ELSE 0
    <2>1. x \in Nat /\ y \in Nat /\ l \in Nat
      BY <1>5
    <2>2. events' = [events EXCEPT !["DELETE_COMPLETE"] = @ + x, !["DELETE_FAILED"] = @ + y + l]
      BY <1>7
    <2> HIDE DEF x, y, l
    <2> DEFINE p == events["DELETE_COMPLETE"] + x
               q == events["DELETE_FAILED"] + y + l
    <2>3. "DELETE_COMPLETE" \in EventTypes /\ "DELETE_FAILED" \in EventTypes
      BY DEF EventTypes
    <2>4. p \in Nat /\ q \in Nat
      BY <1>1, <2>1, <2>3
    <2>5. events' = [events EXCEPT !["DELETE_COMPLETE"] = p, !["DELETE_FAILED"] = q]
      BY <1>1, <2>2, <2>3
    <2> HIDE DEF p, q
    <2>6. events' \in [EventTypes -> Nat] /\ events'["DELETE_COMPLETE"] = p
      BY <1>1, <2>3, <2>4, <2>5
    <2>7. QED
      BY <2>6 DEF p, x
  <1>9. /\ buffer' \in [Workers -> Seq(Objects)] /\ buffer'[w] = << >>
        /\ \A v \in Workers \ {w} : buffer'[v] = buffer[v]
    BY <1>1, <1>6
  <1>10. cancelled' \in BOOLEAN /\ (limit => cancelled') /\ (stops => cancelled') /\ (a.how = "err" => cancelled')
    BY <1>6
  <1>11. \/ a.how \in {"err", "panic"} /\ task' = [task EXCEPT ![w] = a.how] /\ (a.how = "err" => cancelled')
         \/ /\ a.how = "ok" /\ (task[w] = "limit" => cancelled')
            /\ \E how \in {"ok", "run"} :
                  /\ task' = [task EXCEPT ![w] = how]
                  /\ how = "ok" /\ task[w] # "closed" => cancelled'
    <2>1. CASE a.how # "ok"
      BY <1>3, <1>6, <1>10, <2>1
    <2>2. CASE a.how = "ok"
      <3>1. task' = [task EXCEPT ![w] = AfterFlush(w, stops)]
        BY <1>6, <2>2
      <3>2. task[w] = "limit" => cancelled'
        BY <1>10, <2>2
      <3> HIDE DEF stops, a
      <3>3. /\ AfterFlush(w, stops) \in {"ok", "run"}
            /\ AfterFlush(w, stops) = "ok" /\ task[w] # "closed" => task[w] = "limit" \/ stops
        BY <1>6 DEF AfterFlush
      <3>4. QED
        BY <1>10, <2>2, <3>1, <3>2, <3>3
    <2>3. QED
      BY <2>1, <2>2
  <1> HIDE DEF a, keys
  <1>12. QED
    BY <1>4, <1>5, <1>6, <1>8, <1>9, <1>10, <1>11 DEF a, keys

-----------------------------------------------------------------------------
(* The tasks. *)

(* A step of a task: one that ended stays ended; and a task ends, or a worker     *)
(* finds its channel closed, after the task it receives from, unless the run is   *)
(* cancelled or the task panics.                                                  *)
Move(t, how) ==
    /\ task' = [task EXCEPT ![t] = how]
    /\ task[t] = "panic" => cancelled'
    /\ task[t] = "limit" => cancelled' \/ how = "panic"
    /\ task[t] \in Ended => how \in Ended
    /\ t = 0 => List \/ task[0] \in Ended
    /\ how \in Over =>
          \/ cancelled' \/ how = "panic" \/ t = 0 \/ task[t] \in Over
          \/ task[Before(t)] \in Ended
          \/ t \in 1 .. LastStage /\ task[t] = "run" /\ ReceiverDropped(t)

LEMMA Moves ==
    ASSUME Types, NoRepeats, OnePlace, Unlisted, [Next]_vars
    PROVE  \/ task' = task
           \/ run = "start" /\ task' = [t \in Tasks |-> "run"]
           \/ \E t \in Tasks, how \in States : Move(t, how)
  <1>0. /\ 0 \in Tasks /\ Workers \subseteq Tasks /\ 0 \notin Workers
        /\ \A f \in 1 .. LastStage : f \in Tasks /\ f \notin Workers /\ f # 0
    <2>1. /\ LastStage \in Nat /\ 0 \in 0 .. LastStage /\ 0 .. LastStage \subseteq Tasks /\ Workers \subseteq Tasks
          /\ Workers \cap 0 .. LastStage = {} /\ \A f \in 1 .. LastStage : f \in 0 .. LastStage
      BY CaseFacts DEF Types
    <2>2. \A f \in 1 .. LastStage : f # 0
      BY <2>1
    <2>3. QED
      BY <2>1, <2>2
  <1>1. CASE RunStep \/ Done \/ UNCHANGED vars
    BY <1>1 DEF RunStep, Start, Await, FireCompletionEvents, RunAgain, Done, vars
  <1>2. CASE List
    <2>1. PICK how \in {"ok", "err", "panic"} : task' = [task EXCEPT ![0] = how]
      BY <1>2, ListEffect
    <2>2. task[0] = "run" /\ how \in States /\ how \in Ended
      BY <1>2 DEF List, States, Ended
    <2>3. Move(0, how)
      BY <1>2, <2>1, <2>2 DEF Move
    <2>4. QED
      BY <1>0, <2>2, <2>3
  <1>3. ASSUME NEW f \in 1 .. LastStage, StageEnds(f)
        PROVE  Move(f, "ok")
    <2>1. Before(f) = f - 1
      BY <1>0 DEF Before
    <2>2. task' = [task EXCEPT ![f] = "ok"] /\ task[f] = "run" /\ (cancelled' \/ task[f - 1] \in Ended)
      BY <1>3 DEF StageEnds, End, SenderDropped
    <2>3. QED
      BY <1>0, <2>1, <2>2 DEF Move, Ended
  <1>4. ASSUME NEW f \in 1 .. LastStage, Filter(f)
        PROVE  task' = task \/ Move(f, "panic") \/ Move(f, "ok")
    <2>1. /\ task[f] = "run"
          /\ \/ task' = task \/ task' = [task EXCEPT ![f] = "panic"]
             \/ task' = [task EXCEPT ![f] = "ok"] /\ ReceiverDropped(f)
      BY <1>4, FilterEffect
    <2>2. QED
      BY <1>0, <2>1 DEF Move, Ended
  <1>5. ASSUME NEW w \in Workers, Receive(w)
        PROVE  \E how \in {"limit", "full", "ok", "run"} : Move(w, how)
    <2>1. /\ task[w] = "run" /\ cancelled' = cancelled
          /\ \E how \in {"limit", "full", "ok", "run"} : task' = [task EXCEPT ![w] = how] /\ (how = "ok" => cancelled)
      BY <1>5, ReceiveEffect
    <2>2. QED
      BY <1>0, <2>1 DEF Move, Ended, Over
  <1>6. ASSUME NEW w \in Workers, Flush(w)
        PROVE  \E how \in {"ok", "run", "err", "panic"} : Move(w, how)
    <2>1. /\ task[w] \in {"full", "limit", "closed"}
          /\ \E how \in {"ok", "run", "err", "panic"} :
                /\ task' = [task EXCEPT ![w] = how]
                /\ how = "err" => cancelled'
                /\ how \in {"ok", "run"} => (task[w] = "limit" => cancelled')
                /\ how = "ok" => task[w] = "closed" \/ cancelled'
      BY <1>6, FlushEffect
    <2>2. QED
      BY <1>0, <2>1 DEF Move, Ended, Over
  <1>7. ASSUME NEW w \in Workers, Closed(w) PROVE Move(w, "closed")
    <2>1. Before(w) = LastStage
      BY DEF Before
    <2>2. QED
      BY <1>0, <1>7, <2>1 DEF Closed, End, SenderDropped, Move, Ended
  <1>8. ASSUME NEW w \in Workers, Cancelled(w) PROVE Move(w, "ok")
    BY <1>0, <1>8 DEF Cancelled, End, Move, Ended
  <1>9. ASSUME NEW w \in Workers, FlushNothing(w)
        PROVE  Move(w, "ok") \/ Move(w, "run")
    <2>1. /\ AfterFlush(w, cancelled) \in {"ok", "run"}
          /\ AfterFlush(w, cancelled) = "ok" => task[w] \in {"limit", "closed"} \/ cancelled
      BY <1>9 DEF FlushNothing, AfterFlush
    <2>2. /\ task[w] \in {"full", "limit", "closed"} /\ task' = [task EXCEPT ![w] = AfterFlush(w, cancelled)]
          /\ (cancelled => cancelled') /\ (task[w] = "limit" => cancelled')
      BY <1>9 DEF FlushNothing, End
    <2>3. QED
      BY <1>0, <2>1, <2>2 DEF Move, Ended, Over
  <1>10. ASSUME NEW t \in Tasks, Supervise(t) PROVE Move(t, "joined")
    <2>1. task' = [task EXCEPT ![t] = "joined"] /\ task[t] \in {"ok", "err", "panic"} /\ (task[t] # "ok" => cancelled')
      BY <1>10 DEF Supervise
    <2>2. QED
      BY <2>1 DEF Move, Ended, Over
  <1>11. {"limit", "full", "ok", "run", "err", "panic", "closed", "joined"} \subseteq States
    BY DEF States, Ended
  <1>12. QED
    BY <1>0, <1>1, <1>2, <1>3, <1>4, <1>5, <1>6, <1>7, <1>8, <1>9, <1>10, <1>11 DEF Next, WorkerStep

LEMMA TaskSteps ==
    ASSUME Types, NoRepeats, OnePlace, Unlisted, [Next]_vars
    PROVE  \/ task' = task
           \/ run = "start" /\ task' = [t \in Tasks |-> "run"]
           \/ \E t \in Tasks, how \in States : task' = [task EXCEPT ![t] = how]
  BY Moves DEF Move

LEMMA TypesNext == Types /\ NoRepeats /\ OnePlace /\ Unlisted /\ [Next]_vars => Types'
  <1> SUFFICES ASSUME Types, NoRepeats, OnePlace, Unlisted, [Next]_vars PROVE Types'
    OBVIOUS
  <1>1. /\ case' = case /\ case \in Cases
        /\ LastStage' = LastStage /\ Workers' = Workers /\ Tasks' = Tasks /\ Objects' = Objects
    BY CaseSteps, SameCase DEF Types
  <1>2. task' \in [Tasks -> States]
    <2>1. task \in [Tasks -> States]
      BY DEF Types
    <2>2. QED
      BY <2>1, TaskSteps DEF States
  <1>3. SUFFICES /\ chan' \in [0 .. LastStage -> Seq(Objects)] /\ buffer' \in [Workers -> Seq(Objects)]
                 /\ deleted' \subseteq Objects /\ failed' \subseteq Objects /\ filtered' \subseteq Objects
                 /\ delete_counter' \in Nat /\ cancelled' \in BOOLEAN /\ events' \in [EventTypes -> Nat]
    BY <1>1, <1>2 DEF Types, States
  <1>4. /\ chan \in [0 .. LastStage -> Seq(Objects)] /\ buffer \in [Workers -> Seq(Objects)]
        /\ deleted \subseteq Objects /\ failed \subseteq Objects /\ filtered \subseteq Objects
        /\ delete_counter \in Nat /\ cancelled \in BOOLEAN /\ events \in [EventTypes -> Nat]
    BY DEF Types
  <1>5. CASE Still
    BY <1>4, <1>5, StillEffect
  <1>6. CASE List
    BY <1>4, <1>6, ListEffect
  <1>7. ASSUME NEW f \in 1 .. LastStage, Filter(f)
        PROVE  /\ chan' \in [0 .. LastStage -> Seq(Objects)] /\ events' \in [EventTypes -> Nat]
               /\ filtered' \subseteq Objects
               /\ UNCHANGED <<buffer, deleted, failed, delete_counter, cancelled>>
    BY <1>4, <1>7, FilterEffect
  <1>8. ASSUME NEW w \in Workers, Receive(w)
        PROVE  /\ chan' \in [0 .. LastStage -> Seq(Objects)] /\ buffer' \in [Workers -> Seq(Objects)]
               /\ delete_counter' \in Nat
               /\ UNCHANGED <<deleted, failed, filtered, cancelled, events>>
    BY <1>4, <1>8, ReceiveEffect
  <1>9. ASSUME NEW w \in Workers, Flush(w)
        PROVE  /\ buffer' \in [Workers -> Seq(Objects)]
               /\ deleted' \subseteq Objects /\ failed' \subseteq Objects
               /\ cancelled' \in BOOLEAN /\ events' \in [EventTypes -> Nat]
               /\ UNCHANGED <<chan, filtered, delete_counter>>
    BY <1>4, <1>9, FlushEffect
  <1>10. QED
    BY <1>4, <1>5, <1>6, <1>7, <1>8, <1>9, Steps

-----------------------------------------------------------------------------
(* Places. *)

LEMMA PlacesSame ==
    ASSUME UNCHANGED <<case, chan, buffer, deleted, failed, filtered>>
    PROVE  /\ NoRepeats => NoRepeats'
           /\ OnePlace => OnePlace'
           /\ \A i : Somewhere(i) => Somewhere(i)'
  <1>1. LastStage' = LastStage /\ Workers' = Workers
    BY SameCase
  <1>2. QED
    BY <1>1 DEF NoRepeats, OnePlace, Somewhere, InChan, InBuffer, Settled

LEMMA NoRepeatsNext == Types /\ NoRepeats /\ OnePlace /\ Unlisted /\ [Next]_vars => NoRepeats'
  <1> SUFFICES ASSUME Types, NoRepeats, OnePlace, Unlisted, [Next]_vars PROVE NoRepeats'
    OBVIOUS
  <1>1. LastStage' = LastStage /\ Workers' = Workers
    BY CaseSteps, SameCase
  <1>2. SUFFICES /\ \A c \in 0 .. LastStage : Once(chan'[c])
                 /\ \A w \in Workers : Once(buffer'[w])
    BY <1>1 DEF NoRepeats
  <1>3. (\A c \in 0 .. LastStage : Once(chan[c])) /\ \A w \in Workers : Once(buffer[w])
    BY DEF NoRepeats
  <1>4. CASE Still
    BY <1>3, <1>4, StillEffect
  <1>5. CASE List
    BY <1>3, <1>5, ListEffect, Nothing
  <1>6. ASSUME NEW f \in 1 .. LastStage, Filter(f)
        PROVE  buffer' = buffer /\ \A c \in 0 .. LastStage : Once(chan'[c])
    BY <1>6, FilterEffect
  <1>7. ASSUME NEW w \in Workers, Receive(w)
        PROVE  /\ \A c \in 0 .. LastStage : Once(chan'[c])
               /\ buffer' = buffer \/ (Once(buffer'[w]) /\ \A v \in Workers \ {w} : buffer'[v] = buffer[v])
    BY <1>7, ReceiveEffect
  <1>8. ASSUME NEW w \in Workers, Flush(w)
        PROVE  chan' = chan /\ buffer'[w] = << >> /\ \A v \in Workers \ {w} : buffer'[v] = buffer[v]
    BY <1>8, FlushEffect
  <1>9. QED
    BY <1>3, <1>4, <1>5, <1>6, <1>7, <1>8, Steps, Nothing

LEMMA UnlistedNext == Types /\ NoRepeats /\ OnePlace /\ Unlisted /\ [Next]_vars => Unlisted'
  <1> SUFFICES ASSUME Types, NoRepeats, OnePlace, Unlisted, [Next]_vars PROVE Unlisted'
    OBVIOUS
  <1>1. LastStage' = LastStage /\ Workers' = Workers /\ Tasks' = Tasks
    BY CaseSteps, SameCase
  <1>2. 0 \in Tasks /\ Workers \subseteq Tasks /\ task \in [Tasks -> States]
        /\ (\A f \in 1 .. LastStage : f \in Tasks /\ f # 0) /\ 0 \notin Workers
    <2>1. /\ LastStage \in Nat /\ 0 \in 0 .. LastStage /\ 0 .. LastStage \subseteq Tasks
          /\ Workers \subseteq Tasks /\ Workers \cap 0 .. LastStage = {}
      BY CaseFacts DEF Types
    <2>2. \A f \in 1 .. LastStage : f \in 0 .. LastStage /\ f # 0
      BY <2>1
    <2>3. 0 \in Tasks /\ 0 \notin Workers
      BY <2>1
    <2>4. QED
      BY <2>1, <2>2, <2>3 DEF Types
  <1>3. run' = "start" => \A t \in Tasks : task'[t] = "idle"
    <2>1. CASE run = "start"
      <3>1. \A t \in Tasks : task[t] = "idle"
        BY <2>1 DEF Unlisted
      <3>2. Start \/ task' = task
        <4>1. CASE RunStep \/ Done \/ UNCHANGED vars
          BY <4>1 DEF RunStep, Await, FireCompletionEvents, RunAgain, Done, vars
        <4>2. CASE ~(RunStep \/ Done \/ UNCHANGED vars)
          <5>1. ~List /\ \A t \in Tasks : ~Supervise(t)
            BY <1>2, <3>1 DEF List, Supervise
          <5>2. \A f \in 1 .. LastStage : ~StageEnds(f) /\ ~Filter(f)
            BY <1>2, <3>1 DEF StageEnds, Filter
          <5>3. \A w \in Workers : ~WorkerStep(w)
            BY <1>2, <3>1 DEF WorkerStep, Receive, Closed, Cancelled, FlushNothing, Flush
          <5>4. QED
            BY <4>2, <5>1, <5>2, <5>3 DEF Next
        <4>3. QED
          BY <4>1, <4>2
      <3>3. QED
        BY <3>1, <3>2 DEF Start
    <2>2. CASE run # "start"
      <3>1. run' # "start"
        BY <2>2 DEF Next, vars, RunStep, Start, Await, FireCompletionEvents, RunAgain, SecondRun, List, StageEnds,
               Filter, WorkerStep, Receive, Closed, Cancelled, FlushNothing, Flush, Supervise, Done
      <3>2. QED
        BY <3>1
    <2>3. QED
      BY <2>1, <2>2
  <1>4. ASSUME ~Listed'
        PROVE  /\ \A c \in 0 .. LastStage : chan'[c] = << >>
               /\ \A w \in Workers : buffer'[w] = << >>
               /\ deleted' = {} /\ failed' = {} /\ filtered' = {}
    <2>1. ~Listed
      <3>1. CASE run = "start"
        BY <1>2, <3>1 DEF Unlisted, Listed, Ended
      <3>2. CASE run # "start"
        <4>1. SUFFICES ASSUME task[0] \in Ended PROVE task'[0] \in Ended
          BY <1>4 DEF Listed
        <4>2. task' = task \/ (\E t \in Tasks, how \in States : task' = [task EXCEPT ![t] = how])
          BY <3>2, TaskSteps
        <4>3. CASE task'[0] = task[0]
          BY <4>1, <4>3
        <4>4. CASE task'[0] # task[0]
          <5>1. ~List
            BY <4>1, <4>4 DEF List, Ended
          <5>2. \A f \in 1 .. LastStage : ~StageEnds(f) /\ ~Filter(f)
            <6>1. ASSUME NEW f \in 1 .. LastStage, StageEnds(f) \/ Filter(f) PROVE task'[0] = task[0]
              <7>1. CASE StageEnds(f)
                BY <1>2, <7>1 DEF StageEnds, End
              <7>2. CASE Filter(f)
                BY <1>2, <7>2, FilterEffect
              <7>3. QED
                BY <6>1, <7>1, <7>2
            <6>2. QED
              BY <4>4, <6>1
          <5>3. \A w \in Workers : ~WorkerStep(w)
            <6>1. ASSUME NEW w \in Workers, WorkerStep(w) PROVE task'[0] = task[0]
              <7>1. \E how : task' = [task EXCEPT ![w] = how]
                BY <6>1 DEF WorkerStep, Receive, Closed, Cancelled, FlushNothing, Flush, End
              <7>2. QED
                BY <1>2, <7>1
            <6>2. QED
              BY <4>4, <6>1
          <5>4. ~(RunStep \/ Done \/ UNCHANGED vars)
            BY <3>2, <4>4 DEF RunStep, Start, Await, FireCompletionEvents, RunAgain, Done, vars
          <5>5. PICK t \in Tasks : Supervise(t)
            BY <5>1, <5>2, <5>3, <5>4 DEF Next
          <5>6. task' = [task EXCEPT ![t] = "joined"]
            BY <5>5 DEF Supervise
          <5>7. QED
            BY <1>2, <4>4, <5>6 DEF Ended
        <4>5. QED
          BY <4>3, <4>4
      <3>3. QED
        BY <3>1, <3>2
    <2>2. /\ \A c \in 0 .. LastStage : chan[c] = << >>
          /\ \A w \in Workers : buffer[w] = << >>
          /\ deleted = {} /\ failed = {} /\ filtered = {}
      BY <2>1 DEF Unlisted
    <2>3. ~List
      <3>1. ASSUME List PROVE Listed'
        <4>1. \E how \in {"ok", "err", "panic"} : task' = [task EXCEPT ![0] = how]
          BY <3>1, ListEffect
        <4>2. QED
          BY <1>2, <4>1 DEF Listed, Ended
      <3>2. QED
        BY <1>4, <3>1
    <2>4. (\A f \in 1 .. LastStage : ~Filter(f)) /\ \A w \in Workers : ~Receive(w) /\ ~Flush(w)
      BY <2>1, <2>2 DEF Filter, Receive, Flush, NothingToFlush
    <2>5. Still
      BY <2>3, <2>4, Steps
    <2>6. QED
      BY <2>2, <2>5, StillEffect
  <1>5. QED
    BY <1>1, <1>3, <1>4 DEF Unlisted

LEMMA OnePlaceNext == Types /\ NoRepeats /\ OnePlace /\ Unlisted /\ [Next]_vars => OnePlace'
  <1> SUFFICES ASSUME Types, NoRepeats, OnePlace, Unlisted, [Next]_vars PROVE OnePlace'
    OBVIOUS
  <1>1. case' = case /\ LastStage' = LastStage /\ Workers' = Workers
    BY CaseSteps, SameCase
  <1>2. CASE Still
    BY <1>2, StillEffect, PlacesSame
  <1>3. CASE List
    <2>1. /\ \A c \in 0 .. LastStage \ {0} : chan'[c] = << >>
          /\ buffer' = buffer /\ deleted' = deleted /\ failed' = failed /\ filtered' = filtered /\ ~Listed
      BY <1>3, ListEffect
    <2>2. (\A w \in Workers : buffer[w] = << >>) /\ deleted = {} /\ failed = {} /\ filtered = {}
      BY <2>1 DEF Unlisted
    <2>3. /\ \A c \in 0 .. LastStage \ {0} : Range(chan'[c]) = {}
          /\ \A w \in Workers : Range(buffer'[w]) = {}
          /\ deleted' = {} /\ failed' = {} /\ filtered' = {}
      BY <2>1, <2>2, Nothing
    <2>4. QED
      BY <1>1, <2>3 DEF OnePlace, InChan, InBuffer, Settled
  <1>4. ASSUME NEW f \in 1 .. LastStage, Filter(f) PROVE OnePlace'
    <2> DEFINE h == Head(chan[f - 1])
    <2>1. f \in 0 .. LastStage /\ f - 1 \in 0 .. LastStage /\ f # f - 1
      BY CaseFacts DEF Types
    <2>2. /\ h \in Range(chan[f - 1]) /\ buffer' = buffer /\ deleted' = deleted /\ failed' = failed
          /\ \A c \in 0 .. LastStage \ {f - 1, f} : chan'[c] = chan[c]
          /\ Range(chan'[f - 1]) = Range(chan[f - 1]) \ {h}
          /\ \/ filtered' = filtered \cup {h} /\ chan'[f] = chan[f]
             \/ filtered' = filtered /\ Range(chan'[f]) = Range(chan[f]) \cup {h}
             \/ filtered' = filtered /\ chan'[f] = chan[f]
      BY <1>4, FilterEffect
    <2> HIDE DEF h
    <2>3. \A c \in 0 .. LastStage : \A i : i # h => (i \in Range(chan'[c]) <=> i \in Range(chan[c]))
      BY <2>1, <2>2
    <2>4. /\ \A c \in 0 .. LastStage : h \in Range(chan'[c]) => c = f /\ filtered' = filtered
          /\ \A w \in Workers : h \notin Range(buffer'[w])
          /\ h \notin deleted' /\ h \notin failed'
          /\ h \in filtered' => \A c \in 0 .. LastStage : h \notin Range(chan'[c])
      BY <2>1, <2>2 DEF OnePlace, InChan, InBuffer, Settled
    <2>5. \A i : i # h => (i \in filtered' <=> i \in filtered)
      BY <2>2
    <2>6. \A c, d \in 0 .. LastStage : \A i : i \in Range(chan'[c]) /\ i \in Range(chan'[d]) => c = d
      BY <2>3, <2>4 DEF OnePlace, InChan
    <2>7. \A c \in 0 .. LastStage : \A i : i \in Range(chan'[c]) =>
             /\ i \notin deleted' /\ i \notin failed' /\ i \notin filtered'
             /\ \A w \in Workers : i \notin Range(buffer'[w])
      BY <2>2, <2>3, <2>4, <2>5 DEF OnePlace, InChan, InBuffer, Settled
    <2>8. \A w \in Workers : \A i : i \in Range(buffer'[w]) =>
             i \notin deleted' /\ i \notin failed' /\ i \notin filtered'
      BY <2>2, <2>4, <2>5 DEF OnePlace, InBuffer, Settled
    <2>9. deleted' \cap failed' = {} /\ deleted' \cap filtered' = {} /\ failed' \cap filtered' = {}
      BY <2>2, <2>4, <2>5 DEF OnePlace
    <2>10. \A v, w \in Workers : \A i : i \in Range(buffer'[v]) /\ i \in Range(buffer'[w]) => v = w
      BY <2>2 DEF OnePlace, InBuffer
    <2>11. QED
      BY <1>1, <2>6, <2>7, <2>8, <2>9, <2>10 DEF OnePlace, InChan, InBuffer, Settled
  <1>5. ASSUME NEW w \in Workers, Receive(w) PROVE OnePlace'
    <2> DEFINE n == LastStage
               h == Head(chan[n])
    <2>1. n \in 0 .. n
      BY CaseFacts DEF Types
    <2>2. /\ h \in Range(chan[n]) /\ deleted' = deleted /\ failed' = failed /\ filtered' = filtered
          /\ \A c \in 0 .. n \ {n} : chan'[c] = chan[c]
          /\ Range(chan'[n]) = Range(chan[n]) \ {h}
          /\ \/ buffer' = buffer
             \/ /\ Range(buffer'[w]) = Range(buffer[w]) \cup {h}
                /\ \A v \in Workers \ {w} : buffer'[v] = buffer[v]
      BY <1>5, ReceiveEffect
    <2>3. /\ \A c \in 0 .. n : h \in Range(chan[c]) => c = n
          /\ \A v \in Workers : h \notin Range(buffer[v])
          /\ ~Settled(h)
      BY <2>1, <2>2 DEF OnePlace, InChan, InBuffer
    <2> HIDE DEF h, n
    <2>4. /\ \A c \in 0 .. n : \A i : i \in Range(chan'[c]) <=> i # h /\ i \in Range(chan[c])
          /\ \A v \in Workers : \A i : i # h => (i \in Range(buffer'[v]) <=> i \in Range(buffer[v]))
          /\ \A v \in Workers : h \in Range(buffer'[v]) => v = w
      BY <2>1, <2>2, <2>3
    <2>5. QED
      BY <1>1, <2>2, <2>3, <2>4 DEF OnePlace, InChan, InBuffer, Settled, n
  <1>6. ASSUME NEW w \in Workers, Flush(w) PROVE OnePlace'
    <2> DEFINE keys == Range(buffer[w])
               a == Answer(keys)
    <2>1. /\ chan' = chan /\ filtered' = filtered /\ buffer'[w] = << >>
          /\ \A v \in Workers \ {w} : buffer'[v] = buffer[v]
          /\ deleted' = deleted \cup a.deleted /\ failed' = failed \cup a.failed
      BY <1>6, FlushEffect
    <2>2. a.deleted \subseteq keys /\ a.failed \subseteq keys /\ a.deleted \cap a.failed = {}
      BY AnswerFacts
    <2>3. /\ \A c \in 0 .. LastStage : \A i \in keys : i \notin Range(chan[c])
          /\ \A v \in Workers \ {w} : \A i \in keys : i \notin Range(buffer[v])
          /\ \A i \in keys : ~Settled(i)
      BY DEF OnePlace, InChan, InBuffer
    <2> HIDE DEF a, keys
    <2>4. \A v \in Workers : \A i : i \in Range(buffer'[v]) <=> v # w /\ i \in Range(buffer[v])
      BY <2>1, Nothing
    <2>5. /\ \A i : i \in deleted' \/ i \in failed' \/ i \in filtered' => Settled(i) \/ i \in keys
          /\ \A c \in 0 .. LastStage : \A i : i \in Range(chan'[c]) <=> i \in Range(chan[c])
      BY <2>1, <2>2 DEF Settled
    <2>6. /\ \A c, d \in 0 .. LastStage : \A i : i \in Range(chan'[c]) /\ i \in Range(chan'[d]) => c = d
          /\ \A u, v \in Workers : \A i : i \in Range(buffer'[u]) /\ i \in Range(buffer'[v]) => u = v
      BY <2>4, <2>5 DEF OnePlace, InChan, InBuffer
    <2>7. \A c \in 0 .. LastStage : \A i : i \in Range(chan'[c]) =>
             /\ i \notin deleted' /\ i \notin failed' /\ i \notin filtered'
             /\ \A v \in Workers : i \notin Range(buffer'[v])
      BY <2>3, <2>4, <2>5 DEF OnePlace, InChan, InBuffer
    <2>8. \A v \in Workers : \A i : i \in Range(buffer'[v]) =>
             i \notin deleted' /\ i \notin failed' /\ i \notin filtered'
      BY <2>3, <2>4, <2>5 DEF OnePlace, InBuffer
    <2>9. deleted' \cap failed' = {} /\ deleted' \cap filtered' = {} /\ failed' \cap filtered' = {}
      BY <2>1, <2>2, <2>3 DEF OnePlace, Settled
    <2>10. QED
      BY <1>1, <2>6, <2>7, <2>8, <2>9 DEF OnePlace, InChan, InBuffer, Settled
  <1>7. QED
    BY <1>2, <1>3, <1>4, <1>5, <1>6, Steps

-----------------------------------------------------------------------------
(* The order in which tasks end. *)

LEMMA BeforeFacts ==
    ASSUME case \in Cases, NEW t \in Tasks \ {0}
    PROVE  /\ Before(t) \in Tasks /\ Before(t) # t /\ (t \notin Workers => t \in 1 .. LastStage)
           /\ (t \in 1 .. LastStage /\ t # LastStage => t + 1 \in Tasks \ {0} /\ Before(t + 1) = t)
           /\ (t = LastStage => LastStage + 1 \in Tasks \ {0} /\ Before(LastStage + 1) = t /\ LastStage + 1 \in Workers)
  <1>1. LastStage \in Nat
    BY CaseFacts
  <1>2. config.worker_size \in Nat \ {0}
    BY EndToEndAssumption DEF config
  <1> DEFINE n == LastStage
             m == config.worker_size
  <1>3. n \in Nat /\ m \in Nat \ {0} /\ t \in 0 .. n + m /\ t # 0 /\ Tasks = 0 .. n + m /\ Workers = n + 1 .. n + m
    BY <1>1, <1>2 DEF Tasks, Workers
  <1>4. Before(t) = IF t \in Workers THEN n ELSE t - 1
    BY DEF Before
  <1>5. \A u : u \in n + 1 .. n + m => Before(u) = n
    BY <1>3 DEF Before
  <1>6. \A u : u \notin n + 1 .. n + m => Before(u) = u - 1
    BY <1>3 DEF Before
  <1> HIDE DEF n, m
  <1>7. Before(t) \in Tasks /\ Before(t) # t /\ (t \notin Workers => t \in 1 .. n)
    BY <1>3, <1>4
  <1>8. ASSUME t \in 1 .. n, t # n PROVE t + 1 \in Tasks \ {0} /\ Before(t + 1) = t
    <2>1. t + 1 \notin n + 1 .. n + m /\ t + 1 \in 0 .. n + m /\ t + 1 # 0 /\ (t + 1) - 1 = t
      BY <1>3, <1>8
    <2>2. QED
      BY <1>3, <1>6, <2>1
  <1>9. n + 1 \in 0 .. n + m /\ n + 1 # 0 /\ n + 1 \in n + 1 .. n + m
    BY <1>3
  <1>10. QED
    BY <1>3, <1>5, <1>7, <1>8, <1>9 DEF n

LEMMA CalmNext ==
    ASSUME Types, NoRepeats, OnePlace, Unlisted, [Next]_vars, Calm'
    PROVE  Calm
  <1>1. Tasks' = Tasks
    BY CaseSteps, SameCase
  <1>2. ~cancelled' /\ \A t \in Tasks : task'[t] # "panic"
    BY <1>1 DEF Calm
  <1>3. ~cancelled
    <2>1. CASE Still
      BY <1>2, <2>1, StillEffect
    <2>2. CASE List
      BY <1>2, <2>2, ListEffect
    <2>3. ASSUME NEW f \in 1 .. LastStage, Filter(f) PROVE cancelled' = cancelled
      BY <2>3, FilterEffect
    <2>4. ASSUME NEW w \in Workers, Receive(w) PROVE cancelled' = cancelled
      BY <2>4, ReceiveEffect
    <2>5. ASSUME NEW w \in Workers, Flush(w) PROVE ~cancelled
      BY <2>5, FlushEffect
    <2>6. QED
      BY <1>2, <2>1, <2>2, <2>3, <2>4, <2>5, Steps
  <1>4. ASSUME NEW t \in Tasks, task[t] = "panic" PROVE FALSE
    <2>1. run # "start"
      BY <1>4 DEF Unlisted
    <2>2. task' # task
      BY <1>2, <1>4
    <2>3. PICK u \in Tasks, how \in States : Move(u, how)
      BY <2>1, <2>2, Moves
    <2>4. task' = [task EXCEPT ![u] = how] /\ task[u] # "panic" /\ task \in [Tasks -> States]
      BY <1>2, <2>3 DEF Move, Types
    <2>5. task'[t] = task[t]
      BY <1>4, <2>4
    <2>6. QED
      BY <1>2, <1>4, <2>5
  <1>5. QED
    BY <1>3, <1>4 DEF Calm

(* In a calm run nobody sends to a task that has ended. *)
LEMMA Received ==
    ASSUME Types, Orderly, Calm, NEW f \in 1 .. LastStage, ReceiverDropped(f)
    PROVE  task[f] \in Ended
  <1>1. f \in Tasks \ {0}
    <2>1. LastStage \in Nat /\ f \in 0 .. LastStage /\ 0 .. LastStage \subseteq Tasks
      BY CaseFacts DEF Types
    <2>2. f # 0
      BY <2>1
    <2>3. QED
      BY <2>1, <2>2
  <1>2. \A t \in Tasks \ {0} : task[t] \in Ended => task[Before(t)] \in Ended
    BY DEF Orderly, Over
  <1>3. CASE f = LastStage
    <2>1. LastStage + 1 \in Tasks \ {0} /\ Before(LastStage + 1) = f /\ LastStage + 1 \in Workers
      BY <1>1, <1>3, BeforeFacts DEF Types
    <2>2. task[LastStage + 1] \in Ended
      BY <1>3, <2>1 DEF ReceiverDropped
    <2>3. QED
      BY <1>2, <2>1, <2>2
  <1>4. CASE f # LastStage
    <2>1. f + 1 \in Tasks \ {0} /\ Before(f + 1) = f
      BY <1>1, <1>4, BeforeFacts DEF Types
    <2>2. task[f + 1] \in Ended
      BY <1>4 DEF ReceiverDropped
    <2>3. QED
      BY <1>2, <2>1, <2>2
  <1>5. QED
    BY <1>3, <1>4

LEMMA OrderlyNext == Types /\ NoRepeats /\ OnePlace /\ Unlisted /\ Orderly /\ [Next]_vars => Orderly'
  <1> SUFFICES ASSUME Types, NoRepeats, OnePlace, Unlisted, Orderly, [Next]_vars, Calm',
                      NEW t \in Tasks' \ {0}, task'[t] \in Over
               PROVE  task'[Before(t)'] \in Ended
    BY DEF Orderly, Over, Ended
  <1>1. case' = case /\ Tasks' = Tasks /\ case \in Cases /\ task \in [Tasks -> States]
    BY CaseSteps, SameCase DEF Types
  <1>2. Before(t)' = Before(t) /\ Before(t) \in Tasks /\ Before(t) # t /\ t \in Tasks \ {0}
    <2>1. LastStage' = LastStage /\ Workers' = Workers
      BY <1>1, SameCase
    <2>2. QED
      BY <1>1, <2>1, BeforeFacts DEF Before
  <1>3. Calm /\ ~cancelled' /\ \A u \in Tasks : task'[u] # "panic"
    BY <1>1, CalmNext DEF Calm
  <1>4. \A u \in Tasks \ {0} : task[u] \in Over => task[Before(u)] \in Ended
    BY <1>3 DEF Orderly
  <1>5. CASE task' = task
    BY <1>2, <1>4, <1>5
  <1>6. CASE task' = [u \in Tasks |-> "run"]
    BY <1>2, <1>6 DEF Over, Ended
  <1>7. ASSUME NEW u \in Tasks, NEW how \in States, Move(u, how)
        PROVE  task'[Before(t)] \in Ended
    <2>1. /\ task' = [task EXCEPT ![u] = how] /\ (task[u] \in Ended => how \in Ended)
          /\ how \in Over => \/ how = "panic" \/ u = 0 \/ task[u] \in Over \/ task[Before(u)] \in Ended
                             \/ u \in 1 .. LastStage /\ task[u] = "run" /\ ReceiverDropped(u)
      BY <1>3, <1>7 DEF Move
    <2>2. task'[u] = how /\ \A v \in Tasks \ {u} : task'[v] = task[v]
      BY <1>1, <2>1
    <2>3. \A v \in Tasks : task[v] \in Ended => task'[v] \in Ended
      BY <2>1, <2>2
    <2>4. ~(u \in 1 .. LastStage /\ task[u] = "run" /\ ReceiverDropped(u))
      BY <1>3, Received DEF Ended
    <2>5. task[Before(t)] \in Ended
      <3>1. CASE t = u
        <4>1. how \in Over /\ how # "panic" /\ u # 0
          BY <1>2, <1>3, <2>2, <3>1
        <4>2. QED
          BY <1>2, <1>4, <2>1, <2>4, <3>1, <4>1
      <3>2. CASE t # u
        BY <1>2, <1>4, <2>2, <3>2
      <3>3. QED
        BY <3>1, <3>2
    <2>6. QED
      BY <1>2, <2>3, <2>5
  <1>8. QED
    BY <1>2, <1>5, <1>6, <1>7, Moves

-----------------------------------------------------------------------------
(* Nothing is lost. *)

LEMMA UndisturbedNext ==
    ASSUME Types, NoRepeats, OnePlace, Unlisted, [Next]_vars, Undisturbed', ~List
    PROVE  Undisturbed
  <1>1. /\ Tasks' = Tasks /\ storage' = storage /\ task \in [Tasks -> States]
        /\ 0 \in 0 .. LastStage /\ 0 .. LastStage \subseteq Tasks
    BY CaseSteps, SameCase, CaseFacts DEF Types
  <1>2. /\ task'[0] \in Ended /\ storage.lists = "all" /\ ~delete_all_versions' /\ ~cancelled'
        /\ \A t \in Tasks : task'[t] \notin {"panic", "limit"}
    BY <1>1 DEF Undisturbed, Listed, Ended
  <1>3. Calm
    <2>1. Calm'
      BY <1>1, <1>2 DEF Calm
    <2>2. QED
      BY <2>1, CalmNext
  <1>4. run # "start"
    <2>1. ASSUME run = "start" PROVE FALSE
      <3>1. \A t \in Tasks : task[t] = "idle"
        BY <2>1 DEF Unlisted
      <3>2. task # task' /\ task' # [t \in Tasks |-> "run"]
        BY <1>1, <1>2, <3>1 DEF Ended
      <3>3. PICK t \in Tasks, how \in States : Move(t, how)
        BY <3>2, Moves
      <3>4. task' = [task EXCEPT ![t] = how] /\ (t = 0 => task[0] \in Ended)
        BY <3>3 DEF Move
      <3>5. QED
        BY <1>1, <1>2, <3>1, <3>4 DEF Ended
    <2>2. QED
      BY <2>1
  <1>5. delete_all_versions' = delete_all_versions
    BY <1>4 DEF Next, vars, RunStep, Start, Await, FireCompletionEvents, RunAgain, List, StageEnds, Filter,
           WorkerStep, Receive, Closed, Cancelled, FlushNothing, Flush, Supervise, Done
  <1>6. task[0] \in Ended /\ \A t \in Tasks : task[t] # "limit"
    <2>1. CASE task' = task
      BY <1>1, <1>2, <2>1
    <2>2. ASSUME NEW t \in Tasks, NEW how \in States, Move(t, how)
          PROVE  task[0] \in Ended /\ \A u \in Tasks : task[u] # "limit"
      <3>1. task' = [task EXCEPT ![t] = how] /\ (t = 0 => task[0] \in Ended)
            /\ (task[t] = "limit" => cancelled' \/ how = "panic")
        BY <2>2 DEF Move
      <3>2. task'[t] = how /\ \A u \in Tasks \ {t} : task'[u] = task[u]
        BY <1>1, <3>1
      <3>3. task[t] # "limit"
        BY <1>2, <3>1, <3>2
      <3>4. QED
        BY <1>1, <1>2, <3>1, <3>2, <3>3
    <2>3. QED
      BY <1>4, <2>1, <2>2, Moves
  <1>7. QED
    BY <1>1, <1>2, <1>3, <1>5, <1>6 DEF Undisturbed, Calm, Listed

LEMMA KeptNext == Types /\ NoRepeats /\ OnePlace /\ Unlisted /\ Orderly /\ Kept /\ [Next]_vars => Kept'
  <1> SUFFICES ASSUME Types, NoRepeats, OnePlace, Unlisted, Orderly, Kept, [Next]_vars, Undisturbed',
                      NEW i \in Objects'
               PROVE  Somewhere(i)'
    BY DEF Kept
  <1>1. /\ case' = case /\ Tasks' = Tasks /\ LastStage' = LastStage /\ Workers' = Workers /\ i \in Objects
        /\ storage' = storage /\ task \in [Tasks -> States] /\ Workers \subseteq Tasks
        /\ 0 \in 0 .. LastStage /\ \A f \in 1 .. LastStage : f \in 0 .. LastStage /\ f - 1 \in 0 .. LastStage /\ f \in Tasks
    BY CaseSteps, SameCase, CaseFacts DEF Types
  <1>2. /\ storage.lists = "all" /\ ~delete_all_versions' /\ ~cancelled'
        /\ \A t \in Tasks : task'[t] \notin {"panic", "limit"}
    BY <1>1 DEF Undisturbed
  <1>3. SUFFICES \/ \E c \in 0 .. LastStage : i \in Range(chan'[c])
                 \/ \E w \in Workers : i \in Range(buffer'[w])
                 \/ i \in deleted' \/ i \in failed' \/ i \in filtered'
    BY <1>1 DEF Somewhere, InChan, InBuffer, Settled
  <1>4. CASE List
    <2>1. Range(chan'[0]) = Objects
      BY <1>2, <1>4, ListEffect
    <2>2. QED
      BY <1>1, <2>1
  <1>5. CASE ~List
    <2>1. Undisturbed
      BY <1>5, UndisturbedNext
    <2>2. Calm
      BY <2>1 DEF Undisturbed, Calm
    <2>3. \/ \E c \in 0 .. LastStage : i \in Range(chan[c])
          \/ \E w \in Workers : i \in Range(buffer[w])
          \/ i \in deleted \/ i \in failed \/ i \in filtered
      BY <1>1, <2>1 DEF Kept, Somewhere, InChan, InBuffer, Settled
    <2>4. CASE Still
      BY <2>3, <2>4, StillEffect
    <2>5. ASSUME NEW f \in 1 .. LastStage, Filter(f)
          PROVE  \/ \E c \in 0 .. LastStage : i \in Range(chan'[c])
                 \/ \E w \in Workers : i \in Range(buffer'[w])
                 \/ i \in deleted' \/ i \in failed' \/ i \in filtered'
      <3> DEFINE h == Head(chan[f - 1])
      <3>1. /\ buffer' = buffer /\ deleted' = deleted /\ failed' = failed /\ task[f] = "run"
            /\ \A c \in 0 .. LastStage \ {f - 1, f} : chan'[c] = chan[c]
            /\ Range(chan'[f - 1]) = Range(chan[f - 1]) \ {h}
            /\ \/ filtered' = filtered \cup {h} /\ chan'[f] = chan[f] /\ task' = task
               \/ filtered' = filtered /\ Range(chan'[f]) = Range(chan[f]) \cup {h} /\ task' = task
               \/ /\ filtered' = filtered /\ chan'[f] = chan[f]
                  /\ \/ task' = [task EXCEPT ![f] = "panic"]
                     \/ task' = [task EXCEPT ![f] = "ok"] /\ ReceiverDropped(f)
        BY <2>5, FilterEffect
      <3>2. ~ReceiverDropped(f)
        BY <2>2, <3>1, Received DEF Ended
      <3>3. task' # [task EXCEPT ![f] = "panic"]
        BY <1>1, <1>2
      <3> HIDE DEF h
      <3>4. \/ filtered' = filtered \cup {h} /\ chan'[f] = chan[f]
            \/ filtered' = filtered /\ Range(chan'[f]) = Range(chan[f]) \cup {h}
        BY <3>1, <3>2, <3>3
      <3>5. \A c \in 0 .. LastStage : \A x : x \in Range(chan[c]) /\ x # h => x \in Range(chan'[c])
        BY <3>1, <3>4
      <3>6. h \in filtered' \/ h \in Range(chan'[f])
        BY <3>4
      <3>7. filtered \subseteq filtered'
        BY <3>4
      <3>8. QED
        BY <1>1, <2>3, <3>1, <3>5, <3>6, <3>7
    <2>6. ASSUME NEW w \in Workers, Receive(w)
          PROVE  \/ \E c \in 0 .. LastStage : i \in Range(chan'[c])
                 \/ \E v \in Workers : i \in Range(buffer'[v])
                 \/ i \in deleted' \/ i \in failed' \/ i \in filtered'
      <3> DEFINE n == LastStage
                 h == Head(chan[n])
      <3>1. /\ deleted' = deleted /\ failed' = failed /\ filtered' = filtered
            /\ \A c \in 0 .. n \ {n} : chan'[c] = chan[c]
            /\ Range(chan'[n]) = Range(chan[n]) \ {h}
            /\ \/ task' = [task EXCEPT ![w] = "limit"]
               \/ /\ Range(buffer'[w]) = Range(buffer[w]) \cup {h}
                  /\ \A v \in Workers \ {w} : buffer'[v] = buffer[v]
        BY <2>6, ReceiveEffect
      <3>2. task' # [task EXCEPT ![w] = "limit"]
        BY <1>1, <1>2
      <3> HIDE DEF h, n
      <3>3. \A v \in Workers : \A x : x \in Range(buffer[v]) => x \in Range(buffer'[v])
        BY <3>1, <3>2
      <3>4. h \in Range(buffer'[w])
        BY <3>1, <3>2
      <3>5. \A c \in 0 .. n : \A x : x \in Range(chan[c]) /\ x # h => x \in Range(chan'[c])
        BY <3>1
      <3>6. QED
        BY <2>3, <3>1, <3>3, <3>4, <3>5 DEF n
    <2>7. ASSUME NEW w \in Workers, Flush(w)
          PROVE  \/ \E c \in 0 .. LastStage : i \in Range(chan'[c])
                 \/ \E v \in Workers : i \in Range(buffer'[v])
                 \/ i \in deleted' \/ i \in failed' \/ i \in filtered'
      <3> DEFINE keys == Range(buffer[w])
                 a == Answer(keys)
      <3>1. /\ chan' = chan /\ filtered' = filtered
            /\ \A v \in Workers \ {w} : buffer'[v] = buffer[v]
            /\ deleted' = deleted \cup a.deleted /\ failed' = failed \cup a.failed
            /\ \/ a.how \in {"err", "panic"} /\ task' = [task EXCEPT ![w] = a.how] /\ (a.how = "err" => cancelled')
               \/ a.how = "ok"
        BY <2>7, FlushEffect
      <3>2. a.how = "ok" => keys = a.deleted \cup a.failed
        BY AnswerFacts
      <3> HIDE DEF a
      <3>3. a.how = "ok"
        <4>1. CASE a.how = "panic" /\ task' = [task EXCEPT ![w] = "panic"]
          BY <1>1, <1>2, <4>1
        <4>2. QED
          BY <1>2, <3>1, <4>1
      <3>4. keys = a.deleted \cup a.failed
        BY <3>2, <3>3
      <3> HIDE DEF keys
      <3>5. \A x \in keys : x \in deleted' \/ x \in failed'
        BY <3>1, <3>4
      <3>6. QED
        BY <2>3, <3>1, <3>5 DEF keys
    <2>8. QED
      BY <1>5, <2>4, <2>5, <2>6, <2>7, Steps
  <1>6. QED
    BY <1>4, <1>5

-----------------------------------------------------------------------------
(* What is counted. *)

LEMMA AdmittedFacts ==
    ASSUME Types
    PROVE  Admitted \subseteq Objects /\ IsFiniteSet(Admitted) /\ Cardinality(Admitted) \in Nat
  <1>1. \A w \in Workers : buffer[w] \in Seq(Objects)
    BY DEF Types
  <1>2. \A w \in Workers : Range(buffer[w]) \subseteq Objects
    BY <1>1, RangeIn
  <1>3. Admitted \subseteq Objects
    BY <1>2 DEF Types, Admitted
  <1>4. Admitted \in SUBSET Objects /\ IsFiniteSet(Objects)
    BY <1>3, CaseFacts DEF Types
  <1>5. IsFiniteSet(Admitted)
    BY <1>4, FS_Subset
  <1>6. QED
    BY <1>3, <1>5, FS_CardinalityType

LEMMA LimitedNext == Types /\ NoRepeats /\ OnePlace /\ Unlisted /\ Limited /\ [Next]_vars => Limited'
  <1> SUFFICES ASSUME Types, NoRepeats, OnePlace, Unlisted, Limited, [Next]_vars PROVE Limited'
    OBVIOUS
  <1> DEFINE max == config.max_delete
             A == Admitted
             n == Cardinality(A)
             m == Cardinality(A')
             d == delete_counter
  <1>1. /\ Workers' = Workers /\ config' = config /\ max \in Nat \cup {NoLimit} /\ d \in Nat
    BY CaseSteps, SameCase, CaseFacts DEF Types
  <1>2. IsFiniteSet(A) /\ n \in Nat
    BY AdmittedFacts
  <1>3. m \in Nat
    <2>1. Types'
      BY TypesNext
    <2> DEFINE B == A'
    <2>2. IsFiniteSet(B)
      <3>1. IsFiniteSet(Objects) /\ Objects' = Objects
        BY CaseSteps, SameCase, CaseFacts DEF Types
      <3>2. /\ deleted' \subseteq Objects /\ failed' \subseteq Objects
            /\ \A w \in Workers : buffer'[w] \in Seq(Objects)
        BY <1>1, <2>1, <3>1 DEF Types
      <3>3. \A w \in Workers : Range(buffer'[w]) \subseteq Objects
        BY <3>2, RangeIn
      <3>4. B \in SUBSET Objects
        BY <1>1, <3>2, <3>3 DEF Admitted
      <3> HIDE DEF B
      <3>5. QED
        BY <3>1, <3>4, FS_Subset
    <2> HIDE DEF B
    <2>3. Cardinality(B) \in Nat
      BY <2>2, FS_CardinalityType
    <2>4. QED
      BY <2>3 DEF B
  <1>4. n <= d /\ (max # NoLimit => n <= max)
    BY DEF Limited
  <1>5. SUFFICES m <= delete_counter' /\ (max # NoLimit => m <= max)
    BY <1>1 DEF Limited
  <1>6. A' = deleted' \cup failed' \cup UNION {Range(buffer'[w]) : w \in Workers}
    BY <1>1 DEF Admitted
  <1>7. ASSUME buffer' = buffer, deleted' = deleted, failed' = failed, delete_counter' = delete_counter
        PROVE  m <= delete_counter' /\ (max # NoLimit => m <= max)
    <2>1. A' = A
      BY <1>6, <1>7 DEF Admitted
    <2>2. QED
      BY <1>4, <1>7, <2>1
  <1>8. CASE Still
    BY <1>7, <1>8, StillEffect
  <1>9. CASE List
    BY <1>7, <1>9, ListEffect
  <1>10. ASSUME NEW f \in 1 .. LastStage, Filter(f)
         PROVE  buffer' = buffer /\ deleted' = deleted /\ failed' = failed /\ delete_counter' = delete_counter
    BY <1>10, FilterEffect
  <1>11. ASSUME NEW w \in Workers, Receive(w)
         PROVE  m <= delete_counter' /\ (max # NoLimit => m <= max)
    <2> DEFINE h == Head(chan[LastStage])
    <2>1. /\ deleted' = deleted /\ failed' = failed /\ delete_counter' = d + 1
          /\ \/ OverLimit /\ buffer' = buffer
             \/ /\ ~OverLimit /\ Range(buffer'[w]) = Range(buffer[w]) \cup {h}
                /\ \A v \in Workers \ {w} : buffer'[v] = buffer[v]
      BY <1>11, ReceiveEffect
    <2>2. CASE buffer' = buffer
      <3>1. A' = A
        BY <1>6, <2>1, <2>2 DEF Admitted
      <3>2. m = n
        BY <3>1
      <3> HIDE DEF m, n, d, max
      <3>3. QED
        BY <1>1, <1>2, <1>4, <2>1, <3>2
    <2>3. CASE ~OverLimit /\ Range(buffer'[w]) = Range(buffer[w]) \cup {h}
               /\ \A v \in Workers \ {w} : buffer'[v] = buffer[v]
      <3> HIDE DEF h
      <3>1. A' = A \cup {h}
        <4>1. ASSUME NEW x PROVE x \in A <=> \/ x \in deleted \/ x \in failed
                                               \/ \E v \in Workers : x \in Range(buffer[v])
          BY DEF Admitted
        <4>2. ASSUME NEW x PROVE x \in A' <=> \/ x \in deleted' \/ x \in failed'
                                                \/ \E v \in Workers : x \in Range(buffer'[v])
          BY <1>6
        <4>3. ASSUME NEW x
              PROVE  (\E v \in Workers : x \in Range(buffer'[v])) <=>
                        (\E v \in Workers : x \in Range(buffer[v])) \/ x = h
          BY <2>3
        <4> DEFINE B == A'
        <4> HIDE DEF A, B
        <4>4. ASSUME NEW x PROVE x \in B <=> x \in A \/ x = h
          BY <2>1, <4>1, <4>2, <4>3 DEF B
        <4>5. B = A \cup {h}
          BY <4>4
        <4>6. QED
          BY <4>5 DEF B
      <3> HIDE DEF A
      <3>2. Cardinality(A \cup {h}) = n \/ Cardinality(A \cup {h}) = n + 1
        <4>1. CASE h \in A
          <5>1. A \cup {h} = A
            BY <4>1
          <5>2. QED
            BY <5>1
        <4>2. CASE h \notin A
          BY <1>2, <4>2, FS_AddElement
        <4>3. QED
          BY <4>1, <4>2
      <3>3. m = n \/ m = n + 1
        BY <3>1, <3>2
      <3>4. max = NoLimit \/ ~(d + 1 > max)
        BY <2>3 DEF OverLimit
      <3> HIDE DEF m, n, d, max
      <3>5. m <= d + 1
        BY <1>1, <1>2, <1>4, <3>3
      <3>6. max # NoLimit => m <= max
        BY <1>1, <1>2, <1>3, <3>4, <3>5
      <3>7. QED
        BY <2>1, <3>5, <3>6
    <2>4. QED
      BY <2>1, <2>2, <2>3
  <1>12. ASSUME NEW w \in Workers, Flush(w)
         PROVE  m <= delete_counter' /\ (max # NoLimit => m <= max)
    <2> DEFINE keys == Range(buffer[w])
               a == Answer(keys)
    <2>1. /\ delete_counter' = d /\ buffer'[w] = << >>
          /\ \A v \in Workers \ {w} : buffer'[v] = buffer[v]
          /\ deleted' = deleted \cup a.deleted /\ failed' = failed \cup a.failed
      BY <1>12, FlushEffect
    <2>2. a.deleted \subseteq keys /\ a.failed \subseteq keys
      BY AnswerFacts
    <2> HIDE DEF a
    <2>3. \A v \in Workers : Range(buffer'[v]) \subseteq Range(buffer[v])
      BY <2>1, Nothing
    <2>4. A' \subseteq A
      BY <1>6, <2>1, <2>2, <2>3 DEF Admitted
    <2> DEFINE B == A'
    <2>5. B \in SUBSET A
      BY <2>4
    <2> HIDE DEF A, B
    <2>6. Cardinality(B) <= Cardinality(A)
      BY <1>2, <2>5, FS_Subset
    <2>7. m <= n
      BY <2>6 DEF B
    <2> HIDE DEF m, n, d, max
    <2>8. m <= d /\ (max # NoLimit => m <= max)
      BY <1>1, <1>2, <1>3, <1>4, <2>7
    <2>9. QED
      BY <2>1, <2>8
  <1>13. QED
    BY <1>7, <1>8, <1>9, <1>10, <1>11, <1>12, Steps

LEMMA TruthfulNext == Types /\ NoRepeats /\ OnePlace /\ Unlisted /\ Truthful /\ [Next]_vars => Truthful'
  <1> SUFFICES ASSUME Types, NoRepeats, OnePlace, Unlisted, Truthful, [Next]_vars PROVE Truthful'
    OBVIOUS
  <1>1. config' = config
    BY CaseSteps, SameCase
  <1>2. removed = (IF config.dry_run THEN {} ELSE deleted) /\ events["DELETE_COMPLETE"] = Cardinality(deleted)
    BY DEF Truthful
  <1>3. SUFFICES /\ removed' = IF config.dry_run THEN {} ELSE deleted'
                 /\ events'["DELETE_COMPLETE"] = Cardinality(deleted')
    BY <1>1 DEF Truthful
  <1>4. CASE Still
    BY <1>2, <1>4, StillEffect
  <1>5. CASE List
    BY <1>2, <1>5, ListEffect
  <1>6. ASSUME NEW f \in 1 .. LastStage, Filter(f)
        PROVE  /\ removed' = removed /\ deleted' = deleted
               /\ events'["DELETE_COMPLETE"] = events["DELETE_COMPLETE"]
    BY <1>6, FilterEffect
  <1>7. ASSUME NEW w \in Workers, Receive(w)
        PROVE  UNCHANGED <<removed, deleted, events>>
    BY <1>7, ReceiveEffect
  <1>8. ASSUME NEW w \in Workers, Flush(w)
        PROVE  /\ removed' = IF config.dry_run THEN {} ELSE deleted'
               /\ events'["DELETE_COMPLETE"] = Cardinality(deleted')
    <2> DEFINE keys == Range(buffer[w])
               a == Answer(keys)
               x == a.deleted
    <2>1. /\ removed' = IF config.dry_run THEN removed ELSE removed \cup x
          /\ deleted' = deleted \cup x /\ IsFiniteSet(x)
          /\ events'["DELETE_COMPLETE"] = events["DELETE_COMPLETE"] + Cardinality(x)
      BY <1>8, FlushEffect
    <2>2. x \subseteq keys
      BY AnswerFacts
    <2>3. deleted \cap x = {}
      BY <2>2 DEF OnePlace, InBuffer, Settled
    <2>4. IsFiniteSet(deleted)
      <3>1. deleted \in SUBSET Objects /\ IsFiniteSet(Objects)
        BY CaseFacts DEF Types
      <3>2. QED
        BY <3>1, FS_Subset
    <2> HIDE DEF x
    <2>5. Cardinality(deleted \cup x) = Cardinality(deleted) + Cardinality(x)
      <3>1. /\ Cardinality(deleted) \in Nat /\ Cardinality(x) \in Nat /\ Cardinality({}) = 0
        BY <2>1, <2>4, FS_CardinalityType, FS_EmptySet
      <3>2. Cardinality(deleted \cup x) = Cardinality(deleted) + Cardinality(x) - Cardinality(deleted \cap x)
        BY <2>1, <2>4, FS_Union
      <3> DEFINE p == Cardinality(deleted)
                 q == Cardinality(x)
                 r == Cardinality(deleted \cup x)
      <3>3. r = p + q - 0 /\ p \in Nat /\ q \in Nat
        BY <2>3, <3>1, <3>2
      <3> HIDE DEF p, q, r
      <3>4. r = p + q
        BY <3>3
      <3>5. QED
        BY <3>4 DEF p, q, r
    <2>6. QED
      BY <1>2, <2>1, <2>5
  <1>9. QED
    BY <1>2, <1>4, <1>5, <1>6, <1>7, <1>8, Steps

-----------------------------------------------------------------------------
(* The ledger. *)

LEMMA InvInit == Init => IInv
  <1> SUFFICES ASSUME Init PROVE IInv
    OBVIOUS
  <1>1. /\ case \in Cases /\ case.cancelled \in BOOLEAN /\ 0 \in Tasks /\ Workers \subseteq Tasks
        /\ config.max_delete \in Nat \cup {NoLimit}
    <2>1. case \in Cases
      BY DEF Init
    <2>2. QED
      BY <2>1, CaseFacts
  <1>2. /\ run = "start" /\ task = [t \in Tasks |-> "idle"] /\ chan = [c \in 0 .. LastStage |-> << >>]
        /\ buffer = [w \in Workers |-> << >>] /\ delete_counter = 0 /\ cancelled = case.cancelled
        /\ deleted = {} /\ failed = {} /\ filtered = {} /\ removed = {} /\ events = [e \in EventTypes |-> 0]
    BY DEF Init
  <1>3. ~Listed /\ \A t \in Tasks : task[t] \notin Ended /\ task[t] = "idle"
    BY <1>1, <1>2 DEF Listed, Ended
  <1>4. Types
    <2>1. << >> \in Seq(Objects)
      OBVIOUS
    <2>2. "idle" \in States
      BY DEF States
    <2>3. QED
      BY <1>1, <1>2, <2>1, <2>2 DEF Types
  <1>5. /\ \A c \in 0 .. LastStage : Range(chan[c]) = {} /\ Once(chan[c]) /\ chan[c] = << >>
        /\ \A w \in Workers : Range(buffer[w]) = {} /\ Once(buffer[w]) /\ buffer[w] = << >>
    BY <1>2, Nothing
  <1>6. NoRepeats
    BY <1>5 DEF NoRepeats
  <1>7. OnePlace
    BY <1>2, <1>5 DEF OnePlace, InChan, InBuffer, Settled
  <1>8. Unlisted
    BY <1>2, <1>3, <1>5 DEF Unlisted
  <1>9. Orderly
    BY <1>3 DEF Orderly, Over
  <1>10. Kept
    BY <1>3 DEF Kept, Undisturbed
  <1>11. Limited
    <2>1. Admitted = {}
      BY <1>2, <1>5 DEF Admitted
    <2>2. Cardinality(Admitted) = 0
      BY <2>1, FS_EmptySet
    <2>3. QED
      BY <1>1, <1>2, <2>2 DEF Limited
  <1>12. Truthful
    <2>1. events["DELETE_COMPLETE"] = 0
      BY <1>2 DEF EventTypes
    <2>2. QED
      BY <1>2, <2>1, FS_EmptySet DEF Truthful
  <1>13. QED
    BY <1>4, <1>6, <1>7, <1>8, <1>9, <1>10, <1>11, <1>12 DEF IInv

LEMMA InvNext == IInv /\ [Next]_vars => IInv'
  <1> SUFFICES ASSUME IInv, [Next]_vars PROVE IInv'
    OBVIOUS
  <1>1. Types /\ NoRepeats /\ OnePlace /\ Unlisted /\ Orderly /\ Kept /\ Limited /\ Truthful
    BY DEF IInv
  <1>2. Types' /\ NoRepeats' /\ OnePlace' /\ Unlisted'
    BY <1>1, TypesNext, NoRepeatsNext, OnePlaceNext, UnlistedNext
  <1>3. Orderly' /\ Kept' /\ Limited' /\ Truthful'
    BY <1>1, OrderlyNext, KeptNext, LimitedNext, TruthfulNext
  <1>4. QED
    BY <1>2, <1>3 DEF IInv

LEMMA PlacesAre ==
    ASSUME Types, NEW i, NEW x
    PROVE  x \in Places(i) <=>
              \/ \E c \in 0 .. LastStage : InChan(c, i) /\ x = <<"chan", c>>
              \/ \E w \in Workers : InBuffer(w, i) /\ x = <<"buffer", w>>
              \/ i \in deleted /\ x = <<"stats", 1>>
              \/ i \in failed /\ x = <<"stats", 2>>
              \/ i \in filtered /\ x = <<"stats", 3>>
  <1>1. DOMAIN chan = 0 .. LastStage
    BY DEF Types
  <1>2. /\ 1 .. 3 = {1, 2, 3} /\ <<deleted, failed, filtered>>[1] = deleted
        /\ <<deleted, failed, filtered>>[2] = failed /\ <<deleted, failed, filtered>>[3] = filtered
    OBVIOUS
  <1>3. x \in { <<"chan", c>> : c \in {d \in DOMAIN chan : i \in Range(chan[d])} } <=>
           \E c \in 0 .. LastStage : InChan(c, i) /\ x = <<"chan", c>>
    BY <1>1 DEF InChan
  <1>4. x \in { <<"buffer", w>> : w \in {v \in Workers : i \in Range(buffer[v])} } <=>
           \E w \in Workers : InBuffer(w, i) /\ x = <<"buffer", w>>
    BY DEF InBuffer
  <1> DEFINE S == <<deleted, failed, filtered>>
  <1>5. x \in { <<"stats", s>> : s \in {n \in 1 .. 3 : i \in S[n]} } <=>
           \E n \in {1, 2, 3} : i \in S[n] /\ x = <<"stats", n>>
    BY <1>2
  <1> HIDE DEF S
  <1>6. (\E n \in {1, 2, 3} : i \in S[n] /\ x = <<"stats", n>>) <=>
           \/ i \in S[1] /\ x = <<"stats", 1>>
           \/ i \in S[2] /\ x = <<"stats", 2>>
           \/ i \in S[3] /\ x = <<"stats", 3>>
    OBVIOUS
  <1>7. S[1] = deleted /\ S[2] = failed /\ S[3] = filtered
    BY <1>2 DEF S
  <1>8. QED
    BY <1>3, <1>4, <1>5, <1>6, <1>7 DEF Places, S

LEMMA AtMostOne ==
    ASSUME NEW S, \A x, y \in S : x = y
    PROVE  (S = {} \/ Cardinality(S) = 1) /\ Cardinality(S) <= 1
  <1>1. CASE S = {}
    <2>1. Cardinality(S) = 0
      BY <1>1, FS_EmptySet
    <2>2. QED
      BY <1>1, <2>1
  <1>2. CASE S # {}
    <2>1. PICK x : x \in S
      BY <1>2
    <2>2. S = {x}
      BY <2>1
    <2>3. Cardinality(S) = 1
      BY <2>2, FS_Singleton
    <2>4. QED
      BY <2>3
  <1>3. QED
    BY <1>1, <1>2

LEMMA LedgerGives == IInv => Ledger
  <1> SUFFICES ASSUME IInv PROVE Ledger
    OBVIOUS
  <1>1. Types /\ OnePlace /\ Kept /\ Limited /\ Truthful
    BY DEF IInv
  <1>2. ASSUME NEW i \in Objects
        PROVE  Cardinality(Places(i)) <= 1 /\ (Undisturbed => Cardinality(Places(i)) = 1)
    <2> DEFINE P == Places(i)
    <2>1. \A x, y \in P : x = y
      <3>1. SUFFICES ASSUME NEW x \in P, NEW y \in P PROVE x = y
        OBVIOUS
      <3>2. /\ \/ \E c \in 0 .. LastStage : InChan(c, i) /\ x = <<"chan", c>>
               \/ \E w \in Workers : InBuffer(w, i) /\ x = <<"buffer", w>>
               \/ i \in deleted /\ x = <<"stats", 1>>
               \/ i \in failed /\ x = <<"stats", 2>>
               \/ i \in filtered /\ x = <<"stats", 3>>
            /\ \/ \E c \in 0 .. LastStage : InChan(c, i) /\ y = <<"chan", c>>
               \/ \E w \in Workers : InBuffer(w, i) /\ y = <<"buffer", w>>
               \/ i \in deleted /\ y = <<"stats", 1>>
               \/ i \in failed /\ y = <<"stats", 2>>
               \/ i \in filtered /\ y = <<"stats", 3>>
        BY <1>1, <3>1, PlacesAre
      <3>3. CASE \E c \in 0 .. LastStage : InChan(c, i)
        BY <1>1, <3>2, <3>3 DEF OnePlace, Settled
      <3>4. CASE (\A c \in 0 .. LastStage : ~InChan(c, i)) /\ \E w \in Workers : InBuffer(w, i)
        BY <1>1, <3>2, <3>4 DEF OnePlace, Settled
      <3>5. CASE (\A c \in 0 .. LastStage : ~InChan(c, i)) /\ \A w \in Workers : ~InBuffer(w, i)
        BY <1>1, <3>2, <3>5 DEF OnePlace
      <3>6. QED
        BY <3>3, <3>4, <3>5
    <2>2. Undisturbed => P # {}
      <3>1. Undisturbed => Somewhere(i)
        BY <1>1 DEF Kept
      <3>2. Somewhere(i) => \E x : \/ \E c \in 0 .. LastStage : InChan(c, i) /\ x = <<"chan", c>>
                                   \/ \E w \in Workers : InBuffer(w, i) /\ x = <<"buffer", w>>
                                   \/ i \in deleted /\ x = <<"stats", 1>>
                                   \/ i \in failed /\ x = <<"stats", 2>>
                                   \/ i \in filtered /\ x = <<"stats", 3>>
        BY DEF Somewhere, Settled
      <3>3. Somewhere(i) => \E x : x \in P
        BY <1>1, <3>2, PlacesAre
      <3> HIDE DEF P
      <3>4. QED
        BY <3>1, <3>3
    <2> HIDE DEF P
    <2>3. (P = {} \/ Cardinality(P) = 1) /\ Cardinality(P) <= 1
      BY <2>1, AtMostOne
    <2>4. QED
      BY <2>2, <2>3 DEF P
  <1>3. ASSUME config.max_delete # NoLimit PROVE Cardinality(deleted) <= config.max_delete
    <2> DEFINE max == config.max_delete
               A == Admitted
               n == Cardinality(A)
               d == Cardinality(deleted)
    <2>1. IsFiniteSet(A) /\ n \in Nat
      BY <1>1, AdmittedFacts
    <2>2. deleted \in SUBSET A
      BY DEF Admitted
    <2>3. n <= max /\ max \in Nat
      <3>1. max \in Nat \cup {NoLimit}
        BY <1>1, CaseFacts DEF Types
      <3>2. QED
        BY <1>1, <1>3, <3>1 DEF Limited
    <2> HIDE DEF A
    <2>4. IsFiniteSet(deleted) /\ d <= n
      BY <2>1, <2>2, FS_Subset
    <2>5. d \in Nat
      BY <2>4, FS_CardinalityType
    <2> HIDE DEF n, d, max
    <2>6. d <= max
      BY <2>1, <2>3, <2>4, <2>5
    <2>7. QED
      BY <2>6 DEF d, max
  <1>4. QED
    BY <1>1, <1>2, <1>3 DEF Ledger, Undisturbed, Truthful

(* DeletionPipeline loses no object: from the listing on, in every schedule of    *)
(* lister, filter stages, workers and supervisors, an object is in one channel,   *)
(* one batch or one of the statistics, and never in two; it can be in none only   *)
(* after a cancellation, over the limit or after a panic. What is counted and     *)
(* announced as deleted is what the storage removed (nothing in a dry run), and   *)
(* --max-delete bounds it.                                                        *)
THEOREM LedgerHolds == Spec => []Ledger
  <1>1. Init => IInv
    BY InvInit
  <1>2. IInv /\ [Next]_vars => IInv'
    BY InvNext
  <1>3. IInv => Ledger
    BY LedgerGives
  <1>4. QED
    BY <1>1, <1>2, <1>3, PTL DEF Spec

=============================================================================
