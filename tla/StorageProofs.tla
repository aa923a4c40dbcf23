--------------------------- MODULE StorageProofs ----------------------------
(* Proofs about the storage layer.                                                *)
(*   Storage, for every set of workers, configuration, rate and batch size: the   *)
(*     rate limit holds over any second somebody watches (PacedBound), and a      *)
(*     client reads its profile from the files it was given (ProfileWired).       *)
(*   S3Lister, for every bucket, every depth of prefixes, every number of permits *)
(*     and every page size: what a listing delivers and how it ends.              *)
EXTENDS S3Lister, Storage, FiniteSetTheorems, SequenceTheorems, WellFoundedInduction, TLAPS

-----------------------------------------------------------------------------
(* Induction over the natural numbers, and the sums of Totals.                    *)

(* A set of natural numbers that has a member has a least one. *)
LEMMA Least ==
    ASSUME NEW T, T \subseteq Nat, T # {}
    PROVE  \E n \in T : \A m \in T : n <= m
  <1> DEFINE R == {ss \in Nat \X Nat : ss[1] < ss[2]}
  <1>1. IsWellFoundedOn(R, Nat)
    BY NatLessThanWellFounded DEF OpToRel
  <1>2. PICK n \in T : \A m \in T : ~(<<m, n>> \in R)
    <2> HIDE DEF R
    <2>1. QED
      BY <1>1, WFMin
  <1>3. \A m \in T : ~(m < n)
    BY <1>2
  <1>4. QED
    BY <1>3

(* A set that has 0 and the successor of each of its members has every number. *)
LEMMA Induct ==
    ASSUME NEW T, T \subseteq Nat, 0 \in T, \A n \in T : n + 1 \in T
    PROVE  T = Nat
  <1>1. SUFFICES ASSUME Nat \ T # {} PROVE FALSE
    OBVIOUS
  <1>2. PICK n \in Nat \ T : \A m \in Nat \ T : n <= m
    BY <1>1, Least
  <1>3. n # 0 /\ n - 1 \in Nat /\ ~(n <= n - 1) /\ (n - 1) + 1 = n
    BY <1>2
  <1>4. n - 1 \in T
    BY <1>2, <1>3
  <1>5. QED
    BY <1>2, <1>3, <1>4

(* g holds the sums of the first values of f, up to n of them: the equation that  *)
(* Totals is defined by.                                                          *)
IsTotals(g, f, n) == g = [i \in 0 .. n |-> IF i = 0 THEN 0 ELSE g[i - 1] + f[i]]

(* There is such a function. *)
LEMMA TotalsExist ==
    ASSUME NEW f, NEW n \in Nat
    PROVE  \E g : IsTotals(g, f, n)
  <1> DEFINE T == {m \in Nat : \E g : IsTotals(g, f, m)}
  <1>1. 0 \in T
    <2>1. IsTotals([i \in 0 .. 0 |-> 0], f, 0)
      BY DEF IsTotals
    <2>2. QED
      BY <2>1
  <1>2. ASSUME NEW m \in T
        PROVE  m + 1 \in T
    <2>1. PICK g : IsTotals(g, f, m)
      OBVIOUS
    <2> DEFINE h == [i \in 0 .. m + 1 |-> IF i = m + 1 THEN g[m] + f[m + 1] ELSE g[i]]
    <2>2. /\ \A i \in 0 .. m : h[i] = g[i]
          /\ h[m + 1] = h[m] + f[m + 1]
      OBVIOUS
    <2>3. \A i \in 0 .. m : g[i] = IF i = 0 THEN 0 ELSE g[i - 1] + f[i]
      BY <2>1 DEF IsTotals
    <2>4. \A i \in 0 .. m + 1 : h[i] = IF i = 0 THEN 0 ELSE h[i - 1] + f[i]
      BY <2>2, <2>3
    <2>5. IsTotals(h, f, m + 1)
      BY <2>4 DEF IsTotals
    <2>6. QED
      BY <2>5
  <1>3. T = Nat
    <2> HIDE DEF T
    <2>1. T \subseteq Nat
      BY DEF T
    <2>2. QED
      BY <1>1, <1>2, <2>1, Induct
  <1>4. QED
    BY <1>3

(* Totals satisfies its equation. *)
LEMMA TotalsEquation ==
    ASSUME NEW f, NEW n \in Nat
    PROVE  IsTotals(Totals(f, n), f, n)
  <1> DEFINE g == CHOOSE h : IsTotals(h, f, n)
  <1>1. IsTotals(g, f, n)
    BY TotalsExist
  <1>2. Totals(f, n) = g
    BY DEF Totals, IsTotals
  <1>3. QED
    BY <1>1, <1>2

(* No value sums to zero, each value adds to the sum of those before it, and sums *)
(* of natural numbers are natural numbers.                                        *)
LEMMA TotalsRule ==
    ASSUME NEW n \in Nat, NEW f, \A i \in 1 .. n : f[i] \in Nat
    PROVE  /\ Totals(f, n)[0] = 0
           /\ \A k \in 0 .. n : Totals(f, n)[k] \in Nat
           /\ \A k \in 1 .. n : Totals(f, n)[k] = Totals(f, n)[k - 1] + f[k]
  <1> DEFINE g == Totals(f, n)
  <1>1. g = [i \in 0 .. n |-> IF i = 0 THEN 0 ELSE g[i - 1] + f[i]]
    BY TotalsEquation DEF IsTotals
  <1> HIDE DEF g
  <1>2. /\ g[0] = 0
        /\ \A k \in 1 .. n : g[k] = g[k - 1] + f[k]
    BY <1>1
  <1> DEFINE T == {k \in Nat : k <= n => g[k] \in Nat}
  <1>3. 0 \in T
    BY <1>2
  <1>4. ASSUME NEW k \in T
        PROVE  k + 1 \in T
    <2>1. k + 1 <= n => g[k + 1] = g[k] + f[k + 1] /\ f[k + 1] \in Nat
      BY <1>2
    <2>2. QED
      BY <2>1
  <1>5. T = Nat
    <2> HIDE DEF T
    <2>1. T \subseteq Nat
      BY DEF T
    <2>2. QED
      BY <1>3, <1>4, <2>1, Induct
  <1>6. \A k \in 0 .. n : g[k] \in Nat
    BY <1>5
  <1>7. QED
    BY <1>2, <1>6 DEF g

-----------------------------------------------------------------------------
(* The inductive invariant.                                                       *)

Waiting == [actor : Actors, missing : Nat, cost : Nat]
Doings == {"created", "idle", "waiting", "requesting", "panicked"}

(* What the first one of a queue has collected. *)
HeldIn(q) == IF q = <<>> THEN 0 ELSE q[1].cost - q[1].missing

Typed ==
    /\ case \in Cases
    /\ tokens \in 0 .. case.rate
    /\ queue \in Seq(Waiting)
    /\ doing \in [Actors -> Doings]
    /\ watch \in [ticks : 0 .. REFILL_PER_INTERVAL_DIVIDER - 1, admitted : Nat, on : BOOLEAN]

(* The queue holds every actor that waits, once. *)
Queued ==
    /\ \A i \in DOMAIN queue : doing[queue[i].actor] = "waiting"
    /\ \A i, j \in DOMAIN queue : queue[i].actor = queue[j].actor => i = j
    /\ \A a \in Actors : doing[a] = "waiting" => \E i \in DOMAIN queue : queue[i].actor = a

(* Each one asks for what the bucket can hold and misses some of it; only the     *)
(* first has collected anything, and then the bucket is empty.                    *)
OnlyFirstCollects ==
    /\ queue # <<>> => tokens = 0
    /\ \A i \in DOMAIN queue : queue[i].missing \in 1 .. queue[i].cost /\ queue[i].cost <= case.rate
    /\ \A i \in DOMAIN queue : i > 1 => queue[i].missing = queue[i].cost

(* A token that was there at the start of the watch, or came since, is in the     *)
(* bucket, collected by the first who waits, or spent.                            *)
Paid ==
    watch.on => watch.admitted + tokens + HeldIn(queue)
                    <= case.rate + watch.ticks * Refill(case.rate)

IInv == Typed /\ Queued /\ OnlyFirstCollects /\ Paid

-----------------------------------------------------------------------------
(* Operators of the limiter.                                                      *)

(* An interval brings a natural number of tokens, at most a tenth of a rate that  *)
(* is at least ten.                                                               *)
LEMMA RefillRule ==
    ASSUME NEW rate \in Nat
    PROVE  /\ Refill(rate) \in Nat
           /\ rate >= REFILL_PER_INTERVAL_DIVIDER => REFILL_PER_INTERVAL_DIVIDER * Refill(rate) <= rate
  BY DEF Refill, REFILL_PER_INTERVAL_DIVIDER

(* What the first k asked for is what they miss and what the first has collected. *)
LEMMA Difference == ASSUME NEW x \in Nat, NEW y \in Nat PROVE x - y \in Int
  OBVIOUS

LEMMA CollectedByFirst ==
    ASSUME NEW q, Len(q) \in Nat, DOMAIN q = 1 .. Len(q),
           \A i \in 1 .. Len(q) : q[i].missing \in Nat /\ q[i].cost \in Nat,
           \A i \in 1 .. Len(q) : i > 1 => q[i].missing = q[i].cost
    PROVE  \A k \in 1 .. Len(q) :
              Totals([i \in DOMAIN q |-> q[i].cost], Len(q))[k]
                = Totals([i \in DOMAIN q |-> q[i].missing], Len(q))[k]
                    + (q[1].cost - q[1].missing)
  <1> DEFINE n == Len(q)
             fc == [i \in DOMAIN q |-> q[i].cost]
             fm == [i \in DOMAIN q |-> q[i].missing]
             C == Totals(fc, n)
             M == Totals(fm, n)
  <1>1. \A i \in 1 .. n : fc[i] = q[i].cost /\ fm[i] = q[i].missing /\ fc[i] \in Nat /\ fm[i] \in Nat
    OBVIOUS
  <1> HIDE DEF fc, fm
  <1>2. /\ C[0] = 0
        /\ \A k \in 0 .. n : C[k] \in Nat
        /\ \A k \in 1 .. n : C[k] = C[k - 1] + fc[k]
    BY <1>1, TotalsRule
  <1>3. /\ M[0] = 0
        /\ \A k \in 0 .. n : M[k] \in Nat
        /\ \A k \in 1 .. n : M[k] = M[k - 1] + fm[k]
    BY <1>1, TotalsRule
  <1> HIDE DEF C, M
  <1> DEFINE T == {k \in Nat : k + 1 <= n => C[k + 1] = M[k + 1] + (q[1].cost - q[1].missing)}
  <1>4. 0 \in T
    <2>1. 1 <= n => C[1] = q[1].cost /\ M[1] = q[1].missing
      BY <1>1, <1>2, <1>3
    <2>2. QED
      BY <2>1
  <1>5. ASSUME NEW k \in T
        PROVE  k + 1 \in T
    <2>1. SUFFICES ASSUME (k + 1) + 1 <= n
                   PROVE  C[(k + 1) + 1] = M[(k + 1) + 1] + (q[1].cost - q[1].missing)
      OBVIOUS
    <2>2. k + 2 \in 1 .. n /\ k + 1 \in 0 .. n /\ (k + 2) - 1 = k + 1 /\ k + 2 > 1 /\ 1 \in 1 .. n
      BY <2>1
    <2>3. C[k + 1] = M[k + 1] + (q[1].cost - q[1].missing)
      BY <2>1
    <2>4. C[k + 2] = C[k + 1] + fc[k + 2]
      BY <1>2, <2>2
    <2>5. M[k + 2] = M[k + 1] + fm[k + 2]
      BY <1>3, <2>2
    <2>6. fc[k + 2] = fm[k + 2] /\ fc[k + 2] \in Nat
      BY <1>1, <2>2
    <2>7. QED
      <3> DEFINE c == C[k + 1]
                 m == M[k + 1]
                 x == fc[k + 2]
                 d == q[1].cost - q[1].missing
      <3>1. /\ c \in Int /\ m \in Int /\ d \in Int /\ x \in Int /\ (k + 1) + 1 = k + 2
            /\ C[k + 2] = c + x /\ M[k + 2] = m + x /\ c = m + d
        <4>1. c \in Int /\ m \in Int
          BY <1>2, <1>3, <2>2
        <4>2. d \in Int
          <5>1. q[1].cost \in Nat /\ q[1].missing \in Nat
            BY <2>2
          <5>2. QED
            BY <5>1, Difference
        <4>3. x \in Int /\ C[k + 2] = c + x /\ M[k + 2] = m + x /\ c = m + d
          BY <2>3, <2>4, <2>5, <2>6
        <4>4. (k + 1) + 1 = k + 2
          OBVIOUS
        <4>5. QED
          BY <4>1, <4>2, <4>3, <4>4
      <3> HIDE DEF c, m, x, d
      <3>2. c + x = (m + x) + d
        BY <3>1
      <3>3. QED
        BY <3>1, <3>2 DEF d
  <1>6. T = Nat
    <2> HIDE DEF T
    <2>1. T \subseteq Nat
      BY DEF T
    <2>2. QED
      BY <1>4, <1>5, <2>1, Induct
  <1>7. ASSUME NEW k \in 1 .. n
        PROVE  C[k] = M[k] + (q[1].cost - q[1].missing)
    <2>1. k - 1 \in Nat /\ (k - 1) + 1 = k /\ k <= n
      OBVIOUS
    <2>2. k - 1 \in T
      BY <1>6, <2>1
    <2>3. (k - 1) + 1 <= n => C[(k - 1) + 1] = M[(k - 1) + 1] + (q[1].cost - q[1].missing)
      BY <2>2
    <2>4. QED
      BY <2>1, <2>3
  <1>8. QED
    BY <1>7 DEF C, M, fc, fm

-----------------------------------------------------------------------------
(* Every step preserves the invariant.                                            *)

(* The elements of a queue are typed. *)
LEMMA QueueElements ==
    ASSUME NEW q \in Seq(Waiting)
    PROVE  /\ Len(q) \in Nat /\ DOMAIN q = 1 .. Len(q)
           /\ q # <<>> => 1 \in 1 .. Len(q)
           /\ \A i \in 1 .. Len(q) :
                 q[i].actor \in Actors /\ q[i].missing \in Nat /\ q[i].cost \in Nat
  <1> DEFINE W == Waiting
  <1>1. \A e \in W : e.actor \in Actors /\ e.missing \in Nat /\ e.cost \in Nat
    BY DEF Waiting
  <1>2. q \in Seq(W)
    OBVIOUS
  <1> HIDE DEF W
  <1>3. Len(q) \in Nat /\ DOMAIN q = 1 .. Len(q) /\ (\A i \in 1 .. Len(q) : q[i] \in W) /\ (q # <<>> => 1 \in 1 .. Len(q))
    BY <1>2
  <1>4. QED
    BY <1>1, <1>3

(* What the first has collected is a number. *)
LEMMA HeldIsNumber ==
    ASSUME NEW q \in Seq(Waiting)
    PROVE  HeldIn(q) \in Int
  <1>1. CASE q = <<>>
    BY <1>1 DEF HeldIn
  <1>2. CASE q # <<>>
    <2>1. q[1].cost \in Nat /\ q[1].missing \in Nat
      BY <1>2, QueueElements
    <2>2. QED
      BY <1>2, <2>1 DEF HeldIn
  <1>3. QED
    BY <1>1, <1>2

LEMMA InitInv ==
    StorageInit => IInv
  <1> SUFFICES ASSUME StorageInit PROVE IInv
    OBVIOUS
  <1>1. case.rate \in Nat
    BY StorageAssumption DEF StorageInit
  <1>2. watch \in [ticks : 0 .. REFILL_PER_INTERVAL_DIVIDER - 1, admitted : Nat, on : BOOLEAN]
    BY DEF StorageInit, Off, REFILL_PER_INTERVAL_DIVIDER
  <1>3. Typed
    BY <1>1, <1>2 DEF StorageInit, Typed, Doings
  <1>4. Queued /\ OnlyFirstCollects
    BY DEF StorageInit, Queued, OnlyFirstCollects
  <1>5. Paid
    BY DEF StorageInit, Off, Paid
  <1>6. QED
    BY <1>3, <1>4, <1>5 DEF IInv

(* An actor that gets what it asks for at once. *)
LEMMA GrantedInv ==
    ASSUME IInv, NEW a \in Actors, NEW n \in Nat \ {0}, doing[a] = "idle",
           tokens >= n, queue = <<>>, tokens' = tokens - n,
           doing' = [doing EXCEPT ![a] = Sent], Admitted(n), UNCHANGED <<case, client, queue>>
    PROVE  IInv'
  <1> USE DEF IInv
  <1>0. case.rate \in Nat
    BY StorageAssumption DEF Typed
  <1>1. case.rate \in Nat /\ tokens \in Nat /\ tokens <= case.rate /\ Refill(case.rate) \in Nat
    <2>1. Refill(case.rate) \in Nat
      BY <1>0, RefillRule
    <2>2. QED
      BY <1>0, <2>1 DEF Typed
  <1>2. tokens' \in 0 .. case'.rate
    BY <1>1
  <1>3. doing' \in [Actors -> Doings]
    BY DEF Typed, Doings, Sent
  <1>4. /\ watch' \in [ticks : 0 .. REFILL_PER_INTERVAL_DIVIDER - 1, admitted : Nat, on : BOOLEAN]
        /\ watch'.on = watch.on /\ watch'.ticks = watch.ticks
        /\ watch.on => watch'.admitted = watch.admitted + n
    BY DEF Typed, Admitted
  <1>5. Typed'
    BY <1>2, <1>3, <1>4 DEF Typed
  <1>6. Queued'
    BY DEF Queued, Typed, Sent
  <1>7. OnlyFirstCollects'
    BY DEF OnlyFirstCollects
  <1>8. Paid'
    <2>1. SUFFICES ASSUME watch.on
                   PROVE  watch'.admitted + tokens' + 0 <= case.rate + watch.ticks * Refill(case.rate)
      BY <1>4 DEF Paid, HeldIn
    <2>2. watch.admitted + tokens + 0 <= case.rate + watch.ticks * Refill(case.rate)
      BY <2>1 DEF Paid, HeldIn
    <2>3. watch.admitted \in Nat /\ watch.ticks \in Nat
      BY DEF Typed
    <2> DEFINE allowed == case.rate + watch.ticks * Refill(case.rate)
    <2>4. allowed \in Nat
      BY <1>1, <2>3
    <2> HIDE DEF allowed
    <2>5. watch.admitted + tokens + 0 <= allowed
      BY <2>2 DEF allowed
    <2>6. watch'.admitted + tokens' + 0 <= allowed
      BY <1>1, <1>4, <2>1, <2>3, <2>4, <2>5
    <2>7. QED
      BY <2>6 DEF allowed
  <1>9. QED
    BY <1>5, <1>6, <1>7, <1>8

(* An actor that has to wait; the first to wait takes what is in the bucket. *)
LEMMA QueuedInv ==
    ASSUME IInv, NEW a \in Actors, NEW n \in Nat \ {0}, n <= case.rate, doing[a] = "idle",
           ~(tokens >= n /\ queue = <<>>),
           NEW had \in Nat, had = IF queue = <<>> THEN tokens ELSE 0,
           queue' = Append(queue, [actor |-> a, missing |-> n - had, cost |-> n]),
           tokens' = tokens - had,
           doing' = [doing EXCEPT ![a] = "waiting"], UNCHANGED <<case, client, watch>>
    PROVE  IInv'
  <1> USE DEF IInv
  <1> DEFINE e == [actor |-> a, missing |-> n - had, cost |-> n]
  <1>1. case.rate \in Nat /\ tokens \in Nat /\ tokens <= case.rate
    BY StorageAssumption DEF Typed
  <1>2. tokens' = 0 /\ had < n
    BY <1>1 DEF OnlyFirstCollects
  <1>3. e \in Waiting /\ e.actor = a /\ e.cost = n /\ e.missing = n - had /\ e.missing \in 1 .. n
    BY <1>2 DEF Waiting
  <1>4. queue \in Seq(Waiting) /\ queue' = Append(queue, e)
    BY DEF Typed
  <1> HIDE DEF e
  <1>5. /\ queue' \in Seq(Waiting)
        /\ Len(queue') = Len(queue) + 1 /\ Len(queue) \in Nat
        /\ DOMAIN queue = 1 .. Len(queue) /\ DOMAIN queue' = 1 .. Len(queue) + 1
        /\ \A i \in 1 .. Len(queue) : queue'[i] = queue[i]
        /\ queue'[Len(queue) + 1] = e
    <2> HIDE DEF IInv
    <2> DEFINE W == Waiting
    <2> HIDE DEF W
    <2>1. e \in W /\ queue \in Seq(W)
      BY <1>3, <1>4 DEF W
    <2>2. /\ queue' \in Seq(W)
          /\ Len(queue') = Len(queue) + 1 /\ Len(queue) \in Nat
          /\ DOMAIN queue = 1 .. Len(queue) /\ DOMAIN queue' = 1 .. Len(queue) + 1
          /\ \A i \in 1 .. Len(queue) : queue'[i] = queue[i]
          /\ queue'[Len(queue) + 1] = e
      BY <1>4, <2>1
    <2>3. QED
      BY <2>2 DEF W
  <1>6. Typed'
    BY <1>1, <1>2, <1>5 DEF Typed, Doings
  <1>7. Queued'
    <2>1. \A i \in 1 .. Len(queue) : queue[i].actor # a /\ queue[i].actor \in Actors
      <3>1. \A i \in 1 .. Len(queue) : queue[i].actor \in Actors
        BY <1>4, QueueElements
      <3>2. \A i \in 1 .. Len(queue) : doing[queue[i].actor] = "waiting"
        BY <1>5 DEF Queued
      <3>3. QED
        BY <3>1, <3>2
    <2>2. \A i \in 1 .. Len(queue) + 1 : doing'[queue'[i].actor] = "waiting"
      BY <1>3, <1>5, <2>1 DEF Queued, Typed
    <2>3. \A i, j \in 1 .. Len(queue) + 1 : queue'[i].actor = queue'[j].actor => i = j
      <3>1. TAKE i, j \in 1 .. Len(queue) + 1
      <3>2. CASE i <= Len(queue) /\ j <= Len(queue)
        <4>1. i \in DOMAIN queue /\ j \in DOMAIN queue /\ queue'[i] = queue[i] /\ queue'[j] = queue[j]
          BY <1>5, <3>2
        <4>2. QED
          BY <4>1 DEF Queued
      <3>3. CASE i = Len(queue) + 1 /\ j <= Len(queue)
        BY <1>3, <1>5, <2>1, <3>3
      <3>4. CASE i <= Len(queue) /\ j = Len(queue) + 1
        BY <1>3, <1>5, <2>1, <3>4
      <3>5. QED
        BY <1>5, <3>2, <3>3, <3>4
    <2>4. \A b \in Actors : doing'[b] = "waiting" => \E i \in 1 .. Len(queue) + 1 : queue'[i].actor = b
      <3>1. SUFFICES ASSUME NEW b \in Actors, doing'[b] = "waiting"
                     PROVE  \E i \in 1 .. Len(queue) + 1 : queue'[i].actor = b
        OBVIOUS
      <3>2. CASE b = a
        BY <1>3, <1>5, <3>2
      <3>3. CASE b # a
        <4>1. PICK i \in 1 .. Len(queue) : queue[i].actor = b
          BY <1>5, <3>1, <3>3 DEF Queued, Typed
        <4>2. i \in 1 .. Len(queue) + 1 /\ queue'[i].actor = b
          BY <1>5, <4>1
        <4>3. QED
          BY <4>2
      <3>4. QED
        BY <3>2, <3>3
    <2>5. QED
      BY <1>5, <2>2, <2>3, <2>4 DEF Queued
  <1>8. OnlyFirstCollects'
    <2>1. \A i \in 1 .. Len(queue) + 1 : queue'[i].missing \in 1 .. queue'[i].cost /\ queue'[i].cost <= case.rate
      BY <1>3, <1>5 DEF OnlyFirstCollects
    <2>2. Len(queue) + 1 > 1 => had = 0
      BY <1>4
    <2>3. \A i \in 1 .. Len(queue) + 1 : i > 1 => queue'[i].missing = queue'[i].cost
      <3>1. ASSUME NEW i \in 1 .. Len(queue), i > 1
            PROVE  queue'[i].missing = queue'[i].cost
        BY <1>5, <3>1 DEF OnlyFirstCollects
      <3>2. Len(queue) + 1 > 1 => e.missing = e.cost
        BY <1>3, <2>2
      <3>3. QED
        BY <1>5, <3>1, <3>2
    <2>4. QED
      BY <1>2, <1>5, <2>1, <2>3 DEF OnlyFirstCollects
  <1>9. Paid'
    <2>1. queue' # <<>> /\ HeldIn(queue') = queue'[1].cost - queue'[1].missing
      BY <1>5 DEF HeldIn
    <2>2. tokens + HeldIn(queue) = HeldIn(queue')
      <3>1. CASE queue = <<>>
        BY <1>1, <1>3, <1>5, <2>1, <3>1 DEF HeldIn
      <3>2. CASE queue # <<>>
        <4>1. 1 \in 1 .. Len(queue)
          BY <1>4, <1>5, <3>2
        <4>2. queue'[1] = queue[1] /\ tokens = 0
          BY <1>5, <3>2, <4>1 DEF OnlyFirstCollects
        <4>3. queue[1].cost \in Nat /\ queue[1].missing \in Nat
          BY <1>4, <4>1, QueueElements
        <4>4. QED
          BY <2>1, <3>2, <4>2, <4>3 DEF HeldIn
      <3>3. QED
        BY <3>1, <3>2
    <2>3. HeldIn(queue) \in Int /\ watch.admitted \in Nat
      BY <1>4, HeldIsNumber DEF Typed
    <2>4. watch.admitted + tokens + HeldIn(queue) = watch.admitted + tokens' + HeldIn(queue')
      BY <1>1, <1>2, <2>2, <2>3
    <2>5. QED
      BY <2>4 DEF Paid
  <1>10. QED
    BY <1>6, <1>7, <1>8, <1>9

(* Who waits may miss another number of tokens. *)
LEMMA MissingLess ==
    ASSUME NEW e \in Waiting, NEW m \in Nat
    PROVE  LET e2 == [e EXCEPT !.missing = m]
           IN  e2 \in Waiting /\ e2.actor = e.actor /\ e2.cost = e.cost /\ e2.missing = m
  BY DEF Waiting

(* The place i after the first k of l. *)
LEMMA PlaceRule ==
    ASSUME NEW l \in Nat, NEW k \in 0 .. l
    PROVE  \A i \in 1 .. l - k : /\ i \in 1 .. l - (k + 1) + 1 /\ (k + 1) + i - 1 = k + i
                                 /\ k + i \in 1 .. l
  OBVIOUS

(* The first of a queue gets left more tokens. *)
GivenTo(q, left) == [q EXCEPT ![1].missing = @ - left]

(* The queue after its first k were served, and left more tokens given to the     *)
(* next.                                                                          *)
Remaining(q, k, left) ==
    LET rest == SubSeq(q, k + 1, Len(q)) IN IF rest # <<>> THEN GivenTo(rest, left) ELSE rest

(* The others keep their place and what they asked for. *)
KeptPlaces(q, k, left, q2) ==
    /\ q2 \in Seq(Waiting) /\ Len(q2) = Len(q) - k
    /\ q2 # <<>> <=> k < Len(q)
    /\ SubSeq(q, k + 1, Len(q)) # <<>> <=> k < Len(q)
    /\ \A i \in 1 .. Len(q) - k :
          /\ q2[i].actor = q[k + i].actor /\ q2[i].cost = q[k + i].cost
          /\ q2[i].missing = q[k + i].missing - (IF i = 1 THEN left ELSE 0)

LEMMA RestOfQueue ==
    ASSUME NEW q \in Seq(Waiting), NEW k \in 0 .. Len(q), NEW left \in Nat, NEW q2,
           k < Len(q) => q[k + 1].missing > left,
           q2 = Remaining(q, k, left)
    PROVE  KeptPlaces(q, k, left, q2)
  <1> DEFINE rest == SubSeq(q, k + 1, Len(q))
             n == Len(q) - k
             W == Waiting
  <1>1. /\ Len(q) \in Nat /\ n \in Nat
        /\ \A i \in 1 .. Len(q) : q[i] \in Waiting
        /\ \A i \in 1 .. Len(q) : q[i].actor \in Actors /\ q[i].missing \in Nat /\ q[i].cost \in Nat
    <2>1. \A i \in 1 .. Len(q) : q[i].actor \in Actors /\ q[i].missing \in Nat /\ q[i].cost \in Nat
      BY QueueElements
    <2>2. q \in Seq(W)
      OBVIOUS
    <2> HIDE DEF W
    <2>3. Len(q) \in Nat /\ n \in Nat /\ \A i \in 1 .. Len(q) : q[i] \in W
      BY <2>2
    <2>4. QED
      BY <2>1, <2>3 DEF W
  <1>2. /\ rest \in Seq(Waiting) /\ Len(rest) = n /\ DOMAIN rest = 1 .. n
        /\ \A i \in 1 .. n : rest[i] = q[k + i] /\ k + i \in 1 .. Len(q)
        /\ rest # <<>> <=> k < Len(q)
    <2>1. q \in Seq(W)
      OBVIOUS
    <2> HIDE DEF W
    <2>2. \A i \in k + 1 .. Len(q) : q[i] \in W
      BY <1>1 DEF W
    <2>3. k + 1 \in Int /\ Len(q) \in Int
      BY <1>1
    <2>4. /\ rest \in Seq(W)
          /\ Len(rest) = IF k + 1 <= Len(q) THEN Len(q) - (k + 1) + 1 ELSE 0
          /\ \A i \in 1 .. Len(q) - (k + 1) + 1 : rest[i] = q[(k + 1) + i - 1]
      BY <2>2, <2>3, SubSeqProperties
    <2> HIDE DEF rest
    <2>5. Len(rest) = n
      BY <1>1, <2>4
    <2>6. \A i \in 1 .. n : i \in 1 .. Len(q) - (k + 1) + 1 /\ (k + 1) + i - 1 = k + i /\ k + i \in 1 .. Len(q)
      BY <1>1, PlaceRule
    <2>7. \A i \in 1 .. n : rest[i] = q[k + i] /\ k + i \in 1 .. Len(q)
      BY <2>4, <2>6
    <2>8. rest # <<>> <=> n # 0
      BY <2>4, <2>5
    <2>9. n # 0 <=> k < Len(q)
      BY <1>1
    <2>10. QED
      <3>1. DOMAIN rest = 1 .. Len(rest)
        BY <2>4
      <3>2. QED
        BY <2>4, <2>5, <2>7, <2>8, <2>9, <3>1 DEF W
  <1>3. q2 = IF rest # <<>> THEN GivenTo(rest, left) ELSE rest
    BY DEF Remaining
  <1> HIDE DEF rest, n
  <1>4. CASE k < Len(q)
    <2>1. 1 \in 1 .. n /\ rest # <<>> /\ k + 1 \in 1 .. Len(q) /\ rest[1] = q[k + 1]
      <3>1. n >= 1
        BY <1>1, <1>4 DEF n
      <3>2. 1 \in 1 .. n
        BY <1>1, <3>1
      <3>3. QED
        BY <1>2, <1>4, <3>2
    <2> DEFINE first == [rest[1] EXCEPT !.missing = rest[1].missing - left]
    <2>2. rest[1] \in Waiting /\ rest[1].missing > left /\ rest[1].missing \in Nat
      BY <1>1, <1>4, <2>1
    <2>3. /\ first \in Waiting /\ first.actor = rest[1].actor /\ first.cost = rest[1].cost
          /\ first.missing = rest[1].missing - left
      <3>1. rest[1].missing - left \in Nat
        BY <2>2
      <3>2. QED
        BY <2>2, <3>1, MissingLess
    <2>4. q2 = [rest EXCEPT ![1] = first]
      BY <1>3, <2>1 DEF GivenTo
    <2> HIDE DEF first, W
    <2>5. /\ q2 \in Seq(W) /\ Len(q2) = n /\ q2[1] = first
          /\ \A i \in 1 .. n : i # 1 => q2[i] = rest[i]
          /\ q2 # <<>>
      <3>1. first \in W /\ rest \in Seq(W)
        BY <1>2, <2>3 DEF W
      <3>2. 1 \in 1 .. Len(rest)
        BY <1>2, <2>1
      <3>3. /\ q2 \in Seq(W) /\ Len(q2) = Len(rest)
            /\ \A j \in 1 .. Len(rest) : q2[j] = IF j = 1 THEN first ELSE rest[j]
        <4> DEFINE r == [rest EXCEPT ![1] = first]
        <4>1. /\ r \in Seq(W) /\ Len(r) = Len(rest)
              /\ \A j \in 1 .. Len(rest) : r[j] = IF j = 1 THEN first ELSE rest[j]
          BY <3>1, <3>2, ExceptSeq
        <4>2. q2 = r
          BY <2>4
        <4> HIDE DEF r
        <4>3. QED
          BY <4>1, <4>2
      <3>4. Len(q2) # 0
        BY <1>2, <2>1, <3>3
      <3>5. q2 # <<>>
        BY <3>4
      <3>6. QED
        BY <1>2, <2>1, <3>3, <3>5
    <2>6. ASSUME NEW i \in 1 .. n
          PROVE  /\ q2[i].actor = q[k + i].actor /\ q2[i].cost = q[k + i].cost
                 /\ q2[i].missing = q[k + i].missing - (IF i = 1 THEN left ELSE 0)
      <3>1. CASE i = 1
        BY <2>1, <2>3, <2>5, <3>1
      <3>2. CASE i # 1
        <4>1. q2[i] = q[k + i] /\ q[k + i].missing \in Nat
          BY <1>1, <1>2, <2>5, <3>2
        <4>2. q[k + i].missing - 0 = q[k + i].missing
          BY <4>1
        <4>3. QED
          BY <3>2, <4>1, <4>2
      <3>3. QED
        BY <3>1, <3>2
    <2>7. QED
      BY <1>2, <1>4, <2>5, <2>6 DEF W, n, rest, KeptPlaces
  <1>5. CASE ~(k < Len(q))
    <2>1. n = 0 /\ q2 = rest
      BY <1>1, <1>2, <1>3, <1>5 DEF n
    <2>2. \A i \in 1 .. n : FALSE
      BY <2>1
    <2>3. QED
      BY <1>2, <1>5, <2>1, <2>2 DEF n, rest, KeptPlaces
  <1>6. QED
    BY <1>4, <1>5

(* What the served asked for, what stays in the bucket and what the next has      *)
(* collected is what the first had collected and what came.                       *)
(* How a refill splits the queue q at its first k waiters. *)
Splits(q, k, full, needs, costs, q2, t2) ==
    /\ needs <= full
    /\ k = 0 => needs = 0 /\ costs = 0
    /\ k > 0 => costs = needs + (q[1].cost - q[1].missing)
    /\ q2 # <<>> <=> k < Len(q)
    /\ k < Len(q) => /\ t2 = 0 /\ q2[1].cost = q[k + 1].cost
                     /\ q2[1].missing = q[k + 1].missing - (full - needs)
    /\ ~(k < Len(q)) => t2 = full - needs
    /\ \A i \in 1 .. Len(q) : i > 1 => q[i].missing = q[i].cost

LEMMA Refilled ==
    ASSUME NEW d \in Int, NEW full \in Int, NEW needs \in Int, NEW costs \in Int, costs = needs + d
    PROVE  costs + 0 + (full - needs) = d + full /\ costs + (full - needs) + 0 = d + full
  OBVIOUS

LEMMA ServedBalance ==
    ASSUME NEW q \in Seq(Waiting), NEW k \in 0 .. Len(q), NEW full \in Nat,
           NEW needs \in Nat, NEW costs \in Nat, NEW q2 \in Seq(Waiting), NEW t2,
           Splits(q, k, full, needs, costs, q2, t2)
    PROVE  costs + t2 + HeldIn(q2) = HeldIn(q) + full
  <1> USE DEF Splits
  <1>1. /\ Len(q) \in Nat /\ (q # <<>> => 1 \in 1 .. Len(q)) /\ (q = <<>> <=> Len(q) = 0)
        /\ \A i \in 1 .. Len(q) : q[i].missing \in Nat /\ q[i].cost \in Nat
    <2>1. /\ Len(q) \in Nat /\ (q # <<>> => 1 \in 1 .. Len(q))
          /\ \A i \in 1 .. Len(q) : q[i].missing \in Nat /\ q[i].cost \in Nat
      BY QueueElements
    <2>2. q = <<>> <=> Len(q) = 0
      BY <2>1
    <2>3. QED
      BY <2>1, <2>2
  <1>2. CASE k < Len(q)
    <2>1. /\ k + 1 \in 1 .. Len(q) /\ q # <<>>
          /\ q[k + 1].missing \in Nat /\ q[k + 1].cost \in Nat
          /\ q[1].missing \in Nat /\ q[1].cost \in Nat
      BY <1>1, <1>2
    <2>2. HeldIn(q2) = q2[1].cost - q2[1].missing /\ HeldIn(q) = q[1].cost - q[1].missing
      BY <1>2, <2>1 DEF HeldIn
    <2>3. HeldIn(q2) = (q[k + 1].cost - q[k + 1].missing) + (full - needs)
      BY <1>2, <2>1, <2>2
    <2>4. CASE k = 0
      BY <1>2, <2>1, <2>2, <2>3, <2>4
    <2>5. CASE k > 0
      <3>1. q[k + 1].missing = q[k + 1].cost
        BY <2>1, <2>5
      <3>2. costs = needs + (q[1].cost - q[1].missing) /\ t2 = 0
        BY <1>2, <2>5
      <3>3. HeldIn(q2) = full - needs
        BY <2>1, <2>3, <3>1
      <3>4. costs + 0 + (full - needs) = (q[1].cost - q[1].missing) + full
        <4> DEFINE d == q[1].cost - q[1].missing
        <4>1. d \in Int /\ costs = needs + d
          <5>1. q[1].cost \in Nat /\ q[1].missing \in Nat
            BY <2>1
          <5>2. d \in Int
            BY <5>1, Difference
          <5>3. QED
            BY <3>2, <5>2
        <4> HIDE DEF d
        <4>2. costs + 0 + (full - needs) = d + full
          BY <4>1, Refilled
        <4>3. QED
          BY <4>2 DEF d
      <3>5. QED
        BY <2>2, <3>2, <3>3, <3>4
    <2>6. QED
      BY <1>1, <2>4, <2>5
  <1>3. CASE ~(k < Len(q))
    <2>1. q2 = <<>> /\ HeldIn(q2) = 0 /\ k = Len(q)
      BY <1>1, <1>3 DEF HeldIn
    <2>2. CASE k = 0
      <3>1. HeldIn(q) = 0
        BY <1>1, <2>1, <2>2 DEF HeldIn
      <3>2. QED
        BY <1>3, <2>1, <2>2, <3>1
    <2>3. CASE k > 0
      <3>1. q # <<>> /\ 1 \in 1 .. Len(q)
        BY <1>1, <2>1, <2>3
      <3>2. HeldIn(q) = q[1].cost - q[1].missing /\ q[1].missing \in Nat /\ q[1].cost \in Nat
        BY <1>1, <3>1 DEF HeldIn
      <3>3. costs = needs + (q[1].cost - q[1].missing) /\ t2 = full - needs
        BY <1>3, <2>3
      <3>4. costs + (full - needs) + 0 = (q[1].cost - q[1].missing) + full
        <4> DEFINE d == q[1].cost - q[1].missing
        <4>1. d \in Int /\ costs = needs + d
          <5>1. d \in Int
            BY <3>2, Difference
          <5>2. QED
            BY <3>3, <5>1
        <4> HIDE DEF d
        <4>2. costs + (full - needs) + 0 = d + full
          BY <4>1, Refilled
        <4>3. QED
          BY <4>2 DEF d
      <3>5. QED
        BY <2>1, <3>2, <3>3, <3>4
    <2>4. QED
      BY <1>1, <2>2, <2>3
  <1>4. QED
    BY <1>2, <1>3

LEMMA OneMore ==
    ASSUME NEW t \in Nat, NEW r \in Nat
    PROVE  t * r \in Nat /\ (t + 1) * r = t * r + r
  OBVIOUS

LEMMA Regroup ==
    ASSUME NEW a \in Int, NEW c \in Int, NEW t2 \in Int, NEW h2 \in Int, NEW h \in Int, NEW f \in Int,
           c + t2 + h2 = h + f
    PROVE  (a + c) + t2 + h2 = a + h + f
  OBVIOUS

LEMMA RegroupBound ==
    ASSUME NEW a \in Int, NEW t \in Int, NEW h \in Int, NEW f \in Int, NEW r \in Int, NEW e \in Int,
           NEW c \in Int, a + t + h <= c + e, f <= t + r
    PROVE  a + h + f <= c + (e + r)
  OBVIOUS

(* An interval passes. *)
LEMMA TickInv ==
    ASSUME IInv, Tick
    PROVE  IInv'
  <1> DEFINE full == IF tokens + Refill(case.rate) > case.rate THEN case.rate
                     ELSE tokens + Refill(case.rate)
  <1>1. PICK k \in 0 .. Len(queue) :
           Needs(k) <= full /\ (k < Len(queue) => Needs(k + 1) > full) /\ Serve(full, k)
    BY DEF Tick
  <1>1a. case' = case
    BY DEF Tick
  <1>2. case.rate \in Nat /\ queue \in Seq(Waiting) /\ tokens \in 0 .. case.rate
    BY StorageAssumption DEF IInv, Typed
  <1>3. full \in Nat /\ full <= case.rate /\ full <= tokens + Refill(case.rate) /\ Refill(case.rate) \in Nat
    <2>1. Refill(case.rate) \in Nat
      BY <1>2, RefillRule
    <2>2. QED
      BY <1>2, <2>1
  <1> HIDE DEF full
  <1>4. /\ Len(queue) \in Nat /\ DOMAIN queue = 1 .. Len(queue)
        /\ \A i \in 1 .. Len(queue) :
             queue[i].actor \in Actors /\ queue[i].missing \in Nat /\ queue[i].cost \in Nat
    BY <1>2, QueueElements
  <1>5. /\ \A i \in 1 .. Len(queue) : queue[i].missing \in 1 .. queue[i].cost /\ queue[i].cost <= case.rate
        /\ \A i \in 1 .. Len(queue) : i > 1 => queue[i].missing = queue[i].cost
    BY <1>4 DEF IInv, OnlyFirstCollects
  <1> DEFINE fm == [i \in DOMAIN queue |-> queue[i].missing]
             fc == [i \in DOMAIN queue |-> queue[i].cost]
  <1>6. \A i \in 1 .. Len(queue) : fm[i] = queue[i].missing /\ fm[i] \in Nat /\ fc[i] \in Nat
    BY <1>4
  <1>7. /\ Needs(0) = 0 /\ (\A j \in 0 .. Len(queue) : Needs(j) \in Nat)
        /\ \A j \in 1 .. Len(queue) : Needs(j) = Needs(j - 1) + queue[j].missing
    <2> HIDE DEF fm
    <2>1. /\ Totals(fm, Len(queue))[0] = 0
          /\ \A j \in 0 .. Len(queue) : Totals(fm, Len(queue))[j] \in Nat
          /\ \A j \in 1 .. Len(queue) : Totals(fm, Len(queue))[j] = Totals(fm, Len(queue))[j - 1] + fm[j]
      BY <1>4, <1>6, TotalsRule
    <2>2. \A j : Needs(j) = Totals(fm, Len(queue))[j]
      BY DEF Needs, fm
    <2>3. QED
      BY <1>6, <2>1, <2>2
  <1>8. Costs(0) = 0 /\ \A j \in 0 .. Len(queue) : Costs(j) \in Nat
    <2> HIDE DEF fc
    <2>1. /\ Totals(fc, Len(queue))[0] = 0
          /\ \A j \in 0 .. Len(queue) : Totals(fc, Len(queue))[j] \in Nat
      BY <1>4, <1>6, TotalsRule
    <2>2. \A j : Costs(j) = Totals(fc, Len(queue))[j]
      BY DEF Costs, fc
    <2>3. QED
      BY <2>1, <2>2
  <1>9. \A j \in 1 .. Len(queue) : Costs(j) = Needs(j) + (queue[1].cost - queue[1].missing)
    BY <1>4, <1>5, CollectedByFirst DEF Costs, Needs
  <1> DEFINE left == full - Needs(k)
             rest == SubSeq(queue, k + 1, Len(queue))
  <1>10. left \in Nat /\ Needs(k) \in Nat /\ Costs(k) \in Nat /\ left <= full
    <2>1. Needs(k) <= full
      BY <1>1
    <2>2. QED
      BY <1>3, <1>7, <1>8, <2>1
  <1>11. k < Len(queue) => queue[k + 1].missing > left
    <2>1. k < Len(queue) => Needs(k + 1) > full /\ Needs(k + 1) = Needs(k) + queue[k + 1].missing
      BY <1>1, <1>4, <1>7
    <2>2. QED
      BY <1>3, <1>4, <1>10, <2>1
  <1>12. /\ queue' = IF rest # <<>> THEN GivenTo(rest, left) ELSE rest
         /\ tokens' = IF rest # <<>> THEN 0 ELSE left
    BY <1>1 DEF Serve, Fair, GivenTo
  <1>13. /\ queue' \in Seq(Waiting) /\ Len(queue') = Len(queue) - k
         /\ queue' # <<>> <=> k < Len(queue)
         /\ rest # <<>> <=> k < Len(queue)
         /\ \A i \in 1 .. Len(queue) - k :
               /\ queue'[i].actor = queue[k + i].actor /\ queue'[i].cost = queue[k + i].cost
               /\ queue'[i].missing = queue[k + i].missing - (IF i = 1 THEN left ELSE 0)
    <2> HIDE DEF left
    <2>1. queue' = Remaining(queue, k, left)
      BY <1>12 DEF Remaining
    <2>2. left \in Nat
      BY <1>10
    <2>3. KeptPlaces(queue, k, left, queue')
      BY <1>2, <1>11, <2>1, <2>2, RestOfQueue
    <2>4. QED
      BY <2>3 DEF KeptPlaces
  <1>13a. left = full - Needs(k)
    OBVIOUS
  <1> HIDE DEF rest, left
  <1>14. /\ DOMAIN queue' = 1 .. Len(queue) - k
         /\ \A i \in 1 .. Len(queue) - k : k + i \in 1 .. Len(queue)
    <2>1. DOMAIN queue' = 1 .. Len(queue')
      BY <1>13, QueueElements
    <2>2. \A i \in 1 .. Len(queue) - k : k + i \in 1 .. Len(queue)
      BY <1>4, PlaceRule
    <2>3. QED
      BY <1>13, <2>1, <2>2
  <1>15. doing' = [a \in Actors |-> IF \E i \in 1 .. k : queue[i].actor = a THEN Sent ELSE doing[a]]
    BY <1>1 DEF Serve
  <1>16. watch' = IF watch.on /\ watch.ticks < REFILL_PER_INTERVAL_DIVIDER - 1
                  THEN [ticks |-> watch.ticks + 1, admitted |-> watch.admitted + Costs(k), on |-> TRUE]
                  ELSE Off
    BY <1>1 DEF Serve
  <1>17. watch \in [ticks : 0 .. REFILL_PER_INTERVAL_DIVIDER - 1, admitted : Nat, on : BOOLEAN]
    BY DEF IInv, Typed
  <1>18. /\ watch' \in [ticks : 0 .. REFILL_PER_INTERVAL_DIVIDER - 1, admitted : Nat, on : BOOLEAN]
         /\ watch'.on => /\ watch.on /\ watch'.ticks = watch.ticks + 1
                         /\ watch'.admitted = watch.admitted + Costs(k)
    <2>1. CASE watch.on /\ watch.ticks < REFILL_PER_INTERVAL_DIVIDER - 1
      <3> DEFINE t == watch.ticks + 1
                 a == watch.admitted + Costs(k)
      <3>1. watch.ticks \in 0 .. REFILL_PER_INTERVAL_DIVIDER - 1 /\ watch.admitted \in Nat /\ Costs(k) \in Nat
        BY <1>10, <1>17
      <3>2. t \in 0 .. REFILL_PER_INTERVAL_DIVIDER - 1 /\ a \in Nat
        <4>1. t \in 0 .. REFILL_PER_INTERVAL_DIVIDER - 1
          BY <2>1, <3>1 DEF REFILL_PER_INTERVAL_DIVIDER
        <4>2. a \in Nat
          BY <3>1
        <4>3. QED
          BY <4>1, <4>2
      <3>3. watch' = [ticks |-> t, admitted |-> a, on |-> TRUE]
        BY <1>16, <2>1
      <3> HIDE DEF t, a
      <3>4. watch' \in [ticks : 0 .. REFILL_PER_INTERVAL_DIVIDER - 1, admitted : Nat, on : BOOLEAN]
            /\ watch'.ticks = t /\ watch'.admitted = a
        BY <3>2, <3>3
      <3>5. QED
        BY <2>1, <3>4 DEF t, a
    <2>2. CASE ~(watch.on /\ watch.ticks < REFILL_PER_INTERVAL_DIVIDER - 1)
      BY <1>16, <2>2 DEF Off, REFILL_PER_INTERVAL_DIVIDER
    <2>3. QED
      BY <2>1, <2>2
  <1>19. Typed'
    <2>1. tokens' \in 0 .. case'.rate
      BY <1>1a, <1>2, <1>3, <1>7, <1>10, <1>12
    <2>2. doing' \in [Actors -> Doings]
      BY <1>15 DEF IInv, Typed, Doings, Sent
    <2>3. case' \in Cases
      BY <1>1a DEF IInv, Typed
    <2>4. QED
      BY <1>13, <1>18, <2>1, <2>2, <2>3 DEF Typed
  <1>20. Queued'
    <2>1. /\ \A i \in 1 .. Len(queue) : doing[queue[i].actor] = "waiting"
          /\ \A i, j \in 1 .. Len(queue) : queue[i].actor = queue[j].actor => i = j
          /\ \A a \in Actors : doing[a] = "waiting" => \E i \in 1 .. Len(queue) : queue[i].actor = a
      BY <1>4 DEF IInv, Queued
    <2>2. \A i \in 1 .. Len(queue) - k : doing'[queue'[i].actor] = "waiting"
      <3>1. TAKE i \in 1 .. Len(queue) - k
      <3>2. k + i \in 1 .. Len(queue) /\ queue'[i].actor = queue[k + i].actor
        BY <1>13, <1>14
      <3>3. ~ \E j \in 1 .. k : queue[j].actor = queue[k + i].actor
        <4>1. ASSUME NEW j \in 1 .. k, queue[j].actor = queue[k + i].actor
              PROVE  FALSE
          <5>1. j \in 1 .. Len(queue) /\ j # k + i
            BY <1>4
          <5>2. QED
            BY <2>1, <3>2, <4>1, <5>1
        <4>2. QED
          BY <4>1
      <3>4. QED
        BY <1>4, <1>15, <2>1, <3>2, <3>3
    <2>3. \A i, j \in 1 .. Len(queue) - k : queue'[i].actor = queue'[j].actor => i = j
      <3>1. TAKE i, j \in 1 .. Len(queue) - k
      <3>2. HAVE queue'[i].actor = queue'[j].actor
      <3>3. k + i = k + j
        BY <1>13, <1>14, <2>1, <3>2
      <3>4. QED
        BY <1>4, <3>3
    <2>4. ASSUME NEW a \in Actors, doing'[a] = "waiting"
          PROVE  \E i \in 1 .. Len(queue) - k : queue'[i].actor = a
      <3>1. doing[a] = "waiting" /\ ~ \E i \in 1 .. k : queue[i].actor = a
        BY <1>15, <2>4 DEF Sent
      <3>2. PICK i \in 1 .. Len(queue) : queue[i].actor = a
        BY <2>1, <3>1
      <3>3. ~(i \in 1 .. k)
        BY <3>1, <3>2
      <3>4. i - k \in 1 .. Len(queue) - k /\ k + (i - k) = i
        BY <1>4, <3>3
      <3>5. queue'[i - k].actor = a
        BY <1>13, <3>2, <3>4
      <3>6. QED
        BY <3>4, <3>5
    <2>5. QED
      BY <1>14, <2>2, <2>3, <2>4 DEF Queued
  <1>21. OnlyFirstCollects'
    <2>1. queue' # <<>> => tokens' = 0
      BY <1>12, <1>13
    <2>2. ASSUME NEW i \in 1 .. Len(queue) - k
          PROVE  /\ queue'[i].missing \in 1 .. queue'[i].cost /\ queue'[i].cost <= case'.rate
                 /\ i > 1 => queue'[i].missing = queue'[i].cost
      <3>1. /\ k + i \in 1 .. Len(queue) /\ queue'[i].cost = queue[k + i].cost
            /\ queue'[i].missing = queue[k + i].missing - (IF i = 1 THEN left ELSE 0)
            /\ queue[k + i].missing \in 1 .. queue[k + i].cost /\ queue[k + i].cost <= case.rate
            /\ queue[k + i].cost \in Nat
        BY <1>4, <1>5, <1>13, <1>14
      <3>2. CASE i = 1
        <4>1. queue[k + 1].missing > left
          BY <1>4, <1>11, <3>2
        <4>2. QED
          BY <1>1a, <1>10, <3>1, <3>2, <4>1
      <3>3. CASE i # 1
        <4>1. k + i > 1 /\ queue[k + i].missing = queue[k + i].cost
          BY <1>4, <1>5, <3>1, <3>3
        <4>2. queue'[i].missing = queue[k + i].missing
          BY <3>1, <3>3
        <4>3. QED
          BY <1>1a, <3>1, <4>1, <4>2
      <3>4. QED
        BY <3>2, <3>3
    <2>3. QED
      BY <1>14, <2>1, <2>2 DEF OnlyFirstCollects
  <1>22. Paid'
    <2>1. Costs(k) + tokens' + HeldIn(queue') = HeldIn(queue) + full
      <3>1. k = 0 => Needs(k) = 0 /\ Costs(k) = 0
        BY <1>7, <1>8
      <3>2. k > 0 => Costs(k) = Needs(k) + (queue[1].cost - queue[1].missing)
        BY <1>4, <1>9
      <3>3. k < Len(queue) => /\ tokens' = 0 /\ queue'[1].cost = queue[k + 1].cost
                              /\ queue'[1].missing = queue[k + 1].missing - (full - Needs(k))
        <4>1. k < Len(queue) => 1 \in 1 .. Len(queue) - k
          BY <1>4
        <4>2. QED
          BY <1>12, <1>13, <1>13a, <4>1
      <3>4. ~(k < Len(queue)) => tokens' = full - Needs(k)
        BY <1>12, <1>13, <1>13a
      <3>5. Needs(k) <= full /\ (queue' # <<>> <=> k < Len(queue))
        BY <1>1, <1>13
      <3>6. QED
        <4> DEFINE needs == Needs(k)
                   costs == Costs(k)
        <4>1. /\ needs \in Nat /\ costs \in Nat /\ queue' \in Seq(Waiting) /\ full \in Nat
              /\ needs <= full /\ (queue' # <<>> <=> k < Len(queue))
          BY <1>3, <1>10, <1>13, <3>5
        <4>2. /\ k = 0 => needs = 0 /\ costs = 0
              /\ k > 0 => costs = needs + (queue[1].cost - queue[1].missing)
          BY <3>1, <3>2
        <4>3. /\ k < Len(queue) => /\ tokens' = 0 /\ queue'[1].cost = queue[k + 1].cost
                                   /\ queue'[1].missing = queue[k + 1].missing - (full - needs)
              /\ ~(k < Len(queue)) => tokens' = full - needs
          BY <3>3, <3>4
        <4>4. \A i \in 1 .. Len(queue) : i > 1 => queue[i].missing = queue[i].cost
          BY <1>5
        <4> HIDE DEF needs, costs
        <4>5. costs + tokens' + HeldIn(queue') = HeldIn(queue) + full
          <5>1. Splits(queue, k, full, needs, costs, queue', tokens')
            BY <4>1, <4>2, <4>3, <4>4 DEF Splits
          <5>2. QED
            BY <1>2, <4>1, <5>1, ServedBalance
        <4>6. QED
          BY <4>5 DEF needs, costs
    <2>2. HeldIn(queue) \in Int /\ HeldIn(queue') \in Int
      BY <1>2, <1>13, HeldIsNumber
    <2>3. SUFFICES ASSUME watch'.on
                   PROVE  watch'.admitted + tokens' + HeldIn(queue')
                              <= case.rate + watch'.ticks * Refill(case.rate)
      BY <1>1a DEF Paid
    <2>4. /\ watch.on /\ watch'.ticks = watch.ticks + 1 /\ watch'.admitted = watch.admitted + Costs(k)
          /\ watch.ticks \in Nat /\ watch.admitted \in Nat
      BY <1>17, <1>18, <2>3
    <2> DEFINE earned == watch.ticks * Refill(case.rate)
    <2>5. earned \in Nat /\ watch'.ticks * Refill(case.rate) = earned + Refill(case.rate)
      <3>1. (watch.ticks + 1) * Refill(case.rate) = watch.ticks * Refill(case.rate) + Refill(case.rate)
        BY <1>3, <2>4, OneMore
      <3>2. watch.ticks * Refill(case.rate) \in Nat
        BY <1>3, <2>4, OneMore
      <3>3. QED
        BY <2>4, <3>1, <3>2
    <2>6. watch.admitted + tokens + HeldIn(queue) <= case.rate + earned
      BY <2>4 DEF IInv, Paid
    <2> HIDE DEF earned
    <2>7. tokens' \in Nat /\ tokens \in Nat
      BY <1>2, <1>10, <1>12
    <2>8. watch'.admitted + tokens' + HeldIn(queue') = watch.admitted + HeldIn(queue) + full
      <3>1. Costs(k) \in Int /\ tokens' \in Int /\ full \in Int /\ watch.admitted \in Int
        BY <1>3, <1>10, <2>4, <2>7
      <3>2. (watch.admitted + Costs(k)) + tokens' + HeldIn(queue') = watch.admitted + HeldIn(queue) + full
        <4> DEFINE costs == Costs(k)
                   kept == tokens'
                   heldNow == HeldIn(queue')
                   held == HeldIn(queue)
                   admitted == watch.admitted
        <4>1. /\ costs \in Int /\ kept \in Int /\ heldNow \in Int /\ held \in Int /\ admitted \in Int
              /\ full \in Int /\ costs + kept + heldNow = held + full
          BY <2>1, <2>2, <3>1
        <4> HIDE DEF costs, kept, heldNow, held, admitted
        <4>2. (admitted + costs) + kept + heldNow = admitted + held + full
          BY <4>1, Regroup
        <4>3. QED
          BY <4>2 DEF costs, kept, heldNow, held, admitted
      <3>3. QED
        BY <2>4, <3>2
    <2>9. watch.admitted + HeldIn(queue) + full <= case.rate + (earned + Refill(case.rate))
      <3>1. /\ case.rate \in Int /\ tokens \in Int /\ full \in Int /\ watch.admitted \in Int
            /\ Refill(case.rate) \in Int /\ earned \in Int /\ full <= tokens + Refill(case.rate)
        BY <1>2, <1>3, <2>4, <2>5, <2>7
      <3>2. QED
        BY <2>2, <2>6, <3>1, RegroupBound
    <2>10. QED
      BY <2>5, <2>8, <2>9
  <1>23. QED
    BY <1>19, <1>20, <1>21, <1>22 DEF IInv

(* A tenth of the rate per interval, over the intervals of a second. *)
LEMMA Tenths ==
    ASSUME NEW admitted \in Nat, NEW rate \in Nat, NEW r \in Nat, NEW ticks \in 0 .. 9,
           10 * r <= rate, admitted <= rate + ticks * r
    PROVE  admitted * 10 <= rate * (10 + ticks)
  <1>1. \A t \in 0 .. 9 : t \in {0, 1, 2, 3, 4, 5, 6, 7, 8, 9}
    OBVIOUS
  <1>2. QED
    BY <1>1

(* An actor that does not wait goes on to something other than waiting. *)
LEMMA DoesInv ==
    ASSUME IInv, NEW a \in Actors, NEW d \in Doings \ {"waiting"}, doing[a] # "waiting",
           doing' = [doing EXCEPT ![a] = d], UNCHANGED <<case, client, tokens, queue, watch>>
    PROVE  IInv'
  <1>1. Typed'
    BY DEF IInv, Typed
  <1>2. queue \in Seq(Waiting) /\ doing \in [Actors -> Doings]
    BY DEF IInv, Typed
  <1>3. \A i \in DOMAIN queue : queue[i].actor \in Actors
    BY <1>2, QueueElements
  <1>4. Queued'
    BY <1>2, <1>3 DEF IInv, Queued
  <1>5. OnlyFirstCollects' /\ Paid'
    BY DEF IInv, OnlyFirstCollects, Paid
  <1>6. QED
    BY <1>1, <1>4, <1>5 DEF IInv

LEMMA CreateInv ==
    ASSUME IInv, Create
    PROVE  IInv'
  <1>1. queue \in Seq(Waiting)
    BY DEF IInv, Typed
  <1>2. \A i \in DOMAIN queue : queue[i].actor \in Actors
    BY <1>1, QueueElements
  <1>3. \A i \in DOMAIN queue : FALSE
    BY <1>2 DEF IInv, Queued, Create
  <1>4. Typed'
    BY DEF IInv, Typed, Create, Doings
  <1>5. Queued'
    BY <1>3 DEF Queued, Create
  <1>6. OnlyFirstCollects' /\ Paid'
    BY DEF IInv, OnlyFirstCollects, Paid, Create
  <1>7. QED
    BY <1>4, <1>5, <1>6 DEF IInv

LEMMA WatchInv ==
    ASSUME IInv, Watch
    PROVE  IInv'
  <1>1. UNCHANGED <<case, client, tokens, queue, doing>>
    BY DEF Watch
  <1>2. /\ watch' \in [ticks : 0 .. REFILL_PER_INTERVAL_DIVIDER - 1, admitted : Nat, on : BOOLEAN]
        /\ watch'.admitted = 0 /\ watch'.ticks = 0
    <2>1. watch' = [ticks |-> 0, admitted |-> 0, on |-> TRUE]
      BY DEF Watch, Off
    <2>2. QED
      BY <2>1 DEF REFILL_PER_INTERVAL_DIVIDER
  <1>3. Typed' /\ Queued' /\ OnlyFirstCollects'
    BY <1>1, <1>2 DEF IInv, Typed, Queued, OnlyFirstCollects
  <1>4. case.rate \in Nat /\ tokens \in 0 .. case.rate /\ queue \in Seq(Waiting)
    BY StorageAssumption DEF IInv, Typed
  <1>5. tokens + HeldIn(queue) <= case.rate /\ HeldIn(queue) \in Int
    <2>1. CASE queue = <<>>
      BY <1>4, <2>1 DEF HeldIn
    <2>2. CASE queue # <<>>
      <3>1. 1 \in DOMAIN queue /\ queue[1].missing \in Nat /\ queue[1].cost \in Nat
        BY <1>4, <2>2, QueueElements
      <3>2. tokens = 0 /\ queue[1].missing \in 1 .. queue[1].cost /\ queue[1].cost <= case.rate
        BY <2>2, <3>1 DEF IInv, OnlyFirstCollects
      <3>3. HeldIn(queue) = queue[1].cost - queue[1].missing
        BY <2>2 DEF HeldIn
      <3>4. QED
        BY <1>4, <3>1, <3>2, <3>3
    <2>3. QED
      BY <2>1, <2>2
  <1>6. Refill(case.rate) \in Nat
    BY <1>4, RefillRule
  <1>7. 0 + tokens + HeldIn(queue) <= case.rate + 0 * Refill(case.rate)
    BY <1>4, <1>5, <1>6
  <1>8. Paid'
    BY <1>1, <1>2, <1>7 DEF Paid
  <1>9. QED
    BY <1>3, <1>8 DEF IInv

(* A request passes the limiter. *)
LEMMA ExecRateLimitInv ==
    ASSUME IInv, NEW a \in Actors, NEW n \in {1, case.batch}, ExecRateLimit(a, n)
    PROVE  IInv'
  <1>1. case \in Cases /\ case.rate \in Nat /\ tokens \in Nat
    BY StorageAssumption DEF IInv, Typed
  <1>2. doing[a] = "idle" /\ UNCHANGED <<case, client>>
    BY DEF ExecRateLimit
  <1>3. CASE ~Limited /\ doing' = [doing EXCEPT ![a] = Sent] /\ UNCHANGED <<tokens, queue, watch>>
    <2>1. Sent \in Doings \ {"waiting"}
      BY DEF Sent, Doings
    <2>2. QED
      BY <1>2, <1>3, <2>1, DoesInv
  <1>4. CASE Limited /\ Acquire(a, n)
    <2>1. n \in Nat \ {0} /\ n <= case.rate
      BY <1>1, <1>4, StorageAssumption DEF Limited, NoRate
    <2>2. CASE tokens >= n /\ queue = <<>>
      <3>1. tokens' = tokens - n /\ doing' = [doing EXCEPT ![a] = Sent] /\ Admitted(n) /\ UNCHANGED queue
        BY <1>4, <2>2 DEF Acquire, Fair
      <3>2. QED
        BY <1>2, <2>1, <2>2, <3>1, GrantedInv
    <2>3. CASE ~(tokens >= n /\ queue = <<>>)
      <3> DEFINE had == IF queue = <<>> THEN tokens ELSE 0
      <3>1. /\ queue' = Append(queue, [actor |-> a, missing |-> n - had, cost |-> n])
            /\ tokens' = tokens - had
            /\ doing' = [doing EXCEPT ![a] = "waiting"] /\ UNCHANGED watch
        BY <1>4, <2>3 DEF Acquire, Fair
      <3>2. had \in Nat /\ had = IF queue = <<>> THEN tokens ELSE 0
        BY <1>1
      <3> HIDE DEF had
      <3>3. QED
        BY <1>2, <2>1, <2>3, <3>1, <3>2, QueuedInv
    <2>4. QED
      BY <2>2, <2>3
  <1>5. QED
    BY <1>3, <1>4 DEF ExecRateLimit

LEMMA NextInv ==
    ASSUME IInv, [StorageNext]_storageVars
    PROVE  IInv'
  <1>1. "lister" \in Actors /\ Workers \subseteq Actors
    BY DEF Actors
  <1>2. CASE Create
    BY <1>2, CreateInv
  <1>3. CASE ListPage
    BY <1>1, <1>3, ExecRateLimitInv DEF ListPage
  <1>4. CASE Tick
    BY <1>4, TickInv
  <1>5. CASE Watch
    BY <1>5, WatchInv
  <1>6. ASSUME NEW w \in Workers, HeadObject(w) \/ GetObjectTagging(w) \/ DeleteObject(w)
        PROVE  IInv'
    <2>1. ExecRateLimit(w, 1) /\ w \in Actors
      BY <1>1, <1>6 DEF HeadObject, GetObjectTagging, DeleteObject
    <2>2. QED
      BY <2>1, ExecRateLimitInv
  <1>7. ASSUME NEW w \in Workers, DeleteObjects(w)
        PROVE  IInv'
    BY <1>1, <1>7, ExecRateLimitInv DEF DeleteObjects
  <1>8. ASSUME NEW w \in Workers, IsVersioningEnabled(w)
        PROVE  IInv'
    <2> DEFINE d == IF case.express THEN "idle" ELSE Sent
    <2>1. d \in Doings \ {"waiting"}
      BY DEF Sent, Doings
    <2>2. /\ doing[w] # "waiting" /\ doing' = [doing EXCEPT ![w] = d]
          /\ UNCHANGED <<case, client, tokens, queue, watch>>
      BY <1>8 DEF IsVersioningEnabled
    <2> HIDE DEF d
    <2>3. QED
      BY <1>1, <2>1, <2>2, DoesInv
  <1>9. ASSUME NEW a \in Actors, Answer(a)
        PROVE  IInv'
    <2>1. "idle" \in Doings \ {"waiting"}
      BY DEF Doings
    <2>2. /\ doing[a] # "waiting" /\ doing' = [doing EXCEPT ![a] = "idle"]
          /\ UNCHANGED <<case, client, tokens, queue, watch>>
      BY <1>9 DEF Answer
    <2>3. QED
      BY <2>1, <2>2, DoesInv
  <1>10. CASE UNCHANGED storageVars
    BY <1>10 DEF storageVars, IInv, Typed, Queued, OnlyFirstCollects, Paid
  <1>11. QED
    BY <1>2, <1>3, <1>4, <1>5, <1>6, <1>7, <1>8, <1>9, <1>10 DEF StorageNext

-----------------------------------------------------------------------------
(* The properties.                                                                *)

(* The bucket never overflows and is empty while somebody waits, and exactly      *)
(* those wait that the limiter has in its queue (storage/s3/mod.rs,               *)
(* exec_rate_limit_objects_per_sec).                                              *)
THEOREM LimiterTyped == StorageSpec => []StorageTypeOK
  <1>1. IInv => StorageTypeOK
    <2> SUFFICES ASSUME IInv PROVE StorageTypeOK
      OBVIOUS
    <2>1. queue \in Seq(Waiting) /\ doing \in [Actors -> Doings]
      BY DEF IInv, Typed
    <2>2. \A i \in DOMAIN queue : queue[i].actor \in Actors
      BY <2>1, QueueElements
    <2>3. {a \in Actors : doing[a] = "waiting"} = {queue[i].actor : i \in DOMAIN queue}
      BY <2>2 DEF IInv, Queued
    <2>4. watch.ticks \in 0 .. REFILL_PER_INTERVAL_DIVIDER /\ watch.admitted \in Nat
      BY DEF IInv, Typed, REFILL_PER_INTERVAL_DIVIDER
    <2>5. QED
      BY <2>1, <2>3, <2>4 DEF StorageTypeOK, IInv, Typed, OnlyFirstCollects, Doings
  <1>2. QED
    BY <1>1, InitInv, NextInv, PTL DEF StorageSpec

(* The rate limit of storage/mod.rs: in any second somebody watches, whatever the *)
(* workers and the lister ask for and in whatever order, no more objects are let  *)
(* through than one full bucket and the tenth of the rate each interval brings.   *)
THEOREM RateLimitHolds == StorageSpec => []PacedBound
  <1>1. IInv => PacedBound
    <2>1. SUFFICES ASSUME IInv, watch.on, case.rate >= REFILL_PER_INTERVAL_DIVIDER
                   PROVE  watch.admitted * REFILL_PER_INTERVAL_DIVIDER
                              <= case.rate * (REFILL_PER_INTERVAL_DIVIDER + watch.ticks)
      BY DEF PacedBound
    <2>2. /\ case.rate \in Nat /\ tokens \in Nat /\ queue \in Seq(Waiting)
          /\ watch.admitted \in Nat /\ watch.ticks \in 0 .. 9
      BY <2>1, StorageAssumption DEF IInv, Typed, REFILL_PER_INTERVAL_DIVIDER
    <2>3. HeldIn(queue) \in Nat
      <3>1. CASE queue = <<>>
        BY <3>1 DEF HeldIn
      <3>2. CASE queue # <<>>
        <4>1. 1 \in DOMAIN queue /\ queue[1].missing \in Nat /\ queue[1].cost \in Nat
          BY <2>2, <3>2, QueueElements
        <4>2. queue[1].missing \in 1 .. queue[1].cost
          BY <2>1, <4>1 DEF IInv, OnlyFirstCollects
        <4>3. QED
          BY <3>2, <4>1, <4>2 DEF HeldIn
      <3>3. QED
        BY <3>1, <3>2
    <2> DEFINE r == Refill(case.rate)
               rate == case.rate
               ticks == watch.ticks
               admitted == watch.admitted
    <2>4. r \in Nat /\ 10 * r <= rate
      BY <2>1, <2>2, RefillRule DEF REFILL_PER_INTERVAL_DIVIDER
    <2>5. admitted + tokens + HeldIn(queue) <= rate + ticks * r
      BY <2>1 DEF IInv, Paid
    <2>6. rate \in Nat /\ ticks \in 0 .. 9 /\ admitted \in Nat
      BY <2>2
    <2> HIDE DEF r, rate, ticks, admitted
    <2>7. ticks * r \in Nat /\ admitted <= rate + ticks * r
      <3>1. ticks * r \in Nat
        BY <2>4, <2>6
      <3>2. QED
        BY <2>2, <2>3, <2>5, <2>6, <3>1
    <2>8. admitted * 10 <= rate * (10 + ticks)
      BY <2>4, <2>6, <2>7, Tenths
    <2>9. QED
      BY <2>8 DEF REFILL_PER_INTERVAL_DIVIDER, rate, ticks, admitted
  <1>2. QED
    BY <1>1, InitInv, NextInv, PTL DEF StorageSpec

(* client_builder.rs: whatever files and profiles there are, a client that is     *)
(* given a profile finds its keys and its region in whichever of the given files  *)
(* has them, and an explicit region wins.                                         *)
THEOREM ProfileFilesRead == StorageSpec => []ProfileWired
  <1> DEFINE Built == client # NoClient => client = CreateClient(case.client)
  <1>1. StorageInit => Built
    BY DEF StorageInit
  <1>2. Built /\ [StorageNext]_storageVars => Built'
    <2> SUFFICES ASSUME Built, [StorageNext]_storageVars PROVE Built'
      OBVIOUS
    <2>1. CASE Create
      BY <2>1 DEF Create
    <2>2. CASE UNCHANGED <<case, client>>
      BY <2>2
    <2>3. Create \/ UNCHANGED <<case, client>>
      BY DEF StorageNext, storageVars, ListPage, Tick, Watch, HeadObject, GetObjectTagging, DeleteObject, DeleteObjects,
             ExecRateLimit, IsVersioningEnabled, Answer
    <2>4. QED
      BY <2>1, <2>2, <2>3
  <1>3. Built => ProfileWired
    <2> DEFINE c == case.client
               given == IF GivenFiles(c) = {} THEN DefaultFiles ELSE GivenFiles(c)
               inSome(field) ==
                   \E f \in given : c.profile \in DOMAIN Files[f] /\ Files[f][c.profile][field] # None
    <2> SUFFICES ASSUME Built, client # NoClient
                 PROVE  /\ c.region # None => client.region = {c.region}
                        /\ c.credential = "Profile" =>
                             /\ client.keys # {} <=> inSome("keys")
                             /\ c.region = None => (client.region # {} <=> inSome("region"))
      BY DEF ProfileWired
    <2>1. client.keys = LoadConfigCredential(c) /\ client.region = BuildRegionProvider(c)
      BY DEF CreateClient
    <2>2. c.region # None => client.region = {c.region}
      BY <2>1 DEF BuildRegionProvider
    <2>3. ASSUME c.credential = "Profile"
          PROVE  /\ client.keys = Lookup(ProfileFiles(c), c.profile, "keys")
                 /\ c.region = None => client.region = Lookup(ProfileFiles(c), c.profile, "region")
      BY <2>1, <2>3 DEF LoadConfigCredential, BuildRegionProvider
    <2>4. ASSUME NEW field
          PROVE  Lookup(ProfileFiles(c), c.profile, field) # {} <=> inSome(field)
      BY DEF Lookup, ProfileFiles
    <2>5. QED
      BY <2>2, <2>3, <2>4
  <1>4. QED
    BY <1>1, <1>2, <1>3, PTL DEF StorageSpec

-----------------------------------------------------------------------------
(* S3Lister. *)

USE DEF vars

-----------------------------------------------------------------------------
(* The tree of prefixes. *)

(* p is a proper prefix of q. *)
Above(p, q) == \E o \in Objects : {p, q} \subseteq Ancestors[o] /\ Depth[p] < Depth[q]

LEMMA TreeFacts ==
    /\ Root \in Prefixes /\ Depth[Root] = 1 /\ Objects \cap Prefixes = {}
    /\ \A p \in Prefixes : Depth[p] \in Nat /\ Depth[p] > 0
    /\ \A o \in Objects : Ancestors[o] \subseteq Prefixes /\ Root \in Ancestors[o]
    /\ \A o \in Objects : \A p, q \in Ancestors[o] : Depth[p] = Depth[q] => p = q
    /\ \A o \in Objects : \A q \in Ancestors[o] :
          \A d \in 1 .. Depth[q] : \E p \in Ancestors[o] : Depth[p] = d
    /\ \A o, x \in Objects : \A q \in Ancestors[o] \cap Ancestors[x] :
          \A p \in Ancestors[o] : Depth[p] <= Depth[q] => p \in Ancestors[x]
  BY S3ListerAssumption

(* A prefix is the sub-prefix of at most one other. *)
LEMMA OneParent ==
    ASSUME NEW p \in Prefixes, NEW r \in Prefixes, NEW q \in Prefixes,
           q \in SubPrefixes(p), q \in SubPrefixes(r)
    PROVE  p = r
  <1>1. PICK o \in Objects : {p, q} \subseteq Ancestors[o]
    BY DEF SubPrefixes
  <1>2. PICK x \in Objects : {r, q} \subseteq Ancestors[x]
    BY DEF SubPrefixes
  <1>3. Depth[p] = Depth[r] /\ Depth[p] <= Depth[q]
    BY TreeFacts DEF SubPrefixes
  <1>4. p \in Ancestors[x]
    BY <1>1, <1>2, <1>3, TreeFacts
  <1>5. QED
    BY <1>2, <1>3, <1>4, TreeFacts

LEMMA SubPrefixesBelow ==
    ASSUME NEW p \in Prefixes, NEW q \in SubPrefixes(p)
    PROVE  q \in Prefixes /\ q # Root /\ q # p /\ Above(p, q) /\ Depth[q] = Depth[p] + 1
  BY TreeFacts DEF SubPrefixes, Above

(* The way down from p to q starts with a sub-prefix of p. *)
LEMMA FirstStepDown ==
    ASSUME NEW p \in Prefixes, NEW q \in Prefixes, Above(p, q)
    PROVE  \E c \in SubPrefixes(p) : c = q \/ Above(c, q)
  <1>1. PICK o \in Objects : {p, q} \subseteq Ancestors[o] /\ Depth[p] < Depth[q]
    BY DEF Above
  <1>2. Depth[p] + 1 \in 1 .. Depth[q]
    BY <1>1, TreeFacts
  <1>3. PICK c \in Ancestors[o] : Depth[c] = Depth[p] + 1
    BY <1>1, <1>2, TreeFacts
  <1>4. c \in SubPrefixes(p)
    BY <1>1, <1>3, TreeFacts DEF SubPrefixes
  <1>5. CASE Depth[c] = Depth[q]
    BY <1>1, <1>3, <1>4, <1>5, TreeFacts
  <1>6. CASE Depth[c] # Depth[q]
    BY <1>1, <1>3, <1>4, <1>6, TreeFacts DEF Above
  <1>7. QED
    BY <1>5, <1>6

(* What is above a sub-prefix of p is p or above p. *)
LEMMA LastStepDown ==
    ASSUME NEW p \in Prefixes, NEW c \in SubPrefixes(p), NEW a \in Prefixes, Above(a, c)
    PROVE  a = p \/ Above(a, p)
  <1>1. PICK o \in Objects : {a, c} \subseteq Ancestors[o] /\ Depth[a] < Depth[c]
    BY DEF Above
  <1>2. PICK x \in Objects : {p, c} \subseteq Ancestors[x]
    BY DEF SubPrefixes
  <1>3. Depth[c] = Depth[p] + 1 /\ Depth[a] <= Depth[c] /\ Depth[a] <= Depth[p]
    BY <1>1, SubPrefixesBelow, TreeFacts
  <1>4. a \in Ancestors[x]
    BY <1>1, <1>2, <1>3, TreeFacts
  <1>5. QED
    BY <1>2, <1>3, <1>4, TreeFacts DEF Above

(* Every sub-prefix is below the prefix of the run. *)
LEMMA RootAbove ==
    ASSUME NEW p \in Prefixes, NEW q \in SubPrefixes(p)
    PROVE  Above(Root, q)
  BY TreeFacts DEF SubPrefixes, Above

-----------------------------------------------------------------------------
(* Which task lists which object. *)

(* The prefixes the parallel listing descends to. *)
Listable(p) == p = Root \/ (UseParallel /\ Depth[p] <= config.max_depth + 1)

LEMMA ConfigTypes ==
    ASSUME config \in Configs
    PROVE  /\ config.max_parallel_listings \in Nat /\ config.max_depth \in Nat
           /\ config.max_keys \in Nat \ {0}
  BY S3ListerAssumption DEF ConfigType

LEMMA EntryKinds ==
    ASSUME NEW p \in Prefixes
    PROVE  /\ Entries(p) \subseteq Objects \cup Prefixes
           /\ Entries(p) \cap Objects \subseteq ObjectsUnder(p)
           /\ Entries(p) \cap Prefixes \subseteq SubPrefixes(p)
           /\ Entries(p) \cap Prefixes # {} => Delimited(p)
  BY TreeFacts DEF Entries, DirectObjects, ObjectsUnder, SubPrefixes

(* An object is an entry of only one prefix the listing descends to. *)
LEMMA OneLister ==
    ASSUME config \in Configs, NEW p \in Prefixes, NEW q \in Prefixes, NEW o \in Objects,
           Listable(p), Listable(q), o \in Entries(p), o \in Entries(q)
    PROVE  p = q
  <1>1. ASSUME NEW a \in Prefixes, NEW b \in Prefixes, Listable(a), Listable(b),
               o \in Entries(a), o \in Entries(b), Depth[a] < Depth[b]
        PROVE  FALSE
    <2>1. a \in Ancestors[o] /\ b \in Ancestors[o]
      BY <1>1, EntryKinds DEF ObjectsUnder
    <2>2. b # Root
      BY <1>1, TreeFacts
    <2>3. Delimited(a)
      BY <1>1, <2>2, ConfigTypes, TreeFacts DEF Listable, Delimited
    <2>4. PICK c \in SubPrefixes(a) : c \in Ancestors[o]
      <3>1. Depth[a] + 1 \in 1 .. Depth[b]
        BY <1>1, TreeFacts
      <3>2. PICK c \in Ancestors[o] : Depth[c] = Depth[a] + 1
        BY <2>1, <3>1, TreeFacts
      <3>3. QED
        BY <2>1, <3>2, TreeFacts DEF SubPrefixes
    <2>5. o \in DirectObjects(a)
      BY <1>1, <2>3, TreeFacts DEF Entries, SubPrefixes
    <2>6. QED
      BY <2>4, <2>5 DEF DirectObjects
  <1>2. p \in Ancestors[o] /\ q \in Ancestors[o]
    BY EntryKinds DEF ObjectsUnder
  <1>3. Depth[p] = Depth[q]
    BY <1>1, TreeFacts
  <1>4. QED
    BY <1>2, <1>3, TreeFacts

(* An object under p is an entry of p or under a sub-prefix that is one. *)
LEMMA EntriesCover ==
    ASSUME NEW p \in Prefixes, NEW o \in ObjectsUnder(p)
    PROVE  o \in Entries(p) \/ \E q \in Entries(p) \cap Prefixes : o \in ObjectsUnder(q)
  <1>1. CASE Delimited(p)
    BY <1>1, TreeFacts DEF Entries, DirectObjects, ObjectsUnder, SubPrefixes
  <1>2. CASE ~Delimited(p)
    BY <1>2 DEF Entries
  <1>3. QED
    BY <1>1, <1>2

-----------------------------------------------------------------------------
(* Types. *)

LEMMA TypeInit == Init => TypeOK
  <1> SUFFICES ASSUME Init PROVE TypeOK
    OBVIOUS
  <1>1. config \in Configs /\ permits \in Nat
    BY ConfigTypes DEF Init
  <1>2. pc \in [Prefixes -> PC]
    BY DEF Init, PC
  <1>3. QED
    BY <1>1, <1>2 DEF Init, TypeOK

(* What is sent to a step's Release and Goto keeps its type. *)
LEMMA EndTypes ==
    ASSUME TypeOK, NEW p \in Prefixes, NEW l \in PC, End(p, l)
    PROVE  /\ pc' \in [Prefixes -> PC]
           /\ holders' \in SUBSET Prefixes
           /\ permits' \in Nat
  BY DEF TypeOK, End, Goto, Release

LEMMA EntriesKept ==
    ASSUME UNCHANGED config
    PROVE  /\ UseParallel' = UseParallel
           /\ \A p \in Prefixes : Entries(p)' = Entries(p) /\ Delimited(p)' = Delimited(p)
  BY DEF UseParallel, Entries, Delimited

LEMMA TaskTypes ==
    ASSUME TypeOK, NEW p \in Prefixes, TaskStep(p)
    PROVE  TypeOK'
  <1>1. CASE Loop(p)
    <2>1. CASE cancelled
      BY <1>1, <2>1, EndTypes DEF Loop, TypeOK, PC, Ended
    <2>2. CASE ~cancelled
      BY <1>1, <2>2 DEF Loop, Goto, TypeOK, PC
    <2>3. QED
      BY <2>1, <2>2
  <1>2. CASE FetchListPage(p)
    BY <1>2 DEF FetchListPage, PagesOf, Goto, TypeOK, PC
  <1>3. CASE FetchError(p) \/ MarkerError(p)
    BY <1>3, EndTypes DEF FetchError, MarkerError, TypeOK, PC, Ended
  <1>4. CASE SendListedObject(p)
    BY <1>4 DEF SendListedObject, TypeOK
  <1>5. CASE StopSending(p)
    BY <1>5, EndTypes DEF StopSending, TypeOK, PC, Ended
  <1>6. CASE PageSent(p) \/ SpawnDone(p) \/ JoinDone(p)
    BY <1>6 DEF PageSent, SpawnDone, JoinDone, Goto, TypeOK, PC
  <1>7. CASE NextSubPrefix(p)
    BY <1>7 DEF NextSubPrefix, ReleaseBeforeAcquire, Release, Goto, TypeOK, PC
  <1>8. CASE SpawnSubPrefix(p)
    BY <1>8, EntryKinds DEF SpawnSubPrefix, PermitFree, TypeOK, PC
  <1>9. CASE JoinNext(p)
    BY <1>9 DEF JoinNext, TypeOK
  <1>10. CASE JoinError(p)
    BY <1>10, EndTypes DEF JoinError, TypeOK, PC, Ended
  <1>11. CASE Abort(p)
    BY <1>11, EndTypes DEF Abort, TypeOK, PC, Ended
  <1>12. CASE Paginate(p)
    <2>1. CASE remaining[p] = {}
      BY <1>12, <2>1, EndTypes DEF Paginate, TypeOK, PC, Ended
    <2>2. CASE remaining[p] # {}
      BY <1>12, <2>2 DEF Paginate, Goto, TypeOK, PC
    <2>3. QED
      BY <2>1, <2>2
  <1>13. QED
    BY <1>1, <1>2, <1>3, <1>4, <1>5, <1>6, <1>7, <1>8, <1>9, <1>10, <1>11, <1>12 DEF TaskStep

LEMMA TypeStep == TypeOK /\ [Next]_vars => TypeOK'
  <1> SUFFICES ASSUME TypeOK, [Next]_vars PROVE TypeOK'
    OBVIOUS
  <1>1. CASE Dispatch
    BY <1>1, TreeFacts, EntryKinds DEF Dispatch, PermitFree, Goto, TypeOK, PC
  <1>2. CASE Cancel \/ DropReceiver
    BY <1>2 DEF Cancel, DropReceiver, TypeOK
  <1>3. CASE \E p \in Prefixes : TaskStep(p)
    BY <1>3, TaskTypes
  <1>4. CASE Terminated \/ UNCHANGED vars
    BY <1>4 DEF Terminated, TypeOK
  <1>5. QED
    BY <1>1, <1>2, <1>3, <1>4 DEF Next

(* Every variable keeps its type: no permit count below zero, and no page that    *)
(* holds anything but entries.                                                    *)
THEOREM ListerTypes == Spec => []TypeOK
  BY TypeInit, TypeStep, PTL DEF Spec

-----------------------------------------------------------------------------
(* The tree of tasks. *)

Started(p) == pc[p] \notin {"idle", "start"}
Running(p) == Started(p) /\ pc[p] \notin Ended

(* The listing starts at Root, and a task only after those of all prefixes above  *)
(* its own.                                                                       *)
StartedFromRoot ==
    /\ \A p \in Prefixes : pc[p] = "start" => p = Root
    /\ pc[Root] # "idle"
    /\ \A q \in Prefixes : Started(q) => q = Root \/ Above(Root, q)
    /\ \A q \in Prefixes : Started(q) =>
          \A a \in Prefixes : Above(a, q) => Started(a)
    /\ \A p \in Prefixes : Started(p) => Listable(p)

(* What a task has in hand are entries of its prefix, each in one place, and none *)
(* before it starts.                                                              *)
OwnEntries ==
    /\ \A p \in Prefixes : remaining[p] \cup objects[p] \cup subs[p] \subseteq Entries(p)
    /\ \A p \in Prefixes : remaining[p] \cap (objects[p] \cup subs[p]) = {}
    /\ \A p \in Prefixes : joinset[p] \subseteq SubPrefixes(p)
    /\ \A p \in Prefixes :
          ~Started(p) => remaining[p] = {} /\ objects[p] = {} /\ subs[p] = {} /\ joinset[p] = {}

(* A sub-prefix a task has in hand has no task yet; one it waits for has one. *)
StartedOnce ==
    /\ \A p \in Prefixes : \A q \in (remaining[p] \cup subs[p]) \cap Prefixes : pc[q] = "idle"
    /\ \A p \in Prefixes : \A q \in joinset[p] : Started(q)
    /\ \A p \in aborting : Started(p) /\ p # Root

TreeInv == TypeOK /\ StartedFromRoot /\ OwnEntries /\ StartedOnce

(* The steps that neither start a task nor touch what one has in hand. *)
InPlace ==
    /\ UNCHANGED <<config, remaining, objects, subs, sent>>
    /\ \A x \in Prefixes : joinset'[x] \subseteq joinset[x]
    /\ \A x \in Prefixes : Started(x)' <=> Started(x)
    /\ \A x \in Prefixes : pc[x] \in {"idle", "start"} => pc'[x] = pc[x]
    /\ \A x \in aborting' : x \in aborting \/ \E p \in Prefixes : x \in joinset[p]

(* What a task that ends or moves on looks like. *)
LEMMA GotoInPlace ==
    ASSUME TypeOK, NEW p \in Prefixes, NEW l \in PC \ {"idle", "start"}, Started(p), Goto(p, l)
    PROVE  /\ \A x \in Prefixes : Started(x)' <=> Started(x)
           /\ \A x \in Prefixes : pc[x] \in {"idle", "start"} => pc'[x] = pc[x]
  BY DEF TypeOK, Goto, Started

LEMMA StepKinds ==
    ASSUME TreeInv, [Next]_vars
    PROVE  \/ InPlace
           \/ Dispatch
           \/ \E p \in Prefixes : FetchListPage(p)
           \/ \E p \in Prefixes : SendListedObject(p)
           \/ \E p \in Prefixes : SpawnSubPrefix(p)
  <1> USE DEF TreeInv
  <1>0. {"list", "fetch", "send", "spawn", "acquire", "join", "page", "done", "failed", "aborted"}
           \subseteq PC \ {"idle", "start"}
    BY DEF PC, Ended
  <1>1. ASSUME NEW p \in Prefixes, Loop(p) PROVE InPlace
    <2>1. Started(p) /\ (Goto(p, "done") \/ Goto(p, "fetch"))
      BY <1>1 DEF Loop, Started, End
    <2>2. QED
      BY <1>0, <1>1, <2>1, GotoInPlace DEF Loop, InPlace
  <1>2. ASSUME NEW p \in Prefixes, FetchError(p) \/ MarkerError(p) PROVE InPlace
    <2>1. Started(p) /\ Goto(p, "failed")
      BY <1>2 DEF FetchError, MarkerError, Started, End
    <2>2. QED
      BY <1>0, <1>2, <2>1, GotoInPlace DEF FetchError, MarkerError, InPlace
  <1>3. ASSUME NEW p \in Prefixes, StopSending(p) PROVE InPlace
    <2>1. Started(p) /\ Goto(p, "done")
      BY <1>3 DEF StopSending, Started, End
    <2>2. QED
      BY <1>0, <1>3, <2>1, GotoInPlace DEF StopSending, InPlace
  <1>4. ASSUME NEW p \in Prefixes, PageSent(p) \/ SpawnDone(p) \/ JoinDone(p) PROVE InPlace
    <2>1. Started(p) /\ (Goto(p, "spawn") \/ Goto(p, "join") \/ Goto(p, "page"))
      BY <1>4 DEF PageSent, SpawnDone, JoinDone, Started
    <2>2. QED
      BY <1>0, <1>4, <2>1, GotoInPlace DEF PageSent, SpawnDone, JoinDone, InPlace
  <1>5. ASSUME NEW p \in Prefixes, NextSubPrefix(p) PROVE InPlace
    <2>1. Started(p) /\ Goto(p, "acquire")
      BY <1>5 DEF NextSubPrefix, Started
    <2>2. QED
      BY <1>0, <1>5, <2>1, GotoInPlace DEF NextSubPrefix, InPlace
  <1>6. ASSUME NEW p \in Prefixes, JoinNext(p) PROVE InPlace
    BY <1>6 DEF JoinNext, InPlace, Started, TypeOK
  <1>7. ASSUME NEW p \in Prefixes, JoinError(p) PROVE InPlace
    <2>1. Started(p) /\ Goto(p, "failed")
      BY <1>7 DEF JoinError, Started, End
    <2>2. (\A x \in Prefixes : joinset'[x] \subseteq joinset[x])
      BY <1>7 DEF JoinError, TypeOK
    <2>3. QED
      BY <1>0, <1>7, <2>1, <2>2, GotoInPlace DEF JoinError, InPlace
  <1>8. ASSUME NEW p \in Prefixes, Abort(p) PROVE InPlace
    <2>1. Started(p) /\ Goto(p, "aborted")
      BY <1>8 DEF Abort, StartedOnce, End
    <2>2. (\A x \in Prefixes : joinset'[x] \subseteq joinset[x])
      BY <1>8 DEF Abort, TypeOK
    <2>3. QED
      BY <1>0, <1>8, <2>1, <2>2, GotoInPlace DEF Abort, InPlace
  <1>9. ASSUME NEW p \in Prefixes, Paginate(p) PROVE InPlace
    <2>1. Started(p) /\ (Goto(p, "done") \/ Goto(p, "list"))
      BY <1>9 DEF Paginate, Started, End
    <2>2. QED
      BY <1>0, <1>9, <2>1, GotoInPlace DEF Paginate, InPlace
  <1>10. ASSUME Cancel \/ DropReceiver \/ Terminated \/ UNCHANGED vars PROVE InPlace
    BY <1>10 DEF Cancel, DropReceiver, Terminated, InPlace, Started
  <1>11. QED
    BY <1>1, <1>2, <1>3, <1>4, <1>5, <1>6, <1>7, <1>8, <1>9, <1>10 DEF Next, TaskStep

LEMMA ListableKept ==
    ASSUME UNCHANGED config
    PROVE  \A p \in Prefixes : Listable(p)' <=> Listable(p)
  BY EntriesKept DEF Listable

LEMMA TreeInit == Init => TreeInv
  <1> SUFFICES ASSUME Init PROVE TreeInv
    OBVIOUS
  <1>1. TypeOK
    BY TypeInit
  <1>2. \A p \in Prefixes : ~Started(p)
    BY DEF Init, Started
  <1>3. QED
    BY <1>1, <1>2, TreeFacts
    DEF TreeInv, StartedFromRoot, OwnEntries, StartedOnce, Init

LEMMA TreeInPlace ==
    ASSUME TreeInv, TypeOK', InPlace
    PROVE  TreeInv'
  <1> USE DEF TreeInv
  <1>1. StartedFromRoot'
    BY ListableKept, TreeFacts DEF StartedFromRoot, InPlace, Started
  <1>2. OwnEntries'
    BY EntriesKept DEF OwnEntries, InPlace
  <1>3. StartedOnce'
    <2>1. \A x \in Prefixes : \A q \in (remaining'[x] \cup subs'[x]) \cap Prefixes : pc'[q] = "idle"
      BY DEF StartedOnce, InPlace
    <2>2. \A x \in Prefixes : \A q \in joinset'[x] : Started(q)'
      BY DEF StartedOnce, InPlace, TypeOK
    <2>3. \A x \in aborting' : Started(x)' /\ x # Root
      BY SubPrefixesBelow DEF StartedOnce, OwnEntries, InPlace, TypeOK
    <2>4. QED
      BY <2>1, <2>2, <2>3 DEF StartedOnce
  <1>4. QED
    BY <1>1, <1>2, <1>3

LEMMA TreeDispatch ==
    ASSUME TreeInv, TypeOK', Dispatch
    PROVE  TreeInv'
  <1> USE DEF TreeInv
  <1>1. \A x \in Prefixes : ~Started(x) /\ (x # Root => pc[x] = "idle")
    <2>1. ~Started(Root)
      BY DEF Dispatch, Started
    <2>2. \A x \in Prefixes : ~Started(x)
      BY <2>1, TreeFacts DEF StartedFromRoot
    <2>3. QED
      BY <2>2 DEF StartedFromRoot, Started
  <1>2. \A x \in Prefixes : Started(x)' <=> x = Root
    BY <1>1, TreeFacts DEF Dispatch, Goto, Started, TypeOK
  <1>3. \A x \in Prefixes : x # Root => pc'[x] = "idle"
    BY <1>1 DEF Dispatch, Goto, TypeOK
  <1>4. UNCHANGED config
    BY DEF Dispatch
  <1>5. StartedFromRoot'
    <2>1. \A a \in Prefixes : ~Above(a, Root)
      BY TreeFacts DEF Above
    <2>2. pc'[Root] = "list"
      BY TreeFacts DEF Dispatch, Goto, TypeOK
    <2>3. QED
      BY <1>2, <1>3, <1>4, <2>1, <2>2, TreeFacts DEF StartedFromRoot, Listable
  <1>6. /\ remaining'[Root] = Entries(Root)
        /\ \A x \in Prefixes : x # Root => remaining'[x] = remaining[x]
    BY TreeFacts DEF Dispatch, TypeOK
  <1>7. OwnEntries'
    BY <1>1, <1>2, <1>4, <1>6, EntriesKept DEF OwnEntries, Dispatch
  <1>8. StartedOnce'
    <2>1. \A q \in Entries(Root) \cap Prefixes : q # Root
      BY EntryKinds, SubPrefixesBelow, TreeFacts
    <2>2. \A x \in Prefixes : \A q \in (remaining'[x] \cup subs'[x]) \cap Prefixes : q # Root
      BY <1>1, <1>6, <2>1 DEF OwnEntries, Dispatch
    <2>3. \A x \in Prefixes : joinset'[x] = {}
      BY <1>1 DEF OwnEntries, Dispatch
    <2>4. aborting' = {}
      BY <1>1 DEF StartedOnce, Dispatch, TypeOK
    <2>5. QED
      BY <1>3, <2>2, <2>3, <2>4 DEF StartedOnce
  <1>9. QED
    BY <1>5, <1>7, <1>8

LEMMA TreeFetch ==
    ASSUME TreeInv, TypeOK', NEW p \in Prefixes, FetchListPage(p)
    PROVE  TreeInv'
  <1> USE DEF TreeInv
  <1>1. PICK P \in PagesOf(remaining[p]) :
          /\ remaining' = [remaining EXCEPT ![p] = @ \ P]
          /\ objects' = [objects EXCEPT ![p] = P \cap Objects]
          /\ subs' = [subs EXCEPT ![p] = P \cap Prefixes]
    BY DEF FetchListPage
  <1>2. P \subseteq remaining[p]
    BY DEF PagesOf
  <1>3. /\ \A x \in Prefixes : Started(x)' <=> Started(x)
        /\ \A x \in Prefixes : pc[x] \in {"idle", "start"} => pc'[x] = pc[x]
        /\ Started(p)
    BY DEF FetchListPage, Goto, Started, TypeOK
  <1>4. UNCHANGED <<config, joinset, aborting>>
    BY DEF FetchListPage
  <1>5. StartedFromRoot'
    BY <1>3, <1>4, ListableKept, TreeFacts DEF StartedFromRoot, Started
  <1>6. \A x \in Prefixes :
           IF x = p THEN /\ remaining'[x] = remaining[p] \ P
                         /\ objects'[x] = P \cap Objects
                         /\ subs'[x] = P \cap Prefixes
           ELSE /\ remaining'[x] = remaining[x]
                /\ objects'[x] = objects[x]
                /\ subs'[x] = subs[x]
    BY <1>1 DEF TypeOK
  <1>7. OwnEntries'
    BY <1>2, <1>3, <1>4, <1>6, EntriesKept DEF OwnEntries
  <1>8. StartedOnce'
    BY <1>2, <1>3, <1>4, <1>6 DEF StartedOnce, TypeOK
  <1>9. QED
    BY <1>5, <1>7, <1>8

LEMMA TreeSend ==
    ASSUME TreeInv, TypeOK', NEW p \in Prefixes, SendListedObject(p)
    PROVE  TreeInv'
  <1> USE DEF TreeInv
  <1>1. UNCHANGED <<config, pc, remaining, subs, joinset, aborting>>
    BY DEF SendListedObject
  <1>2. \A x \in Prefixes : objects'[x] \subseteq objects[x]
    BY DEF SendListedObject, TypeOK
  <1>3. \A x \in Prefixes : Started(x)' <=> Started(x)
    BY <1>1 DEF Started
  <1>4. StartedFromRoot'
    BY <1>1, <1>3, ListableKept DEF StartedFromRoot
  <1>5. OwnEntries'
    BY <1>1, <1>2, <1>3, EntriesKept DEF OwnEntries
  <1>6. StartedOnce'
    BY <1>1, <1>3 DEF StartedOnce, TypeOK
  <1>7. QED
    BY <1>4, <1>5, <1>6

(* The sub-prefix q the task p gives a task, and what changes for both. *)
Starts(p, q) ==
    /\ q \in subs[p] /\ q \in SubPrefixes(p) /\ q \in Prefixes /\ q # p /\ q # Root
    /\ pc[p] = "acquire" /\ pc[q] = "idle"
    /\ pc'[p] = "spawn" /\ pc'[q] = "list" /\ q \in joinset'[p]
    /\ \A x \in Prefixes : x \notin {p, q} => pc'[x] = pc[x]
    /\ \A x \in Prefixes : Started(x)' <=> Started(x) \/ x = q
    /\ remaining'[q] = Entries(q)
    /\ \A x \in Prefixes : x # q => remaining'[x] = remaining[x]
    /\ subs'[p] = subs[p] \ {q}
    /\ \A x \in Prefixes : x # p => subs'[x] = subs[x] /\ joinset'[x] = joinset[x]
    /\ joinset'[p] = joinset[p] \cup {q}
    /\ UNCHANGED <<config, objects, aborting, cancelled, receiving, sent>>

LEMMA SpawnStarts ==
    ASSUME TreeInv, NEW p \in Prefixes, SpawnSubPrefix(p)
    PROVE  \E q \in subs[p] : /\ Starts(p, q)
                              /\ holders' = holders \cup {q}
                              /\ permits' = permits - 1
                              /\ permits > 0
  <1> USE DEF TreeInv
  <1>1. PICK q \in subs[p] :
          /\ subs' = [subs EXCEPT ![p] = @ \ {q}]
          /\ joinset' = [joinset EXCEPT ![p] = @ \cup {q}]
          /\ holders' = holders \cup {q}
          /\ permits' = permits - 1
          /\ remaining' = [remaining EXCEPT ![q] = Entries(q)]
          /\ pc' = [pc EXCEPT ![p] = "spawn", ![q] = "list"]
    BY DEF SpawnSubPrefix
  <1>2. q \in Prefixes /\ q \in SubPrefixes(p)
    BY EntryKinds DEF TypeOK, OwnEntries
  <1>3. q # p /\ q # Root
    BY <1>2, SubPrefixesBelow
  <1>4. pc[p] = "acquire" /\ pc[q] = "idle"
    BY <1>2 DEF SpawnSubPrefix, StartedOnce
  <1>5. /\ pc'[p] = "spawn" /\ pc'[q] = "list"
        /\ \A x \in Prefixes : x \notin {p, q} => pc'[x] = pc[x]
    BY <1>1, <1>2, <1>3 DEF TypeOK
  <1>6. \A x \in Prefixes : Started(x)' <=> Started(x) \/ x = q
    BY <1>2, <1>4, <1>5 DEF Started
  <1>7. /\ remaining'[q] = Entries(q)
        /\ \A x \in Prefixes : x # q => remaining'[x] = remaining[x]
    BY <1>1, <1>2 DEF TypeOK
  <1>8. /\ subs'[p] = subs[p] \ {q}
        /\ joinset'[p] = joinset[p] \cup {q}
        /\ \A x \in Prefixes : x # p => subs'[x] = subs[x] /\ joinset'[x] = joinset[x]
    BY <1>1 DEF TypeOK
  <1>9. QED
    BY <1>1, <1>2, <1>3, <1>4, <1>5, <1>6, <1>7, <1>8 DEF Starts, SpawnSubPrefix, PermitFree

LEMMA TreeSpawn ==
    ASSUME TreeInv, TypeOK', NEW p \in Prefixes, NEW q \in Prefixes, Starts(p, q)
    PROVE  TreeInv'
  <1> USE DEF TreeInv
  <1>0. Started(p) /\ ~Started(q)
    BY DEF Starts, Started
  <1>1. StartedFromRoot'
    <2>1. \A a \in Prefixes : Above(a, q) => Started(a)'
      BY <1>0, LastStepDown DEF Starts, StartedFromRoot
    <2>2. Above(Root, q)
      BY RootAbove DEF Starts
    <2>3. Listable(q)
      <3>1. Delimited(p)
        BY EntryKinds DEF Starts, OwnEntries
      <3>2. QED
        BY <3>1, ConfigTypes, TreeFacts, SubPrefixesBelow DEF Listable, Delimited, Starts, TypeOK
    <2>4. \A x \in Prefixes : Listable(x)' <=> Listable(x)
      BY ListableKept DEF Starts
    <2>5. \A x \in Prefixes : pc'[x] = "start" => x = Root
      BY DEF Starts, StartedFromRoot
    <2>6. pc'[Root] # "idle"
      BY TreeFacts DEF Starts, StartedFromRoot
    <2>7. \A x \in Prefixes : Started(x)' <=> Started(x) \/ x = q
      BY DEF Starts
    <2>8. QED
      BY <2>1, <2>2, <2>3, <2>4, <2>5, <2>6, <2>7 DEF StartedFromRoot
  <1>2. OwnEntries'
    <2>1. \A x \in Prefixes : Entries(x)' = Entries(x)
      BY EntriesKept DEF Starts
    <2>2. objects[q] = {} /\ subs[q] = {} /\ joinset[q] = {}
      BY <1>0 DEF OwnEntries
    <2>3. \A x \in Prefixes : /\ remaining'[x] \cup objects'[x] \cup subs'[x] \subseteq Entries(x)
                              /\ remaining'[x] \cap (objects'[x] \cup subs'[x]) = {}
                              /\ joinset'[x] \subseteq SubPrefixes(x)
      BY <2>2 DEF OwnEntries, Starts
    <2>4. \A x \in Prefixes : ~Started(x)' =>
             remaining'[x] = {} /\ objects'[x] = {} /\ subs'[x] = {} /\ joinset'[x] = {}
      BY <1>0 DEF OwnEntries, Starts
    <2>5. QED
      BY <2>1, <2>3, <2>4 DEF OwnEntries
  <1>3. StartedOnce'
    <2>1. ASSUME NEW x \in Prefixes, NEW r \in (remaining'[x] \cup subs'[x]) \cap Prefixes
          PROVE  pc'[r] = "idle"
      <3>1. CASE x = q /\ r \in remaining'[x]
        <4>1. r \in SubPrefixes(q)
          BY <3>1, EntryKinds DEF Starts
        <4>2. ~Started(r) /\ r # Root /\ r # q
          BY <1>0, <4>1, SubPrefixesBelow DEF StartedFromRoot
        <4>3. pc[r] = "idle"
          BY <4>2 DEF Started, StartedFromRoot
        <4>4. QED
          BY <1>0, <4>2, <4>3 DEF Starts
      <3>2. CASE ~(x = q /\ r \in remaining'[x])
        <4>1. r \in remaining[x] \cup subs[x]
          BY <3>2 DEF Starts
        <4>2. pc[r] = "idle"
          BY <4>1 DEF StartedOnce
        <4>3. r # q
          <5>1. SUFFICES ASSUME r = q PROVE FALSE
            OBVIOUS
          <5>2. q \in SubPrefixes(x)
            BY <4>1, <5>1, EntryKinds DEF OwnEntries
          <5>3. x = p
            BY <5>2, OneParent DEF Starts
          <5>4. QED
            BY <5>1, <5>3 DEF Starts, OwnEntries
        <4>4. QED
          BY <1>0, <4>2, <4>3 DEF Starts
      <3>3. QED
        BY <3>1, <3>2
    <2>2. \A x \in Prefixes : \A r \in joinset'[x] : Started(r)'
      BY DEF StartedOnce, Starts, TypeOK
    <2>3. \A x \in aborting' : Started(x)' /\ x # Root
      BY DEF StartedOnce, Starts, TypeOK
    <2>4. QED
      BY <2>1, <2>2, <2>3 DEF StartedOnce
  <1>4. QED
    BY <1>1, <1>2, <1>3

LEMMA TreeStep == TreeInv /\ [Next]_vars => TreeInv'
  <1> SUFFICES ASSUME TreeInv, [Next]_vars PROVE TreeInv'
    OBVIOUS
  <1>1. TypeOK'
    BY TypeStep DEF TreeInv
  <1>2. CASE InPlace
    BY <1>1, <1>2, TreeInPlace
  <1>3. CASE Dispatch
    BY <1>1, <1>3, TreeDispatch
  <1>4. CASE \E p \in Prefixes : FetchListPage(p)
    BY <1>1, <1>4, TreeFetch
  <1>5. CASE \E p \in Prefixes : SendListedObject(p)
    BY <1>1, <1>5, TreeSend
  <1>6. CASE \E p \in Prefixes : SpawnSubPrefix(p)
    <2>1. PICK p \in Prefixes : SpawnSubPrefix(p)
      BY <1>6
    <2>2. \E q \in Prefixes : Starts(p, q)
      BY <2>1, SpawnStarts DEF Starts
    <2>3. QED
      BY <1>1, <2>2, TreeSpawn
  <1>7. QED
    BY <1>2, <1>3, <1>4, <1>5, <1>6, StepKinds

LEMMA TreeHolds == Spec => []TreeInv
  BY TreeInit, TreeStep, PTL DEF Spec

-----------------------------------------------------------------------------
(* Permits. *)

PermitsCounted == permits + Cardinality(holders) = config.max_parallel_listings
HoldersRun == \A p \in holders : Running(p)
PermitInv == TreeInv /\ PermitsCounted /\ HoldersRun

LEMMA HoldersFinite ==
    ASSUME TypeOK
    PROVE  IsFiniteSet(holders) /\ Cardinality(holders) \in Nat /\ permits \in Nat
  BY S3ListerAssumption, FS_Subset, FS_CardinalityType DEF TypeOK

LEMMA ReleaseCounted ==
    ASSUME TypeOK, PermitsCounted, HoldersRun, NEW p \in Prefixes, NEW l, UNCHANGED config,
           Release(p), Goto(p, l)
    PROVE  PermitsCounted' /\ HoldersRun'
  <1>1. PermitsCounted'
    <2>1. CASE p \in holders
      <3>1. Cardinality(holders \ {p}) = Cardinality(holders) - 1
        BY <2>1, HoldersFinite, FS_RemoveElement
      <3>2. QED
        BY <2>1, <3>1, HoldersFinite DEF PermitsCounted, Release
    <2>2. CASE p \notin holders
      <3>1. holders \ {p} = holders
        BY <2>2
      <3>2. QED
        BY <2>2, <3>1 DEF PermitsCounted, Release
    <2>3. QED
      BY <2>1, <2>2
  <1>2. HoldersRun'
    BY DEF HoldersRun, Release, Goto, Running, Started, TypeOK
  <1>3. QED
    BY <1>1, <1>2

LEMMA MoveCounted ==
    ASSUME TypeOK, PermitsCounted, HoldersRun, UNCHANGED <<config, holders, permits>>,
           \A x \in Prefixes : Running(x) => Running(x)'
    PROVE  PermitsCounted' /\ HoldersRun'
  BY DEF PermitsCounted, HoldersRun, TypeOK

(* A task that takes or keeps its permit is not at its end. *)
LEMMA GotoRuns ==
    ASSUME TypeOK, NEW p \in Prefixes,
           NEW l \in {"list", "fetch", "send", "spawn", "acquire", "join", "page"}, Goto(p, l)
    PROVE  \A x \in Prefixes : Running(x) => Running(x)'
  BY DEF Goto, Running, Started, Ended, TypeOK

LEMMA PermitStep ==
    ASSUME PermitInv, [Next]_vars
    PROVE  PermitInv'
  <1>0. TypeOK /\ TreeInv /\ PermitsCounted /\ HoldersRun /\ TreeInv'
    BY TreeStep DEF PermitInv, TreeInv
  <1>1. ASSUME NEW p \in Prefixes, Loop(p) PROVE PermitsCounted' /\ HoldersRun'
    <2>1. CASE cancelled
      BY <1>0, <1>1, <2>1, ReleaseCounted DEF Loop, End
    <2>2. CASE ~cancelled
      BY <1>0, <1>1, <2>2, MoveCounted, GotoRuns DEF Loop
    <2>3. QED
      BY <2>1, <2>2
  <1>2. ASSUME NEW p \in Prefixes, FetchListPage(p) PROVE PermitsCounted' /\ HoldersRun'
    BY <1>0, <1>2, MoveCounted, GotoRuns DEF FetchListPage
  <1>3. ASSUME NEW p \in Prefixes,
               \/ FetchError(p)
               \/ MarkerError(p)
               \/ StopSending(p)
               \/ NextSubPrefix(p)
               \/ JoinError(p)
               \/ Abort(p)
        PROVE PermitsCounted' /\ HoldersRun'
    BY <1>0, <1>3, ReleaseCounted
    DEF FetchError, MarkerError, StopSending, NextSubPrefix, JoinError, Abort, End,
        ReleaseBeforeAcquire
  <1>4. ASSUME NEW p \in Prefixes, SendListedObject(p) \/ JoinNext(p)
        PROVE PermitsCounted' /\ HoldersRun'
    BY <1>0, <1>4, MoveCounted DEF SendListedObject, JoinNext, Running, Started
  <1>5. ASSUME NEW p \in Prefixes, PageSent(p) \/ SpawnDone(p) \/ JoinDone(p)
        PROVE PermitsCounted' /\ HoldersRun'
    BY <1>0, <1>5, MoveCounted, GotoRuns DEF PageSent, SpawnDone, JoinDone
  <1>6. ASSUME NEW p \in Prefixes, SpawnSubPrefix(p) PROVE PermitsCounted' /\ HoldersRun'
    <2>1. PICK q \in subs[p] : Starts(p, q) /\ holders' = holders \cup {q}
                               /\ permits' = permits - 1 /\ permits > 0
      BY <1>0, <1>6, SpawnStarts
    <2>2. q \notin holders
      BY <1>0, <2>1 DEF HoldersRun, Running, Started, Starts
    <2>3. Cardinality(holders \cup {q}) = Cardinality(holders) + 1
      BY <1>0, <2>2, HoldersFinite, FS_AddElement
    <2>4. PermitsCounted'
      BY <1>0, <2>1, <2>3, HoldersFinite DEF PermitsCounted, Starts
    <2>5. HoldersRun'
      BY <1>0, <2>1 DEF HoldersRun, Running, Started, Starts, Ended, TypeOK
    <2>6. QED
      BY <2>4, <2>5
  <1>7. ASSUME NEW p \in Prefixes, Paginate(p) PROVE PermitsCounted' /\ HoldersRun'
    <2>1. CASE remaining[p] = {}
      BY <1>0, <1>7, <2>1, ReleaseCounted DEF Paginate, End
    <2>2. CASE remaining[p] # {}
      BY <1>0, <1>7, <2>2, MoveCounted, GotoRuns DEF Paginate
    <2>3. QED
      BY <2>1, <2>2
  <1>8. CASE Dispatch
    <2>1. holders = {}
      <3>1. ~Started(Root)
        BY <1>8 DEF Dispatch, Started
      <3>2. \A x \in Prefixes : ~Started(x)
        BY <1>0, <3>1, TreeFacts DEF TreeInv, StartedFromRoot
      <3>3. QED
        BY <1>0, <3>2 DEF HoldersRun, Running, TypeOK
    <2>2. pc'[Root] = "list"
      BY <1>0, <1>8, TreeFacts DEF Dispatch, Goto, TypeOK
    <2>3. Cardinality({}) = 0 /\ Cardinality({Root}) = 1
      BY FS_EmptySet, FS_Singleton
    <2>4. PermitsCounted'
      BY <1>0, <1>8, <2>1, <2>3 DEF PermitsCounted, Dispatch, TypeOK
    <2>5. HoldersRun'
      BY <1>8, <2>2 DEF HoldersRun, Running, Started, Dispatch, Ended
    <2>6. QED
      BY <1>0, <2>4, <2>5 DEF PermitInv
  <1>9. CASE Cancel \/ DropReceiver \/ Terminated \/ UNCHANGED vars
    <2>1. UNCHANGED <<config, pc, holders, permits>>
      BY <1>9 DEF Cancel, DropReceiver, Terminated
    <2>2. QED
      BY <1>0, <2>1, MoveCounted DEF PermitInv, Running, Started
  <1>10. QED
    BY <1>0, <1>1, <1>2, <1>3, <1>4, <1>5, <1>6, <1>7, <1>8, <1>9 DEF PermitInv, Next, TaskStep

(* Permits are neither lost nor made up, whichever way a task ends (returns,      *)
(* fails, is cancelled or aborted), and only a running task owns one.             *)
THEOREM PermitsSafe == Spec => []PermitsConserved
  <1>1. Init => PermitInv
    <2> SUFFICES ASSUME Init PROVE PermitInv
      OBVIOUS
    <2>1. TreeInv
      BY TreeInit
    <2>2. PermitsCounted /\ HoldersRun
      BY <2>1, FS_EmptySet DEF Init, PermitsCounted, HoldersRun, TreeInv, TypeOK
    <2>3. QED
      BY <2>1, <2>2 DEF PermitInv
  <1>2. PermitInv => PermitsConserved
    BY DEF PermitInv, PermitsCounted, HoldersRun, PermitsConserved, Running, Started
  <1>3. QED
    BY <1>1, <1>2, PermitStep, PTL DEF Spec

-----------------------------------------------------------------------------
(* No object is sent twice. *)

(* An object that was sent is past the hands of the one task that lists it. *)
SentOnce ==
    /\ \A o \in Objects : sent[o] \in {0, 1}
    /\ \A o \in Objects : sent[o] # 0 =>
          \E p \in Prefixes : Started(p) /\ o \in Entries(p) \ (remaining[p] \cup objects[p])

SentInv == TreeInv /\ SentOnce

(* A step that leaves an object nobody has in hand where it is. *)
LEMMA StaysSent ==
    ASSUME SentOnce, UNCHANGED <<config, sent>>,
           \A p \in Prefixes : Started(p) =>
              /\ Started(p)'
              /\ remaining'[p] \cup objects'[p] \subseteq remaining[p] \cup objects[p]
    PROVE  SentOnce'
  BY EntriesKept DEF SentOnce

LEMMA SentStep ==
    ASSUME SentInv, [Next]_vars
    PROVE  SentInv'
  <1>0. TypeOK /\ TreeInv /\ SentOnce /\ TreeInv'
    BY TreeStep DEF SentInv, TreeInv
  <1>1. CASE InPlace
    BY <1>0, <1>1, StaysSent DEF SentInv, InPlace
  <1>2. CASE Dispatch
    <2>1. \A x \in Prefixes : ~Started(x)
      BY <1>0, <1>2, TreeFacts DEF TreeInv, StartedFromRoot, Dispatch, Started
    <2>2. QED
      BY <1>0, <1>2, <2>1, StaysSent DEF SentInv, Dispatch
  <1>3. ASSUME NEW p \in Prefixes, FetchListPage(p) PROVE SentOnce'
    <2>1. \A x \in Prefixes : remaining'[x] \cup objects'[x] \subseteq remaining[x] \cup objects[x]
      BY <1>0, <1>3 DEF FetchListPage, PagesOf, TypeOK
    <2>2. \A x \in Prefixes : Started(x) => Started(x)'
      BY <1>0, <1>3 DEF FetchListPage, Goto, Started, TypeOK
    <2>3. QED
      BY <1>0, <1>3, <2>1, <2>2, StaysSent DEF FetchListPage
  <1>4. ASSUME NEW p \in Prefixes, SendListedObject(p) PROVE SentOnce'
    <2>1. PICK o \in objects[p] : /\ objects' = [objects EXCEPT ![p] = @ \ {o}]
                                  /\ sent' = [sent EXCEPT ![o] = @ + 1]
      BY <1>4 DEF SendListedObject
    <2>2. UNCHANGED <<config, pc, remaining>> /\ Started(p)
      BY <1>4 DEF SendListedObject, Started
    <2>3. o \in Objects /\ o \in Entries(p) /\ o \notin remaining[p]
      BY <1>0 DEF TreeInv, TypeOK, OwnEntries
    <2>4. sent[o] = 0
      <3>1. SUFFICES ASSUME sent[o] # 0 PROVE FALSE
        BY <1>0, <2>3 DEF SentOnce
      <3>2. PICK x \in Prefixes : Started(x) /\ o \in Entries(x) \ (remaining[x] \cup objects[x])
        BY <1>0, <2>3, <3>1 DEF SentOnce
      <3>3. x = p
        BY <1>0, <2>2, <2>3, <3>2, OneLister DEF TreeInv, StartedFromRoot, TypeOK
      <3>4. QED
        BY <3>2, <3>3
    <2>5. sent'[o] = 1 /\ \A y \in Objects : y # o => sent'[y] = sent[y]
      BY <1>0, <2>1, <2>3, <2>4 DEF TypeOK
    <2>6. objects'[p] = objects[p] \ {o} /\ \A x \in Prefixes : objects'[x] \subseteq objects[x]
      BY <1>0, <2>1 DEF TypeOK
    <2>7. \A x \in Prefixes : Started(x)' <=> Started(x)
      BY <2>2 DEF Started
    <2>8. \A x \in Prefixes : Entries(x)' = Entries(x) /\ remaining'[x] = remaining[x]
      BY <2>2, EntriesKept
    <2>9. \A y \in Objects : sent'[y] \in {0, 1}
      BY <1>0, <2>5 DEF SentOnce
    <2>10. ASSUME NEW y \in Objects, sent'[y] # 0
           PROVE  \E x \in Prefixes : Started(x)' /\ y \in Entries(x)' \ (remaining'[x] \cup objects'[x])
      <3>1. CASE y = o
        <4>1. Started(p)' /\ o \in Entries(p)' \ (remaining'[p] \cup objects'[p])
          BY <2>2, <2>3, <2>6, <2>7, <2>8
        <4>2. QED
          BY <3>1, <4>1
      <3>2. CASE y # o
        <4>1. PICK x \in Prefixes : Started(x) /\ y \in Entries(x) \ (remaining[x] \cup objects[x])
          BY <1>0, <2>5, <2>10, <3>2 DEF SentOnce
        <4>2. QED
          BY <2>6, <2>7, <2>8, <4>1
      <3>3. QED
        BY <3>1, <3>2
    <2>11. QED
      BY <2>9, <2>10 DEF SentOnce
  <1>5. ASSUME NEW p \in Prefixes, SpawnSubPrefix(p) PROVE SentOnce'
    <2>1. PICK q \in subs[p] : Starts(p, q)
      BY <1>0, <1>5, SpawnStarts
    <2>2. ~Started(q)
      BY <2>1 DEF Starts, Started
    <2>3. QED
      BY <1>0, <2>1, <2>2, StaysSent DEF Starts
  <1>6. QED
    BY <1>0, <1>1, <1>2, <1>3, <1>4, <1>5, StepKinds DEF SentInv

LEMMA SentHolds == Spec => []SentInv
  <1>1. Init => SentInv
    BY TreeInit DEF SentInv, SentOnce, Init
  <1>2. QED
    BY <1>1, SentStep, PTL DEF Spec

-----------------------------------------------------------------------------
(* A task ends in success only after all the tasks below it have. *)

(* A task that is not in the loop over its sub-prefixes waits for nobody. *)
NobodyAwaited ==
    \A p \in Prefixes : pc[p] \in {"list", "fetch", "send", "page"} => joinset[p] = {}

(* A running task waits for every sub-task but those that ended in success. *)
AwaitsChildren ==
    \A p \in Prefixes : Running(p) =>
       \A c \in SubPrefixes(p) \ joinset[p] : Started(c) => pc[c] = "done"

(* The tasks below p have all ended in success. *)
AllDoneBelow(p) == \A q \in Prefixes : Above(p, q) /\ Started(q) => pc[q] = "done"

DoneBelow == \A p \in Prefixes : pc[p] = "done" => AllDoneBelow(p)

(* Root fails by its own request, with all below it done, or it cancels. *)
RootFails ==
    /\ pc[Root] # "aborted"
    /\ pc[Root] = "failed" /\ ~cancelled => AllDoneBelow(Root)

Joined == NobodyAwaited /\ AwaitsChildren /\ DoneBelow /\ RootFails
JoinInv == TreeInv /\ Joined

LEMMA NothingBelow ==
    ASSUME JoinInv, NEW p \in Prefixes, Running(p), joinset[p] = {}
    PROVE  AllDoneBelow(p)
  <1> SUFFICES ASSUME NEW q \in Prefixes, Above(p, q), Started(q) PROVE pc[q] = "done"
    BY DEF AllDoneBelow
  <1>1. PICK c \in SubPrefixes(p) : c = q \/ Above(c, q)
    BY FirstStepDown
  <1>2. c \in Prefixes /\ Started(c)
    BY <1>1, SubPrefixesBelow DEF JoinInv, TreeInv, StartedFromRoot
  <1>3. pc[c] = "done"
    BY <1>1, <1>2 DEF JoinInv, Joined, AwaitsChildren
  <1>4. QED
    BY <1>1, <1>2, <1>3 DEF JoinInv, Joined, DoneBelow, AllDoneBelow

(* One task moves from label to label or ends. *)
LEMMA MoveJoined ==
    ASSUME JoinInv, NEW p \in Prefixes, NEW l \in PC \ {"idle", "start"}, Running(p), Goto(p, l),
           cancelled => cancelled',
           \A x \in Prefixes : x # p => joinset'[x] = joinset[x],
           l \in {"list", "fetch", "send", "page"} => joinset'[p] = {},
           l \notin Ended => joinset'[p] = joinset[p],
           l = "done" => joinset[p] = {},
           l = "failed" => joinset[p] = {} \/ cancelled',
           l = "aborted" => p # Root
    PROVE  Joined'
  <1>1. pc'[p] = l /\ \A x \in Prefixes : x # p => pc'[x] = pc[x]
    BY DEF JoinInv, TreeInv, TypeOK, Goto
  <1>2. \A x \in Prefixes : Started(x)' <=> Started(x)
    BY <1>1 DEF Running, Started
  <1>3. \A x \in Prefixes : pc[x] = "done" => pc'[x] = "done"
    BY <1>1 DEF Running, Ended
  <1>4. ASSUME NEW x \in Prefixes, AllDoneBelow(x) PROVE AllDoneBelow(x)'
    BY <1>2, <1>3, <1>4 DEF AllDoneBelow
  <1>5. NobodyAwaited'
    BY <1>1 DEF NobodyAwaited, JoinInv, Joined
  <1>6. AwaitsChildren'
    <2> SUFFICES ASSUME NEW x \in Prefixes, Running(x)',
                        NEW c \in SubPrefixes(x) \ joinset'[x], Started(c)'
                 PROVE  pc'[c] = "done"
      BY DEF AwaitsChildren, SubPrefixes
    <2>1. Running(x) /\ joinset'[x] = joinset[x]
      BY <1>1, <1>2 DEF Running
    <2>2. c \in Prefixes /\ Started(c)
      BY <1>2, SubPrefixesBelow
    <2>3. QED
      BY <1>3, <2>1, <2>2 DEF JoinInv, Joined, AwaitsChildren
  <1>7. DoneBelow'
    <2> SUFFICES ASSUME NEW x \in Prefixes, pc'[x] = "done" PROVE AllDoneBelow(x)'
      BY DEF DoneBelow
    <2>1. AllDoneBelow(x)
      BY <1>1, NothingBelow DEF JoinInv, Joined, DoneBelow
    <2>2. QED
      BY <1>4, <2>1
  <1>8. RootFails'
    <2>1. pc'[Root] # "aborted"
      BY <1>1, TreeFacts DEF JoinInv, Joined, RootFails
    <2>2. ASSUME pc'[Root] = "failed", ~cancelled' PROVE AllDoneBelow(Root)
      BY <1>1, <2>2, NothingBelow, TreeFacts DEF JoinInv, Joined, RootFails
    <2>3. QED
      BY <1>4, <2>1, <2>2, TreeFacts DEF RootFails
  <1>9. QED
    BY <1>5, <1>6, <1>7, <1>8 DEF Joined

(* No task moves. *)
LEMMA StayJoined ==
    ASSUME JoinInv, UNCHANGED <<pc, joinset>>, cancelled => cancelled'
    PROVE  Joined'
  <1>1. \A x \in Prefixes : AllDoneBelow(x)' <=> AllDoneBelow(x)
    BY DEF AllDoneBelow, Started
  <1>2. AwaitsChildren'
    BY DEF JoinInv, Joined, AwaitsChildren, Running, Started, SubPrefixes
  <1>3. QED
    BY <1>1, <1>2, TreeFacts DEF JoinInv, Joined, NobodyAwaited, DoneBelow, RootFails

LEMMA JoinStep ==
    ASSUME JoinInv, [Next]_vars
    PROVE  JoinInv'
  <1>0. JoinInv /\ TypeOK /\ TreeInv /\ Joined /\ TreeInv'
    BY TreeStep DEF JoinInv, TreeInv
  <1>a. {"list", "fetch", "send", "spawn", "acquire", "join", "page", "done", "failed", "aborted"}
           \subseteq PC \ {"idle", "start"}
    BY DEF PC, Ended
  <1>b. \A p \in Prefixes :
           pc[p] \in {"list", "fetch", "send", "spawn", "acquire", "join", "page"} => Running(p)
    BY DEF Running, Started, Ended
  <1>c. \A p \in Prefixes : pc[p] \in {"list", "fetch", "send", "page"} => joinset[p] = {}
    BY <1>0 DEF Joined, NobodyAwaited
  <1>d. {"done", "failed", "aborted"} = Ended
    BY DEF Ended
  <1>1. ASSUME NEW p \in Prefixes, Loop(p) PROVE Joined'
    <2>1. Goto(p, "done") \/ Goto(p, "fetch")
      BY <1>1 DEF Loop, End
    <2>2. Running(p) /\ joinset[p] = {} /\ UNCHANGED <<joinset, cancelled>>
      BY <1>1, <1>b, <1>c DEF Loop
    <2>3. CASE Goto(p, "done")
      BY <1>0, <1>a, <2>2, <2>3, MoveJoined, Zenon
    <2>4. CASE Goto(p, "fetch")
      BY <1>0, <1>a, <2>2, <2>4, MoveJoined, Zenon
    <2>5. QED
      BY <2>1, <2>3, <2>4
  <1>2. ASSUME NEW p \in Prefixes, FetchListPage(p) PROVE Joined'
    <2>1. Goto(p, "send") /\ Running(p) /\ joinset[p] = {} /\ UNCHANGED <<joinset, cancelled>>
      BY <1>2, <1>b, <1>c DEF FetchListPage, End
    <2>2. QED
      BY <1>0, <1>a, <1>d, <2>1, MoveJoined, Zenon
  <1>3. ASSUME NEW p \in Prefixes, FetchError(p) PROVE Joined'
    <2>1. Goto(p, "failed") /\ Running(p) /\ joinset[p] = {} /\ UNCHANGED <<joinset, cancelled>>
      BY <1>3, <1>b, <1>c DEF FetchError, End
    <2>2. QED
      BY <1>0, <1>a, <1>d, <2>1, MoveJoined, Zenon
  <1>4. ASSUME NEW p \in Prefixes, MarkerError(p) PROVE Joined'
    <2>1. Goto(p, "failed") /\ Running(p) /\ joinset[p] = {} /\ UNCHANGED <<joinset, cancelled>>
      BY <1>4, <1>b, <1>c DEF MarkerError, End
    <2>2. QED
      BY <1>0, <1>a, <1>d, <2>1, MoveJoined, Zenon
  <1>5. ASSUME NEW p \in Prefixes, StopSending(p) PROVE Joined'
    <2>1. Goto(p, "done") /\ Running(p) /\ joinset[p] = {} /\ UNCHANGED <<joinset, cancelled>>
      BY <1>5, <1>b, <1>c DEF StopSending, End
    <2>2. QED
      BY <1>0, <1>a, <1>d, <2>1, MoveJoined, Zenon
  <1>6. ASSUME NEW p \in Prefixes, PageSent(p) PROVE Joined'
    <2>1. Goto(p, "spawn") /\ Running(p) /\ UNCHANGED <<joinset, cancelled>>
      BY <1>6, <1>b, <1>c DEF PageSent, End
    <2>2. QED
      BY <1>0, <1>a, <1>d, <2>1, MoveJoined, Zenon
  <1>7. ASSUME NEW p \in Prefixes, NextSubPrefix(p) PROVE Joined'
    <2>1. Goto(p, "acquire") /\ Running(p) /\ UNCHANGED <<joinset, cancelled>>
      BY <1>7, <1>b, <1>c DEF NextSubPrefix, End
    <2>2. QED
      BY <1>0, <1>a, <1>d, <2>1, MoveJoined, Zenon
  <1>8. ASSUME NEW p \in Prefixes, SpawnDone(p) PROVE Joined'
    <2>1. Goto(p, "join") /\ Running(p) /\ UNCHANGED <<joinset, cancelled>>
      BY <1>8, <1>b, <1>c DEF SpawnDone, End
    <2>2. QED
      BY <1>0, <1>a, <1>d, <2>1, MoveJoined, Zenon
  <1>9. ASSUME NEW p \in Prefixes, JoinDone(p) PROVE Joined'
    <2>1. Goto(p, "page") /\ Running(p) /\ joinset[p] = {} /\ UNCHANGED <<joinset, cancelled>>
      BY <1>9, <1>b, <1>c DEF JoinDone, End
    <2>2. QED
      BY <1>0, <1>a, <1>d, <2>1, MoveJoined, Zenon
  <1>10. ASSUME NEW p \in Prefixes, Paginate(p) PROVE Joined'
    <2>1. Goto(p, "done") \/ Goto(p, "list")
      BY <1>10 DEF Paginate, End
    <2>2. Running(p) /\ joinset[p] = {} /\ UNCHANGED <<joinset, cancelled>>
      BY <1>10, <1>b, <1>c DEF Paginate
    <2>3. CASE Goto(p, "done")
      BY <1>0, <1>a, <2>2, <2>3, MoveJoined, Zenon
    <2>4. CASE Goto(p, "list")
      BY <1>0, <1>a, <2>2, <2>4, MoveJoined, Zenon
    <2>5. QED
      BY <2>1, <2>3, <2>4
  <1>11. ASSUME NEW p \in Prefixes, JoinError(p) PROVE Joined'
    <2>1. Goto(p, "failed") /\ Running(p) /\ cancelled'
      BY <1>11, <1>b DEF JoinError, End
    <2>2. \A x \in Prefixes : x # p => joinset'[x] = joinset[x]
      BY <1>0, <1>11 DEF JoinError, TypeOK
    <2>3. QED
      BY <1>0, <1>a, <1>d, <2>1, <2>2, MoveJoined, Zenon
  <1>12. ASSUME NEW p \in Prefixes, Abort(p) PROVE Joined'
    <2>1. Goto(p, "aborted") /\ Running(p) /\ p # Root /\ UNCHANGED cancelled
      BY <1>0, <1>12 DEF Abort, End, Running, TreeInv, StartedOnce
    <2>2. \A x \in Prefixes : x # p => joinset'[x] = joinset[x]
      BY <1>0, <1>12 DEF Abort, TypeOK
    <2>3. QED
      BY <1>0, <1>a, <1>d, <2>1, <2>2, MoveJoined, Zenon
  <1>13. ASSUME NEW p \in Prefixes, SendListedObject(p) PROVE Joined'
    BY <1>0, <1>13, StayJoined DEF SendListedObject
  <1>14. CASE Cancel \/ DropReceiver \/ Terminated \/ UNCHANGED vars
    <2>1. UNCHANGED <<pc, joinset>> /\ (cancelled => cancelled')
      BY <1>14 DEF Cancel, DropReceiver, Terminated
    <2>2. QED
      BY <1>0, <2>1, StayJoined DEF JoinInv
  <1>15. ASSUME NEW p \in Prefixes, JoinNext(p) PROVE Joined'
    <2>1. PICK q \in joinset[p] : pc[q] \in Ended \ JoinErrors
                                  /\ joinset' = [joinset EXCEPT ![p] = @ \ {q}]
      BY <1>15 DEF JoinNext
    <2>2. pc[q] = "done"
      BY <2>1 DEF Ended, JoinErrors
    <2>3. UNCHANGED <<pc, cancelled>> /\ pc[p] = "join"
      BY <1>15 DEF JoinNext
    <2>4. joinset'[p] = joinset[p] \ {q} /\ \A x \in Prefixes : x # p => joinset'[x] = joinset[x]
      BY <1>0, <2>1 DEF TypeOK
    <2>5. \A x \in Prefixes : /\ AllDoneBelow(x)' <=> AllDoneBelow(x)
                              /\ Started(x)' <=> Started(x)
                              /\ Running(x)' <=> Running(x)
      BY <2>3 DEF AllDoneBelow, Running, Started
    <2>6. NobodyAwaited'
      BY <1>0, <2>3, <2>4 DEF Joined, NobodyAwaited
    <2>7. AwaitsChildren'
      <3> SUFFICES ASSUME NEW x \in Prefixes, Running(x)',
                          NEW c \in SubPrefixes(x) \ joinset'[x], Started(c)'
                   PROVE  pc'[c] = "done"
        BY DEF AwaitsChildren, SubPrefixes
      <3>1. c \in Prefixes
        BY SubPrefixesBelow
      <3>2. QED
        BY <1>0, <2>2, <2>3, <2>4, <2>5, <3>1 DEF Joined, AwaitsChildren
    <2>8. DoneBelow' /\ RootFails'
      BY <1>0, <2>3, <2>5, TreeFacts DEF Joined, DoneBelow, RootFails
    <2>9. QED
      BY <2>6, <2>7, <2>8 DEF Joined
  <1>16. ASSUME NEW p \in Prefixes, SpawnSubPrefix(p) PROVE Joined'
    <2>1. PICK q \in subs[p] : Starts(p, q)
      BY <1>0, <1>16, SpawnStarts
    <2>2. ~Started(q) /\ Running(p) /\ q \in Prefixes /\ q # Root
      BY <2>1 DEF Starts, Started, Running, Ended
    <2>3. joinset'[q] = {}
      BY <1>0, <2>1, <2>2 DEF Starts, TreeInv, OwnEntries
    <2>4. NobodyAwaited'
      BY <1>0, <2>1, <2>3 DEF Starts, Joined, NobodyAwaited
    <2>5. \A x \in Prefixes : pc[x] \in Ended => pc'[x] = pc[x]
      BY <2>1 DEF Starts, Ended
    <2>6. AwaitsChildren'
      <3> SUFFICES ASSUME NEW x \in Prefixes, Running(x)',
                          NEW c \in SubPrefixes(x) \ joinset'[x], Started(c)'
                   PROVE  pc'[c] = "done"
        BY DEF AwaitsChildren, SubPrefixes
      <3>1. c \in Prefixes
        BY SubPrefixesBelow
      <3>2. c # q
        <4>1. SUFFICES ASSUME c = q PROVE FALSE
          OBVIOUS
        <4>2. x = p
          BY <2>1, <4>1, <3>1, OneParent DEF Starts
        <4>3. QED
          BY <2>1, <4>1, <4>2 DEF Starts
      <3>3. Started(c)
        BY <2>1, <3>1, <3>2 DEF Starts
      <3>4. x # q
        BY <1>0, <2>2, <3>1, <3>3, SubPrefixesBelow DEF TreeInv, StartedFromRoot
      <3>5. Running(x)
        <4>1. CASE x = p
          BY <2>2, <4>1
        <4>2. CASE x # p
          BY <2>1, <3>4, <4>2 DEF Starts, Running
        <4>3. QED
          BY <4>1, <4>2
      <3>6. c \notin joinset[x]
        BY <2>1 DEF Starts
      <3>7. pc[c] = "done"
        BY <1>0, <3>1, <3>3, <3>5, <3>6 DEF Joined, AwaitsChildren
      <3>8. QED
        BY <2>5, <3>1, <3>7 DEF Ended
    <2>7. ASSUME NEW x \in Prefixes, AllDoneBelow(x), x \notin {p, q} PROVE AllDoneBelow(x)'
      <3> SUFFICES ASSUME NEW y \in Prefixes, Above(x, y), Started(y)' PROVE pc'[y] = "done"
        BY DEF AllDoneBelow
      <3>1. y # q
        BY <2>1, <2>2, <2>7, LastStepDown DEF AllDoneBelow, Running, Starts, Ended
      <3>2. Started(y)
        BY <2>1, <3>1 DEF Starts
      <3>3. QED
        BY <2>5, <2>7, <3>2 DEF AllDoneBelow, Ended
    <2>8. DoneBelow'
      <3> SUFFICES ASSUME NEW x \in Prefixes, pc'[x] = "done" PROVE AllDoneBelow(x)'
        BY DEF DoneBelow
      <3>1. x \notin {p, q} /\ pc[x] = "done"
        BY <2>1 DEF Starts
      <3>2. QED
        BY <1>0, <2>7, <3>1 DEF Joined, DoneBelow
    <2>9. RootFails'
      <3>1. pc'[Root] \in Ended => pc[Root] = pc'[Root] /\ Root \notin {p, q}
        BY <2>1, TreeFacts DEF Starts, Ended
      <3>2. QED
        BY <1>0, <2>1, <2>7, <3>1, TreeFacts DEF Starts, Joined, RootFails, Ended
    <2>10. QED
      BY <2>4, <2>6, <2>8, <2>9 DEF Joined
  <1>17. CASE Dispatch
    <2>1. \A x \in Prefixes : ~Started(x)
      BY <1>0, <1>17, TreeFacts DEF TreeInv, StartedFromRoot, Dispatch, Started
    <2>2. pc'[Root] = "list" /\ \A x \in Prefixes : x # Root => pc'[x] = pc[x]
      BY <1>0, <1>17, TreeFacts DEF Dispatch, Goto, TypeOK
    <2>3. \A x \in Prefixes : joinset'[x] = {} /\ (Started(x)' <=> x = Root)
      BY <1>0, <1>17, <2>1, <2>2 DEF Dispatch, Started, TreeInv, OwnEntries
    <2>4. NobodyAwaited'
      BY <2>3 DEF NobodyAwaited
    <2>5. AwaitsChildren'
      BY <2>3, SubPrefixesBelow DEF AwaitsChildren
    <2>6. \A x \in Prefixes : pc'[x] \notin Ended
      BY <2>1, <2>2 DEF Started, Ended
    <2>7. DoneBelow' /\ RootFails'
      BY <2>6, TreeFacts DEF DoneBelow, RootFails, Ended
    <2>8. QED
      BY <1>0, <2>4, <2>5, <2>7 DEF Joined, JoinInv
  <1>18. QED
    BY <1>0, <1>1, <1>2, <1>3, <1>4, <1>5, <1>6, <1>7, <1>8, <1>9, <1>10, <1>11, <1>12, <1>13,
       <1>14, <1>15, <1>16, <1>17 DEF JoinInv, Next, TaskStep

LEMMA JoinHolds == Spec => []JoinInv
  <1>1. Init => JoinInv
    <2> SUFFICES ASSUME Init PROVE JoinInv
      OBVIOUS
    <2>1. TreeInv
      BY TreeInit
    <2>2. \A p \in Prefixes : ~Started(p) /\ pc[p] \notin Ended /\ joinset[p] = {}
      BY DEF Init, Started, Ended
    <2>3. NobodyAwaited /\ AwaitsChildren
      BY <2>2 DEF NobodyAwaited, AwaitsChildren, Running
    <2>4. DoneBelow /\ RootFails
      BY <2>2, TreeFacts DEF DoneBelow, RootFails, Ended
    <2>5. QED
      BY <2>1, <2>3, <2>4 DEF JoinInv, Joined
  <1>2. QED
    BY <1>1, JoinStep, PTL DEF Spec

(* A failed sub-listing is never taken for the end of the listing, however deep   *)
(* below the prefix of the run it failed: it fails the listing as a whole and     *)
(* cancels the pipeline.                                                          *)
THEOREM FailuresReachRoot == Spec => []FailurePropagates
  <1>1. JoinInv => FailurePropagates
    <2> SUFFICES ASSUME JoinInv, Listed, NEW p \in Prefixes \ {Root}, pc[p] = "failed"
                 PROVE  pc[Root] = "failed" /\ cancelled
      BY DEF FailurePropagates
    <2>1. Started(p) /\ Above(Root, p)
      BY DEF Started, JoinInv, TreeInv, StartedFromRoot
    <2>2. ~AllDoneBelow(Root)
      BY <2>1 DEF AllDoneBelow
    <2>3. pc[Root] \in {"done", "failed", "aborted"}
      BY DEF Listed, Ended
    <2>4. QED
      BY <2>2, <2>3, TreeFacts DEF JoinInv, Joined, DoneBelow, RootFails
  <1>2. QED
    BY <1>1, JoinHolds, PTL

-----------------------------------------------------------------------------
(* No object is left out. *)

(* A task has sent the objects of its page before it goes on, and has started the *)
(* sub-tasks of the page before it waits for them, unless the run is cancelled.   *)
(* It ends in success with nothing in hand, unless nobody wants the objects.      *)
PageFinished ==
    /\ \A p \in Prefixes :
          pc[p] \in {"list", "fetch", "spawn", "acquire", "join", "page"} => objects[p] = {}
    /\ ~cancelled => \A p \in Prefixes :
          pc[p] \in {"list", "fetch", "join", "page"} => subs[p] = {}
    /\ ~cancelled /\ receiving => \A p \in Prefixes :
          pc[p] = "done" => remaining[p] = {} /\ objects[p] = {} /\ subs[p] = {}

(* The object is an entry p has in hand, or under a sub-prefix that is one. *)
InHand(p, o) ==
    \/ o \in remaining[p] \cup objects[p]
    \/ \E q \in (remaining[p] \cup subs[p]) \cap Prefixes : o \in ObjectsUnder(q)

(* While somebody wants the objects, each of them was sent or is in some hand. *)
Accounted ==
    ~cancelled /\ receiving /\ Started(Root) =>
        \A o \in Objects : sent[o] # 0 \/ \E p \in Prefixes : Started(p) /\ InHand(p, o)

FinishInv == TreeInv /\ PageFinished
CoverInv == TreeInv /\ PageFinished /\ Accounted

(* One task moves from label to label or ends. *)
LEMMA MoveFinished ==
    ASSUME FinishInv, NEW p \in Prefixes, NEW l \in PC, Goto(p, l),
           UNCHANGED <<remaining, objects, subs, receiving>>, cancelled => cancelled',
           l \in {"list", "fetch", "spawn", "acquire", "join", "page"} => objects[p] = {},
           l \in {"list", "fetch", "join", "page"} => subs[p] = {} \/ cancelled',
           l = "done" => \/ cancelled' \/ ~receiving
                         \/ remaining[p] = {} /\ objects[p] = {} /\ subs[p] = {}
    PROVE  PageFinished'
  <1>1. pc'[p] = l /\ \A x \in Prefixes : x # p => pc'[x] = pc[x]
    BY DEF FinishInv, TreeInv, TypeOK, Goto
  <1>2. QED
    BY <1>1 DEF FinishInv, PageFinished

LEMMA FinishStep ==
    ASSUME FinishInv, [Next]_vars
    PROVE  FinishInv'
  <1>0. FinishInv /\ TypeOK /\ TreeInv /\ PageFinished /\ TreeInv'
    BY TreeStep DEF FinishInv, TreeInv
  <1>a. {"list", "fetch", "send", "spawn", "acquire", "join", "page", "done", "failed", "aborted"}
           \subseteq PC
    BY DEF PC, Ended
  <1>b. \A p \in Prefixes :
           pc[p] \in {"list", "fetch", "spawn", "acquire", "join", "page"} => objects[p] = {}
    BY <1>0 DEF PageFinished
  <1>c. \A p \in Prefixes : pc[p] \in {"list", "fetch", "join", "page"} => subs[p] = {} \/ cancelled
    BY <1>0 DEF PageFinished
  <1>1. ASSUME NEW p \in Prefixes, Loop(p) PROVE PageFinished'
    <2>1. /\ UNCHANGED <<remaining, objects, subs, receiving, cancelled>>
          /\ objects[p] = {} /\ (subs[p] = {} \/ cancelled)
      BY <1>1, <1>b, <1>c DEF Loop
    <2>2. CASE cancelled
      BY <1>0, <1>1, <1>a, <2>1, <2>2, MoveFinished DEF Loop, End
    <2>3. CASE ~cancelled
      BY <1>0, <1>1, <1>a, <2>1, <2>3, MoveFinished DEF Loop
    <2>4. QED
      BY <2>2, <2>3
  <1>2. ASSUME NEW p \in Prefixes, FetchListPage(p) PROVE PageFinished'
    <2>1. pc'[p] = "send" /\ \A x \in Prefixes : x # p => pc'[x] = pc[x]
      BY <1>0, <1>2 DEF FetchListPage, Goto, TypeOK
    <2>2. /\ \A x \in Prefixes : x # p => /\ remaining'[x] = remaining[x]
                                          /\ objects'[x] = objects[x]
                                          /\ subs'[x] = subs[x]
          /\ UNCHANGED <<cancelled, receiving>>
      BY <1>0, <1>2 DEF FetchListPage, TypeOK
    <2>3. QED
      BY <1>0, <2>1, <2>2 DEF PageFinished
  <1>3. ASSUME NEW p \in Prefixes, FetchError(p) \/ MarkerError(p) PROVE PageFinished'
    BY <1>0, <1>3, <1>a, MoveFinished DEF FetchError, MarkerError, End
  <1>4. ASSUME NEW p \in Prefixes, SendListedObject(p) PROVE PageFinished'
    <2>1. \A x \in Prefixes : objects'[x] \subseteq objects[x]
      BY <1>0, <1>4 DEF SendListedObject, TypeOK
    <2>2. UNCHANGED <<pc, remaining, subs, cancelled, receiving>>
      BY <1>4 DEF SendListedObject
    <2>3. QED
      BY <1>0, <2>1, <2>2 DEF PageFinished
  <1>5. ASSUME NEW p \in Prefixes, StopSending(p) PROVE PageFinished'
    BY <1>0, <1>5, <1>a, MoveFinished DEF StopSending, End
  <1>6. ASSUME NEW p \in Prefixes, PageSent(p) PROVE PageFinished'
    BY <1>0, <1>6, <1>a, MoveFinished DEF PageSent
  <1>7. ASSUME NEW p \in Prefixes, NextSubPrefix(p) PROVE PageFinished'
    <2>1. objects[p] = {}
      BY <1>7, <1>b DEF NextSubPrefix
    <2>2. QED
      BY <1>0, <1>7, <1>a, <2>1, MoveFinished DEF NextSubPrefix
  <1>8. ASSUME NEW p \in Prefixes, SpawnSubPrefix(p) PROVE PageFinished'
    <2>1. PICK q \in subs[p] : Starts(p, q)
      BY <1>0, <1>8, SpawnStarts
    <2>2. objects[p] = {}
      BY <1>8, <1>b DEF SpawnSubPrefix
    <2>3. objects[q] = {} /\ subs[q] = {}
      BY <1>0, <2>1 DEF Starts, Started, TreeInv, OwnEntries
    <2>4. \A x \in Prefixes : pc'[x] \in {"list", "fetch", "join", "page", "done"} =>
             x = q \/ (x \notin {p, q} /\ pc'[x] = pc[x])
      BY <2>1 DEF Starts
    <2>5. \A x \in Prefixes :
             pc'[x] \in {"list", "fetch", "spawn", "acquire", "join", "page"} => objects'[x] = {}
      BY <1>b, <2>1, <2>2, <2>3 DEF Starts
    <2>6. ~cancelled' => \A x \in Prefixes :
             pc'[x] \in {"list", "fetch", "join", "page"} => subs'[x] = {}
      BY <1>c, <2>1, <2>3, <2>4 DEF Starts
    <2>7. ~cancelled' /\ receiving' => \A x \in Prefixes :
             pc'[x] = "done" => remaining'[x] = {} /\ objects'[x] = {} /\ subs'[x] = {}
      BY <1>0, <2>1, <2>4 DEF Starts, PageFinished
    <2>8. QED
      BY <2>5, <2>6, <2>7 DEF PageFinished
  <1>9. ASSUME NEW p \in Prefixes, SpawnDone(p) PROVE PageFinished'
    <2>1. objects[p] = {}
      BY <1>9, <1>b DEF SpawnDone
    <2>2. QED
      BY <1>0, <1>9, <1>a, <2>1, MoveFinished DEF SpawnDone
  <1>10. ASSUME NEW p \in Prefixes, JoinNext(p) PROVE PageFinished'
    BY <1>0, <1>10 DEF JoinNext, PageFinished
  <1>11. ASSUME NEW p \in Prefixes, JoinError(p) PROVE PageFinished'
    BY <1>0, <1>11, <1>a, MoveFinished DEF JoinError, End
  <1>12. ASSUME NEW p \in Prefixes, Abort(p) PROVE PageFinished'
    BY <1>0, <1>12, <1>a, MoveFinished DEF Abort, End
  <1>13. ASSUME NEW p \in Prefixes, JoinDone(p) PROVE PageFinished'
    <2>1. objects[p] = {} /\ (subs[p] = {} \/ cancelled)
      BY <1>13, <1>b, <1>c DEF JoinDone
    <2>2. QED
      BY <1>0, <1>13, <1>a, <2>1, MoveFinished DEF JoinDone
  <1>14. ASSUME NEW p \in Prefixes, Paginate(p) PROVE PageFinished'
    <2>1. /\ UNCHANGED <<remaining, objects, subs, receiving, cancelled>>
          /\ objects[p] = {} /\ (subs[p] = {} \/ cancelled)
      BY <1>14, <1>b, <1>c DEF Paginate
    <2>2. CASE remaining[p] = {}
      BY <1>0, <1>14, <1>a, <2>1, <2>2, MoveFinished DEF Paginate, End
    <2>3. CASE remaining[p] # {}
      BY <1>0, <1>14, <1>a, <2>1, <2>3, MoveFinished DEF Paginate
    <2>4. QED
      BY <2>2, <2>3
  <1>15. CASE Dispatch
    <2>1. \A x \in Prefixes : ~Started(x)
      BY <1>0, <1>15, TreeFacts DEF TreeInv, StartedFromRoot, Dispatch, Started
    <2>2. pc'[Root] = "list" /\ \A x \in Prefixes : x # Root => pc'[x] \in {"idle", "start"}
      BY <1>0, <1>15, <2>1, TreeFacts DEF Dispatch, Goto, TypeOK, Started
    <2>3. objects'[Root] = {} /\ subs'[Root] = {}
      BY <1>0, <1>15, <2>1, TreeFacts DEF Dispatch, TreeInv, OwnEntries
    <2>4. QED
      BY <1>0, <2>2, <2>3, TreeFacts DEF PageFinished, FinishInv
  <1>16. CASE Cancel \/ DropReceiver \/ Terminated \/ UNCHANGED vars
    BY <1>0, <1>16 DEF Cancel, DropReceiver, Terminated, PageFinished, FinishInv
  <1>17. QED
    BY <1>0, <1>1, <1>2, <1>3, <1>4, <1>5, <1>6, <1>7, <1>8, <1>9, <1>10, <1>11, <1>12, <1>13,
       <1>14, <1>15, <1>16 DEF FinishInv, Next, TaskStep

(* Nobody takes a cancellation back, and a dropped receiver stays away. *)
LEMMA OneWay ==
    ASSUME [Next]_vars
    PROVE  (cancelled => cancelled') /\ (receiving' => receiving)
  <1>1. CASE Dispatch \/ Cancel \/ DropReceiver \/ Terminated \/ UNCHANGED vars
    BY <1>1 DEF Dispatch, Cancel, DropReceiver, Terminated
  <1>2. ASSUME NEW p \in Prefixes, TaskStep(p)
        PROVE (cancelled => cancelled') /\ (receiving' => receiving)
    BY <1>2 DEF TaskStep, Loop, FetchListPage, FetchError, SendListedObject, StopSending, PageSent,
                NextSubPrefix, SpawnSubPrefix, SpawnDone, JoinNext, JoinError, Abort, JoinDone,
                Paginate, MarkerError
  <1>3. QED
    BY <1>1, <1>2 DEF Next

LEMMA CoverStep ==
    ASSUME CoverInv, [Next]_vars
    PROVE  CoverInv'
  <1>0. TypeOK /\ TreeInv /\ PageFinished /\ TreeInv' /\ PageFinished'
    BY TreeStep, FinishStep DEF CoverInv, FinishInv, TreeInv
  <1> SUFFICES ASSUME ~cancelled', receiving', Started(Root)', NEW o \in Objects
               PROVE  sent'[o] # 0 \/ \E p \in Prefixes : Started(p)' /\ InHand(p, o)'
    BY <1>0 DEF CoverInv, Accounted
  <1>1. ~cancelled /\ receiving
    BY OneWay
  <1>2. CASE Dispatch
    <2>1. o \in ObjectsUnder(Root)
      BY TreeFacts DEF ObjectsUnder
    <2>2. remaining'[Root] = Entries(Root)
      BY <1>0, <1>2, TreeFacts DEF Dispatch, TypeOK
    <2>3. InHand(Root, o)'
      BY <2>1, <2>2, EntriesCover, TreeFacts DEF InHand, ObjectsUnder
    <2>4. QED
      BY <2>3, TreeFacts
  <1>3. CASE Started(Root) /\ sent[o] # 0
    <2>1. sent'[o] = sent[o] \/ sent'[o] = sent[o] + 1
      <3>1. CASE InPlace
        BY <3>1 DEF InPlace
      <3>2. CASE Dispatch
        BY <3>2 DEF Dispatch
      <3>3. ASSUME NEW p \in Prefixes, FetchListPage(p) \/ SpawnSubPrefix(p)
            PROVE  sent'[o] = sent[o]
        BY <3>3 DEF FetchListPage, SpawnSubPrefix
      <3>4. ASSUME NEW p \in Prefixes, SendListedObject(p)
            PROVE  sent'[o] = sent[o] \/ sent'[o] = sent[o] + 1
        BY <1>0, <3>4 DEF SendListedObject, TypeOK
      <3>5. QED
        BY <1>0, <3>1, <3>2, <3>3, <3>4, StepKinds
    <2>2. sent[o] \in Nat
      BY <1>0 DEF TypeOK
    <2>3. QED
      BY <1>3, <2>1, <2>2
  <1>4. ASSUME NEW p \in Prefixes, Started(p), InHand(p, o)
        PROVE  sent'[o] # 0 \/ \E x \in Prefixes : Started(x)' /\ InHand(x, o)'
    <2>1. CASE InPlace
      BY <1>4, <2>1 DEF InPlace, InHand, ObjectsUnder
    <2>2. CASE Dispatch
      BY <1>2, <2>2
    <2>3. ASSUME NEW r \in Prefixes, FetchListPage(r) PROVE Started(p)' /\ InHand(p, o)'
      <3>1. PICK P \in PagesOf(remaining[r]) :
              /\ remaining' = [remaining EXCEPT ![r] = @ \ P]
              /\ objects' = [objects EXCEPT ![r] = P \cap Objects]
              /\ subs' = [subs EXCEPT ![r] = P \cap Prefixes]
        BY <2>3 DEF FetchListPage
      <3>2. Started(p)'
        BY <1>0, <1>4, <2>3 DEF FetchListPage, Goto, Started, TypeOK
      <3>3. CASE p # r
        <4>1. remaining'[p] = remaining[p] /\ objects'[p] = objects[p] /\ subs'[p] = subs[p]
          BY <1>0, <3>1, <3>3 DEF TypeOK
        <4>2. QED
          BY <1>4, <3>2, <4>1 DEF InHand, ObjectsUnder
      <3>4. CASE p = r
        <4>1. objects[p] = {} /\ subs[p] = {}
          BY <1>0, <1>1, <2>3, <3>4 DEF FetchListPage, PageFinished
        <4>2. remaining'[p] = remaining[p] \ P /\ objects'[p] = P \cap Objects
              /\ subs'[p] = P \cap Prefixes
          BY <1>0, <3>1, <3>4 DEF TypeOK
        <4>3. QED
          BY <1>4, <3>2, <4>1, <4>2 DEF InHand, ObjectsUnder
      <3>5. QED
        BY <3>3, <3>4
    <2>4. ASSUME NEW r \in Prefixes, SendListedObject(r)
          PROVE  sent'[o] # 0 \/ (Started(p)' /\ InHand(p, o)')
      <3>1. PICK x \in objects[r] : /\ objects' = [objects EXCEPT ![r] = @ \ {x}]
                                    /\ sent' = [sent EXCEPT ![x] = @ + 1]
        BY <2>4 DEF SendListedObject
      <3>2. UNCHANGED <<pc, remaining, subs>>
        BY <2>4 DEF SendListedObject
      <3>3. CASE x = o
        BY <1>0, <3>1, <3>3 DEF TypeOK
      <3>4. CASE x # o
        <4>1. o \in objects[p] => o \in objects'[p]
          BY <1>0, <3>1, <3>4 DEF TypeOK
        <4>2. QED
          BY <1>4, <3>2, <4>1 DEF InHand, ObjectsUnder, Started
      <3>5. QED
        BY <3>3, <3>4
    <2>5. ASSUME NEW r \in Prefixes, SpawnSubPrefix(r)
          PROVE  \E x \in Prefixes : Started(x)' /\ InHand(x, o)'
      <3>1. PICK q \in subs[r] : Starts(r, q)
        BY <1>0, <2>5, SpawnStarts
      <3>2. p # q /\ q \in Prefixes
        BY <1>4, <3>1 DEF Starts, Started
      <3>3. CASE o \in ObjectsUnder(q)
        <4>1. InHand(q, o)'
          BY <3>1, <3>2, <3>3, EntriesCover DEF Starts, InHand, ObjectsUnder
        <4>2. QED
          BY <3>1, <3>2, <4>1 DEF Starts
      <3>4. CASE o \notin ObjectsUnder(q)
        <4>1. Started(p)' /\ InHand(p, o)'
          BY <1>4, <3>1, <3>2, <3>4 DEF Starts, InHand, ObjectsUnder
        <4>2. QED
          BY <4>1
      <3>5. QED
        BY <3>3, <3>4
    <2>6. QED
      BY <1>0, <2>1, <2>2, <2>3, <2>4, <2>5, StepKinds
  <1>5. CASE ~Dispatch
    <2>1. Started(Root)
      <3>1. CASE InPlace
        BY <3>1, TreeFacts DEF InPlace
      <3>2. ASSUME NEW p \in Prefixes, FetchListPage(p) \/ SendListedObject(p) PROVE Started(Root)
        BY <1>0, <3>2, TreeFacts
        DEF FetchListPage, SendListedObject, TreeInv, StartedFromRoot, Started
      <3>3. ASSUME NEW p \in Prefixes, SpawnSubPrefix(p) PROVE Started(Root)
        BY <1>0, <3>3, SpawnStarts, TreeFacts DEF Starts
      <3>4. QED
        BY <1>0, <1>5, <3>1, <3>2, <3>3, StepKinds
    <2>2. QED
      BY <1>1, <1>3, <1>4, <2>1 DEF CoverInv, Accounted
  <1>6. QED
    BY <1>2, <1>5

LEMMA CoverHolds == Spec => []CoverInv
  <1>1. Init => CoverInv
    BY TreeInit, TreeFacts DEF CoverInv, PageFinished, Accounted, Init, Started
  <1>2. QED
    BY <1>1, CoverStep, PTL DEF Spec

(* The parallel listing sends no object twice, and one that ends in success with  *)
(* nobody cancelling and nobody leaving has sent every object, whatever the tree  *)
(* of prefixes, the depth limit, the page size and the number of permits.         *)
THEOREM ExactlyOnce == Spec => []ListedExactlyOnce
  <1>1. SentInv => NoDuplicates
    BY DEF SentInv, SentOnce, NoDuplicates
  <1>2. ASSUME SentInv, JoinInv, CoverInv PROVE Complete
    <2> SUFFICES ASSUME pc[Root] = "done", ~cancelled, receiving, NEW o \in Objects
                 PROVE  sent[o] = 1
      BY DEF Complete
    <2>1. Started(Root)
      BY DEF Started
    <2>2. ASSUME NEW p \in Prefixes, Started(p) PROVE ~InHand(p, o)
      <3>1. pc[p] = "done"
        BY <1>2, <2>2, TreeFacts
        DEF JoinInv, Joined, DoneBelow, AllDoneBelow, TreeInv, StartedFromRoot
      <3>2. QED
        BY <1>2, <3>1 DEF CoverInv, PageFinished, InHand
    <2>3. sent[o] # 0
      BY <1>2, <2>1, <2>2 DEF CoverInv, Accounted
    <2>4. QED
      BY <1>2, <2>3 DEF SentInv, SentOnce
  <1>3. QED
    BY <1>1, <1>2, SentHolds, JoinHolds, CoverHolds, PTL DEF ListedExactlyOnce

=============================================================================
