------------------------------ MODULE Storage -------------------------------
(* The storage behind the lister and the workers: how its client is configured,   *)
(* and the rate limiter its requests pass. Credentials, regions and timeouts are  *)
(* compared by where they come from.                                              *)
(*                                                                                *)
(* External: leaky_bucket::RateLimiter, a bucket of tokens that is refilled every *)
(* 100 ms; a fair one gives every token to whoever has waited longest. The AWS    *)
(* SDK looks up profiles in files and has a default chain of its own.             *)
EXTENDS Naturals, Sequences, FiniteSets

CONSTANTS
    Workers,
    Cases,         \* [client : ClientConfig or NoClient, rate, batch : Nat, express : BOOLEAN]
    Files,         \* the profile files: file -> profile -> [keys, region]
    DefaultFiles   \* the ones the SDK reads if it is told of no others

None == "none"
NoClient == [credential |-> None]
NoRate == 0
Timeouts == {"operation", "operation_attempt", "connect", "read"}

ASSUME StorageAssumption ==
    /\ \A c \in Cases : /\ c.rate \in Nat /\ c.batch \in Nat \ {0}
                        /\ c.rate # NoRate => c.batch <= c.rate     \* Arguments.RateLimitFits
    /\ None \notin DOMAIN Files /\ DefaultFiles \subseteq DOMAIN Files

-----------------------------------------------------------------------------
(* client_builder.rs. *)

GivenFiles(c) == {c.config_file, c.credentials_file} \ {None}

(* Faulty: the credentials are looked up in the credentials file only. *)
CredentialFilesOnly(c) ==
    IF GivenFiles(c) = {} THEN DefaultFiles ELSE {c.credentials_file} \ {None}
(* If one of the files is given, nothing else is read. *)
ProfileFiles(c) == IF GivenFiles(c) = {} THEN DefaultFiles ELSE GivenFiles(c)

(* What the SDK finds for a field of a profile in some files. *)
Lookup(files, profile, field) ==
    {Files[f][profile][field] : f \in {g \in files : profile \in DOMAIN Files[g]}} \ {None}

LoadConfigCredential(c) ==
    CASE c.credential = "Credentials" -> {"access keys"}
      [] c.credential = "Profile" -> Lookup(ProfileFiles(c), c.profile, "keys")
      [] c.credential = "FromEnvironment" -> {"default chain"}

BuildRegionProvider(c) ==
    CASE c.region # None -> {c.region}
      [] c.region = None /\ c.credential = "FromEnvironment" -> {"default chain"}
      [] c.region = None /\ c.credential = "Profile" -> Lookup(ProfileFiles(c), c.profile, "region")
      [] c.region = None /\ c.credential = "Credentials" -> Lookup(DefaultFiles, "default", "region")

BuildRetryConfig(c) == [max_attempts |-> c.max_attempts, initial_backoff |-> c.initial_backoff]

(* Only what was given is set; the rest, the timeout of a connection included,    *)
(* stays with the SDK.                                                            *)
BuildTimeoutConfig(c) == [t \in {u \in Timeouts : c.timeouts[u] # 0} |-> c.timeouts[t]]

CreateClient(c) ==
    [ keys |-> LoadConfigCredential(c), region |-> BuildRegionProvider(c),
      retry |-> BuildRetryConfig(c), timeouts |-> BuildTimeoutConfig(c) ]

-----------------------------------------------------------------------------
(* create_storage. *)

REFILL_PER_INTERVAL_DIVIDER == 10
(* Faulty: the share of an interval is rounded up. *)
RefillRoundedUp(rate) == rate \div REFILL_PER_INTERVAL_DIVIDER + 1
Refill(rate) ==
    IF rate <= REFILL_PER_INTERVAL_DIVIDER THEN 1 ELSE rate \div REFILL_PER_INTERVAL_DIVIDER
(* Faulty: whoever comes finds the tokens that others wait for. *)
Unfair == FALSE
Fair == TRUE

VARIABLES
    case,        \* never changes
    client,      \* the client, or NoClient
    tokens,      \* tokens in the bucket
    queue,       \* who waits: [actor, missing, cost]
    doing,       \* what each actor does: "idle", "waiting", "requesting", "panicked"
    watch        \* a second somebody watches: [ticks, admitted], or Off

storageVars == <<case, client, tokens, queue, doing, watch>>

Actors == Workers \cup {"lister"}
Off == [ticks |-> 0, admitted |-> 0, on |-> FALSE]
Limited == case.rate # NoRate

StorageInit ==
    /\ case \in Cases
    /\ client = NoClient
    /\ tokens = case.rate
    /\ queue = <<>>
    /\ doing = [a \in Actors |-> "created"]
    /\ watch = Off

(* S3StorageFactory::create *)
Create ==
    /\ \A a \in Actors : doing[a] = "created"
    /\ client' = IF case.client = NoClient THEN NoClient ELSE CreateClient(case.client)
    /\ doing' = [a \in Actors |-> "idle"]
    /\ UNCHANGED <<case, tokens, queue, watch>>

(* An actor that gets its tokens sends the request; without a client it panics. *)
Sent == IF client = NoClient THEN "panicked" ELSE "requesting"
Admitted(n) == watch' = IF watch.on THEN [watch EXCEPT !.admitted = @ + n] ELSE watch

(* acquire(n) of the limiter. *)
Acquire(a, n) ==
    \/ /\ tokens >= n /\ (Fair => queue = <<>>)
       /\ tokens' = tokens - n
       /\ doing' = [doing EXCEPT ![a] = Sent]
       /\ Admitted(n) /\ UNCHANGED queue
    \/ /\ ~(tokens >= n /\ (Fair => queue = <<>>))
       /\ LET had == IF Fair /\ queue = <<>> THEN tokens ELSE 0
          IN  queue' = Append(queue, [actor |-> a, missing |-> n - had, cost |-> n])
              /\ tokens' = tokens - had
       /\ doing' = [doing EXCEPT ![a] = "waiting"]
       /\ UNCHANGED watch

(* exec_rate_limit_objects_per_sec and ..._n, called at the start of a request:   *)
(* one token for a page, HeadObject, GetObjectTagging or DeleteObject, one per    *)
(* object for DeleteObjects.                                                      *)
ExecRateLimit(a, n) ==
    /\ doing[a] = "idle"
    /\ \/ ~Limited /\ doing' = [doing EXCEPT ![a] = Sent] /\ UNCHANGED <<tokens, queue, watch>>
       \/ Limited /\ Acquire(a, n)
    /\ UNCHANGED <<case, client>>

ListPage == ExecRateLimit("lister", 1)
HeadObject(w) == ExecRateLimit(w, 1)
GetObjectTagging(w) == ExecRateLimit(w, 1)
DeleteObject(w) == ExecRateLimit(w, 1)
DeleteObjects(w) == \E n \in {1, case.batch} : ExecRateLimit(w, n)

(* GetBucketVersioning passes no limiter. *)
IsVersioningEnabled(w) ==
    /\ doing[w] = "idle"
    /\ doing' = [doing EXCEPT ![w] = IF case.express THEN "idle" ELSE Sent]
    /\ UNCHANGED <<case, client, tokens, queue, watch>>

(* The request returns, with a result or an error. *)
Answer(a) ==
    /\ doing[a] = "requesting"
    /\ doing' = [doing EXCEPT ![a] = "idle"]
    /\ UNCHANGED <<case, client, tokens, queue, watch>>

(* The sums of the first values of a sequence, up to all n of them. *)
Totals(f, n) ==
    LET sum[i \in 0 .. n] == IF i = 0 THEN 0 ELSE sum[i - 1] + f[i] IN sum
(* What the first k who wait still miss, and what they asked for. *)
Needs(k) == Totals([i \in DOMAIN queue |-> queue[i].missing], Len(queue))[k]
Costs(k) == Totals([i \in DOMAIN queue |-> queue[i].cost], Len(queue))[k]

(* The first k who wait are served with t tokens. *)
Serve(t, k) ==
    /\ doing' = [a \in Actors |-> IF \E i \in 1 .. k : queue[i].actor = a THEN Sent ELSE doing[a]]
    /\ LET rest == SubSeq(queue, k + 1, Len(queue))
           left == t - Needs(k)
       IN  IF Fair /\ rest # <<>>
           THEN queue' = [rest EXCEPT ![1].missing = @ - left] /\ tokens' = 0
           ELSE queue' = rest /\ tokens' = left
    /\ LET admitted == watch.admitted + Costs(k)
       IN  watch' = IF watch.on /\ watch.ticks < REFILL_PER_INTERVAL_DIVIDER - 1
                    THEN [ticks |-> watch.ticks + 1, admitted |-> admitted, on |-> TRUE] ELSE Off

(* 100 ms have passed. *)
Tick ==
    /\ Limited /\ \A a \in Actors : doing[a] # "created"
    /\ LET full == IF tokens + Refill(case.rate) > case.rate THEN case.rate
                   ELSE tokens + Refill(case.rate)
       IN  \E k \in 0 .. Len(queue) :
              /\ Needs(k) <= full
              /\ k < Len(queue) => Needs(k + 1) > full
              /\ Serve(full, k)
    /\ UNCHANGED <<case, client>>

(* Somebody starts to count. *)
Watch ==
    /\ Limited /\ ~watch.on
    /\ watch' = [Off EXCEPT !.on = TRUE]
    /\ UNCHANGED <<case, client, tokens, queue, doing>>

StorageNext ==
    \/ Create \/ ListPage \/ Tick \/ Watch
    \/ \E w \in Workers : \/ HeadObject(w) \/ GetObjectTagging(w) \/ DeleteObject(w)
                          \/ DeleteObjects(w) \/ IsVersioningEnabled(w)
    \/ \E a \in Actors : Answer(a)

(* Time passes; S3 answers. *)
StorageSpec ==
    /\ StorageInit /\ [][StorageNext]_storageVars
    /\ WF_storageVars(Create) /\ WF_storageVars(Tick) /\ \A a \in Actors : WF_storageVars(Answer(a))

-----------------------------------------------------------------------------
(* Properties. *)

(* Every variable has its type, the bucket never overflows, and it is empty       *)
(* while somebody waits.                                                          *)
StorageTypeOK ==
    /\ case \in Cases
    /\ tokens \in 0 .. case.rate
    /\ queue # <<>> => tokens = 0
    /\ \A i \in DOMAIN queue : queue[i].missing \in 1 .. queue[i].cost
    /\ doing \in [Actors -> {"created", "idle", "waiting", "requesting", "panicked"}]
    /\ {a \in Actors : doing[a] = "waiting"} = {queue[i].actor : i \in DOMAIN queue}
    /\ watch.ticks \in 0 .. REFILL_PER_INTERVAL_DIVIDER /\ watch.admitted \in Nat

(* Whenever one starts to watch, after n intervals no more objects were let       *)
(* through than the bucket holds, the rate, and n tenths of the rate: the rate    *)
(* limit is never exceeded by more than one burst, also by a batch that waited    *)
(* with tokens it had collected before.                                           *)
PacedBound ==
    watch.on /\ case.rate >= REFILL_PER_INTERVAL_DIVIDER =>
        watch.admitted * REFILL_PER_INTERVAL_DIVIDER
            <= case.rate * (REFILL_PER_INTERVAL_DIVIDER + watch.ticks)

(* For a profile, the keys and the region are found in whichever of the given     *)
(* files has them (client_builder.rs: "both aws_config_file and                   *)
(* aws_shared_credentials_file are passed to both the credentials provider and    *)
(* the region provider"); an explicit region wins.                                *)
ProfileWired ==
    client # NoClient =>
        LET c == case.client
            given == IF GivenFiles(c) = {} THEN DefaultFiles ELSE GivenFiles(c)
            inSome(field) == \E f \in given : c.profile \in DOMAIN Files[f] /\ Files[f][c.profile][field] # None
        IN  /\ c.region # None => client.region = {c.region}
            /\ c.credential = "Profile" =>
                 /\ client.keys # {} <=> inSome("keys")
                 /\ c.region = None => (client.region # {} <=> inSome("region"))

(* Whoever waits for tokens gets them, a large batch too, whatever the others     *)
(* keep asking for.                                                               *)
Served == \A a \in Actors : doing[a] = "waiting" ~> doing[a] # "waiting"

=============================================================================
