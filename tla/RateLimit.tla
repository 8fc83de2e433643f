----------------------------- MODULE RateLimit -----------------------------
(***************************************************************************)
(* The sliding-window limiter of the gateway (middleware/rateLimit.ts) and *)
(* the sorted sets it keeps in Valkey.  A request is stamped and its first *)
(* pipeline is sent in one turn of the event loop; the process has one     *)
(* connection (lib/redis.ts), so pipelines are executed and answered in    *)
(* the order they were sent in.  The stamp is used for every rule, however *)
(* late its turn comes.  Requests have distinct ids.                       *)
(***************************************************************************)
EXTENDS Integers, Sequences, FiniteSets

CONSTANTS
    MaxRequests,    \* requests of a behaviour
    MaxTime,        \* the clock stops here
    MaxWait,        \* longest stay of a pipeline on the connection
    MaxFaults,      \* pipelines without an answer in a behaviour
    Rules,          \* the rules of the route, in order: window and max
    Peers,          \* what a request says of its origin: xff, realIp, socket
    TrustForwardedFor

ASSUME RateLimitAssumption ==
    /\ MaxRequests \in Nat /\ MaxTime \in Nat /\ MaxWait \in Nat /\ MaxFaults \in Nat
    /\ Rules \in Seq([window : Nat \ {0}, max : Nat \ {0}]) /\ Rules # <<>>
    /\ TrustForwardedFor \in BOOLEAN

Requests == 1 .. MaxRequests
RuleIds == 1 .. Len(Rules)
Absent == ""

\* The identity a request is counted under.
ClientIp(peer) ==
    IF TrustForwardedFor /\ peer.xff # Absent THEN peer.xff
    ELSE IF TrustForwardedFor /\ peer.realIp # Absent THEN peer.realIp
    ELSE IF peer.socket # Absent THEN peer.socket
    ELSE "0.0.0.0"

Identities == {ClientIp(peer) : peer \in Peers}
Keys == RuleIds \X Identities

VARIABLES
    now,        \* the clock
    pc,         \* per request: "new", "queued" or its outcome
    at,         \* per request: nowMs of evaluate
    who,        \* per request: its identity
    wire,       \* pipelines on the connection: request, rule and when sent
    members,    \* Valkey: the sorted set under a key, scores with requests
    expires,    \* Valkey: when the key is dropped
    faults,     \* pipelines that were not answered
    passed      \* per rule: requests it counted and let through

vars == <<now, pc, at, who, wire, members, expires, faults, passed>>

Outcomes == {"admitted", "refused", "open"}

TypeOK ==
    /\ now \in 0 .. MaxTime
    /\ pc \in [Requests -> {"new", "queued"} \cup Outcomes]
    /\ at \in [Requests -> 0 .. MaxTime]
    /\ who \in [Requests -> Identities \cup {Absent}]
    /\ wire \in Seq([req : Requests, rule : RuleIds, sent : 0 .. MaxTime])
    /\ members \in [Keys -> SUBSET ((0 .. MaxTime) \X Requests)]
    /\ expires \in [Keys -> Nat]
    /\ faults \in 0 .. MaxFaults
    /\ passed \in [RuleIds -> SUBSET Requests]

Init ==
    /\ now = 0
    /\ pc = [r \in Requests |-> "new"]
    /\ at = [r \in Requests |-> 0]
    /\ who = [r \in Requests |-> Absent]
    /\ wire = <<>>
    /\ members = [key \in Keys |-> {}]
    /\ expires = [key \in Keys |-> 0]
    /\ faults = 0
    /\ passed = [k \in RuleIds |-> {}]

-----------------------------------------------------------------------------
\* Time passes; Valkey drops the keys nothing was added to for a window.  No
\* pipeline outlives maxRetriesPerRequest reconnections of connectTimeout each.
Tick ==
    /\ now < MaxTime
    /\ \A i \in 1 .. Len(wire) : now - wire[i].sent < MaxWait
    /\ now' = now + 1
    /\ members' = [key \in Keys |-> IF expires[key] <= now' THEN {} ELSE members[key]]
    /\ expires' = [key \in Keys |-> IF expires[key] <= now' THEN 0 ELSE expires[key]]
    /\ UNCHANGED <<pc, at, who, wire, faults, passed>>

\* The middleware runs: requests are numbered in the order they arrive in.
Arrive(r, peer) ==
    /\ pc[r] = "new"
    /\ \A q \in Requests : q < r => pc[q] # "new"
    /\ pc' = [pc EXCEPT ![r] = "queued"]
    /\ at' = [at EXCEPT ![r] = now]
    /\ who' = [who EXCEPT ![r] = ClientIp(peer)]
    /\ wire' = Append(wire, [req |-> r, rule |-> 1, sent |-> now])
    /\ UNCHANGED <<now, members, expires, faults, passed>>

KeyOf(job) == <<job.rule, who[job.req]>>

\* Mutant of Trimmed: an entry exactly a window old is kept.
TrimmedExclusive(job) ==
    {m \in members[KeyOf(job)] : m[1] >= at[job.req] - Rules[job.rule].window}

\* ZREMRANGEBYSCORE 0 .. nowMs - windowMs.
Trimmed(job) ==
    {m \in members[KeyOf(job)] : m[1] > at[job.req] - Rules[job.rule].window}

\* The set after ZADD; its size is what ZCARD answers.
Recorded(job) == Trimmed(job) \cup {<<at[job.req], job.req>>}

Tripped(job) == Cardinality(Recorded(job)) > Rules[job.rule].max

\* Mutant of Store: the lifetime of the key is set when it is created only.
StoreExpireOnce(job) ==
    /\ members' = [members EXCEPT ![KeyOf(job)] = Recorded(job)]
    /\ expires' = [expires EXCEPT ![KeyOf(job)] =
                      IF members[KeyOf(job)] = {} THEN now + Rules[job.rule].window ELSE @]

\* PEXPIRE counts from the execution, not from the stamp.
Store(job) ==
    /\ members' = [members EXCEPT ![KeyOf(job)] = Recorded(job)]
    /\ expires' = [expires EXCEPT ![KeyOf(job)] = now + Rules[job.rule].window]

Settle(job, outcome) ==
    /\ pc' = [pc EXCEPT ![job.req] = outcome]
    /\ wire' = Tail(wire)

\* On with the next rule, or through to the handler when this was the last.
Continue(job) ==
    IF job.rule < Len(Rules)
    THEN /\ wire' = Append(Tail(wire), [req |-> job.req, rule |-> job.rule + 1, sent |-> now])
         /\ pc' = pc
    ELSE Settle(job, "admitted")

\* A pipeline is executed and its answer reaches evaluate.
Evaluate ==
    /\ wire # <<>>
    /\ LET job == Head(wire) IN
        /\ Store(job)
        /\ \/ /\ Tripped(job)
              /\ Settle(job, "refused")
              /\ UNCHANGED passed
           \/ /\ ~Tripped(job)
              /\ passed' = [passed EXCEPT ![job.rule] = @ \cup {job.req}]
              /\ Continue(job)
    /\ UNCHANGED <<now, at, who, faults>>

\* Mutant of AfterError: the error is swallowed and next() never called.
AfterErrorSwallowed(job) == wire' = Tail(wire) /\ pc' = pc

\* No count to go by: a rejected exec() lets the request through, an error in
\* the place of the count skips the rule.
AfterError(job) == Settle(job, "open") \/ Continue(job)

\* Valkey is not reached or fails, before or after it has done the work.
NoAnswer ==
    /\ wire # <<>>
    /\ faults < MaxFaults
    /\ faults' = faults + 1
    /\ LET job == Head(wire) IN
        /\ AfterError(job)
        /\ Store(job) \/ UNCHANGED <<members, expires>>
    /\ UNCHANGED <<now, at, who, passed>>

Next ==
    \/ Tick
    \/ \E r \in Requests, peer \in Peers : Arrive(r, peer)
    \/ Evaluate
    \/ NoAnswer

\* A connection that is lost fails its pipelines; one that stays is answered.
Spec == Init /\ [][Next]_vars /\ WF_vars(Evaluate \/ NoAnswer)

-----------------------------------------------------------------------------
(* Properties.                                                             *)

\* The window a rule guarantees: shorter than its own by the time a request may
\* have spent on the connection, since the key expires by the clock of Valkey.
Guaranteed(k) == Rules[k].window - k * MaxWait

\* What rule k counted and let through of one client in such a window up to t.
PassedIn(k, id, t) ==
    {r \in passed[k] : who[r] = id /\ t - Guaranteed(k) < at[r] /\ at[r] <= t}

\* No guaranteed window holds more requests of a client than the rule allows,
\* with pipelines of several requests and rules under way and answers missing:
\* trimming and key expiry forget nothing too early.
WindowKept ==
    \A k \in RuleIds, id \in Identities, t \in 0 .. MaxTime :
        Cardinality(PassedIn(k, id, t)) <= Rules[k].max

\* Attempts of the client of r, other than r, in the window of rule k before r.
AttemptsBefore(k, r) ==
    {q \in Requests \ {r} : /\ pc[q] # "new" /\ who[q] = who[r]
                            /\ at[r] - Rules[k].window < at[q] /\ at[q] <= at[r]}

\* A refusal has a cause: under some rule the client itself made as many attempts
\* as that rule allows within its window, so one that stays silent for the longest
\* window is served, whatever other clients do.
RefusedWithCause ==
    \A r \in Requests : pc[r] = "refused" =>
        \E k \in RuleIds : Cardinality(AttemptsBefore(k, r)) >= Rules[k].max

\* The limiter never holds a request for ever, with Valkey up or down.
Answered ==
    \A r \in Requests : pc[r] = "queued" ~> pc[r] \in Outcomes
=============================================================================
