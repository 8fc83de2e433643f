-------------------------- MODULE RateLimit_proofs --------------------------
(***************************************************************************)
(* Theorems about RateLimit, for any rules, any number of requests and any *)
(* times.  A request that a rule let through stays in its sorted set until *)
(* a window after its stamp, so the count of a later one includes it; and  *)
(* pipelines of one rule are executed in the order of the requests, so the *)
(* count of a request includes earlier ones only.                          *)
(***************************************************************************)
EXTENDS RateLimit, FiniteSetTheorems, TLAPS

Jobs == [req : Requests, rule : RuleIds, sent : Nat]

\* The types that the argument needs.
Types ==
    /\ now \in Nat
    /\ pc \in [Requests -> {"new", "queued"} \cup Outcomes]
    /\ at \in [Requests -> Nat]
    /\ DOMAIN who = Requests
    /\ wire \in Seq(Jobs)
    /\ DOMAIN members = Keys
    /\ expires \in [Keys -> Nat]
    /\ passed \in [RuleIds -> SUBSET Requests]

\* Requests are stamped in the order they arrive in.
ArrivalInv ==
    \A q \in Requests : pc[q] # "new" =>
        /\ at[q] <= now
        /\ who[q] \in Identities
        /\ \A p \in Requests : p < q => pc[p] # "new" /\ at[p] <= at[q]

\* A request under way has spent at most MaxWait on each pipeline so far.
WaitInv ==
    \A i \in 1 .. Len(wire) :
        /\ pc[wire[i].req] = "queued"
        /\ wire[i].sent <= now /\ now - wire[i].sent <= MaxWait
        /\ wire[i].sent - at[wire[i].req] <= (wire[i].rule - 1) * MaxWait

\* On the connection, a request is behind the later ones only if it is further.
OrderInv ==
    \A i, j \in 1 .. Len(wire) : i < j =>
        \/ wire[i].req < wire[j].req /\ wire[j].rule <= wire[i].rule
        \/ wire[j].req < wire[i].req /\ wire[i].rule < wire[j].rule

\* What a sorted set holds: attempts of its client, with their stamps, earlier
\* than those still to be counted in it.
MembersInv ==
    \A k \in RuleIds, id \in Identities : \A m \in members[<<k, id>>] :
        \E q \in Requests :
            /\ m = <<at[q], q>> /\ pc[q] # "new" /\ who[q] = id
            /\ \A i \in 1 .. Len(wire) : wire[i].rule <= k => q < wire[i].req

\* A request is in the sorted set for a window from its stamp, and the key lives
\* as long.
Kept(k, q) ==
    now < at[q] + Rules[k].window =>
        /\ <<at[q], q>> \in members[<<k, who[q]>>]
        /\ at[q] + Rules[k].window <= expires[<<k, who[q]>>]

\* So is every request that a rule let through.
PassedInv == \A k \in RuleIds : \A q \in passed[k] : pc[q] # "new" /\ Kept(k, q)

\* The inductive invariant.
Inv ==
    /\ Types /\ ArrivalInv /\ WaitInv /\ OrderInv /\ MembersInv /\ PassedInv
    /\ WindowKept /\ RefusedWithCause

-----------------------------------------------------------------------------
(* Facts about the operators.                                              *)

\* An element of a sequence.
LEMMA Element ==
    ASSUME NEW S, NEW s \in Seq(S), NEW i \in 1 .. Len(s)
    PROVE  s[i] \in S
  OBVIOUS

\* A queue without its first element, and with another one behind.
LEMMA Dequeued ==
    ASSUME NEW S, NEW s \in Seq(S), s # <<>>
    PROVE  /\ Head(s) = s[1] /\ s[1] \in S /\ Len(s) \in Nat /\ 1 <= Len(s)
           /\ Tail(s) \in Seq(S) /\ Len(Tail(s)) = Len(s) - 1
           /\ \A i \in 1 .. Len(Tail(s)) : Tail(s)[i] = s[i + 1]
  OBVIOUS

LEMMA Enqueued ==
    ASSUME NEW S, NEW s \in Seq(S), NEW x \in S
    PROVE  /\ Append(s, x) \in Seq(S) /\ Len(Append(s, x)) = Len(s) + 1 /\ Len(s) \in Nat
           /\ \A i \in 1 .. Len(s) : Append(s, x)[i] = s[i]
           /\ Append(s, x)[Len(s) + 1] = x
  OBVIOUS

\* Limits of a rule are numbers.
LEMMA RuleTypes ==
    ASSUME NEW k \in RuleIds
    PROVE  k \in Nat \ {0} /\ Rules[k].window \in Nat \ {0} /\ Rules[k].max \in Nat \ {0}
  <1>1. /\ Rules \in Seq([window : Nat \ {0}, max : Nat \ {0}])
        /\ Len(Rules) \in Nat /\ k \in 1 .. Len(Rules)
    BY RateLimitAssumption DEF RuleIds
  <1>2. Rules[k] \in [window : Nat \ {0}, max : Nat \ {0}]
    BY <1>1, Element
  <1> QED
    BY <1>1, <1>2

LEMMA RulesCount == Len(Rules) \in Nat
  BY RateLimitAssumption

\* What k pipelines may wait is what k - 1 may wait and one more.
LEMMA WaitSum ==
    ASSUME NEW k \in Nat \ {0}
    PROVE  /\ (k - 1) * MaxWait \in Int /\ k * MaxWait \in Int
           /\ (k - 1) * MaxWait + MaxWait = k * MaxWait
  <1>1. MaxWait \in Int
    BY RateLimitAssumption
  <1>2. PICK m \in Int : m = MaxWait
    BY <1>1
  <1>3. (k - 1) * m \in Int /\ k * m \in Int /\ (k - 1) * m + m = k * m
    BY <1>2
  <1> QED
    BY <1>2, <1>3

\* Requests are finitely many numbers.
LEMMA RequestsFinite == IsFiniteSet(Requests) /\ Requests \subseteq Nat
  <1>1. 1 \in Int /\ MaxRequests \in Int
    BY RateLimitAssumption
  <1>2. IsFiniteSet(1 .. MaxRequests)
    BY <1>1, FS_Interval
  <1> QED
    BY <1>1, <1>2 DEF Requests

\* Stamped requests are as many as the requests: the member of the sorted set
\* names its request.
LEMMA StampCount ==
    ASSUME NEW A \in SUBSET Requests, NEW M, M = {<<at[q], q>> : q \in A}
    PROVE  IsFiniteSet(A) /\ Cardinality(M) = Cardinality(A) /\ Cardinality(A) \in Nat
  <1>1. IsFiniteSet(A)
    BY RequestsFinite, FS_Subset
  <1> DEFINE f == [q \in A |-> <<at[q], q>>]
  <1>2. f \in Bijection(A, M)
    BY DEF Bijection, Injection, Surjection, IsInjective
  <1>3. ExistsBijection(A, M)
    BY <1>2 DEF ExistsBijection
  <1> QED
    BY <1>1, <1>3, FS_Bijection, FS_CardinalityType

\* What ZCARD answers is the number of requests in the trimmed set.
LEMMA Counted ==
    ASSUME Types, MembersInv, NEW job \in Jobs, who[job.req] \in Identities,
           NEW A, A = {q \in Requests : <<at[q], q>> \in Recorded(job)}
    PROVE  /\ IsFiniteSet(A) /\ Cardinality(A) \in Nat
           /\ Cardinality(Recorded(job)) = Cardinality(A)
  <1>1. job.req \in Requests /\ job.rule \in RuleIds
    BY DEF Jobs
  <1>2. \A m \in Recorded(job) : \E q \in Requests : m = <<at[q], q>>
    BY <1>1 DEF Recorded, Trimmed, KeyOf, MembersInv
  <1>3. Recorded(job) = {<<at[q], q>> : q \in A}
    BY <1>2
  <1> QED
    BY <1>3, StampCount

-----------------------------------------------------------------------------
(* The connection.                                                         *)

\* The pipelines after the first has been answered, or has failed.
LEMMA WireAfter ==
    ASSUME Types, wire # <<>>,
           (\E o \in Outcomes : Settle(Head(wire), o)) \/ Continue(Head(wire))
    PROVE  /\ Head(wire) = wire[1] /\ 1 \in 1 .. Len(wire)
           /\ wire' \in Seq(Jobs)
           /\ \A i \in 1 .. Len(wire') :
                 \/ i + 1 \in 1 .. Len(wire) /\ wire'[i] = wire[i + 1]
                 \/ /\ i = Len(wire) /\ wire'[i].req = wire[1].req
                    /\ wire'[i].rule = wire[1].rule + 1 /\ wire'[i].sent = now
                    /\ pc' = pc
           /\ pc' \in [Requests -> {"new", "queued"} \cup Outcomes]
           /\ \A q \in Requests : pc'[q] = pc[q] \/ (q = wire[1].req /\ pc'[q] \in Outcomes)
  <1>1. wire \in Seq(Jobs) /\ now \in Nat /\ pc \in [Requests -> {"new", "queued"} \cup Outcomes]
    BY DEF Types
  <1>2. /\ Head(wire) = wire[1] /\ wire[1] \in Jobs /\ Len(wire) \in Nat /\ 1 <= Len(wire)
        /\ Tail(wire) \in Seq(Jobs) /\ Len(Tail(wire)) = Len(wire) - 1
        /\ \A i \in 1 .. Len(Tail(wire)) : Tail(wire)[i] = wire[i + 1]
    BY <1>1, Dequeued
  <1>3. /\ Head(wire) = wire[1] /\ 1 \in 1 .. Len(wire)
        /\ wire[1].req \in Requests /\ wire[1].rule \in RuleIds
    BY <1>2 DEF Jobs
  <1>4. CASE \E o \in Outcomes : Settle(Head(wire), o)
    <2>1. PICK o \in Outcomes : Settle(Head(wire), o)
      BY <1>4
    <2>2. pc' = [pc EXCEPT ![wire[1].req] = o] /\ wire' = Tail(wire)
      BY <1>2, <2>1 DEF Settle
    <2>3. \A i \in 1 .. Len(wire') :
              i + 1 \in 1 .. Len(wire) /\ wire'[i] = wire[i + 1] /\ i < Len(wire)
      BY <1>2, <2>2
    <2>4. /\ pc' \in [Requests -> {"new", "queued"} \cup Outcomes]
          /\ \A q \in Requests : pc'[q] = pc[q] \/ (q = wire[1].req /\ pc'[q] \in Outcomes)
      BY <1>1, <1>3, <2>2
    <2>5. wire' \in Seq(Jobs)
      BY <1>2, <2>2
    <2> QED
      BY <1>3, <2>3, <2>4, <2>5
  <1>5. CASE Continue(Head(wire)) /\ wire[1].rule < Len(Rules)
    <2> DEFINE job == [req |-> wire[1].req, rule |-> wire[1].rule + 1, sent |-> now]
    <2>1. wire[1].rule + 1 \in RuleIds
      BY <1>3, <1>5, RulesCount DEF RuleIds
    <2>2. job \in Jobs
      BY <1>1, <1>3, <2>1 DEF Jobs
    <2>3. wire' = Append(Tail(wire), job) /\ pc' = pc
      BY <1>2, <1>5 DEF Continue
    <2>4. job.req = wire[1].req /\ job.rule = wire[1].rule + 1 /\ job.sent = now
      OBVIOUS
    <2> HIDE DEF job
    <2>5. /\ wire' \in Seq(Jobs) /\ Len(wire') = Len(Tail(wire)) + 1
          /\ \A i \in 1 .. Len(Tail(wire)) : wire'[i] = Tail(wire)[i]
          /\ wire'[Len(Tail(wire)) + 1] = job
      BY <1>2, <2>2, <2>3, Enqueued
    <2>6. \A i \in 1 .. Len(wire') :
              \/ i + 1 \in 1 .. Len(wire) /\ wire'[i] = wire[i + 1]
              \/ i = Len(wire) /\ wire'[i] = job
      BY <1>2, <2>5
    <2>7. \A i \in 1 .. Len(wire') :
              \/ i + 1 \in 1 .. Len(wire) /\ wire'[i] = wire[i + 1]
              \/ /\ i = Len(wire) /\ wire'[i].req = wire[1].req
                 /\ wire'[i].rule = wire[1].rule + 1 /\ wire'[i].sent = now
                 /\ pc' = pc
      BY <2>3, <2>4, <2>6
    <2>8. wire' \in Seq(Jobs)
      BY <2>5
    <2> QED
      BY <1>1, <1>3, <2>3, <2>7, <2>8
  <1>6. CASE Continue(Head(wire)) /\ ~(wire[1].rule < Len(Rules))
    <2>1. Settle(Head(wire), "admitted")
      BY <1>2, <1>6 DEF Continue
    <2> QED
      BY <1>4, <2>1 DEF Outcomes
  <1> QED
    BY <1>4, <1>5, <1>6

\* The pipeline at the head is executed within MaxWait per rule of the stamp.
LEMMA HeadWait ==
    ASSUME Types, WaitInv, ArrivalInv, 1 \in 1 .. Len(wire)
    PROVE  LET job == wire[1] IN
           /\ job \in Jobs /\ job.req \in Requests /\ job.rule \in RuleIds
           /\ pc[job.req] = "queued" /\ who[job.req] \in Identities
           /\ at[job.req] <= now /\ now - at[job.req] <= job.rule * MaxWait
  <1> DEFINE job == wire[1]
  <1>1. job \in Jobs
    BY Element DEF Types
  <1>2. job.req \in Requests /\ job.rule \in RuleIds /\ job.sent \in Nat
    BY <1>1 DEF Jobs
  <1>3. /\ pc[job.req] = "queued"
        /\ now - job.sent <= MaxWait
        /\ job.sent - at[job.req] <= (job.rule - 1) * MaxWait
    BY DEF WaitInv
  <1>4. at[job.req] <= now /\ who[job.req] \in Identities
    BY <1>2, <1>3 DEF ArrivalInv
  <1>5. job.rule \in Nat \ {0}
    BY <1>2, RuleTypes
  <1>6. PICK x \in Int : x = (job.rule - 1) * MaxWait /\ x + MaxWait = job.rule * MaxWait
    <2>1. PICK k \in Nat \ {0} : k = job.rule
      BY <1>5
    <2>2. (k - 1) * MaxWait \in Int /\ (k - 1) * MaxWait + MaxWait = k * MaxWait
      BY WaitSum
    <2> QED
      BY <2>1, <2>2
  <1>7. now \in Int /\ at[job.req] \in Int /\ MaxWait \in Int
    BY <1>2, RateLimitAssumption DEF Types
  <1>8. job.sent - at[job.req] <= x
    BY <1>3, <1>6
  <1>9. now - at[job.req] <= x + MaxWait
    <2>1. PICK s \in Nat, t \in Int : s = job.sent /\ t = at[job.req]
      BY <1>2, <1>7
    <2>2. now - s <= MaxWait /\ s - t <= x
      BY <1>3, <1>8, <2>1
    <2>3. now - t <= x + MaxWait
      BY <1>7, <2>2
    <2> QED
      BY <2>1, <2>3
  <1> QED
    BY <1>1, <1>2, <1>3, <1>4, <1>6, <1>9

\* Answering or failing the first pipeline keeps order and waiting times.
LEMMA QueueStep ==
    ASSUME Inv, wire # <<>>, UNCHANGED <<now, at, who>>,
           (\E o \in Outcomes : Settle(Head(wire), o)) \/ Continue(Head(wire))
    PROVE  ArrivalInv' /\ WaitInv' /\ OrderInv'
  <1>1. Types /\ ArrivalInv /\ WaitInv /\ OrderInv
    BY DEF Inv
  <1> DEFINE r == wire[1].req
             k == wire[1].rule
  <1>2. /\ wire' \in Seq(Jobs) /\ 1 \in 1 .. Len(wire)
        /\ \A i \in 1 .. Len(wire') :
              \/ i + 1 \in 1 .. Len(wire) /\ wire'[i] = wire[i + 1]
              \/ /\ i = Len(wire) /\ wire'[i].req = r
                 /\ wire'[i].rule = k + 1 /\ wire'[i].sent = now /\ pc' = pc
        /\ \A q \in Requests : pc'[q] = pc[q] \/ (q = r /\ pc'[q] \in Outcomes)
    BY <1>1, WireAfter
  <1>3. /\ r \in Requests /\ k \in RuleIds /\ pc[r] = "queued" /\ who[r] \in Identities
        /\ at[r] <= now /\ now - at[r] <= k * MaxWait
    BY <1>1, <1>2, HeadWait
  <1>4. r \in Nat /\ k \in Nat /\ Len(wire) \in Nat /\ Len(wire') \in Nat /\ now \in Nat
    <2>1. r \in Nat /\ k \in Nat
      BY <1>3, RequestsFinite, RuleTypes
    <2>2. Len(wire) \in Nat /\ Len(wire') \in Nat /\ now \in Nat
      BY <1>1, <1>2 DEF Types
    <2> QED
      BY <2>1, <2>2
  <1>5. /\ \A i \in 1 .. Len(wire) : wire[i].req \in Requests /\ wire[i].rule \in Nat
        /\ \A i \in 1 .. Len(wire) : wire[i].req \in Nat
    <2>1. \A i \in 1 .. Len(wire) : wire[i] \in Jobs
      BY <1>1, Element DEF Types
    <2> QED
      BY <2>1, RequestsFinite, RuleTypes DEF Jobs
  <1>6. \A i \in 1 .. Len(wire) : i > 1 =>
            \/ r < wire[i].req /\ wire[i].rule <= k
            \/ wire[i].req < r /\ k < wire[i].rule
    BY <1>1, <1>2 DEF OrderInv
  <1>7. ArrivalInv'
    <2>1. \A q \in Requests : pc'[q] # "new" <=> pc[q] # "new"
      BY <1>2, <1>3 DEF Outcomes
    <2> QED
      BY <1>1, <2>1 DEF ArrivalInv
  <1>8. WaitInv'
    <2> SUFFICES ASSUME NEW i \in 1 .. Len(wire')
                 PROVE  /\ pc'[wire'[i].req] = "queued"
                        /\ wire'[i].sent <= now /\ now - wire'[i].sent <= MaxWait
                        /\ wire'[i].sent - at[wire'[i].req] <= (wire'[i].rule - 1) * MaxWait
      BY DEF WaitInv
    <2>1. CASE i + 1 \in 1 .. Len(wire) /\ wire'[i] = wire[i + 1]
      <3>1. i + 1 > 1
        BY <1>4
      <3>2. wire[i + 1].req \in Requests /\ wire[i + 1].req # r
        BY <1>4, <1>5, <1>6, <2>1, <3>1
      <3>3. pc'[wire[i + 1].req] = pc[wire[i + 1].req]
        BY <1>2, <3>2
      <3> QED
        BY <1>1, <2>1, <3>3 DEF WaitInv
    <2>2. CASE /\ i = Len(wire) /\ wire'[i].req = r
               /\ wire'[i].rule = k + 1 /\ wire'[i].sent = now /\ pc' = pc
      <3>1. (k + 1) - 1 = k
        BY <1>4
      <3>2. wire'[i].rule - 1 = k
        BY <2>2, <3>1
      <3>3. now - now <= MaxWait /\ now <= now
        BY <1>4, RateLimitAssumption
      <3> QED
        BY <1>3, <2>2, <3>2, <3>3
    <2> QED
      BY <1>2, <2>1, <2>2
  <1>9. OrderInv'
    <2> SUFFICES ASSUME NEW i \in 1 .. Len(wire'), NEW j \in 1 .. Len(wire'), i < j
                 PROVE  \/ wire'[i].req < wire'[j].req /\ wire'[j].rule <= wire'[i].rule
                        \/ wire'[j].req < wire'[i].req /\ wire'[i].rule < wire'[j].rule
      BY DEF OrderInv
    <2>1. i \in Nat /\ j \in Nat /\ i + 1 < j + 1 /\ i + 1 > 1
      BY <1>4
    <2>2. CASE j + 1 \in 1 .. Len(wire) /\ wire'[j] = wire[j + 1]
      <3>1. i + 1 \in 1 .. Len(wire) /\ wire'[i] = wire[i + 1]
        BY <1>2, <1>4, <2>1, <2>2
      <3> QED
        BY <1>1, <2>1, <2>2, <3>1 DEF OrderInv
    <2>3. CASE j = Len(wire) /\ wire'[j].req = r /\ wire'[j].rule = k + 1
      <3>1. i + 1 \in 1 .. Len(wire) /\ wire'[i] = wire[i + 1]
        BY <1>2, <1>4, <2>1, <2>3
      <3>2. \/ r < wire'[i].req /\ wire'[i].rule <= k
            \/ wire'[i].req < r /\ k < wire'[i].rule
        BY <1>6, <2>1, <3>1
      <3> QED
        BY <1>4, <1>5, <2>3, <3>1, <3>2
    <2> QED
      BY <1>2, <2>2, <2>3
  <1> QED
    BY <1>7, <1>8, <1>9

-----------------------------------------------------------------------------
(* The sorted sets.                                                        *)

\* Executing the first pipeline, or failing it, keeps in the sorted sets what
\* has to be there, and adds nothing that some other pipeline comes before.
LEMMA StoreStep ==
    ASSUME Inv, wire # <<>>, UNCHANGED <<now, at, who>>,
           (\E o \in Outcomes : Settle(Head(wire), o)) \/ Continue(Head(wire)),
           Store(Head(wire)) \/ UNCHANGED <<members, expires>>
    PROVE  /\ DOMAIN members' = Keys /\ expires' \in [Keys -> Nat]
           /\ MembersInv'
           /\ \A k \in RuleIds : \A q \in passed[k] : Kept(k, q)'
           /\ Store(Head(wire)) => \A k \in RuleIds, q \in Requests :
                  k = wire[1].rule /\ q = wire[1].req => Kept(k, q)'
  <1>1. Types /\ ArrivalInv /\ WaitInv /\ OrderInv /\ MembersInv /\ PassedInv
    BY DEF Inv
  <1> DEFINE job == wire[1]
             r == job.req
             k == job.rule
             key == <<k, who[r]>>
  <1>2. /\ Head(wire) = job /\ 1 \in 1 .. Len(wire) /\ wire' \in Seq(Jobs)
        /\ \A i \in 1 .. Len(wire') :
              \/ i + 1 \in 1 .. Len(wire) /\ wire'[i] = wire[i + 1]
              \/ wire'[i].req = r /\ wire'[i].rule = k + 1
        /\ \A q \in Requests : pc'[q] = pc[q] \/ (q = r /\ pc'[q] \in Outcomes)
    BY <1>1, WireAfter
  <1>3. /\ job \in Jobs /\ r \in Requests /\ k \in RuleIds /\ pc[r] = "queued"
        /\ who[r] \in Identities /\ at[r] <= now
    BY <1>1, <1>2, HeadWait
  <1>4. r \in Nat /\ k \in Nat /\ Rules[k].window \in Nat /\ at[r] \in Nat /\ now \in Nat
    BY <1>1, <1>3, RequestsFinite, RuleTypes DEF Types
  <1>5. key \in Keys
    BY <1>3 DEF Keys
  <1>6. \A q \in Requests : pc'[q] # "new" <=> pc[q] # "new"
    BY <1>2, <1>3 DEF Outcomes
  <1>7. \A x \in Keys : x # key => members'[x] = members[x] /\ expires'[x] = expires[x]
    BY <1>1, <1>2 DEF Store, KeyOf, Types
  <1>8. \/ members'[key] = Recorded(job) /\ expires'[key] = now + Rules[k].window
        \/ members'[key] = members[key] /\ expires'[key] = expires[key]
    BY <1>1, <1>2, <1>5 DEF Store, KeyOf, Types
  <1>9. DOMAIN members' = Keys /\ expires' \in [Keys -> Nat]
    <2>1. now + Rules[k].window \in Nat
      BY <1>4
    <2>2. DOMAIN members = Keys /\ expires \in [Keys -> Nat]
      BY <1>1 DEF Types
    <2>3. CASE UNCHANGED <<members, expires>>
      BY <2>2, <2>3
    <2>4. CASE Store(job)
      <3>1. /\ DOMAIN members' = DOMAIN members
            /\ expires' = [expires EXCEPT ![key] = now + Rules[k].window]
        BY <2>4 DEF Store, KeyOf
      <3> QED
        BY <2>1, <2>2, <3>1
    <2> QED
      BY <1>2, <2>3, <2>4
  <1>10. \A m \in Recorded(job) : m = <<at[r], r>> \/ m \in members[key]
    BY DEF Recorded, Trimmed, KeyOf
  <1>11. MembersInv'
    <2> SUFFICES ASSUME NEW l \in RuleIds, NEW id \in Identities,
                        NEW m \in members'[<<l, id>>]
                 PROVE  \E q \in Requests :
                            /\ m = <<at[q], q>> /\ pc'[q] # "new" /\ who[q] = id
                            /\ \A i \in 1 .. Len(wire') : wire'[i].rule <= l => q < wire'[i].req
      BY DEF MembersInv
    <2>1. <<l, id>> \in Keys /\ l \in Nat
      BY RuleTypes DEF Keys
    <2>2. CASE m \in members[<<l, id>>]
      <3>1. PICK q \in Requests :
                /\ m = <<at[q], q>> /\ pc[q] # "new" /\ who[q] = id
                /\ \A i \in 1 .. Len(wire) : wire[i].rule <= l => q < wire[i].req
        BY <1>1, <2>2 DEF MembersInv
      <3>2. \A i \in 1 .. Len(wire') : wire'[i].rule <= l => q < wire'[i].req
        <4>1. k + 1 <= l => q < r
          BY <1>2, <1>4, <2>1, <3>1
        <4> QED
          BY <1>2, <3>1, <4>1
      <3> QED
        BY <1>6, <3>1, <3>2
    <2>3. CASE l = k /\ id = who[r] /\ m = <<at[r], r>>
      <3>1. ASSUME NEW i \in 1 .. Len(wire'), wire'[i].rule <= k
            PROVE  r < wire'[i].req
        <4>1. i \in Nat /\ Len(wire) \in Nat
          BY <1>1, <1>2 DEF Types
        <4>2. ~(k + 1 <= k)
          BY <1>4
        <4>3. i + 1 \in 1 .. Len(wire) /\ wire'[i] = wire[i + 1] /\ 1 < i + 1
          BY <1>2, <3>1, <4>1, <4>2
        <4>4. wire[i + 1] \in Jobs
          BY <1>1, <4>3, Element DEF Types
        <4>5. wire[i + 1].rule \in Nat
          BY <4>4, RuleTypes DEF Jobs
        <4>6. ~(k < wire[i + 1].rule)
          BY <1>4, <3>1, <4>3, <4>5
        <4> QED
          BY <1>1, <1>2, <4>3, <4>6 DEF OrderInv
      <3> QED
        BY <1>3, <1>6, <2>3, <3>1
    <2> QED
      BY <1>5, <1>7, <1>8, <1>10, <2>1, <2>2, <2>3
  <1>12. ASSUME NEW l \in RuleIds, NEW q \in passed[l]
         PROVE  Kept(l, q)'
    <2>1. q \in Requests /\ pc[q] # "new" /\ Kept(l, q)
      BY <1>1, <1>12 DEF Types, PassedInv
    <2>2. who[q] \in Identities /\ <<l, who[q]>> \in Keys /\ at[q] <= now
      BY <1>1, <2>1 DEF ArrivalInv, Keys
    <2>3. at[q] \in Nat /\ Rules[l].window \in Nat
      BY <1>1, <2>1, RuleTypes DEF Types
    <2>4. CASE <<l, who[q]>> # key
      BY <1>7, <2>1, <2>2, <2>4 DEF Kept
    <2>5. CASE l = k /\ who[q] = who[r]
      <3>1. ASSUME now < at[q] + Rules[k].window
            PROVE  /\ <<at[q], q>> \in members'[key]
                   /\ at[q] + Rules[k].window <= expires'[key]
        <4>1. <<at[q], q>> \in members[key] /\ at[q] + Rules[k].window <= expires[key]
          BY <2>1, <2>5, <3>1 DEF Kept
        <4>2. at[q] > at[r] - Rules[k].window
          BY <1>3, <1>4, <2>3, <2>5, <3>1
        <4>3. <<at[q], q>> \in Recorded(job)
          BY <4>1, <4>2 DEF Recorded, Trimmed, KeyOf
        <4>4. at[q] + Rules[k].window <= now + Rules[k].window
          BY <1>4, <2>2, <2>3
        <4> QED
          BY <1>8, <4>1, <4>3, <4>4
      <3> QED
        BY <2>5, <3>1 DEF Kept
    <2> QED
      BY <2>4, <2>5
  <1>13. ASSUME Store(Head(wire)), NEW l \in RuleIds, NEW q \in Requests, l = k, q = r
         PROVE  Kept(l, q)'
    <2>1. members'[key] = Recorded(job) /\ expires'[key] = now + Rules[k].window
      BY <1>1, <1>2, <1>5, <1>13 DEF Store, KeyOf, Types
    <2>2. <<at[r], r>> \in members'[key]
      BY <2>1 DEF Recorded
    <2>3. at[r] + Rules[k].window <= expires'[key]
      BY <1>3, <1>4, <2>1
    <2> QED
      BY <1>13, <2>2, <2>3 DEF Kept
  <1> QED
    BY <1>9, <1>11, <1>12, <1>13

-----------------------------------------------------------------------------
(* The counts.                                                             *)

\* A rule that trips has counted as many earlier attempts as it allows.
LEMMA TripCause ==
    ASSUME Inv, 1 \in 1 .. Len(wire), Tripped(wire[1])
    PROVE  Cardinality(AttemptsBefore(wire[1].rule, wire[1].req)) >= Rules[wire[1].rule].max
  <1> DEFINE job == wire[1]
             r == job.req
             k == job.rule
             B == AttemptsBefore(k, r)
  <1>1. Types /\ ArrivalInv /\ WaitInv /\ MembersInv
    BY DEF Inv
  <1>2. /\ job \in Jobs /\ r \in Requests /\ k \in RuleIds /\ pc[r] = "queued"
        /\ who[r] \in Identities
    BY <1>1, HeadWait
  <1>3. PICK A : A = {q \in Requests : <<at[q], q>> \in Recorded(job)}
    OBVIOUS
  <1>4. /\ IsFiniteSet(A) /\ Cardinality(A) \in Nat
        /\ Cardinality(Recorded(job)) = Cardinality(A)
    BY <1>1, <1>2, <1>3, Counted
  <1>5. IsFiniteSet(B) /\ Cardinality(B) \in Nat /\ r \notin B
    <2>1. B \subseteq Requests /\ r \notin B
      BY DEF AttemptsBefore
    <2> QED
      BY <2>1, RequestsFinite, FS_Subset, FS_CardinalityType
  <1>6. A \subseteq B \cup {r}
    <2> SUFFICES ASSUME NEW q \in A, q # r PROVE q \in B
      OBVIOUS
    <2>1. q \in Requests /\ <<at[q], q>> \in Trimmed(job)
      BY <1>3 DEF Recorded
    <2>2. <<at[q], q>> \in members[<<k, who[r]>>] /\ at[q] > at[r] - Rules[k].window
      BY <2>1 DEF Trimmed, KeyOf
    <2>3. k <= k
      BY <1>2, RuleTypes
    <2>4. pc[q] # "new" /\ who[q] = who[r] /\ q < r
      BY <1>1, <1>2, <2>2, <2>3 DEF MembersInv
    <2>5. at[q] <= at[r]
      BY <1>1, <1>2, <2>1, <2>4 DEF ArrivalInv
    <2>6. at[q] \in Nat /\ at[r] \in Nat /\ Rules[k].window \in Nat
      BY <1>1, <1>2, <2>1, RuleTypes DEF Types
    <2>7. at[r] - Rules[k].window < at[q]
      BY <2>2, <2>6
    <2> QED
      BY <2>1, <2>4, <2>5, <2>7 DEF AttemptsBefore
  <1>7. IsFiniteSet(B \cup {r}) /\ Cardinality(B \cup {r}) = Cardinality(B) + 1
    BY <1>5, FS_AddElement
  <1>8. Cardinality(A) <= Cardinality(B) + 1
    BY <1>6, <1>7, FS_Subset
  <1>9. Cardinality(A) > Rules[k].max /\ Rules[k].max \in Nat
    BY <1>2, <1>4, RuleTypes DEF Tripped
  <1>10. Cardinality(B) >= Rules[k].max
    <2> HIDE DEF B, k
    <2> QED
      BY <1>4, <1>5, <1>8, <1>9
  <1> QED
    BY <1>10

\* Attempts are never unmade, so a refusal keeps its cause.
LEMMA RefusalStep ==
    ASSUME Inv,
           \A q \in Requests : pc[q] # "new" =>
               pc'[q] # "new" /\ at'[q] = at[q] /\ who'[q] = who[q],
           \A r \in Requests : pc'[r] = "refused" =>
               \/ pc[r] = "refused"
               \/ /\ pc[r] = "queued"
                  /\ \E k \in RuleIds : Cardinality(AttemptsBefore(k, r)) >= Rules[k].max
    PROVE  RefusedWithCause'
  <1> SUFFICES ASSUME NEW r \in Requests, pc'[r] = "refused"
               PROVE  \E k \in RuleIds : Cardinality(AttemptsBefore(k, r)') >= Rules[k].max
    BY DEF RefusedWithCause
  <1>1. pc[r] # "new"
    OBVIOUS
  <1>2. PICK k \in RuleIds : Cardinality(AttemptsBefore(k, r)) >= Rules[k].max
    BY DEF Inv, RefusedWithCause
  <1>3. AttemptsBefore(k, r) \subseteq AttemptsBefore(k, r)'
    BY <1>1 DEF AttemptsBefore
  <1>4. AttemptsBefore(k, r)' \subseteq Requests
    BY DEF AttemptsBefore
  <1>5. /\ IsFiniteSet(AttemptsBefore(k, r)')
        /\ Cardinality(AttemptsBefore(k, r)') \in Nat
        /\ Cardinality(AttemptsBefore(k, r)) \in Nat
        /\ Cardinality(AttemptsBefore(k, r)) <= Cardinality(AttemptsBefore(k, r)')
    BY <1>3, <1>4, RequestsFinite, FS_Subset, FS_CardinalityType
  <1>6. Cardinality(AttemptsBefore(k, r)') >= Rules[k].max
    BY <1>2, <1>5, RuleTypes
  <1> QED
    BY <1>6

\* Where nothing more is let through, no window fills.
LEMMA WindowSame ==
    ASSUME Inv, UNCHANGED passed,
           \A q \in Requests : pc[q] # "new" => at'[q] = at[q] /\ who'[q] = who[q]
    PROVE  WindowKept'
  <1>1. \A k \in RuleIds : \A q \in passed[k] : at'[q] = at[q] /\ who'[q] = who[q]
    BY DEF Inv, Types, PassedInv
  <1>2. \A k \in RuleIds, id \in Identities, t \in 0 .. MaxTime :
            PassedIn(k, id, t)' = PassedIn(k, id, t)
    BY <1>1 DEF PassedIn, Guaranteed
  <1> QED
    BY <1>2 DEF Inv, WindowKept

\* A request that is let through finds all of its window in the sorted set.
LEMMA WindowStep ==
    ASSUME Inv, 1 \in 1 .. Len(wire), UNCHANGED <<at, who>>, ~Tripped(wire[1]),
           passed' = [passed EXCEPT ![wire[1].rule] = @ \cup {wire[1].req}]
    PROVE  WindowKept'
  <1> DEFINE job == wire[1]
             r == job.req
             k == job.rule
  <1>1. Types /\ ArrivalInv /\ WaitInv /\ MembersInv /\ PassedInv /\ WindowKept
    BY DEF Inv
  <1>2. /\ job \in Jobs /\ r \in Requests /\ k \in RuleIds /\ pc[r] = "queued"
        /\ who[r] \in Identities /\ at[r] <= now /\ now - at[r] <= k * MaxWait
    BY <1>1, HeadWait
  <1>3. PICK A : A = {q \in Requests : <<at[q], q>> \in Recorded(job)}
    OBVIOUS
  <1>4. /\ IsFiniteSet(A) /\ Cardinality(A) \in Nat
        /\ Cardinality(Recorded(job)) = Cardinality(A)
    BY <1>1, <1>2, <1>3, Counted
  <1>5. Cardinality(A) <= Rules[k].max
    BY <1>2, <1>4, RuleTypes DEF Tripped
  <1> SUFFICES ASSUME NEW l \in RuleIds, NEW id \in Identities, NEW t \in 0 .. MaxTime
               PROVE  Cardinality(PassedIn(l, id, t)') <= Rules[l].max
    BY DEF WindowKept
  <1>6. /\ passed'[k] = passed[k] \cup {r}
        /\ \A x \in RuleIds : x # k => passed'[x] = passed[x]
    BY <1>1, <1>2 DEF Types
  <1>7. CASE r \in PassedIn(l, id, t)' /\ l = k
    <2>1. PICK w \in Int : w = k * MaxWait
      BY <1>2, RuleTypes, WaitSum
    <2>2. PICK win \in Nat : win = Rules[k].window
      BY <1>2, RuleTypes
    <2>3. Guaranteed(l) = win - w
      BY <1>7, <2>1, <2>2 DEF Guaranteed
    <2>4. who[r] = id /\ at[r] <= t /\ at[r] \in Nat /\ now \in Nat /\ t \in Int
      BY <1>1, <1>2, <1>7 DEF PassedIn, Types
    <2>5. ASSUME NEW q \in PassedIn(l, id, t)', q # r PROVE q \in A
      <3>1. q \in passed[k] /\ who[q] = id /\ t - (win - w) < at[q]
        BY <1>6, <1>7, <2>3, <2>5 DEF PassedIn, Guaranteed
      <3>2. q \in Requests /\ at[q] \in Nat /\ Kept(k, q)
        BY <1>1, <1>2, <3>1 DEF Types, PassedInv
      <3>3. now < at[q] + win /\ at[r] - win < at[q]
        <4>1. PICK n \in Int, new \in Int, old \in Int :
                  n = now /\ new = at[r] /\ old = at[q]
          BY <2>4, <3>2
        <4>2. new <= n /\ n - new <= w
          BY <1>2, <2>1, <4>1
        <4>3. new <= t /\ t \in Int /\ t - (win - w) < old
          BY <2>4, <3>1, <4>1
        <4>4. n < old + win /\ new - win < old
          BY <4>2, <4>3
        <4> QED
          BY <4>1, <4>4
      <3>4. <<at[q], q>> \in members[<<k, who[r]>>] /\ at[q] > at[r] - Rules[k].window
        BY <2>2, <2>4, <3>1, <3>2, <3>3 DEF Kept
      <3> QED
        BY <1>3, <3>2, <3>4 DEF Recorded, Trimmed, KeyOf
    <2>6. r \in A
      BY <1>2, <1>3 DEF Recorded
    <2>7. PassedIn(l, id, t)' \subseteq A
      BY <2>5, <2>6
    <2>8. /\ Cardinality(PassedIn(l, id, t)') \in Nat
          /\ Cardinality(PassedIn(l, id, t)') <= Cardinality(A)
      BY <1>4, <2>7, FS_Subset, FS_CardinalityType
    <2> QED
      BY <1>4, <1>5, <1>7, <2>8, RuleTypes
  <1>8. CASE ~(r \in PassedIn(l, id, t)' /\ l = k)
    <2>1. PassedIn(l, id, t)' = PassedIn(l, id, t)
      BY <1>2, <1>6, <1>8 DEF PassedIn, Guaranteed
    <2> QED
      BY <1>1, <2>1 DEF WindowKept
  <1> QED
    BY <1>7, <1>8

-----------------------------------------------------------------------------
(* The invariant.                                                          *)

\* The empty store satisfies it.
LEMMA InvInit == Init => Inv
  <1> SUFFICES ASSUME Init PROVE Inv
    OBVIOUS
  <1>1. Types
    BY DEF Init, Types
  <1>2. ArrivalInv /\ WaitInv /\ OrderInv
    BY DEF Init, ArrivalInv, WaitInv, OrderInv
  <1>3. MembersInv
    BY DEF Init, MembersInv, Keys
  <1>4. PassedInv
    BY DEF Init, PassedInv
  <1>5. WindowKept
    <2> SUFFICES ASSUME NEW k \in RuleIds, NEW id \in Identities, NEW t \in 0 .. MaxTime
                 PROVE  Cardinality(PassedIn(k, id, t)) <= Rules[k].max
      BY DEF WindowKept
    <2>1. PassedIn(k, id, t) = {}
      BY DEF Init, PassedIn
    <2> QED
      BY <2>1, FS_EmptySet, RuleTypes
  <1>6. RefusedWithCause
    BY DEF Init, RefusedWithCause
  <1> QED
    BY <1>1, <1>2, <1>3, <1>4, <1>5, <1>6 DEF Inv

\* Time passes; keys expire.
LEMMA TickStep == Inv /\ Tick => Inv'
  <1> SUFFICES ASSUME Inv, Tick PROVE Inv'
    OBVIOUS
  <1>1. Types /\ ArrivalInv /\ WaitInv /\ OrderInv /\ MembersInv /\ PassedInv
    BY DEF Inv
  <1>2. /\ now' = now + 1 /\ now \in Nat /\ now' \in Nat
        /\ UNCHANGED <<pc, at, who, wire, passed>>
        /\ \A i \in 1 .. Len(wire) : now - wire[i].sent < MaxWait
    BY <1>1 DEF Tick, Types
  <1>3. /\ DOMAIN members' = Keys
        /\ \A key \in Keys : members'[key] = {} \/ members'[key] = members[key]
        /\ \A key \in Keys : now' < expires[key] =>
              members'[key] = members[key] /\ expires'[key] = expires[key]
        /\ expires' \in [Keys -> Nat]
    <2>1. expires \in [Keys -> Nat]
      BY <1>1 DEF Types
    <2>2. \A key \in Keys : now' < expires[key] => ~(expires[key] <= now')
      BY <1>2, <2>1
    <2>3. /\ members' = [key \in Keys |-> IF expires[key] <= now' THEN {} ELSE members[key]]
          /\ expires' = [key \in Keys |-> IF expires[key] <= now' THEN 0 ELSE expires[key]]
      BY DEF Tick
    <2> QED
      BY <2>1, <2>2, <2>3
  <1>4. Types'
    BY <1>1, <1>2, <1>3 DEF Types
  <1>5. ArrivalInv'
    <2>1. \A q \in Requests : at[q] <= now => at[q] <= now'
      BY <1>1, <1>2 DEF Types
    <2> QED
      BY <1>1, <1>2, <2>1 DEF ArrivalInv
  <1>6. WaitInv'
    <2> SUFFICES ASSUME NEW i \in 1 .. Len(wire)
                 PROVE  /\ pc[wire[i].req] = "queued"
                        /\ wire[i].sent <= now' /\ now' - wire[i].sent <= MaxWait
                        /\ wire[i].sent - at[wire[i].req] <= (wire[i].rule - 1) * MaxWait
      BY <1>2 DEF WaitInv
    <2>1. wire[i] \in Jobs
      BY <1>1, Element DEF Types
    <2>2. wire[i].sent \in Nat
      BY <2>1 DEF Jobs
    <2>3. /\ pc[wire[i].req] = "queued" /\ wire[i].sent <= now
          /\ wire[i].sent - at[wire[i].req] <= (wire[i].rule - 1) * MaxWait
      BY <1>1 DEF WaitInv
    <2>4. wire[i].sent <= now' /\ now' - wire[i].sent <= MaxWait
      BY <1>2, <2>2, <2>3, RateLimitAssumption
    <2> QED
      BY <2>3, <2>4
  <1>7. OrderInv'
    BY <1>1, <1>2 DEF OrderInv
  <1>8. MembersInv'
    BY <1>1, <1>2, <1>3 DEF MembersInv, Keys
  <1>9. PassedInv'
    <2> SUFFICES ASSUME NEW k \in RuleIds, NEW q \in passed[k] PROVE pc[q] # "new" /\ Kept(k, q)'
      BY <1>2 DEF PassedInv
    <2>1. q \in Requests /\ pc[q] # "new" /\ Kept(k, q)
      BY <1>1 DEF Types, PassedInv
    <2>2. <<k, who[q]>> \in Keys
      BY <1>1, <2>1 DEF ArrivalInv, Keys
    <2>3. at[q] \in Nat /\ Rules[k].window \in Nat /\ expires[<<k, who[q]>>] \in Nat
      BY <1>1, <2>1, <2>2, RuleTypes DEF Types
    <2>4. ASSUME now' < at[q] + Rules[k].window
          PROVE  /\ <<at[q], q>> \in members'[<<k, who[q]>>]
                 /\ at[q] + Rules[k].window <= expires'[<<k, who[q]>>]
      <3>1. now < at[q] + Rules[k].window
        BY <1>2, <2>3, <2>4
      <3>2. /\ <<at[q], q>> \in members[<<k, who[q]>>]
            /\ at[q] + Rules[k].window <= expires[<<k, who[q]>>]
        BY <2>1, <3>1 DEF Kept
      <3>3. now' < expires[<<k, who[q]>>]
        BY <1>2, <2>3, <2>4, <3>2
      <3> QED
        BY <1>3, <2>2, <3>2, <3>3
    <2> QED
      BY <1>2, <2>1, <2>4 DEF Kept
  <1>10. WindowKept' /\ RefusedWithCause'
    BY <1>2, WindowSame, RefusalStep
  <1> QED
    BY <1>4, <1>5, <1>6, <1>7, <1>8, <1>9, <1>10 DEF Inv

\* A request arrives: it is later than all that came before.
LEMMA ArriveStep ==
    ASSUME Inv, NEW r \in Requests, NEW peer \in Peers, Arrive(r, peer)
    PROVE  Inv'
  <1> DEFINE job == [req |-> r, rule |-> 1, sent |-> now]
  <1>1. Types /\ ArrivalInv /\ WaitInv /\ OrderInv /\ MembersInv /\ PassedInv
    BY DEF Inv
  <1>2. /\ pc[r] = "new" /\ \A q \in Requests : q < r => pc[q] # "new"
        /\ pc' = [pc EXCEPT ![r] = "queued"]
        /\ at' = [at EXCEPT ![r] = now]
        /\ who' = [who EXCEPT ![r] = ClientIp(peer)]
        /\ wire' = Append(wire, job)
        /\ UNCHANGED <<now, members, expires, passed>>
    BY DEF Arrive
  <1>3. ClientIp(peer) \in Identities
    BY DEF Identities
  <1>4. job \in Jobs /\ job.req = r /\ job.rule = 1 /\ job.sent = now
    <2>1. 1 \in RuleIds
      BY RateLimitAssumption DEF RuleIds
    <2> QED
      BY <1>1, <2>1 DEF Types, Jobs
  <1> HIDE DEF job
  <1>5. now \in Nat /\ at \in [Requests -> Nat] /\ DOMAIN who = Requests
    BY <1>1 DEF Types
  <1>6. /\ pc'[r] = "queued" /\ at'[r] = now /\ who'[r] \in Identities
        /\ \A q \in Requests : q # r => pc'[q] = pc[q] /\ at'[q] = at[q] /\ who'[q] = who[q]
    BY <1>1, <1>2, <1>3 DEF Types
  <1>7. /\ wire' \in Seq(Jobs) /\ Len(wire') = Len(wire) + 1 /\ Len(wire) \in Nat
        /\ \A i \in 1 .. Len(wire) : wire'[i] = wire[i]
        /\ wire'[Len(wire) + 1] = job
    BY <1>1, <1>2, <1>4, Enqueued DEF Types
  <1>8. \A i \in 1 .. Len(wire') :
            (i \in 1 .. Len(wire) /\ wire'[i] = wire[i]) \/ (i = Len(wire) + 1 /\ wire'[i] = job)
    BY <1>7
  <1>9. \A q \in Requests : pc[q] # "new" => q < r
    <2>1. \A q \in Requests : r < q => pc[q] = "new"
      BY <1>1, <1>2 DEF ArrivalInv
    <2>2. \A q \in Requests : q < r \/ q = r \/ r < q
      BY RequestsFinite
    <2> QED
      BY <1>2, <2>1, <2>2
  <1>10. Types'
    BY <1>1, <1>2, <1>5, <1>7 DEF Types
  <1>11. ArrivalInv'
    <2> SUFFICES ASSUME NEW q \in Requests, pc'[q] # "new"
                 PROVE  /\ at'[q] <= now /\ who'[q] \in Identities
                        /\ \A p \in Requests : p < q => pc'[p] # "new" /\ at'[p] <= at'[q]
      BY <1>2 DEF ArrivalInv
    <2>1. CASE q = r
      <3>1. \A p \in Requests : p < r => p # r /\ pc[p] # "new" /\ at[p] <= now
        BY <1>1, <1>2, RequestsFinite DEF ArrivalInv
      <3> QED
        BY <1>5, <1>6, <2>1, <3>1
    <2>2. CASE q # r
      <3>1. pc[q] # "new" /\ q < r
        BY <1>6, <1>9, <2>2
      <3>2. \A p \in Requests : p < q => p # r
        BY <3>1, RequestsFinite
      <3> QED
        BY <1>1, <1>6, <2>2, <3>1, <3>2 DEF ArrivalInv
    <2> QED
      BY <2>1, <2>2
  <1>12. WaitInv'
    <2> SUFFICES ASSUME NEW i \in 1 .. Len(wire')
                 PROVE  /\ pc'[wire'[i].req] = "queued"
                        /\ wire'[i].sent <= now /\ now - wire'[i].sent <= MaxWait
                        /\ wire'[i].sent - at'[wire'[i].req] <= (wire'[i].rule - 1) * MaxWait
      BY <1>2 DEF WaitInv
    <2>1. CASE i \in 1 .. Len(wire) /\ wire'[i] = wire[i]
      <3>1. wire[i] \in Jobs
        BY <1>1, <2>1, Element DEF Types
      <3>2. wire[i].req \in Requests /\ pc[wire[i].req] = "queued"
        BY <1>1, <2>1, <3>1 DEF Jobs, WaitInv
      <3>3. wire[i].req # r
        BY <1>2, <3>2
      <3> QED
        BY <1>1, <1>6, <2>1, <3>2, <3>3 DEF WaitInv
    <2>2. CASE wire'[i] = job
      <3>1. (1 - 1) * MaxWait = 0 /\ now - now = 0 /\ now <= now /\ 0 <= MaxWait /\ 0 <= 0
        BY <1>5, RateLimitAssumption
      <3> QED
        BY <1>4, <1>6, <2>2, <3>1
    <2> QED
      BY <1>8, <2>1, <2>2
  <1>13. OrderInv'
    <2> SUFFICES ASSUME NEW i \in 1 .. Len(wire'), NEW j \in 1 .. Len(wire'), i < j
                 PROVE  \/ wire'[i].req < wire'[j].req /\ wire'[j].rule <= wire'[i].rule
                        \/ wire'[j].req < wire'[i].req /\ wire'[i].rule < wire'[j].rule
      BY DEF OrderInv
    <2>1. i \in 1 .. Len(wire) /\ wire'[i] = wire[i]
      BY <1>7, <1>8
    <2>2. CASE j \in 1 .. Len(wire) /\ wire'[j] = wire[j]
      BY <1>1, <2>1, <2>2 DEF OrderInv
    <2>3. CASE wire'[j] = job
      <3>1. wire[i] \in Jobs
        BY <1>1, <2>1, Element DEF Types
      <3>2. wire[i].req \in Requests /\ wire[i].rule \in Nat \ {0} /\ pc[wire[i].req] # "new"
        BY <1>1, <2>1, <3>1, RuleTypes DEF Jobs, WaitInv
      <3>3. wire[i].req < r /\ 1 <= wire[i].rule
        BY <1>9, <3>2
      <3> QED
        BY <1>4, <2>1, <2>3, <3>3
    <2> QED
      BY <1>8, <2>2, <2>3
  <1>14. MembersInv'
    <2> SUFFICES ASSUME NEW k \in RuleIds, NEW id \in Identities, NEW m \in members[<<k, id>>]
                 PROVE  \E q \in Requests :
                            /\ m = <<at'[q], q>> /\ pc'[q] # "new" /\ who'[q] = id
                            /\ \A i \in 1 .. Len(wire') : wire'[i].rule <= k => q < wire'[i].req
      BY <1>2 DEF MembersInv
    <2>1. PICK q \in Requests :
              /\ m = <<at[q], q>> /\ pc[q] # "new" /\ who[q] = id
              /\ \A i \in 1 .. Len(wire) : wire[i].rule <= k => q < wire[i].req
      BY <1>1 DEF MembersInv
    <2>2. q # r /\ q < r
      BY <1>2, <1>9, <2>1
    <2>3. \A i \in 1 .. Len(wire') : wire'[i].rule <= k => q < wire'[i].req
      BY <1>4, <1>8, <2>1, <2>2
    <2> QED
      BY <1>6, <2>1, <2>2, <2>3
  <1>15. \A q \in Requests : pc[q] # "new" => pc'[q] # "new" /\ at'[q] = at[q] /\ who'[q] = who[q]
    BY <1>2, <1>6
  <1>16. PassedInv'
    <2> SUFFICES ASSUME NEW k \in RuleIds, NEW q \in passed[k]
                 PROVE  pc'[q] # "new" /\ Kept(k, q)'
      BY <1>2 DEF PassedInv
    <2>1. q \in Requests /\ pc[q] # "new" /\ Kept(k, q)
      BY <1>1 DEF Types, PassedInv
    <2> QED
      BY <1>2, <1>15, <2>1 DEF Kept
  <1>17. WindowKept'
    BY <1>2, <1>15, WindowSame
  <1>18. RefusedWithCause'
    <2>1. \A q \in Requests : pc'[q] = "refused" => pc[q] = "refused"
      BY <1>6
    <2> QED
      BY <1>15, <2>1, RefusalStep
  <1> QED
    BY <1>10, <1>11, <1>12, <1>13, <1>14, <1>16, <1>17, <1>18 DEF Inv

\* What every end of a pipeline keeps, whatever its answer.
LEMMA PipelineStep ==
    ASSUME Inv, wire # <<>>, UNCHANGED <<now, at, who>>,
           (\E o \in Outcomes : Settle(Head(wire), o)) \/ Continue(Head(wire)),
           Store(Head(wire)) \/ UNCHANGED <<members, expires>>,
           UNCHANGED passed \/ /\ Store(Head(wire))
                               /\ passed' = [passed EXCEPT ![wire[1].rule] = @ \cup {wire[1].req}]
    PROVE  /\ Types' /\ ArrivalInv' /\ WaitInv' /\ OrderInv' /\ MembersInv' /\ PassedInv'
           /\ \A q \in Requests : pc[q] # "new" =>
                  pc'[q] # "new" /\ at'[q] = at[q] /\ who'[q] = who[q]
           /\ \A q \in Requests : pc'[q] = pc[q] \/ (q = wire[1].req /\ pc[q] = "queued")
           /\ Head(wire) = wire[1] /\ 1 \in 1 .. Len(wire)
           /\ wire[1].req \in Requests /\ wire[1].rule \in RuleIds
  <1> DEFINE r == wire[1].req
             k == wire[1].rule
  <1>1. Types /\ ArrivalInv /\ WaitInv /\ PassedInv
    BY DEF Inv
  <1>2. /\ Head(wire) = wire[1] /\ 1 \in 1 .. Len(wire) /\ wire' \in Seq(Jobs)
        /\ pc' \in [Requests -> {"new", "queued"} \cup Outcomes]
        /\ \A q \in Requests : pc'[q] = pc[q] \/ (q = r /\ pc'[q] \in Outcomes)
    BY <1>1, WireAfter
  <1>3. r \in Requests /\ k \in RuleIds /\ pc[r] = "queued"
    BY <1>1, <1>2, HeadWait
  <1>4. \A q \in Requests : pc[q] # "new" => pc'[q] # "new" /\ at'[q] = at[q] /\ who'[q] = who[q]
    BY <1>2 DEF Outcomes
  <1>5. /\ DOMAIN members' = Keys /\ expires' \in [Keys -> Nat] /\ MembersInv'
        /\ \A l \in RuleIds : \A q \in passed[l] : Kept(l, q)'
        /\ Store(Head(wire)) => \A l \in RuleIds, q \in Requests :
               l = k /\ q = r => Kept(l, q)'
    BY StoreStep
  <1>6. /\ passed' \in [RuleIds -> SUBSET Requests]
        /\ \A l \in RuleIds : \A q \in passed'[l] :
              q \in passed[l] \/ (l = k /\ q = r /\ Store(Head(wire)))
    BY <1>1, <1>3 DEF Types
  <1>7. Types'
    BY <1>1, <1>2, <1>5, <1>6 DEF Types
  <1>8. PassedInv'
    <2> SUFFICES ASSUME NEW l \in RuleIds, NEW q \in passed'[l]
                 PROVE  pc'[q] # "new" /\ Kept(l, q)'
      BY DEF PassedInv
    <2>1. CASE q \in passed[l]
      <3>1. q \in Requests /\ pc[q] # "new"
        BY <1>1, <2>1 DEF Types, PassedInv
      <3> QED
        BY <1>4, <1>5, <2>1, <3>1
    <2>2. CASE l = k /\ q = r /\ Store(Head(wire))
      BY <1>3, <1>4, <1>5, <2>2
    <2> QED
      BY <1>6, <2>1, <2>2
  <1>9. ArrivalInv' /\ WaitInv' /\ OrderInv'
    BY QueueStep
  <1> QED
    BY <1>2, <1>3, <1>4, <1>5, <1>7, <1>8, <1>9

\* A pipeline is executed and answered.
LEMMA EvaluateStep == Inv /\ Evaluate => Inv'
  <1> SUFFICES ASSUME Inv, Evaluate PROVE Inv'
    OBVIOUS
  <1>1. /\ wire # <<>> /\ Store(Head(wire)) /\ UNCHANGED <<now, at, who>>
        /\ \/ Tripped(Head(wire)) /\ Settle(Head(wire), "refused") /\ UNCHANGED passed
           \/ /\ ~Tripped(Head(wire))
              /\ passed' = [passed EXCEPT ![Head(wire).rule] = @ \cup {Head(wire).req}]
              /\ Continue(Head(wire))
    BY DEF Evaluate
  <1>2. Head(wire) = wire[1] /\ "refused" \in Outcomes
    BY <1>1, Dequeued DEF Inv, Types, Outcomes
  <1>3. CASE Tripped(wire[1]) /\ Settle(Head(wire), "refused") /\ UNCHANGED passed
    <2>1. /\ Types' /\ ArrivalInv' /\ WaitInv' /\ OrderInv' /\ MembersInv' /\ PassedInv'
          /\ \A q \in Requests : pc[q] # "new" =>
                 pc'[q] # "new" /\ at'[q] = at[q] /\ who'[q] = who[q]
          /\ \A q \in Requests : pc'[q] = pc[q] \/ (q = wire[1].req /\ pc[q] = "queued")
          /\ 1 \in 1 .. Len(wire) /\ wire[1].rule \in RuleIds
      BY <1>1, <1>2, <1>3, PipelineStep
    <2>2. Cardinality(AttemptsBefore(wire[1].rule, wire[1].req)) >= Rules[wire[1].rule].max
      BY <1>3, <2>1, TripCause
    <2>3. RefusedWithCause'
      BY <2>1, <2>2, RefusalStep
    <2>4. WindowKept'
      BY <1>3, <2>1, WindowSame
    <2> QED
      BY <2>1, <2>3, <2>4 DEF Inv
  <1>4. CASE /\ ~Tripped(wire[1]) /\ Continue(Head(wire))
             /\ passed' = [passed EXCEPT ![wire[1].rule] = @ \cup {wire[1].req}]
    <2>1. /\ Types' /\ ArrivalInv' /\ WaitInv' /\ OrderInv' /\ MembersInv' /\ PassedInv'
          /\ \A q \in Requests : pc[q] # "new" =>
                 pc'[q] # "new" /\ at'[q] = at[q] /\ who'[q] = who[q]
          /\ 1 \in 1 .. Len(wire)
      BY <1>1, <1>4, PipelineStep
    <2>2. \A q \in Requests : pc'[q] = "refused" => pc[q] = "refused"
      BY <1>2, <1>4 DEF Continue, Settle, Inv, Types
    <2>3. RefusedWithCause'
      BY <2>1, <2>2, RefusalStep
    <2>4. WindowKept'
      BY <1>1, <1>4, <2>1, WindowStep
    <2> QED
      BY <2>1, <2>3, <2>4 DEF Inv
  <1> QED
    BY <1>1, <1>2, <1>3, <1>4

\* A pipeline goes without an answer, executed or not.
LEMMA NoAnswerStep == Inv /\ NoAnswer => Inv'
  <1> SUFFICES ASSUME Inv, NoAnswer PROVE Inv'
    OBVIOUS
  <1>1. /\ wire # <<>> /\ UNCHANGED <<now, at, who, passed>>
        /\ Settle(Head(wire), "open") \/ Continue(Head(wire))
        /\ Store(Head(wire)) \/ UNCHANGED <<members, expires>>
    BY DEF NoAnswer, AfterError
  <1>2. Head(wire) = wire[1] /\ "open" \in Outcomes
    BY <1>1, Dequeued DEF Inv, Types, Outcomes
  <1>3. /\ Types' /\ ArrivalInv' /\ WaitInv' /\ OrderInv' /\ MembersInv' /\ PassedInv'
        /\ \A q \in Requests : pc[q] # "new" =>
               pc'[q] # "new" /\ at'[q] = at[q] /\ who'[q] = who[q]
    BY <1>1, <1>2, PipelineStep
  <1>4. \A q \in Requests : pc'[q] = "refused" => pc[q] = "refused"
    BY <1>1, <1>2 DEF Continue, Settle, Inv, Types
  <1>5. RefusedWithCause'
    BY <1>3, <1>4, RefusalStep
  <1>6. WindowKept'
    BY <1>1, <1>3, WindowSame
  <1> QED
    BY <1>3, <1>5, <1>6 DEF Inv

\* Every step keeps the invariant.
LEMMA InvStep == Inv /\ [Next]_vars => Inv'
  <1> SUFFICES ASSUME Inv, [Next]_vars PROVE Inv'
    OBVIOUS
  <1>1. CASE UNCHANGED vars
    <2>1. UNCHANGED <<now, pc, at, who, wire, members, expires, passed>>
      BY <1>1 DEF vars
    <2>2. Types' /\ ArrivalInv' /\ WaitInv' /\ OrderInv' /\ MembersInv' /\ PassedInv'
      BY <2>1 DEF Inv, Types, ArrivalInv, WaitInv, OrderInv, MembersInv, PassedInv, Kept
    <2>3. WindowKept' /\ RefusedWithCause'
      BY <2>1, WindowSame, RefusalStep
    <2> QED
      BY <2>2, <2>3 DEF Inv
  <1> QED
    BY <1>1, TickStep, ArriveStep, EvaluateStep, NoAnswerStep DEF Next

\* The invariant holds throughout.
THEOREM InvCorrect == Spec => []Inv
  BY InvInit, InvStep, PTL DEF Spec

\* evaluate of rateLimit.ts: trimming and the expiry of the key forget no request
\* that a rule let through in its window, less the time spent on the connection.
THEOREM WindowCorrect == Spec => []WindowKept
  <1>1. Inv => WindowKept
    BY DEF Inv
  <1> QED
    BY <1>1, InvCorrect, PTL

\* A 429 is answered only to a client that made as many attempts within the
\* window before as the rule allows: no other client and no later request counts
\* against it.
THEOREM RefusalCorrect == Spec => []RefusedWithCause
  <1>1. Inv => RefusedWithCause
    BY DEF Inv
  <1> QED
    BY <1>1, InvCorrect, PTL

-----------------------------------------------------------------------------
(* No request is lost or answered twice.                                   *)

\* A request that waits is on the connection.
OnWire == \A q \in Requests : pc[q] = "queued" => \E i \in 1 .. Len(wire) : wire[i].req = q

\* The first pipeline is answered or fails: the other requests keep their place,
\* and its own goes on to the next rule or has its outcome.
LEMMA OnWireAfter ==
    ASSUME Types, OnWire, wire # <<>>,
           (\E o \in Outcomes : Settle(Head(wire), o)) \/ Continue(Head(wire))
    PROVE  OnWire'
  <1>1. wire \in Seq(Jobs) /\ pc \in [Requests -> {"new", "queued"} \cup Outcomes]
    BY DEF Types
  <1>2. /\ Head(wire) = wire[1] /\ wire[1] \in Jobs /\ Len(wire) \in Nat /\ 1 <= Len(wire)
        /\ Tail(wire) \in Seq(Jobs) /\ Len(Tail(wire)) = Len(wire) - 1
        /\ \A i \in 1 .. Len(Tail(wire)) : Tail(wire)[i] = wire[i + 1]
    BY <1>1, Dequeued
  <1>3. wire[1].req \in Requests /\ "admitted" \in Outcomes
    BY <1>2 DEF Jobs, Outcomes
  <1>4. ASSUME NEW i \in 1 .. Len(wire), i # 1
        PROVE  i - 1 \in 1 .. Len(Tail(wire)) /\ Tail(wire)[i - 1] = wire[i]
    BY <1>2, <1>4
  <1>5. ASSUME NEW o \in Outcomes, Settle(Head(wire), o) PROVE OnWire'
    <2>1. pc' = [pc EXCEPT ![wire[1].req] = o] /\ wire' = Tail(wire)
      BY <1>2, <1>5 DEF Settle
    <2>2. \A q \in Requests : pc'[q] = "queued" => pc[q] = "queued" /\ q # wire[1].req
      BY <1>1, <1>3, <2>1 DEF Outcomes
    <2> SUFFICES ASSUME NEW q \in Requests, pc'[q] = "queued"
                 PROVE  \E i \in 1 .. Len(wire') : wire'[i].req = q
      BY DEF OnWire
    <2>3. PICK i \in 1 .. Len(wire) : wire[i].req = q /\ i # 1
      BY <2>2 DEF OnWire
    <2> QED
      BY <1>4, <2>1, <2>3
  <1>6. CASE Continue(Head(wire)) /\ wire[1].rule < Len(Rules)
    <2> DEFINE job == [req |-> wire[1].req, rule |-> wire[1].rule + 1, sent |-> now]
    <2>1. wire[1].rule + 1 \in RuleIds
      <3>1. wire[1].rule \in RuleIds
        BY <1>2 DEF Jobs
      <3> QED
        BY <1>6, <3>1, RulesCount DEF RuleIds
    <2>2. job \in Jobs
      BY <1>3, <2>1 DEF Jobs, Types
    <2>3. wire' = Append(Tail(wire), job) /\ pc' = pc /\ job.req = wire[1].req
      BY <1>2, <1>6 DEF Continue
    <2> HIDE DEF job
    <2>4. /\ Len(wire') = Len(wire)
          /\ \A i \in 1 .. Len(Tail(wire)) : wire'[i] = Tail(wire)[i]
          /\ wire'[Len(wire)] = job
      BY <1>2, <2>2, <2>3, Enqueued
    <2> SUFFICES ASSUME NEW q \in Requests, pc'[q] = "queued"
                 PROVE  \E i \in 1 .. Len(wire') : wire'[i].req = q
      BY DEF OnWire
    <2>5. PICK i \in 1 .. Len(wire) : wire[i].req = q
      BY <2>3 DEF OnWire
    <2>6. CASE i = 1
      <3>1. Len(wire) \in 1 .. Len(wire')
        BY <1>2, <2>4
      <3>2. wire'[Len(wire)].req = q
        BY <2>3, <2>4, <2>5, <2>6
      <3> QED
        BY <3>1, <3>2
    <2>7. CASE i # 1
      <3>1. i - 1 \in 1 .. Len(wire') /\ wire'[i - 1] = wire[i]
        BY <1>2, <1>4, <2>4, <2>7
      <3> QED
        BY <2>5, <3>1
    <2> QED
      BY <2>6, <2>7
  <1>7. CASE Continue(Head(wire)) /\ ~(wire[1].rule < Len(Rules))
    BY <1>2, <1>3, <1>5, <1>7 DEF Continue
  <1> QED
    BY <1>5, <1>6, <1>7

\* Every step keeps waiting requests on the connection.
LEMMA OnWireStep == Inv /\ OnWire /\ [Next]_vars => OnWire'
  <1> SUFFICES ASSUME Inv, OnWire, [Next]_vars PROVE OnWire'
    OBVIOUS
  <1>1. Types
    BY DEF Inv
  <1>2. CASE Tick \/ UNCHANGED vars
    BY <1>2 DEF Tick, vars, OnWire
  <1>3. ASSUME NEW r \in Requests, NEW peer \in Peers, Arrive(r, peer) PROVE OnWire'
    <2> DEFINE job == [req |-> r, rule |-> 1, sent |-> now]
    <2>1. pc' = [pc EXCEPT ![r] = "queued"] /\ wire' = Append(wire, job) /\ job.req = r
      BY <1>3 DEF Arrive
    <2>2. 1 \in RuleIds
      BY RateLimitAssumption DEF RuleIds
    <2>3. job \in Jobs /\ wire \in Seq(Jobs)
      BY <1>1, <2>2 DEF Types, Jobs
    <2> HIDE DEF job
    <2>4. /\ Len(wire') = Len(wire) + 1 /\ Len(wire) \in Nat
          /\ \A i \in 1 .. Len(wire) : wire'[i] = wire[i]
          /\ wire'[Len(wire) + 1] = job
      BY <2>1, <2>3, Enqueued
    <2>5. \A i \in 1 .. Len(wire) + 1 : i \in 1 .. Len(wire')
      BY <2>4
    <2>6. Len(wire) + 1 \in 1 .. Len(wire')
      BY <2>4
    <2>7. \A q \in Requests : pc'[q] = "queued" => q = r \/ pc[q] = "queued"
      BY <1>1, <2>1 DEF Types
    <2>8. \A i \in 1 .. Len(wire) : i \in 1 .. Len(wire')
      BY <2>4
    <2> QED
      BY <2>1, <2>4, <2>6, <2>7, <2>8 DEF OnWire
  <1>4. CASE Evaluate
    BY <1>1, <1>4, OnWireAfter DEF Evaluate, Outcomes
  <1>5. CASE NoAnswer
    BY <1>1, <1>5, OnWireAfter DEF NoAnswer, AfterError, Outcomes
  <1> QED
    BY <1>2, <1>3, <1>4, <1>5 DEF Next

\* A request that waits has one pipeline on the connection, and it has not been
\* held for longer than each of the rules may take.
HeldOnce ==
    \A q \in Requests : pc[q] = "queued" =>
        /\ \E i \in 1 .. Len(wire) :
              wire[i].req = q /\ \A j \in 1 .. Len(wire) : wire[j].req = q => j = i
        /\ now - at[q] <= Len(Rules) * MaxWait

\* rateLimit.ts answers every request it holds: with answers missing and errors
\* in the place of counts, a request that has no outcome yet is in exactly one
\* pipeline, and the limiter delays it by the bound of the connection at most.
THEOREM HeldCorrect == Spec => []HeldOnce
  <1>1. Init => OnWire
    BY DEF Init, OnWire
  <1>2. ASSUME Inv, OnWire, NEW q \in Requests, pc[q] = "queued"
        PROVE  /\ \E i \in 1 .. Len(wire) :
                     wire[i].req = q /\ \A j \in 1 .. Len(wire) : wire[j].req = q => j = i
               /\ now - at[q] <= Len(Rules) * MaxWait
    <2>1. Types /\ WaitInv /\ OrderInv /\ ArrivalInv
      BY <1>2 DEF Inv
    <2>2. PICK i \in 1 .. Len(wire) : wire[i].req = q
      BY <1>2 DEF OnWire
    <2>3. wire \in Seq(Jobs) /\ Len(wire) \in Nat
      BY <2>1 DEF Types
    <2>4. ASSUME NEW j \in 1 .. Len(wire), wire[j].req = q PROVE j = i
      <3>1. q \in Nat
        BY RequestsFinite
      <3>2. ~(i < j) /\ ~(j < i)
        BY <2>1, <2>2, <2>4, <3>1 DEF OrderInv
      <3> QED
        BY <2>3, <3>2
    <2>5. wire[i] \in Jobs
      BY <2>3, Element
    <2>6. PICK k \in Nat \ {0} : k = wire[i].rule /\ k <= Len(Rules)
      <3>1. wire[i].rule \in RuleIds
        BY <2>5 DEF Jobs
      <3> QED
        BY <3>1, RuleTypes, RulesCount DEF RuleIds
    <2>7. PICK n \in Int, a \in Int, m \in Nat, sent \in Int :
              n = now /\ a = at[q] /\ m = MaxWait /\ sent = wire[i].sent
      <3>1. now \in Int /\ at[q] \in Int
        BY <2>1 DEF Types
      <3>2. MaxWait \in Nat
        BY RateLimitAssumption
      <3>3. wire[i].sent \in Int
        BY <2>5 DEF Jobs
      <3> QED
        BY <3>1, <3>2, <3>3
    <2>8. n - sent <= m /\ sent - a <= (k - 1) * m
      BY <2>1, <2>2, <2>6, <2>7 DEF WaitInv
    <2>9. n - a <= k * m
      <3>1. PICK x \in Int : x = (k - 1) * m /\ x + m = k * m
        BY <2>7, WaitSum
      <3> QED
        BY <2>8, <3>1
    <2>10. k * m <= Len(Rules) * m
      <3>1. PICK l \in Nat : l = Len(Rules) /\ k <= l
        BY <2>6, RulesCount
      <3>2. k * m <= l * m
        BY <3>1
      <3> QED
        BY <3>1, <3>2
    <2>11. n - a <= Len(Rules) * m
      <3>1. PICK x \in Int, y \in Int : x = k * m /\ y = Len(Rules) * m
        BY RulesCount
      <3> QED
        BY <2>9, <2>10, <3>1
    <2> QED
      BY <2>2, <2>4, <2>7, <2>11
  <1>3. Inv /\ OnWire => HeldOnce
    BY <1>2 DEF HeldOnce
  <1> QED
    BY <1>1, <1>3, OnWireStep, InvCorrect, PTL DEF Spec

\* A request keeps the outcome it got.
AnsweredOnce == [][\A q \in Requests : pc[q] \in Outcomes => pc'[q] = pc[q]]_vars

\* No pipeline that is executed late, after a failure or an error, settles a
\* request a second time: next() is called once, or the 429 is sent once.
THEOREM OutcomeCorrect == Spec => AnsweredOnce
  <1> DEFINE OutcomesStay == \A q \in Requests : pc[q] \in Outcomes => pc'[q] = pc[q]
  <1>1. ASSUME Inv, [Next]_vars PROVE OutcomesStay
    <2>1. Types /\ WaitInv
      BY <1>1 DEF Inv
    <2>2. CASE Tick \/ UNCHANGED vars
      BY <2>2 DEF Tick, vars
    <2>3. ASSUME NEW r \in Requests, NEW peer \in Peers, Arrive(r, peer) PROVE OutcomesStay
      BY <2>1, <2>3 DEF Arrive, Outcomes, Types
    <2>4. CASE Evaluate \/ NoAnswer
      <3>1. wire # <<>> /\ ((\E o \in Outcomes : Settle(Head(wire), o)) \/ Continue(Head(wire)))
        BY <2>4 DEF Evaluate, NoAnswer, AfterError, Outcomes
      <3>2. /\ 1 \in 1 .. Len(wire)
            /\ \A q \in Requests : pc'[q] = pc[q] \/ q = wire[1].req
        BY <2>1, <3>1, WireAfter
      <3>3. pc[wire[1].req] = "queued"
        BY <2>1, <3>2 DEF WaitInv
      <3> QED
        BY <3>2, <3>3 DEF Outcomes
    <2> QED
      BY <1>1, <2>2, <2>3, <2>4 DEF Next
  <1>2. Inv /\ [Next]_vars => [OutcomesStay]_vars
    BY <1>1
  <1> QED
    BY <1>2, InvCorrect, PTL DEF Spec, AnsweredOnce
-----------------------------------------------------------------------------
\* The types.

\* What the types say beyond the invariant: nothing is later than the last tick.
Bounds ==
    /\ now \in 0 .. MaxTime
    /\ at \in [Requests -> 0 .. MaxTime]
    /\ who \in [Requests -> Identities \cup {Absent}]
    /\ members \in [Keys -> SUBSET ((0 .. MaxTime) \X Requests)]
    /\ faults \in 0 .. MaxFaults

\* A pipeline that is executed adds a stamped request.
LEMMA StoreBounds ==
    ASSUME Bounds, NEW job \in Jobs, Store(job)
    PROVE  members' \in [Keys -> SUBSET ((0 .. MaxTime) \X Requests)]
  <1>1. job.req \in Requests
    BY DEF Jobs
  <1>2. <<at[job.req], job.req>> \in (0 .. MaxTime) \X Requests
    BY <1>1 DEF Bounds
  <1>3. ASSUME KeyOf(job) \in Keys
        PROVE  Recorded(job) \in SUBSET ((0 .. MaxTime) \X Requests)
    BY <1>2, <1>3 DEF Recorded, Trimmed, Bounds
  <1> QED
    BY <1>3 DEF Store, Bounds

\* Every step of the limiter keeps the bounds.
LEMMA BoundsStep == Inv /\ Bounds /\ [Next]_vars => Bounds'
  <1> SUFFICES ASSUME Inv, Bounds, [Next]_vars PROVE Bounds'
    OBVIOUS
  <1>1. MaxTime \in Nat /\ MaxFaults \in Nat
    BY RateLimitAssumption
  <1>2. CASE Tick
    BY <1>1, <1>2 DEF Bounds, Tick
  <1>3. ASSUME NEW r \in Requests, NEW peer \in Peers, Arrive(r, peer) PROVE Bounds'
    <2>1. ClientIp(peer) \in Identities
      BY DEF Identities
    <2> QED
      BY <1>3, <2>1 DEF Bounds, Arrive
  <1>4. ASSUME wire # <<>> PROVE Head(wire) \in Jobs
    BY <1>4, Dequeued DEF Inv, Types
  <1>5. CASE Evaluate
    <2>1. members' \in [Keys -> SUBSET ((0 .. MaxTime) \X Requests)]
      BY <1>4, <1>5, StoreBounds DEF Evaluate
    <2> QED
      BY <1>5, <2>1 DEF Bounds, Evaluate
  <1>6. CASE NoAnswer
    <2>1. members' \in [Keys -> SUBSET ((0 .. MaxTime) \X Requests)]
      BY <1>4, <1>6, StoreBounds DEF NoAnswer, Bounds
    <2>2. faults' \in 0 .. MaxFaults
      BY <1>1, <1>6 DEF NoAnswer, Bounds
    <2> QED
      BY <1>6, <2>1, <2>2 DEF Bounds, NoAnswer
  <1>7. CASE UNCHANGED vars
    BY <1>7 DEF vars, Bounds
  <1> QED
    BY <1>2, <1>3, <1>5, <1>6, <1>7 DEF Next

\* Requests, connection and sorted sets keep their types: however late its turn,
\* a pipeline names a rule of the route and stamps within the time that passed.
THEOREM TypeCorrect == Spec => []TypeOK
  <1>1. Init => Inv /\ Bounds
    BY InvInit, RateLimitAssumption DEF Init, Bounds
  <1>2. Inv /\ Bounds /\ [Next]_vars => Inv' /\ Bounds'
    BY InvStep, BoundsStep
  <1>3. Inv /\ Bounds => TypeOK
    <2> SUFFICES ASSUME Inv, Bounds PROVE TypeOK
      OBVIOUS
    <2>1. Len(wire) \in Nat /\ wire \in [1 .. Len(wire) -> Jobs]
      BY DEF Inv, Types
    <2>2. ASSUME NEW i \in 1 .. Len(wire)
          PROVE  wire[i] \in [req : Requests, rule : RuleIds, sent : 0 .. MaxTime]
      <3>1. wire[i] \in Jobs /\ wire[i].sent <= now
        BY <2>1 DEF Inv, WaitInv
      <3>2. wire[i].sent \in 0 .. MaxTime
        BY <3>1, RateLimitAssumption DEF Bounds, Jobs
      <3> QED
        BY <3>1, <3>2 DEF Jobs
    <2>3. wire \in Seq([req : Requests, rule : RuleIds, sent : 0 .. MaxTime])
      <3> DEFINE Timed == [req : Requests, rule : RuleIds, sent : 0 .. MaxTime]
      <3>1. \A i \in 1 .. Len(wire) : wire[i] \in Timed
        BY <2>2
      <3> HIDE DEF Timed
      <3>2. wire \in [1 .. Len(wire) -> Timed]
        BY <2>1, <3>1
      <3>3. wire \in Seq(Timed)
        BY <2>1, <3>2
      <3> QED
        BY <3>3 DEF Timed
    <2> QED
      BY <2>3 DEF Inv, Types, Bounds, TypeOK
  <1> QED
    BY <1>1, <1>2, <1>3, PTL DEF Spec
=============================================================================
