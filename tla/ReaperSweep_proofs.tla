------------------------- MODULE ReaperSweep_proofs -------------------------
(***************************************************************************)
(* Theorems about ReaperSweep, for any number of shares and daemons and    *)
(* any size of the batch.  A batch may be stale when its turn comes, and   *)
(* yet right: a share that is due never becomes live again.  The order of  *)
(* the query is strict, so no batch names a share twice.                   *)
(***************************************************************************)
EXTENDS ReaperSweep, FiniteSetTheorems, SequenceTheorems, TLAPS

\* The types that the argument needs.
Types ==
    /\ row \in [Shares -> {"live", "expired", "destroyed", "purged"}]
    /\ overdue \in Nat
    /\ stamp \in [Shares -> Nat]
    /\ batch \in [Daemons -> Seq(Shares)]
    /\ txn \subseteq Daemons

\* The inductive invariant.
Inv == Types /\ BatchJustified

\* A transaction belongs to a daemon with a candidate, and to no other one with
\* the same candidate.
LEMMA TxnSingle ==
    ASSUME Inv, NEW d \in txn
    PROVE  /\ d \in Daemons /\ batch[d] # <<>>
           /\ \A e \in txn : e # d => Head(batch[e]) # Head(batch[d])
  BY DEF Inv, Types, BatchJustified, Working, Locked

\* The rank of a setting of destroyed_at is a number.
LEMMA RankType == 1 + Cardinality({t \in Shares : stamp[t] # Null}) \in Nat
  <1>1. MaxShares \in Int /\ 1 \in Int
    BY SweepAssumption
  <1>2. IsFiniteSet(Shares)
    BY <1>1, FS_Interval DEF Shares
  <1>3. {t \in Shares : stamp[t] # Null} \in SUBSET Shares
    OBVIOUS
  <1>4. Cardinality({t \in Shares : stamp[t] # Null}) \in Nat
    BY <1>2, <1>3, FS_Subset, FS_CardinalityType
  <1> QED
    BY <1>4

\* fetchReapable: the answer of the query names candidates, each of them once.
LEMMA AnswerJustified ==
    ASSUME Types, NEW q \in Answers, FetchReapable(q)
    PROVE  /\ q \in Seq(Shares)
           /\ \A i \in 1 .. Len(q) : row[q[i]] = "live" => q[i] <= overdue
           /\ IsInjective(q)
  <1> DEFINE Candidates == {s \in Shares : Due(s)}
  <1>1. PICK n \in 0 .. BatchSize : q \in [1 .. n -> Candidates]
    BY DEF Answers
  <1>2. n \in Nat
    BY SweepAssumption
  <1>3. q \in Seq(Candidates)
    BY <1>1, <1>2, SeqDef
  <1>4. q \in Seq(Shares) /\ Len(q) = n /\ DOMAIN q = 1 .. n
    <2>1. q \in [1 .. n -> Shares]
      BY <1>1
    <2>2. q \in Seq(Shares)
      BY <1>2, <2>1, SeqDef
    <2> QED
      BY <1>1, <1>2, <2>2, LenProperties
  <1>5. \A i \in 1 .. n : q[i] \in Shares /\ Due(q[i])
    BY <1>1
  <1>6. \A s \in Shares : ~Before(s, s)
    <2>1. \A s \in Shares : s \in Nat /\ stamp[s] \in Nat
      BY SweepAssumption DEF Types, Shares
    <2> QED
      BY <2>1 DEF Before
  <1>7. ASSUME NEW i \in 1 .. n, NEW j \in 1 .. n, q[i] = q[j] PROVE i = j
    <2>1. ~(i < j) /\ ~(j < i)
      BY <1>4, <1>5, <1>6, <1>7 DEF FetchReapable
    <2> QED
      BY <1>2, <2>1
  <1> QED
    BY <1>4, <1>5, <1>7 DEF Due, IsInjective

\* Going on in a batch keeps what is known of it.
LEMMA TailJustified ==
    ASSUME NEW q \in Seq(Shares), q # <<>>
    PROVE  /\ Tail(q) \in Seq(Shares)
           /\ \A i \in 1 .. Len(Tail(q)) : i + 1 \in 1 .. Len(q) /\ Tail(q)[i] = q[i + 1]
           /\ IsInjective(q) => IsInjective(Tail(q))
  <1>1. /\ Tail(q) \in Seq(Shares) /\ Len(q) \in Nat /\ Len(Tail(q)) = Len(q) - 1
        /\ \A i \in 1 .. Len(Tail(q)) : i + 1 \in 1 .. Len(q) /\ Tail(q)[i] = q[i + 1]
        /\ DOMAIN Tail(q) = 1 .. Len(Tail(q)) /\ DOMAIN q = 1 .. Len(q)
    OBVIOUS
  <1>2. ASSUME IsInjective(q), NEW i \in DOMAIN Tail(q), NEW j \in DOMAIN Tail(q),
               Tail(q)[i] = Tail(q)[j]
        PROVE  i = j
    <2>1. i + 1 = j + 1
      BY <1>1, <1>2 DEF IsInjective
    <2> QED
      BY <1>1, <1>2, <2>1
  <1> QED
    BY <1>1, <1>2 DEF IsInjective

\* A daemon that leaves its transaction and goes on, or begins anew, keeps it.
LEMMA BatchStep ==
    ASSUME Inv, Types', NEW d \in Daemons, NEW q \in Seq(Shares),
           batch' = [batch EXCEPT ![d] = q], txn' = txn \ {d},
           overdue' = overdue,
           \A s \in Shares : row'[s] = "live" => row[s] = "live",
           \A i \in 1 .. Len(q) : row'[q[i]] = "live" => q[i] <= overdue,
           IsInjective(q)
    PROVE  Inv'
  <1> SUFFICES ASSUME NEW e \in Daemons
               PROVE  /\ \A i \in 1 .. Len(batch'[e]) :
                            row'[batch'[e][i]] = "live" => batch'[e][i] <= overdue
                      /\ IsInjective(batch'[e])
                      /\ e \in txn' => batch'[e] # <<>>
                           /\ ~ \E f \in txn' \ {e} : Head(batch'[f]) = Head(batch'[e])
    BY DEF Inv, BatchJustified, Working, Locked
  <1>1. batch'[d] = q /\ \A f \in Daemons : f # d => batch'[f] = batch[f]
    BY DEF Inv, Types
  <1>2. CASE e = d
    BY <1>1, <1>2
  <1>3. CASE e # d
    <2>1. /\ \A i \in 1 .. Len(batch[e]) : row[batch[e][i]] = "live" => batch[e][i] <= overdue
          /\ IsInjective(batch[e])
      BY DEF Inv, BatchJustified
    <2>2. \A i \in 1 .. Len(batch[e]) : batch[e][i] \in Shares
      BY DEF Inv, Types
    <2>3. ASSUME e \in txn'
          PROVE  batch[e] # <<>> /\ \A f \in txn' \ {e} : Head(batch[f]) # Head(batch[e])
      BY <2>3, TxnSingle
    <2>4. \A f \in txn' \ {e} : batch'[f] = batch[f]
      BY <1>1 DEF Inv, Types
    <2> QED
      BY <1>1, <1>3, <2>1, <2>2, <2>3, <2>4
  <1> QED
    BY <1>2, <1>3

\* Shares become due, and those in a batch stay due.
LEMMA ShareStep ==
    ASSUME Inv, Lapse \/ \E s \in Shares : Flag(s) \/ ReachCap(s)
    PROVE  Inv'
  <1>1. /\ UNCHANGED <<batch, txn>>
        /\ overdue' \in Nat /\ overdue <= overdue'
    <2>1. overdue \in Nat /\ UNCHANGED <<batch, txn>> /\ overdue' \in {overdue, overdue + 1}
      BY DEF Inv, Types, Lapse, Flag, ReachCap
    <2> QED
      BY <2>1
  <1>2. /\ row' \in [Shares -> {"live", "expired", "destroyed", "purged"}]
        /\ \A s \in Shares : row'[s] = "live" => row[s] = "live"
    BY DEF Inv, Types, Lapse, Flag, ReachCap
  <1>3. stamp' \in [Shares -> Nat]
    BY RankType DEF Inv, Types, Lapse, Flag, ReachCap
  <1>4. Types'
    BY <1>1, <1>2, <1>3 DEF Inv, Types
  <1>5. ASSUME NEW d \in Daemons, NEW i \in 1 .. Len(batch[d]), row'[batch[d][i]] = "live"
        PROVE  batch[d][i] <= overdue'
    <2>1. batch[d][i] \in Shares
      BY DEF Inv, Types
    <2>2. batch[d][i] <= overdue
      BY <1>2, <1>5, <2>1 DEF Inv, BatchJustified
    <2>3. batch[d][i] \in Nat /\ overdue \in Nat
      BY <2>1, SweepAssumption DEF Inv, Types, Shares
    <2> QED
      BY <1>1, <2>2, <2>3
  <1> QED
    BY <1>1, <1>4, <1>5 DEF Inv, BatchJustified, Working, Locked

\* Every step of a daemon keeps the invariant.
LEMMA DaemonStep ==
    ASSUME Inv, NEW d \in Daemons, DaemonNext(d) \/ Restart(d)
    PROVE  Inv'
  <1>1. /\ batch[d] \in Seq(Shares) /\ IsInjective(batch[d])
        /\ \A i \in 1 .. Len(batch[d]) : row[batch[d][i]] = "live" => batch[d][i] <= overdue
    BY DEF Inv, Types, BatchJustified
  <1>2. CASE Sweep(d)
    <2>1. PICK q \in Answers : FetchReapable(q) /\ batch' = [batch EXCEPT ![d] = q]
      BY <1>2 DEF Sweep
    <2>2. /\ q \in Seq(Shares) /\ IsInjective(q)
          /\ \A i \in 1 .. Len(q) : row[q[i]] = "live" => q[i] <= overdue
      BY <2>1, AnswerJustified DEF Inv
    <2>3. UNCHANGED <<row, overdue, stamp, txn>> /\ batch[d] = <<>>
      BY <1>2 DEF Sweep
    <2>4. txn' = txn \ {d}
      BY <2>3, TxnSingle
    <2>5. Types'
      BY <2>1, <2>2, <2>3 DEF Inv, Types
    <2> QED
      BY <2>1, <2>2, <2>3, <2>4, <2>5, BatchStep
  <1>3. CASE LockRow(d)
    <2>1. /\ UNCHANGED <<row, overdue, stamp, batch>> /\ txn' = txn \cup {d}
          /\ batch[d] # <<>> /\ \A e \in txn : Head(batch[e]) # Head(batch[d])
      BY <1>3 DEF LockRow, Working, Locked
    <2>2. \A e \in txn : batch[e] # <<>> /\ \A f \in txn \ {e} : Head(batch[f]) # Head(batch[e])
      BY TxnSingle
    <2>3. \A e \in txn' : batch[e] # <<>> /\ \A f \in txn' \ {e} : Head(batch[f]) # Head(batch[e])
      BY <2>1, <2>2
    <2> QED
      BY <2>1, <2>3 DEF Inv, Types, BatchJustified, Working, Locked
  <1>4. CASE Reap(d) \/ ReapFails(d)
    <2>1. batch[d] # <<>>
      BY <1>4, TxnSingle DEF Reap, ReapFails, Working
    <2>2. /\ batch' = [batch EXCEPT ![d] = Tail(batch[d])] /\ txn' = txn \ {d}
          /\ UNCHANGED <<overdue, stamp>>
      BY <1>4 DEF Reap, ReapFails, AfterFailure, Inv, Types
    <2>3. /\ Tail(batch[d]) \in Seq(Shares) /\ IsInjective(Tail(batch[d]))
          /\ \A i \in 1 .. Len(Tail(batch[d])) :
                i + 1 \in 1 .. Len(batch[d]) /\ Tail(batch[d])[i] = batch[d][i + 1]
      BY <1>1, <2>1, TailJustified
    <2>4. /\ row' \in [Shares -> {"live", "expired", "destroyed", "purged"}]
          /\ \A s \in Shares : row'[s] = "live" => row[s] = "live"
      BY <1>4 DEF Reap, ReapFails, Inv, Types
    <2>5. Types'
      BY <2>2, <2>3, <2>4 DEF Inv, Types
    <2>6. \A i \in 1 .. Len(batch[d]) : batch[d][i] \in Shares
      BY <1>1
    <2>7. \A i \in 1 .. Len(Tail(batch[d])) :
              row'[Tail(batch[d])[i]] = "live" => Tail(batch[d])[i] <= overdue
      BY <1>1, <2>3, <2>4, <2>6
    <2> QED
      BY <2>2, <2>3, <2>4, <2>5, <2>7, BatchStep
  <1>5. CASE Restart(d)
    <2>1. /\ batch' = [batch EXCEPT ![d] = <<>>] /\ txn' = txn \ {d}
          /\ UNCHANGED <<row, overdue, stamp>>
      BY <1>5 DEF Restart
    <2>2. <<>> \in Seq(Shares) /\ IsInjective(<<>>) /\ Len(<<>>) = 0
      BY DEF IsInjective
    <2>3. Types'
      BY <2>1, <2>2 DEF Inv, Types
    <2>4. PICK q \in Seq(Shares) : q = <<>> /\ IsInjective(q) /\ Len(q) = 0
      BY <2>2
    <2>5. \A i \in 1 .. Len(q) : row'[q[i]] = "live" => q[i] <= overdue
      BY <2>4
    <2>6. batch' = [batch EXCEPT ![d] = q] /\ \A s \in Shares : row'[s] = "live" => row[s] = "live"
      BY <2>1, <2>4
    <2> QED
      BY <2>1, <2>3, <2>4, <2>5, <2>6, BatchStep
  <1> QED
    BY <1>2, <1>3, <1>4, <1>5 DEF DaemonNext

\* No daemon has a batch at first.
LEMMA InvInit == Init => Inv
  <1> SUFFICES ASSUME Init PROVE Inv
    OBVIOUS
  <1>1. Types
    BY SweepAssumption DEF Init, Types, Null
  <1>2. \A d \in Daemons : batch[d] = <<>> /\ Len(batch[d]) = 0 /\ IsInjective(batch[d])
    BY DEF Init, IsInjective
  <1> QED
    BY <1>1, <1>2 DEF Init, Inv, BatchJustified

\* Every step keeps the invariant.
LEMMA InvStep == Inv /\ [Next]_vars => Inv'
  <1> SUFFICES ASSUME Inv, [Next]_vars PROVE Inv'
    OBVIOUS
  <1>1. CASE UNCHANGED vars
    BY <1>1 DEF vars, Inv, Types, BatchJustified, Working, Locked
  <1> QED
    BY <1>1, ShareStep, DaemonStep DEF Next

\* reaper.go works through a batch that may be old: no share of it has a
\* recipient to lose, none is in it twice, and FOR UPDATE SKIP LOCKED leaves a
\* row to one daemon at a time.
THEOREM BatchCorrect == Spec => []BatchJustified
  <1>1. Spec => []Inv
    BY InvInit, InvStep, PTL DEF Spec
  <1>2. Inv => BatchJustified
    BY DEF Inv
  <1> QED
    BY <1>1, <1>2, PTL

-----------------------------------------------------------------------------
(* What DueIsPurged rests on besides fairness.                             *)

\* A share that is due stays due until it is purged, whatever the gateway and
\* any number of daemons do; a share is purged for good, and no share is that
\* was not due.
DueUntilPurged ==
    [][\A s \in Shares :
          /\ Due(s) => Due(s)' \/ row'[s] = "purged"
          /\ row[s] = "purged" => row'[s] = "purged"
          /\ row'[s] = "purged" => row[s] = "purged" \/ (Due(s) /\ s \notin stuck)]_vars

\* As long as the shares that no reap can finish do not fill a batch, every
\* answer of the query leaves a place to one that can be finished, if one is due.
PlaceLeft ==
    /\ Cardinality(stuck) < BatchSize
    /\ \E s \in Shares : Due(s) /\ s \notin stuck
    => \A q \in Answers :
          FetchReapable(q) => \E i \in 1 .. Len(q) : Due(q[i]) /\ q[i] \notin stuck

\* Flagging, lapsing and the cap leave the candidates what they are.
LEMMA DueStep ==
    ASSUME Types, Lapse \/ \E s \in Shares : Flag(s) \/ ReachCap(s), NEW t \in Shares
    PROVE  /\ Due(t) => Due(t)'
           /\ row'[t] = "purged" <=> row[t] = "purged"
  <1>1. overdue \in Nat /\ t \in Nat
    BY SweepAssumption DEF Types, Shares
  <1>2. CASE Lapse
    BY <1>1, <1>2 DEF Lapse, Due
  <1>3. ASSUME NEW s \in Shares, Flag(s) \/ ReachCap(s)
        PROVE  /\ Due(t) => Due(t)'
               /\ row'[t] = "purged" <=> row[t] = "purged"
    <2>1. /\ row[s] = "live" /\ overdue' = overdue
          /\ row'[s] \in {"destroyed", "expired"}
          /\ t # s => row'[t] = row[t]
      BY <1>3 DEF Types, Flag, ReachCap
    <2> QED
      BY <2>1 DEF Due
  <1> QED
    BY <1>2, <1>3

\* The candidate query and the loop of reaper.go: no candidate is forgotten, by
\* an error, a restart or a second daemon, and nothing but a candidate is purged.
THEOREM DueCorrect == Spec => DueUntilPurged
  <1> DEFINE Kept(s) == /\ Due(s) => Due(s)' \/ row'[s] = "purged"
                        /\ row[s] = "purged" => row'[s] = "purged"
                        /\ row'[s] = "purged" => row[s] = "purged" \/ (Due(s) /\ s \notin stuck)
  <1>1. ASSUME Inv, [Next]_vars, NEW s \in Shares PROVE Kept(s)
    <2>1. CASE UNCHANGED <<row, overdue>>
      BY <2>1 DEF Due
    <2>2. CASE Lapse \/ \E t \in Shares : Flag(t) \/ ReachCap(t)
      BY <1>1, <2>2, DueStep DEF Inv
    <2>3. ASSUME NEW d \in Daemons, Reap(d) PROVE Kept(s)
      <3> DEFINE h == Head(batch[d])
      <3>1. d \in txn /\ overdue' = overdue /\ h \notin stuck
            /\ row' = [row EXCEPT ![h] = "purged"]
        BY <2>3 DEF Reap
      <3>2. batch[d] \in Seq(Shares) /\ batch[d] # <<>>
        BY <1>1, <3>1, TxnSingle DEF Inv, Types
      <3>3. h \in Shares /\ 1 \in 1 .. Len(batch[d]) /\ h = batch[d][1]
        BY <3>2
      <3>4. row[h] = "live" => h <= overdue
        BY <1>1, <3>3 DEF Inv, BatchJustified
      <3>5. row[h] \in {"live", "expired", "destroyed", "purged"}
        BY <1>1, <3>3 DEF Inv, Types
      <3>6. Due(h) \/ row[h] = "purged"
        BY <3>4, <3>5 DEF Due
      <3>7. row'[h] = "purged" /\ (s # h => row'[s] = row[s])
        BY <1>1, <3>1, <3>3 DEF Inv, Types
      <3>8. CASE s = h
        BY <3>1, <3>6, <3>7, <3>8
      <3>9. CASE s # h
        BY <3>1, <3>7, <3>9 DEF Due
      <3> QED
        BY <3>8, <3>9
    <2> QED
      BY <1>1, <2>1, <2>2, <2>3
        DEF Next, vars, DaemonNext, Sweep, LockRow, ReapFails, Restart
  <1>2. Inv /\ [Next]_vars => \A s \in Shares : Kept(s)
    BY <1>1
  <1>3. Spec => []Inv
    BY InvInit, InvStep, PTL DEF Spec
  <1>4. Inv /\ [Next]_vars =>
            [\A s \in Shares :
                /\ Due(s) => Due(s)' \/ row'[s] = "purged"
                /\ row[s] = "purged" => row'[s] = "purged"
                /\ row'[s] = "purged" => row[s] = "purged" \/ (Due(s) /\ s \notin stuck)]_vars
    BY <1>2
  <1> QED
    BY <1>3, <1>4, PTL DEF Spec, DueUntilPurged

\* Who is stuck is fixed, and there are not more of them than shares.
LEMMA StuckStep == stuck \subseteq Shares /\ [Next]_vars => (stuck \subseteq Shares)'
  BY DEF Next, vars, Lapse, Flag, ReachCap, DaemonNext, Sweep, LockRow, Reap,
         ReapFails, Restart

\* ORDER BY ... LIMIT of the candidate query: with fewer stuck shares than places,
\* no answer consists of stuck shares alone while another share is due.
THEOREM PlaceCorrect == Spec => []PlaceLeft
  <1>1. ASSUME Inv, stuck \subseteq Shares, Cardinality(stuck) < BatchSize,
               NEW s \in Shares, Due(s), s \notin stuck,
               NEW q \in Answers, FetchReapable(q)
        PROVE  \E i \in 1 .. Len(q) : Due(q[i]) /\ q[i] \notin stuck
    <2>1. /\ q \in Seq(Shares) /\ IsInjective(q)
      BY <1>1, AnswerJustified DEF Inv
    <2>2. PICK n \in 0 .. BatchSize : q \in [1 .. n -> {t \in Shares : Due(t)}]
      BY DEF Answers
    <2>3. n \in Nat /\ Len(q) = n /\ DOMAIN q = 1 .. n
      BY <2>1, <2>2, SweepAssumption
    <2>4. \A i \in 1 .. n : Due(q[i])
      BY <2>2
    <2>5. SUFFICES ASSUME \A i \in 1 .. n : q[i] \in stuck PROVE FALSE
      BY <2>3, <2>4
    <2>6. n = BatchSize
      BY <1>1, <2>3, <2>5 DEF FetchReapable
    <2>7. IsFiniteSet(stuck)
      <3>1. MaxShares \in Int /\ 1 \in Int
        BY SweepAssumption
      <3> QED
        BY <1>1, <3>1, FS_Interval, FS_Subset DEF Shares
    <2>8. q \in [1 .. n -> stuck]
      BY <2>2, <2>5
    <2>9. \A i, j \in 1 .. n : q[i] = q[j] => i = j
      BY <2>1, <2>3 DEF IsInjective
    <2>10. q \in Injection(1 .. n, stuck)
      BY <2>1, <2>8 DEF Injection
    <2>11. Cardinality(1 .. n) <= Cardinality(stuck)
      BY <2>7, <2>10, FS_Injection
    <2>12. Cardinality(1 .. n) = n
      BY <2>3, FS_Interval
    <2>13. Cardinality(stuck) \in Nat
      BY <2>7, FS_CardinalityType
    <2> QED
      BY <1>1, <2>3, <2>6, <2>11, <2>12, <2>13
  <1>2. Inv /\ stuck \subseteq Shares => PlaceLeft
    BY <1>1 DEF PlaceLeft
  <1>3. Init => stuck \subseteq Shares
    BY DEF Init
  <1> QED
    BY <1>2, <1>3, StuckStep, InvInit, InvStep, PTL DEF Spec

-----------------------------------------------------------------------------
(* Type correctness.                                                       *)

\* The bounds that Types leaves out: the rank of a setting is at most Null, and
\* LIMIT bounds a batch for as long as a daemon works through it.
Bounds ==
    /\ overdue <= MaxShares
    /\ \A s \in Shares : stamp[s] \in 1 .. Null
    /\ stuck \subseteq Shares
    /\ \A d \in Daemons : Len(batch[d]) <= BatchSize
    /\ faults \in 0 .. MaxFaults

\* There are not more ranks than shares.
LEMMA RankBound == 1 + Cardinality({t \in Shares : stamp[t] # Null}) \in 1 .. Null
  <1>1. MaxShares \in Int /\ 1 \in Int /\ MaxShares \in Nat
    BY SweepAssumption
  <1>2. IsFiniteSet(Shares) /\ Cardinality(Shares) = MaxShares
    BY <1>1, FS_Interval DEF Shares
  <1>3. {t \in Shares : stamp[t] # Null} \in SUBSET Shares
    OBVIOUS
  <1>4. /\ Cardinality({t \in Shares : stamp[t] # Null}) \in Nat
        /\ Cardinality({t \in Shares : stamp[t] # Null}) <= MaxShares
    BY <1>2, <1>3, FS_Subset, FS_CardinalityType
  <1> QED
    BY <1>1, <1>4 DEF Null

\* A step leaves the bounds of the shares.
LEMMA ShareBounds ==
    ASSUME Inv, Bounds, Lapse \/ \E s \in Shares : Flag(s) \/ ReachCap(s)
    PROVE  Bounds'
  <1>1. UNCHANGED <<stuck, batch, faults>>
    BY DEF Lapse, Flag, ReachCap
  <1>2. overdue' <= MaxShares
    <2>1. overdue \in Nat /\ MaxShares \in Nat
      BY SweepAssumption DEF Inv, Types
    <2>2. overdue' = overdue \/ (overdue < MaxShares /\ overdue' = overdue + 1)
      BY DEF Lapse, Flag, ReachCap
    <2> QED
      BY <2>1, <2>2 DEF Bounds
  <1>3. \A t \in Shares : stamp'[t] \in 1 .. Null
    BY RankBound DEF Inv, Types, Bounds, Lapse, Flag, ReachCap
  <1> QED
    BY <1>1, <1>2, <1>3 DEF Bounds

\* A step of a daemon leaves the bounds: LIMIT holds for an answer, and a batch
\* only gets shorter.
LEMMA DaemonBounds ==
    ASSUME Inv, Bounds, NEW d \in Daemons, DaemonNext(d) \/ Restart(d)
    PROVE  Bounds'
  <1>1. UNCHANGED <<overdue, stamp, stuck>>
    BY DEF DaemonNext, Sweep, LockRow, Reap, ReapFails, Restart
  <1>2. faults' \in 0 .. MaxFaults
    <2>1. MaxFaults \in Nat /\ faults \in 0 .. MaxFaults
      BY SweepAssumption DEF Bounds
    <2>2. faults' = faults \/ (faults < MaxFaults /\ faults' = faults + 1)
      BY DEF DaemonNext, Sweep, LockRow, Reap, ReapFails, Restart
    <2> QED
      BY <2>1, <2>2
  <1>3. BatchSize \in Nat /\ batch \in [Daemons -> Seq(Shares)]
        /\ \A e \in Daemons : Len(batch[e]) <= BatchSize
    BY SweepAssumption DEF Inv, Types, Bounds
  <1>4. ASSUME NEW q, Len(q) <= BatchSize, batch' = [batch EXCEPT ![d] = q]
        PROVE  \A e \in Daemons : Len(batch'[e]) <= BatchSize
    BY <1>3, <1>4
  <1>5. \A e \in Daemons : Len(batch'[e]) <= BatchSize
    <2>1. CASE Sweep(d)
      <3>1. PICK q \in Answers : FetchReapable(q) /\ batch' = [batch EXCEPT ![d] = q]
        BY <2>1 DEF Sweep
      <3>2. PICK n \in 0 .. BatchSize : q \in [1 .. n -> {s \in Shares : Due(s)}]
        BY DEF Answers
      <3>3. q \in Seq(Shares)
        BY <3>1, AnswerJustified DEF Inv
      <3>4. Len(q) <= BatchSize
        BY <1>3, <3>2, <3>3
      <3> QED
        BY <1>4, <3>1, <3>4
    <2>2. CASE LockRow(d)
      BY <1>3, <2>2 DEF LockRow
    <2>3. CASE Reap(d) \/ ReapFails(d)
      <3>1. batch' = [batch EXCEPT ![d] = Tail(batch[d])]
        BY <1>3, <2>3 DEF Reap, ReapFails, AfterFailure
      <3>2. batch[d] \in Seq(Shares) /\ batch[d] # <<>>
        BY <1>3, <2>3, TxnSingle DEF Reap, ReapFails, Working
      <3>3. Len(Tail(batch[d])) <= BatchSize
        BY <1>3, <3>2
      <3> QED
        BY <1>4, <3>1, <3>3
    <2>4. CASE Restart(d)
      <3>1. Len(<<>>) <= BatchSize /\ batch' = [batch EXCEPT ![d] = <<>>]
        BY <1>3, <2>4 DEF Restart
      <3> QED
        BY <1>4, <3>1
    <2> QED
      BY <2>1, <2>2, <2>3, <2>4 DEF DaemonNext
  <1> QED
    BY <1>1, <1>2, <1>5 DEF Bounds

\* The state of the shares and of every daemon keeps its type; a batch never
\* grows beyond REAPER_BATCH_SIZE.
THEOREM TypeCorrect == Spec => []TypeOK
  <1>1. Init => Bounds
    <2> SUFFICES ASSUME Init PROVE Bounds
      OBVIOUS
    <2>1. MaxShares \in Nat /\ BatchSize \in Nat /\ MaxFaults \in Nat
      BY SweepAssumption
    <2>2. \A d \in Daemons : Len(batch[d]) = 0
      BY DEF Init
    <2> QED
      BY <2>1, <2>2 DEF Init, Bounds, Null
  <1>2. Inv /\ Bounds /\ [Next]_vars => Bounds'
    <2>1. CASE UNCHANGED vars
      BY <2>1 DEF vars, Bounds
    <2> QED
      BY <2>1, ShareBounds, DaemonBounds DEF Next
  <1>3. Inv /\ Bounds => TypeOK
    <2> SUFFICES ASSUME Inv, Bounds PROVE TypeOK
      OBVIOUS
    <2>1. overdue \in 0 .. MaxShares
      BY SweepAssumption DEF Inv, Types, Bounds
    <2>2. stamp \in [Shares -> 1 .. Null]
      BY DEF Inv, Types, Bounds
    <2> QED
      BY <2>1, <2>2 DEF Inv, Types, Bounds, TypeOK
  <1> QED
    BY <1>1, <1>2, <1>3, InvInit, InvStep, PTL DEF Spec
=============================================================================
