---------------------------- MODULE ReaperSweep ----------------------------
(***************************************************************************)
(* The sweeps of services/reaper over several shares: the candidate query  *)
(* with its order and limit (db.go) and the loop over its result           *)
(* (reaper.go), in one or more daemons that may be restarted.  What a reap *)
(* does to its share is the subject of ShareLifecycle and one step here.   *)
(* Shares are numbered in the order of expires_at.                         *)
(***************************************************************************)
EXTENDS Integers, Sequences, Functions, FiniteSets

CONSTANTS
    MaxShares,      \* shares in the database
    Daemons,        \* reaper processes, two of them during a rolling deploy
    BatchSize,      \* REAPER_BATCH_SIZE
    MaxFaults       \* passing failures and restarts in a behaviour

ASSUME SweepAssumption ==
    /\ MaxShares \in Nat /\ MaxFaults \in Nat
    /\ BatchSize \in Nat \ {0}

Shares == 1 .. MaxShares

\* destroyed_at IS NULL; it sorts behind every time.
Null == MaxShares + 1

VARIABLES
    row,        \* state of a share; "purged" is destroyed without chunk rows
    overdue,    \* shares 1 .. overdue are past expires_at
    stamp,      \* destroyed_at of a share: the rank of its setting, or Null
    stuck,      \* shares that no reap will ever finish
    batch,      \* per daemon: candidates still to be reaped in this sweep
    txn,        \* daemons whose transaction holds the row of their candidate
    faults      \* passing failures and restarts so far

vars == <<row, overdue, stamp, stuck, batch, txn, faults>>

TypeOK ==
    /\ row \in [Shares -> {"live", "expired", "destroyed", "purged"}]
    /\ overdue \in 0 .. MaxShares
    /\ stamp \in [Shares -> 1 .. Null]
    /\ stuck \subseteq Shares
    /\ batch \in [Daemons -> Seq(Shares)]
    /\ \A d \in Daemons : Len(batch[d]) <= BatchSize
    /\ txn \subseteq Daemons
    /\ faults \in 0 .. MaxFaults

Init ==
    /\ row = [s \in Shares |-> "live"]
    /\ overdue = 0
    /\ stamp = [s \in Shares |-> Null]
    /\ stuck \in SUBSET Shares
    /\ batch = [d \in Daemons |-> <<>>]
    /\ txn = {}
    /\ faults = 0

-----------------------------------------------------------------------------
(* How shares become due.                                                  *)

\* The lifetime of the next share ends.
Lapse ==
    /\ overdue < MaxShares
    /\ overdue' = overdue + 1
    /\ UNCHANGED <<row, stamp, stuck, batch, txn, faults>>

\* A burn or a revocation sets state and destroyed_at.
Flag(s) ==
    /\ row[s] = "live"
    /\ row' = [row EXCEPT ![s] = "destroyed"]
    /\ stamp' = [stamp EXCEPT ![s] = 1 + Cardinality({t \in Shares : stamp[t] # Null})]
    /\ UNCHANGED <<overdue, stuck, batch, txn, faults>>

\* The last download of a share with a cap sets the state alone.
ReachCap(s) ==
    /\ row[s] = "live" /\ s > overdue
    /\ row' = [row EXCEPT ![s] = "expired"]
    /\ UNCHANGED <<overdue, stamp, stuck, batch, txn, faults>>

-----------------------------------------------------------------------------
(* The daemon.                                                             *)

\* Mutant of Due: the boundary of the lifetime is off by one.
DueEarly(s) ==
    \/ row[s] = "live" /\ s <= overdue + 1
    \/ row[s] \in {"destroyed", "expired"}

\* The three branches of the candidate query; every share that is not purged
\* has chunk rows, and a counter at its cap goes with state "expired".
Due(s) ==
    \/ row[s] = "live" /\ s <= overdue
    \/ row[s] \in {"destroyed", "expired"}

\* ORDER BY destroyed_at NULLS LAST, expires_at.
Before(s, t) == stamp[s] < stamp[t] \/ (stamp[s] = stamp[t] /\ s < t)

Answers == UNION {[1 .. n -> {s \in Shares : Due(s)}] : n \in 0 .. BatchSize}

\* q is what the query answers with: candidates in order, and all of them unless
\* LIMIT cuts off the last.
FetchReapable(q) ==
    /\ \A i, j \in 1 .. Len(q) : i < j => Before(q[i], q[j])
    /\ \A s \in Shares : Due(s) =>
          \/ \E i \in 1 .. Len(q) : q[i] = s
          \/ Len(q) = BatchSize /\ \A i \in 1 .. Len(q) : Before(q[i], s)

Sweep(d) ==
    /\ batch[d] = <<>>
    /\ \E s \in Shares : Due(s)
    /\ \E q \in Answers : FetchReapable(q) /\ batch' = [batch EXCEPT ![d] = q]
    /\ UNCHANGED <<row, overdue, stamp, stuck, txn, faults>>

Working(d) == batch[d] # <<>>

\* Another transaction holds the row of the candidate of d.
Locked(d) == \E e \in txn \ {d} : Head(batch[e]) = Head(batch[d])

\* The objects are gone and FOR UPDATE SKIP LOCKED has found the row.
LockRow(d) ==
    /\ Working(d) /\ d \notin txn /\ ~Locked(d)
    /\ txn' = txn \cup {d}
    /\ UNCHANGED <<row, overdue, stamp, stuck, batch, faults>>

\* The transaction commits.  The share has destroyed_at and no chunk rows now:
\* no query will look at it, or at the time, again.
Reap(d) ==
    /\ d \in txn
    /\ LET s == Head(batch[d]) IN
        /\ s \notin stuck
        /\ row' = [row EXCEPT ![s] = "purged"]
    /\ batch' = [batch EXCEPT ![d] = Tail(@)]
    /\ txn' = txn \ {d}
    /\ UNCHANGED <<overdue, stamp, stuck, faults>>

\* Mutant of AfterFailure: the error leaves the loop.
AfterFailureAborts(d) == <<>>

\* A share that failed or was skipped is counted, and the loop goes on with
\* the next one.
AfterFailure(d) == Tail(batch[d])

\* MinIO or the transaction fails, this time or every time, or the row is
\* locked.
ReapFails(d) ==
    /\ Working(d)
    /\ \/ /\ Head(batch[d]) \in stuck \/ (d \notin txn /\ Locked(d))
          /\ UNCHANGED faults
       \/ /\ faults < MaxFaults
          /\ faults' = faults + 1
    /\ batch' = [batch EXCEPT ![d] = AfterFailure(d)]
    /\ txn' = txn \ {d}
    /\ UNCHANGED <<row, overdue, stamp, stuck>>

\* The process is stopped or dies in a sweep; the next one begins anew.
Restart(d) ==
    /\ Working(d)
    /\ faults < MaxFaults
    /\ faults' = faults + 1
    /\ batch' = [batch EXCEPT ![d] = <<>>]
    /\ txn' = txn \ {d}
    /\ UNCHANGED <<row, overdue, stamp, stuck>>

DaemonNext(d) == Sweep(d) \/ LockRow(d) \/ Reap(d) \/ ReapFails(d)

Next ==
    \/ Lapse
    \/ \E s \in Shares : Flag(s) \/ ReachCap(s)
    \/ \E d \in Daemons : DaemonNext(d) \/ Restart(d)

\* The ticker of every daemon keeps firing.
Spec == Init /\ [][Next]_vars /\ \A d \in Daemons : WF_vars(DaemonNext(d))

-----------------------------------------------------------------------------
(* Properties.                                                             *)

\* What a daemon still holds of an old query has no recipient to lose,
\* whatever the other one and the gateway have done since; no daemon holds a
\* share twice, and no two transactions hold one row.
BatchJustified ==
    \A d \in Daemons :
        /\ \A i \in 1 .. Len(batch[d]) :
               row[batch[d][i]] = "live" => batch[d][i] <= overdue
        /\ IsInjective(batch[d])
        /\ d \in txn => Working(d) /\ ~Locked(d)

\* Shares that can never be finished come first in every sweep.  As long as
\* they do not fill a batch, every other share that is due is purged.
DueIsPurged ==
    \A s \in Shares :
        Due(s) /\ s \notin stuck /\ Cardinality(stuck) < BatchSize ~> row[s] = "purged"
=============================================================================
