-------------------------- MODULE AuditChain_proofs --------------------------
(***************************************************************************)
(* Theorems about AuditChain, for any number of concurrent appends and any *)
(* digest.  The chain is linked because the advisory lock is held from the *)
(* read of the tail to the commit: a row that waits to be committed still  *)
(* refers to the tail and has a larger number than every committed row.    *)
(* For the same reason an append is atomic to its readers (LogCorrect).    *)
(* The two locks are taken in one order, so that nobody waits for ever for *)
(* somebody who waits (LocksCorrect).                                      *)
(***************************************************************************)
EXTENDS AuditChain, TLAPS

\* Who is past the lock holds it.
LockInv == \A t \in Txns : pc[t] \in {"insert", "commit"} => chainLock = t

\* An inserted row extends the committed chain: nobody changes the hash of the
\* tail, so it still refers to it.
PendingInv ==
    \A t \in Txns : pc[t] = "commit" =>
        /\ \A s \in Seqs : s < pending[t].seq
        /\ \E u \in Seqs : IsTail(u) /\ pending[t].entry = Entry(t, chain[u].hash)

\* Rows that nobody changed hash correctly and are linked to.
RowInv ==
    \A s \in Seqs : s > 1 /\ s # altered =>
        chain[s].body \in Txns /\ chain[s].hash = Digest(chain[s].prev, chain[s].body)

LinkInv ==
    \A u, s \in Seqs :
        Precedes(u, s, Seqs) /\ u # altered => chain[s].prev = chain[u].hash

\* A row that is not the last has a successor.
SuccessorInv == \A s \in Seqs : IsTail(s) \/ \E v \in Seqs : Precedes(s, v, Seqs)

\* The changed row has the hash of what it said before, or its successor does.
AlteredInv ==
    altered # 0 =>
        /\ altered > 1 /\ chain[altered].body = Tampered
        /\ \E t \in Txns :
              \/ chain[altered].hash = Digest(chain[altered].prev, t)
              \/ /\ chain[altered].hash = Digest(chain[altered].prev, Tampered)
                 /\ \E s \in Seqs : /\ Precedes(altered, s, Seqs)
                                    /\ chain[s].prev = Digest(chain[altered].prev, t)

\* What the committed rows satisfy.
ChainInv == RowInv /\ LinkInv /\ SuccessorInv /\ AlteredInv

\* The inductive invariant.
Inv == TypeOK /\ LockInv /\ PendingInv /\ ChainInv

\* The chain starts with the genesis row alone.
LEMMA InvInit == Init => Inv
  <1> SUFFICES ASSUME Init PROVE Inv
    OBVIOUS
  <1>1. TypeOK
    BY DEF Init, TypeOK, Seqs, Genesis, NoEntry, Bodies, Pcs
  <1>2. LockInv /\ PendingInv
    BY DEF Init, LockInv, PendingInv
  <1>3. ChainInv
    BY DEF Init, ChainInv, RowInv, LinkInv, SuccessorInv, AlteredInv, Seqs, Precedes, IsTail
  <1> QED
    BY <1>1, <1>2, <1>3 DEF Inv

\* Only Commit adds a row, and the row it adds is the last one.
LEMMA CommitAppends ==
  ASSUME Inv, NEW t \in Txns, Commit(t)
  PROVE  /\ Seqs' = Seqs \cup {pending[t].seq}
         /\ \A s \in Seqs : s < pending[t].seq /\ chain'[s] = chain[s]
         /\ chain'[pending[t].seq] = pending[t].entry
  <1>1. \A s \in Seqs : s < pending[t].seq
    BY DEF Inv, PendingInv, Commit, Goto
  <1>2. Seqs' = Seqs \cup {pending[t].seq}
    BY DEF Commit, Seqs
  <1>3. \A s \in Seqs : s # pending[t].seq
    BY <1>1 DEF Inv, TypeOK
  <1> QED
    BY <1>1, <1>2, <1>3 DEF Commit, Seqs

\* Every step of every transaction keeps the types.
LEMMA TypeStep == Inv /\ [Next]_vars => TypeOK'
  <1> SUFFICES ASSUME Inv, [Next]_vars PROVE TypeOK'
    OBVIOUS
  <1> USE DEF Inv, TypeOK, Pcs
  <1>1. ASSUME NEW t \in Txns, Begin(t) PROVE TypeOK'
    BY <1>1 DEF Seqs, Begin, Goto
  <1>2. ASSUME NEW t \in Txns, LockRow(t) PROVE TypeOK'
    BY <1>2 DEF Seqs, LockRow, Goto
  <1>3. ASSUME NEW t \in Txns, LockChain(t) PROVE TypeOK'
    BY <1>3 DEF Seqs, LockChain, Goto
  <1>4. ASSUME NEW t \in Txns, Insert(t) PROVE TypeOK'
    BY <1>4 DEF Seqs, Insert, Goto, Entry, Bodies
  <1>5. ASSUME NEW t \in Txns, Commit(t) PROVE TypeOK'
    <2>1. /\ Seqs' = Seqs \cup {pending[t].seq}
          /\ \A s \in Seqs : s < pending[t].seq /\ chain'[s] = chain[s]
          /\ chain'[pending[t].seq] = pending[t].entry
      BY <1>5, CommitAppends
    <2>2. Seqs' \subseteq 1 .. lastSeq' /\ 1 \in Seqs' /\ altered' \in Seqs' \cup {0}
      <3>1. pending[t].seq \in 1 .. lastSeq
        BY <2>1
      <3>2. lastSeq' = lastSeq /\ altered' = altered
        BY <1>5 DEF Commit
      <3> QED
        BY <2>1, <3>1, <3>2
    <2>3. \A s \in Seqs' : chain'[s].body \in Bodies
      BY <2>1
    <2>4. /\ pc' \in [Txns -> Pcs]
          /\ chainLock' \in Txns \cup {NoTxn}
          /\ rowLock' \in Txns \cup {NoTxn}
          /\ lastSeq' \in Nat
      BY <1>5 DEF Commit, Goto, Release
    <2>5. DOMAIN pending' = Txns
      BY <1>5 DEF Commit, Release
    <2>6. \A x \in Txns : pending'[x].seq \in 0 .. lastSeq' /\ pending'[x].entry.body \in Bodies
      BY <1>5 DEF Commit, Release, NoEntry, Genesis, Bodies
    <2> QED
      BY <2>2, <2>3, <2>4, <2>5, <2>6
  <1>6. ASSUME NEW t \in Txns, Rollback(t) PROVE TypeOK'
    BY <1>6 DEF Seqs, Rollback, Release, NoEntry, Genesis, Bodies
  <1>7. ASSUME NEW s \in Seqs, NEW rehash \in BOOLEAN, Alter(s, rehash) PROVE TypeOK'
    BY <1>7 DEF Seqs, Alter, Bodies
  <1>8. CASE UNCHANGED vars
    BY <1>8 DEF Seqs, vars
  <1> QED
    BY <1>1, <1>2, <1>3, <1>4, <1>5, <1>6, <1>7, <1>8 DEF Next, AppendNext

\* Every step of every transaction keeps the invariant.
LEMMA InvStep == Inv /\ [Next]_vars => Inv'
  <1> SUFFICES ASSUME Inv, TypeOK', [Next]_vars PROVE Inv'
    BY TypeStep
  <1> USE DEF Inv, TypeOK, LockInv
  <1>1. ASSUME UNCHANGED <<chain, altered>>, LockInv', PendingInv' PROVE Inv'
    BY <1>1 DEF ChainInv, RowInv, LinkInv, SuccessorInv, AlteredInv, Seqs, Precedes, IsTail
  <1>2. ASSUME NEW t \in Txns, Begin(t) \/ LockRow(t) \/ LockChain(t) PROVE Inv'
    <2>1. UNCHANGED <<chain, altered, pending>>
      BY <1>2 DEF Begin, LockRow, LockChain
    <2>2. \A x \in Txns : pc'[x] = "commit" => pc[x] = "commit"
      BY <1>2 DEF Begin, LockRow, LockChain, Goto
    <2>3. LockInv'
      BY <1>2, NoTxnAssumption DEF Begin, LockRow, LockChain, Goto, NoTxnAssumption
    <2>4. PendingInv'
      BY <2>1, <2>2 DEF PendingInv, Seqs, IsTail
    <2> QED
      BY <1>1, <2>1, <2>3, <2>4
  <1>3. ASSUME NEW t \in Txns, Insert(t) PROVE Inv'
    <2>1. UNCHANGED <<chain, altered>>
      BY <1>3 DEF Insert
    <2>2. LockInv'
      BY <1>3 DEF Insert, Goto
    <2>3. \A x \in Txns : pc'[x] = "commit" => x = t
      BY <1>3 DEF Insert, Goto
    <2>4. PICK u \in Seqs : IsTail(u) /\ pending'[t] =
                              [seq |-> lastSeq + 1, entry |-> Entry(t, chain[u].hash)]
      BY <1>3 DEF Insert
    <2>5. \A s \in Seqs : s < pending'[t].seq
      <3>1. pending'[t].seq = lastSeq + 1
        BY <2>4
      <3>2. \A s \in Seqs : s \in Nat /\ s <= lastSeq
        OBVIOUS
      <3> QED
        BY <3>1, <3>2
    <2>6. PendingInv'
      BY <2>1, <2>3, <2>4, <2>5 DEF PendingInv, Seqs, IsTail, Entry
    <2> QED
      BY <1>1, <2>1, <2>2, <2>6
  <1>4. ASSUME NEW t \in Txns, Rollback(t) PROVE Inv'
    <2>1. UNCHANGED <<chain, altered>>
      BY <1>4 DEF Rollback
    <2>2. LockInv'
      BY <1>4 DEF Rollback, Release
    <2>3. \A x \in Txns : pc'[x] = "commit" => pc[x] = "commit" /\ pending'[x] = pending[x]
      BY <1>4 DEF Rollback, Release
    <2>4. PendingInv'
      BY <2>1, <2>3 DEF PendingInv, Seqs, IsTail
    <2> QED
      BY <1>1, <2>1, <2>2, <2>4
  <1>5. ASSUME NEW t \in Txns, Commit(t) PROVE Inv'
    <2>1. /\ Seqs' = Seqs \cup {pending[t].seq}
          /\ \A s \in Seqs : s < pending[t].seq /\ chain'[s] = chain[s]
          /\ chain'[pending[t].seq] = pending[t].entry
      BY <1>5, CommitAppends
    <2>2. LockInv'
      BY <1>5 DEF Commit, Goto, Release
    <2>3. PendingInv'
      BY <1>5 DEF Commit, Goto, PendingInv
    <2>4. altered' = altered
      BY <1>5 DEF Commit
    <2>5. PICK u \in Seqs : IsTail(u) /\ pending[t].entry = Entry(t, chain[u].hash)
      BY <1>5 DEF PendingInv, Commit, Goto
    <2>6. \A v, s \in Seqs : Precedes(v, s, Seqs') <=> Precedes(v, s, Seqs)
      BY <2>1 DEF Precedes
    <2>7. RowInv'
      BY <2>1, <2>4, <2>5 DEF ChainInv, RowInv, Entry
    <2>8. LinkInv'
      <3> SUFFICES ASSUME NEW v \in Seqs', NEW s \in Seqs', Precedes(v, s, Seqs'), v # altered
                   PROVE  chain'[s].prev = chain'[v].hash
        BY <2>4 DEF LinkInv
      <3>1. CASE s \in Seqs
        <4>1. v \in Seqs
          BY <2>1, <3>1 DEF Precedes
        <4> QED
          BY <2>1, <2>6, <3>1, <4>1 DEF ChainInv, LinkInv
      <3>2. CASE s = pending[t].seq
        <4>1. u \in Nat /\ v < s /\ u < s /\ u \in Seqs'
          BY <2>1, <3>2 DEF Precedes
        <4>2. v \in Seqs
          BY <2>1, <3>2, <4>1
        <4>3. v <= u
          BY <2>5, <4>2 DEF IsTail
        <4>4. u <= v
          BY <4>1 DEF Precedes
        <4>5. v = u
          BY <4>1, <4>2, <4>3, <4>4
        <4> QED
          BY <2>1, <2>5, <3>2, <4>5 DEF Entry
      <3> QED
        BY <2>1, <3>1, <3>2
    <2>9. SuccessorInv'
      <3>1. \A x \in Seqs' : x <= pending[t].seq
        BY <2>1
      <3>2. Precedes(u, pending[t].seq, Seqs')
        BY <2>1, <2>5 DEF Precedes, IsTail
      <3>3. \A s \in Seqs : s = u \/ \E v \in Seqs : Precedes(s, v, Seqs)
        BY <2>5 DEF ChainInv, SuccessorInv, IsTail
      <3>4. \A s \in Seqs : \E v \in Seqs' : Precedes(s, v, Seqs')
        BY <2>1, <2>6, <3>2, <3>3
      <3>5. \A s \in Seqs' : (\A x \in Seqs' : x <= s) \/ \E v \in Seqs' : Precedes(s, v, Seqs')
        <4>1. \A s \in Seqs' : s \in Seqs \/ s = pending[t].seq
          BY <2>1
        <4> QED
          BY <3>1, <3>4, <4>1, Zenon
      <3> QED
        BY <3>5 DEF SuccessorInv, IsTail, Precedes
    <2>10. AlteredInv'
      <3> SUFFICES ASSUME altered # 0 PROVE AlteredInv'
        BY <2>4 DEF AlteredInv
      <3>1. altered \in Seqs
        OBVIOUS
      <3> QED
        BY <2>1, <2>4, <2>6, <3>1 DEF ChainInv, AlteredInv
    <2> QED
      BY <2>2, <2>3, <2>7, <2>8, <2>9, <2>10 DEF ChainInv
  <1>6. ASSUME NEW s \in Seqs, NEW rehash \in BOOLEAN, Alter(s, rehash) PROVE Inv'
    <2>1. /\ altered = 0 /\ altered' = s /\ s > 1 /\ (rehash => ~IsTail(s))
          /\ Seqs' = Seqs /\ UNCHANGED <<pc, pending, chainLock>>
      BY <1>6 DEF Alter, Seqs
    <2>2. /\ \A u \in Seqs : u # s => chain'[u] = chain[u]
          /\ chain'[s].body = Tampered /\ chain'[s].prev = chain[s].prev
          /\ chain'[s].hash = IF rehash THEN Digest(chain[s].prev, Tampered) ELSE chain[s].hash
      BY <1>6 DEF Alter, Seqs
    <2>3. \A u \in Seqs : IsTail(u) <=> IsTail(u)'
      BY <2>1 DEF IsTail
    <2>4. \A u \in Seqs : IsTail(u) => chain'[u].hash = chain[u].hash
      BY <2>1, <2>2
    <2>5. PendingInv'
      BY <2>1, <2>3, <2>4 DEF PendingInv
    <2>6. RowInv'
      <3>1. \A u \in Seqs : u > 1 => u # altered
        BY <2>1
      <3>2. \A u \in Seqs : u > 1 =>
                chain[u].body \in Txns /\ chain[u].hash = Digest(chain[u].prev, chain[u].body)
        BY <3>1 DEF ChainInv, RowInv
      <3> QED
        BY <2>1, <2>2, <3>2 DEF RowInv
    <2>7. LinkInv'
      <3> SUFFICES ASSUME NEW u \in Seqs, NEW v \in Seqs, Precedes(u, v, Seqs), u # s
                   PROVE  chain'[v].prev = chain'[u].hash
        BY <2>1 DEF LinkInv
      <3>1. chain[v].prev = chain[u].hash
        BY <2>1 DEF ChainInv, LinkInv
      <3> QED
        BY <2>2, <3>1
    <2>8. SuccessorInv'
      BY <2>1, <2>3 DEF ChainInv, SuccessorInv
    <2>9. AlteredInv'
      <3>1. PICK t \in Txns : chain[s].hash = Digest(chain[s].prev, t)
        BY <2>1 DEF ChainInv, RowInv
      <3>2. CASE ~rehash
        BY <2>1, <2>2, <3>1, <3>2 DEF AlteredInv
      <3>3. CASE rehash
        <4>1. PICK v \in Seqs : Precedes(s, v, Seqs)
          BY <2>1, <3>3 DEF ChainInv, SuccessorInv
        <4>2. v # s /\ chain[v].prev = chain[s].hash
          BY <2>1, <4>1 DEF ChainInv, LinkInv, Precedes
        <4> QED
          BY <2>1, <2>2, <3>1, <3>3, <4>1, <4>2 DEF AlteredInv
      <3> QED
        BY <3>2, <3>3
    <2>10. LockInv'
      BY <2>1
    <2> QED
      BY <2>5, <2>6, <2>7, <2>8, <2>9, <2>10 DEF ChainInv
  <1>7. CASE UNCHANGED vars
    <2>1. LockInv' /\ PendingInv'
      BY <1>7 DEF vars, PendingInv, Seqs, IsTail
    <2> QED
      BY <1>1, <1>7, <2>1 DEF vars
  <1> QED
    BY <1>2, <1>3, <1>4, <1>5, <1>6, <1>7 DEF Next, AppendNext

\* The invariant holds throughout.
THEOREM InvCorrect == Spec => []Inv
  <1>1. Init => Inv
    BY InvInit
  <1>2. Inv /\ [Next]_vars => Inv'
    BY InvStep
  <1> QED
    BY <1>1, <1>2, PTL DEF Spec

\* Type correctness: row numbers stay within what the sequence handed out.
THEOREM TypeCorrect == Spec => []TypeOK
  BY InvCorrect, PTL DEF Inv

\* However appends interleave and roll back, each row of an untouched chain
\* carries the hash of the row before it.
THEOREM LinkCorrect == Spec => []ChainLinked
  <1>1. Inv => ChainLinked
    BY DEF Inv, TypeOK, ChainInv, LinkInv, ChainLinked
  <1> QED
    BY <1>1, InvCorrect, PTL

-----------------------------------------------------------------------------
\* The promise of AuditLog.

\* A transaction whose row is visible has ended: nobody appends twice.
OnceInv == \A s \in Seqs : chain[s].body \in Txns => pc[chain[s].body] = "done"

\* Every step of every transaction keeps that.
LEMMA OnceStep == Inv /\ OnceInv /\ [Next]_vars => OnceInv'
  <1> SUFFICES ASSUME Inv, OnceInv, [Next]_vars PROVE OnceInv'
    OBVIOUS
  <1> USE DEF Inv, TypeOK, Pcs, OnceInv
  <1>1. ASSUME NEW t \in Txns, Begin(t) \/ LockRow(t) \/ LockChain(t) \/ Insert(t) \/ Rollback(t)
        PROVE  OnceInv'
    BY <1>1 DEF Begin, LockRow, LockChain, Insert, Rollback, Goto, Seqs
  <1>2. ASSUME NEW t \in Txns, Commit(t) PROVE OnceInv'
    <2>1. /\ Seqs' = Seqs \cup {pending[t].seq}
          /\ \A s \in Seqs : chain'[s] = chain[s]
          /\ chain'[pending[t].seq] = pending[t].entry
      BY <1>2, CommitAppends
    <2>2. pending[t].entry.body = t
      <3>1. PICK u \in Seqs : pending[t].entry = Entry(t, chain[u].hash)
        BY <1>2 DEF PendingInv, Commit, Goto
      <3> QED
        BY <3>1 DEF Entry
    <2>3. pc' = [pc EXCEPT ![t] = "done"]
      BY <1>2 DEF Commit, Goto
    <2> QED
      BY <2>1, <2>2, <2>3
  <1>3. ASSUME NEW s \in Seqs, NEW rehash \in BOOLEAN, Alter(s, rehash) PROVE OnceInv'
    BY <1>3, BodiesAssumption DEF Alter, Seqs, BodiesAssumption
  <1>4. CASE UNCHANGED vars
    BY <1>4 DEF vars, Seqs
  <1> QED
    BY <1>1, <1>2, <1>3, <1>4 DEF Next, AppendNext

\* To a reader of the table, a commit is an append and nothing else happens but
\* by the hand of somebody who changes a row.
LEMMA LogStep == Inv /\ OnceInv /\ [Next]_vars => [Log!Next]_<<chain, altered>>
  <1> SUFFICES ASSUME Inv, OnceInv, [Next]_vars PROVE [Log!Next]_<<chain, altered>>
    OBVIOUS
  <1>1. ASSUME NEW t \in Txns, Commit(t) PROVE Log!Append(t)
    <2>1. /\ Seqs' = Seqs \cup {pending[t].seq}
          /\ \A s \in Seqs : s < pending[t].seq
      BY <1>1, CommitAppends
    <2>2. PICK u \in Seqs : IsTail(u) /\ pending[t].entry = Entry(t, chain[u].hash)
      BY <1>1 DEF Inv, PendingInv, Commit, Goto
    <2>3. \A s \in Seqs : chain[s].body # t
      BY <1>1 DEF OnceInv, Commit, Goto
    <2>4. chain' = [s \in Seqs \cup {pending[t].seq} |->
                      IF s = pending[t].seq THEN Entry(t, chain[u].hash) ELSE chain[s]]
      BY <1>1, <2>2 DEF Commit
    <2>5. altered' = altered
      BY <1>1 DEF Commit
    <2> QED
      BY <2>1, <2>2, <2>3, <2>4, <2>5 DEF Log!Append, Seqs, IsTail
  <1>2. ASSUME NEW s \in Seqs, NEW rehash \in BOOLEAN, Alter(s, rehash) PROVE Log!Alter(s)
    BY <1>2 DEF Alter, Log!Alter, Seqs
  <1>3. CASE UNCHANGED <<chain, altered>>
    BY <1>3
  <1> QED
    BY <1>1, <1>2, <1>3 DEF Next, AppendNext, Begin, LockRow, LockChain, Insert, Rollback,
          vars, Log!Next, Seqs

\* However many transactions overlap, wait and roll back, append_audit_entry is
\* an atomic append: one row or none per transaction, behind all the others and
\* linked to the one that was the last.
THEOREM LogCorrect == Spec => LogKept
  <1>1. Init => Inv /\ OnceInv /\ Log!Init
    <2>1. Init => OnceInv
      BY BodiesAssumption DEF Init, OnceInv, Seqs, Genesis, BodiesAssumption
    <2>2. Init => Log!Init
      BY DEF Init, Log!Init
    <2> QED
      BY <2>1, <2>2, InvInit
  <1>2. Inv /\ OnceInv /\ [Next]_vars => Inv' /\ OnceInv'
    BY InvStep, OnceStep
  <1> QED
    BY <1>1, <1>2, LogStep, PTL DEF Spec, LogKept, Log!Spec

-----------------------------------------------------------------------------
\* The locks.

\* A lock belongs to a transaction that is past it and has not ended, and there
\* is a tail to append to.
HolderInv ==
    /\ \A t \in Txns : chainLock = t => pc[t] \in {"insert", "commit"}
    /\ \A t \in Txns : rowLock = t => pc[t] \in {"lock", "insert", "commit"}
    /\ \E s \in Seqs : IsTail(s)

\* Every step of every transaction keeps that.
LEMMA HolderStep == Inv /\ HolderInv /\ [Next]_vars => HolderInv'
  <1> SUFFICES ASSUME Inv, HolderInv, [Next]_vars PROVE HolderInv'
    OBVIOUS
  <1> USE NoTxnAssumption DEF Inv, TypeOK, Pcs, LockInv, NoTxnAssumption
  <1>1. ASSUME NEW t \in Txns, Begin(t) \/ LockRow(t) \/ LockChain(t) \/ Insert(t)
        PROVE  HolderInv'
    BY <1>1 DEF HolderInv, Begin, LockRow, LockChain, Insert, Goto, Seqs, IsTail
  <1>2. ASSUME NEW t \in Txns, Rollback(t) PROVE HolderInv'
    BY <1>2 DEF HolderInv, Rollback, Release, Seqs, IsTail
  <1>3. ASSUME NEW t \in Txns, Commit(t) PROVE HolderInv'
    <2>1. /\ Seqs' = Seqs \cup {pending[t].seq}
          /\ \A s \in Seqs : s < pending[t].seq
      BY <1>3, CommitAppends
    <2>2. pending[t].seq \in Nat
      OBVIOUS
    <2>3. (\E s \in Seqs : IsTail(s))'
      <3>1. \A u \in Seqs' : u <= pending[t].seq
        BY <2>1, <2>2
      <3> QED
        BY <2>1, <3>1 DEF IsTail
    <2>4. pc' = [pc EXCEPT ![t] = "done"] /\ Release(t)
      BY <1>3 DEF Commit, Goto
    <2> QED
      BY <2>3, <2>4 DEF HolderInv, Release
  <1>4. ASSUME NEW s \in Seqs, NEW rehash \in BOOLEAN, Alter(s, rehash) PROVE HolderInv'
    BY <1>4 DEF HolderInv, Alter, Seqs, IsTail
  <1>5. CASE UNCHANGED vars
    BY <1>5 DEF HolderInv, vars, Seqs, IsTail
  <1> QED
    BY <1>1, <1>2, <1>3, <1>4, <1>5 DEF Next, AppendNext

\* The guards of AppendNext: t waits for nobody.
Unblocked(t) ==
    \/ pc[t] = "row" /\ rowLock = NoTxn
    \/ pc[t] = "lock" /\ chainLock = NoTxn
    \/ pc[t] = "insert" /\ \E s \in Seqs : IsTail(s)
    \/ pc[t] = "commit"

\* Nobody waits for a transaction that has ended, and while one waits another
\* one can go on.
NoDeadlock ==
    /\ \A t \in Txns : pc[t] = "done" => chainLock # t /\ rowLock # t
    /\ (\E t \in Txns : pc[t] \notin {"idle", "done"}) => \E t \in Txns : Unblocked(t)

\* mark_chunk_served and finalizeDestroy wait for the audit lock while they hold
\* the row of the share: whatever the number of transactions, the two locks do
\* not hold each other up, and a rollback leaves neither behind.
THEOREM LocksCorrect == Spec => []NoDeadlock
  <1>1. Init => HolderInv
    BY NoTxnAssumption DEF Init, HolderInv, Seqs, IsTail, NoTxnAssumption
  <1>2. Inv /\ HolderInv => NoDeadlock
    <2> SUFFICES ASSUME Inv, HolderInv PROVE NoDeadlock
      OBVIOUS
    <2>1. ASSUME NEW t \in Txns, pc[t] = "lock" PROVE \E v \in Txns : Unblocked(v)
      BY <2>1 DEF Inv, TypeOK, HolderInv, Unblocked
    <2>2. ASSUME NEW t \in Txns, pc[t] \notin {"idle", "done"}
          PROVE  \E v \in Txns : Unblocked(v)
      <3>1. pc[t] \in {"row", "lock", "insert", "commit"}
        BY <2>2 DEF Inv, TypeOK, Pcs
      <3> QED
        BY <2>1, <3>1 DEF Inv, TypeOK, HolderInv, Unblocked
    <2> QED
      BY <2>2 DEF NoDeadlock, HolderInv
  <1> QED
    BY <1>1, <1>2, HolderStep, InvCorrect, PTL DEF Spec

-----------------------------------------------------------------------------
\* The verifier.

\* verify_audit_chain raises no false alarm on an untouched chain, whatever
\* the range, as long as the row before the range exists.
THEOREM VerifyCorrect == Spec => []VerifySound
  <1>1. ASSUME Inv, altered = 0,
               NEW from \in Seqs, NEW to \in Seqs \cup {Null},
               from = 1 \/ from - 1 \in Seqs
        PROVE  VerifyAuditChain(from, to) = Null
    <2> USE <1>1 DEF Inv, TypeOK, Null
    <2>1. ASSUME NEW s \in InRange(from, to), s > 1, LinkBroken(from, to, s)
          PROVE  FALSE
      <3>1. PICK u \in InRange(from, to) \cup ({from - 1} \cap Seqs) :
                   /\ Precedes(u, s, InRange(from, to) \cup {from - 1})
                   /\ chain[s].prev # chain[u].hash
        BY <2>1 DEF LinkBroken
      <3>2. s \in Seqs /\ u \in Seqs
        BY <2>1, <3>1 DEF InRange
      <3>3. ASSUME NEW v \in Seqs, v < s PROVE v <= u
        <4>1. CASE v >= from
          BY <2>1, <3>1, <3>3, <4>1 DEF InRange, Precedes
        <4>2. CASE v < from
          BY <3>1, <3>2, <4>2 DEF InRange, Precedes
        <4> QED
          BY <4>1, <4>2
      <3>4. Precedes(u, s, Seqs)
        BY <3>1, <3>2, <3>3 DEF Precedes
      <3> QED
        BY <3>1, <3>2, <3>4 DEF ChainInv, LinkInv
    <2>2. BrokenRows(from, to) = {}
      BY <2>1 DEF BrokenRows, RowBroken, ChainInv, RowInv, InRange
    <2> QED
      BY <2>2 DEF VerifyAuditChain
  <1>2. Inv => VerifySound
    BY <1>1 DEF VerifySound
  <1> QED
    BY <1>2, InvCorrect, PTL

\* No body an append has written hashes like the one that replaces it: SHA-256
\* is taken to be resistant to second preimages.
CollisionFree == \A h : \A t \in Txns : Digest(h, t) # Digest(h, Tampered)

\* A full check looks at the rows as they are, one after the other.
LEMMA FullCheck ==
    ASSUME Inv, NEW s
    PROVE  s \in BrokenRows(1, Null) <=>
               /\ s \in Seqs /\ s > 1
               /\ \/ \E u \in Seqs : Precedes(u, s, Seqs) /\ chain[s].prev # chain[u].hash
                  \/ chain[s].hash # Digest(chain[s].prev, chain[s].body)
  <1>1. Seqs \subseteq Nat \ {0}
    BY DEF Inv, TypeOK
  <1>2. InRange(1, Null) = Seqs
    <2>1. \A x \in Seqs : x >= 1
      BY <1>1
    <2> QED
      BY <2>1 DEF InRange, Null
  <1>3. InRange(1, Null) \cup ({1 - 1} \cap Seqs) = Seqs
    BY <1>1, <1>2
  <1>4. ASSUME NEW u \in Seqs
        PROVE  Precedes(u, s, Seqs \cup {1 - 1}) <=> Precedes(u, s, Seqs)
    BY <1>1 DEF Precedes
  <1> QED
    BY <1>2, <1>3, <1>4 DEF BrokenRows, RowBroken, LinkBroken

\* verify_audit_chain finds a changed row, at its own number or at the row after
\* it, whether or not its hash was recomputed and whatever was appended since.
THEOREM AlterationCorrect == CollisionFree => (Spec => []AlterationFound)
  <1> SUFFICES ASSUME CollisionFree PROVE Spec => []AlterationFound
    OBVIOUS
  <1>1. ASSUME Inv, altered # 0
        PROVE  LET found == VerifyAuditChain(1, Null)
               IN  found = altered \/ (found \in Seqs /\ Precedes(altered, found, Seqs))
    <2> DEFINE Broken == BrokenRows(1, Null)
               found == VerifyAuditChain(1, Null)
    <2>1. Seqs \subseteq Nat /\ altered \in Seqs /\ AlteredInv /\ RowInv /\ LinkInv
      BY <1>1 DEF Inv, TypeOK, ChainInv
    <2>2. ASSUME NEW s \in Broken
          PROVE  s \in Seqs /\ (s = altered \/ Precedes(altered, s, Seqs))
      <3>1. /\ s \in Seqs /\ s > 1
            /\ \/ \E u \in Seqs : Precedes(u, s, Seqs) /\ chain[s].prev # chain[u].hash
               \/ chain[s].hash # Digest(chain[s].prev, chain[s].body)
        BY <1>1, <2>2, FullCheck
      <3>2. CASE chain[s].hash # Digest(chain[s].prev, chain[s].body)
        BY <2>1, <3>1, <3>2 DEF RowInv
      <3>3. ASSUME NEW u \in Seqs, Precedes(u, s, Seqs), chain[s].prev # chain[u].hash
            PROVE  u = altered
        BY <2>1, <3>1, <3>3 DEF LinkInv
      <3> QED
        BY <3>1, <3>2, <3>3
    <2>3. altered \in Broken \/ \E s \in Seqs : s \in Broken /\ Precedes(altered, s, Seqs)
      <3>1. PICK t \in Txns :
                \/ chain[altered].hash = Digest(chain[altered].prev, t)
                \/ /\ chain[altered].hash = Digest(chain[altered].prev, Tampered)
                   /\ \E s \in Seqs : /\ Precedes(altered, s, Seqs)
                                      /\ chain[s].prev = Digest(chain[altered].prev, t)
        BY <1>1, <2>1 DEF AlteredInv
      <3>2. Digest(chain[altered].prev, t) # Digest(chain[altered].prev, Tampered)
        BY DEF CollisionFree
      <3>3. altered > 1 /\ chain[altered].body = Tampered
        BY <1>1, <2>1 DEF AlteredInv
      <3>4. CASE chain[altered].hash = Digest(chain[altered].prev, t)
        BY <1>1, <2>1, <3>2, <3>3, <3>4, FullCheck
      <3>5. ASSUME NEW s \in Seqs, Precedes(altered, s, Seqs),
                   chain[s].prev # chain[altered].hash
            PROVE  s \in Broken
        <4>1. s > 1
          BY <2>1, <3>3, <3>5 DEF Precedes
        <4> QED
          BY <1>1, <2>1, <3>5, <4>1, FullCheck
      <3> QED
        BY <3>1, <3>2, <3>4, <3>5
    <2>4. \E s \in Broken : \A u \in Broken : s <= u
      <3>1. \A u \in Broken : altered <= u
        <4>1. \A u \in Seqs : u = altered \/ altered < u => altered <= u
          BY <2>1
        <4> QED
          BY <2>2, <4>1 DEF Precedes
      <3>2. ASSUME NEW s \in Seqs, Precedes(altered, s, Seqs), altered \notin Broken,
                   NEW u \in Broken
            PROVE  s <= u
        <4>1. u \in Seqs /\ Precedes(altered, u, Seqs)
          BY <2>2, <3>2
        <4>2. ~(u < s)
          BY <2>1, <3>2, <4>1 DEF Precedes
        <4> QED
          BY <2>1, <4>1, <4>2
      <3> QED
        BY <2>3, <3>1, <3>2
    <2>5. Broken # {} /\ ~(1 > 1 /\ 1 - 1 \notin Seqs)
      BY <2>4
    <2>6. found \in Broken
      BY <2>4, <2>5 DEF VerifyAuditChain
    <2> QED
      BY <2>2, <2>6
  <1>2. Inv => AlterationFound
    BY <1>1 DEF AlterationFound
  <1> QED
    BY <1>2, InvCorrect, PTL
=============================================================================
