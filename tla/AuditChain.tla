----------------------------- MODULE AuditChain -----------------------------
(***************************************************************************)
(* The hash-chained audit table: append_audit_entry and verify_audit_chain *)
(* of 0002_audit_chain_helpers.sql over the table of 0001_init.sql.        *)
(*                                                                         *)
(* Every append runs in a READ COMMITTED transaction.  The gateway's       *)
(* append is a transaction of its own; mark_chunk_served and the reaper's  *)
(* finalizeDestroy append at the end of a longer one that already holds    *)
(* the row lock of the share (the transactions of RowTxns, which contend   *)
(* for one share here).  The advisory lock and the row lock last until     *)
(* the transaction ends.  seq is a BIGSERIAL: nextval is not undone by a   *)
(* rollback, so the numbers of the committed rows may have gaps.           *)
(*                                                                         *)
(* A body stands for the digested columns: occurred_at, event_type and     *)
(* payload.  share_id is not digested and is left out.                     *)
(***************************************************************************)
EXTENDS Naturals

CONSTANTS
    Txns,          \* transactions that append one entry each
    RowTxns,       \* those that hold the row lock of the share meanwhile
    Digest(_, _),  \* SHA-256 of a previous hash and a body
    GenesisHash,   \* entry_hash of the genesis row
    ZeroHash,      \* its prev_hash, all zeros
    GenesisBody,
    Tampered,      \* a body that no append has written
    NoTxn

ASSUME RowTxnsAssumption == RowTxns \subseteq Txns
ASSUME NoTxnAssumption   == NoTxn \notin Txns
ASSUME BodiesAssumption  == Txns \cap {GenesisBody, Tampered} = {}

VARIABLES
    chain,     \* the committed rows of audit_chain, by seq
    lastSeq,   \* the last value the sequence has handed out
    chainLock, \* holder of pg_advisory_xact_lock(hashtext('slothbox.audit_chain'))
    rowLock,   \* holder of the FOR UPDATE lock on the shares row
    pc,
    pending,   \* pending[t]: seq and row that t has inserted and not committed
    altered    \* seq of the committed row that somebody changed, 0 if none

vars == <<chain, lastSeq, chainLock, rowLock, pc, pending, altered>>

Bodies == Txns \cup {GenesisBody, Tampered}
Pcs    == {"idle", "row", "lock", "insert", "commit", "done"}
Seqs   == DOMAIN chain

\* Mutant of Entry: the previous hash is left out of the digest.
EntryUnchained(body, prev) ==
    [body |-> body, prev |-> prev, hash |-> Digest(ZeroHash, body)]

\* A row and its digest.  The digest covers occurred_at::text, whose form depends on
\* TimeZone and DateStyle; the sessions that append and the one that verifies are
\* taken to have the same settings, so a row has one body.
Entry(body, prev) == [body |-> body, prev |-> prev, hash |-> Digest(prev, body)]

Genesis == [body |-> GenesisBody, prev |-> ZeroHash, hash |-> GenesisHash]

NoEntry == [seq |-> 0, entry |-> Genesis]

\* Committed and reserved numbers stay within what the sequence handed out.
TypeOK ==
    /\ Seqs \subseteq 1 .. lastSeq
    /\ 1 \in Seqs
    /\ lastSeq \in Nat
    /\ \A s \in Seqs : chain[s].body \in Bodies
    /\ chainLock \in Txns \cup {NoTxn}
    /\ rowLock \in Txns \cup {NoTxn}
    /\ pc \in [Txns -> Pcs]
    /\ DOMAIN pending = Txns
    /\ \A t \in Txns : /\ pending[t].seq \in 0 .. lastSeq
                       /\ pending[t].entry.body \in Bodies
    /\ altered \in Seqs \cup {0}

\* The genesis row of 0001_init.sql.
Init ==
    /\ chain = [s \in {1} |-> Genesis]
    /\ lastSeq = 1
    /\ chainLock = NoTxn
    /\ rowLock = NoTxn
    /\ pc = [t \in Txns |-> "idle"]
    /\ pending = [t \in Txns |-> NoEntry]
    /\ altered = 0

-----------------------------------------------------------------------------
\* append_audit_entry.

Goto(t, from, to) ==
    /\ pc[t] = from
    /\ pc' = [pc EXCEPT ![t] = to]

Begin(t) ==
    /\ Goto(t, "idle", IF t \in RowTxns THEN "row" ELSE "lock")
    /\ UNCHANGED <<chain, lastSeq, chainLock, rowLock, pending, altered>>

\* SELECT .. FROM shares .. FOR UPDATE.  The reaper says SKIP LOCKED and gives
\* up instead of waiting, which is a Rollback.
LockRow(t) ==
    /\ Goto(t, "row", "lock")
    /\ rowLock = NoTxn
    /\ rowLock' = t
    /\ UNCHANGED <<chain, lastSeq, chainLock, pending, altered>>

\* Mutant of LockChain: no advisory lock.
LockChainNotTaken(t) ==
    /\ Goto(t, "lock", "insert")
    /\ UNCHANGED <<chain, lastSeq, chainLock, rowLock, pending, altered>>

LockChain(t) ==
    /\ Goto(t, "lock", "insert")
    /\ chainLock = NoTxn
    /\ chainLock' = t
    /\ UNCHANGED <<chain, lastSeq, rowLock, pending, altered>>

\* Mutant of IsTail: ORDER BY seq LIMIT 1.
IsTailAscending(s) == s \in Seqs /\ \A u \in Seqs : s <= u

\* ORDER BY seq DESC LIMIT 1, in a snapshot taken after the lock was granted.
IsTail(s) == s \in Seqs /\ \A u \in Seqs : u <= s

\* Mutant of Insert: seq is the last number plus one, and not from a sequence.
InsertUnsequenced(t) ==
    /\ Goto(t, "insert", "commit")
    /\ \E s \in Seqs :
        /\ IsTail(s)
        /\ pending' = [pending EXCEPT ![t] =
                         [seq |-> lastSeq + 1, entry |-> Entry(t, chain[s].hash)]]
    /\ UNCHANGED <<chain, lastSeq, chainLock, rowLock, altered>>

Insert(t) ==
    /\ Goto(t, "insert", "commit")
    /\ lastSeq' = lastSeq + 1
    /\ \E s \in Seqs :
        /\ IsTail(s)
        /\ pending' = [pending EXCEPT ![t] =
                         [seq |-> lastSeq + 1, entry |-> Entry(t, chain[s].hash)]]
    /\ UNCHANGED <<chain, chainLock, rowLock, altered>>

\* The transaction ends and its locks go.
Release(t) ==
    /\ chainLock' = IF chainLock = t THEN NoTxn ELSE chainLock
    /\ rowLock' = IF rowLock = t THEN NoTxn ELSE rowLock
    /\ pending' = [pending EXCEPT ![t] = NoEntry]

Commit(t) ==
    /\ Goto(t, "commit", "done")
    /\ chain' = [s \in Seqs \cup {pending[t].seq} |->
                   IF s = pending[t].seq THEN pending[t].entry ELSE chain[s]]
    /\ Release(t)
    /\ UNCHANGED <<lastSeq, altered>>

\* Mutant of Rollback: the locks outlive the transaction.
RollbackKeepsLocks(t) ==
    /\ pc[t] \in {"row", "lock", "insert", "commit"}
    /\ pc' = [pc EXCEPT ![t] = "done"]
    /\ UNCHANGED <<chain, lastSeq, chainLock, rowLock, pending, altered>>

\* A later statement fails, the connection drops or the server process dies.
Rollback(t) ==
    /\ pc[t] \in {"row", "lock", "insert", "commit"}
    /\ pc' = [pc EXCEPT ![t] = "done"]
    /\ Release(t)
    /\ UNCHANGED <<chain, lastSeq, altered>>

\* Somebody with write access to the table changes one committed row other
\* than genesis, and may recompute the hash of a row that has a successor.
Alter(s, rehash) ==
    /\ altered = 0
    /\ s \in Seqs \ {1}
    /\ rehash => ~IsTail(s)
    /\ chain' = [chain EXCEPT ![s] =
                   [body |-> Tampered,
                    prev |-> @.prev,
                    hash |-> IF rehash THEN Digest(@.prev, Tampered) ELSE @.hash]]
    /\ altered' = s
    /\ UNCHANGED <<lastSeq, chainLock, rowLock, pc, pending>>

AppendNext(t) == LockRow(t) \/ LockChain(t) \/ Insert(t) \/ Commit(t)

Next ==
    \/ \E t \in Txns : Begin(t) \/ AppendNext(t) \/ Rollback(t)
    \/ \E s \in Seqs, rehash \in BOOLEAN : Alter(s, rehash)

Spec == Init /\ [][Next]_vars

\* A transaction that can go on does; Postgres ends it if its client is gone.
LiveSpec == Spec /\ \A t \in Txns : WF_vars(AppendNext(t))

-----------------------------------------------------------------------------
\* verify_audit_chain(p_from, p_to).  Null is 0: no row has that number.

Null == 0

InRange(from, to) == {s \in Seqs : s >= from /\ (to = Null \/ s <= to)}

\* u is the row that precedes s among the rows of S.
Precedes(u, s, S) == u \in S /\ u < s /\ \A v \in S : v < s => v <= u

\* v_prev is the hash of the preceding row of the range, and for the first row
\* the hash of row p_from - 1.
LinkBroken(from, to, s) ==
    \E u \in InRange(from, to) \cup ({from - 1} \cap Seqs) :
        /\ Precedes(u, s, InRange(from, to) \cup {from - 1})
        /\ chain[s].prev # chain[u].hash

\* Mutant of RowBroken: the entry hash is not recomputed.
RowBrokenLinksOnly(from, to, s) == s > 1 /\ LinkBroken(from, to, s)

RowBroken(from, to, s) ==
    /\ s > 1
    /\ \/ LinkBroken(from, to, s)
       \/ chain[s].hash # Digest(chain[s].prev, chain[s].body)

BrokenRows(from, to) == {s \in InRange(from, to) : RowBroken(from, to, s)}

VerifyAuditChain(from, to) ==
    IF from > 1 /\ from - 1 \notin Seqs
    THEN from
    ELSE IF BrokenRows(from, to) = {}
         THEN Null
         ELSE CHOOSE s \in BrokenRows(from, to) : \A u \in BrokenRows(from, to) : s <= u

-----------------------------------------------------------------------------
\* Properties.

\* Each committed row carries the hash of the row before it, however the
\* appends of the gateway, the burn and the reaper interleave or roll back.
ChainLinked ==
    altered = 0 =>
        \A u, s \in Seqs : Precedes(u, s, Seqs) => chain[s].prev = chain[u].hash

Log == INSTANCE AuditLog WITH Writers <- Txns, log <- chain

\* The locked, numbered and perhaps rolled back transaction looks like one step
\* to everybody who reads the table: rows become visible in the order of their
\* numbers, each behind the row that was the last one when it became visible,
\* and each transaction leaves one row or none.
LogKept == Log!Spec

\* verify_audit_chain raises no false alarm on an untouched chain, for a full
\* check and for every range whose row p_from - 1 exists.
VerifySound ==
    altered = 0 =>
        \A from \in Seqs, to \in Seqs \cup {Null} :
            from = 1 \/ from - 1 \in Seqs => VerifyAuditChain(from, to) = Null

\* A changed row is found, at its own number or at the row that follows it.
AlterationFound ==
    altered # 0 =>
        LET found == VerifyAuditChain(1, Null)
        IN  found = altered \/ (found \in Seqs /\ Precedes(altered, found, Seqs))

\* Every append ends: the two locks cannot hold each other up, and a rollback
\* leaves neither behind.
AppendsFinish == \A t \in Txns : pc[t] # "idle" ~> pc[t] = "done"
=============================================================================
