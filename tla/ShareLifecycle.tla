--------------------------- MODULE ShareLifecycle ---------------------------
(***************************************************************************)
(* One SlothBox share, from the POST that creates its row to the sweep     *)
(* that erases it, with every process that writes it:                      *)
(*                                                                         *)
(*   - ingest PUT handlers   (UploadEndpoint.cs)     one per id in Puts    *)
(*   - ingest GET handlers   (DownloadEndpoint.cs)   one per id in Gets    *)
(*   - gateway POST /destroy    (routes/shares.ts)   one per id in Revokes *)
(*   - gateway POST /downloaded (routes/shares.ts)   one per id in Reports *)
(*   - reaper daemons           (reaper.go, db.go)   one per id in Reapers *)
(*                                                                         *)
(* A handler takes one step per await, so that the handlers interleave     *)
(* exactly where the runtime lets them.  A SQL statement or a stored       *)
(* procedure is one atomic step: mark_chunk_served and finalizeDestroy     *)
(* hold the row lock of the share until they commit, and the foreign key   *)
(* of share_chunks makes an insert wait for that lock.  A request that is  *)
(* refused before it changes anything (404, 410, 413, 429, a malformed     *)
(* header) is a stuttering step and its id stays idle.                     *)
(*                                                                         *)
(* Shares are independent of one another except for the reaper's batch     *)
(* and for the audit chain, which have modules of their own; the columns   *)
(* kept here are the ones some statement branches on.                      *)
(***************************************************************************)
EXTENDS Naturals

CONSTANTS
    Chunks,        \* the chunk indices 0 .. chunk_count-1 of the share
    Puts,          \* PUT /chunk requests, each served at most once
    Gets,          \* GET /chunk requests
    Revokes,       \* POST /shares/:id/destroy requests
    Reports,       \* POST /shares/:id/downloaded requests
    Reapers,       \* reaper daemons (two overlap during a rolling deploy)
    Options,       \* the option records a sender may create the share with
    MaxReapFaults, \* bound on the reap attempts that fail
    None           \* SQL NULL, "no such row", "no such object"

NoCap == 0         \* max_downloads IS NULL; the create schema wants it positive

OptionRecord == [burn : BOOLEAN, maxDownloads : Nat, revocable : BOOLEAN]

ASSUME ChunksAssumption  == Chunks # {}
ASSUME OptionsAssumption == Options \subseteq OptionRecord
ASSUME FaultsAssumption  == MaxReapFaults \in Nat
ASSUME NoneAssumption    == None \notin Puts

VARIABLES
    \* the row of table shares
    state,         \* shares.state, "absent" before the INSERT
    opts,          \* burn_after_read, max_downloads, revoke_token_hash IS NOT NULL
    downloadCount, \* shares.download_count
    destroyedAt,   \* shares.destroyed_at IS NOT NULL
    reason,        \* shares.destroyed_reason
    clock,         \* now() compared with shares.expires_at
    \* the rows of table share_chunks, the objects in MinIO, the audit chain
    row,           \* row[c]: the PUT whose nonce the chunk row holds, or None
    served,        \* the chunks whose row has served_at IS NOT NULL
    blob,          \* blob[c]: the PUT whose bytes MinIO holds under the key, or None
    audit,         \* audit[k]: committed audit entries of kind k
    \* the handlers
    putPc, putChunk, putSeen,
    getPc, getChunk,
    delivered,     \* the GETs that let bytes of their chunk leave the server
    revokePc,
    reportPc,
    reapPc, reapKeys,
    reapFaults

shareVars   == <<state, opts, downloadCount, destroyedAt, reason>>
storeVars   == <<row, served, blob>>
putVars     == <<putPc, putChunk, putSeen>>
getVars     == <<getPc, getChunk, delivered>>
reapVars    == <<reapPc, reapKeys, reapFaults>>
gatewayVars == <<revokePc, reportPc>>

vars == <<shareVars, clock, storeVars, audit, putVars, getVars, reapVars, gatewayVars>>

-----------------------------------------------------------------------------
\* The vocabulary of the schema (0001_init.sql, 0008) and of the handlers.

LiveStates     == {"pending", "uploading", "ready", "downloaded"}
TerminalStates == {"expired", "destroyed"}
States         == {"absent"} \cup LiveStates \cup TerminalStates
Reasons        == {"none", "burn", "expiry", "manual", "max_downloads"}
Clocks         == {"before", "at", "after"}
AuditKinds     == {"downloaded", "manual", "burn_ingest", "burn_gateway", "reaped"}

PutPcs    == {"idle", "blob", "upsert", "promote", "count", "ready", "done", "failed"}
GetPcs    == {"idle", "row", "stream", "mark", "done"}
RevokePcs == {"idle", "update", "audit", "done"}
ReportPcs == {"idle", "increment", "audit_downloaded", "audit_burn", "done", "told_destroyed"}
ReapPcs   == {"idle", "keys", "blobs"}

TypeOK ==
    /\ state \in States
    /\ opts \in OptionRecord
    /\ downloadCount \in Nat
    /\ destroyedAt \in BOOLEAN
    /\ reason \in Reasons
    /\ clock \in Clocks
    /\ row \in [Chunks -> Puts \cup {None}]
    /\ served \in SUBSET Chunks
    /\ blob \in [Chunks -> Puts \cup {None}]
    /\ audit \in [AuditKinds -> Nat]
    /\ putPc \in [Puts -> PutPcs]
    /\ putChunk \in [Puts -> Chunks]
    /\ putSeen \in [Puts -> {"pending", "uploading"}]
    /\ getPc \in [Gets -> GetPcs]
    /\ getChunk \in [Gets -> Chunks]
    /\ delivered \in SUBSET Gets
    /\ revokePc \in [Revokes -> RevokePcs]
    /\ reportPc \in [Reports -> ReportPcs]
    /\ reapPc \in [Reapers -> ReapPcs]
    /\ reapKeys \in [Reapers -> SUBSET Chunks]
    /\ reapFaults \in 0 .. MaxReapFaults

AnyChunk == CHOOSE c \in Chunks : TRUE

\* A database without the row, and the options the sender will ask for.
Init ==
    /\ state = "absent"
    /\ opts \in Options
    /\ downloadCount = 0
    /\ destroyedAt = FALSE
    /\ reason = "none"
    /\ clock = "before"
    /\ row = [c \in Chunks |-> None]
    /\ served = {}
    /\ blob = [c \in Chunks |-> None]
    /\ audit = [k \in AuditKinds |-> 0]
    /\ putPc = [p \in Puts |-> "idle"]
    /\ putChunk = [p \in Puts |-> AnyChunk]
    /\ putSeen = [p \in Puts |-> "pending"]
    /\ getPc = [g \in Gets |-> "idle"]
    /\ getChunk = [g \in Gets |-> AnyChunk]
    /\ delivered = {}
    /\ revokePc = [d \in Revokes |-> "idle"]
    /\ reportPc = [w \in Reports |-> "idle"]
    /\ reapPc = [r \in Reapers |-> "idle"]
    /\ reapKeys = [r \in Reapers |-> {}]
    /\ reapFaults = 0

-----------------------------------------------------------------------------
\* Predicates of the code.

CanAcceptUploads  == state \in {"pending", "uploading"}
CanServeDownloads == state \in {"ready", "downloaded"}
IsExpired         == clock \in {"at", "after"}
HasRows           == \E c \in Chunks : row[c] # None

\* Mutant of CapReached: a NULL cap is read as zero.
CapReachedNullIsZero == downloadCount >= opts.maxDownloads

CapReachedBy(n) == opts.maxDownloads # NoCap /\ n >= opts.maxDownloads

CapReached == CapReachedBy(downloadCount)

\* Mutant of AllUploaded: the count is compared with the wrong bound.
AllUploadedAnyRow == \E c \in Chunks : row[c] # None

\* CountUploadedChunksAsync >= ChunkCount.  A row's index was range-checked, so
\* there are chunk_count rows exactly when every index has one.
AllUploaded == \A c \in Chunks : row[c] # None

\* append_audit_entry; the hash chain itself is module AuditChain.
AppendAudit(k) == audit' = [audit EXCEPT ![k] = @ + 1]

-----------------------------------------------------------------------------
\* The clock passes expires_at.

Tick ==
    /\ \/ clock = "before" /\ clock' = "at"
       \/ clock = "at" /\ clock' = "after"
    /\ UNCHANGED <<shareVars, storeVars, audit, putVars, getVars, reapVars,
                   gatewayVars>>

-----------------------------------------------------------------------------
\* POST /shares.  The schema refuses an expiry that is not in the future.  The
\* detached share_created append is left out: nothing here reads that entry.

CreateShare ==
    /\ state = "absent"
    /\ clock = "before"
    /\ state' = "pending"
    /\ UNCHANGED <<opts, downloadCount, destroyedAt, reason, clock, storeVars,
                   audit, putVars, getVars, reapVars, gatewayVars>>

-----------------------------------------------------------------------------
\* PUT /chunk/{shortId}/{index}.  putSeen is the state in the snapshot of the
\* share that the handler loaded first and goes on using after every await.

PutStep(p, from, to) ==
    /\ putPc[p] = from
    /\ putPc' = [putPc EXCEPT ![p] = to]

\* Mutant of PutStart: the row is written before the object.
PutStartRowFirst(p, c) ==
    /\ PutStep(p, "idle", "upsert")
    /\ CanAcceptUploads
    /\ ~IsExpired
    /\ putChunk' = [putChunk EXCEPT ![p] = c]
    /\ putSeen' = [putSeen EXCEPT ![p] = state]
    /\ UNCHANGED <<shareVars, clock, storeVars, audit, getVars, reapVars,
                   gatewayVars>>

PutStart(p, c) ==
    /\ PutStep(p, "idle", "blob")
    /\ CanAcceptUploads
    /\ ~IsExpired
    /\ putChunk' = [putChunk EXCEPT ![p] = c]
    /\ putSeen' = [putSeen EXCEPT ![p] = state]
    /\ UNCHANGED <<shareVars, clock, storeVars, audit, getVars, reapVars,
                   gatewayVars>>

\* blobs.PutAsync: the object appears under the chunk's deterministic key.
PutBlob(p) ==
    /\ PutStep(p, "blob", "upsert")
    /\ blob' = [blob EXCEPT ![putChunk[p]] = p]
    /\ UNCHANGED <<shareVars, clock, row, served, audit, putChunk, putSeen,
                   getVars, reapVars, gatewayVars>>

\* UpsertChunkAsync: insert or replace the row; the delivery stamp is cleared.
PutUpsert(p) ==
    /\ PutStep(p, "upsert", IF putSeen[p] = "pending" THEN "promote" ELSE "count")
    /\ row' = [row EXCEPT ![putChunk[p]] = p]
    /\ served' = served \ {putChunk[p]}
    /\ UNCHANGED <<shareVars, clock, blob, audit, putChunk, putSeen, getVars,
                   reapVars, gatewayVars>>

\* Mutant of UpdateShareState: the promotion resets the destruction stamp.
UpdateShareStateClearsStamp(s) ==
    /\ state' = s
    /\ destroyedAt' = FALSE
    /\ UNCHANGED <<opts, downloadCount, reason>>

\* UpdateShareStateAsync: UPDATE shares SET state = .. WHERE id = .., whatever
\* the state has become since the snapshot.
UpdateShareState(s) ==
    /\ state' = s
    /\ UNCHANGED <<opts, downloadCount, destroyedAt, reason>>

PutPromoteUploading(p) ==
    /\ PutStep(p, "promote", "count")
    /\ UpdateShareState("uploading")
    /\ UNCHANGED <<clock, storeVars, audit, putChunk, putSeen, getVars,
                   reapVars, gatewayVars>>

PutCount(p) ==
    /\ PutStep(p, "count", IF AllUploaded THEN "ready" ELSE "done")
    /\ UNCHANGED <<shareVars, clock, storeVars, audit, putChunk, putSeen,
                   getVars, reapVars, gatewayVars>>

PutPromoteReady(p) ==
    /\ PutStep(p, "ready", "done")
    /\ UpdateShareState("ready")
    /\ UNCHANGED <<clock, storeVars, audit, putChunk, putSeen, getVars,
                   reapVars, gatewayVars>>

\* Mutant of PutFail: the error path removes the blob, row or no row.
PutFailDropsBlob(p) ==
    /\ putPc[p] \in {"blob", "upsert", "promote", "count", "ready"}
    /\ putPc' = [putPc EXCEPT ![p] = "failed"]
    /\ blob' = [blob EXCEPT ![putChunk[p]] = None]
    /\ UNCHANGED <<shareVars, clock, row, served, audit, putChunk, putSeen,
                   getVars, reapVars, gatewayVars>>

\* MinIO or Postgres fails, the client disconnects or the process dies.  Once
\* the row is written the handler swallows every exception and answers 201; only
\* a dead process leaves the client without that answer.
PutFail(p) ==
    /\ \/ /\ putPc[p] \in {"blob", "upsert", "promote", "count", "ready"}
          /\ putPc' = [putPc EXCEPT ![p] = "failed"]
       \/ /\ putPc[p] \in {"promote", "count", "ready"}
          /\ putPc' = [putPc EXCEPT ![p] = "done"]
    /\ UNCHANGED <<shareVars, clock, storeVars, audit, putChunk, putSeen,
                   getVars, reapVars, gatewayVars>>

PutNext(p) ==
    \/ PutBlob(p)
    \/ PutUpsert(p)
    \/ PutPromoteUploading(p)
    \/ PutCount(p)
    \/ PutPromoteReady(p)
    \/ PutFail(p)

-----------------------------------------------------------------------------
\* GET /chunk/{shortId}/{index}.

GetStep(g, from, to) ==
    /\ getPc[g] = from
    /\ getPc' = [getPc EXCEPT ![g] = to]

GetShare(g, c) ==
    /\ GetStep(g, "idle", "row")
    /\ CanServeDownloads
    /\ ~IsExpired
    /\ getChunk' = [getChunk EXCEPT ![g] = c]
    /\ UNCHANGED <<shareVars, clock, storeVars, audit, putVars, delivered,
                   reapVars, gatewayVars>>

\* GetChunkAsync: 404 without a row, 410 for a served chunk of a burn share.
ChunkServable(c) == row[c] # None /\ ~(c \in served /\ opts.burn)

GetChunkRow(g) ==
    /\ GetStep(g, "row", IF ChunkServable(getChunk[g]) THEN "stream" ELSE "done")
    /\ UNCHANGED <<shareVars, clock, storeVars, audit, putVars, getChunk,
                   delivered, reapVars, gatewayVars>>

\* The first body byte leaves; whether the body completes or breaks off, the
\* finally block goes on to the mark.
GetStream(g) ==
    /\ GetStep(g, "stream", "mark")
    /\ blob[getChunk[g]] # None
    /\ delivered' = delivered \cup {g}
    /\ UNCHANGED <<shareVars, clock, storeVars, audit, putVars, getChunk,
                   reapVars, gatewayVars>>

\* Mutants of BurnFires: the unserved chunks are not counted; the state is not
\* looked at.
BurnFiresUncounted(c) == opts.burn /\ state = "ready"
BurnFiresAnyState(c) ==
    opts.burn /\ \A d \in Chunks : row[d] # None => d \in served \cup {c}

\* mark_chunk_served(share, chunk).
BurnFires(c) ==
    /\ opts.burn
    /\ state = "ready"
    /\ \A d \in Chunks : row[d] # None => d \in served \cup {c}

MarkServed(c) ==
    IF row[c] = None
    THEN UNCHANGED <<shareVars, served, audit>>
    ELSE /\ served' = served \cup {c}
         /\ UNCHANGED opts
         /\ IF BurnFires(c)
            THEN /\ state' = "destroyed"
                 /\ destroyedAt' = TRUE
                 /\ reason' = "burn"
                 /\ downloadCount' = downloadCount + 1
                 /\ AppendAudit("burn_ingest")
            ELSE UNCHANGED <<state, destroyedAt, reason, downloadCount, audit>>

GetMark(g) ==
    /\ GetStep(g, "mark", "done")
    /\ MarkServed(getChunk[g])
    /\ UNCHANGED <<clock, row, blob, putVars, getChunk, delivered, reapVars,
                   gatewayVars>>

\* Mutant of GetFail: the mark runs although no byte has left.
GetFailMarks(g) ==
    /\ getPc[g] = "stream"
    /\ getPc' = [getPc EXCEPT ![g] = "done"]
    /\ served' = served \cup {getChunk[g]}
    /\ UNCHANGED <<shareVars, clock, row, blob, audit, putVars, getChunk,
                   delivered, reapVars, gatewayVars>>

\* 401/403 at the token, 502 before the first byte, a disconnect before it, a
\* failed mark (logged and swallowed), or a dead process.
GetFail(g) ==
    /\ getPc[g] \in {"row", "stream", "mark"}
    /\ getPc' = [getPc EXCEPT ![g] = "done"]
    /\ UNCHANGED <<shareVars, clock, storeVars, audit, putVars, getChunk,
                   delivered, reapVars, gatewayVars>>

GetNext(g) == GetChunkRow(g) \/ GetStream(g) \/ GetMark(g) \/ GetFail(g)

-----------------------------------------------------------------------------
\* POST /shares/:shortId/destroy with the right revoke token.  The UPDATE has
\* no condition on the state; the audit append is detached.

RevokeStep(d, from, to) ==
    /\ revokePc[d] = from
    /\ revokePc' = [revokePc EXCEPT ![d] = to]

RevokeSelect(d) ==
    /\ RevokeStep(d, "idle", "update")
    /\ state \in LiveStates
    /\ opts.revocable
    /\ UNCHANGED <<shareVars, clock, storeVars, audit, putVars, getVars,
                   reapVars, reportPc>>

RevokeUpdate(d) ==
    /\ RevokeStep(d, "update", "audit")
    /\ state' = "destroyed"
    /\ destroyedAt' = TRUE
    /\ reason' = "manual"
    /\ UNCHANGED <<opts, downloadCount, clock, storeVars, audit, putVars,
                   getVars, reapVars, reportPc>>

RevokeAudit(d) ==
    /\ RevokeStep(d, "audit", "done")
    /\ AppendAudit("manual")
    /\ UNCHANGED <<shareVars, clock, storeVars, putVars, getVars, reapVars,
                   reportPc>>

\* The UPDATE throws (500), or the audit append fails and is only logged.
RevokeFail(d) ==
    /\ revokePc[d] \in {"update", "audit"}
    /\ revokePc' = [revokePc EXCEPT ![d] = "done"]
    /\ UNCHANGED <<shareVars, clock, storeVars, audit, putVars, getVars,
                   reapVars, reportPc>>

RevokeNext(d) == RevokeUpdate(d) \/ RevokeAudit(d) \/ RevokeFail(d)

-----------------------------------------------------------------------------
\* POST /shares/:shortId/downloaded.

ReportStep(w, from, to) ==
    /\ reportPc[w] = from
    /\ reportPc' = [reportPc EXCEPT ![w] = to]

ReportSelect(w) ==
    /\ ReportStep(w, "idle", "increment")
    /\ state \in LiveStates
    /\ UNCHANGED <<shareVars, clock, storeVars, audit, putVars, getVars,
                   reapVars, revokePc>>

\* Mutant of Incrementable: the WHERE clause forgets the state.
IncrementableAnyState == clock = "before"

\* increment_download(short_id) matches the row only while it is servable and
\* now() < expires_at; otherwise it raises, which the route answers with 200
\* and state 'destroyed'.
Incrementable == CanServeDownloads /\ clock = "before"

ReportIncrement(w) ==
    /\ Incrementable
    /\ downloadCount' = downloadCount + 1
    /\ IF opts.burn
       THEN /\ state' = "destroyed"
            /\ destroyedAt' = TRUE
            /\ reason' = "burn"
            /\ ReportStep(w, "increment", "audit_burn")
       ELSE /\ state' = IF CapReachedBy(downloadCount + 1) THEN "expired" ELSE state
            /\ UNCHANGED <<destroyedAt, reason>>
            /\ ReportStep(w, "increment", "audit_downloaded")
    /\ UNCHANGED <<opts, clock, storeVars, audit, putVars, getVars, reapVars,
                   revokePc>>

\* Mutant of ReportUnavailable: the raised exception is audited as a download.
ReportUnavailableAudited(w) ==
    /\ ReportStep(w, "increment", "audit_downloaded")
    /\ ~Incrementable
    /\ UNCHANGED <<shareVars, clock, storeVars, audit, putVars, getVars,
                   reapVars, revokePc>>

ReportUnavailable(w) ==
    /\ ReportStep(w, "increment", "told_destroyed")
    /\ ~Incrementable
    /\ UNCHANGED <<shareVars, clock, storeVars, audit, putVars, getVars,
                   reapVars, revokePc>>

ReportAudit(w) ==
    /\ \/ ReportStep(w, "audit_burn", "done") /\ AppendAudit("burn_gateway")
       \/ ReportStep(w, "audit_downloaded", "done") /\ AppendAudit("downloaded")
    /\ UNCHANGED <<shareVars, clock, storeVars, putVars, getVars, reapVars,
                   revokePc>>

\* The RPC throws something else (500), or the detached audit append fails.
ReportFail(w) ==
    /\ reportPc[w] \in {"increment", "audit_burn", "audit_downloaded"}
    /\ reportPc' = [reportPc EXCEPT ![w] = "done"]
    /\ UNCHANGED <<shareVars, clock, storeVars, audit, putVars, getVars,
                   reapVars, revokePc>>

ReportNext(w) ==
    \/ ReportIncrement(w)
    \/ ReportUnavailable(w)
    \/ ReportAudit(w)
    \/ ReportFail(w)

-----------------------------------------------------------------------------
\* The reaper.

ReapStep(r, from, to) ==
    /\ reapPc[r] = from
    /\ reapPc' = [reapPc EXCEPT ![r] = to]

\* Mutants of Reapable: without the branch for 'expired'; without the abandoned
\* uploads.
ReapableNotExpired ==
    \/ state \in {"ready", "uploading", "pending"} /\ (clock = "after" \/ CapReached)
    \/ state = "destroyed" /\ destroyedAt /\ HasRows
ReapableReadyOnly ==
    \/ state = "ready" /\ (clock = "after" \/ CapReached)
    \/ state = "destroyed" /\ destroyedAt /\ HasRows
    \/ state = "expired" /\ HasRows

\* The WHERE clause of selectReapableSQL.
Reapable ==
    \/ /\ state \in {"ready", "uploading", "pending"}
       /\ clock = "after" \/ CapReached
    \/ state = "destroyed" /\ destroyedAt /\ HasRows
    \/ state = "expired" /\ HasRows

\* sweepOnce picks the share up.
Sweep(r) ==
    /\ ReapStep(r, "idle", "keys")
    /\ Reapable
    /\ UNCHANGED <<shareVars, clock, storeVars, audit, putVars, getVars,
                   reapKeys, reapFaults, gatewayVars>>

\* The sweep_idle return: the daemon never stops, so the system cannot deadlock.
SweepIdle(r) ==
    /\ reapPc[r] = "idle"
    /\ ~Reapable
    /\ UNCHANGED vars

\* fetchChunkKeys, outside any transaction.
FetchChunkKeys(r) ==
    /\ ReapStep(r, "keys", "blobs")
    /\ reapKeys' = [reapKeys EXCEPT ![r] = {c \in Chunks : row[c] # None}]
    /\ UNCHANGED <<shareVars, clock, storeVars, audit, putVars, getVars,
                   reapFaults, gatewayVars>>

\* removeBlobs: one RemoveObject at a time; an absent object is a success.
RemoveBlob(r, c) ==
    /\ reapPc[r] = "blobs"
    /\ c \in reapKeys[r]
    /\ blob' = [blob EXCEPT ![c] = None]
    /\ reapKeys' = [reapKeys EXCEPT ![r] = @ \ {c}]
    /\ UNCHANGED <<shareVars, clock, row, served, audit, putVars, getVars,
                   reapPc, reapFaults, gatewayVars>>

\* Mutant of ClassifyReason: a reason the CHECK constraint does not list.
ClassifyReasonUnlisted == IF CapReached THEN "cap" ELSE "expiry"

ClassifyReason ==
    IF opts.burn /\ state = "destroyed" /\ destroyedAt THEN "burn"
    ELSE IF CapReached THEN "max_downloads"
    ELSE "expiry"

\* The destruction transaction.  It locks the row and does not look again
\* whether the share is still a candidate.
FinalizeDestroy(r) ==
    /\ ReapStep(r, "blobs", "idle")
    /\ reapKeys[r] = {}
    /\ row' = [c \in Chunks |-> None]
    /\ served' = {}
    /\ state' = "destroyed"
    /\ destroyedAt' = TRUE
    /\ reason' = ClassifyReason
    /\ AppendAudit("reaped")
    /\ UNCHANGED <<opts, downloadCount, clock, blob, putVars, getVars, reapKeys,
                   reapFaults, gatewayVars>>

\* A query, MinIO or the transaction fails, SKIP LOCKED finds the row locked,
\* or the daemon restarts: the share waits for the next sweep.
ReapFail(r) ==
    /\ reapPc[r] # "idle"
    /\ reapFaults < MaxReapFaults
    /\ reapFaults' = reapFaults + 1
    /\ reapPc' = [reapPc EXCEPT ![r] = "idle"]
    /\ reapKeys' = [reapKeys EXCEPT ![r] = {}]
    /\ UNCHANGED <<shareVars, clock, storeVars, audit, putVars, getVars,
                   gatewayVars>>

ReapProgress(r) ==
    \/ Sweep(r)
    \/ FetchChunkKeys(r)
    \/ \E c \in Chunks : RemoveBlob(r, c)
    \/ FinalizeDestroy(r)

-----------------------------------------------------------------------------
\* What the deployment does with the requests it has accepted.
ServerNext ==
    \/ Tick
    \/ \E p \in Puts : PutNext(p)
    \/ \E g \in Gets : GetNext(g)
    \/ \E d \in Revokes : RevokeNext(d)
    \/ \E w \in Reports : ReportNext(w)
    \/ \E r \in Reapers : ReapProgress(r) \/ SweepIdle(r) \/ ReapFail(r)

\* Any client of the two HTTP interfaces: requests may overlap, repeat a chunk
\* or arrive in any order.
ClientNext ==
    \/ CreateShare
    \/ \E p \in Puts, c \in Chunks : PutStart(p, c)
    \/ \E g \in Gets, c \in Chunks : GetShare(g, c)
    \/ \E d \in Revokes : RevokeSelect(d)
    \/ \E w \in Reports : ReportSelect(w)

Next == ServerNext \/ ClientNext

Spec == Init /\ [][Next]_vars

\* Time passes and the daemon keeps sweeping; clients and handlers owe nothing.
Fairness ==
    /\ WF_vars(Tick)
    /\ \A r \in Reapers : WF_vars(ReapProgress(r))

LiveSpec == Spec /\ Fairness

-----------------------------------------------------------------------------
\* Properties.

\* The share has been condemned: its TTL has lapsed, its download cap is used
\* up, or some writer has stamped destroyed_at.
Doomed ==
    \/ clock = "after"
    \/ opts.maxDownloads # NoCap /\ downloadCount >= opts.maxDownloads
    \/ destroyedAt

\* Until a share is condemned, every chunk row has its object in MinIO, through
\* any interleaving of uploads, failures and sweeps: no GET of a live share
\* finds the blob missing.
LiveDataKept == ~Doomed => \A c \in Chunks : row[c] # None => blob[c] # None

\* A share that is offered for download has all its chunks: the promotion to
\* 'ready' trusts a count that other handlers and the reaper may have outdated.
ReadyComplete == CanServeDownloads /\ ~Doomed => \A c \in Chunks : row[c] # None

\* finalizeDestroy does not re-check the candidate query after the row lock; it
\* need not, because whatever a reaper is working on is condemned for good.
ReaperJustified == \A r \in Reapers : reapPc[r] # "idle" => Doomed

\* No terminal share hides from the reaper with chunk rows left: the candidate
\* query wants destroyed_at for 'destroyed' and nothing more for 'expired'.
TerminalReapable == state \in TerminalStates /\ HasRows => Reapable

\* A chunk carries a delivery stamp only if bytes of it did leave the server.
ServedWasDelivered ==
    \A c \in served : \E g \in delivered : getChunk[g] = c

\* The chain never records more downloads than shares.download_count does, in
\* whatever order the detached appends and the burns land.
AuditWithinCount ==
    audit["downloaded"] + audit["burn_ingest"] + audit["burn_gateway"] <= downloadCount

\* No step takes a condemnation back; state itself may be overwritten.
DoomIsForever == [][Doomed => Doomed']_vars

\* mark_chunk_served burns a share that is not already condemned only when
\* every one of its chunks has been delivered to somebody.
BurnAfterDelivery ==
    [][audit'["burn_ingest"] > audit["burn_ingest"] /\ ~Doomed
       => \A c \in Chunks : \E g \in delivered : getChunk[g] = c]_vars

\* Whatever clients, failures and races do, a created share ends with no chunk
\* rows and in a terminal state, and stays there.
EventuallyPurged == state # "absent" ~> [](~HasRows /\ state \in TerminalStates)

-----------------------------------------------------------------------------
\* docs/DELETION.md: destroy operations are irreversible.
DestroyIrreversible == [][state = "destroyed" => state' = "destroyed"]_vars
=============================================================================
