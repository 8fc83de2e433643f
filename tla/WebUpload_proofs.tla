-------------------------- MODULE WebUpload_proofs --------------------------
(***************************************************************************)
(* Theorems about WebUpload, for any number of chunks, requests and        *)
(* reapers and any options.                                                *)
(*                                                                         *)
(* WebUpload takes fewer client steps than ShareLifecycle, so everything   *)
(* proved of ShareLifecycle holds of it.  What this uploader adds rests on *)
(* one more fact that cannot go stale: once the link is out (every chunk   *)
(* has its 201) no PUT is in flight and none can start.  Whatever the two  *)
(* services do to a share after that, the unguarded state updates of the   *)
(* ingest service are over.                                                *)
(***************************************************************************)
EXTENDS WebUpload, ShareLifecycle_proofs

\* The loop of uploadFile: one PUT under way, one PUT per chunk, and a chunk
\* row that names the PUT which wrote it.
LoopInv ==
    /\ \A p, q \in Puts :
          putPc[p] \notin {"idle", "done"} /\ putPc[q] \notin {"idle", "done"} => p = q
    /\ \A p, q \in Puts :
          putPc[p] # "idle" /\ putPc[q] # "idle" /\ putChunk[p] = putChunk[q] => p = q
    /\ \A c \in Chunks, p \in Puts :
          row[c] = p => putChunk[p] = c /\ putPc[p] \notin {"idle", "blob", "upsert"}
    /\ \A p \in Puts :
          putPc[p] = "ready" => \A c \in Chunks : c = putChunk[p] \/ Acked(c)

\* What cannot have happened to the share before its link was out.
PublishedInv ==
    /\ CanServeDownloads => LinkPublished
    /\ downloadCount # 0 => LinkPublished
    /\ destroyedAt => clock = "after" \/ LinkPublished
    /\ \A d \in Revokes : revokePc[d] # "idle" => LinkPublished
    /\ \A w \in Reports : reportPc[w] # "idle" => LinkPublished

\* A share that can still be downloaded has a download left.
CapInv ==
    /\ CapRespected
    /\ CanServeDownloads /\ opts.maxDownloads # NoCap => downloadCount < opts.maxDownloads

\* A burn is recorded, or its report is about to record it.
Burning == \E w \in Reports : reportPc[w] = "audit_burn"
Burned == audit["burn_ingest"] + audit["burn_gateway"] # 0

BurnInv ==
    /\ SingleBurn
    /\ Burned => ~Burning
    /\ \A v, w \in Reports :
          reportPc[v] = "audit_burn" /\ reportPc[w] = "audit_burn" => v = w
    /\ Burned \/ Burning => LinkPublished /\ ~CanServeDownloads

\* While the share is not condemned, a row names the object under its key.
ObjectInv ==
    ~Doomed =>
        /\ \A c \in Chunks : row[c] # None => row[c] = blob[c]
        /\ \A p \in Puts : putPc[p] = "upsert" => blob[putChunk[p]] = p

\* The inductive invariant.
WebInv == Inv /\ LoopInv /\ PublishedInv /\ CapInv /\ BurnInv /\ ObjectInv

USE DEF shareVars, storeVars, putVars, getVars, reapVars, gatewayVars

-----------------------------------------------------------------------------
\* The client of uploadFile only takes steps any client may take.
LEMMA WebIsNext == [WebNext]_vars => [Next]_vars
  BY DEF WebNext, WebClientNext, UploadNext, Next, ClientNext

\* The steps that touch what the uploader's loop depends on.
LEMMA LoopSteps ==
  [WebNext]_vars =>
    \/ UNCHANGED <<putPc, putChunk, row>>
    \/ \E p \in Puts : PutNext(p)
    \/ \E p \in Puts, c \in Chunks : UploadNext(p, c)
    \/ \E r \in Reapers : FinalizeDestroy(r)
  <1> SUFFICES ASSUME [WebNext]_vars,
                      ~ \E p \in Puts : PutNext(p),
                      ~ \E p \in Puts, c \in Chunks : UploadNext(p, c),
                      ~ \E r \in Reapers : FinalizeDestroy(r)
               PROVE  UNCHANGED <<putPc, putChunk, row>>
    OBVIOUS
  <1>1. CASE Tick \/ CreateShare \/ UNCHANGED vars
    BY <1>1 DEF Tick, CreateShare, vars
  <1>2. CASE \E g \in Gets : GetNext(g) \/ \E c \in Chunks : GetShare(g, c)
    BY <1>2 DEF GetNext, GetShare, GetChunkRow, GetStream, GetMark, GetFail
  <1>3. CASE \E d \in Revokes : RevokeNext(d) \/ RevokeSelect(d)
    BY <1>3 DEF RevokeNext, RevokeSelect, RevokeUpdate, RevokeAudit, RevokeFail
  <1>4. CASE \E w \in Reports : ReportNext(w) \/ ReportSelect(w)
    BY <1>4 DEF ReportNext, ReportSelect, ReportIncrement, ReportUnavailable,
          ReportAudit, ReportFail
  <1>5. CASE \E r \in Reapers : ReapProgress(r) \/ SweepIdle(r) \/ ReapFail(r)
    BY <1>5 DEF ReapProgress, Sweep, SweepIdle, FetchChunkKeys, RemoveBlob, ReapFail, vars
  <1> QED
    BY <1>1, <1>2, <1>3, <1>4, <1>5 DEF WebNext, ServerNext, WebClientNext

\* Every step of every process keeps the facts about the loop.
LEMMA LoopStep == TypeOK /\ LoopInv /\ [WebNext]_vars => LoopInv'
  <1> SUFFICES ASSUME TypeOK, LoopInv, [WebNext]_vars PROVE LoopInv'
    OBVIOUS
  <1> USE NoneAssumption DEF NoneAssumption, TypeOK, PutPcs, LoopInv, Acked, PutStep
  <1>1. CASE UNCHANGED <<putPc, putChunk, row>>
    BY <1>1
  <1>2. ASSUME NEW p \in Puts, NEW c \in Chunks, UploadNext(p, c) PROVE LoopInv'
    BY <1>2 DEF UploadNext, PutStart
  <1>3. ASSUME NEW p \in Puts, PutBlob(p) PROVE LoopInv'
    BY <1>3 DEF PutBlob
  <1>4. ASSUME NEW p \in Puts, PutUpsert(p) PROVE LoopInv'
    BY <1>4 DEF PutUpsert
  <1>5. ASSUME NEW p \in Puts, PutPromoteUploading(p) PROVE LoopInv'
    BY <1>5 DEF PutPromoteUploading
  <1>6. ASSUME NEW p \in Puts, PutCount(p) PROVE LoopInv'
    <2>1. CASE AllUploaded
      <3>1. \A c \in Chunks : c = putChunk[p] \/ Acked(c)
        BY <1>6, <2>1 DEF PutCount, AllUploaded
      <3> QED
        BY <1>6, <2>1, <3>1 DEF PutCount
    <2>2. CASE ~AllUploaded
      BY <1>6, <2>2 DEF PutCount
    <2> QED
      BY <2>1, <2>2
  <1>7. ASSUME NEW p \in Puts, PutPromoteReady(p) PROVE LoopInv'
    BY <1>7 DEF PutPromoteReady
  <1>8. ASSUME NEW p \in Puts, PutFail(p) PROVE LoopInv'
    BY <1>8 DEF PutFail
  <1>9. ASSUME NEW r \in Reapers, FinalizeDestroy(r) PROVE LoopInv'
    BY <1>9 DEF FinalizeDestroy
  <1> QED
    BY LoopSteps, <1>1, <1>2, <1>3, <1>4, <1>5, <1>6, <1>7, <1>8, <1>9 DEF PutNext

\* A chunk that has its 201 keeps it, so a published link stays published.
LEMMA PublishedStep ==
  TypeOK /\ LoopInv /\ [WebNext]_vars => (LinkPublished => LinkPublished')
  <1> SUFFICES ASSUME TypeOK, LoopInv, [WebNext]_vars, NEW c \in Chunks, Acked(c)
               PROVE  Acked(c)'
    BY DEF LinkPublished
  <1> USE DEF TypeOK, Acked, PutStep
  <1>1. CASE UNCHANGED <<putPc, putChunk, row>>
    BY <1>1
  <1>2. ASSUME NEW p \in Puts, NEW b \in Chunks, UploadNext(p, b) PROVE Acked(c)'
    BY <1>2 DEF UploadNext, PutStart
  <1>3. ASSUME NEW p \in Puts, PutNext(p) PROVE Acked(c)'
    BY <1>3 DEF PutNext, PutBlob, PutUpsert, PutPromoteUploading, PutCount,
          PutPromoteReady, PutFail
  <1>4. ASSUME NEW r \in Reapers, FinalizeDestroy(r) PROVE Acked(c)'
    BY <1>4 DEF FinalizeDestroy
  <1> QED
    BY LoopSteps, <1>1, <1>2, <1>3, <1>4

\* Once the link is out, no PUT is under way.
LEMMA NoPutLeft ==
  ASSUME TypeOK, LoopInv, LinkPublished, NEW p \in Puts
  PROVE  putPc[p] \in {"idle", "done"}
  <1> SUFFICES ASSUME putPc[p] # "idle" PROVE putPc[p] = "done"
    OBVIOUS
  <1>1. putChunk[p] \in Chunks
    BY DEF TypeOK
  <1>2. PICK q \in Puts : putChunk[q] = putChunk[p] /\ putPc[q] = "done"
    BY <1>1 DEF LinkPublished, Acked
  <1> QED
    BY <1>2 DEF LoopInv

\* Before the link is out nobody can have downloaded, revoked or condemned the
\* share, except the reaper when its time was up.
LEMMA PublishedInvStep ==
  Inv /\ LoopInv /\ PublishedInv /\ [WebNext]_vars => PublishedInv'
  <1> SUFFICES ASSUME Inv, TypeOK, LoopInv, PublishedInv, [WebNext]_vars,
                      LinkPublished => LinkPublished'
               PROVE  PublishedInv'
    BY PublishedStep DEF Inv
  <1>1. CASE LinkPublished
    BY <1>1 DEF PublishedInv
  <1>2. CASE ~LinkPublished
    <2> USE <1>2 DEF PublishedInv, CanServeDownloads, TypeOK
    <2>1. CASE Tick \/ CreateShare \/ UNCHANGED vars
      BY <2>1 DEF Tick, CreateShare, vars
    <2>2. ASSUME NEW p \in Puts, NEW c \in Chunks, UploadNext(p, c) PROVE PublishedInv'
      BY <2>2 DEF UploadNext, PutStart
    <2>3. ASSUME NEW p \in Puts,
                 PutBlob(p) \/ PutUpsert(p) \/ PutCount(p) \/ PutFail(p)
          PROVE  PublishedInv'
      BY <2>3 DEF PutBlob, PutUpsert, PutCount, PutFail
    <2>4. ASSUME NEW p \in Puts, PutPromoteUploading(p) PROVE PublishedInv'
      BY <2>4 DEF PutPromoteUploading, UpdateShareState
    <2>5. ASSUME NEW p \in Puts, PutPromoteReady(p) PROVE PublishedInv'
      <3>1. LinkPublished'
        BY <2>5 DEF PutPromoteReady, PutStep, LoopInv, LinkPublished, Acked
      <3> QED
        BY <3>1
    <2>6. ASSUME NEW g \in Gets, GetNext(g) \/ \E c \in Chunks : GetShare(g, c)
          PROVE  PublishedInv'
      BY <2>6 DEF GetNext, GetShare, GetChunkRow, GetStream, GetMark, GetFail,
            MarkServed, BurnFires
    <2>7. ASSUME NEW d \in Revokes, RevokeNext(d) PROVE PublishedInv'
      BY <2>7 DEF RevokeNext, RevokeUpdate, RevokeAudit, RevokeFail, RevokeStep
    <2>8. ASSUME NEW w \in Reports, ReportNext(w) PROVE PublishedInv'
      BY <2>8 DEF ReportNext, ReportIncrement, ReportUnavailable, ReportAudit,
            ReportFail, ReportStep
    <2>9. ASSUME NEW r \in Reapers, FinalizeDestroy(r) PROVE PublishedInv'
      <3>1. Doomed
        BY <2>9 DEF FinalizeDestroy, ReapStep, Inv, ReaperJustified
      <3>2. clock = "after"
        BY <3>1 DEF Doomed, OptionRecord, NoCap
      <3> QED
        BY <2>9, <3>2 DEF FinalizeDestroy
    <2>10. ASSUME NEW r \in Reapers,
                  \/ Sweep(r) \/ SweepIdle(r) \/ FetchChunkKeys(r) \/ ReapFail(r)
                  \/ \E c \in Chunks : RemoveBlob(r, c)
           PROVE  PublishedInv'
      BY <2>10 DEF Sweep, SweepIdle, FetchChunkKeys, ReapFail, RemoveBlob, vars
    <2> QED
      BY <2>1, <2>2, <2>3, <2>4, <2>5, <2>6, <2>7, <2>8, <2>9, <2>10
      DEF WebNext, ServerNext, WebClientNext, PutNext, ReapProgress
  <1> QED
    BY <1>1, <1>2

\* The steps after which a share is downloadable, or its count has moved.
LEMMA CountSteps ==
  TypeOK /\ [WebNext]_vars =>
    \/ UNCHANGED <<opts, downloadCount>> /\ (CanServeDownloads' => CanServeDownloads)
    \/ \E p \in Puts : PutPromoteReady(p)
    \/ \E g \in Gets : GetMark(g) /\ BurnFires(getChunk[g])
    \/ \E w \in Reports : ReportIncrement(w)
  <1> SUFFICES ASSUME TypeOK, [WebNext]_vars,
                      ~ \E p \in Puts : PutPromoteReady(p),
                      ~ \E g \in Gets : GetMark(g) /\ BurnFires(getChunk[g]),
                      ~ \E w \in Reports : ReportIncrement(w)
               PROVE  UNCHANGED <<opts, downloadCount>> /\ (CanServeDownloads' => CanServeDownloads)
    OBVIOUS
  <1> USE DEF CanServeDownloads
  <1>1. CASE Tick \/ CreateShare \/ UNCHANGED vars
    BY <1>1 DEF Tick, CreateShare, vars
  <1>2. CASE \E p \in Puts : PutNext(p) \/ \E c \in Chunks : UploadNext(p, c)
    BY <1>2 DEF PutNext, UploadNext, PutStart, PutBlob, PutUpsert,
          PutPromoteUploading, PutCount, PutFail, UpdateShareState
  <1>3. CASE \E g \in Gets : GetNext(g) \/ \E c \in Chunks : GetShare(g, c)
    BY <1>3 DEF GetNext, GetShare, GetChunkRow, GetStream, GetMark, GetFail, MarkServed
  <1>4. CASE \E d \in Revokes : RevokeNext(d) \/ RevokeSelect(d)
    BY <1>4 DEF RevokeNext, RevokeSelect, RevokeUpdate, RevokeAudit, RevokeFail
  <1>5. CASE \E w \in Reports : ReportNext(w) \/ ReportSelect(w)
    BY <1>5 DEF ReportNext, ReportSelect, ReportUnavailable, ReportAudit, ReportFail
  <1>6. CASE \E r \in Reapers : ReapProgress(r) \/ SweepIdle(r) \/ ReapFail(r)
    BY <1>6 DEF ReapProgress, Sweep, SweepIdle, FetchChunkKeys, RemoveBlob,
          FinalizeDestroy, ReapFail, vars
  <1> QED
    BY <1>1, <1>2, <1>3, <1>4, <1>5, <1>6 DEF WebNext, ServerNext, WebClientNext

\* No step takes a download the cap does not grant.
LEMMA CapStep ==
  TypeOK /\ LoopInv /\ PublishedInv /\ CapInv /\ [WebNext]_vars => CapInv'
  <1> SUFFICES ASSUME TypeOK, LoopInv, PublishedInv, CapInv, [WebNext]_vars PROVE CapInv'
    OBVIOUS
  <1> USE DEF TypeOK, OptionRecord, CapInv, CapRespected, CanServeDownloads, NoCap
  <1>1. CASE UNCHANGED <<opts, downloadCount>> /\ (CanServeDownloads' => CanServeDownloads)
    BY <1>1
  <1>2. ASSUME NEW p \in Puts, PutPromoteReady(p) PROVE CapInv'
    <2>1. ~LinkPublished
      BY <1>2, NoPutLeft DEF PutPromoteReady, PutStep
    <2>2. downloadCount = 0
      BY <2>1 DEF PublishedInv
    <2> QED
      BY <1>2, <2>2 DEF PutPromoteReady, UpdateShareState
  <1>3. ASSUME NEW g \in Gets, GetMark(g), BurnFires(getChunk[g]) PROVE CapInv'
    BY <1>3 DEF GetMark, MarkServed, BurnFires
  <1>4. ASSUME NEW w \in Reports, ReportIncrement(w) PROVE CapInv'
    <2>1. CanServeDownloads
      BY <1>4 DEF ReportIncrement, Incrementable
    <2>2. downloadCount' = downloadCount + 1 /\ opts' = opts
      BY <1>4 DEF ReportIncrement
    <2>3. CanServeDownloads' => ~CapReachedBy(downloadCount + 1)
      BY <1>4 DEF ReportIncrement
    <2> QED
      BY <2>1, <2>2, <2>3 DEF CapReachedBy
  <1> QED
    BY CountSteps, <1>1, <1>2, <1>3, <1>4

\* The steps that burn the share, record a burn or make it downloadable.
LEMMA BurnSteps ==
  TypeOK /\ [WebNext]_vars =>
    \/ /\ audit'["burn_ingest"] = audit["burn_ingest"]
       /\ audit'["burn_gateway"] = audit["burn_gateway"]
       /\ \A w \in Reports : reportPc'[w] = "audit_burn" => reportPc[w] = "audit_burn"
       /\ CanServeDownloads' => CanServeDownloads
    \/ \E p \in Puts : PutPromoteReady(p)
    \/ \E g \in Gets : GetMark(g) /\ BurnFires(getChunk[g]) /\ row[getChunk[g]] # None
    \/ \E w \in Reports : ReportIncrement(w)
    \/ \E w \in Reports : ReportAudit(w) /\ reportPc[w] = "audit_burn"
  <1> DEFINE Quiet ==
        /\ audit'["burn_ingest"] = audit["burn_ingest"]
        /\ audit'["burn_gateway"] = audit["burn_gateway"]
        /\ \A w \in Reports : reportPc'[w] = "audit_burn" => reportPc[w] = "audit_burn"
        /\ CanServeDownloads' => CanServeDownloads
  <1> SUFFICES ASSUME TypeOK, [WebNext]_vars,
                      ~ \E p \in Puts : PutPromoteReady(p),
                      ~ \E g \in Gets : GetMark(g) /\ BurnFires(getChunk[g])
                                        /\ row[getChunk[g]] # None,
                      ~ \E w \in Reports : ReportIncrement(w),
                      ~ \E w \in Reports : ReportAudit(w) /\ reportPc[w] = "audit_burn"
               PROVE  Quiet
    OBVIOUS
  <1> USE DEF CanServeDownloads, TypeOK, AuditKinds
  <1>1. CASE Tick \/ CreateShare \/ UNCHANGED vars
    BY <1>1 DEF Tick, CreateShare, vars
  <1>2. CASE \E p \in Puts : PutNext(p) \/ \E c \in Chunks : UploadNext(p, c)
    BY <1>2 DEF PutNext, UploadNext, PutStart, PutBlob, PutUpsert,
          PutPromoteUploading, PutCount, PutFail, UpdateShareState
  <1>3. CASE \E g \in Gets : GetNext(g) \/ \E c \in Chunks : GetShare(g, c)
    BY <1>3 DEF GetNext, GetShare, GetChunkRow, GetStream, GetMark, GetFail, MarkServed
  <1>4. CASE \E d \in Revokes : RevokeNext(d) \/ RevokeSelect(d)
    BY <1>4 DEF RevokeNext, RevokeSelect, RevokeUpdate, RevokeAudit, RevokeFail, AppendAudit
  <1>5. CASE \E w \in Reports : ReportNext(w) \/ ReportSelect(w)
    BY <1>5 DEF ReportNext, ReportSelect, ReportUnavailable, ReportAudit, ReportFail,
          ReportStep, AppendAudit
  <1>6. CASE \E r \in Reapers : ReapProgress(r) \/ SweepIdle(r) \/ ReapFail(r)
    BY <1>6 DEF ReapProgress, Sweep, SweepIdle, FetchChunkKeys, RemoveBlob,
          FinalizeDestroy, ReapFail, AppendAudit, vars
  <1> QED
    BY <1>1, <1>2, <1>3, <1>4, <1>5, <1>6 DEF WebNext, ServerNext, WebClientNext

\* A burn takes a downloadable share and leaves one that is not, for good.
LEMMA BurnStep ==
  TypeOK /\ LoopInv /\ PublishedInv /\ BurnInv /\ [WebNext]_vars => BurnInv'
  <1> SUFFICES ASSUME TypeOK, TypeOK', LoopInv, PublishedInv, BurnInv, [WebNext]_vars,
                      LinkPublished => LinkPublished'
               PROVE  BurnInv'
    BY PublishedStep, TypeStep, WebIsNext
  <1> USE DEF TypeOK, AuditKinds, BurnInv, SingleBurn, Burned, Burning
  <1>1. CASE /\ audit'["burn_ingest"] = audit["burn_ingest"]
             /\ audit'["burn_gateway"] = audit["burn_gateway"]
             /\ \A w \in Reports : reportPc'[w] = "audit_burn" => reportPc[w] = "audit_burn"
             /\ CanServeDownloads' => CanServeDownloads
    BY <1>1
  <1>2. ASSUME NEW p \in Puts, PutPromoteReady(p) PROVE BurnInv'
    <2>1. ~LinkPublished
      BY <1>2, NoPutLeft DEF PutPromoteReady, PutStep
    <2>2. ~Burned /\ ~Burning
      BY <2>1
    <2> QED
      BY <1>2, <2>2 DEF PutPromoteReady
  <1>3. ASSUME NEW g \in Gets, GetMark(g), BurnFires(getChunk[g]), row[getChunk[g]] # None
        PROVE  BurnInv'
    <2>1. CanServeDownloads /\ LinkPublished
      BY <1>3 DEF BurnFires, CanServeDownloads, PublishedInv
    <2>2. ~Burned /\ ~Burning
      BY <2>1
    <2>3. ~CanServeDownloads' /\ reportPc' = reportPc
      BY <1>3 DEF GetMark, MarkServed, CanServeDownloads
    <2>4. audit' = [audit EXCEPT !["burn_ingest"] = @ + 1]
      BY <1>3 DEF GetMark, MarkServed, AppendAudit
    <2> QED
      BY <2>1, <2>2, <2>3, <2>4
  <1>4. ASSUME NEW w \in Reports, ReportIncrement(w) PROVE BurnInv'
    <2>1. CanServeDownloads /\ LinkPublished
      BY <1>4 DEF ReportIncrement, Incrementable, PublishedInv
    <2>2. ~Burned /\ ~Burning
      BY <2>1
    <2>3. audit' = audit
      BY <1>4 DEF ReportIncrement
    <2>4. CASE opts.burn
      <3>1. ~CanServeDownloads' /\ reportPc' = [reportPc EXCEPT ![w] = "audit_burn"]
        BY <1>4, <2>4 DEF ReportIncrement, ReportStep, CanServeDownloads
      <3> QED
        BY <2>1, <2>2, <2>3, <3>1
    <2>5. CASE ~opts.burn
      <3>1. reportPc' = [reportPc EXCEPT ![w] = "audit_downloaded"]
        BY <1>4, <2>5 DEF ReportIncrement, ReportStep
      <3> QED
        BY <2>1, <2>2, <2>3, <3>1
    <2> QED
      BY <2>4, <2>5
  <1>5. ASSUME NEW w \in Reports, ReportAudit(w), reportPc[w] = "audit_burn" PROVE BurnInv'
    <2>1. /\ reportPc' = [reportPc EXCEPT ![w] = "done"]
          /\ audit' = [audit EXCEPT !["burn_gateway"] = @ + 1]
          /\ CanServeDownloads' = CanServeDownloads
      BY <1>5 DEF ReportAudit, ReportStep, AppendAudit, CanServeDownloads
    <2>2. ~Burned /\ LinkPublished /\ ~CanServeDownloads
      BY <1>5
    <2>3. ~Burning'
      BY <1>5, <2>1
    <2> QED
      BY <2>1, <2>2, <2>3
  <1> QED
    BY BurnSteps, <1>1, <1>2, <1>3, <1>4, <1>5

\* A row and its object are written by the same PUT, and nobody removes the
\* object of a share that is not condemned.
LEMMA ObjectStep ==
  Inv /\ LoopInv /\ ObjectInv /\ [WebNext]_vars => ObjectInv'
  <1> SUFFICES ASSUME Inv, TypeOK, TypeOK', LoopInv, ObjectInv, [WebNext]_vars,
                      ~Doomed, ~Doomed'
               PROVE  ObjectInv'
    BY DoomStep, TypeStep, WebIsNext DEF ObjectInv, Inv
  <1> USE NoneAssumption DEF NoneAssumption, TypeOK, ObjectInv, PutStep
  <1>1. CASE UNCHANGED <<putPc, putChunk, row, blob>>
    BY <1>1
  <1>2. ASSUME NEW p \in Puts, NEW c \in Chunks, UploadNext(p, c) PROVE ObjectInv'
    BY <1>2 DEF UploadNext, PutStart
  <1>3. ASSUME NEW p \in Puts, PutBlob(p) PROVE ObjectInv'
    <2>1. \A q \in Puts : putPc[q] # "upsert"
      BY <1>3 DEF PutBlob, LoopInv
    <2>2. row[putChunk[p]] = None
      BY <1>3 DEF PutBlob, LoopInv
    <2> QED
      BY <1>3, <2>1, <2>2 DEF PutBlob
  <1>4. ASSUME NEW p \in Puts, PutUpsert(p) PROVE ObjectInv'
    BY <1>4 DEF PutUpsert
  <1>5. ASSUME NEW p \in Puts, PutPromoteUploading(p) PROVE ObjectInv'
    BY <1>5 DEF PutPromoteUploading
  <1>6. ASSUME NEW p \in Puts, PutCount(p) PROVE ObjectInv'
    BY <1>6 DEF PutCount
  <1>7. ASSUME NEW p \in Puts, PutPromoteReady(p) PROVE ObjectInv'
    BY <1>7 DEF PutPromoteReady
  <1>8. ASSUME NEW p \in Puts, PutFail(p) PROVE ObjectInv'
    BY <1>8 DEF PutFail
  <1>9. ~ \E r \in Reapers : FinalizeDestroy(r) \/ \E c \in Chunks : RemoveBlob(r, c)
    BY DEF FinalizeDestroy, RemoveBlob, ReapStep, Inv, ReaperJustified
  <1>10. \/ UNCHANGED <<putPc, putChunk, row, blob>>
         \/ \E p \in Puts : PutNext(p) \/ \E c \in Chunks : UploadNext(p, c)
    <2>1. CASE Tick \/ CreateShare \/ UNCHANGED vars
      BY <2>1 DEF Tick, CreateShare, vars
    <2>2. CASE \E g \in Gets : GetNext(g) \/ \E c \in Chunks : GetShare(g, c)
      BY <2>2 DEF GetNext, GetShare, GetChunkRow, GetStream, GetMark, GetFail
    <2>3. CASE \E d \in Revokes : RevokeNext(d) \/ RevokeSelect(d)
      BY <2>3 DEF RevokeNext, RevokeSelect, RevokeUpdate, RevokeAudit, RevokeFail
    <2>4. CASE \E w \in Reports : ReportNext(w) \/ ReportSelect(w)
      BY <2>4 DEF ReportNext, ReportSelect, ReportIncrement, ReportUnavailable,
            ReportAudit, ReportFail
    <2>5. CASE \E r \in Reapers : ReapProgress(r) \/ SweepIdle(r) \/ ReapFail(r)
      BY <2>5, <1>9 DEF ReapProgress, Sweep, SweepIdle, FetchChunkKeys, ReapFail, vars
    <2> QED
      BY <2>1, <2>2, <2>3, <2>4, <2>5 DEF WebNext, ServerNext, WebClientNext
  <1> QED
    BY <1>1, <1>2, <1>3, <1>4, <1>5, <1>6, <1>7, <1>8, <1>10 DEF PutNext

-----------------------------------------------------------------------------
\* The empty deployment satisfies the invariant.
LEMMA WebInvInit == Init => WebInv
  <1> SUFFICES ASSUME Init PROVE WebInv
    OBVIOUS
  <1>1. Inv
    BY InvInit
  <1>2. LoopInv
    BY NoneAssumption DEF NoneAssumption, Init, LoopInv
  <1>3. PublishedInv
    BY DEF Init, PublishedInv, CanServeDownloads
  <1>4. CapInv
    BY OptionsAssumption
    DEF OptionsAssumption, OptionRecord, Init, CapInv, CapRespected, CanServeDownloads
  <1>5. BurnInv
    BY DEF Init, BurnInv, SingleBurn, Burned, Burning, AuditKinds
  <1>6. ObjectInv
    BY DEF Init, ObjectInv
  <1> QED
    BY <1>1, <1>2, <1>3, <1>4, <1>5, <1>6 DEF WebInv

\* The invariant holds throughout.
THEOREM WebInvCorrect == WebSpec => []WebInv
  <1>1. Init => WebInv
    BY WebInvInit
  <1>2. WebInv /\ [WebNext]_vars => WebInv'
    <2> SUFFICES ASSUME WebInv, [WebNext]_vars PROVE WebInv'
      OBVIOUS
    <2>1. Inv'
      BY InvStep, WebIsNext DEF WebInv
    <2>2. LoopInv' /\ PublishedInv'
      BY LoopStep, PublishedInvStep DEF WebInv, Inv
    <2>3. CapInv' /\ BurnInv' /\ ObjectInv'
      BY CapStep, BurnStep, ObjectStep DEF WebInv, Inv
    <2> QED
      BY <2>1, <2>2, <2>3 DEF WebInv
  <1> QED
    BY <1>1, <1>2, PTL DEF WebSpec

\* The download cap is never overrun: the burn of mark_chunk_served and
\* increment_download both find a download left, and no promotion to 'ready'
\* can follow the one that ended the upload.
THEOREM CapCorrect == WebSpec => []CapRespected
  BY WebInvCorrect, PTL DEF WebInv, CapInv

\* mark_chunk_served and increment_download never both burn the share, and
\* neither does it twice.
THEOREM SingleBurnCorrect == WebSpec => []SingleBurn
  BY WebInvCorrect, PTL DEF WebInv, BurnInv

\* The nonce UpsertChunkAsync stored for a chunk is the one its object was
\* sealed with.
THEOREM RowMatchesBlobCorrect == WebSpec => []RowMatchesBlob
  <1>1. WebInv => RowMatchesBlob
    BY DEF WebInv, ObjectInv, RowMatchesBlob
  <1> QED
    BY <1>1, WebInvCorrect, PTL

\* A burned, revoked or capped share is not brought back: UpdateShareStateAsync
\* is the only statement that could, and no PUT is left to run it.
THEOREM TerminalForeverCorrect == WebSpec => TerminalForever
  <1>1. ASSUME WebInv, [WebNext]_vars, clock # "after", state \in TerminalStates
        PROVE  state' \in TerminalStates
    <2> USE <1>1 DEF TerminalStates
    <2>1. LinkPublished
      <3>1. CASE state = "destroyed"
        BY <3>1 DEF WebInv, Inv, StampInv, PublishedInv
      <3>2. CASE state = "expired"
        <4>1. downloadCount # 0
          BY <3>2 DEF WebInv, Inv, StampInv, CapReached, CapReachedBy, NoCap, TypeOK, OptionRecord
        <4> QED
          BY <4>1 DEF WebInv, PublishedInv
      <3> QED
        BY <3>1, <3>2
    <2>2. \A p \in Puts : putPc[p] \in {"idle", "done"}
      BY <2>1, NoPutLeft DEF WebInv, Inv
    <2>3. CASE Tick \/ CreateShare \/ UNCHANGED vars
      BY <2>3 DEF Tick, CreateShare, vars
    <2>4. CASE \E p \in Puts : PutNext(p) \/ \E c \in Chunks : UploadNext(p, c)
      BY <2>2, <2>4 DEF PutNext, UploadNext, PutStart, PutBlob, PutUpsert,
            PutPromoteUploading, PutCount, PutPromoteReady, PutFail, PutStep
    <2>5. CASE \E g \in Gets : GetNext(g) \/ \E c \in Chunks : GetShare(g, c)
      BY <2>5 DEF GetNext, GetShare, GetChunkRow, GetStream, GetMark, GetFail, MarkServed
    <2>6. CASE \E d \in Revokes : RevokeNext(d) \/ RevokeSelect(d)
      BY <2>6 DEF RevokeNext, RevokeSelect, RevokeUpdate, RevokeAudit, RevokeFail
    <2>7. CASE \E w \in Reports : ReportNext(w) \/ ReportSelect(w)
      BY <2>7 DEF ReportNext, ReportSelect, ReportIncrement, ReportUnavailable,
            ReportAudit, ReportFail
    <2>8. CASE \E r \in Reapers : ReapProgress(r) \/ SweepIdle(r) \/ ReapFail(r)
      BY <2>8 DEF ReapProgress, Sweep, SweepIdle, FetchChunkKeys, RemoveBlob,
            FinalizeDestroy, ReapFail, vars
    <2> QED
      BY <2>3, <2>4, <2>5, <2>6, <2>7, <2>8 DEF WebNext, ServerNext, WebClientNext
  <1>2. WebInv /\ [WebNext]_vars
        => [clock # "after" /\ state \in TerminalStates => state' \in TerminalStates]_vars
    BY <1>1
  <1> QED
    BY <1>2, WebInvCorrect, PTL DEF WebSpec, TerminalForever

\* The client of the web app is one of those the servers are written for, so the
\* whole deployment with it implements Retention.
THEOREM WebImplements == WebSpec => Spec /\ RetentionKept
  BY WebIsNext, RetentionCorrect, PTL DEF WebSpec, Spec
=============================================================================
