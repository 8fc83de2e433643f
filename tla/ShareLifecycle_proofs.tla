----------------------- MODULE ShareLifecycle_proofs -----------------------
(***************************************************************************)
(* Theorems about ShareLifecycle, for any number of chunks, requests and   *)
(* reapers and any options.                                                *)
(*                                                                         *)
(* What a handler reads before an await is stale when it uses it, so none  *)
(* of the safety properties is inductive on its own.  The argument rests   *)
(* on one fact that cannot go stale: a condemned share stays condemned     *)
(* (Doomed).  Every weakness of the code, the promotion that ignores the   *)
(* state and the reaper that does not look again, then harms condemned     *)
(* shares only.                                                            *)
(***************************************************************************)
EXTENDS ShareRetention, FiniteSetTheorems, TLAPS

\* A terminal state comes with what makes the share condemned.
StampInv ==
    /\ state = "destroyed" => destroyedAt
    /\ state = "expired" => CapReached

\* What an upload handler relies on after its awaits.
UploadInv ==
    \A p \in Puts :
        /\ putPc[p] = "upsert" => Doomed \/ blob[putChunk[p]] # None
        /\ putPc[p] = "ready" => Doomed \/ AllUploaded

\* A handler marks what it has delivered, and its chunk does not change after.
DeliveryInv ==
    \A g \in Gets :
        /\ getPc[g] = "mark" => g \in delivered
        /\ g \in delivered => getPc[g] \in {"mark", "done"}

\* The inductive invariant.
Inv ==
    /\ TypeOK
    /\ StampInv
    /\ ReaperJustified
    /\ UploadInv
    /\ LiveDataKept
    /\ ReadyComplete
    /\ DeliveryInv
    /\ ServedWasDelivered

USE DEF shareVars, storeVars, putVars, getVars, reapVars, gatewayVars

-----------------------------------------------------------------------------
\* Types.

\* The initial state of the deployment has its type.
LEMMA TypeInit == Init => TypeOK
  <1> SUFFICES ASSUME Init PROVE TypeOK
    OBVIOUS
  <1>1. AnyChunk \in Chunks
    BY ChunksAssumption DEF AnyChunk, ChunksAssumption
  <1>2. opts \in OptionRecord
    BY OptionsAssumption DEF Init, OptionsAssumption
  <1>3. /\ state \in States
        /\ downloadCount \in Nat
        /\ destroyedAt \in BOOLEAN
        /\ reason \in Reasons
        /\ clock \in Clocks
    BY DEF Init, States, Reasons, Clocks
  <1>4. /\ row \in [Chunks -> Puts \cup {None}]
        /\ served \in SUBSET Chunks
        /\ blob \in [Chunks -> Puts \cup {None}]
        /\ audit \in [AuditKinds -> Nat]
    BY DEF Init
  <1>5. /\ putPc \in [Puts -> PutPcs]
        /\ putChunk \in [Puts -> Chunks]
        /\ putSeen \in [Puts -> {"pending", "uploading"}]
    BY <1>1 DEF Init, PutPcs
  <1>6. /\ getPc \in [Gets -> GetPcs]
        /\ getChunk \in [Gets -> Chunks]
        /\ delivered \in SUBSET Gets
    BY <1>1 DEF Init, GetPcs
  <1>7. /\ revokePc \in [Revokes -> RevokePcs]
        /\ reportPc \in [Reports -> ReportPcs]
        /\ reapPc \in [Reapers -> ReapPcs]
        /\ reapKeys \in [Reapers -> SUBSET Chunks]
    BY DEF Init, RevokePcs, ReportPcs, ReapPcs
  <1>8. reapFaults \in 0 .. MaxReapFaults
    BY FaultsAssumption DEF Init, FaultsAssumption
  <1> QED
    BY <1>2, <1>3, <1>4, <1>5, <1>6, <1>7, <1>8 DEF TypeOK

\* Every step of every process keeps the types.
LEMMA TypeStep == TypeOK /\ [Next]_vars => TypeOK'
  <1> SUFFICES ASSUME TypeOK, [Next]_vars PROVE TypeOK'
    OBVIOUS
  <1> USE DEF TypeOK, States, LiveStates, TerminalStates, Reasons, Clocks, AuditKinds
  <1> USE DEF PutPcs, GetPcs, RevokePcs, ReportPcs, ReapPcs
  <1>1. CASE Tick
    BY <1>1 DEF Tick
  <1>2. CASE CreateShare
    BY <1>2 DEF CreateShare
  <1>3. ASSUME NEW p \in Puts, NEW c \in Chunks, PutStart(p, c) PROVE TypeOK'
    BY <1>3 DEF PutStart, PutStep, CanAcceptUploads
  <1>4. ASSUME NEW p \in Puts, PutBlob(p) PROVE TypeOK'
    BY <1>4 DEF PutBlob, PutStep
  <1>5. ASSUME NEW p \in Puts, PutUpsert(p) PROVE TypeOK'
    BY <1>5 DEF PutUpsert, PutStep
  <1>6. ASSUME NEW p \in Puts, PutPromoteUploading(p) PROVE TypeOK'
    BY <1>6 DEF PutPromoteUploading, PutStep, UpdateShareState
  <1>7. ASSUME NEW p \in Puts, PutCount(p) PROVE TypeOK'
    BY <1>7 DEF PutCount, PutStep, AllUploaded
  <1>8. ASSUME NEW p \in Puts, PutPromoteReady(p) PROVE TypeOK'
    BY <1>8 DEF PutPromoteReady, PutStep, UpdateShareState
  <1>9. ASSUME NEW p \in Puts, PutFail(p) PROVE TypeOK'
    BY <1>9 DEF PutFail
  <1>10. ASSUME NEW g \in Gets, NEW c \in Chunks, GetShare(g, c) PROVE TypeOK'
    BY <1>10 DEF GetShare, GetStep
  <1>11. ASSUME NEW g \in Gets, GetChunkRow(g) PROVE TypeOK'
    BY <1>11 DEF GetChunkRow, GetStep
  <1>12. ASSUME NEW g \in Gets, GetStream(g) PROVE TypeOK'
    BY <1>12 DEF GetStream, GetStep
  <1>13. ASSUME NEW g \in Gets, GetMark(g) PROVE TypeOK'
    <2>1. /\ getPc' \in [Gets -> GetPcs]
          /\ served' \in SUBSET Chunks
      BY <1>13 DEF GetMark, GetStep, MarkServed
    <2>2. destroyedAt' = destroyedAt \/ destroyedAt' = TRUE
      BY <1>13 DEF GetMark, MarkServed
    <2>3. state' \in States /\ reason' \in Reasons
      BY <1>13 DEF GetMark, MarkServed
    <2>4. downloadCount' \in Nat /\ audit' \in [AuditKinds -> Nat]
      BY <1>13 DEF GetMark, MarkServed, AppendAudit
    <2>5. UNCHANGED <<opts, clock, row, blob, putVars, getChunk, delivered, reapVars,
                      gatewayVars>>
      BY <1>13 DEF GetMark, MarkServed
    <2> QED
      BY <2>1, <2>2, <2>3, <2>4, <2>5
  <1>14. ASSUME NEW g \in Gets, GetFail(g) PROVE TypeOK'
    BY <1>14 DEF GetFail
  <1>15. ASSUME NEW d \in Revokes, RevokeSelect(d) PROVE TypeOK'
    BY <1>15 DEF RevokeSelect, RevokeStep
  <1>16. ASSUME NEW d \in Revokes, RevokeUpdate(d) PROVE TypeOK'
    BY <1>16 DEF RevokeUpdate, RevokeStep
  <1>17. ASSUME NEW d \in Revokes, RevokeAudit(d) PROVE TypeOK'
    BY <1>17 DEF RevokeAudit, RevokeStep, AppendAudit
  <1>18. ASSUME NEW d \in Revokes, RevokeFail(d) PROVE TypeOK'
    BY <1>18 DEF RevokeFail
  <1>19. ASSUME NEW w \in Reports, ReportSelect(w) PROVE TypeOK'
    BY <1>19 DEF ReportSelect, ReportStep
  <1>20. ASSUME NEW w \in Reports, ReportIncrement(w) PROVE TypeOK'
    <2>1. reportPc' \in [Reports -> ReportPcs]
      BY <1>20 DEF ReportIncrement, ReportStep
    <2>2. /\ state' \in States
          /\ reason' \in Reasons
          /\ downloadCount' \in Nat
      BY <1>20 DEF ReportIncrement
    <2>3. destroyedAt' = destroyedAt \/ destroyedAt' = TRUE
      BY <1>20 DEF ReportIncrement
    <2>4. UNCHANGED <<opts, clock, storeVars, audit, putVars, getVars, reapVars, revokePc>>
      BY <1>20 DEF ReportIncrement
    <2> QED
      BY <2>1, <2>2, <2>3, <2>4
  <1>21. ASSUME NEW w \in Reports, ReportUnavailable(w) PROVE TypeOK'
    BY <1>21 DEF ReportUnavailable, ReportStep
  <1>22. ASSUME NEW w \in Reports, ReportAudit(w) PROVE TypeOK'
    BY <1>22 DEF ReportAudit, ReportStep, AppendAudit
  <1>23. ASSUME NEW w \in Reports, ReportFail(w) PROVE TypeOK'
    BY <1>23 DEF ReportFail
  <1>24. ASSUME NEW r \in Reapers, Sweep(r) PROVE TypeOK'
    BY <1>24 DEF Sweep, ReapStep, Reapable, CapReached, CapReachedBy
  <1>25. ASSUME NEW r \in Reapers, SweepIdle(r) PROVE TypeOK'
    BY <1>25 DEF SweepIdle, vars
  <1>26. ASSUME NEW r \in Reapers, FetchChunkKeys(r) PROVE TypeOK'
    BY <1>26 DEF FetchChunkKeys, ReapStep
  <1>27. ASSUME NEW r \in Reapers, NEW c \in Chunks, RemoveBlob(r, c) PROVE TypeOK'
    BY <1>27 DEF RemoveBlob
  <1>28. ASSUME NEW r \in Reapers, FinalizeDestroy(r) PROVE TypeOK'
    BY <1>28 DEF FinalizeDestroy, ReapStep, ClassifyReason, AppendAudit
  <1>29. ASSUME NEW r \in Reapers, ReapFail(r) PROVE TypeOK'
    BY <1>29, FaultsAssumption DEF ReapFail, FaultsAssumption
  <1>30. CASE UNCHANGED vars
    BY <1>30 DEF vars
  <1> QED
    BY <1>1, <1>2, <1>3, <1>4, <1>5, <1>6, <1>7, <1>8, <1>9, <1>10, <1>11, 
       <1>12, <1>13, <1>14, <1>15, <1>16, <1>17, <1>18, <1>19, <1>20, <1>21, 
       <1>22, <1>23, <1>24, <1>25, <1>26, <1>27, <1>28, <1>29, <1>30
    DEF Next, ServerNext, ClientNext, PutNext, GetNext, RevokeNext, ReportNext,
        ReapProgress

\* Type correctness: among other things, every reason the handlers and the
\* reaper write passes the CHECK constraint on shares.destroyed_reason.
THEOREM TypeCorrect == Spec => []TypeOK
  <1>1. Init => TypeOK
    BY TypeInit
  <1>2. TypeOK /\ [Next]_vars => TypeOK'
    BY TypeStep
  <1> QED
    BY <1>1, <1>2, PTL DEF Spec

-----------------------------------------------------------------------------
\* Condemnation.

\* What a step may do to the columns and the clock that condemn a share.
OneWay ==
    /\ opts' = opts
    /\ downloadCount' >= downloadCount
    /\ destroyedAt => destroyedAt'
    /\ clock = "after" => clock' = "after"

\* No statement lowers the count, clears the stamp or changes the options.
LEMMA OneWayStep == TypeOK /\ [Next]_vars => OneWay
  <1> SUFFICES ASSUME TypeOK, [Next]_vars PROVE OneWay
    OBVIOUS
  <1> USE DEF TypeOK, OneWay
  <1>1. CASE Tick
    BY <1>1 DEF Tick
  <1>2. CASE CreateShare
    BY <1>2 DEF CreateShare
  <1>3. ASSUME NEW p \in Puts, NEW c \in Chunks, PutStart(p, c) PROVE OneWay
    BY <1>3 DEF PutStart, PutStep, CanAcceptUploads
  <1>4. ASSUME NEW p \in Puts, PutBlob(p) PROVE OneWay
    BY <1>4 DEF PutBlob, PutStep
  <1>5. ASSUME NEW p \in Puts, PutUpsert(p) PROVE OneWay
    BY <1>5 DEF PutUpsert, PutStep
  <1>6. ASSUME NEW p \in Puts, PutPromoteUploading(p) PROVE OneWay
    BY <1>6 DEF PutPromoteUploading, PutStep, UpdateShareState
  <1>7. ASSUME NEW p \in Puts, PutCount(p) PROVE OneWay
    BY <1>7 DEF PutCount, PutStep, AllUploaded
  <1>8. ASSUME NEW p \in Puts, PutPromoteReady(p) PROVE OneWay
    BY <1>8 DEF PutPromoteReady, PutStep, UpdateShareState
  <1>9. ASSUME NEW p \in Puts, PutFail(p) PROVE OneWay
    BY <1>9 DEF PutFail
  <1>10. ASSUME NEW g \in Gets, NEW c \in Chunks, GetShare(g, c) PROVE OneWay
    BY <1>10 DEF GetShare, GetStep
  <1>11. ASSUME NEW g \in Gets, GetChunkRow(g) PROVE OneWay
    BY <1>11 DEF GetChunkRow, GetStep
  <1>12. ASSUME NEW g \in Gets, GetStream(g) PROVE OneWay
    BY <1>12 DEF GetStream, GetStep
  <1>13. ASSUME NEW g \in Gets, GetMark(g) PROVE OneWay
    BY <1>13 DEF GetMark, GetStep, MarkServed, AppendAudit
  <1>14. ASSUME NEW g \in Gets, GetFail(g) PROVE OneWay
    BY <1>14 DEF GetFail
  <1>15. ASSUME NEW d \in Revokes, RevokeSelect(d) PROVE OneWay
    BY <1>15 DEF RevokeSelect, RevokeStep
  <1>16. ASSUME NEW d \in Revokes, RevokeUpdate(d) PROVE OneWay
    BY <1>16 DEF RevokeUpdate, RevokeStep
  <1>17. ASSUME NEW d \in Revokes, RevokeAudit(d) PROVE OneWay
    BY <1>17 DEF RevokeAudit, RevokeStep, AppendAudit
  <1>18. ASSUME NEW d \in Revokes, RevokeFail(d) PROVE OneWay
    BY <1>18 DEF RevokeFail
  <1>19. ASSUME NEW w \in Reports, ReportSelect(w) PROVE OneWay
    BY <1>19 DEF ReportSelect, ReportStep
  <1>20. ASSUME NEW w \in Reports, ReportIncrement(w) PROVE OneWay
    BY <1>20 DEF ReportIncrement, ReportStep, CapReachedBy
  <1>21. ASSUME NEW w \in Reports, ReportUnavailable(w) PROVE OneWay
    BY <1>21 DEF ReportUnavailable, ReportStep
  <1>22. ASSUME NEW w \in Reports, ReportAudit(w) PROVE OneWay
    BY <1>22 DEF ReportAudit, ReportStep, AppendAudit
  <1>23. ASSUME NEW w \in Reports, ReportFail(w) PROVE OneWay
    BY <1>23 DEF ReportFail
  <1>24. ASSUME NEW r \in Reapers, Sweep(r) PROVE OneWay
    BY <1>24 DEF Sweep, ReapStep, Reapable, CapReached, CapReachedBy
  <1>25. ASSUME NEW r \in Reapers, SweepIdle(r) PROVE OneWay
    BY <1>25 DEF SweepIdle, vars
  <1>26. ASSUME NEW r \in Reapers, FetchChunkKeys(r) PROVE OneWay
    BY <1>26 DEF FetchChunkKeys, ReapStep
  <1>27. ASSUME NEW r \in Reapers, NEW c \in Chunks, RemoveBlob(r, c) PROVE OneWay
    BY <1>27 DEF RemoveBlob
  <1>28. ASSUME NEW r \in Reapers, FinalizeDestroy(r) PROVE OneWay
    BY <1>28 DEF FinalizeDestroy, ReapStep, ClassifyReason, AppendAudit
  <1>29. ASSUME NEW r \in Reapers, ReapFail(r) PROVE OneWay
    BY <1>29 DEF ReapFail
  <1>30. CASE UNCHANGED vars
    BY <1>30 DEF vars
  <1> QED
    BY <1>1, <1>2, <1>3, <1>4, <1>5, <1>6, <1>7, <1>8, <1>9, <1>10, <1>11, 
       <1>12, <1>13, <1>14, <1>15, <1>16, <1>17, <1>18, <1>19, <1>20, <1>21, 
       <1>22, <1>23, <1>24, <1>25, <1>26, <1>27, <1>28, <1>29, <1>30
    DEF Next, ServerNext, ClientNext, PutNext, GetNext, RevokeNext, ReportNext,
        ReapProgress

\* A condemned share stays condemned.
LEMMA DoomStep == TypeOK /\ [Next]_vars => (Doomed => Doomed')
  <1> SUFFICES ASSUME TypeOK, TypeOK', OneWay, Doomed PROVE Doomed'
    BY TypeStep, OneWayStep
  <1>1. CASE clock = "after"
    BY <1>1 DEF OneWay, Doomed
  <1>2. CASE opts.maxDownloads # NoCap /\ downloadCount >= opts.maxDownloads
    BY <1>2 DEF OneWay, Doomed, TypeOK, OptionRecord
  <1>3. CASE destroyedAt
    BY <1>3 DEF OneWay, Doomed
  <1> QED
    BY <1>1, <1>2, <1>3 DEF Doomed

\* No step of any handler takes a condemnation back, although the ingest
\* service overwrites the state of a destroyed share.
THEOREM DoomCorrect == Spec => DoomIsForever
  <1>1. TypeOK /\ [Next]_vars => [Doomed => Doomed']_vars
    BY DoomStep
  <1> QED
    BY <1>1, TypeCorrect, PTL DEF Spec, DoomIsForever

-----------------------------------------------------------------------------
\* The invariant.

\* The empty deployment satisfies the invariant.
LEMMA InvInit == Init => Inv
  <1> SUFFICES ASSUME Init PROVE Inv
    OBVIOUS
  <1>1. TypeOK
    BY TypeInit
  <1>2. StampInv /\ ReaperJustified /\ UploadInv
    BY DEF Init, StampInv, ReaperJustified, UploadInv
  <1>3. LiveDataKept /\ ReadyComplete
    BY DEF Init, LiveDataKept, ReadyComplete, CanServeDownloads
  <1>4. DeliveryInv /\ ServedWasDelivered
    BY DEF Init, DeliveryInv, ServedWasDelivered
  <1> QED
    BY <1>1, <1>2, <1>3, <1>4 DEF Inv

\* Every step of every process keeps the invariant.
LEMMA InvStep == Inv /\ [Next]_vars => Inv'
  <1> SUFFICES ASSUME TypeOK, TypeOK', Inv, Doomed => Doomed', [Next]_vars PROVE Inv'
    BY TypeStep, DoomStep DEF Inv
  <1> USE NoneAssumption DEF NoneAssumption, TypeOK, Inv
  <1> USE DEF StampInv, ReaperJustified, UploadInv, LiveDataKept, ReadyComplete
  <1> USE DEF DeliveryInv, ServedWasDelivered, Doomed, CanServeDownloads, AllUploaded
  <1> USE DEF CapReached, CapReachedBy, NoCap, LiveStates
  <1>1. CASE Tick
    BY <1>1 DEF Tick
  <1>2. CASE CreateShare
    BY <1>2 DEF CreateShare
  <1>3. ASSUME NEW p \in Puts, NEW c \in Chunks, PutStart(p, c) PROVE Inv'
    BY <1>3 DEF PutStart, PutStep, CanAcceptUploads
  <1>4. ASSUME NEW p \in Puts, PutBlob(p) PROVE Inv'
    BY <1>4 DEF PutBlob, PutStep
  <1>5. ASSUME NEW p \in Puts, PutUpsert(p) PROVE Inv'
    BY <1>5 DEF PutUpsert, PutStep
  <1>6. ASSUME NEW p \in Puts, PutPromoteUploading(p) PROVE Inv'
    BY <1>6 DEF PutPromoteUploading, PutStep, UpdateShareState
  <1>7. ASSUME NEW p \in Puts, PutCount(p) PROVE Inv'
    BY <1>7 DEF PutCount, PutStep, AllUploaded
  <1>8. ASSUME NEW p \in Puts, PutPromoteReady(p) PROVE Inv'
    BY <1>8 DEF PutPromoteReady, PutStep, UpdateShareState
  <1>9. ASSUME NEW p \in Puts, PutFail(p) PROVE Inv'
    BY <1>9 DEF PutFail
  <1>10. ASSUME NEW g \in Gets, NEW c \in Chunks, GetShare(g, c) PROVE Inv'
    BY <1>10 DEF GetShare, GetStep
  <1>11. ASSUME NEW g \in Gets, GetChunkRow(g) PROVE Inv'
    BY <1>11 DEF GetChunkRow, GetStep
  <1>12. ASSUME NEW g \in Gets, GetStream(g) PROVE Inv'
    BY <1>12 DEF GetStream, GetStep
  <1>13. ASSUME NEW g \in Gets, GetMark(g) PROVE Inv'
    BY <1>13 DEF GetMark, GetStep, MarkServed, AppendAudit
  <1>14. ASSUME NEW g \in Gets, GetFail(g) PROVE Inv'
    BY <1>14 DEF GetFail
  <1>15. ASSUME NEW d \in Revokes, RevokeSelect(d) PROVE Inv'
    BY <1>15 DEF RevokeSelect, RevokeStep
  <1>16. ASSUME NEW d \in Revokes, RevokeUpdate(d) PROVE Inv'
    BY <1>16 DEF RevokeUpdate, RevokeStep
  <1>17. ASSUME NEW d \in Revokes, RevokeAudit(d) PROVE Inv'
    BY <1>17 DEF RevokeAudit, RevokeStep, AppendAudit
  <1>18. ASSUME NEW d \in Revokes, RevokeFail(d) PROVE Inv'
    BY <1>18 DEF RevokeFail
  <1>19. ASSUME NEW w \in Reports, ReportSelect(w) PROVE Inv'
    BY <1>19 DEF ReportSelect, ReportStep
  <1>20. ASSUME NEW w \in Reports, ReportIncrement(w) PROVE Inv'
    <2>1. StampInv'
      <3>1. CASE opts.burn
        BY <1>20, <3>1 DEF ReportIncrement
      <3>2. CASE ~opts.burn
        BY <1>20, <3>2 DEF ReportIncrement, OptionRecord, Incrementable
      <3> QED
        BY <3>1, <3>2
    <2>2. UNCHANGED <<storeVars, putVars, getVars, reapVars>>
      BY <1>20 DEF ReportIncrement
    <2>3. ReadyComplete'
      BY <1>20, <2>2 DEF ReportIncrement, Incrementable
    <2> QED
      BY <2>1, <2>2, <2>3
  <1>21. ASSUME NEW w \in Reports, ReportUnavailable(w) PROVE Inv'
    BY <1>21 DEF ReportUnavailable, ReportStep
  <1>22. ASSUME NEW w \in Reports, ReportAudit(w) PROVE Inv'
    BY <1>22 DEF ReportAudit, ReportStep, AppendAudit
  <1>23. ASSUME NEW w \in Reports, ReportFail(w) PROVE Inv'
    BY <1>23 DEF ReportFail
  <1>24. ASSUME NEW r \in Reapers, Sweep(r) PROVE Inv'
    BY <1>24 DEF Sweep, ReapStep, Reapable, CapReached, CapReachedBy
  <1>25. ASSUME NEW r \in Reapers, SweepIdle(r) PROVE Inv'
    BY <1>25 DEF SweepIdle, vars
  <1>26. ASSUME NEW r \in Reapers, FetchChunkKeys(r) PROVE Inv'
    BY <1>26 DEF FetchChunkKeys, ReapStep
  <1>27. ASSUME NEW r \in Reapers, NEW c \in Chunks, RemoveBlob(r, c) PROVE Inv'
    BY <1>27 DEF RemoveBlob
  <1>28. ASSUME NEW r \in Reapers, FinalizeDestroy(r) PROVE Inv'
    BY <1>28 DEF FinalizeDestroy, ReapStep, ClassifyReason, AppendAudit
  <1>29. ASSUME NEW r \in Reapers, ReapFail(r) PROVE Inv'
    BY <1>29 DEF ReapFail
  <1>30. CASE UNCHANGED vars
    BY <1>30 DEF vars
  <1> QED
    BY <1>1, <1>2, <1>3, <1>4, <1>5, <1>6, <1>7, <1>8, <1>9, <1>10, <1>11, 
       <1>12, <1>13, <1>14, <1>15, <1>16, <1>17, <1>18, <1>19, <1>20, <1>21, 
       <1>22, <1>23, <1>24, <1>25, <1>26, <1>27, <1>28, <1>29, <1>30
    DEF Next, ServerNext, ClientNext, PutNext, GetNext, RevokeNext, ReportNext,
        ReapProgress

\* The invariant holds throughout.
THEOREM InvCorrect == Spec => []Inv
  <1>1. Init => Inv
    BY InvInit
  <1>2. Inv /\ [Next]_vars => Inv'
    BY InvStep
  <1> QED
    BY <1>1, <1>2, PTL DEF Spec

\* No chunk row of a share that is not condemned lacks its object.
THEOREM LiveDataCorrect == Spec => []LiveDataKept
  BY InvCorrect, PTL DEF Inv

\* A share offered for download and not condemned has every chunk row.
THEOREM ReadyCorrect == Spec => []ReadyComplete
  BY InvCorrect, PTL DEF Inv

\* A reaper at work, however long ago it ran its candidate query, is working
\* on a condemned share: finalizeDestroy needs no second look.
THEOREM ReaperCorrect == Spec => []ReaperJustified
  BY InvCorrect, PTL DEF Inv

\* A delivery stamp is backed by a GET that let bytes of the chunk out.
THEOREM ServedCorrect == Spec => []ServedWasDelivered
  BY InvCorrect, PTL DEF Inv

\* No terminal share with chunk rows is invisible to the candidate query.
THEOREM TerminalCorrect == Spec => []TerminalReapable
  <1>1. Inv => TerminalReapable
    BY DEF Inv, StampInv, TerminalReapable, TerminalStates, Reapable, HasRows
  <1> QED
    BY <1>1, InvCorrect, PTL

\* mark_chunk_served burns an uncondemned share only after the delivery of
\* every one of its chunks.
THEOREM BurnCorrect == Spec => BurnAfterDelivery
  <1> DEFINE Burns == audit'["burn_ingest"] > audit["burn_ingest"]
             AllDelivered == \A c \in Chunks : \E g \in delivered : getChunk[g] = c
  <1>1. ASSUME TypeOK, [Next]_vars, Burns
        PROVE  \E g \in Gets : GetMark(g) /\ BurnFires(getChunk[g])
    <2> USE <1>1 DEF TypeOK, AuditKinds
    <2>1. CASE Tick \/ CreateShare
      BY <2>1 DEF Tick, CreateShare
    <2>2. CASE \E p \in Puts : PutNext(p) \/ \E c \in Chunks : PutStart(p, c)
      BY <2>2 DEF PutNext, PutStart, PutBlob, PutUpsert, PutPromoteUploading,
            PutCount, PutPromoteReady, PutFail
    <2>3. CASE \E g \in Gets : GetNext(g) \/ \E c \in Chunks : GetShare(g, c)
      BY <2>3 DEF GetNext, GetShare, GetChunkRow, GetStream, GetMark, GetFail,
            MarkServed, AppendAudit
    <2>4. CASE \E d \in Revokes : RevokeNext(d) \/ RevokeSelect(d)
      BY <2>4 DEF RevokeNext, RevokeSelect, RevokeUpdate, RevokeAudit, RevokeFail,
            AppendAudit
    <2>5. CASE \E w \in Reports : ReportNext(w) \/ ReportSelect(w)
      BY <2>5 DEF ReportNext, ReportSelect, ReportIncrement, ReportUnavailable,
            ReportAudit, ReportFail, AppendAudit
    <2>6. CASE \E r \in Reapers : ReapProgress(r) \/ SweepIdle(r) \/ ReapFail(r)
      BY <2>6 DEF ReapProgress, Sweep, SweepIdle, FetchChunkKeys, RemoveBlob,
            FinalizeDestroy, ReapFail, vars, AppendAudit
    <2>7. CASE UNCHANGED vars
      BY <2>7 DEF vars
    <2> QED
      BY <1>1, <2>1, <2>2, <2>3, <2>4, <2>5, <2>6, <2>7 DEF Next, ServerNext, ClientNext
  <1>2. ASSUME Inv, [Next]_vars, Burns, ~Doomed PROVE AllDelivered
    <2>1. PICK g \in Gets : GetMark(g) /\ BurnFires(getChunk[g])
      BY <1>1, <1>2 DEF Inv
    <2>2. g \in delivered
      BY <1>2, <2>1 DEF Inv, DeliveryInv, GetMark, GetStep
    <2>3. \A c \in Chunks : row[c] # None
      BY <1>2, <2>1 DEF Inv, ReadyComplete, BurnFires, CanServeDownloads
    <2>4. \A c \in Chunks : c \in served \/ c = getChunk[g]
      BY <2>1, <2>3 DEF BurnFires
    <2> QED
      BY <1>2, <2>2, <2>4 DEF Inv, ServedWasDelivered
  <1>3. Inv /\ [Next]_vars => [Burns /\ ~Doomed => AllDelivered]_vars
    BY <1>2
  <1> QED
    BY <1>3, InvCorrect, PTL DEF Spec, BurnAfterDelivery

-----------------------------------------------------------------------------
\* The audit chain and the count.

\* The reports that have incremented the count and not yet recorded it.
Unrecorded == {w \in Reports : reportPc[w] \in {"audit_downloaded", "audit_burn"}}

Recorded == audit["downloaded"] + audit["burn_ingest"] + audit["burn_gateway"]

\* Each unrecorded report has a download of its own that the chain lacks.
RecordInv ==
    /\ IsFiniteSet(Unrecorded)
    /\ Recorded + Cardinality(Unrecorded) <= downloadCount

\* The steps that move the count, the records or the reports.
LEMMA RecordSteps ==
  TypeOK /\ [Next]_vars =>
    \/ Recorded' = Recorded /\ UNCHANGED <<downloadCount, Unrecorded>>
    \/ \E g \in Gets : GetMark(g) /\ BurnFires(getChunk[g]) /\ row[getChunk[g]] # None
    \/ \E w \in Reports : ReportIncrement(w) \/ ReportAudit(w) \/ ReportFail(w)
  <1> SUFFICES ASSUME TypeOK, [Next]_vars,
                      ~ \E g \in Gets : GetMark(g) /\ BurnFires(getChunk[g])
                                        /\ row[getChunk[g]] # None,
                      ~ \E w \in Reports : ReportIncrement(w) \/ ReportAudit(w) \/ ReportFail(w)
               PROVE  Recorded' = Recorded /\ UNCHANGED <<downloadCount, Unrecorded>>
    OBVIOUS
  <1>1. CASE Tick \/ CreateShare \/ UNCHANGED vars
    BY <1>1 DEF Tick, CreateShare, vars, Recorded, Unrecorded
  <1>2. CASE \E p \in Puts : PutNext(p) \/ \E c \in Chunks : PutStart(p, c)
    BY <1>2 DEF PutNext, PutStart, PutBlob, PutUpsert, PutPromoteUploading,
          PutCount, PutPromoteReady, PutFail, UpdateShareState, Recorded, Unrecorded
  <1>3. CASE \E g \in Gets : GetNext(g) \/ \E c \in Chunks : GetShare(g, c)
    BY <1>3 DEF GetNext, GetShare, GetChunkRow, GetStream, GetMark, GetFail,
          MarkServed, Recorded, Unrecorded
  <1>4. CASE \E d \in Revokes : RevokeNext(d) \/ RevokeSelect(d)
    BY <1>4 DEF RevokeNext, RevokeSelect, RevokeUpdate, RevokeAudit, RevokeFail,
          AppendAudit, Recorded, Unrecorded, TypeOK, AuditKinds
  <1>5. CASE \E w \in Reports : ReportUnavailable(w) \/ ReportSelect(w)
    BY <1>5 DEF ReportUnavailable, ReportSelect, ReportStep, Recorded, Unrecorded, TypeOK
  <1>6. CASE \E r \in Reapers : ReapProgress(r) \/ SweepIdle(r) \/ ReapFail(r)
    BY <1>6 DEF ReapProgress, Sweep, SweepIdle, FetchChunkKeys, RemoveBlob,
          FinalizeDestroy, ReapFail, vars, AppendAudit, Recorded, Unrecorded, TypeOK, AuditKinds
  <1> QED
    BY <1>1, <1>2, <1>3, <1>4, <1>5, <1>6 DEF Next, ServerNext, ClientNext, ReportNext

\* A download is counted before it is recorded, and recorded once at most.
LEMMA RecordStep == TypeOK /\ RecordInv /\ [Next]_vars => RecordInv'
  <1> SUFFICES ASSUME TypeOK, RecordInv, [Next]_vars PROVE RecordInv'
    OBVIOUS
  <1>1. /\ Cardinality(Unrecorded) \in Nat /\ downloadCount \in Nat /\ Recorded \in Nat
        /\ IsFiniteSet(Unrecorded)
        /\ Recorded + Cardinality(Unrecorded) <= downloadCount
    BY FS_CardinalityType DEF RecordInv, TypeOK, AuditKinds, Recorded
  <1>2. CASE Recorded' = Recorded /\ UNCHANGED <<downloadCount, Unrecorded>>
    BY <1>1, <1>2 DEF RecordInv
  <1>3. ASSUME NEW g \in Gets, GetMark(g), BurnFires(getChunk[g]), row[getChunk[g]] # None
        PROVE  RecordInv'
    <2>1. audit' = [audit EXCEPT !["burn_ingest"] = @ + 1]
          /\ downloadCount' = downloadCount + 1 /\ reportPc' = reportPc
      BY <1>3 DEF GetMark, MarkServed, AppendAudit
    <2>2. Recorded' = Recorded + 1 /\ Unrecorded' = Unrecorded
      BY <2>1 DEF Recorded, Unrecorded, TypeOK, AuditKinds
    <2> QED
      BY <1>1, <2>1, <2>2 DEF RecordInv
  <1>4. ASSUME NEW w \in Reports, ReportIncrement(w) PROVE RecordInv'
    <2>1. /\ reportPc[w] = "increment"
          /\ \/ reportPc' = [reportPc EXCEPT ![w] = "audit_burn"]
             \/ reportPc' = [reportPc EXCEPT ![w] = "audit_downloaded"]
          /\ downloadCount' = downloadCount + 1 /\ audit' = audit
      BY <1>4 DEF ReportIncrement, ReportStep
    <2>2. Unrecorded' = Unrecorded \cup {w} /\ w \notin Unrecorded
      BY <2>1 DEF Unrecorded, TypeOK
    <2>3. IsFiniteSet(Unrecorded') /\ Cardinality(Unrecorded') = Cardinality(Unrecorded) + 1
      BY <1>1, <2>2, FS_AddElement
    <2>4. Recorded' = Recorded
      BY <2>1 DEF Recorded
    <2> QED
      BY <1>1, <2>1, <2>3, <2>4 DEF RecordInv
  <1>5. ASSUME NEW w \in Reports, ReportAudit(w) \/ ReportFail(w) PROVE RecordInv'
    <2>1. reportPc' = [reportPc EXCEPT ![w] = "done"] /\ downloadCount' = downloadCount
      BY <1>5 DEF ReportAudit, ReportFail, ReportStep
    <2>2. Unrecorded' = Unrecorded \ {w}
      BY <2>1 DEF Unrecorded, TypeOK
    <2>3. /\ IsFiniteSet(Unrecorded')
          /\ Cardinality(Unrecorded') =
                IF w \in Unrecorded THEN Cardinality(Unrecorded) - 1 ELSE Cardinality(Unrecorded)
      BY <1>1, <2>2, FS_RemoveElement
    <2>4. \/ Recorded' = Recorded
          \/ Recorded' = Recorded + 1 /\ w \in Unrecorded
      BY <1>5 DEF ReportAudit, ReportFail, ReportStep, AppendAudit, Recorded, Unrecorded,
            TypeOK, AuditKinds
    <2>5. Cardinality(Unrecorded') \in Nat
      BY <2>3, FS_CardinalityType
    <2> QED
      BY <1>1, <2>1, <2>3, <2>4, <2>5 DEF RecordInv
  <1> QED
    BY RecordSteps, <1>2, <1>3, <1>4, <1>5

\* mark_chunk_served and increment_download raise shares.download_count before
\* an entry of theirs can reach the chain, so the chain never runs ahead.
THEOREM AuditCountCorrect == Spec => []AuditWithinCount
  <1>1. Init => RecordInv
    <2> SUFFICES ASSUME Init PROVE RecordInv
      OBVIOUS
    <2>1. Unrecorded = {} /\ Recorded = 0 /\ downloadCount = 0
      BY DEF Init, Unrecorded, Recorded, AuditKinds
    <2> QED
      BY <2>1, FS_EmptySet DEF RecordInv
  <1>2. TypeOK /\ RecordInv /\ [Next]_vars => RecordInv'
    BY RecordStep
  <1>3. TypeOK /\ RecordInv => AuditWithinCount
    <2> SUFFICES ASSUME TypeOK, RecordInv PROVE AuditWithinCount
      OBVIOUS
    <2>1. Cardinality(Unrecorded) \in Nat /\ downloadCount \in Nat /\ Recorded \in Nat
      BY FS_CardinalityType DEF RecordInv, TypeOK, AuditKinds, Recorded
    <2>2. Recorded <= downloadCount
      BY <2>1 DEF RecordInv
    <2> QED
      BY <2>2 DEF AuditWithinCount, Recorded
  <1> QED
    BY <1>1, <1>2, <1>3, TypeCorrect, PTL DEF Spec

-----------------------------------------------------------------------------
\* Refinement.

\* A step that touches neither chunk rows nor objects condemns or stutters.
LEMMA QuietStep ==
  ASSUME Doomed => Doomed', UNCHANGED <<row, blob>>
  PROVE  [R!Next]_<<Doomed, Listed, Stored>>
  <1>1. UNCHANGED <<Listed, Stored>>
    BY DEF Listed, Stored
  <1>2. CASE Doomed'
    <2>1. R!Condemn
      BY <1>1, <1>2 DEF R!Condemn
    <2> QED
      BY <2>1 DEF R!Next
  <1>3. CASE ~Doomed'
    <2>1. Doomed' = Doomed
      BY <1>3 DEF Doomed
    <2> QED
      BY <1>1, <2>1
  <1> QED
    BY <1>2, <1>3

\* Every step of the deployment is a step of Retention or a stutter.
LEMMA RetentionStep == Inv /\ [Next]_vars => [R!Next]_<<Doomed, Listed, Stored>>
  <1> SUFFICES ASSUME Inv, TypeOK, Doomed => Doomed', [Next]_vars
               PROVE  [R!Next]_<<Doomed, Listed, Stored>>
    BY DoomStep DEF Inv
  <1> USE NoneAssumption DEF NoneAssumption, TypeOK
  <1>1. ASSUME NEW p \in Puts, PutBlob(p) PROVE [R!Next]_<<Doomed, Listed, Stored>>
    <2>1. Stored' = Stored \cup {putChunk[p]} /\ Listed' = Listed
      BY <1>1 DEF PutBlob, Stored, Listed
    <2>2. Doomed' = Doomed
      BY <1>1 DEF PutBlob, Doomed
    <2> QED
      BY <2>1, <2>2 DEF R!Next, R!Store
  <1>2. ASSUME NEW p \in Puts, PutUpsert(p) PROVE [R!Next]_<<Doomed, Listed, Stored>>
    <2>1. Listed' = Listed \cup {putChunk[p]} /\ Stored' = Stored
      BY <1>2 DEF PutUpsert, Stored, Listed
    <2>2. Doomed' = Doomed
      BY <1>2 DEF PutUpsert, Doomed
    <2>3. putChunk[p] \in Stored \/ Doomed
      BY <1>2 DEF PutUpsert, PutStep, Inv, UploadInv, Stored
    <2> QED
      BY <2>1, <2>2, <2>3 DEF R!Next, R!List
  <1>3. ASSUME NEW r \in Reapers, NEW c \in Chunks, RemoveBlob(r, c)
        PROVE  [R!Next]_<<Doomed, Listed, Stored>>
    <2>1. Stored' = Stored \ {c} /\ Listed' = Listed
      BY <1>3 DEF RemoveBlob, Stored, Listed
    <2>2. Doomed' = Doomed
      BY <1>3 DEF RemoveBlob, Doomed
    <2>3. Doomed
      BY <1>3 DEF RemoveBlob, Inv, ReaperJustified
    <2> QED
      BY <2>1, <2>2, <2>3 DEF R!Next, R!Erase
  <1>4. ASSUME NEW r \in Reapers, FinalizeDestroy(r)
        PROVE  [R!Next]_<<Doomed, Listed, Stored>>
    <2>1. Listed' = {} /\ Stored' = Stored
      BY <1>4 DEF FinalizeDestroy, Stored, Listed
    <2>2. Doomed
      BY <1>4 DEF FinalizeDestroy, ReapStep, Inv, ReaperJustified
    <2>3. Doomed' = Doomed
      BY <2>2 DEF Doomed
    <2> QED
      BY <2>1, <2>2, <2>3 DEF R!Next, R!Forget
  <1>5. CASE UNCHANGED <<row, blob>>
    BY <1>5, QuietStep
  <1>6. \/ UNCHANGED <<row, blob>>
        \/ \E p \in Puts : PutBlob(p) \/ PutUpsert(p)
        \/ \E r \in Reapers : FinalizeDestroy(r) \/ \E c \in Chunks : RemoveBlob(r, c)
    <2>1. CASE Tick \/ CreateShare
      BY <2>1 DEF Tick, CreateShare
    <2>2. CASE \E p \in Puts : PutNext(p) \/ \E c \in Chunks : PutStart(p, c)
      BY <2>2 DEF PutNext, PutStart, PutBlob, PutUpsert, PutPromoteUploading,
            PutCount, PutPromoteReady, PutFail
    <2>3. CASE \E g \in Gets : GetNext(g) \/ \E c \in Chunks : GetShare(g, c)
      BY <2>3 DEF GetNext, GetShare, GetChunkRow, GetStream, GetMark, GetFail
    <2>4. CASE \E d \in Revokes : RevokeNext(d) \/ RevokeSelect(d)
      BY <2>4 DEF RevokeNext, RevokeSelect, RevokeUpdate, RevokeAudit, RevokeFail
    <2>5. CASE \E w \in Reports : ReportNext(w) \/ ReportSelect(w)
      BY <2>5 DEF ReportNext, ReportSelect, ReportIncrement, ReportUnavailable,
            ReportAudit, ReportFail
    <2>6. CASE \E r \in Reapers : ReapProgress(r) \/ SweepIdle(r) \/ ReapFail(r)
      BY <2>6 DEF ReapProgress, Sweep, SweepIdle, FetchChunkKeys, RemoveBlob,
            FinalizeDestroy, ReapFail, vars
    <2>7. CASE UNCHANGED vars
      BY <2>7 DEF vars
    <2> QED
      BY  <2>1, <2>2, <2>3, <2>4, <2>5, <2>6, <2>7 DEF Next, ServerNext, ClientNext
  <1> QED
    BY <1>1, <1>2, <1>3, <1>4, <1>5, <1>6

\* ShareLifecycle implements Retention.
THEOREM RetentionCorrect == Spec => RetentionKept
  <1>1. Init => R!Init
    <2> SUFFICES ASSUME Init PROVE R!Init
      OBVIOUS
    <2>1. ~Doomed
      BY OptionsAssumption DEF Init, Doomed, OptionsAssumption, OptionRecord, NoCap
    <2>2. Listed = {} /\ Stored = {}
      BY DEF Init, Listed, Stored
    <2> QED
      BY <2>1, <2>2 DEF R!Init
  <1>2. Inv /\ [Next]_vars => [R!Next]_<<Doomed, Listed, Stored>>
    BY RetentionStep
  <1> QED
    BY <1>1, <1>2, InvCorrect, PTL DEF Spec, RetentionKept, R!Spec

-----------------------------------------------------------------------------
\* What EventuallyPurged rests on besides fairness.

\* Once its TTL has lapsed, a share is in the answer of the candidate query or
\* has nothing left to erase, whatever late uploads have written over its state.
LapsedIsCandidate ==
    clock = "after" /\ state # "absent" =>
        Reapable \/ (state \in TerminalStates /\ ~HasRows)

\* No statement writes the state 'downloaded', which the query does not look for,
\* and nothing happens to a share before its row is inserted.
ColumnInv ==
    /\ state # "downloaded"
    /\ state = "absent" => /\ \A c \in Chunks : row[c] = None
                           /\ \A p \in Puts : putPc[p] = "idle"

\* The steps that change the state, and none of them to 'downloaded'.
LEMMA StateSteps ==
    ASSUME TypeOK, [Next]_vars
    PROVE  /\ state' \in {state, "pending", "uploading", "ready", "expired", "destroyed"}
           /\ state' = "absent" => UNCHANGED <<row, putPc>> \/ \E p \in Puts : PutNext(p)
  <1> DEFINE Written == {state, "pending", "uploading", "ready", "expired", "destroyed"}
  <1>1. CASE Tick \/ CreateShare
    BY <1>1 DEF Tick, CreateShare
  <1>2. ASSUME NEW p \in Puts, PutNext(p) PROVE state' \in Written
    BY <1>2 DEF PutNext, PutBlob, PutUpsert, PutPromoteUploading, PutCount,
            PutPromoteReady, PutFail, UpdateShareState
  <1>3. ASSUME NEW p \in Puts, NEW c \in Chunks, PutStart(p, c)
        PROVE  state' = state /\ state # "absent"
    BY <1>3 DEF PutStart, CanAcceptUploads
  <1>4. CASE \E g \in Gets : GetNext(g) \/ \E c \in Chunks : GetShare(g, c)
    BY <1>4 DEF GetNext, GetShare, GetChunkRow, GetStream, GetMark, GetFail, MarkServed
  <1>5. CASE \E d \in Revokes : RevokeNext(d) \/ RevokeSelect(d)
    BY <1>5 DEF RevokeNext, RevokeSelect, RevokeUpdate, RevokeAudit, RevokeFail
  <1>6. CASE \E w \in Reports : ReportNext(w) \/ ReportSelect(w)
    BY <1>6 DEF ReportNext, ReportSelect, ReportIncrement, ReportUnavailable,
            ReportAudit, ReportFail
  <1>7. CASE \E r \in Reapers : ReapProgress(r) \/ SweepIdle(r) \/ ReapFail(r)
    BY <1>7 DEF ReapProgress, Sweep, SweepIdle, FetchChunkKeys, RemoveBlob,
            FinalizeDestroy, ReapFail, vars
  <1>8. CASE UNCHANGED vars
    BY <1>8 DEF vars
  <1> QED
    BY <1>1, <1>2, <1>3, <1>4, <1>5, <1>6, <1>7, <1>8 DEF Next, ServerNext, ClientNext

\* A handler at work has found the row of its share.
LEMMA ColumnStep == TypeOK /\ ColumnInv /\ [Next]_vars => ColumnInv'
  <1> SUFFICES ASSUME TypeOK, ColumnInv, [Next]_vars PROVE ColumnInv'
    OBVIOUS
  <1>1. state' # "downloaded"
    BY StateSteps DEF ColumnInv
  <1>2. ASSUME state' = "absent" PROVE UNCHANGED <<row, putPc>> /\ state = "absent"
    <2>1. state = "absent"
      BY <1>2, StateSteps
    <2>2. \A p \in Puts : ~PutNext(p)
      BY <2>1 DEF ColumnInv, PutNext, PutBlob, PutUpsert, PutPromoteUploading, PutCount,
              PutPromoteReady, PutFail, PutStep
    <2> QED
      BY <1>2, <2>1, <2>2, StateSteps
  <1> QED
    BY <1>1, <1>2 DEF ColumnInv

\* selectReapableSQL: no share whose TTL has lapsed escapes the sweep before its
\* rows are gone and its state is terminal.
THEOREM CandidateCorrect == Spec => []LapsedIsCandidate
  <1>1. Init => ColumnInv
    BY DEF Init, ColumnInv
  <1>2. Inv /\ ColumnInv => LapsedIsCandidate
    BY DEF Inv, TypeOK, States, LiveStates, StampInv, ColumnInv, LapsedIsCandidate,
           TerminalStates, Reapable, HasRows
  <1>3. Inv => TypeOK
    BY DEF Inv
  <1> QED
    BY <1>1, <1>2, <1>3, ColumnStep, InvCorrect, PTL DEF Spec
=============================================================================
