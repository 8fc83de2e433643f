----------------------------- MODULE WebUpload -----------------------------
(***************************************************************************)
(* ShareLifecycle driven by the one uploader the repository ships, the     *)
(* browser of apps/web/src/lib/upload.ts.  Its loop sends the chunks in    *)
(* order, waits for each 201, repeats nothing and gives up at the first    *)
(* failure; the share link and the revoke token leave the function only    *)
(* when the loop has ended, so nobody can revoke the share or report a     *)
(* download of it before that.  GETs stay unrestricted.                    *)
(***************************************************************************)
EXTENDS ShareLifecycle

ASSUME ChunksOrdered == Chunks \subseteq Nat

Acked(c) == \E q \in Puts : putPc[q] = "done" /\ putChunk[q] = c

\* Mutants of UploadNext: a chunk that takes long is sent again; a window of
\* parallel chunks instead of one at a time.
UploadNextResend(p, c) ==
    /\ PutStart(p, c)
    /\ \A b \in Chunks : b < c => Acked(b)

UploadNextParallel(p, c) ==
    /\ PutStart(p, c)
    /\ \A q \in Puts : putPc[q] # "idle" => putChunk[q] # c

\* The next iteration of the loop.
UploadNext(p, c) ==
    /\ PutStart(p, c)
    /\ \A q \in Puts : putPc[q] \in {"idle", "done"}
    /\ \A q \in Puts : putPc[q] # "idle" => putChunk[q] # c
    /\ \A b \in Chunks : b < c => Acked(b)

\* uploadFile has returned the link and the token.
LinkPublished == \A c \in Chunks : Acked(c)

WebClientNext ==
    \/ CreateShare
    \/ \E p \in Puts, c \in Chunks : UploadNext(p, c)
    \/ \E g \in Gets, c \in Chunks : GetShare(g, c)
    \/ \E d \in Revokes : LinkPublished /\ RevokeSelect(d)
    \/ \E w \in Reports : LinkPublished /\ ReportSelect(w)

WebNext == ServerNext \/ WebClientNext

WebSpec == Init /\ [][WebNext]_vars

-----------------------------------------------------------------------------
\* Until the TTL lapses, a share that was burned, revoked or capped is never
\* brought back: the unguarded state updates of the ingest service cannot run
\* after it, because this uploader has no PUT in flight by then.
TerminalForever ==
    [][clock # "after" /\ state \in TerminalStates => state' \in TerminalStates]_vars

\* With no PUT under way, the nonce in a chunk row belongs to the object it
\* names: this uploader never has two PUTs of one chunk, whose object and row
\* the ingest service would write in different orders.
RowMatchesBlob ==
    ~Doomed /\ (\A p \in Puts : putPc[p] \in {"idle", "done", "failed"})
    => \A c \in Chunks : row[c] # None => row[c] = blob[c]

\* The download cap is never overrun, whichever of the burn, the reports and
\* the reaper gets to the row first.
CapRespected == opts.maxDownloads # NoCap => downloadCount <= opts.maxDownloads

\* The share burns once at most, in the ingest service or in the gateway.
SingleBurn == audit["burn_ingest"] + audit["burn_gateway"] <= 1
=============================================================================
