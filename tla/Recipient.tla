----------------------------- MODULE Recipient -----------------------------
(***************************************************************************)
(* The page of a share link: apps/web/src/app/s/[id]/page.tsx, the Decrypt *)
(* and Preview components and lib/download.ts, against a gateway and an    *)
(* ingest service that may fail, answer late, report a wrong chunk count   *)
(* or hand out wrong bytes.  One action per await of downloadFile; the     *)
(* calls of startDownload that run at the same time are the elements of    *)
(* Attempts, and a finished one is free to be used again.                  *)
(***************************************************************************)
EXTENDS SealedShare, FiniteSets

CONSTANTS
    Attempts,       \* calls of startDownload in flight at the same time
    MaxReported     \* largest chunk count a gateway reports

ASSUME MaxReportedAssumption == MaxReported \in Nat \ {0}

NoAttempt == "no attempt"

\* MIME types and extensions as far as the preview tells them apart.
Mimes == {"image", "pdf", "markdown", "text", "json", "xml", "octet"}
Extensions == {"md", "txt", "csv", "other"}
FileKinds == Mimes \X Extensions
UnknownKind == <<"unknown", "unknown">>

\* The preview: what it shows, and whether it is reading the file.
Panes == [content : {"none", "loading", "shown", "unavailable"}, reading : BOOLEAN]
NoPane == [content |-> "none", reading |-> FALSE]

UiKinds == {"ready", "deriving", "busy", "done", "error"}
Passwords == {"empty", "right", "wrong"}

VARIABLES
    share,          \* the options of the share: password, burn, legacy
    urlKey,         \* the fragment of the link: "good", "other" or "none"
    fileKind,       \* type of the file, known once the metadata is open
    page,           \* status of the page; "gone" when it is left
    ui,             \* state of the Decrypt component
    typed,          \* the password field
    passwordError,  \* the hint under the password field
    pc,             \* per attempt: where downloadFile stands
    pw,             \* per attempt: the password it was called with
    total,          \* per attempt: the chunk count of the descriptor
    got,            \* per attempt: the chunks decrypted so far
    handedOff,      \* per attempt: derivedHandedOff
    aborted,        \* per attempt: its AbortController has fired
    disk,           \* what the last save wrote; <<>> when nothing was saved
    redeemed,       \* chunks whose delivery the ingest service has recorded
    reported        \* POST /downloaded was sent

shareVars == <<share, urlKey>>
attemptVars == <<pc, pw, total, got, handedOff, aborted>>
vars == <<share, urlKey, fileKind, page, ui, typed, passwordError, pc, pw,
          total, got, handedOff, aborted, disk, redeemed, reported>>

Files == UNION {[1 .. n -> Indices] : n \in 0 .. MaxReported}

TypeOK ==
    /\ share \in [password : BOOLEAN, burn : BOOLEAN, legacy : BOOLEAN]
    /\ urlKey \in {"good", "other", "none"}
    /\ fileKind \in FileKinds \cup {UnknownKind}
    /\ page \in {"loading", "missing-key", "error", "ready", "gone"}
    /\ ui \in [kind : UiKinds, by : Attempts \cup {NoAttempt},
               saved : BOOLEAN, blob : Files, pane : Panes]
    /\ typed \in Passwords
    /\ passwordError \in {"none", "required", "wrong"}
    /\ pc \in [Attempts -> {"idle", "meta", "chunk", "fetching"}]
    /\ pw \in [Attempts -> Passwords]
    /\ total \in [Attempts -> 0 .. MaxReported]
    /\ got \in [Attempts -> Files]
    /\ handedOff \in [Attempts -> BOOLEAN]
    /\ aborted \in [Attempts -> BOOLEAN]
    /\ disk \in Files
    /\ redeemed \subseteq Indices
    /\ reported \in BOOLEAN

Ui(kind, by, saved, blob, pane) ==
    [kind |-> kind, by |-> by, saved |-> saved, blob |-> blob, pane |-> pane]
Plain(kind) == Ui(kind, NoAttempt, FALSE, <<>>, NoPane)

Init ==
    /\ share \in [password : BOOLEAN, burn : BOOLEAN, legacy : BOOLEAN]
    /\ urlKey \in {"good", "other", "none"}
    /\ fileKind = UnknownKind
    /\ page = "loading"
    /\ ui = Plain("ready")
    /\ typed = "empty"
    /\ passwordError = "none"
    /\ pc = [a \in Attempts |-> "idle"]
    /\ pw = [a \in Attempts |-> "empty"]
    /\ total = [a \in Attempts |-> 0]
    /\ got = [a \in Attempts |-> <<>>]
    /\ handedOff = [a \in Attempts |-> FALSE]
    /\ aborted = [a \in Attempts |-> FALSE]
    /\ disk = <<>>
    /\ redeemed = {}
    /\ reported = FALSE

-----------------------------------------------------------------------------
(* The page: the key comes from the fragment before anything is fetched,   *)
(* and an answer that arrives after the page was left is dropped.          *)

KeyInLink == urlKey # "none"

LoadPage ==
    /\ page = "loading"
    /\ page' \in IF KeyInLink THEN {"ready", "error"} ELSE {"missing-key"}
    /\ UNCHANGED <<shareVars, fileKind, ui, typed, passwordError, attemptVars,
                   disk, redeemed, reported>>

\* Nothing aborts the attempts of a page that is left.
Leave ==
    /\ page \in {"loading", "ready", "error", "missing-key"}
    /\ page' = "gone"
    /\ UNCHANGED <<shareVars, fileKind, ui, typed, passwordError, attemptVars,
                   disk, redeemed, reported>>

\* setState of a component that is no longer mounted changes nothing.
SetUi(new) == ui' = IF page = "gone" THEN ui ELSE new

-----------------------------------------------------------------------------
(* The buttons of the Decrypt component, which the page renders when it    *)
(* has both key and descriptor.                                            *)

DecryptShown == page = "ready"

TypePassword(p) ==
    /\ DecryptShown /\ ui.kind = "ready"
    /\ share.password
    /\ typed' = p
    /\ passwordError' = "none"
    /\ UNCHANGED <<shareVars, fileKind, page, ui, attemptVars, disk, redeemed,
                   reported>>

PasswordMissing ==
    /\ DecryptShown /\ ui.kind = "ready"
    /\ share.password /\ typed = "empty"
    /\ passwordError' = "required"
    /\ UNCHANGED <<shareVars, fileKind, page, ui, typed, attemptVars, disk,
                   redeemed, reported>>

\* Mutant of AfterStart: the form stays on screen while the key is derived.
AfterStartForm == ui

\* Only a share with a password leaves the form before its first chunk.
AfterStart == IF share.password THEN Plain("deriving") ELSE ui

StartDownload(a) ==
    /\ DecryptShown /\ ui.kind = "ready"
    /\ share.password => typed # "empty"
    /\ pc[a] = "idle"
    /\ pc' = [pc EXCEPT ![a] = "meta"]
    /\ pw' = [pw EXCEPT ![a] = typed]
    /\ passwordError' = "none"
    /\ ui' = AfterStart
    /\ UNCHANGED <<shareVars, fileKind, page, typed, total, got, handedOff,
                   aborted, disk, redeemed, reported>>

Cancel ==
    /\ DecryptShown /\ ui.kind = "busy"
    /\ aborted' = [aborted EXCEPT ![ui.by] = pc[ui.by] # "idle"]
    /\ UNCHANGED <<shareVars, fileKind, page, ui, typed, passwordError, pc, pw,
                   total, got, handedOff, disk, redeemed, reported>>

\* The button below the file: the first or another save.
SaveOffered == DecryptShown /\ ui.kind = "done"

DownloadAgain ==
    /\ SaveOffered
    /\ disk' = ui.blob
    /\ ui' = Ui(ui.kind, ui.by, TRUE, ui.blob, NoPane)
    /\ UNCHANGED <<shareVars, fileKind, page, typed, passwordError, attemptVars,
                   redeemed, reported>>

TryAgain ==
    /\ DecryptShown /\ ui.kind = "error"
    /\ ui' = Plain("ready")
    /\ UNCHANGED <<shareVars, fileKind, page, typed, passwordError, attemptVars,
                   disk, redeemed, reported>>

-----------------------------------------------------------------------------
(* downloadFile.                                                           *)

\* The attempt is over and its slot is free.
Ended(a) ==
    /\ pc' = [pc EXCEPT ![a] = "idle"]
    /\ pw' = [pw EXCEPT ![a] = "empty"]
    /\ total' = [total EXCEPT ![a] = 0]
    /\ got' = [got EXCEPT ![a] = <<>>]
    /\ handedOff' = [handedOff EXCEPT ![a] = FALSE]
    /\ aborted' = [aborted EXCEPT ![a] = FALSE]

\* Mutant of AfterFailure: a cancelled download returns without a state.
AfterFailureSilentCancel(code) ==
    CASE code = "cancelled" -> ui
      [] code \in {"wrong_password", "password_required"} -> Plain("ready")
      [] OTHER -> Plain("error")

AfterFailure(code) ==
    IF code \in {"cancelled", "wrong_password", "password_required"}
    THEN Plain("ready") ELSE Plain("error")

\* The catch block of startDownload.
Fail(a, code) ==
    /\ Ended(a)
    /\ SetUi(AfterFailure(code))
    /\ passwordError' = IF page = "gone" THEN passwordError
                        ELSE CASE code = "wrong_password" -> "wrong"
                               [] code = "password_required" -> "required"
                               [] OTHER -> passwordError
    /\ UNCHANGED <<shareVars, fileKind, page, typed, disk, reported>>

KeyOf(a) == DeriveAeadKey(urlKey, IF share.password THEN pw[a] ELSE "none")

Meta == SealedMeta(share.password, share.legacy)

\* GET /api/shares/:id fails, its salt is malformed, or it asks for a password of
\* which the page knew nothing when it was loaded.
DescriptorFails(a) ==
    /\ pc[a] = "meta"
    /\ \E code \in {"share_not_found"} \cup (IF share.password THEN {"metadata", "unknown"}
                                            ELSE {"password_required"}) :
           Fail(a, code)
    /\ UNCHANGED redeemed

\* Mutant of MetaOpens: only the fragment is tried, the password first meets
\* a tag at chunk 0.
MetaOpensFragment(a) == urlKey = "good"

MetaOpens(a) == Opens(Meta, KeyOf(a), BuildChunkAad("meta", 0))

\* The key does not fit, or the bytes the gateway hands out are not the ones
\* that were sealed.
MetaRefused(a) ==
    /\ pc[a] = "meta"
    /\ Fail(a, IF share.password THEN "wrong_password" ELSE "metadata")
    /\ UNCHANGED redeemed

CountSealed(count) == Meta.plain.chunkCount \in {NoCount, count}

CountRefused(a) ==
    /\ pc[a] = "meta"
    /\ MetaOpens(a)
    /\ \E count \in 1 .. MaxReported : ~CountSealed(count)
    /\ Fail(a, "decrypt")
    /\ UNCHANGED redeemed

DescriptorArrives(a) ==
    /\ pc[a] = "meta"
    /\ MetaOpens(a)
    /\ \E count \in 1 .. MaxReported :
           /\ CountSealed(count)
           /\ total' = [total EXCEPT ![a] = count]
    /\ pc' = [pc EXCEPT ![a] = "chunk"]
    /\ UNCHANGED <<shareVars, fileKind, page, ui, typed, passwordError, pw, got,
                   handedOff, aborted, disk, redeemed, reported>>

MoreChunks(a) == Len(got[a]) < total[a]

\* The ingest service has recorded the delivery of the chunk that a fetches.
Redeemed(a) == redeemed \cup ({Len(got[a])} \cap Indices)

\* The loop, or the fetch it waits for, notices the abort; an abort while the
\* body is being read surfaces as an unknown error.  The service may have let
\* bytes go by then.
AbortNoticed(a) ==
    /\ pc[a] \in {"chunk", "fetching"} /\ MoreChunks(a)
    /\ aborted[a]
    /\ \/ Fail(a, "cancelled")
       \/ pc[a] = "fetching" /\ Fail(a, "unknown")
    /\ redeemed' \in {redeemed} \cup (IF pc[a] = "fetching" THEN {Redeemed(a)} ELSE {})

Spent(i) == share.burn /\ i \in redeemed

\* GET /chunk/:id/:i passes the single-use check of the ingest service.
FetchChunk(a) ==
    /\ pc[a] = "chunk" /\ MoreChunks(a) /\ ~aborted[a]
    /\ ~Spent(Len(got[a]))
    /\ pc' = [pc EXCEPT ![a] = "fetching"]
    /\ UNCHANGED <<shareVars, fileKind, page, ui, typed, passwordError, pw,
                   total, got, handedOff, aborted, disk, redeemed, reported>>

ChunkGone(a) ==
    /\ pc[a] = "chunk" /\ MoreChunks(a) /\ ~aborted[a]
    /\ Spent(Len(got[a]))
    /\ Fail(a, "already_used")
    /\ UNCHANGED redeemed

\* Another status, no connection, a nonce header the client cannot use, or a
\* body that is too short or breaks off; the service may have recorded the
\* delivery all the same.
FetchFails(a) ==
    /\ pc[a] = "fetching"
    /\ \E code \in {"transport", "metadata", "decrypt", "unknown"} : Fail(a, code)
    /\ redeemed' \in {redeemed, Redeemed(a)}

\* The token of the link hashes to the commitment in the row of chunk i, which
\* old rows do not have.
TokenAccepted(i) ==
    share.legacy \/ DeriveChunkToken(urlKey, "this", i) = DeriveChunkToken("good", "this", i)

\* The chunk arrives, its delivery is recorded, and it is decrypted in the
\* place it was asked for.
ChunkArrives(a) ==
    /\ pc[a] = "fetching"
    /\ TokenAccepted(Len(got[a]))
    /\ redeemed' = Redeemed(a)
    /\ \E body \in Bodies(share.password) :
        LET i == Len(got[a])
            aad == BuildChunkAad("this", i)
        IN  \/ /\ Opens(body, KeyOf(a), aad)
               /\ got' = [got EXCEPT ![a] = Append(got[a], body.plain)]
               /\ pc' = [pc EXCEPT ![a] = "chunk"]
               /\ handedOff' = [handedOff EXCEPT ![a] = TRUE]
               /\ SetUi(IF handedOff[a] THEN ui ELSE Ui("busy", a, FALSE, <<>>, NoPane))
               /\ UNCHANGED <<shareVars, fileKind, page, typed, passwordError, pw,
                              total, aborted, disk, reported>>
            \/ /\ ~Opens(body, KeyOf(a), aad)
               /\ Fail(a, IF share.password /\ i = 0 THEN "wrong_password" ELSE "decrypt")

HashMatches(a) == Meta.plain.fileHash \in {NoHash, HashChunks(got[a])}

-----------------------------------------------------------------------------
(* Preview, and what happens to the decrypted file.                        *)

IsPreviewable(kind) ==
    \/ kind[1] \in {"image", "pdf", "markdown", "text", "json", "xml"}
    \/ kind[2] \in {"md", "txt", "csv"}

\* Mutant of ClassifyPreview: the table extensions are forgotten.
ClassifyPreviewNoTables(kind) ==
    CASE kind[1] = "markdown" \/ kind[2] = "md" -> "markdown"
      [] kind[1] = "image" -> "image"
      [] kind[1] = "pdf" -> "pdf"
      [] kind[1] \in {"text", "json", "xml"} \/ kind[2] = "txt" -> "text"
      [] OTHER -> "none"

\* The pane that Preview renders; markdown wins over every other type.
ClassifyPreview(kind) ==
    CASE kind[1] = "markdown" \/ kind[2] = "md" -> "markdown"
      [] kind[1] = "image" -> "image"
      [] kind[1] = "pdf" -> "pdf"
      [] kind[1] \in {"text", "json", "xml"} \/ kind[2] \in {"txt", "csv"} -> "text"
      [] OTHER -> "none"

\* The panes that Preview opens with: an image or a PDF gets an object URL at
\* once, text is read unless it is too long.  A pane that is there already
\* keeps its content until the new file has been read.
OpenPanes(kind) ==
    CASE ClassifyPreview(kind) = "none" -> {NoPane}
      [] ClassifyPreview(kind) \in {"image", "pdf"} -> {[content |-> "shown", reading |-> FALSE]}
      [] OTHER -> {[content |-> IF ui.pane = NoPane THEN "loading" ELSE ui.pane.content,
                    reading |-> TRUE],
                   [content |-> "unavailable", reading |-> FALSE]}

\* The text, or the notice that there is no preview of it.
AfterRead == {"shown", "unavailable"}

PaneRead ==
    /\ page # "gone" /\ ui.pane.reading
    /\ \E content \in AfterRead :
           ui' = Ui(ui.kind, ui.by, ui.saved, ui.blob, [content |-> content, reading |-> FALSE])
    /\ UNCHANGED <<shareVars, fileKind, page, typed, passwordError, attemptVars,
                   disk, redeemed, reported>>

\* A file that has no preview is saved at once, and the gateway is told.
Deliver(a) ==
    /\ fileKind' \in IF fileKind = UnknownKind THEN FileKinds ELSE {fileKind}
    /\ disk' = IF IsPreviewable(fileKind') THEN disk ELSE got[a]
    /\ \E pane \in IF IsPreviewable(fileKind') THEN OpenPanes(fileKind') ELSE {NoPane} :
           SetUi(Ui("done", NoAttempt, ~IsPreviewable(fileKind'), got[a], pane))
    /\ reported' = TRUE
    /\ Ended(a)
    /\ UNCHANGED <<shareVars, page, typed, passwordError>>

\* Every chunk is there: the hash of the whole decides.
Assemble(a) ==
    /\ pc[a] = "chunk" /\ ~MoreChunks(a)
    /\ IF HashMatches(a) THEN Deliver(a) ELSE Fail(a, "decrypt")
    /\ UNCHANGED redeemed

-----------------------------------------------------------------------------
AttemptNext(a) ==
    \/ DescriptorFails(a) \/ MetaRefused(a) \/ CountRefused(a)
    \/ DescriptorArrives(a) \/ AbortNoticed(a) \/ FetchChunk(a) \/ ChunkGone(a)
    \/ FetchFails(a) \/ ChunkArrives(a) \/ Assemble(a)

UserNext ==
    \/ \E p \in Passwords : TypePassword(p)
    \/ PasswordMissing
    \/ \E a \in Attempts : StartDownload(a)
    \/ Cancel \/ DownloadAgain \/ TryAgain \/ Leave

Next == LoadPage \/ UserNext \/ PaneRead \/ \E a \in Attempts : AttemptNext(a)

\* Every fetch settles, and what waits for it runs; the user owes nothing.
Fairness == \A a \in Attempts : WF_vars(AttemptNext(a))

Spec == Init /\ [][Next]_vars /\ Fairness

-----------------------------------------------------------------------------
(* Properties.                                                             *)

\* A file the page shows or has saved is the file that was sealed, whatever
\* order, number and origin of chunks the servers come up with; a legacy share
\* without sealed hash and count may lose its tail and nothing else.
Genuine(blob) ==
    /\ Len(blob) <= ChunkCount
    /\ blob = SubSeq(File, 1, Len(blob))
    /\ share.legacy \/ blob = <<>> \/ blob = File

FilesGenuine == Genuine(disk) /\ Genuine(ui.blob)

\* The ingest service is asked for a chunk only by an attempt whose key opened
\* the metadata, so a mistyped password or a truncated link never uses up a
\* burn-after-read share.
MistypeCostsNothing ==
    \A a \in Attempts : pc[a] = "fetching" => KeyOf(a) = SealingKey(share.password)

\* A file that is kept in memory only has a preview pane: the test that decides not
\* to save it and the one that picks the pane agree on every type.  What the pane
\* shows of it is another matter; of a text above 1 MiB it shows a notice.
UnsavedIsShown ==
    ui.kind = "done" /\ ~ui.saved => ClassifyPreview(fileKind) # "none"

\* With a password, a decrypted file stays available until the page is left:
\* no other attempt is running that could replace it by its own outcome.
DoneIsKept ==
    [][share.password /\ ui.kind = "done" => ui'.kind = "done"]_vars

\* The progress bar goes away: every attempt the component shows ends in the
\* form, the file or an error, cancelled or not.
DownloadSettles ==
    ui.kind \in {"deriving", "busy"} ~> (page = "gone" \/ ui.kind \in {"ready", "done", "error"})
=============================================================================
