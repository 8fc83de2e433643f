------------------------------- MODULE Sender -------------------------------
(***************************************************************************)
(* The sending side of apps/web: the form (UploadDrop), the archive helper *)
(* it packs folders with, uploadFile, the card with the link (ShareLink),  *)
(* the registry of revoke tokens in localStorage (lib/myShares.ts) and the *)
(* dashboard (my-shares/page.tsx), possibly open in another tab.           *)
(*                                                                         *)
(* The form stays usable while files are being packed, so two uploads may  *)
(* run at once and the options may change behind a running one.  Every     *)
(* upload creates at most one share, which bears its name.  The lifetime   *)
(* picked on the form matters for the request alone and is chosen there.   *)
(***************************************************************************)
EXTENDS ShareRequest, FiniteSets

CONSTANTS
    Uploads,        \* files or folders the sender drops
    Choices,        \* settings of the form the sender tries
    Sizes,          \* their sizes
    ZipOverhead,    \* what packing adds to the size
    Skews           \* clock differences between sender and gateway

Options == [burn : BOOLEAN, password : {"off", "short", "good"}]

ASSUME SenderAssumption ==
    /\ Choices \subseteq Options
    /\ Sizes \subseteq Nat
    /\ ZipOverhead \in Nat
    /\ Skews \subseteq Int

NoUpload == "no upload"

ASSUME NamesAssumption == Uploads \cap {NoUpload, "row", "closed"} = {}

NoOptions == [burn |-> FALSE, password |-> "off"]
Flags(o) == [burn |-> o.burn, protected |-> o.password # "off"]

VARIABLES
    env,        \* patient sender? localStorage usable?
    home,       \* the page with the form is open
    form,       \* the options on the form
    ui,         \* state of UploadDrop: its kind and the upload it shows
    card,       \* the mounted ShareLink: the upload that mounted it, its button
    pc,         \* per upload: how far startUpload has come
    size,       \* per upload: size of the file until the share is created
    opts,       \* per upload: the options it was started with
    left,       \* per upload: chunks still to send
    aborted,    \* per upload: its AbortController has fired
    orphans,    \* running uploads whose form is no longer mounted
    stored,     \* registry: shares whose revoke token is in localStorage
    entry,      \* registry: the flags recorded for a share
    dash,       \* the dashboard: whether it is open, the rows in it
    row,        \* dashboard: state of the row of a share
    revoking,   \* revocations in flight: share, and the card or row that asked
    server,     \* state of the share at the gateway
    expired,    \* entries whose lifetime is over by the sender's clock
    forgotten   \* entries removed by the sender, or for being expired

uploadVars == <<pc, size, opts, left, aborted, orphans>>
registryVars == <<stored, entry, expired>>
dashVars == <<dash, row>>
vars == <<env, home, form, ui, card, pc, size, opts, left, aborted, orphans, stored,
          entry, expired, dash, row, revoking, server, forgotten>>

Closed == [open |-> FALSE, rows |-> {}]
NoCard == [by |-> NoUpload, revoke |-> "active"]
Idle == [kind |-> "idle", by |-> NoUpload]

\* The upload is over without a link ("void"), with one on screen ("shown") or
\* with one that no mounted form received ("lost").
Pcs == {"fresh", "packing", "creating", "sending", "void", "shown", "lost"}
Running == {"packing", "creating", "sending"}

TypeOK ==
    /\ env \in [patient : BOOLEAN, storage : BOOLEAN]
    /\ home \in BOOLEAN
    /\ form \in Options
    /\ ui \in [kind : {"idle", "uploading", "done", "error"},
               by : Uploads \cup {NoUpload}]
    /\ card \in [by : Uploads \cup {NoUpload}, revoke : {"active", "revoking", "revoked"}]
    /\ pc \in [Uploads -> Pcs]
    /\ size \in [Uploads -> {0} \cup Sizes \cup {s + ZipOverhead : s \in Sizes}]
    /\ opts \in [Uploads -> Options]
    /\ left \in [Uploads -> 0 .. CeilChunks(MaxFile)]
    /\ aborted \in [Uploads -> BOOLEAN]
    /\ orphans \subseteq Uploads
    /\ stored \subseteq Uploads
    /\ entry \in [Uploads -> [burn : BOOLEAN, protected : BOOLEAN]]
    /\ dash \in [open : BOOLEAN, rows : SUBSET Uploads]
    /\ row \in [Uploads -> {"idle", "revoking", "revoked"}]
    /\ revoking \subseteq Uploads \X (Uploads \cup {"row", "closed"})
    /\ server \in [Uploads -> {"none", "live", "destroyed"}]
    /\ expired \subseteq Uploads
    /\ forgotten \subseteq Uploads

Init ==
    /\ env \in [patient : BOOLEAN, storage : BOOLEAN]
    /\ home = TRUE
    /\ form = NoOptions
    /\ ui = Idle
    /\ card = NoCard
    /\ pc = [u \in Uploads |-> "fresh"]
    /\ size = [u \in Uploads |-> 0]
    /\ opts = [u \in Uploads |-> NoOptions]
    /\ left = [u \in Uploads |-> 0]
    /\ aborted = [u \in Uploads |-> FALSE]
    /\ orphans = {}
    /\ stored = {}
    /\ entry = [u \in Uploads |-> Flags(NoOptions)]
    /\ dash = Closed
    /\ row = [u \in Uploads |-> "idle"]
    /\ revoking = {}
    /\ server = [u \in Uploads |-> "none"]
    /\ expired = {}
    /\ forgotten = {}

-----------------------------------------------------------------------------
(* The form.                                                               *)

Quiet == \A u \in Uploads : pc[u] \notin Running

\* The dropzone, the pickers and the controls work unless an upload is shown.
FormEnabled == home /\ ui.kind \in {"idle", "error"}

\* A patient sender leaves the form alone while something is under way.
Usable == FormEnabled /\ (env.patient => Quiet)

SetOptions(o) ==
    /\ Usable
    /\ form' = o
    /\ UNCHANGED <<env, home, ui, card, uploadVars, registryVars, dashVars,
                   revoking, server, forgotten>>

\* setState of UploadDrop, unless the form of the upload is unmounted; the card
\* is there in state "done" alone.
Show(kind, u) ==
    IF u \in orphans THEN UNCHANGED <<ui, card>>
    ELSE /\ ui' = [kind |-> kind, by |-> IF kind \in {"uploading", "done"} THEN u ELSE NoUpload]
         /\ card' = IF kind = "done" THEN card ELSE NoCard

\* startUpload(file) up to the call of uploadFile; a refused file leaves the
\* form as it is.
StartUpload(u, s, o) ==
    IF ClientAccepts(s) /\ o.password # "short"
    THEN /\ pc' = [pc EXCEPT ![u] = "creating"]
         /\ size' = [size EXCEPT ![u] = s]
         /\ opts' = [opts EXCEPT ![u] = o]
         /\ orphans' = orphans
         /\ Show("uploading", u)
    ELSE /\ pc' = [pc EXCEPT ![u] = "void"]
         /\ size' = [size EXCEPT ![u] = 0]
         /\ opts' = [opts EXCEPT ![u] = NoOptions]
         /\ orphans' = orphans \ {u}
         /\ UNCHANGED <<ui, card>>

\* One file: drop, pick or paste start the upload at once.
DropFile(u, s) ==
    /\ Usable
    /\ pc[u] = "fresh"
    /\ StartUpload(u, s, form)
    /\ UNCHANGED <<env, home, form, left, aborted, registryVars, dashVars,
                   revoking, server, forgotten>>

\* Several files or a folder: packFiles reads them first.  The handler keeps
\* the options of the render it belongs to.
DropFolder(u, s) ==
    /\ Usable
    /\ pc[u] = "fresh"
    /\ pc' = [pc EXCEPT ![u] = "packing"]
    /\ size' = [size EXCEPT ![u] = s]
    /\ opts' = [opts EXCEPT ![u] = form]
    /\ UNCHANGED <<env, home, form, ui, card, left, aborted, orphans, registryVars,
                   dashVars, revoking, server, forgotten>>

\* packFiles refuses: no files, too much in total, a double or forbidden path,
\* a file that cannot be read.
PackRefused(u) ==
    /\ pc[u] = "packing"
    /\ pc' = [pc EXCEPT ![u] = "void"]
    /\ size' = [size EXCEPT ![u] = 0]
    /\ opts' = [opts EXCEPT ![u] = NoOptions]
    /\ orphans' = orphans \ {u}
    /\ UNCHANGED <<env, home, form, ui, card, left, aborted, registryVars,
                   dashVars, revoking, server, forgotten>>

Packed(u) ==
    /\ pc[u] = "packing"
    /\ size[u] <= MaxFile
    /\ StartUpload(u, size[u] + ZipOverhead, opts[u])
    /\ UNCHANGED <<env, home, form, left, aborted, registryVars,
                   dashVars, revoking, server, forgotten>>

\* The progress panel, with its button.
CancelOffered == home /\ ui.kind = "uploading"

Cancel ==
    /\ CancelOffered
    /\ aborted' = [aborted EXCEPT ![ui.by] = pc[ui.by] \in Running]
    /\ UNCHANGED <<env, home, form, ui, card, pc, size, opts, left, orphans,
                   registryVars, dashVars, revoking, server, forgotten>>

-----------------------------------------------------------------------------
(* uploadFile, and what startUpload does with its outcome.                 *)

\* Mutant of UploadFails: a cancelled upload returns without a state.
UploadFailsSilentCancel(u, kind) ==
    /\ pc' = [pc EXCEPT ![u] = "void"]
    /\ size' = [size EXCEPT ![u] = 0]
    /\ opts' = [opts EXCEPT ![u] = NoOptions]
    /\ left' = [left EXCEPT ![u] = 0]
    /\ aborted' = [aborted EXCEPT ![u] = FALSE]
    /\ orphans' = orphans \ {u}
    /\ IF kind = "idle" THEN UNCHANGED <<ui, card>> ELSE Show(kind, u)
    /\ UNCHANGED <<env, home, form, registryVars, dashVars, revoking, forgotten>>

\* The catch block: a cancelled upload returns to the form, the rest shows an
\* error, whichever upload the form shows by now.
UploadFails(u, kind) ==
    /\ pc' = [pc EXCEPT ![u] = "void"]
    /\ size' = [size EXCEPT ![u] = 0]
    /\ opts' = [opts EXCEPT ![u] = NoOptions]
    /\ left' = [left EXCEPT ![u] = 0]
    /\ aborted' = [aborted EXCEPT ![u] = FALSE]
    /\ orphans' = orphans \ {u}
    /\ Show(kind, u)
    /\ UNCHANGED <<env, home, form, registryVars, dashVars, revoking, forgotten>>

Request(u, minutes, skew) ==
    CreateRequest(size[u], minutes, opts[u].password # "off", skew)

Accepted(u) ==
    \E minutes \in ExpiryOptions, skew \in Skews : SchemaAccepts(Request(u, minutes, skew))

\* POST /api/shares inserts the row and its answer arrives.
Created(u) ==
    /\ pc[u] = "creating"
    /\ Accepted(u)
    /\ server' = [server EXCEPT ![u] = "live"]
    /\ pc' = [pc EXCEPT ![u] = "sending"]
    /\ left' = [left EXCEPT ![u] = CeilChunks(size[u])]
    /\ size' = [size EXCEPT ![u] = 0]
    /\ UNCHANGED <<env, home, form, ui, card, opts, aborted, orphans, registryVars,
                   dashVars, revoking, forgotten>>

\* The gateway is not reached, refuses or fails, or its answer is lost: then a
\* row without chunks stays behind that nobody can name.
CreateFails(u) ==
    /\ pc[u] = "creating"
    /\ UploadFails(u, "error")
    /\ UNCHANGED server

\* The loop stops at the next chunk, or the running PUT is aborted.
AbortNoticed(u) ==
    /\ pc[u] = "sending" /\ left[u] > 0
    /\ aborted[u]
    /\ UploadFails(u, "idle")
    /\ UNCHANGED server

ChunkSent(u) ==
    /\ pc[u] = "sending" /\ left[u] > 0
    /\ ~aborted[u]
    /\ left' = [left EXCEPT ![u] = @ - 1]
    /\ UNCHANGED <<env, home, form, ui, card, pc, size, opts, aborted, orphans,
                   registryVars, dashVars, revoking, server, forgotten>>

ChunkFails(u) ==
    /\ pc[u] = "sending" /\ left[u] > 0
    /\ ~aborted[u]
    /\ UploadFails(u, "error")
    /\ UNCHANGED server

\* addShare reads the registry, drops an entry of the same id and writes back;
\* a write that localStorage refuses is swallowed.
AddShare(u, flags) ==
    IF env.storage
    THEN /\ stored' = stored \cup {u}
         /\ entry' = [entry EXCEPT ![u] = flags]
         /\ expired' = expired
    ELSE UNCHANGED registryVars

\* Mutant of MountCard: the card is not given the options.
MountCardDefaults(u) ==
    /\ card' = [by |-> u, revoke |-> "active"]
    /\ AddShare(u, Flags(NoOptions))

\* ShareLink appears; its effect runs once per mount, with the options that the
\* form holds now.
MountCard(u) ==
    /\ card' = [by |-> u, revoke |-> "active"]
    /\ AddShare(u, Flags(form))

\* All chunks are acknowledged: the link and the token reach the form, if it is
\* still there.  A card that is already mounted only gets new properties.
LinkReady(u) ==
    /\ pc[u] = "sending" /\ left[u] = 0
    /\ aborted' = [aborted EXCEPT ![u] = FALSE]
    /\ orphans' = orphans \ {u}
    /\ IF u \in orphans
       THEN /\ pc' = [pc EXCEPT ![u] = "lost"]
            /\ opts' = [opts EXCEPT ![u] = NoOptions]
            /\ UNCHANGED <<ui, card, registryVars>>
       ELSE /\ pc' = [pc EXCEPT ![u] = "shown"]
            /\ ui' = [kind |-> "done", by |-> u]
            /\ opts' = opts
            /\ IF ui.kind = "done" THEN UNCHANGED <<card, registryVars>> ELSE MountCard(u)
    /\ UNCHANGED <<env, home, form, size, left, dashVars, revoking,
                   server, forgotten>>

-----------------------------------------------------------------------------
(* The card.                                                               *)

SendAnother ==
    /\ home /\ ui.kind = "done"
    /\ ui' = Idle
    /\ card' = NoCard
    /\ UNCHANGED <<env, home, form, uploadVars, registryVars, dashVars, revoking,
                   server, forgotten>>

\* The button is disabled while a revocation runs and after it.
RevokeOffered == home /\ ui.kind = "done" /\ card.revoke = "active"

\* The request leaves with the id and token of the link the card shows.
CardRevoke ==
    /\ RevokeOffered
    /\ card' = [by |-> card.by, revoke |-> "revoking"]
    /\ revoking' = revoking \cup {<<ui.by, card.by>>}
    /\ UNCHANGED <<env, home, form, ui, uploadVars, registryVars, dashVars,
                   server, forgotten>>

\* Mutant of SetButton: the answer is shown on the card that is mounted now.
SetButtonAnyCard(c, state) ==
    card' = IF card.by # NoUpload /\ c \in Uploads THEN [by |-> card.by, revoke |-> state] ELSE card

\* setRevokeState reaches only the card that asked, and only while mounted.
SetButton(c, state) ==
    card' = IF card.by = c THEN [by |-> card.by, revoke |-> state] ELSE card

\* The row of the dashboard, when the answer belongs to one.
SetRow(u, c, state) ==
    row' = IF c = "row" THEN [row EXCEPT ![u] = state] ELSE row

RemoveShare(u) ==
    /\ stored' = stored \ {u}
    /\ entry' = [entry EXCEPT ![u] = Flags(NoOptions)]
    /\ expired' = expired \ {u}

\* POST /destroy is answered: the share is destroyed, or was before, and the
\* entry goes.
RevokeDone(r) ==
    /\ r \in revoking
    /\ server' = [server EXCEPT ![r[1]] = "destroyed"]
    /\ RemoveShare(r[1])
    /\ SetButton(r[2], "revoked")
    /\ SetRow(r[1], r[2], "revoked")
    /\ revoking' = revoking \ {r}
    /\ UNCHANGED <<env, home, form, ui, uploadVars, dash, forgotten>>

\* The call fails, perhaps after the gateway has destroyed the share; the entry
\* and its token stay.
RevokeFails(r) ==
    /\ r \in revoking
    /\ server' \in {server, [server EXCEPT ![r[1]] = "destroyed"]}
    /\ SetButton(r[2], "active")
    /\ SetRow(r[1], r[2], "idle")
    /\ revoking' = revoking \ {r}
    /\ UNCHANGED <<env, home, form, ui, uploadVars, registryVars, dash,
                   forgotten>>

-----------------------------------------------------------------------------
(* The dashboard.                                                          *)

\* Mutant of PruneExpired: the comparison is the wrong way round.
PruneExpiredInverted == stored \cap expired

PruneExpired == stored \ expired

OpenDashboard ==
    /\ ~dash.open
    /\ dash' = [open |-> TRUE, rows |-> PruneExpired]
    /\ stored' = PruneExpired
    /\ entry' = [u \in Uploads |-> IF u \in PruneExpired THEN entry[u] ELSE Flags(NoOptions)]
    /\ expired' = {}
    /\ forgotten' = forgotten \cup expired
    /\ UNCHANGED <<env, home, form, ui, card, uploadVars, row, revoking, server>>

\* The answers that are still out will find no row.
CloseDashboard ==
    /\ dash.open
    /\ dash' = Closed
    /\ row' = [u \in Uploads |-> "idle"]
    /\ revoking' = {<<r[1], IF r[2] = "row" THEN "closed" ELSE r[2]>> : r \in revoking}
    /\ UNCHANGED <<env, home, form, ui, card, uploadVars, registryVars, server,
                   forgotten>>

Listed(u) == u \in dash.rows /\ row[u] = "idle"

RowRevoke(u) ==
    /\ Listed(u)
    /\ row' = [row EXCEPT ![u] = "revoking"]
    /\ revoking' = revoking \cup {<<u, "row">>}
    /\ UNCHANGED <<env, home, form, ui, card, uploadVars, registryVars, dash,
                   server, forgotten>>

RowRemove(u) ==
    /\ Listed(u)
    /\ dash' = [open |-> dash.open, rows |-> dash.rows \ {u}]
    /\ RemoveShare(u)
    /\ forgotten' = forgotten \cup {u}
    /\ UNCHANGED <<env, home, form, ui, card, uploadVars, row, revoking,
                   server>>

-----------------------------------------------------------------------------
\* The sender goes to another page and comes back to a new form; a running
\* upload is not aborted.
LeaveHome ==
    /\ home
    /\ home' = FALSE
    /\ ui' = Idle
    /\ card' = NoCard
    /\ form' = NoOptions
    /\ orphans' = {u \in Uploads : pc[u] \in Running}
    /\ UNCHANGED <<env, pc, size, opts, left, aborted, registryVars, dashVars, revoking, server,
                   forgotten>>

ReturnHome ==
    /\ ~home
    /\ home' = TRUE
    /\ UNCHANGED <<env, form, ui, card, uploadVars, registryVars, dashVars,
                   revoking, server, forgotten>>

Expire(u) ==
    /\ u \in stored \ expired
    /\ expired' = expired \cup {u}
    /\ UNCHANGED <<env, home, form, ui, card, uploadVars, stored, entry, dashVars,
                   revoking, server, forgotten>>

UploadNext(u) ==
    \/ PackRefused(u) \/ Packed(u) \/ Created(u) \/ CreateFails(u)
    \/ AbortNoticed(u) \/ ChunkSent(u) \/ ChunkFails(u) \/ LinkReady(u)

SenderNext ==
    \/ \E o \in Choices : SetOptions(o)
    \/ \E u \in Uploads, s \in Sizes : DropFile(u, s) \/ DropFolder(u, s)
    \/ Cancel \/ SendAnother \/ CardRevoke \/ LeaveHome \/ ReturnHome
    \/ OpenDashboard \/ CloseDashboard
    \/ \E u \in Uploads : RowRevoke(u) \/ RowRemove(u)

Next ==
    \/ SenderNext
    \/ \E u \in Uploads : UploadNext(u) \/ Expire(u)
    \/ \E r \in revoking : RevokeDone(r) \/ RevokeFails(r)

\* Every request settles; the sender owes nothing.
Fairness == \A u \in Uploads : WF_vars(UploadNext(u))

Spec == Init /\ [][Next]_vars /\ Fairness

-----------------------------------------------------------------------------
(* Properties.                                                             *)

\* A sender who waits for one upload before touching the form again can revoke
\* what this browser shared: every link that was shown has its token in the
\* registry as long as the share is alive, unless the sender removed it.
TokenHeld ==
    env.patient /\ env.storage =>
        \A u \in Uploads :
            pc[u] = "shown" /\ server[u] = "live" /\ u \notin forgotten
                => u \in stored

\* What ShareLink.tsx says of a card that gets the properties of another share:
\* the token of every link shown is stored, whatever the sender does meanwhile.
TokenStored ==
    env.storage =>
        \A u \in Uploads :
            pc[u] = "shown" /\ server[u] = "live" /\ u \notin forgotten
                => u \in stored

\* The badges of the dashboard are those of the share as it was created, for a
\* sender who leaves the options alone while files are packed; one who changes them
\* meanwhile gets the badges of the form.
EntryTruthful ==
    env.patient => \A u \in stored : entry[u] = Flags(opts[u])

\* "Revoked" on the card of a patient sender, or in a row of anyone's, is said
\* of a share the gateway no longer serves.
RevokedPillTrue ==
    /\ env.patient /\ ui.kind = "done" /\ card.revoke = "revoked"
           => \A late \in BOOLEAN : ~DescriptorServed(server[ui.by], late)
    /\ \A u \in Uploads : row[u] = "revoked"
           => \A late \in BOOLEAN : ~DescriptorServed(server[u], late)

\* Whatever the form lets through, the schema of the gateway accepts.
CapAccepted ==
    \A u \in Uploads : pc[u] = "creating"
        => \A minutes \in ExpiryOptions, skew \in Skews :
               SchemaAccepts(Request(u, minutes, skew))

\* What the form lets through and the schema of the gateway refuses is the part of
\* the cap that does not hold a whole chunk: up to the last whole one every size is
\* accepted, whatever the lifetime, the password and the clocks.
CapExact ==
    \A u \in Uploads : pc[u] = "creating"
        => \A minutes \in ExpiryOptions, skew \in Skews :
               SchemaAccepts(Request(u, minutes, skew))
                   <=> size[u] <= (MaxFile \div ChunkSize) * ChunkSize

\* The progress panel goes away: an upload it shows ends in the form, the card
\* or an error, cancelled or not.
UploadSettles == ui.kind = "uploading" ~> ui.kind # "uploading"
=============================================================================
