--------------------------- MODULE Sender_proofs ---------------------------
(***************************************************************************)
(* Theorems about Sender, for any number of uploads, any settings of the   *)
(* form and any sizes.  A patient sender has one upload under way at most, *)
(* and as long as the form is mounted it shows that upload and still holds *)
(* the options it was started with; so the card that appears at its end is *)
(* a fresh one, and what it records is true.                               *)
(***************************************************************************)
EXTENDS Sender, TLAPS

\* The types that the argument needs.
Types ==
    /\ pc \in [Uploads -> Pcs]
    /\ size \in [Uploads -> Nat]
    /\ opts \in [Uploads -> Options]
    /\ form \in Options
    /\ orphans \subseteq Uploads
    /\ stored \subseteq Uploads
    /\ dash.rows \subseteq Uploads
    /\ DOMAIN entry = Uploads
    /\ DOMAIN row = Uploads
    /\ DOMAIN server = Uploads

\* How far an upload has come decides what can be known of its share.
StageInv ==
    /\ \A u \in orphans : pc[u] \in Running
    /\ \A u \in Uploads : pc[u] \in {"fresh", "packing", "creating"} => server[u] = "none"
    /\ \A u \in Uploads : pc[u] = "creating" => ClientAccepts(size[u])

\* The registry, the dashboard, the revocations and the card name shares whose
\* link was shown.
ShownInv ==
    /\ \A u \in stored \cup dash.rows : pc[u] = "shown"
    /\ \A r \in revoking : r[1] \in Uploads /\ pc[r[1]] = "shown"
    /\ ui.kind = "done" => ui.by \in Uploads /\ pc[ui.by] = "shown"

RowInv == \A u \in Uploads : row[u] = "revoked" => server[u] = "destroyed"

\* A patient sender: one upload at a time, which the form shows and whose
\* options it holds, until the form is left.
FormInv ==
    env.patient =>
        /\ \A u, v \in Uploads : pc[u] \in Running /\ pc[v] \in Running => u = v
        /\ \A u \in Uploads \ orphans :
              /\ pc[u] \in Running => opts[u] = form
              /\ pc[u] = "packing" => ui.kind \in {"idle", "error"}
              /\ pc[u] \in {"creating", "sending"} => ui.kind = "uploading"

\* The card of a patient sender is the one of the share it shows.
CardInv ==
    env.patient =>
        /\ \A r \in revoking : r[2] \in Uploads => r[1] = r[2]
        /\ ui.kind = "done" =>
              card.by = ui.by /\ (card.revoke = "revoked" => server[ui.by] = "destroyed")

\* The inductive invariant.
Inv ==
    /\ Types /\ StageInv /\ ShownInv /\ RowInv /\ FormInv /\ CardInv
    /\ TokenHeld /\ EntryTruthful

USE DEF uploadVars, registryVars, dashVars

\* startUpload of UploadDrop, whether the file is accepted or refused.
LEMMA StartKeeps ==
  ASSUME Inv, NEW u \in Uploads, NEW s \in Nat, NEW o \in Options,
         pc[u] \in {"fresh", "packing"},
         env.patient => /\ \A v \in Uploads : pc[v] \in Running => v = u
                        /\ u \notin orphans => o = form /\ ui.kind \in {"idle", "error"},
         StartUpload(u, s, o),
         UNCHANGED <<env, form, registryVars, dashVars, revoking, server, forgotten>>
  PROVE  Inv'
  <1> USE DEF Inv, Types
  <1>1. CASE ClientAccepts(s) /\ o.password # "short"
    <2>1. /\ pc' = [pc EXCEPT ![u] = "creating"]
          /\ size' = [size EXCEPT ![u] = s]
          /\ opts' = [opts EXCEPT ![u] = o]
          /\ orphans' = orphans
          /\ u \in orphans => ui' = ui /\ card' = card
          /\ u \notin orphans => ui'.kind = "uploading"
      BY <1>1 DEF StartUpload, Show
    <2>2. Types'
      BY <2>1 DEF Pcs
    <2>3. StageInv'
      BY <1>1, <2>1 DEF StageInv, Running
    <2>4. ShownInv' /\ RowInv'
      BY <2>1 DEF ShownInv, RowInv
    <2>5. FormInv'
      BY <2>1 DEF FormInv, Running
    <2>6. CardInv'
      BY <2>1 DEF CardInv
    <2>7. TokenHeld' /\ EntryTruthful'
      BY <2>1 DEF TokenHeld, EntryTruthful, ShownInv
    <2> QED
      BY <2>2, <2>3, <2>4, <2>5, <2>6, <2>7
  <1>2. CASE ~(ClientAccepts(s) /\ o.password # "short")
    <2>1. /\ pc' = [pc EXCEPT ![u] = "void"]
          /\ size' = [size EXCEPT ![u] = 0]
          /\ opts' = [opts EXCEPT ![u] = NoOptions]
          /\ orphans' = orphans \ {u}
          /\ ui' = ui /\ card' = card
      BY <1>2 DEF StartUpload
    <2>2. Types'
      BY <2>1 DEF Pcs, NoOptions, Options
    <2>3. StageInv'
      BY <2>1 DEF StageInv
    <2>4. ShownInv' /\ RowInv'
      BY <2>1 DEF ShownInv, RowInv
    <2>5. FormInv'
      BY <2>1 DEF FormInv, Running
    <2>6. CardInv'
      BY <2>1 DEF CardInv
    <2>7. TokenHeld' /\ EntryTruthful'
      BY <2>1 DEF TokenHeld, EntryTruthful, ShownInv
    <2> QED
      BY <2>2, <2>3, <2>4, <2>5, <2>6, <2>7
  <1> QED
    BY <1>1, <1>2

\* The form and the buttons that start or steer an upload.
LEMMA FormStep ==
  ASSUME Inv,
         \/ \E o \in Choices : SetOptions(o)
         \/ \E u \in Uploads, s \in Sizes : DropFile(u, s) \/ DropFolder(u, s)
         \/ Cancel \/ SendAnother \/ LeaveHome \/ ReturnHome
  PROVE  Inv'
  <1> USE DEF Inv, Types
  <1>1. ASSUME NEW o \in Choices, SetOptions(o) PROVE Inv'
    <2>1. UNCHANGED <<env, ui, card, uploadVars, registryVars, dashVars, revoking, server, forgotten>>
      BY <1>1 DEF SetOptions
    <2>2. Types'
      BY <1>1, <2>1, SenderAssumption DEF SetOptions, SenderAssumption
    <2>3. FormInv'
      BY <1>1, <2>1 DEF SetOptions, FormInv, Usable, Quiet
    <2> QED
      BY <2>1, <2>2, <2>3 DEF StageInv, ShownInv, RowInv, CardInv, TokenHeld, EntryTruthful
  <1>2. ASSUME NEW u \in Uploads, NEW s \in Sizes, DropFile(u, s) PROVE Inv'
    <2>1. pc[u] = "fresh" /\ StartUpload(u, s, form) /\ Usable
      BY <1>2 DEF DropFile
    <2>2. UNCHANGED <<env, form, registryVars, dashVars, revoking, server, forgotten>>
      BY <1>2 DEF DropFile
    <2>3. env.patient => \A v \in Uploads : pc[v] \notin Running
      BY <2>1 DEF Usable, Quiet
    <2>4. ui.kind \in {"idle", "error"} /\ s \in Nat
      BY <2>1, SenderAssumption DEF Usable, FormEnabled, SenderAssumption
    <2> QED
      BY <2>1, <2>2, <2>3, <2>4, StartKeeps
  <1>3. ASSUME NEW u \in Uploads, NEW s \in Sizes, DropFolder(u, s) PROVE Inv'
    <2>1. /\ pc[u] = "fresh" /\ pc' = [pc EXCEPT ![u] = "packing"]
          /\ size' = [size EXCEPT ![u] = s]
          /\ opts' = [opts EXCEPT ![u] = form]
          /\ UNCHANGED <<env, form, ui, card, orphans, registryVars, dashVars, revoking,
                         server, forgotten>>
      BY <1>3 DEF DropFolder
    <2>2. env.patient => \A v \in Uploads : pc[v] \notin Running
      BY <1>3 DEF DropFolder, Usable, Quiet
    <2>3. ui.kind \in {"idle", "error"} /\ s \in Nat
      BY <1>3, SenderAssumption DEF DropFolder, Usable, FormEnabled, SenderAssumption
    <2>4. Types'
      BY <2>1, <2>3 DEF Pcs
    <2>5. StageInv' /\ ShownInv' /\ RowInv' /\ CardInv'
      BY <2>1 DEF StageInv, ShownInv, RowInv, CardInv, Running
    <2>6. FormInv'
      BY <2>1, <2>2, <2>3 DEF FormInv, Running
    <2>7. TokenHeld' /\ EntryTruthful'
      BY <2>1 DEF TokenHeld, EntryTruthful, ShownInv
    <2> QED
      BY <2>4, <2>5, <2>6, <2>7
  <1>4. CASE Cancel \/ ReturnHome
    BY <1>4 DEF Cancel, ReturnHome, StageInv, ShownInv, RowInv, FormInv, CardInv,
          TokenHeld, EntryTruthful
  <1>5. CASE SendAnother
    <2>1. /\ ui.kind = "done" /\ ui'.kind = "idle"
          /\ UNCHANGED <<env, form, uploadVars, registryVars, dashVars, revoking, server, forgotten>>
      BY <1>5 DEF SendAnother, Idle
    <2>2. FormInv'
      BY <2>1 DEF FormInv, Running
    <2> QED
      BY <2>1, <2>2 DEF StageInv, ShownInv, RowInv, CardInv, TokenHeld, EntryTruthful
  <1>6. CASE LeaveHome
    <2>1. /\ ui'.kind = "idle" /\ form' = NoOptions
          /\ orphans' = {u \in Uploads : pc[u] \in Running}
          /\ UNCHANGED <<env, pc, size, opts, registryVars, dashVars, revoking, server, forgotten>>
      BY <1>6 DEF LeaveHome, Idle
    <2>2. Types'
      BY <2>1 DEF NoOptions, Options
    <2>3. StageInv' /\ FormInv'
      BY <2>1 DEF StageInv, FormInv, Running
    <2> QED
      BY <2>1, <2>2, <2>3 DEF ShownInv, RowInv, CardInv, TokenHeld, EntryTruthful
  <1> QED
    BY <1>1, <1>2, <1>3, <1>4, <1>5, <1>6

\* uploadFile, and what startUpload does with its outcome.
LEMMA UploadStep ==
  ASSUME Inv, NEW u \in Uploads, UploadNext(u)
  PROVE  Inv'
  <1> USE DEF Inv, Types
  <1>1. CASE PackRefused(u)
    <2>1. /\ pc[u] = "packing" /\ pc' = [pc EXCEPT ![u] = "void"]
          /\ size' = [size EXCEPT ![u] = 0]
          /\ opts' = [opts EXCEPT ![u] = NoOptions]
          /\ orphans' = orphans \ {u}
          /\ UNCHANGED <<env, form, ui, card, registryVars, dashVars, revoking, server, forgotten>>
      BY <1>1 DEF PackRefused
    <2>2. Types'
      BY <2>1 DEF Pcs, NoOptions, Options
    <2>3. StageInv' /\ ShownInv' /\ RowInv' /\ CardInv'
      BY <2>1 DEF StageInv, ShownInv, RowInv, CardInv
    <2>4. FormInv'
      BY <2>1 DEF FormInv, Running
    <2>5. TokenHeld' /\ EntryTruthful'
      BY <2>1 DEF TokenHeld, EntryTruthful, ShownInv
    <2> QED
      BY <2>2, <2>3, <2>4, <2>5
  <1>2. CASE Packed(u)
    <2>1. /\ pc[u] = "packing" /\ StartUpload(u, size[u] + ZipOverhead, opts[u])
          /\ UNCHANGED <<env, form, registryVars, dashVars, revoking, server, forgotten>>
      BY <1>2 DEF Packed
    <2>2. env.patient =>
              /\ \A v \in Uploads : pc[v] \in Running => v = u
              /\ u \notin orphans => opts[u] = form /\ ui.kind \in {"idle", "error"}
      BY <2>1 DEF FormInv, Running
    <2>3. size[u] + ZipOverhead \in Nat /\ opts[u] \in Options
      BY SenderAssumption DEF SenderAssumption
    <2> QED
      BY <2>1, <2>2, <2>3, StartKeeps
  <1>3. CASE Created(u)
    <2>1. /\ pc[u] = "creating" /\ pc' = [pc EXCEPT ![u] = "sending"]
          /\ server' = [server EXCEPT ![u] = "live"]
          /\ size' = [size EXCEPT ![u] = 0]
          /\ UNCHANGED <<env, form, ui, card, opts, orphans, registryVars, dashVars,
                         revoking, forgotten>>
      BY <1>3 DEF Created
    <2>2. Types'
      BY <2>1 DEF Pcs
    <2>3. StageInv' /\ ShownInv' /\ RowInv'
      BY <2>1 DEF StageInv, ShownInv, RowInv, Running
    <2>4. FormInv'
      BY <2>1 DEF FormInv, Running
    <2>5. CardInv'
      BY <2>1 DEF CardInv, ShownInv
    <2>6. TokenHeld' /\ EntryTruthful'
      BY <2>1 DEF TokenHeld, EntryTruthful
    <2> QED
      BY <2>2, <2>3, <2>4, <2>5, <2>6
  <1>4. CASE ChunkSent(u)
    BY <1>4 DEF ChunkSent, StageInv, ShownInv, RowInv, FormInv, CardInv, TokenHeld, EntryTruthful
  <1>5. CASE CreateFails(u) \/ AbortNoticed(u) \/ ChunkFails(u)
    <2>1. pc[u] \in {"creating", "sending"} /\ UNCHANGED server
          /\ \E kind \in {"idle", "error"} : UploadFails(u, kind)
      BY <1>5 DEF CreateFails, AbortNoticed, ChunkFails
    <2>2. /\ pc' = [pc EXCEPT ![u] = "void"]
          /\ size' = [size EXCEPT ![u] = 0]
          /\ opts' = [opts EXCEPT ![u] = NoOptions]
          /\ orphans' = orphans \ {u}
          /\ UNCHANGED <<env, form, registryVars, dashVars, revoking, forgotten>>
      BY <2>1 DEF UploadFails
    <2>3. /\ u \in orphans => ui' = ui /\ card' = card
          /\ u \notin orphans => ui'.kind \in {"idle", "error"}
      BY <2>1 DEF UploadFails, Show
    <2>4. Types'
      BY <2>1, <2>2 DEF Pcs, NoOptions, Options
    <2>5. StageInv' /\ ShownInv' /\ RowInv'
      BY <2>1, <2>2, <2>3 DEF StageInv, ShownInv, RowInv
    <2>6. FormInv'
      BY <2>1, <2>2, <2>3 DEF FormInv, Running
    <2>7. CardInv'
      BY <2>1, <2>2, <2>3 DEF CardInv
    <2>8. TokenHeld' /\ EntryTruthful'
      BY <2>1, <2>2 DEF TokenHeld, EntryTruthful, ShownInv
    <2> QED
      BY <2>4, <2>5, <2>6, <2>7, <2>8
  <1>6. CASE LinkReady(u)
    <2>1. /\ pc[u] = "sending"
          /\ orphans' = orphans \ {u}
          /\ UNCHANGED <<env, form, size, dashVars, revoking, server, forgotten>>
      BY <1>6 DEF LinkReady
    <2>2. CASE u \in orphans
      <3>1. /\ pc' = [pc EXCEPT ![u] = "lost"]
            /\ opts' = [opts EXCEPT ![u] = NoOptions]
            /\ UNCHANGED <<ui, card, registryVars>>
        BY <1>6, <2>2 DEF LinkReady
      <3>2. Types'
        BY <2>1, <3>1 DEF Pcs, NoOptions, Options
      <3>3. StageInv' /\ ShownInv' /\ RowInv' /\ CardInv'
        BY <2>1, <3>1 DEF StageInv, ShownInv, RowInv, CardInv
      <3>4. FormInv'
        BY <2>1, <3>1 DEF FormInv, Running
      <3>5. TokenHeld' /\ EntryTruthful'
        BY <2>1, <3>1 DEF TokenHeld, EntryTruthful, ShownInv
      <3> QED
        BY <3>2, <3>3, <3>4, <3>5
    <2>3. CASE u \notin orphans
      <3>1. /\ pc' = [pc EXCEPT ![u] = "shown"] /\ opts' = opts
            /\ ui'.kind = "done" /\ ui'.by = u
            /\ IF ui.kind = "done" THEN UNCHANGED <<card, registryVars>> ELSE MountCard(u)
        BY <1>6, <2>3 DEF LinkReady
      <3>2. \/ UNCHANGED <<stored, entry>>
            \/ stored' = stored \cup {u} /\ entry' = [entry EXCEPT ![u] = Flags(form)]
        BY <3>1 DEF MountCard, AddShare
      <3>3. env.patient => /\ opts[u] = form /\ ui.kind = "uploading"
                           /\ \A v \in Uploads : pc[v] \in Running => v = u
        BY <2>1, <2>3 DEF FormInv, Running
      <3>4. env.patient => MountCard(u)
        BY <3>1, <3>3
      <3>5. Types'
        BY <2>1, <3>1, <3>2 DEF Pcs
      <3>6. StageInv' /\ ShownInv' /\ RowInv'
        BY <2>1, <3>1, <3>2 DEF StageInv, ShownInv, RowInv
      <3>7. FormInv'
        BY <2>1, <3>1, <3>3 DEF FormInv, Running
      <3>8. CardInv'
        <4>1. env.patient => card'.by = u /\ card'.revoke = "active"
          BY <3>4 DEF MountCard
        <4> QED
          BY <2>1, <3>1, <4>1 DEF CardInv
      <3>9. TokenHeld'
        <4>1. env.patient /\ env.storage => u \in stored' /\ stored \subseteq stored'
          BY <3>2, <3>4 DEF MountCard, AddShare
        <4> QED
          BY <2>1, <3>1, <4>1 DEF TokenHeld
      <3>10. EntryTruthful'
        BY <2>1, <3>1, <3>2, <3>3 DEF EntryTruthful, Flags
      <3> QED
        BY <3>5, <3>6, <3>7, <3>8, <3>9, <3>10
    <2> QED
      BY <2>2, <2>3
  <1> QED
    BY <1>1, <1>2, <1>3, <1>4, <1>5, <1>6 DEF UploadNext

\* The steps of the card and the dashboard that leave the registry's tokens to
\* shares that are alive.
LEMMA RegistryStep ==
  ASSUME Inv,
         \/ CardRevoke \/ OpenDashboard \/ CloseDashboard
         \/ \E u \in Uploads : RowRevoke(u) \/ RowRemove(u) \/ Expire(u)
  PROVE  Inv'
  <1> USE DEF Inv, Types
  <1>1. CASE CardRevoke
    <2>1. /\ ui.kind = "done" /\ card'.by = card.by /\ card'.revoke = "revoking"
          /\ revoking' = revoking \cup {<<ui.by, card.by>>}
          /\ UNCHANGED <<env, form, ui, uploadVars, registryVars, dashVars, server, forgotten>>
      BY <1>1 DEF CardRevoke, RevokeOffered
    <2>2. \A r \in revoking' : r \in revoking \/ (r[1] = ui.by /\ r[2] = card.by)
      BY <2>1
    <2>3. ShownInv' /\ CardInv'
      BY <2>1, <2>2 DEF ShownInv, CardInv
    <2> QED
      BY <2>1, <2>3 DEF StageInv, RowInv, FormInv, TokenHeld, EntryTruthful
  <1>2. CASE OpenDashboard
    <2>1. /\ dash'.rows = stored \ expired /\ stored' = stored \ expired
          /\ entry' = [u \in Uploads |-> IF u \in stored \ expired THEN entry[u]
                                         ELSE Flags(NoOptions)]
          /\ forgotten' = forgotten \cup expired
          /\ UNCHANGED <<env, form, ui, card, uploadVars, row, revoking, server>>
      BY <1>2 DEF OpenDashboard, PruneExpired
    <2>2. Types' /\ ShownInv'
      BY <2>1 DEF ShownInv
    <2>3. TokenHeld' /\ EntryTruthful'
      BY <2>1 DEF TokenHeld, EntryTruthful
    <2> QED
      BY <2>1, <2>2, <2>3 DEF StageInv, RowInv, FormInv, CardInv
  <1>3. CASE CloseDashboard
    <2>1. /\ dash'.rows = {} /\ row' = [u \in Uploads |-> "idle"]
          /\ revoking' = {<<r[1], IF r[2] = "row" THEN "closed" ELSE r[2]>> : r \in revoking}
          /\ UNCHANGED <<env, form, ui, card, uploadVars, registryVars, server, forgotten>>
      BY <1>3 DEF CloseDashboard, Closed
    <2>2. \A q \in revoking' :
             \E r \in revoking : q[1] = r[1] /\ (q[2] = r[2] \/ q[2] = "closed")
      BY <2>1
    <2>3. ShownInv' /\ CardInv'
      BY <2>1, <2>2, NamesAssumption DEF NamesAssumption, ShownInv, CardInv
    <2> QED
      BY <2>1, <2>3 DEF StageInv, RowInv, FormInv, TokenHeld, EntryTruthful
  <1>4. ASSUME NEW u \in Uploads, RowRevoke(u) PROVE Inv'
    <2>1. /\ u \in dash.rows /\ row' = [row EXCEPT ![u] = "revoking"]
          /\ revoking' = revoking \cup {<<u, "row">>}
          /\ UNCHANGED <<env, form, ui, card, uploadVars, registryVars, dash, server, forgotten>>
      BY <1>4 DEF RowRevoke, Listed
    <2>2. \A r \in revoking' : r \in revoking \/ (r[1] = u /\ r[2] = "row")
      BY <2>1
    <2>3. ShownInv' /\ CardInv'
      BY <2>1, <2>2, NamesAssumption DEF NamesAssumption, ShownInv, CardInv
    <2> QED
      BY <2>1, <2>3 DEF StageInv, RowInv, FormInv, TokenHeld, EntryTruthful
  <1>5. ASSUME NEW u \in Uploads, RowRemove(u) PROVE Inv'
    <2>1. /\ dash'.rows = dash.rows \ {u} /\ stored' = stored \ {u}
          /\ entry' = [entry EXCEPT ![u] = Flags(NoOptions)]
          /\ forgotten' = forgotten \cup {u}
          /\ UNCHANGED <<env, form, ui, card, uploadVars, row, revoking, server>>
      BY <1>5 DEF RowRemove, RemoveShare
    <2>2. Types' /\ ShownInv'
      BY <2>1 DEF ShownInv
    <2>3. TokenHeld' /\ EntryTruthful'
      BY <2>1 DEF TokenHeld, EntryTruthful
    <2> QED
      BY <2>1, <2>2, <2>3 DEF StageInv, RowInv, FormInv, CardInv
  <1>6. ASSUME NEW u \in Uploads, Expire(u) PROVE Inv'
    BY <1>6 DEF Expire, StageInv, ShownInv, RowInv, FormInv, CardInv, TokenHeld, EntryTruthful
  <1> QED
    BY <1>1, <1>2, <1>3, <1>4, <1>5, <1>6

\* The answer to POST /destroy, good or bad.
LEMMA RevokeStep ==
  ASSUME Inv, NEW r \in revoking, RevokeDone(r) \/ RevokeFails(r)
  PROVE  Inv'
  <1> USE DEF Inv, Types
  <1>1. /\ r[1] \in Uploads /\ pc[r[1]] = "shown"
        /\ revoking' = revoking \ {r}
        /\ UNCHANGED <<env, form, ui, uploadVars, dash, forgotten>>
    BY DEF RevokeDone, RevokeFails, ShownInv
  <1>2. /\ DOMAIN server' = Uploads
        /\ \A u \in Uploads : server'[u] = server[u] \/ (server'[u] = "destroyed" /\ u = r[1])
    BY <1>1 DEF RevokeDone, RevokeFails
  <1>3. DOMAIN row' = Uploads /\ \A u \in Uploads \ {r[1]} : row'[u] = row[u]
    BY <1>1 DEF RevokeDone, RevokeFails, SetRow
  <1>4. CASE RevokeDone(r)
    <2>1. /\ server'[r[1]] = "destroyed"
          /\ stored' = stored \ {r[1]}
          /\ entry' = [entry EXCEPT ![r[1]] = Flags(NoOptions)]
          /\ card' = IF card.by = r[2] THEN [by |-> card.by, revoke |-> "revoked"] ELSE card
      BY <1>1, <1>4 DEF RevokeDone, RemoveShare, SetButton
    <2>2. Types' /\ StageInv' /\ ShownInv'
      BY <1>1, <1>2, <1>3, <2>1 DEF StageInv, ShownInv
    <2>3. RowInv' /\ FormInv'
      BY <1>1, <1>2, <1>3, <2>1 DEF RowInv, FormInv
    <2>4. CardInv'
      BY <1>1, <1>2, <2>1 DEF CardInv, ShownInv
    <2>5. TokenHeld' /\ EntryTruthful'
      BY <1>1, <1>2, <2>1 DEF TokenHeld, EntryTruthful
    <2> QED
      BY <2>2, <2>3, <2>4, <2>5
  <1>5. CASE RevokeFails(r)
    <2>1. /\ UNCHANGED registryVars
          /\ card' = IF card.by = r[2] THEN [by |-> card.by, revoke |-> "active"] ELSE card
          /\ \A u \in Uploads : row'[u] = row[u] \/ row'[u] = "idle"
      BY <1>1, <1>5 DEF RevokeFails, SetButton, SetRow
    <2>2. Types' /\ StageInv' /\ ShownInv'
      BY <1>1, <1>2, <1>3, <2>1 DEF StageInv, ShownInv
    <2>3. RowInv' /\ FormInv'
      BY <1>1, <1>2, <1>3, <2>1 DEF RowInv, FormInv
    <2>4. CardInv'
      BY <1>1, <1>2, <2>1 DEF CardInv, ShownInv
    <2>5. TokenHeld' /\ EntryTruthful'
      BY <1>1, <1>2, <2>1 DEF TokenHeld, EntryTruthful
    <2> QED
      BY <2>2, <2>3, <2>4, <2>5
  <1> QED
    BY <1>4, <1>5

\* The fresh browser satisfies the invariant.
LEMMA InvInit == Init => Inv
  <1> SUFFICES ASSUME Init PROVE Inv
    OBVIOUS
  <1>1. Types
    BY DEF Init, Types, Pcs, NoOptions, Options, Closed
  <1>2. StageInv /\ ShownInv /\ RowInv
    BY DEF Init, StageInv, ShownInv, RowInv, Closed, Idle
  <1>3. FormInv /\ CardInv
    BY DEF Init, FormInv, CardInv, Running, Idle
  <1>4. TokenHeld /\ EntryTruthful
    BY DEF Init, TokenHeld, EntryTruthful
  <1> QED
    BY <1>1, <1>2, <1>3, <1>4 DEF Inv

\* Every step of the sender, the uploads and the revocations keeps it.
LEMMA InvStep == Inv /\ [Next]_vars => Inv'
  <1> SUFFICES ASSUME Inv, [Next]_vars PROVE Inv'
    OBVIOUS
  <1>1. CASE UNCHANGED vars
    BY <1>1 DEF vars, Inv, Types, StageInv, ShownInv, RowInv, FormInv, CardInv,
          TokenHeld, EntryTruthful
  <1>2. CASE Next
    BY <1>2, FormStep, UploadStep, RegistryStep, RevokeStep DEF Next, SenderNext
  <1> QED
    BY <1>1, <1>2

\* The invariant holds throughout.
THEOREM InvCorrect == Spec => []Inv
  BY InvInit, InvStep, PTL DEF Spec

\* addShare of ShareLink.tsx: a patient sender's registry holds the token of
\* every live share whose link was shown.
THEOREM TokenCorrect == Spec => []TokenHeld
  <1>1. Inv => TokenHeld
    BY DEF Inv
  <1> QED
    BY <1>1, InvCorrect, PTL

\* The flags recorded with a token are those the share was created with,
\* although ShareLink.tsx takes them from the form.
THEOREM EntryCorrect == Spec => []EntryTruthful
  <1>1. Inv => EntryTruthful
    BY DEF Inv
  <1> QED
    BY <1>1, InvCorrect, PTL

\* The card and the dashboard say "revoked" of destroyed shares only, whichever
\* card or row the answer to POST /destroy finds mounted.
THEOREM RevokedCorrect == Spec => []RevokedPillTrue
  <1>1. Inv => RevokedPillTrue
    BY DEF Inv, CardInv, RowInv, RevokedPillTrue, DescriptorServed
  <1> QED
    BY <1>1, InvCorrect, PTL

\* Clocks under which the form and the schema agree on a lifetime: the gateway
\* allows the longest one of the form, and the sender's clock is ahead by the
\* safety margin at most and behind by less than the shortest lifetime.
ClocksAgree ==
    /\ MaxTtl >= 10080
    /\ \A skew \in Skews : SafetyMargin - 60 < skew /\ skew <= SafetyMargin

\* The bound on chunkCount is a number.
LEMMA ChunkCountBound == MaxChunkCount \in Nat
  BY DEF MaxChunkCount

\* ceilChunks of upload.ts: the chunks hold the file, with less than a chunk to
\* spare.
LEMMA CeilBounds ==
    ASSUME NEW s \in Nat \ {0}
    PROVE  /\ CeilChunks(s) \in Nat \ {0}
           /\ s <= CeilChunks(s) * ChunkSize
           /\ CeilChunks(s) * ChunkSize < s + ChunkSize
  <1>1. ChunkSize \in Nat \ {0}
    BY LimitsAssumption
  <1>2. PICK q \in Int : q = (s + ChunkSize - 1) \div ChunkSize
    BY <1>1
  <1>3. s <= q * ChunkSize /\ q * ChunkSize <= s + ChunkSize - 1
    BY <1>1, <1>2
  <1>4. q > 0
    BY <1>1, <1>3
  <1> QED
    BY <1>1, <1>2, <1>3, <1>4 DEF CeilChunks

\* Under such clocks the lifetime in the request is one the schema allows.
LEMMA ExpiryFits ==
    ASSUME ClocksAgree, NEW minutes \in ExpiryOptions, NEW skew \in Skews
    PROVE  /\ ClampExpiry(minutes) + skew - SafetyMargin > 0
           /\ ClampExpiry(minutes) + skew - SafetyMargin <= MaxTtl
  <1>1. /\ skew \in Int /\ SafetyMargin \in Int /\ MaxTtl \in Int
        /\ SafetyMargin - 60 < skew /\ skew <= SafetyMargin /\ MaxTtl >= 10080
    BY SenderAssumption, LimitsAssumption DEF ClocksAgree
  <1>2. PICK e \in Int : e = ClampExpiry(minutes) /\ 60 <= e /\ e <= 10080
    BY DEF ExpiryOptions, ClampExpiry
  <1> QED
    BY <1>1, <1>2

\* Of a file the form lets through, the schema can refuse the storage alone:
\* it counts the last chunk whole.
LEMMA AcceptedExactly ==
    ASSUME ClocksAgree, NEW u \in Uploads, size[u] \in Nat, ClientAccepts(size[u]),
           CeilChunks(size[u]) <= MaxChunkCount,
           NEW minutes \in ExpiryOptions, NEW skew \in Skews
    PROVE  SchemaAccepts(Request(u, minutes, skew))
               <=> CeilChunks(size[u]) * ChunkSize <= MaxFile
  <1>1. PICK r : r = Request(u, minutes, skew)
    OBVIOUS
  <1>2. PICK s : s = size[u]
    OBVIOUS
  <1>3. PICK q : q = CeilChunks(s)
    OBVIOUS
  <1>4. /\ ChunkSize \in Nat /\ MaxFile \in Nat /\ MaxChunk \in Nat
        /\ ChunkSize > 0 /\ ChunkSize < MaxChunk
    BY LimitsAssumption
  <1>5. s \in Nat \ {0} /\ s <= MaxFile
    BY <1>2 DEF ClientAccepts
  <1>6. q \in Nat \ {0} /\ q <= MaxChunkCount /\ s <= q * ChunkSize
    BY <1>2, <1>3, <1>5, CeilBounds
  <1>7. /\ r.fileSize = s /\ r.chunkCount = q /\ r.chunkSize = ChunkSize
        /\ r.expiresIn = ClampExpiry(minutes) + skew - SafetyMargin
        /\ r.kdf = IF r.passwordProtected THEN KdfFields ELSE {}
    BY <1>1, <1>2, <1>3 DEF Request, CreateRequest
  <1>8. r.expiresIn > 0 /\ r.expiresIn <= MaxTtl
    BY <1>7, ExpiryFits
  <1>9. FieldsInRange(r)
    BY <1>4, <1>5, <1>6, <1>7, <1>8, ChunkCountBound DEF FieldsInRange
  <1>10. KdfConsistent(r)
    BY <1>7 DEF KdfConsistent
  <1>11. StorageFits(r) <=> q * ChunkSize <= MaxFile
    BY <1>6, <1>7 DEF StorageFits
  <1> QED
    BY <1>1, <1>2, <1>3, <1>9, <1>10, <1>11 DEF SchemaAccepts

\* The chunks of a file fit under the cap exactly if the file fits into the whole
\* chunks of the cap.
LEMMA WholeChunks ==
    ASSUME NEW s \in Nat \ {0}
    PROVE  CeilChunks(s) * ChunkSize <= MaxFile <=> s <= (MaxFile \div ChunkSize) * ChunkSize
  <1>1. ChunkSize \in Nat \ {0} /\ MaxFile \in Nat
    BY LimitsAssumption
  <1>2. PICK n \in Int : n = MaxFile \div ChunkSize
    BY <1>1
  <1>3. n * ChunkSize <= MaxFile /\ MaxFile < n * ChunkSize + ChunkSize
    BY <1>1, <1>2
  <1>4. PICK q \in Nat : /\ q = CeilChunks(s) /\ s <= q * ChunkSize
                         /\ q * ChunkSize < s + ChunkSize
    BY CeilBounds
  <1>5. ASSUME q * ChunkSize <= MaxFile PROVE s <= n * ChunkSize
    <2>1. q * ChunkSize < n * ChunkSize + ChunkSize
      BY <1>1, <1>3, <1>4, <1>5
    <2>2. q <= n
      BY <1>1, <1>4, <2>1
    <2>3. q * ChunkSize <= n * ChunkSize
      BY <1>1, <1>4, <2>2
    <2> QED
      BY <1>1, <1>4, <2>3
  <1>6. ASSUME s <= n * ChunkSize PROVE q * ChunkSize <= MaxFile
    <2>1. q * ChunkSize < n * ChunkSize + ChunkSize
      BY <1>1, <1>4, <1>6
    <2>2. q <= n
      BY <1>1, <1>4, <2>1
    <2>3. q * ChunkSize <= n * ChunkSize
      BY <1>1, <1>4, <2>2
    <2> QED
      BY <1>1, <1>3, <1>4, <2>3
  <1> QED
    BY <1>2, <1>4, <1>5, <1>6

\* A cap of so many whole chunks that one more is still a count the schema allows.
CapCounts == MaxFile \div ChunkSize < MaxChunkCount

\* CreateShareSchema against UploadDrop and uploadFile, under any limits with less
\* than 100000 chunks to the cap, the defaults of 5 and 1024 MiB among them: of what
\* the client lets through, exactly the sizes up to the last whole chunk are accepted.
THEOREM CapCorrect == ClocksAgree /\ CapCounts => (Spec => []CapExact)
  <1> SUFFICES ASSUME ClocksAgree, CapCounts PROVE Spec => []CapExact
    OBVIOUS
  <1>1. ASSUME Inv, NEW u \in Uploads, pc[u] = "creating",
               NEW minutes \in ExpiryOptions, NEW skew \in Skews
        PROVE  SchemaAccepts(Request(u, minutes, skew))
                   <=> size[u] <= (MaxFile \div ChunkSize) * ChunkSize
    <2>1. size[u] \in Nat /\ ClientAccepts(size[u])
      BY <1>1 DEF Inv, Types, StageInv
    <2>2. PICK s \in Nat \ {0} : s = size[u] /\ s <= MaxFile
      BY <2>1 DEF ClientAccepts
    <2>3. CeilChunks(s) <= MaxChunkCount
      <3>1. ChunkSize \in Nat \ {0} /\ MaxFile \in Nat
        BY LimitsAssumption
      <3>2. PICK n \in Int : n = MaxFile \div ChunkSize
        BY <3>1
      <3>3. MaxFile < n * ChunkSize + ChunkSize /\ n < MaxChunkCount
        BY <3>1, <3>2 DEF CapCounts
      <3>4. PICK q \in Nat : q = CeilChunks(s) /\ q * ChunkSize < s + ChunkSize
        BY CeilBounds
      <3>5. q * ChunkSize < (n + 2) * ChunkSize
        BY <2>2, <3>1, <3>3, <3>4
      <3>6. q < n + 2
        BY <3>1, <3>4, <3>5
      <3> QED
        BY <3>3, <3>4, <3>6, ChunkCountBound
    <2>4. SchemaAccepts(Request(u, minutes, skew)) <=> CeilChunks(s) * ChunkSize <= MaxFile
      BY <2>1, <2>2, <2>3, AcceptedExactly
    <2> QED
      BY <2>2, <2>4, WholeChunks
  <1>2. Inv => CapExact
    BY <1>1 DEF CapExact
  <1> QED
    BY <1>2, InvCorrect, PTL

-----------------------------------------------------------------------------
(* What UploadSettles rests on besides fairness.                           *)

\* The progress panel shows an upload that runs and whose outcome will reach the
\* form, so that its Cancel button has something to abort.
PanelRuns ==
    ui.kind = "uploading" =>
        /\ ui.by \in Uploads \ orphans
        /\ pc[ui.by] \in {"creating", "sending"}

\* Every step keeps it, also when several uploads write the one state of the form.
LEMMA PanelStep == Types /\ PanelRuns /\ [Next]_vars => PanelRuns'
  <1> SUFFICES ASSUME Types, PanelRuns, [Next]_vars PROVE PanelRuns'
    OBVIOUS
  <1>1. CASE UNCHANGED <<ui, pc, orphans>>
    BY <1>1 DEF PanelRuns
  <1>2. ASSUME NEW u \in Uploads, NEW s, NEW o, StartUpload(u, s, o),
               pc[u] \in {"fresh", "packing"}
        PROVE  PanelRuns'
    BY <1>2 DEF StartUpload, Show, PanelRuns, Types
  <1>3. ASSUME NEW u \in Uploads, PackRefused(u) PROVE PanelRuns'
    BY <1>3 DEF PackRefused, PanelRuns, Types
  <1>4. ASSUME NEW u \in Uploads, Created(u) PROVE PanelRuns'
    BY <1>4 DEF Created, PanelRuns, Types
  <1>5. ASSUME NEW u \in Uploads, NEW kind \in {"idle", "error"}, UploadFails(u, kind)
        PROVE  PanelRuns'
    BY <1>5 DEF UploadFails, Show, PanelRuns, Types
  <1>6. ASSUME NEW u \in Uploads, LinkReady(u) PROVE PanelRuns'
    BY <1>6 DEF LinkReady, PanelRuns, Types
  <1>7. CASE SendAnother \/ LeaveHome
    BY <1>7 DEF SendAnother, LeaveHome, Idle, PanelRuns
  <1>8. ASSUME NEW u \in Uploads, UploadNext(u) PROVE PanelRuns'
    <2>1. CASE Packed(u)
      BY <1>2, <2>1 DEF Packed
    <2>2. CASE CreateFails(u) \/ AbortNoticed(u) \/ ChunkFails(u)
      BY <1>5, <2>2 DEF CreateFails, AbortNoticed, ChunkFails
    <2>3. CASE ChunkSent(u)
      BY <1>1, <2>3 DEF ChunkSent
    <2> QED
      BY <1>3, <1>4, <1>6, <1>8, <2>1, <2>2, <2>3 DEF UploadNext
  <1>9. ASSUME NEW u \in Uploads, NEW s \in Sizes, DropFile(u, s) \/ DropFolder(u, s)
        PROVE  PanelRuns'
    <2>1. CASE DropFile(u, s)
      BY <1>2, <2>1 DEF DropFile
    <2>2. CASE DropFolder(u, s)
      BY <2>2 DEF DropFolder, PanelRuns, Types
    <2> QED
      BY <1>9, <2>1, <2>2
  <1>10. CASE \/ \E o \in Choices : SetOptions(o)
              \/ Cancel \/ CardRevoke \/ ReturnHome \/ OpenDashboard \/ CloseDashboard
              \/ \E u \in Uploads : RowRevoke(u) \/ RowRemove(u) \/ Expire(u)
              \/ \E r \in revoking : RevokeDone(r) \/ RevokeFails(r)
    BY <1>1, <1>10 DEF SetOptions, Cancel, CardRevoke, ReturnHome, OpenDashboard,
       CloseDashboard, RowRevoke, RowRemove, Expire, RevokeDone, RevokeFails, uploadVars
  <1>11. CASE UNCHANGED vars
    BY <1>1, <1>11 DEF vars
  <1> QED
    BY <1>7, <1>8, <1>9, <1>10, <1>11 DEF Next, SenderNext

\* startUpload of UploadDrop.tsx: no overlap of uploads, cancellation or change of
\* page leaves a progress panel behind whose upload is over.
THEOREM PanelCorrect == Spec => []PanelRuns
  <1>1. Init => PanelRuns
    BY DEF Init, Idle, PanelRuns
  <1>2. Inv => Types
    BY DEF Inv
  <1> QED
    BY <1>1, <1>2, PanelStep, InvCorrect, PTL DEF Spec

-----------------------------------------------------------------------------
(* Type correctness.                                                       *)

\* What the screen shows; a card is there whenever a link is.
ScreenTypes ==
    /\ env \in [patient : BOOLEAN, storage : BOOLEAN]
    /\ home \in BOOLEAN
    /\ ui \in [kind : {"idle", "uploading", "done", "error"},
               by : Uploads \cup {NoUpload}]
    /\ card \in [by : Uploads \cup {NoUpload}, revoke : {"active", "revoking", "revoked"}]
    /\ ui.kind = "done" => card.by \in Uploads

\* The calls of startUpload; while files are packed their size is the one they
\* were dropped with.
CallTypes ==
    /\ size \in [Uploads -> {0} \cup Sizes \cup {s + ZipOverhead : s \in Sizes}]
    /\ \A u \in Uploads : pc[u] = "packing" => size[u] \in Sizes
    /\ left \in [Uploads -> 0 .. CeilChunks(MaxFile)]
    /\ aborted \in [Uploads -> BOOLEAN]

\* Registry, dashboard and gateway.
ShareTypes ==
    /\ entry \in [Uploads -> [burn : BOOLEAN, protected : BOOLEAN]]
    /\ dash \in [open : BOOLEAN, rows : SUBSET Uploads]
    /\ row \in [Uploads -> {"idle", "revoking", "revoked"}]
    /\ revoking \subseteq Uploads \X (Uploads \cup {"row", "closed"})
    /\ server \in [Uploads -> {"none", "live", "destroyed"}]
    /\ expired \subseteq Uploads
    /\ forgotten \subseteq Uploads

\* The number of chunks of an accepted file is within that of the largest one.
LEMMA CeilWithin ==
    ASSUME NEW s \in Nat, ClientAccepts(s)
    PROVE  CeilChunks(s) \in 0 .. CeilChunks(MaxFile)
  <1>1. /\ ChunkSize \in Nat \ {0} /\ MaxFile \in Nat \ {0}
        /\ s \in Nat \ {0} /\ s <= MaxFile
    BY LimitsAssumption DEF ClientAccepts
  <1>2. PICK q : q = CeilChunks(s)
    OBVIOUS
  <1>3. PICK m : m = CeilChunks(MaxFile)
    OBVIOUS
  <1>4. q \in Nat /\ q * ChunkSize < s + ChunkSize
    BY <1>1, <1>2, CeilBounds
  <1>5. m \in Nat /\ MaxFile <= m * ChunkSize
    BY <1>1, <1>3, CeilBounds
  <1>6. q * ChunkSize < (m + 1) * ChunkSize
    BY <1>1, <1>4, <1>5
  <1>7. q < m + 1
    BY <1>1, <1>4, <1>5, <1>6
  <1> QED
    BY <1>2, <1>3, <1>4, <1>5, <1>7

\* Every step keeps the screen what it is.
LEMMA ScreenStep == Types /\ ScreenTypes /\ [Next]_vars => ScreenTypes'
  <1> SUFFICES ASSUME Types, ScreenTypes, [Next]_vars PROVE ScreenTypes'
    OBVIOUS
  <1>1. CASE UNCHANGED <<env, home, ui, card>>
    BY <1>1 DEF ScreenTypes
  <1>2. ASSUME NEW u \in Uploads, NEW kind \in {"idle", "uploading", "error"},
               Show(kind, u), UNCHANGED <<env, home>>
        PROVE  ScreenTypes'
    BY <1>2 DEF Show, NoCard, ScreenTypes
  <1>3. ASSUME NEW u \in Uploads, NEW s, NEW o, StartUpload(u, s, o), UNCHANGED <<env, home>>
        PROVE  ScreenTypes'
    BY <1>1, <1>2, <1>3 DEF StartUpload
  <1>4. ASSUME NEW u \in Uploads, UploadNext(u) PROVE ScreenTypes'
    <2>1. CASE PackRefused(u) \/ Created(u) \/ ChunkSent(u)
      BY <1>1, <2>1 DEF PackRefused, Created, ChunkSent
    <2>2. CASE Packed(u)
      BY <1>3, <2>2 DEF Packed
    <2>3. CASE CreateFails(u) \/ AbortNoticed(u) \/ ChunkFails(u)
      BY <1>2, <2>3 DEF CreateFails, AbortNoticed, ChunkFails, UploadFails
    <2>4. CASE LinkReady(u)
      BY <2>4 DEF LinkReady, MountCard, ScreenTypes
    <2> QED
      BY <1>4, <2>1, <2>2, <2>3, <2>4 DEF UploadNext
  <1>5. ASSUME NEW u \in Uploads, NEW s \in Sizes, DropFile(u, s) \/ DropFolder(u, s)
        PROVE  ScreenTypes'
    BY <1>1, <1>3, <1>5 DEF DropFile, DropFolder
  <1>6. CASE SendAnother \/ LeaveHome \/ CardRevoke \/ ReturnHome
    <2>1. CASE SendAnother
      BY <2>1 DEF SendAnother, Idle, NoCard, ScreenTypes
    <2>2. CASE LeaveHome
      BY <2>2 DEF LeaveHome, Idle, NoCard, ScreenTypes
    <2>3. CASE CardRevoke
      BY <2>3 DEF CardRevoke, ScreenTypes
    <2>4. CASE ReturnHome
      BY <2>4 DEF ReturnHome, ScreenTypes
    <2> QED
      BY <1>6, <2>1, <2>2, <2>3, <2>4
  <1>7. ASSUME NEW r \in revoking, RevokeDone(r) \/ RevokeFails(r) PROVE ScreenTypes'
    BY <1>7 DEF RevokeDone, RevokeFails, SetButton, ScreenTypes
  <1>8. CASE \/ \E o \in Choices : SetOptions(o)
             \/ Cancel \/ OpenDashboard \/ CloseDashboard
             \/ \E u \in Uploads : RowRevoke(u) \/ RowRemove(u) \/ Expire(u)
    BY <1>1, <1>8 DEF SetOptions, Cancel, OpenDashboard, CloseDashboard, RowRevoke,
       RowRemove, Expire
  <1>9. CASE UNCHANGED vars
    BY <1>1, <1>9 DEF vars
  <1> QED
    BY <1>4, <1>5, <1>6, <1>7, <1>8, <1>9 DEF Next, SenderNext

\* Every step keeps the calls of startUpload what they are.
LEMMA CallStep == Inv /\ CallTypes /\ [Next]_vars => CallTypes'
  <1> SUFFICES ASSUME Inv, CallTypes, [Next]_vars PROVE CallTypes'
    OBVIOUS
  <1>1. CASE UNCHANGED <<pc, size, left, aborted>>
    BY <1>1 DEF CallTypes
  <1>2. Types /\ 0 \in 0 .. CeilChunks(MaxFile)
    <2>1. MaxFile \in Nat \ {0}
      BY LimitsAssumption
    <2>2. CeilChunks(MaxFile) \in Nat
      BY <2>1, CeilBounds
    <2> QED
      BY <2>2 DEF Inv
  <1>3. ASSUME NEW u \in Uploads, NEW s \in Sizes \cup {t + ZipOverhead : t \in Sizes}, NEW o,
               StartUpload(u, s, o), UNCHANGED <<left, aborted>>
        PROVE  CallTypes'
    BY <1>2, <1>3 DEF StartUpload, CallTypes, Types
  <1>4. ASSUME NEW u \in Uploads, NEW kind, UploadFails(u, kind) PROVE CallTypes'
    BY <1>2, <1>4 DEF UploadFails, CallTypes, Types
  <1>5. ASSUME NEW u \in Uploads, UploadNext(u) PROVE CallTypes'
    <2>1. CASE PackRefused(u)
      BY <1>2, <2>1 DEF PackRefused, CallTypes, Types
    <2>2. CASE Packed(u)
      <3>1. size[u] + ZipOverhead \in {t + ZipOverhead : t \in Sizes}
        BY <2>2 DEF Packed, CallTypes
      <3> QED
        BY <1>3, <2>2, <3>1 DEF Packed
    <2>3. CASE Created(u)
      <3>1. size[u] \in Nat /\ ClientAccepts(size[u])
        BY <2>3 DEF Created, Inv, Types, StageInv
      <3>2. CeilChunks(size[u]) \in 0 .. CeilChunks(MaxFile)
        BY <3>1, CeilWithin
      <3> QED
        BY <1>2, <2>3, <3>2 DEF Created, CallTypes, Types
    <2>4. CASE CreateFails(u) \/ AbortNoticed(u) \/ ChunkFails(u)
      BY <1>4, <2>4 DEF CreateFails, AbortNoticed, ChunkFails
    <2>5. CASE ChunkSent(u)
      <3>1. left[u] \in 0 .. CeilChunks(MaxFile) /\ left[u] > 0
            /\ left' = [left EXCEPT ![u] = left[u] - 1]
        BY <2>5 DEF ChunkSent, CallTypes
      <3>2. CeilChunks(MaxFile) \in Int
        BY LimitsAssumption, CeilBounds
      <3>3. left[u] - 1 \in 0 .. CeilChunks(MaxFile)
        BY <3>1, <3>2
      <3> QED
        BY <2>5, <3>1, <3>3 DEF ChunkSent, CallTypes
    <2>6. CASE LinkReady(u)
      BY <1>2, <2>6 DEF LinkReady, CallTypes, Types
    <2> QED
      BY <1>5, <2>1, <2>2, <2>3, <2>4, <2>5, <2>6 DEF UploadNext
  <1>6. ASSUME NEW u \in Uploads, NEW s \in Sizes, DropFile(u, s) \/ DropFolder(u, s)
        PROVE  CallTypes'
    <2>1. CASE DropFile(u, s)
      BY <1>3, <2>1 DEF DropFile
    <2>2. CASE DropFolder(u, s)
      BY <1>2, <2>2 DEF DropFolder, CallTypes, Types
    <2> QED
      BY <1>6, <2>1, <2>2
  <1>7. CASE Cancel
    <2>1. \A b \in BOOLEAN : [aborted EXCEPT ![ui.by] = b] \in [Uploads -> BOOLEAN]
      BY DEF CallTypes
    <2>2. aborted' \in [Uploads -> BOOLEAN]
      <3>1. (pc[ui.by] \in Running) \in BOOLEAN
        OBVIOUS
      <3>2. aborted' = [aborted EXCEPT ![ui.by] = (pc[ui.by] \in Running)]
        BY <1>7 DEF Cancel
      <3> QED
        BY <2>1, <3>1, <3>2
    <2> QED
      BY <1>7, <2>2 DEF Cancel, CallTypes
  <1>8. CASE \/ \E o \in Choices : SetOptions(o)
             \/ SendAnother \/ CardRevoke \/ LeaveHome \/ ReturnHome
             \/ OpenDashboard \/ CloseDashboard
             \/ \E u \in Uploads : RowRevoke(u) \/ RowRemove(u) \/ Expire(u)
             \/ \E r \in revoking : RevokeDone(r) \/ RevokeFails(r)
    BY <1>1, <1>8 DEF SetOptions, SendAnother, CardRevoke, LeaveHome, ReturnHome,
       OpenDashboard, CloseDashboard, RowRevoke, RowRemove, Expire, RevokeDone, RevokeFails
  <1>9. CASE UNCHANGED vars
    BY <1>1, <1>9 DEF vars
  <1> QED
    BY <1>5, <1>6, <1>7, <1>8, <1>9 DEF Next, SenderNext

\* The flags of any options are flags.
LEMMA FlagsType == \A o \in Options : Flags(o) \in [burn : BOOLEAN, protected : BOOLEAN]
  BY DEF Options, Flags

\* The form begins with options.
LEMMA NoOptionsType == NoOptions \in Options
  BY DEF NoOptions, Options

\* Every step keeps registry, dashboard and gateway what they are.
LEMMA ShareStep == Inv /\ ScreenTypes /\ ShareTypes /\ [Next]_vars => ShareTypes'
  <1> SUFFICES ASSUME Inv, ScreenTypes, ShareTypes, [Next]_vars PROVE ShareTypes'
    OBVIOUS
  <1>1. CASE UNCHANGED <<entry, dash, row, revoking, server, expired, forgotten>>
    BY <1>1 DEF ShareTypes
  <1>2. /\ Flags(form) \in [burn : BOOLEAN, protected : BOOLEAN]
        /\ Flags(NoOptions) \in [burn : BOOLEAN, protected : BOOLEAN]
    BY FlagsType, NoOptionsType DEF Inv, Types
  <1>3. ASSUME NEW u \in Uploads, UploadNext(u) PROVE ShareTypes'
    <2>1. CASE \/ PackRefused(u) \/ Packed(u) \/ CreateFails(u) \/ AbortNoticed(u)
               \/ ChunkSent(u) \/ ChunkFails(u)
      BY <1>1, <2>1 DEF PackRefused, Packed, CreateFails, AbortNoticed, ChunkSent,
         ChunkFails, UploadFails
    <2>2. CASE Created(u)
      BY <2>2 DEF Created, ShareTypes
    <2>3. CASE LinkReady(u)
      BY <1>2, <2>3 DEF LinkReady, MountCard, AddShare, ShareTypes
    <2> QED
      BY <1>3, <2>1, <2>2, <2>3 DEF UploadNext
  <1>4. CASE CardRevoke
    <2>1. ui.by \in Uploads /\ card.by \in Uploads
      BY <1>4 DEF CardRevoke, RevokeOffered, Inv, ShownInv, ScreenTypes
    <2> QED
      BY <1>4, <2>1 DEF CardRevoke, ShareTypes
  <1>5. ASSUME NEW r \in revoking, RevokeDone(r) \/ RevokeFails(r) PROVE ShareTypes'
    <2>1. r[1] \in Uploads
      BY DEF ShareTypes
    <2>2. row' \in [Uploads -> {"idle", "revoking", "revoked"}]
      BY <1>5, <2>1 DEF RevokeDone, RevokeFails, SetRow, ShareTypes
    <2>3. server' \in [Uploads -> {"none", "live", "destroyed"}]
      BY <1>5, <2>1 DEF RevokeDone, RevokeFails, ShareTypes
    <2>4. entry' \in [Uploads -> [burn : BOOLEAN, protected : BOOLEAN]]
      BY <1>2, <1>5, <2>1 DEF RevokeDone, RevokeFails, RemoveShare, ShareTypes
    <2>5. revoking' \subseteq revoking /\ expired' \subseteq expired /\ UNCHANGED <<dash, forgotten>>
      BY <1>5 DEF RevokeDone, RevokeFails, RemoveShare
    <2> QED
      BY <2>2, <2>3, <2>4, <2>5 DEF ShareTypes
  <1>6. CASE OpenDashboard
    <2>1. entry' \in [Uploads -> [burn : BOOLEAN, protected : BOOLEAN]]
      BY <1>2, <1>6 DEF OpenDashboard, ShareTypes
    <2>2. dash' \in [open : BOOLEAN, rows : SUBSET Uploads]
      BY <1>6 DEF OpenDashboard, PruneExpired, Inv, Types
    <2>3. expired' = {} /\ forgotten' = forgotten \cup expired /\ UNCHANGED <<row, revoking, server>>
      BY <1>6 DEF OpenDashboard
    <2> QED
      BY <2>1, <2>2, <2>3 DEF ShareTypes
  <1>7. CASE CloseDashboard
    <2>1. dash' \in [open : BOOLEAN, rows : SUBSET Uploads]
      BY <1>7 DEF CloseDashboard, Closed
    <2>2. revoking' \subseteq Uploads \X (Uploads \cup {"row", "closed"})
      <3>1. \A r \in revoking : r[1] \in Uploads /\ r[2] \in Uploads \cup {"row", "closed"}
        BY DEF ShareTypes
      <3> QED
        BY <1>7, <3>1 DEF CloseDashboard
    <2> QED
      BY <1>7, <2>1, <2>2 DEF CloseDashboard, ShareTypes
  <1>8. ASSUME NEW u \in Uploads, RowRevoke(u) \/ Expire(u) PROVE ShareTypes'
    BY <1>8 DEF RowRevoke, Expire, ShareTypes
  <1>9. ASSUME NEW u \in Uploads, RowRemove(u) PROVE ShareTypes'
    <2>1. dash' \in [open : BOOLEAN, rows : SUBSET Uploads]
      BY <1>9 DEF RowRemove, ShareTypes
    <2>2. entry' \in [Uploads -> [burn : BOOLEAN, protected : BOOLEAN]]
      BY <1>2, <1>9 DEF RowRemove, RemoveShare, ShareTypes
    <2> QED
      BY <1>9, <2>1, <2>2 DEF RowRemove, RemoveShare, ShareTypes
  <1>10. CASE \/ \E o \in Choices : SetOptions(o)
              \/ \E u \in Uploads, s \in Sizes : DropFile(u, s) \/ DropFolder(u, s)
              \/ Cancel \/ SendAnother \/ LeaveHome \/ ReturnHome
    BY <1>1, <1>10 DEF SetOptions, DropFile, DropFolder, Cancel, SendAnother, LeaveHome,
       ReturnHome
  <1>11. CASE UNCHANGED vars
    BY <1>1, <1>11 DEF vars
  <1> QED
    BY <1>3, <1>4, <1>5, <1>6, <1>7, <1>8, <1>9, <1>10, <1>11 DEF Next, SenderNext

\* Form, card, registry, dashboard and every upload keep their types; an upload has
\* never more chunks to send than the largest file the form lets through.
THEOREM TypeCorrect == Spec => []TypeOK
  <1>1. Init => ScreenTypes /\ CallTypes /\ ShareTypes
    <2> SUFFICES ASSUME Init PROVE ScreenTypes /\ CallTypes /\ ShareTypes
      OBVIOUS
    <2>1. ScreenTypes
      BY DEF Init, Idle, NoCard, ScreenTypes
    <2>2. 0 \in 0 .. CeilChunks(MaxFile)
      <3>1. MaxFile \in Nat \ {0}
        BY LimitsAssumption
      <3>2. CeilChunks(MaxFile) \in Nat
        BY <3>1, CeilBounds
      <3> QED
        BY <3>2
    <2>3. CallTypes
      BY <2>2 DEF Init, CallTypes
    <2>4. Flags(NoOptions) \in [burn : BOOLEAN, protected : BOOLEAN]
      BY FlagsType, NoOptionsType
    <2>5. dash \in [open : BOOLEAN, rows : SUBSET Uploads]
      BY DEF Init, Closed
    <2>6. ShareTypes
      BY <2>4, <2>5 DEF Init, ShareTypes
    <2> QED
      BY <2>1, <2>3, <2>6
  <1>2. Inv /\ ScreenTypes /\ CallTypes /\ ShareTypes => TypeOK
    BY DEF Inv, Types, ScreenTypes, CallTypes, ShareTypes, TypeOK
  <1>3. Inv => Types
    BY DEF Inv
  <1> QED
    BY <1>1, <1>2, <1>3, ScreenStep, CallStep, ShareStep, InvCorrect, PTL DEF Spec
=============================================================================
