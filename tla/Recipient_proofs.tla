-------------------------- MODULE Recipient_proofs --------------------------
(***************************************************************************)
(* Theorems about Recipient, for any number of chunks, of attempts at the  *)
(* same time and of chunks the gateway reports.  An attempt in the chunk   *)
(* loop has opened the metadata, so its key is the one the share was       *)
(* sealed with; under that key a body opens in its own place only.  The    *)
(* form of a share with a password is left when an attempt starts and      *)
(* comes back when it ends, so its attempts never overlap.                 *)
(***************************************************************************)
EXTENDS Recipient, TLAPS

\* The first chunks of the sealed file, in their order.
Prefix(blob) ==
    /\ blob \in Seq(Int)
    /\ Len(blob) <= ChunkCount
    /\ \A j \in 1 .. Len(blob) : blob[j] = j - 1

\* The types that the argument needs.
LoopTypes ==
    /\ pc \in [Attempts -> {"idle", "meta", "chunk", "fetching"}]
    /\ pw \in [Attempts -> Passwords]
    /\ typed \in Passwords
    /\ total \in [Attempts -> 0 .. MaxReported]
    /\ DOMAIN got = Attempts

\* An attempt that fetches has the right key and, unless the share is of the
\* older kind, the sealed count.
LoopInv ==
    \A a \in Attempts : pc[a] \in {"chunk", "fetching"} =>
        /\ KeyOf(a) = SealingKey(share.password)
        /\ share.legacy \/ total[a] = ChunkCount

\* What was decrypted so far is a beginning of the file.
GotInv == \A a \in Attempts : Prefix(got[a])

\* A file that is shown or saved is one too, and the whole of it unless the
\* share is of the older kind.
Whole(blob) ==
    Prefix(blob) /\ (share.legacy \/ blob = <<>> \/ Len(blob) = ChunkCount)

FileInv == Whole(disk) /\ Whole(ui.blob)

\* The inductive invariant.
Inv == LoopTypes /\ LoopInv /\ GotInv /\ FileInv

\* Nothing has been decrypted yet.
LEMMA PrefixEmpty == Prefix(<<>>)
  BY ChunkCountAssumption DEF Prefix

\* The next chunk extends a beginning of the file.
LEMMA PrefixAppend ==
  ASSUME NEW blob, Prefix(blob), Len(blob) < ChunkCount
  PROVE  Prefix(Append(blob, Len(blob)))
  <1> DEFINE longer == Append(blob, Len(blob))
  <1>1. blob \in Seq(Int) /\ Len(blob) \in Nat /\ Len(blob) \in Int
    BY DEF Prefix
  <1>2. longer \in Seq(Int) /\ Len(longer) = Len(blob) + 1
    BY <1>1
  <1>3. ASSUME NEW j \in 1 .. Len(blob) + 1 PROVE longer[j] = j - 1
    <2>1. CASE j \in 1 .. Len(blob)
      BY <1>1, <2>1 DEF Prefix
    <2>2. CASE j = Len(blob) + 1
      BY <1>1, <2>2
    <2> QED
      BY <1>1, <2>1, <2>2
  <1>4. Len(longer) <= ChunkCount
    BY <1>1, <1>2, ChunkCountAssumption
  <1> HIDE DEF longer
  <1>5. Prefix(longer)
    BY <1>2, <1>3, <1>4 DEF Prefix
  <1> QED
    BY <1>5 DEF longer

\* A beginning of the file that is as long as the file is the file.
LEMMA WholeGenuine ==
  ASSUME NEW blob, Whole(blob) PROVE Genuine(blob)
  <1>1. File \in Seq(Int) /\ Len(File) = ChunkCount
    BY ChunkCountAssumption DEF File
  <1>2. /\ blob \in Seq(Int) /\ Len(blob) \in Nat /\ Len(blob) <= ChunkCount
        /\ \A j \in 1 .. Len(blob) : blob[j] = j - 1
    BY DEF Whole, Prefix
  <1>3. blob = SubSeq(File, 1, Len(blob))
    <2>1. SubSeq(File, 1, Len(blob)) = [j \in 1 .. Len(blob) |-> File[j]]
      BY <1>1, <1>2, ChunkCountAssumption
    <2>2. \A j \in 1 .. Len(blob) : File[j] = j - 1
      BY <1>2, ChunkCountAssumption DEF File
    <2>3. blob = [j \in 1 .. Len(blob) |-> blob[j]]
      BY <1>2
    <2> QED
      BY <1>2, <2>1, <2>2, <2>3
  <1>4. Len(blob) = ChunkCount => blob = File
    <2>1. blob = [j \in 1 .. Len(blob) |-> j - 1]
      BY <1>2
    <2> QED
      BY <2>1 DEF File
  <1> QED
    BY <1>2, <1>3, <1>4 DEF Genuine, Whole

\* The loader of the page and the user start with nothing.
LEMMA InvInit == Init => Inv
  <1> SUFFICES ASSUME Init PROVE Inv
    OBVIOUS
  <1>1. LoopTypes /\ LoopInv
    BY MaxReportedAssumption DEF Init, LoopTypes, LoopInv, Passwords
  <1>2. GotInv /\ FileInv
    BY PrefixEmpty DEF Init, GotInv, FileInv, Whole, Plain, Ui
  <1> QED
    BY <1>1, <1>2 DEF Inv

\* A body that opens in place i under the key of the share is chunk i.
LEMMA BodyInPlace ==
  ASSUME NEW hasPassword \in BOOLEAN, NEW body \in Bodies(hasPassword), NEW i \in Nat,
         Opens(body, SealingKey(hasPassword), BuildChunkAad("this", i))
  PROVE  i < ChunkCount /\ body.plain = i
  <1>1. body \notin {ForeignChunk(k) : k \in Indices}
    BY DEF ForeignChunk, Opens, EncryptChunk, DeriveAeadKey, SealingKey
  <1>2. body # Garbage
    BY DEF Garbage, Opens, EncryptChunk, DeriveAeadKey, SealingKey
  <1>3. PICK k \in Indices : body = SealedChunk(hasPassword, k)
    BY <1>1, <1>2 DEF Bodies
  <1>4. k = i /\ body.plain = k
    BY <1>3 DEF SealedChunk, Opens, EncryptChunk, BuildChunkAad
  <1> QED
    BY <1>4, ChunkCountAssumption DEF Indices

\* The end of an attempt leaves the other attempts alone.
LEMMA EndedKeeps ==
  ASSUME Inv, NEW a \in Attempts, Ended(a), UNCHANGED <<share, urlKey, typed>>
  PROVE  LoopTypes' /\ LoopInv' /\ GotInv'
  <1>1. LoopTypes'
    BY MaxReportedAssumption DEF Inv, Ended, LoopTypes, Passwords
  <1>2. LoopInv'
    BY DEF Inv, Ended, LoopTypes, LoopInv, KeyOf
  <1>3. GotInv'
    BY PrefixEmpty DEF Inv, Ended, LoopTypes, GotInv
  <1> QED
    BY <1>1, <1>2, <1>3

\* The catch block shows and saves nothing.
LEMMA FailKeeps ==
  ASSUME Inv, NEW a \in Attempts, NEW code, Fail(a, code) PROVE Inv'
  <1>1. LoopTypes' /\ LoopInv' /\ GotInv'
    BY EndedKeeps DEF Fail, shareVars
  <1>2. ui'.blob \in {ui.blob, <<>>}
    BY DEF Fail, SetUi, AfterFailure, Plain, Ui
  <1>3. FileInv'
    BY <1>2, PrefixEmpty DEF Inv, Fail, FileInv, Whole, shareVars
  <1> QED
    BY <1>1, <1>3 DEF Inv

\* The page, the buttons and the preview.
LEMMA UserStep ==
  ASSUME Inv, LoadPage \/ UserNext \/ PaneRead PROVE Inv'
  <1>1. UNCHANGED <<share, urlKey>>
    BY DEF LoadPage, UserNext, PaneRead, TypePassword, PasswordMissing, StartDownload,
           Cancel, DownloadAgain, TryAgain, Leave, shareVars
  <1>2. disk' \in {disk, ui.blob} /\ ui'.blob \in {ui.blob, <<>>}
    BY DEF LoadPage, UserNext, PaneRead, TypePassword, PasswordMissing, StartDownload,
           Cancel, DownloadAgain, TryAgain, Leave, AfterStart, Plain, Ui
  <1>3. FileInv'
    BY <1>1, <1>2, PrefixEmpty DEF Inv, FileInv, Whole
  <1>4. CASE \E a \in Attempts : StartDownload(a)
    <2>1. PICK a \in Attempts : StartDownload(a)
      BY <1>4
    <2>2. LoopTypes' /\ GotInv'
      BY <2>1 DEF Inv, StartDownload, LoopTypes, GotInv
    <2>3. LoopInv'
      BY <1>1, <2>1 DEF Inv, StartDownload, LoopTypes, LoopInv, KeyOf
    <2> QED
      BY <1>3, <2>2, <2>3 DEF Inv
  <1>5. CASE ~\E a \in Attempts : StartDownload(a)
    <2>1. UNCHANGED <<pc, pw, total, got>> /\ typed' \in Passwords
      BY <1>5 DEF Inv, LoopTypes, LoadPage, UserNext, PaneRead, TypePassword,
           PasswordMissing, Cancel, DownloadAgain, TryAgain, Leave, attemptVars
    <2>2. LoopTypes' /\ GotInv'
      BY <2>1 DEF Inv, LoopTypes, GotInv
    <2>3. LoopInv'
      BY <1>1, <2>1 DEF Inv, LoopInv, KeyOf
    <2> QED
      BY <1>3, <2>2, <2>3 DEF Inv
  <1> QED
    BY <1>4, <1>5

\* The chunk loop is entered with a key that opened the metadata and with the
\* count in it.
LEMMA DescriptorStep ==
  ASSUME Inv, NEW a \in Attempts, DescriptorArrives(a) PROVE Inv'
  <1>1. PICK count \in 1 .. MaxReported :
            CountSealed(count) /\ total' = [total EXCEPT ![a] = count]
    BY DEF DescriptorArrives
  <1>2. UNCHANGED <<share, urlKey, pw, got, typed, disk, ui>>
    BY DEF DescriptorArrives, shareVars
  <1>3. LoopTypes'
    BY <1>1, <1>2, MaxReportedAssumption DEF Inv, DescriptorArrives, LoopTypes
  <1>4. GotInv' /\ FileInv'
    BY <1>2 DEF Inv, GotInv, FileInv, Whole
  <1>5. KeyOf(a) = SealingKey(share.password)
    BY DEF DescriptorArrives, MetaOpens, Meta, SealedMeta, Opens, EncryptChunk
  <1>6. share.legacy \/ count = ChunkCount
    BY <1>1, ChunkCountAssumption DEF CountSealed, Meta, SealedMeta, EncryptChunk, NoCount
  <1>7. LoopInv'
    <2> SUFFICES ASSUME NEW b \in Attempts, pc'[b] \in {"chunk", "fetching"}
                 PROVE  /\ KeyOf(b)' = SealingKey(share'.password)
                        /\ share'.legacy \/ total'[b] = ChunkCount
      BY <1>2 DEF LoopInv
    <2>1. KeyOf(b)' = KeyOf(b)
      BY <1>2 DEF KeyOf
    <2>2. CASE b = a
      BY <1>1, <1>2, <1>5, <1>6, <2>1, <2>2 DEF Inv, LoopTypes
    <2>3. CASE b # a
      BY <1>1, <1>2, <2>1, <2>3 DEF Inv, LoopTypes, LoopInv, DescriptorArrives
    <2> QED
      BY <2>2, <2>3
  <1> QED
    BY <1>3, <1>4, <1>7 DEF Inv

\* A chunk that opens extends the beginning of the file by the chunk that is
\* next in it, whichever body the service came up with.
LEMMA ChunkStep ==
  ASSUME Inv, NEW a \in Attempts, ChunkArrives(a), share.password \in BOOLEAN
  PROVE  Inv'
  <1> DEFINE i == Len(got[a])
  <1>1. PICK body \in Bodies(share.password) :
          \/ /\ Opens(body, KeyOf(a), BuildChunkAad("this", i))
             /\ got' = [got EXCEPT ![a] = Append(got[a], body.plain)]
             /\ pc' = [pc EXCEPT ![a] = "chunk"]
             /\ SetUi(IF handedOff[a] THEN ui ELSE Ui("busy", a, FALSE, <<>>, NoPane))
             /\ UNCHANGED <<shareVars, fileKind, page, typed, passwordError, pw,
                            total, aborted, disk, reported>>
          \/ \E code \in {"wrong_password", "decrypt"} : Fail(a, code)
    BY DEF ChunkArrives
  <1>2. CASE \E code \in {"wrong_password", "decrypt"} : Fail(a, code)
    BY <1>2, FailKeeps
  <1>3. CASE /\ Opens(body, KeyOf(a), BuildChunkAad("this", i))
             /\ got' = [got EXCEPT ![a] = Append(got[a], body.plain)]
             /\ pc' = [pc EXCEPT ![a] = "chunk"]
             /\ SetUi(IF handedOff[a] THEN ui ELSE Ui("busy", a, FALSE, <<>>, NoPane))
             /\ UNCHANGED <<shareVars, fileKind, page, typed, passwordError, pw,
                            total, aborted, disk, reported>>
    <2>1. UNCHANGED <<share, urlKey, typed, pw, total, disk>>
      BY <1>3 DEF shareVars
    <2>2. pc[a] = "fetching" /\ KeyOf(a) = SealingKey(share.password)
      BY DEF ChunkArrives, Inv, LoopInv
    <2>3. Prefix(got[a]) /\ i \in Nat
      BY DEF Inv, GotInv, Prefix
    <2>4. i < ChunkCount /\ body.plain = i
      BY <1>3, <2>2, <2>3, BodyInPlace
    <2>5. Prefix(Append(got[a], body.plain))
      BY <2>3, <2>4, PrefixAppend
    <2>6. LoopTypes'
      BY <1>3, <2>1 DEF Inv, LoopTypes
    <2>7. GotInv'
      BY <1>3, <2>5 DEF Inv, LoopTypes, GotInv
    <2>8. LoopInv'
      BY <1>3, <2>1, <2>2 DEF Inv, LoopTypes, LoopInv, KeyOf
    <2>9. FileInv'
      <3>1. ui'.blob \in {ui.blob, <<>>}
        BY <1>3 DEF SetUi, Ui
      <3> QED
        BY <2>1, <3>1, PrefixEmpty DEF Inv, FileInv, Whole
    <2> QED
      BY <2>6, <2>7, <2>8, <2>9 DEF Inv
  <1> QED
    BY <1>1, <1>2, <1>3

\* A file is shown or saved when as many chunks were decrypted as the
\* descriptor names: all of them, where the count was sealed.
LEMMA AssembleStep ==
  ASSUME Inv, NEW a \in Attempts, Assemble(a) PROVE Inv'
  <1>1. CASE Fail(a, "decrypt")
    BY <1>1, FailKeeps
  <1>2. CASE Deliver(a)
    <2>1. LoopTypes' /\ LoopInv' /\ GotInv'
      BY <1>2, EndedKeeps DEF Deliver, shareVars
    <2>2. Whole(got[a])
      <3>1. Prefix(got[a]) /\ Len(got[a]) \in Nat /\ Len(got[a]) <= ChunkCount
        BY DEF Inv, GotInv, Prefix
      <3>2. total[a] \in Nat /\ ~(Len(got[a]) < total[a])
        BY MaxReportedAssumption DEF Assemble, MoreChunks, Inv, LoopTypes
      <3>3. share.legacy \/ total[a] = ChunkCount
        BY DEF Assemble, Inv, LoopInv
      <3> QED
        BY <3>1, <3>2, <3>3, ChunkCountAssumption DEF Whole
    <2>3. disk' \in {disk, got[a]} /\ ui'.blob \in {ui.blob, got[a]}
      BY <1>2 DEF Deliver, SetUi, Ui
    <2>4. FileInv'
      BY <1>2, <2>2, <2>3 DEF Inv, FileInv, Whole, Deliver, shareVars
    <2> QED
      BY <2>1, <2>4 DEF Inv
  <1> QED
    BY <1>1, <1>2 DEF Assemble

\* The request for a chunk and the failures.
LEMMA AttemptStep ==
  ASSUME Inv, NEW a \in Attempts, AttemptNext(a), share.password \in BOOLEAN
  PROVE  Inv'
  <1>1. CASE FetchChunk(a)
    <2>1. UNCHANGED <<share, urlKey, typed, pw, total, got, disk, ui>>
      BY <1>1 DEF FetchChunk, shareVars
    <2>2. LoopTypes' /\ GotInv' /\ FileInv'
      BY <1>1, <2>1 DEF FetchChunk, Inv, LoopTypes, GotInv, FileInv, Whole
    <2>3. LoopInv'
      BY <1>1, <2>1 DEF FetchChunk, Inv, LoopTypes, LoopInv, KeyOf
    <2> QED
      BY <2>2, <2>3 DEF Inv
  <1>2. CASE \/ DescriptorFails(a) \/ MetaRefused(a) \/ CountRefused(a)
             \/ AbortNoticed(a) \/ ChunkGone(a) \/ FetchFails(a)
    <2>1. \E code \in {"share_not_found", "metadata", "unknown", "wrong_password",
                       "password_required", "decrypt", "cancelled", "already_used",
                       "transport"} : Fail(a, code)
      BY <1>2 DEF DescriptorFails, MetaRefused, CountRefused, AbortNoticed, ChunkGone,
                  FetchFails
    <2> QED
      BY <2>1, FailKeeps
  <1>3. CASE DescriptorArrives(a)
    BY <1>3, DescriptorStep
  <1>4. CASE ChunkArrives(a)
    BY <1>4, ChunkStep
  <1>5. CASE Assemble(a)
    BY <1>5, AssembleStep
  <1> QED
    BY <1>1, <1>2, <1>3, <1>4, <1>5 DEF AttemptNext

\* The options of a share do not change.
ShareType == share \in [password : BOOLEAN, burn : BOOLEAN, legacy : BOOLEAN]

\* Every step of the page keeps the invariant.
LEMMA InvStep == Inv /\ ShareType /\ [Next]_vars => Inv' /\ ShareType'
  <1> SUFFICES ASSUME Inv, ShareType, [Next]_vars PROVE Inv' /\ ShareType'
    OBVIOUS
  <1>1. share' = share
    BY DEF Next, vars, AttemptNext, DescriptorFails, MetaRefused, CountRefused,
           DescriptorArrives, AbortNoticed, FetchChunk, ChunkGone, FetchFails,
           ChunkArrives, Assemble, Deliver, Fail, LoadPage, UserNext, PaneRead,
           TypePassword, PasswordMissing, StartDownload, Cancel, DownloadAgain,
           TryAgain, Leave, shareVars
  <1>2. Inv'
    <2>1. CASE UNCHANGED vars
      BY <2>1 DEF vars, Inv, LoopTypes, LoopInv, KeyOf, GotInv, FileInv, Whole
    <2>2. CASE Next
      BY <2>2, UserStep, AttemptStep DEF Next, ShareType
    <2> QED
      BY <2>1, <2>2
  <1> QED
    BY <1>1, <1>2 DEF ShareType

\* The invariant holds throughout.
THEOREM InvCorrect == Spec => []Inv
  <1>1. Init => Inv /\ ShareType
    BY InvInit DEF Init, ShareType
  <1> QED
    BY <1>1, InvStep, PTL DEF Spec

\* downloadFile of download.ts and the Decrypt component: whatever the gateway
\* and the ingest service hand out, a file that is shown or saved is the sealed
\* one, or a beginning of it for a share without sealed count.
THEOREM GenuineCorrect == Spec => []FilesGenuine
  <1>1. Inv => FilesGenuine
    BY WholeGenuine DEF Inv, FileInv, FilesGenuine
  <1> QED
    BY <1>1, InvCorrect, PTL

\* downloadFile asks for a chunk only when its key has opened the metadata.
THEOREM MistypeCorrect == Spec => []MistypeCostsNothing
  <1>1. Inv => MistypeCostsNothing
    BY DEF Inv, LoopInv, MistypeCostsNothing
  <1> QED
    BY <1>1, InvCorrect, PTL

-----------------------------------------------------------------------------
\* What is on the screen.

\* isPreviewable and classifyPreview of Preview.tsx agree on every file type:
\* what is not saved at once gets a pane.
LEMMA PreviewAgrees ==
  ASSUME NEW kind \in FileKinds, IsPreviewable(kind) PROVE ClassifyPreview(kind) # "none"
  BY DEF FileKinds, Mimes, Extensions, IsPreviewable, ClassifyPreview

\* A file that was not saved is of a type that has a preview.
ShownInv ==
    /\ fileKind \in FileKinds \cup {UnknownKind}
    /\ ui.kind = "done" /\ ~ui.saved => fileKind # UnknownKind /\ IsPreviewable(fileKind)

\* A share with a password has one attempt at a time, and none while the form,
\* a file or an error is on the screen.
OneAttempt ==
    share.password =>
        /\ \A a, b \in Attempts : pc[a] # "idle" /\ pc[b] # "idle" => a = b
        /\ ui.kind \notin {"deriving", "busy"} => \A a \in Attempts : pc[a] = "idle"

\* How an attempt ends in the catch block.
FailCodes == {"share_not_found", "metadata", "unknown", "wrong_password",
              "password_required", "decrypt", "cancelled", "already_used", "transport"}

\* What a step of an attempt does to the screen and to where it stands.
LEMMA AttemptScreen ==
  ASSUME NEW a \in Attempts, AttemptNext(a)
  PROVE  /\ share' = share /\ page' = page
         /\ \/ /\ pc[a] # "idle" /\ fileKind' = fileKind
               /\ \E to \in {"chunk", "fetching"} : pc' = [pc EXCEPT ![a] = to]
               /\ ui' = ui \/ ui' = Ui("busy", a, FALSE, <<>>, NoPane)
            \/ /\ pc[a] # "idle" /\ fileKind' = fileKind
               /\ pc' = [pc EXCEPT ![a] = "idle"]
               /\ (ui' = ui /\ page = "gone") \/ ui' \in {Plain("ready"), Plain("error")}
            \/ Deliver(a) /\ pc[a] # "idle"
  <1> USE DEF shareVars
  <1>1. CASE DescriptorArrives(a) \/ FetchChunk(a)
    BY <1>1 DEF DescriptorArrives, FetchChunk
  <1>2. ASSUME NEW code, Fail(a, code), pc[a] # "idle"
        PROVE  /\ share' = share /\ page' = page
               /\ fileKind' = fileKind
               /\ pc' = [pc EXCEPT ![a] = "idle"]
               /\ (ui' = ui /\ page = "gone") \/ ui' \in {Plain("ready"), Plain("error")}
    BY <1>2 DEF Fail, Ended, SetUi, AfterFailure
  <1>3. CASE \/ DescriptorFails(a) \/ MetaRefused(a) \/ CountRefused(a)
             \/ AbortNoticed(a) \/ ChunkGone(a) \/ FetchFails(a)
    <2>1. pc[a] # "idle" /\ \E code \in FailCodes : Fail(a, code)
      BY <1>3 DEF DescriptorFails, MetaRefused, CountRefused, AbortNoticed, ChunkGone,
                  FetchFails, FailCodes
    <2> QED
      BY <1>2, <2>1
  <1>4. CASE ChunkArrives(a)
    <2>1. \/ /\ pc[a] # "idle" /\ pc' = [pc EXCEPT ![a] = "chunk"]
             /\ SetUi(IF handedOff[a] THEN ui ELSE Ui("busy", a, FALSE, <<>>, NoPane))
             /\ UNCHANGED <<share, fileKind, page>>
          \/ pc[a] # "idle" /\ \E code \in FailCodes : Fail(a, code)
      BY <1>4 DEF ChunkArrives, FailCodes
    <2>2. CASE /\ pc[a] # "idle" /\ pc' = [pc EXCEPT ![a] = "chunk"]
               /\ SetUi(IF handedOff[a] THEN ui ELSE Ui("busy", a, FALSE, <<>>, NoPane))
               /\ UNCHANGED <<share, fileKind, page>>
      BY <2>2 DEF SetUi
    <2> QED
      BY <1>2, <2>1, <2>2
  <1>5. CASE Assemble(a)
    <2>1. CASE Fail(a, "decrypt")
      BY <1>2, <1>5, <2>1 DEF Assemble
    <2>2. CASE Deliver(a)
      BY <1>5, <2>2 DEF Assemble, Deliver
    <2> QED
      BY <1>5, <2>1, <2>2 DEF Assemble
  <1> QED
    BY <1>1, <1>3, <1>4, <1>5 DEF AttemptNext

\* What a button, the loader or the preview does to them.
LEMMA UserScreen ==
  ASSUME LoadPage \/ UserNext \/ PaneRead
  PROVE  /\ share' = share /\ fileKind' = fileKind
         /\ \/ UNCHANGED pc /\ (ui'.kind = ui.kind /\ (ui'.saved \/ ui'.saved = ui.saved))
            \/ UNCHANGED pc /\ ui.kind = "error" /\ ui' = Plain("ready")
            \/ \E a \in Attempts :
                 /\ ui.kind = "ready" /\ pc' = [pc EXCEPT ![a] = "meta"]
                 /\ ui' = AfterStart
  BY DEF LoadPage, UserNext, PaneRead, TypePassword, PasswordMissing, StartDownload,
         Cancel, DownloadAgain, TryAgain, Leave, Ui, shareVars, attemptVars, SaveOffered

\* No step leaves an unsaved file of a type without preview on the screen.
LEMMA ShownStep == ShownInv /\ [Next]_vars => ShownInv'
  <1> SUFFICES ASSUME ShownInv, [Next]_vars PROVE ShownInv'
    OBVIOUS
  <1>1. CASE LoadPage \/ UserNext \/ PaneRead
    BY <1>1, UserScreen DEF ShownInv, Plain, Ui, AfterStart
  <1>2. ASSUME NEW a \in Attempts, AttemptNext(a), ~Deliver(a) PROVE ShownInv'
    BY <1>2, AttemptScreen DEF ShownInv, Plain, Ui
  <1>3. ASSUME NEW a \in Attempts, Deliver(a) PROVE ShownInv'
    <2>1. UnknownKind \notin FileKinds
      BY DEF FileKinds, UnknownKind, Mimes
    <2>2. fileKind' \in FileKinds /\ (fileKind # UnknownKind => fileKind' = fileKind)
      BY <1>3 DEF Deliver, ShownInv
    <2>3. ASSUME ~IsPreviewable(fileKind') PROVE ui' = ui \/ ui'.saved
      <3>1. (~IsPreviewable(fileKind')) = TRUE
        BY <2>3
      <3>2. ui' = ui \/ ui' = Ui("done", NoAttempt, TRUE, got[a], NoPane)
        BY <1>3, <2>3, <3>1 DEF Deliver, SetUi
      <3> QED
        BY <3>2 DEF Ui
    <2> QED
      BY <2>1, <2>2, <2>3 DEF ShownInv
  <1>4. CASE UNCHANGED vars
    BY <1>4 DEF vars, ShownInv
  <1> QED
    BY <1>1, <1>2, <1>3, <1>4 DEF Next

\* No step starts an attempt of a share with a password beside another one.
LEMMA OneAttemptStep == LoopTypes /\ OneAttempt /\ [Next]_vars => OneAttempt'
  <1> SUFFICES ASSUME LoopTypes, OneAttempt, [Next]_vars PROVE OneAttempt'
    OBVIOUS
  <1> USE DEF LoopTypes
  <1>1. CASE LoadPage \/ UserNext \/ PaneRead
    BY <1>1, UserScreen DEF OneAttempt, AfterStart, Plain, Ui
  <1>2. ASSUME NEW a \in Attempts, AttemptNext(a), ~Deliver(a) PROVE OneAttempt'
    BY <1>2, AttemptScreen DEF OneAttempt, Plain, Ui
  <1>3. ASSUME NEW a \in Attempts, AttemptNext(a), Deliver(a) PROVE OneAttempt'
    <2>1. share' = share /\ pc' = [pc EXCEPT ![a] = "idle"]
      BY <1>3, AttemptScreen DEF Deliver, Ended
    <2>2. share.password => \A b \in Attempts : pc'[b] = "idle"
      BY <1>3, <2>1, AttemptScreen DEF OneAttempt
    <2> QED
      BY <2>1, <2>2 DEF OneAttempt
  <1>4. CASE UNCHANGED vars
    BY <1>4 DEF vars, OneAttempt
  <1> QED
    BY <1>1, <1>2, <1>3, <1>4 DEF Next

\* The done state of Decrypt.tsx: a file that was not saved at once is in a
\* preview pane.
THEOREM ShownCorrect == Spec => []UnsavedIsShown
  <1>1. Init => ShownInv
    BY DEF Init, ShownInv, Plain, Ui
  <1>2. ShownInv => UnsavedIsShown
    BY PreviewAgrees DEF ShownInv, UnsavedIsShown
  <1> QED
    BY <1>1, <1>2, ShownStep, PTL DEF Spec

\* startDownload of Decrypt.tsx: with a password, no attempt is left running
\* that could replace a decrypted file by its own outcome.
THEOREM DoneCorrect == Spec => DoneIsKept
  <1>1. Init => OneAttempt
    BY DEF Init, OneAttempt
  <1>2. ASSUME OneAttempt, [Next]_vars, share.password, ui.kind = "done"
        PROVE  ui'.kind = "done"
    <2>1. \A a \in Attempts : pc[a] = "idle"
      BY <1>2 DEF OneAttempt
    <2>2. ~\E a \in Attempts : AttemptNext(a)
      BY <2>1, AttemptScreen
    <2>3. CASE LoadPage \/ UserNext \/ PaneRead
      BY <1>2, <2>3, UserScreen
    <2>4. CASE UNCHANGED vars
      BY <1>2, <2>4 DEF vars
    <2> QED
      BY <1>2, <2>2, <2>3, <2>4 DEF Next
  <1>3. OneAttempt /\ [Next]_vars
        => [share.password /\ ui.kind = "done" => ui'.kind = "done"]_vars
    BY <1>2
  <1>4. Inv => LoopTypes
    BY DEF Inv
  <1> QED
    BY <1>1, <1>3, <1>4, OneAttemptStep, InvCorrect, PTL DEF Spec, DoneIsKept

-----------------------------------------------------------------------------
(* What DownloadSettles rests on besides fairness.                         *)

\* While the page is open, a progress bar belongs to an attempt that runs: the
\* one that wrote it, which is also the one that Cancel aborts.
SpinnerRuns ==
    page # "gone" =>
        /\ ui.kind = "busy" => ui.by \in Attempts /\ pc[ui.by] # "idle"
        /\ ui.kind = "deriving" => \E a \in Attempts : pc[a] # "idle"

\* Every step keeps it: whichever attempt ends writes over the progress bar.
LEMMA SpinnerStep == LoopTypes /\ SpinnerRuns /\ [Next]_vars => SpinnerRuns'
  <1> SUFFICES ASSUME LoopTypes, SpinnerRuns, [Next]_vars PROVE SpinnerRuns'
    OBVIOUS
  <1>1. CASE LoadPage \/ UserNext \/ PaneRead
    <2>1. CASE ui' = ui /\ UNCHANGED pc
      <3>1. page' # "gone" => page # "gone"
        BY <1>1 DEF LoadPage, UserNext, PaneRead, TypePassword, PasswordMissing,
               StartDownload, Cancel, DownloadAgain, TryAgain, Leave
      <3> QED
        BY <2>1, <3>1 DEF SpinnerRuns
    <2>2. CASE \E a \in Attempts : StartDownload(a)
      BY <2>2 DEF StartDownload, AfterStart, Plain, Ui, SpinnerRuns, LoopTypes
    <2>3. CASE DownloadAgain \/ TryAgain
      BY <2>3 DEF DownloadAgain, TryAgain, SaveOffered, Plain, Ui, SpinnerRuns
    <2>4. CASE PaneRead
      BY <2>4 DEF PaneRead, Ui, SpinnerRuns, attemptVars
    <2> QED
      BY <1>1, <2>1, <2>2, <2>3, <2>4
        DEF UserNext, LoadPage, TypePassword, PasswordMissing, Cancel, Leave, attemptVars
  <1>2. ASSUME NEW a \in Attempts, AttemptNext(a), ~Deliver(a) PROVE SpinnerRuns'
    BY <1>2, AttemptScreen DEF SpinnerRuns, LoopTypes, Plain, Ui
  <1>3. ASSUME NEW a \in Attempts, Deliver(a) PROVE SpinnerRuns'
    <2>1. page' = page /\ (page = "gone" \/ ui'.kind = "done")
      BY <1>3 DEF Deliver, SetUi, Ui
    <2> QED
      BY <2>1 DEF SpinnerRuns
  <1>4. CASE UNCHANGED vars
    BY <1>4 DEF vars, SpinnerRuns
  <1> QED
    BY <1>1, <1>2, <1>3, <1>4 DEF Next

\* The deriving and busy states of Decrypt.tsx: no outcome of one attempt leaves
\* the progress bar of another behind, however the attempts overlap.
THEOREM SpinnerCorrect == Spec => []SpinnerRuns
  <1>1. Init => SpinnerRuns
    BY DEF Init, SpinnerRuns, Plain, Ui
  <1>2. Inv => LoopTypes
    BY DEF Inv
  <1> QED
    BY <1>1, <1>2, SpinnerStep, InvCorrect, PTL DEF Spec
-----------------------------------------------------------------------------
\* The types.

\* An attempt has never decrypted more chunks than the descriptor names, and
\* none before it has read the descriptor; so no file is longer either.
CountInv ==
    /\ \A a \in Attempts :
        /\ Len(got[a]) <= total[a]
        /\ pc[a] = "fetching" => Len(got[a]) < total[a]
        /\ pc[a] \in {"idle", "meta"} => got[a] = <<>>
    /\ Len(disk) <= MaxReported /\ Len(ui.blob) <= MaxReported

\* The states of the Decrypt component.
UiStates == [kind : UiKinds, by : Attempts \cup {NoAttempt}, saved : BOOLEAN,
             blob : Files, pane : Panes]

\* The types of the rest.
FlagTypes ==
    /\ urlKey \in {"good", "other", "none"}
    /\ fileKind \in FileKinds \cup {UnknownKind}
    /\ page \in {"loading", "missing-key", "error", "ready", "gone"}
    /\ passwordError \in {"none", "required", "wrong"}
    /\ got = [a \in Attempts |-> got[a]]
    /\ handedOff \in [Attempts -> BOOLEAN]
    /\ aborted \in [Attempts -> BOOLEAN]
    /\ redeemed \subseteq Indices
    /\ reported \in BOOLEAN

\* A beginning of the file that is no longer than a count is a file.
LEMMA PrefixFile ==
  ASSUME NEW blob, Prefix(blob), Len(blob) <= MaxReported PROVE blob \in Files
  <1>1. /\ Len(blob) \in 0 .. MaxReported /\ Len(blob) <= ChunkCount
        /\ blob \in [1 .. Len(blob) -> Int]
    BY MaxReportedAssumption DEF Prefix
  <1>2. \A j \in 1 .. Len(blob) : blob[j] \in Indices
    BY <1>1, ChunkCountAssumption DEF Prefix, Indices
  <1>3. blob \in [1 .. Len(blob) -> Indices]
    BY <1>1, <1>2
  <1> QED
    BY <1>1, <1>3 DEF Files

\* So is no chunk at all.
LEMMA EmptyFile == <<>> \in Files
  <1>1. Len(<<>>) <= MaxReported
    BY MaxReportedAssumption
  <1> QED
    BY <1>1, PrefixEmpty, PrefixFile

\* What the component is set to.
LEMMA UiTyped ==
  ASSUME NEW kind \in UiKinds, NEW by \in Attempts \cup {NoAttempt}, NEW saved \in BOOLEAN,
         NEW blob \in Files, NEW pane \in Panes
  PROVE  Ui(kind, by, saved, blob, pane) \in UiStates
  BY DEF Ui, UiStates

\* A component without a file.
LEMMA PlainTyped ==
  ASSUME NEW kind \in UiKinds PROVE Plain(kind) \in UiStates /\ Plain(kind).blob = <<>>
  <1>1. NoPane \in Panes
    BY DEF NoPane, Panes
  <1>2. Plain(kind) \in UiStates
    BY <1>1, EmptyFile, UiTyped DEF Plain
  <1> QED
    BY <1>2 DEF Plain, Ui

\* Preview opens with a pane.
LEMMA PaneTyped ==
  ASSUME ui \in UiStates, NEW kind PROVE OpenPanes(kind) \subseteq Panes /\ NoPane \in Panes
  <1>1. ui.pane \in Panes /\ NoPane \in Panes
    BY DEF UiStates, NoPane, Panes
  <1>2. ui.pane.content \in {"none", "loading", "shown", "unavailable"}
    BY <1>1 DEF Panes
  <1> DEFINE content == IF ui.pane = NoPane THEN "loading" ELSE ui.pane.content
  <1>3. content \in {"none", "loading", "shown", "unavailable"}
    BY <1>2
  <1> HIDE DEF content
  <1>4. /\ [content |-> content, reading |-> TRUE] \in Panes
        /\ [content |-> "shown", reading |-> FALSE] \in Panes
        /\ [content |-> "unavailable", reading |-> FALSE] \in Panes
    BY <1>3 DEF Panes
  <1>5. OpenPanes(kind) \subseteq Panes
    <2>1. OpenPanes(kind) \in
            {{NoPane}, {[content |-> "shown", reading |-> FALSE]},
             {[content |-> content, reading |-> TRUE],
              [content |-> "unavailable", reading |-> FALSE]}}
      BY DEF OpenPanes, content
    <2> QED
      BY <1>1, <1>4, <2>1
  <1> QED
    BY <1>1, <1>5

\* The end of an attempt empties its slot.
LEMMA EndedTypes ==
  ASSUME Inv, CountInv, FlagTypes, NEW a \in Attempts, Ended(a)
  PROVE  /\ got' = [b \in Attempts |-> got'[b]]
         /\ handedOff' \in [Attempts -> BOOLEAN] /\ aborted' \in [Attempts -> BOOLEAN]
         /\ \A b \in Attempts :
              /\ Len(got'[b]) <= total'[b]
              /\ pc'[b] = "fetching" => Len(got'[b]) < total'[b]
              /\ pc'[b] \in {"idle", "meta"} => got'[b] = <<>>
  <1>1. /\ got' = [b \in Attempts |-> got'[b]]
        /\ handedOff' \in [Attempts -> BOOLEAN] /\ aborted' \in [Attempts -> BOOLEAN]
    BY DEF Ended, FlagTypes
  <1>2. /\ got'[a] = <<>> /\ total'[a] = 0 /\ pc'[a] = "idle"
        /\ \A b \in Attempts \ {a} : got'[b] = got[b] /\ total'[b] = total[b] /\ pc'[b] = pc[b]
    BY DEF Ended, Inv, LoopTypes
  <1>3. Len(got'[a]) <= total'[a]
    BY <1>2
  <1> QED
    BY <1>1, <1>2, <1>3 DEF CountInv

\* The catch block of startDownload.
LEMMA FailTypes ==
  ASSUME Inv, CountInv, FlagTypes, ui \in UiStates, NEW a \in Attempts, NEW code,
         Fail(a, code), redeemed' \subseteq Indices
  PROVE  CountInv' /\ FlagTypes' /\ ui' \in UiStates
  <1>1. ui' \in UiStates /\ ui'.blob \in {ui.blob, <<>>}
    <2>1. Plain("ready") \in UiStates /\ Plain("error") \in UiStates
      BY PlainTyped DEF UiKinds
    <2>2. Plain("ready").blob = <<>> /\ Plain("error").blob = <<>>
      BY PlainTyped DEF UiKinds
    <2> QED
      BY <2>1, <2>2 DEF Fail, SetUi, AfterFailure
  <1>2. CountInv'
    BY <1>1, EndedTypes, MaxReportedAssumption DEF Fail, CountInv
  <1>3. FlagTypes'
    BY EndedTypes DEF Fail, FlagTypes, shareVars
  <1> QED
    BY <1>1, <1>2, <1>3

\* The page, the buttons and the preview.
LEMMA UserTypes ==
  ASSUME Inv, CountInv, FlagTypes, ui \in UiStates, LoadPage \/ UserNext \/ PaneRead
  PROVE  CountInv' /\ FlagTypes' /\ ui' \in UiStates
  <1>1. ui' \in UiStates /\ ui'.blob \in {ui.blob, <<>>}
    <2>1. CASE DownloadAgain \/ PaneRead
      <3>1. /\ ui.kind \in UiKinds /\ ui.by \in Attempts \cup {NoAttempt}
            /\ ui.saved \in BOOLEAN /\ ui.blob \in Files
        BY DEF UiStates
      <3>2. PICK saved \in BOOLEAN, pane \in Panes :
                ui' = Ui(ui.kind, ui.by, saved, ui.blob, pane)
        BY <2>1, <3>1 DEF DownloadAgain, PaneRead, AfterRead, Panes, NoPane
      <3> QED
        BY <3>1, <3>2, UiTyped DEF Ui
    <2>2. CASE ~(DownloadAgain \/ PaneRead)
      <3>1. ui' \in {ui, Plain("ready"), Plain("deriving")}
        BY <2>2 DEF LoadPage, UserNext, TypePassword, PasswordMissing, StartDownload,
             Cancel, TryAgain, Leave, AfterStart
      <3> QED
        BY <3>1, PlainTyped DEF UiKinds
    <2> QED
      BY <2>1, <2>2
  <1>2. disk' \in {disk, ui.blob} /\ UNCHANGED <<got, total>>
    BY DEF LoadPage, UserNext, PaneRead, TypePassword, PasswordMissing, StartDownload,
           Cancel, DownloadAgain, TryAgain, Leave, attemptVars
  <1>3. Len(disk') <= MaxReported /\ Len(ui'.blob) <= MaxReported
    BY <1>1, <1>2, MaxReportedAssumption DEF CountInv
  <1>4. \A a \in Attempts : pc'[a] = pc[a] \/ (pc[a] = "idle" /\ pc'[a] = "meta")
    BY DEF LoadPage, UserNext, PaneRead, TypePassword, PasswordMissing, StartDownload,
           Cancel, DownloadAgain, TryAgain, Leave, attemptVars, Inv, LoopTypes
  <1>5. CountInv'
    BY <1>2, <1>3, <1>4 DEF CountInv
  <1>6. aborted' \in [Attempts -> BOOLEAN]
    BY DEF LoadPage, UserNext, PaneRead, TypePassword, PasswordMissing, StartDownload,
           Cancel, DownloadAgain, TryAgain, Leave, attemptVars, FlagTypes
  <1>7. /\ page' \in {"loading", "missing-key", "error", "ready", "gone"}
        /\ passwordError' \in {"none", "required", "wrong"}
    BY DEF LoadPage, UserNext, PaneRead, TypePassword, PasswordMissing, StartDownload,
           Cancel, DownloadAgain, TryAgain, Leave, FlagTypes
  <1>8. UNCHANGED <<urlKey, fileKind, handedOff, redeemed, reported>>
    BY DEF LoadPage, UserNext, PaneRead, TypePassword, PasswordMissing, StartDownload,
           Cancel, DownloadAgain, TryAgain, Leave, attemptVars, shareVars
  <1> QED
    BY <1>1, <1>2, <1>5, <1>6, <1>7, <1>8 DEF FlagTypes

\* The descriptor sets the count before a chunk is there, and a fetch begins below it.
LEMMA LoopStepTypes ==
  ASSUME Inv, CountInv, FlagTypes, ui \in UiStates, NEW a \in Attempts,
         DescriptorArrives(a) \/ FetchChunk(a)
  PROVE  CountInv' /\ FlagTypes' /\ ui' \in UiStates
  <1>1. UNCHANGED <<urlKey, fileKind, page, ui, passwordError, got, handedOff, aborted,
                    disk, redeemed, reported>>
    BY DEF DescriptorArrives, FetchChunk, shareVars
  <1>2. FlagTypes'
    BY <1>1 DEF FlagTypes
  <1>3. /\ \A b \in Attempts \ {a} : pc'[b] = pc[b] /\ total'[b] = total[b]
        /\ Len(got[a]) \in Nat
    BY DEF DescriptorArrives, FetchChunk, Inv, LoopTypes, GotInv, Prefix
  <1>4. CASE DescriptorArrives(a)
    <2>1. pc'[a] = "chunk" /\ total'[a] \in 1 .. MaxReported /\ got[a] = <<>>
      BY <1>4 DEF DescriptorArrives, Inv, LoopTypes, CountInv
    <2>2. Len(got[a]) <= total'[a]
      BY <2>1
    <2> QED
      BY <1>1, <1>2, <1>3, <2>1, <2>2 DEF CountInv
  <1>5. CASE FetchChunk(a)
    <2>1. pc'[a] = "fetching" /\ total' = total /\ Len(got[a]) < total[a]
      BY <1>5 DEF FetchChunk, Inv, LoopTypes, MoreChunks
    <2> QED
      BY <1>1, <1>2, <1>3, <2>1 DEF CountInv
  <1> QED
    BY <1>4, <1>5

\* The service records the delivery of chunks of the share.
LEMMA RedeemedTyped ==
  ASSUME FlagTypes, NEW a PROVE Redeemed(a) \subseteq Indices
  BY DEF Redeemed, FlagTypes

\* A chunk that arrives was missing.
LEMMA ChunkTypes ==
  ASSUME Inv, CountInv, FlagTypes, ui \in UiStates, NEW a \in Attempts, ChunkArrives(a)
  PROVE  CountInv' /\ FlagTypes' /\ ui' \in UiStates
  <1>1. redeemed' \subseteq Indices
    BY RedeemedTyped DEF ChunkArrives
  <1>2. PICK body \in Bodies(share.password) :
          \/ /\ got' = [got EXCEPT ![a] = Append(got[a], body.plain)]
             /\ pc' = [pc EXCEPT ![a] = "chunk"]
             /\ handedOff' = [handedOff EXCEPT ![a] = TRUE]
             /\ SetUi(IF handedOff[a] THEN ui ELSE Ui("busy", a, FALSE, <<>>, NoPane))
             /\ UNCHANGED <<shareVars, fileKind, page, typed, passwordError, pw,
                            total, aborted, disk, reported>>
          \/ \E code \in {"wrong_password", "decrypt"} : Fail(a, code)
    BY DEF ChunkArrives
  <1>3. CASE \E code \in {"wrong_password", "decrypt"} : Fail(a, code)
    BY <1>1, <1>3, FailTypes
  <1>4. CASE /\ got' = [got EXCEPT ![a] = Append(got[a], body.plain)]
             /\ pc' = [pc EXCEPT ![a] = "chunk"]
             /\ handedOff' = [handedOff EXCEPT ![a] = TRUE]
             /\ SetUi(IF handedOff[a] THEN ui ELSE Ui("busy", a, FALSE, <<>>, NoPane))
             /\ UNCHANGED <<shareVars, fileKind, page, typed, passwordError, pw,
                            total, aborted, disk, reported>>
    <2>1. FlagTypes'
      BY <1>1, <1>4 DEF FlagTypes, shareVars
    <2>2. ui' \in UiStates /\ ui'.blob \in {ui.blob, <<>>}
      <3>1. Ui("busy", a, FALSE, <<>>, NoPane) \in UiStates
        BY EmptyFile, UiTyped, PaneTyped DEF UiKinds
      <3>2. Ui("busy", a, FALSE, <<>>, NoPane).blob = <<>>
        BY DEF Ui
      <3> QED
        BY <1>4, <3>1, <3>2 DEF SetUi
    <2>3. /\ pc'[a] = "chunk" /\ got'[a] = Append(got[a], body.plain)
          /\ \A b \in Attempts \ {a} : pc'[b] = pc[b] /\ got'[b] = got[b]
      BY <1>4 DEF Inv, LoopTypes
    <2>4. Len(got'[a]) <= total[a]
      <3>1. Len(got[a]) < total[a] /\ total[a] \in Int
        BY MaxReportedAssumption DEF ChunkArrives, CountInv, Inv, LoopTypes
      <3>2. Len(Append(got[a], body.plain)) = Len(got[a]) + 1 /\ Len(got[a]) \in Nat
        BY DEF Inv, GotInv, Prefix
      <3> QED
        BY <2>3, <3>1, <3>2
    <2>5. Len(disk') <= MaxReported /\ Len(ui'.blob) <= MaxReported
      BY <1>4, <2>2, MaxReportedAssumption DEF CountInv
    <2> QED
      BY <1>4, <2>1, <2>2, <2>3, <2>4, <2>5 DEF CountInv
  <1> QED
    BY <1>2, <1>3, <1>4

\* A file that is delivered is no longer than its descriptor said.
LEMMA AssembleTypes ==
  ASSUME Inv, CountInv, FlagTypes, ui \in UiStates, NEW a \in Attempts, Assemble(a)
  PROVE  CountInv' /\ FlagTypes' /\ ui' \in UiStates
  <1>1. redeemed' \subseteq Indices
    BY DEF Assemble, FlagTypes
  <1>2. CASE Fail(a, "decrypt")
    BY <1>1, <1>2, FailTypes
  <1>3. CASE Deliver(a)
    <2>1. got[a] \in Files /\ Len(got[a]) <= MaxReported
      <3>1. Prefix(got[a]) /\ Len(got[a]) \in Nat /\ total[a] \in 0 .. MaxReported
        BY DEF Inv, GotInv, LoopTypes, Prefix
      <3>2. Len(got[a]) <= MaxReported
        BY <3>1, MaxReportedAssumption DEF CountInv
      <3> QED
        BY <3>1, <3>2, PrefixFile
    <2>2. ui' \in UiStates /\ ui'.blob \in {ui.blob, got[a]}
      <3>1. PICK pane \in Panes, saved \in BOOLEAN :
                SetUi(Ui("done", NoAttempt, saved, got[a], pane))
        BY <1>3, PaneTyped DEF Deliver
      <3>2. Ui("done", NoAttempt, saved, got[a], pane) \in UiStates
        BY <2>1, UiTyped DEF UiKinds
      <3>3. Ui("done", NoAttempt, saved, got[a], pane).blob = got[a]
        BY DEF Ui
      <3> QED
        BY <3>1, <3>2, <3>3 DEF SetUi
    <2>3. disk' \in {disk, got[a]}
      BY <1>3 DEF Deliver
    <2>4. CountInv'
      BY <1>3, <2>1, <2>2, <2>3, EndedTypes DEF Deliver, CountInv
    <2>5. fileKind' \in FileKinds \cup {UnknownKind}
      BY <1>3 DEF Deliver, FlagTypes
    <2>6. FlagTypes'
      BY <1>1, <1>3, <2>5, EndedTypes DEF Deliver, FlagTypes, shareVars
    <2> QED
      BY <2>2, <2>4, <2>6
  <1> QED
    BY <1>2, <1>3 DEF Assemble

\* Every step keeps the types.
LEMMA TypesStep ==
  Inv /\ CountInv /\ FlagTypes /\ ui \in UiStates /\ [Next]_vars
    => CountInv' /\ FlagTypes' /\ ui' \in UiStates
  <1> SUFFICES ASSUME Inv, CountInv, FlagTypes, ui \in UiStates, [Next]_vars
               PROVE  CountInv' /\ FlagTypes' /\ ui' \in UiStates
    OBVIOUS
  <1>1. CASE UNCHANGED vars
    BY <1>1 DEF vars, CountInv, FlagTypes
  <1>2. ASSUME NEW a \in Attempts, AttemptNext(a)
        PROVE  CountInv' /\ FlagTypes' /\ ui' \in UiStates
    <2>1. CASE \/ DescriptorFails(a) \/ MetaRefused(a) \/ CountRefused(a)
               \/ AbortNoticed(a) \/ ChunkGone(a) \/ FetchFails(a)
      <3>1. \E code \in {"share_not_found", "metadata", "unknown", "wrong_password",
                         "password_required", "decrypt", "cancelled", "already_used",
                         "transport"} : Fail(a, code)
        BY <2>1 DEF DescriptorFails, MetaRefused, CountRefused, AbortNoticed, ChunkGone,
                    FetchFails
      <3>2. redeemed' \in {redeemed, Redeemed(a)}
        BY <2>1 DEF DescriptorFails, MetaRefused, CountRefused, AbortNoticed, ChunkGone,
                    FetchFails
      <3>3. redeemed' \subseteq Indices
        BY <3>2, RedeemedTyped DEF FlagTypes
      <3> QED
        BY <3>1, <3>3, FailTypes
    <2>2. CASE DescriptorArrives(a) \/ FetchChunk(a)
      BY <2>2, LoopStepTypes
    <2>3. CASE ChunkArrives(a)
      BY <2>3, ChunkTypes
    <2>4. CASE Assemble(a)
      BY <2>4, AssembleTypes
    <2> QED
      BY <1>2, <2>1, <2>2, <2>3, <2>4 DEF AttemptNext
  <1>3. CASE LoadPage \/ UserNext \/ PaneRead
    BY <1>3, UserTypes
  <1> QED
    BY <1>1, <1>2, <1>3 DEF Next

\* The page keeps its types; above all, no attempt decrypts and no component
\* holds more chunks than a descriptor named, whatever the servers hand out.
THEOREM TypeCorrect == Spec => []TypeOK
  <1> DEFINE UiType == ui \in UiStates
  <1>1. Init => Inv /\ ShareType /\ CountInv /\ FlagTypes /\ UiType
    <2> SUFFICES ASSUME Init PROVE CountInv /\ FlagTypes /\ UiType
      BY InvInit DEF Init, ShareType
    <2>1. ui \in UiStates /\ ui.blob = <<>>
      BY PlainTyped DEF Init, UiKinds
    <2>2. CountInv
      BY <2>1, MaxReportedAssumption DEF Init, CountInv
    <2>3. FlagTypes
      BY DEF Init, FlagTypes
    <2> QED
      BY <2>1, <2>2, <2>3
  <1>2. Inv /\ ShareType /\ CountInv /\ FlagTypes /\ UiType => TypeOK
    <2> SUFFICES ASSUME Inv, ShareType, CountInv, FlagTypes, ui \in UiStates PROVE TypeOK
      OBVIOUS
    <2>1. ASSUME NEW a \in Attempts PROVE got[a] \in Files
      <3>1. Prefix(got[a]) /\ Len(got[a]) \in Nat /\ total[a] \in 0 .. MaxReported
        BY DEF Inv, GotInv, LoopTypes, Prefix
      <3>2. Len(got[a]) <= MaxReported
        BY <3>1, MaxReportedAssumption DEF CountInv
      <3> QED
        BY <3>1, <3>2, PrefixFile
    <2>2. got \in [Attempts -> Files]
      BY <2>1 DEF FlagTypes
    <2>3. disk \in Files
      BY PrefixFile DEF Inv, FileInv, Whole, CountInv
    <2> QED
      BY <2>2, <2>3 DEF Inv, LoopTypes, ShareType, FlagTypes, UiStates, TypeOK
  <1>3. /\ Inv /\ ShareType /\ CountInv /\ FlagTypes /\ UiType
        /\ [Next]_vars
        => Inv' /\ ShareType' /\ CountInv' /\ FlagTypes' /\ UiType'
    BY InvStep, TypesStep
  <1> HIDE DEF UiType
  <1> QED
    BY <1>1, <1>2, <1>3, PTL DEF Spec
=============================================================================
