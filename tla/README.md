# SlothBox in TLA+

SlothBox is a zero-knowledge file-sharing service: the browser encrypts a file
chunk by chunk, the servers store ciphertext, and a share ends by being read
(burn-after-read), revoked, downloaded often enough, or by its TTL. This
directory models the part of the system that has to be right for that promise:
the life of a share across the three services that write it, the audit chain
that records it, the reaper's batches, the two browser clients at the ends of a
share, and the process of the gateway with its limiter.

## 1. Inventory

| Part | Where | State it keeps | Operations |
|---|---|---|---|
| API gateway, shares routes | `apps/api-gateway/src/routes/shares.ts` | none of its own; `shares` in Postgres | `POST /shares`, `GET /shares/:id`, `POST /destroy`, `POST /downloaded` |
| API gateway, rate limiter | `apps/api-gateway/src/middleware/rateLimit.ts` | sorted sets in Valkey | one pipeline per rule and request |
| API gateway, progress socket | `apps/api-gateway/src/ws/progress.ts` | connections per IP, one heartbeat per socket | upgrade, open, message, close |
| API gateway, process | `apps/api-gateway/src/index.ts`, `lib/nats.ts`, `lib/redis.ts` | server, NATS connection, Redis connection, pool | boot, publish, shutdown |
| ingest, upload | `services/ingest/Endpoints/UploadEndpoint.cs` | objects in MinIO, rows of `share_chunks`, `shares.state` | `PUT /chunk` |
| ingest, download | `services/ingest/Endpoints/DownloadEndpoint.cs` | `served_at`, `shares.state` | `GET /chunk` |
| ingest, rate limiter | `services/ingest/Services/ValkeyRateLimiter.cs` | sorted sets in Valkey | one Lua script per request |
| reaper | `services/reaper/internal/reaper` | none of its own | candidate query, batch, remove objects, destruction transaction |
| database | `db/migrations` | `shares`, `share_chunks`, `audit_chain` | `increment_download`, `mark_chunk_served`, `append_audit_entry`, `verify_audit_chain` |
| web, sending side | `apps/web/src/components/UploadDrop.tsx`, `ShareLink.tsx`, `lib/upload.ts`, `lib/myShares.ts`, `app/my-shares` | form, card, list of own shares with revoke tokens in localStorage | drop, pack, upload, cancel, revoke, dashboard |
| web, receiving side | `apps/web/src/app/s/[id]/page.tsx`, `components/Decrypt.tsx`, `Preview.tsx`, `lib/download.ts` | component state, the decrypted file in memory | load, download, cancel, preview, save |
| crypto-core | `packages/crypto-core` | none | AEAD, key derivation, tokens |
| receipt service | `services/receipt` | stubs in this version | none |
| verify tool | `tools/verify` | none; a skeleton in this version | checks the syntax of its argument |

How the parts interact. The services never call each other. They meet in three
shared stores: the `shares` row, which gateway, ingest and reaper all update; the
`share_chunks` rows and the MinIO objects, which ingest creates and the reaper
removes; and `audit_chain`, to which all of them append. The gateway publishes
`slothbox.share.destroyed` on NATS, but nothing in the repository subscribes; the
60-second sweep is the only cleanup trigger. The browser talks to the gateway for
the share and to ingest for its chunks, and trusts neither with the contents.

What is hard:

* every handler reads the share once and acts on that snapshot after several
  awaits, while the other services change the row;
* an upload consists of four separate writes (object, row, two promotions), any of
  which may be the last one to happen;
* a burn is decided by counting delivery stamps while other deliveries, a report,
  a revoke and the reaper run;
* the reaper removes objects outside the transaction that forgets them, may crash
  in between, and may run twice at once during a deployment; its batch is limited,
  and shares it cannot finish come first in every sweep;
* the audit append is part of the transaction in some writers and detached in others;
* the limiter stamps a request once and uses the stamp in pipelines that may wait,
  fail or come back with an error in the place of the count;
* the per-IP count of the progress sockets is read before a database lookup and
  written after it; a shutdown meets open sockets, running requests and a second signal;
* the components of the web app keep one state while several asynchronous calls
  write it: two downloads, an upload behind a packing one, a revoke that is answered
  after its card is gone, a cancel at any point.

What makes each part correct: an upload may only be lost after the share has been
condemned; a share offered for download is complete; a burn follows a complete
delivery; the cap is not overrun; the reaper touches condemned shares only,
overlooks none of them and finishes in the end; the chain stays linked under
concurrent and rolled-back appends, and the verifier finds a changed row and
raises no false alarm; a recipient sees the sealed file or none and loses no burn
share by a typing error; a sender keeps the token of every live link; a refusal by
the limiter is the client's own doing; a shutdown cuts off nobody and ends.

## 2. Modules

| Module | Models |
|---|---|
| `ShareLifecycle` | one share: PUT and GET handlers of ingest, `destroy` and `downloaded` of the gateway, the reapers, the clock, the three stores |
| `WebUpload` | `ShareLifecycle` driven by the sequential uploader of `apps/web/src/lib/upload.ts` |
| `Retention` | what the storage side promises, in five actions and three variables |
| `ShareRetention` | the refinement mapping from `ShareLifecycle` to `Retention` |
| `AuditChain` | `append_audit_entry` under concurrency and rollback, `verify_audit_chain` |
| `AuditLog` | what `append_audit_entry` promises its callers: one atomic step that puts one entry behind all others |
| `ReaperSweep` | several shares under the candidate query with its order and limit, in daemons that fail and restart |
| `SealedShare` | what crypto-core gives both ends of a share, and what `upload.ts` seals with it |
| `Recipient` | page, `Decrypt`, `Preview` and `download.ts`, over `SealedShare` |
| `ShareRequest` | the limits of the form, the create request, `CreateShareSchema`, the rows a descriptor is served for |
| `Sender` | form, packing, `uploadFile`, card, registry and dashboard, over `ShareRequest` |
| `RateLimit` | the sliding windows of the gateway and the sorted sets in Valkey |
| `Gateway` | the process: boot, NATS connection, requests, progress sockets, shutdown |
| `MCShareLifecycle`, `MCAuditChain`, `MCSender`, `MCRateLimit` | values of the constants for TLC |
| `ShareLifecycle_proofs`, `WebUpload_proofs`, `AuditChain_proofs`, `ReaperSweep_proofs`, `Recipient_proofs`, `Sender_proofs`, `RateLimit_proofs`, `Gateway_proofs` | theorems and their proofs |

### ShareLifecycle

`state`, `opts`, `downloadCount`, `destroyedAt`, `reason` are columns of the row in
`shares`. `destroyedAt` only says whether the column is set, because no statement
compares the value. `clock` is the position of `now()` relative to `expires_at`. It
has three positions because the code draws the line in two ways: ingest and
`increment_download` stop at `expires_at`, the reaper starts after it. `row[c]` and
`blob[c]` name the PUT that wrote them, so a row whose nonce belongs to another
upload than the bytes can be told apart. `served` is `served_at IS NOT NULL`.
`delivered` is a history variable: the GETs that let a byte leave.

A handler takes one step per await, an SQL statement or stored procedure is one
step. `mark_chunk_served` and `finalizeDestroy` are atomic because both hold the
lock on the `shares` row until they commit, and the foreign key of `share_chunks`
makes a concurrent insert wait for it.

| Actions | Code |
|---|---|
| `CreateShare` | `POST /shares` |
| `PutStart`, `PutBlob`, `PutUpsert`, `PutPromoteUploading`, `PutCount`, `PutPromoteReady`, `PutFail` | `UploadEndpoint.HandleAsync` in its order; `PutFail` is each catch block and a dead process |
| `GetShare`, `GetChunkRow`, `GetStream`, `GetMark`, `GetFail` | `DownloadEndpoint.HandleAsync`; `GetMark` is `mark_chunk_served` in the finally block |
| `RevokeSelect`, `RevokeUpdate`, `RevokeAudit`, `RevokeFail` | `POST /shares/:shortId/destroy`, with its detached audit append |
| `ReportSelect`, `ReportIncrement`, `ReportUnavailable`, `ReportAudit`, `ReportFail` | `POST /shares/:shortId/downloaded` and `increment_download` |
| `Sweep`, `SweepIdle`, `FetchChunkKeys`, `RemoveBlob`, `FinalizeDestroy`, `ReapFail` | `sweepOnce`, `reapOne`, `removeBlobs`, `finalizeDestroy` |
| `Tick` | time passes `expires_at` |

A request that is refused before it changes anything (404, 410, 413, 429, malformed
header, wrong token) is a stuttering step. Left out of the handlers: header
parsing, size limits, token hashing, metrics and logs, and the `share_created`
audit entry, which nothing reads.

### WebUpload

`ShareLifecycle` allows any client: requests may overlap and repeat. `WebUpload`
restricts the uploader to the loop the web app runs (in order, one at a time, stop
at the first failure) and lets revokes and reports begin only after `uploadFile`
has returned the link and the token. It shows which guarantees of the system rest
on that client and not on the server.

### AuditChain

A transaction takes the row lock (if it is one of those that hold it), then the
advisory lock, reads the tail, inserts and commits, or rolls back at any point. The
`BIGSERIAL` is not rolled back. `Digest` is a constant operator: the proofs assume
nothing about it, TLC uses the pair of its arguments, that is, a digest without
collisions. The body stands for all that is hashed, `occurred_at::text` included: append
and verify are taken to render it alike, that is, their sessions to agree on time zone and
date style. `Alter` changes one committed row behind the back of the procedure.
`VerifyAuditChain` is the procedure as a function of the table. `Log` reads the committed
rows as the log of `AuditLog`: locks, snapshots, the sequence and rollbacks are details
that no reader of the chain can see.

### ReaperSweep

`ShareLifecycle` follows one share through every step of a reap; here a reap is two
steps (the transaction takes the row, and commits) and the question is which shares
get their turn. `stamp` is `destroyed_at` as a rank, `Null` behind all of them.
`FetchReapable(q)` says of a sequence that it is what the query answers with: candidates
in the order `Before` (`destroyed_at`, nulls last, then `expires_at`), and all of them
unless `REAPER_BATCH_SIZE` cuts off the last. The order is strict and total, so there is
one such sequence.
`stuck`, chosen in `Init`, are shares whose objects MinIO never lets go. `Locked` is
`SKIP LOCKED`: a daemon passes over a share that the other one has in hand.
`ReapFails` is every error branch of the loop, `Restart` the end of the process
between any two steps. A sweep that finds nothing is a stuttering step.

### SealedShare and Recipient

Cryptography is symbolic: a ciphertext is the record of the key, the associated data
and the plaintext it was made from, opens under exactly those, and a hash is its own
preimage. The servers are not trusted: `Bodies` are the chunks of the share in any
order, chunks of another share and bytes nobody sealed, and the gateway reports any
chunk count up to `MaxReported`.

`page` is the status of `app/s/[id]/page.tsx`; `ui` is the one state of `Decrypt`
(`kind`, the attempt that wrote it, whether the file was saved, the file itself, the
preview pane); `pc`, `pw`, `total`, `got`, `handedOff` and `aborted` belong to a call
of `startDownload`. Only a share with a password leaves the form at once, so two
attempts may run, which is why there are several.

| Actions | Code |
|---|---|
| `LoadPage`, `Leave` | the effect of the page; navigating away aborts nothing and `SetUi` is then without effect |
| `TypePassword`, `PasswordMissing`, `StartDownload`, `Cancel`, `DownloadAgain`, `TryAgain` | the buttons of `Decrypt` |
| `DescriptorFails`, `MetaRefused`, `CountRefused`, `DescriptorArrives` | `downloadFile` up to the first chunk: descriptor, key, metadata, sealed chunk count |
| `AbortNoticed`, `FetchChunk`, `ChunkGone`, `FetchFails`, `ChunkArrives` | the chunk loop, with the delivery that ingest records |
| `Assemble` | hash test, preview or save, report |
| `PaneRead` | the asynchronous text of a preview |

### ShareRequest and Sender

`ShareRequest` holds both sides of the create request: `ClientAccepts`, `ClampExpiry`,
`CeilChunks` and `CreateRequest` of the web app, `SchemaAccepts` of the gateway.
Sizes are in one unit, times in minutes; `skew` is the difference of the clocks.

`Sender`: `form` and `ui` are the state of `UploadDrop`, `pc`, `size`, `opts`, `left`
and `aborted` a call of `startUpload`, `card` the mounted `ShareLink`, `stored` and
`entry` the registry in localStorage, `dash` and `row` the dashboard, `revoking` the
revocations in flight, `server` the state of the share at the gateway. While files are
packed the form is not disabled, so a second upload may start and the options may
change behind a running one. `env.patient` tells a sender who waits from one who does
not, `env.storage` whether localStorage can be written: several properties hold only
for the former; `ClaimTokenStored` in section 3 is about the latter.

| Actions | Code |
|---|---|
| `SetOptions`, `DropFile`, `DropFolder`, `PackRefused`, `Packed`, `Cancel` | `UploadDrop` and `archive.ts` |
| `Created`, `CreateFails`, `AbortNoticed`, `ChunkSent`, `ChunkFails`, `LinkReady` | `uploadFile`; `LinkReady` mounts the card and stores the token |
| `CardRevoke`, `RevokeDone`, `RevokeFails`, `SendAnother` | `ShareLink` |
| `OpenDashboard`, `CloseDashboard`, `RowRevoke`, `RowRemove` | `my-shares/page.tsx`, `myShares.ts` with its pruning |
| `LeaveHome`, `ReturnHome`, `Expire` | navigation and time |

### RateLimit

A request is stamped and its first pipeline is sent in one turn (`Arrive`). The process
has one connection, so `wire` is a queue. `Evaluate` is one pipeline at Valkey (trim,
add, count, expire) together with what `evaluate` does with the answer; `NoAnswer` is a
pipeline that fails, executed or not, or whose reply holds an error. `Tick` drops keys
that have expired and lets nothing wait longer than `MaxWait`. Request ids are assumed
to be distinct, as the UUIDs are that `requestId.ts` generates; ids it takes over from a
header and that occur twice in a millisecond would be one member, which is left out.
`passed` is a history variable.

### Gateway

One action per turn of the event loop; requests arrive whole. `http[c]` is a connection:
`busy` with a request, `idle` between two, `left` when its client is gone and the handler
still runs. `server.close()` closes the listener and what is idle at that moment; a busy
connection may be kept afterwards and carry further requests, or an upgrade that takes it
over (`Reachable`, `Upgrade`). `nats` counts dials and open connections, and says whether
`_connection` is set; whoever waits for a dial changes nothing else, so callers are not
kept apart. `snap` is the `currentForIp` of a socket, taken at `Upgrade` and written back, plus one,
by `LookupFound`; `Close` runs `onClose`, perhaps with the lookup under way. `raced` is a
history variable: addresses whose handshakes have overlapped.

| Actions | Code |
|---|---|
| `Begin`, `Answer`, `AnswerAndPublish`, `IdleClosed`, `HangUp` | requests; the second kind of answer leaves a detached publish behind (revoke, burn); the last two are Node and the client |
| `Boot`, `Dialed`, `DialFails`, `NatsLost` | `main()` and `getNats`; `NatsLost` is `closed()`, which resets `_connection` whatever it holds |
| `Upgrade`, `LookupFound`, `LookupRefused`, `Close` | `attachProgressWs` |
| `Signal`, `ServerClosed`, `StoreSettles`, `NatsSettles`, `Exit` | `shutdown()`, once per signal |

`NatsSettles` is `closeNats`: `drain()` closes the connection or rejects, as it does for
one that is draining since the first signal, and `finally` resets `_connection` either
way, also when a handler whose client has left has dialled a new one meanwhile.

## 3. Runs

| Run | Instance | Shows |
|---|---|---|
| `LifecycleBurn` | 2 chunks, 2 PUTs, 2 GETs, 1 revoke, 1 reaper, burn share | `LiveDataKept`, `ReadyComplete`, `ServedWasDelivered`, `BurnAfterDelivery`, `DoomIsForever`, `RetentionKept` (implements `Retention`) |
| `LifecycleCap` | 1 chunk, 1 PUT, 1 revoke, 2 reports, 2 reapers, with and without cap | `TypeOK`, `ReaperJustified`, `TerminalReapable`, `AuditWithinCount`, `EventuallyPurged` |
| `WebUpload` | 2 chunks, 2 PUTs, 2 GETs, 1 revoke, 2 reports, 1 reaper, burn share or cap | `TerminalForever`, `CapRespected`, `SingleBurn`, `RowMatchesBlob` |
| `AuditChain` | 5 appends, 2 of them with the row lock | `TypeOK`, `ChainLinked`, `VerifySound`, `AlterationFound`, `LogKept` (implements `AuditLog`), `AppendsFinish` |
| `ReaperSweep` | 3 shares, batches of 2, 2 daemons, 1 passing fault or restart | `BatchJustified`, `DueIsPurged` |
| `Recipient` | 2 attempts, 2 chunks, reported counts up to 3 | `FilesGenuine`, `MistypeCostsNothing`, `UnsavedIsShown`, `DoneIsKept`, `DownloadSettles` |
| `Sender` | 2 uploads, 3 settings, sizes 9 and 12, chunk size 5, cap 12, clocks 30 minutes behind, right, ahead by the margin | `TokenHeld`, `EntryTruthful`, `RevokedPillTrue`, `CapExact`, `UploadSettles` |
| `RateLimit` | 3 requests of 2 clients, rules of 1 in 2 and 2 in 5 ticks, 1 tick on the connection, 1 fault | `WindowKept`, `RefusedWithCause`, `Answered` |
| `Gateway` | 3 sockets of 1 address, cap 2, 1 connection, 2 signals | `CountExact`, `NatsSingle`, `NothingCut`, `ShutdownCompletes` |

The word all the share properties turn on is *condemned* (`Doomed`): TTL lapsed,
cap used up, or `destroyed_at` stamped. The column `state` is not a reliable sign,
since ingest overwrites it without looking (see the findings), but a condemnation is
never taken back.

Some properties say under which condition the code is right, and the condition is
part of what they show. `WindowKept` speaks of the window a rule guarantees, shorter
than its own by the stay on the connection, because the key's expiry counts from the
execution of the pipeline and the scores from the stamp. `CountExact` excludes addresses
whose handshakes overlapped: there the count may be too low or an entry may stay.
`NatsSingle` promises that an open connection is held only until a shutdown drains the
stores: from then on a rejected `drain()` leaves one open that nobody holds, and a handler
without a client may dial a second. `ShutdownCompletes` needs clients that begin nothing
more on the connections they have, and a `drain()` that settles. `CapExact` does not say
that the caps agree, but exactly where they differ.
`DueIsPurged` holds as long as the shares that cannot be finished do not fill a batch.
`DoneIsKept` is for shares with a password, `TokenHeld`, `EntryTruthful` and the card's
part of `RevokedPillTrue` for a sender who waits, which leaves out options that change
during packing. `UnsavedIsShown` says that a file which was not saved has its preview
pane; of a long text that pane shows only that it is too long.

Runs that are expected to be violated, each one a claim of the repository:

| Run | Claim | What the code does |
|---|---|---|
| `ClaimIrreversible` | `docs/DELETION.md`: destroy is irreversible | a PUT that read `pending` before the revoke writes `uploading` over `destroyed` |
| `ClaimCapAccepted` | `shares.ts:227`: the cap of the gateway matches that of the client | chunk count times chunk size is held against the cap, so a file just below it is refused when the chunk size does not divide the cap |
| `ClaimTokenStored` | `ShareLink.tsx:92`: new properties of a mounted card would overwrite its entry | the effect runs once per mount; the second of two overlapping uploads reuses the card and its token is not stored |

Further disagreements between comments and code met while modelling, visible in the
model but without a run of their own:

* servers: the reaper overwrites the reason of a revoked share (`db.go:213`) and
  appends a second audit entry when a second daemon reaps a share again (`db.go:289`);
  a revoke relabels a burn, since its UPDATE has no condition on the state
  (`shares.ts:840`); the second fetch of a burn chunk is refused only once the first
  has been marked (`README.md:50`); two parallel PUTs of a chunk may leave the nonce of
  one with the bytes of the other (`PostgresShareRepository.cs:81`); an object whose row
  was not written is not collected (`UploadEndpoint.cs:316`); a failed promotion is not
  re-evaluated by the sweep (`UploadEndpoint.cs:345`), which waits for the TTL, and
  neither is a failed mark (`DownloadEndpoint.cs:352`); `POST /downloaded` answers
  "destroyed" for a share that is not ready yet (`shares.ts:976`); a revoke and its
  audit entry are not one transaction (`docs/DELETION.md:38`); a range behind a sequence
  gap is reported broken (`0002_audit_chain_helpers.sql:74`);
* reaper: the bound of 60 seconds (`docs/DELETION.md:13`) does not hold when a batch is
  full of shares that cannot be finished; after an object fails, the sweep goes on with
  the next share and does not bail out as the comment in `storage.go` says;
* gateway: a handshake that is given up, or that overlaps another, leaves an entry
  behind (`progress.ts:50`), and the address of a socket is taken from the headers
  whatever `TRUST_FORWARDED_FOR` says (`progress.ts:54`); open progress sockets, and
  requests that follow on a busy connection, keep `server.close` waiting (`index.ts:9`);
* web: the archive is longer than the files in it, so a folder below the cap may be
  refused after packing (`archive.ts:58`); a clock more than a minute ahead makes the
  longest lifetime too long for the gateway; the card records the options of the form,
  which may have changed during packing; without a password the button stays during a
  download, against `Decrypt.tsx:125`; the password floor of the form is 8, that of
  crypto-core 4; given the sealed chunk count, the hash test adds nothing.

### Bounds

* `Puts`, `Gets`, `Revokes`, `Reports`: each request is served once. Two requests of
  a kind suffice for every race in the code, which are all between two handlers or
  a handler and the reaper; two chunks suffice for a count that is not yet or
  already complete.
* A cap of 1 is reached by the first report, so that the second one meets a full
  share.
* `MaxReapFaults` bounds the failed reap attempts (1 in the runs). One failure at
  every possible point, followed by a retry, is covered. The bound is also what lets
  the reaper finish: a MinIO that fails for ever keeps its objects for ever.
* `AuditChain`: each transaction appends once, at most one row is altered, never
  genesis (whose hash the verifier does not recompute), and a rehashed row is not
  the tail (nothing follows that could disagree with it).
* `ReaperSweep`: three shares and a batch of two are the smallest instance in which a
  share is left for the next sweep; no, one, two or three of them are stuck. `MaxFaults`
  bounds passing failures and restarts together.
* `Recipient`: a count of 3 for a share of 2 chunks lets the gateway ask for less, the
  same and more than was sealed. Two attempts are enough for one to overtake another,
  and a finished one is used again, so a behaviour has any number of downloads.
* `Sender`: the cap of 12 holds two whole chunks of 5, as that of the deployment holds
  204 and a part of one. Of the sizes, 9 and its archive of 10 end with the last whole
  chunk, 12 is the cap, and its archive is above; two uploads are enough to overlap.
  `ClaimCapAccepted` has the deployment's own proportion (1024 to 5).
* `RateLimit`: three requests exceed the larger rule; `MaxTime` is as long as the longer
  window. `MaxFaults` bounds missing answers.
* `Gateway`: three sockets exceed the cap of two; two signals are the impatient operator.
  One connection carries any number of requests, and a socket may take it over; the races
  for NATS are between its requests, the boot and the shutdowns.
* Deadlock is not checked where the system may stop: when every append has ended
  (`AuditChain`), the page is left (`Recipient`), nothing is due any more
  (`ReaperSweep`), the clock has reached its bound (`RateLimit`) or the process has
  exited (`Gateway`).
* Requests of a kind and reapers are interchangeable, hence the symmetry sets. Runs
  with a liveness property use no symmetry.

### Fairness

* `WF(Tick)`: time passes.
* `WF(ReapProgress(r))`: the daemon sweeps on a ticker for as long as it runs, no
  sweep failure ends the loop (`Run`), and a restarted daemon sweeps at once. A call
  that never returns would break this; it counts as a failed attempt that a restart
  ends. Clients and handlers get no fairness: they may stop anywhere.
* `WF(AppendNext(t))`: a transaction that is not blocked goes on; Postgres ends it
  when its client is gone.
* `WF(DaemonNext(d))` in `ReaperSweep`: the ticker again; how often a transient error
  strikes is bounded, how often a stuck share fails is not.
* `WF(AttemptNext(a))` and `WF(UploadNext(u))`: a fetch settles (the browser ends it with
  an answer or an error) and the code that awaits it runs. Users owe nothing: they need
  not press a button, cancel or leave.
* `WF(Evaluate \/ NoAnswer)`: a pipeline is answered, or fails when the connection is
  lost. A Valkey that keeps its connection open and never answers is outside the model.
* `Gateway`: handlers, lookups and the steps of `shutdown()` run to their end: `closeRedis`
  gives up after `maxRetriesPerRequest`, `closeDb` after its timeout of 5 seconds. A
  connection that is kept times out (`keepAliveTimeout`), and a socket that the server has
  refused goes away. Clients and NATS owe nothing: `ShutdownCompletes` assumes in its own
  statement that clients begin nothing more and close their sockets (`ClientsStop`), and
  that no `drain()` hangs for ever (`NatsAnswers`), which nothing in `closeNats` bounds.

## 4. Proofs

Every safety invariant and every action property of the passing runs is stated by a
theorem, and so are the refinements of `Retention` and `AuditLog`: the run shows it on its
instance, the theorem for every value of the constants. Of the liveness properties, whose
fairness the prover cannot use, the part that is safety is proved where there is one.

Assumptions on the constants, all of them evaluated by TLC: `ChunksAssumption` (a share
has a chunk), `OptionsAssumption`, `FaultsAssumption`, `NoneAssumption`, `ChunksOrdered`
for the share; `RowTxnsAssumption`, `NoTxnAssumption` and `BodiesAssumption`
(an append has a body of its own, neither that of genesis nor a tampered one) for the chain;
`SweepAssumption` for the sweep; `ChunkCountAssumption` and `MaxReportedAssumption` for
the recipient; `LimitsAssumption`, `SenderAssumption` and `NamesAssumption` for the
sender; `RateLimitAssumption` (a rule exists, its window and its limit are not zero);
`WsMaxAssumption` for the gateway. Sets of processes, requests and sockets may have any
size. Two theorems have a hypothesis besides:

* `AlterationCorrect` has `CollisionFree`: no body that was appended has, after the same
  hash, the digest of the body that replaces it. It stands for the resistance of SHA-256
  to second preimages, which no verifier can do without.
* `CapCorrect` of `Sender_proofs` has `CapCounts`, the cap holds less than 100000 whole
  chunks, and `ClocksAgree`, the gateway allows seven days and the clock of the sender is
  ahead by the safety margin at most and behind by less than an hour. The defaults (5 and
  1024 MiB) are such a deployment, and so are the runs `Sender` and `ClaimCapAccepted`:
  the theorem says which sizes are accepted, the claim that the rest is not empty.

**ShareLifecycle_proofs.** None of the safety properties is inductive, because a
handler acts on what it read earlier. `LiveDataKept` needs to know that a handler
about to write a row has stored the object and nobody has removed it since;
`ReadyComplete` that a handler about to promote has seen a complete set which nobody
has emptied since; both that a reaper which removes anything works on a condemned
share. The inductive invariant is

    Inv == TypeOK /\ StampInv /\ ReaperJustified /\ UploadInv
           /\ LiveDataKept /\ ReadyComplete /\ DeliveryInv /\ ServedWasDelivered

where `StampInv` ties the terminal states to the stamp and the cap, `UploadInv` says
what an upload handler still may rely on and `DeliveryInv` ties the handlers to the
history variable. The key lemma is `DoomStep`: a condemned share stays condemned.
From it every stale read becomes harmless, since the share was condemned before the
read could become wrong. `TypeCorrect`, `DoomCorrect`, `LiveDataCorrect`,
`ReadyCorrect`, `ReaperCorrect`, `ServedCorrect`, `TerminalCorrect`, `BurnCorrect`
follow, and `RetentionCorrect` shows action by action that every step maps to a step
of `Retention` or to a stutter. `CandidateCorrect`, the safety part of `EventuallyPurged`,
needs that nothing writes the state `downloaded`, which the candidate query does not look
for (`ColumnInv`): after the TTL a share is a candidate until it is terminal and has no
rows, whatever a late PUT has written over its state. `AuditCountCorrect` needs `RecordInv`: what the chain
records, together with the reports that have counted and not yet recorded, is within
the count. A detached append that fails only makes the difference larger.

**WebUpload_proofs.** The web client takes fewer steps than any client, so `Inv` holds.
`WebInv` adds what this client is sure of. `LoopInv`: one PUT is under way and each
chunk has one, so a row names the PUT that wrote it. `PublishedInv`: before the link is
out, the share can be neither served nor counted nor revoked, and no stamp is set but by
the reaper after the TTL. `CapInv`: a share that can be served has a download left.
`BurnInv`: a burn that is recorded or about to be recorded is the only one and the share
is not served any more. `ObjectInv`: a row and its object are of one PUT. The key lemmas
are `PublishedStep` and `NoPutLeft`: a link that is out stays out, and then no PUT is
left whose promotion could bring back a terminal state. `CapCorrect`,
`SingleBurnCorrect`, `RowMatchesBlobCorrect` and `TerminalForeverCorrect` follow;
`WebImplements` says that all of section 4 about any client holds for this one.

**AuditChain_proofs.** The holder of an uncommitted row has the advisory lock
(`LockInv`) and this row is the successor of the present tail, altered or not
(`PendingInv`). Of the committed rows, `RowInv` and `LinkInv` say that those nobody
changed hash correctly and are linked to, `SuccessorInv` that the rows are in one line,
and `AlteredInv` that the digest of what a changed row said before is still there, in
its own hash or in the link of its successor. `LinkCorrect` and `VerifyCorrect` hold for
every digest, `AlterationCorrect` for one without collisions. `LogCorrect` maps the commit
to `Append` of `AuditLog` and every other step but `Alter` to a stutter; by `OnceInv` a
transaction that has not committed has no row yet, so no writer appears twice.
`LocksCorrect` is the safety part of `AppendsFinish`: `HolderInv` says that who holds a
lock has not ended, and the row lock is never waited for under the advisory lock, so
whenever a transaction has not ended, one of them waits for nobody.

**ReaperSweep_proofs.** `BatchJustified` is inductive given the types. `AnswerJustified`
has that the query answers with candidates, each once, because its order is strict;
`BatchStep` that a stale batch stays justified while daemons, gateway and clock go on,
because a candidate never becomes live and early again. `BatchCorrect` follows. What
`DueIsPurged` rests on besides fairness: a share that is due stays due until it is purged,
and only what is due is purged (`DueCorrect`); and with fewer stuck shares than places, no
answer of the query consists of stuck shares alone while another one is due
(`PlaceCorrect`), by the pigeonhole principle and because no batch names a share twice. So
every sweep that meets no passing error purges something. The order of the query is not
needed for this. `TypeCorrect` adds the bounds on ranks and batches.

**Recipient_proofs.** `FilesGenuine` speaks of what is shown, so the invariant has to
follow the file while it grows: `LoopInv` says of an attempt in the chunk loop that its
key is the sealing key and that its count is the sealed one (unless the share is of the
older kind), `GotInv` that what it has decrypted is a beginning of the file, `FileInv`
that a shown or saved file is the whole. The key lemma is `BodyInPlace`: of all bodies
the service may hand out, only chunk *i* opens in place *i* under the sealing key.
`GenuineCorrect` and `MistypeCorrect` follow. The hash test is not used. `ShownCorrect`
rests on `PreviewAgrees`, which compares the two preview tests type by type, and on
`ShownInv`, which carries the type from the decision to the screen. `DoneCorrect` rests
on `OneAttempt`: with a password at most one attempt runs, and none while a file, an
error or the form is on the screen. `SpinnerCorrect`, for shares with and without
password, is the safety part of `DownloadSettles`: a progress bar belongs to an attempt
that runs, because whichever attempt ends writes over it. `TypeCorrect` needs `CountInv`:
an attempt starts its loop with nothing and fetches below the count of its descriptor, so
neither it nor the component ever holds more chunks than were named.

**Sender_proofs.** Any number of uploads, revocations and dashboards write the one card
and the one registry. `StageInv` says what a server can know of an upload at each stage,
`ShownInv` that registry, dashboard, revocations and card name shares whose link was
shown, `RowInv` that a row is marked after the server has answered. Of a patient sender,
`FormInv` says that one upload runs, which the form shows and whose options it still
holds until it is left, and `CardInv` that the card is the one of the share it shows: so
the card that mounts is a fresh one, and its effect stores the right token with the right
flags. `TokenCorrect`, `EntryCorrect` and `RevokedCorrect` follow; `CapCorrect` needs of
the invariant only that an upload in creation was let through by the form. The rest is
arithmetic: `AcceptedExactly`, of such an upload the schema can only refuse the last
chunk, which it counts whole; `CeilBounds`, how far the rounding goes; `WholeChunks`, the
rounded size is within the cap exactly up to the last whole chunk of the cap. `PanelCorrect`, for any sender, is the safety part
of `UploadSettles`: the panel shows an upload that runs and has not lost its form.
`TypeCorrect` has that no upload has more chunks to send than the largest file the form
lets through.

**RateLimit_proofs.** For `WindowKept`, a request that a rule let through has to stay in
the sorted set as long as it matters: `PassedInv` says that it is there for a window from
its stamp and that the key lives as long, although the key's expiry counts from the
execution; `WaitInv` bounds the difference by `MaxWait` per rule. Then the requests in a
guaranteed window up to the newest one are all members that its count included
(`Counted`, `WindowStep`). For `RefusedWithCause`, a count must not include anybody but
the client's own attempts, and none later than the request: `MembersInv` and `OrderInv`,
since requests overtake one another only by being further in the list of rules.
`WindowCorrect` and `RefusalCorrect` follow. The safety part of `Answered`: a request that
waits is in exactly one pipeline and is held for `MaxWait` per rule at most
(`HeldCorrect`), and an answer is final (`OutcomeCorrect`). `TypeCorrect` adds the bounds
on clock, stamps and members to the invariant.

**Gateway_proofs.** `NatsSingle` is inductive given the types; `NothingCut` is not,
because the process exits long after it has looked at its connections. `DrainInv` says
that a signal ends listening for good, that the stores are drained on an empty server
alone, and that a process which has drained or exited has no connection on which a request
or an upgrade could still arrive; `SocketInv` that a socket in lookup was let in below the
cap, from which `TypeCorrect` has that the count of an address never exceeds the cap,
overlapping handshakes or not. `NatsCorrect` and `CutCorrect` follow. `CountCorrect` needs
`CountInv`: of an address that has not raced, at most one socket is in lookup, it is open
and its snapshot is still the count, which is the cardinality of a finite set.
`DrainCorrect` is the safety part of `ShutdownCompletes`: after a signal no connection is
opened, and a socket can only take the place of a connection that is kept; requests may
follow one another on those that are there; a server that has emptied stays empty, and
no shutdown loses what it has reached.

Only model-checked are the liveness properties `EventuallyPurged`, `AppendsFinish`,
`DueIsPurged`, `DownloadSettles`, `UploadSettles`, `Answered` and `ShutdownCompletes`,
because fairness is out of the prover's reach (their safety parts are the theorems named
above), and that the candidate query of `ReaperSweep` has an answer in every state (which
needs induction). `TypeOK` of `Recipient`, `Sender` and `RateLimit` is proved and is not
among the properties of their runs.

## 5. Not modelled

* Strength, encodings and randomness of the cryptography (calls into libsodium), and
  the zip format of the archive helper.
* The ingest limiter: one atomic script, and a refusal changes nothing of a share, so
  it is a stuttering step of the handlers. `DELETE /chunk` of ingest: no caller in the
  repository.
* Origin guard, error handler, CSP reports and the middleware of the web app: functions
  of one request without state between requests. The exit of the gateway on an
  unhandled rejection: the process is gone, as after a crash.
* Row-level security and grants (static), the receipt service and the verify tool
  (stubs), the service worker (it caches the application shell and no part of a share),
  configuration of proxies and monitoring.
* Metrics, logging, presentation, pages and translations.

## 6. Plan

Done: the modules, runs and theorems above. What could follow:

1. The liveness properties, once a prover handles fairness: the safety parts above are
   the lemmas they need, with the number of shares, chunks, rules or connections that are
   left as the measure.
2. The receipt service and the verify tool, when they are more than stubs.
