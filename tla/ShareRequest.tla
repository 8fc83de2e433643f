---------------------------- MODULE ShareRequest ----------------------------
(***************************************************************************)
(* The request that creates a share: the limits the web app keeps to, the  *)
(* body it builds (apps/web/src/lib/upload.ts) and the schema the gateway  *)
(* holds it against (CreateShareSchema of routes/shares.ts).  Sizes are in *)
(* one unit throughout (MiB in the deployment), times in minutes.          *)
(***************************************************************************)
EXTENDS Integers

CONSTANTS
    ChunkSize,      \* CHUNK_SIZE_BYTES of the web app
    MaxFile,        \* MAX_FILE_SIZE_BYTES, the same default on both sides
    MaxChunk,       \* MAX_CHUNK_SIZE_BYTES of the gateway
    MaxTtl,         \* MAX_SHARE_TTL_DAYS of the gateway, in minutes
    SafetyMargin    \* SAFETY_MARGIN_MS of upload.ts, in minutes

ASSUME LimitsAssumption ==
    /\ {ChunkSize, MaxFile, MaxChunk, MaxTtl} \subseteq Nat \ {0}
    /\ SafetyMargin \in Nat
    /\ ChunkSize < MaxChunk

KdfFields == {"salt", "opsLimit", "memLimitKib"}
MaxChunkCount == 100000

\* Lifetimes the form offers: 1 h, 24 h, 7 d.
ExpiryOptions == {60, 1440, 10080}

\* Lifetimes outside the client's own bounds fall back to 7 days or to 30.
ClampExpiry(minutes) ==
    IF minutes <= 0 THEN 10080 ELSE IF minutes > 43200 THEN 43200 ELSE minutes

\* The size tests of UploadDrop and of uploadFile.
ClientAccepts(size) == size > 0 /\ size <= MaxFile

\* Mutant of CeilChunks: the last, partial chunk is not counted.
CeilChunksFloor(size) == size \div ChunkSize

CeilChunks(size) == (size + ChunkSize - 1) \div ChunkSize

\* The body of POST /api/shares; skew is how far the sender's clock is ahead of
\* the gateway's when the request is handled.
CreateRequest(size, minutes, protected, skew) ==
    [fileSize |-> size,
     chunkCount |-> CeilChunks(size),
     chunkSize |-> ChunkSize,
     expiresIn |-> ClampExpiry(minutes) + skew - SafetyMargin,
     passwordProtected |-> protected,
     kdf |-> IF protected THEN KdfFields ELSE {}]

\* The bounds of the single fields.  The one on chunkSize leaves room for the
\* 16 bytes of the tag, less than a unit.
FieldsInRange(r) ==
    /\ r.fileSize \in 1 .. MaxFile
    /\ r.chunkCount \in 1 .. MaxChunkCount
    /\ r.chunkSize \in 1 .. MaxChunk - 1
    /\ r.expiresIn > 0 /\ r.expiresIn <= MaxTtl

\* The chunks hold the file and stay below the cap themselves.
StorageFits(r) ==
    /\ r.chunkCount * r.chunkSize <= MaxFile
    /\ r.chunkCount * r.chunkSize >= r.fileSize

\* All fields of the key derivation, or none.
KdfConsistent(r) == r.kdf = IF r.passwordProtected THEN KdfFields ELSE {}

\* CreateShareSchema.
SchemaAccepts(r) == FieldsInRange(r) /\ StorageFits(r) /\ KdfConsistent(r)

\* The rows that GET /api/shares/:shortId answers with: 404 for the rest.
DescriptorServed(state, expired) ==
    state \notin {"none", "destroyed", "expired"} /\ ~expired
=============================================================================
