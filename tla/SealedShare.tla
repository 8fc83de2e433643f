----------------------------- MODULE SealedShare -----------------------------
(***************************************************************************)
(* What packages/crypto-core gives both ends of a share, symbolically, and *)
(* what apps/web/src/lib/upload.ts seals with it.  A ciphertext is a       *)
(* record of the key, the associated data and the plaintext it was made    *)
(* from; it opens under exactly that key and that associated data, and a   *)
(* hash is its own preimage.  A nonce travels with its ciphertext and a    *)
(* wrong one makes the tag fail, so the pair is one value here.            *)
(***************************************************************************)
EXTENDS Integers, Sequences

CONSTANT ChunkCount     \* chunks the sender cut the file into

ASSUME ChunkCountAssumption == ChunkCount \in Nat \ {0}

\* The fields that the metadata of older shares lacks.
NoHash == <<>>
NoCount == 0

\* Chunk indices, and the plaintext of every chunk: its own index, so that
\* two chunks are never mistaken for one another.
Indices == 0 .. ChunkCount - 1
File == [n \in 1 .. ChunkCount |-> n - 1]

\* The key of a share: the fragment of the link, hardened with the password
\* when the share has one; "none" stands for no password.
DeriveAeadKey(fragmentKey, password) ==
    [fragment |-> fragmentKey, password |-> password]

\* Mutant of BuildChunkAad: the position of the chunk is left out.
BuildChunkAadUnindexed(shareId, index) == <<shareId, 0>>

\* Length-prefixed short id followed by the index: injective.
BuildChunkAad(shareId, index) == <<shareId, index>>

EncryptChunk(plain, key, aad) == [key |-> key, aad |-> aad, plain |-> plain]

\* The tag of ciphertext c verifies.
Opens(c, key, aad) == c.key = key /\ c.aad = aad

HashChunks(chunks) == chunks

\* The bearer token of a chunk comes from the fragment alone; what is stored is
\* its hash.
DeriveChunkToken(fragmentKey, shareId, index) ==
    <<fragmentKey, BuildChunkAad(shareId, index)>>

-----------------------------------------------------------------------------
(* The share as uploadFile sealed it.                                      *)

SealingKey(hasPassword) ==
    DeriveAeadKey("good", IF hasPassword THEN "right" ELSE "none")

\* The metadata: the hash of the whole file and the number of its chunks,
\* which older shares do not carry.
SealedMeta(hasPassword, legacy) ==
    EncryptChunk(IF legacy THEN [fileHash |-> NoHash, chunkCount |-> NoCount]
                           ELSE [fileHash |-> HashChunks(File),
                                 chunkCount |-> ChunkCount],
                 SealingKey(hasPassword), BuildChunkAad("meta", 0))

SealedChunk(hasPassword, i) ==
    EncryptChunk(i, SealingKey(hasPassword), BuildChunkAad("this", i))

\* The bytes a GET of a chunk may bring: any chunk of the share, in whatever
\* place, a chunk of another share, or bytes nobody sealed.
ForeignChunk(i) ==
    EncryptChunk(i, DeriveAeadKey("foreign", "none"), BuildChunkAad("that", i))

Garbage == EncryptChunk(0, DeriveAeadKey("nobody", "none"), BuildChunkAad("nowhere", 0))

Bodies(hasPassword) ==
    {SealedChunk(hasPassword, i) : i \in Indices}
        \cup {ForeignChunk(i) : i \in Indices} \cup {Garbage}
=============================================================================
