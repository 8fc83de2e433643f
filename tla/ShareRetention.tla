--------------------------- MODULE ShareRetention ---------------------------
(***************************************************************************)
(* ShareLifecycle implements Retention.                                    *)
(***************************************************************************)
EXTENDS ShareLifecycle

Listed == {c \in Chunks : row[c] # None}
Stored == {c \in Chunks : blob[c] # None}

R == INSTANCE Retention WITH condemned <- Doomed, listed <- Listed, stored <- Stored

\* Every step of the ingest service, the gateway and the reaper is a step that
\* the retention promise allows, or changes none of what it speaks of.
RetentionKept == R!Spec
=============================================================================
