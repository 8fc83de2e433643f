-------------------------- MODULE MCShareLifecycle --------------------------
(***************************************************************************)
(* Small instances of ShareLifecycle for TLC.                              *)
(***************************************************************************)
EXTENDS WebUpload, ShareRetention, TLC

\* Requests of one kind, and reapers, are interchangeable.
Symmetry == Permutations(Puts) \cup Permutations(Gets) \cup Permutations(Revokes)
            \cup Permutations(Reports) \cup Permutations(Reapers)

\* The shares of the instances.  A cap of 1 is reached by the first download.
BurnOptions  == [burn : {TRUE}, maxDownloads : {NoCap}, revocable : {TRUE}]
PlainOptions == [burn : {FALSE}, maxDownloads : {NoCap}, revocable : {TRUE}]
CapOptions   == [burn : {FALSE}, maxDownloads : {1}, revocable : {TRUE}]
WebOptions   == BurnOptions \cup CapOptions
MixedOptions == PlainOptions \cup CapOptions
=============================================================================
