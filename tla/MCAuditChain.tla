---------------------------- MODULE MCAuditChain ----------------------------
(***************************************************************************)
(* Small instances of AuditChain for TLC.  The digest is the pair of its   *)
(* arguments: free of collisions, as SHA-256 is taken to be.               *)
(***************************************************************************)
EXTENDS AuditChain

MCDigest(h, b) == <<h, b>>
MCZeroHash     == <<>>
MCGenesisHash  == <<"genesis">>
=============================================================================
