------------------------------ MODULE Retention ------------------------------
(***************************************************************************)
(* What the storage side of SlothBox promises about one share, with no     *)
(* word of who carries it out: a chunk is listed in the database only once *)
(* its ciphertext is stored, and nothing is erased or forgotten before the *)
(* share has been condemned (burned, revoked, capped or expired), which is *)
(* for good.  ShareRetention shows that the handlers and the reaper of     *)
(* ShareLifecycle keep this promise.                                       *)
(***************************************************************************)
CONSTANT Chunks

VARIABLES
    condemned,   \* the share is to be erased
    listed,      \* the chunks the database knows
    stored       \* the chunks the object store holds

Init == condemned = FALSE /\ listed = {} /\ stored = {}

Store(c) ==
    /\ stored' = stored \cup {c}
    /\ UNCHANGED <<condemned, listed>>

List(c) ==
    /\ c \in stored \/ condemned
    /\ listed' = listed \cup {c}
    /\ UNCHANGED <<condemned, stored>>

Condemn ==
    /\ condemned' = TRUE
    /\ UNCHANGED <<listed, stored>>

Erase(c) ==
    /\ condemned
    /\ stored' = stored \ {c}
    /\ UNCHANGED <<condemned, listed>>

Forget ==
    /\ condemned
    /\ listed' = {}
    /\ UNCHANGED <<condemned, stored>>

Next ==
    \/ \E c \in Chunks : Store(c) \/ List(c) \/ Erase(c)
    \/ Condemn
    \/ Forget

Spec == Init /\ [][Next]_<<condemned, listed, stored>>
=============================================================================
