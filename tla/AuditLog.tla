------------------------------ MODULE AuditLog ------------------------------
(***************************************************************************)
(* What append_audit_entry promises to the services that call it, with no  *)
(* word of locks, snapshots or sequences: an append is one step that puts  *)
(* one entry behind all the others, linked to the one that was the last;   *)
(* every writer appears once at most; and no append changes an entry that  *)
(* is there.  Only somebody who writes to the table directly does.         *)
(* AuditChain shows that the procedure keeps this promise.                 *)
(***************************************************************************)
EXTENDS Naturals

CONSTANTS
    Writers,        \* whoever appends an entry
    Entry(_, _),    \* the entry of a writer behind an entry with this hash
    Genesis         \* the entry the log begins with

VARIABLES
    log,            \* the entries by number
    altered         \* number of the entry that was changed directly, 0 if none

Init ==
    /\ log = [n \in {1} |-> Genesis]
    /\ altered = 0

\* Numbers grow, and may leave gaps.
Append(w) ==
    /\ \A n \in DOMAIN log : log[n].body # w
    /\ \E last \in DOMAIN log, new \in DOMAIN log' :
          /\ \A n \in DOMAIN log : n <= last /\ n < new
          /\ log' = [n \in DOMAIN log \cup {new} |->
                        IF n = new THEN Entry(w, log[last].hash) ELSE log[n]]
    /\ UNCHANGED altered

Alter(n) ==
    /\ altered = 0
    /\ altered' = n
    /\ DOMAIN log' = DOMAIN log
    /\ \A m \in DOMAIN log \ {n} : log'[m] = log[m]

Next ==
    \/ \E w \in Writers : Append(w)
    \/ \E n \in DOMAIN log : Alter(n)

Spec == Init /\ [][Next]_<<log, altered>>
=============================================================================
