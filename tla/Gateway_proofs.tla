--------------------------- MODULE Gateway_proofs ---------------------------
(***************************************************************************)
(* Theorems about Gateway, for any number of connections, sockets,         *)
(* addresses and signals.  A shutdown cuts off nobody because it drains    *)
(* the stores only when the server is empty: no connection is left then    *)
(* that could carry another request, and none is accepted.  The count of   *)
(* an address is exact because a handshake that meets no other one of its  *)
(* address still finds, when its lookup ends, the count it read when it    *)
(* began.                                                                  *)
(***************************************************************************)
EXTENDS Gateway, FiniteSetTheorems, TLAPS

\* A socket whose handler has begun has an address, and one in lookup was let
\* in below the cap.
SocketInv ==
    \A s \in Sockets :
        /\ handler[s] # "none" \/ counted[s] \/ conn[s] # "none" => ip[s] \in Ips
        /\ handler[s] = "lookup" => snap[s] < WsMax

\* A signal ends listening for good, the stores are drained on an empty server
\* alone, and the process exits through that.
DrainInv ==
    /\ proc = "boot" => \A n \in Signals : shut[n] = "none"
    /\ \A n \in Signals :
           /\ shut[n] # "none" => ~listening
           /\ shut[n] = "draining" => NoConnections
           /\ settled[n] # {} => shut[n] = "draining"
    /\ proc = "exited" => ~listening /\ NoConnections

\* Only a served socket is counted and has a heartbeat; a handshake that no
\* other one of its address has met finds the count as it read it.
CountInv ==
    /\ \A s \in Sockets :
           /\ conn[s] = "none" => handler[s] = "none"
           /\ counted[s] \/ heartbeat[s] => handler[s] = "serving"
    /\ \A i \in Ips \ raced :
           /\ IsFiniteSet(Counted(i))
           /\ byIp[i] = Cardinality(Counted(i))
           /\ \A s \in InLookup(i) : conn[s] = "open" /\ snap[s] = byIp[i]
           /\ \A s, t \in InLookup(i) : s = t
           /\ \A s \in Sockets : ip[s] = i /\ heartbeat[s] => conn[s] = "open"

\* The inductive invariant; CountInv is inductive on top of it.
Inv == TypeOK /\ SocketInv /\ NatsSingle /\ DrainInv

\* Nothing runs before main().
LEMMA InvInit == Init => Inv
  <1> SUFFICES ASSUME Init PROVE Inv
    OBVIOUS
  <1>1. TypeOK
    <2>1. /\ settled \in [Signals -> SUBSET Stores]
          /\ counted \in [Sockets -> BOOLEAN] /\ heartbeat \in [Sockets -> BOOLEAN]
      BY DEF Init
    <2>2. nats \in [dials : Nat, open : Nat, held : BOOLEAN]
      BY DEF Init, Nats
    <2>3. 0 \in 0 .. WsMax
      BY WsMaxAssumption
    <2>4. snap \in [Sockets -> 0 .. WsMax] /\ byIp \in [Ips -> 0 .. WsMax]
      BY <2>3 DEF Init
    <2> QED
      BY <2>1, <2>2, <2>4 DEF Init, TypeOK
  <1>2. SocketInv /\ NatsSingle /\ DrainInv
    BY DEF Init, SocketInv, NatsSingle, DrainInv, NoConnections, Nats
  <1> QED
    BY <1>1, <1>2 DEF Inv

\* Asking for the connection keeps it single, whoever else is asking.
LEMMA GetNatsSingle ==
  ASSUME nats \in [dials : Nat, open : Nat, held : BOOLEAN], NatsSingle, GetNats,
         UNCHANGED shut
  PROVE  nats' \in [dials : Nat, open : Nat, held : BOOLEAN] /\ NatsSingle'
  BY DEF NatsSingle, GetNats, Nats

\* Steps of lib/nats.ts.
LEMMA NatsStep ==
  ASSUME Inv, Boot \/ Dialed \/ DialFails \/ NatsLost PROVE Inv'
  <1> USE DEF Inv
  <1>1. CASE Boot
    <2>1. TypeOK' /\ NatsSingle'
      BY <1>1, GetNatsSingle DEF Boot, TypeOK, socketVars, shutVars
    <2>2. SocketInv' /\ DrainInv'
      BY <1>1 DEF Boot, TypeOK, SocketInv, DrainInv, NoConnections, socketVars, shutVars
    <2> QED
      BY <2>1, <2>2
  <1>2. CASE Dialed \/ DialFails \/ NatsLost
    <2>1. UNCHANGED <<proc, listening, http, conn, handler, ip, snap, counted,
                      heartbeat, byIp, raced, shut, settled>>
      BY <1>2 DEF Dialed, DialFails, NatsLost, socketVars, shutVars
    <2>2. NatsSingle' /\ nats' \in [dials : Nat, open : Nat, held : BOOLEAN]
      <3>1. CASE Dialed
        BY <2>1, <3>1 DEF Dialed, TypeOK, NatsSingle, Nats
      <3>2. CASE DialFails
        BY <2>1, <3>2 DEF DialFails, TypeOK, NatsSingle, Nats
      <3>3. CASE NatsLost
        BY <2>1, <3>3 DEF NatsLost, TypeOK, NatsSingle, Nats
      <3> QED
        BY <1>2, <3>1, <3>2, <3>3
    <2> QED
      BY <2>1, <2>2 DEF TypeOK, SocketInv, DrainInv, NoConnections
  <1> QED
    BY <1>1, <1>2

\* Steps of an HTTP connection: once the stores are drained there is none that
\* could begin anything.
LEMMA RequestStep ==
  ASSUME Inv, NEW c \in Conns, Begin(c) \/ RequestNext(c) \/ IdleClosed(c) \/ HangUp(c)
  PROVE  Inv'
  <1> USE DEF Inv
  <1>1. UNCHANGED <<proc, listening, conn, handler, ip, snap, counted, heartbeat,
                    byIp, raced, shut, settled>>
    BY DEF Begin, RequestNext, Answer, AnswerAndPublish, IdleClosed, HangUp,
           socketVars, shutVars
  <1>2. NatsSingle' /\ nats' \in [dials : Nat, open : Nat, held : BOOLEAN]
    <2>1. CASE nats' = nats
      BY <1>1, <2>1 DEF TypeOK, NatsSingle
    <2>2. CASE GetNats
      BY <1>1, <2>2, GetNatsSingle DEF TypeOK
    <2> QED
      BY <2>1, <2>2 DEF Begin, RequestNext, Answer, AnswerAndPublish, IdleClosed, HangUp
  <1>3. http' \in [Conns -> {"none", "busy", "idle", "left"}]
    BY DEF Begin, RequestNext, Answer, AnswerAndPublish, Respond, IdleClosed, HangUp, TypeOK
  <1>4. DrainInv'
    <2>1. CASE Begin(c)
      BY <1>1, <2>1 DEF Begin, Reachable, DrainInv, NoConnections, TypeOK
    <2>2. CASE RequestNext(c) \/ IdleClosed(c) \/ HangUp(c)
      <3>1. \A d \in Conns : http[d] \notin {"busy", "idle"} => http'[d] \notin {"busy", "idle"}
        BY <2>2 DEF RequestNext, Answer, AnswerAndPublish, Respond, IdleClosed, HangUp, TypeOK
      <3> QED
        BY <1>1, <3>1 DEF DrainInv, NoConnections
    <2> QED
      BY <2>1, <2>2
  <1>5. SocketInv'
    BY <1>1 DEF SocketInv
  <1> QED
    BY <1>1, <1>2, <1>3, <1>4, <1>5 DEF TypeOK

\* Steps of a progress socket: an upgrade finds a listener or a connection that is
\* kept, and the others open none.
LEMMA SocketStep ==
  ASSUME Inv, NEW s \in Sockets,
         (\E i \in Ips, wellFormed \in BOOLEAN : Upgrade(s, i, wellFormed))
            \/ LookupNext(s) \/ Close(s)
  PROVE  Inv'
  <1> USE DEF Inv
  <1>1. UNCHANGED <<proc, listening, nats, shut, settled>>
    BY DEF Upgrade, LookupNext, LookupFound, LookupRefused, Close, httpVars, shutVars
  <1>2. NatsSingle'
    BY <1>1 DEF NatsSingle
  <1>3. CASE \E i \in Ips, wellFormed \in BOOLEAN : Upgrade(s, i, wellFormed)
    <2>1. PICK i \in Ips, wellFormed \in BOOLEAN : Upgrade(s, i, wellFormed)
      BY <1>3
    <2>2. TypeOK'
      <3>1. http' \in [Conns -> {"none", "busy", "idle", "left"}]
        BY <2>1 DEF Upgrade, TypeOK
      <3> QED
        BY <1>1, <2>1, <3>1, WsMaxAssumption DEF Upgrade, AtCap, TypeOK
    <2>3. SocketInv'
      BY <2>1, WsMaxAssumption DEF Upgrade, AtCap, SocketInv, TypeOK
    <2>4. DrainInv'
      <3>1. proc = "up" /\ ~\E n \in Signals : shut[n] = "draining"
        BY <2>1 DEF Upgrade, DrainInv, NoConnections
      <3> QED
        BY <1>1, <3>1 DEF DrainInv
    <2> QED
      BY <1>2, <2>2, <2>3, <2>4
  <1>4. CASE LookupNext(s)
    <2> USE DEF httpVars
    <2>1. TypeOK'
      <3>1. CASE LookupFound(s)
        <4>1. ip[s] \in Ips /\ snap[s] + 1 \in 0 .. WsMax
          BY <3>1, WsMaxAssumption DEF LookupFound, SocketInv, TypeOK
        <4>2. byIp' \in [Ips -> 0 .. WsMax]
          BY <3>1, <4>1 DEF LookupFound, TypeOK
        <4>3. counted' \in [Sockets -> BOOLEAN] /\ heartbeat' \in [Sockets -> BOOLEAN]
          BY <3>1 DEF LookupFound, TypeOK
        <4> QED
          BY <1>1, <3>1, <4>2, <4>3 DEF LookupFound, TypeOK
      <3>2. CASE LookupRefused(s)
        BY <1>1, <3>2 DEF LookupRefused, TypeOK
      <3> QED
        BY <1>4, <3>1, <3>2 DEF LookupNext
    <2>2. SocketInv'
      BY <1>4 DEF LookupNext, LookupFound, LookupRefused, TypeOK, SocketInv
    <2>3. DrainInv'
      BY <1>1, <1>4 DEF LookupNext, LookupFound, LookupRefused, DrainInv, NoConnections
    <2> QED
      BY <1>2, <2>1, <2>2, <2>3
  <1>5. CASE Close(s)
    <2> USE DEF httpVars
    <2>1. ip[s] \in Ips
      BY <1>5 DEF Close, SocketInv, TypeOK
    <2>2. byIp' \in [Ips -> 0 .. WsMax]
      BY <1>5, <2>1, WsMaxAssumption DEF Close, Uncount, TypeOK
    <2>3. TypeOK'
      BY <1>1, <1>5, <2>1, <2>2 DEF Close, TypeOK
    <2>4. SocketInv'
      BY <1>5, <2>1 DEF Close, SocketInv, TypeOK
    <2>5. DrainInv'
      BY <1>1, <1>5 DEF Close, DrainInv, NoConnections, TypeOK
    <2> QED
      BY <1>2, <2>3, <2>4, <2>5
  <1> QED
    BY <1>3, <1>4, <1>5

\* Steps of a shutdown.
LEMMA ShutdownStep ==
  ASSUME Inv, NEW n \in Signals, Signal(n) \/ ShutdownNext(n) \/ NatsSettles(n) PROVE Inv'
  <1> USE DEF Inv
  <1>1. UNCHANGED <<conn, handler, ip, snap, counted, heartbeat, byIp, raced>>
    BY DEF Signal, ShutdownNext, ServerClosed, StoreSettles, NatsSettles, Exit, socketVars
  <1>2. SocketInv'
    BY <1>1 DEF SocketInv
  <1>3. CASE Signal(n)
    <2>1. /\ http' \in [Conns -> {"none", "busy", "idle", "left"}]
          /\ \A c \in Conns : http'[c] \in {http[c], "none"}
      BY <1>3 DEF Signal, TypeOK
    <2>2. TypeOK'
      BY <1>1, <1>3, <2>1 DEF Signal, TypeOK
    <2>3. NatsSingle'
      <3>1. nats' = nats /\ \A m \in Signals : shut'[m] # "draining" => shut[m] # "draining"
        BY <1>3 DEF Signal, TypeOK
      <3> QED
        BY <3>1 DEF NatsSingle
    <2>4. NoConnections => NoConnections'
      BY <1>1, <2>1 DEF NoConnections
    <2>5. DrainInv'
      BY <1>3, <2>4 DEF Signal, DrainInv, TypeOK
    <2> QED
      BY <1>2, <2>2, <2>3, <2>5
  <1>4. CASE ServerClosed(n)
    <2>1. settled' \in [Signals -> SUBSET Stores]
      BY <1>4 DEF ServerClosed, Stores, TypeOK
    <2>2. TypeOK'
      BY <1>1, <1>4, <2>1 DEF ServerClosed, httpVars, TypeOK
    <2>3. NatsSingle'
      BY <1>4 DEF ServerClosed, httpVars, TypeOK, NatsSingle
    <2>4. DrainInv'
      BY <1>1, <1>4 DEF ServerClosed, httpVars, DrainInv, NoConnections, TypeOK
    <2> QED
      BY <1>2, <2>2, <2>3, <2>4
  <1>5. CASE StoreSettles(n) \/ NatsSettles(n)
    <2>1. PICK store \in Stores : Settles(n, store)
      BY <1>5 DEF StoreSettles, NatsSettles, Stores
    <2>2. UNCHANGED <<proc, listening, http, shut>>
      BY <1>5 DEF StoreSettles, NatsSettles, httpVars
    <2>3. NatsSingle' /\ nats' \in [dials : Nat, open : Nat, held : BOOLEAN]
      <3>1. CASE nats' = nats
        BY <2>2, <3>1 DEF NatsSingle, TypeOK
      <3>2. CASE NatsSettles(n)
        <4>1. PICK closed \in IF nats.open > 0 THEN {0, 1} ELSE {0} :
                     nats' = Nats(nats.dials, nats.open - closed, FALSE)
          BY <3>2 DEF NatsSettles
        <4>2. /\ nats.open - closed \in Nat
              /\ nats' = [dials |-> nats.dials, open |-> nats.open - closed, held |-> FALSE]
          BY <4>1 DEF Nats, TypeOK
        <4>3. shut'[n] = "draining"
          BY <2>1, <2>2 DEF Settles
        <4> QED
          BY <4>2, <4>3 DEF NatsSingle, TypeOK
      <3> QED
        BY <1>5, <3>1, <3>2 DEF StoreSettles, httpVars
    <2>4. settled' \in [Signals -> SUBSET Stores]
      BY <2>1 DEF Settles, TypeOK
    <2>5. TypeOK'
      BY <1>1, <2>2, <2>3, <2>4 DEF TypeOK
    <2>6. DrainInv'
      BY <1>1, <2>1, <2>2 DEF Settles, DrainInv, NoConnections, TypeOK
    <2> QED
      BY <1>2, <2>3, <2>5, <2>6
  <1>6. CASE Exit(n)
    <2>1. TypeOK' /\ NatsSingle'
      BY <1>1, <1>6 DEF Exit, httpVars, shutVars, TypeOK, NatsSingle
    <2>2. shut[n] = "draining"
      BY <1>6 DEF Exit, ExitAllowed, Stores, DrainInv
    <2>3. DrainInv'
      BY <1>1, <1>6, <2>2 DEF Exit, httpVars, shutVars, DrainInv, NoConnections
    <2> QED
      BY <1>2, <2>1, <2>3
  <1> QED
    BY <1>3, <1>4, <1>5, <1>6 DEF ShutdownNext

\* Every step of the process keeps the invariant.
LEMMA InvStep == Inv /\ [Next]_vars => Inv'
  <1> SUFFICES ASSUME Inv, [Next]_vars PROVE Inv'
    OBVIOUS
  <1>1. CASE UNCHANGED vars
    BY <1>1 DEF vars, Inv, TypeOK, SocketInv, NatsSingle, DrainInv, NoConnections
  <1>2. CASE Next
    BY <1>2, NatsStep, RequestStep, SocketStep, ShutdownStep DEF Next, ClientNext
  <1> QED
    BY <1>1, <1>2

\* The invariant holds throughout.
THEOREM InvCorrect == Spec => []Inv
  BY InvInit, InvStep, PTL DEF Spec

\* The state of the process keeps its type: in particular the count of an
\* address never exceeds WS_MAX_CONNECTIONS_PER_IP, overlapping handshakes
\* or not.
THEOREM TypeCorrect == Spec => []TypeOK
  <1>1. Inv => TypeOK
    BY DEF Inv
  <1> QED
    BY <1>1, InvCorrect, PTL

\* getNats of lib/nats.ts: one dial at most, and until a shutdown drains the stores
\* one connection or one dial, and no open connection the process has lost hold of.
THEOREM NatsCorrect == Spec => []NatsSingle
  <1>1. Inv => NatsSingle
    BY DEF Inv
  <1> QED
    BY <1>1, InvCorrect, PTL

\* shutdown() of index.ts: when the process exits, no request is being served
\* and no progress socket is open.
THEOREM CutCorrect == Spec => []NothingCut
  <1>1. Inv => NothingCut
    BY DEF Inv, DrainInv, NoConnections, NothingCut
  <1> QED
    BY <1>1, InvCorrect, PTL

-----------------------------------------------------------------------------
\* The count of an address.

\* A step that changes nothing a count depends on keeps it exact.
LEMMA CountQuiet ==
  ASSUME CountInv, UNCHANGED <<conn, handler, ip, snap, counted, heartbeat, byIp, raced>>
  PROVE  CountInv'
  BY DEF CountInv, Counted, InLookup

\* An upgrade counts nothing yet; one that meets another handshake of its
\* address gives the address up.
LEMMA CountUpgrade ==
  ASSUME Inv, CountInv, NEW s \in Sockets, NEW i \in Ips, NEW b \in BOOLEAN,
         Upgrade(s, i, b)
  PROVE  CountInv'
  <1> USE DEF Inv, TypeOK
  <1>1. /\ handler[s] = "none" /\ ~counted[s] /\ ~heartbeat[s]
        /\ conn' = [conn EXCEPT ![s] = "open"] /\ ip' = [ip EXCEPT ![s] = i]
        /\ counted' = counted /\ heartbeat' = heartbeat /\ byIp' = byIp
        /\ raced \subseteq raced'
    BY DEF Upgrade, CountInv
  <1>2. \A j \in Ips : Counted(j)' = Counted(j)
    BY <1>1 DEF Counted
  <1>3. CASE handler' = [handler EXCEPT ![s] = "refused"] /\ snap' = snap
    <2>1. \A j \in Ips : InLookup(j)' = InLookup(j)
      BY <1>1, <1>3 DEF InLookup
    <2>2. \A t \in Sockets : handler[t] = "lookup" => t # s
      BY <1>1
    <2> QED
      BY <1>1, <1>2, <1>3, <2>1, <2>2 DEF CountInv, InLookup
  <1>4. CASE /\ handler' = [handler EXCEPT ![s] = "lookup"]
             /\ snap' = [snap EXCEPT ![s] = byIp[i]]
             /\ raced' = IF InLookup(i) = {} THEN raced ELSE raced \cup {i}
    <2>1. \A j \in Ips : InLookup(j)' = IF j = i THEN InLookup(j) \cup {s} ELSE InLookup(j)
      BY <1>1, <1>4 DEF InLookup
    <2>2. i \notin raced' => InLookup(i) = {}
      BY <1>4
    <2>3. \A j \in Ips : s \notin InLookup(j)
      BY <1>1 DEF InLookup
    <2>4. ASSUME NEW j \in Ips \ raced', NEW t \in InLookup(j)'
          PROVE  conn'[t] = "open" /\ snap'[t] = byIp'[j]
      BY <1>1, <1>4, <2>1, <2>2, <2>3, <2>4 DEF CountInv, InLookup
    <2>5. \A j \in Ips \ raced' : \A t, u \in InLookup(j)' : t = u
      BY <1>1, <2>1, <2>2 DEF CountInv
    <2> QED
      BY <1>1, <1>2, <1>4, <2>4, <2>5 DEF CountInv
  <1> QED
    BY <1>3, <1>4 DEF Upgrade

\* A lookup that finds the share counts its socket on top of a count that is
\* still the one it read.
LEMMA CountFound ==
  ASSUME Inv, CountInv, NEW s \in Sockets, LookupFound(s) PROVE CountInv'
  <1> USE DEF Inv, TypeOK
  <1> DEFINE a == ip[s]
  <1>1. /\ a \in Ips /\ handler[s] = "lookup" /\ ~counted[s]
        /\ handler' = [handler EXCEPT ![s] = "serving"]
        /\ byIp' = [byIp EXCEPT ![a] = snap[s] + 1]
        /\ counted' = [counted EXCEPT ![s] = TRUE]
        /\ heartbeat' = [heartbeat EXCEPT ![s] = TRUE]
        /\ UNCHANGED <<conn, ip, snap, raced>>
    BY DEF LookupFound, CountInv, SocketInv
  <1>2. \A t \in Sockets : /\ conn'[t] = "none" => handler'[t] = "none"
                           /\ counted'[t] \/ heartbeat'[t] => handler'[t] = "serving"
    BY <1>1 DEF CountInv
  <1>3. ASSUME NEW j \in Ips \ raced, j # a
        PROVE  /\ IsFiniteSet(Counted(j)')
               /\ byIp'[j] = Cardinality(Counted(j)')
               /\ \A t \in InLookup(j)' : conn'[t] = "open" /\ snap'[t] = byIp'[j]
               /\ \A t, u \in InLookup(j)' : t = u
               /\ \A t \in Sockets : ip'[t] = j /\ heartbeat'[t] => conn'[t] = "open"
    <2>1. Counted(j)' = Counted(j) /\ InLookup(j)' = InLookup(j)
      BY <1>1, <1>3 DEF Counted, InLookup
    <2> QED
      BY <1>1, <1>3, <2>1 DEF CountInv
  <1>4. ASSUME a \notin raced
        PROVE  /\ IsFiniteSet(Counted(a)')
               /\ byIp'[a] = Cardinality(Counted(a)')
               /\ InLookup(a)' = {}
               /\ \A t \in Sockets : ip'[t] = a /\ heartbeat'[t] => conn'[t] = "open"
    <2>1. s \in InLookup(a)
      BY <1>1 DEF InLookup
    <2>2. conn[s] = "open" /\ snap[s] = byIp[a] /\ InLookup(a) = {s}
      BY <1>1, <1>4, <2>1 DEF CountInv
    <2>3. InLookup(a)' = {}
      BY <1>1, <2>2 DEF InLookup
    <2>4. Counted(a)' = Counted(a) \cup {s} /\ s \notin Counted(a)
      BY <1>1, <2>2 DEF Counted
    <2>5. IsFiniteSet(Counted(a)) /\ byIp[a] = Cardinality(Counted(a))
      BY <1>1, <1>4 DEF CountInv
    <2>6. IsFiniteSet(Counted(a)') /\ Cardinality(Counted(a)') = Cardinality(Counted(a)) + 1
      BY <2>4, <2>5, FS_AddElement
    <2> QED
      BY <1>1, <1>4, <2>2, <2>3, <2>5, <2>6 DEF CountInv
  <1> QED
    BY <1>1, <1>2, <1>3, <1>4 DEF CountInv

\* A lookup that finds no share leaves the counts alone.
LEMMA CountRefused ==
  ASSUME Inv, CountInv, NEW s \in Sockets, LookupRefused(s) PROVE CountInv'
  <1> USE DEF Inv, TypeOK
  <1>1. /\ handler[s] = "lookup" /\ handler' = [handler EXCEPT ![s] = "refused"]
        /\ UNCHANGED <<conn, ip, snap, counted, heartbeat, byIp, raced>>
    BY DEF LookupRefused
  <1>2. \A j \in Ips : Counted(j)' = Counted(j) /\ InLookup(j)' \subseteq InLookup(j)
    BY <1>1 DEF Counted, InLookup
  <1> QED
    BY <1>1, <1>2 DEF CountInv

\* onClose gives back what was counted, and takes the address out of account
\* when a handshake was under way.
LEMMA CountClose ==
  ASSUME Inv, CountInv, NEW s \in Sockets, Close(s) PROVE CountInv'
  <1> USE DEF Inv, TypeOK
  <1> DEFINE a == ip[s]
  <1>1. /\ a \in Ips /\ conn[s] = "open" /\ conn' = [conn EXCEPT ![s] = "closed"]
        /\ heartbeat' = [heartbeat EXCEPT ![s] = FALSE]
        /\ byIp' = Uncount(s)
        /\ raced' = IF handler[s] = "lookup" \/ (counted[s] /\ InLookup(a) # {})
                    THEN raced \cup {a} ELSE raced
        /\ UNCHANGED <<handler, ip, snap, counted>>
    BY DEF Close, SocketInv
  <1>2. \A t \in Sockets : /\ conn'[t] = "none" => handler'[t] = "none"
                           /\ counted'[t] \/ heartbeat'[t] => handler'[t] = "serving"
    BY <1>1 DEF CountInv
  <1>3. \A j \in Ips : InLookup(j)' = InLookup(j)
    BY <1>1 DEF InLookup
  <1>4. ASSUME NEW j \in Ips \ raced', j # a
        PROVE  /\ IsFiniteSet(Counted(j)')
               /\ byIp'[j] = Cardinality(Counted(j)')
               /\ \A t \in InLookup(j)' : conn'[t] = "open" /\ snap'[t] = byIp'[j]
               /\ \A t, u \in InLookup(j)' : t = u
               /\ \A t \in Sockets : ip'[t] = j /\ heartbeat'[t] => conn'[t] = "open"
    <2>1. Counted(j)' = Counted(j) /\ j \notin raced
      BY <1>1, <1>4 DEF Counted
    <2>2. byIp'[j] = byIp[j]
      BY <1>1, <1>4 DEF Uncount
    <2>3. \A t \in InLookup(j) : t # s
      BY <1>4 DEF InLookup
    <2> QED
      BY <1>1, <1>3, <1>4, <2>1, <2>2, <2>3 DEF CountInv, InLookup
  <1>5. ASSUME a \notin raced'
        PROVE  /\ IsFiniteSet(Counted(a)')
               /\ byIp'[a] = Cardinality(Counted(a)')
               /\ \A t \in InLookup(a)' : conn'[t] = "open" /\ snap'[t] = byIp'[a]
               /\ \A t, u \in InLookup(a)' : t = u
               /\ \A t \in Sockets : ip'[t] = a /\ heartbeat'[t] => conn'[t] = "open"
    <2>1. a \notin raced /\ handler[s] # "lookup" /\ (counted[s] => InLookup(a) = {})
      BY <1>1, <1>5
    <2>2. \A t \in InLookup(a) : t # s
      BY <2>1 DEF InLookup
    <2>3. IsFiniteSet(Counted(a)) /\ byIp[a] = Cardinality(Counted(a))
      BY <1>1, <2>1 DEF CountInv
    <2>4. \A t \in Sockets : ip'[t] = a /\ heartbeat'[t] => conn'[t] = "open"
      BY <1>1, <2>1 DEF CountInv
    <2>5. CASE counted[s]
      <3>1. Counted(a)' = Counted(a) \ {s} /\ s \in Counted(a)
        BY <1>1, <2>5 DEF Counted
      <3>2. /\ IsFiniteSet(Counted(a)')
            /\ Cardinality(Counted(a)') = Cardinality(Counted(a)) - 1
        BY <2>3, <3>1, FS_RemoveElement
      <3>3. Cardinality(Counted(a)) \in Nat /\ Cardinality(Counted(a)) # 0
        BY <2>3, <3>1, FS_EmptySet, FS_CardinalityType
      <3>4. byIp'[a] = byIp[a] - 1
        BY <1>1, <2>3, <2>5, <3>3 DEF Uncount
      <3>5. InLookup(a)' = {}
        BY <1>1, <1>3, <2>1, <2>5
      <3> QED
        BY <2>3, <2>4, <3>2, <3>4, <3>5
    <2>6. CASE ~counted[s]
      <3>1. Counted(a)' = Counted(a) /\ byIp' = byIp
        BY <1>1, <2>6 DEF Counted, Uncount
      <3> QED
        BY <1>1, <1>3, <2>1, <2>2, <2>3, <2>4, <3>1 DEF CountInv, InLookup
    <2> QED
      BY <2>5, <2>6
  <1> QED
    BY <1>1, <1>2, <1>4, <1>5 DEF CountInv

\* Every step of the process keeps the counts.
LEMMA CountStep == Inv /\ CountInv /\ [Next]_vars => CountInv'
  <1> SUFFICES ASSUME Inv, CountInv, [Next]_vars PROVE CountInv'
    OBVIOUS
  <1>1. CASE Boot \/ Dialed \/ DialFails \/ NatsLost \/ UNCHANGED vars
    BY <1>1, CountQuiet DEF Boot, Dialed, DialFails, NatsLost, socketVars, vars
  <1>2. CASE \E c \in Conns : Begin(c) \/ RequestNext(c) \/ IdleClosed(c) \/ HangUp(c)
    BY <1>2, CountQuiet
    DEF Begin, RequestNext, Answer, AnswerAndPublish, IdleClosed, HangUp, socketVars
  <1>3. CASE \E s \in Sockets, i \in Ips, b \in BOOLEAN : Upgrade(s, i, b)
    BY <1>3, CountUpgrade
  <1>4. CASE \E s \in Sockets : LookupNext(s) \/ Close(s)
    BY <1>4, CountFound, CountRefused, CountClose DEF LookupNext
  <1>5. CASE \E n \in Signals : Signal(n) \/ ShutdownNext(n) \/ NatsSettles(n)
    BY <1>5, CountQuiet
    DEF Signal, ShutdownNext, ServerClosed, StoreSettles, NatsSettles, Exit, socketVars
  <1> QED
    BY <1>1, <1>2, <1>3, <1>4, <1>5 DEF Next, ClientNext

\* wsConnectionsByIp of ws/progress.ts: while the handshakes of an address do
\* not meet, its count is the number of its open sockets, within the cap.
THEOREM CountCorrect == Spec => []CountExact
  <1>1. Init => CountInv
    <2> SUFFICES ASSUME Init PROVE CountInv
      OBVIOUS
    <2>1. \A i \in Ips : Counted(i) = {} /\ InLookup(i) = {}
      BY DEF Init, Counted, InLookup
    <2> QED
      BY <2>1, FS_EmptySet DEF Init, CountInv
  <1>2. Inv /\ CountInv => CountExact
    BY DEF Inv, TypeOK, CountInv, CountExact
  <1> QED
    BY <1>1, <1>2, CountStep, InvCorrect, PTL DEF Spec

-----------------------------------------------------------------------------
(* What ShutdownCompletes rests on besides fairness.                       *)

Drained == \E n \in Signals : shut[n] = "draining"

\* After a signal nothing listens again and no connection is new: what a client
\* begins it begins on a connection it had, and a socket that opens takes such a
\* connection over.  Once the server has emptied it stays empty, and no shutdown()
\* loses what it has reached, also not to the shutdown() of a second signal.
ShutdownDrains ==
    [][Signalled =>
          /\ ~listening'
          /\ \A c \in Conns : http[c] \in {"none", "left"} => http'[c] \in {http[c], "none"}
          /\ \A s \in Sockets : conn[s] # "open" /\ conn'[s] = "open" =>
                 \E c \in Conns : http[c] = "idle" /\ http'[c] = "none"
          /\ Drained => NoConnections'
          /\ \A n \in Signals : /\ shut[n] # "none" => shut'[n] \in {shut[n], "draining"}
                                /\ settled[n] \subseteq settled'[n]
          /\ proc' \in {proc, "exited"}]_vars

\* shutdown() of index.ts: a server that is being closed runs out of connections,
\* though not of requests on those it has, and one that has emptied stays empty.
THEOREM DrainCorrect == Spec => ShutdownDrains
  <1> DEFINE Drains ==
          /\ ~listening'
          /\ \A c \in Conns : http[c] \in {"none", "left"} => http'[c] \in {http[c], "none"}
          /\ \A s \in Sockets : conn[s] # "open" /\ conn'[s] = "open" =>
                 \E c \in Conns : http[c] = "idle" /\ http'[c] = "none"
          /\ Drained => NoConnections'
          /\ \A n \in Signals : /\ shut[n] # "none" => shut'[n] \in {shut[n], "draining"}
                                /\ settled[n] \subseteq settled'[n]
          /\ proc' \in {proc, "exited"}
  <1>1. ASSUME Inv, Inv', [Next]_vars, Signalled PROVE Drains
    <2> USE DEF httpVars, socketVars, shutVars
    <2>1. ~listening /\ proc # "boot"
      BY <1>1 DEF Signalled, Inv, DrainInv
    <2>2. /\ http \in [Conns -> {"none", "busy", "idle", "left"}]
          /\ conn \in [Sockets -> {"none", "open", "closed"}]
          /\ shut \in [Signals -> {"none", "closing", "draining"}]
          /\ settled \in [Signals -> SUBSET Stores]
          /\ \A n \in Signals : settled[n] # {} => shut[n] = "draining"
      BY <1>1 DEF Inv, TypeOK, DrainInv
    <2> DEFINE Progress == \A n \in Signals :
                   /\ shut[n] # "none" => shut'[n] \in {shut[n], "draining"}
                   /\ settled[n] \subseteq settled'[n]
    <2>3. (Drained => NoConnections') \/ ~Progress
      BY <1>1, <2>2 DEF Drained, Inv, DrainInv
    <2>4. CASE Boot \/ Dialed \/ DialFails \/ NatsLost
      <3>1. ~Boot
        BY <2>1 DEF Boot
      <3>2. UNCHANGED <<proc, listening, http, conn, shut, settled>>
        BY <2>4, <3>1 DEF Dialed, DialFails, NatsLost
      <3> QED
        BY <2>1, <2>3, <3>2
    <2>5. ASSUME NEW c \in Conns, Begin(c) \/ RequestNext(c) \/ IdleClosed(c) \/ HangUp(c)
          PROVE  Drains
      <3>1. /\ UNCHANGED <<listening, conn, shut, settled, proc>>
            /\ \A d \in Conns : http[d] \in {"none", "left"} => http'[d] \in {http[d], "none"}
        BY <2>1, <2>2, <2>5 DEF Begin, Reachable, RequestNext, Answer, AnswerAndPublish,
                                Respond, IdleClosed, HangUp
      <3> QED
        BY <2>1, <2>3, <3>1
    <2>6. ASSUME NEW s \in Sockets, NEW i \in Ips, NEW wellFormed \in BOOLEAN,
                 Upgrade(s, i, wellFormed)
          PROVE  Drains
      <3>1. UNCHANGED <<proc, listening, shut, settled>>
        BY <2>6 DEF Upgrade
      <3>2. PICK c \in Conns : http[c] = "idle" /\ http' = [http EXCEPT ![c] = "none"]
        BY <2>1, <2>6 DEF Upgrade
      <3> QED
        BY <2>1, <2>2, <2>3, <3>1, <3>2
    <2>7. ASSUME NEW s \in Sockets, LookupNext(s) \/ Close(s) PROVE Drains
      <3>1. UNCHANGED <<proc, listening, http, shut, settled>>
        BY <2>7 DEF LookupNext, LookupFound, LookupRefused, Close
      <3>2. \A t \in Sockets : conn'[t] \in {conn[t], "closed"}
        BY <2>2, <2>7 DEF LookupNext, LookupFound, LookupRefused, Close
      <3> QED
        BY <2>1, <2>3, <3>1, <3>2
    <2>8. ASSUME NEW n \in Signals, Signal(n) \/ ShutdownNext(n) \/ NatsSettles(n)
          PROVE  Drains
      <3>1. CASE Signal(n)
        <4>1. UNCHANGED <<proc, conn, settled>> /\ ~listening'
          BY <3>1 DEF Signal
        <4>2. \A c \in Conns : http'[c] \in {http[c], "none"}
          BY <3>1 DEF Signal
        <4>3. Progress
          BY <2>2, <3>1, <4>1 DEF Signal
        <4> QED
          BY <2>3, <4>1, <4>2, <4>3
      <3>2. CASE ServerClosed(n)
        <4>1. UNCHANGED <<proc, listening, http, conn>>
          BY <3>2 DEF ServerClosed
        <4>2. Progress
          BY <2>2, <3>2 DEF ServerClosed
        <4> QED
          BY <2>1, <2>3, <4>1, <4>2
      <3>3. CASE StoreSettles(n) \/ NatsSettles(n)
        <4>1. UNCHANGED <<proc, listening, http, conn, shut>>
          BY <3>3 DEF StoreSettles, NatsSettles
        <4>2. Progress
          BY <2>2, <3>3, <4>1 DEF StoreSettles, NatsSettles, Settles
        <4> QED
          BY <2>1, <2>3, <4>1, <4>2
      <3>4. CASE Exit(n)
        <4>1. UNCHANGED <<listening, http, conn, shut, settled>> /\ proc' = "exited"
          BY <3>4 DEF Exit
        <4> QED
          BY <2>1, <2>3, <4>1
      <3> QED
        BY <2>8, <3>1, <3>2, <3>3, <3>4 DEF ShutdownNext
    <2>9. CASE UNCHANGED vars
      BY <2>1, <2>3, <2>9 DEF vars
    <2> QED
      BY <1>1, <2>4, <2>5, <2>6, <2>7, <2>8, <2>9 DEF Next, ClientNext
  <1>2. Inv /\ Inv' /\ [Next]_vars => [Signalled => Drains]_vars
    BY <1>1
  <1> QED
    BY <1>2, InvCorrect, PTL DEF Spec, ShutdownDrains
=============================================================================
