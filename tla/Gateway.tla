------------------------------ MODULE Gateway ------------------------------
(***************************************************************************)
(* The process of the API gateway: boot and graceful shutdown (index.ts),  *)
(* the NATS connection that handlers share (lib/nats.ts), HTTP connections *)
(* as far as they keep the server open or their requests publish, and the  *)
(* progress sockets with their per-IP cap (ws/progress.ts).  One action    *)
(* per turn of the event loop between two awaits; requests arrive whole.   *)
(***************************************************************************)
EXTENDS Integers, FiniteSets

CONSTANTS
    Sockets,        \* progress sockets of a behaviour
    Ips,            \* addresses they come from
    WsMax,          \* WS_MAX_CONNECTIONS_PER_IP
    Conns,          \* HTTP connections at the same time
    Signals         \* deliveries of SIGTERM or SIGINT

ASSUME WsMaxAssumption == WsMax \in Nat \ {0}

NoIp == "no ip"
Stores == {"redis", "nats", "db"}

VARIABLES
    proc,       \* "boot", "up" or "exited"
    listening,  \* the server accepts connections
    http,       \* per connection: "none"; with a request, "busy"; kept alive
                \* between two, "idle"; "left", the client is gone and the
                \* handler still runs
    nats,       \* dials under way, connections open, _connection set
    conn,       \* per socket: "none", "open" or "closed"
    handler,    \* per socket: where its event handlers stand
    ip,         \* per socket: its address
    snap,       \* per socket: currentForIp
    counted,    \* per socket: counted
    heartbeat,  \* per socket: the interval is running
    byIp,       \* wsConnectionsByIp
    raced,      \* addresses whose handshakes have overlapped (history)
    shut,       \* per signal: how far its shutdown() has come
    settled     \* per signal: the stores whose close has settled

httpVars == <<http, nats>>
socketVars == <<conn, handler, ip, snap, counted, heartbeat, byIp, raced>>
shutVars == <<shut, settled>>
vars == <<proc, listening, http, nats, conn, handler, ip, snap, counted,
          heartbeat, byIp, raced, shut, settled>>

TypeOK ==
    /\ proc \in {"boot", "up", "exited"}
    /\ listening \in BOOLEAN
    /\ http \in [Conns -> {"none", "busy", "idle", "left"}]
    /\ nats \in [dials : Nat, open : Nat, held : BOOLEAN]
    /\ conn \in [Sockets -> {"none", "open", "closed"}]
    /\ handler \in [Sockets -> {"none", "refused", "lookup", "serving"}]
    /\ ip \in [Sockets -> Ips \cup {NoIp}]
    /\ snap \in [Sockets -> 0 .. WsMax]
    /\ counted \in [Sockets -> BOOLEAN]
    /\ heartbeat \in [Sockets -> BOOLEAN]
    /\ byIp \in [Ips -> 0 .. WsMax]
    /\ raced \subseteq Ips
    /\ shut \in [Signals -> {"none", "closing", "draining"}]
    /\ settled \in [Signals -> SUBSET Stores]

Nats(dials, open, held) == [dials |-> dials, open |-> open, held |-> held]

Init ==
    /\ proc = "boot"
    /\ listening = FALSE
    /\ http = [c \in Conns |-> "none"]
    /\ nats = Nats(0, 0, FALSE)
    /\ conn = [s \in Sockets |-> "none"]
    /\ handler = [s \in Sockets |-> "none"]
    /\ ip = [s \in Sockets |-> NoIp]
    /\ snap = [s \in Sockets |-> 0]
    /\ counted = [s \in Sockets |-> FALSE]
    /\ heartbeat = [s \in Sockets |-> FALSE]
    /\ byIp = [i \in Ips |-> 0]
    /\ raced = {}
    /\ shut = [n \in Signals |-> "none"]
    /\ settled = [n \in Signals |-> {}]

-----------------------------------------------------------------------------
(* lib/nats.ts: whoever comes first dials, the others wait for that dial.  *)

\* Mutant of GetNats: every caller that finds no connection dials.
GetNatsEach == nats' = IF nats.held THEN nats ELSE Nats(nats.dials + 1, nats.open, FALSE)

GetNats ==
    nats' = IF nats.held \/ nats.dials > 0 THEN nats
            ELSE Nats(nats.dials + 1, nats.open, FALSE)

\* Whoever waits for the dial publishes, or goes without.
Dialed ==
    /\ proc = "up" /\ nats.dials > 0
    /\ nats' = Nats(nats.dials - 1, nats.open + 1, TRUE)
    /\ UNCHANGED <<proc, listening, http, socketVars, shutVars>>

DialFails ==
    /\ proc = "up" /\ nats.dials > 0
    /\ nats' = Nats(nats.dials - 1, nats.open, FALSE)
    /\ UNCHANGED <<proc, listening, http, socketVars, shutVars>>

\* A connection closes for good, and its closed() resets the singleton, whichever
\* connection that holds by now.
NatsLost ==
    /\ proc = "up" /\ nats.open > 0
    /\ nats' = Nats(nats.dials, nats.open - 1, FALSE)
    /\ UNCHANGED <<proc, listening, http, socketVars, shutVars>>

-----------------------------------------------------------------------------
(* HTTP.  A server that is being closed accepts no connection, and goes on *)
(* serving the ones it has.                                                *)

Reachable(c) == http[c] = "idle" \/ (listening /\ http[c] = "none")

Begin(c) ==
    /\ proc = "up" /\ Reachable(c)
    /\ http' = [http EXCEPT ![c] = "busy"]
    /\ UNCHANGED <<proc, listening, nats, socketVars, shutVars>>

\* The handler returns, and the connection is kept or closed.
Respond(c) ==
    \/ http[c] = "busy" /\ \E after \in {"idle", "none"} : http' = [http EXCEPT ![c] = after]
    \/ http[c] = "left" /\ http' = [http EXCEPT ![c] = "none"]

Answer(c) ==
    /\ proc = "up" /\ Respond(c)
    /\ UNCHANGED <<proc, listening, nats, socketVars, shutVars>>

\* A revoke or a burn is answered without waiting for its publish.
AnswerAndPublish(c) ==
    /\ proc = "up" /\ Respond(c)
    /\ GetNats
    /\ UNCHANGED <<proc, listening, socketVars, shutVars>>

\* A kept connection is closed by the client or by keepAliveTimeout.
IdleClosed(c) ==
    /\ proc = "up" /\ http[c] = "idle"
    /\ http' = [http EXCEPT ![c] = "none"]
    /\ UNCHANGED <<proc, listening, nats, socketVars, shutVars>>

\* The client hangs up before it is answered; nothing stops the handler.
HangUp(c) ==
    /\ proc = "up" /\ http[c] = "busy"
    /\ http' = [http EXCEPT ![c] = "left"]
    /\ UNCHANGED <<proc, listening, nats, socketVars, shutVars>>

-----------------------------------------------------------------------------
(* Progress sockets.                                                       *)

InLookup(i) == {s \in Sockets : ip[s] = i /\ handler[s] = "lookup"}

AtCap(i) == byIp[i] >= WsMax

\* The upgrade, on a new connection or on a kept one, which it takes over: the
\* cap is tested against the count of this moment.  A missing or malformed
\* shareId is refused as well.
Upgrade(s, i, wellFormed) ==
    /\ proc = "up" /\ conn[s] = "none"
    /\ \/ listening /\ http' = http
       \/ \E c \in Conns : http[c] = "idle" /\ http' = [http EXCEPT ![c] = "none"]
    /\ conn' = [conn EXCEPT ![s] = "open"]
    /\ ip' = [ip EXCEPT ![s] = i]
    /\ IF ~wellFormed \/ AtCap(i)
       THEN handler' = [handler EXCEPT ![s] = "refused"] /\ UNCHANGED <<snap, raced>>
       ELSE /\ handler' = [handler EXCEPT ![s] = "lookup"]
            /\ snap' = [snap EXCEPT ![s] = byIp[i]]
            /\ raced' = IF InLookup(i) = {} THEN raced ELSE raced \cup {i}
    /\ UNCHANGED <<proc, listening, nats, counted, heartbeat, byIp, shutVars>>

\* The share exists: the socket is counted on top of the count of its upgrade.
LookupFound(s) ==
    /\ proc = "up" /\ handler[s] = "lookup"
    /\ handler' = [handler EXCEPT ![s] = "serving"]
    /\ byIp' = [byIp EXCEPT ![ip[s]] = snap[s] + 1]
    /\ counted' = [counted EXCEPT ![s] = TRUE]
    /\ heartbeat' = [heartbeat EXCEPT ![s] = TRUE]
    /\ UNCHANGED <<proc, listening, httpVars, conn, ip, snap, raced, shutVars>>

\* No such share, or no database: the socket is told to go.
LookupRefused(s) ==
    /\ proc = "up" /\ handler[s] = "lookup"
    /\ handler' = [handler EXCEPT ![s] = "refused"]
    /\ UNCHANGED <<proc, listening, httpVars, conn, ip, snap, counted, heartbeat,
                   byIp, raced, shutVars>>

\* Mutant of Uncount: the count goes down whether or not it went up.
UncountAlways(s) == [byIp EXCEPT ![ip[s]] = IF @ > 1 THEN @ - 1 ELSE 0]

Uncount(s) ==
    IF counted[s] THEN [byIp EXCEPT ![ip[s]] = IF @ > 1 THEN @ - 1 ELSE 0] ELSE byIp

\* Either side closes, the server on a binary or oversized frame, and onClose
\* runs, with a lookup perhaps still under way.
Close(s) ==
    /\ proc = "up" /\ conn[s] = "open"
    /\ conn' = [conn EXCEPT ![s] = "closed"]
    /\ heartbeat' = [heartbeat EXCEPT ![s] = FALSE]
    /\ byIp' = Uncount(s)
    /\ raced' = IF handler[s] = "lookup" \/ (counted[s] /\ InLookup(ip[s]) # {})
                THEN raced \cup {ip[s]} ELSE raced
    /\ UNCHANGED <<proc, listening, httpVars, handler, ip, snap, counted, shutVars>>

-----------------------------------------------------------------------------
(* Boot and shutdown.                                                      *)

\* main(): listen, open Valkey, dial NATS without waiting for it.
Boot ==
    /\ proc = "boot"
    /\ proc' = "up"
    /\ listening' = TRUE
    /\ GetNats
    /\ UNCHANGED <<http, socketVars, shutVars>>

\* shutdown() begins: server.close() closes the listener and the connections that
\* are idle now.  For a server that is closed already it waits for the same
\* connections.
Signal(n) ==
    /\ proc = "up" /\ shut[n] = "none"
    /\ listening' = FALSE
    /\ http' = [c \in Conns |-> IF http[c] = "idle" THEN "none" ELSE http[c]]
    /\ shut' = [shut EXCEPT ![n] = "closing"]
    /\ UNCHANGED <<proc, nats, socketVars, settled>>

\* Mutant of NoConnections: upgraded sockets are not waited for.
NoConnectionsHttpOnly == \A c \in Conns : http[c] \notin {"busy", "idle"}

\* The server has emptied: upgraded sockets count as connections, handlers
\* without a client do not.
NoConnections ==
    /\ \A c \in Conns : http[c] \notin {"busy", "idle"}
    /\ \A s \in Sockets : conn[s] # "open"

\* closeRedis, closeNats and closeDb are called; without a connection closeNats
\* returns at once, and leaves a dial that is under way alone.
ServerClosed(n) ==
    /\ proc = "up" /\ shut[n] = "closing"
    /\ NoConnections
    /\ shut' = [shut EXCEPT ![n] = "draining"]
    /\ settled' = [settled EXCEPT ![n] = IF nats.held THEN {} ELSE {"nats"}]
    /\ UNCHANGED <<proc, listening, httpVars, socketVars>>

Settles(n, store) ==
    /\ proc = "up" /\ shut[n] = "draining" /\ store \notin settled[n]
    /\ settled' = [settled EXCEPT ![n] = @ \cup {store}]

\* closeRedis and closeDb settle, with or without an error.
StoreSettles(n) ==
    /\ \E store \in Stores \ {"nats"} : Settles(n, store)
    /\ UNCHANGED <<proc, listening, httpVars, socketVars, shut>>

\* drain() closes the connection, or rejects and leaves it open, as for one that
\* is draining already; the singleton is reset either way, whatever it holds.
NatsSettles(n) ==
    /\ Settles(n, "nats")
    /\ \E closed \in IF nats.open > 0 THEN {0, 1} ELSE {0} :
           nats' = Nats(nats.dials, nats.open - closed, FALSE)
    /\ UNCHANGED <<proc, listening, http, socketVars, shut>>

\* Mutant of ExitAllowed: the process ends when nothing keeps it alive.
ExitAllowedIdle(n) == settled[n] = Stores /\ \A s \in Sockets : ~heartbeat[s]

\* process.exit(0) ends it whatever is still scheduled.
ExitAllowed(n) == settled[n] = Stores

Exit(n) ==
    /\ proc = "up" /\ ExitAllowed(n)
    /\ proc' = "exited"
    /\ UNCHANGED <<listening, httpVars, socketVars, shutVars>>

-----------------------------------------------------------------------------
ShutdownNext(n) == ServerClosed(n) \/ StoreSettles(n) \/ Exit(n)
RequestNext(c) == Answer(c) \/ AnswerAndPublish(c)
LookupNext(s) == LookupFound(s) \/ LookupRefused(s)

\* What clients begin.
ClientNext ==
    \/ \E c \in Conns : Begin(c)
    \/ \E s \in Sockets, i \in Ips, wellFormed \in BOOLEAN : Upgrade(s, i, wellFormed)

Next ==
    \/ Boot \/ Dialed \/ DialFails \/ NatsLost
    \/ ClientNext
    \/ \E c \in Conns : RequestNext(c) \/ IdleClosed(c) \/ HangUp(c)
    \/ \E s \in Sockets : LookupNext(s) \/ Close(s)
    \/ \E n \in Signals : Signal(n) \/ ShutdownNext(n) \/ NatsSettles(n)

\* Handlers, lookups and the steps of shutdown run to their end, a kept connection
\* times out and a refused socket is closed; clients, operators and NATS, which
\* may be unreachable for good, owe nothing.
Fairness ==
    /\ \A c \in Conns : WF_vars(RequestNext(c)) /\ WF_vars(IdleClosed(c))
    /\ \A s \in Sockets : WF_vars(LookupNext(s)) /\ WF_vars(handler[s] = "refused" /\ Close(s))
    /\ \A n \in Signals : WF_vars(ShutdownNext(n))

Spec == Init /\ [][Next]_vars /\ Fairness

-----------------------------------------------------------------------------
(* Properties.                                                             *)

Counted(i) == {s \in Sockets : ip[s] = i /\ counted[s] /\ conn[s] = "open"}

\* As long as the handshakes of an address do not overlap and none is given up
\* halfway, its count is the number of sockets it has open, which stays within
\* the cap, and no heartbeat outlives its socket.
CountExact ==
    \A i \in Ips \ raced :
        /\ byIp[i] = Cardinality(Counted(i))
        /\ byIp[i] <= WsMax
        /\ \A s \in Sockets : ip[s] = i /\ heartbeat[s] => conn[s] = "open"

\* Whatever handlers ask for at once, there is one dial at most.  Until a shutdown
\* drains the stores there is one connection or one dial, and the process holds
\* every connection that is open.  It never holds one that is closed.
NatsSingle ==
    /\ nats.dials <= 1
    /\ nats.held => nats.open > 0
    /\ (\A n \in Signals : shut[n] # "draining") =>
           nats.open + nats.dials <= 1 /\ (nats.held <=> nats.open = 1)

\* A graceful shutdown cuts off no client, also when the signal comes twice or
\* clients go on using the connections they have.
NothingCut ==
    proc = "exited" => /\ \A c \in Conns : http[c] # "busy"
                       /\ \A s \in Sockets : conn[s] # "open"

Signalled == \E n \in Signals : shut[n] # "none"
NatsPending(n) == shut[n] = "draining" /\ "nats" \notin settled[n]

\* Clients begin nothing any more and have closed their progress sockets, and no
\* drain() of NATS hangs for ever.
ClientsStop == <>[][~ClientNext]_vars /\ <>[](\A s \in Sockets : conn[s] # "open")
NatsAnswers == <>[](\A n \in Signals : ~NatsPending(n))

\* Then a process that was signalled exits: neither requests that were running,
\* nor connections that are kept alive, nor intervals that abandoned handshakes
\* have left behind keep it.
ShutdownCompletes ==
    ClientsStop /\ NatsAnswers => (Signalled ~> proc = "exited")
=============================================================================
