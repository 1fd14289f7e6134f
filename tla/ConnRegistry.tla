---------------------------- MODULE ConnRegistry ----------------------------
(***************************************************************************)
(* The client connections of network/server/iso_server.go as a whole: the  *)
(* accept loop (StartListen), one goroutine per new connection             *)
(* (HandleNewConnect), the map of registered connections and its upkeep    *)
(* (connMap, removeConn, IsoConnection.Close) and Stop.                    *)
(*                                                                         *)
(* What goes over a connection is the subject of IsoConnection; here its   *)
(* read loop only notices that the peer is gone or the socket closed.      *)
(***************************************************************************)
EXTENDS Naturals, FiniteSets

CONSTANTS
  Conns,       \* the connections clients open
  ClientIds,   \* remote addresses; one may be used again when its client is gone
  NoConn       \* the value of connMap at an address that is not in it

ASSUME ConnRegistryAssumption == NoConn \notin Conns

VARIABLES
  clientId,    \* the remote address of each connection
  peer,        \* the client's end: none, up or gone
  handler,     \* HandleNewConnect: none, handshake, start or ended
  reader,      \* HandleRead: none, read, close or ended
  socket,      \* the server's end: none, open or closed
  closing,     \* Close: no, socket (closed, onClose still to run) or done
  connMap,     \* connMap: address -> connection
  listen,      \* StartListen: idle, bound, accept, or nil, which it returned
  listener,    \* server.listener has been set
  bound,       \* the listening socket is open
  stop,        \* Stop: idle, listener, snapshot, close or done
  toClose,     \* the snapshot of connections Stop has yet to close
  \* history variable
  displaced    \* connections whose entry another registration has overwritten

connVars == <<peer, handler, reader, socket, closing>>
listenVars == <<listen, listener, bound>>
stopVars == <<stop, toClose>>
mapVars == <<connMap, displaced>>
vars == <<clientId, connVars, mapVars, listenVars, stopVars>>

TypeOK ==
  /\ clientId \in [Conns -> ClientIds]
  /\ peer \in [Conns -> {"none", "up", "gone"}]
  /\ handler \in [Conns -> {"none", "handshake", "start", "ended"}]
  /\ reader \in [Conns -> {"none", "read", "close", "ended"}]
  /\ socket \in [Conns -> {"none", "open", "closed"}]
  /\ closing \in [Conns -> {"no", "socket", "done"}]
  /\ connMap \in [ClientIds -> Conns \cup {NoConn}]
  /\ listen \in {"idle", "bound", "accept", "nil"}
  /\ listener \in BOOLEAN /\ bound \in BOOLEAN
  /\ stop \in {"idle", "listener", "snapshot", "close", "done"}
  /\ toClose \subseteq Conns /\ displaced \subseteq Conns

Init ==
  /\ clientId \in [Conns -> ClientIds]
  /\ peer = [c \in Conns |-> "none"]
  /\ handler = [c \in Conns |-> "none"]
  /\ reader = [c \in Conns |-> "none"]
  /\ socket = [c \in Conns |-> "none"]
  /\ closing = [c \in Conns |-> "no"]
  /\ connMap = [a \in ClientIds |-> NoConn]
  /\ listen = "idle" /\ listener = FALSE /\ bound = FALSE
  /\ stop = "idle" /\ toClose = {} /\ displaced = {}

-----------------------------------------------------------------------------
(* Clients                                                                 *)

\* TCP gives an address to one live connection at a time; the server may not
\* have noticed yet that the earlier one is gone.
ClientGone(c) ==
  /\ peer[c] = "up"
  /\ peer' = [peer EXCEPT ![c] = "gone"]
  /\ UNCHANGED <<clientId, handler, reader, socket, closing, mapVars, listenVars, stopVars>>

-----------------------------------------------------------------------------
(* StartListen                                                             *)

Listen ==
  /\ listen = "idle"
  /\ listen' = "bound" /\ bound' = TRUE
  /\ UNCHANGED <<clientId, connVars, mapVars, listener, stopVars>>

\* server.listener is set under the lock, when clients can already connect.
SetListener ==
  /\ listen = "bound"
  /\ listen' = "accept" /\ listener' = TRUE
  /\ UNCHANGED <<clientId, connVars, mapVars, bound, stopVars>>

\* Accept returns a new connection, and HandleNewConnect is started for it.
Accept(c) ==
  /\ listen = "accept" /\ bound
  /\ peer[c] = "none"
  /\ \A d \in Conns : clientId[d] = clientId[c] => peer[d] # "up"
  /\ peer' = [peer EXCEPT ![c] = "up"]
  /\ socket' = [socket EXCEPT ![c] = "open"]
  /\ handler' = [handler EXCEPT ![c] = "handshake"]
  /\ UNCHANGED <<clientId, reader, closing, mapVars, listenVars, stopVars>>

\* Accept returns net.ErrClosed: StartListen returns nil.
ListenEnds ==
  /\ listen = "accept" /\ ~ bound
  /\ listen' = "nil"
  /\ UNCHANGED <<clientId, connVars, mapVars, listener, bound, stopVars>>

-----------------------------------------------------------------------------
(* HandleNewConnect                                                        *)

\* A mutant of Reject: the deferred close is missing.
RejectOpen(c) ==
  /\ handler[c] = "handshake"
  /\ handler' = [handler EXCEPT ![c] = "ended"]
  /\ UNCHANGED <<clientId, peer, reader, socket, closing, mapVars, listenVars, stopVars>>

\* The handshake or the certificate fails, or the simulated disconnect strikes:
\* the socket is closed on the way out.
Reject(c) ==
  /\ handler[c] = "handshake"
  /\ handler' = [handler EXCEPT ![c] = "ended"]
  /\ socket' = [socket EXCEPT ![c] = "closed"]
  /\ UNCHANGED <<clientId, peer, reader, closing, mapVars, listenVars, stopVars>>

\* A mutant of Register: an address that is in connMap keeps its connection.
RegisterFirst(c) ==
  /\ handler[c] = "handshake"
  /\ handler' = [handler EXCEPT ![c] = "start"]
  /\ connMap' = [connMap EXCEPT ![clientId[c]] = IF @ = NoConn THEN c ELSE @]
  /\ UNCHANGED <<displaced, clientId, peer, reader, socket, closing, listenVars, stopVars>>

\* The handshake succeeded: the connection is entered in connMap.
Register(c) ==
  /\ handler[c] = "handshake"
  /\ handler' = [handler EXCEPT ![c] = "start"]
  /\ connMap' = [connMap EXCEPT ![clientId[c]] = c]
  /\ displaced' = displaced \cup ({connMap[clientId[c]]} \ {NoConn})
  /\ UNCHANGED <<clientId, peer, reader, socket, closing, listenVars, stopVars>>

\* The read and write loops are started.
StartLoops(c) ==
  /\ handler[c] = "start"
  /\ handler' = [handler EXCEPT ![c] = "ended"]
  /\ reader' = [reader EXCEPT ![c] = "read"]
  /\ UNCHANGED <<clientId, peer, socket, closing, mapVars, listenVars, stopVars>>

-----------------------------------------------------------------------------
(* IsoConnection.Close: closeOnce lets one caller through; later callers   *)
(* wait until it is done.                                                  *)

\* The caller that goes first closes the socket.
CloseSocket(c) ==
  /\ closing[c] = "no"
  /\ closing' = [closing EXCEPT ![c] = "socket"]
  /\ socket' = [socket EXCEPT ![c] = "closed"]

\* A mutant of Without: whatever is registered at the address goes.
WithoutAddress(c) == [connMap EXCEPT ![clientId[c]] = NoConn]

\* Another: the entry stays.
WithAll(c) == connMap

\* removeConn: the entry goes only if it is still this connection's.
Without(c) ==
  IF connMap[clientId[c]] = c THEN [connMap EXCEPT ![clientId[c]] = NoConn] ELSE connMap

OnClose(c) ==
  /\ closing[c] = "socket"
  /\ closing' = [closing EXCEPT ![c] = "done"]
  /\ connMap' = Without(c)
  /\ UNCHANGED <<displaced, clientId, peer, handler, reader, socket, listenVars, stopVars>>

\* HandleRead fails on a socket whose peer is gone or that has been closed, and
\* calls Close on its way out.
ReadFails(c) ==
  /\ reader[c] = "read"
  /\ peer[c] = "gone" \/ socket[c] = "closed"
  /\ reader' = [reader EXCEPT ![c] = "close"]
  /\ UNCHANGED <<clientId, peer, handler, socket, closing, mapVars, listenVars, stopVars>>

ReaderCloses(c) ==
  /\ reader[c] = "close"
  /\ CloseSocket(c)
  /\ UNCHANGED <<clientId, peer, handler, reader, mapVars, listenVars, stopVars>>

ReaderEnds(c) ==
  /\ reader[c] = "close" /\ closing[c] = "done"
  /\ reader' = [reader EXCEPT ![c] = "ended"]
  /\ UNCHANGED <<clientId, peer, handler, socket, closing, mapVars, listenVars, stopVars>>

\* A failed write or connection test closes a connection that has been registered,
\* perhaps before its loops have been started.
OtherCloses(c) ==
  /\ handler[c] = "start" \/ reader[c] # "none"
  /\ CloseSocket(c)
  /\ UNCHANGED <<clientId, peer, handler, reader, mapVars, listenVars, stopVars>>

-----------------------------------------------------------------------------
(* Stop, called once at shutdown                                           *)

\* The listener is read under the lock; there may be none yet.
StopBegins ==
  /\ stop = "idle"
  /\ stop' = IF listener THEN "listener" ELSE "snapshot"
  /\ UNCHANGED <<clientId, connVars, mapVars, listenVars, toClose>>

\* A mutant of StopListener: the listener is left open.
StopNoListener ==
  /\ stop = "listener"
  /\ stop' = "snapshot"
  /\ UNCHANGED <<clientId, connVars, mapVars, listenVars, toClose>>

\* Connections that were not accepted are reset.
StopListener ==
  /\ stop = "listener"
  /\ bound' = FALSE
  /\ stop' = "snapshot"
  /\ UNCHANGED <<clientId, connVars, mapVars, listen, listener, toClose>>

\* connections(): a snapshot taken under the lock
StopSnapshot ==
  /\ stop = "snapshot"
  /\ toClose' = {connMap[a] : a \in ClientIds} \ {NoConn}
  /\ stop' = "close"
  /\ UNCHANGED <<clientId, connVars, mapVars, listenVars>>

\* Close the connections of the snapshot, by closing them or by waiting for the
\* goroutine that does.
StopCloses(c) ==
  /\ stop = "close" /\ c \in toClose
  /\ CloseSocket(c)
  /\ UNCHANGED <<clientId, peer, handler, reader, mapVars, listenVars, stopVars>>

StopClosed(c) ==
  /\ stop = "close" /\ c \in toClose
  /\ closing[c] = "done"
  /\ toClose' = toClose \ {c}
  /\ UNCHANGED <<clientId, connVars, mapVars, listenVars, stop>>

StopEnds ==
  /\ stop = "close" /\ toClose = {}
  /\ stop' = "done"
  /\ UNCHANGED <<clientId, connVars, mapVars, listenVars, toClose>>

-----------------------------------------------------------------------------
StartListen == Listen \/ SetListener \/ (\E c \in Conns : Accept(c)) \/ ListenEnds
HandleNewConnect(c) == Reject(c) \/ Register(c) \/ StartLoops(c)
HandleRead(c) == ReadFails(c) \/ ReaderCloses(c) \/ ReaderEnds(c)
Stop ==
  \/ StopBegins \/ StopListener \/ StopSnapshot \/ StopEnds
  \/ \E c \in Conns : StopCloses(c) \/ StopClosed(c)

Next ==
  \/ StartListen \/ Stop
  \/ \E c \in Conns :
       HandleNewConnect(c) \/ HandleRead(c) \/ OnClose(c) \/ OtherCloses(c) \/ ClientGone(c)

Spec == Init /\ [][Next]_vars

(***************************************************************************)
(* Fairness: goroutines that can go on do.  Clients need not connect,      *)
(* leave or complete the handshake, and nothing has to be closed or        *)
(* stopped; a Stop that has begun goes on.                                 *)
(***************************************************************************)
Fairness ==
  /\ WF_vars(ListenEnds)
  /\ WF_vars(Stop /\ stop # "idle")
  /\ \A c \in Conns :
       WF_vars(StartLoops(c)) /\ WF_vars(HandleRead(c)) /\ WF_vars(OnClose(c))

FairSpec == Spec /\ Fairness

-----------------------------------------------------------------------------
(* Safety                                                                  *)

Registered == {connMap[a] : a \in ClientIds} \ {NoConn}

\* No connection whose Close has ended is in connMap: messages, tests and stress
\* load never go to one that nobody will remove again.
NoDeadEntries ==
  \A c \in Registered : closing[c] # "done" /\ connMap[clientId[c]] = c

\* A connection in use stays reachable: while its client is there and it has not
\* been closed it is in connMap, though an earlier connection from the same
\* address is being closed at the same time.  The exception: the goroutine of the
\* earlier one, its client long gone, is so late that it registers after it.
LiveIsRegistered ==
  \A c \in Conns :
    (handler[c] \in {"start", "ended"} /\ socket[c] = "open" /\ peer[c] = "up")
      => connMap[clientId[c]] = c \/ c \in displaced

\* An open socket has an owner that will close it when the client goes: the
\* goroutine of HandleNewConnect or the read loop.
OpenHasOwner ==
  \A c \in Conns : socket[c] = "open" =>
    handler[c] \in {"handshake", "start"} \/ reader[c] \in {"read", "close"}

\* The snapshot Stop takes holds every open connection but those in their
\* handshake and those whose address another one has taken over.
StopLeavesLatecomers == [][
    stop = "snapshot" /\ stop' = "close" =>
      \A c \in Conns \ toClose' :
        socket[c] = "open" => handler[c] = "handshake" \/ c \in displaced
  ]_vars

-----------------------------------------------------------------------------
(* Liveness                                                                *)

\* A registered connection whose client goes away leaves connMap.
GoneIsRemoved ==
  \A c \in Conns :
    (peer[c] = "gone" /\ connMap[clientId[c]] = c) ~> connMap[clientId[c]] # c

\* A Stop that has begun ends, and when it found the listener so does StartListen.
StopReturns == /\ stop # "idle" ~> stop = "done"
               /\ stop = "listener" ~> listen = "nil"
=============================================================================
