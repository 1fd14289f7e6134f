------------------------- MODULE ConnRegistryProofs -------------------------
(***************************************************************************)
(* Proofs about ConnRegistry, for any connections and addresses.           *)
(***************************************************************************)
EXTENDS ConnRegistry, TLAPS

-----------------------------------------------------------------------------
(* The inductive invariant                                                 *)

\* The connection was registered; its loops run or are about to.
Started(c) == handler[c] = "start" \/ reader[c] # "none"

\* How far HandleNewConnect, the read loop and Close of a connection can be together.
Life(c) ==
  /\ peer[c] = "none" => handler[c] = "none"
  /\ handler[c] = "none" => socket[c] = "none" /\ reader[c] = "none"
  /\ handler[c] = "handshake" => socket[c] = "open" /\ reader[c] = "none"
  /\ handler[c] = "start" => reader[c] = "none"
  /\ handler[c] = "ended" /\ reader[c] = "none" => socket[c] = "closed"
  /\ closing[c] # "no" => Started(c) /\ socket[c] = "closed"
  /\ Started(c) /\ closing[c] = "no" => socket[c] = "open"
  /\ reader[c] = "ended" => closing[c] = "done"

\* An entry is at the address of its connection, and Close has not ended for it.
Entries ==
  \A a \in ClientIds : connMap[a] # NoConn =>
    clientId[connMap[a]] = a /\ Started(connMap[a]) /\ closing[connMap[a]] # "done"

\* Until Close has ended, an entry is lost only to a later registration.
Kept == \A c \in Conns : Started(c) /\ closing[c] # "done" => connMap[clientId[c]] = c \/ c \in displaced

Inv == TypeOK /\ (\A c \in Conns : Life(c)) /\ Entries /\ Kept

\* A server that has not been started has no connections.
LEMMA InvInit == Init => Inv
<1> SUFFICES ASSUME Init PROVE Inv
  OBVIOUS
<1>1. TypeOK
  BY DEF Init, TypeOK
<1>2. \A c \in Conns : Life(c) /\ ~ Started(c)
  BY DEF Init, Life, Started
<1>3. Entries
  BY DEF Init, Entries
<1> QED BY <1>1, <1>2, <1>3 DEF Inv, Kept

\* What a step does to one connection only.
OnlyTouches(c) ==
  /\ clientId' = clientId
  /\ \A d \in Conns \ {c} :
       /\ peer'[d] = peer[d] /\ handler'[d] = handler[d] /\ reader'[d] = reader[d]
       /\ socket'[d] = socket[d] /\ closing'[d] = closing[d]

\* The other connections live on as they did.
LEMMA LifeOfOthers ==
  ASSUME Inv, NEW c \in Conns, OnlyTouches(c), Life(c)'
  PROVE  /\ \A d \in Conns : Life(d)'
         /\ \A d \in Conns \ {c} : Started(d)' <=> Started(d)
<1>1. ASSUME NEW d \in Conns \ {c} PROVE Life(d)' /\ (Started(d)' <=> Started(d))
  BY <1>1 DEF Inv, OnlyTouches, Life, Started
<1> QED BY <1>1

\* A step that neither starts a connection, nor changes connMap, nor ends a Close.
LEMMA SameEntries ==
  ASSUME Inv, NEW c \in Conns, OnlyTouches(c), Life(c)', UNCHANGED mapVars,
         Started(c)' <=> Started(c), closing'[c] = "done" => closing[c] = "done" \/ ~ Started(c),
         closing[c] = "done" => closing'[c] = "done"
  PROVE  Entries' /\ Kept'
<1>1. \A d \in Conns : Started(d)' <=> Started(d)
  BY LifeOfOthers
<1>2. \A d \in Conns : Started(d) => (closing'[d] = "done" <=> closing[d] = "done")
  BY DEF OnlyTouches
<1>3. clientId' = clientId /\ connMap' = connMap /\ displaced' = displaced
  BY DEF OnlyTouches, mapVars
<1>4. \A a \in ClientIds : connMap[a] # NoConn => connMap[a] \in Conns
  BY DEF Inv, TypeOK
<1>5. Entries'
  BY <1>1, <1>2, <1>3, <1>4 DEF Inv, Entries
<1>6. Kept'
  BY <1>1, <1>2, <1>3 DEF Inv, Kept
<1> QED BY <1>5, <1>6

\* Nothing the invariant relates changes.
LEMMA InvSame ==
  Inv /\ TypeOK' /\ UNCHANGED <<clientId, peer, handler, reader, socket, closing, mapVars>> => Inv'
  BY DEF Inv, mapVars, Life, Started, Entries, Kept

-----------------------------------------------------------------------------
(* Each step keeps it                                                      *)

\* Accepting a connection makes an unregistered one of it.
LEMMA InvListen == Inv /\ StartListen => Inv'
<1> SUFFICES ASSUME Inv, StartListen PROVE Inv'
  OBVIOUS
<1>1. CASE Listen \/ SetListener \/ ListenEnds
  <2>1. TypeOK' /\ UNCHANGED <<clientId, peer, handler, reader, socket, closing, mapVars>>
    BY <1>1 DEF Listen, SetListener, ListenEnds, Inv, TypeOK, connVars, mapVars, listenVars, stopVars
  <2> QED BY <2>1, InvSame
<1>2. ASSUME NEW c \in Conns, Accept(c) PROVE Inv'
  <2> USE <1>2 DEF Accept
  <2>1. TypeOK' /\ OnlyTouches(c) /\ UNCHANGED mapVars
    BY DEF Inv, TypeOK, OnlyTouches, mapVars, listenVars, stopVars
  <2>2. Life(c) /\ ~ Started(c) /\ closing[c] = "no"
    BY DEF Inv, TypeOK, Life, Started
  <2>3. Life(c)' /\ ~ Started(c)' /\ closing'[c] = "no"
    BY <2>2 DEF Inv, TypeOK, Life, Started
  <2> QED BY <2>1, <2>2, <2>3, LifeOfOthers, SameEntries DEF Inv
<1> QED BY <1>1, <1>2 DEF StartListen

\* Registering puts the connection in the map and says whose place it took.
LEMMA InvHandler == ASSUME Inv, NEW c \in Conns, HandleNewConnect(c) PROVE Inv'
<1> USE DEF Inv, TypeOK
<1>1. CASE Reject(c)
  <2> USE <1>1 DEF Reject
  <2>1. TypeOK' /\ OnlyTouches(c) /\ UNCHANGED mapVars
    BY DEF OnlyTouches, mapVars, listenVars, stopVars
  <2>2. ~ Started(c) /\ closing[c] = "no" /\ peer[c] # "none" /\ reader[c] = "none"
    BY DEF Life, Started
  <2>3. Life(c)' /\ ~ Started(c)' /\ closing'[c] = "no"
    BY <2>2 DEF Life, Started
  <2> QED BY <2>1, <2>2, <2>3, LifeOfOthers, SameEntries
<1>2. CASE Register(c)
  <2> USE <1>2 DEF Register
  <2>1. TypeOK' /\ OnlyTouches(c)
    BY DEF OnlyTouches, listenVars, stopVars
  <2>2. ~ Started(c) /\ closing[c] = "no" /\ peer[c] # "none" /\ socket[c] = "open" /\ reader[c] = "none"
    BY DEF Life, Started
  <2>3. Life(c)' /\ Started(c)' /\ closing'[c] = "no"
    BY <2>2 DEF Life, Started
  <2>4. /\ \A d \in Conns : Life(d)'
        /\ \A d \in Conns \ {c} : (Started(d)' <=> Started(d)) /\ closing'[d] = closing[d]
    BY <2>1, <2>3, LifeOfOthers DEF OnlyTouches
  <2>5. connMap' = [connMap EXCEPT ![clientId[c]] = c] /\ clientId' = clientId /\ clientId[c] \in ClientIds
    OBVIOUS
  <2>6. Entries'
    BY <2>3, <2>4, <2>5 DEF Entries
  <2>7. Kept'
    <3> SUFFICES ASSUME NEW d \in Conns, Started(d)', closing'[d] # "done"
                 PROVE  connMap'[clientId'[d]] = d \/ d \in displaced'
      BY DEF Kept
    <3>1. CASE d = c
      BY <2>5, <3>1
    <3>2. CASE d # c
      <4>1. connMap[clientId[d]] = d \/ d \in displaced
        BY <2>4, <3>2 DEF Kept
      <4>2. d # NoConn
        BY ConnRegistryAssumption DEF ConnRegistryAssumption
      <4> QED BY <2>5, <3>2, <4>1, <4>2
    <3> QED BY <3>1, <3>2
  <2> QED BY <2>1, <2>4, <2>6, <2>7
<1>3. CASE StartLoops(c)
  <2> USE <1>3 DEF StartLoops
  <2>1. TypeOK' /\ OnlyTouches(c) /\ UNCHANGED mapVars /\ UNCHANGED closing
    BY DEF OnlyTouches, mapVars, listenVars, stopVars
  <2>2. Started(c) /\ peer[c] # "none" /\ Life(c)
    BY DEF Life, Started
  <2>3. Life(c)' /\ Started(c)'
    BY <2>2 DEF Life, Started
  <2> QED BY <2>1, <2>2, <2>3, LifeOfOthers, SameEntries
<1> QED BY <1>1, <1>2, <1>3 DEF HandleNewConnect

\* Whoever closes the socket, its entry stays until onClose.
LEMMA InvCloseSocket ==
  ASSUME Inv, TypeOK', NEW c \in Conns, CloseSocket(c), Started(c),
         UNCHANGED <<clientId, peer, handler, reader, mapVars>>
  PROVE  Inv'
<1> USE DEF CloseSocket, Inv, TypeOK
<1>1. OnlyTouches(c)
  BY DEF OnlyTouches
<1>2. Life(c)' /\ Started(c)' /\ closing[c] # "done" /\ closing'[c] # "done"
  BY DEF Life, Started
<1> QED BY <1>1, <1>2, LifeOfOthers, SameEntries

\* onClose removes the entry if it is still this connection's.
LEMMA InvOnClose == ASSUME Inv, NEW c \in Conns, OnClose(c) PROVE Inv'
<1> USE DEF Inv, TypeOK, OnClose
<1>1. TypeOK' /\ OnlyTouches(c)
  BY DEF OnlyTouches, Without, listenVars, stopVars
<1>2. Life(c)' /\ closing'[c] = "done"
  BY DEF Life, Started
<1>3. /\ \A d \in Conns : Life(d)'
      /\ \A d \in Conns \ {c} : (Started(d)' <=> Started(d)) /\ closing'[d] = closing[d]
  BY <1>1, <1>2, LifeOfOthers DEF OnlyTouches
<1>4. /\ clientId' = clientId /\ displaced' = displaced
      /\ \A a \in ClientIds : connMap'[a] = IF connMap[a] = c /\ a = clientId[c] THEN NoConn ELSE connMap[a]
  BY DEF Without
<1>5. Entries'
  <2> SUFFICES ASSUME NEW a \in ClientIds, connMap'[a] # NoConn
               PROVE  (clientId[connMap[a]] = a /\ Started(connMap[a])' /\ closing'[connMap[a]] # "done")
                      /\ connMap'[a] = connMap[a]
    BY <1>4 DEF Entries
  <2>1. connMap'[a] = connMap[a] /\ connMap[a] \in Conns
    BY <1>4
  <2>2. clientId[connMap[a]] = a /\ Started(connMap[a]) /\ closing[connMap[a]] # "done"
    BY <2>1 DEF Entries
  <2>3. connMap[a] # c
    BY <1>4, <2>1, <2>2
  <2> QED BY <1>3, <2>1, <2>2, <2>3
<1>6. Kept'
  <2> SUFFICES ASSUME NEW d \in Conns, Started(d)', closing'[d] # "done"
               PROVE  connMap'[clientId[d]] = d \/ d \in displaced
    BY <1>4 DEF Kept
  <2>1. d # c
    BY <1>2
  <2>2. connMap[clientId[d]] = d \/ d \in displaced
    BY <1>3, <2>1 DEF Kept
  <2> QED BY <1>4, <2>1, <2>2
<1> QED BY <1>1, <1>3, <1>5, <1>6

\* The read loop and whoever else closes a connection.
LEMMA InvReader == ASSUME Inv, NEW c \in Conns, HandleRead(c) \/ OtherCloses(c) \/ ClientGone(c) PROVE Inv'
<1> USE DEF Inv, TypeOK
<1>1. CASE ReaderCloses(c) \/ OtherCloses(c)
  <2>1. CloseSocket(c) /\ UNCHANGED <<clientId, peer, handler, reader, mapVars>> /\ Started(c)
    BY <1>1 DEF ReaderCloses, OtherCloses, Started
  <2>2. TypeOK'
    BY <1>1 DEF ReaderCloses, OtherCloses, CloseSocket, mapVars, listenVars, stopVars
  <2> QED BY <2>1, <2>2, InvCloseSocket
<1>2. CASE ReadFails(c) \/ ReaderEnds(c) \/ ClientGone(c)
  <2> USE <1>2 DEF ReadFails, ReaderEnds, ClientGone
  <2>1. TypeOK' /\ OnlyTouches(c) /\ UNCHANGED mapVars /\ UNCHANGED closing
    BY DEF OnlyTouches, mapVars, listenVars, stopVars
  <2>2. Life(c)
    OBVIOUS
  <2>3. Life(c)' /\ (Started(c)' <=> Started(c))
    BY <2>2 DEF Life, Started
  <2> QED BY <2>1, <2>3, LifeOfOthers, SameEntries
<1> QED BY <1>1, <1>2 DEF HandleRead

\* What Stop has still to close was registered when it took its snapshot.
Snapshot == \A c \in toClose : Started(c)

\* Stop closes registered connections only.
LEMMA InvStop == Inv /\ Snapshot /\ Stop => Inv'
<1> SUFFICES ASSUME Inv, Snapshot, Stop PROVE Inv'
  OBVIOUS
<1> USE DEF Inv, TypeOK
<1>1. CASE StopBegins \/ StopListener \/ StopSnapshot \/ StopEnds
  <2>1. TypeOK' /\ UNCHANGED <<clientId, peer, handler, reader, socket, closing, mapVars>>
    <3>1. CASE StopSnapshot
      BY <3>1 DEF StopSnapshot, connVars, mapVars, listenVars
    <3>2. CASE StopBegins \/ StopListener \/ StopEnds
      BY <3>2 DEF StopBegins, StopListener, StopEnds, connVars, mapVars, listenVars
    <3> QED BY <1>1, <3>1, <3>2
  <2> QED BY <2>1, InvSame
<1>2. ASSUME NEW c \in Conns, StopClosed(c) PROVE Inv'
  <2>1. TypeOK' /\ UNCHANGED <<clientId, peer, handler, reader, socket, closing, mapVars>>
    BY <1>2 DEF StopClosed, connVars, mapVars, listenVars
  <2> QED BY <2>1, InvSame
<1>3. ASSUME NEW c \in Conns, StopCloses(c) PROVE Inv'
  <2>1. CloseSocket(c) /\ UNCHANGED <<clientId, peer, handler, reader, mapVars>> /\ Started(c)
    BY <1>3 DEF StopCloses, Snapshot
  <2>2. TypeOK'
    BY <1>3 DEF StopCloses, CloseSocket, mapVars, listenVars, stopVars
  <2> QED BY <2>1, <2>2, InvCloseSocket
<1> QED BY <1>1, <1>2, <1>3 DEF Stop

\* A connection that was started stays so: its read loop begins when its handler ends.
LEMMA StartedStays == Inv /\ [Next]_vars => \A c \in Conns : Started(c) => Started(c)'
<1> SUFFICES ASSUME Inv, [Next]_vars, NEW c \in Conns, Started(c) PROVE Started(c)'
  OBVIOUS
<1> USE DEF Inv, TypeOK, Started, Life
<1>1. CASE UNCHANGED <<handler, reader>>
  BY <1>1
<1>2. ASSUME NEW d \in Conns, Accept(d) \/ HandleNewConnect(d) PROVE Started(c)'
  BY <1>2 DEF Accept, HandleNewConnect, Reject, Register, StartLoops
<1>3. ASSUME NEW d \in Conns, HandleRead(d) PROVE Started(c)'
  BY <1>3 DEF HandleRead, ReadFails, ReaderCloses, ReaderEnds
<1> QED BY <1>1, <1>2, <1>3
        DEF Next, StartListen, Stop, vars, connVars, Listen, SetListener, ListenEnds, StopBegins, StopListener,
            StopSnapshot, StopEnds, StopCloses, StopClosed, OnClose, OtherCloses, ClientGone

\* The snapshot is what is in connMap, and it only shrinks.
LEMMA SnapshotStep == Inv /\ Snapshot /\ [Next]_vars => Snapshot'
<1> SUFFICES ASSUME Inv, Snapshot, [Next]_vars PROVE Snapshot'
  OBVIOUS
<1>1. \A c \in Conns : Started(c) => Started(c)'
  BY StartedStays
<1>2. \A c \in toClose' : c \in Conns /\ Started(c)
  <2>1. CASE StopSnapshot
    BY <2>1 DEF StopSnapshot, Inv, TypeOK, Entries
  <2>2. CASE toClose' \subseteq toClose
    BY <2>2 DEF Inv, TypeOK, Snapshot
  <2> QED BY <2>1, <2>2
          DEF Next, vars, stopVars, StartListen, Stop, Listen, SetListener, ListenEnds, Accept, StopBegins,
              StopListener, StopEnds, StopCloses, StopClosed, HandleNewConnect, Reject, Register, StartLoops,
              HandleRead, ReadFails, ReaderCloses, ReaderEnds, OnClose, OtherCloses, ClientGone
<1> QED BY <1>1, <1>2 DEF Snapshot

IInv == Inv /\ Snapshot

\* The invariant is inductive.
LEMMA Inductive == IInv /\ [Next]_vars => IInv'
<1> SUFFICES ASSUME IInv, [Next]_vars PROVE Inv'
  BY SnapshotStep DEF IInv
<1>1. CASE UNCHANGED vars
  <2>1. TypeOK' /\ UNCHANGED <<clientId, peer, handler, reader, socket, closing, mapVars>>
    BY <1>1 DEF IInv, Inv, TypeOK, vars, connVars, mapVars, listenVars, stopVars
  <2> QED BY <2>1, InvSame DEF IInv
<1>2. CASE Next
  BY <1>2, InvListen, InvStop, InvHandler, InvReader, InvOnClose DEF IInv, Next
<1> QED BY <1>1, <1>2

\* What every reachable state satisfies.
LEMMA Invariant == Spec => []IInv
<1>1. Init => IInv
  BY InvInit DEF Init, IInv, Snapshot
<1> QED BY <1>1, Inductive, PTL DEF Spec

-----------------------------------------------------------------------------
(* Theorems                                                                *)

\* Every variable always has a value of its type.
THEOREM TypeCorrect == Spec => []TypeOK
<1>1. IInv => TypeOK
  BY DEF IInv, Inv
<1> QED BY <1>1, Invariant, PTL

\* No connection whose Close has ended is in connMap.
THEOREM NoneDead == Spec => []NoDeadEntries
<1>1. IInv => NoDeadEntries
  BY DEF IInv, Inv, TypeOK, Entries, NoDeadEntries, Registered
<1> QED BY <1>1, Invariant, PTL

\* A connection in use is in connMap, or one from its address registered after it.
THEOREM LiveRegistered == Spec => []LiveIsRegistered
<1>1. IInv => LiveIsRegistered
  BY DEF IInv, Inv, TypeOK, Life, Kept, Started, LiveIsRegistered
<1> QED BY <1>1, Invariant, PTL

\* Nobody leaks a socket: an open one has a goroutine that will close it.
THEOREM OpenOwned == Spec => []OpenHasOwner
<1>1. IInv => OpenHasOwner
  BY DEF IInv, Inv, TypeOK, Life, Started, OpenHasOwner
<1> QED BY <1>1, Invariant, PTL

\* Stop leaves out only handshakes under way and connections whose address was taken over.
THEOREM OnlyLatecomersStay == Spec => StopLeavesLatecomers
<1>1. IInv /\ [Next]_vars =>
        [stop = "snapshot" /\ stop' = "close" =>
           \A c \in Conns \ toClose' : socket[c] = "open" => handler[c] = "handshake" \/ c \in displaced]_vars
  <2> SUFFICES ASSUME IInv, Next, stop = "snapshot", stop' = "close",
                      NEW c \in Conns \ toClose', socket[c] = "open", handler[c] # "handshake"
               PROVE  c \in displaced
    OBVIOUS
  <2>1. toClose' = {connMap[a] : a \in ClientIds} \ {NoConn}
    BY DEF Next, stopVars, StartListen, Stop, Listen, SetListener, ListenEnds, Accept, StopBegins,
           StopListener, StopSnapshot, StopEnds, StopCloses, StopClosed, HandleNewConnect, Reject, Register,
           StartLoops, HandleRead, ReadFails, ReaderCloses, ReaderEnds, OnClose, OtherCloses, ClientGone
  <2>2. connMap[clientId[c]] = c \/ c \in displaced
    BY DEF IInv, Inv, TypeOK, Life, Kept, Started
  <2>3. connMap[clientId[c]] # c
    BY <2>1, ConnRegistryAssumption DEF ConnRegistryAssumption, IInv, Inv, TypeOK
  <2> QED BY <2>2, <2>3
<1> QED BY <1>1, Invariant, PTL DEF Spec, StopLeavesLatecomers
=============================================================================
