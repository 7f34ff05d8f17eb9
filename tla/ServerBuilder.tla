---------------------------- MODULE ServerBuilder ----------------------------
(***************************************************************************)
(* ServerBuilder, and the listening sockets of the servers it makes.       *)
(* PlainServer and SSLServer bind their port when they are constructed;    *)
(* neither closes its socket, so a port stays taken until the process      *)
(* ends.  There is at most one listening socket on a port, and a server is *)
(* known by it.                                                            *)
(*                                                                         *)
(* The process may be restarted.  Connections it has had may stay behind   *)
(* on its ports for a while, in TIME_WAIT.                                 *)
(***************************************************************************)
EXTENDS Integers, FiniteSets

CONSTANTS Builders,
          Ports,
          PortOf,         \* PortOf[b]: the port builder b is created with
          ThreadCounts,   \* what withThreads may be called with
          None            \* nullptr; no socket

BuilderAssumption ==
    /\ PortOf \in [Builders -> Ports]
    /\ None \notin Ports \cup {"plain", "tls"}
    /\ ThreadCounts \subseteq Int

VARIABLES builder,    \* builder[b]: threadCount and underlyingServer, by its port
          listening,  \* listening[p]: the kind of server that listens on p, or None
          built,      \* the HttpServers: by whom they were built, socket and threads
          lingering,  \* lingering[p]: the kinds of server whose connections linger
          secured,    \* history: builders on which withSsl has succeeded
          usedTls     \* history: ports on which an SSLServer has ever listened

vars == <<builder, listening, built, lingering, secured, usedTls>>

Kinds == {"plain", "tls"}
NewBuilder == [threads |-> 1, server |-> None]

TypeOK ==
    /\ builder \in [Builders -> [threads : Nat \ {0}, server : Ports \cup {None}]]
    /\ listening \in [Ports -> Kinds \cup {None}]
    /\ built \subseteq [by : Builders, socket : Ports, threads : Nat \ {0}]
    /\ lingering \in [Ports -> SUBSET Kinds]
    /\ secured \subseteq Builders /\ usedTls \subseteq Ports

Init ==
    /\ builder = [b \in Builders |-> NewBuilder]
    /\ listening = [p \in Ports |-> None]
    /\ built = {}
    /\ lingering = [p \in Ports |-> {}]
    /\ secured = {} /\ usedTls = {}
-----------------------------------------------------------------------------
(* A call that throws leaves everything as it was: each throws before its  *)
(* first assignment.                                                       *)
Throws == UNCHANGED vars

(* bind: connections that linger keep a port from a socket, unless both    *)
(* have SO_REUSEADDR, which connections take from their server.            *)
NoneReuse(kind) == FALSE
ReusesAddress(kind) == kind = "plain"

CanBind(port, kind) ==
    /\ listening[port] = None
    /\ \A old \in lingering[port] : ReusesAddress(old) /\ ReusesAddress(kind)

(* The constructors of PlainServer and SSLServer.                          *)
Bound(port, kind) ==
    /\ CanBind(port, kind)
    /\ usedTls' = IF kind = "tls" THEN usedTls \cup {port} ELSE usedTls

(* What is left of a listening socket when its server is destroyed.        *)
SocketClosed(kind) == None
SocketKept(kind) == kind

Destroyed(sockets, server) ==
    [p \in Ports |-> IF p = server THEN SocketKept(sockets[p]) ELSE sockets[p]]

(* A builder's life may begin anew.                                        *)
CreateNew(b) ==
    /\ listening' = Destroyed(listening, builder[b].server)
    /\ builder' = [builder EXCEPT ![b] = NewBuilder]
    /\ secured' = secured \ {b}
    /\ UNCHANGED <<built, lingering, usedTls>>

WithThreads(b, n) ==
    \/ n <= 0 /\ Throws
    \/ /\ n > 0
       /\ builder' = [builder EXCEPT ![b].threads = n]
       /\ UNCHANGED <<listening, built, lingering, secured, usedTls>>

(* The server that the builder has had is destroyed.                       *)
Given(b, port, kind) ==
    /\ Bound(port, kind)
    /\ builder' = [builder EXCEPT ![b].server = port]
    /\ listening' = [Destroyed(listening, builder[b].server) EXCEPT ![port] = kind]
    /\ UNCHANGED <<built, lingering>>

(* With a server that the caller has just made, or failed to make, or with *)
(* nullptr.                                                                *)
WithUnderlyingServer(b) ==
    \/ \E port \in Ports, kind \in Kinds : Given(b, port, kind) /\ UNCHANGED secured
    \/ Throws

(* The certificate or the key may not be there.                            *)
WithSsl(b) ==
    \/ Given(b, PortOf[b], "tls") /\ secured' = secured \cup {b}
    \/ Throws

StillThere(server) == server
MovedFrom(server) == None

Build(b) ==
    LET given == builder[b].server
        socket == IF given = None THEN PortOf[b] ELSE given
    IN  \/ /\ given = None => Bound(socket, "plain")
           /\ given # None => UNCHANGED usedTls
           /\ listening' = IF given = None THEN [listening EXCEPT ![socket] = "plain"] ELSE listening
           /\ built' = built \cup {[by |-> b, socket |-> socket, threads |-> builder[b].threads]}
           /\ builder' = [builder EXCEPT ![b].server = MovedFrom(socket)]
           /\ UNCHANGED <<lingering, secured>>
        \/ given = None /\ ~CanBind(socket, "plain") /\ Throws

DestroyServer(server) ==
    /\ built' = built \ {server}
    /\ listening' = Destroyed(listening, server.socket)
    /\ UNCHANGED <<builder, lingering, secured, usedTls>>

(* A connection is closed by its server first, and later forgotten.        *)
Linger(server) ==
    /\ lingering' = [lingering EXCEPT ![server.socket] = @ \cup {listening[server.socket]}]
    /\ UNCHANGED <<builder, listening, built, secured, usedTls>>

Forget(port) ==
    /\ lingering' = [lingering EXCEPT ![port] = {}]
    /\ UNCHANGED <<builder, listening, built, secured, usedTls>>

(* The process ends, and is started again.                                 *)
Restart ==
    /\ builder' = [b \in Builders |-> NewBuilder]
    /\ listening' = [p \in Ports |-> None]
    /\ built' = {} /\ secured' = {}
    /\ UNCHANGED <<lingering, usedTls>>

Next ==
    \/ \E b \in Builders :
          \/ CreateNew(b) \/ WithUnderlyingServer(b) \/ WithSsl(b) \/ Build(b)
          \/ \E n \in ThreadCounts : WithThreads(b, n)
    \/ \E server \in built : DestroyServer(server) \/ Linger(server)
    \/ \E port \in Ports : Forget(port)
    \/ Restart

Safety == Init /\ [][Next]_vars
-----------------------------------------------------------------------------
(* A listening socket belongs to one server, in a builder or built: a      *)
(* builder that is used again does not give its server away twice          *)
(* (ServerBuilder.cpp:30, 44).                                             *)
SocketOfOneServer ==
    /\ \A s, t \in built : s.socket = t.socket => s = t
    /\ \A b \in Builders : \A s \in built : builder[b].server # s.socket
    /\ \A b, c \in Builders :
          b # c /\ builder[b].server # None => builder[b].server # builder[c].server

(* On a builder that was made to use TLS, no call, and no second build,    *)
(* puts a plain server on its port: build() falls back to a PlainServer,   *)
(* and only the socket that no destructor closes keeps it from that        *)
(* (ServerBuilder.cpp:36, 41-44, SSLServer.hpp:26).                        *)
NoPlainAfterSsl ==
    \A s \in built :
        s.by \in secured /\ s.socket = PortOf[s.by] => listening[s.socket] # "plain"

(* A process can have a port back at once that only plain servers have had *)
(* before it, whatever connections they have left (PlainServer.cpp:24-28). *)
PlainRestarts ==
    \A p \in Ports : p \notin usedTls /\ listening[p] = None => CanBind(p, "plain")
=============================================================================
