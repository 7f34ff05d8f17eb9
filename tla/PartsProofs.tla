------------------------------ MODULE PartsProofs -----------------------------
(***************************************************************************)
(* What the parts of Parts promise, for every value of their constants:    *)
(* the server builder, the responses, the byte streams and the routing are *)
(* proved here, the parser, the free list and the task queue in modules of *)
(* their own.                                                              *)
(* The theorems about the composition are at the end.                      *)
(***************************************************************************)
EXTENDS Parts, TaskQueueProofs

ParserProofs ==
    INSTANCE HttpRequestParserProofs
        WITH pc <- parserPc, Methods <- MethodTexts, Uris <- UriTexts,
             Versions <- VersionTexts, Keys <- KeyTexts, Values <- ValueTexts

ListProofs == INSTANCE FreeListProofs WITH pc <- threadPc
-----------------------------------------------------------------------------
(* The server builder.  That no destructor closes a listening socket is    *)
(* what these proofs rest on: a port on which a server listens is never    *)
(* bound anew until the process ends, so that who holds a port holds it    *)
(* alone.                                                                  *)

(* A server that somebody has listens on its port.                         *)
ServersListen ==
    /\ \A b \in Builders :
          serverBuilder[b].server # None => listening[serverBuilder[b].server] # None
    /\ \A s \in built : listening[s.socket] # None

(* Once withSsl has succeeded, TLS has the port of the builder.            *)
SecuredIsTls == \A b \in secured : listening[PortOf[b]] = "tls"

(* TLS, or connections that it leaves, are only where it has been.         *)
TlsIsRecorded ==
    \A p \in Ports : listening[p] = "tls" \/ "tls" \in lingering[p] => p \in usedTls

BuilderHeld == /\ Builder!TypeOK /\ ServersListen /\ Builder!SocketOfOneServer
               /\ SecuredIsTls /\ TlsIsRecorded
-----------------------------------------------------------------------------
(* Destroying a server leaves its socket.                                  *)
LEMMA DestroyedIsKept ==
    ASSUME NEW server, listening \in [Ports -> Builder!Kinds \cup {None}]
    PROVE  Builder!Destroyed(listening, server) = listening
BY DEF Builder!Destroyed, Builder!SocketKept

(* A new listening socket is on a port that had none; every other port is  *)
(* as it was.                                                              *)
LEMMA BoundAnew ==
    ASSUME NEW port \in Ports, NEW what \in Builder!Kinds,
           listening \in [Ports -> Builder!Kinds \cup {None}],
           usedTls \subseteq Ports, Builder!Bound(port, what)
    PROVE  /\ listening[port] = None
           /\ usedTls' \subseteq Ports
           /\ usedTls \subseteq usedTls'
           /\ what = "tls" => port \in usedTls'
BY DEF Builder!Bound, Builder!CanBind, Builder!Kinds

LEMMA BuilderAtFirst ==
    ASSUME Builder!BuilderAssumption, Builder!Init
    PROVE  BuilderHeld
<1>1. Builder!TypeOK
  BY DEF Builder!BuilderAssumption, Builder!Init, Builder!TypeOK, Builder!NewBuilder,
       Builder!Kinds
<1>2. ServersListen /\ Builder!SocketOfOneServer /\ SecuredIsTls /\ TlsIsRecorded
  BY DEF Builder!BuilderAssumption, Builder!Init, Builder!NewBuilder, ServersListen,
       Builder!SocketOfOneServer, SecuredIsTls,
         TlsIsRecorded
<1> QED BY <1>1, <1>2 DEF BuilderHeld

(* A builder that is created anew lets go of its server and of nothing     *)
(* else.                                                                   *)
LEMMA BuilderByCreateNew ==
    ASSUME Builder!BuilderAssumption, BuilderHeld, NEW b \in Builders, Builder!CreateNew(b)
    PROVE  BuilderHeld'
<1>1. listening' = listening
  BY DestroyedIsKept DEF Builder!CreateNew, BuilderHeld, Builder!TypeOK
<1>2. /\ serverBuilder' \in [Builders -> [threads : Nat \ {0}, server : Ports \cup {None}]]
      /\ serverBuilder'[b].server = None
      /\ \A c \in Builders : c # b => serverBuilder'[c] = serverBuilder[c]
      /\ secured' = secured \ {b}
      /\ UNCHANGED <<built, lingering, usedTls>>
  BY DEF Builder!CreateNew, Builder!NewBuilder, BuilderHeld, Builder!TypeOK
<1>3. Builder!TypeOK'
  BY <1>1, <1>2 DEF BuilderHeld, Builder!TypeOK
<1>4. ServersListen' /\ Builder!SocketOfOneServer'
  BY <1>1, <1>2 DEF BuilderHeld, Builder!TypeOK, ServersListen, Builder!SocketOfOneServer,
       Builder!BuilderAssumption
<1>5. SecuredIsTls' /\ TlsIsRecorded'
  BY <1>1, <1>2 DEF BuilderHeld, SecuredIsTls, TlsIsRecorded
<1> QED BY <1>3, <1>4, <1>5 DEF BuilderHeld

LEMMA BuilderByWithThreads ==
    ASSUME Builder!BuilderAssumption, BuilderHeld, NEW b \in Builders, NEW n \in ThreadCounts,
           n > 0, serverBuilder' = [serverBuilder EXCEPT ![b].threads = n],
           UNCHANGED <<listening, built, lingering, secured, usedTls>>
    PROVE  BuilderHeld'
<1>1. n \in Nat \ {0}
  BY DEF Builder!BuilderAssumption
<1>2. /\ serverBuilder' \in [Builders -> [threads : Nat \ {0}, server : Ports \cup {None}]]
      /\ \A c \in Builders : serverBuilder'[c].server = serverBuilder[c].server
  BY <1>1 DEF BuilderHeld, Builder!TypeOK
<1>3. Builder!TypeOK'
  BY <1>2 DEF BuilderHeld, Builder!TypeOK
<1>4. ServersListen' /\ Builder!SocketOfOneServer'
  BY <1>2 DEF BuilderHeld, ServersListen, Builder!SocketOfOneServer
<1>5. SecuredIsTls' /\ TlsIsRecorded'
  BY DEF BuilderHeld, SecuredIsTls, TlsIsRecorded
<1> QED BY <1>3, <1>4, <1>5 DEF BuilderHeld

(* The port of a new server had none: nobody else holds it.                *)
LEMMA BuilderByGiven ==
    ASSUME Builder!BuilderAssumption, BuilderHeld, NEW b \in Builders, NEW port \in Ports,
           NEW what \in Builder!Kinds,
           Builder!Given(b, port, what),
           \/ UNCHANGED secured
           \/ what = "tls" /\ port = PortOf[b] /\ secured' = secured \cup {b}
    PROVE  BuilderHeld'
<1>1. /\ listening[port] = None
      /\ usedTls' \subseteq Ports /\ usedTls \subseteq usedTls'
      /\ what = "tls" => port \in usedTls'
  BY BoundAnew DEF Builder!Given, BuilderHeld, Builder!TypeOK
<1>2. listening' = [listening EXCEPT ![port] = what]
  BY DestroyedIsKept DEF Builder!Given, BuilderHeld, Builder!TypeOK
<1>3. /\ serverBuilder' \in [Builders -> [threads : Nat \ {0}, server : Ports \cup {None}]]
      /\ serverBuilder'[b].server = port
      /\ \A c \in Builders : c # b => serverBuilder'[c] = serverBuilder[c]
      /\ UNCHANGED <<built, lingering>>
  BY DEF Builder!Given, BuilderHeld, Builder!TypeOK
<1>4. what # None /\ port # None
  BY DEF Builder!BuilderAssumption, Builder!Kinds
<1>5. Builder!TypeOK'
  BY <1>1, <1>2, <1>3 DEF BuilderHeld, Builder!TypeOK
<1>6. /\ \A c \in Builders : serverBuilder[c].server # port
      /\ \A s \in built : s.socket # port /\ s.socket \in Ports
  BY <1>1, <1>4 DEF BuilderHeld, ServersListen, Builder!TypeOK
<1>7. ServersListen'
  BY <1>2, <1>3, <1>4, <1>6 DEF BuilderHeld, Builder!TypeOK, ServersListen
<1>8. Builder!SocketOfOneServer'
  BY <1>3, <1>6 DEF BuilderHeld, Builder!SocketOfOneServer
<1>9. SecuredIsTls'
  <2>1. \A c \in secured : PortOf[c] # port /\ PortOf[c] \in Ports
    BY <1>1 DEF BuilderHeld, SecuredIsTls, Builder!TypeOK, Builder!BuilderAssumption
  <2>2. \A c \in secured : listening'[PortOf[c]] = "tls"
    BY <2>1, <1>2 DEF BuilderHeld, SecuredIsTls, Builder!TypeOK
  <2> QED BY <2>2, <1>2 DEF SecuredIsTls, BuilderHeld, Builder!TypeOK
<1>10. TlsIsRecorded'
  BY <1>1, <1>2, <1>3 DEF BuilderHeld, Builder!TypeOK, TlsIsRecorded
<1> QED BY <1>5, <1>7, <1>8, <1>9, <1>10 DEF BuilderHeld

(* A second build on the port finds it taken.                              *)
LEMMA BuilderByBuild ==
    ASSUME Builder!BuilderAssumption, BuilderHeld, NEW b \in Builders, Builder!Build(b)
    PROVE  BuilderHeld'
<1> DEFINE given == serverBuilder[b].server
           place == IF given = None THEN PortOf[b] ELSE given
           new == [by |-> b, socket |-> place, threads |-> serverBuilder[b].threads]
<1>1. CASE Builder!Throws
  BY <1>1 DEF Builder!Throws, Builder!vars, BuilderHeld, Builder!TypeOK, ServersListen,
       Builder!SocketOfOneServer, SecuredIsTls,
              TlsIsRecorded, Builder!CanBind
<1>2. CASE ~Builder!Throws
  <2>1. /\ given = None => Builder!Bound(place, "plain")
        /\ given # None => UNCHANGED usedTls
        /\ listening' = IF given = None THEN [listening EXCEPT ![place] = "plain"]
                        ELSE listening
        /\ built' = built \cup {new}
        /\ serverBuilder' = [serverBuilder EXCEPT ![b].server = None]
        /\ UNCHANGED <<lingering, secured>>
    BY <1>2 DEF Builder!Build, Builder!MovedFrom
  <2>2. given \in Ports \cup {None} /\ place \in Ports
    BY DEF BuilderHeld, Builder!TypeOK, Builder!BuilderAssumption
  <2>3. new \in [by : Builders, socket : Ports, threads : Nat \ {0}]
    BY <2>2 DEF BuilderHeld, Builder!TypeOK
  <2>4. /\ given = None => listening[place] = None
        /\ usedTls' \subseteq Ports /\ usedTls \subseteq usedTls'
    BY <2>1, <2>2, BoundAnew DEF BuilderHeld, Builder!TypeOK, Builder!Kinds
  <2>5. /\ serverBuilder' \in [Builders -> [threads : Nat \ {0}, server : Ports \cup {None}]]
        /\ serverBuilder'[b].server = None
        /\ \A c \in Builders : c # b => serverBuilder'[c] = serverBuilder[c]
    BY <2>1 DEF BuilderHeld, Builder!TypeOK
  <2>6. /\ listening' \in [Ports -> Builder!Kinds \cup {None}]
        /\ listening'[place] # None
        /\ \A p \in Ports : listening[p] # None => listening'[p] = listening[p]
        /\ \A p \in Ports : listening'[p] = "tls" => listening[p] = "tls"
    BY <2>1, <2>2, <2>4 DEF BuilderHeld, Builder!TypeOK, ServersListen,
         Builder!BuilderAssumption, Builder!Kinds
  <2>7. Builder!TypeOK'
    BY <2>1, <2>3, <2>4, <2>5, <2>6 DEF BuilderHeld, Builder!TypeOK
  <2>8. /\ \A s \in built : s.socket # place /\ s.socket \in Ports
        /\ \A c \in Builders : c # b => serverBuilder[c].server # place
    <3>1. CASE given = None
      BY <3>1, <2>2, <2>4 DEF BuilderHeld, Builder!TypeOK, ServersListen,
           Builder!BuilderAssumption
    <3>2. CASE given # None
      BY <3>2 DEF BuilderHeld, Builder!TypeOK, Builder!SocketOfOneServer
    <3> QED BY <3>1, <3>2
  <2>9. ServersListen'
    BY <2>1, <2>5, <2>6, <2>8 DEF BuilderHeld, Builder!TypeOK, ServersListen
  <2>10. Builder!SocketOfOneServer'
    <3>1. \A s \in built' : s = new \/ (s \in built /\ s.socket # place)
      BY <2>1, <2>8
    <3>2. \A s, t \in built' : s.socket = t.socket => s = t
      BY <3>1 DEF BuilderHeld, Builder!SocketOfOneServer
    <3>3. \A c \in Builders : \A s \in built' : serverBuilder'[c].server # s.socket
      BY <3>1, <2>2, <2>5, <2>8, <2>7 DEF BuilderHeld, Builder!SocketOfOneServer,
           Builder!TypeOK, Builder!BuilderAssumption
    <3>4. \A c, d \in Builders :
             c # d /\ serverBuilder'[c].server # None
               => serverBuilder'[c].server # serverBuilder'[d].server
      BY <2>5 DEF BuilderHeld, Builder!SocketOfOneServer
    <3> QED BY <3>2, <3>3, <3>4 DEF Builder!SocketOfOneServer
  <2>11. SecuredIsTls'
    BY <2>1, <2>6 DEF BuilderHeld, SecuredIsTls, Builder!TypeOK, Builder!BuilderAssumption
  <2>12. TlsIsRecorded'
    BY <2>1, <2>4, <2>6 DEF BuilderHeld, TlsIsRecorded
  <2> QED BY <2>7, <2>9, <2>10, <2>11, <2>12 DEF BuilderHeld
<1> QED BY <1>1, <1>2

LEMMA BuilderByDestroyServer ==
    ASSUME Builder!BuilderAssumption, BuilderHeld, NEW server \in built,
           Builder!DestroyServer(server)
    PROVE  BuilderHeld'
<1>1. /\ listening' = listening /\ built' = built \ {server}
      /\ UNCHANGED <<serverBuilder, lingering, secured, usedTls>>
  BY DestroyedIsKept DEF Builder!DestroyServer, BuilderHeld, Builder!TypeOK
<1>2. Builder!TypeOK' /\ ServersListen' /\ Builder!SocketOfOneServer'
  BY <1>1 DEF BuilderHeld, Builder!TypeOK, ServersListen, Builder!SocketOfOneServer
<1>3. SecuredIsTls' /\ TlsIsRecorded'
  BY <1>1 DEF BuilderHeld, SecuredIsTls, TlsIsRecorded
<1> QED BY <1>2, <1>3 DEF BuilderHeld

(* What lingers is of the kind that listens.                               *)
LEMMA BuilderByLinger ==
    ASSUME Builder!BuilderAssumption, BuilderHeld, NEW server \in built, Builder!Linger(server)
    PROVE  BuilderHeld'
<1> DEFINE port == server.socket
<1>1. port \in Ports /\ listening[port] \in Builder!Kinds
  BY DEF BuilderHeld, Builder!TypeOK, ServersListen
<1>2. /\ lingering' = [lingering EXCEPT ![port] = @ \cup {listening[port]}]
      /\ UNCHANGED <<serverBuilder, listening, built, secured, usedTls>>
  BY DEF Builder!Linger
<1>3. Builder!TypeOK'
  BY <1>1, <1>2 DEF BuilderHeld, Builder!TypeOK
<1>4. ServersListen' /\ Builder!SocketOfOneServer' /\ SecuredIsTls'
  BY <1>2 DEF BuilderHeld, ServersListen, Builder!SocketOfOneServer, SecuredIsTls
<1>5. TlsIsRecorded'
  BY <1>1, <1>2 DEF BuilderHeld, Builder!TypeOK, TlsIsRecorded
<1> QED BY <1>3, <1>4, <1>5 DEF BuilderHeld

LEMMA BuilderByForget ==
    ASSUME Builder!BuilderAssumption, BuilderHeld, NEW port \in Ports, Builder!Forget(port)
    PROVE  BuilderHeld'
<1>1. Builder!TypeOK' /\ TlsIsRecorded'
  BY DEF Builder!Forget, BuilderHeld, Builder!TypeOK, TlsIsRecorded
<1>2. ServersListen' /\ Builder!SocketOfOneServer' /\ SecuredIsTls'
  BY DEF Builder!Forget, BuilderHeld, ServersListen, Builder!SocketOfOneServer, SecuredIsTls
<1> QED BY <1>1, <1>2 DEF BuilderHeld

LEMMA BuilderByRestart ==
    ASSUME Builder!BuilderAssumption, BuilderHeld, Builder!Restart
    PROVE  BuilderHeld'
<1>1. Builder!TypeOK'
  BY DEF Builder!BuilderAssumption, Builder!Restart, BuilderHeld, Builder!TypeOK,
       Builder!NewBuilder, Builder!Kinds
<1>2. ServersListen' /\ Builder!SocketOfOneServer' /\ SecuredIsTls'
  BY DEF Builder!BuilderAssumption, Builder!Restart, Builder!NewBuilder, ServersListen,
       Builder!SocketOfOneServer, SecuredIsTls
<1>3. TlsIsRecorded'
  BY DEF Builder!BuilderAssumption, Builder!Restart, BuilderHeld, TlsIsRecorded
<1> QED BY <1>1, <1>2, <1>3 DEF BuilderHeld

LEMMA BuilderStays ==
    ASSUME Builder!BuilderAssumption, BuilderHeld, [Builder!Next]_(Builder!vars)
    PROVE  BuilderHeld'
<1>1. CASE UNCHANGED Builder!vars
  BY <1>1 DEF Builder!vars, BuilderHeld, Builder!TypeOK, ServersListen,
       Builder!SocketOfOneServer, SecuredIsTls, TlsIsRecorded
<1>2. ASSUME NEW b \in Builders, NEW n \in ThreadCounts, Builder!WithThreads(b, n)
      PROVE  BuilderHeld'
  BY <1>1, <1>2, BuilderByWithThreads DEF Builder!WithThreads, Builder!Throws
<1>3. ASSUME NEW b \in Builders, Builder!WithUnderlyingServer(b)
      PROVE  BuilderHeld'
  BY <1>1, <1>3, BuilderByGiven DEF Builder!WithUnderlyingServer, Builder!Throws
<1>4. ASSUME NEW b \in Builders, Builder!WithSsl(b)
      PROVE  BuilderHeld'
  <2>1. PortOf[b] \in Ports /\ "tls" \in Builder!Kinds
    BY DEF Builder!BuilderAssumption, Builder!Kinds
  <2> QED BY <1>1, <1>4, <2>1, BuilderByGiven DEF Builder!WithSsl, Builder!Throws
<1> QED
  BY <1>1, <1>2, <1>3, <1>4, BuilderByCreateNew, BuilderByBuild, BuilderByDestroyServer,
       BuilderByLinger,
     BuilderByForget, BuilderByRestart DEF Builder!Next
-----------------------------------------------------------------------------
(* The responses.                                                          *)
Octets == BodyBytes \cup {Nul}

LEMMA TextsOfBody ==
    ASSUME Responses!ResponseAssumption
    PROVE  /\ \A t \in Responses!Texts : t \in Seq(Octets) /\ Len(t) \in 0..MaxBody
           /\ \A t \in Seq(Octets) : Len(t) <= MaxBody => t \in Responses!Texts
           /\ <<>> \in Responses!Texts
           /\ Responses!NotYet \notin Responses!Texts
<1>1. MaxBody \in Nat
  BY DEF Responses!ResponseAssumption
<1>2. ASSUME NEW t \in Responses!Texts PROVE t \in Seq(Octets) /\ Len(t) \in 0..MaxBody
  <2>1. PICK n \in 0..MaxBody : t \in [1..n -> Octets]
    BY DEF Responses!Texts, Octets
  <2>2. n \in Nat
    BY <1>1
  <2>3. t \in Seq(Octets) /\ Len(t) = n
    BY <2>1, <2>2
  <2>4. QED
    BY <2>3
<1>3. ASSUME NEW t \in Seq(Octets), Len(t) <= MaxBody PROVE t \in Responses!Texts
  <2>1. Len(t) \in 0..MaxBody /\ t \in [1..Len(t) -> Octets]
    BY <1>1, <1>3
  <2>2. QED
    BY <2>1 DEF Responses!Texts, Octets
<1>4. <<>> \in Responses!Texts
  <2>1. <<>> \in Seq(Octets) /\ Len(<<>>) = 0
    BY EmptySeq
  <2>2. Len(<<>>) <= MaxBody
    BY <1>1, <2>1
  <2>3. QED
    BY <1>3, <2>1, <2>2
<1>5. Responses!NotYet \notin Responses!Texts
  <2>1. SUFFICES ASSUME Responses!NotYet \in Seq(Octets) PROVE FALSE
    BY <1>2
  <2>2. Len(Responses!NotYet) = 2 /\ Responses!NotYet[1] = "not"
    BY DEF Responses!NotYet
  <2>3. Responses!NotYet[1] \in Octets
    BY <2>1, <2>2, ElementOfSeq
  <2>4. QED
    BY <2>2, <2>3 DEF Responses!ResponseAssumption, Octets
<1>6. QED
  BY <1>2, <1>3, <1>4, <1>5

(* getline gives a part of the file.                                       *)
LEMMA UpToNulIsText ==
    ASSUME Responses!ResponseAssumption, NEW t \in Responses!Texts
    PROVE  Responses!UpToNul(t) \in Responses!Texts
<1>1. t \in Seq(Octets) /\ Len(t) \in 0..MaxBody
  BY TextsOfBody
<1> DEFINE nuls == Responses!Occurrences(t, <<Nul>>, 1)
<1>2. CASE nuls = {}
  BY <1>2 DEF Responses!UpToNul
<1>3. CASE nuls # {}
  <2>1. nuls \in SUBSET (1..Len(t))
    <3>1. Len(<<Nul>>) = 1
      OBVIOUS
    <3>2. Len(t) + 1 - 1 = Len(t)
      BY <1>1
    <3>3. QED
      BY <3>1, <3>2 DEF Responses!Occurrences
  <2>2. nuls \in SUBSET Nat
    BY <1>1, <2>1
  <2>3. Responses!First(nuls) \in 1..Len(t)
    <3>1. ParserProofs!First(nuls) \in nuls
      BY <1>3, <2>2, ParserProofs!FirstIsLeast
    <3>2. Responses!First(nuls) = ParserProofs!First(nuls)
      BY DEF Responses!First, ParserProofs!First
    <3>3. QED
      BY <2>1, <3>1, <3>2
  <2>4. PICK k \in 0..Len(t) : k = Responses!First(nuls) - 1
    BY <1>1, <2>3
  <2>5. \A i \in 1..k : t[i] \in Octets
    <3>1. \A i \in 1..k : i \in 1..Len(t)
      BY <1>1, <2>4
    <3>2. QED
      BY <1>1, <3>1, ElementOfSeq
  <2>6. SubSeq(t, 1, k) \in Seq(Octets) /\ Len(SubSeq(t, 1, k)) = IF 1 <= k THEN k - 1 + 1 ELSE 0
    BY <1>1, <2>4, <2>5, SubSeqProperties
  <2>7. Len(SubSeq(t, 1, k)) <= MaxBody
    <3>1. PICK n \in Nat, l \in Nat : n = Len(t) /\ n <= MaxBody /\ l = Len(SubSeq(t, 1, k))
      BY <1>1, <2>6, LenProperties
    <3>2. k <= n /\ l = IF 1 <= k THEN k - 1 + 1 ELSE 0
      BY <2>4, <2>6, <3>1
    <3>3. l <= k
      BY <3>2
    <3>4. MaxBody \in Nat
      BY DEF Responses!ResponseAssumption
    <3>5. QED
      BY <3>1, <3>2, <3>3, <3>4
  <2>8. SubSeq(t, 1, k) \in Responses!Texts
    BY <2>6, <2>7, TextsOfBody
  <2>9. QED
    BY <1>3, <2>4, <2>8 DEF Responses!UpToNul
<1>4. QED
  BY <1>2, <1>3

(* A response has the body it was made of, and its length, until the       *)
(* resolver sets another; what is sent is that body as a C string.         *)
ResponsesHeld ==
    /\ responseBuilder \in Responses!Messages /\ response \in Responses!Messages
    /\ overridden \in BOOLEAN
    /\ origin = Responses!NotYet => response = Responses!NoMessage /\ sent = Responses!NotYet
    /\ origin # Responses!NotYet =>
          /\ origin \in Responses!Texts /\ response.body = origin
          /\ response.length \in 0..MaxBody
          /\ ~overridden => response.length = Len(origin)
    /\ sent # Responses!NotYet => sent \in Responses!Streamed(origin)

LEMMA EmptyMessage ==
    ASSUME Responses!ResponseAssumption
    PROVE  Responses!NoMessage \in Responses!Messages
BY TextsOfBody DEF Responses!NoMessage, Responses!Messages, Responses!Lengths, Responses!Unset

(* What the constructor makes of a builder.                                *)
LEMMA ConstructedMessage ==
    ASSUME Responses!ResponseAssumption, NEW made \in Responses!Messages
    PROVE  /\ Responses!Constructed(made) \in Responses!Messages
           /\ Responses!Constructed(made).body = made.body
           /\ made.body \in Responses!Texts
           /\ Responses!Constructed(made).length = Len(made.body)
           /\ Len(made.body) \in 0..MaxBody
<1>1. made.body \in Responses!Texts
  BY DEF Responses!Messages
<1>2. Len(made.body) \in 0..MaxBody
  BY <1>1, TextsOfBody
<1>3. Len(made.body) \in Responses!Lengths
  BY <1>2 DEF Responses!Lengths
<1>4. QED
  BY <1>1, <1>2, <1>3 DEF Responses!Constructed, Responses!Messages

LEMMA ResponsesAtFirst ==
    ASSUME Responses!ResponseAssumption, Responses!Init
    PROVE  ResponsesHeld
BY EmptyMessage DEF Responses!Init, ResponsesHeld

LEMMA ResponsesStay ==
    ASSUME Responses!ResponseAssumption, ResponsesHeld, [Responses!Next]_(Responses!vars)
    PROVE  ResponsesHeld'
<1>1. ASSUME NEW t \in Responses!Texts, Responses!WithBody(t)
      PROVE  ResponsesHeld'
  <2>1. Len(t) \in Responses!Lengths
    BY TextsOfBody DEF Responses!Lengths
  <2>2. [body |-> t, length |-> Len(t)] \in Responses!Messages
    BY <2>1 DEF Responses!Messages
  <2>3. responseBuilder' \in Responses!Messages /\ UNCHANGED <<response, origin, overridden, sent>>
    BY <1>1, <2>2 DEF Responses!WithBody
  <2>4. QED
    BY <2>3 DEF ResponsesHeld
<1>2. ASSUME NEW length \in 0..MaxBody, Responses!WithHeader(length)
      PROVE  ResponsesHeld'
  <2>1. length \in Responses!Lengths
    BY DEF Responses!Lengths
  <2>2. responseBuilder' \in Responses!Messages
    BY <1>2, <2>1 DEF Responses!WithHeader, Responses!Messages, ResponsesHeld
  <2>3. UNCHANGED <<response, origin, overridden, sent>>
    BY <1>2 DEF Responses!WithHeader
  <2>4. QED
    BY <2>2, <2>3 DEF ResponsesHeld
<1>3. ASSUME Responses!Build PROVE ResponsesHeld'
  <2>1. /\ origin = Responses!NotYet
        /\ response' = Responses!Constructed(responseBuilder) /\ origin' = responseBuilder.body
        /\ UNCHANGED <<responseBuilder, overridden, sent>>
    BY <1>3 DEF Responses!Build, Responses!NotBuilt
  <2>2. responseBuilder \in Responses!Messages /\ sent' = Responses!NotYet /\ overridden' \in BOOLEAN
    BY <2>1 DEF ResponsesHeld
  <2>3. /\ response' \in Responses!Messages /\ response'.body = origin'
        /\ origin' \in Responses!Texts
        /\ response'.length = Len(origin') /\ response'.length \in 0..MaxBody
    BY <2>1, <2>2, ConstructedMessage
  <2>4. origin' # Responses!NotYet
    BY <2>3, TextsOfBody
  <2>5. QED
    BY <2>1, <2>2, <2>3, <2>4 DEF ResponsesHeld
<1>4. ASSUME NEW t \in Responses!Texts, Responses!ServeFile(t)
      PROVE  ResponsesHeld'
  <2>1. PICK out \in Responses!Texts : out = Responses!UpToNul(t)
    BY UpToNulIsText
  <2>2. /\ origin = Responses!NotYet
        /\ responseBuilder' = [body |-> out, length |-> Len(out)]
        /\ response' = Responses!Constructed(responseBuilder') /\ origin' = out
        /\ UNCHANGED <<overridden, sent>>
    BY <1>4, <2>1 DEF Responses!ServeFile, Responses!NotBuilt
  <2>3. Len(out) \in Responses!Lengths
    BY TextsOfBody DEF Responses!Lengths
  <2>4. responseBuilder' \in Responses!Messages /\ responseBuilder'.body = out
    BY <2>2, <2>3 DEF Responses!Messages
  <2>5. sent' = Responses!NotYet /\ overridden' \in BOOLEAN
    BY <2>2 DEF ResponsesHeld
  <2>6. /\ response' \in Responses!Messages /\ response'.body = out
        /\ response'.length = Len(out) /\ Len(out) \in 0..MaxBody
    BY <2>2, <2>4, ConstructedMessage
  <2>7. out # Responses!NotYet
    BY TextsOfBody
  <2>8. QED
    BY <2>2, <2>4, <2>5, <2>6, <2>7 DEF ResponsesHeld
<1>5. ASSUME NEW length \in 0..MaxBody, Responses!SetHeader(length)
      PROVE  ResponsesHeld'
  <2>1. length \in Responses!Lengths
    BY DEF Responses!Lengths
  <2>2. /\ origin # Responses!NotYet /\ sent = Responses!NotYet
        /\ response' = [response EXCEPT !.length = length] /\ overridden' = TRUE
        /\ UNCHANGED <<responseBuilder, origin, sent>>
    BY <1>5 DEF Responses!SetHeader, Responses!Pending, Responses!NotBuilt
  <2>3. response' \in Responses!Messages /\ response'.body = response.body /\ response'.length = length
    BY <2>1, <2>2 DEF Responses!Messages, ResponsesHeld
  <2>4. QED
    BY <2>2, <2>3 DEF ResponsesHeld
<1>6. ASSUME Responses!ToHttpResponse PROVE ResponsesHeld'
  <2>1. /\ origin # Responses!NotYet /\ sent' \in Responses!Streamed(response.body)
        /\ UNCHANGED <<responseBuilder, response, origin, overridden>>
    BY <1>6 DEF Responses!ToHttpResponse, Responses!Pending, Responses!NotBuilt
  <2>2. sent' \in Responses!Streamed(origin)
    BY <2>1 DEF ResponsesHeld
  <2>3. QED
    BY <2>1, <2>2 DEF ResponsesHeld
<1>7. ASSUME Responses!NextRequest PROVE ResponsesHeld'
  BY <1>7, EmptyMessage DEF Responses!NextRequest, ResponsesHeld
<1>8. CASE UNCHANGED Responses!vars
  BY <1>8 DEF Responses!vars, ResponsesHeld
<1>9. QED
  BY <1>1, <1>2, <1>3, <1>4, <1>5, <1>6, <1>7, <1>8 DEF Responses!Next

(* Without a NUL the body is sent whole, and what is behind it.            *)
LEMMA ResponsesImply ==
    ASSUME Responses!ResponseAssumption, ResponsesHeld
    PROVE  Responses!TypeOK /\ Responses!BodyArrives
<1>1. Responses!TypeOK
  BY DEF ResponsesHeld, Responses!TypeOK, Responses!Unset
<1>2. ASSUME sent # Responses!NotYet, ~overridden, ~Responses!Has(origin, <<Nul>>)
      PROVE  response.length = Len(origin) /\ \E junk \in Behind : sent = origin \o junk
  <2>1. origin # Responses!NotYet /\ origin \in Seq(Octets) /\ response.length = Len(origin)
    BY <1>2, TextsOfBody DEF ResponsesHeld
  <2>2. CASE origin = <<>>
    <3>1. sent = <<>> /\ <<>> \in Behind
      BY <1>2, <2>2 DEF ResponsesHeld, Responses!Streamed, Responses!ResponseAssumption
    <3>2. <<>> \o <<>> = <<>>
      BY EmptySeq, ConcatEmptySeq
    <3>3. QED
      BY <2>1, <2>2, <3>1, <3>2
  <2>3. CASE origin # <<>>
    BY <1>2, <2>1, <2>3 DEF ResponsesHeld, Responses!Streamed
  <2>4. QED
    BY <2>2, <2>3
<1>3. QED
  BY <1>1, <1>2 DEF Responses!BodyArrives
-----------------------------------------------------------------------------
(* The byte streams.  First what is in front of a place of a text, what is *)
(* behind it, and what is found in either.                                 *)
Text == Seq(Characters)

LEMMA FrontOf ==
    ASSUME NEW t \in Text, NEW n \in 0..Len(t)
    PROVE  /\ Bytes!Up(t, n) \in Text /\ Len(Bytes!Up(t, n)) = n
           /\ \A i \in 1..n : Bytes!Up(t, n)[i] = t[i]
<1>1. PICK m \in Nat : m = Len(t)
  BY LenProperties DEF Text
<1>2. n \in Nat /\ n <= m
  BY <1>1
<1>3. \A i \in 1..n : t[i] \in Characters
  <2>1. \A i \in 1..n : i \in 1..m
    BY <1>2
  <2>2. QED
    BY <1>1, <2>1, ElementOfSeq DEF Text
<1>4. PICK one \in Int, upto \in Int : one = 1 /\ upto = n
  BY <1>2
<1>5. /\ SubSeq(t, one, upto) \in Text
      /\ Len(SubSeq(t, one, upto)) = IF one <= upto THEN upto - one + 1 ELSE 0
      /\ \A i \in 1..(upto - one + 1) : SubSeq(t, one, upto)[i] = t[one + i - 1]
  BY <1>3, <1>4, SubSeqProperties DEF Text
<1>6. upto - one + 1 = n /\ (one <= upto \/ n = 0)
  BY <1>2, <1>4
<1>7. ASSUME NEW i \in 1..n PROVE SubSeq(t, one, upto)[i] = t[i]
  <2>1. one + i - 1 = i
    BY <1>4
  <2>2. QED
    BY <1>5, <1>6, <2>1
<1>8. QED
  BY <1>2, <1>4, <1>5, <1>6, <1>7 DEF Bytes!Up

LEMMA BackOf ==
    ASSUME NEW t \in Text, NEW n \in 1..(Len(t) + 1)
    PROVE  /\ Bytes!From(t, n) \in Text /\ Len(Bytes!From(t, n)) = Len(t) + 1 - n
           /\ \A i \in 1..(Len(t) + 1 - n) : Bytes!From(t, n)[i] = t[n + i - 1]
<1>1. PICK m \in Nat : m = Len(t)
  BY LenProperties DEF Text
<1>2. n \in Nat \ {0} /\ n <= m + 1
  BY <1>1
<1>3. \A i \in n..m : t[i] \in Characters
  <2>1. \A i \in n..m : i \in 1..m
    BY <1>2
  <2>2. QED
    BY <1>1, <2>1, ElementOfSeq DEF Text
<1>4. PICK from \in Int, upto \in Int : from = n /\ upto = m
  BY <1>2
<1>5. /\ SubSeq(t, from, upto) \in Text
      /\ Len(SubSeq(t, from, upto)) = IF from <= upto THEN upto - from + 1 ELSE 0
      /\ \A i \in 1..(upto - from + 1) : SubSeq(t, from, upto)[i] = t[from + i - 1]
  BY <1>3, <1>4, SubSeqProperties DEF Text
<1>6. upto - from + 1 = m + 1 - n /\ (from <= upto \/ m + 1 - n = 0)
  BY <1>2, <1>4
<1>7. /\ SubSeq(t, n, m) \in Text /\ Len(SubSeq(t, n, m)) = m + 1 - n
      /\ \A i \in 1..(m + 1 - n) : SubSeq(t, n, m)[i] = t[n + i - 1]
  BY <1>4, <1>5, <1>6
<1>8. QED
  BY <1>1, <1>7 DEF Bytes!From

LEMMA BothParts ==
    ASSUME NEW s \in Text, NEW t \in Text
    PROVE  /\ s \o t \in Text /\ Len(s \o t) = Len(s) + Len(t)
           /\ \A i \in 1..Len(s) : (s \o t)[i] = s[i]
           /\ \A i \in 1..Len(t) : (s \o t)[Len(s) + i] = t[i]
<1>1. PICK both \in Text : both = s \o t
  BY ConcatProperties DEF Text
<1>2. PICK l \in Nat, m \in Nat : l = Len(s) /\ m = Len(t)
  BY LenProperties DEF Text
<1>3. Len(both) = l + m /\ \A i \in 1..(l + m) : both[i] = IF i <= l THEN s[i] ELSE t[i - l]
  BY <1>1, <1>2, ConcatProperties DEF Text
<1>4. ASSUME NEW i \in 1..l PROVE both[i] = s[i]
  <2>1. i \in 1..(l + m) /\ i <= l
    BY <1>2
  <2>2. QED
    BY <1>3, <2>1
<1>5. ASSUME NEW i \in 1..m PROVE both[l + i] = t[i]
  <2>1. l + i \in 1..(l + m) /\ ~(l + i <= l) /\ (l + i) - l = i
    BY <1>2
  <2>2. QED
    BY <1>3, <2>1
<1>6. QED
  BY <1>1, <1>2, <1>3, <1>4, <1>5

LEMMA FrontAndBack ==
    ASSUME NEW t \in Text, NEW n \in 0..Len(t)
    PROVE  Bytes!Up(t, n) \o Bytes!From(t, n + 1) = t
<1>1. PICK m \in Nat : m = Len(t)
  BY LenProperties DEF Text
<1>2. n + 1 \in 1..(m + 1) /\ m + 1 - (n + 1) = m - n /\ n \in Nat
  BY <1>1
<1>3. PICK front \in Text, back \in Text :
          front = Bytes!Up(t, n) /\ back = Bytes!From(t, n + 1)
  BY <1>1, <1>2, FrontOf, BackOf
<1>4. Len(front) = n /\ \A i \in 1..n : front[i] = t[i]
  BY <1>3, FrontOf
<1>5. Len(back) = m - n /\ \A i \in 1..(m - n) : back[i] = t[(n + 1) + i - 1]
  BY <1>1, <1>2, <1>3, BackOf
<1>6. PICK both \in Text : both = front \o back
  BY BothParts
<1>7. /\ Len(both) = Len(front) + Len(back)
      /\ \A i \in 1..Len(front) : both[i] = front[i]
      /\ \A i \in 1..Len(back) : both[Len(front) + i] = back[i]
  BY <1>6, BothParts
<1>8. Len(both) = m
  <2>1. n + (m - n) = m
    BY <1>2
  <2>2. QED
    BY <1>4, <1>5, <1>7, <2>1
<1>9. ASSUME NEW i \in 1..m PROVE both[i] = t[i]
  <2>1. CASE i <= n
    <3>1. i \in 1..n
      BY <2>1
    <3>2. QED
      BY <1>4, <1>7, <3>1
  <2>2. CASE ~(i <= n)
    <3>1. PICK j \in 1..(m - n) : j = i - n
      BY <1>2, <2>2
    <3>2. (n + 1) + j - 1 = i /\ n + j = i
      BY <1>2, <3>1
    <3>3. back[j] = t[i] /\ both[n + j] = back[j]
      BY <1>4, <1>5, <1>7, <3>2
    <3>4. QED
      BY <3>2, <3>3
  <2>3. QED
    BY <2>1, <2>2
<1>10. QED
  BY <1>1, <1>3, <1>6, <1>8, <1>9, SeqEqual DEF Text

LEMMA PartsOfJoined ==
    ASSUME NEW s \in Text, NEW t \in Text
    PROVE  Bytes!Up(s \o t, Len(s)) = s /\ Bytes!From(s \o t, Len(s) + 1) = t
<1>1. PICK both \in Text : both = s \o t
  BY BothParts
<1>2. PICK l \in Nat, m \in Nat : l = Len(s) /\ m = Len(t)
  BY LenProperties DEF Text
<1>3. /\ Len(both) = l + m
      /\ \A i \in 1..l : both[i] = s[i]
      /\ \A i \in 1..m : both[l + i] = t[i]
  BY <1>1, <1>2, BothParts
<1>4. l \in 0..(l + m) /\ l + 1 \in 1..(l + m + 1) /\ l + m + 1 - (l + 1) = m
  BY <1>2
<1>5. Bytes!Up(both, l) = s
  <2>1. PICK front \in Text : front = Bytes!Up(both, l)
    BY <1>3, <1>4, FrontOf
  <2>2. Len(front) = l /\ \A i \in 1..l : front[i] = both[i]
    BY <1>3, <1>4, <2>1, FrontOf
  <2>3. QED
    BY <1>2, <1>3, <2>1, <2>2, SeqEqual DEF Text
<1>6. Bytes!From(both, l + 1) = t
  <2>1. PICK back \in Text : back = Bytes!From(both, l + 1)
    BY <1>3, <1>4, BackOf
  <2>2. Len(back) = m /\ \A i \in 1..m : back[i] = both[(l + 1) + i - 1]
    <3>1. l + 1 \in 1..(Len(both) + 1) /\ Len(both) + 1 - (l + 1) = m
      BY <1>3, <1>4
    <3>2. QED
      BY <2>1, <3>1, BackOf
  <2>3. ASSUME NEW i \in 1..m PROVE back[i] = t[i]
    <3>1. (l + 1) + i - 1 = l + i
      BY <1>2
    <3>2. QED
      BY <1>3, <2>2, <3>1
  <2>4. QED
    BY <1>2, <2>1, <2>2, <2>3, SeqEqual DEF Text
<1>7. QED
  BY <1>1, <1>2, <1>5, <1>6

LEMMA PlacesOf ==
    ASSUME NEW t \in Text, NEW part \in Text
    PROVE  /\ Bytes!Occurrences(t, part, 1) \in SUBSET Nat
           /\ \A i \in Nat : i \in Bytes!Occurrences(t, part, 1)
                 <=> /\ 1 <= i /\ i + Len(part) - 1 <= Len(t)
                     /\ \A j \in 1..Len(part) : t[i + j - 1] = part[j]
<1>1. PICK m \in Nat, l \in Nat : m = Len(t) /\ l = Len(part)
  BY LenProperties DEF Text
<1>2. Bytes!Occurrences(t, part, 1) = ParserProofs!Occurrences(t, part, 1)
  BY DEF Bytes!Occurrences, ParserProofs!Occurrences
<1>3. ParserProofs!Occurrences(t, part, 1)
        = {i \in 1..(Len(t) + 1 - Len(part)) :
              \A j \in 1..Len(part) : t[i + j - 1] = part[j]}
  <2>1. t \in ParserProofs!Text /\ part \in ParserProofs!Text /\ 1 \in Nat \ {0}
    BY DEF Text, ParserProofs!Text
  <2>2. QED
    BY <2>1, ParserProofs!OccursWhere
<1>4. Bytes!Occurrences(t, part, 1)
        = {i \in 1..(m + 1 - l) : \A j \in 1..l : t[i + j - 1] = part[j]}
  BY <1>1, <1>2, <1>3
<1>5. ASSUME NEW i \in Nat
      PROVE  i \in 1..(m + 1 - l) <=> 1 <= i /\ i + l - 1 <= m
  BY <1>1
<1>6. ASSUME NEW i \in Nat
      PROVE  i \in Bytes!Occurrences(t, part, 1)
               <=> 1 <= i /\ i + l - 1 <= m /\ \A j \in 1..l : t[i + j - 1] = part[j]
  BY <1>4, <1>5
<1>7. Bytes!Occurrences(t, part, 1) \in SUBSET Nat
  BY <1>1, <1>4
<1>8. QED
  BY <1>1, <1>6, <1>7

LEMMA FirstOf ==
    ASSUME NEW places \in SUBSET Nat, places # {}
    PROVE  Bytes!First(places) \in places /\ \A j \in places : Bytes!First(places) <= j
<1>1. Bytes!First(places) = ParserProofs!First(places)
  BY DEF Bytes!First, ParserProofs!First
<1>2. QED
  BY <1>1, ParserProofs!FirstIsLeast

LEMMA FirstOfIs ==
    ASSUME NEW places \in SUBSET Nat, NEW i \in places, \A j \in places : i <= j
    PROVE  Bytes!First(places) = i
<1>1. Bytes!First(places) = ParserProofs!First(places)
  BY DEF Bytes!First, ParserProofs!First
<1>2. QED
  BY <1>1, ParserProofs!FirstIs

(* Two texts that agree up to a place have the same part there, if it ends *)
(* in front of it.                                                         *)
LEMMA SameInFront ==
    ASSUME NEW s \in Text, NEW t \in Text, NEW part \in Text, NEW n \in Nat,
           n <= Len(s), n <= Len(t), \A i \in 1..n : s[i] = t[i],
           NEW i \in Nat, i + Len(part) - 1 <= n,
           i \in Bytes!Occurrences(s, part, 1)
    PROVE  i \in Bytes!Occurrences(t, part, 1)
<1>1. PICK m \in Nat, k \in Nat, l \in Nat : m = Len(s) /\ k = Len(t) /\ l = Len(part)
  BY LenProperties DEF Text
<1>2. 1 <= i /\ \A j \in 1..l : s[i + j - 1] = part[j]
  BY <1>1, PlacesOf
<1>3. i + l - 1 <= n /\ n <= k
  BY <1>1
<1>4. ASSUME NEW j \in 1..l PROVE t[i + j - 1] = part[j]
  <2>1. i + j - 1 \in 1..n
    BY <1>1, <1>2, <1>3
  <2>2. QED
    BY <1>2, <2>1
<1>5. i + l - 1 <= k
  BY <1>1, <1>3
<1>6. QED
  BY <1>1, <1>2, <1>4, <1>5, PlacesOf

(* So the first place in one is the first in the other.                    *)
LEMMA FoundInFront ==
    ASSUME NEW s \in Text, NEW t \in Text, NEW part \in Text, NEW n \in Nat,
           n <= Len(s), n <= Len(t), \A i \in 1..n : s[i] = t[i],
           Bytes!Occurrences(s, part, 1) # {},
           \A i \in Bytes!Occurrences(s, part, 1) : i + Len(part) - 1 <= n
    PROVE  /\ Bytes!Occurrences(t, part, 1) # {}
           /\ Bytes!First(Bytes!Occurrences(t, part, 1))
                = Bytes!First(Bytes!Occurrences(s, part, 1))
           /\ Bytes!First(Bytes!Occurrences(s, part, 1)) \in Nat
           /\ 1 <= Bytes!First(Bytes!Occurrences(s, part, 1))
           /\ Bytes!First(Bytes!Occurrences(s, part, 1)) + Len(part) - 1 <= n
<1>1. PICK l \in Nat : l = Len(part)
  BY LenProperties DEF Text
<1>2. PICK inS \in SUBSET Nat, inT \in SUBSET Nat :
          inS = Bytes!Occurrences(s, part, 1) /\ inT = Bytes!Occurrences(t, part, 1)
  BY PlacesOf
<1>3. PICK f \in Nat : f = Bytes!First(inS) /\ f \in inS /\ \A j \in inS : f <= j
  BY <1>2, FirstOf
<1>4. f + l - 1 <= n
  BY <1>1, <1>2, <1>3
<1>5. f \in inT
  <2>1. f \in Bytes!Occurrences(s, part, 1) /\ f + Len(part) - 1 <= n
    BY <1>1, <1>2, <1>3, <1>4
  <2>2. f \in Bytes!Occurrences(t, part, 1)
    BY <2>1, SameInFront
  <2>3. QED
    BY <1>2, <2>2
<1>6. ASSUME NEW j \in inT PROVE f <= j
  <2>1. SUFFICES ASSUME j < f PROVE FALSE
    BY <1>3
  <2>2. j + l - 1 <= n /\ j \in Nat
    BY <1>4, <2>1
  <2>3. \A i \in 1..n : t[i] = s[i]
    OBVIOUS
  <2>4. j \in inS
    BY <1>1, <1>2, <2>2, <2>3, SameInFront
  <2>5. QED
    BY <1>3, <2>1, <2>4
<1>7. Bytes!First(inT) = f
  BY <1>5, <1>6, FirstOfIs
<1>8. 1 <= f
  BY <1>2, <1>3, PlacesOf
<1>9. QED
  BY <1>1, <1>2, <1>3, <1>4, <1>5, <1>7, <1>8

(* ... and the same fronts, and the same middles.                          *)
LEMMA SameFront ==
    ASSUME NEW s \in Text, NEW t \in Text, NEW n \in Nat,
           n <= Len(s), n <= Len(t), \A i \in 1..n : s[i] = t[i]
    PROVE  Bytes!Up(s, n) = Bytes!Up(t, n)
<1>1. n \in 0..Len(s) /\ n \in 0..Len(t)
  BY LenProperties DEF Text
<1>2. PICK x \in Text, y \in Text : x = Bytes!Up(s, n) /\ y = Bytes!Up(t, n)
  BY <1>1, FrontOf
<1>3. Len(x) = n /\ \A i \in 1..n : x[i] = s[i]
  BY <1>1, <1>2, FrontOf
<1>4. Len(y) = n /\ \A i \in 1..n : y[i] = t[i]
  BY <1>1, <1>2, FrontOf
<1>5. x = y
  BY <1>3, <1>4, SeqEqual DEF Text
<1>6. QED
  BY <1>2, <1>5

SameMiddles(s, t, n, e) ==
    /\ Bytes!From(s, e) \in Text /\ Bytes!From(t, e) \in Text
    /\ Len(Bytes!From(s, e)) = Len(s) + 1 - e
    /\ Len(Bytes!From(t, e)) = Len(t) + 1 - e
    /\ Bytes!Up(Bytes!From(s, e), n + 1 - e) = Bytes!Up(Bytes!From(t, e), n + 1 - e)
    /\ \A i \in (n + 2 - e)..(Len(s) + 1 - e) : Bytes!From(s, e)[i] = s[e + i - 1]

LEMMA SameMiddle ==
    ASSUME NEW s \in Text, NEW t \in Text, NEW n \in Nat, NEW e \in 1..(n + 1),
           n <= Len(s), n <= Len(t), \A i \in 1..n : s[i] = t[i]
    PROVE  SameMiddles(s, t, n, e)
<1>1. PICK m \in Nat, k \in Nat : m = Len(s) /\ k = Len(t)
  BY LenProperties DEF Text
<1>2. e \in 1..(m + 1) /\ e \in 1..(k + 1)
  BY <1>1
<1>3. PICK x \in Text : /\ x = Bytes!From(s, e) /\ Len(x) = m + 1 - e
                        /\ \A i \in 1..(m + 1 - e) : x[i] = s[e + i - 1]
  BY <1>1, <1>2, BackOf
<1>4. PICK y \in Text : /\ y = Bytes!From(t, e) /\ Len(y) = k + 1 - e
                        /\ \A i \in 1..(k + 1 - e) : y[i] = t[e + i - 1]
  BY <1>1, <1>2, BackOf
<1>5. PICK d \in Nat : d = n + 1 - e /\ d <= m + 1 - e /\ d <= k + 1 - e
  <2>1. n + 1 - e \in Nat /\ n + 1 - e <= m + 1 - e /\ n + 1 - e <= k + 1 - e
    BY <1>1
  <2>2. QED
    BY <2>1
<1>6. ASSUME NEW i \in 1..d PROVE x[i] = y[i]
  <2>1. i \in 1..(m + 1 - e) /\ i \in 1..(k + 1 - e) /\ e + i - 1 \in 1..n
    BY <1>1, <1>5
  <2>2. QED
    BY <1>3, <1>4, <2>1
<1>7. Bytes!Up(x, d) = Bytes!Up(y, d)
  BY <1>3, <1>4, <1>5, <1>6, SameFront
<1>8. ASSUME NEW i \in (n + 2 - e)..(m + 1 - e) PROVE x[i] = s[e + i - 1]
  <2>1. i \in 1..(m + 1 - e)
    BY <1>1
  <2>2. QED
    BY <1>3, <2>1
<1>9. QED
  BY <1>1, <1>3, <1>4, <1>5, <1>7, <1>8 DEF SameMiddles

(* Cutting what was read at the first token is cutting the stream there,   *)
(* whatever NULs were read in behind it.                                   *)
CutAlike(whole, stream, ahead, part) ==
    LET place == Bytes!First(Bytes!Occurrences(stream, part, 1))
        tail == Bytes!From(whole, place + Len(part))
        behind == Bytes!From(stream, place + Len(part))
        read == Len(behind) - ahead
    IN  /\ Bytes!Occurrences(stream, part, 1) # {}
        /\ place = Bytes!First(Bytes!Occurrences(whole, part, 1))
        /\ Bytes!Up(whole, place - 1) = Bytes!Up(stream, place - 1)
        /\ tail \in Text /\ behind \in Text
        /\ Bytes!Up(tail, read) = Bytes!Up(behind, read)
        /\ Len(tail) = read + Len(whole) + ahead - Len(stream)
        /\ \A i \in (read + 1)..Len(tail) : tail[i] = Nul

LEMMA CutRight ==
    ASSUME NEW whole \in Text, NEW stream \in Text, NEW part \in Text,
           NEW g \in Nat, NEW ahead \in Nat,
           g <= Len(whole), Len(stream) = g + ahead,
           \A i \in 1..g : whole[i] = stream[i],
           \A i \in (g + 1)..Len(whole) : whole[i] = Nul,
           Bytes!Occurrences(whole, part, 1) # {},
           \A i \in Bytes!Occurrences(whole, part, 1) : i + Len(part) - 1 <= g
    PROVE  CutAlike(whole, stream, ahead, part)
<1>1. PICK m \in Nat, l \in Nat : m = Len(whole) /\ l = Len(part)
  BY LenProperties DEF Text
<1>2. g <= Len(stream)
  OBVIOUS
<1>3. PICK f \in Nat : /\ f = Bytes!First(Bytes!Occurrences(whole, part, 1))
                       /\ Bytes!Occurrences(stream, part, 1) # {}
                       /\ Bytes!First(Bytes!Occurrences(stream, part, 1)) = f
                       /\ 1 <= f /\ f + l - 1 <= g
  BY <1>1, <1>2, FoundInFront
<1>4. PICK d \in Nat : d = f - 1 /\ d <= g
  <2>1. f - 1 \in Nat /\ f - 1 <= g
    BY <1>1, <1>3
  <2>2. QED
    BY <2>1
<1>5. Bytes!Up(whole, d) = Bytes!Up(stream, d)
  <2>1. d <= Len(whole) /\ d <= Len(stream) /\ \A i \in 1..d : whole[i] = stream[i]
    BY <1>1, <1>4
  <2>2. QED
    BY <2>1, SameFront
<1>6. PICK e \in Nat : e = f + l /\ e \in 1..(g + 1)
  <2>1. f + l \in Nat /\ f + l \in 1..(g + 1)
    BY <1>1, <1>3
  <2>2. QED
    BY <2>1
<1>7. PICK tail \in Text, behind \in Text :
          /\ tail = Bytes!From(whole, e) /\ behind = Bytes!From(stream, e)
          /\ Len(tail) = m + 1 - e /\ Len(behind) = g + ahead + 1 - e
          /\ Bytes!Up(tail, g + 1 - e) = Bytes!Up(behind, g + 1 - e)
          /\ \A i \in (g + 2 - e)..(m + 1 - e) : tail[i] = whole[e + i - 1]
  <2>1. m + 1 - e = Len(whole) + 1 - e /\ g + ahead + 1 - e = Len(stream) + 1 - e
    BY <1>1
  <2>2. g <= Len(whole) /\ g <= Len(stream)
    BY <1>2
  <2>3. SameMiddles(whole, stream, g, e)
    BY <1>6, <2>2, SameMiddle
  <2>4. QED
    BY <2>1, <2>3, Zenon DEF SameMiddles
<1>8. PICK r \in Nat : r = g + 1 - e
  BY <1>6
<1>9. Len(behind) - ahead = r /\ g + 2 - e = r + 1 /\ m + 1 - e = r + m + ahead - (g + ahead)
  BY <1>1, <1>6, <1>7, <1>8
<1>10. ASSUME NEW i \in (r + 1)..Len(tail) PROVE tail[i] = Nul
  <2>1. i \in (g + 2 - e)..(m + 1 - e)
    BY <1>7, <1>9
  <2>2. e + i - 1 \in (g + 1)..m
    BY <1>1, <1>6, <2>1
  <2>3. QED
    BY <1>1, <1>7, <2>1, <2>2
<1>11. Bytes!Up(tail, r) = Bytes!Up(behind, r)
  BY <1>7, <1>8
<1>12. Len(tail) = r + Len(whole) + ahead - Len(stream)
  BY <1>1, <1>7, <1>9
<1>13. /\ Bytes!Up(whole, f - 1) = Bytes!Up(stream, f - 1)
       /\ f + Len(part) = e
  BY <1>1, <1>4, <1>5, <1>6
<1>14. QED
  BY <1>3, <1>7, <1>9, <1>10, <1>11, <1>12, <1>13 DEF CutAlike
-----------------------------------------------------------------------------
(* What readUntilToken promises of the stream and the leftoverBuffer it    *)
(* found, what it returned and left, and how much is still to be read.     *)
ReturnIsRight(stream, old, got, left, ahead, plain) ==
    LET places == Bytes!Occurrences(stream, Token, 1)
        more   == Bytes!From(left, Len(old) + 1)
        behind == Bytes!From(stream, Bytes!First(places) + Len(Token))
        read   == Len(behind) - ahead
    IN  IF places = {}
          THEN got = stream /\ more = <<>>
          ELSE /\ got = Bytes!Up(stream, Bytes!First(places) - 1)
               /\ Bytes!Up(left, Len(old)) = old
               /\ Bytes!Up(more, read) = Bytes!Up(behind, read)
               /\ plain => Len(more) = read
               /\ \A i \in (read + 1)..Len(more) : more[i] = Nul

LEMMA FoundAndReturned ==
    ASSUME NEW stream \in Text, NEW old \in Text, NEW whole \in Text, NEW ahead \in Nat,
           CutAlike(whole, stream, ahead, Token),
           NEW plain \in BOOLEAN, plain => Len(whole) + ahead = Len(stream),
           NEW place, place = Bytes!First(Bytes!Occurrences(whole, Token, 1))
    PROVE  ReturnIsRight(stream, old, Bytes!Up(whole, place - 1),
                         old \o Bytes!From(whole, place + Len(Token)), ahead, plain)
<1>1. /\ Bytes!Occurrences(stream, Token, 1) # {}
      /\ Bytes!First(Bytes!Occurrences(stream, Token, 1)) = place
      /\ Bytes!Up(whole, place - 1) = Bytes!Up(stream, place - 1)
      /\ Bytes!From(whole, place + Len(Token)) \in Text
      /\ Bytes!From(stream, place + Len(Token)) \in Text
  BY DEF CutAlike
<1>2. PICK tail \in Text, behind \in Text :
          /\ tail = Bytes!From(whole, place + Len(Token))
          /\ behind = Bytes!From(stream, place + Len(Token))
  BY <1>1
<1>3. /\ Bytes!Up(tail, Len(behind) - ahead) = Bytes!Up(behind, Len(behind) - ahead)
      /\ Len(tail) = Len(behind) - ahead + Len(whole) + ahead - Len(stream)
      /\ \A i \in (Len(behind) - ahead + 1)..Len(tail) : tail[i] = Nul
  BY <1>1, <1>2 DEF CutAlike
<1>4. Bytes!Up(old \o tail, Len(old)) = old /\ Bytes!From(old \o tail, Len(old) + 1) = tail
  BY PartsOfJoined
<1>5. ASSUME plain PROVE Len(tail) = Len(behind) - ahead
  <2>1. PICK k \in Nat, w \in Nat, m \in Nat, b \in Nat :
            k = Len(tail) /\ w = Len(whole) /\ m = Len(stream) /\ b = Len(behind)
    BY LenProperties DEF Text
  <2>2. k = b - ahead + w + ahead - m /\ w + ahead = m
    BY <1>3, <1>5, <2>1
  <2>3. k = b - ahead
    BY <2>2
  <2>4. QED
    BY <2>1, <2>3
<1>6. QED
  BY <1>1, <1>2, <1>3, <1>4, <1>5, Zenon DEF ReturnIsRight

BytesTyped ==
    /\ kind \in {"plain", "tls"} /\ eof \in BOOLEAN
    /\ streamPc \in {"rest", "reading", "returned", "threw"}
    /\ coming \in Text /\ socket \in Text /\ leftover \in Text
    /\ buffer \in Text /\ chunk \in Text /\ result \in Text
    /\ chunks \in Nat /\ Len(chunk) = ChunkSize /\ Len(buffer) <= chunks * ChunkSize
    /\ start \in [stream : Text, leftover : Text]
    /\ eof => coming = <<>>

(* While it reads, what a plain stream has read and what is to come are    *)
(* the stream it found, and the token is not in the first; a TLS stream    *)
(* keeps to that until it has its first chunk.                             *)
ReadSoFar ==
    streamPc = "reading" =>
        /\ leftover = start.leftover
        /\ kind = "plain" => /\ start.stream = buffer \o Bytes!Stream
                             /\ Bytes!Occurrences(buffer, Token, 1) = {}
        /\ kind = "tls" /\ chunks = 0 => /\ buffer = <<>> /\ chunk = Bytes!Blank
                                         /\ start.stream = Bytes!Stream

BytesHeld == BytesTyped /\ ReadSoFar /\ Bytes!ReturnsUpToToken

LEMMA GivenTexts ==
    ASSUME Bytes!StreamAssumption
    PROVE  /\ PeerTexts \subseteq Text /\ Token \in Text /\ Injected \in Text
           /\ <<>> \in Text /\ Len(<<>>) = 0 /\ Len(Token) \in Nat \ {0}
           /\ Bytes!Blank \in Text /\ Len(Bytes!Blank) = ChunkSize
           /\ \A i \in 1..ChunkSize : Bytes!Blank[i] = Nul
<1>1. PeerTexts \subseteq Text /\ Token \in Text /\ Injected \in Text /\ Token # <<>>
  BY DEF Bytes!StreamAssumption, Text
<1>2. <<>> \in Text /\ Len(<<>>) = 0
  BY EmptySeq DEF Text
<1>3. Len(Token) \in Nat \ {0}
  BY <1>1, EmptySeq, LenProperties DEF Text
<1>4. PICK size \in Nat : size = ChunkSize
  BY DEF Bytes!StreamAssumption
<1>5. PICK blank : blank = [i \in 1..size |-> Nul]
  OBVIOUS
<1>6. blank \in [1..size -> Characters]
  BY <1>5 DEF Bytes!StreamAssumption
<1>7. blank \in Text /\ Len(blank) = size
  BY <1>6, SeqDef, LenProperties DEF Text
<1>8. QED
  BY <1>1, <1>2, <1>3, <1>4, <1>5, <1>7 DEF Bytes!Blank

LEMMA NoTokenInNothing ==
    ASSUME Bytes!StreamAssumption
    PROVE  Bytes!Occurrences(<<>>, Token, 1) = {}
<1>1. PICK empty \in Text, l \in Nat \ {0} : empty = <<>> /\ Len(empty) = 0 /\ l = Len(Token)
  BY GivenTexts
<1>2. \A i \in Nat : ~(1 <= i /\ i + l - 1 <= 0)
  OBVIOUS
<1>3. Token \in Text
  BY GivenTexts
<1>4. Bytes!Occurrences(empty, Token, 1) = {}
  BY <1>1, <1>2, <1>3, PlacesOf
<1>5. QED
  BY <1>1, <1>4

Joined(a, b, c) == (a \o b) \o c = a \o (b \o c)

LEMMA JoinedEitherWay ==
    ASSUME NEW a \in Text, NEW b \in Text, NEW c \in Text
    PROVE  a \o b \in Text /\ Joined(a, b, c)
<1>1. a \o b \in Text
  BY BothParts
<1>2. Joined(a, b, c)
  BY ConcatAssociative DEF Text, Joined
<1>3. QED
  BY <1>1, <1>2

(* Bytes that arrive stay in the stream.                                   *)
LEMMA StreamMoves ==
    ASSUME NEW s \in Text, NEW c \in Text, NEW n \in 0..Len(c)
    PROVE  /\ s \o Bytes!Up(c, n) \in Text /\ Bytes!From(c, n + 1) \in Text
           /\ (s \o Bytes!Up(c, n)) \o Bytes!From(c, n + 1) = s \o c
<1>1. PICK m \in Nat : m = Len(c)
  BY LenProperties DEF Text
<1>2. n + 1 \in 1..(Len(c) + 1)
  BY <1>1
<1>3. PICK front \in Text, back \in Text :
          front = Bytes!Up(c, n) /\ back = Bytes!From(c, n + 1)
  BY <1>2, FrontOf, BackOf
<1>4. front \o back = c
  BY <1>3, FrontAndBack
<1>5. s \o front \in Text /\ Joined(s, front, back)
  BY JoinedEitherWay
<1>6. QED
  BY <1>3, <1>4, <1>5, Zenon DEF Joined

(* ... and so do those that are read, but for being read.                  *)
ReadFrom(b, s, c, n) ==
    /\ Bytes!Up(s, n) \in Text /\ Bytes!From(s, n + 1) \in Text
    /\ (b \o Bytes!Up(s, n)) \o (Bytes!From(s, n + 1) \o c) = b \o (s \o c)

LEMMA StreamRead ==
    ASSUME NEW b \in Text, NEW s \in Text, NEW c \in Text, NEW n \in 0..Len(s)
    PROVE  ReadFrom(b, s, c, n)
<1>1. PICK m \in Nat : m = Len(s)
  BY LenProperties DEF Text
<1>2. n + 1 \in 1..(Len(s) + 1)
  BY <1>1
<1>3. PICK front \in Text, back \in Text :
          front = Bytes!Up(s, n) /\ back = Bytes!From(s, n + 1)
  BY <1>2, FrontOf, BackOf
<1>4. front \o back = s
  BY <1>3, FrontAndBack
<1>5. back \o c \in Text /\ Joined(front, back, c)
  BY JoinedEitherWay
<1>6. PICK behind \in Text : behind = back \o c
  BY <1>5
<1>7. Joined(b, front, behind)
  BY JoinedEitherWay
<1>8. QED
  BY <1>3, <1>4, <1>5, <1>6, <1>7, Zenon DEF ReadFrom, Joined

LEMMA BytesAtFirst ==
    ASSUME Bytes!StreamAssumption, Bytes!Init
    PROVE  BytesHeld
<1>1. BytesTyped
  <2>1. /\ kind \in {"plain", "tls"} /\ eof = FALSE /\ streamPc = "rest"
        /\ coming \in PeerTexts /\ socket = <<>> /\ leftover = <<>> /\ buffer = <<>>
        /\ chunk = Bytes!Blank /\ result = <<>> /\ chunks = 0
        /\ start = [stream |-> coming, leftover |-> <<>>]
    BY DEF Bytes!Init
  <2>2. coming \in Text /\ start \in [stream : Text, leftover : Text]
    BY <2>1, GivenTexts
  <2>3. Len(buffer) = 0 /\ 0 <= 0 * ChunkSize
    BY <2>1, GivenTexts DEF Bytes!StreamAssumption
  <2>4. Len(buffer) <= chunks * ChunkSize
    BY <2>1, <2>3
  <2>5. QED
    BY <2>1, <2>2, <2>4, GivenTexts DEF BytesTyped
<1>2. streamPc = "rest"
  BY DEF Bytes!Init
<1>3. QED
  BY <1>1, <1>2 DEF BytesHeld, ReadSoFar, Bytes!ReturnsUpToToken
-----------------------------------------------------------------------------
LEMMA BytesByPeer ==
    ASSUME Bytes!StreamAssumption, BytesHeld, Bytes!Peer
    PROVE  BytesHeld'
<1>1. BytesTyped
  BY DEF BytesHeld
<1>2. /\ UNCHANGED <<kind, leftover, streamPc, buffer, chunk, chunks, result, start>>
      /\ \/ \E n \in 1..Len(coming) :
               /\ socket' = socket \o Bytes!Up(coming, n)
               /\ coming' = Bytes!From(coming, n + 1)
               /\ UNCHANGED eof
         \/ coming = <<>> /\ eof' = TRUE /\ UNCHANGED <<coming, socket>>
  BY DEF Bytes!Peer
<1>3. /\ socket' \in Text /\ coming' \in Text /\ socket' \o coming' = socket \o coming
      /\ eof' \in BOOLEAN /\ (eof' => coming' = <<>>)
  <2>1. CASE coming = <<>> /\ eof' = TRUE /\ UNCHANGED <<coming, socket>>
    BY <1>1, <2>1 DEF BytesTyped
  <2>2. ASSUME NEW n \in 1..Len(coming),
               socket' = socket \o Bytes!Up(coming, n),
               coming' = Bytes!From(coming, n + 1), UNCHANGED eof
        PROVE  /\ socket' \in Text /\ coming' \in Text /\ socket' \o coming' = socket \o coming
               /\ eof' \in BOOLEAN /\ (eof' => coming' = <<>>)
    <3>1. eof \in BOOLEAN /\ ~eof
      BY <1>1 DEF Bytes!Peer, BytesTyped
    <3>2. n \in 0..Len(coming) /\ socket \in Text /\ coming \in Text
      <4>1. coming \in Text /\ socket \in Text
        BY <1>1 DEF BytesTyped
      <4>2. Len(coming) \in Nat
        BY <4>1, LenProperties DEF Text
      <4>3. QED
        BY <4>1, <4>2
    <3>3. /\ socket \o Bytes!Up(coming, n) \in Text /\ Bytes!From(coming, n + 1) \in Text
          /\ (socket \o Bytes!Up(coming, n)) \o Bytes!From(coming, n + 1) = socket \o coming
      BY <3>2, StreamMoves
    <3>4. QED
      BY <2>2, <3>1, <3>3, Zenon
  <2>3. QED
    BY <1>2, <2>1, <2>2
<1>4. BytesTyped'
  BY <1>1, <1>2, <1>3 DEF BytesTyped
<1>5. Bytes!Stream' = Bytes!Stream
  BY <1>3 DEF Bytes!Stream
<1>6. ReadSoFar'
  BY <1>2, <1>5, Zenon DEF BytesHeld, ReadSoFar, Bytes!Blank
<1>7. Bytes!ReturnsUpToToken'
  BY <1>2, <1>5, Zenon DEF BytesHeld, Bytes!ReturnsUpToToken
<1>8. QED
  BY <1>4, <1>6, <1>7 DEF BytesHeld

LEMMA BytesByPeek ==
    ASSUME Bytes!StreamAssumption, BytesHeld, Bytes!Peek(MaxLeftover)
    PROVE  BytesHeld'
<1>1. BytesTyped
  BY DEF BytesHeld
<1>2. PICK m \in Nat, l \in Nat, amount \in Nat :
          m = Len(socket) /\ l = Len(leftover) /\ amount = MaxLeftover
  BY <1>1, LenProperties DEF BytesTyped, Text, Bytes!StreamAssumption
<1>3. PICK n : n = IF m < amount - l THEN m ELSE amount - l
  OBVIOUS
<1>4. /\ l < amount /\ leftover' = leftover \o Bytes!Up(socket, n)
      /\ socket' = Bytes!From(socket, n + 1)
  BY <1>2, <1>3, Zenon DEF Bytes!Peek
<1>5. streamPc = "rest" /\ UNCHANGED <<kind, coming, eof, streamPc, buffer, chunk, chunks, result, start>>
  BY DEF Bytes!Peek
<1>6. n \in 0..m
  BY <1>2, <1>3, <1>4
<1>7. leftover \in Text /\ socket \in Text
  BY <1>1 DEF BytesTyped
<1>8. leftover' \in Text /\ socket' \in Text
  BY <1>2, <1>4, <1>6, <1>7, StreamMoves
<1>9. BytesTyped'
  BY <1>1, <1>5, <1>8 DEF BytesTyped
<1>10. QED
  BY <1>5, <1>9 DEF BytesHeld, ReadSoFar, Bytes!ReturnsUpToToken

LEMMA BytesByInjectBuffer ==
    ASSUME Bytes!StreamAssumption, BytesHeld, Bytes!InjectBuffer(Injected)
    PROVE  BytesHeld'
<1>1. BytesTyped
  BY DEF BytesHeld
<1>2. /\ streamPc = "rest" /\ leftover' = Injected \o leftover
      /\ UNCHANGED <<kind, coming, socket, eof, streamPc, buffer, chunk, chunks, result, start>>
  BY DEF Bytes!InjectBuffer, Bytes!arrival
<1>3. leftover' \in Text
  <2>1. leftover \in Text /\ Injected \in Text
    BY <1>1, GivenTexts DEF BytesTyped
  <2>2. QED
    BY <1>2, <2>1, BothParts
<1>4. BytesTyped'
  BY <1>1, <1>2, <1>3 DEF BytesTyped
<1>5. QED
  BY <1>2, <1>4 DEF BytesHeld, ReadSoFar, Bytes!ReturnsUpToToken

LEMMA BytesByReadUntilToken ==
    ASSUME Bytes!StreamAssumption, BytesHeld, Bytes!ReadUntilToken
    PROVE  BytesHeld'
<1>1. BytesTyped
  BY DEF BytesHeld
<1>2. /\ streamPc' = "reading" /\ buffer' = <<>> /\ chunk' = Bytes!Blank /\ chunks' = 0
      /\ start' = [stream |-> Bytes!Stream, leftover |-> leftover]
      /\ UNCHANGED <<kind, coming, socket, eof, leftover, result>>
  BY DEF Bytes!ReadUntilToken, Bytes!arrival
<1>3. PICK stream \in Text : stream = Bytes!Stream /\ <<>> \o stream = stream
  <2>1. socket \in Text /\ coming \in Text
    BY <1>1 DEF BytesTyped
  <2>2. PICK stream \in Text : stream = socket \o coming
    BY <2>1, BothParts
  <2>3. QED
    BY <2>2, ConcatEmptySeq DEF Bytes!Stream, Text
<1>4. BytesTyped'
  <2>1. 0 <= 0 * ChunkSize
    BY DEF Bytes!StreamAssumption
  <2>2. Len(buffer') <= chunks' * ChunkSize
    BY <1>2, <2>1, GivenTexts
  <2>3. start' \in [stream : Text, leftover : Text]
    BY <1>1, <1>2, <1>3 DEF BytesTyped
  <2>4. QED
    BY <1>1, <1>2, <2>2, <2>3, GivenTexts DEF BytesTyped
<1>5. Bytes!Stream' = Bytes!Stream /\ Bytes!Blank' = Bytes!Blank
  BY <1>2 DEF Bytes!Stream, Bytes!Blank
<1>6. ReadSoFar'
  <2>1. start'.stream = stream /\ start'.leftover = leftover /\ leftover' = leftover
    BY <1>2, <1>3
  <2>2. buffer' \o Bytes!Stream' = stream
    BY <1>2, <1>3, <1>5
  <2>3. Bytes!Occurrences(buffer', Token, 1) = {}
    BY <1>2, NoTokenInNothing
  <2>4. QED
    BY <1>2, <1>3, <1>5, <2>1, <2>2, <2>3, Zenon DEF ReadSoFar
<1>7. QED
  BY <1>2, <1>4, <1>6 DEF BytesHeld, Bytes!ReturnsUpToToken

LEMMA BytesByRest ==
    ASSUME Bytes!StreamAssumption, BytesHeld, Bytes!Rest
    PROVE  BytesHeld'
<1>1. BytesTyped
  BY DEF BytesHeld
<1>2. /\ streamPc' = "rest" /\ result' = <<>> /\ buffer' = <<>> /\ chunk' = Bytes!Blank
      /\ chunks' = 0 /\ UNCHANGED <<kind, coming, socket, eof, leftover, start>>
  BY DEF Bytes!Rest, Bytes!arrival
<1>3. 0 <= 0 * ChunkSize
  BY DEF Bytes!StreamAssumption
<1>4. Len(buffer') <= chunks' * ChunkSize
  BY <1>2, <1>3, GivenTexts
<1>5. BytesTyped'
  BY <1>1, <1>2, <1>4, GivenTexts DEF BytesTyped
<1>6. QED
  BY <1>2, <1>5 DEF BytesHeld, ReadSoFar, Bytes!ReturnsUpToToken

LEMMA BytesByFailure ==
    ASSUME Bytes!StreamAssumption, BytesHeld, Bytes!PlainFails \/ Bytes!TlsFails
    PROVE  BytesHeld'
<1>1. /\ streamPc' = "threw"
      /\ UNCHANGED <<kind, coming, socket, eof, leftover, buffer, chunk, chunks, result, start>>
  BY DEF Bytes!PlainFails, Bytes!TlsFails, Bytes!arrival
<1>2. BytesTyped'
  BY <1>1 DEF BytesHeld, BytesTyped
<1>3. QED
  BY <1>1, <1>2 DEF BytesHeld, ReadSoFar, Bytes!ReturnsUpToToken

(* What is cut at a place where a text in front of it has the token.       *)
LEMMA ReturnedIsText ==
    ASSUME Bytes!StreamAssumption, NEW whole \in Text, NEW looked \in Text,
           Len(looked) <= Len(whole), Bytes!Occurrences(looked, Token, 1) # {},
           NEW place, place = Bytes!First(Bytes!Occurrences(looked, Token, 1))
    PROVE  /\ Bytes!Up(whole, place - 1) \in Text
           /\ Bytes!From(whole, place + Len(Token)) \in Text
<1>1. PICK m \in Nat, k \in Nat, l \in Nat \ {0} :
          m = Len(looked) /\ k = Len(whole) /\ l = Len(Token)
  BY GivenTexts, LenProperties DEF Text
<1>2. PICK places \in SUBSET Nat : places = Bytes!Occurrences(looked, Token, 1)
  BY GivenTexts, PlacesOf
<1>3. PICK f \in Nat : f = place /\ f \in places
  BY <1>2, FirstOf
<1>4. 1 <= f /\ f + l - 1 <= m
  BY <1>1, <1>2, <1>3, GivenTexts, PlacesOf
<1>5. m <= k
  BY <1>1
<1>6. PICK d \in Nat, e \in Nat : d = f - 1 /\ e = f + l /\ d \in 0..k /\ e \in 1..(k + 1)
  <2>1. f - 1 \in Nat /\ f + l \in Nat /\ f - 1 \in 0..k /\ f + l \in 1..(k + 1)
    BY <1>4, <1>5
  <2>2. QED
    BY <2>1
<1>7. Bytes!Up(whole, d) \in Text /\ Bytes!From(whole, e) \in Text
  BY <1>1, <1>6, FrontOf, BackOf
<1>8. QED
  BY <1>1, <1>3, <1>6, <1>7

LEMMA Distributed ==
    ASSUME NEW c \in Nat, NEW size \in Nat, NEW b \in Nat, NEW n \in Nat,
           b <= c * size, n <= size
    PROVE  b + n <= (c + 1) * size
<1>1. (c + 1) * size = c * size + size
  OBVIOUS
<1>2. c * size \in Nat
  OBVIOUS
<1>3. PICK most \in Nat : most = c * size
  BY <1>2
<1>4. b + n <= most + size
  BY <1>3
<1>5. QED
  BY <1>1, <1>3, <1>4

(* The types of a step that reads a chunk.                                 *)
LEMMA ReadIsTyped ==
    ASSUME Bytes!StreamAssumption, BytesTyped, UNCHANGED <<kind, coming, eof, start>>,
           NEW more \in Text, Len(more) <= ChunkSize, buffer' = buffer \o more,
           NEW looked \in Text, Len(looked) <= Len(buffer \o more),
           chunks' = chunks + 1, chunk' \in Text, Len(chunk') = ChunkSize, socket' \in Text,
           IF Bytes!Occurrences(looked, Token, 1) # {}
             THEN Bytes!Return(buffer', Bytes!First(Bytes!Occurrences(looked, Token, 1)))
             ELSE Bytes!Goes
    PROVE  BytesTyped'
<1>1. PICK whole \in Text : whole = buffer \o more /\ buffer' = whole
  BY BothParts DEF BytesTyped
<1>2. leftover' \in Text /\ result' \in Text /\ streamPc' \in {"reading", "returned"}
  <2>1. CASE Bytes!Occurrences(looked, Token, 1) = {}
    BY <2>1 DEF BytesTyped, Bytes!Goes
  <2>2. ASSUME Bytes!Occurrences(looked, Token, 1) # {},
               NEW place, place = Bytes!First(Bytes!Occurrences(looked, Token, 1))
        PROVE  leftover' \in Text /\ result' \in Text /\ streamPc' = "returned"
    <3>1. /\ result' = Bytes!Up(whole, place - 1)
          /\ leftover' = leftover \o Bytes!From(whole, place + Len(Token))
          /\ streamPc' = "returned"
      BY <1>1, <2>2, Zenon DEF Bytes!Return, Bytes!BehindToken
    <3>2. Len(looked) <= Len(whole)
      BY <1>1
    <3>3. /\ Bytes!Up(whole, place - 1) \in Text
          /\ Bytes!From(whole, place + Len(Token)) \in Text
      BY <2>2, <3>2, ReturnedIsText
    <3>4. QED
      BY <3>1, <3>3, BothParts DEF BytesTyped
  <2>3. QED
    BY <2>1, <2>2
<1>3. chunks' \in Nat /\ Len(buffer') <= chunks' * ChunkSize
  <2>1. PICK c \in Nat, size \in Nat, b \in Nat, n \in Nat :
            /\ c = chunks /\ size = ChunkSize /\ b = Len(buffer) /\ n = Len(more)
            /\ b <= c * size /\ n <= size
    BY LenProperties DEF BytesTyped, Text, Bytes!StreamAssumption
  <2>2. Len(whole) = b + n
    BY <1>1, <2>1, BothParts DEF BytesTyped
  <2>3. b + n <= (c + 1) * size
    BY <2>1, Distributed
  <2>4. chunks' = c + 1
    BY <2>1
  <2>5. QED
    BY <1>1, <2>1, <2>2, <2>3, <2>4
<1>4. QED
  BY <1>1, <1>2, <1>3 DEF BytesTyped

LEMMA BytesByPlainEof ==
    ASSUME Bytes!StreamAssumption, BytesHeld, Bytes!PlainEof
    PROVE  BytesHeld'
<1>1. BytesTyped
  BY DEF BytesHeld
<1>2. /\ kind = "plain" /\ streamPc = "reading" /\ socket = <<>> /\ eof
      /\ result' = buffer /\ streamPc' = "returned"
      /\ UNCHANGED <<kind, coming, socket, eof, leftover, buffer, chunk, chunks, start>>
  BY DEF Bytes!PlainEof, Bytes!arrival
<1>3. coming = <<>>
  BY <1>1, <1>2 DEF BytesTyped
<1>4. PICK old \in Text, all \in Text :
          /\ old = leftover /\ all = buffer
          /\ start.leftover = old /\ start.stream = all \o Bytes!Stream
          /\ Bytes!Occurrences(all, Token, 1) = {}
  BY <1>1, <1>2 DEF BytesHeld, BytesTyped, ReadSoFar
<1>5. start.stream = all
  <2>1. Bytes!Stream = <<>> \o <<>>
    BY <1>2, <1>3 DEF Bytes!Stream
  <2>2. <<>> \o <<>> = <<>> /\ all \o <<>> = all
    BY ConcatEmptySeq, EmptySeq DEF Text
  <2>3. QED
    BY <1>4, <2>1, <2>2
<1>6. Bytes!From(old, Len(old) + 1) = <<>>
  <2>1. PICK l \in Nat : l = Len(old)
    BY LenProperties DEF Text
  <2>2. l + 1 \in 1..(Len(old) + 1) /\ Len(old) + 1 - (l + 1) = 0
    BY <2>1
  <2>3. PICK none \in Text : none = Bytes!From(old, l + 1) /\ Len(none) = 0
    BY <2>2, BackOf
  <2>4. none = <<>>
    BY <2>3, EmptySeq DEF Text
  <2>5. QED
    BY <2>1, <2>3, <2>4
<1>7. BytesTyped'
  BY <1>1, <1>2 DEF BytesTyped
<1>8. /\ start' = start /\ leftover' = old /\ result' = all
  BY <1>2, <1>4
<1>9. Bytes!ReturnsUpToToken'
  BY <1>4, <1>5, <1>6, <1>8, Zenon DEF Bytes!ReturnsUpToToken
<1>10. QED
  BY <1>2, <1>7, <1>9 DEF BytesHeld, ReadSoFar

(* What is to hold when a call has returned.                               *)
LEMMA RightWhenReturned ==
    ASSUME streamPc' = "returned",
           ReturnIsRight(start'.stream, start'.leftover, result', leftover',
                         Len(Bytes!Stream'), kind' = "plain")
    PROVE  Bytes!ReturnsUpToToken'
BY Zenon DEF ReturnIsRight, Bytes!ReturnsUpToToken

LEMMA BytesByPlainChunk ==
    ASSUME Bytes!StreamAssumption, BytesHeld, Bytes!PlainChunk
    PROVE  BytesHeld'
<1>1. BytesTyped
  BY DEF BytesHeld
<1>2. PICK s \in Text, c \in Text, b \in Text, old \in Text, stream \in Text :
          /\ s = socket /\ c = coming /\ b = buffer /\ old = leftover
          /\ start.leftover = old /\ start.stream = stream
  BY <1>1 DEF BytesHeld, BytesTyped, ReadSoFar, Bytes!PlainChunk
<1>3. stream = b \o (s \o c)
  BY <1>2 DEF BytesHeld, ReadSoFar, Bytes!PlainChunk, Bytes!Stream
<1>4. PICK m \in Nat, size \in Nat : m = Len(s) /\ size = ChunkSize
  BY LenProperties DEF Text, Bytes!StreamAssumption
<1>5. PICK n : n = IF m < size THEN m ELSE size
  OBVIOUS
<1>6. n \in 0..m /\ n <= size
  BY <1>4, <1>5
<1>7. PICK more \in Text, later \in Text :
          /\ more = Bytes!Up(s, n) /\ later = Bytes!From(s, n + 1) /\ Len(more) = n
          /\ (b \o more) \o (later \o c) = b \o (s \o c)
  <2>1. n \in 0..Len(s)
    BY <1>4, <1>6
  <2>2. ReadFrom(b, s, c, n)
    BY <2>1, StreamRead
  <2>3. Len(Bytes!Up(s, n)) = n
    BY <2>1, FrontOf
  <2>4. QED
    BY <2>2, <2>3, Zenon DEF ReadFrom
<1>8. PICK whole \in Text, ahead \in Text : whole = b \o more /\ ahead = later \o c
  BY BothParts
<1>9. /\ kind = "plain" /\ buffer' = whole /\ socket' = later
      /\ IF Bytes!Occurrences(whole, Token, 1) # {}
           THEN Bytes!Return(whole, Bytes!First(Bytes!Occurrences(whole, Token, 1)))
           ELSE Bytes!Goes
      /\ chunks' = chunks + 1 /\ UNCHANGED <<kind, coming, eof, chunk, start>>
  BY <1>2, <1>4, <1>5, <1>7, <1>8, Zenon DEF Bytes!PlainChunk, Bytes!Searched
<1>10. BytesTyped'
  <2>1. Len(more) <= ChunkSize /\ Len(whole) <= Len(whole)
    <3>1. PICK w \in Nat : w = Len(whole)
      BY LenProperties DEF Text
    <3>2. QED
      BY <1>4, <1>6, <1>7, <3>1
  <2>2. buffer' = buffer \o more /\ buffer \o more = whole
    BY <1>2, <1>8, <1>9
  <2>3. chunk' \in Text /\ Len(chunk') = ChunkSize /\ socket' \in Text
    BY <1>1, <1>9 DEF BytesTyped
  <2>4. QED
    BY <1>1, <1>9, <2>1, <2>2, <2>3, ReadIsTyped
<1>11. Bytes!Stream' = ahead
  BY <1>2, <1>8, <1>9 DEF Bytes!Stream
<1>12. stream = whole \o ahead
  BY <1>3, <1>7, <1>8
<1>13. CASE Bytes!Occurrences(whole, Token, 1) = {}
  <2>1. streamPc' = "reading" /\ UNCHANGED <<leftover, result>>
    BY <1>9, <1>13 DEF Bytes!Goes
  <2>2. ReadSoFar'
    BY <1>2, <1>9, <1>11, <1>12, <1>13, <2>1, Zenon DEF ReadSoFar
  <2>3. QED
    BY <1>10, <2>1, <2>2 DEF BytesHeld, Bytes!ReturnsUpToToken
<1>14. ASSUME Bytes!Occurrences(whole, Token, 1) # {},
              NEW place, place = Bytes!First(Bytes!Occurrences(whole, Token, 1))
       PROVE  BytesHeld'
  <2>1. /\ result' = Bytes!Up(whole, place - 1)
        /\ leftover' = old \o Bytes!From(whole, place + Len(Token))
        /\ streamPc' = "returned"
    BY <1>2, <1>9, <1>14, Zenon DEF Bytes!Return, Bytes!BehindToken
  <2>2. PICK g \in Nat, a \in Nat : g = Len(whole) /\ a = Len(ahead)
    BY LenProperties DEF Text
  <2>3. /\ Len(stream) = g + a /\ \A i \in 1..g : whole[i] = stream[i]
    BY <1>12, <2>2, BothParts
  <2>4. \A i \in (g + 1)..Len(whole) : whole[i] = Nul
    BY <2>2
  <2>5. \A i \in Bytes!Occurrences(whole, Token, 1) : i + Len(Token) - 1 <= g
    BY <2>2, GivenTexts, PlacesOf
  <2>6. CutAlike(whole, stream, a, Token)
    <3>1. Token \in Text /\ g <= Len(whole)
      BY <2>2, GivenTexts
    <3>2. QED
      BY <1>14, <2>2, <2>3, <2>4, <2>5, <3>1, CutRight
  <2>7. ReturnIsRight(stream, old, result', leftover', a, TRUE)
    BY <1>14, <2>1, <2>2, <2>3, <2>6, FoundAndReturned
  <2>8. Bytes!ReturnsUpToToken'
    <3>1. /\ start'.stream = stream /\ start'.leftover = old /\ Len(Bytes!Stream') = a
          /\ (kind' = "plain") = TRUE
      BY <1>2, <1>9, <1>11, <2>2
    <3>2. ReturnIsRight(start'.stream, start'.leftover, result', leftover',
                        Len(Bytes!Stream'), kind' = "plain")
      BY <2>7, <3>1
    <3>3. QED
      BY <2>1, <3>2, RightWhenReturned
  <2>9. QED
    BY <1>10, <2>1, <2>8 DEF BytesHeld, ReadSoFar
<1>15. QED
  BY <1>13, <1>14

LEMMA OneCharacter ==
    ASSUME NEW c \in Characters
    PROVE  <<c>> \in Text /\ Len(<<c>>) = 1 /\ <<c>>[1] = c
BY DEF Text

(* A token found in what was read and the NULs behind it ends in what was  *)
(* read.                                                                   *)
LEMMA NoTokenInNuls ==
    ASSUME Bytes!StreamAssumption, NEW whole \in Text, NEW g \in Nat, g <= Len(whole),
           \A i \in (g + 1)..Len(whole) : whole[i] = Nul,
           NEW i \in Bytes!Occurrences(whole, Token, 1)
    PROVE  i + Len(Token) - 1 <= g
<1>1. PICK m \in Nat, l \in Nat \ {0} : m = Len(whole) /\ l = Len(Token)
  BY GivenTexts, LenProperties DEF Text
<1>2. i \in Nat /\ 1 <= i /\ i + l - 1 <= m /\ \A j \in 1..l : whole[i + j - 1] = Token[j]
  <2>1. Token \in Text
    BY GivenTexts
  <2>2. QED
    BY <1>1, <2>1, PlacesOf
<1>3. SUFFICES ASSUME ~(i + l - 1 <= g) PROVE FALSE
  BY <1>1
<1>4. i + l - 1 \in (g + 1)..m /\ l \in 1..l
  BY <1>1, <1>2, <1>3
<1>5. Token[l] = Nul
  BY <1>1, <1>2, <1>4
<1>6. PICK nul \in Text : nul = <<Nul>> /\ Len(nul) = 1 /\ nul[1] = Nul
  <2>1. Nul \in Characters
    BY DEF Bytes!StreamAssumption
  <2>2. QED
    BY <2>1, OneCharacter
<1>7. l \in Bytes!Occurrences(Token, nul, 1)
  <2>1. Token \in Text
    BY GivenTexts
  <2>2. 1 <= l /\ l + 1 - 1 <= l /\ \A j \in 1..1 : l + j - 1 = l /\ j = 1
    BY <1>1
  <2>3. \A j \in 1..1 : Token[l + j - 1] = nul[j]
    BY <1>5, <1>6, <2>2
  <2>4. QED
    BY <1>1, <1>6, <2>1, <2>2, <2>3, PlacesOf
<1>8. QED
  BY <1>6, <1>7 DEF Bytes!StreamAssumption, Bytes!Has

LEMMA BytesByTlsChunk ==
    ASSUME Bytes!StreamAssumption, BytesHeld, Bytes!TlsChunk
    PROVE  BytesHeld'
<1>1. BytesTyped
  BY DEF BytesHeld
<1>2. PICK s \in Text, c \in Text, b \in Text, old \in Text, stream \in Text, was \in Text :
          /\ s = socket /\ c = coming /\ b = buffer /\ old = leftover /\ was = chunk
          /\ start.leftover = old /\ start.stream = stream
  BY <1>1 DEF BytesHeld, BytesTyped, ReadSoFar, Bytes!TlsChunk
<1>3. PICK m \in Nat, size \in Nat : m = Len(s) /\ size = ChunkSize /\ Len(was) = size
  BY <1>1, <1>2, LenProperties DEF Text, Bytes!StreamAssumption, BytesTyped
<1>4. PICK n \in 1..Len(socket) :
          /\ n <= ChunkSize
          /\ LET filled == Bytes!Up(socket, n) \o Bytes!From(chunk, n + 1)
                 place  == Bytes!Occurrences(filled, Token, 1)
             IN  /\ chunk' = filled
                 /\ buffer' = buffer \o filled
                 /\ IF place # {} THEN Bytes!Return(buffer', Bytes!First(place)) ELSE Bytes!Goes
          /\ socket' = Bytes!From(socket, n + 1)
  BY Zenon DEF Bytes!TlsChunk
<1>5. n \in 0..m /\ n \in 0..Len(s) /\ n + 1 \in 1..(Len(was) + 1) /\ n <= size /\ n \in Nat
  BY <1>2, <1>3, <1>4
<1>6. PICK more \in Text, later \in Text :
          /\ more = Bytes!Up(s, n) /\ later = Bytes!From(s, n + 1) /\ Len(more) = n
          /\ \A i \in 1..n : more[i] = s[i]
          /\ (<<>> \o more) \o (later \o c) = <<>> \o (s \o c)
  <2>1. ReadFrom(<<>>, s, c, n)
    BY <1>5, GivenTexts, StreamRead
  <2>2. Len(Bytes!Up(s, n)) = n /\ \A i \in 1..n : Bytes!Up(s, n)[i] = s[i]
    BY <1>5, FrontOf
  <2>3. QED
    BY <2>1, <2>2, Zenon DEF ReadFrom
<1>7. PICK pad \in Text : /\ pad = Bytes!From(was, n + 1) /\ Len(pad) = Len(was) + 1 - (n + 1)
                          /\ \A i \in 1..(Len(was) + 1 - (n + 1)) : pad[i] = was[(n + 1) + i - 1]
  BY <1>5, BackOf
<1>8. PICK filled \in Text : filled = more \o pad
  BY BothParts
<1>9. Len(filled) = size
  <2>1. Len(pad) = size - n
    BY <1>3, <1>5, <1>7
  <2>2. Len(filled) = Len(more) + Len(pad)
    BY <1>8, BothParts
  <2>3. QED
    BY <1>3, <1>5, <1>6, <2>1, <2>2
<1>10. PICK whole \in Text, ahead \in Text : whole = b \o filled /\ ahead = later \o c
  BY BothParts
<1>11. /\ kind = "tls" /\ chunk' = filled /\ buffer' = whole /\ socket' = later
       /\ IF Bytes!Occurrences(filled, Token, 1) # {}
            THEN Bytes!Return(buffer', Bytes!First(Bytes!Occurrences(filled, Token, 1)))
            ELSE Bytes!Goes
       /\ chunks' = chunks + 1 /\ UNCHANGED <<kind, coming, eof, start>>
  <2>1. kind = "tls" /\ chunks' = chunks + 1 /\ UNCHANGED <<kind, coming, eof, start>>
    BY DEF Bytes!TlsChunk
  <2>2. Bytes!Up(socket, n) \o Bytes!From(chunk, n + 1) = filled
    BY <1>2, <1>6, <1>7, <1>8
  <2>3. socket' = later /\ buffer \o filled = whole
    BY <1>2, <1>4, <1>6, <1>10
  <2>4. QED
    BY <1>4, <2>1, <2>2, <2>3, Zenon
<1>12. BytesTyped'
  <2>1. Len(filled) <= ChunkSize /\ Len(filled) <= Len(whole)
    <3>1. PICK l \in Nat : l = Len(b)
      BY LenProperties DEF Text
    <3>2. Len(whole) = l + size
      BY <1>9, <1>10, <3>1, BothParts
    <3>3. size <= l + size
      BY <3>1
    <3>4. QED
      BY <1>3, <1>9, <3>2, <3>3
  <2>2. buffer' = buffer \o filled /\ Len(filled) <= Len(buffer \o filled)
    BY <1>2, <1>10, <1>11, <2>1
  <2>3. chunk' \in Text /\ Len(chunk') = ChunkSize /\ socket' \in Text
    BY <1>3, <1>9, <1>11
  <2>4. QED
    BY <1>1, <1>11, <2>1, <2>2, <2>3, ReadIsTyped
<1>13. Bytes!Stream' = ahead
  BY <1>2, <1>10, <1>11 DEF Bytes!Stream
<1>14. ReadSoFar'
  <2>1. chunks' # 0 /\ kind' = "tls"
    BY <1>1, <1>11 DEF BytesTyped
  <2>2. ASSUME streamPc' = "reading" PROVE leftover' = start'.leftover
    <3>1. Bytes!Occurrences(filled, Token, 1) = {}
      BY <1>11, <2>2 DEF Bytes!Return
    <3>2. QED
      BY <1>2, <1>11, <3>1 DEF Bytes!Goes
  <2>3. QED
    BY <2>1, <2>2 DEF ReadSoFar
<1>15. ASSUME streamPc' = "returned", chunks' = 1 PROVE Bytes!ReturnsUpToToken'
  <2>1. chunks = 0 /\ streamPc = "reading"
    BY <1>1, <1>11, <1>15 DEF BytesTyped, Bytes!TlsChunk
  <2>2. b = <<>> /\ was = Bytes!Blank /\ stream = s \o c
    BY <1>2, <1>11, <2>1 DEF BytesHeld, ReadSoFar, Bytes!Stream
  <2>3. whole = filled /\ stream = more \o ahead
    <3>1. <<>> \o filled = filled /\ <<>> \o more = more
      BY ConcatEmptySeq DEF Text
    <3>2. PICK all \in Text : all = s \o c /\ <<>> \o all = all
      <4>1. PICK all \in Text : all = s \o c
        BY BothParts
      <4>2. QED
        BY <4>1, ConcatEmptySeq DEF Text
    <3>3. QED
      BY <1>6, <1>10, <2>2, <3>1, <3>2
  <2>4. Bytes!Occurrences(whole, Token, 1) # {}
    BY <1>11, <1>15, <2>3 DEF Bytes!Goes
  <2>5. PICK place : place = Bytes!First(Bytes!Occurrences(whole, Token, 1))
    OBVIOUS
  <2>6. /\ result' = Bytes!Up(whole, place - 1)
        /\ leftover' = old \o Bytes!From(whole, place + Len(Token))
    BY <1>2, <1>11, <2>3, <2>4, <2>5, Zenon DEF Bytes!Return, Bytes!BehindToken
  <2>7. PICK a \in Nat : a = Len(ahead)
    BY LenProperties DEF Text
  <2>8. n <= Len(whole) /\ Len(stream) = n + a /\ Len(whole) = size
    <3>1. Len(more \o ahead) = Len(more) + Len(ahead)
      BY BothParts
    <3>2. Len(stream) = n + a
      BY <1>6, <2>3, <2>7, <3>1
    <3>3. Len(whole) = size /\ n <= size
      BY <1>5, <1>9, <2>3
    <3>4. QED
      BY <3>2, <3>3
  <2>9. \A i \in 1..n : whole[i] = stream[i]
    BY <1>6, <1>8, <2>3, BothParts
  <2>10. ASSUME NEW i \in (n + 1)..Len(whole) PROVE whole[i] = Nul
    <3>1. PICK j \in Nat : j = i - n /\ j \in 1..(size - n) /\ n + j = i /\ i \in 1..size
      <4>1. i \in (n + 1)..size
        BY <2>8
      <4>2. i - n \in Nat /\ i - n \in 1..(size - n) /\ n + (i - n) = i /\ i \in 1..size
        BY <1>3, <1>5, <4>1
      <4>3. QED
        BY <4>2
    <3>2. size - n = Len(was) + 1 - (n + 1) /\ (n + 1) + j - 1 = i
      BY <1>3, <1>5, <3>1
    <3>3. pad[j] = was[i] /\ Len(pad) = size - n
      BY <1>7, <3>1, <3>2
    <3>4. was[i] = Nul
      BY <1>3, <2>2, <3>1, GivenTexts
    <3>5. whole[n + j] = pad[j]
      <4>1. \A k \in 1..Len(pad) : (more \o pad)[Len(more) + k] = pad[k]
        BY BothParts
      <4>2. j \in 1..Len(pad)
        BY <3>1, <3>3
      <4>3. QED
        BY <1>6, <1>8, <2>3, <4>1, <4>2
    <3>6. QED
      BY <3>1, <3>3, <3>4, <3>5
  <2>11. \A i \in Bytes!Occurrences(whole, Token, 1) : i + Len(Token) - 1 <= n
    BY <1>5, <2>8, <2>10, NoTokenInNuls
  <2>12. CutAlike(whole, stream, a, Token)
    <3>1. Token \in Text
      BY GivenTexts
    <3>2. QED
      BY <1>5, <2>4, <2>7, <2>8, <2>9, <2>10, <2>11, <3>1, CutRight
  <2>13. ReturnIsRight(stream, old, result', leftover', a, FALSE)
    BY <2>5, <2>6, <2>7, <2>12, FoundAndReturned
  <2>14. /\ start'.stream = stream /\ start'.leftover = old /\ Len(Bytes!Stream') = a
         /\ (kind' = "plain") = FALSE
    BY <1>2, <1>11, <1>13, <2>7
  <2>15. ReturnIsRight(start'.stream, start'.leftover, result', leftover',
                       Len(Bytes!Stream'), kind' = "plain")
    BY <2>13, <2>14
  <2>16. QED
    BY <1>15, <2>15, RightWhenReturned
<1>16. kind' = "tls"
  BY <1>11
<1>17. Bytes!ReturnsUpToToken'
  BY <1>15, <1>16 DEF Bytes!ReturnsUpToToken
<1>18. QED
  BY <1>12, <1>14, <1>17 DEF BytesHeld

LEMMA BytesStay ==
    ASSUME Bytes!StreamAssumption, BytesHeld, [Bytes!Next]_(Bytes!vars)
    PROVE  BytesHeld'
<1>1. CASE UNCHANGED Bytes!vars
  BY <1>1 DEF Bytes!vars, Bytes!arrival, BytesHeld, BytesTyped, ReadSoFar, Bytes!Stream,
              Bytes!Blank, Bytes!ReturnsUpToToken
<1>2. CASE Bytes!Next
  BY <1>2, BytesByPeer, BytesByPeek, BytesByInjectBuffer, BytesByReadUntilToken,
     BytesByPlainChunk, BytesByFailure, BytesByPlainEof, BytesByTlsChunk, BytesByRest
     DEF Bytes!Next
<1>3. QED
  BY <1>1, <1>2

LEMMA BytesImply ==
    ASSUME BytesHeld
    PROVE  Bytes!TypeOK /\ Bytes!ReturnsUpToToken
BY DEF BytesHeld, BytesTyped, Bytes!TypeOK
-----------------------------------------------------------------------------
(* Routing.  What is between the slashes of a URI are characters; neither  *)
(* a pair nor the group is one.                                            *)
IsCharacter(c) == c \notin {Routing!Pair(d) : d \in Routing!Special} \cup {Routing!Group}
IsUri(u) == /\ u \in Seq({u[i] : i \in DOMAIN u})
            /\ \A i \in DOMAIN u : IsCharacter(u[i])

LEMMA UrisAreText ==
    ASSUME Routing!RoutingAssumption
    PROVE  \A u \in AddedUris \cup RequestedUris : IsUri(u)
BY DEF Routing!RoutingAssumption, IsUri, IsCharacter

LEMMA UriLength ==
    ASSUME NEW u, IsUri(u)
    PROVE  \E n \in Nat : n = Len(u) /\ DOMAIN u = 1..n
BY DEF IsUri

LEMMA Pairs ==
    /\ Routing!Pair("[") = "\\[" /\ Routing!Pair("]") = "\\]" /\ Routing!Pair("*") = "\\*"
    /\ Routing!Pair("/") = "\\/" /\ Routing!Pair("?") = "\\?"
BY DEF Routing!Pair

(* Escaping tells characters apart, and leaves none that is special.       *)
Atom(c) == Routing!Escaped(c, Routing!Special)

LEMMA AtomsDiffer ==
    ASSUME NEW c, NEW d, IsCharacter(c), IsCharacter(d), Atom(c) = Atom(d)
    PROVE  c = d
BY Pairs DEF IsCharacter, Atom, Routing!Escaped, Routing!Special, Routing!Brackets

LEMMA AtomIsSafe ==
    ASSUME NEW c, IsCharacter(c)
    PROVE  /\ Atom(c) \notin Routing!Special
           /\ Atom(c) # Routing!Group
           /\ Atom(c) = "." => c = "."
BY Pairs DEF IsCharacter, Atom, Routing!Escaped, Routing!Special, Routing!Brackets, Routing!Group

LEMMA WildcardEscaped ==
    ASSUME NEW c, IsCharacter(c)
    PROVE  /\ c # "*" => Routing!Escaped(c, Routing!Brackets) = Atom(c)
           /\ c = "*" => Routing!Escaped(c, Routing!Brackets) = "*"
           /\ Routing!Escaped(c, Routing!Brackets) = "\\/" <=> c = "/"
BY Pairs DEF IsCharacter, Atom, Routing!Escaped, Routing!Special, Routing!Brackets
-----------------------------------------------------------------------------
(* The expression of a URI, atom by atom: g is where the group is, or 0.   *)
IsWildcard(p, i) == /\ i \in 2..Len(p) /\ p[i] = "*" /\ p[i - 1] = "/"
                    /\ \A j \in 1..Len(p) : p[j] = "*" => j = i

Shape(p, g, e) ==
    /\ Len(e) \in Nat /\ DOMAIN e = 1..Len(e)
    /\ g \in 0..Len(e)
    /\ g = 0 => /\ ~Routing!ContainsWildcard(p)
                /\ Len(e) = Len(p)
                /\ \A k \in 1..Len(e) : e[k] = Atom(p[k])
    /\ g # 0 => /\ IsWildcard(p, g + 1)
                /\ Routing!ContainsWildcard(p)
                /\ Len(e) + 1 = Len(p)
                /\ e[g] = Routing!Group
                /\ \A k \in 1..(g - 1) : e[k] = Atom(p[k])
                /\ \A k \in (g + 1)..Len(e) : e[k] = Atom(p[k + 1])

LEMMA OneWildcard ==
    ASSUME Routing!RoutingAssumption, NEW p \in AddedUris, Routing!ContainsWildcard(p)
    PROVE  \E i : IsWildcard(p, i)
BY DEF Routing!RoutingAssumption, Routing!ContainsWildcard, IsWildcard

(* formatEx replaces the separator, and finds no other.                    *)
LEMMA SeparatorAt ==
    ASSUME NEW S, NEW s \in Seq(S), NEW t \in 1..Len(s), t + 1 <= Len(s),
           s[t] = "\\/", \A k \in 1..Len(s) : s[k] = "*" <=> k = t + 1
    PROVE  Routing!Separators(s) = {t}
<1>1. PICK n \in Nat : n = Len(s)
  OBVIOUS
<1>2. Len(Routing!Separator) = 2
  BY DEF Routing!Separator
<1>3. ASSUME NEW i \in 1..(n - 1)
      PROVE  SubSeq(s, i, i + 1) = Routing!Separator <=> s[i] = "\\/" /\ s[i + 1] = "*"
  <2>1. /\ Len(SubSeq(s, i, i + 1)) = 2
        /\ SubSeq(s, i, i + 1)[1] = s[i] /\ SubSeq(s, i, i + 1)[2] = s[i + 1]
        /\ SubSeq(s, i, i + 1) \in Seq(S)
    BY <1>1
  <2>2. PICK two \in Seq(S) : two = SubSeq(s, i, i + 1)
    BY <2>1
  <2>3. PICK slash \in S, star \in S : slash = "\\/" /\ star = "*"
    BY <1>1
  <2>4. two = <<slash, star>> <=> Len(two) = 2 /\ two[1] = slash /\ two[2] = star
    BY ParserProofs!IsTwo
  <2>5. QED
    BY <2>1, <2>2, <2>3, <2>4 DEF Routing!Separator
<1>4. Routing!Separators(s) = {i \in 1..(n - 1) : SubSeq(s, i, i + 1) = Routing!Separator}
  BY <1>1, <1>2 DEF Routing!Separators, Routing!Occurrences
<1>5. t \in 1..(n - 1) /\ s[t + 1] = "*"
  BY <1>1
<1>6. \A i \in 1..(n - 1) : s[i + 1] = "*" => i = t
  BY <1>1
<1>7. QED
  BY <1>3, <1>4, <1>5, <1>6

LEMMA NoSeparator ==
    ASSUME NEW S, NEW s \in Seq(S), \A k \in 1..Len(s) : s[k] # "*"
    PROVE  Routing!Separators(s) = {}
<1>1. PICK n \in Nat : n = Len(s)
  OBVIOUS
<1>2. Len(Routing!Separator) = 2 /\ Routing!Separator[2] = "*"
  BY DEF Routing!Separator
<1>3. ASSUME NEW i \in 1..(n - 1), SubSeq(s, i, i + 1) = Routing!Separator PROVE FALSE
  <2>1. SubSeq(s, i, i + 1)[2] = s[i + 1]
    BY <1>1
  <2>2. QED
    BY <1>1, <1>2, <1>3, <2>1
<1>4. Routing!Separators(s) = {i \in 1..(n - 1) : SubSeq(s, i, i + 1) = Routing!Separator}
  BY <1>1, <1>2 DEF Routing!Separators, Routing!Occurrences
<1>5. QED
  BY <1>3, <1>4

LEMMA Concatenated ==
    ASSUME NEW A, NEW x \in Seq(A), NEW y \in Seq(A)
    PROVE  /\ x \o y \in Seq(A) /\ Len(x \o y) = Len(x) + Len(y)
           /\ \A k \in 1..Len(x) : (x \o y)[k] = x[k]
           /\ \A k \in 1..Len(y) : (x \o y)[Len(x) + k] = y[k]
OBVIOUS

LEMMA Replaced ==
    ASSUME NEW S, NEW s \in Seq(S), NEW t \in 1..Len(s), t + 1 <= Len(s),
           Routing!Separators(s) = {t}
    PROVE  /\ Routing!ReplaceFirst(s) \in Seq(S \cup {Routing!Group})
           /\ Len(Routing!ReplaceFirst(s)) + 1 = Len(s)
           /\ Routing!ReplaceFirst(s)[t] = Routing!Group
           /\ \A k \in 1..(t - 1) : Routing!ReplaceFirst(s)[k] = s[k]
           /\ \A k \in (t + 1)..(Len(s) - 1) : Routing!ReplaceFirst(s)[k] = s[k + 1]
<1> DEFINE G == Routing!Group
           A == S \cup {G}
           front == SubSeq(s, 1, t - 1)
           back == SubSeq(s, t + 2, Len(s))
<1> HIDE DEF G
<1>1. PICK n \in Nat : n = Len(s)
  OBVIOUS
<1>2. Routing!First({t}) = t
  BY DEF Routing!First
<1>3. Len(Routing!Separator) = 2
  BY DEF Routing!Separator
<1>4. Routing!ReplaceFirst(s) = front \o <<G>> \o back
  BY <1>2, <1>3 DEF Routing!ReplaceFirst, G
<1>5. PICK f \in Seq(A) : /\ f = front /\ Len(f) = t - 1
                          /\ \A k \in 1..(t - 1) : f[k] = s[k]
  <2>1. front \in Seq(A) /\ Len(front) = t - 1 /\ \A k \in 1..(t - 1) : front[k] = s[k]
    BY <1>1
  <2>2. QED
    BY <2>1
<1>6. PICK b \in Seq(A) : /\ b = back /\ Len(b) = n - (t + 1)
                          /\ \A k \in 1..(n - (t + 1)) : b[k] = s[k + (t + 1)]
  <2>1. /\ back \in Seq(A) /\ Len(back) = n - (t + 1)
        /\ \A k \in 1..(n - (t + 1)) : back[k] = s[k + (t + 1)]
    BY <1>1
  <2>2. QED
    BY <2>1
<1> HIDE DEF front, back, A
<1>7. PICK m \in Seq(A) : m = <<G>> /\ Len(m) = 1 /\ m[1] = G
  <2>1. G \in A
    BY DEF A
  <2>2. <<G>> \in Seq(A) /\ Len(<<G>>) = 1 /\ <<G>>[1] = G
    BY <2>1
  <2>3. QED
    BY <2>2
<1>8. PICK r : r = f \o m \o b
  OBVIOUS
<1>9. /\ f \o m \in Seq(A) /\ Len(f \o m) = t
      /\ \A k \in 1..(t - 1) : (f \o m)[k] = f[k]
      /\ (f \o m)[t] = G
  <2>1. /\ f \o m \in Seq(A) /\ Len(f \o m) = Len(f) + Len(m)
        /\ \A k \in 1..Len(f) : (f \o m)[k] = f[k]
        /\ \A k \in 1..Len(m) : (f \o m)[Len(f) + k] = m[k]
    BY Concatenated
  <2>2. (f \o m)[Len(f) + 1] = m[1]
    BY <1>7, <2>1
  <2>3. QED
    BY <1>1, <1>5, <1>7, <2>1, <2>2
<1>10. PICK h \in Seq(A) : h = f \o m
  BY <1>9
<1>11. /\ r \in Seq(A) /\ Len(r) = n - 1
       /\ \A k \in 1..t : r[k] = h[k]
       /\ \A k \in (t + 1)..(n - 1) : r[k] = b[k - t]
  <2>1. /\ h \o b \in Seq(A) /\ Len(h \o b) = Len(h) + Len(b)
        /\ \A k \in 1..Len(h) : (h \o b)[k] = h[k]
        /\ \A k \in 1..Len(b) : (h \o b)[Len(h) + k] = b[k]
    BY Concatenated
  <2>2. r = h \o b
    BY <1>8, <1>10
  <2>3. Len(h) = t /\ Len(b) = n - (t + 1)
    BY <1>6, <1>9, <1>10
  <2>4. ASSUME NEW k \in (t + 1)..(n - 1) PROVE r[k] = b[k - t]
    <3>1. PICK l \in 1..(n - (t + 1)) : l = k - t /\ t + l = k
      BY <1>1
    <3>2. r[t + l] = b[l]
      BY <2>1, <2>2, <2>3, <3>1
    <3>3. QED
      BY <3>1, <3>2
  <2>5. Len(r) = n - 1
    <3>1. t + (n - (t + 1)) = n - 1
      BY <1>1
    <3>2. Len(r) = Len(h) + Len(b)
      BY <2>1, <2>2
    <3>3. QED
      BY <2>3, <3>1, <3>2
  <2>6. \A k \in 1..t : r[k] = h[k]
    BY <2>1, <2>2, <2>3
  <2>7. QED
    BY <2>1, <2>2, <2>4, <2>5, <2>6
<1>12. \A k \in (t + 1)..(n - 1) : r[k] = s[k + 1]
  <2>1. ASSUME NEW k \in (t + 1)..(n - 1) PROVE r[k] = s[k + 1]
    <3>1. PICK l \in 1..(n - (t + 1)) : l = k - t /\ l + (t + 1) = k + 1
      BY <1>1
    <3>2. QED
      BY <1>6, <1>11, <3>1
  <2>2. QED
    BY <2>1
<1>13. r[t] = G /\ \A k \in 1..(t - 1) : r[k] = s[k]
  <2>1. t \in 1..t /\ \A k \in 1..(t - 1) : k \in 1..t
    OBVIOUS
  <2>2. QED
    BY <1>5, <1>9, <1>10, <1>11, <2>1
<1>14. Routing!ReplaceFirst(s) = r
  BY <1>4, <1>5, <1>6, <1>7, <1>8
<1>15. Len(r) + 1 = n
  BY <1>1, <1>11
<1>16. QED
  BY <1>1, <1>11, <1>12, <1>13, <1>14, <1>15 DEF G, A

(* A call of formatEx with one separator calls itself, and that call       *)
(* returns.                                                                *)
NextCall(s) == IF Routing!Separators(s) = {} THEN s ELSE Routing!ReplaceFirst(s)

IsCalls(s, f) == f = [n \in 0..Len(s) |-> IF n = 0 THEN s ELSE NextCall(f[n - 1])]

LEMMA FormatOnce ==
    ASSUME NEW S, NEW s \in Seq(S), Len(s) # 0, Routing!Separators(s) # {},
           Routing!Separators(Routing!ReplaceFirst(s)) = {}
    PROVE  Routing!FormatEx(s) = Routing!ReplaceFirst(s)
<1>1. PICK N \in Nat \ {0} : N = Len(s)
  OBVIOUS
<1>2. PICK r : r = Routing!ReplaceFirst(s)
  OBVIOUS
<1>3. NextCall(s) = r /\ NextCall(r) = r
  BY <1>2 DEF NextCall
<1>4. PICK f : f = [n \in 0..N |-> IF n = 0 THEN s ELSE r]
  OBVIOUS
<1>5. IsCalls(s, f)
  <2>1. \A n \in 0..N : n # 0 => NextCall(f[n - 1]) = r
    BY <1>3, <1>4
  <2>2. QED
    BY <1>1, <1>4, <2>1 DEF IsCalls
<1>6. PICK g : g = CHOOSE calls : IsCalls(s, calls)
  OBVIOUS
<1>7. IsCalls(s, g)
  BY <1>5, <1>6
<1>8. Routing!FormatEx(s) = g[N]
  BY <1>1, <1>6 DEF Routing!FormatEx, IsCalls, NextCall
<1>9. \A n \in 0..N : g[n] = IF n = 0 THEN s ELSE NextCall(g[n - 1])
  BY <1>1, <1>7 DEF IsCalls
<1> DEFINE T == {n \in Nat : n + 1 <= N => g[n + 1] = r}
<1>10. 0 \in T
  BY <1>3, <1>9
<1>11. ASSUME NEW n \in T PROVE n + 1 \in T
  <2>1. CASE (n + 1) + 1 <= N
    <3>1. g[n + 1] = r /\ (n + 1) + 1 \in 0..N /\ (n + 1) + 1 # 0 /\ ((n + 1) + 1) - 1 = n + 1
      BY <2>1
    <3>2. g[(n + 1) + 1] = NextCall(g[n + 1])
      BY <1>9, <3>1
    <3>3. QED
      BY <1>3, <3>1, <3>2
  <2>2. QED
    BY <2>1
<1> HIDE DEF T
<1>12. T = Nat
  <2>1. T \in SUBSET Nat
    BY DEF T
  <2>2. QED
    BY <1>10, <1>11, <2>1, ParserProofs!Induction
<1>13. PICK n \in T : n + 1 = N
  BY <1>1, <1>12
<1>14. QED
  BY <1>2, <1>8, <1>13 DEF T

(* What is left when every character is escaped but the stars.             *)
SanitizedAs(p, s) ==
    /\ Len(p) \in Nat /\ Len(s) = Len(p) /\ s \in Seq({s[i] : i \in 1..Len(p)})
    /\ \A i \in 1..Len(p) : /\ s[i] = "*" <=> p[i] = "*"
                            /\ s[i] = "\\/" <=> p[i] = "/"
                            /\ p[i] # "*" => s[i] = Atom(p[i])

LEMMA Sanitized ==
    ASSUME NEW p, IsUri(p)
    PROVE  SanitizedAs(p, [i \in 1..Len(p) |-> Routing!Escaped(p[i], Routing!Brackets)])
<1>0. PICK s : s = [i \in 1..Len(p) |-> Routing!Escaped(p[i], Routing!Brackets)]
  OBVIOUS
<1>1. PICK n \in Nat : n = Len(p) /\ DOMAIN p = 1..n
  BY DEF IsUri
<1>2. \A i \in 1..n : s[i] = Routing!Escaped(p[i], Routing!Brackets) /\ IsCharacter(p[i])
  BY <1>0, <1>1 DEF IsUri
<1>3. s \in [1..n -> {s[i] : i \in 1..n}]
  BY <1>0, <1>1
<1>4. s \in Seq({s[i] : i \in 1..n}) /\ Len(s) = n
  BY <1>1, <1>3
<1>5. ASSUME NEW i \in 1..n
      PROVE  /\ s[i] = "*" <=> p[i] = "*"
             /\ s[i] = "\\/" <=> p[i] = "/"
             /\ p[i] # "*" => s[i] = Atom(p[i])
  <2>1. /\ p[i] # "*" => s[i] = Atom(p[i])
        /\ p[i] = "*" => s[i] = "*"
        /\ s[i] = "\\/" <=> p[i] = "/"
        /\ Atom(p[i]) \notin Routing!Special
    BY <1>2, WildcardEscaped, AtomIsSafe
  <2>2. "*" \in Routing!Special
    BY DEF Routing!Special
  <2>3. QED
    BY <2>1, <2>2
<1>6. SanitizedAs(p, s)
  BY <1>1, <1>4, <1>5 DEF SanitizedAs
<1>7. QED
  BY <1>0, <1>6

LEMMA WildcardShape ==
    ASSUME NEW p, IsUri(p), NEW i, IsWildcard(p, i), Routing!ContainsWildcard(p)
    PROVE  Shape(p, i - 1, Routing!CreateWithWildcard(p))
<1>1. PICK s : s = [k \in 1..Len(p) |-> Routing!Escaped(p[k], Routing!Brackets)]
  OBVIOUS
<1>2. PICK n \in Nat : n = Len(p)
  BY DEF IsUri
<1>3. PICK A : A = {s[k] : k \in 1..n}
  OBVIOUS
<1>4. /\ Len(s) = n /\ s \in Seq(A)
      /\ \A k \in 1..n : /\ s[k] = "*" <=> p[k] = "*"
                         /\ s[k] = "\\/" <=> p[k] = "/"
                         /\ p[k] # "*" => s[k] = Atom(p[k])
  <2>1. SanitizedAs(p, s)
    BY <1>1, Sanitized
  <2>2. QED
    BY <1>2, <1>3, <2>1 DEF SanitizedAs
<1>5. PICK t \in 1..n : t + 1 \in 2..n /\ t + 1 = i /\ i - 1 = t
  BY <1>2 DEF IsWildcard
<1>6. p[t] = "/" /\ p[t + 1] = "*" /\ \A k \in 1..n : p[k] = "*" => k = t + 1
  BY <1>2, <1>5 DEF IsWildcard
<1>7. Routing!Separators(s) = {t}
  BY <1>4, <1>5, <1>6, SeparatorAt
<1>8. PICK r : r = Routing!ReplaceFirst(s)
  OBVIOUS
<1>9. /\ r \in Seq(A \cup {Routing!Group}) /\ Len(r) + 1 = n
      /\ r[t] = Routing!Group
      /\ \A k \in 1..(t - 1) : r[k] = s[k]
      /\ \A k \in (t + 1)..(n - 1) : r[k] = s[k + 1]
  <2>1. t \in 1..Len(s) /\ t + 1 <= Len(s)
    BY <1>4, <1>5
  <2>2. Routing!ReplaceFirst(s) = r
    BY <1>8
  <2>3. QED
    BY <1>4, <1>7, <2>1, <2>2, Replaced
<1>10. PICK l \in Nat : l = Len(r) /\ l = n - 1 /\ DOMAIN r = 1..l
  BY <1>2, <1>9
<1>11. \A k \in 1..(t - 1) : k \in 1..n /\ k # t + 1 /\ r[k] = s[k] /\ s[k] # "*"
  BY <1>4, <1>5, <1>6, <1>9
<1>12. \A k \in (t + 1)..l : k + 1 \in 1..n /\ k + 1 # t + 1 /\ r[k] = s[k + 1] /\ s[k + 1] # "*"
  BY <1>4, <1>5, <1>6, <1>9, <1>10
<1>13. \A k \in 1..l : r[k] # "*"
  <2>1. Routing!Group # "*"
    BY DEF Routing!Group
  <2>2. \A k \in 1..l : k \in 1..(t - 1) \/ k = t \/ k \in (t + 1)..l
    BY <1>5
  <2>3. QED
    BY <1>9, <1>11, <1>12, <2>1, <2>2
<1>14. Routing!Separators(r) = {}
  BY <1>9, <1>10, <1>13, NoSeparator
<1>15. Routing!FormatEx(s) = r
  BY <1>4, <1>5, <1>7, <1>8, <1>14, FormatOnce
<1>16. Routing!CreateWithWildcard(p) = r
  BY <1>1, <1>15 DEF Routing!CreateWithWildcard
<1>17. \A k \in 1..(t - 1) : r[k] = Atom(p[k])
  BY <1>4, <1>11
<1>18. \A k \in (t + 1)..l : r[k] = Atom(p[k + 1])
  BY <1>4, <1>12
<1>19. IsWildcard(p, t + 1) /\ t \in 0..l /\ l + 1 = Len(p) /\ t # 0
  BY <1>2, <1>5, <1>10
<1>20. Shape(p, t, r)
  BY <1>9, <1>10, <1>17, <1>18, <1>19 DEF Shape
<1>21. QED
  BY <1>5, <1>16, <1>20

LEMMA ExactShape ==
    ASSUME NEW p, IsUri(p), ~Routing!ContainsWildcard(p)
    PROVE  Shape(p, 0, Routing!CreateExactMatch(p))
<1>1. PICK n \in Nat : n = Len(p)
  BY DEF IsUri
<1>2. PICK e : e = Routing!CreateExactMatch(p)
  OBVIOUS
<1>3. e = [k \in 1..n |-> Atom(p[k])]
  BY <1>1, <1>2 DEF Routing!CreateExactMatch, Atom
<1>4. e \in Seq({Atom(p[k]) : k \in 1..n}) /\ Len(e) = n /\ DOMAIN e = 1..n
  BY <1>3
<1>5. Shape(p, 0, e)
  BY <1>1, <1>3, <1>4 DEF Shape
<1>6. QED
  BY <1>2, <1>5

LEMMA ExpressionShape ==
    ASSUME Routing!RoutingAssumption, NEW p \in AddedUris
    PROVE  \E g : Shape(p, g, Routing!Expression(p))
<1>1. IsUri(p)
  BY UrisAreText
<1>2. CASE Routing!ContainsWildcard(p)
  BY <1>1, <1>2, OneWildcard, WildcardShape DEF Routing!Expression
<1>3. CASE ~Routing!ContainsWildcard(p)
  BY <1>1, <1>3, ExactShape DEF Routing!Expression
<1>4. QED
  BY <1>2, <1>3
-----------------------------------------------------------------------------
(* Where the atoms of an expression with at most one group match the rest: *)
(* behind the group one character each, up to the end.                     *)
Fits(a, c) == a \in {".", Atom(c)}

Alike(e, u, a, b, i) ==
    \A k \in a..b : \A l \in 1..Len(u) : l - i = k - a => Fits(e[k], u[l])

TailPlaces(e, u, a) ==
    {i \in 1..(Len(u) + 1) : Len(e) - a = Len(u) - i /\ Alike(e, u, a, Len(e), i)}

GroupPlaces(e, u, g) ==
    (TailPlaces(e, u, g + 1) \cap {Len(u) + 1})
      \cup {i \in 1..Len(u) : u[i] = "/" /\ \E j \in TailPlaces(e, u, g + 1) : i < j}

FrontPlaces(e, u, g, a) ==
    {i \in 1..(Len(u) + 1) : /\ \E j \in GroupPlaces(e, u, g) : j - i = g - a
                             /\ Alike(e, u, a, g - 1, i)}

Places(e, u, g, a) == IF a > g THEN TailPlaces(e, u, a) ELSE FrontPlaces(e, u, g, a)

PlacesBefore(e, u, a, behind) ==
    IF a > Len(e) THEN {Len(u) + 1}
    ELSE IF e[a] = Routing!Group
      THEN (behind \cap {Len(u) + 1})
             \cup {i \in 1..Len(u) : u[i] = "/" /\ \E j \in behind : i < j}
      ELSE {i \in 1..Len(u) : e[a] \in {".", Routing!Escaped(u[i], Routing!Special)}
                              /\ i + 1 \in behind}

Grouped(e, g) == /\ Len(e) \in Nat /\ g \in 0..Len(e)
                 /\ \A k \in 1..Len(e) : e[k] = Routing!Group <=> k = g

(* One more atom in front.                                                 *)
LEMMA AlikeFront ==
    ASSUME NEW e, NEW u, Len(u) \in Nat, NEW b \in Nat, NEW a \in Nat, NEW i \in 1..Len(u),
           a <= b
    PROVE  Alike(e, u, a, b, i) <=> Fits(e[a], u[i]) /\ Alike(e, u, a + 1, b, i + 1)
<1>1. PICK m \in Nat : m = Len(u)
  OBVIOUS
<1>2. ASSUME Alike(e, u, a, b, i) PROVE Fits(e[a], u[i]) /\ Alike(e, u, a + 1, b, i + 1)
  <2>1. Fits(e[a], u[i])
    <3>1. a \in a..b /\ i \in 1..m /\ i - i = a - a
      BY <1>1
    <3>2. QED
      BY <1>1, <1>2, <3>1 DEF Alike
  <2>2. ASSUME NEW k \in (a + 1)..b, NEW l \in 1..m, l - (i + 1) = k - (a + 1)
        PROVE  Fits(e[k], u[l])
    <3>1. k \in a..b /\ l - i = k - a
      BY <1>1, <2>2
    <3>2. QED
      BY <1>1, <1>2, <3>1 DEF Alike
  <2>3. QED
    BY <1>1, <2>1, <2>2 DEF Alike
<1>3. ASSUME Fits(e[a], u[i]), Alike(e, u, a + 1, b, i + 1) PROVE Alike(e, u, a, b, i)
  <2>1. ASSUME NEW k \in a..b, NEW l \in 1..m, l - i = k - a
        PROVE  Fits(e[k], u[l])
    <3>1. CASE k = a
      BY <1>1, <1>3, <2>1, <3>1
    <3>2. CASE k # a
      <4>1. k \in (a + 1)..b /\ l - (i + 1) = k - (a + 1)
        BY <1>1, <2>1, <3>2
      <4>2. QED
        BY <1>1, <1>3, <4>1 DEF Alike
    <3>3. QED
      BY <3>1, <3>2
  <2>2. QED
    BY <1>1, <2>1 DEF Alike
<1>4. QED
  BY <1>2, <1>3

LEMMA TailStep ==
    ASSUME NEW e, NEW u, Len(u) \in Nat, Len(e) \in Nat, NEW a \in 1..Len(e)
    PROVE  TailPlaces(e, u, a)
             = {i \in 1..Len(u) : Fits(e[a], u[i]) /\ i + 1 \in TailPlaces(e, u, a + 1)}
<1>1. PICK m \in Nat, n \in Nat : m = Len(u) /\ n = Len(e)
  OBVIOUS
<1>2. ASSUME NEW i \in 1..(m + 1)
      PROVE  i \in TailPlaces(e, u, a)
               <=> i \in 1..m /\ Fits(e[a], u[i]) /\ i + 1 \in TailPlaces(e, u, a + 1)
  <2>1. CASE i = m + 1
    <3>1. n - a # m - i /\ i \notin 1..m
      BY <1>1, <2>1
    <3>2. QED
      BY <1>1, <3>1 DEF TailPlaces
  <2>2. CASE i \in 1..m
    <3>1. Alike(e, u, a, n, i) <=> Fits(e[a], u[i]) /\ Alike(e, u, a + 1, n, i + 1)
      <4>1. a \in Nat /\ a <= n
        BY <1>1
      <4>2. QED
        BY <1>1, <2>2, <4>1, AlikeFront
    <3>2. n - a = m - i <=> n - (a + 1) = m - (i + 1)
      BY <1>1
    <3>3. i + 1 \in 1..(m + 1)
      BY <2>2
    <3>4. QED
      BY <1>1, <2>2, <3>1, <3>2, <3>3 DEF TailPlaces
  <2>3. QED
    BY <1>1, <2>1, <2>2
<1>3. TailPlaces(e, u, a) \subseteq 1..(m + 1)
  BY <1>1 DEF TailPlaces
<1>4. \A i \in 1..m : i \in 1..(m + 1)
  BY <1>1
<1>5. QED
  BY <1>1, <1>2, <1>3, <1>4

LEMMA FrontStep ==
    ASSUME NEW e, NEW u, Len(u) \in Nat, Len(e) \in Nat, NEW g \in 1..Len(e),
           NEW a \in 1..(g - 1)
    PROVE  FrontPlaces(e, u, g, a)
             = {i \in 1..Len(u) : Fits(e[a], u[i]) /\ i + 1 \in FrontPlaces(e, u, g, a + 1)}
<1>1. PICK m \in Nat : m = Len(u)
  OBVIOUS
<1>2. GroupPlaces(e, u, g) \subseteq 1..(m + 1)
  BY <1>1 DEF GroupPlaces
<1>3. ASSUME NEW i \in 1..(m + 1)
      PROVE  i \in FrontPlaces(e, u, g, a)
               <=> i \in 1..m /\ Fits(e[a], u[i]) /\ i + 1 \in FrontPlaces(e, u, g, a + 1)
  <2>1. CASE i = m + 1
    <3>1. \A j \in 1..(m + 1) : j - i # g - a
      BY <1>1, <2>1
    <3>2. i \notin 1..m
      BY <1>1, <2>1
    <3>3. QED
      BY <1>1, <1>2, <3>1, <3>2 DEF FrontPlaces
  <2>2. CASE i \in 1..m
    <3>1. Alike(e, u, a, g - 1, i) <=> Fits(e[a], u[i]) /\ Alike(e, u, a + 1, g - 1, i + 1)
      <4>1. g - 1 \in Nat /\ a <= g - 1 /\ a \in Nat
        OBVIOUS
      <4>2. QED
        BY <1>1, <2>2, <4>1, AlikeFront
    <3>2. \A j \in 1..(m + 1) : j - i = g - a <=> j - (i + 1) = g - (a + 1)
      BY <1>1
    <3>3. i + 1 \in 1..(m + 1)
      BY <2>2
    <3>4. QED
      BY <1>1, <1>2, <2>2, <3>1, <3>2, <3>3 DEF FrontPlaces
  <2>3. QED
    BY <1>1, <2>1, <2>2
<1>4. FrontPlaces(e, u, g, a) \subseteq 1..(m + 1)
  BY <1>1 DEF FrontPlaces
<1>5. \A i \in 1..m : i \in 1..(m + 1)
  BY <1>1
<1>6. QED
  BY <1>1, <1>3, <1>4, <1>5

LEMMA EndPlaces ==
    ASSUME NEW e, NEW u, Len(u) \in Nat, Len(e) \in Nat
    PROVE  TailPlaces(e, u, Len(e) + 1) = {Len(u) + 1}
<1>1. PICK m \in Nat, n \in Nat : m = Len(u) /\ n = Len(e)
  OBVIOUS
<1>2. \A i : Alike(e, u, n + 1, n, i)
  BY <1>1 DEF Alike
<1>3. \A i \in 1..(m + 1) : n - (n + 1) = m - i <=> i = m + 1
  BY <1>1
<1>4. QED
  BY <1>1, <1>2, <1>3 DEF TailPlaces

LEMMA AtGroup ==
    ASSUME NEW e, NEW u, Len(u) \in Nat, Len(e) \in Nat, NEW g \in 1..Len(e)
    PROVE  FrontPlaces(e, u, g, g) = GroupPlaces(e, u, g)
<1>1. PICK m \in Nat : m = Len(u)
  OBVIOUS
<1>2. GroupPlaces(e, u, g) \subseteq 1..(m + 1)
  BY <1>1 DEF GroupPlaces
<1>3. \A i : Alike(e, u, g, g - 1, i)
  BY DEF Alike
<1>4. \A i \in 1..(m + 1), j \in 1..(m + 1) : j - i = g - g <=> i = j
  BY <1>1
<1>5. QED
  BY <1>1, <1>2, <1>3, <1>4 DEF FrontPlaces

(* This is what std::regex_match comes to.                                 *)
LEMMA PlacesStep ==
    ASSUME NEW e, NEW u, Len(u) \in Nat, NEW g, Grouped(e, g), NEW a \in 1..(Len(e) + 1)
    PROVE  Places(e, u, g, a) = PlacesBefore(e, u, a, Places(e, u, g, a + 1))
<1>1. PICK m \in Nat, n \in Nat : m = Len(u) /\ n = Len(e)
  BY DEF Grouped
<1>2. g \in 0..n /\ \A k \in 1..n : e[k] = Routing!Group <=> k = g
  BY <1>1 DEF Grouped
<1>3. CASE a = n + 1
  <2>1. a > g /\ a > n
    BY <1>1, <1>2, <1>3
  <2>2. QED
    BY <1>1, <1>3, <2>1, EndPlaces DEF Places, PlacesBefore
<1>4. CASE a \in (g + 1)..n
  <2>1. a > g /\ a + 1 > g /\ ~(a > n) /\ a \in 1..n /\ e[a] # Routing!Group
    BY <1>1, <1>2, <1>4
  <2>2. TailPlaces(e, u, a) = {i \in 1..m : Fits(e[a], u[i]) /\ i + 1 \in TailPlaces(e, u, a + 1)}
    BY <1>1, <2>1, TailStep
  <2>3. QED
    BY <1>1, <2>1, <2>2 DEF Places, PlacesBefore, Fits, Atom
<1>5. CASE a = g
  <2>1. ~(a > g) /\ a + 1 > g /\ ~(a > n) /\ a \in 1..n /\ e[a] = Routing!Group
    BY <1>1, <1>2, <1>5
  <2>2. FrontPlaces(e, u, g, a) = GroupPlaces(e, u, g)
    BY <1>1, <1>5, <2>1, AtGroup
  <2>3. QED
    BY <1>1, <1>5, <2>1, <2>2 DEF Places, PlacesBefore, GroupPlaces
<1>6. CASE a < g
  <2>1. /\ ~(a > g) /\ ~(a + 1 > g) /\ ~(a > n) /\ a \in 1..n /\ e[a] # Routing!Group
        /\ g \in 1..n /\ a \in 1..(g - 1)
    BY <1>1, <1>2, <1>6
  <2>2. FrontPlaces(e, u, g, a)
          = {i \in 1..m : Fits(e[a], u[i]) /\ i + 1 \in FrontPlaces(e, u, g, a + 1)}
    BY <1>1, <2>1, FrontStep
  <2>3. QED
    BY <1>1, <2>1, <2>2 DEF Places, PlacesBefore, Fits, Atom
<1>7. QED
  BY <1>1, <1>2, <1>3, <1>4, <1>5, <1>6

IsFrom(e, u, f) == f = [a \in 1..(Len(e) + 1) |-> PlacesBefore(e, u, a, f[a + 1])]

LEMMA MatchesWhere ==
    ASSUME NEW e, NEW u, Len(u) \in Nat, NEW g, Grouped(e, g)
    PROVE  Routing!Matches(e, u) <=> 1 \in Places(e, u, g, 1)
<1>1. PICK n \in Nat : n = Len(e)
  BY DEF Grouped
<1>2. PICK f : f = [a \in 1..(n + 1) |-> Places(e, u, g, a)]
  OBVIOUS
<1>4. \A behind : PlacesBefore(e, u, n + 1, behind) = {Len(u) + 1}
  BY <1>1 DEF PlacesBefore
<1>5. \A a \in 1..(n + 1) : f[a] = PlacesBefore(e, u, a, f[a + 1])
  <2>1. ASSUME NEW a \in 1..n PROVE f[a] = PlacesBefore(e, u, a, f[a + 1])
    <3>1. a \in 1..(n + 1) /\ a + 1 \in 1..(n + 1)
      OBVIOUS
    <3>2. f[a] = Places(e, u, g, a) /\ f[a + 1] = Places(e, u, g, a + 1)
      BY <1>2, <3>1
    <3>3. QED
      BY <1>1, <3>1, <3>2, PlacesStep
  <2>2. f[n + 1] = PlacesBefore(e, u, n + 1, f[(n + 1) + 1])
    <3>1. n + 1 \in 1..(n + 1)
      OBVIOUS
    <3>2. Places(e, u, g, n + 1) = PlacesBefore(e, u, n + 1, Places(e, u, g, (n + 1) + 1))
      BY <1>1, <3>1, PlacesStep
    <3>3. QED
      BY <1>2, <1>4, <3>1, <3>2
  <2>3. QED
    BY <2>1, <2>2
<1>6. IsFrom(e, u, f)
  BY <1>1, <1>2, <1>5 DEF IsFrom
<1>7. PICK h : h = CHOOSE from : IsFrom(e, u, from)
  OBVIOUS
<1>8. \A a \in 1..(n + 1) : h[a] = PlacesBefore(e, u, a, h[a + 1])
  <2>1. IsFrom(e, u, h)
    BY <1>6, <1>7
  <2>2. QED
    BY <1>1, <2>1 DEF IsFrom
<1>9. Routing!Matches(e, u) <=> 1 \in h[1]
  BY <1>1, <1>7, Zenon DEF Routing!Matches, IsFrom, PlacesBefore
<1> DEFINE T == {d \in Nat : \A a \in 1..(n + 1) : a + d = n + 1 => h[a] = f[a]}
<1>10. 0 \in T
  <2>1. n + 1 \in 1..(n + 1) /\ \A a \in 1..(n + 1) : a + 0 = n + 1 => a = n + 1
    OBVIOUS
  <2>2. h[n + 1] = f[n + 1]
    BY <1>4, <1>5, <1>8, <2>1
  <2>3. QED
    BY <2>1, <2>2
<1>11. ASSUME NEW d \in T PROVE d + 1 \in T
  <2>1. ASSUME NEW a \in 1..(n + 1), a + (d + 1) = n + 1 PROVE h[a] = f[a]
    <3>1. d \in Nat /\ a + 1 \in 1..(n + 1) /\ (a + 1) + d = n + 1
      BY <2>1
    <3>2. h[a + 1] = f[a + 1]
      BY <3>1
    <3>3. QED
      BY <1>5, <1>8, <3>2
  <2>2. QED
    BY <2>1
<1> HIDE DEF T
<1>12. T = Nat
  <2>1. T \in SUBSET Nat
    BY DEF T
  <2>2. QED
    BY <1>10, <1>11, <2>1, ParserProofs!Induction
<1>13. h[1] = f[1]
  <2>1. n \in T /\ 1 \in 1..(n + 1) /\ 1 + n = n + 1
    BY <1>12
  <2>2. QED
    BY <2>1 DEF T
<1>14. f[1] = Places(e, u, g, 1)
  BY <1>2
<1>15. QED
  BY <1>9, <1>13, <1>14
-----------------------------------------------------------------------------
(* No two URIs have one expression, and none repeats a character.          *)
LEMMA ExpressionFacts ==
    ASSUME NEW p, IsUri(p), NEW g, NEW e, Shape(p, g, e)
    PROVE  /\ Grouped(e, g)
           /\ Routing!Groups(e) = {k \in 1..Len(e) : k = g}
           /\ \A k \in DOMAIN e : e[k] \notin Routing!Special
<1>0. PICK n \in Nat : n = Len(e) /\ DOMAIN e = 1..n
  BY DEF Shape
<1>9. PICK l \in Nat : l = Len(p) /\ DOMAIN p = 1..l
  BY UriLength
<1>1. n = Len(e) /\ DOMAIN e = 1..n /\ l = Len(p) /\ DOMAIN p = 1..l
  BY <1>0, <1>9
<1>2. ASSUME NEW k \in 1..n
      PROVE  (e[k] = Routing!Group <=> k = g) /\ e[k] \notin Routing!Special
  <2>1. CASE g = 0
    <3>1. k \in 1..l /\ e[k] = Atom(p[k]) /\ k # g
      BY <1>1, <2>1 DEF Shape
    <3>2. IsCharacter(p[k])
      BY <1>1, <3>1 DEF IsUri
    <3>3. QED
      BY <3>1, <3>2, AtomIsSafe
  <2>2. CASE g # 0
    <3>1. g \in 1..n /\ n + 1 = l
      BY <1>1, <2>2 DEF Shape
    <3>2. CASE k = g
      <4>1. e[k] = Routing!Group
        BY <2>2, <3>2 DEF Shape
      <4>2. Routing!Group \notin Routing!Special
        BY DEF Routing!Group, Routing!Special, Routing!Brackets
      <4>3. QED
        BY <3>2, <4>1, <4>2
    <3>3. CASE k < g
      <4>1. k \in 1..(g - 1) /\ k \in 1..l /\ k # g
        BY <3>1, <3>3
      <4>2. e[k] = Atom(p[k]) /\ IsCharacter(p[k])
        BY <1>1, <2>2, <4>1 DEF Shape, IsUri
      <4>3. QED
        BY <4>1, <4>2, AtomIsSafe
    <3>4. CASE k > g
      <4>1. k \in (g + 1)..n /\ k + 1 \in 1..l /\ k # g
        BY <3>1, <3>4
      <4>2. e[k] = Atom(p[k + 1]) /\ IsCharacter(p[k + 1])
        BY <1>1, <2>2, <4>1 DEF Shape, IsUri
      <4>3. QED
        BY <4>1, <4>2, AtomIsSafe
    <3>5. QED
      BY <3>1, <3>2, <3>3, <3>4
  <2>3. QED
    BY <2>1, <2>2
<1>3. Grouped(e, g)
  BY <1>1, <1>2 DEF Grouped, Shape
<1>4. Routing!Groups(e) = {k \in 1..Len(e) : k = g}
  BY <1>1, <1>2 DEF Routing!Groups
<1>5. QED
  BY <1>1, <1>2, <1>3, <1>4

LEMMA SameText ==
    ASSUME NEW p, NEW q, IsUri(p), IsUri(q), Len(p) = Len(q),
           \A k \in 1..Len(p) : p[k] = q[k]
    PROVE  p = q
<1>1. PICK n \in Nat : n = Len(p) /\ n = Len(q)
  BY DEF IsUri
<1>2. p = [k \in 1..n |-> p[k]] /\ q = [k \in 1..n |-> q[k]]
  BY <1>1 DEF IsUri
<1>3. QED
  BY <1>1, <1>2

LEMMA ExpressionsDiffer ==
    ASSUME NEW p, NEW q, IsUri(p), IsUri(q), NEW g, NEW h, NEW e, Shape(p, g, e), Shape(q, h, e)
    PROVE  p = q
<1>0. PICK n \in Nat : n = Len(e)
  BY DEF Shape
<1>8. PICK l \in Nat : l = Len(p) /\ DOMAIN p = 1..l
  BY UriLength
<1>9. PICK m \in Nat : m = Len(q) /\ DOMAIN q = 1..m
  BY UriLength
<1>1. n = Len(e) /\ l = Len(p) /\ DOMAIN p = 1..l /\ m = Len(q) /\ DOMAIN q = 1..m
  BY <1>0, <1>8, <1>9
<1>2. Grouped(e, g) /\ Grouped(e, h)
  BY ExpressionFacts
<1>3. g \in 0..n /\ h \in 0..n /\ g = h
  <2>1. /\ g \in 0..n /\ h \in 0..n
        /\ \A k \in 1..n : k = g <=> k = h
    BY <1>1, <1>2 DEF Grouped
  <2>2. g \in 1..n => g = h
    BY <2>1
  <2>3. h \in 1..n => g = h
    BY <2>1
  <2>4. g \notin 1..n /\ h \notin 1..n => g = h
    BY <2>1
  <2>5. QED
    BY <2>1, <2>2, <2>3, <2>4
<1>4. l = m
  <2>1. CASE g = 0
    <3>1. n = l /\ n = m
      BY <1>1, <1>3, <2>1 DEF Shape
    <3>2. QED
      BY <3>1
  <2>2. CASE g # 0
    <3>1. n + 1 = l /\ n + 1 = m
      BY <1>1, <1>3, <2>2 DEF Shape
    <3>2. QED
      BY <3>1
  <2>3. QED
    BY <2>1, <2>2
<1>5. ASSUME NEW k \in 1..l PROVE p[k] = q[k]
  <2>0. IsCharacter(p[k]) /\ IsCharacter(q[k])
    BY <1>1, <1>4 DEF IsUri
  <2>1. CASE g = 0
    <3>1. n = l /\ e[k] = Atom(p[k]) /\ e[k] = Atom(q[k])
      BY <1>1, <1>3, <1>4, <2>1 DEF Shape
    <3>2. QED
      BY <2>0, <3>1, AtomsDiffer
  <2>2. CASE g # 0
    <3>1. g \in 1..n /\ n + 1 = l
      BY <1>1, <1>3, <2>2 DEF Shape
    <3>2. CASE k < g
      <4>1. k \in 1..(g - 1)
        BY <3>1, <3>2
      <4>2. e[k] = Atom(p[k]) /\ e[k] = Atom(q[k])
        BY <1>3, <2>2, <4>1 DEF Shape
      <4>3. QED
        BY <2>0, <4>2, AtomsDiffer
    <3>3. CASE k = g \/ k = g + 1
      <4>1. IsWildcard(p, g + 1) /\ IsWildcard(q, g + 1)
        BY <1>3, <2>2 DEF Shape
      <4>2. p[g + 1] = "*" /\ q[g + 1] = "*" /\ p[g] = "/" /\ q[g] = "/"
        <5>1. (g + 1) - 1 = g
          BY <3>1
        <5>2. QED
          BY <4>1, <5>1 DEF IsWildcard
      <4>3. QED
        BY <3>3, <4>2
    <3>4. CASE k > g + 1
      <4>1. PICK j \in (g + 1)..n : j + 1 = k
        BY <3>1, <3>4
      <4>2. e[j] = Atom(p[k]) /\ e[j] = Atom(q[k])
        BY <1>1, <1>3, <2>2, <4>1 DEF Shape
      <4>3. QED
        BY <2>0, <4>2, AtomsDiffer
    <3>5. QED
      BY <3>1, <3>2, <3>3, <3>4
  <2>3. QED
    BY <2>1, <2>2
<1>6. QED
  BY <1>1, <1>4, <1>5, SameText

IsMadeOf(u, m, x, lx, y, ly, z, lz) ==
    /\ m = lx + ly + lz
    /\ \A k \in 1..lx : u[k] = x[k]
    /\ \A k \in 1..ly : u[lx + k] = y[k]
    /\ \A k \in 1..lz : u[lx + ly + k] = z[k]

LEMMA ThreeParts ==
    ASSUME NEW A, NEW x \in Seq(A), NEW y \in Seq(A), NEW z \in Seq(A), NEW u \in Seq(A)
    PROVE  u = x \o y \o z <=> IsMadeOf(u, Len(u), x, Len(x), y, Len(y), z, Len(z))
<1>0. PICK lx \in Nat, ly \in Nat, lz \in Nat, m \in Nat :
         lx = Len(x) /\ ly = Len(y) /\ lz = Len(z) /\ m = Len(u)
  OBVIOUS
<1>1. PICK h \in Seq(A) : /\ h = x \o y /\ Len(h) = lx + ly
                          /\ \A k \in 1..lx : h[k] = x[k]
                          /\ \A k \in 1..ly : h[lx + k] = y[k]
  <2>1. /\ x \o y \in Seq(A) /\ Len(x \o y) = Len(x) + Len(y)
        /\ \A k \in 1..Len(x) : (x \o y)[k] = x[k]
        /\ \A k \in 1..Len(y) : (x \o y)[Len(x) + k] = y[k]
    BY Concatenated
  <2>2. QED
    BY <1>0, <2>1
<1>2. PICK w \in Seq(A) : /\ w = h \o z /\ Len(w) = (lx + ly) + lz
                          /\ \A k \in 1..(lx + ly) : w[k] = h[k]
                          /\ \A k \in 1..lz : w[(lx + ly) + k] = z[k]
  <2>1. /\ h \o z \in Seq(A) /\ Len(h \o z) = Len(h) + Len(z)
        /\ \A k \in 1..Len(h) : (h \o z)[k] = h[k]
        /\ \A k \in 1..Len(z) : (h \o z)[Len(h) + k] = z[k]
    BY Concatenated
  <2>2. PICK lh \in Nat : lh = lx + ly /\ lh = Len(h)
    BY <1>0, <1>1
  <2>3. PICK v \in Seq(A) : /\ v = h \o z /\ Len(v) = lh + lz
                            /\ \A k \in 1..lh : v[k] = h[k]
                            /\ \A k \in 1..lz : v[lh + k] = z[k]
    BY <1>0, <2>1, <2>2
  <2>4. /\ v = h \o z /\ Len(v) = (lx + ly) + lz
        /\ \A k \in 1..(lx + ly) : v[k] = h[k]
        /\ \A k \in 1..lz : v[(lx + ly) + k] = z[k]
    BY <1>0, <2>2, <2>3
  <2>5. QED
    BY <2>4
<1>3. /\ \A k \in 1..lx : w[k] = x[k]
      /\ \A k \in 1..ly : w[lx + k] = y[k]
      /\ \A k \in 1..lz : w[lx + ly + k] = z[k]
  <2>1. \A k \in 1..lx : k \in 1..(lx + ly)
    BY <1>0
  <2>2. \A k \in 1..ly : lx + k \in 1..(lx + ly)
    BY <1>0
  <2>3. QED
    BY <1>0, <1>1, <1>2, <2>1, <2>2
<1>4. ASSUME m = lx + ly + lz,
             \A k \in 1..lx : u[k] = x[k],
             \A k \in 1..ly : u[lx + k] = y[k],
             \A k \in 1..lz : u[lx + ly + k] = z[k]
      PROVE  u = w
  <2>1. ASSUME NEW k \in 1..m PROVE u[k] = w[k]
    <3>1. CASE k \in 1..lx
      BY <1>0, <1>3, <1>4, <3>1
    <3>2. CASE k \in (lx + 1)..(lx + ly)
      <4>1. PICK j \in 1..ly : k = lx + j
        <5>1. k - lx \in 1..ly /\ k = lx + (k - lx)
          BY <1>0, <3>2
        <5>2. QED
          BY <1>0, <5>1
      <4>2. QED
        BY <1>0, <1>3, <1>4, <4>1
    <3>3. CASE k \in (lx + ly + 1)..(lx + ly + lz)
      <4>1. PICK j \in 1..lz : k = lx + ly + j
        <5>1. k - (lx + ly) \in 1..lz /\ k = lx + ly + (k - (lx + ly))
          BY <1>0, <3>3
        <5>2. QED
          BY <1>0, <5>1
      <4>2. QED
        BY <1>0, <1>3, <1>4, <4>1
    <3>4. QED
      BY <1>0, <1>4, <3>1, <3>2, <3>3
  <2>2. Len(w) = m
    BY <1>0, <1>2, <1>4
  <2>3. u = [k \in 1..m |-> u[k]] /\ w = [k \in 1..m |-> w[k]]
    BY <1>0, <2>2
  <2>4. QED
    BY <1>0, <2>1, <2>3
<1>5. QED
  BY <1>0, <1>1, <1>2, <1>3, <1>4 DEF IsMadeOf
-----------------------------------------------------------------------------
(* What a URI with a wildcard covers: what is in front of the wildcard     *)
(* comes first, and then either nothing more, or a slash, and at the end   *)
(* from some later j on what is behind the wildcard.                       *)
Ends(p, u, g, n, j) ==
    /\ n - (g + 1) = Len(u) - j
    /\ \A k \in (g + 1)..n : \A l \in 1..Len(u) : l - j = k - (g + 1) => u[l] = p[k + 1]

CoveredAt(p, u, g, n) ==
    /\ \A k \in 1..(g - 1) : k \in 1..Len(u) /\ u[k] = p[k]
    /\ \/ g = Len(u) + 1 /\ n = g
       \/ /\ g <= Len(u) /\ u[g] = "/"
          /\ \E j \in (g + 1)..(Len(u) + 1) : Ends(p, u, g, n, j)

LEMMA OneAlphabet ==
    ASSUME NEW p, NEW u, IsUri(p), IsUri(u)
    PROVE  \E A : p \in Seq(A) /\ u \in Seq(A)
<1>1. PICK A : A = {p[i] : i \in DOMAIN p} \cup {u[i] : i \in DOMAIN u}
  OBVIOUS
<1>2. p \in Seq(A) /\ u \in Seq(A)
  BY <1>1 DEF IsUri
<1>3. QED
  BY <1>2

LEMMA PartCutOut ==
    ASSUME NEW A, NEW s \in Seq(A), NEW from \in Nat \ {0}, NEW l \in Nat, NEW upto \in Int,
           upto = from + l - 1, upto <= Len(s)
    PROVE  /\ SubSeq(s, from, upto) \in Seq(A) /\ Len(SubSeq(s, from, upto)) = l
           /\ \A i \in 1..l : SubSeq(s, from, upto)[i] = s[from + i - 1]
<1>1. \A i \in from..upto : s[i] \in A
  BY ElementOfSeq
<1>2. /\ SubSeq(s, from, upto) \in Seq(A)
      /\ Len(SubSeq(s, from, upto)) = IF from <= upto THEN upto - from + 1 ELSE 0
      /\ \A i \in 1..(upto - from + 1) : SubSeq(s, from, upto)[i] = s[from + i - 1]
  BY <1>1, SubSeqProperties
<1>3. upto - from + 1 = l
  OBVIOUS
<1>4. QED
  BY <1>2, <1>3

LEMMA AroundWildcard ==
    ASSUME NEW A, NEW p \in Seq(A), NEW n \in Nat, n + 1 = Len(p), NEW g \in 1..n
    PROVE  /\ Routing!Before(p, g) \in Seq(A) /\ Len(Routing!Before(p, g)) = g - 1
           /\ \A k \in 1..(g - 1) : Routing!Before(p, g)[k] = p[k]
           /\ Routing!After(p, g) \in Seq(A) /\ Len(Routing!After(p, g)) = n - g
           /\ \A k \in 1..(n - g) : Routing!After(p, g)[k] = p[g + 1 + k]
<1>1. PICK l \in Nat : l = Len(p) /\ l = n + 1
  OBVIOUS
<1>2. /\ SubSeq(p, 1, g - 1) \in Seq(A) /\ Len(SubSeq(p, 1, g - 1)) = g - 1
      /\ \A k \in 1..(g - 1) : SubSeq(p, 1, g - 1)[k] = p[1 + k - 1]
  <2>1. /\ 1 \in Nat \ {0} /\ g - 1 \in Nat /\ g - 1 \in Int
        /\ g - 1 = 1 + (g - 1) - 1 /\ g - 1 <= Len(p)
    BY <1>1
  <2>2. QED
    BY <2>1, PartCutOut
<1>3. \A k \in 1..(g - 1) : 1 + k - 1 = k
  OBVIOUS
<1>4. PICK from \in Nat \ {0}, r \in Nat : from = g + 2 /\ r = n - g /\ l = from + r - 1
  <2>1. g + 2 \in Nat \ {0} /\ n - g \in Nat /\ l = (g + 2) + (n - g) - 1
    BY <1>1
  <2>2. QED
    BY <2>1
<1>5. /\ SubSeq(p, from, l) \in Seq(A) /\ Len(SubSeq(p, from, l)) = r
      /\ \A k \in 1..r : SubSeq(p, from, l)[k] = p[from + k - 1]
  <2>1. l \in Int /\ l <= Len(p)
    BY <1>1
  <2>2. QED
    BY <1>4, <2>1, PartCutOut
<1>6. \A k \in 1..r : from + k - 1 = g + 1 + k
  BY <1>4
<1>7. QED
  BY <1>1, <1>2, <1>3, <1>4, <1>5, <1>6 DEF Routing!Before, Routing!After

HasAround(u, m, x, g, k, z, r) ==
    /\ m = k + r
    /\ \A i \in 1..(g - 1) : u[i] = x[i]
    /\ \A i \in 1..r : u[k + i] = z[i]

(* A middle that is cut out of the URI is there at its place.              *)
LEMMA MiddleFits ==
    ASSUME NEW A, NEW x \in Seq(A), NEW z \in Seq(A), NEW u \in Seq(A),
           NEW k \in (Len(x) + 1)..Len(u)
    PROVE  u = x \o SubSeq(u, Len(x) + 1, k) \o z
             <=> HasAround(u, Len(u), x, Len(x) + 1, k, z, Len(z))
<1>0. PICK g \in Nat \ {0}, r \in Nat, m \in Nat :
         g = Len(x) + 1 /\ Len(x) = g - 1 /\ r = Len(z) /\ m = Len(u) /\ k \in g..m
  <2>1. Len(x) + 1 \in Nat \ {0} /\ Len(x) = (Len(x) + 1) - 1 /\ Len(z) \in Nat /\ Len(u) \in Nat
    OBVIOUS
  <2>2. QED
    BY <2>1
<1>1. PICK lx \in Nat, ly \in Nat : lx = g - 1 /\ ly = k - lx /\ lx + ly = k
  <2>1. g - 1 \in Nat /\ k - (g - 1) \in Nat /\ (g - 1) + (k - (g - 1)) = k
    BY <1>0
  <2>2. QED
    BY <2>1
<1>2. PICK y \in Seq(A) : /\ y = SubSeq(u, g, k) /\ Len(y) = ly
                          /\ \A i \in 1..ly : y[i] = u[lx + i]
  <2>1. /\ SubSeq(u, g, k) \in Seq(A) /\ Len(SubSeq(u, g, k)) = ly
        /\ \A i \in 1..ly : SubSeq(u, g, k)[i] = u[lx + i]
    <3>1. /\ ly \in Nat /\ k \in Int /\ k = g + ly - 1 /\ k <= Len(u)
          /\ \A i \in 1..ly : g + i - 1 = lx + i
      BY <1>0, <1>1
    <3>2. /\ SubSeq(u, g, k) \in Seq(A) /\ Len(SubSeq(u, g, k)) = ly
          /\ \A i \in 1..ly : SubSeq(u, g, k)[i] = u[g + i - 1]
      BY <1>0, <3>1, PartCutOut
    <3>3. QED
      BY <3>1, <3>2
  <2>2. QED
    BY <2>1
<1>3. u = x \o y \o z <=> IsMadeOf(u, m, x, lx, y, ly, z, r)
  <2>1. lx = Len(x) /\ ly = Len(y) /\ r = Len(z) /\ m = Len(u)
    BY <1>0, <1>1, <1>2
  <2>2. u = x \o y \o z <=> IsMadeOf(u, Len(u), x, Len(x), y, Len(y), z, Len(z))
    <3>1. y \in Seq(A)
      BY <1>2
    <3>2. QED
      BY <3>1, ThreeParts, Zenon
  <2>3. QED
    BY <2>1, <2>2
<1>4. IsMadeOf(u, m, x, lx, y, ly, z, r) <=> HasAround(u, m, x, g, k, z, r)
  BY <1>0, <1>1, <1>2 DEF IsMadeOf, HasAround
<1>5. QED
  BY <1>0, <1>2, <1>3, <1>4

LEMMA CoversWhere ==
    ASSUME NEW p, NEW u, IsUri(p), IsUri(u), NEW n \in Nat, NEW g \in 1..n,
           n + 1 = Len(p), IsWildcard(p, g + 1), Routing!ContainsWildcard(p)
    PROVE  Routing!Covers(p, u) <=> CoveredAt(p, u, g, n)
<1>1. PICK A : p \in Seq(A) /\ u \in Seq(A)
  BY OneAlphabet
<1>2. PICK m \in Nat : m = Len(u)
  BY UriLength
<1>3. PICK x \in Seq(A), z \in Seq(A) :
         /\ x = Routing!Before(p, g) /\ Len(x) = g - 1 /\ \A k \in 1..(g - 1) : x[k] = p[k]
         /\ z = Routing!After(p, g) /\ Len(z) = n - g /\ \A k \in 1..(n - g) : z[k] = p[g + 1 + k]
  <2>1. /\ Routing!Before(p, g) \in Seq(A) /\ Len(Routing!Before(p, g)) = g - 1
        /\ \A k \in 1..(g - 1) : Routing!Before(p, g)[k] = p[k]
        /\ Routing!After(p, g) \in Seq(A) /\ Len(Routing!After(p, g)) = n - g
        /\ \A k \in 1..(n - g) : Routing!After(p, g)[k] = p[g + 1 + k]
    BY <1>1, AroundWildcard
  <2>2. QED
    BY <2>1
<1>4. \A k \in 1..(Len(p) - 1) : p[k + 1] = "*" <=> k = g
  <2>1. p[g + 1] = "*" /\ \A j \in 1..(n + 1) : p[j] = "*" => j = g + 1
    BY DEF IsWildcard
  <2>2. \A k \in 1..n : k + 1 \in 1..(n + 1) /\ (k + 1 = g + 1 <=> k = g)
    OBVIOUS
  <2>3. Len(p) - 1 = n
    OBVIOUS
  <2>4. QED
    BY <2>1, <2>2, <2>3
<1>5. g \in 1..(Len(p) - 1)
  OBVIOUS
<1>6. Routing!Covers(p, u)
        <=> \/ z = <<>> /\ u = x
            \/ \E k \in g..m : Head(SubSeq(u, g, k)) = "/" /\ u = x \o SubSeq(u, g, k) \o z
  <2>1. {k \in 1..(Len(p) - 1) : p[k + 1] = "*"} = {g}
    BY <1>4, <1>5
  <2>2. Routing!Covers(p, u)
          <=> \E i \in {g} :
                \/ Routing!After(p, i) = <<>> /\ u = Routing!Before(p, i)
                \/ \E middle \in {SubSeq(u, i, k) : k \in i..Len(u)} :
                     /\ Head(middle) = "/"
                     /\ u = Routing!Before(p, i) \o middle \o Routing!After(p, i)
    BY <2>1, Zenon DEF Routing!Covers
  <2>3. QED
    BY <1>2, <1>3, <2>2, Zenon
<1>7. z = <<>> /\ u = x
        <=> n = g /\ g = m + 1 /\ \A k \in 1..(g - 1) : u[k] = p[k]
  <2>1. z = <<>> <=> n = g
    BY <1>3
  <2>2. u = x <=> m = g - 1 /\ \A k \in 1..(g - 1) : u[k] = x[k]
    <3>1. ASSUME m = g - 1, \A k \in 1..m : u[k] = x[k] PROVE u = x
      <4>1. u = [k \in 1..m |-> u[k]] /\ x = [k \in 1..m |-> x[k]]
        <5>1. Len(u) = m /\ Len(x) = m
          BY <1>2, <1>3, <3>1
        <5>2. QED
          BY <1>1, <5>1
      <4>2. QED
        BY <3>1, <4>1
    <3>2. QED
      BY <1>2, <1>3, <3>1
  <2>3. m = g - 1 <=> g = m + 1
    OBVIOUS
  <2>4. QED
    BY <1>3, <2>1, <2>2, <2>3
<1>8. PICK r \in Nat : r = n - g
  OBVIOUS
<1>9. ASSUME NEW k \in g..m
      PROVE  Head(SubSeq(u, g, k)) = "/" /\ u = x \o SubSeq(u, g, k) \o z
               <=> /\ \A i \in 1..(g - 1) : u[i] = p[i]
                   /\ u[g] = "/"
                   /\ Ends(p, u, g, n, k + 1)
  <2>1. Head(SubSeq(u, g, k)) = u[g]
    BY <1>1, <1>2
  <2>2. u = x \o SubSeq(u, g, k) \o z
          <=> /\ m = k + r
              /\ \A i \in 1..(g - 1) : u[i] = x[i]
              /\ \A i \in 1..r : u[k + i] = z[i]
    <3>1. g \in Nat \ {0} /\ Len(z) = r /\ Len(x) = g - 1 /\ Len(u) = m
      BY <1>2, <1>3, <1>8
    <3>2. QED
      <4>1. g = Len(x) + 1 /\ k \in (Len(x) + 1)..Len(u)
        BY <1>2, <3>1
      <4>2. u = x \o SubSeq(u, Len(x) + 1, k) \o z
              <=> HasAround(u, Len(u), x, Len(x) + 1, k, z, Len(z))
        <5>1. x \in Seq(A) /\ z \in Seq(A) /\ u \in Seq(A) /\ k \in (Len(x) + 1)..Len(u)
          BY <1>1, <1>3, <4>1
        <5>2. QED
          BY <5>1, MiddleFits, Zenon
      <4>3. u = x \o SubSeq(u, g, k) \o z <=> HasAround(u, m, x, g, k, z, r)
        BY <3>1, <4>1, <4>2
      <4>4. QED
        BY <4>3 DEF HasAround
  <2>3. m = k + r <=> n - (g + 1) = m - (k + 1)
    BY <1>8
  <2>4. ASSUME m = k + r
        PROVE  (\A i \in 1..r : u[k + i] = z[i])
                 <=> \A i \in (g + 1)..n : \A l \in 1..m :
                        l - (k + 1) = i - (g + 1) => u[l] = p[i + 1]
    <3>1. ASSUME \A i \in 1..r : u[k + i] = z[i],
                 NEW i \in (g + 1)..n, NEW l \in 1..m, l - (k + 1) = i - (g + 1)
          PROVE  u[l] = p[i + 1]
      <4>1. i - g \in 1..r /\ k + (i - g) = l /\ (g + 1) + (i - g) = i + 1 /\ i - g \in 1..(n - g)
        BY <1>8, <3>1
      <4>2. QED
        BY <1>3, <3>1, <4>1
    <3>2. ASSUME \A i \in (g + 1)..n : \A l \in 1..m :
                    l - (k + 1) = i - (g + 1) => u[l] = p[i + 1],
                 NEW j \in 1..r
          PROVE  u[k + j] = z[j]
      <4>1. /\ g + j \in (g + 1)..n /\ k + j \in 1..m /\ j \in 1..(n - g)
            /\ (k + j) - (k + 1) = (g + j) - (g + 1) /\ (g + j) + 1 = g + 1 + j
        BY <1>8, <2>4
      <4>2. u[k + j] = p[(g + j) + 1]
        BY <3>2, <4>1
      <4>3. QED
        BY <1>3, <4>1, <4>2
    <3>3. QED
      BY <3>1, <3>2
  <2>5. QED
    BY <1>2, <1>3, <2>1, <2>2, <2>3, <2>4 DEF Ends
<1>10. ASSUME CoveredAt(p, u, g, n) PROVE Routing!Covers(p, u)
  <2>1. CASE g = m + 1 /\ n = g
    BY <1>2, <1>6, <1>7, <1>10, <2>1 DEF CoveredAt
  <2>2. CASE ~(g = m + 1 /\ n = g)
    <3>1. PICK j \in (g + 1)..(m + 1) : g <= m /\ u[g] = "/" /\ Ends(p, u, g, n, j)
      BY <1>2, <1>10, <2>2 DEF CoveredAt
    <3>2. PICK k \in g..m : k + 1 = j
      <4>1. j - 1 \in g..m /\ (j - 1) + 1 = j
        OBVIOUS
      <4>2. QED
        BY <4>1
    <3>3. QED
      BY <1>6, <1>9, <1>10, <3>1, <3>2 DEF CoveredAt
  <2>3. QED
    BY <2>1, <2>2
<1>11. ASSUME Routing!Covers(p, u) PROVE CoveredAt(p, u, g, n)
  <2>1. CASE z = <<>> /\ u = x
    <3>1. \A k \in 1..(g - 1) : k \in 1..m
      BY <1>7, <2>1
    <3>2. QED
      BY <1>2, <1>7, <2>1, <3>1 DEF CoveredAt
  <2>2. CASE ~(z = <<>> /\ u = x)
    <3>1. PICK k \in g..m : Head(SubSeq(u, g, k)) = "/" /\ u = x \o SubSeq(u, g, k) \o z
      BY <1>6, <1>11, <2>2
    <3>2. g <= m /\ k + 1 \in (g + 1)..(m + 1) /\ \A i \in 1..(g - 1) : i \in 1..m
      OBVIOUS
    <3>3. QED
      BY <1>2, <1>9, <3>1, <3>2 DEF CoveredAt
  <2>3. QED
    BY <2>1, <2>2
<1>12. QED
  BY <1>10, <1>11
-----------------------------------------------------------------------------
(* An expression matches what its URI covers, and nothing else if there is *)
(* no dot in it.                                                           *)
LEMMA FitsItself ==
    ASSUME NEW c, NEW d, IsCharacter(c), IsCharacter(d)
    PROVE  Fits(Atom(c), d) <=> c = d \/ c = "."
<1>1. Atom(".") = "."
  BY DEF Atom, Routing!Escaped, Routing!Special, Routing!Brackets
<1>2. Atom(c) = "." => c = "."
  BY AtomIsSafe
<1>3. Atom(c) = Atom(d) => c = d
  BY AtomsDiffer
<1>4. QED
  BY <1>1, <1>2, <1>3 DEF Fits

MatchedAt(e, u, g, n) ==
    /\ Alike(e, u, 1, g - 1, 1)
    /\ \/ g = Len(u) + 1 /\ n = g
       \/ /\ g <= Len(u) /\ u[g] = "/"
          /\ \E j \in (g + 1)..(Len(u) + 1) :
                n - (g + 1) = Len(u) - j /\ Alike(e, u, g + 1, n, j)

LEMMA MatchesByParts ==
    ASSUME NEW e, NEW u, IsUri(u), NEW n \in Nat, n = Len(e), NEW g \in 1..n, Grouped(e, g)
    PROVE  Routing!Matches(e, u) <=> MatchedAt(e, u, g, n)
<1>1. PICK m \in Nat : m = Len(u)
  BY UriLength
<1>2. Routing!Matches(e, u) <=> 1 \in FrontPlaces(e, u, g, 1)
  <2>1. ~(1 > g)
    OBVIOUS
  <2>2. Routing!Matches(e, u) <=> 1 \in Places(e, u, g, 1)
    BY <1>1, MatchesWhere
  <2>3. QED
    BY <2>1, <2>2 DEF Places
<1>3. GroupPlaces(e, u, g) \subseteq 1..(m + 1)
  BY <1>1 DEF GroupPlaces
<1>4. 1 \in FrontPlaces(e, u, g, 1) <=> g \in GroupPlaces(e, u, g) /\ Alike(e, u, 1, g - 1, 1)
  <2>1. \A j \in 1..(m + 1) : j - 1 = g - 1 <=> j = g
    OBVIOUS
  <2>2. 1 \in 1..(m + 1)
    OBVIOUS
  <2>3. QED
    BY <1>1, <1>3, <2>1, <2>2 DEF FrontPlaces
<1>5. m + 1 \in TailPlaces(e, u, g + 1) <=> n = g
  <2>1. m + 1 \in 1..(m + 1) /\ (n - (g + 1) = m - (m + 1) <=> n = g)
    OBVIOUS
  <2>2. n = g => Alike(e, u, g + 1, n, m + 1)
    BY DEF Alike
  <2>3. QED
    BY <1>1, <2>1, <2>2 DEF TailPlaces
<1>6. (\E j \in TailPlaces(e, u, g + 1) : g < j)
        <=> \E j \in (g + 1)..(m + 1) : n - (g + 1) = m - j /\ Alike(e, u, g + 1, n, j)
  <2>1. \A j : j \in (g + 1)..(m + 1) <=> j \in 1..(m + 1) /\ g < j
    OBVIOUS
  <2>2. QED
    BY <1>1, <2>1 DEF TailPlaces
<1>7. g \in GroupPlaces(e, u, g)
        <=> \/ g = m + 1 /\ n = g
            \/ /\ g <= m /\ u[g] = "/"
               /\ \E j \in (g + 1)..(m + 1) : n - (g + 1) = m - j /\ Alike(e, u, g + 1, n, j)
  <2>1. g \in 1..m <=> g <= m
    OBVIOUS
  <2>2. QED
    BY <1>1, <1>5, <1>6, <2>1 DEF GroupPlaces
<1>8. QED
  BY <1>1, <1>2, <1>4, <1>7 DEF MatchedAt

(* The URI p and the expression e fit in the same places of u.             *)
LEMMA SameFits ==
    ASSUME NEW p, NEW u, IsUri(p), IsUri(u), NEW k \in DOMAIN p, NEW l \in DOMAIN u,
           NEW a, a = Atom(p[k])
    PROVE  /\ u[l] = p[k] => Fits(a, u[l])
           /\ (\A i \in DOMAIN p : p[i] # ".") /\ Fits(a, u[l]) => u[l] = p[k]
<1>1. IsCharacter(p[k]) /\ IsCharacter(u[l])
  BY DEF IsUri
<1>2. Fits(Atom(p[k]), u[l]) <=> p[k] = u[l] \/ p[k] = "."
  BY <1>1, FitsItself
<1>3. QED
  BY <1>2

NoDots(p) == \A i \in DOMAIN p : p[i] # "."

LEMMA ExactMatches ==
    ASSUME NEW p, NEW u, IsUri(p), IsUri(u), NEW e, Shape(p, 0, e)
    PROVE  /\ p = u => Routing!Matches(e, u)
           /\ NoDots(p) /\ Routing!Matches(e, u) => p = u
<1>1. PICK n \in Nat : n = Len(p) /\ DOMAIN p = 1..n
  BY UriLength
<1>2. PICK m \in Nat : m = Len(u) /\ DOMAIN u = 1..m
  BY UriLength
<1>3. n = Len(e) /\ \A k \in 1..n : e[k] = Atom(p[k])
  BY <1>1 DEF Shape
<1>4. Routing!Matches(e, u) <=> 1 \in TailPlaces(e, u, 1)
  <2>1. 1 > 0 /\ Grouped(e, 0)
    BY ExpressionFacts
  <2>2. Routing!Matches(e, u) <=> 1 \in Places(e, u, 0, 1)
    BY <1>2, <2>1, MatchesWhere
  <2>3. QED
    BY <2>1, <2>2 DEF Places
<1>5. Routing!Matches(e, u) <=> n = m /\ \A k \in 1..n : k \in 1..m => Fits(e[k], u[k])
  <2>1. n - 1 = m - 1 <=> n = m
    OBVIOUS
  <2>2. 1 \in 1..(m + 1) /\ \A k \in 1..n, l \in 1..m : l - 1 = k - 1 <=> k = l
    OBVIOUS
  <2>3. QED
    BY <1>2, <1>3, <1>4, <2>1, <2>2 DEF TailPlaces, Alike
<1>6. ASSUME n = m, NEW k \in 1..n
      PROVE  /\ u[k] = p[k] => Fits(e[k], u[k])
             /\ NoDots(p) /\ Fits(e[k], u[k]) => u[k] = p[k]
  BY <1>1, <1>2, <1>3, <1>6, SameFits DEF NoDots
<1>7. ASSUME p = u PROVE Routing!Matches(e, u)
  BY <1>1, <1>2, <1>5, <1>6, <1>7
<1>8. ASSUME NoDots(p), Routing!Matches(e, u) PROVE p = u
  <2>1. n = m /\ \A k \in 1..n : p[k] = u[k]
    BY <1>5, <1>6, <1>8
  <2>2. QED
    BY <1>1, <1>2, <2>1, SameText
<1>9. QED
  BY <1>7, <1>8

LEMMA WildcardMatches ==
    ASSUME NEW p, NEW u, IsUri(p), IsUri(u), NEW n \in Nat, NEW g \in 1..n, n + 1 = Len(p),
           NEW e, n = Len(e), Shape(p, g, e)
    PROVE  /\ CoveredAt(p, u, g, n) => MatchedAt(e, u, g, n)
           /\ NoDots(p) /\ MatchedAt(e, u, g, n) => CoveredAt(p, u, g, n)
<1>1. DOMAIN p = 1..(n + 1)
  BY UriLength
<1>2. PICK m \in Nat : m = Len(u) /\ DOMAIN u = 1..m
  BY UriLength
<1>3. ASSUME NEW k \in 1..(g - 1), NEW l \in 1..m
      PROVE  /\ u[l] = p[k] => Fits(e[k], u[l])
             /\ NoDots(p) /\ Fits(e[k], u[l]) => u[l] = p[k]
  <2>1. k \in DOMAIN p /\ l \in DOMAIN u /\ e[k] = Atom(p[k])
    BY <1>1, <1>2, <1>3 DEF Shape
  <2>2. QED
    BY <2>1, SameFits DEF NoDots
<1>4. ASSUME NEW k \in (g + 1)..n, NEW l \in 1..m
      PROVE  /\ u[l] = p[k + 1] => Fits(e[k], u[l])
             /\ NoDots(p) /\ Fits(e[k], u[l]) => u[l] = p[k + 1]
  <2>1. k + 1 \in DOMAIN p /\ l \in DOMAIN u /\ e[k] = Atom(p[k + 1])
    BY <1>1, <1>2, <1>4 DEF Shape
  <2>2. QED
    BY <2>1, SameFits DEF NoDots
<1>5. ASSUME NEW j \in (g + 1)..(m + 1)
      PROVE  /\ Ends(p, u, g, n, j) => n - (g + 1) = m - j /\ Alike(e, u, g + 1, n, j)
             /\ NoDots(p) /\ n - (g + 1) = m - j /\ Alike(e, u, g + 1, n, j)
                  => Ends(p, u, g, n, j)
  BY <1>2, <1>4 DEF Ends, Alike
<1>6. \A k \in 1..(g - 1), l \in 1..m : l - 1 = k - 1 <=> l = k
  OBVIOUS
<1>7. ASSUME CoveredAt(p, u, g, n) PROVE MatchedAt(e, u, g, n)
  <2>1. Alike(e, u, 1, g - 1, 1)
    BY <1>2, <1>3, <1>6, <1>7 DEF CoveredAt, Alike
  <2>2. QED
    BY <1>2, <1>5, <1>7, <2>1 DEF CoveredAt, MatchedAt
<1>8. ASSUME NoDots(p), MatchedAt(e, u, g, n) PROVE CoveredAt(p, u, g, n)
  <2>1. \A k \in 1..(g - 1) : k \in 1..m
    BY <1>2, <1>8 DEF MatchedAt
  <2>2. \A k \in 1..(g - 1) : u[k] = p[k]
    BY <1>2, <1>3, <1>6, <1>8, <2>1 DEF MatchedAt, Alike
  <2>3. QED
    BY <1>2, <1>5, <1>8, <2>1, <2>2 DEF CoveredAt, MatchedAt
<1>9. QED
  BY <1>7, <1>8

LEMMA MatchesWhatIsCovered ==
    ASSUME NEW p, NEW u, IsUri(p), IsUri(u), NEW g, NEW e, Shape(p, g, e)
    PROVE  /\ Routing!Covers(p, u) => Routing!Matches(e, u)
           /\ NoDots(p) /\ Routing!Matches(e, u) => Routing!Covers(p, u)
<1>1. CASE g = 0
  <2>1. Routing!Covers(p, u) <=> p = u
    BY <1>1 DEF Shape, Routing!Covers
  <2>2. QED
    BY <1>1, <2>1, ExactMatches
<1>2. CASE g # 0
  <2>1. PICK n \in Nat : n = Len(e) /\ g \in 1..n /\ n + 1 = Len(p)
    <3>1. Len(e) \in Nat /\ g \in 0..Len(e) /\ Len(e) + 1 = Len(p)
      BY <1>2 DEF Shape
    <3>2. g \in 1..Len(e)
      BY <1>2, <3>1
    <3>3. QED
      BY <3>1, <3>2
  <2>2. IsWildcard(p, g + 1) /\ Routing!ContainsWildcard(p) /\ Grouped(e, g)
    BY <1>2, ExpressionFacts DEF Shape
  <2>3. Routing!Covers(p, u) <=> CoveredAt(p, u, g, n)
    BY <2>1, <2>2, CoversWhere
  <2>4. Routing!Matches(e, u) <=> MatchedAt(e, u, g, n)
    BY <2>1, <2>2, MatchesByParts
  <2>5. QED
    BY <2>1, <2>3, <2>4, WildcardMatches
<1>3. QED
  BY <1>1, <1>2

(* The parameter of a wildcard at the end.                                 *)
LEMMA ParameterAtEnd ==
    ASSUME NEW p, NEW u, IsUri(p), IsUri(u), NEW g, NEW e, Shape(p, g, e),
           Routing!EndsInWildcard(p)
    PROVE  Routing!UriParameters(e, u) = {SubSeq(u, Len(p) - 1, Len(u))}
<1>1. PICK l \in Nat : l = Len(p) /\ DOMAIN p = 1..l
  BY UriLength
<1>2. PICK m \in Nat : m = Len(u) /\ DOMAIN u = 1..m
  BY UriLength
<1>3. g # 0 /\ IsWildcard(p, g + 1) /\ p[l] = "*"
  BY <1>1 DEF Shape, Routing!EndsInWildcard
<1>4. g \in 1..Len(e) /\ Len(e) = g /\ g = l - 1
  <2>1. g \in 0..Len(e) /\ Len(e) \in Nat /\ Len(e) + 1 = l
    BY <1>1, <1>3 DEF Shape
  <2>2. l = g + 1
    BY <1>1, <1>3 DEF IsWildcard
  <2>3. QED
    BY <1>3, <2>1, <2>2
<1>5. Routing!Groups(e) = {g}
  <2>1. Routing!Groups(e) = {k \in 1..Len(e) : k = g}
    BY ExpressionFacts
  <2>2. QED
    BY <1>4, <2>1
<1>6. Routing!GroupEnd(e, u, g) + 1 = m + 1 /\ m + 1 > m
  <2>1. m - (g - g) = m
    BY <1>4
  <2>2. QED
    BY <1>2, <1>4, <2>1 DEF Routing!GroupEnd
<1>7. SubSeq(u, m + 1, m) = <<>>
  <2>1. PICK A : u \in Seq(A)
    BY DEF IsUri
  <2>2. QED
    BY <1>2, <2>1
<1>8. Routing!Parameter(e, u, g) = SubSeq(u, l - 1, m)
  BY <1>2, <1>4, <1>6, <1>7 DEF Routing!Parameter
<1>9. QED
  BY <1>1, <1>2, <1>5, <1>8 DEF Routing!UriParameters
-----------------------------------------------------------------------------
(* A UriMapper has the resolver that was added last for each expression.   *)
IsOf(call, m, e) == /\ call.method = m /\ Routing!InMapper(call)
                    /\ Routing!Expression(call.uri) = e

IsLatest(calls, n, m, e) ==
    /\ n \in 1..Len(calls) /\ IsOf(calls[n], m, e)
    /\ \A k \in (n + 1)..Len(calls) : ~IsOf(calls[k], m, e)

Mapped == \A m \in Methods : \A e \in DOMAIN resolvers[m] :
             \E n : IsLatest(added, n, m, e) /\ resolvers[m][e] = added[n].resolver

Keyed == \A m \in Methods : \A n \in 1..Len(added) : \A e :
            IsOf(added[n], m, e) => e \in DOMAIN resolvers[m]

NoDotsAdded == \A p \in AddedUris : NoDots(p)

RoutingHeld == /\ Routing!TypeOK /\ Mapped /\ Keyed /\ Routing!NothingMissed
               /\ NoDotsAdded => Routing!FoundIsRight

LEMMA RoutingAtFirst ==
    ASSUME Routing!RoutingAssumption, Routing!Init
    PROVE  RoutingHeld
<1>1. Routing!TypeOK
  BY DEF Routing!Init, Routing!TypeOK, Routing!NotAsked
<1>2. Mapped /\ Keyed
  BY DEF Routing!Init, Mapped, Keyed
<1>3. Routing!NothingMissed /\ Routing!FoundIsRight
  BY DEF Routing!Init, Routing!NothingMissed, Routing!FoundIsRight, Routing!Asked, Routing!NotAsked
<1>4. QED
  BY <1>1, <1>2, <1>3 DEF RoutingHeld

LEMMA ExpressionIsSafe ==
    ASSUME Routing!RoutingAssumption, NEW p \in AddedUris
    PROVE  \A k \in DOMAIN Routing!Expression(p) : Routing!Expression(p)[k] \notin Routing!Special
BY UrisAreText, ExpressionShape, ExpressionFacts

LEMMA MatchesItsUri ==
    ASSUME Routing!RoutingAssumption, NEW p \in AddedUris, NEW u \in RequestedUris
    PROVE  /\ Routing!Covers(p, u) => Routing!Matches(Routing!Expression(p), u)
           /\ NoDots(p) /\ Routing!Matches(Routing!Expression(p), u) => Routing!Covers(p, u)
           /\ Routing!EndsInWildcard(p) =>
                 Routing!UriParameters(Routing!Expression(p), u) = {SubSeq(u, Len(p) - 1, Len(u))}
<1>1. IsUri(p) /\ IsUri(u)
  BY UrisAreText
<1>2. PICK g : Shape(p, g, Routing!Expression(p))
  BY ExpressionShape
<1>3. QED
  BY <1>1, <1>2, MatchesWhatIsCovered, ParameterAtEnd

LEMMA LatestStays ==
    ASSUME NEW calls \in Seq(Routing!Calls), NEW call \in Routing!Calls, NEW m, NEW e, NEW n,
           IsLatest(calls, n, m, e), ~IsOf(call, m, e)
    PROVE  IsLatest(Append(calls, call), n, m, e)
<1>1. PICK l \in Nat : l = Len(calls)
  OBVIOUS
<1>2. /\ Len(Append(calls, call)) = l + 1 /\ Append(calls, call)[l + 1] = call
      /\ \A k \in 1..l : Append(calls, call)[k] = calls[k]
  BY <1>1
<1>3. n \in 1..l /\ IsOf(calls[n], m, e) /\ \A k \in (n + 1)..l : ~IsOf(calls[k], m, e)
  BY <1>1 DEF IsLatest
<1>4. ASSUME NEW k \in (n + 1)..(l + 1) PROVE ~IsOf(Append(calls, call)[k], m, e)
  <2>1. CASE k = l + 1
    BY <1>2, <2>1
  <2>2. CASE k # l + 1
    <3>1. k \in (n + 1)..l /\ k \in 1..l
      BY <1>3, <2>2
    <3>2. QED
      BY <1>2, <1>3, <3>1
  <2>3. QED
    BY <2>1, <2>2
<1>5. n \in 1..(l + 1) /\ Append(calls, call)[n] = calls[n]
  BY <1>2, <1>3
<1>6. QED
  BY <1>2, <1>3, <1>4, <1>5 DEF IsLatest

LEMMA LastIsLatest ==
    ASSUME NEW calls \in Seq(Routing!Calls), NEW call \in Routing!Calls, NEW m, NEW e,
           IsOf(call, m, e)
    PROVE  \E n : IsLatest(Append(calls, call), n, m, e) /\ Append(calls, call)[n] = call
<1>1. PICK l \in Nat : l = Len(calls)
  OBVIOUS
<1>2. Len(Append(calls, call)) = l + 1 /\ Append(calls, call)[l + 1] = call
  BY <1>1
<1>3. l + 1 \in 1..(l + 1) /\ \A k : k \notin ((l + 1) + 1)..(l + 1)
  OBVIOUS
<1>4. IsLatest(Append(calls, call), l + 1, m, e)
  BY <1>2, <1>3 DEF IsLatest
<1>5. QED
  BY <1>2, <1>4

(* What an Add leaves in the maps: the call's expression, if it has one,   *)
(* is new, and the rest is as it was.                                      *)
LEMMA AddedToMap ==
    ASSUME Routing!TypeOK, NEW call \in Routing!Calls, Routing!Add(call), NEW m \in Methods
    PROVE  /\ DOMAIN resolvers' = Methods
           /\ \A e : IsOf(call, m, e) => e \in DOMAIN resolvers'[m] /\ resolvers'[m][e] = call.resolver
           /\ \A e \in DOMAIN resolvers[m] :
                 e \in DOMAIN resolvers'[m]
                   /\ (~IsOf(call, m, e) => resolvers'[m][e] = resolvers[m][e])
           /\ \A e \in DOMAIN resolvers'[m] : e \in DOMAIN resolvers[m] \/ IsOf(call, m, e)
<1>1. DOMAIN resolvers = Methods /\ call.method \in Methods
  BY DEF Routing!TypeOK, Routing!Calls
<1>2. CASE call.method = GetMethod /\ call.uri = Routing!Star
  <2>1. resolvers' = resolvers
    BY <1>2 DEF Routing!Add
  <2>2. \A e : ~IsOf(call, m, e)
    BY <1>2 DEF IsOf, Routing!InMapper
  <2>3. QED
    BY <1>1, <2>1, <2>2
<1>3. CASE ~(call.method = GetMethod /\ call.uri = Routing!Star)
  <2> DEFINE E == Routing!Expression(call.uri)
  <2> HIDE DEF E
  <2>1. resolvers' = [resolvers EXCEPT ![call.method] = Routing!Assigned(@, E, call.resolver)]
    BY <1>3 DEF Routing!Add, E
  <2>2. \A e : IsOf(call, m, e) <=> call.method = m /\ e = E
    BY <1>3 DEF IsOf, Routing!InMapper, E
  <2>3. CASE call.method = m
    <3>1. resolvers'[m] = Routing!Assigned(resolvers[m], E, call.resolver)
      BY <1>1, <2>1, <2>3
    <3>2. DOMAIN resolvers' = Methods
      BY <1>1, <2>1
    <3>3. resolvers'[m] = [k \in DOMAIN resolvers[m] \cup {E} |->
                             IF k = E THEN call.resolver ELSE resolvers[m][k]]
      BY <3>1 DEF Routing!Assigned
    <3>4. QED
      BY <2>2, <2>3, <3>2, <3>3
  <2>4. CASE call.method # m
    <3>1. resolvers'[m] = resolvers[m] /\ DOMAIN resolvers' = Methods
      BY <1>1, <2>1, <2>4
    <3>2. QED
      BY <2>2, <2>4, <3>1
  <2>5. QED
    BY <2>3, <2>4
<1>4. QED
  BY <1>2, <1>3

LEMMA RoutingByAdd ==
    ASSUME Routing!RoutingAssumption, RoutingHeld, NEW call \in Routing!Calls, Routing!Add(call)
    PROVE  RoutingHeld'
<1>1. Routing!TypeOK /\ Mapped /\ Keyed
  BY DEF RoutingHeld
<1>2. /\ added \in Seq(Routing!Calls) /\ added' = Append(added, call)
      /\ found' = Routing!NotAsked /\ defaultGetResolver' \in Resolvers \cup {None}
  BY <1>1 DEF Routing!Add, Routing!TypeOK, Routing!Calls
<1>3. call.uri \in AddedUris /\ call.resolver \in Resolvers
  BY DEF Routing!Calls
<1>4. PICK l \in Nat : l = Len(added)
  BY <1>2
<1>5. /\ Len(added') = l + 1 /\ added'[l + 1] = call
      /\ \A k \in 1..l : added'[k] = added[k]
  BY <1>2, <1>4
<1>6. ASSUME NEW m \in Methods
      PROVE  /\ DOMAIN resolvers' = Methods
             /\ \A e : IsOf(call, m, e) => e \in DOMAIN resolvers'[m] /\ resolvers'[m][e] = call.resolver
             /\ \A e \in DOMAIN resolvers[m] :
                   e \in DOMAIN resolvers'[m]
                     /\ (~IsOf(call, m, e) => resolvers'[m][e] = resolvers[m][e])
             /\ \A e \in DOMAIN resolvers'[m] : e \in DOMAIN resolvers[m] \/ IsOf(call, m, e)
  BY <1>1, AddedToMap
<1>7. Routing!TypeOK'
  <2>1. ASSUME NEW m \in Methods, NEW e \in DOMAIN resolvers'[m]
        PROVE  resolvers'[m][e] \in Resolvers /\ \A a \in DOMAIN e : e[a] \notin Routing!Special
    <3>1. CASE IsOf(call, m, e)
      BY <1>3, <1>6, <2>1, <3>1, ExpressionIsSafe DEF IsOf
    <3>2. CASE ~IsOf(call, m, e)
      <4>1. e \in DOMAIN resolvers[m] /\ resolvers'[m][e] = resolvers[m][e]
        BY <1>6, <2>1, <3>2
      <4>2. QED
        BY <1>1, <2>1, <4>1 DEF Routing!TypeOK
    <3>3. QED
      BY <3>1, <3>2
  <2>2. DOMAIN resolvers' = Methods
    <3>1. GetMethod \in Methods
      BY DEF Routing!RoutingAssumption
    <3>2. QED
      BY <1>6, <3>1
  <2>3. added' \in Seq(Routing!Calls)
    BY <1>2
  <2>4. found'.method = None /\ found'.resolver = None
    BY <1>2 DEF Routing!NotAsked
  <2>5. QED
    BY <1>2, <2>1, <2>2, <2>3, <2>4 DEF Routing!TypeOK
<1>8. Mapped'
  <2>1. ASSUME NEW m \in Methods, NEW e \in DOMAIN resolvers'[m]
        PROVE  \E n : IsLatest(added', n, m, e) /\ resolvers'[m][e] = added'[n].resolver
    <3>1. CASE IsOf(call, m, e)
      <4>1. PICK n : IsLatest(Append(added, call), n, m, e) /\ Append(added, call)[n] = call
        BY <1>2, <3>1, LastIsLatest
      <4>2. resolvers'[m][e] = call.resolver
        BY <1>6, <2>1, <3>1
      <4>3. QED
        BY <1>2, <4>1, <4>2
    <3>2. CASE ~IsOf(call, m, e)
      <4>1. e \in DOMAIN resolvers[m] /\ resolvers'[m][e] = resolvers[m][e]
        BY <1>6, <2>1, <3>2
      <4>2. PICK n : IsLatest(added, n, m, e) /\ resolvers[m][e] = added[n].resolver
        BY <1>1, <2>1, <4>1 DEF Mapped
      <4>3. IsLatest(Append(added, call), n, m, e)
        <5>1. added \in Seq(Routing!Calls) /\ IsLatest(added, n, m, e)
          BY <1>2, <4>2
        <5>2. QED
          BY <3>2, <5>1, LatestStays
      <4>4. added'[n] = added[n]
        BY <1>4, <1>5, <4>2 DEF IsLatest
      <4>5. QED
        BY <1>2, <4>1, <4>2, <4>3, <4>4
    <3>3. QED
      BY <3>1, <3>2
  <2>2. QED
    BY <2>1 DEF Mapped
<1>9. Keyed'
  <2>1. ASSUME NEW m \in Methods, NEW n \in 1..(l + 1), NEW e, IsOf(added'[n], m, e)
        PROVE  e \in DOMAIN resolvers'[m]
    <3>1. CASE n = l + 1
      BY <1>5, <1>6, <2>1, <3>1
    <3>2. CASE n # l + 1
      <4>1. n \in 1..l
        BY <3>2
      <4>2. IsOf(added[n], m, e)
        BY <1>5, <2>1, <4>1
      <4>3. e \in DOMAIN resolvers[m]
        BY <1>1, <1>4, <2>1, <4>1, <4>2 DEF Keyed
      <4>4. QED
        BY <1>6, <2>1, <4>3
    <3>3. QED
      BY <3>1, <3>2
  <2>2. QED
    BY <1>5, <2>1 DEF Keyed
<1>10. Routing!NothingMissed' /\ Routing!FoundIsRight'
  BY <1>2 DEF Routing!NothingMissed, Routing!FoundIsRight, Routing!Asked, Routing!NotAsked
<1>11. QED
  BY <1>7, <1>8, <1>9, <1>10 DEF RoutingHeld

LEMMA RoutingByGetResolver ==
    ASSUME Routing!RoutingAssumption, RoutingHeld, NEW method \in Methods \cup Unsupported,
           NEW uri \in RequestedUris, Routing!GetResolver(method, uri)
    PROVE  RoutingHeld'
<1>1. Routing!TypeOK /\ Mapped /\ Keyed
  BY DEF RoutingHeld
<1>2. resolvers' = resolvers /\ defaultGetResolver' = defaultGetResolver /\ added' = added
  BY DEF Routing!GetResolver
<1>3. Mapped' /\ Keyed'
  BY <1>1, <1>2 DEF Mapped, Keyed
<1>4. None \notin Resolvers
  BY DEF Routing!RoutingAssumption
<1>5. \A n \in 1..Len(added) : /\ added[n].method \in Methods /\ added[n].uri \in AddedUris
                               /\ added[n].resolver \in Resolvers
  <2>1. added \in Seq(Routing!Calls)
    BY <1>1 DEF Routing!TypeOK
  <2>2. \A n \in 1..Len(added) : added[n] \in Routing!Calls
    BY <2>1
  <2>3. QED
    BY <2>2 DEF Routing!Calls
<1>6. CASE /\ Routing!Candidates(method, uri) = {}
           /\ found' = [Routing!NotAsked EXCEPT !.method = method, !.uri = uri]
  <2>1. found'.method = method /\ found'.uri = uri /\ found'.resolver = None
    BY <1>6 DEF Routing!NotAsked
  <2>2. Routing!TypeOK'
    BY <1>1, <1>2, <2>1 DEF Routing!TypeOK
  <2>3. Routing!FoundIsRight'
    BY <2>1 DEF Routing!FoundIsRight
  <2>4. ASSUME NEW n \in 1..Len(added), Routing!AnswersTo(n)' PROVE FALSE
    <3>1. /\ added[n].method = method /\ Routing!InMapper(added[n])
          /\ Routing!Covers(added[n].uri, uri)
      BY <1>2, <2>1, <2>4 DEF Routing!AnswersTo
    <3>2. PICK e : e = Routing!Expression(added[n].uri)
      OBVIOUS
    <3>3. method \in Methods /\ e \in DOMAIN resolvers[method]
      BY <1>1, <1>5, <3>1, <3>2 DEF Keyed, IsOf
    <3>4. Routing!Matches(e, uri)
      BY <1>5, <3>1, <3>2, MatchesItsUri
    <3>5. e \in Routing!Candidates(method, uri)
      BY <3>3, <3>4 DEF Routing!Candidates
    <3>6. QED
      BY <1>6, <3>5
  <2>5. Routing!NothingMissed'
    BY <1>2, <2>4 DEF Routing!NothingMissed
  <2>6. QED
    BY <1>3, <2>2, <2>3, <2>5 DEF RoutingHeld
<1>7. ASSUME NEW e \in Routing!Candidates(method, uri),
             found' = [method |-> method, uri |-> uri,
                       resolver |-> resolvers[method][e], expression |-> e,
                       parameters |-> Routing!UriParameters(e, uri)]
      PROVE  RoutingHeld'
  <2>1. method \in Methods /\ e \in DOMAIN resolvers[method] /\ Routing!Matches(e, uri)
    BY <1>7 DEF Routing!Candidates
  <2>2. /\ found'.method = method /\ found'.uri = uri /\ found'.resolver = resolvers[method][e]
        /\ found'.parameters = Routing!UriParameters(e, uri)
    BY <1>7
  <2>3. resolvers[method][e] \in Resolvers
    BY <1>1, <2>1 DEF Routing!TypeOK
  <2>4. Routing!TypeOK'
    BY <1>1, <1>2, <2>2, <2>3 DEF Routing!TypeOK
  <2>5. Routing!NothingMissed'
    BY <1>4, <2>2, <2>3 DEF Routing!NothingMissed
  <2>6. ASSUME NoDotsAdded PROVE Routing!FoundIsRight'
    <3>1. PICK n : IsLatest(added, n, method, e) /\ resolvers[method][e] = added[n].resolver
      BY <1>1, <2>1 DEF Mapped
    <3>2. n \in 1..Len(added) /\ IsOf(added[n], method, e)
      BY <3>1 DEF IsLatest
    <3>3. added[n].method = method /\ Routing!InMapper(added[n]) /\ Routing!Expression(added[n].uri) = e
      BY <3>2 DEF IsOf
    <3>4. added[n].uri \in AddedUris /\ NoDots(added[n].uri)
      BY <1>5, <2>6, <3>2 DEF NoDotsAdded
    <3>5. Routing!Covers(added[n].uri, uri)
      BY <2>1, <3>3, <3>4, MatchesItsUri
    <3>6. Routing!AnswersTo(n)'
      BY <1>2, <2>2, <3>3, <3>5 DEF Routing!AnswersTo, Routing!InMapper
    <3>7. ASSUME NEW k \in (n + 1)..Len(added),
                 <<added[k].method, added[k].uri>> = <<added[n].method, added[n].uri>>
          PROVE  FALSE
      <4>1. IsOf(added[k], method, e)
        BY <3>3, <3>7 DEF IsOf, Routing!InMapper
      <4>2. QED
        BY <3>1, <3>7, <4>1 DEF IsLatest
    <3>8. Routing!EndsInWildcard(added[n].uri) =>
             found'.parameters = {SubSeq(uri, Len(added[n].uri) - 1, Len(uri))}
      BY <2>2, <3>3, <3>4, MatchesItsUri
    <3>9. QED
      BY <1>2, <2>2, <3>1, <3>2, <3>6, <3>7, <3>8 DEF Routing!FoundIsRight
  <2>7. QED
    BY <1>3, <2>4, <2>5, <2>6 DEF RoutingHeld, NoDotsAdded
<1>8. QED
  BY <1>6, <1>7 DEF Routing!GetResolver

LEMMA RoutingStays ==
    ASSUME Routing!RoutingAssumption, RoutingHeld, [Routing!Next]_(Routing!vars)
    PROVE  RoutingHeld'
<1>1. CASE UNCHANGED Routing!vars
  <2>1. /\ resolvers' = resolvers /\ defaultGetResolver' = defaultGetResolver
        /\ added' = added /\ found' = found
    BY <1>1 DEF Routing!vars
  <2>2. QED
    BY <2>1 DEF RoutingHeld, Routing!TypeOK, Mapped, Keyed, Routing!NothingMissed,
                Routing!FoundIsRight, Routing!AnswersTo, Routing!Asked
<1>2. CASE Routing!Next
  BY <1>2, RoutingByAdd, RoutingByGetResolver DEF Routing!Next
<1>3. QED
  BY <1>1, <1>2
-----------------------------------------------------------------------------
(* The parser and the free list, as Parts instantiates them, are what      *)
(* their proofs are about.                                                 *)
LEMMA SameParserText ==
    /\ Parser!ParserAssumption <=> ParserProofs!ParserAssumption
    /\ Parser!Requests = ParserProofs!Requests
    /\ Parser!vars = ParserProofs!vars
<1>1. Parser!ParserAssumption <=> ParserProofs!ParserAssumption
  BY DEF Parser!ParserAssumption, ParserProofs!ParserAssumption, Parser!Crlf, Parser!Space,
         Parser!Colon, ParserProofs!Crlf, ParserProofs!Space, ParserProofs!Colon, Parser!Has,
         ParserProofs!Has, Parser!Occurrences, ParserProofs!Occurrences
<1>2. Parser!Requests = ParserProofs!Requests
  BY DEF Parser!Requests, ParserProofs!Requests, Parser!Fields, ParserProofs!Fields
<1>3. QED
  BY <1>1, <1>2 DEF Parser!vars, ParserProofs!vars

LEMMA SameParserInit == Parser!Init => ParserProofs!Init
BY SameParserText DEF Parser!Init, ParserProofs!Init

LEMMA SameParserBlock == Parser!Block(written) = ParserProofs!Block(written)
BY DEF Parser!Block, ParserProofs!Block, Parser!FieldText, ParserProofs!FieldText,
       Parser!Crlf, Parser!Space, Parser!Colon, ParserProofs!Crlf, ParserProofs!Space,
       ParserProofs!Colon

LEMMA SameParserToken ==
    ASSUME NEW text, NEW del, NEW from
    PROVE  Parser!NextToken(text, del, from) = ParserProofs!NextToken(text, del, from)
BY DEF Parser!NextToken, ParserProofs!NextToken, Parser!Occurrences, Parser!First,
       ParserProofs!Occurrences, ParserProofs!First

LEMMA SameParserStep == [Parser!Next]_(Parser!vars) => [ParserProofs!Next]_(ParserProofs!vars)
<1>1. Parser!CreateRequest => ParserProofs!CreateRequest
  BY DEF Parser!CreateRequest, ParserProofs!CreateRequest, Parser!RequestLine,
         ParserProofs!RequestLine, Parser!NextToken, ParserProofs!NextToken,
         Parser!Occurrences, Parser!First, ParserProofs!Occurrences, ParserProofs!First,
         Parser!Block, ParserProofs!Block, Parser!FieldText, ParserProofs!FieldText,
         Parser!Crlf, ParserProofs!Crlf, Parser!Space, ParserProofs!Space,
         Parser!Colon, ParserProofs!Colon
<1>2. Parser!Header = ParserProofs!Header
  BY SameParserToken DEF Parser!Header, ParserProofs!Header, Parser!Crlf, ParserProofs!Crlf
<1>3. Parser!ParseHeader => ParserProofs!ParseHeader
  BY <1>2, SameParserToken
     DEF Parser!ParseHeader, ParserProofs!ParseHeader, Parser!Inserted,
         ParserProofs!Inserted, Parser!Colon, ParserProofs!Colon
<1>4. Parser!EndOfHeaders => ParserProofs!EndOfHeaders
  BY <1>2 DEF Parser!EndOfHeaders, ParserProofs!EndOfHeaders
<1>5. QED
  BY <1>1, <1>3, <1>4 DEF Parser!Next, ParserProofs!Next, Parser!vars, ParserProofs!vars

LEMMA SameParserPromise ==
    /\ ParserProofs!TypeOK => Parser!TypeOK
    /\ ParserProofs!ReadsWhatWasWritten => Parser!ReadsWhatWasWritten
<1>1. ParserProofs!TypeOK => Parser!TypeOK
  BY SameParserText DEF Parser!TypeOK, ParserProofs!TypeOK
<1>2. ParserProofs!ReadsWhatWasWritten => Parser!ReadsWhatWasWritten
  BY DEF Parser!ReadsWhatWasWritten, ParserProofs!ReadsWhatWasWritten, Parser!FirstValue,
         ParserProofs!FirstValue, Parser!First, ParserProofs!First
<1>3. QED
  BY <1>1, <1>2

LEMMA SameList ==
    /\ List!ListAssumption => ListProofs!ListAssumption
    /\ List!Init => ListProofs!Init
    /\ List!vars = ListProofs!vars
<1>1. List!Threads = ListProofs!Threads
  BY DEF List!Threads, ListProofs!Threads
<1>2. List!ListAssumption => ListProofs!ListAssumption
  BY <1>1 DEF List!ListAssumption, ListProofs!ListAssumption, List!IsFiniteSet,
              ListProofs!IsFiniteSet
<1>3. List!Init => ListProofs!Init
  BY <1>1 DEF List!Init, ListProofs!Init, List!NoWord, ListProofs!NoWord
<1>4. QED
  BY <1>2, <1>3 DEF List!vars, ListProofs!vars, List!shared, ListProofs!shared,
                    List!locals, ListProofs!locals

LEMMA SameListStep == [List!Next]_(List!vars) => [ListProofs!Next]_(ListProofs!vars)
BY DEF List!Next, ListProofs!Next, List!Step, ListProofs!Step, List!Add, ListProofs!Add,
       List!Mark, ListProofs!Mark, List!LoadHead, ListProofs!LoadHead, List!Link,
       ListProofs!Link, List!Activate, ListProofs!Activate, List!Push, ListProofs!Push,
       List!GiveUp, ListProofs!GiveUp, List!TryGet, ListProofs!TryGet, List!Start,
       ListProofs!Start, List!FoundEmpty, ListProofs!FoundEmpty, List!LoadRefs,
       ListProofs!LoadRefs, List!Grab, ListProofs!Grab, List!LoadNext,
       ListProofs!LoadNext, List!Pop, ListProofs!Pop, List!Drop, ListProofs!Drop,
       List!Unref, ListProofs!Unref, List!Go, ListProofs!Go, List!Load, ListProofs!Load,
       List!Forget, ListProofs!Forget, List!NobodyLooks, ListProofs!NobodyLooks,
       List!LoopsOn, ListProofs!LoopsOn, List!LeftToMe, ListProofs!LeftToMe,
       List!MustAdd, ListProofs!MustAdd, List!NoWord, ListProofs!NoWord, List!Threads,
       ListProofs!Threads, List!shared, ListProofs!shared, List!locals,
       ListProofs!locals, List!vars, ListProofs!vars

LEMMA SameListPromise ==
    /\ ListProofs!TypeOK => List!TypeOK
    /\ ListProofs!NoBlockIsLost => List!NoBlockIsLost
    /\ ListProofs!PopIsFresh => List!PopIsFresh
<1>1. ListProofs!TypeOK => List!TypeOK
  BY DEF List!TypeOK, ListProofs!TypeOK, List!Threads, ListProofs!Threads, List!Steps,
         ListProofs!Steps, List!Cardinality, ListProofs!Cardinality
<1>2. ListProofs!NoBlockIsLost => List!NoBlockIsLost
  BY DEF List!NoBlockIsLost, ListProofs!NoBlockIsLost, List!AddedOnce,
         ListProofs!AddedOnce, List!Adding, ListProofs!Adding, List!Back,
         ListProofs!Back, List!Chain, ListProofs!Chain, List!Reached,
         ListProofs!Reached, List!Closed, ListProofs!Closed, List!Threads,
         ListProofs!Threads
<1>3. ListProofs!PopIsFresh => List!PopIsFresh
  BY DEF List!PopIsFresh, ListProofs!PopIsFresh, List!RefsAreCounted,
         ListProofs!RefsAreCounted, List!Looking, ListProofs!Looking, List!Listing,
         ListProofs!Listing, List!Chain, ListProofs!Chain, List!Reached,
         ListProofs!Reached, List!Closed, ListProofs!Closed, List!Threads,
         ListProofs!Threads, List!Cardinality, ListProofs!Cardinality
<1>4. QED
  BY <1>1, <1>2, <1>3
-----------------------------------------------------------------------------
(* The composition.  The part that runs does so for good, and the others   *)
(* have no step, so that what a part keeps it keeps beside the others.     *)
LEMMA BuilderImplies ==
    ASSUME Builder!BuilderAssumption, BuilderHeld
    PROVE  /\ Builder!TypeOK /\ Builder!SocketOfOneServer
           /\ Builder!NoPlainAfterSsl /\ Builder!PlainRestarts
<1>1. Builder!TypeOK /\ Builder!SocketOfOneServer
  BY DEF BuilderHeld
<1>2. Builder!NoPlainAfterSsl
  BY DEF BuilderHeld, SecuredIsTls, Builder!NoPlainAfterSsl
<1>3. Builder!PlainRestarts
  <2>1. \A p \in Ports : /\ lingering[p] \subseteq Builder!Kinds
                         /\ p \notin usedTls => "tls" \notin lingering[p]
    BY DEF BuilderHeld, Builder!TypeOK, TlsIsRecorded
  <2>2. QED
    BY <2>1 DEF Builder!PlainRestarts, Builder!CanBind, Builder!ReusesAddress, Builder!Kinds
<1>4. QED
  BY <1>1, <1>2, <1>3

PartsHeld ==
    /\ subject = "parser" => ParserProofs!ParserInv
    /\ subject = "responses" => ResponsesHeld
    /\ subject = "builder" => BuilderHeld
    /\ subject = "bytes" => BytesHeld
    /\ subject = "routing" => RoutingHeld
    /\ subject = "list" => ListProofs!Sound

LEMMA PartsAtFirst == PartsInit => PartsHeld
<1> SUFFICES ASSUME PartsInit PROVE PartsHeld
  OBVIOUS
<1>1. ASSUME subject = "parser" PROVE ParserProofs!ParserInv
  BY <1>1, PartsAssumption, SameParserText, SameParserInit, ParserProofs!ParserInvInit
     DEF PartsInit, PartsAssumption
<1>2. ASSUME subject = "responses" PROVE ResponsesHeld
  BY <1>2, PartsAssumption, ResponsesAtFirst DEF PartsInit, PartsAssumption
<1>3. ASSUME subject = "builder" PROVE BuilderHeld
  BY <1>3, PartsAssumption, BuilderAtFirst DEF PartsInit, PartsAssumption
<1>4. ASSUME subject = "bytes" PROVE BytesHeld
  BY <1>4, PartsAssumption, BytesAtFirst DEF PartsInit, PartsAssumption
<1>5. ASSUME subject = "list" PROVE ListProofs!Sound
  BY <1>5, PartsAssumption, SameList, ListProofs!SoundAtFirst DEF PartsInit, PartsAssumption
<1>6. ASSUME subject = "routing" PROVE RoutingHeld
  BY <1>6, PartsAssumption, RoutingAtFirst DEF PartsInit, PartsAssumption
<1>7. QED
  BY <1>1, <1>2, <1>3, <1>4, <1>5, <1>6 DEF PartsHeld

(* A step of the whole is one of the part that runs, or none of it.        *)
LEMMA StepOfPart ==
    ASSUME [PartsNext]_partsVars
    PROVE  /\ subject' = subject
           /\ subject = "parser" => [Parser!Next]_(Parser!vars)
           /\ subject = "responses" => [Responses!Next]_(Responses!vars)
           /\ subject = "builder" => [Builder!Next]_(Builder!vars)
           /\ subject = "bytes" => [Bytes!Next]_(Bytes!vars)
           /\ subject = "routing" => [Routing!Next]_(Routing!vars)
           /\ subject = "list" => [List!Next]_(List!vars)
<1>1. CASE UNCHANGED partsVars
  BY <1>1 DEF partsVars, parserVars, routingVars, responseVars, builderVars, streamVars,
              listVars, Parser!vars, Routing!vars, Responses!vars, Builder!vars, Bytes!vars, Bytes!arrival,
              List!vars, List!shared, List!locals
<1>2. CASE PartsNext
  BY <1>2 DEF PartsNext
<1>3. QED
  BY <1>1, <1>2

LEMMA PartsStay == PartsHeld /\ [PartsNext]_partsVars => PartsHeld'
<1> SUFFICES ASSUME PartsHeld, [PartsNext]_partsVars PROVE PartsHeld'
  OBVIOUS
<1>1. ASSUME subject = "parser" PROVE ParserProofs!ParserInv'
  <2>1. [Parser!Next]_(Parser!vars) /\ ParserProofs!ParserInv
    BY <1>1, StepOfPart DEF PartsHeld
  <2>2. ParserProofs!ParserAssumption
    BY PartsAssumption, SameParserText DEF PartsAssumption
  <2>3. QED
    BY <2>1, <2>2, SameParserStep, ParserProofs!ParserStep
<1>2. ASSUME subject = "responses" PROVE ResponsesHeld'
  BY <1>2, PartsAssumption, StepOfPart, ResponsesStay DEF PartsHeld, PartsAssumption
<1>3. ASSUME subject = "builder" PROVE BuilderHeld'
  BY <1>3, PartsAssumption, StepOfPart, BuilderStays DEF PartsHeld, PartsAssumption
<1>4. ASSUME subject = "bytes" PROVE BytesHeld'
  BY <1>4, PartsAssumption, StepOfPart, BytesStay DEF PartsHeld, PartsAssumption
<1>5. ASSUME subject = "list" PROVE ListProofs!Sound'
  <2>1. [List!Next]_(List!vars) /\ ListProofs!Sound
    BY <1>5, StepOfPart DEF PartsHeld
  <2>2. ListProofs!ListAssumption
    BY PartsAssumption, SameList DEF PartsAssumption
  <2>3. QED
    BY <2>1, <2>2, SameListStep, ListProofs!SoundStays
<1>6. subject' = subject
  BY StepOfPart
<1>7. ASSUME subject = "routing" PROVE RoutingHeld'
  BY <1>7, PartsAssumption, StepOfPart, RoutingStays DEF PartsHeld, PartsAssumption
<1>8. QED
  BY <1>1, <1>2, <1>3, <1>4, <1>5, <1>6, <1>7 DEF PartsHeld

LEMMA PartsKeep == PartsSpec => []PartsHeld
BY PartsAtFirst, PartsStay, PTL DEF PartsSpec

(* The request parser finds the method, the URI, the version and under     *)
(* each key the first value that the client wrote, for every request       *)
(* (HttpRequest.cpp:40-105).                                               *)
THEOREM RequestsAreRead == PartsSpec => []ReadsWhatWasWritten
<1>1. PartsHeld => ReadsWhatWasWritten
  BY ParserProofs!ParserInvImplies, SameParserPromise DEF PartsHeld, ReadsWhatWasWritten
<1>2. QED
  BY <1>1, PartsKeep, PTL

(* The body that is sent is the one a response was made of, cut at its     *)
(* first NUL, and Content-Length is its length, whoever is told of it and  *)
(* in whatever order the builder is called (HttpResponse.cpp:5-53).        *)
THEOREM BodiesArrive == PartsSpec => []BodyArrives
<1>1. PartsHeld => BodyArrives
  BY PartsAssumption, ResponsesImply DEF PartsHeld, BodyArrives, PartsAssumption
<1>2. QED
  BY <1>1, PartsKeep, PTL

(* No listening socket belongs to two servers, however many builders share *)
(* a port (ServerBuilder.cpp:30, 44).                                      *)
THEOREM SocketsHaveOneServer == PartsSpec => []SocketOfOneServer
<1>1. PartsHeld => SocketOfOneServer
  BY PartsAssumption, BuilderImplies DEF PartsHeld, SocketOfOneServer, PartsAssumption
<1>2. QED
  BY <1>1, PartsKeep, PTL

(* A builder that was made to use TLS puts no plain server on its port     *)
(* (ServerBuilder.cpp:36, 41-44).                                          *)
THEOREM SslStays == PartsSpec => []NoPlainAfterSsl
<1>1. PartsHeld => NoPlainAfterSsl
  BY PartsAssumption, BuilderImplies DEF PartsHeld, NoPlainAfterSsl, PartsAssumption
<1>2. QED
  BY <1>1, PartsKeep, PTL

(* A restarted process can have a plain server's port back, whatever       *)
(* connections the one before has left behind (PlainServer.cpp:24-28).     *)
THEOREM PlainAlwaysRestarts == PartsSpec => []PlainRestarts
<1>1. PartsHeld => PlainRestarts
  BY PartsAssumption, BuilderImplies DEF PartsHeld, PlainRestarts, PartsAssumption
<1>2. QED
  BY <1>1, PartsKeep, PTL

(* Over a plain socket readUntilToken returns the text in front of the     *)
(* first token, wherever the chunks are cut and however long they are, and *)
(* leaves what it read behind it to the next call.  Over TLS this is shown *)
(* of a token in the first chunk, and is not so beyond it                  *)
(* (PlainStream.cpp:38-69, SSLStream.cpp:47-85).                           *)
THEOREM PlainTokensAreFound == PartsSpec => []ReturnsUpToToken
<1>1. PartsHeld => ReturnsUpToToken
  BY BytesImply DEF PartsHeld, ReturnsUpToToken
<1>2. QED
  BY <1>1, PartsKeep, PTL

(* The free list neither loses a block nor hands it out twice, for any     *)
(* number of threads and blocks (concurrentqueue.h:1479-1558).             *)
THEOREM BlocksAreKept == PartsSpec => []NoBlockIsLost
<1>1. PartsHeld => NoBlockIsLost
  BY PartsAssumption, SameList, SameListPromise, ListProofs!SoundImplies
     DEF PartsHeld, NoBlockIsLost, PartsAssumption
<1>2. QED
  BY <1>1, PartsKeep, PTL

(* No compare-and-swap of try_get succeeds with an old next, for any       *)
(* number of threads and blocks (concurrentqueue.h:1501-1510).             *)
THEOREM PopsAreFresh == PartsSpec => []PopIsFresh
<1>1. PartsHeld => PopIsFresh
  BY PartsAssumption, SameList, SameListPromise, ListProofs!SoundImplies
     DEF PartsHeld, PopIsFresh, PartsAssumption
<1>2. QED
  BY <1>1, PartsKeep, PTL

(* A request gets the resolver that was added last for its method and a    *)
(* URI that covers its own, and its parameter is what the wildcard stands  *)
(* for, whatever URIs were added in which order and in whatever order the  *)
(* map has them; of URIs without a dot, which as a regular expression      *)
(* stands for any character (UriMapper.cpp:6-72, Strings.cpp:9).           *)
THEOREM ResolversAreRight == ASSUME NoDotsAdded PROVE PartsSpec => []FoundIsRight
<1>1. PartsHeld => FoundIsRight
  BY DEF PartsHeld, RoutingHeld, FoundIsRight
<1>2. QED
  BY <1>1, PartsKeep, PTL

(* No resolver is overlooked that was added for a URI that covers the one  *)
(* asked for: no expression is taken for another's, and each matches       *)
(* whatever its URI covers (UriMapper.cpp:35-69, Strings.hpp:36-72).       *)
THEOREM NoResolverIsMissed == PartsSpec => []NothingMissed
<1>1. PartsHeld => NothingMissed
  BY DEF PartsHeld, RoutingHeld, NothingMissed
<1>2. QED
  BY <1>1, PartsKeep, PTL

(* The parts are well typed: no text is taken from behind the end of a     *)
(* block, no key of a UriMapper repeats a character, no server has no      *)
(* thread (HttpRequest.cpp:40-52, Strings.cpp:7-12, ServerBuilder.cpp:18). *)
THEOREM PartsAreTyped == PartsSpec => []PartsTypeOK
<1>1. PartsInit => Init
  BY DEF PartsInit
<1>2. [PartsNext]_partsVars => [Next]_vars
  BY DEF PartsNext, partsVars
<1>3. PartsSpec => []TypeOK
  BY <1>1, <1>2, TypeCorrect, PTL DEF PartsSpec, Safety
<1>4. TypeOK /\ PartsHeld => PartsTypeOK
  <2> SUFFICES ASSUME TypeOK, PartsHeld PROVE PartsTypeOK
    OBVIOUS
  <2>1. ASSUME subject = "parser" PROVE Parser!TypeOK
    BY <2>1, ParserProofs!ParserInvImplies, SameParserPromise DEF PartsHeld
  <2>2. ASSUME subject = "responses" PROVE Responses!TypeOK
    BY <2>2, PartsAssumption, ResponsesImply DEF PartsHeld, PartsAssumption
  <2>3. ASSUME subject = "builder" PROVE Builder!TypeOK
    BY <2>3, PartsAssumption, BuilderImplies DEF PartsHeld, PartsAssumption
  <2>4. ASSUME subject = "bytes" PROVE Bytes!TypeOK
    BY <2>4, BytesImply DEF PartsHeld
  <2>5. ASSUME subject = "list" PROVE List!TypeOK
    BY <2>5, PartsAssumption, SameList, SameListPromise, ListProofs!SoundImplies
       DEF PartsHeld, PartsAssumption
  <2>6. ASSUME subject = "routing" PROVE Routing!TypeOK
    BY <2>6 DEF PartsHeld, RoutingHeld
  <2>7. QED
    BY <2>1, <2>2, <2>3, <2>4, <2>5, <2>6 DEF PartsTypeOK
<1>5. QED
  BY <1>3, <1>4, PartsKeep, PTL
=============================================================================
