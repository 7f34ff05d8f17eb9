-------------------------------- MODULE Parts -------------------------------
(***************************************************************************)
(* Parts of the server that each run on their own, side by side: an        *)
(* initial state chooses the one that runs, the others rest.  The task     *)
(* queue is this module's own; parser, routing, responses, builder, the    *)
(* byte streams and the free list are instances.                           *)
(***************************************************************************)
EXTENDS TaskQueue

CONSTANTS
    Characters,                                               \* of texts
    MethodTexts, UriTexts, VersionTexts,                      \* Parser
    KeyTexts, ValueTexts, MaxFields,
    Methods, Unsupported, GetMethod, AddedUris, Resolvers,    \* Routing
    RequestedUris, MaxAdded,
    BodyBytes, Nul, Behind, MaxBody,                          \* Responses
    Builders, Ports, PortOf, ThreadCounts,                    \* Builder
    PeerTexts, Token, Injected, ChunkSize, MaxLeftover,       \* Bytes
    Givers, Takers, Nodes, Null                               \* List

VARIABLES
    subject,                                                  \* the part that runs
    written, parserPc, line, rest, offset, headers,           \* Parser
    resolvers, defaultGetResolver, added, found,              \* Routing
    responseBuilder, response, origin, overridden, sent,      \* Responses
    serverBuilder, listening, built, lingering,
    secured, usedTls,                                         \* Builder
    kind, coming, socket, eof, leftover, streamPc, buffer,
    chunk, chunks, result, start,                             \* Bytes
    head, next, refs, should, inUse, threadPc, node, top,
    below, word, getting                                      \* List

parserVars   == <<written, parserPc, line, rest, offset, headers>>
routingVars  == <<resolvers, defaultGetResolver, added, found>>
responseVars == <<responseBuilder, response, origin, overridden, sent>>
builderVars  == <<serverBuilder, listening, built, lingering, secured, usedTls>>
streamVars   == <<kind, coming, socket, eof, leftover, streamPc, buffer, chunk, chunks,
                  result, start>>
listVars     == <<head, next, refs, should, inUse, threadPc, node, top, below, word, getting>>

Parser == INSTANCE HttpRequestParser WITH
    pc <- parserPc,
    Methods <- MethodTexts,
    Uris <- UriTexts,
    Versions <- VersionTexts,
    Keys <- KeyTexts,
    Values <- ValueTexts

Routing == INSTANCE UriRouting WITH
    Get <- GetMethod,
    Uris <- AddedUris,
    Requested <- RequestedUris

Responses == INSTANCE Response WITH
    builder <- responseBuilder,
    Bytes <- BodyBytes

Builder == INSTANCE ServerBuilder WITH
    builder <- serverBuilder

Bytes == INSTANCE Streams WITH
    pc <- streamPc,
    Texts <- PeerTexts

List == INSTANCE FreeList WITH
    pc <- threadPc

(* Each part is instantiated as it may be.                                 *)
ASSUME PartsAssumption ==
    /\ Parser!ParserAssumption
    /\ Routing!RoutingAssumption
    /\ Responses!ResponseAssumption
    /\ Builder!BuilderAssumption
    /\ Bytes!StreamAssumption
    /\ List!ListAssumption
-----------------------------------------------------------------------------
Idle == <<>>

ParserRests == /\ written = Idle /\ parserPc = "rests" /\ line = Idle
               /\ rest = Idle /\ offset = Idle /\ headers = Idle
RoutingRests == /\ resolvers = Idle /\ defaultGetResolver = Idle
                /\ added = Idle /\ found = Idle
ResponsesRest == /\ responseBuilder = Idle /\ response = Idle
                 /\ origin = Idle /\ overridden = Idle /\ sent = Idle
BuilderRests == /\ serverBuilder = Idle /\ listening = Idle /\ built = Idle
                /\ lingering = Idle /\ secured = Idle /\ usedTls = Idle
BytesRest == /\ kind = Idle /\ coming = Idle /\ socket = Idle /\ eof = Idle
             /\ leftover = Idle /\ streamPc = Idle /\ buffer = Idle
             /\ chunk = Idle /\ chunks = Idle /\ result = Idle /\ start = Idle
ListRests == /\ head = Idle /\ next = Idle /\ refs = Idle /\ should = Idle
             /\ inUse = Idle /\ threadPc = Idle /\ node = Idle /\ top = Idle
             /\ below = Idle /\ word = Idle /\ getting = Idle

(* The queue rests in its initial state.                                   *)
PartsInit ==
    /\ Init
    /\ subject \in {"queue", "parser", "routing", "responses", "builder", "bytes", "list"}
    /\ IF subject = "parser" THEN Parser!Init ELSE ParserRests
    /\ IF subject = "routing" THEN Routing!Init ELSE RoutingRests
    /\ IF subject = "responses" THEN Responses!Init ELSE ResponsesRest
    /\ IF subject = "builder" THEN Builder!Init ELSE BuilderRests
    /\ IF subject = "bytes" THEN Bytes!Init ELSE BytesRest
    /\ IF subject = "list" THEN List!Init ELSE ListRests

partsVars == <<subject, vars, parserVars, routingVars, responseVars, builderVars,
               streamVars, listVars>>

PartsNext ==
    /\ \/ /\ subject = "queue" /\ Next
          /\ UNCHANGED <<parserVars, routingVars, responseVars, builderVars, streamVars, listVars>>
       \/ /\ subject = "parser" /\ Parser!Next
          /\ UNCHANGED <<vars, routingVars, responseVars, builderVars, streamVars, listVars>>
       \/ /\ subject = "routing" /\ Routing!Next
          /\ UNCHANGED <<vars, parserVars, responseVars, builderVars, streamVars, listVars>>
       \/ /\ subject = "responses" /\ Responses!Next
          /\ UNCHANGED <<vars, parserVars, routingVars, builderVars, streamVars, listVars>>
       \/ /\ subject = "builder" /\ Builder!Next
          /\ UNCHANGED <<vars, parserVars, routingVars, responseVars, streamVars, listVars>>
       \/ /\ subject = "bytes" /\ Bytes!Next
          /\ UNCHANGED <<vars, parserVars, routingVars, responseVars, builderVars, listVars>>
       \/ /\ subject = "list" /\ List!Next
          /\ UNCHANGED <<vars, parserVars, routingVars, responseVars, builderVars, streamVars>>
    /\ UNCHANGED subject

PartsSpec ==
    /\ PartsInit /\ [][PartsNext]_partsVars
    /\ subject = "queue" => Fairness
    /\ WF_parserVars(subject = "parser" /\ Parser!Next)
-----------------------------------------------------------------------------
(* The parts are well typed; in particular the parser takes no text from   *)
(* behind the end of the block, no key of a UriMapper has a * that repeats *)
(* a character, and no server is built without threads                     *)
(* (HttpRequest.cpp:40-52, Strings.cpp:7-12, ServerBuilder.cpp:18).        *)
PartsTypeOK ==
    /\ TypeOK
    /\ subject = "parser" => Parser!TypeOK
    /\ subject = "routing" => Routing!TypeOK
    /\ subject = "responses" => Responses!TypeOK
    /\ subject = "builder" => Builder!TypeOK
    /\ subject = "bytes" => Bytes!TypeOK
    /\ subject = "list" => List!TypeOK

(* The parser finds the request that a client has written                  *)
(* (HttpRequest.cpp:40-105).                                               *)
ReadsWhatWasWritten == subject = "parser" => Parser!ReadsWhatWasWritten

(* ... and its loop ends (HttpRequest.cpp:77).                             *)
ParsingEnds == subject = "parser" => Parser!ParsingEnds

(* The resolver of a request was added for its method and a URI that       *)
(* covers its own (UriMapper.cpp:6-72).                                    *)
FoundIsRight == subject = "routing" => Routing!FoundIsRight

(* ... and is found if there is one (UriMapper.cpp:58-69).                 *)
NothingMissed == subject = "routing" => Routing!NothingMissed

(* A client gets the body that was meant for it (HttpResponse.cpp:5-53).   *)
BodyArrives == subject = "responses" => Responses!BodyArrives

(* As many bytes as Content-Length says follow the header; refuted         *)
(* (HttpResponse.hpp:32, HttpResponse.cpp:52).                             *)
NothingIsCutOff == subject = "responses" => Responses!NothingIsCutOff

(* No listening socket belongs to two servers (ServerBuilder.cpp:30, 44).  *)
SocketOfOneServer == subject = "builder" => Builder!SocketOfOneServer

(* A builder that was made to use TLS puts no plain server on its port     *)
(* (ServerBuilder.cpp:36, 41-44).                                          *)
NoPlainAfterSsl == subject = "builder" => Builder!NoPlainAfterSsl

(* A restarted process can have a plain server's port back                 *)
(* (PlainServer.cpp:24-28).                                                *)
PlainRestarts == subject = "builder" => Builder!PlainRestarts

(* readUntilToken returns the text in front of the token: a plain socket's *)
(* wherever the bytes were cut, a TLS stream's if the first chunk has the  *)
(* token (PlainStream.cpp:38-69, SSLStream.cpp:47-85).                     *)
ReturnsUpToToken == subject = "bytes" => Bytes!ReturnsUpToToken

(* Every block that was given back, and no other, is on the free list or   *)
(* about to be (concurrentqueue.h:1479-1558).                              *)
NoBlockIsLost == subject = "list" => List!NoBlockIsLost

(* No compare-and-swap succeeds with an old next                           *)
(* (concurrentqueue.h:1501-1510).                                          *)
PopIsFresh == subject = "list" => List!PopIsFresh
=============================================================================
