-------------------------- MODULE HttpConversation --------------------------
(***************************************************************************)
(* One connection, plain or TLS, with its bytes.  The epoll thread peeks   *)
(* for a whole header and takes it; a worker parses it, lets the resolver  *)
(* read the body from the same stream, writes a response and gives the     *)
(* client back, to be kept or closed.  That only one of them has the       *)
(* stream at a time is shown in ConnectionLoop; here its steps interleave  *)
(* with the client's.                                                      *)
(*                                                                         *)
(* The client is well-behaved: it sends whole requests one after another,  *)
(* each with as many bytes of body as its Content-Length says, but it may  *)
(* stop or hang up at any point.  A request is its text (request line and  *)
(* headers), the \r\n\r\n that ends it, and its body, unit by unit.  There  *)
(* is no line break in a body.  Over TLS a unit counts as received when    *)
(* the record it is in is complete, and the handshake is over.             *)
(***************************************************************************)
EXTENDS Integers, Sequences

CONSTANTS Kinds,         \* what requests the client makes, see KindAssumption
          MaxRequests,   \* model bound: requests of the client
          Windows,       \* how many requests a client makes before it waits for a response
          Transports,    \* streams that connections are made with
          MaxHeader,     \* MAX_HEADER_BYTES, in units
          ResponseSize,  \* units of a response
          SendSpace      \* units the socket takes before the client reads some

(* bare:      the header block is one line, without any \r\n              *)
(* keepAlive: it has the header Connection: keep-alive                     *)
(* length:    its Content-Length, 0 if it has none                         *)
(* reads:     how often the resolver calls getBody, once at most           *)
(* throws:    the resolver throws, after that                              *)
ASSUME ConversationAssumption ==
    /\ Kinds \subseteq [bare : BOOLEAN, keepAlive : BOOLEAN, length : Nat,
                        reads : {0, 1}, throws : BOOLEAN]
    /\ Windows \cup {MaxRequests, MaxHeader, ResponseSize, SendSpace} \subseteq Nat \ {0}
    /\ Transports \subseteq {"plain", "tls"}

VARIABLES requests,  \* requests[i]: the kind of the client's i-th request
          window,    \* its Window
          transport, \* its stream: PlainStream or SSLStream
          peer,      \* "open", "fin" or "reset"
          next,      \* the unit the client sends next
          unread,    \* units received that the stream has not read
          decrypted, \* how many of them, the first ones, are in the SSL object
          leftover,  \* leftoverBuffer
          phase,     \* where the connection is, see Phases
          header,    \* requestBuffer of the handler
          calls,     \* calls of getBody the resolver has still to make
          body,      \* the last body getBody returned, and whose it is
          keep,      \* keepAlive, in the handler and in the return channel
          wire,      \* units of response the client has not read yet
          received,  \* those it has read
          sent,      \* history: the units the client has sent
          taken      \* history: the units that headers and bodies were made of

setup == <<requests, window, transport>>
clientVars == <<setup, peer, next, received, sent>>
input == <<unread, decrypted, leftover>>
vars == <<clientVars, input, phase, header, calls, body, keep, wire, taken>>

(* "waiting" in epoll; with a worker before createRequest ("running"), in  *)
(* the resolver, in the catch block ("failed", or "broken" when the SSL    *)
(* object takes no further write) and in the return channel; closed; or    *)
(* the process has terminated.                                             *)
Phases == {"waiting", "running", "resolving", "failed", "broken", "returning",
           "closed", "died"}

Gone == phase \in {"closed", "died"}

Units == [req : 1..MaxRequests, part : Nat \ {0}]
IsText(u) == u.part = 1
IsEnd(u)  == u.part = 2
IsBody(u) == u.part > 2
Size(i) == 2 + requests[i].length

ResponseUnits == [re : 1..MaxRequests, status : {200, 400, 404, 500},
                  part : 1..ResponseSize]

NoBody == [req |-> 0, units |-> <<>>, padded |-> FALSE]

TypeOK ==
    /\ requests \in [1..MaxRequests -> Kinds]
    /\ window \in Windows /\ transport \in Transports
    /\ peer \in {"open", "fin", "reset"}
    /\ next \in [req : 1..(MaxRequests + 1), part : Nat \ {0}]
    /\ {unread, leftover, header, sent, taken} \subseteq Seq(Units)
    /\ decrypted \in 0..Len(unread)
    /\ phase \in Phases
    /\ calls \in Nat
    /\ body \in [req : 0..MaxRequests, units : Seq(Units), padded : BOOLEAN]
    /\ keep \in BOOLEAN
    /\ {wire, received} \subseteq Seq(ResponseUnits)
    /\ Len(wire) <= SendSpace /\ Len(leftover) <= MaxHeader

Init ==
    /\ requests \in [1..MaxRequests -> Kinds]
    /\ window \in Windows /\ transport \in Transports
    /\ peer = "open"
    /\ next = [req |-> 1, part |-> 1]
    /\ unread = <<>> /\ decrypted = 0 /\ leftover = <<>>
    /\ phase = "waiting"
    /\ header = <<>> /\ calls = 0 /\ body = NoBody /\ keep = FALSE
    /\ wire = <<>> /\ received = <<>>
    /\ sent = <<>> /\ taken = <<>>
-----------------------------------------------------------------------------
(* The client.                                                             *)

(* It knows the length of a response, and waits for a whole one.           *)
Responses == Len(received) \div ResponseSize

SendUnit ==
    /\ peer = "open" /\ ~Gone
    /\ next.req <= MaxRequests
    /\ next.req <= Responses + window
    /\ unread' = Append(unread, next)
    /\ sent' = Append(sent, next)
    /\ next' = IF next.part < Size(next.req)
                 THEN [next EXCEPT !.part = @ + 1]
                 ELSE [req |-> next.req + 1, part |-> 1]
    /\ UNCHANGED <<setup, peer, received, decrypted, leftover, phase, header, calls,
                   body, keep, wire, taken>>

Receive ==
    /\ peer # "reset"
    /\ wire # <<>>
    /\ received' = Append(received, Head(wire))
    /\ wire' = Tail(wire)
    /\ UNCHANGED <<setup, peer, next, sent, input, phase, header, calls, body, keep,
                   taken>>

Hangup(how) ==
    /\ peer \in {"open", "fin"} \ {how} /\ ~Gone
    /\ peer' = how
    /\ UNCHANGED <<setup, next, received, sent, input, phase, header, calls, body, keep,
                   wire, taken>>

Client == SendUnit \/ Receive \/ \E how \in {"fin", "reset"} : Hangup(how)
-----------------------------------------------------------------------------
(* The epoll thread, NonblockingClientManagerTask::handleClientEvent.      *)

Drop(s, n) == SubSeq(s, n + 1, Len(s))
Upto(s, n) == SubSeq(s, 1, IF n < Len(s) THEN n ELSE Len(s))

(* epoll knows of the socket, and nothing of the SSL object.               *)
Readable == Len(unread) > decrypted \/ peer # "open"

(* How much the SSL object holds after the stream has read that many       *)
(* units: what it held, or a part of a record it had to decrypt.           *)
DecryptedAfter(reads) ==
    CASE transport = "plain" -> {0}
      [] transport = "tls" /\ reads <= decrypted -> {decrypted - reads}
      [] transport = "tls" /\ reads > decrypted -> 0..(Len(unread) - reads)

(* close() leaves nothing to read.                                         *)
Close == leftover' = <<>> /\ unread' = <<>> /\ decrypted' = 0

HandleHangup ==
    /\ phase = "waiting" /\ peer = "reset"
    /\ phase' = "closed"
    /\ Close
    /\ UNCHANGED <<clientVars, header, calls, body, keep, wire, taken>>

(* peek() fills leftoverBuffer from the socket, up to MAX_HEADER_BYTES.    *)
PeekedSwapped == Upto(unread \o leftover, MaxHeader)
Peeked == Upto(leftover \o unread, MaxHeader)

NewlyPeeked == Len(Peeked) - Len(leftover)
FillLeftover == /\ unread' = Drop(unread, NewlyPeeked)
                /\ decrypted' \in DecryptedAfter(NewlyPeeked)

HeaderEnds == {i \in 1..Len(Peeked) : IsEnd(Peeked[i])}

HandleIncomplete ==
    /\ phase = "waiting" /\ Readable /\ peer # "reset"
    /\ HeaderEnds = {}
    /\ leftover' = Peeked
    /\ FillLeftover
    /\ UNCHANGED <<clientVars, phase, header, calls, body, keep, wire, taken>>

(* The header and its terminator are read; what follows stays in           *)
(* leftoverBuffer.                                                         *)
HandleRequest ==
    /\ phase = "waiting" /\ Readable /\ peer # "reset"
    /\ \E i \in HeaderEnds :
          /\ \A j \in HeaderEnds : i <= j
          /\ header' = SubSeq(Peeked, 1, i - 1)
          /\ leftover' = Drop(Peeked, i)
          /\ taken' = taken \o SubSeq(Peeked, 1, i)
    /\ FillLeftover
    /\ phase' = "running"
    /\ UNCHANGED <<clientVars, calls, body, keep, wire>>

(* drainReturnChannel.                                                     *)
TakeBack ==
    /\ phase = "returning"
    /\ IF keep
          THEN phase' = "waiting" /\ UNCHANGED input
          ELSE phase' = "closed" /\ Close
    /\ UNCHANGED <<clientVars, header, calls, body, keep, wire, taken>>

EpollThread == HandleHangup \/ HandleIncomplete \/ HandleRequest \/ TakeBack
-----------------------------------------------------------------------------
(* The worker, ClientRequestHandler::operator().                           *)

(* Whose text the header block holds; and whether it starts with something *)
(* else, which then is part of the method.                                 *)
Subject == header[Len(header)].req
Asked == requests[Subject]
Garbled == \E i \in 1..Len(header) : IsBody(header[i])

(* send() takes what fits and fails if nothing does.  SSL_write_ex fails   *)
(* unless everything fits, with some records written.                      *)
TransmittedShort(room) == IF room < ResponseSize THEN room ELSE ResponseSize - 1
Transmitted(room) == IF room < ResponseSize THEN room ELSE ResponseSize

Room == IF peer = "reset" THEN 0 ELSE SendSpace - Len(wire)

ResponsePart(status, n) ==
    [k \in 1..n |-> [re |-> Subject, status |-> status, part |-> k]]

Write(status) ==
    /\ Room >= IF transport = "tls" THEN ResponseSize ELSE 1
    /\ wire' = wire \o ResponsePart(status, Transmitted(Room))

WriteFails(status) ==
    \/ transport = "plain" /\ Room = 0 /\ UNCHANGED wire
    \/ /\ transport = "tls" /\ Room < ResponseSize
       /\ \E n \in 0..Room : wire' = wire \o ResponsePart(status, n)

(* createRequest finds no \r\n.  The write of the 400 is in no try block.  *)
Reject ==
    /\ phase = "running" /\ Asked.bare
    /\ \/ Write(400) /\ phase' = "returning"
       \/ WriteFails(400) /\ phase' = "died"
    /\ keep' = FALSE
    /\ UNCHANGED <<clientVars, input, header, calls, body, taken>>

(* The request is parsed and its resolver found: the default one when the  *)
(* method is not what the client wrote.                                    *)
Resolve ==
    /\ phase = "running" /\ ~Asked.bare
    /\ keep' = Asked.keepAlive
    /\ calls' = IF Garbled THEN 0 ELSE Asked.reads
    /\ phase' = "resolving"
    /\ UNCHANGED <<clientVars, input, header, body, wire, taken>>

(* getBody: read() takes Content-Length units, from leftoverBuffer first.  *)
AvailableSwapped == unread \o leftover
Available == leftover \o unread

Missing == Len(Available) < Asked.length
NotInLeftover == Len(leftover) < Asked.length

(* PlainStream: recv() fails with EAGAIN or the reset, and at the end of    *)
(* the input the rest of the vector keeps its zeros.  SSLStream keeps them *)
(* at WANT_READ, too, and after the last unit calls SSL_read_ex once more, *)
(* for nothing: that fails if the client has gone without a close_notify,  *)
(* and can when there is more to read.                                     *)
ReadReturns ==
    \/ transport = "plain" /\ (Missing => peer = "fin")
    \/ transport = "tls" /\ (NotInLeftover => peer # "reset")

ReadBlocks == transport = "plain" /\ Missing /\ peer = "reset"
ReadThrows ==
    \/ transport = "plain" /\ Missing /\ peer # "fin"
    \/ /\ transport = "tls" /\ NotInLeftover
       /\ peer # "open" \/ Len(Available) > Asked.length

GetBody ==
    /\ phase = "resolving" /\ calls > 0
    /\ ReadReturns
    /\ calls' = calls - 1
    /\ body' = [req |-> Subject, units |-> Upto(Available, Asked.length),
                padded |-> Missing]
    /\ taken' = taken \o Upto(Available, Asked.length)
    /\ leftover' = Drop(leftover, Asked.length)
    /\ LET reads == IF NotInLeftover THEN Len(Upto(Available, Asked.length)) - Len(leftover)
                    ELSE 0
       IN  unread' = Drop(unread, reads) /\ decrypted' \in DecryptedAfter(reads)
    /\ UNCHANGED <<clientVars, phase, header, keep, wire>>

(* What read() had taken is lost.  An SSL object that the error is fatal   *)
(* for takes no response either.                                           *)
GetBodyThrows ==
    /\ phase = "resolving" /\ calls > 0
    /\ ReadThrows
    /\ \/ phase' = "failed"
       \/ transport = "tls" /\ peer # "open" /\ phase' = "broken"
    /\ Close
    /\ UNCHANGED <<clientVars, header, calls, body, keep, wire, taken>>

ResolverThrows ==
    /\ phase = "resolving" /\ calls = 0
    /\ ~Garbled /\ Asked.throws
    /\ phase' = "failed"
    /\ UNCHANGED <<clientVars, input, header, calls, body, keep, wire, taken>>

(* One write(), whose result is not looked at.  On a connection that was   *)
(* reset the kernel may answer it with SIGPIPE, which ends the process; a  *)
(* SSL object with an unfinished write refuses any other.                  *)
Respond ==
    /\ phase = "resolving" /\ calls = 0
    /\ Garbled \/ ~Asked.throws
    /\ LET status == IF Garbled THEN 404 ELSE 200
       IN  \/ Write(status) /\ phase' = "returning"
           \/ WriteFails(status) /\ \/ transport = "plain" /\ phase' = "failed"
                                    \/ transport = "tls" /\ phase' = "broken"
                                    \/ peer = "reset" /\ phase' = "died"
    /\ UNCHANGED <<clientVars, input, header, calls, body, keep, taken>>

(* The catch block; a write that fails there ends the process.             *)
KeepAsBefore == keep
KeepAfterFailure == FALSE

AnswerFailure ==
    /\ \/ phase = "failed" /\ Write(500) /\ phase' = "returning"
       \/ phase = "failed" /\ WriteFails(500) /\ phase' = "died"
       \/ phase = "broken" /\ phase' = "died" /\ UNCHANGED wire
    /\ keep' = KeepAfterFailure
    /\ UNCHANGED <<clientVars, input, header, calls, body, taken>>

Worker == \/ Reject \/ Resolve \/ GetBody \/ GetBodyThrows \/ ResolverThrows
          \/ Respond \/ AnswerFailure
-----------------------------------------------------------------------------
Next == Client \/ EpollThread \/ Worker

(* The threads run; the client does as it likes.                           *)
Safety == Init /\ [][Next]_vars
Spec == Safety /\ WF_vars(EpollThread) /\ WF_vars(Worker)
-----------------------------------------------------------------------------
(* As long as the connection may be used again.                            *)
Usable == \/ phase \in {"waiting", "running", "resolving"}
          \/ phase = "returning" /\ keep

(* Between the socket, leftoverBuffer and the handlers no byte is lost,    *)
(* duplicated or moved: what was made into headers and bodies, what is     *)
(* left over and what is unread are together what the client sent          *)
(* (PlainStream.cpp:10-28, 88-116, NonblockingClientManagerTask.cpp:135-   *)
(* 147), and no more is left over than MAX_HEADER_BYTES.  Where read()     *)
(* does lose some, the connection is given up.                             *)
NoByteLost == TypeOK /\ (Usable => taken \o leftover \o unread = sent)

(* A resolver that calls getBody gets the body of its own request, whole,  *)
(* or what the client had sent of it when it closed its side, or, over     *)
(* TLS, by then (HttpRequest.cpp:158-174, PlainStream.cpp:10-28,           *)
(* SSLStream.cpp:13-45).                                                   *)
BodyOfItsRequest ==
    body # NoBody =>
        LET got == Len(body.units)
        IN  /\ \A k \in 1..got : body.units[k] = [req |-> body.req, part |-> k + 2]
            /\ \/ got = requests[body.req].length
               \/ body.padded /\ (peer # "open" \/ transport = "tls")

(* Requests are answered in order, once each, and nothing follows an       *)
(* answer that announces the end (ClientRequestHandler.cpp:27-56,          *)
(* NonblockingClientManagerTask.cpp:103-119).                              *)
Out == received \o wire

(* The client knows the length of a response: the n-th begins where the    *)
(* n - 1 before it end.                                                    *)
Begun == (Len(Out) + ResponseSize - 1) \div ResponseSize
Answers == [n \in 1..Begun |-> LET u == Out[ResponseSize * (n - 1) + 1]
                              IN  [re |-> u.re, status |-> u.status]]

HeadersSent == next.req - 1 + (IF next.part > 2 THEN 1 ELSE 0)

Standing == CASE Gone -> "closed"
              [] phase = "returning" /\ ~keep -> "closing"
              [] OTHER -> "open"

Dialogue ==
    INSTANCE HttpDialogue
        WITH asked <- HeadersSent, answers <- Answers, state <- Standing

ImplementsDialogue == Dialogue!Spec

(* The client finds every response where the one before it ends: what the  *)
(* server writes are whole responses, one after another.  Since one send() *)
(* takes what fits and the caller drops the rest (PlainStream.cpp:30-36,   *)
(* ClientRequestHandler.cpp:47), the socket must have room for a response  *)
(* to every request of the window.                                         *)
WireIsFramed ==
    \A n \in 1..Len(Out) :
        /\ Out[n].part = ((n - 1) % ResponseSize) + 1
        /\ (n > 1 /\ Out[n].part # 1) => Out[n].re = Out[n - 1].re

(* A client that waits for each response gets one to every header it sent, *)
(* unless it resets: neither a body that is late, nor one nobody read, nor *)
(* an exception leaves it without, but for one case.  A body of which      *)
(* MAX_HEADER_BYTES - 1 or more were left unread, by a resolver that did   *)
(* not ask for it or by SSLStream::read, fills leftoverBuffer: the next    *)
(* header then never fits in, peek() adds nothing, and the descriptor is   *)
(* rearmed and readable for ever (NonblockingClientManagerTask.cpp:121-    *)
(* 157, PlainStream.cpp:88-116, ClientRequestHandler.cpp:27-56).           *)
HeaderSent(i) == \E n \in 1..Len(sent) : sent[n] = [req |-> i, part |-> 2]

Clogged == /\ phase = "waiting" /\ Len(leftover) = MaxHeader
           /\ \A n \in 1..(MaxHeader - 1) : IsBody(leftover[n])

EveryRequestIsAnswered ==
    \A i \in 1..MaxRequests :
        window = 1 /\ HeaderSent(i)
          ~> Len(Answers) >= i \/ peer = "reset" \/ Gone \/ Clogged
-----------------------------------------------------------------------------
(* What the documentation says and the code does not do.                   *)

(* "Construct a http request from request (without the body) that was sent *)
(* by the client" (HttpRequest.hpp:69).  A body that the resolver has not  *)
(* read stands in front of the next header on a kept connection, and       *)
(* becomes a part of its method (ClientRequestHandler.cpp:55).             *)
HeaderHasNoBody == phase \in {"running", "resolving"} => ~Garbled

(* "Read X amount of data from the source", "The data that was read"       *)
(* (IStream.hpp:13-17): while the client is still sending, a body is never *)
(* returned without the part that is missing.  SSLStream::read returns one *)
(* padded with zeros as soon as SSL_read_ex has to wait (SSLStream.cpp:    *)
(* 36-44, 122).                                                            *)
BodyIsNotCutShort == body.padded => peer # "open"
=============================================================================
