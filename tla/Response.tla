------------------------------ MODULE Response ------------------------------
(***************************************************************************)
(* How a response gets its body and its Content-Length, and what of them   *)
(* toHttpResponse writes: HttpResponseBuilder, HttpResponse and the two    *)
(* resolvers of StaticFile.                                                *)
(*                                                                         *)
(* A body is a sequence of bytes.  The other headers, which share nothing  *)
(* with Content-Length but the map, are left out; a builder's withJsonBody *)
(* and withHtmlBody are a withBody then.                                   *)
(***************************************************************************)
EXTENDS StdString, Integers

CONSTANTS Bytes,     \* bytes other than NUL
          Nul,
          Behind,    \* what may be in memory behind a body, up to the next NUL
          MaxBody    \* model bound: bytes of a body or a file

(* Nothing, or something, may be in memory behind a body; "not" is no byte *)
(* (it begins NotYet, below).                                              *)
ResponseAssumption ==
    /\ Nul \notin Bytes
    /\ "not" \notin Bytes \cup {Nul}
    /\ MaxBody \in Nat
    /\ Behind \subseteq Seq(Bytes) /\ <<>> \in Behind

VARIABLES builder,    \* the builder's body, and its Content-Length
          response,   \* what was built: body and Content-Length
          origin,     \* history: the body or file that it was made of
          overridden, \* history: the resolver has set Content-Length itself
          sent        \* the bytes written behind the header

vars == <<builder, response, origin, overridden, sent>>

Texts == UNION {[1..n -> Bytes \cup {Nul}] : n \in 0..MaxBody}
Unset == -1           \* no such header
Lengths == {Unset} \cup 0..MaxBody
NotYet == <<"not", "yet">>
Messages == [body : Texts, length : Lengths]
NoMessage == [body |-> <<>>, length |-> Unset]

Init ==
    /\ builder = NoMessage
    /\ response = NoMessage /\ sent = NotYet
    /\ origin = NotYet /\ overridden = FALSE
-----------------------------------------------------------------------------
NotBuilt == origin = NotYet

Pending == ~NotBuilt /\ sent = NotYet

WithBody(text) ==
    /\ NotBuilt
    /\ builder' = [body |-> text, length |-> Len(text)]
    /\ UNCHANGED <<response, origin, overridden, sent>>

(* A resolver may write any length there.                                  *)
WithHeader(length) ==
    /\ NotBuilt
    /\ builder' = [builder EXCEPT !.length = length]
    /\ UNCHANGED <<response, origin, overridden, sent>>

(* The constructor of HttpResponse: setHeader, which assigns.              *)
ConstructedWithInsert(made) ==
    [made EXCEPT !.length = IF @ = Unset THEN Len(made.body) ELSE @]
Constructed(made) == [made EXCEPT !.length = Len(made.body)]

Build ==
    /\ NotBuilt
    /\ response' = Constructed(builder)
    /\ origin' = builder.body
    /\ UNCHANGED <<builder, overridden, sent>>

(* std::getline(file, out, '\0'), in both resolvers.                       *)
UpToNul(text) ==
    LET nuls == Occurrences(text, <<Nul>>, 1)
    IN  IF nuls = {} THEN text ELSE SubSeq(text, 1, First(nuls) - 1)

ServeFile(file) ==
    /\ NotBuilt /\ builder = NoMessage
    /\ LET out == UpToNul(file)
       IN  /\ builder' = [body |-> out, length |-> Len(out)]
           /\ response' = Constructed(builder')
    /\ origin' = UpToNul(file)
    /\ UNCHANGED <<overridden, sent>>

SetHeader(length) ==
    /\ Pending
    /\ response' = [response EXCEPT !.length = length]
    /\ overridden' = TRUE
    /\ UNCHANGED <<builder, origin, sent>>

(* The body goes into a stringstream as a C string: up to its first NUL,   *)
(* or on into what is behind it in memory, which is anything.              *)
Streamed(body) ==
    IF body = <<>> THEN {<<>>}
    ELSE IF Has(body, <<Nul>>) THEN {UpToNul(body)}
    ELSE {body \o junk : junk \in Behind}

ToHttpResponse ==
    /\ Pending
    /\ sent' \in Streamed(response.body)
    /\ UNCHANGED <<builder, response, origin, overridden>>

(* The next request has a builder of its own.                              *)
NextRequest ==
    /\ sent # NotYet
    /\ builder' = NoMessage /\ response' = NoMessage /\ sent' = NotYet
    /\ origin' = NotYet /\ overridden' = FALSE

Next == \/ \E text \in Texts : WithBody(text) \/ ServeFile(text)
        \/ \E length \in 0..MaxBody : WithHeader(length) \/ SetHeader(length)
        \/ Build \/ ToHttpResponse \/ NextRequest
-----------------------------------------------------------------------------
(* A response that was built has a Content-Length.                         *)
TypeOK ==
    /\ builder \in Messages /\ response \in Messages
    /\ origin = NotYet \/ (origin \in Texts /\ response.length # Unset)
    /\ overridden \in BOOLEAN

(* A client that reads as many bytes as Content-Length says gets the body  *)
(* that was meant for it, and only what happened to be behind it in memory *)
(* can follow, whatever headers were set in which order; unless there is a *)
(* NUL in the body, or the resolver has set the length of the response     *)
(* itself.  Of a file the bytes up to its first NUL arrive                 *)
(* (HttpResponse.cpp:5-8, 50-53, HttpResponseBuilder.cpp:36-52,            *)
(* StaticFile.cpp:19-28, 47-56).                                           *)
BodyArrives ==
    sent # NotYet /\ ~overridden /\ ~Has(origin, <<Nul>>) =>
        /\ response.length = Len(origin)
        /\ \E junk \in Behind : sent = origin \o junk

(* "Convert the response to a http response, as sepcified in               *)
(* https://www.rfc-editor.org/rfc/rfc2616.html#section-6"                  *)
(* (HttpResponse.hpp:32): as many bytes as Content-Length says follow the  *)
(* header.  Refuted: a body with a NUL is cut off (HttpResponse.cpp:52).   *)
NothingIsCutOff ==
    sent # NotYet /\ ~overridden => Len(sent) >= response.length
=============================================================================
