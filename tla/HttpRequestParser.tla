------------------------- MODULE HttpRequestParser --------------------------
(***************************************************************************)
(* HttpRequest::createRequest on the header block of one request, without  *)
(* the \r\n\r\n that ended it.  The client writes the block from a method, *)
(* a URI, a version and some header fields; the parser finds its way back  *)
(* with getNextToken, one header per turn of its loop.                     *)
(*                                                                         *)
(* A text is a sequence of characters; \r\n counts as one.                 *)
(***************************************************************************)
EXTENDS StdString

CONSTANTS Characters,                \* what texts are made of
          Methods, Uris, Versions,   \* texts without spaces
          Keys, Values,              \* texts of header fields
          MaxFields                  \* model bound: header fields of a request

Crlf  == <<"\r\n">>
Space == <<" ">>
Colon == <<":", " ">>

(* What a client may write in each place.                                  *)
ParserAssumption ==
    /\ {"\r\n", " ", ":"} \subseteq Characters
    /\ Methods \cup Uris \cup Versions \cup Keys \cup Values \subseteq Seq(Characters)
    /\ \A t \in Methods \cup Uris \cup Versions : ~Has(t, Crlf) /\ ~Has(t, Space)
    /\ \A t \in Keys : t # <<>> /\ ~Has(t, Colon) /\ ~Has(t, Crlf)
    /\ \A t \in Values : ~Has(t, Crlf)
    /\ MaxFields \in Nat

VARIABLES written,   \* what the client wrote
          pc,        \* "create", "headers", "done", or "rejected" (no value)
          line,      \* the request line, parsed
          rest,      \* rawHeaders
          offset,    \* position of the next header in rest
          headers    \* headersMap

vars == <<written, pc, line, rest, offset, headers>>

Fields == Keys \X Values
Requests == [method : Methods, uri : Uris, version : Versions,
             fields : UNION {[1..n -> Fields] : n \in 0..MaxFields}]

FieldText(f) == f[1] \o Colon \o f[2]

(* Lines are joined by \r\n, the last one has none.                        *)
Block(r) ==
    LET Lines[n \in 0..Len(r.fields)] ==
          IF n = 0
            THEN r.method \o Space \o r.uri \o Space \o r.version
            ELSE Lines[n - 1] \o Crlf \o FieldText(r.fields[n])
    IN  Lines[Len(r.fields)]

Init ==
    /\ written \in Requests
    /\ pc = "create"
    /\ line = <<>> /\ rest = <<>> /\ offset = 1
    /\ headers = <<>>
-----------------------------------------------------------------------------
(* getNextToken: the text up to the delimiter, and the position after it.  *)
NextTokenStays(text, del, from) ==
    LET found == Occurrences(text, del, from)
    IN IF found = {}
         THEN [token |-> SubSeq(text, from, Len(text)), after |-> from]
         ELSE [token |-> SubSeq(text, from, First(found) - 1),
               after |-> First(found) + Len(del)]

NextToken(text, del, from) ==
    LET found == Occurrences(text, del, from)
    IN IF found = {}
         THEN [token |-> SubSeq(text, from, Len(text)), after |-> Len(text) + 1]
         ELSE [token |-> SubSeq(text, from, First(found) - 1),
               after |-> First(found) + Len(del)]

RequestLine(text) ==
    LET method  == NextToken(text, Space, 1)
        uri     == NextToken(text, Space, method.after)
        version == NextToken(text, Space, uri.after)
    IN  <<method.token, uri.token, version.token>>

(* Without a line break there is no request.                               *)
CreateRequest ==
    /\ pc = "create"
    /\ \E text \in {Block(written)} : \E ends \in {Occurrences(text, Crlf, 1)} :
          IF ends = {}
            THEN pc' = "rejected" /\ UNCHANGED <<line, rest>>
            ELSE /\ line' = RequestLine(SubSeq(text, 1, First(ends) - 1))
                 /\ rest' = SubSeq(text, First(ends) + Len(Crlf), Len(text))
                 /\ pc' = "headers"
    /\ UNCHANGED <<written, offset, headers>>

Header == NextToken(rest, Crlf, offset)

(* unordered_map::insert keeps what is there under the key.                *)
Assigned(map, key, value) ==
    [k \in DOMAIN map \cup {key} |-> IF k = key THEN value ELSE map[k]]
Inserted(map, key, value) ==
    [k \in DOMAIN map \cup {key} |-> IF k \in DOMAIN map THEN map[k] ELSE value]

ParseHeader ==
    /\ pc = "headers"
    /\ Header.token # <<>>
    /\ LET key == NextToken(Header.token, Colon, 1)
       IN headers' = Inserted(headers, key.token,
                              SubSeq(Header.token, key.after, Len(Header.token)))
    /\ offset' = Header.after
    /\ UNCHANGED <<written, pc, line, rest>>

EndOfHeaders ==
    /\ pc = "headers"
    /\ Header.token = <<>>
    /\ pc' = "done"
    /\ offset' = Header.after
    /\ UNCHANGED <<written, line, rest, headers>>

Next == CreateRequest \/ ParseHeader \/ EndOfHeaders

Spec == Init /\ [][Next]_vars /\ WF_vars(Next)
-----------------------------------------------------------------------------
(* Every position the parser takes a text from is in the text or right     *)
(* behind it, so that no substring is out of range (HttpRequest.cpp:40-52).*)
TypeOK ==
    /\ written \in Requests
    /\ pc \in {"create", "headers", "done", "rejected"}
    /\ line = <<>> \/ Len(line) = 3
    /\ offset \in 1..(Len(rest) + 1)
    /\ DOMAIN headers \subseteq {written.fields[n][1] : n \in 1..Len(written.fields)}

(* The value a client gave to a key first.                                 *)
FirstValue(key) ==
    LET places == {n \in 1..Len(written.fields) : written.fields[n][1] = key}
    IN  written.fields[First(places)][2]

(* The parser finds the request that was written: its three parts, and     *)
(* under each key the first value it was given, whatever spaces, colons    *)
(* and empty values there are (HttpRequest.cpp:40-105).                    *)
ReadsWhatWasWritten ==
    pc = "done" =>
        /\ line = <<written.method, written.uri, written.version>>
        /\ DOMAIN headers = {written.fields[n][1] : n \in 1..Len(written.fields)}
        /\ \A key \in DOMAIN headers : headers[key] = FirstValue(key)

(* The loop of parseHeaders ends: every header it takes moves the offset,  *)
(* and the end of the text reads as an empty line (HttpRequest.cpp:77).    *)
ParsingEnds == <>(pc \in {"done", "rejected"})
=============================================================================
