------------------------------ MODULE Streams -------------------------------
(***************************************************************************)
(* IStream::readUntilToken and injectBuffer of both streams, next to peek, *)
(* with which they share leftoverBuffer.  The server itself does not call  *)
(* them.                                                                   *)
(*                                                                         *)
(* readUntilToken reads chunks and looks for the token in what it has:     *)
(* PlainStream in all of it, SSLStream in its chunk, a string of fixed     *)
(* length, of which the bytes of the last call stay behind the new ones.   *)
(***************************************************************************)
EXTENDS StdString, Integers

CONSTANTS Characters,  \* what texts are made of
          Texts,       \* what a peer may send
          Token,
          Injected,    \* what a caller injects
          ChunkSize,   \* 1024
          Nul,         \* the byte a new chunk is filled with
          MaxLeftover  \* model bound: bytes that are peeked at or injected

(* A token is a string of at least one character, none of them NUL.        *)
StreamAssumption ==
    /\ Texts \cup {Token, Injected} \subseteq Seq(Characters) /\ Nul \in Characters
    /\ Token # <<>> /\ ~Has(Token, <<Nul>>)
    /\ ChunkSize \in Nat \ {0} /\ MaxLeftover \in Nat

VARIABLES kind,      \* "plain" or "tls"
          coming,    \* bytes the peer has not sent yet
          socket,    \* bytes that have arrived
          eof,       \* the peer has closed its side
          leftover,  \* leftoverBuffer
          pc,        \* "rest", "reading", "returned", "threw"
          buffer,    \* local variables of readUntilToken
          chunk,
          chunks,    \* how many times its loop has turned
          result,    \* what it returned
          start      \* history: the stream and leftoverBuffer when it was called

arrival == <<coming, socket, eof>>
vars == <<kind, arrival, leftover, pc, buffer, chunk, chunks, result, start>>

Stream == socket \o coming
Blank == [i \in 1..ChunkSize |-> Nul]
Up(text, n) == SubSeq(text, 1, n)
From(text, n) == SubSeq(text, n, Len(text))

Init ==
    /\ kind \in {"plain", "tls"}
    /\ coming \in Texts /\ socket = <<>> /\ eof = FALSE
    /\ leftover = <<>> /\ pc = "rest"
    /\ buffer = <<>> /\ chunk = Blank /\ chunks = 0
    /\ result = <<>> /\ start = [stream |-> coming, leftover |-> <<>>]
-----------------------------------------------------------------------------
Peer ==
    /\ ~eof
    /\ \/ \E n \in 1..Len(coming) :
             /\ socket' = socket \o Up(coming, n)
             /\ coming' = From(coming, n + 1)
             /\ UNCHANGED eof
       \/ coming = <<>> /\ eof' = TRUE /\ UNCHANGED <<coming, socket>>
    /\ UNCHANGED <<kind, leftover, pc, buffer, chunk, chunks, result, start>>

Peek(amount) ==
    /\ pc = "rest" /\ Len(leftover) < amount
    /\ LET n == IF Len(socket) < amount - Len(leftover) THEN Len(socket) ELSE amount - Len(leftover)
       IN  /\ leftover' = leftover \o Up(socket, n)
           /\ socket' = From(socket, n + 1)
    /\ UNCHANGED <<kind, coming, eof, pc, buffer, chunk, chunks, result, start>>

(* SSLStream leaves it to IStream, where it does nothing.                  *)
InjectBuffer(data) ==
    /\ kind = "plain" /\ pc = "rest" /\ Len(leftover) + Len(data) <= MaxLeftover
    /\ leftover' = data \o leftover
    /\ UNCHANGED <<kind, arrival, pc, buffer, chunk, chunks, result, start>>

ReadUntilToken ==
    /\ pc = "rest"
    /\ pc' = "reading"
    /\ buffer' = <<>> /\ chunk' = Blank /\ chunks' = 0
    /\ start' = [stream |-> Stream, leftover |-> leftover]
    /\ UNCHANGED <<kind, arrival, leftover, result>>

(* Cut at the token, which is left out.                                    *)
BehindToken(place) == place + Len(Token)

Return(whole, place) ==
    /\ result' = Up(whole, place - 1)
    /\ leftover' = leftover \o From(whole, BehindToken(place))
    /\ pc' = "returned"

Goes == pc' = "reading" /\ UNCHANGED <<leftover, result>>

(* Where PlainStream looks for the token.                                  *)
SearchedChunk(all, got) == got
Searched(all, got) == all

PlainChunk ==
    /\ kind = "plain" /\ pc = "reading" /\ socket # <<>>
    /\ LET n == IF Len(socket) < ChunkSize THEN Len(socket) ELSE ChunkSize
           whole == buffer \o Up(socket, n)
           found == Occurrences(Searched(whole, Up(socket, n)), Token, 1)
       IN  /\ buffer' = whole
           /\ socket' = From(socket, n + 1)
           /\ IF found # {} THEN Return(whole, First(found)) ELSE Goes
    /\ chunks' = chunks + 1
    /\ UNCHANGED <<kind, coming, eof, chunk, start>>

(* What has been read before the error is lost with the buffer; nothing of *)
(* it is put in leftoverBuffer.                                            *)
PlainFails ==
    /\ kind = "plain" /\ pc = "reading" /\ socket = <<>> /\ ~eof
    /\ pc' = "threw"
    /\ UNCHANGED <<kind, arrival, leftover, buffer, chunk, chunks, result, start>>

PlainEof ==
    /\ kind = "plain" /\ pc = "reading" /\ socket = <<>> /\ eof
    /\ result' = buffer /\ pc' = "returned"
    /\ UNCHANGED <<kind, arrival, leftover, buffer, chunk, chunks, start>>

(* SSL_read_ex gives what is in one record.  The position found in the     *)
(* chunk is then used in the whole.                                        *)
TlsChunk ==
    /\ kind = "tls" /\ pc = "reading" /\ socket # <<>>
    /\ \E n \in 1..Len(socket) :
          /\ n <= ChunkSize
          /\ LET filled == Up(socket, n) \o From(chunk, n + 1)
                 found  == Occurrences(filled, Token, 1)
             IN  /\ chunk' = filled
                 /\ buffer' = buffer \o filled
                 /\ IF found # {} THEN Return(buffer', First(found)) ELSE Goes
          /\ socket' = From(socket, n + 1)
    /\ chunks' = chunks + 1
    /\ UNCHANGED <<kind, coming, eof, start>>

(* Without the token its position is npos, and what is behind that in the  *)
(* buffer is no range: the vector made of it is refused or made of bytes   *)
(* that are not its own.  It is the end of what is modelled.               *)
TlsFails ==
    /\ kind = "tls" /\ pc = "reading" /\ socket = <<>>
    /\ pc' = "threw"
    /\ UNCHANGED <<kind, arrival, leftover, buffer, chunk, chunks, result, start>>

Rest ==
    /\ pc = "returned"
    /\ pc' = "rest" /\ result' = <<>> /\ buffer' = <<>> /\ chunk' = Blank /\ chunks' = 0
    /\ UNCHANGED <<kind, arrival, leftover, start>>

Next ==
    \/ Peer \/ Peek(MaxLeftover) \/ InjectBuffer(Injected) \/ ReadUntilToken
    \/ PlainChunk \/ PlainFails \/ PlainEof \/ TlsChunk \/ TlsFails \/ Rest
-----------------------------------------------------------------------------
TypeOK ==
    /\ kind \in {"plain", "tls"} /\ eof \in BOOLEAN
    /\ pc \in {"rest", "reading", "returned", "threw"}
    /\ Len(chunk) = ChunkSize
    /\ Len(buffer) <= chunks * ChunkSize

(* What readUntilToken returns is the text in front of the first token,    *)
(* wherever the chunks were cut, and what is behind it follows what was    *)
(* left over before; at the end of the stream it is all there was.  Over   *)
(* TLS this is so when the first chunk holds the token, but for the bytes  *)
(* of the chunk that were not read (PlainStream.cpp:38-69,                 *)
(* SSLStream.cpp:47-85).                                                   *)
ReturnsUpToToken ==
    pc = "returned" /\ (kind = "plain" \/ chunks = 1) =>
        LET found == Occurrences(start.stream, Token, 1)
            added == From(leftover, Len(start.leftover) + 1)
            behind == From(start.stream, First(found) + Len(Token))
            read  == Len(behind) - Len(Stream)
        IN  IF found = {}
              THEN result = start.stream /\ added = <<>>
              ELSE /\ result = Up(start.stream, First(found) - 1)
                   /\ Up(leftover, Len(start.leftover)) = start.leftover
                   /\ Up(added, read) = Up(behind, read)
                   /\ kind = "plain" => Len(added) = read
                   /\ \A i \in (read + 1)..Len(added) : added[i] = Nul
=============================================================================
