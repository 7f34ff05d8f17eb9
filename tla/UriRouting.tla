----------------------------- MODULE UriRouting -----------------------------
(***************************************************************************)
(* How a request finds its resolver: HttpServer::addResolver, get and      *)
(* getResolver over one UriMapper per method, which maps regular           *)
(* expressions to resolvers in an unordered_map.                           *)
(*                                                                         *)
(* A URI is a sequence of characters.  A regular expression, as            *)
(* UriMapper::add makes it, is a sequence of atoms: a character, behind a  *)
(* backslash where sanitizeForRegex puts one (a "." it leaves alone, which *)
(* matches any), or the group (\/.*|$) that stands for a wildcard.         *)
(***************************************************************************)
EXTENDS StdString

CONSTANTS Methods,         \* HttpProtocol::supportedHttpMethods
          Unsupported,     \* other methods a client may ask with
          Get,             \* one of them
          Uris,            \* URIs that resolvers are added for
          Resolvers,       \* resolvers
          None,            \* no resolver
          Requested,       \* URIs that are asked for
          MaxAdded         \* model bound: calls that add a resolver

VARIABLES resolvers,            \* resolvers[m]: a function from expressions to resolvers
          defaultGetResolver,   \* what get("*") was called with
          added,                \* history: the calls of get, post, ...
          found                 \* what was asked since, and answered

vars == <<resolvers, defaultGetResolver, added, found>>

Star == <<"*">>
Calls == [method : Methods, uri : Uris, resolver : Resolvers]

(* found, before anything was asked.                                       *)
NotAsked == [method |-> None, uri |-> <<>>, resolver |-> None,
             expression |-> <<>>, parameters |-> {}]

Init ==
    /\ resolvers = [m \in Methods |-> <<>>]
    /\ defaultGetResolver = None
    /\ added = <<>>
    /\ found = NotAsked
-----------------------------------------------------------------------------
(* sanitizeForRegex, and sanitizeExceptWildcardForRegex.                   *)
Brackets == {"[", "]", "/", "?"}
Special == Brackets \cup {"*"}
Pair(c) == CASE c = "[" -> "\\[" [] c = "]" -> "\\]" [] c = "*" -> "\\*"
             [] c = "/" -> "\\/" [] c = "?" -> "\\?"
Escaped(c, special) == IF c \in special THEN Pair(c) ELSE c

CreateExactMatch(uri) == [i \in 1..Len(uri) |-> Escaped(uri[i], Special)]

(* formatEx: a call replaces the first \/* by the group and applies itself *)
(* to the result, until there is none.  (The template of an exact match    *)
(* adds only ^ and $, which std::regex_match implies.)                     *)
Group == "(\\/.*|$)"
Separator == <<"\\/", "*">>

(* A URI is made of characters.  One that is added has at most one         *)
(* wildcard, and then no other *.                                          *)
RoutingAssumption ==
    /\ Get \in Methods
    /\ Methods \cap Unsupported = {}
    /\ None \notin Resolvers \cup Methods \cup Unsupported
    /\ MaxAdded \in Nat
    /\ \A uri \in Uris \cup Requested :
          /\ uri \in Seq({uri[i] : i \in DOMAIN uri})
          /\ \A i \in DOMAIN uri : uri[i] \notin {Pair(c) : c \in Special} \cup {Group}
    /\ \A uri \in Uris : \A i \in 2..Len(uri) :
          uri[i] = "*" /\ uri[i - 1] = "/" => \A j \in 1..Len(uri) : uri[j] = "*" => j = i

SeparatorsInside(str) == Occurrences(SubSeq(str, 1, Len(str) - 1), Separator, 1)
Separators(str) == Occurrences(str, Separator, 1)

ReplaceFirst(str) ==
    LET token == First(Separators(str))
    IN  SubSeq(str, 1, token - 1) \o <<Group>>
          \o SubSeq(str, token + Len(Separator), Len(str))

FormatEx(str) ==
    LET Call[n \in 0..Len(str)] ==
          IF n = 0 THEN str
          ELSE LET given == Call[n - 1]
               IN  IF Separators(given) = {} THEN given ELSE ReplaceFirst(given)
    IN  Call[Len(str)]

CreateWithWildcard(uri) == FormatEx([i \in 1..Len(uri) |-> Escaped(uri[i], Brackets)])

(* A wildcard is the first * of the URI, if a / is before it.              *)
ContainsWildcard(uri) ==
    \E i \in 2..Len(uri) : /\ uri[i] = "*" /\ uri[i - 1] = "/"
                           /\ \A j \in 1..(i - 1) : uri[j] # "*"

Expression(uri) ==
    IF ContainsWildcard(uri) THEN CreateWithWildcard(uri) ELSE CreateExactMatch(uri)

(* insert_or_assign.                                                       *)
Kept(map, key, value) ==
    [k \in DOMAIN map \cup {key} |-> IF k \in DOMAIN map THEN map[k] ELSE value]
Assigned(map, key, value) ==
    [k \in DOMAIN map \cup {key} |-> IF k = key THEN value ELSE map[k]]

(* HttpServer::get for "*" stores its resolver elsewhere.                  *)
Add(call) ==
    /\ Len(added) < MaxAdded
    /\ added' = Append(added, call)
    /\ IF call.method = Get /\ call.uri = Star
         THEN /\ defaultGetResolver' = call.resolver
              /\ UNCHANGED resolvers
         ELSE /\ resolvers' = [resolvers EXCEPT ![call.method] =
                                 Assigned(@, Expression(call.uri), call.resolver)]
              /\ UNCHANGED defaultGetResolver
    /\ found' = NotAsked

(* std::regex_match: from the places in From[a] on, the atoms from a on    *)
(* match all the rest of the characters.                                   *)
Matches(expression, uri) ==
    LET n == Len(expression)
        m == Len(uri)
        From[a \in 1..(n + 1)] ==
          IF a > n THEN {m + 1}
          ELSE IF expression[a] = Group
            THEN (From[a + 1] \cap {m + 1})
                   \cup {i \in 1..m : uri[i] = "/" /\ \E j \in From[a + 1] : i < j}
            ELSE {i \in 1..m : /\ expression[a] \in {".", Escaped(uri[i], Special)}
                               /\ i + 1 \in From[a + 1]}
    IN  1 \in From[1]

(* A method without a map has no resolvers.                                *)
Candidates(method, uri) ==
    {e \in UNION {DOMAIN resolvers[m] : m \in Methods \cap {method}} : Matches(e, uri)}

(* computeUriParameters, for an expression with one group, which begins    *)
(* and ends where the characters around it leave it.  The text from the    *)
(* group on is cut at the first occurrence of the text behind it, and the  *)
(* part from there on is kept.                                             *)
Groups(expression) == {a \in 1..Len(expression) : expression[a] = Group}
GroupEnd(expression, uri, a) == Len(uri) - (Len(expression) - a)

Parameter(expression, uri, a) ==
    LET param     == SubSeq(uri, a, Len(uri))
        postParam == SubSeq(uri, GroupEnd(expression, uri, a) + 1, Len(uri))
    IN  IF postParam = <<>> THEN param
        ELSE SubSeq(param, First(Occurrences(param, postParam, 1)), Len(param))

UriParameters(expression, uri) ==
    {Parameter(expression, uri, a) : a \in Groups(expression)}

(* UriMapper::match returns the first that matches, in the order of the    *)
(* unordered_map, which is any order.  Without one there is no resolver,   *)
(* and the handler takes defaultResolver.                                  *)
GetResolver(method, uri) ==
    /\ \/ /\ Candidates(method, uri) = {}
          /\ found' = [NotAsked EXCEPT !.method = method, !.uri = uri]
       \/ \E e \in Candidates(method, uri) :
             found' = [method |-> method, uri |-> uri,
                       resolver |-> resolvers[method][e], expression |-> e,
                       parameters |-> UriParameters(e, uri)]
    /\ UNCHANGED <<resolvers, defaultGetResolver, added>>

Next == \/ \E call \in Calls : Add(call)
        \/ \E method \in Methods \cup Unsupported, uri \in Requested : GetResolver(method, uri)

Spec == Init /\ [][Next]_vars
-----------------------------------------------------------------------------
(* The keys are regular expressions in which every * is behind a backslash *)
(* or in the group: none repeats the character before it                   *)
(* (Strings.cpp:7-12, UriMapper.cpp:35-43).                                *)
TypeOK ==
    /\ DOMAIN resolvers = Methods
    /\ \A m \in Methods : \A e \in DOMAIN resolvers[m] :
          /\ resolvers[m][e] \in Resolvers
          /\ \A a \in DOMAIN e : e[a] \notin Special
    /\ defaultGetResolver \in Resolvers \cup {None}
    /\ added \in Seq(Calls)
    /\ found.method \in Methods \cup Unsupported \cup {None}
    /\ found.resolver \in Resolvers \cup {None}

(* The URIs that a URI with at most one wildcard stands for:               *)
(* "/test/ * = /test or /test/<any character set possible>", and           *)
(* "/test/ * /hello = /test/<any character set possible>/hello"            *)
(* (UriMapper.hpp:42-43); itself, without a wildcard (UriMapper.hpp:30).   *)
Before(uri, i) == SubSeq(uri, 1, i - 1)
After(uri, i)  == SubSeq(uri, i + 2, Len(uri))

EndsInWildcard(uri) == ContainsWildcard(uri) /\ uri[Len(uri)] = "*"

Covers(pattern, uri) ==
    IF ~ContainsWildcard(pattern) THEN pattern = uri
    ELSE \E i \in {k \in 1..(Len(pattern) - 1) : pattern[k + 1] = "*"} :
           \/ After(pattern, i) = <<>> /\ uri = Before(pattern, i)
           \/ \E middle \in {SubSeq(uri, i, k) : k \in i..Len(uri)} :
                /\ Head(middle) = "/"
                /\ uri = Before(pattern, i) \o middle \o After(pattern, i)

InMapper(call) == call.method # Get \/ call.uri # Star
Asked == found.method # None
AnswersTo(n) == /\ added[n].method = found.method
                /\ InMapper(added[n]) /\ Covers(added[n].uri, found.uri)

(* A resolver that is found was added for that method and for a URI that   *)
(* covers the one asked for, and has not been replaced by a later call for *)
(* the same URI; and the parameter of a wildcard at its end is what the    *)
(* wildcard stands for (UriMapper.cpp:6-72, Strings.hpp:36-65,             *)
(* HttpServer.cpp:105-125, HttpRequest.cpp:117-146).                       *)
FoundIsRight ==
    found.resolver # None =>
        \E n \in 1..Len(added) :
            /\ AnswersTo(n) /\ added[n].resolver = found.resolver
            /\ \A m \in (n + 1)..Len(added) :
                  <<added[m].method, added[m].uri>> # <<added[n].method, added[n].uri>>
            /\ EndsInWildcard(added[n].uri) =>
                  found.parameters = {SubSeq(found.uri, Len(added[n].uri) - 1, Len(found.uri))}

(* A resolver that covers what is asked for is not overlooked, be it by    *)
(* the expression made of its URI, or because its expression is taken for  *)
(* another's (UriMapper.cpp:35-56, HttpServer.cpp:105-125).                *)
NothingMissed ==
    Asked /\ found.resolver = None => ~ \E n \in 1..Len(added) : AnswersTo(n)
=============================================================================
