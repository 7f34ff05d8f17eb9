------------------------------ MODULE MCParts ------------------------------
(***************************************************************************)
(* The texts, URIs and bodies with which TLC checks Parts.                 *)
(***************************************************************************)
EXTENDS Parts

SmallCharacters == {"\r\n", " ", ":", "/", "G", "u", "1", "k", "e", "v", "w",
                    "a", "b", "i", "n", "r", "NUL"}

(* Spaces, colons and nothing at all where the grammar allows them.        *)
SmallMethodTexts  == {<<"G">>}
SmallUriTexts     == {<<"/">>, <<"/", ":", "u">>}
SmallVersionTexts == {<<"1">>}
SmallKeyTexts     == {<<"k">>, <<"k", "e">>, <<":", "k">>}
SmallValueTexts   == {<<>>, <<" ", "v">>, <<"v", ":", " ", "w">>, <<":">>}

(* Wildcards at the end, inside, and a * that is none; URIs on both sides  *)
(* of what they cover.                                                     *)
Root  == <<"/">>
A     == <<"/", "a">>
AB    == <<"/", "a", "/", "b">>
AStar == <<"/", "a", "*">>
Any   == <<"/", "*">>
AAny  == <<"/", "a", "/", "*">>
AnyB  == <<"/", "*", "/", "b">>
AAnyB == <<"/", "a", "/", "*", "/", "b">>
AABB  == <<"/", "a", "/", "a", "/", "b">>
ABAB  == <<"/", "a", "/", "b", "a", "/", "b">>
AxB   == <<"/", "a", "b">>

SmallAddedUris     == {A, AStar, Any, AAny, AnyB, AAnyB, <<"*">>}
SmallRequestedUris == {Root, A, AB, AStar, AABB, ABAB, AxB, <<"*">>, <<>>}

(* What is in memory behind a body: nothing, or a byte.                    *)
SmallBehind == {<<>>, <<"a">>}

(* Two builders for one port, and another port.                            *)
SmallPortOf       == [b \in {"b1", "b2"} |-> "http"]
SmallThreadCounts == -1..2

(* The token at the beginning, at the end, twice, cut by a chunk, cut      *)
(* short, and not there.                                                   *)
SmallPeerTexts == {<<"a", "a", "r", "n", "b">>, <<"a", "r", "n", "r", "n">>,
                   <<"r", "r", "n", "a">>, <<"r", "n">>, <<"a", "r", "a", "n">>}
SmallToken    == <<"r", "n">>
SmallInjected == <<"i">>
=============================================================================
