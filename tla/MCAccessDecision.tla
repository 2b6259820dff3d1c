--------------------------- MODULE MCAccessDecision ---------------------------
(* Patterns and paths for TLC: every sequence of a few segments. *)
EXTENDS AccessDecision

SeqsUpTo(S, n) == UNION {[1 .. k -> S] : k \in 1 .. n}

MCForbidden == {"a b"}
MCWidth(segment) == CASE segment = "" -> 0 [] segment = ".." -> 2 [] segment = "a b" -> 3 [] OTHER -> 1
MCMaxLength == 7   \* four one-byte segments

MCPatterns == SeqsUpTo({"a", "b", "*", "**"}, 3) \cup {<<"">>, <<"", "a", "**", "">>, <<"", "", "*", "b">>}
MCRawPaths == SeqsUpTo({"", "..", "a", "b"}, 4) \cup {<<"a", "a", "b", "a", "b">>, <<"a", "a b">>, <<"a", ".">>}
OneList == {{"n1"}}
OneAccountList == {{"s1"}}
OneCaller == [namespace : {"n1"}, serviceAccount : {"s1"}]

BindingPatterns == {<<"**">>}
BindingPaths == {<<"a">>, <<"a", "b">>}
BindingLists == SUBSET {"n1", "*"}
BindingAccountLists == SUBSET {"s1", "*"}
BindingCallers == [namespace : {"n1", "n2"}, serviceAccount : {"s1", "s2"}]
===============================================================================
