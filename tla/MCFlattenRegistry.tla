-------------------------- MODULE MCFlattenRegistry --------------------------
(***************************************************************************)
(* Five paths: two share the base name "a", a third has as its base name    *)
(* the suffixed name of those, the fourth clashes with a metadata column,   *)
(* the fifth with body_unmapped.  Three columns fit.                        *)
(***************************************************************************)
EXTENDS FlattenRegistry

MCPaths == {"a.x", "a-x", "a.x.2", "type", "unmapped"}

\* A name is its base with the suffixes put on it.
MCColumnNameFor ==
    [p \in MCPaths |-> CASE p \in {"a.x", "a-x"} -> <<"ax">> [] p = "a.x.2" -> <<"ax", 2>>
                         [] OTHER -> <<p>>]
MCSuffixed == [b \in Bases |-> [n \in SuffixNumbers |-> Append(b, n)]]
MCReserved == {<<"type">>}
MCUnmapped == <<"unmapped">>
MCBodyColumn == <<"body">>
MCNames == {MCBodyColumn} \cup MCReserved \cup {MCUnmapped} \cup Range(MCColumnNameFor) \cup UNION {Range(MCSuffixed[b]) : b \in Bases}

Body(fields) == [access |-> "ok", type |-> "DATA", json |-> TRUE, fields |-> fields, size |-> 1]
MCMessages ==
    {Body(<<"a.x">>), Body(<<"a-x", "a.x">>), Body(<<"a.x.2">>), Body(<<"type", "unmapped">>), Body(<<>>),
     [Body(<<"a.x.2">>) EXCEPT !.type = "VALUE", !.json = FALSE],
     [Body(<<"a.x">>) EXCEPT !.access = "raises"], [Body(<<>>) EXCEPT !.json = FALSE],
     [Body(<<"type">>) EXCEPT !.size = 9], [Body(<<"a.x.2", "a.x">>) EXCEPT !.size = 2]}
==============================================================================
