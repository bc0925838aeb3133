---------------------------- MODULE MCPdefFilter ----------------------------
(* Small definitions for PdefFilter: each family of files exercises one part *)
(* of the language, and MCFiles is all of them.                              *)
EXTENDS PdefFilter

Plain(type, size, name) ==
    [type |-> type, size |-> size, name |-> name, of |-> "", is_array |-> FALSE, array_size |-> 1]
Nest(of, name) ==
    [type |-> "nested", size |-> 0, name |-> name, of |-> of, is_array |-> FALSE, array_size |-> 1]
Array(of, name, n) == [Nest(of, name) EXCEPT !.is_array = TRUE, !.array_size = n]

Protocol(e) == [kind |-> "protocol", endian |-> e]
Const(n, v) == [kind |-> "const", name |-> n, value |-> v]
Struct(n, fs) == [kind |-> "struct", name |-> n, fields |-> fs]
Malformed == [kind |-> "malformed"]

Num(n) == [const |-> "", num |-> n]
Name(c) == [const |-> c, num |-> 0]
Cond(path, op, v) ==
    [path |-> path, op |-> op, mask |-> Num(0), value |-> v, values |-> <<>>]
CondMask(path, m, v) == [Cond(path, "mask", v) EXCEPT !.mask = m]
CondList(path, op, vs) == [Cond(path, op, Num(0)) EXCEPT !.values = vs]
Filter(cs) == [kind |-> "filter", conds |-> cs, sliding |-> FALSE, sliding_max |-> 0]
Sliding(cs, max) == [Filter(cs) EXCEPT !.sliding = TRUE, !.sliding_max = max]

P(n) == <<Seg(n, 0)>>
H == Struct("H", <<Plain("uint", 1, "a"), Plain("uint", 2, "b")>>)
S == Struct("S", <<Plain("int", 1, "a"), Plain("int", 2, "b")>>)

\* Operators and lists, on unsigned and signed fields, alone and in pairs.
Conds ==
    {Cond(P("b"), op, Num(v)) : op \in {"eq", "ne", "gt", "ge", "lt", "le"}, v \in {0, 6}}
    \cup {CondMask(P("b"), Num(5), Num(4)), CondMask(P("a"), Num(2), Num(2))}
    \cup {CondList(P("b"), op, vs) : op \in {"in", "not_in"},
             vs \in {<<Num(1)>>, <<Num(1), Num(4)>>, <<Num(0), Num(4), Num(9)>>}}
FilesOps ==
    {<<s, Filter(<<c>>)>> : s \in {H, S}, c \in Conds}
    \cup {<<S, Filter(<<Cond(P("a"), op, Num(254))>>)>> : op \in {"eq", "ne"}}
    \cup {<<H, Filter(<<Cond(P("a"), "ge", Num(1)), c>>)>> : c \in Conds}
    \cup {<<H, Filter(<<c, Cond(P("a"), "ne", Num(2))>>)>> : c \in Conds}

\* Nesting, arrays and variable-length fields, in and out of order.
V == Struct("V", <<Plain("uint", 1, "v"), Plain("varbytes", 0, "w")>>)
Outers ==
    {Struct("O", <<Nest("H", "h"), Plain("uint", 1, "z")>>),
     Struct("O", <<Plain("uint", 1, "z"), Array("H", "h", 2), Plain("uint", 2, "y")>>),
     Struct("O", <<Plain("bytes", 2, "z"), Nest("V", "v")>>),
     Struct("O", <<Nest("V", "v"), Plain("uint", 1, "z")>>),
     Struct("O", <<Array("V", "v", 2)>>),
     Struct("O", <<Array("H", "h", 0), Plain("uint", 1, "z")>>),
     Struct("O", <<Plain("varbytes", 0, "w"), Plain("uint", 1, "z")>>),
     Struct("O", <<[Plain("uint", 1, "z") EXCEPT !.is_array = TRUE]>>),
     Struct("O", <<Plain("uint", 1, "z"), Nest("X", "x")>>),
     Struct("O", <<Plain("uint", 1, "z"), Nest("O", "o")>>)}
Deep == Struct("D", <<Plain("uint", 1, "d"), Array("O", "o", 2)>>)
FilesLayout ==
    UNION {{<<H, V, o, Filter(<<Cond(P("z"), "eq", Num(1))>>)>>,
            <<H, V, o, Deep, Filter(<<Cond(P("d"), "eq", Num(1))>>)>>,
            <<o, H, V, Filter(<<Cond(P("z"), "eq", Num(1))>>)>>} : o \in Outers}
    \cup {<<H, Outer, Filter(<<Cond(<<Seg("h", 0), Seg("b", 0)>>, "eq", Num(1)),
                               Cond(P("z"), "ne", Num(0))>>)>> : Outer \in Outers}

\* Constants, several rules, windows, and what is rejected.
FilesRules ==
    {<<Const("C", 1), H, Filter(<<Cond(P("a"), "eq", Name("C"))>>), Const("C", 2),
       Filter(<<Cond(P("a"), "eq", Name("C"))>>)>>,
     <<H, Filter(<<Cond(P("a"), "eq", Name("C"))>>), Const("C", 2)>>,
     <<Const("C", 1), H, Filter(<<CondList(P("a"), "in", <<Num(3), Name("C")>>)>>)>>,
     <<Const("C", 1), H, Filter(<<CondMask(P("a"), Name("C"), Name("C"))>>)>>,
     <<H, Filter(<<>>)>>, <<H>>, <<H, Malformed>>, <<Protocol("middle"), H>>,
     <<H, Filter(<<Cond(P("q"), "eq", Num(1))>>)>>,
     <<H, Filter(<<Cond(P("a"), "eq", Num(1)), Cond(P("v"), "eq", Num(1))>>), V>>,
     <<H, Filter(<<Cond(P("a"), "eq", Num(1))>>), Filter(<<Cond(P("a"), "eq", Num(2))>>),
       Filter(<<Cond(P("a"), "eq", Num(3))>>)>>}
    \cup {<<Protocol(e), V, Sliding(<<Cond(P("v"), "eq", Num(2))>>, m)>> :
             e \in {"big", "auto"}, m \in 0..2}
    \cup {<<Protocol(e), H, Sliding(<<Cond(P("a"), "eq", Num(1)), Cond(P("b"), "ge", Num(4))>>, m)>> :
             e \in {"big", "auto"}, m \in 0..2}

\* Where the endianness is declared, and what a writeback does to it; a struct
\* with fields of both.
W == Filter(<<Cond(P("b"), "eq", Num(1))>>)
L == Struct("L", <<Plain("uint", 2, "l")>>)
Both == Struct("B", <<Plain("uint", 1, "z"), Nest("L", "n")>>)
OnBoth == Filter(<<Cond(P("z"), "ge", Num(1)), Cond(<<Seg("n", 0), Seg("l", 0)>>, "eq", Num(6))>>)
FilesEndian ==
    {<<Protocol(e), H, W>> : e \in {"big", "little", "auto", "none"}}
    \cup {<<H, Protocol(e), W>> : e \in {"big", "little", "auto", "none"}}
    \cup {<<Protocol(e), H, Protocol(g), W>> : e \in {"none", "auto", "little"}, g \in {"none", "auto", "big"}}
    \cup {<<H, W, Sliding(<<Cond(P("b"), "eq", Num(6))>>, 0)>>}
    \cup {<<Protocol("little"), L, Protocol(e), Both, OnBoth>> : e \in {"big", "auto"}}

MCFiles == FilesOps \cup FilesLayout \cup FilesRules \cup FilesEndian
MCLittle == {<<Protocol("little"), H, W>>}

Bytes == 0..(Base - 1)
MCProbes == UNION {[1..n -> Bytes] : n \in 0..3}
MCPackets == {<<0, 0, 1>>, <<0, 1, 0>>, <<1, 2, 1>>}
=============================================================================
