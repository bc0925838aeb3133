------------------------------ MODULE PdefLang ------------------------------
(* The PDEF language as functions: the block parser and the rule compiler    *)
(* of src/pdef/parser.c, and the bytecode executor and packet matcher of     *)
(* src/runtime. A definition is a sequence of blocks; what the tokens of a   *)
(* block say is its record, and a block the grammar rejects is "malformed".  *)
(* Bytes are 0..Base-1 (Base is 256 in the code), the accumulator holds      *)
(* AccBytes bytes (8 in the code).                                           *)
EXTENDS Integers, Sequences, SequencesExt

CONSTANTS Base,        \* values of a byte
          AccBytes,    \* bytes of the executor's accumulator
          MaxFilters,  \* temp_filter_rule_cap
          MaxStructs,  \* temp_struct_cap
          SizeLimit    \* values of a uint32_t, the type of sizes and offsets

ASSUME PdefAssumption ==
    /\ Base \in Nat \ {0, 1}
    /\ AccBytes \in Nat \ {0}
    /\ MaxFilters \in Nat
    /\ MaxStructs \in Nat
    /\ SizeLimit \in Nat

-----------------------------------------------------------------------------
(* Parsing: one block at a time into the parser's temporary tables. *)

\* A piece of a field path: a name with its index, 0 where it has none and
\* k + 1 for [k].
Seg(name, idx) == <<name, idx>>

ParserInit ==
    [ok |-> TRUE, default_endian |-> "big", endian_mode |-> "auto",
     constants |-> <<>>, structs |-> <<>>, rules |-> <<>>]

Rejected(p) == [p EXCEPT !.ok = FALSE]

\* endian = big | little | auto; a block that does not say leaves it as it was.
ParseProtocol(p, b) ==
    CASE b.endian = "none" -> p
      [] b.endian = "auto" -> [p EXCEPT !.default_endian = "big", !.endian_mode = "auto"]
      [] b.endian \in {"big", "little"} ->
            [p EXCEPT !.default_endian = b.endian, !.endian_mode = b.endian]
      [] OTHER -> Rejected(p)

\* The newest entry of a name hides the older ones: the list grows at its head.
ParseConst(p, b) ==
    [p EXCEPT !.constants = <<[name |-> b.name, value |-> b.value]>> \o @]

LookupConstant(p, name) == SelectInSeq(p.constants, LAMBDA c : c.name = name)

\* An operand is a number or the name of a constant.
Known(p, o) == o.const = "" \/ LookupConstant(p, o.const) # 0
ValueOf(p, o) ==
    IF o.const = "" THEN o.num ELSE p.constants[LookupConstant(p, o.const)].value

\* A field takes the endianness that is the default when its struct is parsed.
ParseField(d, endian) ==
    [path |-> IF d.type = "nested" THEN <<Seg(d.of, 0), Seg(d.name, 0)>>
                                   ELSE <<Seg(d.name, 0)>>,
     type |-> d.type, size |-> d.size, offset |-> 0, endian |-> endian,
     is_array |-> d.is_array, array_size |-> d.array_size]

\* The code checks no limit here: FitsParser says of a text that it has at most
\* the structs temp_structs has room for.
ParseStruct(p, b) ==
    LET fields == b.fields
        bad == \/ \E i \in 1..(Len(fields) - 1) : fields[i].type = "varbytes"
               \/ \E i \in DOMAIN fields :
                     /\ fields[i].is_array
                     /\ fields[i].type # "nested" \/ fields[i].array_size = 0
    IN IF bad THEN Rejected(p)
       ELSE [p EXCEPT !.structs = Append(@,
                [name |-> b.name, min_size |-> 0,
                 fields |-> [i \in DOMAIN fields |-> ParseField(fields[i], p.default_endian)],
                 has_variable |-> \E i \in DOMAIN fields : fields[i].type = "varbytes"])]

\* One condition: constants are replaced by their present values.
ParseCondition(p, c) ==
    [path |-> c.path, op |-> c.op, mask |-> ValueOf(p, c.mask), value |-> ValueOf(p, c.value),
     values |-> [i \in DOMAIN c.values |-> ValueOf(p, c.values[i])]]

ParseFilter(p, b) ==
    LET known(c) == /\ Known(p, c.mask)
                    /\ Known(p, c.value)
                    /\ \A i \in DOMAIN c.values : Known(p, c.values[i])
                    /\ c.op \in {"in", "not_in"} => c.values # <<>>
    IN IF Len(p.rules) >= MaxFilters \/ \E i \in DOMAIN b.conds : ~known(b.conds[i])
       THEN Rejected(p)
       ELSE [p EXCEPT !.rules = Append(@,
                [conds |-> [i \in DOMAIN b.conds |-> ParseCondition(p, b.conds[i])],
                 sliding |-> b.sliding, sliding_max |-> b.sliding_max])]

ParseBlock(p, b) ==
    CASE ~p.ok -> p
      [] p.ok /\ b.kind = "protocol" -> ParseProtocol(p, b)
      [] p.ok /\ b.kind = "const" -> ParseConst(p, b)
      [] p.ok /\ b.kind = "struct" -> ParseStruct(p, b)
      [] p.ok /\ b.kind = "filter" -> ParseFilter(p, b)
      [] OTHER -> Rejected(p)

-----------------------------------------------------------------------------
(* Flattening, in the order of definition: a struct that names a later one   *)
(* finds it as parsed, with min_size 0 and every offset 0.                   *)

FindStruct(structs, name) == SelectInSeq(structs, LAMBDA s : s.name = name)

ExpandNested(s, seg, base) ==
    [i \in DOMAIN s.fields |->
        [s.fields[i] EXCEPT !.path = <<seg>> \o @, !.offset = base + @]]

\* Mutant: an array of structs takes the room of one.
FlattenNestedOnce(structs, acc, f) ==
    LET at     == FindStruct(structs, f.path[1][1])
        s      == structs[at]
        repeat == IF f.is_array THEN f.array_size ELSE 1
        seg(k) == Seg(f.path[2][1], IF f.is_array THEN k ELSE 0)
    IN IF at = 0 THEN Rejected(acc)
       ELSE IF s.has_variable /\ repeat > 1 THEN Rejected(acc)
       ELSE [acc EXCEPT
               !.fields = @ \o FlattenSeq([k \in 1..repeat |->
                              ExpandNested(s, seg(k), acc.offset + (k - 1) * s.min_size)]),
               !.variable = s.has_variable,
               !.offset = @ + s.min_size]

\* acc is the struct flattened so far: fields, offset, variable, ok.
FlattenNested(structs, acc, f) ==
    LET at     == FindStruct(structs, f.path[1][1])
        s      == structs[at]
        repeat == IF f.is_array THEN f.array_size ELSE 1
        seg(k) == Seg(f.path[2][1], IF f.is_array THEN k ELSE 0)
    IN IF at = 0 THEN Rejected(acc)
       ELSE IF s.has_variable /\ repeat > 1 THEN Rejected(acc)
       ELSE [acc EXCEPT
               !.fields = @ \o FlattenSeq([k \in 1..repeat |->
                              ExpandNested(s, seg(k), acc.offset + (k - 1) * s.min_size)]),
               !.variable = s.has_variable,
               !.offset = @ + s.min_size * repeat]

FlattenField(structs, acc, f) ==
    CASE ~acc.ok \/ acc.variable -> Rejected(acc)
      [] acc.ok /\ ~acc.variable /\ f.type = "nested" -> FlattenNested(structs, acc, f)
      [] OTHER -> [acc EXCEPT !.fields = Append(@, [f EXCEPT !.offset = acc.offset]),
                              !.variable = (f.type = "varbytes"),
                              !.offset = IF f.type = "varbytes" THEN @ ELSE @ + f.size]

FlattenStruct(p, i) ==
    LET structs == [p.structs EXCEPT ![i].has_variable = FALSE]
        empty   == [ok |-> TRUE, fields |-> <<>>, offset |-> 0, variable |-> FALSE]
        flat    == FoldLeft(LAMBDA acc, f : FlattenField(structs, acc, f), empty,
                            p.structs[i].fields)
    IN IF ~p.ok \/ ~flat.ok THEN Rejected(p)
       ELSE [p EXCEPT !.structs[i] = [@ EXCEPT !.fields = flat.fields, !.min_size = flat.offset,
                                               !.has_variable = flat.variable]]

FlattenStructs(p) == FoldLeft(FlattenStruct, p, [i \in DOMAIN p.structs |-> i])

\* Texts whose structs fit into temp_structs and whose sizes and offsets, with a
\* load of up to eight bytes behind them, fit into a uint32_t.  Beyond that the
\* code writes past its table, or wraps around; the definitions of this module,
\* which count without limit, say what it does for these texts only.
FitsParser(blocks) ==
    LET p == FoldLeft(ParseBlock, ParserInit, blocks)
        q == FlattenStructs(p)
    IN /\ Len(SelectSeq(blocks, LAMBDA b : b.kind = "struct")) <= MaxStructs
       /\ \A i \in DOMAIN q.structs : q.structs[i].min_size + 8 < SizeLimit

-----------------------------------------------------------------------------
(* Compiling. Addresses count from 0, as in the code: instruction a is        *)
(* code[a + 1].                                                               *)

FindField(s, path) == SelectInSeq(s.fields, LAMBDA f : f.path = path)

\* Fields that are no integers load as an unsigned byte.
LoadOpcode(f) ==
    LET int == f.type \in {"uint", "int"}
        width == IF int THEN f.size ELSE 1
    IN [op |-> "load", width |-> width, signed |-> f.type = "int",
        endian |-> IF width = 1 THEN "none" ELSE f.endian, offset |-> f.offset]

Opposite(endian) ==
    CASE endian = "big" -> "little" [] endian = "little" -> "big" [] OTHER -> endian
SwapEndianOpcode(ins) ==
    IF ins.op = "load" THEN [ins EXCEPT !.endian = Opposite(@)] ELSE ins

Cmp(op, operand, operand2) ==
    [op |-> "cmp", cmp |-> op, operand |-> operand, operand2 |-> operand2]
JumpIfFalse(target) == [op |-> "jump_if_false", target |-> target]
Jump(target) == [op |-> "jump", target |-> target]

CondSize(c) ==
    CASE c.op = "in" -> 3 * Len(c.values)
      [] c.op = "not_in" -> 1 + 3 * Len(c.values)
      [] OTHER -> 3

\* cond_starts: the address of condition j; one past the last is success_label.
CondStart(conds, j) ==
    FoldLeft(LAMBDA at, c : at + CondSize(c), 0, SubSeq(conds, 1, j - 1))

\* Mutant: a miss starts the list again.
CompileInAgain(c, v, start, next, fail) ==
    IF v < Len(c.values)
    THEN <<Cmp("eq", c.values[v], 0), JumpIfFalse(start + 1), Jump(next)>>
    ELSE <<Cmp("eq", c.values[v], 0), JumpIfFalse(fail)>>

\* Value v of a list: a hit goes to the next condition (in) or fails (not in);
\* a miss goes on to the next value, after the last it fails or goes on.
CompileIn(c, v, start, next, fail) ==
    LET jif == start + 3 * v - 1
    IN IF v < Len(c.values)
       THEN <<Cmp("eq", c.values[v], 0), JumpIfFalse(jif + 2), Jump(next)>>
       ELSE <<Cmp("eq", c.values[v], 0), JumpIfFalse(fail)>>

\* Mutant: missing every value fails, as it does for in.
CompileNotInFailing(c, v, start, next, fail) ==
    LET jif == start + 3 * v - 1
    IN <<Cmp("eq", c.values[v], 0),
         JumpIfFalse(IF v < Len(c.values) THEN jif + 2 ELSE fail), Jump(fail)>>

CompileNotIn(c, v, start, next, fail) ==
    LET jif == start + 3 * v - 1
    IN <<Cmp("eq", c.values[v], 0),
         JumpIfFalse(IF v < Len(c.values) THEN jif + 2 ELSE next), Jump(fail)>>

CompileCondition(c, f, start, next, fail) ==
    <<LoadOpcode(f)>> \o
    CASE c.op = "in" ->
            FlattenSeq([v \in DOMAIN c.values |-> CompileIn(c, v, start, next, fail)])
      [] c.op = "not_in" ->
            FlattenSeq([v \in DOMAIN c.values |-> CompileNotIn(c, v, start, next, fail)])
      [] c.op = "mask" -> <<Cmp("mask", c.mask, c.value), JumpIfFalse(fail)>>
      [] OTHER -> <<Cmp(c.op, c.value, 0), JumpIfFalse(fail)>>

\* The struct of a rule is the first that has the field of its first condition.
TargetStruct(structs, rule) ==
    IF rule.conds = <<>> THEN 0
    ELSE SelectInSeq(structs, LAMBDA s : FindField(s, rule.conds[1].path) # 0)

CompileRule(structs, rule) ==
    LET s       == structs[TargetStruct(structs, rule)]
        n       == Len(rule.conds)
        success == CondStart(rule.conds, n + 1)
        fail    == success + 1
        code    == FlattenSeq([j \in 1..n |->
                       CompileCondition(rule.conds[j],
                                        s.fields[FindField(s, rule.conds[j].path)],
                                        CondStart(rule.conds, j),
                                        CondStart(rule.conds, j + 1), fail)])
                   \o <<[op |-> "return_true"], [op |-> "return_false"]>>
    IN [min_size |-> s.min_size, sliding |-> rule.sliding, sliding_max |-> rule.sliding_max,
        code_be |-> code, code_le |-> [a \in DOMAIN code |-> SwapEndianOpcode(code[a])]]

Compiles(structs, rule) ==
    LET at == TargetStruct(structs, rule)
    IN /\ at # 0
       /\ \A j \in DOMAIN rule.conds : FindField(structs[at], rule.conds[j].path) # 0

\* pdef_parse_string: all blocks, then flattening, then the rules.
NoProto == [ok |-> FALSE]
Parse(blocks) ==
    LET p == FoldLeft(ParseBlock, ParserInit, blocks)
        q == FlattenStructs(p)
    IN IF /\ p.ok
          /\ q.ok
          /\ \A i \in DOMAIN q.rules : Compiles(q.structs, q.rules[i])
       THEN [ok |-> TRUE, mode |-> q.endian_mode, structs |-> q.structs, source |-> q.rules,
             filters |-> [i \in DOMAIN q.rules |-> CompileRule(q.structs, q.rules[i])]]
       ELSE NoProto

-----------------------------------------------------------------------------
(* Executing. *)

\* The unsigned number that the bytes of a field spell.
ReadWord(packet, offset, width, endian) ==
    LET bytes == SubSeq(packet, offset + 1, offset + width)
    IN FoldLeft(LAMBDA n, b : n * Base + b, 0,
                IF endian = "little" THEN Reverse(bytes) ELSE bytes)

\* The number of values that k bytes have: Base to the power k.
Values(k) == FoldLeft(LAMBDA n, i : n * Base, 1, [i \in 1..k |-> i])

\* Signed fields are extended to the accumulator's width, as two's complement.
Load(packet, ins) ==
    LET n == ReadWord(packet, ins.offset, ins.width, ins.endian)
    IN IF ins.signed /\ 2 * n >= Values(ins.width)
       THEN n + Values(AccBytes) - Values(ins.width)
       ELSE n

\* Bitwise and.
BitAnd[x \in Nat, y \in Nat] ==
    IF x = 0 \/ y = 0 THEN 0
    ELSE (x % 2) * (y % 2) + 2 * BitAnd[x \div 2, y \div 2]

Compare(acc, ins) ==
    CASE ins.cmp = "eq" -> acc = ins.operand
      [] ins.cmp = "ne" -> acc # ins.operand
      [] ins.cmp = "gt" -> acc > ins.operand
      [] ins.cmp = "ge" -> acc >= ins.operand
      [] ins.cmp = "lt" -> acc < ins.operand
      [] ins.cmp = "le" -> acc <= ins.operand
      [] ins.cmp = "mask" -> BitAnd[acc, ins.operand] = ins.operand2

Stop(m, result) == [m EXCEPT !.result = result]
JumpTo(code, m, target) ==
    IF target >= Len(code) THEN Stop(m, "false") ELSE [m EXCEPT !.ip = target]

\* One turn of the executor's loop on the machine m.
ExecuteIns(code, packet, m) ==
    LET ins  == code[m.ip + 1]
        next == [m EXCEPT !.ip = @ + 1]
    IN CASE m.result # "running" -> m
         [] m.result = "running" /\ m.ip >= Len(code) -> Stop(m, "false")
         [] OTHER ->
              CASE ins.op = "load" ->
                     IF ins.offset + ins.width > Len(packet) THEN Stop(m, "false")
                     ELSE [next EXCEPT !.acc = Load(packet, ins)]
                [] ins.op = "cmp" -> [next EXCEPT !.cmp = Compare(m.acc, ins)]
                [] ins.op = "jump_if_false" ->
                     IF m.cmp THEN next ELSE JumpTo(code, m, ins.target)
                [] ins.op = "jump" -> JumpTo(code, m, ins.target)
                [] ins.op = "return_true" -> Stop(m, "true")
                [] ins.op = "return_false" -> Stop(m, "false")

\* The executor, followed for as many turns as the code has instructions.
Execute(code, packet) ==
    FoldLeft(LAMBDA m, i : ExecuteIns(code, packet, m),
             [ip |-> 0, acc |-> 0, cmp |-> FALSE, result |-> "running"],
             [i \in 1..Len(code) |-> i]).result

-----------------------------------------------------------------------------
(* Matching. *)

\* try_match_with_endian: which endianness accepts the packet, "none" if none.
TryMatch(packet, rule, mode, detected) ==
    LET be == Execute(rule.code_be, packet) = "true"
        le == Execute(rule.code_le, packet) = "true"
        known == IF mode = "auto" THEN detected ELSE mode
    IN CASE known = "big" -> IF be THEN "big" ELSE "none"
         [] known = "little" -> IF le THEN "little" ELSE "none"
         [] OTHER -> IF be THEN "big" ELSE IF le THEN "little" ELSE "none"

\* Mutant: the last offset at which the struct fits is left out.
OffsetsShort(rule, len) ==
    LET limit == IF rule.sliding_max > 0 /\ rule.sliding_max < len
                 THEN rule.sliding_max ELSE len
        room  == len - rule.min_size
    IN IF rule.sliding THEN [k \in 1..(IF room < limit THEN room ELSE limit) |-> k - 1]
       ELSE <<0>>

\* The offsets at which a rule is tried, in order: up to search_limit, and while
\* the struct fits into the rest of the packet.
Offsets(rule, len) ==
    LET limit == IF rule.sliding_max > 0 /\ rule.sliding_max < len
                 THEN rule.sliding_max ELSE len
        room  == len - rule.min_size + 1
    IN IF rule.sliding THEN [k \in 1..(IF room < limit THEN room ELSE limit) |-> k - 1]
       ELSE <<0>>

\* packet_filter_match: the first rule and offset that accept decide.
FilterMatch(packet, proto, detected) ==
    LET tries == FlattenSeq([i \in DOMAIN proto.filters |->
                     LET offs == Offsets(proto.filters[i], Len(packet))
                     IN [k \in DOMAIN offs |-> <<i, offs[k]>>]])
        outcome(t) == TryMatch(SubSeq(packet, t[2] + 1, Len(packet)),
                               proto.filters[t[1]], proto.mode, detected)
        hit == SelectInSeq(tries, LAMBDA t : outcome(t) # "none")
    IN IF hit = 0 THEN "none" ELSE outcome(tries[hit])

\* writeback_endian_to_file: the first endian setting is replaced; without one
\* it is added to the first @protocol block; without a block nothing is written.
WritebackTarget(blocks) ==
    LET set == SelectInSeq(blocks, LAMBDA b : b.kind = "protocol" /\ b.endian # "none")
    IN IF set # 0 THEN set ELSE SelectInSeq(blocks, LAMBDA b : b.kind = "protocol")

\* Mutant: the other endianness is written.
WritebackSwapped(blocks, endian) ==
    [blocks EXCEPT ![WritebackTarget(blocks)].endian = Opposite(endian)]

Writeback(blocks, endian) == [blocks EXCEPT ![WritebackTarget(blocks)].endian = endian]
=============================================================================
