----------------------------- MODULE PdefFilter -----------------------------
(* One PDEF file through a series of captures: the filter thread parses it,  *)
(* filters the packets of a raw file with it and reports the endianness it   *)
(* detected, and the manager writes that into the file. Only one capture     *)
(* uses the file at a time; CaptureManager has several.                      *)
EXTENDS PdefLang

CONSTANTS Files,        \* definitions the user may write: sequences of blocks
          Packets,      \* application data in raw files
          Probes,       \* packets with which definitions are judged
          MaxPackets,   \* packets of a raw file
          MaxCaptures   \* captures

\* What the grammar makes of a block: the fields of a struct, the conditions of a
\* filter and the values of a condition are lists; sizes are numbers; there are nine
\* operators.
Operators == {"eq", "ne", "gt", "ge", "lt", "le", "in", "not_in", "mask"}
IsList(s) == s \in Seq(Range(s))
IsBlock(b) ==
    /\ "kind" \in DOMAIN b
    /\ b.kind = "protocol" => "endian" \in DOMAIN b
    /\ b.kind = "struct" => /\ "fields" \in DOMAIN b /\ IsList(b.fields)
                            /\ \A i \in DOMAIN b.fields :
                                  b.fields[i].array_size \in Nat /\ b.fields[i].size \in Nat
    /\ b.kind = "filter" => /\ "conds" \in DOMAIN b /\ IsList(b.conds)
                            /\ \A i \in DOMAIN b.conds :
                                  IsList(b.conds[i].values) /\ b.conds[i].op \in Operators
                            /\ "sliding_max" \in DOMAIN b /\ b.sliding_max \in Nat

ASSUME FilesAssumption ==
    /\ \A f \in Files : IsList(f) /\ \A i \in DOMAIN f : IsBlock(f[i])
    /\ Probes \subseteq Seq(0..(Base - 1))
    /\ MaxPackets \in Nat

\* The definitions the parser has room for.  No proof needs it: it limits what the
\* model says of the code.
ASSUME FitsAssumption == \A f \in Files : FitsParser(f)

VARIABLES file,      \* the definition on disk
          source,    \* history: the definition the user wrote
          proto,     \* pdef of handle_raw_file, NoProto when there is none
          detected,  \* pdef->detected_endian
          total,     \* packets read from the raw file
          accepted,  \* packets written to the filtered file
          endianMsg, \* endianness on its way to the manager
          usage,     \* PDEFUsageInfo of the file
          kept,      \* history: accepted packets of the capture behind usage
          captures   \* captures started

vars == <<file, source, proto, detected, total, accepted, endianMsg, usage, kept, captures>>

Endians == {"big", "little"}
NoUsage == [detected |-> "unknown", needed |-> FALSE, done |-> FALSE]

Init ==
    /\ file \in Files
    /\ source = file
    /\ proto = NoProto
    /\ detected = "unknown"
    /\ total = 0
    /\ accepted = {}
    /\ endianMsg = <<>>
    /\ usage = NoUsage
    /\ kept = {}
    /\ captures = 0

-----------------------------------------------------------------------------
\* handle_raw_file parses the definition; a capture whose definition does not
\* parse ends here.
OpenPdef ==
    /\ ~proto.ok
    /\ captures < MaxCaptures
    /\ captures' = captures + 1
    /\ proto' = Parse(file)
    /\ detected' = "unknown"
    /\ total' = 0
    /\ accepted' = {}
    /\ UNCHANGED <<file, source, endianMsg, usage, kept>>

\* Mutant: the detected endianness is not stored.
DetectNothing(outcome) == detected

\* The compare-and-swap of try_match_with_endian, after the match that made it.
Detect(outcome) ==
    IF proto.mode = "auto" /\ detected = "unknown" /\ outcome # "none"
    THEN outcome ELSE detected

\* The body of the loop. The second call of packet_filter_match, made when the
\* first rejects, differs only in the port, which is ignored: it rejects too.
FilterPacket(p) ==
    /\ proto.ok
    /\ total < MaxPackets
    /\ total' = total + 1
    /\ LET outcome == FilterMatch(p, proto, detected)
       IN /\ accepted' = IF outcome = "none" THEN accepted ELSE accepted \cup {p}
          /\ detected' = Detect(outcome)
    /\ UNCHANGED <<file, source, proto, endianMsg, usage, kept, captures>>

\* try_writeback_pdef_endian; writing may fail, and does without a block to
\* write to.
TryWriteback(u) ==
    \/ /\ u.needed /\ ~u.done /\ WritebackTarget(file) # 0
       /\ file' = Writeback(file, u.detected)
       /\ usage' = [u EXCEPT !.done = TRUE]
    \/ /\ usage' = u
       /\ UNCHANGED file

\* End of the raw file: the filtered file is reported, with which the manager
\* ends the use of the definition, then what was detected.
EndOfFile ==
    /\ proto.ok
    /\ proto' = NoProto
    /\ detected' = "unknown"
    /\ accepted' = {}
    /\ total' = 0
    /\ endianMsg' = IF proto.mode = "auto" /\ detected # "unknown"
                    THEN Append(endianMsg, [endian |-> detected, accepted |-> accepted])
                    ELSE endianMsg
    /\ TryWriteback(usage)
    /\ UNCHANGED <<source, kept, captures>>

\* handle_pdef_endian_detected: the first detection counts; no writeback while
\* a capture uses the file.
HandleEndian ==
    /\ endianMsg # <<>>
    /\ endianMsg' = Tail(endianMsg)
    /\ LET first == ~usage.done /\ usage.detected = "unknown"
           u == IF first THEN [usage EXCEPT !.detected = Head(endianMsg).endian, !.needed = TRUE]
                         ELSE usage
       IN /\ kept' = IF first THEN Head(endianMsg).accepted ELSE kept
          /\ IF usage.done \/ proto.ok THEN usage' = u /\ UNCHANGED file
             ELSE TryWriteback(u)
    /\ UNCHANGED <<source, proto, detected, total, accepted, captures>>

Next == OpenPdef \/ (\E p \in Packets : FilterPacket(p)) \/ EndOfFile \/ HandleEndian

Spec == Init /\ [][Next]_vars

-----------------------------------------------------------------------------
(* What a definition means, from its text alone. *)

Structs == SelectSeq(source, LAMBDA b : b.kind = "struct")
Repeat(d) == IF d.is_array THEN d.array_size ELSE 1
Inner(d) == SelectInSeq(Structs, LAMBDA s : s.name = d.of)

\* Structs have different names and name only structs before them.
InnerFirst ==
    /\ \A i, j \in DOMAIN Structs : Structs[i].name = Structs[j].name => i = j
    /\ \A i \in DOMAIN Structs : \A k \in DOMAIN Structs[i].fields :
          Structs[i].fields[k].type = "nested" => Inner(Structs[i].fields[k]) < i

SizeOf[i \in 0..Len(Structs)] ==
    IF i = 0 THEN 0
    ELSE FoldLeft(LAMBDA n, d : n + IF d.type = "nested" THEN Repeat(d) * SizeOf[Inner(d)] ELSE d.size,
                  0, Structs[i].fields)

Before(i, k) ==
    FoldLeft(LAMBDA n, d : n + IF d.type = "nested" THEN Repeat(d) * SizeOf[Inner(d)] ELSE d.size,
             0, SubSeq(Structs[i].fields, 1, k - 1))

\* Path and place of every field of struct i, inner structs opened up.
Places[i \in 0..Len(Structs)] ==
    IF i = 0 THEN {}
    ELSE UNION {LET d == Structs[i].fields[k]
                IN IF d.type # "nested" THEN {<<<<Seg(d.name, 0)>>, Before(i, k)>>}
                   ELSE {<<<<Seg(d.name, IF d.is_array THEN r ELSE 0)>> \o q[1],
                           Before(i, k) + (r - 1) * SizeOf[Inner(d)] + q[2]>> :
                         r \in 1..Repeat(d), q \in Places[Inner(d)]} :
                k \in DOMAIN Structs[i].fields}

\* The number a field of a packet stands for; a field that is no integer is a byte.
Width(f) == IF f.type \in {"uint", "int"} THEN f.size ELSE 1
Number(f, packet, endian) ==
    LET n == ReadWord(packet, f.offset, Width(f), endian)
    IN IF f.type = "int" /\ 2 * n >= Values(Width(f)) THEN n - Values(Width(f)) ELSE n

\* What a condition says of a number. The constants of a text have no sign: those
\* that a negative number may equal are in two's complement.
Complement(n) == IF n < 0 THEN n + Values(AccBytes) ELSE n
Says(c, n) ==
    CASE c.op = "eq" -> Complement(n) = c.value
      [] c.op = "ne" -> Complement(n) # c.value
      [] c.op = "gt" -> n > c.value
      [] c.op = "ge" -> n >= c.value
      [] c.op = "lt" -> n < c.value
      [] c.op = "le" -> n <= c.value
      [] c.op = "in" -> \E i \in DOMAIN c.values : Complement(n) = c.values[i]
      [] c.op = "not_in" -> \A i \in DOMAIN c.values : Complement(n) # c.values[i]
      [] c.op = "mask" -> BitAnd[Complement(n), c.mask] = c.value

\* How the field f is read: as its struct says, the other way round, or as given.
Reading(f, how) ==
    CASE how = "own" -> f.endian [] how = "opposite" -> Opposite(f.endian) [] OTHER -> how

\* A rule accepts a packet when all its conditions hold of fields that the
\* packet is long enough to have.
RuleAccepts(rule, packet, how) ==
    LET s == proto.structs[TargetStruct(proto.structs, rule)]
    IN \A j \in DOMAIN rule.conds :
          LET f == s.fields[FindField(s, rule.conds[j].path)]
          IN /\ f.offset + Width(f) <= Len(packet)
             /\ Says(rule.conds[j], Number(f, packet, Reading(f, how)))

Accepts(packet, endian) ==
    \E i \in DOMAIN proto.source :
        LET rule == proto.source[i]
            size == proto.structs[TargetStruct(proto.structs, rule)].min_size
        IN IF ~rule.sliding THEN RuleAccepts(rule, packet, endian)
           ELSE \E o \in 0..(Len(packet) - 1) :
                   /\ o + size <= Len(packet)
                   /\ rule.sliding_max = 0 \/ o < rule.sliding_max
                   /\ RuleAccepts(rule, SubSeq(packet, o + 1, Len(packet)), endian)

\* No rule orders a signed field: the executor compares unsigned numbers.
NoSignedOrder ==
    \A i \in DOMAIN proto.source : \A j \in DOMAIN proto.source[i].conds :
        LET rule == proto.source[i]
            s == proto.structs[TargetStruct(proto.structs, rule)]
        IN rule.conds[j].op \in {"gt", "ge", "lt", "le"}
              => s.fields[FindField(s, rule.conds[j].path)].type # "int"

\* No @protocol block says little: all fields are big-endian.
NoLittleBlock(blocks) ==
    \A i \in DOMAIN blocks : blocks[i].kind = "protocol" => blocks[i].endian # "little"

JustLoaded == proto.ok /\ total = 0

-----------------------------------------------------------------------------
(* Properties. *)

\* The detected endianness and the manager's record of it are among their
\* values, and code never jumps back or out of itself, so that the executor's
\* loop ends.
TypeOK ==
    /\ detected \in Endians \cup {"unknown"}
    /\ usage.detected \in Endians \cup {"unknown"}
    /\ accepted \subseteq Packets
    /\ total \in 0..MaxPackets
    /\ JustLoaded => \A i \in DOMAIN proto.filters :
          LET code == proto.filters[i].code_be
          IN \A a \in DOMAIN code : code[a].op \in {"jump", "jump_if_false"}
                                      => code[a].target \in a..(Len(code) - 1)

\* flatten_structs gives every field, through nesting and arrays, the offset
\* and every struct the size that its text says, when inner structs come first.
LayoutExact ==
    JustLoaded /\ InnerFirst =>
        \A i \in DOMAIN proto.structs :
            /\ {<<f.path, f.offset>> : f \in Range(proto.structs[i].fields)} = Places[i]
            /\ proto.structs[i].min_size = SizeOf[i]

\* compile_filter_rules: code_be accepts a packet exactly when the conditions
\* hold with the fields' own endianness, code_le with the opposite one, and
\* both come to an end; short packets are rejected.
CodeMeansConditions ==
    JustLoaded /\ NoSignedOrder =>
        \A i \in DOMAIN proto.filters : \A p \in Probes :
            LET rule == proto.source[i]
                result(b) == IF b THEN "true" ELSE "false"
            IN /\ Execute(proto.filters[i].code_be, p) = result(RuleAccepts(rule, p, "own"))
               /\ Execute(proto.filters[i].code_le, p) = result(RuleAccepts(rule, p, "opposite"))

\* packet_filter_match accepts a packet exactly when some rule does, at some
\* offset of its window, with the endianness declared (big) or detected.
VerdictExact ==
    proto.ok /\ NoSignedOrder /\ NoLittleBlock(file) =>
        LET e == IF proto.mode = "auto" THEN detected ELSE proto.mode
        IN e \in Endians => \A p \in Probes :
              (FilterMatch(p, proto, detected) # "none") <=> Accepts(p, e)

\* All packets that one capture accepts are accepted under one endianness, the
\* declared or the detected one, also those from before it was known.
OneEndianPerCapture ==
    proto.ok /\ accepted # {} =>
        LET e == IF proto.mode = "auto" THEN detected ELSE proto.mode
        IN /\ e \in Endians
           /\ \A p \in accepted :
                 FilterMatch(p, [proto EXCEPT !.mode = e], "unknown") # "none"

\* Writing the detected endianness back never makes a file unreadable, and
\* where it was big, later captures accept what the one that detected it did
\* (unless it replaced a little before the automatic mode: the fields after
\* that setting would change their endianness with it).
WritebackKeepsVerdicts ==
    /\ usage.done => Parse(file).ok
    /\ usage.done /\ usage.detected = "big" /\ NoLittleBlock(source) /\ proto.ok /\ total = 0 =>
          \A p \in kept : FilterMatch(p, proto, "unknown") # "none"

\* A definition that declares its fields little-endian is read that way.
LittleEndianRead ==
    proto.ok /\ NoSignedOrder /\ proto.mode = "little" =>
        \A p \in Probes : (FilterMatch(p, proto, detected) # "none") <=> Accepts(p, "little")
=============================================================================
