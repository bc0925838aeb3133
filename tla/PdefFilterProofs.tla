-------------------------- MODULE PdefFilterProofs --------------------------
(***************************************************************************)
(* Theorems about filtering with a PDEF file, for any definitions, packets *)
(* and numbers of captures.                                                *)
(***************************************************************************)
EXTENDS PdefFilter, QueueLemmas, FiniteSetTheorems

-----------------------------------------------------------------------------
(* Folds over sequences.  The induction is on the number of elements, by the *)
(* least number for which a claim fails.                                     *)

\* Max of a set of positions.
LEMMA MaxFacts ==
  ASSUME NEW n \in Nat, NEW S \in SUBSET (1..n), S # {}
  PROVE  Max(S) \in S /\ \A y \in S : y <= Max(S)
<1> DEFINE T == {n - x : x \in S}
<1>1. T \in SUBSET Nat /\ T # {}
  <2>1. \A x \in S : n - x \in Nat
    OBVIOUS
  <2> QED BY <2>1
<1>2. PICK t \in T : \A u \in T : t <= u
  BY <1>1, LeastNumber
<1>3. PICK x \in S : t = n - x
  OBVIOUS
<1>4. ASSUME NEW y \in S PROVE x >= y
  <2>1. t <= n - y /\ x \in Int /\ y \in Int
    BY <1>2
  <2> QED BY <1>3, <2>1
<1>5. \E m \in S : \A y \in S : m >= y
  BY <1>4
<1>6. Max(S) \in S /\ \A y \in S : Max(S) >= y
  BY <1>5 DEF Max
<1>7. \A y \in S : y \in Int
  OBVIOUS
<1> QED BY <1>6, <1>7

\* The functions that are folded: FlattenStruct, FlattenField, the sum of CondStart,
\* ExecuteIns, the number of ReadWord and of Values, and ParseBlock.
Turn(how, acc, x) ==
  CASE how = "flatten" -> FlattenStruct(acc, x)
    [] how = "field" -> FlattenField(x[1], acc, x[2])
    [] how = "size" -> acc + CondSize(x)
    [] how = "execute" -> ExecuteIns(x[1], x[2], acc)
    [] how = "word" -> acc * Base + x
    [] how = "values" -> acc * Base
    [] OTHER -> ParseBlock(acc, x)

\* g is the function that FoldLeft defines for k elements.
Folds(how, base, seq, k, g) ==
  g = [s \in SUBSET (1..k) |-> IF s = {} THEN base ELSE Turn(how, g[s \ {Max(s)}], seq[Max(s)])]

\* What FoldLeft defines exists.
LEMMA FoldExists ==
  ASSUME NEW how, NEW base, NEW seq, NEW n \in Nat
  PROVE  \E g : Folds(how, base, seq, n, g)
<1> DEFINE P(k) == \E g : Folds(how, base, seq, k, g)
           T == {k \in Nat : ~P(k)}
<1>1. P(0)
  <2>1. 1..0 = {}
    OBVIOUS
  <2> DEFINE g == [s \in SUBSET (1..0) |-> base]
  <2>2. Folds(how, base, seq, 0, g)
    BY <2>1 DEF Folds
  <2> QED BY <2>2
<1>2. ASSUME NEW k \in Nat, P(k) PROVE P(k + 1)
  <2>1. PICK g : Folds(how, base, seq, k, g)
    BY <1>2
  <2> DEFINE h == [s \in SUBSET (1..(k + 1)) |->
                     IF s = {} THEN base ELSE Turn(how, g[s \ {Max(s)}], seq[Max(s)])]
  <2>2. \A s \in SUBSET (1..k) : s \in SUBSET (1..(k + 1)) /\ h[s] = g[s]
    <3>1. 1..k \subseteq 1..(k + 1)
      OBVIOUS
    <3> QED BY <2>1, <3>1 DEF Folds
  <2>3. ASSUME NEW s \in SUBSET (1..(k + 1)), s # {} PROVE s \ {Max(s)} \in SUBSET (1..k)
    <3>1. k + 1 \in Nat
      OBVIOUS
    <3>2. Max(s) \in s /\ \A y \in s : y <= Max(s)
      BY <2>3, <3>1, MaxFacts
    <3>3. ASSUME NEW y \in s, y # Max(s) PROVE y \in 1..k
      <4>1. y \in 1..(k + 1) /\ Max(s) \in 1..(k + 1) /\ y <= Max(s)
        BY <3>2
      <4> QED BY <3>3, <4>1
    <3> QED BY <3>3
  <2>4. h = [s \in SUBSET (1..(k + 1)) |->
               IF s = {} THEN base ELSE Turn(how, h[s \ {Max(s)}], seq[Max(s)])]
    <3> HIDE DEF h
    <3>1. \A s \in SUBSET (1..(k + 1)) : s # {} => h[s \ {Max(s)}] = g[s \ {Max(s)}]
      BY <2>2, <2>3
    <3> QED BY <3>1 DEF h
  <2> QED BY <2>4 DEF Folds
<1> HIDE DEF P
<1>3. T = {}
  <2>1. SUFFICES ASSUME T # {} PROVE FALSE
    OBVIOUS
  <2>2. PICK k \in T : \A j \in T : k <= j
    BY <2>1, LeastNumber
  <2>3. k # 0 /\ k - 1 \in Nat /\ k - 1 \notin T
    BY <1>1, <2>2
  <2>4. P(k - 1)
    BY <2>3
  <2>5. P(k - 1 + 1)
    BY <1>2, <2>3, <2>4
  <2> QED BY <2>2, <2>5
<1> QED BY <1>3 DEF P

\* The first i positions: the last of them, and the others.
LEMMA FirstPositions ==
  ASSUME NEW n \in Nat, NEW i \in 1..n
  PROVE  /\ 1..i \in SUBSET (1..n) /\ 1..i # {} /\ 1..(i - 1) \in SUBSET (1..n)
         /\ Max(1..i) = i /\ (1..i) \ {i} = 1..(i - 1)
<1>1. 1..i \in SUBSET (1..n) /\ 1..i # {} /\ i \in 1..i /\ 1..(i - 1) \in SUBSET (1..n)
  OBVIOUS
<1>2. Max(1..i) \in 1..i /\ \A y \in 1..i : y <= Max(1..i)
  BY <1>1, MaxFacts
<1>3. Max(1..i) = i
  BY <1>1, <1>2
<1>4. (1..i) \ {i} = 1..(i - 1)
  OBVIOUS
<1> QED BY <1>1, <1>3, <1>4

\* The fold of ParseBlock goes through the parser's states one by one.
ParseFold(D, blocks) ==
  CHOOSE iter : iter = [s \in SUBSET D |-> IF s = {} THEN ParserInit
                                           ELSE ParseBlock(iter[s \ {Max(s)}], blocks[Max(s)])]

\* The parser's states, block by block.
LEMMA ParseStates ==
  ASSUME NEW blocks, NEW n \in Nat, DOMAIN blocks = 1..n
  PROVE  \E st : /\ st[0] = ParserInit
                 /\ \A i \in 1..n : st[i] = ParseBlock(st[i - 1], blocks[i])
                 /\ FoldLeft(ParseBlock, ParserInit, blocks) = st[n]
<1> DEFINE D == 1..n
           it == ParseFold(D, blocks)
           st == [i \in 0..n |-> it[1..i]]
<1>1. PICK g : Folds("parse", ParserInit, blocks, n, g)
  BY FoldExists
<1>2. g = [s \in SUBSET D |-> IF s = {} THEN ParserInit ELSE ParseBlock(g[s \ {Max(s)}], blocks[Max(s)])]
  BY <1>1 DEF Folds, Turn
<1>3. it = [s \in SUBSET D |-> IF s = {} THEN ParserInit ELSE ParseBlock(it[s \ {Max(s)}], blocks[Max(s)])]
  BY <1>2 DEF ParseFold
<1>4. FoldLeft(ParseBlock, ParserInit, blocks) = it[D]
  <2>1. FoldLeft(ParseBlock, ParserInit, blocks) = ParseFold(DOMAIN blocks, blocks)[DOMAIN blocks]
    BY DEF FoldLeft, MapThenFoldSet, ParseFold
  <2> QED BY <2>1
<1> HIDE DEF it
<1>5. st[0] = ParserInit
  <2>1. 1..0 = {} /\ {} \in SUBSET D
    OBVIOUS
  <2> QED BY <1>3, <2>1
<1>6. ASSUME NEW i \in 1..n PROVE st[i] = ParseBlock(st[i - 1], blocks[i])
  <2>1. /\ 1..i \in SUBSET D /\ 1..i # {} /\ 1..(i - 1) \in SUBSET D
        /\ Max(1..i) = i /\ (1..i) \ {i} = 1..(i - 1)
    BY FirstPositions
  <2>2. it[1..i] = ParseBlock(it[(1..i) \ {Max(1..i)}], blocks[Max(1..i)])
    BY <1>3, <2>1
  <2>3. it[1..i] = ParseBlock(it[1..(i - 1)], blocks[i])
    BY <2>1, <2>2
  <2>4. i \in 0..n /\ i - 1 \in 0..n
    OBVIOUS
  <2> QED BY <2>3, <2>4
<1>7. FoldLeft(ParseBlock, ParserInit, blocks) = st[n]
  BY <1>4
<1> QED BY <1>5, <1>6, <1>7

\* The fold of FlattenStruct goes through the structs one by one.
FlattenFold(D, p, seq) ==
  CHOOSE iter : iter = [s \in SUBSET D |-> IF s = {} THEN p
                                           ELSE FlattenStruct(iter[s \ {Max(s)}], seq[Max(s)])]

\* st has the parser's states while the structs seq are flattened.
Flattens(p, seq, n, st) ==
  /\ st[0] = p
  /\ \A i \in 1..n : st[i] = FlattenStruct(st[i - 1], seq[i])
  /\ FoldLeft(FlattenStruct, p, seq) = st[n]

\* The parser's states while structs are flattened.
LEMMA FlattenStates ==
  ASSUME NEW p, NEW seq, NEW n \in Nat, DOMAIN seq = 1..n
  PROVE  \E st : Flattens(p, seq, n, st)
<1> DEFINE D == 1..n
           it == FlattenFold(D, p, seq)
           st == [i \in 0..n |-> it[1..i]]
<1>1. PICK g : Folds("flatten", p, seq, n, g)
  BY FoldExists
<1>2. g = [s \in SUBSET D |-> IF s = {} THEN p ELSE FlattenStruct(g[s \ {Max(s)}], seq[Max(s)])]
  BY <1>1 DEF Folds, Turn
<1>3. it = [s \in SUBSET D |-> IF s = {} THEN p ELSE FlattenStruct(it[s \ {Max(s)}], seq[Max(s)])]
  BY <1>2 DEF FlattenFold
<1>4. FoldLeft(FlattenStruct, p, seq) = it[D]
  <2>1. FoldLeft(FlattenStruct, p, seq) = FlattenFold(DOMAIN seq, p, seq)[DOMAIN seq]
    BY DEF FoldLeft, MapThenFoldSet, FlattenFold
  <2> QED BY <2>1
<1> HIDE DEF it
<1>5. st[0] = p
  <2>1. 1..0 = {} /\ {} \in SUBSET D
    OBVIOUS
  <2> QED BY <1>3, <2>1
<1>6. ASSUME NEW i \in 1..n PROVE st[i] = FlattenStruct(st[i - 1], seq[i])
  <2>1. /\ 1..i \in SUBSET D /\ 1..i # {} /\ 1..(i - 1) \in SUBSET D
        /\ Max(1..i) = i /\ (1..i) \ {i} = 1..(i - 1)
    BY FirstPositions
  <2>2. it[1..i] = FlattenStruct(it[(1..i) \ {Max(1..i)}], seq[Max(1..i)])
    BY <1>3, <2>1
  <2>3. it[1..i] = FlattenStruct(it[1..(i - 1)], seq[i])
    BY <2>1, <2>2
  <2>4. i \in 0..n /\ i - 1 \in 0..n
    OBVIOUS
  <2> QED BY <2>3, <2>4
<1>7. FoldLeft(FlattenStruct, p, seq) = st[n]
  BY <1>4
<1> QED BY <1>5, <1>6, <1>7 DEF Flattens

-----------------------------------------------------------------------------
(* The parser leaves one of three endianness modes. *)

Modes == {"auto", "big", "little"}

\* A state of the parser with its fields.
ParserState(p) ==
  /\ p = [ok |-> p.ok, default_endian |-> p.default_endian, endian_mode |-> p.endian_mode,
          constants |-> p.constants, structs |-> p.structs, rules |-> p.rules]
  /\ p.endian_mode \in Modes
IsSequence(s) == \E S : s \in Seq(S)

\* An error keeps the rest of the state.
LEMMA RejectedKeeps ==
  ASSUME NEW p, ParserState(p)
  PROVE  /\ ParserState(Rejected(p)) /\ Rejected(p).structs = p.structs
         /\ Rejected(p).endian_mode = p.endian_mode
<1>1. PICK no : no = FALSE
  OBVIOUS
<1>2. Rejected(p) = [p EXCEPT !.ok = no]
  BY <1>1 DEF Rejected
<1> QED BY <1>2 DEF ParserState

\* A struct more.
LEMMA StructsGrow ==
  ASSUME NEW s, IsSequence(s), NEW x
  PROVE  IsSequence(Append(s, x))
<1>1. PICK S : s \in Seq(S)
  BY DEF IsSequence
<1>2. s \in Seq(S \cup {x})
  BY <1>1
<1>3. Append(s, x) \in Seq(S \cup {x})
  BY <1>2, AppendFacts
<1> QED BY <1>3 DEF IsSequence

\* One block keeps the parser's state in shape.
LEMMA BlockKeeps ==
  ASSUME NEW p, NEW b, ParserState(p), IsSequence(p.structs)
  PROVE  ParserState(ParseBlock(p, b)) /\ IsSequence(ParseBlock(p, b).structs)
<1>1. ParserState(Rejected(p)) /\ IsSequence(Rejected(p).structs)
  BY RejectedKeeps
<1>2. ParserState(ParseProtocol(p, b)) /\ IsSequence(ParseProtocol(p, b).structs)
  <2>1. CASE ParseProtocol(p, b) \in {p, Rejected(p)}
    BY <1>1, <2>1
  <2>2. CASE ParseProtocol(p, b) = [p EXCEPT !.default_endian = "big", !.endian_mode = "auto"]
    BY <2>2 DEF ParserState, Modes
  <2>3. CASE /\ b.endian \in {"big", "little"}
             /\ ParseProtocol(p, b) = [p EXCEPT !.default_endian = b.endian, !.endian_mode = b.endian]
    BY <2>3 DEF ParserState, Modes
  <2> QED BY <2>1, <2>2, <2>3 DEF ParseProtocol
<1>3. ParserState(ParseConst(p, b)) /\ IsSequence(ParseConst(p, b).structs)
  <2> DEFINE c == <<[name |-> b.name, value |-> b.value]>> \o p.constants
  <2>1. ParseConst(p, b) = [p EXCEPT !.constants = c]
    BY DEF ParseConst, ParserState
  <2> HIDE DEF c
  <2> QED BY <2>1 DEF ParserState
<1>4. ParserState(ParseStruct(p, b)) /\ IsSequence(ParseStruct(p, b).structs)
  <2> DEFINE x == [name |-> b.name, min_size |-> 0,
                   fields |-> [i \in DOMAIN b.fields |-> ParseField(b.fields[i], p.default_endian)],
                   has_variable |-> \E i \in DOMAIN b.fields : b.fields[i].type = "varbytes"]
             s == Append(p.structs, x)
  <2>1. \/ ParseStruct(p, b) = Rejected(p)
        \/ ParseStruct(p, b) = [p EXCEPT !.structs = s]
    BY DEF ParseStruct, ParserState
  <2> HIDE DEF x
  <2>2. IsSequence(s)
    BY StructsGrow
  <2> HIDE DEF s
  <2>3. CASE ParseStruct(p, b) = Rejected(p)
    BY <1>1, <2>3
  <2>4. CASE ParseStruct(p, b) = [p EXCEPT !.structs = s]
    BY <2>2, <2>4 DEF ParserState
  <2> QED BY <2>1, <2>3, <2>4
<1>5. ParserState(ParseFilter(p, b)) /\ IsSequence(ParseFilter(p, b).structs)
  <2>1. \/ ParseFilter(p, b) = Rejected(p)
        \/ \E r : ParseFilter(p, b) = [p EXCEPT !.rules = r]
    BY DEF ParseFilter, ParserState
  <2>2. CASE ParseFilter(p, b) = Rejected(p)
    BY <1>1, <2>2
  <2>3. ASSUME NEW r, ParseFilter(p, b) = [p EXCEPT !.rules = r]
        PROVE  ParserState(ParseFilter(p, b)) /\ IsSequence(ParseFilter(p, b).structs)
    BY <2>3 DEF ParserState
  <2> QED BY <2>1, <2>2, <2>3
<1>6. \/ ParseBlock(p, b) = p \/ ParseBlock(p, b) = ParseProtocol(p, b)
      \/ ParseBlock(p, b) = ParseConst(p, b) \/ ParseBlock(p, b) = ParseStruct(p, b)
      \/ ParseBlock(p, b) = ParseFilter(p, b) \/ ParseBlock(p, b) = Rejected(p)
  BY DEF ParseBlock
<1> QED BY <1>1, <1>2, <1>3, <1>4, <1>5, <1>6

\* Flattening one struct does.
LEMMA FlattenKeeps ==
  ASSUME NEW p, NEW i, ParserState(p)
  PROVE  ParserState(FlattenStruct(p, i))
<1>1. \/ FlattenStruct(p, i) = Rejected(p)
      \/ \E x : FlattenStruct(p, i) = [p EXCEPT !.structs = x]
  <2> DEFINE flat == FoldLeft(LAMBDA acc, f : FlattenField([p.structs EXCEPT ![i].has_variable = FALSE], acc, f),
                              [ok |-> TRUE, fields |-> <<>>, offset |-> 0, variable |-> FALSE],
                              p.structs[i].fields)
  <2>1. FlattenStruct(p, i) =
          IF ~p.ok \/ ~flat.ok THEN Rejected(p)
          ELSE [p EXCEPT !.structs[i] = [@ EXCEPT !.fields = flat.fields, !.min_size = flat.offset,
                                                  !.has_variable = flat.variable]]
    BY DEF FlattenStruct
  <2> HIDE DEF flat
  <2> DEFINE y == [p.structs[i] EXCEPT !.fields = flat.fields, !.min_size = flat.offset,
                                       !.has_variable = flat.variable]
  <2>2. \/ FlattenStruct(p, i) = Rejected(p)
        \/ FlattenStruct(p, i) = [p EXCEPT !.structs = [p.structs EXCEPT ![i] = y]]
    BY <2>1 DEF ParserState
  <2> QED BY <2>2
<1>2. CASE FlattenStruct(p, i) = Rejected(p)
  BY <1>2, RejectedKeeps
<1>3. ASSUME NEW x, FlattenStruct(p, i) = [p EXCEPT !.structs = x]
      PROVE  ParserState(FlattenStruct(p, i))
  BY <1>3 DEF ParserState
<1> QED BY <1>1, <1>2, <1>3

\* A parsed definition.
Loaded(x) ==
  /\ x = [ok |-> TRUE, mode |-> x.mode, structs |-> x.structs, source |-> x.source, filters |-> x.filters]
  /\ x.mode \in Modes

\* All blocks keep the parser's state in shape.
LEMMA ParsedState ==
  ASSUME NEW blocks, NEW n \in Nat, DOMAIN blocks = 1..n
  PROVE  /\ ParserState(FoldLeft(ParseBlock, ParserInit, blocks))
         /\ IsSequence(FoldLeft(ParseBlock, ParserInit, blocks).structs)
<1>1. PICK st : /\ st[0] = ParserInit
                /\ \A i \in 1..n : st[i] = ParseBlock(st[i - 1], blocks[i])
                /\ FoldLeft(ParseBlock, ParserInit, blocks) = st[n]
  BY ParseStates
<1> DEFINE Good(i) == ParserState(st[i]) /\ IsSequence(st[i].structs)
           T == {i \in 0..n : ~Good(i)}
<1>2. Good(0)
  <2>1. ParserState(ParserInit) /\ ParserInit.structs = <<>>
    BY DEF ParserInit, ParserState, Modes
  <2>2. IsSequence(<<>>)
    BY EmptySeq DEF IsSequence
  <2> QED BY <1>1, <2>1, <2>2
<1>3. ASSUME NEW i \in 1..n, Good(i - 1) PROVE Good(i)
  BY <1>1, <1>3, BlockKeeps
<1> HIDE DEF Good
<1>4. T = {}
  <2>1. SUFFICES ASSUME T # {} PROVE FALSE
    OBVIOUS
  <2>2. T \in SUBSET Nat
    OBVIOUS
  <2>3. PICK k \in T : \A j \in T : k <= j
    BY <2>1, <2>2, LeastNumber
  <2>4. k \in 1..n /\ k - 1 \in 0..n
    BY <1>2, <2>3
  <2>5. Good(k - 1)
    BY <2>3, <2>4
  <2> QED BY <1>3, <2>3, <2>4, <2>5
<1>5. Good(n)
  BY <1>4
<1> QED BY <1>1, <1>5 DEF Good

\* So does flattening.
LEMMA FlattenedState ==
  ASSUME NEW p, ParserState(p), IsSequence(p.structs)
  PROVE  ParserState(FlattenStructs(p))
<1> DEFINE seq == [i \in DOMAIN p.structs |-> i]
           n == Len(p.structs)
<1>1. n \in Nat /\ DOMAIN seq = 1..n
  <2>1. PICK S : p.structs \in Seq(S)
    BY DEF IsSequence
  <2> QED BY <2>1, LenProperties
<1>2. FlattenStructs(p) = FoldLeft(FlattenStruct, p, seq)
  BY DEF FlattenStructs
<1> HIDE DEF seq, n
<1>3. PICK st : Flattens(p, seq, n, st)
  BY <1>1, FlattenStates
<1> DEFINE Good(i) == ParserState(st[i])
           T == {i \in 0..n : ~Good(i)}
<1>4. Good(0)
  BY <1>3 DEF Flattens
<1>5. ASSUME NEW i \in 1..n, Good(i - 1) PROVE Good(i)
  BY <1>3, <1>5, FlattenKeeps DEF Flattens
<1> HIDE DEF Good
<1>6. T = {}
  <2>1. SUFFICES ASSUME T # {} PROVE FALSE
    OBVIOUS
  <2>2. T \in SUBSET Nat
    BY <1>1
  <2>3. PICK k \in T : \A j \in T : k <= j
    BY <2>1, <2>2, LeastNumber
  <2>4. k \in 1..n /\ k - 1 \in 0..n
    BY <1>1, <1>4, <2>3
  <2>5. Good(k - 1)
    BY <1>1, <2>3, <2>4
  <2> QED BY <1>5, <2>3, <2>4, <2>5
<1>7. Good(n)
  BY <1>1, <1>6
<1> QED BY <1>2, <1>3, <1>7 DEF Good, Flattens

\* What parses is loaded with one of the three modes.
LEMMA ParseLoads ==
  ASSUME NEW blocks, NEW n \in Nat, DOMAIN blocks = 1..n, Parse(blocks).ok
  PROVE  Loaded(Parse(blocks))
<1> DEFINE p == FoldLeft(ParseBlock, ParserInit, blocks)
           q == FlattenStructs(p)
<1>1. ParserState(p) /\ IsSequence(p.structs)
  BY ParsedState
<1>2. Parse(blocks) = IF /\ p.ok
                         /\ q.ok
                         /\ \A i \in DOMAIN q.rules : Compiles(q.structs, q.rules[i])
                      THEN [ok |-> TRUE, mode |-> q.endian_mode, structs |-> q.structs, source |-> q.rules,
                            filters |-> [i \in DOMAIN q.rules |-> CompileRule(q.structs, q.rules[i])]]
                      ELSE NoProto
  BY DEF Parse
<1> HIDE DEF p
<1>3. ParserState(q)
  BY <1>1, FlattenedState
<1> HIDE DEF q
<1>4. ~NoProto.ok
  BY DEF NoProto
<1>5. Parse(blocks) = [ok |-> TRUE, mode |-> q.endian_mode, structs |-> q.structs, source |-> q.rules,
                       filters |-> [i \in DOMAIN q.rules |-> CompileRule(q.structs, q.rules[i])]]
  BY <1>2, <1>4
<1> QED BY <1>3, <1>5 DEF Loaded, ParserState

-----------------------------------------------------------------------------
(* What packet_filter_match answers. *)

\* Where a packet is tried, rule by rule and offset by offset.
Tries(packet, filters) ==
  FlattenSeq([i \in DOMAIN filters |->
                LET offs == Offsets(filters[i], Len(packet))
                IN [k \in DOMAIN offs |-> <<i, offs[k]>>]])

\* The outcome of the try t.
Outcome(packet, filters, mode, d, t) ==
  TryMatch(SubSeq(packet, t[2] + 1, Len(packet)), filters[t[1]], mode, d)

\* The tries that accept.
Hits(packet, filters, mode, d) ==
  {i \in 1..Len(Tries(packet, filters)) :
      Outcome(packet, filters, mode, d, Tries(packet, filters)[i]) # "none"}

\* A try answers with an endianness or rejects; once the endianness e is
\* settled, declared or detected, it answers e or rejects, and a first answer
\* e is the answer that settling e would have given.
LEMMA TryFacts ==
  ASSUME NEW packet, NEW rule, NEW mode \in Modes, NEW d \in Endians \cup {"unknown"}
  PROVE  /\ TryMatch(packet, rule, mode, d) \in Endians \cup {"none"}
         /\ mode # "auto" => TryMatch(packet, rule, mode, d) = TryMatch(packet, rule, mode, "unknown")
         /\ mode = "auto" /\ d \in Endians
              => TryMatch(packet, rule, mode, d) = TryMatch(packet, rule, d, "unknown")
         /\ TryMatch(packet, rule, mode, d) # "none"
              => TryMatch(packet, rule, TryMatch(packet, rule, mode, d), "unknown") # "none"
<1> DEFINE be == Execute(rule.code_be, packet) = "true"
           le == Execute(rule.code_le, packet) = "true"
<1>1. \A m, x : TryMatch(packet, rule, m, x) =
         LET known == IF m = "auto" THEN x ELSE m
         IN CASE known = "big" -> IF be THEN "big" ELSE "none"
              [] known = "little" -> IF le THEN "little" ELSE "none"
              [] OTHER -> IF be THEN "big" ELSE IF le THEN "little" ELSE "none"
  BY DEF TryMatch
<1> HIDE DEF be, le
<1> QED BY <1>1 DEF Modes, Endians

\* The first try that accepts decides.
LEMMA MatchFacts ==
  ASSUME NEW packet, NEW x, NEW d
  PROVE  LET hits == Hits(packet, x.filters, x.mode, d)
         IN /\ hits = {} => FilterMatch(packet, x, d) = "none"
            /\ hits # {} => \E i \in hits : FilterMatch(packet, x, d)
                                 = Outcome(packet, x.filters, x.mode, d, Tries(packet, x.filters)[i])
<1> DEFINE tries == Tries(packet, x.filters)
           hits == Hits(packet, x.filters, x.mode, d)
<1>1. FilterMatch(packet, x, d) =
        LET hit == IF hits # {} THEN Min(hits) ELSE 0
        IN IF hit = 0 THEN "none" ELSE Outcome(packet, x.filters, x.mode, d, tries[hit])
  BY DEF FilterMatch, SelectInSeq, Tries, Outcome, Hits
<1>2. \A i \in hits : i \in Nat /\ i # 0
  BY DEF Hits
<1> HIDE DEF hits, tries
<1>3. ASSUME hits # {} PROVE Min(hits) \in hits
  <2>1. PICK i \in hits : \A j \in hits : i <= j
    BY <1>2, <1>3, LeastNumber
  <2> QED BY <2>1 DEF Min
<1>4. hits = {} => FilterMatch(packet, x, d) = "none"
  BY <1>1
<1>5. ASSUME hits # {}
      PROVE  \E i \in hits : FilterMatch(packet, x, d) = Outcome(packet, x.filters, x.mode, d, tries[i])
  BY <1>1, <1>2, <1>3, <1>5
<1> QED BY <1>4, <1>5 DEF hits, tries

\* The endianness that x settles on, after the answer f.
Settled(x, d, f) == IF x.mode # "auto" THEN x.mode ELSE IF d = "unknown" THEN f ELSE d

\* A packet that is accepted is accepted under the endianness that is settled
\* with it.
LEMMA MatchSettles ==
  ASSUME NEW packet, NEW x, Loaded(x), NEW d \in Endians \cup {"unknown"}
  PROVE  LET f == FilterMatch(packet, x, d)
             e == Settled(x, d, f)
         IN /\ f \in Endians \cup {"none"}
            /\ f # "none" => /\ e \in Endians
                             /\ FilterMatch(packet, [x EXCEPT !.mode = e], "unknown") # "none"
<1> DEFINE f == FilterMatch(packet, x, d)
           e == Settled(x, d, f)
           y == [x EXCEPT !.mode = e]
<1>0. x.mode \in Modes
  BY DEF Loaded
<1>1. CASE Hits(packet, x.filters, x.mode, d) = {}
  BY <1>1, MatchFacts
<1>2. CASE Hits(packet, x.filters, x.mode, d) # {}
  <2>1. PICK i \in Hits(packet, x.filters, x.mode, d) :
           f = Outcome(packet, x.filters, x.mode, d, Tries(packet, x.filters)[i])
    BY <1>2, MatchFacts
  <2> DEFINE t == Tries(packet, x.filters)[i]
             rest == SubSeq(packet, t[2] + 1, Len(packet))
             rule == x.filters[t[1]]
  <2>2. f = TryMatch(rest, rule, x.mode, d) /\ f # "none"
    BY <2>1 DEF Outcome, Hits
  <2> HIDE DEF f
  <2>3. /\ f \in Endians
        /\ x.mode # "auto" => f = TryMatch(rest, rule, x.mode, "unknown")
        /\ x.mode = "auto" /\ d \in Endians => f = TryMatch(rest, rule, d, "unknown")
        /\ TryMatch(rest, rule, f, "unknown") # "none"
    <3> HIDE DEF t, rest, rule
    <3> QED BY <1>0, <2>2, TryFacts
  <2>4. e \in Endians /\ TryMatch(rest, rule, e, "unknown") # "none"
    BY <1>0, <2>2, <2>3 DEF Settled, Modes, Endians
  <2> HIDE DEF e
  <2>5. y.filters = x.filters /\ y.mode = e
    BY DEF Loaded
  <2> HIDE DEF y
  <2>6. i \in Hits(packet, y.filters, y.mode, "unknown")
    BY <2>1, <2>4, <2>5 DEF Hits, Outcome
  <2>7. PICK j \in Hits(packet, y.filters, y.mode, "unknown") :
           FilterMatch(packet, y, "unknown")
             = Outcome(packet, y.filters, y.mode, "unknown", Tries(packet, y.filters)[j])
    BY <2>6, MatchFacts
  <2>8. FilterMatch(packet, y, "unknown") # "none"
    BY <2>7 DEF Hits
  <2> QED BY <2>3, <2>4, <2>8 DEF e, f, y
<1> QED BY <1>1, <1>2

-----------------------------------------------------------------------------
(* One endianness per capture. *)

\* The definition on disk is a sequence, also after a writeback; what is
\* loaded came out of the parser; and all of accepted is accepted under the
\* endianness that is settled.
FilterInv ==
  /\ \E n \in Nat : DOMAIN file = 1..n
  /\ proto = NoProto \/ Loaded(proto)
  /\ detected \in Endians \cup {"unknown"}
  /\ OneEndianPerCapture

\* Writing an endianness back keeps the number of blocks.
LEMMA WritebackDomain ==
  ASSUME (\E u : TryWriteback(u)) \/ UNCHANGED file
  PROVE  DOMAIN file' = DOMAIN file
BY DEF TryWriteback, Writeback

\* Every step keeps FilterInv.
LEMMA FilterInvStep ==
  ASSUME FilterInv, [Next]_vars
  PROVE  FilterInv'
<1>1. CASE OpenPdef
  <2>1. PICK n \in Nat : DOMAIN file = 1..n
    BY DEF FilterInv
  <2>2. Parse(file).ok => Loaded(Parse(file))
    BY <2>1, ParseLoads
  <2>3. Parse(file) = NoProto \/ Parse(file).ok
    BY DEF Parse
  <2>4. proto' = Parse(file) /\ detected' = "unknown" /\ accepted' = {} /\ file' = file
    BY <1>1 DEF OpenPdef
  <2>5. proto' = NoProto \/ Loaded(proto')
    BY <2>2, <2>3, <2>4
  <2>6. OneEndianPerCapture'
    BY <2>4 DEF OneEndianPerCapture
  <2> QED BY <2>4, <2>5, <2>6 DEF FilterInv
<1>2. ASSUME NEW p \in Packets, FilterPacket(p) PROVE FilterInv'
  <2> DEFINE f == FilterMatch(p, proto, detected)
  <2>1. /\ proto.ok /\ file' = file /\ proto' = proto
        /\ accepted' = IF f = "none" THEN accepted ELSE accepted \cup {p}
        /\ detected' = IF proto.mode = "auto" /\ detected = "unknown" /\ f # "none" THEN f ELSE detected
    BY <1>2 DEF FilterPacket, Detect
  <2>2. Loaded(proto) /\ proto.mode \in Modes /\ detected \in Endians \cup {"unknown"}
    BY <2>1 DEF FilterInv, NoProto, Loaded
  <2>3. /\ f \in Endians \cup {"none"}
        /\ f # "none" => /\ Settled(proto, detected, f) \in Endians
                         /\ FilterMatch(p, [proto EXCEPT !.mode = Settled(proto, detected, f)], "unknown") # "none"
    BY <2>2, MatchSettles
  <2> HIDE DEF f
  <2>4. detected' \in Endians \cup {"unknown"}
    BY <2>1, <2>2, <2>3
  <2> DEFINE e == IF proto.mode = "auto" THEN detected ELSE proto.mode
             g == IF proto.mode = "auto" THEN detected' ELSE proto.mode
             Good(q, x) == FilterMatch(q, [proto EXCEPT !.mode = x], "unknown") # "none"
  <2>5. accepted # {} => e \in Endians /\ \A q \in accepted : Good(q, e)
    BY <2>1 DEF FilterInv, OneEndianPerCapture
  <2>6. accepted # {} => g = e
    BY <2>1, <2>5 DEF Endians
  <2>7. f # "none" => g = Settled(proto, detected, f)
    BY <2>1 DEF Settled
  <2>8. f # "none" => g \in Endians /\ Good(p, g)
    BY <2>3, <2>7
  <2> HIDE DEF Good, e, g
  <2>9. accepted' # {} => g \in Endians /\ \A q \in accepted' : Good(q, g)
    BY <2>1, <2>5, <2>6, <2>8
  <2>10. OneEndianPerCapture'
    BY <2>1, <2>9 DEF OneEndianPerCapture, Good, g
  <2> QED BY <2>1, <2>2, <2>4, <2>10 DEF FilterInv
<1>3. CASE EndOfFile
  <2>1. proto' = NoProto /\ detected' = "unknown" /\ accepted' = {} /\ TryWriteback(usage)
    BY <1>3 DEF EndOfFile
  <2>2. DOMAIN file' = DOMAIN file
    BY <2>1, WritebackDomain
  <2>3. OneEndianPerCapture'
    BY <2>1 DEF OneEndianPerCapture
  <2> QED BY <2>1, <2>2, <2>3 DEF FilterInv
<1>4. CASE HandleEndian
  <2>1. proto' = proto /\ detected' = detected /\ accepted' = accepted
    BY <1>4 DEF HandleEndian
  <2>2. DOMAIN file' = DOMAIN file
    BY <1>4, WritebackDomain DEF HandleEndian
  <2>3. OneEndianPerCapture'
    BY <2>1 DEF OneEndianPerCapture, FilterInv
  <2> QED BY <2>1, <2>2, <2>3 DEF FilterInv
<1>5. CASE UNCHANGED vars
  <2>1. proto' = proto /\ detected' = detected /\ accepted' = accepted /\ file' = file
    BY <1>5 DEF vars
  <2>2. OneEndianPerCapture'
    BY <2>1 DEF OneEndianPerCapture, FilterInv
  <2> QED BY <2>1, <2>2 DEF FilterInv
<1> QED BY <1>1, <1>2, <1>3, <1>4, <1>5 DEF Next

\* FilterInv holds at the start.
LEMMA FilterInvInit ==
  ASSUME Init
  PROVE  FilterInv
<1>1. file \in Seq(Range(file))
  BY FilesAssumption DEF Init, IsList
<1>2. Len(file) \in Nat /\ DOMAIN file = 1..Len(file)
  BY <1>1, LenProperties
<1>3. proto = NoProto /\ detected = "unknown" /\ accepted = {}
  BY DEF Init
<1> QED BY <1>2, <1>3 DEF FilterInv, OneEndianPerCapture

\* FilterInv is an invariant.
THEOREM PdefInvariant == Spec => []FilterInv
<1>1. Init => FilterInv
  BY FilterInvInit
<1>2. FilterInv /\ [Next]_vars => FilterInv'
  BY FilterInvStep
<1> QED BY <1>1, <1>2, PTL DEF Spec

\* All packets that one capture accepts are accepted under one endianness, the
\* declared one or the one that try_match_with_endian detected, also those
\* that were accepted before it was known.
THEOREM PdefOneEndian == Spec => []OneEndianPerCapture
<1>1. FilterInv => OneEndianPerCapture
  BY DEF FilterInv
<1> QED BY <1>1, PdefInvariant, PTL


-----------------------------------------------------------------------------
(* Compiled code. *)

\* Two sequences after one another.
LEMMA Joined ==
  ASSUME NEW s, NEW t, IsSequence(s), IsSequence(t)
  PROVE  /\ IsSequence(s \o t) /\ Len(s \o t) = Len(s) + Len(t)
         /\ Len(s) \in Nat /\ DOMAIN s = 1..Len(s) /\ Len(t) \in Nat /\ DOMAIN t = 1..Len(t)
         /\ DOMAIN (s \o t) = 1..(Len(s) + Len(t))
         /\ \A i \in 1..Len(s) : (s \o t)[i] = s[i]
         /\ \A i \in 1..Len(t) : (s \o t)[Len(s) + i] = t[i]
<1>1. PICK S, T : s \in Seq(S) /\ t \in Seq(T)
  BY DEF IsSequence
<1>2. s \in Seq(S \cup T) /\ t \in Seq(S \cup T)
  BY <1>1
<1>3. s \o t \in Seq(S \cup T) /\ Len(s \o t) = Len(s) + Len(t)
  BY <1>2
<1>4. Len(s) \in Nat /\ DOMAIN s = 1..Len(s) /\ Len(t) \in Nat /\ DOMAIN t = 1..Len(t)
  BY <1>2, LenProperties
<1>5. \A i \in 1..Len(s) : (s \o t)[i] = s[i]
  BY <1>2, <1>4
<1>6. \A i \in 1..Len(t) : (s \o t)[Len(s) + i] = t[i]
  BY <1>2, <1>4
<1> QED BY <1>3, <1>4, <1>5, <1>6, LenProperties DEF IsSequence

\* An element of the second.
LEMMA JoinedAt ==
  ASSUME NEW s, NEW t, IsSequence(s), IsSequence(t), NEW i \in 1..Len(t)
  PROVE  (s \o t)[Len(s) + i] = t[i]
BY Joined

\* g is the function that FlattenSeq defines, for k sequences.
Flatten(seqs, k, g) ==
  g = [i \in 1..k |-> IF i = 1 THEN seqs[i] ELSE g[i - 1] \o seqs[i]]

\* What FlattenSeq defines exists.
LEMMA FlattenExists ==
  ASSUME NEW seqs, NEW n \in Nat
  PROVE  \E g : Flatten(seqs, n, g)
<1> DEFINE P(k) == \E g : Flatten(seqs, k, g)
           T == {k \in Nat : ~P(k)}
<1>1. P(0)
  <2> DEFINE g == [i \in 1..0 |-> seqs]
  <2>1. 1..0 = {}
    OBVIOUS
  <2>2. Flatten(seqs, 0, g)
    BY <2>1 DEF Flatten
  <2> QED BY <2>2
<1>2. ASSUME NEW k \in Nat, P(k) PROVE P(k + 1)
  <2>1. PICK g : Flatten(seqs, k, g)
    BY <1>2
  <2> DEFINE h == [i \in 1..(k + 1) |-> IF i = 1 THEN seqs[i] ELSE g[i - 1] \o seqs[i]]
  <2>2. \A i \in 1..k : h[i] = g[i]
    <3>1. \A i \in 1..k : i \in 1..(k + 1)
      OBVIOUS
    <3> QED BY <2>1, <3>1 DEF Flatten
  <2>3. \A i \in 1..(k + 1) : i # 1 => i - 1 \in 1..k
    OBVIOUS
  <2>4. h = [i \in 1..(k + 1) |-> IF i = 1 THEN seqs[i] ELSE h[i - 1] \o seqs[i]]
    <3> HIDE DEF h
    <3>1. \A i \in 1..(k + 1) : i # 1 => h[i - 1] = g[i - 1]
      BY <2>2, <2>3
    <3> QED BY <3>1 DEF h
  <2> QED BY <2>4 DEF Flatten
<1> HIDE DEF P
<1>3. T = {}
  <2>1. SUFFICES ASSUME T # {} PROVE FALSE
    OBVIOUS
  <2>2. PICK k \in T : \A j \in T : k <= j
    BY <2>1, LeastNumber
  <2>3. k # 0 /\ k - 1 \in Nat /\ k - 1 \notin T
    BY <1>1, <2>2
  <2>4. P(k - 1)
    BY <2>3
  <2>5. P(k - 1 + 1)
    BY <1>2, <2>3, <2>4
  <2> QED BY <2>2, <2>5
<1> QED BY <1>3 DEF P

\* The function that FlattenSeq chooses.
FlattenIter(seqs, n) ==
  CHOOSE g : g = [i \in 1..n |-> IF i = 1 THEN seqs[i] ELSE g[i - 1] \o seqs[i]]

\* FlattenSeq puts the sequences one after another.
LEMMA FlattenSteps ==
  ASSUME NEW seqs, NEW n \in Nat \ {0}, Len(seqs) = n
  PROVE  \E g : /\ g[1] = seqs[1]
                /\ \A i \in 2..n : g[i] = g[i - 1] \o seqs[i]
                /\ FlattenSeq(seqs) = g[n]
<1> DEFINE g == FlattenIter(seqs, n)
<1>1. \E h : h = [i \in 1..n |-> IF i = 1 THEN seqs[i] ELSE h[i - 1] \o seqs[i]]
  BY FlattenExists DEF Flatten
<1>2. g = [i \in 1..n |-> IF i = 1 THEN seqs[i] ELSE g[i - 1] \o seqs[i]]
  BY <1>1 DEF FlattenIter
<1>3. FlattenSeq(seqs) = g[n]
  BY DEF FlattenSeq, FlattenIter
<1> HIDE DEF g
<1>4. g[1] = seqs[1]
  BY <1>2
<1>5. \A i \in 2..n : g[i] = g[i - 1] \o seqs[i]
  <2>1. \A i \in 2..n : i \in 1..n /\ i # 1
    OBVIOUS
  <2> QED BY <1>2, <2>1
<1> QED BY <1>3, <1>4, <1>5

\* a is a place of one of the first i sequences, with the element x.
Place(seqs, at, i, a, x) ==
  \E j \in 1..i : \E k \in 1..Len(seqs[j]) : a = at[j - 1] + k /\ x = seqs[j][k]

\* n sequences, of which sequence i starts after at[i - 1] elements.
Laid(seqs, n, at) ==
  /\ n \in Nat \ {0} /\ Len(seqs) = n
  /\ \A i \in 1..n : IsSequence(seqs[i])
  /\ at[0] = 0 /\ \A i \in 1..n : at[i] = at[i - 1] + Len(seqs[i])

\* Every element of FlattenSeq(seqs) is one of a sequence j, at its place after
\* at[j - 1], where that sequence starts.
LEMMA FlattenPlaces ==
  ASSUME NEW seqs, NEW n, NEW at, Laid(seqs, n, at)
  PROVE  /\ IsSequence(FlattenSeq(seqs)) /\ Len(FlattenSeq(seqs)) = at[n] /\ at[n] \in Nat
         /\ \A a \in 1..at[n] : Place(seqs, at, n, a, FlattenSeq(seqs)[a])
<1>0. /\ n \in Nat \ {0} /\ Len(seqs) = n
      /\ \A i \in 1..n : IsSequence(seqs[i])
      /\ at[0] = 0 /\ \A i \in 1..n : at[i] = at[i - 1] + Len(seqs[i])
  BY DEF Laid
<1> USE <1>0
<1>1. PICK g : /\ g[1] = seqs[1]
               /\ \A i \in 2..n : g[i] = g[i - 1] \o seqs[i]
               /\ FlattenSeq(seqs) = g[n]
  BY FlattenSteps
<1> DEFINE Good(i) == /\ IsSequence(g[i]) /\ Len(g[i]) = at[i] /\ at[i] \in Nat
                      /\ \A a \in 1..at[i] : Place(seqs, at, i, a, g[i][a])
           T == {i \in 1..n : ~Good(i)}
<1>2. Good(1)
  <2>1. IsSequence(g[1]) /\ g[1] = seqs[1]
    BY <1>1
  <2>2. Len(seqs[1]) \in Nat
    BY <2>1, Joined
  <2>3. at[1] = Len(seqs[1])
    <3>1. at[1] = at[0] + Len(seqs[1])
      <4>1. 1 \in 1..n /\ 1 - 1 = 0
        OBVIOUS
      <4>2. at[1] = at[1 - 1] + Len(seqs[1])
        BY <4>1
      <4> QED BY <4>1, <4>2
    <3> QED BY <2>2, <3>1
  <2>4. ASSUME NEW a \in 1..at[1] PROVE Place(seqs, at, 1, a, g[1][a])
    <3>1. a \in 1..Len(seqs[1]) /\ 1 \in 1..1 /\ a = at[1 - 1] + a
      BY <2>2, <2>3
    <3> QED BY <2>1, <3>1 DEF Place
  <2> QED BY <2>1, <2>2, <2>3, <2>4
<1>3. ASSUME NEW i \in 2..n, Good(i - 1) PROVE Good(i)
  <2> DEFINE s == g[i - 1]
             t == seqs[i]
  <2>0. i \in 1..n /\ i \in Nat
    OBVIOUS
  <2>1. g[i] = s \o t /\ IsSequence(s) /\ IsSequence(t)
    BY <1>1, <1>3, <2>0
  <2>2. /\ IsSequence(s \o t) /\ Len(s \o t) = Len(s) + Len(t) /\ Len(s) \in Nat /\ Len(t) \in Nat
        /\ \A a \in 1..Len(s) : (s \o t)[a] = s[a]
        /\ \A a \in 1..Len(t) : (s \o t)[Len(s) + a] = t[a]
    <3> HIDE DEF s, t
    <3> QED BY <2>1, Joined
  <2>3. Len(s) = at[i - 1] /\ at[i] = Len(s) + Len(t)
    BY <1>3, <2>0
  <2>4. ASSUME NEW a \in 1..at[i] PROVE Place(seqs, at, i, a, g[i][a])
    <3>1. CASE a <= Len(s)
      <4>1. a \in 1..at[i - 1]
        BY <2>2, <2>3, <3>1
      <4>2. Place(seqs, at, i - 1, a, s[a])
        BY <1>3, <4>1
      <4>3. \A j \in 1..(i - 1) : j \in 1..i
        OBVIOUS
      <4>4. g[i][a] = s[a]
        BY <2>1, <2>2, <2>3, <4>1
      <4> QED BY <4>2, <4>3, <4>4 DEF Place
    <3>2. CASE ~(a <= Len(s))
      <4>1. a - Len(s) \in 1..Len(t) /\ a = Len(s) + (a - Len(s))
        BY <2>2, <2>3, <3>2
      <4>2. g[i][a] = t[a - Len(s)]
        BY <2>1, <2>2, <4>1
      <4>3. i \in 1..i
        BY <2>0
      <4> QED BY <2>3, <4>1, <4>2, <4>3 DEF Place
    <3> QED BY <3>1, <3>2
  <2>5. IsSequence(g[i]) /\ Len(g[i]) = at[i]
    BY <2>1, <2>2, <2>3
  <2>6. at[i] \in Nat
    BY <2>2, <2>3
  <2> QED BY <2>4, <2>5, <2>6
<1> HIDE DEF Good
<1>4. T = {}
  <2>1. SUFFICES ASSUME T # {} PROVE FALSE
    OBVIOUS
  <2>2. T \in SUBSET Nat
    OBVIOUS
  <2>3. PICK k \in T : \A j \in T : k <= j
    BY <2>1, <2>2, LeastNumber
  <2>4. k \in 2..n /\ k - 1 \in 1..n
    <3>1. k # 1
      BY <1>2
    <3> QED BY <3>1
  <2>5. Good(k - 1)
    <3>1. ~(k <= k - 1)
      OBVIOUS
    <3> QED BY <2>3, <2>4, <3>1
  <2> QED BY <1>3, <2>3, <2>4, <2>5
<1>5. Good(n)
  BY <1>4
<1> QED BY <1>1, <1>5 DEF Good

\* What CondStart sums up.
SizeSum(seq) == FoldLeft(LAMBDA at, c : at + CondSize(c), 0, seq)

\* The fold of CondStart adds the sizes one by one.
SizeFold(D, seq) ==
  CHOOSE iter : iter = [s \in SUBSET D |-> IF s = {} THEN 0 ELSE iter[s \ {Max(s)}] + CondSize(seq[Max(s)])]

\* st has the sums of the sizes of seq.
Sizes(seq, n, st) ==
  /\ st[0] = 0
  /\ \A i \in 1..n : st[i] = st[i - 1] + CondSize(seq[i])

\* The sum of the sizes, condition by condition.
LEMMA SizeStates ==
  ASSUME NEW seq, NEW n \in Nat, DOMAIN seq = 1..n
  PROVE  \E st : Sizes(seq, n, st) /\ SizeSum(seq) = st[n]
<1> DEFINE D == 1..n
           it == SizeFold(D, seq)
           st == [i \in 0..n |-> it[1..i]]
<1>1. PICK g : Folds("size", 0, seq, n, g)
  BY FoldExists
<1>2. g = [s \in SUBSET D |-> IF s = {} THEN 0 ELSE g[s \ {Max(s)}] + CondSize(seq[Max(s)])]
  BY <1>1 DEF Folds, Turn
<1>3. it = [s \in SUBSET D |-> IF s = {} THEN 0 ELSE it[s \ {Max(s)}] + CondSize(seq[Max(s)])]
  BY <1>2 DEF SizeFold
<1>4. SizeSum(seq) = it[D]
  <2>1. SizeSum(seq) = SizeFold(DOMAIN seq, seq)[DOMAIN seq]
    BY DEF SizeSum, FoldLeft, MapThenFoldSet, SizeFold
  <2> QED BY <2>1
<1> HIDE DEF it
<1>5. st[0] = 0
  <2>1. 1..0 = {} /\ {} \in SUBSET D
    OBVIOUS
  <2> QED BY <1>3, <2>1
<1>6. ASSUME NEW i \in 1..n PROVE st[i] = st[i - 1] + CondSize(seq[i])
  <2>1. /\ 1..i \in SUBSET D /\ 1..i # {} /\ 1..(i - 1) \in SUBSET D
        /\ Max(1..i) = i /\ (1..i) \ {i} = 1..(i - 1)
    BY FirstPositions
  <2>2. it[1..i] = it[(1..i) \ {Max(1..i)}] + CondSize(seq[Max(1..i)])
    BY <1>3, <2>1
  <2>3. it[1..i] = it[1..(i - 1)] + CondSize(seq[i])
    BY <2>1, <2>2
  <2>4. i \in 0..n /\ i - 1 \in 0..n
    OBVIOUS
  <2> QED BY <2>3, <2>4
<1>7. SizeSum(seq) = st[n]
  BY <1>4
<1> QED BY <1>5, <1>6, <1>7 DEF Sizes

\* The sums depend only on the elements that are added.
LEMMA SameSizes ==
  ASSUME NEW s, NEW t, NEW n \in Nat, \A i \in 1..n : s[i] = t[i],
         NEW st, NEW su, Sizes(s, n, st), Sizes(t, n, su)
  PROVE  st[n] = su[n]
<1> DEFINE T == {i \in 0..n : st[i] # su[i]}
<1>1. T = {}
  <2>1. SUFFICES ASSUME T # {} PROVE FALSE
    OBVIOUS
  <2>2. T \in SUBSET Nat
    OBVIOUS
  <2>3. PICK k \in T : \A j \in T : k <= j
    BY <2>1, <2>2, LeastNumber
  <2>4. k \in 1..n /\ k - 1 \in 0..n /\ ~(k <= k - 1)
    <3>1. k # 0
      BY DEF Sizes
    <3> QED BY <3>1
  <2>5. st[k - 1] = su[k - 1]
    BY <2>3, <2>4
  <2>6. st[k] = st[k - 1] + CondSize(s[k]) /\ su[k] = su[k - 1] + CondSize(t[k]) /\ s[k] = t[k]
    BY <2>4 DEF Sizes
  <2> QED BY <2>5, <2>6
<1>2. n \in 0..n
  OBVIOUS
<1> QED BY <1>1, <1>2

\* Where a condition starts is the sum of the sizes before it.
LEMMA StartIsSum ==
  ASSUME NEW conds, NEW j
  PROVE  CondStart(conds, j) = SizeSum(SubSeq(conds, 1, j - 1))
BY DEF CondStart, SizeSum

\* A condition that the parser lets through.
IsCondition(c) ==
  /\ IsSequence(c.values) /\ (c.op \in {"in", "not_in"} => Len(c.values) # 0)
  /\ c.op \in Operators

\* cond_starts: the first condition starts at 0, the next where it ends.
LEMMA CondStarts ==
  ASSUME NEW conds, IsSequence(conds)
  PROVE  /\ CondStart(conds, 1) = 0
         /\ \A j \in 1..Len(conds) : CondStart(conds, j + 1) = CondStart(conds, j) + CondSize(conds[j])
<1>1. PICK S : conds \in Seq(S)
  BY DEF IsSequence
<1> DEFINE n == Len(conds)
           part(k) == SubSeq(conds, 1, k)
<1>2. n \in Nat
  BY <1>1, LenProperties
<1>3. ASSUME NEW k \in 0..n
      PROVE  DOMAIN part(k) = 1..k /\ \A i \in 1..k : part(k)[i] = conds[i]
  BY <1>1, <1>2, <1>3
<1>4. ASSUME NEW k \in 0..n
      PROVE  \E st : Sizes(part(k), k, st) /\ CondStart(conds, k + 1) = st[k]
  <2>1. k \in Nat /\ k + 1 - 1 = k
    BY <1>2
  <2> DEFINE p == part(k)
  <2>2. CondStart(conds, k + 1) = SizeSum(p)
    <3>1. CondStart(conds, k + 1) = SizeSum(SubSeq(conds, 1, k + 1 - 1))
      BY StartIsSum
    <3> QED BY <2>1, <3>1
  <2>3. DOMAIN p = 1..k
    BY <1>3
  <2> HIDE DEF p
  <2>4. PICK st : Sizes(p, k, st) /\ SizeSum(p) = st[k]
    BY <2>1, <2>3, SizeStates
  <2> QED BY <2>2, <2>4 DEF p
<1> HIDE DEF part
<1>5. CondStart(conds, 1) = 0
  <2>1. 0 \in 0..n /\ 0 + 1 = 1
    BY <1>2
  <2>2. PICK st : Sizes(part(0), 0, st) /\ CondStart(conds, 0 + 1) = st[0]
    BY <1>4, <2>1
  <2> QED BY <2>1, <2>2 DEF Sizes
<1>6. ASSUME NEW j \in 1..n PROVE CondStart(conds, j + 1) = CondStart(conds, j) + CondSize(conds[j])
  <2>1. j \in 0..n /\ j - 1 \in 0..n /\ j - 1 \in Nat /\ j - 1 + 1 = j /\ j \in 1..j
    BY <1>2
  <2>2. PICK st : Sizes(part(j - 1), j - 1, st) /\ CondStart(conds, j - 1 + 1) = st[j - 1]
    BY <1>4, <2>1
  <2>3. PICK su : Sizes(part(j), j, su) /\ CondStart(conds, j + 1) = su[j]
    BY <1>4, <2>1
  <2>4. \A i \in 1..(j - 1) : i \in 1..j
    BY <2>1
  <2>5. \A i \in 1..(j - 1) : part(j - 1)[i] = part(j)[i]
    BY <1>3, <2>1, <2>4
  <2>6. Sizes(part(j), j - 1, su)
    BY <2>3, <2>4 DEF Sizes
  <2>7. st[j - 1] = su[j - 1]
    <3> DEFINE a == part(j - 1)
               b == part(j)
               k == j - 1
    <3>1. k \in Nat /\ (\A i \in 1..k : a[i] = b[i]) /\ Sizes(a, k, st) /\ Sizes(b, k, su)
      BY <2>1, <2>2, <2>5, <2>6
    <3> HIDE DEF a, b, k
    <3>2. st[k] = su[k]
      BY <3>1, SameSizes
    <3> QED BY <3>2 DEF k
  <2>8. su[j] = su[j - 1] + CondSize(part(j)[j])
    BY <2>1, <2>3 DEF Sizes
  <2>9. part(j)[j] = conds[j]
    BY <1>3, <2>1
  <2> QED BY <2>1, <2>2, <2>3, <2>7, <2>8, <2>9
<1> QED BY <1>5, <1>6

\* The instruction before address next does not jump, or to an address from next to
\* limit.
Goes(ins, next, limit) ==
  /\ "op" \in DOMAIN ins
  /\ \/ ins.op \in {"load", "cmp", "return_true", "return_false"}
     \/ ins.op \in {"jump", "jump_if_false"} /\ ins.target \in next..limit

\* Code at the addresses from base on jumps only forward, and to limit at most.
Forward(code, base, limit) == \A k \in 1..Len(code) : Goes(code[k], base + k, limit)

\* Code after code.
LEMMA ForwardJoined ==
  ASSUME NEW s, NEW t, IsSequence(s), IsSequence(t), NEW base \in Nat, NEW limit \in Nat,
         Forward(s, base, limit), Forward(t, base + Len(s), limit)
  PROVE  Forward(s \o t, base, limit)
<1>1. /\ Len(s \o t) = Len(s) + Len(t) /\ Len(s) \in Nat /\ Len(t) \in Nat
      /\ \A i \in 1..Len(s) : (s \o t)[i] = s[i]
      /\ \A i \in 1..Len(t) : (s \o t)[Len(s) + i] = t[i]
  BY Joined
<1> DEFINE u == s \o t
<1>2. ASSUME NEW k \in 1..Len(u) PROVE Goes(u[k], base + k, limit)
  <2>1. CASE k <= Len(s)
    <3>1. k \in 1..Len(s) /\ u[k] = s[k]
      BY <1>1, <2>1
    <3> HIDE DEF u
    <3> QED BY <1>2, <3>1 DEF Forward
  <2>2. CASE ~(k <= Len(s))
    <3>1. k - Len(s) \in 1..Len(t) /\ k = Len(s) + (k - Len(s))
      BY <1>1, <2>2
    <3>2. u[k] = t[k - Len(s)]
      BY <1>1, <3>1
    <3> HIDE DEF u
    <3>3. Goes(u[k], base + Len(s) + (k - Len(s)), limit)
      BY <1>2, <3>1, <3>2 DEF Forward
    <3>4. base + Len(s) + (k - Len(s)) = base + k
      BY <1>1, <3>1
    <3> QED BY <3>3, <3>4
  <2> QED BY <2>1, <2>2
<1> QED BY <1>2 DEF Forward

\* Pieces of code one after another, each where at says.
LEMMA ForwardFlatten ==
  ASSUME NEW seqs, NEW n, NEW at, Laid(seqs, n, at),
         NEW base \in Nat, NEW limit \in Nat,
         \A i \in 1..n : at[i - 1] \in Nat /\ Forward(seqs[i], base + at[i - 1], limit)
  PROVE  /\ IsSequence(FlattenSeq(seqs)) /\ Len(FlattenSeq(seqs)) = at[n] /\ at[n] \in Nat
         /\ Forward(FlattenSeq(seqs), base, limit)
<1> DEFINE u == FlattenSeq(seqs)
<1>1. /\ IsSequence(u) /\ Len(u) = at[n] /\ at[n] \in Nat
      /\ \A a \in 1..at[n] : Place(seqs, at, n, a, u[a])
  BY FlattenPlaces
<1> HIDE DEF u
<1>2. ASSUME NEW a \in 1..Len(u) PROVE Goes(u[a], base + a, limit)
  <2>1. PICK j \in 1..n : \E k \in 1..Len(seqs[j]) : a = at[j - 1] + k /\ u[a] = seqs[j][k]
    BY <1>1 DEF Place
  <2>2. PICK k \in 1..Len(seqs[j]) : a = at[j - 1] + k /\ u[a] = seqs[j][k]
    BY <2>1
  <2>3. Goes(u[a], base + at[j - 1] + k, limit)
    BY <1>2, <2>2 DEF Forward
  <2>4. k \in Int /\ at[j - 1] \in Nat
    OBVIOUS
  <2>5. base + at[j - 1] + k = base + a
    BY <2>2, <2>4
  <2> QED BY <2>3, <2>5
<1>3. Forward(u, base, limit)
  BY <1>2 DEF Forward
<1> QED BY <1>1, <1>3 DEF u

\* One, two and three instructions.
LEMMA Instructions ==
  ASSUME NEW a, NEW b, NEW c
  PROVE  /\ IsSequence(<<a>>) /\ Len(<<a>>) = 1 /\ <<a>>[1] = a
         /\ IsSequence(<<a, b>>) /\ Len(<<a, b>>) = 2 /\ <<a, b>>[1] = a /\ <<a, b>>[2] = b
         /\ IsSequence(<<a, b, c>>) /\ Len(<<a, b, c>>) = 3
         /\ <<a, b, c>>[1] = a /\ <<a, b, c>>[2] = b /\ <<a, b, c>>[3] = c
<1>1. <<a>> \in Seq({a, b, c}) /\ <<a, b>> \in Seq({a, b, c}) /\ <<a, b, c>> \in Seq({a, b, c})
  OBVIOUS
<1> QED BY <1>1 DEF IsSequence

\* A function on 1..n is a sequence of length n.
LEMMA LenOf ==
  ASSUME NEW n \in Nat, NEW f, f = [i \in 1..n |-> f[i]]
  PROVE  IsSequence(f) /\ Len(f) = n
<1>1. f \in [1..n -> {f[i] : i \in 1..n}]
  <2>1. [i \in 1..n |-> f[i]] \in [1..n -> {f[i] : i \in 1..n}]
    OBVIOUS
  <2> QED BY <2>1
<1>2. f \in Seq({f[i] : i \in 1..n})
  BY <1>1, SeqDef
<1>3. Len(f) \in Nat /\ 1..Len(f) = 1..n
  BY <1>1, <1>2, LenProperties
<1>4. \A m \in Nat : 1..m = 1..n => m = n
  <2>1. ASSUME NEW m \in Nat, 1..m = 1..n PROVE m = n
    <3>1. m \in 1..m \/ m = 0
      OBVIOUS
    <3>2. n \in 1..n \/ n = 0
      OBVIOUS
    <3>3. \A x \in 1..m : x <= n /\ x >= 1
      BY <2>1
    <3>4. \A x \in 1..n : x <= m /\ x >= 1
      BY <2>1
    <3> QED BY <3>1, <3>2, <3>3, <3>4
  <2> QED BY <2>1
<1> QED BY <1>2, <1>3, <1>4 DEF IsSequence

\* One value of a list of n values, in code that ends at next: where the value's
\* instructions are, and that they jump forward.
LEMMA ValueForward ==
  ASSUME NEW c, IsCondition(c), NEW v \in 1..Len(c.values),
         NEW start \in Nat, NEW next \in Nat, NEW fail \in Nat, next <= fail
  PROVE  /\ IsSequence(CompileIn(c, v, start, next, fail))
         /\ Len(CompileIn(c, v, start, next, fail)) = (IF v < Len(c.values) THEN 3 ELSE 2)
         /\ next = start + 3 * Len(c.values) =>
              Forward(CompileIn(c, v, start, next, fail), start + 1 + 3 * (v - 1), fail)
         /\ IsSequence(CompileNotIn(c, v, start, next, fail))
         /\ Len(CompileNotIn(c, v, start, next, fail)) = 3
         /\ next = start + 1 + 3 * Len(c.values) =>
              Forward(CompileNotIn(c, v, start, next, fail), start + 1 + 3 * (v - 1), fail)
<1> DEFINE n == Len(c.values)
           jif == start + 3 * v - 1
           x == Cmp("eq", c.values[v], 0)
           a == JumpIfFalse(jif + 2)
           b == Jump(next)
           d == JumpIfFalse(fail)
           e == JumpIfFalse(IF v < n THEN jif + 2 ELSE next)
           f == Jump(fail)
           i == CompileIn(c, v, start, next, fail)
           o == CompileNotIn(c, v, start, next, fail)
           base == start + 1 + 3 * (v - 1)
<1>1. n \in Nat /\ v \in Nat /\ v >= 1 /\ v <= n
  <2>1. PICK S : c.values \in Seq(S)
    BY DEF IsCondition, IsSequence
  <2> QED BY <2>1, LenProperties
<1>2. /\ x.op = "cmp" /\ a.target = jif + 2 /\ b.target = next /\ d.target = fail
      /\ a.op = "jump_if_false" /\ b.op = "jump" /\ d.op = "jump_if_false"
      /\ "op" \in DOMAIN x /\ "op" \in DOMAIN a /\ "op" \in DOMAIN b /\ "op" \in DOMAIN d
  BY DEF Cmp, JumpIfFalse, Jump
<1>3. /\ e.target = (IF v < n THEN jif + 2 ELSE next) /\ f.target = fail
      /\ e.op = "jump_if_false" /\ f.op = "jump" /\ "op" \in DOMAIN e /\ "op" \in DOMAIN f
  BY DEF JumpIfFalse, Jump
<1>4. i = IF v < n THEN <<x, a, b>> ELSE <<x, d>>
  BY DEF CompileIn
<1>5. o = <<x, e, f>>
  BY DEF CompileNotIn
<1>6. jif + 2 = base + 3 /\ base + 2 = start + 3 * v
  BY <1>1
<1> HIDE DEF x, a, b, d, e, f, i, o
<1>7. IsSequence(i) /\ Len(i) = (IF v < n THEN 3 ELSE 2) /\ IsSequence(o) /\ Len(o) = 3
  BY <1>4, <1>5, Instructions
<1>8. ASSUME next = start + 3 * n PROVE Forward(i, base, fail)
  <2>1. CASE v < n
    <3>1. i[1] = x /\ i[2] = a /\ i[3] = b /\ Len(i) = 3
      BY <1>4, <2>1, Instructions
    <3>2. a.target \in (base + 2)..fail
      BY <1>1, <1>2, <1>6, <1>8, <2>1
    <3>3. b.target \in (base + 3)..fail
      BY <1>1, <1>2, <1>6, <1>8, <2>1
    <3>4. \A k \in 1..3 : k = 1 \/ k = 2 \/ k = 3
      OBVIOUS
    <3> HIDE DEF base
    <3> QED BY <1>2, <3>1, <3>2, <3>3, <3>4 DEF Forward, Goes
  <2>2. CASE ~(v < n)
    <3>1. i[1] = x /\ i[2] = d /\ Len(i) = 2
      BY <1>4, <2>2, Instructions
    <3>2. d.target \in (base + 2)..fail
      BY <1>1, <1>2, <1>6, <1>8, <2>2
    <3>3. \A k \in 1..2 : k = 1 \/ k = 2
      OBVIOUS
    <3> HIDE DEF base
    <3> QED BY <1>2, <3>1, <3>2, <3>3 DEF Forward, Goes
  <2> QED BY <2>1, <2>2
<1>9. ASSUME next = start + 1 + 3 * n PROVE Forward(o, base, fail)
  <2>1. o[1] = x /\ o[2] = e /\ o[3] = f /\ Len(o) = 3
    BY <1>5, Instructions
  <2>5. \A m, w, z \in Nat : w >= 1 /\ w <= m => /\ z + 1 + 3 * (w - 1) \in Nat
                                               /\ z + 1 + 3 * (w - 1) + 3 <= z + 1 + 3 * m
    OBVIOUS
  <2>6. base + 3 <= next /\ base \in Nat
    <3> HIDE DEF n
    <3> QED BY <1>1, <1>9, <2>5
  <2> HIDE DEF base
  <2>2. e.target \in (base + 2)..fail
    BY <1>3, <1>6, <2>6
  <2>3. f.target \in (base + 3)..fail
    BY <1>3, <2>6
  <2>4. \A k \in 1..3 : k = 1 \/ k = 2 \/ k = 3
    OBVIOUS
  <2> HIDE DEF base
  <2> QED BY <1>2, <1>3, <2>1, <2>2, <2>3, <2>4 DEF Forward, Goes
<1> QED BY <1>7, <1>8, <1>9 DEF i, o

\* The instructions after the load of a list condition.
LEMMA ListForward ==
  ASSUME NEW c, IsCondition(c), c.op \in {"in", "not_in"},
         NEW start \in Nat, NEW next \in Nat, NEW fail \in Nat,
         next = start + CondSize(c), next <= fail
  PROVE  LET code == IF c.op = "in"
                     THEN FlattenSeq([v \in DOMAIN c.values |-> CompileIn(c, v, start, next, fail)])
                     ELSE FlattenSeq([v \in DOMAIN c.values |-> CompileNotIn(c, v, start, next, fail)])
         IN  IsSequence(code) /\ Len(code) = CondSize(c) - 1 /\ Forward(code, start + 1, fail)
<1> DEFINE n == Len(c.values)
           ins == [v \in DOMAIN c.values |-> CompileIn(c, v, start, next, fail)]
           outs == [v \in DOMAIN c.values |-> CompileNotIn(c, v, start, next, fail)]
<1>1. n \in Nat \ {0} /\ DOMAIN c.values = 1..n
  <2>1. PICK S : c.values \in Seq(S)
    BY DEF IsCondition, IsSequence
  <2> QED BY <2>1, LenProperties DEF IsCondition
<1>2. start + 1 \in Nat
  OBVIOUS
<1>3. ASSUME NEW v \in 1..n
      PROVE  v \in Nat /\ 3 * (v - 1) \in Nat /\ 3 * v = 3 * (v - 1) + 3 /\ 3 * v - 1 = 3 * (v - 1) + 2
  BY <1>1
<1>4. CASE c.op = "in"
  <2> DEFINE at == [v \in 0..n |-> IF v < n THEN 3 * v ELSE 3 * n - 1]
  <2>1. next = start + 3 * n /\ CondSize(c) - 1 = 3 * n - 1
    BY <1>1, <1>4 DEF CondSize
  <2>2. ASSUME NEW v \in 1..n
        PROVE  /\ IsSequence(ins[v]) /\ Len(ins[v]) = (IF v < n THEN 3 ELSE 2)
               /\ Forward(ins[v], start + 1 + 3 * (v - 1), fail)
    <3> DEFINE y == CompileIn(c, v, start, next, fail)
    <3>1. ins[v] = y
      BY <1>1
    <3>2. IsSequence(y) /\ Len(y) = (IF v < n THEN 3 ELSE 2)
      BY ValueForward
    <3>3. Forward(y, start + 1 + 3 * (v - 1), fail)
      BY <2>1, ValueForward
    <3> HIDE DEF y, ins
    <3> QED BY <3>1, <3>2, <3>3
  <2>3. IsSequence(ins) /\ Len(ins) = n
    BY <1>1, LenOf
  <2>4. at[0] = 0 /\ at[n] = 3 * n - 1 /\ \A v \in 1..n : at[v - 1] = 3 * (v - 1)
    BY <1>1
  <2>5. ASSUME NEW v \in 1..n PROVE at[v] = at[v - 1] + Len(ins[v])
    <3>1. v \in 0..n /\ (v < n \/ v = n)
      BY <1>1
    <3> HIDE DEF ins
    <3> QED BY <1>1, <1>3, <2>2, <2>4, <3>1
  <2> HIDE DEF ins, at
  <2>6. Laid(ins, n, at)
    BY <1>1, <2>2, <2>3, <2>4, <2>5 DEF Laid
  <2>7. \A v \in 1..n : at[v - 1] \in Nat /\ Forward(ins[v], start + 1 + at[v - 1], fail)
    BY <1>3, <2>2, <2>4
  <2>8. IsSequence(FlattenSeq(ins)) /\ Len(FlattenSeq(ins)) = at[n] /\ Forward(FlattenSeq(ins), start + 1, fail)
    <3> DEFINE b == start + 1
    <3>1. b \in Nat /\ \A v \in 1..n : at[v - 1] \in Nat /\ Forward(ins[v], b + at[v - 1], fail)
      BY <1>2, <2>7
    <3> HIDE DEF b
    <3>2. IsSequence(FlattenSeq(ins)) /\ Len(FlattenSeq(ins)) = at[n] /\ Forward(FlattenSeq(ins), b, fail)
      BY <2>6, <3>1, ForwardFlatten
    <3> QED BY <3>2 DEF b
  <2> QED BY <1>4, <2>1, <2>4, <2>8 DEF ins
<1>5. CASE c.op = "not_in"
  <2> DEFINE at == [v \in 0..n |-> 3 * v]
  <2>1. next = start + 1 + 3 * n /\ CondSize(c) - 1 = 3 * n
    BY <1>1, <1>5 DEF CondSize
  <2>2. ASSUME NEW v \in 1..n
        PROVE  /\ IsSequence(outs[v]) /\ Len(outs[v]) = 3
               /\ Forward(outs[v], start + 1 + 3 * (v - 1), fail)
    <3> DEFINE y == CompileNotIn(c, v, start, next, fail)
    <3>1. outs[v] = y
      BY <1>1
    <3>2. IsSequence(y) /\ Len(y) = 3
      BY ValueForward
    <3>3. Forward(y, start + 1 + 3 * (v - 1), fail)
      BY <2>1, ValueForward
    <3> HIDE DEF y, outs
    <3> QED BY <3>1, <3>2, <3>3
  <2>3. IsSequence(outs) /\ Len(outs) = n
    BY <1>1, LenOf
  <2>4. at[0] = 0 /\ at[n] = 3 * n /\ \A v \in 1..n : at[v - 1] = 3 * (v - 1) /\ at[v] = 3 * v
    BY <1>1
  <2>5. \A v \in 1..n : at[v] = at[v - 1] + Len(outs[v])
    <3> HIDE DEF outs
    <3> QED BY <1>3, <2>2, <2>4
  <2> HIDE DEF outs, at
  <2>6. Laid(outs, n, at)
    BY <1>1, <2>2, <2>3, <2>4, <2>5 DEF Laid
  <2>7. \A v \in 1..n : at[v - 1] \in Nat /\ Forward(outs[v], start + 1 + at[v - 1], fail)
    BY <1>3, <2>2, <2>4
  <2>8. IsSequence(FlattenSeq(outs)) /\ Len(FlattenSeq(outs)) = at[n] /\ Forward(FlattenSeq(outs), start + 1, fail)
    <3> DEFINE b == start + 1
    <3>1. b \in Nat /\ \A v \in 1..n : at[v - 1] \in Nat /\ Forward(outs[v], b + at[v - 1], fail)
      BY <1>2, <2>7
    <3> HIDE DEF b
    <3>2. IsSequence(FlattenSeq(outs)) /\ Len(FlattenSeq(outs)) = at[n] /\ Forward(FlattenSeq(outs), b, fail)
      BY <2>6, <3>1, ForwardFlatten
    <3> QED BY <3>2 DEF b
  <2> QED BY <1>5, <2>1, <2>4, <2>8 DEF outs
<1> QED BY <1>4, <1>5

\* The instructions of a condition take the room that cond_starts gives them,
\* and jump forward.
LEMMA ConditionForward ==
  ASSUME NEW c, IsCondition(c), NEW f,
         NEW start \in Nat, NEW next \in Nat, NEW fail \in Nat,
         next = start + CondSize(c), next <= fail
  PROVE  /\ IsSequence(CompileCondition(c, f, start, next, fail))
         /\ Len(CompileCondition(c, f, start, next, fail)) = CondSize(c) /\ CondSize(c) \in Nat
         /\ Forward(CompileCondition(c, f, start, next, fail), start, fail)
<1> DEFINE load == LoadOpcode(f)
           l == <<load>>
           in == FlattenSeq([v \in DOMAIN c.values |-> CompileIn(c, v, start, next, fail)])
           out == FlattenSeq([v \in DOMAIN c.values |-> CompileNotIn(c, v, start, next, fail)])
           m == <<Cmp("mask", c.mask, c.value), JumpIfFalse(fail)>>
           o == <<Cmp(c.op, c.value, 0), JumpIfFalse(fail)>>
           rest == CASE c.op = "in" -> in [] c.op = "not_in" -> out [] c.op = "mask" -> m [] OTHER -> o
<1>1. CompileCondition(c, f, start, next, fail) = l \o rest
  BY DEF CompileCondition
<1>2. load.op = "load" /\ "op" \in DOMAIN load
  BY DEF LoadOpcode
<1> HIDE DEF load
<1>3. IsSequence(l) /\ Len(l) = 1 /\ Forward(l, start, fail)
  <2>1. IsSequence(l) /\ Len(l) = 1 /\ l[1] = load
    BY Instructions
  <2>2. \A k \in 1..1 : k = 1
    OBVIOUS
  <2> QED BY <1>2, <2>1, <2>2 DEF Forward, Goes
<1>4. Len(c.values) \in Nat /\ CondSize(c) \in Nat
  <2>1. PICK S : c.values \in Seq(S)
    BY DEF IsCondition, IsSequence
  <2>2. Len(c.values) \in Nat
    BY <2>1, LenProperties
  <2>3. \A a \in Nat : 3 * a \in Nat /\ 1 + 3 * a \in Nat
    OBVIOUS
  <2> QED BY <2>2, <2>3 DEF CondSize
<1>5. IsSequence(rest) /\ Len(rest) = CondSize(c) - 1 /\ Forward(rest, start + 1, fail)
  <2>1. CASE c.op \in {"in", "not_in"}
    <3> DEFINE code == IF c.op = "in" THEN in ELSE out
    <3>1. IsSequence(code) /\ Len(code) = CondSize(c) - 1 /\ Forward(code, start + 1, fail)
      BY <2>1, ListForward
    <3>2. rest = code
      <4> HIDE DEF in, out
      <4> QED BY <2>1
    <3> QED BY <3>1, <3>2
  <2>2. ASSUME NEW x, NEW y, x.op = "cmp", y.op = "jump_if_false", y.target = fail, CondSize(c) = 3,
               "op" \in DOMAIN x, "op" \in DOMAIN y
        PROVE  IsSequence(<<x, y>>) /\ Len(<<x, y>>) = CondSize(c) - 1 /\ Forward(<<x, y>>, start + 1, fail)
    <3> DEFINE z == <<x, y>>
    <3>1. IsSequence(z) /\ Len(z) = 2 /\ z[1] = x /\ z[2] = y
      BY Instructions
    <3>2. \A k \in 1..2 : k = 1 \/ k = 2
      OBVIOUS
    <3>3. fail \in (start + 1 + 2)..fail
      BY <2>2
    <3> HIDE DEF z
    <3>4. Forward(z, start + 1, fail)
      BY <2>2, <3>1, <3>2, <3>3 DEF Forward, Goes
    <3> QED BY <2>2, <3>1, <3>4 DEF z
  <2>3. CASE c.op = "mask"
    <3>1. /\ Cmp("mask", c.mask, c.value).op = "cmp" /\ JumpIfFalse(fail).target = fail
          /\ JumpIfFalse(fail).op = "jump_if_false"
          /\ "op" \in DOMAIN Cmp("mask", c.mask, c.value) /\ "op" \in DOMAIN JumpIfFalse(fail)
      BY DEF Cmp, JumpIfFalse
    <3>2. CondSize(c) = 3
      BY <2>3 DEF CondSize
    <3>3. rest = m
      <4> HIDE DEF in, out, m, o
      <4> QED BY <2>3
    <3>4. IsSequence(m) /\ Len(m) = CondSize(c) - 1 /\ Forward(m, start + 1, fail)
      BY <2>2, <3>1, <3>2
    <3> HIDE DEF m, rest
    <3> QED BY <3>3, <3>4
  <2>4. CASE c.op \notin {"in", "not_in", "mask"}
    <3>1. /\ Cmp(c.op, c.value, 0).op = "cmp" /\ JumpIfFalse(fail).target = fail
          /\ JumpIfFalse(fail).op = "jump_if_false"
          /\ "op" \in DOMAIN Cmp(c.op, c.value, 0) /\ "op" \in DOMAIN JumpIfFalse(fail)
      BY DEF Cmp, JumpIfFalse
    <3>2. CondSize(c) = 3
      BY <2>4 DEF CondSize
    <3>3. rest = o
      <4> HIDE DEF in, out, m, o
      <4> QED BY <2>4
    <3>4. IsSequence(o) /\ Len(o) = CondSize(c) - 1 /\ Forward(o, start + 1, fail)
      BY <2>2, <3>1, <3>2
    <3> HIDE DEF o, rest
    <3> QED BY <3>3, <3>4
  <2> QED BY <2>1, <2>3, <2>4
<1> HIDE DEF rest, l
<1>6. IsSequence(l \o rest) /\ Len(l \o rest) = 1 + (CondSize(c) - 1)
  <2>1. IsSequence(l \o rest) /\ Len(l \o rest) = Len(l) + Len(rest)
    BY <1>3, <1>5, Joined
  <2> QED BY <1>3, <1>5, <2>1
<1>7. Forward(l \o rest, start, fail)
  BY <1>3, <1>5, ForwardJoined
<1>8. 1 + (CondSize(c) - 1) = CondSize(c)
  BY <1>4
<1> QED BY <1>1, <1>4, <1>6, <1>7, <1>8

\* A rule that the parser lets through.
IsRule(rule) ==
  /\ IsSequence(rule.conds) /\ \A j \in 1..Len(rule.conds) : IsCondition(rule.conds[j])
  /\ rule.sliding_max \in Nat

\* Where the conditions start is a number, and no later than where they end.
LEMMA StartsInOrder ==
  ASSUME NEW rule, IsRule(rule)
  PROVE  \A j \in 1..(Len(rule.conds) + 1) :
           /\ CondStart(rule.conds, j) \in Nat
           /\ \A k \in 1..j : CondStart(rule.conds, k) \in Nat /\ CondStart(rule.conds, k) <= CondStart(rule.conds, j)
<1> DEFINE conds == rule.conds
           n == Len(conds)
           Good(j) == /\ CondStart(conds, j) \in Nat
                      /\ \A k \in 1..j : CondStart(conds, k) \in Nat /\ CondStart(conds, k) <= CondStart(conds, j)
           T == {j \in 1..(n + 1) : ~Good(j)}
<1>1. n \in Nat /\ IsSequence(conds)
  <2>1. PICK S : conds \in Seq(S)
    BY DEF IsRule, IsSequence
  <2> QED BY <2>1, LenProperties DEF IsRule
<1>2. /\ CondStart(conds, 1) = 0
      /\ \A j \in 1..n : CondStart(conds, j + 1) = CondStart(conds, j) + CondSize(conds[j])
  BY <1>1, CondStarts
<1>3. ASSUME NEW j \in 1..n PROVE CondSize(conds[j]) \in Nat
  <2>1. IsCondition(conds[j])
    BY DEF IsRule
  <2>2. PICK S : conds[j].values \in Seq(S)
    BY <2>1 DEF IsCondition, IsSequence
  <2>3. Len(conds[j].values) \in Nat
    BY <2>2, LenProperties
  <2>4. \A a \in Nat : 3 * a \in Nat /\ 1 + 3 * a \in Nat
    OBVIOUS
  <2> QED BY <2>3, <2>4 DEF CondSize
<1> HIDE DEF conds, n
<1>4. Good(1)
  <2>1. \A k \in 1..1 : k = 1
    OBVIOUS
  <2> QED BY <1>2, <2>1
<1>5. ASSUME NEW j \in 1..n, Good(j) PROVE Good(j + 1)
  <2>1. CondStart(conds, j + 1) \in Nat /\ CondStart(conds, j) <= CondStart(conds, j + 1)
    <3>1. \A a, b \in Nat : a + b \in Nat /\ a <= a + b
      OBVIOUS
    <3> QED BY <1>2, <1>3, <1>5, <3>1
  <2>2. ASSUME NEW k \in 1..j PROVE CondStart(conds, k) \in Nat /\ CondStart(conds, k) <= CondStart(conds, j + 1)
    <3>1. CondStart(conds, k) <= CondStart(conds, j) /\ CondStart(conds, k) \in Nat
      BY <1>5
    <3> QED BY <1>5, <2>1, <3>1
  <2>3. \A k \in 1..(j + 1) : k \in 1..j \/ k = j + 1
    BY <1>1
  <2> QED BY <2>1, <2>2, <2>3
<1> HIDE DEF Good
<1>6. T = {}
  <2>1. SUFFICES ASSUME T # {} PROVE FALSE
    OBVIOUS
  <2>2. T \in SUBSET Nat
    BY <1>1
  <2>3. PICK k \in T : \A j \in T : k <= j
    BY <2>1, <2>2, LeastNumber
  <2>4. k # 1
    BY <1>4
  <2>5. k - 1 \in 1..n /\ k - 1 \in 1..(n + 1) /\ k - 1 + 1 = k /\ ~(k <= k - 1)
    BY <1>1, <2>4
  <2>6. Good(k - 1)
    BY <2>3, <2>5
  <2>7. Good(k - 1 + 1)
    BY <1>5, <2>5, <2>6
  <2> QED BY <2>5, <2>7
<1> QED BY <1>6 DEF Good, conds, n

\* Code that jumps only forward and to its own instructions, and ends with a return.
IsCode(code) ==
  /\ IsSequence(code) /\ Len(code) # 0 /\ code[Len(code)].op = "return_false"
  /\ Forward(code, 0, Len(code) - 1)

\* compile_filter_rules: the code of a rule is such code.
LEMMA RuleForward ==
  ASSUME NEW structs, NEW rule, IsRule(rule), Len(rule.conds) # 0
  PROVE  IsCode(CompileRule(structs, rule).code_be)
<1> DEFINE conds == rule.conds
           s == structs[TargetStruct(structs, rule)]
           n == Len(conds)
           success == CondStart(conds, n + 1)
           fail == success + 1
           piece(j) == CompileCondition(conds[j], s.fields[FindField(s, conds[j].path)],
                                        CondStart(conds, j), CondStart(conds, j + 1), fail)
           pieces == [j \in 1..n |-> piece(j)]
           ends == <<[op |-> "return_true"], [op |-> "return_false"]>>
           code == FlattenSeq(pieces) \o ends
           at == [j \in 0..n |-> CondStart(conds, j + 1)]
<1>1. CompileRule(structs, rule).code_be = code
  BY DEF CompileRule
<1>2. n \in Nat \ {0} /\ IsSequence(conds)
  <2>1. PICK S : conds \in Seq(S)
    BY DEF IsRule, IsSequence
  <2> QED BY <2>1, LenProperties DEF IsRule
<1>3. /\ CondStart(conds, 1) = 0
      /\ \A j \in 1..n : CondStart(conds, j + 1) = CondStart(conds, j) + CondSize(conds[j])
  BY <1>2, CondStarts
<1>4. \A j \in 1..(n + 1) :
           /\ CondStart(conds, j) \in Nat
           /\ \A k \in 1..j : CondStart(conds, k) <= CondStart(conds, j)
  BY StartsInOrder
<1>5. success \in Nat /\ fail \in Nat
  <2>1. n + 1 \in 1..(n + 1)
    BY <1>2
  <2> QED BY <1>4, <2>1
<1>6. ASSUME NEW j \in 1..n
      PROVE  /\ IsSequence(pieces[j]) /\ Len(pieces[j]) = CondSize(conds[j])
             /\ Forward(pieces[j], CondStart(conds, j), fail)
  <2> DEFINE c == conds[j]
             f == s.fields[FindField(s, conds[j].path)]
             start == CondStart(conds, j)
             next == CondStart(conds, j + 1)
             z == fail
  <2>1. pieces[j] = CompileCondition(c, f, start, next, z)
    OBVIOUS
  <2>2. IsCondition(c)
    BY DEF IsRule
  <2>3. j \in 1..(n + 1) /\ j + 1 \in 1..(n + 1) /\ n + 1 \in 1..(n + 1) /\ j + 1 \in 1..(n + 1)
    BY <1>2
  <2>4. start \in Nat /\ next \in Nat /\ next <= success
    BY <1>4, <2>3
  <2>5. z \in Nat /\ next <= z
    BY <1>5, <2>4
  <2>6. next = start + CondSize(c)
    BY <1>3
  <2> HIDE DEF pieces, c, f, start, next, z
  <2>7. /\ IsSequence(CompileCondition(c, f, start, next, z))
        /\ Len(CompileCondition(c, f, start, next, z)) = CondSize(c)
        /\ Forward(CompileCondition(c, f, start, next, z), start, z)
    BY <2>2, <2>4, <2>5, <2>6, ConditionForward
  <2> QED BY <2>1, <2>7 DEF c, start, z
<1>7. IsSequence(pieces) /\ Len(pieces) = n
  BY <1>2, LenOf
<1>8. at[0] = 0 /\ at[n] = success
  <2>1. 0 \in 0..n /\ n \in 0..n /\ 0 + 1 = 1
    BY <1>2
  <2> QED BY <1>3, <2>1
<1>9. ASSUME NEW j \in 1..n PROVE at[j - 1] = CondStart(conds, j) /\ at[j] = CondStart(conds, j + 1)
  <2>1. j - 1 \in 0..n /\ j \in 0..n /\ j - 1 + 1 = j
    BY <1>2
  <2> QED BY <2>1
<1> HIDE DEF pieces, at, success, n, conds
<1>10. Laid(pieces, n, at)
  BY <1>2, <1>3, <1>6, <1>7, <1>8, <1>9 DEF Laid
<1>11. \A j \in 1..n : at[j - 1] \in Nat /\ Forward(pieces[j], 0 + at[j - 1], fail)
  <2>1. ASSUME NEW j \in 1..n PROVE at[j - 1] \in Nat
    <3>1. j \in 1..(n + 1)
      BY <1>2
    <3> QED BY <1>4, <1>9, <3>1
  <2>2. \A a \in Nat : 0 + a = a
    OBVIOUS
  <2> QED BY <1>6, <1>9, <2>1, <2>2
<1> DEFINE u == FlattenSeq(pieces)
<1>12. IsSequence(u) /\ Len(u) = success /\ Forward(u, 0, fail)
  <2> HIDE DEF fail
  <2>1. IsSequence(u) /\ Len(u) = at[n] /\ Forward(u, 0, fail)
    BY <1>5, <1>10, <1>11, ForwardFlatten
  <2> QED BY <1>8, <2>1
<1>13. /\ IsSequence(ends) /\ Len(ends) = 2 /\ Forward(ends, success, fail)
       /\ ends[2].op = "return_false"
  <2> DEFINE yes == [op |-> "return_true"]
             no == [op |-> "return_false"]
  <2>1. /\ yes.op = "return_true" /\ no.op = "return_false"
        /\ "op" \in DOMAIN yes /\ "op" \in DOMAIN no
    OBVIOUS
  <2>2. IsSequence(ends) /\ Len(ends) = 2 /\ ends[1] = yes /\ ends[2] = no
    BY Instructions
  <2>3. \A k \in 1..2 : k = 1 \/ k = 2
    OBVIOUS
  <2> HIDE DEF yes, no, ends
  <2> QED BY <2>1, <2>2, <2>3 DEF Forward, Goes
<1> HIDE DEF u, ends
<1>14. IsSequence(u \o ends) /\ Len(u \o ends) = success + 2 /\ (u \o ends)[success + 2] = ends[2]
  <2>1. IsSequence(u \o ends) /\ Len(u \o ends) = Len(u) + Len(ends)
    BY <1>12, <1>13, Joined
  <2>2. (u \o ends)[Len(u) + 2] = ends[2]
    <3>1. 2 \in 1..Len(ends)
      BY <1>13
    <3> QED BY <1>12, <1>13, <3>1, JoinedAt
  <2> QED BY <1>12, <1>13, <2>1, <2>2
<1>15. Forward(u \o ends, 0, fail)
  <2>1. Forward(ends, 0 + Len(u), fail)
    BY <1>5, <1>12, <1>13
  <2> HIDE DEF fail
  <2> QED BY <1>5, <1>12, <1>13, <2>1, ForwardJoined
<1>16. fail = Len(u \o ends) - 1 /\ Len(u \o ends) # 0
  BY <1>5, <1>14
<1>17. IsCode(u \o ends)
  BY <1>13, <1>14, <1>15, <1>16 DEF IsCode
<1> QED BY <1>1, <1>17 DEF u, ends, pieces, n, conds, success

\* code_le is such code if code_be is.
LEMMA SwappedCode ==
  ASSUME NEW code, IsCode(code)
  PROVE  IsCode([a \in DOMAIN code |-> SwapEndianOpcode(code[a])])
<1> DEFINE n == Len(code)
           le == [a \in DOMAIN code |-> SwapEndianOpcode(code[a])]
<1>1. n \in Nat /\ n # 0 /\ DOMAIN code = 1..n
  BY Joined DEF IsCode
<1>2. IsSequence(le) /\ Len(le) = n
  BY <1>1, LenOf
<1>3. ASSUME NEW k \in 1..n
      PROVE  Goes(le[k], 0 + k, n - 1) /\ le[k].op = code[k].op
  <2>1. le[k] = SwapEndianOpcode(code[k])
    BY <1>1
  <2>2. Goes(code[k], 0 + k, n - 1)
    BY DEF IsCode, Forward
  <2>3. CASE code[k].op = "load"
    <3> DEFINE x == [code[k] EXCEPT !.endian = Opposite(@)]
    <3>1. le[k] = x
      BY <2>1, <2>3 DEF SwapEndianOpcode
    <3>2. "op" \in DOMAIN x /\ x.op = code[k].op
      BY <2>2 DEF Goes
    <3> HIDE DEF x, le
    <3> QED BY <2>3, <3>1, <3>2 DEF Goes
  <2>4. CASE code[k].op # "load"
    <3>1. le[k] = code[k]
      BY <2>1, <2>4 DEF SwapEndianOpcode
    <3> QED BY <2>2, <3>1
  <2> QED BY <2>3, <2>4
<1>4. n \in 1..n
  BY <1>1
<1> HIDE DEF le
<1>5. IsCode(le)
  BY <1>1, <1>2, <1>3, <1>4 DEF IsCode, Forward
<1> QED BY <1>5 DEF le

\* compile_filter_rules: both codes of a rule are such code.
LEMMA RuleCodes ==
  ASSUME NEW structs, NEW rule, IsRule(rule), Len(rule.conds) # 0
  PROVE  IsCode(CompileRule(structs, rule).code_be) /\ IsCode(CompileRule(structs, rule).code_le)
<1> DEFINE r == CompileRule(structs, rule)
<1>1. IsCode(r.code_be)
  BY RuleForward
<1>2. r.code_le = [a \in DOMAIN r.code_be |-> SwapEndianOpcode(r.code_be[a])]
  BY DEF CompileRule
<1> HIDE DEF r
<1>3. IsCode(r.code_le)
  BY <1>1, <1>2, SwappedCode
<1> QED BY <1>1, <1>3 DEF r

-----------------------------------------------------------------------------
(* The rules that are compiled. *)

AreRules(rules) == IsSequence(rules) /\ \A i \in 1..Len(rules) : IsRule(rules[i])

\* A rule more.
LEMMA RulesGrow ==
  ASSUME NEW rules, AreRules(rules), NEW r, IsRule(r)
  PROVE  AreRules(Append(rules, r))
<1>1. PICK S : rules \in Seq(S)
  BY DEF AreRules, IsSequence
<1>2. rules \in Seq(S \cup {r})
  BY <1>1
<1>3. Append(rules, r) \in Seq(S \cup {r})
  BY <1>2, AppendFacts
<1>4. Len(Append(rules, r)) = Len(rules) + 1 /\ Len(rules) \in Nat
  BY <1>2, LenProperties
<1>5. ASSUME NEW i \in 1..(Len(rules) + 1) PROVE IsRule(Append(rules, r)[i])
  <2>1. CASE i \in 1..Len(rules)
    <3>1. Append(rules, r)[i] = rules[i]
      BY <1>2, <1>4, <2>1
    <3> QED BY <2>1, <3>1 DEF AreRules
  <2>2. CASE i = Len(rules) + 1
    <3>1. Append(rules, r)[i] = r
      BY <1>2, <1>4, <2>2
    <3> QED BY <3>1
  <2> QED BY <1>4, <2>1, <2>2
<1> QED BY <1>3, <1>4, <1>5 DEF AreRules, IsSequence

\* parse_filter: the conditions of the rule it adds are a sequence, and in and
\* not in have a value.
LEMMA FilterAddsRule ==
  ASSUME NEW p, NEW b, ParserState(p), AreRules(p.rules), IsBlock(b), b.kind = "filter"
  PROVE  AreRules(ParseFilter(p, b).rules)
<1> DEFINE cs == [i \in DOMAIN b.conds |-> ParseCondition(p, b.conds[i])]
           r == [conds |-> cs, sliding |-> b.sliding, sliding_max |-> b.sliding_max]
           rs == Append(p.rules, r)
           known(c) == /\ Known(p, c.mask)
                       /\ Known(p, c.value)
                       /\ \A i \in DOMAIN c.values : Known(p, c.values[i])
                       /\ c.op \in {"in", "not_in"} => c.values # <<>>
<1>1. \/ ParseFilter(p, b) = Rejected(p)
      \/ /\ \A i \in DOMAIN b.conds : known(b.conds[i])
         /\ ParseFilter(p, b) = [p EXCEPT !.rules = rs]
  <2>1. [p EXCEPT !.rules = Append(@, r)] = [p EXCEPT !.rules = rs]
    BY DEF ParserState
  <2>2. ParseFilter(p, b) = IF Len(p.rules) >= MaxFilters \/ \E i \in DOMAIN b.conds : ~known(b.conds[i])
                            THEN Rejected(p) ELSE [p EXCEPT !.rules = Append(@, r)]
    BY DEF ParseFilter
  <2> HIDE DEF known, r, rs
  <2> QED BY <2>1, <2>2
<1>2. /\ IsList(b.conds) /\ \A i \in DOMAIN b.conds : IsList(b.conds[i].values) /\ b.conds[i].op \in Operators
      /\ b.sliding_max \in Nat
  BY DEF IsBlock
<1> DEFINE n == Len(b.conds)
<1>3. n \in Nat /\ DOMAIN b.conds = 1..n
  <2>1. b.conds \in Seq(Range(b.conds))
    BY <1>2 DEF IsList
  <2> QED BY <2>1, LenProperties
<1>4. CASE ParseFilter(p, b) = Rejected(p)
  <2>1. PICK no : no = FALSE
    OBVIOUS
  <2>2. Rejected(p) = [p EXCEPT !.ok = no]
    BY <2>1 DEF Rejected
  <2>3. Rejected(p).rules = p.rules
    BY <2>2 DEF ParserState
  <2> QED BY <1>4, <2>3
<1>5. CASE /\ \A i \in DOMAIN b.conds : known(b.conds[i])
           /\ ParseFilter(p, b) = [p EXCEPT !.rules = rs]
  <2>1. IsSequence(cs) /\ Len(cs) = n
    BY <1>3, LenOf
  <2>2. ASSUME NEW i \in 1..n PROVE IsCondition(cs[i])
    <3> DEFINE c == b.conds[i]
               vs == [k \in DOMAIN c.values |-> ValueOf(p, c.values[k])]
               m == Len(c.values)
    <3>1. cs[i].op = c.op /\ cs[i].values = vs
      BY <1>3 DEF ParseCondition
    <3>2. c.values \in Seq(Range(c.values))
      BY <1>2, <1>3 DEF IsList
    <3>3. m \in Nat /\ DOMAIN c.values = 1..m
      BY <3>2, LenProperties
    <3>4. IsSequence(vs) /\ Len(vs) = m
      BY <3>3, LenOf
    <3>5. c.op \in {"in", "not_in"} => c.values # <<>>
      BY <1>3, <1>5
    <3>6. c.op \in {"in", "not_in"} => m # 0
      BY <3>2, <3>5, EmptySeq
    <3>7. c.op \in Operators
      BY <1>2, <1>3
    <3> HIDE DEF cs, c, vs, m
    <3> QED BY <3>1, <3>4, <3>6, <3>7 DEF IsCondition
  <2> HIDE DEF cs
  <2>3. r.conds = cs /\ r.sliding_max \in Nat
    BY <1>2
  <2> HIDE DEF r
  <2>4. IsRule(r)
    BY <2>1, <2>2, <2>3 DEF IsRule
  <2>5. AreRules(rs)
    BY <2>4, RulesGrow
  <2>6. ParseFilter(p, b).rules = rs
    <3> HIDE DEF rs
    <3> QED BY <1>5 DEF ParserState
  <2> QED BY <2>5, <2>6
<1> QED BY <1>1, <1>4, <1>5

\* One block keeps the rules such.
LEMMA BlockKeepsRules ==
  ASSUME NEW p, NEW b, ParserState(p), AreRules(p.rules), IsBlock(b)
  PROVE  AreRules(ParseBlock(p, b).rules)
<1>1. Rejected(p).rules = p.rules
  <2>1. PICK no : no = FALSE
    OBVIOUS
  <2>2. Rejected(p) = [p EXCEPT !.ok = no]
    BY <2>1 DEF Rejected
  <2> QED BY <2>2 DEF ParserState
<1>2. ParseProtocol(p, b).rules = p.rules
  <2>1. CASE ParseProtocol(p, b) \in {p, Rejected(p)}
    BY <1>1, <2>1
  <2>2. CASE ParseProtocol(p, b) = [p EXCEPT !.default_endian = "big", !.endian_mode = "auto"]
    BY <2>2 DEF ParserState
  <2>3. CASE ParseProtocol(p, b) = [p EXCEPT !.default_endian = b.endian, !.endian_mode = b.endian]
    BY <2>3 DEF ParserState
  <2> QED BY <2>1, <2>2, <2>3 DEF ParseProtocol
<1>3. ParseConst(p, b).rules = p.rules
  <2> DEFINE c == <<[name |-> b.name, value |-> b.value]>> \o p.constants
  <2>1. ParseConst(p, b) = [p EXCEPT !.constants = c]
    BY DEF ParseConst, ParserState
  <2> HIDE DEF c
  <2> QED BY <2>1 DEF ParserState
<1>4. ParseStruct(p, b).rules = p.rules
  <2>1. \/ ParseStruct(p, b) = Rejected(p)
        \/ \E s : ParseStruct(p, b) = [p EXCEPT !.structs = s]
    BY DEF ParseStruct, ParserState
  <2>2. ASSUME NEW s, ParseStruct(p, b) = [p EXCEPT !.structs = s] PROVE ParseStruct(p, b).rules = p.rules
    BY <2>2 DEF ParserState
  <2> QED BY <1>1, <2>1, <2>2
<1>5. \/ ParseBlock(p, b) = p \/ ParseBlock(p, b) = ParseProtocol(p, b)
      \/ ParseBlock(p, b) = ParseConst(p, b) \/ ParseBlock(p, b) = ParseStruct(p, b)
      \/ b.kind = "filter" /\ ParseBlock(p, b) = ParseFilter(p, b)
      \/ ParseBlock(p, b) = Rejected(p)
  BY DEF ParseBlock
<1>6. b.kind = "filter" => AreRules(ParseFilter(p, b).rules)
  BY FilterAddsRule
<1> QED BY <1>1, <1>2, <1>3, <1>4, <1>5, <1>6

\* All blocks do.
LEMMA ParsedRules ==
  ASSUME NEW blocks, NEW n \in Nat, DOMAIN blocks = 1..n, \A i \in 1..n : IsBlock(blocks[i])
  PROVE  AreRules(FoldLeft(ParseBlock, ParserInit, blocks).rules)
<1>1. PICK st : /\ st[0] = ParserInit
                /\ \A i \in 1..n : st[i] = ParseBlock(st[i - 1], blocks[i])
                /\ FoldLeft(ParseBlock, ParserInit, blocks) = st[n]
  BY ParseStates
<1> DEFINE Good(i) == ParserState(st[i]) /\ IsSequence(st[i].structs) /\ AreRules(st[i].rules)
           T == {i \in 0..n : ~Good(i)}
<1>2. Good(0)
  <2>1. ParserState(ParserInit) /\ ParserInit.structs = <<>> /\ ParserInit.rules = <<>>
    BY DEF ParserInit, ParserState, Modes
  <2>2. IsSequence(<<>>)
    BY EmptySeq DEF IsSequence
  <2>3. AreRules(<<>>)
    <3>1. Len(<<>>) = 0 /\ 1..0 = {}
      BY EmptySeq
    <3> QED BY <2>2, <3>1 DEF AreRules
  <2> QED BY <1>1, <2>1, <2>2, <2>3
<1>3. ASSUME NEW i \in 1..n, Good(i - 1) PROVE Good(i)
  BY <1>1, <1>3, BlockKeeps, BlockKeepsRules
<1> HIDE DEF Good
<1>4. T = {}
  <2>1. SUFFICES ASSUME T # {} PROVE FALSE
    OBVIOUS
  <2>2. T \in SUBSET Nat
    OBVIOUS
  <2>3. PICK k \in T : \A j \in T : k <= j
    BY <2>1, <2>2, LeastNumber
  <2>4. k \in 1..n /\ k - 1 \in 0..n
    BY <1>2, <2>3
  <2>5. Good(k - 1)
    BY <2>3, <2>4
  <2> QED BY <1>3, <2>3, <2>4, <2>5
<1>5. Good(n)
  BY <1>4
<1> QED BY <1>1, <1>5 DEF Good

\* Flattening leaves the rules and the mode alone.
LEMMA FlattenKeepsRules ==
  ASSUME NEW p, NEW i, ParserState(p)
  PROVE  FlattenStruct(p, i).rules = p.rules /\ FlattenStruct(p, i).endian_mode = p.endian_mode
<1>1. \/ FlattenStruct(p, i) = Rejected(p)
      \/ \E x : FlattenStruct(p, i) = [p EXCEPT !.structs = x]
  <2> DEFINE flat == FoldLeft(LAMBDA acc, f : FlattenField([p.structs EXCEPT ![i].has_variable = FALSE], acc, f),
                              [ok |-> TRUE, fields |-> <<>>, offset |-> 0, variable |-> FALSE],
                              p.structs[i].fields)
  <2>1. FlattenStruct(p, i) =
          IF ~p.ok \/ ~flat.ok THEN Rejected(p)
          ELSE [p EXCEPT !.structs[i] = [@ EXCEPT !.fields = flat.fields, !.min_size = flat.offset,
                                                  !.has_variable = flat.variable]]
    BY DEF FlattenStruct
  <2> HIDE DEF flat
  <2> DEFINE y == [p.structs[i] EXCEPT !.fields = flat.fields, !.min_size = flat.offset,
                                       !.has_variable = flat.variable]
  <2>2. \/ FlattenStruct(p, i) = Rejected(p)
        \/ FlattenStruct(p, i) = [p EXCEPT !.structs = [p.structs EXCEPT ![i] = y]]
    BY <2>1 DEF ParserState
  <2> QED BY <2>2
<1>2. CASE FlattenStruct(p, i) = Rejected(p)
  <2>1. PICK no : no = FALSE
    OBVIOUS
  <2>2. Rejected(p) = [p EXCEPT !.ok = no]
    BY <2>1 DEF Rejected
  <2>3. Rejected(p).rules = p.rules /\ Rejected(p).endian_mode = p.endian_mode
    BY <2>2 DEF ParserState
  <2> QED BY <1>2, <2>3
<1>3. ASSUME NEW x, FlattenStruct(p, i) = [p EXCEPT !.structs = x]
      PROVE  FlattenStruct(p, i).rules = p.rules /\ FlattenStruct(p, i).endian_mode = p.endian_mode
  BY <1>3 DEF ParserState
<1> QED BY <1>1, <1>2, <1>3

\* All structs flattened do.
LEMMA FlattenedRules ==
  ASSUME NEW p, ParserState(p), IsSequence(p.structs)
  PROVE  FlattenStructs(p).rules = p.rules /\ FlattenStructs(p).endian_mode = p.endian_mode
<1> DEFINE seq == [i \in DOMAIN p.structs |-> i]
           n == Len(p.structs)
<1>1. n \in Nat /\ DOMAIN seq = 1..n
  <2>1. PICK S : p.structs \in Seq(S)
    BY DEF IsSequence
  <2> QED BY <2>1, LenProperties
<1>2. FlattenStructs(p) = FoldLeft(FlattenStruct, p, seq)
  BY DEF FlattenStructs
<1> HIDE DEF seq, n
<1>3. PICK st : Flattens(p, seq, n, st)
  BY <1>1, FlattenStates
<1> DEFINE Good(i) == ParserState(st[i]) /\ st[i].rules = p.rules /\ st[i].endian_mode = p.endian_mode
           T == {i \in 0..n : ~Good(i)}
<1>4. Good(0)
  BY <1>3 DEF Flattens
<1>5. ASSUME NEW i \in 1..n, Good(i - 1) PROVE Good(i)
  <2>1. st[i] = FlattenStruct(st[i - 1], seq[i])
    BY <1>3 DEF Flattens
  <2> QED BY <1>5, <2>1, FlattenKeeps, FlattenKeepsRules
<1> HIDE DEF Good
<1>6. T = {}
  <2>1. SUFFICES ASSUME T # {} PROVE FALSE
    OBVIOUS
  <2>2. T \in SUBSET Nat
    BY <1>1
  <2>3. PICK k \in T : \A j \in T : k <= j
    BY <2>1, <2>2, LeastNumber
  <2>4. k \in 1..n /\ k - 1 \in 0..n
    BY <1>1, <1>4, <2>3
  <2>5. Good(k - 1)
    BY <1>1, <2>3, <2>4
  <2> QED BY <1>5, <2>3, <2>4, <2>5
<1>7. Good(n)
  BY <1>1, <1>6
<1> QED BY <1>2, <1>3, <1>7 DEF Good, Flattens

\* The code of a loaded definition.
HasCode(x) ==
  \A i \in DOMAIN x.filters : IsCode(x.filters[i].code_be) /\ IsCode(x.filters[i].code_le)

\* What parses has code that jumps forward only.
LEMMA ParseCode ==
  ASSUME NEW blocks, NEW n \in Nat, DOMAIN blocks = 1..n, \A i \in 1..n : IsBlock(blocks[i]),
         Parse(blocks).ok
  PROVE  HasCode(Parse(blocks))
<1> DEFINE p == FoldLeft(ParseBlock, ParserInit, blocks)
           q == FlattenStructs(p)
<1>1. ParserState(p) /\ IsSequence(p.structs)
  BY ParsedState
<1>2. AreRules(p.rules)
  BY ParsedRules
<1>3. Parse(blocks) = IF /\ p.ok
                         /\ q.ok
                         /\ \A i \in DOMAIN q.rules : Compiles(q.structs, q.rules[i])
                      THEN [ok |-> TRUE, mode |-> q.endian_mode, structs |-> q.structs, source |-> q.rules,
                            filters |-> [i \in DOMAIN q.rules |-> CompileRule(q.structs, q.rules[i])]]
                      ELSE NoProto
  BY DEF Parse
<1> HIDE DEF p
<1>4. q.rules = p.rules
  BY <1>1, FlattenedRules
<1> HIDE DEF q
<1>5. ~NoProto.ok
  BY DEF NoProto
<1>6. /\ Parse(blocks).filters = [i \in DOMAIN q.rules |-> CompileRule(q.structs, q.rules[i])]
      /\ \A i \in DOMAIN q.rules : Compiles(q.structs, q.rules[i])
  BY <1>3, <1>5
<1>7. ASSUME NEW i \in DOMAIN q.rules
      PROVE  /\ IsCode(CompileRule(q.structs, q.rules[i]).code_be)
             /\ IsCode(CompileRule(q.structs, q.rules[i]).code_le)
  <2>1. DOMAIN q.rules = 1..Len(q.rules)
    <3>1. PICK S : q.rules \in Seq(S)
      BY <1>2, <1>4 DEF AreRules, IsSequence
    <3> QED BY <3>1, LenProperties
  <2>2. IsRule(q.rules[i])
    BY <1>2, <1>4, <2>1 DEF AreRules
  <2>3. Compiles(q.structs, q.rules[i])
    BY <1>6
  <2>4. q.rules[i].conds # <<>>
    BY <2>3 DEF Compiles, TargetStruct
  <2>5. Len(q.rules[i].conds) # 0
    <3>1. PICK S : q.rules[i].conds \in Seq(S)
      BY <2>2 DEF IsRule, IsSequence
    <3> QED BY <2>4, <3>1, EmptySeq
  <2> QED BY <2>2, <2>5, RuleCodes
<1> QED BY <1>6, <1>7 DEF HasCode

-----------------------------------------------------------------------------
(* Types, and the code that is loaded. *)

Detection == Endians \cup {"unknown"}

\* TypeOK, with what the next capture is loaded from and the messages that set
\* usage.
CodeInv ==
  /\ \A i \in DOMAIN file : IsBlock(file[i])
  /\ proto.ok => HasCode(proto)
  /\ usage \in [detected : Detection, needed : BOOLEAN, done : BOOLEAN]
  /\ endianMsg \in Seq([endian : Endians, accepted : SUBSET Packets])
  /\ accepted \subseteq Packets /\ total \in 0..MaxPackets

\* Writing an endianness into a block keeps it a block.
LEMMA WritebackBlocks ==
  ASSUME (\E u : TryWriteback(u)) \/ UNCHANGED file, \A i \in DOMAIN file : IsBlock(file[i])
  PROVE  \A i \in DOMAIN file' : IsBlock(file'[i])
<1>1. CASE file' = file
  BY <1>1
<1>2. ASSUME NEW e, file' = Writeback(file, e) PROVE \A i \in DOMAIN file' : IsBlock(file'[i])
  <2>1. PICK t : t = WritebackTarget(file)
    OBVIOUS
  <2>2. file' = [file EXCEPT ![t] = [file[t] EXCEPT !.endian = e]]
    BY <1>2, <2>1 DEF Writeback
  <2>3. ASSUME NEW i \in DOMAIN file PROVE IsBlock(file'[i])
    <3>1. CASE i # t
      BY <2>2, <3>1
    <3>2. CASE i = t
      <4> DEFINE b == file[t]
                 d == [b EXCEPT !.endian = e]
      <4>1. file'[i] = d
        BY <2>2, <2>3, <3>2
      <4>2. IsBlock(b)
        BY <2>3, <3>2
      <4>3. /\ DOMAIN d = DOMAIN b
            /\ \A x \in DOMAIN b : x # "endian" => d[x] = b[x]
        OBVIOUS
      <4> HIDE DEF b, d
      <4>4. "kind" \in DOMAIN d /\ d.kind = b.kind
        BY <4>2, <4>3 DEF IsBlock
      <4>5. b.kind = "filter" => /\ "conds" \in DOMAIN d /\ d.conds = b.conds
                                 /\ "sliding_max" \in DOMAIN d /\ d.sliding_max = b.sliding_max
        BY <4>2, <4>3 DEF IsBlock
      <4>6. b.kind = "struct" => "fields" \in DOMAIN d /\ d.fields = b.fields
        BY <4>2, <4>3 DEF IsBlock
      <4>7. b.kind = "protocol" => "endian" \in DOMAIN d
        BY <4>2, <4>3 DEF IsBlock
      <4> QED BY <4>1, <4>2, <4>4, <4>5, <4>6, <4>7 DEF IsBlock
    <3> QED BY <3>1, <3>2
  <2> QED BY <2>2, <2>3
<1> QED BY <1>1, <1>2 DEF TryWriteback

\* What TryWriteback leaves of usage.
LEMMA WritebackUsage ==
  ASSUME NEW u \in [detected : Detection, needed : BOOLEAN, done : BOOLEAN], TryWriteback(u)
  PROVE  usage' \in [detected : Detection, needed : BOOLEAN, done : BOOLEAN]
<1>1. PICK b \in BOOLEAN : b = TRUE
  OBVIOUS
<1>2. usage' = u \/ usage' = [u EXCEPT !.done = b]
  BY <1>1 DEF TryWriteback
<1> QED BY <1>2

\* Every step keeps CodeInv.
LEMMA CodeInvStep ==
  ASSUME FilterInv, CodeInv, [Next]_vars
  PROVE  CodeInv'
<1>0. MaxPackets \in Nat
  BY FilesAssumption
<1>1. CASE OpenPdef
  <2>1. PICK n \in Nat : DOMAIN file = 1..n
    BY DEF FilterInv
  <2>2. Parse(file).ok => HasCode(Parse(file))
    BY <2>1, ParseCode DEF CodeInv
  <2>3. /\ proto' = Parse(file) /\ accepted' = {} /\ file' = file /\ total' = 0
        /\ usage' = usage /\ endianMsg' = endianMsg
    BY <1>1 DEF OpenPdef
  <2> QED BY <1>0, <2>2, <2>3 DEF CodeInv
<1>2. ASSUME NEW p \in Packets, FilterPacket(p) PROVE CodeInv'
  <2>1. /\ total < MaxPackets /\ total' = total + 1
        /\ accepted' = accepted \/ accepted' = accepted \cup {p}
        /\ UNCHANGED <<file, proto, endianMsg, usage>>
    BY <1>2 DEF FilterPacket
  <2>2. total' \in 0..MaxPackets
    BY <1>0, <2>1 DEF CodeInv
  <2>3. accepted' \subseteq Packets
    BY <2>1 DEF CodeInv
  <2> QED BY <2>1, <2>2, <2>3 DEF CodeInv
<1>3. CASE EndOfFile
  <2>1. /\ proto' = NoProto /\ total' = 0 /\ accepted' = {} /\ TryWriteback(usage)
        /\ \/ endianMsg' = endianMsg
           \/ /\ detected # "unknown"
              /\ endianMsg' = Append(endianMsg, [endian |-> detected, accepted |-> accepted])
    BY <1>3 DEF EndOfFile
  <2>2. \A i \in DOMAIN file' : IsBlock(file'[i])
    BY <2>1, WritebackBlocks DEF CodeInv
  <2>3. usage' \in [detected : Detection, needed : BOOLEAN, done : BOOLEAN]
    BY <2>1, WritebackUsage DEF CodeInv
  <2>4. endianMsg' \in Seq([endian : Endians, accepted : SUBSET Packets])
    <3> DEFINE m == [endian |-> detected, accepted |-> accepted]
               M == [endian : Endians, accepted : SUBSET Packets]
    <3>1. detected # "unknown" => m \in M
      BY DEF FilterInv, CodeInv
    <3>2. endianMsg \in Seq(M)
      BY DEF CodeInv
    <3>3. endianMsg' = endianMsg \/ (detected # "unknown" /\ endianMsg' = Append(endianMsg, m))
      BY <2>1
    <3> HIDE DEF m, M
    <3>4. endianMsg' \in Seq(M)
      BY <3>1, <3>2, <3>3, AppendFacts
    <3> QED BY <3>4 DEF M
  <2>5. ~proto'.ok
    BY <2>1 DEF NoProto
  <2> QED BY <1>0, <2>1, <2>2, <2>3, <2>4, <2>5 DEF CodeInv
<1>4. CASE HandleEndian
  <2> DEFINE h == Head(endianMsg)
             first == ~usage.done /\ usage.detected = "unknown"
             u == IF first THEN [usage EXCEPT !.detected = h.endian, !.needed = TRUE] ELSE usage
  <2>1. /\ endianMsg # <<>> /\ endianMsg' = Tail(endianMsg)
        /\ UNCHANGED <<proto, total, accepted>>
        /\ (usage' = u /\ file' = file) \/ TryWriteback(u)
    BY <1>4 DEF HandleEndian
  <2>2. h.endian \in Endians
    <3>1. h \in [endian : Endians, accepted : SUBSET Packets]
      BY <2>1, HeadTailProperties DEF CodeInv
    <3> QED BY <3>1
  <2>3. endianMsg' \in Seq([endian : Endians, accepted : SUBSET Packets])
    BY <2>1, HeadTailProperties DEF CodeInv
  <2>4. u \in [detected : Detection, needed : BOOLEAN, done : BOOLEAN]
    <3>1. PICK b \in BOOLEAN : b = TRUE
      OBVIOUS
    <3>2. u = usage \/ u = [usage EXCEPT !.detected = h.endian, !.needed = b]
      BY <3>1
    <3> HIDE DEF u, h
    <3> QED BY <2>2, <3>2 DEF CodeInv, Detection
  <2> HIDE DEF u
  <2>5. usage' \in [detected : Detection, needed : BOOLEAN, done : BOOLEAN]
    BY <2>1, <2>4, WritebackUsage
  <2>6. \A i \in DOMAIN file' : IsBlock(file'[i])
    BY <2>1, WritebackBlocks DEF CodeInv
  <2> QED BY <2>1, <2>3, <2>5, <2>6 DEF CodeInv
<1>5. CASE UNCHANGED vars
  BY <1>5 DEF vars, CodeInv
<1> QED BY <1>1, <1>2, <1>3, <1>4, <1>5 DEF Next

\* It holds at the start.
LEMMA CodeInvInit ==
  ASSUME Init
  PROVE  CodeInv
<1>1. file \in Files /\ ~proto.ok /\ total = 0 /\ accepted = {} /\ endianMsg = <<>> /\ usage = NoUsage
  BY DEF Init, NoProto
<1>2. \A i \in DOMAIN file : IsBlock(file[i])
  BY <1>1, FilesAssumption
<1>3. usage \in [detected : Detection, needed : BOOLEAN, done : BOOLEAN]
  BY <1>1 DEF NoUsage, Detection
<1>4. endianMsg \in Seq([endian : Endians, accepted : SUBSET Packets])
  BY <1>1, EmptySeq
<1>5. total \in 0..MaxPackets
  BY <1>1, FilesAssumption
<1> QED BY <1>1, <1>2, <1>3, <1>4, <1>5 DEF CodeInv

\* CodeInv is an invariant: in particular what is loaded has code that jumps only
\* forward and within itself, and ends with a return.
THEOREM PdefCodeInvariant == Spec => []CodeInv
<1>1. Init => CodeInv
  BY CodeInvInit
<1>2. FilterInv /\ CodeInv /\ [Next]_vars => CodeInv'
  BY CodeInvStep
<1> QED BY <1>1, <1>2, PdefInvariant, PTL DEF Spec

\* The detected endianness and the manager's record of it are among their values,
\* and compile_filter_rules, for any rules, emits no jump back or out of the code.
THEOREM PdefTypeOK == Spec => []TypeOK
<1>1. FilterInv /\ CodeInv => TypeOK
  <2> SUFFICES ASSUME FilterInv, CodeInv PROVE TypeOK
    OBVIOUS
  <2>1. /\ detected \in Endians \cup {"unknown"} /\ usage.detected \in Endians \cup {"unknown"}
        /\ accepted \subseteq Packets /\ total \in 0..MaxPackets
    BY DEF FilterInv, CodeInv, Detection
  <2>2. ASSUME JustLoaded, NEW i \in DOMAIN proto.filters,
               NEW a \in DOMAIN proto.filters[i].code_be,
               proto.filters[i].code_be[a].op \in {"jump", "jump_if_false"}
        PROVE  proto.filters[i].code_be[a].target \in a..(Len(proto.filters[i].code_be) - 1)
    <3> DEFINE code == proto.filters[i].code_be
    <3>1. IsCode(code)
      BY <2>2 DEF CodeInv, JustLoaded, HasCode
    <3>2. DOMAIN code = 1..Len(code)
      BY <3>1, Joined DEF IsCode
    <3> HIDE DEF code
    <3>3. a \in 1..Len(code) /\ code[a].op \in {"jump", "jump_if_false"}
      BY <2>2, <3>2 DEF code
    <3>4. Goes(code[a], 0 + a, Len(code) - 1)
      BY <3>1, <3>3 DEF IsCode, Forward
    <3>5. 0 + a = a
      BY <3>3
    <3> QED BY <3>3, <3>4, <3>5 DEF Goes, code
  <2> QED BY <2>1, <2>2 DEF TypeOK
<1> QED BY <1>1, PdefInvariant, PdefCodeInvariant, PTL

-----------------------------------------------------------------------------
(* The executor's loop ends. *)

Started == [ip |-> 0, acc |-> 0, cmp |-> FALSE, result |-> "running"]

\* The machine after the executor's turns.
Executed(code, packet) ==
  FoldLeft(LAMBDA m, i : ExecuteIns(code, packet, m), Started, [i \in 1..Len(code) |-> i])

\* The function that this fold chooses.
ExecuteFold(D, code, packet) ==
  CHOOSE iter : iter = [s \in SUBSET D |-> IF s = {} THEN Started
                                           ELSE ExecuteIns(code, packet, iter[s \ {Max(s)}])]

\* st is the machine, turn by turn.
Traced(code, packet, n, st) ==
  /\ st[0] = Started
  /\ \A i \in 1..n : st[i] = ExecuteIns(code, packet, st[i - 1])
  /\ Executed(code, packet) = st[n]

\* The executor's loop goes through such states.
LEMMA ExecuteStates ==
  ASSUME NEW code, NEW packet, NEW n \in Nat, n = Len(code)
  PROVE  \E st : Traced(code, packet, n, st)
<1> DEFINE D == 1..n
           it == ExecuteFold(D, code, packet)
           st == [i \in 0..n |-> it[1..i]]
           seq == [i \in 1..n |-> <<code, packet>>]
<1>1. PICK g : Folds("execute", Started, seq, n, g)
  BY FoldExists
<1>2. g = [s \in SUBSET D |-> IF s = {} THEN Started ELSE ExecuteIns(code, packet, g[s \ {Max(s)}])]
  <2>1. g = [s \in SUBSET D |-> IF s = {} THEN Started
                                ELSE ExecuteIns(seq[Max(s)][1], seq[Max(s)][2], g[s \ {Max(s)}])]
    BY <1>1 DEF Folds, Turn
  <2>2. ASSUME NEW s \in SUBSET D, s # {} PROVE seq[Max(s)][1] = code /\ seq[Max(s)][2] = packet
    <3>1. Max(s) \in 1..n
      BY <2>2, MaxFacts
    <3> QED BY <3>1
  <2> HIDE DEF seq
  <2> QED BY <2>1, <2>2
<1>3. it = [s \in SUBSET D |-> IF s = {} THEN Started ELSE ExecuteIns(code, packet, it[s \ {Max(s)}])]
  BY <1>2 DEF ExecuteFold
<1>4. Executed(code, packet) = it[D]
  <2>1. PICK turns : turns = [i \in 1..Len(code) |-> i]
    OBVIOUS
  <2>2. DOMAIN turns = D
    BY <2>1
  <2>3. Executed(code, packet) = ExecuteFold(DOMAIN turns, code, packet)[DOMAIN turns]
    BY <2>1 DEF Executed, FoldLeft, MapThenFoldSet, ExecuteFold
  <2> QED BY <2>2, <2>3
<1> HIDE DEF it
<1>5. st[0] = Started
  <2>1. 1..0 = {} /\ {} \in SUBSET D
    OBVIOUS
  <2> QED BY <1>3, <2>1
<1>6. ASSUME NEW i \in 1..n PROVE st[i] = ExecuteIns(code, packet, st[i - 1])
  <2>1. /\ 1..i \in SUBSET D /\ 1..i # {} /\ 1..(i - 1) \in SUBSET D
        /\ Max(1..i) = i /\ (1..i) \ {i} = 1..(i - 1)
    BY FirstPositions
  <2>2. it[1..i] = ExecuteIns(code, packet, it[(1..i) \ {Max(1..i)}])
    BY <1>3, <2>1
  <2>3. it[1..i] = ExecuteIns(code, packet, it[1..(i - 1)])
    BY <2>1, <2>2
  <2>4. i \in 0..n /\ i - 1 \in 0..n
    OBVIOUS
  <2> QED BY <2>3, <2>4
<1>7. Executed(code, packet) = st[n]
  BY <1>4
<1> HIDE DEF st
<1>8. Traced(code, packet, n, st)
  BY <1>5, <1>6, <1>7 DEF Traced
<1> QED BY <1>8

\* After i turns on n instructions the machine has stopped or is at instruction i
\* at least.
Runs(m, i, n) ==
  /\ m = [ip |-> m.ip, acc |-> m.acc, cmp |-> m.cmp, result |-> m.result]
  /\ m.result \in {"running", "true", "false"}
  /\ m.result = "running" => m.ip \in i..(n - 1)

\* One turn goes forward.
LEMMA TurnForward ==
  ASSUME NEW code, IsCode(code), NEW packet, NEW n \in Nat, n = Len(code), NEW i \in 1..n,
         NEW m, Runs(m, i - 1, n)
  PROVE  Runs(ExecuteIns(code, packet, m), i, n)
<1> DEFINE ins == code[m.ip + 1]
           next == [m EXCEPT !.ip = @ + 1]
           z == ExecuteIns(code, packet, m)
<1>1. CASE m.result # "running"
  <2>1. z = m
    BY <1>1 DEF ExecuteIns
  <2> QED BY <1>1, <2>1 DEF Runs
<1>2. CASE m.result = "running"
  <2>1. m.ip \in (i - 1)..(n - 1) /\ m.ip \in Nat /\ ~(m.ip >= n) /\ m.ip + 1 \in 1..n
    BY <1>2 DEF Runs
  <2>2. z = CASE ins.op = "load" ->
                     IF ins.offset + ins.width > Len(packet) THEN Stop(m, "false")
                     ELSE [next EXCEPT !.acc = Load(packet, ins)]
                [] ins.op = "cmp" -> [next EXCEPT !.cmp = Compare(m.acc, ins)]
                [] ins.op = "jump_if_false" ->
                     IF m.cmp THEN next ELSE JumpTo(code, m, ins.target)
                [] ins.op = "jump" -> JumpTo(code, m, ins.target)
                [] ins.op = "return_true" -> Stop(m, "true")
                [] ins.op = "return_false" -> Stop(m, "false")
    BY <1>2, <2>1 DEF ExecuteIns
  <2> SUFFICES Runs(z, i, n)
    OBVIOUS
  <2> HIDE DEF z
  <2>3. Goes(ins, 0 + (m.ip + 1), n - 1)
    BY <2>1 DEF IsCode, Forward
  <2>4. ins.op # "return_false" => m.ip + 1 # n
    BY DEF IsCode
  <2>5. \A r \in {"true", "false"} : Runs(Stop(m, r), i, n)
    BY DEF Runs, Stop
  <2>6. ins.op # "return_false" => m.ip + 1 \in i..(n - 1)
    BY <2>1, <2>4
  <2>0. PICK b, c, d : /\ b = m.acc /\ c = m.cmp /\ d = m.ip + 1
                       /\ next = [ip |-> d, acc |-> b, cmp |-> c, result |-> "running"]
    <3>1. PICK a, b, c : a = m.ip /\ b = m.acc /\ c = m.cmp
      OBVIOUS
    <3>2. m = [ip |-> a, acc |-> b, cmp |-> c, result |-> "running"]
      BY <1>2, <3>1 DEF Runs
    <3>3. PICK d : d = a + 1
      OBVIOUS
    <3>4. next = [ip |-> d, acc |-> b, cmp |-> c, result |-> "running"]
      BY <3>1, <3>2, <3>3
    <3> HIDE DEF next
    <3> QED BY <3>1, <3>3, <3>4
  <2>7. ASSUME ins.op # "return_false", NEW x PROVE Runs([next EXCEPT !.acc = x], i, n)
    <3> HIDE DEF next
    <3>1. [next EXCEPT !.acc = x] = [ip |-> d, acc |-> x, cmp |-> c, result |-> "running"]
      BY <2>0
    <3> QED BY <2>6, <2>7, <2>0, <3>1 DEF Runs
  <2>8. ASSUME ins.op # "return_false", NEW x PROVE Runs([next EXCEPT !.cmp = x], i, n)
    <3> HIDE DEF next
    <3>1. [next EXCEPT !.cmp = x] = [ip |-> d, acc |-> b, cmp |-> x, result |-> "running"]
      BY <2>0
    <3> QED BY <2>6, <2>8, <2>0, <3>1 DEF Runs
  <2>9. ins.op # "return_false" => Runs(next, i, n)
    BY <1>2, <2>1, <2>6 DEF Runs
  <2>10. ASSUME ins.op \in {"jump", "jump_if_false"} PROVE Runs(JumpTo(code, m, ins.target), i, n)
    <3>1. ins.target \in (m.ip + 1)..(n - 1)
      <4>1. 0 + (m.ip + 1) = m.ip + 1
        BY <2>1
      <4> QED BY <2>3, <2>10, <4>1 DEF Goes
    <3> DEFINE t == ins.target
    <3>2. t \in i..(n - 1) /\ ~(t >= n)
      BY <2>1, <3>1
    <3>3. JumpTo(code, m, t) = [m EXCEPT !.ip = t]
      BY <3>2 DEF JumpTo
    <3> HIDE DEF t
    <3>4. Runs([m EXCEPT !.ip = t], i, n)
      BY <1>2, <3>2 DEF Runs
    <3> QED BY <3>3, <3>4 DEF t
  <2> HIDE DEF next
  <2>11. CASE ins.op = "load"
    <3>1. z = Stop(m, "false") \/ \E x : z = [next EXCEPT !.acc = x]
      BY <2>2, <2>11
    <3>2. ins.op # "return_false"
      BY <2>11
    <3> QED BY <2>5, <2>7, <3>1, <3>2
  <2>12. CASE ins.op = "cmp"
    <3>1. PICK x : x = Compare(m.acc, ins)
      OBVIOUS
    <3>2. z = [next EXCEPT !.cmp = x]
      BY <2>2, <2>12, <3>1
    <3>3. ins.op # "return_false"
      BY <2>12
    <3> QED BY <2>8, <3>2, <3>3
  <2>13. CASE ins.op \in {"jump", "jump_if_false"}
    <3>1. z = next \/ z = JumpTo(code, m, ins.target)
      BY <2>2, <2>13
    <3>2. ins.op # "return_false"
      BY <2>13
    <3> QED BY <2>9, <2>10, <2>13, <3>1, <3>2
  <2>14. CASE ins.op \in {"return_true", "return_false"}
    <3>1. z = Stop(m, "true") \/ z = Stop(m, "false")
      BY <2>2, <2>14
    <3> QED BY <2>5, <3>1
  <2> QED BY <2>3, <2>11, <2>12, <2>13, <2>14 DEF Goes, z
<1> QED BY <1>1, <1>2

\* Code that jumps only forward and ends with a return comes to an answer, in no
\* more turns than it has instructions.
LEMMA ExecuteEnds ==
  ASSUME NEW code, IsCode(code), NEW packet
  PROVE  Execute(code, packet) \in {"true", "false"}
<1>1. PICK n \in Nat : n = Len(code)
  BY Joined DEF IsCode
<1>2. PICK st : Traced(code, packet, n, st)
  BY <1>1, ExecuteStates
<1>3. /\ st[0] = Started
      /\ \A i \in 1..n : st[i] = ExecuteIns(code, packet, st[i - 1])
      /\ Executed(code, packet) = st[n]
  BY <1>2 DEF Traced
<1> DEFINE Good(i) == Runs(st[i], i, n)
           T == {i \in 0..n : ~Good(i)}
<1>4. Good(0)
  <2>1. n # 0 /\ 0 \in 0..(n - 1)
    BY <1>1 DEF IsCode
  <2>2. /\ Started.ip = 0 /\ Started.result = "running"
        /\ Started = [ip |-> Started.ip, acc |-> Started.acc, cmp |-> Started.cmp, result |-> Started.result]
    BY DEF Started
  <2>3. Runs(Started, 0, n)
    BY <2>1, <2>2 DEF Runs
  <2> QED BY <1>3, <2>3
<1>5. ASSUME NEW i \in 1..n, Good(i - 1) PROVE Good(i)
  BY <1>1, <1>3, <1>5, TurnForward
<1> HIDE DEF Good
<1>6. T = {}
  <2>1. SUFFICES ASSUME T # {} PROVE FALSE
    OBVIOUS
  <2>2. T \in SUBSET Nat
    OBVIOUS
  <2>3. PICK k \in T : \A j \in T : k <= j
    BY <2>1, <2>2, LeastNumber
  <2>4. k \in 1..n /\ k - 1 \in 0..n
    BY <1>4, <2>3
  <2>5. Good(k - 1)
    BY <2>3, <2>4
  <2> QED BY <1>5, <2>3, <2>4, <2>5
<1>7. Runs(st[n], n, n)
  BY <1>6 DEF Good
<1>8. st[n].result \in {"true", "false"}
  BY <1>7 DEF Runs
<1>9. Execute(code, packet) = Executed(code, packet).result
  BY DEF Execute, Executed, Started
<1> QED BY <1>3, <1>8, <1>9

\* Both codes of a rule come to an answer on every packet.
ExecutorEnds ==
  proto.ok => \A i \in DOMAIN proto.filters : \A p \in Packets \cup Probes :
                /\ Execute(proto.filters[i].code_be, p) \in {"true", "false"}
                /\ Execute(proto.filters[i].code_le, p) \in {"true", "false"}

\* packet_filter's executor comes to an answer on any packet, whichever of its
\* codes a rule of a loaded definition is run with.
THEOREM PdefExecutorEnds == Spec => []ExecutorEnds
<1>1. CodeInv => ExecutorEnds
  BY ExecuteEnds DEF CodeInv, HasCode, ExecutorEnds
<1> QED BY <1>1, PdefCodeInvariant, PTL

-----------------------------------------------------------------------------
(* Definitions that differ in the endianness of fields only. *)

FieldKeys == {"path", "type", "size", "offset", "is_array", "array_size"}

\* Fields that are the same but for their endianness, which is one of E.
LikeField(E, f, g) ==
  /\ FieldKeys \subseteq DOMAIN f /\ FieldKeys \subseteq DOMAIN g
  /\ \A k \in FieldKeys : f[k] = g[k]
  /\ f.array_size \in Nat /\ f.size \in Nat /\ f.offset \in Nat
  /\ "endian" \in DOMAIN f /\ "endian" \in DOMAIN g /\ f.endian \in E /\ g.endian \in E

\* Two such lists of fields.
LikeFields(E, s, t) ==
  /\ IsSequence(s) /\ IsSequence(t) /\ Len(s) = Len(t)
  /\ \A i \in 1..Len(s) : LikeField(E, s[i], t[i])

\* Fields put at another path and offset.
LEMMA LikeMoved ==
  ASSUME NEW E, NEW f, NEW g, LikeField(E, f, g), NEW a, NEW x \in Nat
  PROVE  LikeField(E, [f EXCEPT !.path = a, !.offset = x], [g EXCEPT !.path = a, !.offset = x])
<1> DEFINE u == [f EXCEPT !.path = a, !.offset = x]
           v == [g EXCEPT !.path = a, !.offset = x]
<1>1. /\ DOMAIN u = DOMAIN f /\ DOMAIN v = DOMAIN g
      /\ \A k \in DOMAIN f : u[k] = IF k = "offset" THEN x ELSE IF k = "path" THEN a ELSE f[k]
      /\ \A k \in DOMAIN g : v[k] = IF k = "offset" THEN x ELSE IF k = "path" THEN a ELSE g[k]
  OBVIOUS
<1> HIDE DEF u, v
<1>2. LikeField(E, u, v)
  BY <1>1 DEF LikeField, FieldKeys
<1> QED BY <1>2 DEF u, v

\* Fields put at another offset.
LEMMA LikeOffset ==
  ASSUME NEW E, NEW f, NEW g, LikeField(E, f, g), NEW x \in Nat
  PROVE  LikeField(E, [f EXCEPT !.offset = x], [g EXCEPT !.offset = x])
<1> DEFINE u == [f EXCEPT !.offset = x]
           v == [g EXCEPT !.offset = x]
<1>1. /\ DOMAIN u = DOMAIN f /\ DOMAIN v = DOMAIN g
      /\ \A k \in DOMAIN f : u[k] = IF k = "offset" THEN x ELSE f[k]
      /\ \A k \in DOMAIN g : v[k] = IF k = "offset" THEN x ELSE g[k]
  OBVIOUS
<1> HIDE DEF u, v
<1>2. LikeField(E, u, v)
  BY <1>1 DEF LikeField, FieldKeys
<1> QED BY <1>2 DEF u, v

\* Lists after one another.
LEMMA LikeJoined ==
  ASSUME NEW E, NEW s, NEW t, LikeFields(E, s, t), NEW u, NEW v, LikeFields(E, u, v)
  PROVE  LikeFields(E, s \o u, t \o v)
<1>1. /\ IsSequence(s) /\ IsSequence(t) /\ IsSequence(u) /\ IsSequence(v)
      /\ Len(s) = Len(t) /\ Len(u) = Len(v)
  BY DEF LikeFields
<1>2. /\ IsSequence(s \o u) /\ Len(s \o u) = Len(s) + Len(u) /\ Len(s) \in Nat /\ Len(u) \in Nat
      /\ \A i \in 1..Len(s) : (s \o u)[i] = s[i]
      /\ \A i \in 1..Len(u) : (s \o u)[Len(s) + i] = u[i]
  BY <1>1, Joined
<1>3. /\ IsSequence(t \o v) /\ Len(t \o v) = Len(t) + Len(v)
      /\ \A i \in 1..Len(t) : (t \o v)[i] = t[i]
      /\ \A i \in 1..Len(v) : (t \o v)[Len(t) + i] = v[i]
  BY <1>1, Joined
<1>4. ASSUME NEW i \in 1..(Len(s) + Len(u)) PROVE LikeField(E, (s \o u)[i], (t \o v)[i])
  <2>1. CASE i \in 1..Len(s)
    BY <1>1, <1>2, <1>3, <2>1 DEF LikeFields
  <2>2. ASSUME NEW j \in 1..Len(u), i = Len(s) + j PROVE LikeField(E, (s \o u)[i], (t \o v)[i])
    BY <1>1, <1>2, <1>3, <2>2 DEF LikeFields
  <2>3. i \in 1..Len(s) \/ \E j \in 1..Len(u) : i = Len(s) + j
    <3>1. \A a, b \in Nat : \A k \in 1..(a + b) : k \in 1..a \/ (k - a \in 1..b /\ k = a + (k - a))
      OBVIOUS
    <3> QED BY <1>2, <3>1
  <2> QED BY <2>1, <2>2, <2>3
<1> QED BY <1>1, <1>2, <1>3, <1>4 DEF LikeFields

\* A list with one element.
LEMMA LikeOne ==
  ASSUME NEW E, NEW f, NEW g, LikeField(E, f, g)
  PROVE  LikeFields(E, <<f>>, <<g>>)
<1>1. /\ IsSequence(<<f>>) /\ Len(<<f>>) = 1 /\ <<f>>[1] = f
      /\ IsSequence(<<g>>) /\ Len(<<g>>) = 1 /\ <<g>>[1] = g
  BY Instructions
<1>2. \A i \in 1..1 : i = 1
  OBVIOUS
<1> QED BY <1>1, <1>2 DEF LikeFields

\* Lists that are flattened.
LEMMA LikeFlatten ==
  ASSUME NEW E, NEW s, NEW t, NEW n \in Nat, IsSequence(s), IsSequence(t), Len(s) = n, Len(t) = n,
         \A i \in 1..n : LikeFields(E, s[i], t[i])
  PROVE  LikeFields(E, FlattenSeq(s), FlattenSeq(t))
<1>1. CASE n = 0
  <2>1. FlattenSeq(s) = s /\ FlattenSeq(t) = t
    BY <1>1 DEF FlattenSeq
  <2>2. 1..0 = {}
    OBVIOUS
  <2> QED BY <1>1, <2>1, <2>2 DEF LikeFields
<1>2. CASE n # 0
  <2>0. n \in Nat \ {0}
    BY <1>2
  <2>1. PICK g : /\ g[1] = s[1]
                 /\ \A i \in 2..n : g[i] = g[i - 1] \o s[i]
                 /\ FlattenSeq(s) = g[n]
    BY <2>0, FlattenSteps
  <2>2. PICK h : /\ h[1] = t[1]
                 /\ \A i \in 2..n : h[i] = h[i - 1] \o t[i]
                 /\ FlattenSeq(t) = h[n]
    BY <2>0, FlattenSteps
  <2> DEFINE Good(i) == LikeFields(E, g[i], h[i])
             T == {i \in 1..n : ~Good(i)}
  <2>3. Good(1)
    BY <1>2, <2>1, <2>2
  <2>4. ASSUME NEW i \in 2..n, Good(i - 1) PROVE Good(i)
    <3>1. LikeFields(E, s[i], t[i])
      OBVIOUS
    <3>2. LikeFields(E, g[i - 1] \o s[i], h[i - 1] \o t[i])
      BY <2>4, <3>1, LikeJoined
    <3> QED BY <2>1, <2>2, <3>2
  <2> HIDE DEF Good
  <2>5. T = {}
    <3>1. SUFFICES ASSUME T # {} PROVE FALSE
      OBVIOUS
    <3>2. T \in SUBSET Nat
      OBVIOUS
    <3>3. PICK k \in T : \A j \in T : k <= j
      BY <3>1, <3>2, LeastNumber
    <3>4. k \in 2..n /\ k - 1 \in 1..n
      BY <2>3, <3>3
    <3>5. Good(k - 1)
      BY <3>3, <3>4
    <3> QED BY <2>4, <3>3, <3>4, <3>5
  <2>6. Good(n)
    BY <1>2, <2>5
  <2> QED BY <2>1, <2>2, <2>6 DEF Good
<1> QED BY <1>1, <1>2

\* Structs whose fields are such lists.
LikeStruct(E, x, y) ==
  /\ {"name", "min_size", "fields", "has_variable"} \subseteq DOMAIN x
  /\ {"name", "min_size", "fields", "has_variable"} \subseteq DOMAIN y
  /\ x.name = y.name /\ x.min_size = y.min_size /\ x.has_variable = y.has_variable
  /\ x.min_size \in Nat
  /\ LikeFields(E, x.fields, y.fields)

\* Two such lists of structs.
LikeStructs(E, s, t) ==
  /\ IsSequence(s) /\ IsSequence(t) /\ Len(s) = Len(t)
  /\ \A i \in 1..Len(s) : LikeStruct(E, s[i], t[i])

\* A name is found at the same place.
LEMMA LikeFindStruct ==
  ASSUME NEW E, NEW s, NEW t, LikeStructs(E, s, t), NEW name
  PROVE  /\ FindStruct(s, name) = FindStruct(t, name)
         /\ FindStruct(s, name) # 0 => FindStruct(s, name) \in 1..Len(s)
<1> DEFINE A == {i \in 1..Len(s) : s[i].name = name}
           B == {i \in 1..Len(t) : t[i].name = name}
<1>1. A = B
  BY DEF LikeStructs, LikeStruct
<1>2. FindStruct(s, name) = IF A # {} THEN Min(A) ELSE 0
  BY DEF FindStruct, SelectInSeq
<1>3. FindStruct(t, name) = IF B # {} THEN Min(B) ELSE 0
  BY DEF FindStruct, SelectInSeq
<1>4. Len(s) \in Nat
  BY Joined DEF LikeStructs
<1>5. ASSUME A # {} PROVE Min(A) \in A
  <2>1. A \in SUBSET Nat
    BY <1>4
  <2>2. PICK i \in A : \A j \in A : i <= j
    BY <1>5, <2>1, LeastNumber
  <2> HIDE DEF A
  <2> QED BY <2>2 DEF Min
<1>6. A \subseteq 1..Len(s)
  OBVIOUS
<1> HIDE DEF A, B
<1>7. FindStruct(s, name) = FindStruct(t, name)
  BY <1>1, <1>2, <1>3
<1>8. FindStruct(s, name) # 0 => FindStruct(s, name) \in 1..Len(s)
  BY <1>2, <1>5, <1>6
<1> QED BY <1>7, <1>8

\* A path is found at the same place.
LEMMA LikeFindField ==
  ASSUME NEW E, NEW x, NEW y, LikeStruct(E, x, y), NEW path
  PROVE  FindField(x, path) = FindField(y, path)
<1> DEFINE A == {i \in 1..Len(x.fields) : x.fields[i].path = path}
           B == {i \in 1..Len(y.fields) : y.fields[i].path = path}
<1>1. A = B
  <2>1. Len(x.fields) = Len(y.fields) /\ \A i \in 1..Len(x.fields) : x.fields[i].path = y.fields[i].path
    BY DEF LikeStruct, LikeFields, LikeField, FieldKeys
  <2> QED BY <2>1
<1>2. FindField(x, path) = IF A # {} THEN Min(A) ELSE 0
  BY DEF FindField, SelectInSeq
<1>3. FindField(y, path) = IF B # {} THEN Min(B) ELSE 0
  BY DEF FindField, SelectInSeq
<1> HIDE DEF A, B
<1> QED BY <1>1, <1>2, <1>3

\* The fields of a struct put into another.
LEMMA LikeExpand ==
  ASSUME NEW E, NEW x, NEW y, LikeStruct(E, x, y), NEW seg, NEW base \in Nat
  PROVE  LikeFields(E, ExpandNested(x, seg, base), ExpandNested(y, seg, base))
<1> DEFINE n == Len(x.fields)
           u == ExpandNested(x, seg, base)
           v == ExpandNested(y, seg, base)
<1>1. /\ n \in Nat /\ DOMAIN x.fields = 1..n /\ DOMAIN y.fields = 1..n
  BY Joined DEF LikeStruct, LikeFields
<1>2. /\ u = [i \in 1..n |-> [x.fields[i] EXCEPT !.path = <<seg>> \o @, !.offset = base + @]]
      /\ v = [i \in 1..n |-> [y.fields[i] EXCEPT !.path = <<seg>> \o @, !.offset = base + @]]
  BY <1>1 DEF ExpandNested
<1> SUFFICES LikeFields(E, u, v)
  OBVIOUS
<1> HIDE DEF n, u, v
<1>3. u = [i \in 1..n |-> u[i]] /\ v = [i \in 1..n |-> v[i]]
  BY <1>2
<1>4. IsSequence(u) /\ Len(u) = n /\ IsSequence(v) /\ Len(v) = n
  BY <1>1, <1>3, LenOf
<1>5. ASSUME NEW i \in 1..n PROVE LikeField(E, u[i], v[i])
  <2> DEFINE f == x.fields[i]
             g == y.fields[i]
  <2>1. LikeField(E, f, g)
    BY DEF LikeStruct, LikeFields, n
  <2>2. u[i] = [f EXCEPT !.path = <<seg>> \o @, !.offset = base + @]
    BY <1>2
  <2>3. v[i] = [g EXCEPT !.path = <<seg>> \o @, !.offset = base + @]
    BY <1>2
  <2> HIDE DEF f, g
  <2>4. PICK a, z : a = <<seg>> \o f.path /\ z = base + f.offset
    OBVIOUS
  <2>5. f.path = g.path /\ f.offset = g.offset
    BY <2>1 DEF LikeField, FieldKeys
  <2>6. {"path", "offset"} \subseteq DOMAIN f /\ {"path", "offset"} \subseteq DOMAIN g
    BY <2>1 DEF LikeField, FieldKeys
  <2>7. u[i] = [f EXCEPT !.path = a, !.offset = z]
    BY <2>2, <2>4, <2>6
  <2>8. v[i] = [g EXCEPT !.path = a, !.offset = z]
    BY <2>3, <2>4, <2>5, <2>6
  <2>10. z \in Nat
    BY <2>1, <2>4 DEF LikeField
  <2>9. LikeField(E, [f EXCEPT !.path = a, !.offset = z], [g EXCEPT !.path = a, !.offset = z])
    BY <2>1, <2>10, LikeMoved
  <2> QED BY <2>7, <2>8, <2>9, Zenon
<1> QED BY <1>4, <1>5 DEF LikeFields

-----------------------------------------------------------------------------
(* flatten_structs on such structs. *)

AccKeys == {"ok", "fields", "offset", "variable"}

\* The accumulators of two structs, as long as the first has no error.
LikeAcc(E, a, b) ==
  /\ AccKeys \subseteq DOMAIN a /\ AccKeys \subseteq DOMAIN b
  /\ a.ok => /\ b.ok /\ a.offset = b.offset /\ a.variable = b.variable /\ a.offset \in Nat
             /\ LikeFields(E, a.fields, b.fields)

\* A struct flattened further.
LEMMA AccMoved ==
  ASSUME NEW a, AccKeys \subseteq DOMAIN a, NEW f, NEW v, NEW o
  PROVE  /\ DOMAIN [a EXCEPT !.fields = f, !.variable = v, !.offset = o] = DOMAIN a
         /\ [a EXCEPT !.fields = f, !.variable = v, !.offset = o].ok = a.ok
         /\ [a EXCEPT !.fields = f, !.variable = v, !.offset = o].fields = f
         /\ [a EXCEPT !.fields = f, !.variable = v, !.offset = o].variable = v
         /\ [a EXCEPT !.fields = f, !.variable = v, !.offset = o].offset = o
<1> DEFINE z == [a EXCEPT !.fields = f, !.variable = v, !.offset = o]
<1>1. /\ DOMAIN z = DOMAIN a
      /\ \A k \in DOMAIN a : z[k] = IF k = "offset" THEN o ELSE IF k = "variable" THEN v
                                    ELSE IF k = "fields" THEN f ELSE a[k]
  OBVIOUS
<1> HIDE DEF z
<1>2. /\ DOMAIN z = DOMAIN a
      /\ z["ok"] = a["ok"] /\ z["fields"] = f /\ z["variable"] = v /\ z["offset"] = o
  BY <1>1 DEF AccKeys
<1> QED BY <1>2, Zenon DEF z

\* An error in both, or in the first.
LEMMA LikeRejected ==
  ASSUME NEW E, NEW a, NEW b, AccKeys \subseteq DOMAIN a, AccKeys \subseteq DOMAIN b
  PROVE  LikeAcc(E, Rejected(a), Rejected(b)) /\ (DOMAIN Rejected(a) = DOMAIN a) /\ ~Rejected(a).ok
<1> DEFINE u == Rejected(a)
           v == Rejected(b)
<1>1. DOMAIN u = DOMAIN a /\ DOMAIN v = DOMAIN b
  BY DEF Rejected
<1>2. u["ok"] = FALSE
  BY DEF Rejected, AccKeys
<1>3. ~u.ok
  BY <1>2, Zenon
<1> HIDE DEF u, v
<1>4. LikeAcc(E, u, v)
  BY <1>1, <1>3 DEF LikeAcc
<1> QED BY <1>1, <1>3, <1>4 DEF u, v

\* Both flattened further.
LEMMA LikeAccMoved ==
  ASSUME NEW E, NEW a, NEW b, LikeAcc(E, a, b), NEW f, NEW g, a.ok => LikeFields(E, f, g),
         NEW v, NEW o \in Nat
  PROVE  LikeAcc(E, [a EXCEPT !.fields = f, !.variable = v, !.offset = o],
                 [b EXCEPT !.fields = g, !.variable = v, !.offset = o])
<1> DEFINE x == [a EXCEPT !.fields = f, !.variable = v, !.offset = o]
           y == [b EXCEPT !.fields = g, !.variable = v, !.offset = o]
<1>1. AccKeys \subseteq DOMAIN a /\ AccKeys \subseteq DOMAIN b
  BY DEF LikeAcc
<1>2. DOMAIN x = DOMAIN a /\ x.ok = a.ok /\ x.fields = f /\ x.variable = v /\ x.offset = o
  BY <1>1, AccMoved
<1>3. DOMAIN y = DOMAIN b /\ y.ok = b.ok /\ y.fields = g /\ y.variable = v /\ y.offset = o
  BY <1>1, AccMoved
<1> HIDE DEF x, y
<1>4. LikeAcc(E, x, y)
  BY <1>1, <1>2, <1>3 DEF LikeAcc
<1> QED BY <1>4 DEF x, y

\* flatten_nested puts the fields of an inner struct in, as often as it is repeated.
LEMMA LikeNested ==
  ASSUME NEW E, NEW s, NEW t, LikeStructs(E, s, t), NEW f, NEW g, LikeField(E, f, g),
         NEW a, NEW b, LikeAcc(E, a, b), a.ok
  PROVE  LikeAcc(E, FlattenNested(s, a, f), FlattenNested(t, b, g))
<1>1. /\ f.path = g.path /\ f.is_array = g.is_array /\ f.array_size = g.array_size
      /\ f.array_size \in Nat
  BY DEF LikeField, FieldKeys
<1>2. /\ a.offset = b.offset /\ a.offset \in Nat /\ LikeFields(E, a.fields, b.fields)
      /\ AccKeys \subseteq DOMAIN a /\ AccKeys \subseteq DOMAIN b
  BY DEF LikeAcc
<1>3. PICK name : name = f.path[1][1]
  OBVIOUS
<1>4. PICK at : at = FindStruct(s, name)
  OBVIOUS
<1>5. at = FindStruct(t, name) /\ (at # 0 => at \in 1..Len(s))
  BY <1>4, LikeFindStruct
<1>6. PICK repeat : repeat = IF f.is_array THEN f.array_size ELSE 1
  OBVIOUS
<1>7. repeat \in Nat
  BY <1>1, <1>6
<1> DEFINE seg(k) == Seg(f.path[2][1], IF f.is_array THEN k ELSE 0)
           x == s[at]
           y == t[at]
           us == [k \in 1..repeat |-> ExpandNested(x, seg(k), a.offset + (k - 1) * x.min_size)]
           vs == [k \in 1..repeat |-> ExpandNested(y, seg(k), b.offset + (k - 1) * y.min_size)]
           u == a.fields \o FlattenSeq(us)
           v == b.fields \o FlattenSeq(vs)
           w == x.has_variable
           o == a.offset + x.min_size * repeat
<1>8. FlattenNested(s, a, f) =
        IF at = 0 THEN Rejected(a)
        ELSE IF x.has_variable /\ repeat > 1 THEN Rejected(a)
        ELSE [a EXCEPT !.fields = @ \o FlattenSeq(us), !.variable = x.has_variable,
                       !.offset = @ + x.min_size * repeat]
  BY <1>3, <1>4, <1>6 DEF FlattenNested
<1>9. FlattenNested(t, b, g) =
        IF at = 0 THEN Rejected(b)
        ELSE IF y.has_variable /\ repeat > 1 THEN Rejected(b)
        ELSE [b EXCEPT !.fields = @ \o FlattenSeq(vs), !.variable = y.has_variable,
                       !.offset = @ + y.min_size * repeat]
  BY <1>1, <1>3, <1>5, <1>6 DEF FlattenNested
<1>10. CASE at = 0
  BY <1>2, <1>8, <1>9, <1>10, LikeRejected
<1>11. CASE at # 0
  <2>1. LikeStruct(E, x, y)
    BY <1>5, <1>11 DEF LikeStructs
  <2>2. x.min_size = y.min_size /\ x.has_variable = y.has_variable /\ x.min_size \in Nat
    BY <2>1 DEF LikeStruct
  <2>3. LikeFields(E, FlattenSeq(us), FlattenSeq(vs))
    <3>1. us = [k \in 1..repeat |-> us[k]] /\ vs = [k \in 1..repeat |-> vs[k]]
      OBVIOUS
    <3>2. ASSUME NEW k \in 1..repeat PROVE LikeFields(E, us[k], vs[k])
      <4>1. us[k] = ExpandNested(x, seg(k), a.offset + (k - 1) * x.min_size)
        OBVIOUS
      <4>2. vs[k] = ExpandNested(y, seg(k), a.offset + (k - 1) * x.min_size)
        BY <1>2, <2>2
      <4>3. \A i, j, l \in Nat : i + j * l \in Nat
        OBVIOUS
      <4>4. k - 1 \in Nat
        BY <1>7
      <4> HIDE DEF us, vs, x, y, seg
      <4>5. a.offset + (k - 1) * x.min_size \in Nat
        BY <1>2, <2>2, <4>3, <4>4
      <4> QED BY <2>1, <4>1, <4>2, <4>5, LikeExpand
    <3> HIDE DEF us, vs
    <3>3. IsSequence(us) /\ Len(us) = repeat /\ IsSequence(vs) /\ Len(vs) = repeat
      BY <1>7, <3>1, LenOf
    <3> QED BY <1>7, <3>2, <3>3, LikeFlatten
  <2> HIDE DEF us, vs
  <2>4. LikeFields(E, u, v)
    BY <1>2, <2>3, LikeJoined
  <2>5. /\ [a EXCEPT !.fields = @ \o FlattenSeq(us), !.variable = x.has_variable,
                     !.offset = @ + x.min_size * repeat]
            = [a EXCEPT !.fields = u, !.variable = w, !.offset = o]
        /\ [b EXCEPT !.fields = @ \o FlattenSeq(vs), !.variable = y.has_variable,
                     !.offset = @ + y.min_size * repeat]
            = [b EXCEPT !.fields = v, !.variable = w, !.offset = o]
    BY <1>2, <2>2 DEF AccKeys
  <2>9. o \in Nat
    <3>1. \A i, j, l \in Nat : i + j * l \in Nat
      OBVIOUS
    <3> HIDE DEF x
    <3> QED BY <1>2, <1>7, <2>2, <3>1
  <2> HIDE DEF u, v, w, o
  <2>6. LikeAcc(E, [a EXCEPT !.fields = u, !.variable = w, !.offset = o],
                [b EXCEPT !.fields = v, !.variable = w, !.offset = o])
    BY <2>4, <2>9, LikeAccMoved
  <2>7. CASE x.has_variable /\ repeat > 1
    <3>1. FlattenNested(s, a, f) = Rejected(a) /\ FlattenNested(t, b, g) = Rejected(b)
      <4> HIDE DEF x, y
      <4> QED BY <1>8, <1>9, <1>11, <2>2, <2>7
    <3> QED BY <1>2, <3>1, LikeRejected
  <2>8. CASE ~(x.has_variable /\ repeat > 1)
    <3>1. /\ FlattenNested(s, a, f) = [a EXCEPT !.fields = u, !.variable = w, !.offset = o]
          /\ FlattenNested(t, b, g) = [b EXCEPT !.fields = v, !.variable = w, !.offset = o]
      <4> HIDE DEF x, y
      <4> QED BY <1>8, <1>9, <1>11, <2>2, <2>5, <2>8
    <3> QED BY <2>6, <3>1, Zenon
  <2> QED BY <2>7, <2>8
<1> QED BY <1>10, <1>11

\* One field.
LEMMA LikeFlattenField ==
  ASSUME NEW E, NEW s, NEW t, LikeStructs(E, s, t), NEW f, NEW g, LikeField(E, f, g),
         NEW a, NEW b, LikeAcc(E, a, b)
  PROVE  LikeAcc(E, FlattenField(s, a, f), FlattenField(t, b, g))
<1>1. AccKeys \subseteq DOMAIN a /\ AccKeys \subseteq DOMAIN b
  BY DEF LikeAcc
<1>2. f.type = g.type /\ f.size = g.size /\ f.size \in Nat
  BY DEF LikeField, FieldKeys
<1>3. CASE ~a.ok
  <2>1. FlattenField(s, a, f) = Rejected(a)
    BY <1>3 DEF FlattenField
  <2>2. AccKeys \subseteq DOMAIN FlattenField(t, b, g)
    <3>1. FlattenField(t, b, g) \in {Rejected(b), FlattenNested(t, b, g)}
            \/ \E u, v, o : FlattenField(t, b, g) = [b EXCEPT !.fields = u, !.variable = v, !.offset = o]
      BY <1>1 DEF FlattenField, AccKeys
    <3>2. DOMAIN Rejected(b) = DOMAIN b
      BY DEF Rejected
    <3>3. DOMAIN FlattenNested(t, b, g) = DOMAIN b
      BY DEF FlattenNested, Rejected
    <3> QED BY <1>1, <3>1, <3>2, <3>3
  <2>3. DOMAIN Rejected(a) = DOMAIN a /\ ~Rejected(a).ok
    BY <1>1, LikeRejected
  <2> QED BY <1>1, <2>1, <2>2, <2>3 DEF LikeAcc
<1>4. CASE a.ok
  <2>1. /\ b.ok /\ a.variable = b.variable /\ a.offset = b.offset /\ a.offset \in Nat
        /\ LikeFields(E, a.fields, b.fields)
    BY <1>4 DEF LikeAcc
  <2>2. CASE a.variable
    <3>1. FlattenField(s, a, f) = Rejected(a) /\ FlattenField(t, b, g) = Rejected(b)
      BY <2>1, <2>2 DEF FlattenField
    <3> QED BY <1>1, <3>1, LikeRejected
  <2>3. CASE ~a.variable /\ f.type = "nested"
    <3>1. FlattenField(s, a, f) = FlattenNested(s, a, f)
      BY <1>4, <2>3 DEF FlattenField
    <3>2. FlattenField(t, b, g) = FlattenNested(t, b, g)
      BY <1>2, <2>1, <2>3 DEF FlattenField
    <3> QED BY <1>4, <3>1, <3>2, LikeNested
  <2>4. CASE ~a.variable /\ f.type # "nested"
    <3> DEFINE x == [f EXCEPT !.offset = a.offset]
               y == [g EXCEPT !.offset = b.offset]
               v == f.type = "varbytes"
               o == IF f.type = "varbytes" THEN a.offset ELSE a.offset + f.size
               us == Append(a.fields, x)
               vs == Append(b.fields, y)
    <3>1. LikeField(E, x, y)
      BY <2>1, LikeOffset
    <3>2. LikeFields(E, us, vs)
      <4>1. LikeFields(E, a.fields \o <<x>>, b.fields \o <<y>>)
        BY <2>1, <3>1, LikeOne, LikeJoined
      <4>2. \A q, z : IsSequence(q) => Append(q, z) = q \o <<z>>
        <5>1. ASSUME NEW q, NEW z, NEW S, q \in Seq(S) PROVE Append(q, z) = q \o <<z>>
          <6>1. q \in Seq(S \cup {z}) /\ z \in S \cup {z}
            BY <5>1
          <6> QED BY <6>1
        <5> QED BY <5>1 DEF IsSequence
      <4>3. IsSequence(a.fields) /\ IsSequence(b.fields)
        BY <2>1 DEF LikeFields
      <4> HIDE DEF x, y
      <4> QED BY <4>1, <4>2, <4>3
    <3>3. /\ FlattenField(s, a, f) = [a EXCEPT !.fields = us, !.variable = v, !.offset = o]
          /\ FlattenField(t, b, g) = [b EXCEPT !.fields = vs, !.variable = v, !.offset = o]
      BY <1>1, <1>2, <1>4, <2>1, <2>4 DEF FlattenField, AccKeys
    <3>5. o \in Nat
      BY <1>2, <2>1
    <3> HIDE DEF us, vs, v, o
    <3>4. LikeAcc(E, [a EXCEPT !.fields = us, !.variable = v, !.offset = o],
                  [b EXCEPT !.fields = vs, !.variable = v, !.offset = o])
      BY <3>2, <3>5, LikeAccMoved
    <3> QED BY <3>3, <3>4, Zenon
  <2> QED BY <2>2, <2>3, <2>4
<1> QED BY <1>3, <1>4

\* A struct before its first field.
Empty == [ok |-> TRUE, fields |-> <<>>, offset |-> 0, variable |-> FALSE]

\* A struct after its last field.
Flat(structs, fields) == FoldLeft(LAMBDA acc, f : FlattenField(structs, acc, f), Empty, fields)

\* The fold of FlattenField goes through the fields one by one.
FieldFold(D, structs, fields) ==
  CHOOSE iter : iter = [s \in SUBSET D |-> IF s = {} THEN Empty
                                           ELSE FlattenField(structs, iter[s \ {Max(s)}], fields[Max(s)])]

\* st has the accumulator after each field.
FieldSteps(structs, fields, n, st) ==
  /\ st[0] = Empty
  /\ \A i \in 1..n : st[i] = FlattenField(structs, st[i - 1], fields[i])
  /\ Flat(structs, fields) = st[n]

\* The accumulator, field by field.
LEMMA FieldStates ==
  ASSUME NEW structs, NEW fields, NEW n \in Nat, DOMAIN fields = 1..n
  PROVE  \E st : FieldSteps(structs, fields, n, st)
<1> DEFINE D == 1..n
           it == FieldFold(D, structs, fields)
           st == [i \in 0..n |-> it[1..i]]
           seq == [i \in 1..n |-> <<structs, fields[i]>>]
<1>1. PICK g : Folds("field", Empty, seq, n, g)
  BY FoldExists
<1>2. g = [s \in SUBSET D |-> IF s = {} THEN Empty ELSE FlattenField(structs, g[s \ {Max(s)}], fields[Max(s)])]
  <2>1. g = [s \in SUBSET D |-> IF s = {} THEN Empty
                                ELSE FlattenField(seq[Max(s)][1], g[s \ {Max(s)}], seq[Max(s)][2])]
    BY <1>1 DEF Folds, Turn
  <2>2. ASSUME NEW s \in SUBSET D, s # {} PROVE seq[Max(s)][1] = structs /\ seq[Max(s)][2] = fields[Max(s)]
    <3>1. Max(s) \in 1..n
      BY <2>2, MaxFacts
    <3> QED BY <3>1
  <2> HIDE DEF seq
  <2> QED BY <2>1, <2>2
<1>3. it = [s \in SUBSET D |-> IF s = {} THEN Empty ELSE FlattenField(structs, it[s \ {Max(s)}], fields[Max(s)])]
  BY <1>2 DEF FieldFold
<1>4. Flat(structs, fields) = it[D]
  <2>1. Flat(structs, fields) = FieldFold(DOMAIN fields, structs, fields)[DOMAIN fields]
    BY DEF Flat, FoldLeft, MapThenFoldSet, FieldFold
  <2> QED BY <2>1
<1> HIDE DEF it
<1>5. st[0] = Empty
  <2>1. 1..0 = {} /\ {} \in SUBSET D
    OBVIOUS
  <2> QED BY <1>3, <2>1
<1>6. ASSUME NEW i \in 1..n PROVE st[i] = FlattenField(structs, st[i - 1], fields[i])
  <2>1. /\ 1..i \in SUBSET D /\ 1..i # {} /\ 1..(i - 1) \in SUBSET D
        /\ Max(1..i) = i /\ (1..i) \ {i} = 1..(i - 1)
    BY FirstPositions
  <2>2. it[1..i] = FlattenField(structs, it[(1..i) \ {Max(1..i)}], fields[Max(1..i)])
    BY <1>3, <2>1
  <2>3. it[1..i] = FlattenField(structs, it[1..(i - 1)], fields[i])
    BY <2>1, <2>2
  <2>4. i \in 0..n /\ i - 1 \in 0..n
    OBVIOUS
  <2> QED BY <2>3, <2>4
<1>7. Flat(structs, fields) = st[n]
  BY <1>4
<1> QED BY <1>5, <1>6, <1>7 DEF FieldSteps

\* All fields of a struct.
LEMMA LikeFlat ==
  ASSUME NEW E, NEW s, NEW t, LikeStructs(E, s, t), NEW u, NEW v, LikeFields(E, u, v)
  PROVE  LikeAcc(E, Flat(s, u), Flat(t, v))
<1>1. PICK n \in Nat : n = Len(u) /\ DOMAIN u = 1..n /\ DOMAIN v = 1..n
  BY Joined DEF LikeFields
<1>2. PICK g : FieldSteps(s, u, n, g)
  BY <1>1, FieldStates
<1>3. PICK h : FieldSteps(t, v, n, h)
  BY <1>1, FieldStates
<1> DEFINE Good(i) == LikeAcc(E, g[i], h[i])
           T == {i \in 0..n : ~Good(i)}
<1>4. Good(0)
  <2>1. LikeFields(E, <<>>, <<>>)
    <3>1. Len(<<>>) = 0 /\ 1..0 = {} /\ IsSequence(<<>>)
      BY EmptySeq DEF IsSequence
    <3> QED BY <3>1 DEF LikeFields
  <2>2. AccKeys \subseteq DOMAIN Empty /\ Empty.fields = <<>> /\ Empty.offset \in Nat
    BY DEF AccKeys, Empty
  <2>3. LikeAcc(E, Empty, Empty)
    BY <2>1, <2>2 DEF LikeAcc
  <2> QED BY <1>2, <1>3, <2>3 DEF FieldSteps
<1>5. ASSUME NEW i \in 1..n, Good(i - 1) PROVE Good(i)
  <2>1. g[i] = FlattenField(s, g[i - 1], u[i]) /\ h[i] = FlattenField(t, h[i - 1], v[i])
    BY <1>2, <1>3 DEF FieldSteps
  <2>2. LikeField(E, u[i], v[i])
    BY <1>1 DEF LikeFields
  <2> QED BY <1>5, <2>1, <2>2, LikeFlattenField
<1> HIDE DEF Good
<1>6. T = {}
  <2>1. SUFFICES ASSUME T # {} PROVE FALSE
    OBVIOUS
  <2>2. T \in SUBSET Nat
    OBVIOUS
  <2>3. PICK k \in T : \A j \in T : k <= j
    BY <2>1, <2>2, LeastNumber
  <2>4. k \in 1..n /\ k - 1 \in 0..n
    BY <1>4, <2>3
  <2>5. Good(k - 1)
    BY <2>3, <2>4
  <2> QED BY <1>5, <2>3, <2>4, <2>5
<1>7. Good(n)
  BY <1>6
<1> QED BY <1>2, <1>3, <1>7 DEF Good, FieldSteps

\* One struct in place of another.
LEMMA LikeReplaced ==
  ASSUME NEW E, NEW s, NEW t, LikeStructs(E, s, t), NEW i \in 1..Len(s), NEW x, NEW y, LikeStruct(E, x, y)
  PROVE  LikeStructs(E, [s EXCEPT ![i] = x], [t EXCEPT ![i] = y]) /\ Len([s EXCEPT ![i] = x]) = Len(s)
<1> DEFINE n == Len(s)
           u == [s EXCEPT ![i] = x]
           v == [t EXCEPT ![i] = y]
<1>1. /\ n \in Nat /\ DOMAIN s = 1..n /\ DOMAIN t = 1..n
  BY Joined DEF LikeStructs
<1>2. /\ u = [k \in 1..n |-> u[k]] /\ v = [k \in 1..n |-> v[k]]
      /\ \A k \in 1..n : u[k] = (IF k = i THEN x ELSE s[k]) /\ v[k] = (IF k = i THEN y ELSE t[k])
  BY <1>1
<1> HIDE DEF u, v, n
<1>3. IsSequence(u) /\ Len(u) = n /\ IsSequence(v) /\ Len(v) = n
  BY <1>1, <1>2, LenOf
<1>4. \A k \in 1..n : LikeStruct(E, s[k], t[k])
  BY DEF LikeStructs, n
<1>5. LikeStructs(E, u, v)
  BY <1>2, <1>3, <1>4 DEF LikeStructs
<1> QED BY <1>3, <1>5 DEF u, v, n

\* A struct with other fields.
LEMMA LikeStructMoved ==
  ASSUME NEW E, NEW x, NEW y, LikeStruct(E, x, y), NEW f, NEW g, LikeFields(E, f, g),
         NEW m \in Nat, NEW v
  PROVE  LikeStruct(E, [x EXCEPT !.fields = f, !.min_size = m, !.has_variable = v],
                    [y EXCEPT !.fields = g, !.min_size = m, !.has_variable = v])
<1> DEFINE u == [x EXCEPT !.fields = f, !.min_size = m, !.has_variable = v]
           w == [y EXCEPT !.fields = g, !.min_size = m, !.has_variable = v]
<1>1. /\ DOMAIN u = DOMAIN x /\ DOMAIN w = DOMAIN y
      /\ \A k \in DOMAIN x : u[k] = IF k = "has_variable" THEN v ELSE IF k = "min_size" THEN m
                                    ELSE IF k = "fields" THEN f ELSE x[k]
      /\ \A k \in DOMAIN y : w[k] = IF k = "has_variable" THEN v ELSE IF k = "min_size" THEN m
                                    ELSE IF k = "fields" THEN g ELSE y[k]
  OBVIOUS
<1> HIDE DEF u, w
<1>2. /\ u["name"] = x["name"] /\ w["name"] = y["name"] /\ u["fields"] = f /\ w["fields"] = g
      /\ u["min_size"] = m /\ w["min_size"] = m /\ u["has_variable"] = v /\ w["has_variable"] = v
  BY <1>1 DEF LikeStruct
<1>3. LikeStruct(E, u, w)
  BY <1>1, <1>2 DEF LikeStruct
<1> QED BY <1>3 DEF u, w

\* A struct without its mark of variable length.
LEMMA LikeUnmarked ==
  ASSUME NEW E, NEW x, NEW y, LikeStruct(E, x, y), NEW v
  PROVE  LikeStruct(E, [x EXCEPT !.has_variable = v], [y EXCEPT !.has_variable = v])
<1> DEFINE u == [x EXCEPT !.has_variable = v]
           w == [y EXCEPT !.has_variable = v]
<1>1. /\ DOMAIN u = DOMAIN x /\ DOMAIN w = DOMAIN y
      /\ \A k \in DOMAIN x : u[k] = IF k = "has_variable" THEN v ELSE x[k]
      /\ \A k \in DOMAIN y : w[k] = IF k = "has_variable" THEN v ELSE y[k]
  OBVIOUS
<1> HIDE DEF u, w
<1>2. /\ u["name"] = x["name"] /\ w["name"] = y["name"]
      /\ u["fields"] = x["fields"] /\ w["fields"] = y["fields"]
      /\ u["min_size"] = x["min_size"] /\ w["min_size"] = y["min_size"]
      /\ u["has_variable"] = v /\ w["has_variable"] = v
  BY <1>1 DEF LikeStruct
<1>3. LikeStruct(E, u, w)
  BY <1>1, <1>2 DEF LikeStruct
<1> QED BY <1>3 DEF u, w

\* The states of two parsers, as long as the first has no error.
LikeState(E, p, q) ==
  /\ ParserState(p) /\ ParserState(q)
  /\ p.ok => /\ q.ok /\ p.constants = q.constants /\ p.rules = q.rules
             /\ LikeStructs(E, p.structs, q.structs)

\* A state with an error has none like it.
LEMMA StateRejected ==
  ASSUME NEW E, NEW p, ParserState(p), NEW q, ParserState(q)
  PROVE  LikeState(E, Rejected(p), q) /\ ~Rejected(p).ok
<1>1. ParserState(Rejected(p))
  BY RejectedKeeps
<1>2. Rejected(p)["ok"] = FALSE
  <2>1. "ok" \in DOMAIN p
    BY DEF ParserState
  <2> QED BY <2>1 DEF Rejected
<1>3. ~Rejected(p).ok
  BY <1>2, Zenon
<1> QED BY <1>1, <1>3 DEF LikeState

\* flatten_struct.
LEMMA LikeFlattenStruct ==
  ASSUME NEW E, NEW p, NEW q, LikeState(E, p, q), NEW i, p.ok => i \in 1..Len(p.structs)
  PROVE  /\ LikeState(E, FlattenStruct(p, i), FlattenStruct(q, i))
         /\ FlattenStruct(p, i).ok => p.ok /\ Len(FlattenStruct(p, i).structs) = Len(p.structs)
         /\ FlattenStruct(p, i).ok /\ p.structs = q.structs
              => FlattenStruct(p, i).structs = FlattenStruct(q, i).structs
<1> DEFINE hide(x) == [x.structs EXCEPT ![i].has_variable = FALSE]
           flat(x) == Flat(hide(x), x.structs[i].fields)
           moved(x) == [x.structs[i] EXCEPT !.fields = flat(x).fields, !.min_size = flat(x).offset,
                                            !.has_variable = flat(x).variable]
<1>1. ASSUME NEW x, ParserState(x)
      PROVE  FlattenStruct(x, i) = IF ~x.ok \/ ~flat(x).ok THEN Rejected(x)
                                   ELSE [x EXCEPT !.structs = [x.structs EXCEPT ![i] = moved(x)]]
  <2>1. FlattenStruct(x, i) =
          IF ~x.ok \/ ~flat(x).ok THEN Rejected(x)
          ELSE [x EXCEPT !.structs[i] = [@ EXCEPT !.fields = flat(x).fields, !.min_size = flat(x).offset,
                                                  !.has_variable = flat(x).variable]]
    BY DEF FlattenStruct, Flat, Empty
  <2> HIDE DEF flat, hide
  <2> QED BY <1>1, <2>1 DEF ParserState
<1>2. ParserState(p) /\ ParserState(q)
  BY DEF LikeState
<1>3. ParserState(FlattenStruct(p, i)) /\ ParserState(FlattenStruct(q, i))
  BY <1>2, FlattenKeeps
<1>4. CASE ~p.ok \/ ~flat(p).ok
  <2>1. FlattenStruct(p, i) = Rejected(p)
    BY <1>1, <1>2, <1>4
  <2> QED BY <1>2, <1>3, <2>1, StateRejected
<1>5. CASE p.ok /\ flat(p).ok
  <2>1. /\ q.ok /\ LikeStructs(E, p.structs, q.structs) /\ p.constants = q.constants /\ p.rules = q.rules
        /\ i \in 1..Len(p.structs)
    BY <1>5 DEF LikeState
  <2>2. LikeStruct(E, p.structs[i], q.structs[i])
    BY <2>1 DEF LikeStructs
  <2>3. LikeStructs(E, hide(p), hide(q))
    <3>1. PICK no : no = FALSE
      OBVIOUS
    <3> DEFINE x == [p.structs[i] EXCEPT !.has_variable = no]
               y == [q.structs[i] EXCEPT !.has_variable = no]
    <3>2. hide(p) = [p.structs EXCEPT ![i] = x] /\ hide(q) = [q.structs EXCEPT ![i] = y]
      BY <3>1
    <3>3. LikeStruct(E, x, y)
      BY <2>2, LikeUnmarked
    <3> HIDE DEF x, y, hide
    <3>4. LikeStructs(E, [p.structs EXCEPT ![i] = x], [q.structs EXCEPT ![i] = y])
      BY <2>1, <3>3, LikeReplaced
    <3> QED BY <3>2, <3>4
  <2>4. LikeFields(E, p.structs[i].fields, q.structs[i].fields)
    BY <2>2 DEF LikeStruct
  <2> HIDE DEF hide
  <2>5. LikeAcc(E, flat(p), flat(q))
    BY <2>3, <2>4, LikeFlat
  <2>6. /\ flat(q).ok /\ flat(p).offset = flat(q).offset /\ flat(p).variable = flat(q).variable
        /\ flat(p).offset \in Nat
        /\ LikeFields(E, flat(p).fields, flat(q).fields)
    BY <1>5, <2>5 DEF LikeAcc
  <2> HIDE DEF flat
  <2>7. LikeStruct(E, moved(p), moved(q))
    BY <2>2, <2>6, LikeStructMoved
  <2>8. /\ FlattenStruct(p, i) = [p EXCEPT !.structs = [p.structs EXCEPT ![i] = moved(p)]]
        /\ FlattenStruct(q, i) = [q EXCEPT !.structs = [q.structs EXCEPT ![i] = moved(q)]]
    <3> HIDE DEF moved
    <3> QED BY <1>1, <1>2, <1>5, <2>1, <2>6
  <2> DEFINE u == [p.structs EXCEPT ![i] = moved(p)]
             v == [q.structs EXCEPT ![i] = moved(q)]
  <2>13. p.structs = q.structs => u = v
    BY DEF flat, hide
  <2> HIDE DEF moved
  <2>9. LikeStructs(E, u, v) /\ Len(u) = Len(p.structs)
    BY <2>1, <2>7, LikeReplaced
  <2> HIDE DEF u, v
  <2>10. ASSUME NEW x, ParserState(x), NEW w
         PROVE  /\ [x EXCEPT !.structs = w].ok = x.ok /\ [x EXCEPT !.structs = w].structs = w
                /\ [x EXCEPT !.structs = w].rules = x.rules
                /\ [x EXCEPT !.structs = w].constants = x.constants
    <3> DEFINE z == [x EXCEPT !.structs = w]
    <3>1. \A k \in DOMAIN x : z[k] = IF k = "structs" THEN w ELSE x[k]
      OBVIOUS
    <3>2. {"ok", "structs", "rules", "constants"} \subseteq DOMAIN x
      BY <2>10 DEF ParserState
    <3> HIDE DEF z
    <3>3. z["ok"] = x["ok"] /\ z["structs"] = w /\ z["rules"] = x["rules"] /\ z["constants"] = x["constants"]
      BY <3>1, <3>2
    <3> QED BY <3>3, Zenon DEF z
  <2>11. /\ FlattenStruct(p, i).ok = p.ok /\ FlattenStruct(p, i).structs = u
         /\ FlattenStruct(p, i).rules = p.rules /\ FlattenStruct(p, i).constants = p.constants
    <3>1. FlattenStruct(p, i) = [p EXCEPT !.structs = u]
      BY <2>8 DEF u
    <3>2. /\ [p EXCEPT !.structs = u].ok = p.ok /\ [p EXCEPT !.structs = u].structs = u
          /\ [p EXCEPT !.structs = u].rules = p.rules /\ [p EXCEPT !.structs = u].constants = p.constants
      BY <1>2, <2>10
    <3> QED BY <3>1, <3>2, Zenon
  <2>12. /\ FlattenStruct(q, i).ok = q.ok /\ FlattenStruct(q, i).structs = v
         /\ FlattenStruct(q, i).rules = q.rules /\ FlattenStruct(q, i).constants = q.constants
    <3>1. FlattenStruct(q, i) = [q EXCEPT !.structs = v]
      BY <2>8 DEF v
    <3>2. /\ [q EXCEPT !.structs = v].ok = q.ok /\ [q EXCEPT !.structs = v].structs = v
          /\ [q EXCEPT !.structs = v].rules = q.rules /\ [q EXCEPT !.structs = v].constants = q.constants
      BY <1>2, <2>10
    <3> QED BY <3>1, <3>2, Zenon
  <2> QED BY <1>3, <1>5, <2>1, <2>9, <2>11, <2>12, <2>13 DEF LikeState
<1> QED BY <1>4, <1>5

\* flatten_structs.
LEMMA LikeFlattened ==
  ASSUME NEW E, NEW p, NEW q, LikeState(E, p, q), p.ok
  PROVE  /\ LikeState(E, FlattenStructs(p), FlattenStructs(q))
         /\ FlattenStructs(p).ok /\ p.structs = q.structs => FlattenStructs(p).structs = FlattenStructs(q).structs
<1>1. PICK n \in Nat : n = Len(p.structs) /\ DOMAIN p.structs = 1..n /\ DOMAIN q.structs = 1..n
  BY Joined DEF LikeState, LikeStructs
<1> DEFINE seq == [i \in 1..n |-> i]
<1>2. FlattenStructs(p) = FoldLeft(FlattenStruct, p, seq) /\ FlattenStructs(q) = FoldLeft(FlattenStruct, q, seq)
  BY <1>1 DEF FlattenStructs
<1>3. DOMAIN seq = 1..n /\ \A i \in 1..n : seq[i] = i
  OBVIOUS
<1> HIDE DEF seq
<1>4. PICK g : Flattens(p, seq, n, g)
  BY <1>3, FlattenStates
<1>5. PICK h : Flattens(q, seq, n, h)
  BY <1>3, FlattenStates
<1> DEFINE Good(i) == /\ LikeState(E, g[i], h[i]) /\ (g[i].ok => Len(g[i].structs) = n)
                      /\ g[i].ok /\ p.structs = q.structs => g[i].structs = h[i].structs
           T == {i \in 0..n : ~Good(i)}
<1>6. Good(0)
  BY <1>1, <1>4, <1>5 DEF Flattens
<1>7. ASSUME NEW i \in 1..n, Good(i - 1) PROVE Good(i)
  <2>1. g[i] = FlattenStruct(g[i - 1], i) /\ h[i] = FlattenStruct(h[i - 1], i)
    BY <1>3, <1>4, <1>5 DEF Flattens
  <2>2. LikeState(E, g[i - 1], h[i - 1]) /\ (g[i - 1].ok => i \in 1..Len(g[i - 1].structs))
    BY <1>7
  <2>3. /\ LikeState(E, FlattenStruct(g[i - 1], i), FlattenStruct(h[i - 1], i))
        /\ FlattenStruct(g[i - 1], i).ok
             => g[i - 1].ok /\ Len(FlattenStruct(g[i - 1], i).structs) = Len(g[i - 1].structs)
        /\ FlattenStruct(g[i - 1], i).ok /\ g[i - 1].structs = h[i - 1].structs
             => FlattenStruct(g[i - 1], i).structs = FlattenStruct(h[i - 1], i).structs
    BY <2>2, LikeFlattenStruct
  <2> QED BY <1>7, <2>1, <2>3
<1> HIDE DEF Good
<1>8. T = {}
  <2>1. SUFFICES ASSUME T # {} PROVE FALSE
    OBVIOUS
  <2>2. T \in SUBSET Nat
    OBVIOUS
  <2>3. PICK k \in T : \A j \in T : k <= j
    BY <2>1, <2>2, LeastNumber
  <2>4. k \in 1..n /\ k - 1 \in 0..n
    BY <1>6, <2>3
  <2>5. Good(k - 1)
    BY <2>3, <2>4
  <2> QED BY <1>7, <2>3, <2>4, <2>5
<1>9. Good(n)
  BY <1>8
<1> QED BY <1>2, <1>4, <1>5, <1>9 DEF Good, Flattens

\* A rule compiles against both.
LEMMA LikeCompiles ==
  ASSUME NEW E, NEW s, NEW t, LikeStructs(E, s, t), NEW rule, Compiles(s, rule)
  PROVE  Compiles(t, rule)
<1> DEFINE path == rule.conds[1].path
           A == {i \in 1..Len(s) : FindField(s[i], path) # 0}
           B == {i \in 1..Len(t) : FindField(t[i], path) # 0}
<1>1. Len(s) = Len(t) /\ \A i \in 1..Len(s) : LikeStruct(E, s[i], t[i])
  BY DEF LikeStructs
<1>2. \A i \in 1..Len(s) : \A z : FindField(s[i], z) = FindField(t[i], z)
  BY <1>1, LikeFindField
<1>3. A = B
  BY <1>1, <1>2
<1>4. TargetStruct(s, rule) = IF rule.conds = <<>> THEN 0 ELSE IF A # {} THEN Min(A) ELSE 0
  BY DEF TargetStruct, SelectInSeq
<1>5. TargetStruct(t, rule) = IF rule.conds = <<>> THEN 0 ELSE IF B # {} THEN Min(B) ELSE 0
  BY DEF TargetStruct, SelectInSeq
<1>6. ASSUME A # {} PROVE Min(A) \in 1..Len(s)
  <2>1. Len(s) \in Nat
    BY Joined DEF LikeStructs
  <2>2. A \in SUBSET Nat
    BY <2>1
  <2>3. PICK i \in A : \A j \in A : i <= j
    BY <1>6, <2>2, LeastNumber
  <2>4. A \subseteq 1..Len(s)
    OBVIOUS
  <2> HIDE DEF A
  <2>5. Min(A) \in A
    BY <2>3 DEF Min
  <2> QED BY <2>4, <2>5
<1> HIDE DEF A, B
<1>7. PICK at : at = TargetStruct(s, rule)
  OBVIOUS
<1>8. at = TargetStruct(t, rule)
  BY <1>3, <1>4, <1>5, <1>7
<1>9. at # 0 /\ \A j \in DOMAIN rule.conds : FindField(s[at], rule.conds[j].path) # 0
  BY <1>7 DEF Compiles
<1>10. at \in 1..Len(s)
  BY <1>4, <1>6, <1>7, <1>9
<1> QED BY <1>2, <1>8, <1>9, <1>10 DEF Compiles

-----------------------------------------------------------------------------
(* Parsing a definition with another endianness in one block. *)

StateKeys == {"ok", "default_endian", "endian_mode", "constants", "structs", "rules"}

\* ParserState's fields.
LEMMA StateShape ==
  ASSUME NEW p, ParserState(p)
  PROVE  StateKeys \subseteq DOMAIN p
BY DEF ParserState, StateKeys

\* parse_protocol sets the endianness and nothing else.
LEMMA ProtocolSets ==
  ASSUME NEW p, ParserState(p), NEW b
  PROVE  /\ b.endian \in {"none", "auto", "big", "little"}
              => /\ ParseProtocol(p, b).ok = p.ok /\ ParseProtocol(p, b).constants = p.constants
                 /\ ParseProtocol(p, b).rules = p.rules /\ ParseProtocol(p, b).structs = p.structs
         /\ b.endian \notin {"none", "auto", "big", "little"} => ParseProtocol(p, b) = Rejected(p)
<1>1. ASSUME NEW d, NEW m
      PROVE  /\ [p EXCEPT !.default_endian = d, !.endian_mode = m].ok = p.ok
             /\ [p EXCEPT !.default_endian = d, !.endian_mode = m].constants = p.constants
             /\ [p EXCEPT !.default_endian = d, !.endian_mode = m].rules = p.rules
             /\ [p EXCEPT !.default_endian = d, !.endian_mode = m].structs = p.structs
  <2> DEFINE z == [p EXCEPT !.default_endian = d, !.endian_mode = m]
  <2>1. \A k \in DOMAIN p : k # "default_endian" /\ k # "endian_mode" => z[k] = p[k]
    OBVIOUS
  <2>2. StateKeys \subseteq DOMAIN p
    BY StateShape
  <2> HIDE DEF z
  <2>3. z["ok"] = p["ok"] /\ z["constants"] = p["constants"] /\ z["rules"] = p["rules"] /\ z["structs"] = p["structs"]
    BY <2>1, <2>2 DEF StateKeys
  <2> QED BY <2>3, Zenon DEF z
<1>2. b.endian \notin {"none", "auto", "big", "little"} => ParseProtocol(p, b) = Rejected(p)
  BY DEF ParseProtocol
<1>3. CASE b.endian = "none"
  <2>1. ParseProtocol(p, b) = p
    BY <1>3 DEF ParseProtocol
  <2> QED BY <1>2, <2>1
<1>4. ASSUME b.endian \in {"auto", "big", "little"}
      PROVE  \E d, m : ParseProtocol(p, b) = [p EXCEPT !.default_endian = d, !.endian_mode = m]
  <2>1. CASE b.endian = "auto"
    <3>1. ParseProtocol(p, b) = [p EXCEPT !.default_endian = "big", !.endian_mode = "auto"]
      BY <2>1 DEF ParseProtocol
    <3> QED BY <3>1
  <2>2. CASE b.endian \in {"big", "little"}
    <3>1. ParseProtocol(p, b) = [p EXCEPT !.default_endian = b.endian, !.endian_mode = b.endian]
      BY <2>2 DEF ParseProtocol
    <3> QED BY <3>1
  <2> QED BY <1>4, <2>1, <2>2
<1>5. CASE b.endian \in {"auto", "big", "little"}
  <2>1. PICK d, m : ParseProtocol(p, b) = [p EXCEPT !.default_endian = d, !.endian_mode = m]
    BY <1>4, <1>5
  <2>2. /\ ParseProtocol(p, b).ok = p.ok /\ ParseProtocol(p, b).constants = p.constants
        /\ ParseProtocol(p, b).rules = p.rules /\ ParseProtocol(p, b).structs = p.structs
    <3>1. /\ [p EXCEPT !.default_endian = d, !.endian_mode = m].ok = p.ok
          /\ [p EXCEPT !.default_endian = d, !.endian_mode = m].constants = p.constants
          /\ [p EXCEPT !.default_endian = d, !.endian_mode = m].rules = p.rules
          /\ [p EXCEPT !.default_endian = d, !.endian_mode = m].structs = p.structs
      BY <1>1
    <3> QED BY <2>1, <3>1, Zenon
  <2> QED BY <1>5, <2>2
<1> QED BY <1>2, <1>3, <1>5

\* One part of a state replaced.
LEMMA StateMoved ==
  ASSUME NEW p, ParserState(p), NEW w
  PROVE  /\ [p EXCEPT !.constants = w].ok = p.ok /\ [p EXCEPT !.constants = w].constants = w
         /\ [p EXCEPT !.constants = w].rules = p.rules /\ [p EXCEPT !.constants = w].structs = p.structs
         /\ [p EXCEPT !.rules = w].ok = p.ok /\ [p EXCEPT !.rules = w].constants = p.constants
         /\ [p EXCEPT !.rules = w].rules = w /\ [p EXCEPT !.rules = w].structs = p.structs
         /\ [p EXCEPT !.structs = w].ok = p.ok /\ [p EXCEPT !.structs = w].constants = p.constants
         /\ [p EXCEPT !.structs = w].rules = p.rules /\ [p EXCEPT !.structs = w].structs = w
<1> DEFINE c == [p EXCEPT !.constants = w]
           r == [p EXCEPT !.rules = w]
           s == [p EXCEPT !.structs = w]
<1>1. \A k \in DOMAIN p : /\ c[k] = IF k = "constants" THEN w ELSE p[k]
                          /\ r[k] = IF k = "rules" THEN w ELSE p[k]
                          /\ s[k] = IF k = "structs" THEN w ELSE p[k]
  OBVIOUS
<1>2. StateKeys \subseteq DOMAIN p
  BY StateShape
<1> HIDE DEF c, r, s
<1>3. /\ c["ok"] = p["ok"] /\ c["constants"] = w /\ c["rules"] = p["rules"] /\ c["structs"] = p["structs"]
      /\ r["ok"] = p["ok"] /\ r["constants"] = p["constants"] /\ r["rules"] = w /\ r["structs"] = p["structs"]
      /\ s["ok"] = p["ok"] /\ s["constants"] = p["constants"] /\ s["rules"] = p["rules"] /\ s["structs"] = w
  BY <1>1, <1>2 DEF StateKeys
<1> QED BY <1>3, Zenon DEF c, r, s

\* A struct more.
LEMMA LikeStructsGrow ==
  ASSUME NEW E, NEW s, NEW t, LikeStructs(E, s, t), NEW x, NEW y, LikeStruct(E, x, y)
  PROVE  LikeStructs(E, Append(s, x), Append(t, y))
<1>1. PICK n \in Nat : n = Len(s) /\ n = Len(t) /\ DOMAIN s = 1..n /\ DOMAIN t = 1..n
  BY Joined DEF LikeStructs
<1>2. ASSUME NEW q, IsSequence(q), Len(q) = n, NEW z
      PROVE  /\ IsSequence(Append(q, z)) /\ Len(Append(q, z)) = n + 1
             /\ \A i \in 1..n : Append(q, z)[i] = q[i]
             /\ Append(q, z)[n + 1] = z
  <2>1. PICK S : q \in Seq(S)
    BY <1>2 DEF IsSequence
  <2>2. q \in Seq(S \cup {z}) /\ z \in S \cup {z}
    BY <2>1
  <2> QED BY <1>2, <2>2 DEF IsSequence
<1>3. /\ IsSequence(Append(s, x)) /\ Len(Append(s, x)) = n + 1
      /\ IsSequence(Append(t, y)) /\ Len(Append(t, y)) = n + 1
      /\ \A i \in 1..n : Append(s, x)[i] = s[i] /\ Append(t, y)[i] = t[i]
      /\ Append(s, x)[n + 1] = x /\ Append(t, y)[n + 1] = y
  BY <1>1, <1>2 DEF LikeStructs
<1>4. \A i \in 1..(n + 1) : i \in 1..n \/ i = n + 1
  OBVIOUS
<1>5. \A i \in 1..n : LikeStruct(E, s[i], t[i])
  BY <1>1 DEF LikeStructs
<1> QED BY <1>3, <1>4, <1>5 DEF LikeStructs

\* What parse_struct adds.
NewStruct(b, endian) ==
  [name |-> b.name, min_size |-> 0,
   fields |-> [i \in DOMAIN b.fields |-> ParseField(b.fields[i], endian)],
   has_variable |-> \E i \in DOMAIN b.fields : b.fields[i].type = "varbytes"]

\* It depends on the endianness in the endianness of its fields only.
LEMMA LikeNewStruct ==
  ASSUME NEW E, NEW b, IsBlock(b), b.kind = "struct", NEW d \in E, NEW e \in E
  PROVE  LikeStruct(E, NewStruct(b, d), NewStruct(b, e))
<1> DEFINE fields(z) == [i \in DOMAIN b.fields |-> ParseField(b.fields[i], z)]
<1>1. PICK v : v = \E i \in DOMAIN b.fields : b.fields[i].type = "varbytes"
  OBVIOUS
<1>2. /\ b.fields \in Seq(Range(b.fields))
      /\ \A i \in DOMAIN b.fields : b.fields[i].array_size \in Nat /\ b.fields[i].size \in Nat
  BY DEF IsBlock, IsList
<1>3. PICK n \in Nat : n = Len(b.fields) /\ DOMAIN b.fields = 1..n
  BY <1>2, LenProperties
<1>4. ASSUME NEW z PROVE IsSequence(fields(z)) /\ Len(fields(z)) = n
  BY <1>3, LenOf
<1>5. ASSUME NEW i \in 1..n PROVE LikeField(E, fields(d)[i], fields(e)[i])
  <2> DEFINE f == ParseField(b.fields[i], d)
             g == ParseField(b.fields[i], e)
  <2>1. fields(d)[i] = f /\ fields(e)[i] = g
    BY <1>3
  <2>2. /\ FieldKeys \subseteq DOMAIN f /\ FieldKeys \subseteq DOMAIN g
    BY DEF ParseField, FieldKeys
  <2>3. /\ f.path = g.path /\ f.type = g.type /\ f.size = g.size /\ f.offset = g.offset
        /\ f.array_size = g.array_size /\ f.array_size = b.fields[i].array_size
        /\ f.size = b.fields[i].size /\ f.offset = 0 /\ f.endian = d /\ g.endian = e
        /\ "endian" \in DOMAIN f /\ "endian" \in DOMAIN g
    BY DEF ParseField
  <2>4. f["is_array"] = g["is_array"]
    BY DEF ParseField
  <2>5. f.array_size \in Nat /\ f.size \in Nat /\ f.offset \in Nat
    BY <1>2, <1>3, <2>3
  <2> HIDE DEF f, g, fields
  <2>6. \A k \in FieldKeys : f[k] = g[k]
    BY <2>3, <2>4 DEF FieldKeys
  <2>7. LikeField(E, f, g)
    BY <2>2, <2>3, <2>5, <2>6 DEF LikeField
  <2> QED BY <2>1, <2>7
<1>6. LikeFields(E, fields(d), fields(e))
  <2> HIDE DEF fields
  <2> QED BY <1>4, <1>5 DEF LikeFields
<1> DEFINE x == [name |-> b.name, min_size |-> 0, fields |-> fields(d), has_variable |-> v]
           y == [name |-> b.name, min_size |-> 0, fields |-> fields(e), has_variable |-> v]
<1>7. NewStruct(b, d) = x /\ NewStruct(b, e) = y
  BY <1>1 DEF NewStruct
<1> HIDE DEF fields
<1>8. LikeStruct(E, x, y)
  BY <1>6 DEF LikeStruct
<1> HIDE DEF x, y
<1> QED BY <1>7, <1>8

\* A block, and the same or another endianness in its place.
Rewritten(b, c) == c = b \/ (b.kind = "protocol" /\ c.kind = "protocol" /\ c.endian \in Endians)

\* parse_filter depends on the constants and on the rules so far.
LEMMA FilterParsed ==
  ASSUME NEW p, NEW q, ParserState(p), ParserState(q), p.constants = q.constants, p.rules = q.rules, NEW b
  PROVE  \/ ParseFilter(p, b) = Rejected(p)
         \/ \E w : /\ ParseFilter(p, b) = [p EXCEPT !.rules = w]
                   /\ ParseFilter(q, b) = [q EXCEPT !.rules = w]
<1> DEFINE bad(x) == \/ Len(x.rules) >= MaxFilters
                     \/ \E i \in DOMAIN b.conds :
                           LET c == b.conds[i]
                           IN ~(/\ Known(x, c.mask)
                                /\ Known(x, c.value)
                                /\ \A k \in DOMAIN c.values : Known(x, c.values[k])
                                /\ c.op \in {"in", "not_in"} => c.values # <<>>)
           new(x) == [conds |-> [i \in DOMAIN b.conds |-> ParseCondition(x, b.conds[i])],
                      sliding |-> b.sliding, sliding_max |-> b.sliding_max]
           w == Append(p.rules, new(p))
<1>1. \A name : LookupConstant(p, name) = LookupConstant(q, name)
  BY DEF LookupConstant
<1>2. \A o : (Known(p, o) <=> Known(q, o)) /\ ValueOf(p, o) = ValueOf(q, o)
  BY <1>1 DEF Known, ValueOf
<1>3. bad(p) <=> bad(q)
  BY <1>2
<1>4. new(p) = new(q)
  <2>1. \A c : ParseCondition(p, c) = ParseCondition(q, c)
    BY <1>2 DEF ParseCondition
  <2> QED BY <2>1
<1>5. ASSUME NEW x, ParserState(x)
      PROVE  ParseFilter(x, b) = IF bad(x) THEN Rejected(x) ELSE [x EXCEPT !.rules = Append(x.rules, new(x))]
  <2>1. ParseFilter(x, b) = IF bad(x) THEN Rejected(x) ELSE [x EXCEPT !.rules = Append(@, new(x))]
    BY DEF ParseFilter
  <2>2. "rules" \in DOMAIN x
    BY <1>5, StateShape DEF StateKeys
  <2> HIDE DEF bad, new
  <2> QED BY <2>1, <2>2
<1> HIDE DEF bad, new
<1>6. CASE bad(p)
  BY <1>5, <1>6
<1>7. CASE ~bad(p)
  <2>1. ParseFilter(p, b) = [p EXCEPT !.rules = w]
    BY <1>5, <1>7
  <2>2. ParseFilter(q, b) = [q EXCEPT !.rules = w]
    BY <1>3, <1>4, <1>5, <1>7
  <2> QED BY <2>1, <2>2
<1> QED BY <1>6, <1>7

\* One block.
LEMMA LikeBlock ==
  ASSUME NEW E, NEW p, NEW q, LikeState(E, p, q), NEW b, NEW c, IsBlock(b), Rewritten(b, c),
         p.default_endian \in E, q.default_endian \in E,
         ParserState(ParseBlock(p, b)), ParserState(ParseBlock(q, c))
  PROVE  LikeState(E, ParseBlock(p, b), ParseBlock(q, c))
<1>1. ParserState(p) /\ ParserState(q)
  BY DEF LikeState
<1>2. CASE ~ParseBlock(p, b).ok
  BY <1>2 DEF LikeState
<1>3. CASE ParseBlock(p, b).ok
  <2>1. p.ok
    <3>1. ~p.ok => ParseBlock(p, b) = p
      BY DEF ParseBlock
    <3> QED BY <1>3, <3>1
  <2>2. q.ok /\ p.constants = q.constants /\ p.rules = q.rules /\ LikeStructs(E, p.structs, q.structs)
    BY <2>1 DEF LikeState
  <2>3. ParseBlock(p, b) # Rejected(p)
    BY <1>1, <1>3, StateRejected
  <2>4. b.kind \in {"protocol", "const", "struct", "filter"}
    BY <2>1, <2>3 DEF ParseBlock
  <2>5. c.kind = b.kind /\ (b.kind # "protocol" => c = b)
    BY DEF Rewritten
  <2>6. CASE b.kind = "protocol"
    <3>1. ParseBlock(p, b) = ParseProtocol(p, b) /\ ParseBlock(q, c) = ParseProtocol(q, c)
      BY <2>1, <2>2, <2>5, <2>6 DEF ParseBlock
    <3>2. b.endian \in {"none", "auto", "big", "little"}
      BY <1>1, <2>3, <3>1, ProtocolSets
    <3>3. c.endian \in {"none", "auto", "big", "little"}
      BY <3>2 DEF Rewritten, Endians
    <3>4. /\ ParseProtocol(p, b).ok = p.ok /\ ParseProtocol(p, b).constants = p.constants
          /\ ParseProtocol(p, b).rules = p.rules /\ ParseProtocol(p, b).structs = p.structs
      BY <1>1, <3>2, ProtocolSets
    <3>5. /\ ParseProtocol(q, c).ok = q.ok /\ ParseProtocol(q, c).constants = q.constants
          /\ ParseProtocol(q, c).rules = q.rules /\ ParseProtocol(q, c).structs = q.structs
      BY <1>1, <3>3, ProtocolSets
    <3> QED BY <2>1, <2>2, <3>1, <3>4, <3>5 DEF LikeState
  <2>7. CASE b.kind = "const"
    <3>1. ParseBlock(p, b) = ParseConst(p, b) /\ ParseBlock(q, c) = ParseConst(q, b)
      BY <2>1, <2>2, <2>5, <2>7 DEF ParseBlock
    <3> DEFINE w == <<[name |-> b.name, value |-> b.value]>> \o p.constants
    <3>2. StateKeys \subseteq DOMAIN p /\ StateKeys \subseteq DOMAIN q
      BY <1>1, StateShape
    <3>3. ParseConst(p, b) = [p EXCEPT !.constants = w] /\ ParseConst(q, b) = [q EXCEPT !.constants = w]
      BY <2>2, <3>2 DEF ParseConst, StateKeys
    <3> HIDE DEF w
    <3>4. /\ [p EXCEPT !.constants = w].ok = p.ok /\ [p EXCEPT !.constants = w].constants = w
          /\ [p EXCEPT !.constants = w].rules = p.rules /\ [p EXCEPT !.constants = w].structs = p.structs
      BY <1>1, StateMoved
    <3>5. /\ [q EXCEPT !.constants = w].ok = q.ok /\ [q EXCEPT !.constants = w].constants = w
          /\ [q EXCEPT !.constants = w].rules = q.rules /\ [q EXCEPT !.constants = w].structs = q.structs
      BY <1>1, StateMoved
    <3> DEFINE x == ParseBlock(p, b)
               y == ParseBlock(q, c)
    <3>6. x.ok = p.ok /\ x.constants = w /\ x.rules = p.rules /\ x.structs = p.structs
      BY <3>1, <3>3, <3>4, Zenon
    <3>7. y.ok = q.ok /\ y.constants = w /\ y.rules = q.rules /\ y.structs = q.structs
      BY <3>1, <3>3, <3>5, Zenon
    <3> QED BY <2>1, <2>2, <3>6, <3>7 DEF LikeState
  <2>8. CASE b.kind = "struct"
    <3>1. ParseBlock(p, b) = ParseStruct(p, b) /\ ParseBlock(q, c) = ParseStruct(q, b)
      BY <2>1, <2>2, <2>5, <2>8 DEF ParseBlock
    <3> DEFINE bad == \/ \E i \in 1..(Len(b.fields) - 1) : b.fields[i].type = "varbytes"
                      \/ \E i \in DOMAIN b.fields :
                           /\ b.fields[i].is_array
                           /\ b.fields[i].type # "nested" \/ b.fields[i].array_size = 0
               u == Append(p.structs, NewStruct(b, p.default_endian))
               v == Append(q.structs, NewStruct(b, q.default_endian))
    <3>2. StateKeys \subseteq DOMAIN p /\ StateKeys \subseteq DOMAIN q
      BY <1>1, StateShape
    <3>3. ASSUME NEW z, StateKeys \subseteq DOMAIN z
          PROVE  ParseStruct(z, b) = IF bad THEN Rejected(z)
                    ELSE [z EXCEPT !.structs = Append(z.structs, NewStruct(b, z.default_endian))]
      <4>1. ParseStruct(z, b) = IF bad THEN Rejected(z)
                    ELSE [z EXCEPT !.structs = Append(@, NewStruct(b, z.default_endian))]
        BY DEF ParseStruct, NewStruct
      <4> HIDE DEF bad
      <4> QED BY <3>3, <4>1 DEF StateKeys
    <3>4. ~bad
      BY <2>3, <3>1, <3>2, <3>3
    <3> HIDE DEF bad
    <3>5. ParseStruct(p, b) = [p EXCEPT !.structs = u] /\ ParseStruct(q, b) = [q EXCEPT !.structs = v]
      BY <3>2, <3>3, <3>4
    <3>6. LikeStruct(E, NewStruct(b, p.default_endian), NewStruct(b, q.default_endian))
      BY <2>8, LikeNewStruct
    <3>7. LikeStructs(E, u, v)
      BY <2>2, <3>6, LikeStructsGrow
    <3> HIDE DEF u, v
    <3>8. /\ [p EXCEPT !.structs = u].ok = p.ok /\ [p EXCEPT !.structs = u].constants = p.constants
          /\ [p EXCEPT !.structs = u].rules = p.rules /\ [p EXCEPT !.structs = u].structs = u
      BY <1>1, StateMoved
    <3>9. /\ [q EXCEPT !.structs = v].ok = q.ok /\ [q EXCEPT !.structs = v].constants = q.constants
          /\ [q EXCEPT !.structs = v].rules = q.rules /\ [q EXCEPT !.structs = v].structs = v
      BY <1>1, StateMoved
    <3> DEFINE x == ParseBlock(p, b)
               y == ParseBlock(q, c)
    <3>10. x.ok = p.ok /\ x.constants = p.constants /\ x.rules = p.rules /\ x.structs = u
      BY <3>1, <3>5, <3>8, Zenon
    <3>11. y.ok = q.ok /\ y.constants = q.constants /\ y.rules = q.rules /\ y.structs = v
      BY <3>1, <3>5, <3>9, Zenon
    <3> QED BY <2>1, <2>2, <3>7, <3>10, <3>11 DEF LikeState
  <2>9. CASE b.kind = "filter"
    <3>1. ParseBlock(p, b) = ParseFilter(p, b) /\ ParseBlock(q, c) = ParseFilter(q, b)
      BY <2>1, <2>2, <2>5, <2>9 DEF ParseBlock
    <3>2. PICK w : ParseFilter(p, b) = [p EXCEPT !.rules = w] /\ ParseFilter(q, b) = [q EXCEPT !.rules = w]
      BY <1>1, <2>2, <2>3, <3>1, FilterParsed
    <3>3. /\ [p EXCEPT !.rules = w].ok = p.ok /\ [p EXCEPT !.rules = w].constants = p.constants
          /\ [p EXCEPT !.rules = w].rules = w /\ [p EXCEPT !.rules = w].structs = p.structs
      BY <1>1, StateMoved
    <3>4. /\ [q EXCEPT !.rules = w].ok = q.ok /\ [q EXCEPT !.rules = w].constants = q.constants
          /\ [q EXCEPT !.rules = w].rules = w /\ [q EXCEPT !.rules = w].structs = q.structs
      BY <1>1, StateMoved
    <3> DEFINE x == ParseBlock(p, b)
               y == ParseBlock(q, c)
    <3>5. x.ok = p.ok /\ x.constants = p.constants /\ x.rules = w /\ x.structs = p.structs
      BY <3>1, <3>2, <3>3, Zenon
    <3>6. y.ok = q.ok /\ y.constants = q.constants /\ y.rules = w /\ y.structs = q.structs
      BY <3>1, <3>2, <3>4, Zenon
    <3> QED BY <2>1, <2>2, <3>5, <3>6 DEF LikeState
  <2> QED BY <2>4, <2>6, <2>7, <2>8, <2>9
<1> QED BY <1>2, <1>3

\* A block that does not say little.
BigOnly(b) == b.kind = "protocol" => b.endian # "little"

\* What one block does to the structs.
LEMMA BlockStructs ==
  ASSUME NEW p, ParserState(p), NEW b, ParseBlock(p, b).ok
  PROVE  /\ p.ok
         /\ ParseBlock(p, b).structs = IF b.kind = "struct" THEN Append(p.structs, NewStruct(b, p.default_endian))
                                       ELSE p.structs
<1>1. p.ok
  <2>1. ~p.ok => ParseBlock(p, b) = p
    BY DEF ParseBlock
  <2> QED BY <2>1
<1>2. ParseBlock(p, b) # Rejected(p)
  BY StateRejected
<1>3. StateKeys \subseteq DOMAIN p
  BY StateShape
<1>4. b.kind \in {"protocol", "const", "struct", "filter"}
  BY <1>1, <1>2 DEF ParseBlock
<1>5. CASE b.kind = "protocol"
  <2>1. ParseBlock(p, b) = ParseProtocol(p, b)
    BY <1>1, <1>5 DEF ParseBlock
  <2>2. ParseProtocol(p, b).structs = p.structs
    BY <1>2, <2>1, ProtocolSets
  <2> QED BY <1>1, <1>5, <2>1, <2>2
<1>6. CASE b.kind = "const"
  <2>1. PICK w : ParseBlock(p, b) = [p EXCEPT !.constants = w]
    BY <1>1, <1>3, <1>6 DEF ParseBlock, ParseConst, StateKeys
  <2>2. [p EXCEPT !.constants = w].structs = p.structs
    BY StateMoved
  <2>3. ParseBlock(p, b).structs = p.structs
    BY <2>1, <2>2, Zenon
  <2> QED BY <1>1, <1>6, <2>3
<1>7. CASE b.kind = "struct"
  <2> DEFINE w == Append(p.structs, NewStruct(b, p.default_endian))
  <2>1. ParseBlock(p, b) = ParseStruct(p, b)
    BY <1>1, <1>7 DEF ParseBlock
  <2>2. ParseStruct(p, b) \in {Rejected(p), [p EXCEPT !.structs = Append(@, NewStruct(b, p.default_endian))]}
    BY DEF ParseStruct, NewStruct
  <2>3. ParseBlock(p, b) = [p EXCEPT !.structs = w]
    BY <1>2, <1>3, <2>1, <2>2 DEF StateKeys
  <2> HIDE DEF w
  <2>4. [p EXCEPT !.structs = w].structs = w
    BY StateMoved
  <2>5. ParseBlock(p, b).structs = w
    BY <2>3, <2>4, Zenon
  <2> QED BY <1>1, <1>7, <2>5 DEF w
<1>8. CASE b.kind = "filter"
  <2>1. ParseBlock(p, b) = ParseFilter(p, b)
    BY <1>1, <1>8 DEF ParseBlock
  <2>2. PICK w : ParseBlock(p, b) = [p EXCEPT !.rules = w]
    BY <1>2, <2>1, FilterParsed
  <2>3. [p EXCEPT !.rules = w].structs = p.structs
    BY StateMoved
  <2>4. ParseBlock(p, b).structs = p.structs
    BY <2>2, <2>3, Zenon
  <2> QED BY <1>1, <1>8, <2>4
<1> QED BY <1>4, <1>5, <1>6, <1>7, <1>8

\* Fields are big-endian and the mode is not little.
IsBig(p) == p.default_endian = "big" /\ p.endian_mode # "little"

\* A block that does not say little keeps it so.
LEMMA BigKept ==
  ASSUME NEW p, ParserState(p), IsBig(p), NEW b, BigOnly(b)
  PROVE  IsBig(ParseBlock(p, b))
<1>1. StateKeys \subseteq DOMAIN p
  BY StateShape
<1>2. ASSUME NEW z, \A k \in {"default_endian", "endian_mode"} : z[k] = p[k] PROVE IsBig(z)
  BY <1>2 DEF IsBig
<1>3. IsBig(Rejected(p))
  <2>1. \A k \in DOMAIN p : k # "ok" => Rejected(p)[k] = p[k]
    BY DEF Rejected
  <2> QED BY <1>1, <1>2, <2>1 DEF StateKeys
<1>4. CASE ParseBlock(p, b) \in {p, Rejected(p)}
  BY <1>3, <1>4
<1>5. ASSUME NEW w, ParseBlock(p, b) \in {[p EXCEPT !.constants = w], [p EXCEPT !.rules = w], [p EXCEPT !.structs = w]}
      PROVE  IsBig(ParseBlock(p, b))
  <2> DEFINE z == ParseBlock(p, b)
  <2>1. \A k \in DOMAIN p : k \notin {"constants", "rules", "structs"} => z[k] = p[k]
    BY <1>5
  <2> HIDE DEF z
  <2>2. \A k \in {"default_endian", "endian_mode"} : z[k] = p[k]
    BY <1>1, <2>1 DEF StateKeys
  <2> QED BY <1>2, <2>2 DEF z
<1>6. CASE b.kind = "protocol" /\ ParseBlock(p, b) = ParseProtocol(p, b)
  <2>1. b.endian # "little"
    BY <1>6 DEF BigOnly
  <2>2. \/ ParseProtocol(p, b) \in {p, Rejected(p)}
        \/ \E m \in {"auto", "big"} : ParseProtocol(p, b) = [p EXCEPT !.default_endian = "big", !.endian_mode = m]
    BY <2>1 DEF ParseProtocol
  <2>3. ASSUME NEW m \in {"auto", "big"}, ParseProtocol(p, b) = [p EXCEPT !.default_endian = "big", !.endian_mode = m]
        PROVE  IsBig(ParseProtocol(p, b))
    BY <1>1, <2>3 DEF IsBig, StateKeys
  <2> QED BY <1>3, <1>6, <2>2, <2>3
<1>7. \/ ParseBlock(p, b) \in {p, Rejected(p)}
      \/ b.kind = "protocol" /\ ParseBlock(p, b) = ParseProtocol(p, b)
      \/ ParseBlock(p, b) = ParseConst(p, b) \/ ParseBlock(p, b) = ParseStruct(p, b)
      \/ ParseBlock(p, b) = ParseFilter(p, b)
  BY DEF ParseBlock
<1>8. \E w : ParseConst(p, b) = [p EXCEPT !.constants = w]
  BY <1>1 DEF ParseConst, StateKeys
<1>9. ParseStruct(p, b) = Rejected(p) \/ \E w : ParseStruct(p, b) = [p EXCEPT !.structs = w]
  BY <1>1 DEF ParseStruct, StateKeys
<1>10. ParseFilter(p, b) = Rejected(p) \/ \E w : ParseFilter(p, b) = [p EXCEPT !.rules = w]
  BY FilterParsed
<1> QED BY <1>4, <1>5, <1>6, <1>7, <1>8, <1>9, <1>10

\* A block says no endianness that is not in E.
Within(E, b) == b.kind = "protocol" /\ b.endian \in Endians => b.endian \in E

\* A block that says no endianness but one of E keeps the default among them.
LEMMA EndianKept ==
  ASSUME NEW E, "big" \in E, NEW p, ParserState(p), p.default_endian \in E, NEW b, Within(E, b)
  PROVE  ParseBlock(p, b).default_endian \in E
<1>1. StateKeys \subseteq DOMAIN p
  BY StateShape
<1>2. ASSUME NEW z, z["default_endian"] = p["default_endian"] PROVE z.default_endian \in E
  BY <1>2
<1>3. Rejected(p).default_endian \in E
  <2>1. \A k \in DOMAIN p : k # "ok" => Rejected(p)[k] = p[k]
    BY DEF Rejected
  <2> QED BY <1>1, <1>2, <2>1 DEF StateKeys
<1>4. CASE ParseBlock(p, b) \in {p, Rejected(p)}
  BY <1>3, <1>4
<1>5. ASSUME NEW w, ParseBlock(p, b) \in {[p EXCEPT !.constants = w], [p EXCEPT !.rules = w], [p EXCEPT !.structs = w]}
      PROVE  ParseBlock(p, b).default_endian \in E
  <2> DEFINE z == ParseBlock(p, b)
  <2>1. \A k \in DOMAIN p : k \notin {"constants", "rules", "structs"} => z[k] = p[k]
    BY <1>5
  <2> HIDE DEF z
  <2>2. z["default_endian"] = p["default_endian"]
    BY <1>1, <2>1 DEF StateKeys
  <2> QED BY <1>2, <2>2 DEF z
<1>6. CASE b.kind = "protocol" /\ ParseBlock(p, b) = ParseProtocol(p, b)
  <2>1. \/ ParseProtocol(p, b) \in {p, Rejected(p)}
        \/ \E d \in E : \E m : ParseProtocol(p, b) = [p EXCEPT !.default_endian = d, !.endian_mode = m]
    BY <1>6 DEF ParseProtocol, Within, Endians
  <2>2. ASSUME NEW d \in E, NEW m, ParseProtocol(p, b) = [p EXCEPT !.default_endian = d, !.endian_mode = m]
        PROVE  ParseProtocol(p, b).default_endian \in E
    BY <1>1, <2>2 DEF StateKeys
  <2> QED BY <1>3, <1>6, <2>1, <2>2
<1>7. \/ ParseBlock(p, b) \in {p, Rejected(p)}
      \/ b.kind = "protocol" /\ ParseBlock(p, b) = ParseProtocol(p, b)
      \/ ParseBlock(p, b) = ParseConst(p, b) \/ ParseBlock(p, b) = ParseStruct(p, b)
      \/ ParseBlock(p, b) = ParseFilter(p, b)
  BY DEF ParseBlock
<1>8. \E w : ParseConst(p, b) = [p EXCEPT !.constants = w]
  BY <1>1 DEF ParseConst, StateKeys
<1>9. ParseStruct(p, b) = Rejected(p) \/ \E w : ParseStruct(p, b) = [p EXCEPT !.structs = w]
  BY <1>1 DEF ParseStruct, StateKeys
<1>10. ParseFilter(p, b) = Rejected(p) \/ \E w : ParseFilter(p, b) = [p EXCEPT !.rules = w]
  BY FilterParsed
<1> QED BY <1>4, <1>5, <1>6, <1>7, <1>8, <1>9, <1>10

\* g is the definition f with another endianness in some of its @protocol blocks.
Rewrites(f, g, n) ==
  /\ DOMAIN f = 1..n /\ DOMAIN g = 1..n
  /\ \A i \in 1..n : IsBlock(f[i]) /\ Rewritten(f[i], g[i])

\* Neither says little.
AllBig(f, g, n) == \A i \in 1..n : BigOnly(f[i]) /\ BigOnly(g[i])

\* No block says an endianness that is not in E.
AllWithin(E, f, g, n) == "big" \in E /\ \A i \in 1..n : Within(E, f[i]) /\ Within(E, g[i])

\* The same structs, with big-endian fields.
SameBig(p, q) == IsBig(p) /\ IsBig(q) /\ (p.ok => p.structs = q.structs)

\* All blocks.
LEMMA LikeParsed ==
  ASSUME NEW E, NEW f, NEW g, NEW n \in Nat, Rewrites(f, g, n), AllWithin(E, f, g, n)
  PROVE  /\ LikeState(E, FoldLeft(ParseBlock, ParserInit, f), FoldLeft(ParseBlock, ParserInit, g))
         /\ IsSequence(FoldLeft(ParseBlock, ParserInit, g).structs)
         /\ AllBig(f, g, n) => SameBig(FoldLeft(ParseBlock, ParserInit, f), FoldLeft(ParseBlock, ParserInit, g))
<1>0. /\ DOMAIN f = 1..n /\ DOMAIN g = 1..n
      /\ \A i \in 1..n : IsBlock(f[i]) /\ Rewritten(f[i], g[i])
  BY DEF Rewrites
<1>1. PICK u : /\ u[0] = ParserInit
               /\ \A i \in 1..n : u[i] = ParseBlock(u[i - 1], f[i])
               /\ FoldLeft(ParseBlock, ParserInit, f) = u[n]
  BY <1>0, ParseStates
<1>2. PICK v : /\ v[0] = ParserInit
               /\ \A i \in 1..n : v[i] = ParseBlock(v[i - 1], g[i])
               /\ FoldLeft(ParseBlock, ParserInit, g) = v[n]
  BY <1>0, ParseStates
<1> DEFINE Good(i) == /\ LikeState(E, u[i], v[i]) /\ IsSequence(u[i].structs) /\ IsSequence(v[i].structs)
                      /\ u[i].default_endian \in E /\ v[i].default_endian \in E
                      /\ AllBig(f, g, n) => SameBig(u[i], v[i])
           T == {i \in 0..n : ~Good(i)}
<1>3. Good(0)
  <2>1. ParserState(ParserInit) /\ ParserInit.structs = <<>>
    BY DEF ParserInit, ParserState, Modes
  <2>2. IsSequence(<<>>) /\ LikeStructs(E, <<>>, <<>>)
    <3>1. Len(<<>>) = 0 /\ 1..0 = {} /\ IsSequence(<<>>)
      BY EmptySeq DEF IsSequence
    <3> QED BY <3>1 DEF LikeStructs
  <2>3. LikeState(E, ParserInit, ParserInit)
    BY <2>1, <2>2 DEF LikeState
  <2>4. SameBig(ParserInit, ParserInit)
    BY DEF SameBig, IsBig, ParserInit
  <2>5. ParserInit.default_endian \in E
    BY DEF ParserInit, AllWithin
  <2> QED BY <1>1, <1>2, <2>1, <2>2, <2>3, <2>4, <2>5
<1>4. ASSUME NEW i \in 1..n, Good(i - 1) PROVE Good(i)
  <2>1. u[i] = ParseBlock(u[i - 1], f[i]) /\ v[i] = ParseBlock(v[i - 1], g[i])
    BY <1>1, <1>2
  <2>2. ParserState(u[i - 1]) /\ ParserState(v[i - 1])
    BY <1>4 DEF LikeState
  <2>3. /\ ParserState(u[i]) /\ IsSequence(u[i].structs)
        /\ ParserState(v[i]) /\ IsSequence(v[i].structs)
    BY <1>4, <2>1, <2>2, BlockKeeps
  <2>4. LikeState(E, ParseBlock(u[i - 1], f[i]), ParseBlock(v[i - 1], g[i]))
    BY <1>0, <1>4, <2>1, <2>3, LikeBlock
  <2>5. ASSUME AllBig(f, g, n) PROVE SameBig(u[i], v[i])
    <3>1. IsBig(u[i - 1]) /\ IsBig(v[i - 1]) /\ (u[i - 1].ok => u[i - 1].structs = v[i - 1].structs)
      BY <1>4, <2>5 DEF SameBig
    <3>2. IsBig(ParseBlock(u[i - 1], f[i])) /\ IsBig(ParseBlock(v[i - 1], g[i]))
      BY <2>2, <2>5, <3>1, BigKept DEF AllBig
    <3>3. ASSUME u[i].ok PROVE u[i].structs = v[i].structs
      <4>1. v[i].ok
        BY <2>1, <2>4, <3>3 DEF LikeState
      <4>2. /\ u[i - 1].ok
            /\ u[i].structs = IF f[i].kind = "struct" THEN Append(u[i - 1].structs, NewStruct(f[i], u[i - 1].default_endian))
                              ELSE u[i - 1].structs
        BY <2>1, <2>2, <3>3, BlockStructs
      <4>3. v[i].structs = IF g[i].kind = "struct" THEN Append(v[i - 1].structs, NewStruct(g[i], v[i - 1].default_endian))
                           ELSE v[i - 1].structs
        BY <2>1, <2>2, <4>1, BlockStructs
      <4>4. f[i].kind = g[i].kind /\ (f[i].kind = "struct" => f[i] = g[i])
        BY <1>0 DEF Rewritten
      <4> QED BY <3>1, <4>2, <4>3, <4>4 DEF IsBig
    <3> QED BY <2>1, <3>2, <3>3 DEF SameBig
  <2>6. u[i].default_endian \in E /\ v[i].default_endian \in E
    BY <1>4, <2>1, <2>2, EndianKept DEF AllWithin
  <2> QED BY <2>1, <2>3, <2>4, <2>5, <2>6
<1> HIDE DEF Good
<1>5. T = {}
  <2>1. SUFFICES ASSUME T # {} PROVE FALSE
    OBVIOUS
  <2>2. T \in SUBSET Nat
    OBVIOUS
  <2>3. PICK k \in T : \A j \in T : k <= j
    BY <2>1, <2>2, LeastNumber
  <2>4. k \in 1..n /\ k - 1 \in 0..n
    BY <1>3, <2>3
  <2>5. Good(k - 1)
    BY <2>3, <2>4
  <2> QED BY <1>4, <2>3, <2>4, <2>5
<1>6. Good(n)
  BY <1>5
<1> QED BY <1>1, <1>2, <1>6 DEF Good

\* What parses still parses when the endianness of a @protocol block is rewritten.
LEMMA RewrittenParses ==
  ASSUME NEW f, NEW g, NEW n \in Nat, Rewrites(f, g, n), Parse(f).ok
  PROVE  Parse(g).ok
<1> DEFINE p == FoldLeft(ParseBlock, ParserInit, f)
           q == FoldLeft(ParseBlock, ParserInit, g)
           r == FlattenStructs(p)
           s == FlattenStructs(q)
<1> DEFINE E == Endians
<1>0. AllWithin(E, f, g, n)
  BY DEF AllWithin, Within, Endians
<1> HIDE DEF E
<1>1. LikeState(E, p, q)
  BY <1>0, LikeParsed
<1>2. /\ Parse(f).ok <=> /\ p.ok /\ r.ok
                         /\ \A i \in DOMAIN r.rules : Compiles(r.structs, r.rules[i])
      /\ Parse(g).ok <=> /\ q.ok /\ s.ok
                         /\ \A i \in DOMAIN s.rules : Compiles(s.structs, s.rules[i])
  BY DEF Parse, NoProto
<1> HIDE DEF p, q
<1>3. LikeState(E, r, s)
  BY <1>1, <1>2, LikeFlattened
<1> HIDE DEF r, s
<1>4. r.ok /\ s.ok /\ q.ok /\ s.rules = r.rules /\ LikeStructs(E, r.structs, s.structs)
  BY <1>1, <1>2, <1>3 DEF LikeState
<1>5. \A i \in DOMAIN r.rules : Compiles(s.structs, r.rules[i])
  BY <1>2, <1>4, LikeCompiles
<1> QED BY <1>2, <1>4, <1>5

\* With big written into a definition that nowhere says little, the same code
\* is compiled.
LEMMA RewrittenCode ==
  ASSUME NEW f, NEW g, NEW n \in Nat, Rewrites(f, g, n), AllBig(f, g, n), Parse(f).ok
  PROVE  /\ Parse(g).filters = Parse(f).filters
         /\ Parse(g).mode \in {"auto", "big"}
<1> DEFINE p == FoldLeft(ParseBlock, ParserInit, f)
           q == FoldLeft(ParseBlock, ParserInit, g)
           r == FlattenStructs(p)
           s == FlattenStructs(q)
           codes(x) == [i \in DOMAIN x.rules |-> CompileRule(x.structs, x.rules[i])]
<1> DEFINE E == Endians
<1>0. AllWithin(E, f, g, n)
  BY DEF AllWithin, Within, Endians
<1> HIDE DEF E
<1>1. LikeState(E, p, q) /\ SameBig(p, q) /\ IsSequence(q.structs)
  BY <1>0, LikeParsed
<1>2. Parse(g).ok
  BY RewrittenParses
<1>3. /\ p.ok /\ r.ok /\ Parse(f).filters = codes(r)
      /\ Parse(g).filters = codes(s) /\ Parse(g).mode = s.endian_mode
  BY <1>2 DEF Parse, NoProto
<1> HIDE DEF p, q
<1>4. LikeState(E, r, s) /\ (r.ok /\ p.structs = q.structs => r.structs = s.structs)
  BY <1>1, <1>3, LikeFlattened
<1>5. s.endian_mode = q.endian_mode
  BY <1>1, FlattenedRules DEF LikeState
<1> HIDE DEF r, s
<1>6. r.rules = s.rules /\ r.structs = s.structs
  BY <1>1, <1>3, <1>4 DEF LikeState, SameBig
<1>7. q.endian_mode \in Modes /\ q.endian_mode # "little"
  BY <1>1 DEF LikeState, ParserState, SameBig, IsBig
<1> QED BY <1>3, <1>5, <1>6, <1>7 DEF Modes

-----------------------------------------------------------------------------
(* Writing back. *)

\* Where SelectInSeq finds something.
LEMMA Selected ==
  ASSUME NEW s, Len(s) \in Nat, NEW I, I \subseteq 1..Len(s), I # {}
  PROVE  Min(I) \in I
<1>1. I \in SUBSET Nat
  OBVIOUS
<1>2. PICK i \in I : \A j \in I : i <= j
  BY <1>1, LeastNumber
<1> QED BY <1>2 DEF Min

\* writeback_endian_to_file changes the endianness of one @protocol block.
LEMMA WritebackRewrites ==
  ASSUME NEW f \in Files, WritebackTarget(f) # 0, NEW e \in Endians
  PROVE  \E n \in Nat : /\ Rewrites(f, Writeback(f, e), n)
                        /\ e = "big" /\ (\A i \in DOMAIN f : BigOnly(f[i])) => AllBig(f, Writeback(f, e), n)
<1>1. f \in Seq(Range(f)) /\ \A i \in DOMAIN f : IsBlock(f[i])
  BY FilesAssumption DEF IsList
<1>2. PICK n \in Nat : n = Len(f) /\ DOMAIN f = 1..n
  BY <1>1, LenProperties
<1> DEFINE A == {i \in 1..Len(f) : f[i].kind = "protocol" /\ f[i].endian # "none"}
           B == {i \in 1..Len(f) : f[i].kind = "protocol"}
<1>3. PICK t : t = WritebackTarget(f)
  OBVIOUS
<1>4. t = LET set == IF A # {} THEN Min(A) ELSE 0
          IN IF set # 0 THEN set ELSE IF B # {} THEN Min(B) ELSE 0
  BY <1>3 DEF WritebackTarget, SelectInSeq
<1>5. A # {} => Min(A) \in A
  BY <1>2, Selected
<1>6. B # {} => Min(B) \in B
  BY <1>2, Selected
<1>7. A \subseteq B
  OBVIOUS
<1>8. t \in B
  <2> HIDE DEF A, B
  <2> QED BY <1>3, <1>4, <1>5, <1>6, <1>7
<1>9. t \in 1..n /\ f[t].kind = "protocol" /\ IsBlock(f[t])
  BY <1>1, <1>2, <1>8
<1> HIDE DEF A, B
<1> DEFINE c == [f[t] EXCEPT !.endian = e]
           g == Writeback(f, e)
<1>10. g = [f EXCEPT ![t] = c]
  BY <1>3 DEF Writeback
<1>11. c.kind = "protocol" /\ c.endian = e
  <2>1. "kind" \in DOMAIN f[t] /\ "endian" \in DOMAIN f[t]
    BY <1>9 DEF IsBlock
  <2> QED BY <1>9, <2>1
<1> HIDE DEF c, g
<1>12. DOMAIN g = 1..n /\ \A i \in 1..n : g[i] = IF i = t THEN c ELSE f[i]
  BY <1>2, <1>10
<1>13. Rewrites(f, g, n)
  BY <1>1, <1>2, <1>9, <1>11, <1>12 DEF Rewrites, Rewritten
<1>14. ASSUME e = "big", \A i \in DOMAIN f : BigOnly(f[i]) PROVE AllBig(f, g, n)
  BY <1>2, <1>11, <1>12, <1>14 DEF AllBig, BigOnly
<1> QED BY <1>13, <1>14 DEF g

\* The definition src accepts the packets ps when it is read with the endianness e.
Evidence(src, e, ps) ==
  /\ Parse(src).ok
  /\ \A p \in ps : FilterMatch(p, [Parse(src) EXCEPT !.mode = e], "unknown") # "none"

\* The record us of a definition src that is fl on disk: it is rewritten once, with
\* what was detected, for which kp is the evidence.
RecordOK(src, us, fl, kp) ==
  /\ ~us.done => fl = src
  /\ us.done => /\ us.detected # "unknown" /\ WritebackTarget(src) # 0
                /\ fl = Writeback(src, us.detected)
  /\ us.needed => us.detected # "unknown"
  /\ us.detected # "unknown" => Evidence(src, us.detected, kp)

UsageSet == [detected : Detection, needed : BOOLEAN, done : BOOLEAN]

\* try_writeback_pdef_endian keeps the record.
LEMMA TryKeeps ==
  ASSUME NEW u \in UsageSet, NEW kp, RecordOK(source, u, file, kp), TryWriteback(u)
  PROVE  RecordOK(source, usage', file', kp) /\ (u.done => usage'.done)
<1>1. CASE usage' = u /\ file' = file
  BY <1>1
<1>2. CASE /\ u.needed /\ ~u.done /\ WritebackTarget(file) # 0
           /\ file' = Writeback(file, u.detected)
           /\ usage' = [u EXCEPT !.done = TRUE]
  <2> DEFINE w == [u EXCEPT !.done = TRUE]
  <2>1. w["detected"] = u["detected"] /\ w["needed"] = u["needed"] /\ w["done"] = TRUE
    BY DEF UsageSet
  <2>2. usage'.detected = u.detected /\ usage'.needed = u.needed /\ usage'.done
    <3> HIDE DEF w
    <3>1. usage' = w
      BY <1>2 DEF w
    <3> QED BY <2>1, <3>1, Zenon
  <2>3. file = source /\ u.detected # "unknown"
    BY <1>2 DEF RecordOK
  <2> QED BY <1>2, <2>2, <2>3 DEF RecordOK
<1> QED BY <1>1, <1>2 DEF TryWriteback

\* What is on disk and in use, and what every report still on its way is evidence
\* of until the definition has been rewritten.
WritebackInv ==
  /\ source \in Files
  /\ proto.ok => proto = Parse(file)
  /\ RecordOK(source, usage, file, kept)
  /\ ~usage.done => \A i \in 1..Len(endianMsg) :
                       Evidence(source, endianMsg[i].endian, endianMsg[i].accepted)

\* Every step keeps it.
LEMMA WritebackInvStep ==
  ASSUME FilterInv, CodeInv, WritebackInv, [Next]_vars
  PROVE  WritebackInv'
<1> DEFINE Msg == [endian : Endians, accepted : SUBSET Packets]
           Told(m) == Evidence(source, m.endian, m.accepted)
<1>0. /\ source \in Files /\ (proto.ok => proto = Parse(file)) /\ RecordOK(source, usage, file, kept)
      /\ ~usage.done => \A i \in 1..Len(endianMsg) : Told(endianMsg[i])
      /\ usage \in UsageSet /\ endianMsg \in Seq(Msg)
  BY DEF WritebackInv, CodeInv, UsageSet
<1>1. CASE OpenPdef
  <2>1. /\ proto' = Parse(file) /\ file' = file /\ source' = source /\ usage' = usage /\ kept' = kept
        /\ endianMsg' = endianMsg
    BY <1>1 DEF OpenPdef
  <2> QED BY <1>0, <2>1 DEF WritebackInv
<1>2. ASSUME NEW p \in Packets, FilterPacket(p) PROVE WritebackInv'
  <2>1. /\ proto' = proto /\ file' = file /\ source' = source /\ usage' = usage /\ kept' = kept
        /\ endianMsg' = endianMsg
    BY <1>2 DEF FilterPacket
  <2> QED BY <1>0, <2>1 DEF WritebackInv
<1>3. CASE EndOfFile
  <2>1. /\ proto.ok /\ ~proto'.ok /\ source' = source /\ kept' = kept /\ TryWriteback(usage)
        /\ endianMsg' = IF proto.mode = "auto" /\ detected # "unknown"
                        THEN Append(endianMsg, [endian |-> detected, accepted |-> accepted]) ELSE endianMsg
    BY <1>3 DEF EndOfFile, NoProto
  <2>2. RecordOK(source, usage', file', kept) /\ (usage.done => usage'.done)
    BY <1>0, <2>1, TryKeeps
  <2>3. ASSUME ~usage.done, proto.mode = "auto", detected # "unknown"
        PROVE  Evidence(source, detected, accepted)
    <3>1. file = source /\ proto = Parse(source)
      BY <1>0, <2>1, <2>3 DEF RecordOK
    <3>2. \A p \in accepted : FilterMatch(p, [proto EXCEPT !.mode = detected], "unknown") # "none"
      BY <2>1, <2>3 DEF FilterInv, OneEndianPerCapture
    <3> QED BY <2>1, <3>1, <3>2 DEF Evidence
  <2>4. ASSUME ~usage.done PROVE \A i \in 1..Len(endianMsg') : Told(endianMsg'[i])
    <3>1. \A i \in 1..Len(endianMsg) : Told(endianMsg[i])
      BY <1>0, <2>4
    <3>2. CASE ~(proto.mode = "auto" /\ detected # "unknown")
      BY <2>1, <3>1, <3>2
    <3>3. CASE proto.mode = "auto" /\ detected # "unknown"
      <4> DEFINE m == [endian |-> detected, accepted |-> accepted]
      <4>1. m.endian = detected /\ m.accepted = accepted
        OBVIOUS
      <4>2. Told(m)
        BY <2>3, <2>4, <3>3, <4>1
      <4>3. m \in Msg
        BY <3>3 DEF FilterInv, CodeInv
      <4>4. endianMsg' = Append(endianMsg, m)
        BY <2>1, <3>3
      <4> HIDE DEF m, Told, Msg
      <4>5. Len(endianMsg') = Len(endianMsg) + 1 /\ Len(endianMsg) \in Nat
        BY <1>0, <4>3, <4>4
      <4>6. \A i \in 1..(Len(endianMsg) + 1) : endianMsg'[i] = IF i = Len(endianMsg) + 1 THEN m ELSE endianMsg[i]
        BY <1>0, <4>3, <4>4, <4>5
      <4>7. \A i \in 1..(Len(endianMsg) + 1) : i = Len(endianMsg) + 1 \/ i \in 1..Len(endianMsg)
        BY <4>5
      <4> QED BY <3>1, <4>2, <4>5, <4>6, <4>7
    <3> QED BY <3>2, <3>3
  <2> QED BY <1>0, <2>1, <2>2, <2>4 DEF WritebackInv
<1>4. CASE HandleEndian
  <2> DEFINE m == Head(endianMsg)
             first == ~usage.done /\ usage.detected = "unknown"
             u == IF first THEN [usage EXCEPT !.detected = m.endian, !.needed = TRUE] ELSE usage
             k == IF first THEN m.accepted ELSE kept
  <2>1. /\ endianMsg # <<>> /\ endianMsg' = Tail(endianMsg) /\ source' = source /\ proto' = proto
        /\ kept' = k
        /\ IF usage.done \/ proto.ok THEN usage' = u /\ file' = file ELSE TryWriteback(u)
    BY <1>4 DEF HandleEndian
  <2>2. m \in Msg /\ m = endianMsg[1] /\ Len(endianMsg) \in Nat /\ Len(endianMsg) # 0
    <3> HIDE DEF Msg, Told, u, k
    <3>1. endianMsg \in Seq(Msg) /\ endianMsg # <<>>
      BY <1>0, <2>1
    <3> QED BY <3>1
  <2>3. m.endian \in Endians
    BY <2>2
  <2>4. ~usage.done => Told(m)
    <3>1. 1 \in 1..Len(endianMsg)
      BY <2>2
    <3> QED BY <1>0, <2>2, <3>1
  <2>5. u \in UsageSet /\ RecordOK(source, u, file, k) /\ (u.done <=> usage.done)
    <3>1. CASE ~first
      <4>1. u = usage /\ k = kept
        BY <3>1
      <4> QED BY <1>0, <4>1
    <3>2. CASE first
      <4> DEFINE w == [usage EXCEPT !.detected = m.endian, !.needed = TRUE]
      <4>1. u = w /\ k = m.accepted
        BY <3>2
      <4>2. w["detected"] = m.endian /\ w["done"] = usage["done"]
        BY <1>0 DEF UsageSet
      <4>3. w \in UsageSet
        BY <1>0, <2>3 DEF UsageSet, Detection
      <4> HIDE DEF w
      <4>4. w.detected = m.endian /\ (w.done <=> usage.done) /\ w.detected # "unknown"
        BY <2>3, <4>2 DEF Endians
      <4>5. file = source /\ Told(m) /\ ~w.done
        BY <1>0, <2>4, <3>2, <4>4 DEF RecordOK
      <4>6. RecordOK(source, w, file, m.accepted)
        BY <4>4, <4>5 DEF RecordOK
      <4> QED BY <4>1, <4>3, <4>4, <4>6
    <3> QED BY <3>1, <3>2
  <2> HIDE DEF u, k
  <2>6. RecordOK(source, usage', file', k) /\ (usage.done => usage'.done)
    <3>1. CASE usage.done \/ proto.ok
      BY <2>1, <2>5, <3>1
    <3>2. CASE ~(usage.done \/ proto.ok)
      BY <2>1, <2>5, <3>2, TryKeeps
    <3> QED BY <3>1, <3>2
  <2>7. proto'.ok => proto' = Parse(file')
    <3>1. CASE proto.ok
      BY <1>0, <2>1, <3>1
    <3>2. CASE ~proto.ok
      BY <2>1, <3>2
    <3> QED BY <3>1, <3>2
  <2>8. ASSUME ~usage.done PROVE \A i \in 1..Len(endianMsg') : Told(endianMsg'[i])
    <3>1. \A i \in 1..Len(endianMsg) : Told(endianMsg[i])
      BY <1>0, <2>8
    <3> HIDE DEF Told, Msg
    <3>2. Len(endianMsg') = Len(endianMsg) - 1 /\ \A i \in 1..(Len(endianMsg) - 1) : endianMsg'[i] = endianMsg[i + 1]
      BY <1>0, <2>1
    <3>3. \A i \in 1..(Len(endianMsg) - 1) : i + 1 \in 1..Len(endianMsg)
      BY <2>2
    <3> QED BY <3>1, <3>2, <3>3
  <2> QED BY <1>0, <2>1, <2>6, <2>7, <2>8 DEF WritebackInv
<1>5. CASE UNCHANGED vars
  <2>1. /\ proto' = proto /\ file' = file /\ source' = source /\ usage' = usage /\ kept' = kept
        /\ endianMsg' = endianMsg
    BY <1>5 DEF vars
  <2> QED BY <1>0, <2>1 DEF WritebackInv
<1> QED BY <1>1, <1>2, <1>3, <1>4, <1>5 DEF Next

\* It holds at the start.
LEMMA WritebackInvInit ==
  ASSUME Init
  PROVE  WritebackInv
<1>1. /\ source \in Files /\ file = source /\ ~proto.ok /\ usage = NoUsage /\ endianMsg = <<>>
  BY DEF Init, NoProto
<1>2. NoUsage.detected = "unknown" /\ ~NoUsage.needed /\ ~NoUsage.done
  BY DEF NoUsage
<1>3. Len(<<>>) = 0 /\ 1..0 = {}
  BY EmptySeq
<1>4. RecordOK(source, usage, file, kept)
  BY <1>1, <1>2 DEF RecordOK
<1> QED BY <1>1, <1>2, <1>3, <1>4 DEF WritebackInv

\* WritebackInv is an invariant: a definition is rewritten at most once, in one
\* block, with an endianness that a capture of the user's own text detected.
THEOREM PdefWritebackInvariant == Spec => []WritebackInv
<1>1. Init => WritebackInv
  BY WritebackInvInit
<1>2. FilterInv /\ CodeInv /\ WritebackInv /\ [Next]_vars => WritebackInv'
  BY WritebackInvStep
<1> QED BY <1>1, <1>2, PdefInvariant, PdefCodeInvariant, PTL DEF Spec

\* What is accepted when read as big is accepted in automatic mode, too.
LEMMA BigIsFirst ==
  ASSUME NEW packet, NEW x, Loaded(x), NEW y, y.filters = x.filters, y.mode \in {"auto", "big"},
         FilterMatch(packet, [x EXCEPT !.mode = "big"], "unknown") # "none"
  PROVE  FilterMatch(packet, y, "unknown") # "none"
<1> DEFINE z == [x EXCEPT !.mode = "big"]
           fs == x.filters
<1>1. z.filters = fs /\ z.mode = "big"
  BY DEF Loaded
<1> HIDE DEF z
<1>2. Hits(packet, fs, "big", "unknown") # {}
  BY <1>1, MatchFacts DEF z
<1>3. PICK i \in Hits(packet, fs, "big", "unknown") : TRUE
  BY <1>2
<1> DEFINE t == Tries(packet, fs)[i]
           rest == SubSeq(packet, t[2] + 1, Len(packet))
           rule == fs[t[1]]
<1>4. i \in 1..Len(Tries(packet, fs)) /\ TryMatch(rest, rule, "big", "unknown") # "none"
  BY <1>3 DEF Hits, Outcome
<1>5. TryMatch(rest, rule, y.mode, "unknown") # "none"
  <2> HIDE DEF t, rest, rule
  <2> DEFINE be == Execute(rule.code_be, rest) = "true"
             le == Execute(rule.code_le, rest) = "true"
  <2>1. \A m : TryMatch(rest, rule, m, "unknown") =
         LET known == IF m = "auto" THEN "unknown" ELSE m
         IN CASE known = "big" -> IF be THEN "big" ELSE "none"
              [] known = "little" -> IF le THEN "little" ELSE "none"
              [] OTHER -> IF be THEN "big" ELSE IF le THEN "little" ELSE "none"
    BY DEF TryMatch
  <2> HIDE DEF be, le
  <2> QED BY <1>4, <2>1
<1>6. i \in Hits(packet, fs, y.mode, "unknown")
  BY <1>4, <1>5 DEF Hits, Outcome
<1>7. PICK j \in Hits(packet, y.filters, y.mode, "unknown") :
         FilterMatch(packet, y, "unknown")
           = Outcome(packet, y.filters, y.mode, "unknown", Tries(packet, y.filters)[j])
  BY <1>6, MatchFacts
<1> QED BY <1>7 DEF Hits

\* try_writeback_pdef_endian never makes a definition unreadable, and where it
\* wrote big into one that nowhere says little, what the capture accepted that
\* detected it is accepted by every later one.
THEOREM PdefWriteback == Spec => []WritebackKeepsVerdicts
<1>1. FilterInv /\ CodeInv /\ WritebackInv => WritebackKeepsVerdicts
  <2> SUFFICES ASSUME FilterInv, CodeInv, WritebackInv, usage.done
               PROVE  /\ Parse(file).ok
                      /\ usage.detected = "big" /\ NoLittleBlock(source) /\ proto.ok /\ total = 0 =>
                           \A p \in kept : FilterMatch(p, proto, "unknown") # "none"
    BY DEF WritebackKeepsVerdicts
  <2> DEFINE e == usage.detected
  <2>1. /\ source \in Files /\ WritebackTarget(source) # 0 /\ file = Writeback(source, e)
        /\ Evidence(source, e, kept)
        /\ e \in Endians /\ (proto.ok => proto = Parse(file))
    BY DEF WritebackInv, RecordOK, CodeInv, Detection
  <2>2. PICK n \in Nat : /\ Rewrites(source, file, n)
                         /\ e = "big" /\ (\A i \in DOMAIN source : BigOnly(source[i])) => AllBig(source, file, n)
    BY <2>1, WritebackRewrites
  <2>3. Parse(source).ok
    BY <2>1 DEF Evidence
  <2>4. Parse(file).ok
    BY <2>2, <2>3, RewrittenParses
  <2>5. ASSUME e = "big", NoLittleBlock(source), proto.ok, NEW p \in kept
        PROVE  FilterMatch(p, proto, "unknown") # "none"
    <3>1. \A i \in DOMAIN source : BigOnly(source[i])
      BY <2>5 DEF NoLittleBlock, BigOnly
    <3>2. proto.filters = Parse(source).filters /\ proto.mode \in {"auto", "big"}
      BY <2>1, <2>2, <2>3, <2>5, <3>1, RewrittenCode
    <3>3. Loaded(Parse(source))
      BY <2>2, <2>3, ParseLoads DEF Rewrites
    <3>4. FilterMatch(p, [Parse(source) EXCEPT !.mode = "big"], "unknown") # "none"
      BY <2>1, <2>5 DEF Evidence
    <3> QED BY <3>2, <3>3, <3>4, BigIsFirst
  <2> QED BY <2>4, <2>5
<1> QED BY <1>1, PdefInvariant, PdefCodeInvariant, PdefWritebackInvariant, PTL

-----------------------------------------------------------------------------
(* The number that a field has. *)

\* The number that bytes spell, the first of them the highest.
Word(bytes) == FoldLeft(LAMBDA n, b : n * Base + b, 0, bytes)

\* The fold of Word goes through the bytes one by one.
WordFold(D, bytes) ==
  CHOOSE iter : iter = [s \in SUBSET D |-> IF s = {} THEN 0 ELSE iter[s \ {Max(s)}] * Base + bytes[Max(s)]]

\* The numbers, byte by byte.
LEMMA WordStates ==
  ASSUME NEW bytes, NEW n \in Nat, DOMAIN bytes = 1..n
  PROVE  \E st : /\ st[0] = 0
                 /\ \A i \in 1..n : st[i] = st[i - 1] * Base + bytes[i]
                 /\ Word(bytes) = st[n]
<1> DEFINE D == 1..n
           it == WordFold(D, bytes)
           st == [i \in 0..n |-> it[1..i]]
<1>1. PICK g : Folds("word", 0, bytes, n, g)
  BY FoldExists
<1>2. g = [s \in SUBSET D |-> IF s = {} THEN 0 ELSE g[s \ {Max(s)}] * Base + bytes[Max(s)]]
  BY <1>1 DEF Folds, Turn
<1>3. it = [s \in SUBSET D |-> IF s = {} THEN 0 ELSE it[s \ {Max(s)}] * Base + bytes[Max(s)]]
  BY <1>2 DEF WordFold
<1>4. Word(bytes) = it[D]
  <2>1. Word(bytes) = WordFold(DOMAIN bytes, bytes)[DOMAIN bytes]
    BY DEF Word, FoldLeft, MapThenFoldSet, WordFold
  <2> QED BY <2>1
<1> HIDE DEF it
<1>5. st[0] = 0
  <2>1. 1..0 = {} /\ {} \in SUBSET D
    OBVIOUS
  <2> QED BY <1>3, <2>1
<1>6. ASSUME NEW i \in 1..n PROVE st[i] = st[i - 1] * Base + bytes[i]
  <2>1. /\ 1..i \in SUBSET D /\ 1..i # {} /\ 1..(i - 1) \in SUBSET D
        /\ Max(1..i) = i /\ (1..i) \ {i} = 1..(i - 1)
    BY FirstPositions
  <2>2. it[1..i] = it[(1..i) \ {Max(1..i)}] * Base + bytes[Max(1..i)]
    BY <1>3, <2>1
  <2>3. it[1..i] = it[1..(i - 1)] * Base + bytes[i]
    BY <2>1, <2>2
  <2>4. i \in 0..n /\ i - 1 \in 0..n
    OBVIOUS
  <2> QED BY <2>3, <2>4
<1>7. Word(bytes) = st[n]
  BY <1>4
<1> QED BY <1>5, <1>6, <1>7

\* The fold of Values multiplies once for each byte.
ValuesFold(D) ==
  CHOOSE iter : iter = [s \in SUBSET D |-> IF s = {} THEN 1 ELSE iter[s \ {Max(s)}] * Base]

\* The powers of Base up to the n-th.
LEMMA ValuesStates ==
  ASSUME NEW n \in Nat
  PROVE  \E st : st[0] = 1 /\ (\A i \in 1..n : st[i] = st[i - 1] * Base) /\ Values(n) = st[n]
<1> DEFINE D == 1..n
           it == ValuesFold(D)
           st == [i \in 0..n |-> it[1..i]]
           seq == [i \in 1..n |-> i]
<1>1. PICK g : Folds("values", 1, seq, n, g)
  BY FoldExists
<1>2. g = [s \in SUBSET D |-> IF s = {} THEN 1 ELSE g[s \ {Max(s)}] * Base]
  BY <1>1 DEF Folds, Turn
<1>3. it = [s \in SUBSET D |-> IF s = {} THEN 1 ELSE it[s \ {Max(s)}] * Base]
  BY <1>2 DEF ValuesFold
<1>4. Values(n) = it[D]
  <2>1. PICK turns : turns = [i \in 1..n |-> i]
    OBVIOUS
  <2>2. DOMAIN turns = D
    BY <2>1
  <2>3. Values(n) = ValuesFold(DOMAIN turns)[DOMAIN turns]
    BY <2>1 DEF Values, FoldLeft, MapThenFoldSet, ValuesFold
  <2> QED BY <2>2, <2>3
<1> HIDE DEF it
<1>5. st[0] = 1
  <2>1. 1..0 = {} /\ {} \in SUBSET D
    OBVIOUS
  <2> QED BY <1>3, <2>1
<1>6. ASSUME NEW i \in 1..n PROVE st[i] = st[i - 1] * Base
  <2>1. /\ 1..i \in SUBSET D /\ 1..i # {} /\ 1..(i - 1) \in SUBSET D
        /\ Max(1..i) = i /\ (1..i) \ {i} = 1..(i - 1)
    BY FirstPositions
  <2>2. it[1..i] = it[(1..i) \ {Max(1..i)}] * Base
    BY <1>3, <2>1
  <2>3. it[1..i] = it[1..(i - 1)] * Base
    BY <2>1, <2>2
  <2>4. i \in 0..n /\ i - 1 \in 0..n
    OBVIOUS
  <2> QED BY <2>3, <2>4
<1>7. Values(n) = st[n]
  BY <1>4
<1> QED BY <1>5, <1>6, <1>7

Byte == 0..(Base - 1)

\* n bytes spell a number below Values(n).
LEMMA WordBound ==
  ASSUME NEW bytes \in Seq(Byte), NEW n \in Nat, n = Len(bytes)
  PROVE  Word(bytes) \in Nat /\ Values(n) \in Nat /\ Word(bytes) < Values(n)
<1>0. DOMAIN bytes = 1..n /\ Base \in Nat
  BY LenProperties, PdefAssumption
<1>1. PICK u : /\ u[0] = 0
               /\ \A i \in 1..n : u[i] = u[i - 1] * Base + bytes[i]
               /\ Word(bytes) = u[n]
  BY <1>0, WordStates
<1>2. PICK v : v[0] = 1 /\ (\A i \in 1..n : v[i] = v[i - 1] * Base) /\ Values(n) = v[n]
  BY ValuesStates
<1> DEFINE Good(i) == u[i] \in Nat /\ v[i] \in Nat /\ u[i] < v[i]
           T == {i \in 0..n : ~Good(i)}
<1>3. Good(0)
  BY <1>1, <1>2
<1>4. ASSUME NEW i \in 1..n, Good(i - 1) PROVE Good(i)
  <2>1. bytes[i] \in Nat /\ bytes[i] < Base
    BY <1>0 DEF Byte
  <2>2. \A x, y, b, c \in Nat : x < y /\ c < b => x * b + c \in Nat /\ y * b \in Nat /\ x * b + c < y * b
    OBVIOUS
  <2>3. u[i] = u[i - 1] * Base + bytes[i] /\ v[i] = v[i - 1] * Base
    BY <1>1, <1>2
  <2>4. u[i - 1] \in Nat /\ v[i - 1] \in Nat /\ u[i - 1] < v[i - 1]
    BY <1>4
  <2>5. /\ u[i - 1] * Base + bytes[i] \in Nat /\ v[i - 1] * Base \in Nat
        /\ u[i - 1] * Base + bytes[i] < v[i - 1] * Base
    BY <1>0, <2>1, <2>2, <2>4, Zenon
  <2> QED BY <2>3, <2>5, Zenon
<1> HIDE DEF Good
<1>5. T = {}
  <2>1. SUFFICES ASSUME T # {} PROVE FALSE
    OBVIOUS
  <2>2. T \in SUBSET Nat
    OBVIOUS
  <2>3. PICK k \in T : \A j \in T : k <= j
    BY <2>1, <2>2, LeastNumber
  <2>4. k \in 1..n /\ k - 1 \in 0..n
    BY <1>3, <2>3
  <2>5. Good(k - 1)
    BY <2>3, <2>4
  <2> QED BY <1>4, <2>3, <2>4, <2>5
<1>6. Good(n)
  BY <1>5
<1> QED BY <1>1, <1>2, <1>6 DEF Good

\* Values(n) is a number.
LEMMA ValuesNat ==
  ASSUME NEW n \in Nat
  PROVE  Values(n) \in Nat
<1> DEFINE z == [i \in 1..n |-> 0]
<1>1. 0 \in Byte
  BY PdefAssumption DEF Byte
<1>2. z \in [1..n -> Byte]
  BY <1>1
<1>3. z \in Seq(Byte)
  BY <1>2, SeqDef
<1>4. Len(z) = n
  BY LenOf
<1> HIDE DEF z
<1> QED BY <1>3, <1>4, WordBound

\* The bytes of a field, in the order that the endianness says.
Spelled(packet, offset, width, endian) ==
  IF endian = "little" THEN Reverse(SubSeq(packet, offset + 1, offset + width))
                       ELSE SubSeq(packet, offset + 1, offset + width)

\* They are width bytes; of one byte there is one order.
LEMMA SpelledBytes ==
  ASSUME NEW packet \in Seq(Byte), NEW offset \in Nat, NEW width \in Nat, offset + width <= Len(packet),
         NEW d, NEW e
  PROVE  /\ Spelled(packet, offset, width, e) \in Seq(Byte)
         /\ Len(Spelled(packet, offset, width, e)) = width
         /\ width = 1 => Spelled(packet, offset, width, e) = Spelled(packet, offset, width, d)
<1> DEFINE s == SubSeq(packet, offset + 1, offset + width)
           r == Reverse(s)
<1>1. s \in Seq(Byte) /\ Len(s) = width
  <2>1. /\ offset + 1 \in Nat /\ offset + width \in Nat
        /\ \A i \in (offset + 1)..(offset + width) : i \in 1..Len(packet)
    BY LenProperties
  <2>2. \A i \in (offset + 1)..(offset + width) : packet[i] \in Byte
    BY <2>1, LenProperties
  <2> QED BY <2>1, <2>2
<1>2. r = [i \in 1..width |-> s[(width - i) + 1]]
  BY <1>1 DEF Reverse
<1>3. ASSUME NEW i \in 1..width PROVE s[(width - i) + 1] \in Byte
  <2>1. (width - i) + 1 \in 1..width
    OBVIOUS
  <2> HIDE DEF s
  <2> QED BY <1>1, <2>1, LenProperties
<1> HIDE DEF s, r
<1>4. r \in [1..width -> Byte]
  BY <1>2, <1>3
<1>5. r \in Seq(Byte)
  BY <1>4, SeqDef
<1>6. Len(r) = width
  <2>1. r = [i \in 1..width |-> r[i]]
    BY <1>4
  <2> QED BY <2>1, LenOf
<1>7. ASSUME width = 1 PROVE r = s
  <2>1. s \in [1..1 -> Byte] /\ r \in [1..1 -> Byte]
    BY <1>1, <1>4, <1>7, LenProperties
  <2>2. \A i \in 1..1 : i = 1 /\ (1 - i) + 1 = i
    OBVIOUS
  <2>3. \A i \in 1..1 : r[i] = s[i]
    BY <1>2, <1>7, <2>2
  <2> QED BY <2>1, <2>3
<1>8. \A x : Spelled(packet, offset, width, x) = IF x = "little" THEN r ELSE s
  BY DEF Spelled, r, s
<1> QED BY <1>1, <1>5, <1>6, <1>7, <1>8

\* ReadWord is the number that they spell.
LEMMA ReadIsWord ==
  ASSUME NEW packet, NEW offset, NEW width, NEW e
  PROVE  ReadWord(packet, offset, width, e) = Word(Spelled(packet, offset, width, e))
BY DEF ReadWord, Word, Spelled

\* The instruction that loads the field f, read with the endianness e.
Loads(ins, f, e) ==
  /\ ins.op = "load" /\ ins.width = Width(f) /\ ins.signed = (f.type = "int") /\ ins.offset = f.offset
  /\ Width(f) # 1 => ins.endian = e

\* What is loaded is the field's number in two's complement; a number without
\* sign as it is.
LEMMA LoadMeans ==
  ASSUME NEW packet \in Seq(Byte), NEW f, f.offset \in Nat, f.size \in Nat,
         f.offset + Width(f) <= Len(packet), NEW e, NEW ins, Loads(ins, f, e)
  PROVE  /\ Load(packet, ins) = Complement(Number(f, packet, e))
         /\ f.type # "int" => Load(packet, ins) = Number(f, packet, e)
<1> DEFINE w == Width(f)
           o == f.offset
           n == ReadWord(packet, o, w, e)
<1>1. w \in Nat /\ o \in Nat
  BY DEF Width
<1>2. PICK big : big = (f.type = "int")
  OBVIOUS
<1>3. ins.width = w /\ ins.signed = big /\ ins.offset = o /\ (w # 1 => ins.endian = e)
  BY <1>2 DEF Loads
<1>4. ReadWord(packet, o, w, ins.endian) = n
  <2> HIDE DEF w, o
  <2>1. w = 1 => Spelled(packet, o, w, ins.endian) = Spelled(packet, o, w, e)
    BY <1>1, SpelledBytes DEF w, o
  <2> QED BY <1>3, <2>1, ReadIsWord
<1>5. n \in Nat /\ n < Values(w) /\ Values(w) \in Nat
  <2> HIDE DEF w, o
  <2>1. Spelled(packet, o, w, e) \in Seq(Byte) /\ Len(Spelled(packet, o, w, e)) = w
    BY <1>1, SpelledBytes DEF w, o
  <2> QED BY <1>1, <2>1, WordBound, ReadIsWord
<1>6. Values(AccBytes) \in Nat
  BY ValuesNat, PdefAssumption
<1>7. Load(packet, ins) = IF big /\ 2 * n >= Values(w) THEN n + Values(AccBytes) - Values(w) ELSE n
  BY <1>3, <1>4 DEF Load
<1>8. Number(f, packet, e) = IF f.type = "int" /\ 2 * n >= Values(w) THEN n - Values(w) ELSE n
  BY DEF Number
<1> HIDE DEF n, w, o
<1>9. CASE f.type = "int" /\ 2 * n >= Values(w)
  <2>1. big
    BY <1>2, <1>9
  <2>2. Load(packet, ins) = n + Values(AccBytes) - Values(w) /\ Number(f, packet, e) = n - Values(w)
    BY <1>7, <1>8, <1>9, <2>1
  <2>3. \A a, b, c \in Nat : a < b => a - b < 0 /\ a - b + c = a + c - b
    OBVIOUS
  <2> QED BY <1>5, <1>6, <1>9, <2>2, <2>3 DEF Complement
<1>10. CASE ~(f.type = "int" /\ 2 * n >= Values(w))
  <2>1. ~(big /\ 2 * n >= Values(w))
    BY <1>2, <1>10
  <2>2. Load(packet, ins) = n /\ Number(f, packet, e) = n
    BY <1>7, <1>8, <1>10, <2>1
  <2>3. ~(n < 0)
    BY <1>5
  <2> QED BY <2>2, <2>3 DEF Complement
<1> QED BY <1>9, <1>10

-----------------------------------------------------------------------------
(* What the code of a rule consists of. *)

\* Each element of sequence j is in FlattenSeq(seqs) at its place after at[j - 1].
LEMMA FlattenAt ==
  ASSUME NEW seqs, NEW n, NEW at, Laid(seqs, n, at)
  PROVE  \A j \in 1..n : \A k \in 1..Len(seqs[j]) :
            at[j - 1] + k \in 1..at[n] /\ FlattenSeq(seqs)[at[j - 1] + k] = seqs[j][k]
<1>0. /\ n \in Nat \ {0} /\ Len(seqs) = n
      /\ \A i \in 1..n : IsSequence(seqs[i])
      /\ at[0] = 0 /\ \A i \in 1..n : at[i] = at[i - 1] + Len(seqs[i])
  BY DEF Laid
<1> USE <1>0
<1>1. PICK g : /\ g[1] = seqs[1]
               /\ \A i \in 2..n : g[i] = g[i - 1] \o seqs[i]
               /\ FlattenSeq(seqs) = g[n]
  BY FlattenSteps
<1> DEFINE Good(i) == /\ IsSequence(g[i]) /\ Len(g[i]) = at[i] /\ at[i] \in Nat
                      /\ \A j \in 1..i : \A k \in 1..Len(seqs[j]) :
                            at[j - 1] + k \in 1..at[i] /\ g[i][at[j - 1] + k] = seqs[j][k]
           T == {i \in 1..n : ~Good(i)}
<1>2. Good(1)
  <2>1. IsSequence(g[1]) /\ g[1] = seqs[1]
    BY <1>1
  <2>2. Len(seqs[1]) \in Nat
    BY <2>1, Joined
  <2>3. at[1] = Len(seqs[1])
    <3>1. 1 \in 1..n /\ 1 - 1 = 0
      OBVIOUS
    <3>2. at[1] = at[1 - 1] + Len(seqs[1])
      BY <3>1
    <3> QED BY <2>2, <3>1, <3>2
  <2>4. \A j \in 1..1 : j = 1 /\ j - 1 = 0
    OBVIOUS
  <2>5. \A k \in 1..Len(seqs[1]) : 0 + k = k
    BY <2>2
  <2> QED BY <2>1, <2>2, <2>3, <2>4, <2>5
<1>3. ASSUME NEW i \in 2..n, Good(i - 1) PROVE Good(i)
  <2> DEFINE s == g[i - 1]
             t == seqs[i]
  <2>0. i \in 1..n /\ i \in Nat
    OBVIOUS
  <2>1. g[i] = s \o t /\ IsSequence(s) /\ IsSequence(t)
    BY <1>1, <1>3, <2>0
  <2>2. /\ IsSequence(s \o t) /\ Len(s \o t) = Len(s) + Len(t) /\ Len(s) \in Nat /\ Len(t) \in Nat
        /\ \A a \in 1..Len(s) : (s \o t)[a] = s[a]
        /\ \A a \in 1..Len(t) : (s \o t)[Len(s) + a] = t[a]
    <3> HIDE DEF s, t
    <3> QED BY <2>1, Joined
  <2>3. Len(s) = at[i - 1] /\ at[i] = Len(s) + Len(t)
    BY <1>3, <2>0
  <2>4. ASSUME NEW j \in 1..i, NEW k \in 1..Len(seqs[j])
        PROVE  at[j - 1] + k \in 1..at[i] /\ g[i][at[j - 1] + k] = seqs[j][k]
    <3>1. CASE j \in 1..(i - 1)
      <4>1. at[j - 1] + k \in 1..Len(s) /\ s[at[j - 1] + k] = seqs[j][k]
        BY <1>3, <2>3, <3>1
      <4>2. at[j - 1] + k \in 1..at[i]
        BY <2>2, <2>3, <4>1
      <4> QED BY <2>1, <2>2, <4>1, <4>2
    <3>2. CASE j = i
      <4>1. at[j - 1] + k \in 1..at[i]
        BY <2>2, <2>3, <3>2
      <4> QED BY <2>1, <2>2, <2>3, <3>2, <4>1
    <3> QED BY <3>1, <3>2
  <2>5. IsSequence(g[i]) /\ Len(g[i]) = at[i]
    BY <2>1, <2>2, <2>3
  <2>6. at[i] \in Nat
    BY <2>2, <2>3
  <2> QED BY <2>4, <2>5, <2>6
<1> HIDE DEF Good
<1>4. T = {}
  <2>1. SUFFICES ASSUME T # {} PROVE FALSE
    OBVIOUS
  <2>2. T \in SUBSET Nat
    OBVIOUS
  <2>3. PICK k \in T : \A j \in T : k <= j
    BY <2>1, <2>2, LeastNumber
  <2>4. k \in 2..n /\ k - 1 \in 1..n
    <3>1. k # 1
      BY <1>2
    <3> QED BY <3>1
  <2>5. Good(k - 1)
    <3>1. ~(k <= k - 1)
      OBVIOUS
    <3> QED BY <2>3, <2>4, <3>1
  <2> QED BY <1>3, <2>3, <2>4, <2>5
<1>5. Good(n)
  BY <1>4
<1> QED BY <1>1, <1>5 DEF Good

\* One element before a sequence.
LEMMA OneBefore ==
  ASSUME NEW x, NEW t, IsSequence(t)
  PROVE  (<<x>> \o t)[1] = x /\ \A i \in 1..Len(t) : (<<x>> \o t)[1 + i] = t[i]
<1>1. PICK S : t \in Seq(S)
  BY DEF IsSequence
<1>2. t \in Seq(S \cup {x}) /\ <<x>> \in Seq(S \cup {x})
  BY <1>1
<1> QED BY <1>2

\* The first instruction of a condition loads its field, in code_be with the
\* field's own endianness and in code_le with the opposite one.
LEMMA OpcodeLoads ==
  ASSUME NEW f
  PROVE  /\ Loads(LoadOpcode(f), f, Reading(f, "own"))
         /\ Loads(SwapEndianOpcode(LoadOpcode(f)), f, Reading(f, "opposite"))
<1> DEFINE w == Width(f)
           e == IF w = 1 THEN "none" ELSE f.endian
<1>1. PICK s : s = (f.type = "int")
  OBVIOUS
<1>2. LoadOpcode(f) = [op |-> "load", width |-> w, signed |-> s, endian |-> e, offset |-> f.offset]
  BY <1>1 DEF LoadOpcode, Width
<1>3. w # 1 => e = f.endian
  OBVIOUS
<1> HIDE DEF w, e
<1>4. SwapEndianOpcode(LoadOpcode(f))
        = [op |-> "load", width |-> w, signed |-> s, endian |-> Opposite(e), offset |-> f.offset]
  BY <1>2 DEF SwapEndianOpcode
<1>5. Reading(f, "own") = f.endian /\ Reading(f, "opposite") = Opposite(f.endian)
  BY DEF Reading
<1>6. /\ LoadOpcode(f).op = "load" /\ LoadOpcode(f).width = w /\ LoadOpcode(f).signed = s
      /\ LoadOpcode(f).offset = f.offset /\ LoadOpcode(f).endian = e
  BY <1>2
<1> DEFINE z == SwapEndianOpcode(LoadOpcode(f))
<1>7. z.op = "load" /\ z.width = w /\ z.signed = s /\ z.offset = f.offset /\ z.endian = Opposite(e)
  BY <1>4
<1> HIDE DEF z
<1>8. w # 1 => Opposite(e) = Opposite(f.endian)
  BY <1>3
<1>9. Loads(LoadOpcode(f), f, Reading(f, "own"))
  BY <1>1, <1>3, <1>5, <1>6, Zenon DEF Loads, w
<1>10. Loads(z, f, Reading(f, "opposite"))
  BY <1>1, <1>8, <1>5, <1>7, Zenon DEF Loads, w
<1> QED BY <1>9, <1>10 DEF z

\* The comparison of a condition without a list.
Test(c) == IF c.op = "mask" THEN Cmp("mask", c.mask, c.value) ELSE Cmp(c.op, c.value, 0)

\* After the load: a comparison for each value of a list, or one.
ListCode(y, c, start, next, fail) ==
  \A v \in 1..Len(c.values) :
     /\ y[3 * v - 1] = Cmp("eq", c.values[v], 0)
     /\ y[3 * v] = JumpIfFalse(IF v < Len(c.values) THEN start + 3 * v + 1 ELSE IF c.op = "in" THEN fail ELSE next)
     /\ v < Len(c.values) \/ c.op = "not_in" => y[3 * v + 1] = Jump(IF c.op = "in" THEN next ELSE fail)
TestCode(y, c, fail) == y[2] = Test(c) /\ y[3] = JumpIfFalse(fail)

\* The instructions y of a condition at the address start.
ConditionCode(y, c, start, next, fail) ==
  /\ c.op \in {"in", "not_in"} => ListCode(y, c, start, next, fail)
  /\ c.op \notin {"in", "not_in"} => TestCode(y, c, fail)

\* The instructions of a list.
LEMMA ListInstructions ==
  ASSUME NEW c, IsCondition(c), c.op \in {"in", "not_in"}, NEW x,
         NEW start \in Nat, NEW next \in Nat, NEW fail \in Nat, next = start + CondSize(c), next <= fail
  PROVE  LET code == IF c.op = "in"
                     THEN FlattenSeq([v \in DOMAIN c.values |-> CompileIn(c, v, start, next, fail)])
                     ELSE FlattenSeq([v \in DOMAIN c.values |-> CompileNotIn(c, v, start, next, fail)])
         IN  ListCode(<<x>> \o code, c, start, next, fail)
<1> DEFINE n == Len(c.values)
           ins == [v \in DOMAIN c.values |-> CompileIn(c, v, start, next, fail)]
           outs == [v \in DOMAIN c.values |-> CompileNotIn(c, v, start, next, fail)]
           code == IF c.op = "in" THEN FlattenSeq(ins) ELSE FlattenSeq(outs)
           seqs == IF c.op = "in" THEN ins ELSE outs
           y == <<x>> \o code
           at == [v \in 0..n |-> IF v < n \/ c.op = "not_in" THEN 3 * v ELSE 3 * n - 1]
<1>1. n \in Nat \ {0} /\ DOMAIN c.values = 1..n
  <2>1. PICK S : c.values \in Seq(S)
    BY DEF IsCondition, IsSequence
  <2> QED BY <2>1, LenProperties DEF IsCondition
<1>2. code = FlattenSeq(seqs)
  OBVIOUS
<1>3. IsSequence(code) /\ Len(code) = CondSize(c) - 1
  BY ListForward
<1>4. ASSUME NEW v \in 1..n
      PROVE  /\ IsSequence(seqs[v]) /\ Len(seqs[v]) = (IF v < n \/ c.op = "not_in" THEN 3 ELSE 2)
             /\ seqs[v][1] = Cmp("eq", c.values[v], 0)
             /\ seqs[v][2] = JumpIfFalse(IF v < n THEN start + 3 * v + 1 ELSE IF c.op = "in" THEN fail ELSE next)
             /\ v < n \/ c.op = "not_in" => seqs[v][3] = Jump(IF c.op = "in" THEN next ELSE fail)
  <2>1. start + 3 * v - 1 + 2 = start + 3 * v + 1
    BY <1>1
  <2> DEFINE a == Cmp("eq", c.values[v], 0)
             t == start + 3 * v + 1
  <2>2. CASE c.op = "in"
    <3>1. seqs[v] = CompileIn(c, v, start, next, fail)
      BY <1>1, <2>2
    <3>2. CompileIn(c, v, start, next, fail)
            = IF v < n THEN <<a, JumpIfFalse(t), Jump(next)>> ELSE <<a, JumpIfFalse(fail)>>
      BY <2>1 DEF CompileIn
    <3> HIDE DEF a, t, n, seqs
    <3>3. seqs[v] = IF v < n THEN <<a, JumpIfFalse(t), Jump(next)>> ELSE <<a, JumpIfFalse(fail)>>
      BY <3>1, <3>2
    <3>4. CASE v < n
      <4>1. seqs[v] = <<a, JumpIfFalse(t), Jump(next)>>
        BY <3>3, <3>4
      <4>3. PICK p, q : p = JumpIfFalse(t) /\ q = Jump(next)
        OBVIOUS
      <4>4. seqs[v] = <<a, p, q>>
        BY <4>1, <4>3
      <4>6. /\ IsSequence(<<a, p, q>>) /\ Len(<<a, p, q>>) = 3
            /\ <<a, p, q>>[1] = a /\ <<a, p, q>>[2] = p /\ <<a, p, q>>[3] = q
        BY Instructions
      <4>5. IsSequence(seqs[v]) /\ Len(seqs[v]) = 3 /\ seqs[v][1] = a /\ seqs[v][2] = p /\ seqs[v][3] = q
        BY <4>4, <4>6, Zenon
      <4>2. /\ IsSequence(seqs[v]) /\ Len(seqs[v]) = 3
            /\ seqs[v][1] = a /\ seqs[v][2] = JumpIfFalse(t) /\ seqs[v][3] = Jump(next)
        BY <4>3, <4>5
      <4> QED BY <2>2, <3>4, <4>2 DEF a, t
    <3>5. CASE ~(v < n)
      <4>1. seqs[v] = <<a, JumpIfFalse(fail)>>
        BY <3>3, <3>5
      <4>3. PICK p : p = JumpIfFalse(fail)
        OBVIOUS
      <4>4. seqs[v] = <<a, p>>
        BY <4>1, <4>3
      <4>6. IsSequence(<<a, p>>) /\ Len(<<a, p>>) = 2 /\ <<a, p>>[1] = a /\ <<a, p>>[2] = p
        BY Instructions
      <4>5. IsSequence(seqs[v]) /\ Len(seqs[v]) = 2 /\ seqs[v][1] = a /\ seqs[v][2] = p
        BY <4>4, <4>6, Zenon
      <4>2. /\ IsSequence(seqs[v]) /\ Len(seqs[v]) = 2
            /\ seqs[v][1] = a /\ seqs[v][2] = JumpIfFalse(fail)
        BY <4>3, <4>5
      <4> QED BY <2>2, <3>5, <4>2 DEF a, t
    <3> QED BY <3>4, <3>5
  <2>3. CASE c.op = "not_in"
    <3>1. seqs[v] = CompileNotIn(c, v, start, next, fail)
      BY <1>1, <2>3
    <3>2. CompileNotIn(c, v, start, next, fail)
            = <<a, JumpIfFalse(IF v < n THEN t ELSE next), Jump(fail)>>
      BY <2>1 DEF CompileNotIn
    <3> HIDE DEF a, t, n, seqs
    <3>3. seqs[v] = <<a, JumpIfFalse(IF v < n THEN t ELSE next), Jump(fail)>>
      BY <3>1, <3>2
    <3>5. PICK p, q : p = JumpIfFalse(IF v < n THEN t ELSE next) /\ q = Jump(fail)
      OBVIOUS
    <3>6. seqs[v] = <<a, p, q>>
      BY <3>3, <3>5
    <3>8. /\ IsSequence(<<a, p, q>>) /\ Len(<<a, p, q>>) = 3
          /\ <<a, p, q>>[1] = a /\ <<a, p, q>>[2] = p /\ <<a, p, q>>[3] = q
      BY Instructions
    <3>7. IsSequence(seqs[v]) /\ Len(seqs[v]) = 3 /\ seqs[v][1] = a /\ seqs[v][2] = p /\ seqs[v][3] = q
      BY <3>6, <3>8, Zenon
    <3>4. /\ IsSequence(seqs[v]) /\ Len(seqs[v]) = 3
          /\ seqs[v][1] = a /\ seqs[v][2] = JumpIfFalse(IF v < n THEN t ELSE next) /\ seqs[v][3] = Jump(fail)
      BY <3>5, <3>7
    <3> QED BY <2>3, <3>4 DEF a, t
  <2> QED BY <2>2, <2>3
<1>5. IsSequence(seqs) /\ Len(seqs) = n
  <2>1. seqs = [v \in 1..n |-> seqs[v]]
    BY <1>1
  <2> QED BY <1>1, <2>1, LenOf
<1>6. at[0] = 0 /\ \A v \in 1..n : at[v - 1] = 3 * (v - 1)
  BY <1>1
<1> HIDE DEF seqs, code
<1>7. ASSUME NEW v \in 1..n PROVE at[v] = at[v - 1] + Len(seqs[v])
  <2>1. at[v] = IF v < n \/ c.op = "not_in" THEN 3 * v ELSE 3 * n - 1
    BY <1>1
  <2>2. at[v - 1] = 3 * (v - 1) /\ Len(seqs[v]) = (IF v < n \/ c.op = "not_in" THEN 3 ELSE 2)
    BY <1>4, <1>6
  <2>3. 3 * (v - 1) + 3 = 3 * v /\ (~(v < n) => 3 * (v - 1) + 2 = 3 * n - 1)
    BY <1>1
  <2> HIDE DEF at
  <2>4. CASE v < n \/ c.op = "not_in"
    BY <2>1, <2>2, <2>3, <2>4
  <2>5. CASE ~(v < n \/ c.op = "not_in")
    BY <2>1, <2>2, <2>3, <2>5
  <2> QED BY <2>4, <2>5
<1> HIDE DEF at
<1>8. Laid(seqs, n, at)
  BY <1>1, <1>4, <1>5, <1>6, <1>7 DEF Laid
<1>9. ASSUME NEW v \in 1..n, NEW k \in 1..Len(seqs[v]), NEW a, a = 3 * v - 2 + k
      PROVE  y[a] = seqs[v][k]
  <2>1. at[v - 1] + k \in 1..at[n] /\ code[at[v - 1] + k] = seqs[v][k]
    BY <1>2, <1>8, <1>9, FlattenAt
  <2>2. Len(code) = at[n]
    BY <1>2, <1>8, FlattenPlaces
  <2>3. at[v - 1] + k \in 1..Len(code)
    BY <2>1, <2>2
  <2>5. y[1 + (at[v - 1] + k)] = code[at[v - 1] + k]
    BY <1>3, <2>3, OneBefore
  <2>6. 1 + (at[v - 1] + k) = a
    <3>1. k \in Int
      OBVIOUS
    <3>2. 1 + (3 * (v - 1) + k) = 3 * v - 2 + k
      BY <1>1, <3>1
    <3> QED BY <1>6, <1>9, <3>2
  <2> QED BY <2>1, <2>5, <2>6
<1> HIDE DEF y
<1>10. ASSUME NEW v \in 1..n
       PROVE  /\ y[3 * v - 1] = seqs[v][1] /\ y[3 * v] = seqs[v][2]
              /\ v < n \/ c.op = "not_in" => y[3 * v + 1] = seqs[v][3]
  <2>1. 3 * v - 1 = 3 * v - 2 + 1 /\ 3 * v = 3 * v - 2 + 2 /\ 3 * v + 1 = 3 * v - 2 + 3
    BY <1>1
  <2>2. 1 \in 1..Len(seqs[v]) /\ 2 \in 1..Len(seqs[v]) /\ (v < n \/ c.op = "not_in" => 3 \in 1..Len(seqs[v]))
    BY <1>4
  <2> QED BY <1>9, <2>1, <2>2
<1>11. ListCode(y, c, start, next, fail)
  BY <1>4, <1>10 DEF ListCode
<1> QED BY <1>11 DEF y, code

\* compile_filter_rules emits them, after the load.
LEMMA ConditionInstructions ==
  ASSUME NEW c, IsCondition(c), NEW f,
         NEW start \in Nat, NEW next \in Nat, NEW fail \in Nat, next = start + CondSize(c), next <= fail
  PROVE  /\ CompileCondition(c, f, start, next, fail)[1] = LoadOpcode(f)
         /\ ConditionCode(CompileCondition(c, f, start, next, fail), c, start, next, fail)
<1> DEFINE load == LoadOpcode(f)
           in == FlattenSeq([v \in DOMAIN c.values |-> CompileIn(c, v, start, next, fail)])
           out == FlattenSeq([v \in DOMAIN c.values |-> CompileNotIn(c, v, start, next, fail)])
           m == <<Cmp("mask", c.mask, c.value), JumpIfFalse(fail)>>
           o == <<Cmp(c.op, c.value, 0), JumpIfFalse(fail)>>
           rest == CASE c.op = "in" -> in [] c.op = "not_in" -> out [] c.op = "mask" -> m [] OTHER -> o
           y == CompileCondition(c, f, start, next, fail)
           l == <<load>>
<1>1. y = l \o rest
  BY DEF CompileCondition
<1> SUFFICES y[1] = load /\ ConditionCode(y, c, start, next, fail)
  OBVIOUS
<1> HIDE DEF y, load
<1>3. CASE c.op \in {"in", "not_in"}
  <2> DEFINE code == IF c.op = "in" THEN in ELSE out
  <2>1. rest = code
    <3> HIDE DEF in, out
    <3> QED BY <1>3
  <2>2. IsSequence(code)
    BY <1>3, ListForward
  <2>3. ListCode(l \o code, c, start, next, fail)
    BY <1>3, ListInstructions
  <2> HIDE DEF code, rest
  <2>4. (l \o code)[1] = load
    BY <2>2, OneBefore
  <2> HIDE DEF l
  <2> QED BY <1>1, <1>3, <2>1, <2>3, <2>4 DEF ConditionCode
<1>4. CASE c.op \notin {"in", "not_in"}
  <2> DEFINE a == Test(c)
             b == JumpIfFalse(fail)
             r == <<a, b>>
  <2>1. rest = r
    <3> HIDE DEF in, out
    <3> QED BY <1>4 DEF Test
  <2> HIDE DEF a, b, rest
  <2>2. IsSequence(r) /\ Len(r) = 2 /\ r[1] = a /\ r[2] = b
    BY Instructions
  <2> HIDE DEF r
  <2>3. (l \o r)[1] = load /\ (l \o r)[2] = r[1] /\ (l \o r)[3] = r[2]
    <3>1. (l \o r)[1] = load /\ \A i \in 1..Len(r) : (l \o r)[1 + i] = r[i]
      BY <2>2, OneBefore
    <3>2. 1 \in 1..Len(r) /\ 2 \in 1..Len(r) /\ 1 + 1 = 2 /\ 1 + 2 = 3
      BY <2>2
    <3> HIDE DEF l
    <3>3. (l \o r)[1 + 1] = r[1] /\ (l \o r)[1 + 2] = r[2]
      BY <3>1, <3>2
    <3> QED BY <3>1, <3>2, <3>3
  <2> HIDE DEF l
  <2>4. y[2] = a /\ y[3] = b /\ y[1] = load
    BY <1>1, <2>1, <2>2, <2>3
  <2> QED BY <1>4, <2>4 DEF ConditionCode, TestCode, a, b
<1> QED BY <1>3, <1>4

\* The field of a condition.
FieldOf(s, c) == s.fields[FindField(s, c.path)]

\* The instruction that loads it, in code_be (own) and in code_le (opposite).
LoadOf(f, how) == IF how = "own" THEN LoadOpcode(f) ELSE SwapEndianOpcode(LoadOpcode(f))

\* y are the instructions of condition j in the code of a rule, whose fields are read
\* as how says.
Piece(code, s, rule, how, j, y) ==
  /\ y[1] = LoadOf(FieldOf(s, rule.conds[j]), how)
  /\ ConditionCode(y, rule.conds[j], CondStart(rule.conds, j), CondStart(rule.conds, j + 1),
                   CondStart(rule.conds, Len(rule.conds) + 1) + 1)
  /\ \A k \in 1..CondSize(rule.conds[j]) : code[CondStart(rule.conds, j) + k] = y[k]

\* The conditions one after another, then the two returns.
RuleCode(code, s, rule, how) ==
  /\ IsCode(code) /\ Len(code) = CondStart(rule.conds, Len(rule.conds) + 1) + 2
  /\ code[CondStart(rule.conds, Len(rule.conds) + 1) + 1].op = "return_true"
  /\ \A j \in 1..Len(rule.conds) : \E y : Piece(code, s, rule, how, j, y)

\* code_be is such code, with the fields' own endianness.
LEMMA RuleInstructions ==
  ASSUME NEW structs, NEW rule, IsRule(rule), Len(rule.conds) # 0
  PROVE  RuleCode(CompileRule(structs, rule).code_be, structs[TargetStruct(structs, rule)], rule, "own")
<1> DEFINE conds == rule.conds
           s == structs[TargetStruct(structs, rule)]
           n == Len(conds)
           success == CondStart(conds, n + 1)
           fail == success + 1
           piece(j) == CompileCondition(conds[j], s.fields[FindField(s, conds[j].path)],
                                        CondStart(conds, j), CondStart(conds, j + 1), fail)
           pieces == [j \in 1..n |-> piece(j)]
           yes == [op |-> "return_true"]
           no == [op |-> "return_false"]
           ends == <<yes, no>>
           u == FlattenSeq(pieces)
           code == u \o ends
           at == [j \in 0..n |-> CondStart(conds, j + 1)]
<1>1. CompileRule(structs, rule).code_be = code
  BY DEF CompileRule
<1>2. n \in Nat \ {0} /\ IsSequence(conds)
  <2>1. PICK S : conds \in Seq(S)
    BY DEF IsRule, IsSequence
  <2> QED BY <2>1, LenProperties DEF IsRule
<1>3. /\ CondStart(conds, 1) = 0
      /\ \A j \in 1..n : CondStart(conds, j + 1) = CondStart(conds, j) + CondSize(conds[j])
  BY <1>2, CondStarts
<1>4. \A j \in 1..(n + 1) :
           /\ CondStart(conds, j) \in Nat
           /\ \A k \in 1..j : CondStart(conds, k) <= CondStart(conds, j)
  BY StartsInOrder
<1>5. success \in Nat /\ fail \in Nat
  <2>1. n + 1 \in 1..(n + 1)
    BY <1>2
  <2> QED BY <1>4, <2>1
<1>6. ASSUME NEW j \in 1..n
      PROVE  /\ IsSequence(pieces[j]) /\ Len(pieces[j]) = CondSize(conds[j])
             /\ pieces[j][1] = LoadOpcode(FieldOf(s, conds[j]))
             /\ ConditionCode(pieces[j], conds[j], CondStart(conds, j), CondStart(conds, j + 1), fail)
  <2> DEFINE c == conds[j]
             f == FieldOf(s, conds[j])
             start == CondStart(conds, j)
             next == CondStart(conds, j + 1)
             z == fail
  <2>1. pieces[j] = CompileCondition(c, f, start, next, z)
    BY DEF FieldOf
  <2>2. IsCondition(c)
    BY DEF IsRule
  <2>3. j \in 1..(n + 1) /\ j + 1 \in 1..(n + 1) /\ n + 1 \in 1..(n + 1) /\ j + 1 \in 1..(n + 1)
    BY <1>2
  <2>4. start \in Nat /\ next \in Nat /\ next <= success
    BY <1>4, <2>3
  <2>5. z \in Nat /\ next <= z
    BY <1>5, <2>4
  <2>6. next = start + CondSize(c)
    BY <1>3
  <2> HIDE DEF pieces, c, f, start, next, z
  <2>7. /\ IsSequence(CompileCondition(c, f, start, next, z))
        /\ Len(CompileCondition(c, f, start, next, z)) = CondSize(c)
    BY <2>2, <2>4, <2>5, <2>6, ConditionForward
  <2>8. /\ CompileCondition(c, f, start, next, z)[1] = LoadOpcode(f)
        /\ ConditionCode(CompileCondition(c, f, start, next, z), c, start, next, z)
    BY <2>2, <2>4, <2>5, <2>6, ConditionInstructions
  <2>9. /\ IsSequence(pieces[j]) /\ Len(pieces[j]) = CondSize(c)
        /\ pieces[j][1] = LoadOpcode(f) /\ ConditionCode(pieces[j], c, start, next, z)
    BY <2>1, <2>7, <2>8
  <2> QED BY <2>9 DEF c, f, start, next, z
<1>7. IsSequence(pieces) /\ Len(pieces) = n
  BY <1>2, LenOf
<1>8. at[0] = 0 /\ at[n] = success
  <2>1. 0 \in 0..n /\ n \in 0..n /\ 0 + 1 = 1
    BY <1>2
  <2> QED BY <1>3, <2>1
<1>9. ASSUME NEW j \in 1..n PROVE at[j - 1] = CondStart(conds, j) /\ at[j] = CondStart(conds, j + 1)
  <2>1. j - 1 \in 0..n /\ j \in 0..n /\ j - 1 + 1 = j
    BY <1>2
  <2> QED BY <2>1
<1> HIDE DEF pieces, at, success, n, conds
<1>10. Laid(pieces, n, at)
  BY <1>2, <1>3, <1>6, <1>7, <1>8, <1>9 DEF Laid
<1>11. IsSequence(u) /\ Len(u) = success
  BY <1>8, <1>10, FlattenPlaces
<1>12. \A j \in 1..n : \A k \in 1..CondSize(conds[j]) :
          CondStart(conds, j) + k \in 1..success /\ u[CondStart(conds, j) + k] = pieces[j][k]
  <2>1. \A j \in 1..n : \A k \in 1..Len(pieces[j]) :
            at[j - 1] + k \in 1..at[n] /\ u[at[j - 1] + k] = pieces[j][k]
    BY <1>10, FlattenAt
  <2> QED BY <1>6, <1>8, <1>9, <2>1
<1>13. IsSequence(ends) /\ Len(ends) = 2 /\ ends[1] = yes
  BY Instructions
<1>14. yes.op = "return_true"
  OBVIOUS
<1> HIDE DEF u, ends, yes
<1>15. Len(code) = success + 2 /\ code[success + 1].op = "return_true"
  <2>1. Len(code) = Len(u) + Len(ends)
    BY <1>11, <1>13, Joined
  <2>2. code[Len(u) + 1] = ends[1]
    <3>1. 1 \in 1..Len(ends)
      BY <1>13
    <3> QED BY <1>11, <1>13, <3>1, JoinedAt
  <2> HIDE DEF code
  <2> QED BY <1>11, <1>13, <1>14, <2>1, <2>2
<1>16. \A a \in 1..success : code[a] = u[a]
  <2>1. \A a \in 1..Len(u) : (u \o ends)[a] = u[a]
    BY <1>11, <1>13, Joined
  <2> QED BY <1>11, <2>1
<1>17. IsCode(code)
  BY <1>1, RuleForward
<1> HIDE DEF code
<1>18. ASSUME NEW j \in 1..n PROVE Piece(code, s, rule, "own", j, pieces[j])
  <2>1. \A k \in 1..CondSize(conds[j]) : code[CondStart(conds, j) + k] = pieces[j][k]
    BY <1>12, <1>16
  <2>2. pieces[j][1] = LoadOf(FieldOf(s, conds[j]), "own")
    BY <1>6 DEF LoadOf
  <2>3. ConditionCode(pieces[j], conds[j], CondStart(conds, j), CondStart(conds, j + 1), success + 1)
    BY <1>6
  <2> QED BY <2>1, <2>2, <2>3 DEF Piece, conds, success, n
<1>19. RuleCode(code, s, rule, "own")
  BY <1>15, <1>17, <1>18 DEF RuleCode, conds, success, n
<1> QED BY <1>1, <1>19

\* Only loads change with the endianness.
LEMMA SwapKeeps ==
  ASSUME NEW op, NEW a, NEW b, NEW t
  PROVE  /\ SwapEndianOpcode(Cmp(op, a, b)) = Cmp(op, a, b)
         /\ SwapEndianOpcode(JumpIfFalse(t)) = JumpIfFalse(t) /\ SwapEndianOpcode(Jump(t)) = Jump(t)
BY DEF SwapEndianOpcode, Cmp, JumpIfFalse, Jump

\* code_le is such code, with the opposite endianness.
LEMMA SwappedInstructions ==
  ASSUME NEW structs, NEW rule, IsRule(rule), Len(rule.conds) # 0
  PROVE  RuleCode(CompileRule(structs, rule).code_le, structs[TargetStruct(structs, rule)], rule, "opposite")
<1> DEFINE s == structs[TargetStruct(structs, rule)]
           code == CompileRule(structs, rule).code_be
           swap == [a \in DOMAIN code |-> SwapEndianOpcode(code[a])]
           conds == rule.conds
           n == Len(conds)
           success == CondStart(conds, n + 1)
<1>1. CompileRule(structs, rule).code_le = swap
  BY DEF CompileRule
<1> SUFFICES RuleCode(swap, s, rule, "opposite")
  BY <1>1
<1>2. RuleCode(code, s, rule, "own")
  BY RuleInstructions
<1> HIDE DEF s, code
<1>3. IsSequence(code) /\ DOMAIN code = 1..Len(code) /\ Len(code) \in Nat
  BY <1>2, Joined DEF RuleCode, IsCode
<1>4. IsCode(swap)
  BY <1>2, SwappedCode DEF RuleCode
<1>5. \A a \in 1..Len(code) : swap[a] = SwapEndianOpcode(code[a])
  BY <1>3
<1>6. Len(swap) = Len(code)
  BY <1>3, LenOf
<1> HIDE DEF swap
<1>7. n \in Nat \ {0} /\ IsSequence(conds)
  <2>1. PICK S : conds \in Seq(S)
    BY DEF IsRule, IsSequence
  <2> QED BY <2>1, LenProperties DEF IsRule
<1>8. \A j \in 1..(n + 1) :
           /\ CondStart(conds, j) \in Nat
           /\ \A k \in 1..j : CondStart(conds, k) <= CondStart(conds, j)
  BY StartsInOrder
<1>9. success \in Nat /\ Len(code) = success + 2 /\ code[success + 1].op = "return_true"
  <2>1. n + 1 \in 1..(n + 1)
    BY <1>7
  <2> QED BY <1>2, <1>8, <2>1 DEF RuleCode
<1>10. swap[success + 1].op = "return_true"
  <2>1. success + 1 \in 1..Len(code)
    BY <1>9
  <2>2. swap[success + 1] = SwapEndianOpcode(code[success + 1])
    BY <1>5, <2>1
  <2> QED BY <1>9, <2>2 DEF SwapEndianOpcode
<1>11. ASSUME NEW j \in 1..n PROVE \E y : Piece(swap, s, rule, "opposite", j, y)
  <2> DEFINE c == conds[j]
             f == FieldOf(s, conds[j])
             start == CondStart(conds, j)
             next == CondStart(conds, j + 1)
             fail == success + 1
  <2>1. PICK y : Piece(code, s, rule, "own", j, y)
    BY <1>2 DEF RuleCode
  <2>2. /\ y[1] = LoadOpcode(f) /\ ConditionCode(y, c, start, next, fail)
        /\ \A k \in 1..CondSize(c) : code[start + k] = y[k]
    BY <2>1 DEF Piece, LoadOf
  <2> DEFINE w == [k \in Nat |-> SwapEndianOpcode(y[k])]
  <2>3. w[1] = LoadOf(f, "opposite")
    BY <2>2 DEF LoadOf
  <2>4. IsCondition(c)
    BY DEF IsRule
  <2>5. Len(c.values) \in Nat
    <3>1. PICK S : c.values \in Seq(S)
      BY <2>4 DEF IsCondition, IsSequence
    <3> QED BY <3>1, LenProperties
  <2>6. \A k \in Nat : w[k] = SwapEndianOpcode(y[k])
    OBVIOUS
  <2> HIDE DEF w, c, fail, start, next
  <2>7. ASSUME ListCode(y, c, start, next, fail) PROVE ListCode(w, c, start, next, fail)
    <3>1. ASSUME NEW v \in 1..Len(c.values)
          PROVE  /\ w[3 * v - 1] = SwapEndianOpcode(y[3 * v - 1]) /\ w[3 * v] = SwapEndianOpcode(y[3 * v])
                 /\ w[3 * v + 1] = SwapEndianOpcode(y[3 * v + 1])
      <4>1. 3 * v - 1 \in Nat /\ 3 * v \in Nat /\ 3 * v + 1 \in Nat
        BY <2>5
      <4> QED BY <2>6, <4>1
    <3>2. ASSUME NEW v \in 1..Len(c.values)
          PROVE  /\ w[3 * v - 1] = Cmp("eq", c.values[v], 0)
                 /\ w[3 * v] = JumpIfFalse(IF v < Len(c.values) THEN start + 3 * v + 1 ELSE IF c.op = "in" THEN fail ELSE next)
                 /\ v < Len(c.values) \/ c.op = "not_in" => w[3 * v + 1] = Jump(IF c.op = "in" THEN next ELSE fail)
      <4>1. PICK t, q : /\ t = (IF v < Len(c.values) THEN start + 3 * v + 1 ELSE IF c.op = "in" THEN fail ELSE next)
                        /\ q = (IF c.op = "in" THEN next ELSE fail)
        OBVIOUS
      <4>2. /\ y[3 * v - 1] = Cmp("eq", c.values[v], 0) /\ y[3 * v] = JumpIfFalse(t)
            /\ v < Len(c.values) \/ c.op = "not_in" => y[3 * v + 1] = Jump(q)
        BY <2>7, <4>1 DEF ListCode
      <4>3. /\ SwapEndianOpcode(Cmp("eq", c.values[v], 0)) = Cmp("eq", c.values[v], 0)
            /\ SwapEndianOpcode(JumpIfFalse(t)) = JumpIfFalse(t) /\ SwapEndianOpcode(Jump(q)) = Jump(q)
        BY SwapKeeps
      <4>4. /\ w[3 * v - 1] = Cmp("eq", c.values[v], 0) /\ w[3 * v] = JumpIfFalse(t)
            /\ v < Len(c.values) \/ c.op = "not_in" => w[3 * v + 1] = Jump(q)
        BY <3>1, <4>2, <4>3
      <4> QED BY <4>1, <4>4
    <3> QED BY <3>2 DEF ListCode
  <2>8. ASSUME TestCode(y, c, fail) PROVE TestCode(w, c, fail)
    <3>1. w[2] = SwapEndianOpcode(y[2]) /\ w[3] = SwapEndianOpcode(y[3])
      BY <2>6
    <3>2. SwapEndianOpcode(Test(c)) = Test(c)
      BY SwapKeeps DEF Test
    <3> QED BY <2>8, <3>1, <3>2, SwapKeeps DEF TestCode
  <2>9. ConditionCode(w, c, start, next, fail)
    BY <2>2, <2>7, <2>8 DEF ConditionCode
  <2>10. ASSUME NEW k \in 1..CondSize(c) PROVE swap[start + k] = w[k]
    <3>1. next = start + CondSize(c) /\ start \in Nat /\ next \in Nat /\ next <= success
      <4>1. j \in 1..(n + 1) /\ j + 1 \in 1..(n + 1) /\ n + 1 \in 1..(n + 1)
        BY <1>7
      <4>2. CondStart(conds, j + 1) = CondStart(conds, j) + CondSize(conds[j])
        BY <1>7, CondStarts
      <4> QED BY <1>8, <4>1, <4>2 DEF start, next, c
    <3>2. CondSize(c) \in Nat
      <4>1. \A a \in Nat : 3 * a \in Nat /\ 1 + 3 * a \in Nat
        OBVIOUS
      <4> QED BY <2>5, <4>1 DEF CondSize
    <3>3. start + k \in 1..Len(code) /\ k \in Nat
      BY <1>9, <3>1, <3>2
    <3> QED BY <1>5, <2>2, <2>6, <3>3
  <2>11. Piece(swap, s, rule, "opposite", j, w)
    BY <2>3, <2>9, <2>10 DEF Piece, c, f, start, next, fail
  <2> QED BY <2>11
<1> QED BY <1>4, <1>6, <1>9, <1>10, <1>11 DEF RuleCode

-----------------------------------------------------------------------------
(* What the executor makes of it. *)

\* A machine that is running at instruction ip.
Running(m) ==
  /\ m = [ip |-> m.ip, acc |-> m.acc, cmp |-> m.cmp, result |-> m.result]
  /\ m.result = "running"

\* What an instruction does to the machine m of code with n instructions.
Effects(packet, n, ins, m, z) ==
  /\ ins.op = "load" /\ ins.offset + ins.width > Len(packet) => z.result = "false"
  /\ ins.op = "load" /\ ~(ins.offset + ins.width > Len(packet)) =>
       z.result = "running" /\ z.ip = m.ip + 1 /\ z.acc = Load(packet, ins)
  /\ ins.op = "cmp" =>
       z.result = "running" /\ z.ip = m.ip + 1 /\ z.acc = m.acc /\ z.cmp = Compare(m.acc, ins)
  /\ ins.op = "jump_if_false" /\ m.cmp =>
       z.result = "running" /\ z.ip = m.ip + 1 /\ z.acc = m.acc
  /\ ((ins.op = "jump_if_false" /\ ~m.cmp) \/ ins.op = "jump") /\ ins.target \in 0..(n - 1) =>
       z.result = "running" /\ z.ip = ins.target /\ z.acc = m.acc
  /\ ins.op = "return_true" => z.result = "true"
  /\ ins.op = "return_false" => z.result = "false"

\* One turn, by the instruction.
LEMMA TurnEffects ==
  ASSUME NEW code, NEW packet, NEW m, Running(m), NEW n \in Nat, n = Len(code),
         m.ip \in 0..(n - 1), NEW ins, ins = code[m.ip + 1], NEW z, z = ExecuteIns(code, packet, m)
  PROVE  Effects(packet, n, ins, m, z)
<1> USE DEF Effects
<1> DEFINE next == [m EXCEPT !.ip = @ + 1]
<1>1. PICK a, b, c, d : a = m.ip /\ b = m.acc /\ c = m.cmp /\ d = a + 1
  OBVIOUS
<1>2. m = [ip |-> a, acc |-> b, cmp |-> c, result |-> "running"]
  BY <1>1 DEF Running
<1>3. next = [ip |-> d, acc |-> b, cmp |-> c, result |-> "running"]
  BY <1>1, <1>2
<1>4. m.result = "running" /\ ~(m.ip >= Len(code))
  BY DEF Running
<1>5. z = CASE ins.op = "load" ->
                     IF ins.offset + ins.width > Len(packet) THEN Stop(m, "false")
                     ELSE [next EXCEPT !.acc = Load(packet, ins)]
                [] ins.op = "cmp" -> [next EXCEPT !.cmp = Compare(m.acc, ins)]
                [] ins.op = "jump_if_false" ->
                     IF m.cmp THEN next ELSE JumpTo(code, m, ins.target)
                [] ins.op = "jump" -> JumpTo(code, m, ins.target)
                [] ins.op = "return_true" -> Stop(m, "true")
                [] ins.op = "return_false" -> Stop(m, "false")
  BY <1>4 DEF ExecuteIns
<1> HIDE DEF next
<1>6. \A r \in {"true", "false"} : Stop(m, r).result = r
  BY <1>2 DEF Stop
<1>7. ASSUME ins.target \in 0..(n - 1)
      PROVE  /\ JumpTo(code, m, ins.target).result = "running"
             /\ JumpTo(code, m, ins.target).ip = ins.target /\ JumpTo(code, m, ins.target).acc = m.acc
  <2> DEFINE t == ins.target
  <2>1. ~(t >= Len(code))
    BY <1>7
  <2> HIDE DEF t
  <2>2. JumpTo(code, m, t) = [ip |-> t, acc |-> b, cmp |-> c, result |-> "running"]
    BY <1>2, <2>1 DEF JumpTo
  <2>3. /\ JumpTo(code, m, t).result = "running" /\ JumpTo(code, m, t).ip = t
        /\ JumpTo(code, m, t).acc = b
    BY <2>2
  <2> QED BY <1>1, <2>3 DEF t
<1>8. CASE ins.op = "load"
  <2>1. CASE ins.offset + ins.width > Len(packet)
    BY <1>5, <1>6, <1>8, <2>1
  <2>2. CASE ~(ins.offset + ins.width > Len(packet))
    <3>1. PICK x : x = Load(packet, ins)
      OBVIOUS
    <3>2. z = [ip |-> d, acc |-> x, cmp |-> c, result |-> "running"]
      BY <1>3, <1>5, <1>8, <2>2, <3>1
    <3> QED BY <1>1, <1>8, <2>2, <3>1, <3>2
  <2> QED BY <2>1, <2>2
<1>9. CASE ins.op = "cmp"
  <2>1. PICK x : x = Compare(m.acc, ins)
    OBVIOUS
  <2>2. z = [ip |-> d, acc |-> b, cmp |-> x, result |-> "running"]
    BY <1>3, <1>5, <1>9, <2>1
  <2>3. z.result = "running" /\ z.ip = d /\ z.acc = b /\ z.cmp = x
    BY <2>2
  <2> QED BY <1>1, <1>9, <2>1, <2>3
<1>10. CASE ins.op = "jump_if_false" /\ m.cmp
  <2>1. z = next
    BY <1>5, <1>10
  <2> QED BY <1>1, <1>3, <1>10, <2>1
<1>11. CASE ins.op = "jump" \/ (ins.op = "jump_if_false" /\ ~m.cmp)
  <2>1. z = JumpTo(code, m, ins.target)
    BY <1>5, <1>11
  <2> QED BY <1>7, <1>11, <2>1
<1>12. CASE ins.op \in {"return_true", "return_false"}
  BY <1>5, <1>6, <1>12
<1> QED BY <1>8, <1>9, <1>10, <1>11, <1>12

\* What is loaded of a field, and what a condition says of it.
Got(f, e, packet) == Complement(Number(f, packet, e))
Holds(c, f, e, packet) == f.offset + Width(f) <= Len(packet) /\ Says(c, Number(f, packet, e))

\* The test of a condition is what it says, unless it orders a signed field.
LEMMA TestMeans ==
  ASSUME NEW c, c.op \in Operators \ {"in", "not_in"}, NEW num,
         c.op \in {"gt", "ge", "lt", "le"} => Complement(num) = num
  PROVE  Compare(Complement(num), Test(c)) = Says(c, num)
<1> DEFINE x == Complement(num)
<1>1. CASE c.op = "mask"
  <2>1. Test(c).cmp = "mask" /\ Test(c).operand = c.mask /\ Test(c).operand2 = c.value
    BY <1>1 DEF Test, Cmp
  <2> HIDE DEF x
  <2>2. Compare(x, Test(c)) = (BitAnd[x, c.mask] = c.value)
    BY <2>1 DEF Compare
  <2>3. Says(c, num) = (BitAnd[x, c.mask] = c.value)
    BY <1>1 DEF Says, x
  <2> QED BY <2>2, <2>3 DEF x
<1>2. CASE c.op \in {"eq", "ne"}
  <2>1. Test(c).cmp = c.op /\ Test(c).operand = c.value
    BY <1>2 DEF Test, Cmp
  <2> HIDE DEF x
  <2>2. Compare(x, Test(c)) = IF c.op = "eq" THEN x = c.value ELSE x # c.value
    BY <1>2, <2>1 DEF Compare
  <2>3. Says(c, num) = IF c.op = "eq" THEN x = c.value ELSE x # c.value
    BY <1>2 DEF Says, x
  <2> QED BY <2>2, <2>3 DEF x
<1>3. CASE c.op \in {"gt", "ge", "lt", "le"}
  <2>1. Test(c).cmp = c.op /\ Test(c).operand = c.value
    BY <1>3 DEF Test, Cmp
  <2>2. x = num
    BY <1>3
  <2> HIDE DEF x
  <2>3. Compare(num, Test(c)) = Says(c, num)
    BY <1>3, <2>1 DEF Compare, Says
  <2> QED BY <2>2, <2>3 DEF x
<1> QED BY <1>1, <1>2, <1>3 DEF Operators

\* A test of which b is the result.
Compared(m, b) == m.cmp <=> b

\* Before value v of a list: x is none of those before it, after the comparison the
\* result is known, and only a hit comes to the jump.
InList(c, x, k, m) ==
  \E v \in 1..Len(c.values) :
     /\ \A u \in 1..(v - 1) : x # c.values[u]
     /\ \/ k = 3 * v - 1
        \/ k = 3 * v /\ Compared(m, x = c.values[v])
        \/ k = 3 * v + 1 /\ x = c.values[v] /\ (v < Len(c.values) \/ c.op = "not_in")

InTest(c, num, k, m) == k = 2 \/ (k = 3 /\ Compared(m, Says(c, num)))

\* The machine before instruction k of a condition.
Inside(c, f, e, packet, k, m) ==
  \/ k = 1
  \/ /\ f.offset + Width(f) <= Len(packet) /\ m.acc = Got(f, e, packet)
     /\ c.op \in {"in", "not_in"} => InList(c, Got(f, e, packet), k, m)
     /\ c.op \notin {"in", "not_in"} => InTest(c, Number(f, packet, e), k, m)

\* The instructions y of a condition are in the code at the address start.
Placed(code, y, c, f, e, start, next, fail) ==
  /\ IsCondition(c) /\ f.offset \in Nat /\ f.size \in Nat /\ Loads(y[1], f, e)
  /\ c.op \in {"gt", "ge", "lt", "le"} => f.type # "int"
  /\ start \in Nat /\ next \in Nat /\ fail \in Nat /\ Len(code) \in Nat
  /\ CondSize(c) \in Nat /\ next = start + CondSize(c) /\ next <= fail /\ fail < Len(code)
  /\ ConditionCode(y, c, start, next, fail)
  /\ \A k \in 1..CondSize(c) : code[start + k] = y[k]

\* Where a turn on one of them leads.
Leads(c, f, e, packet, start, next, fail, z) ==
  \/ z.result = "false" /\ ~Holds(c, f, e, packet)
  \/ z.result = "running" /\ z.ip = fail /\ ~Holds(c, f, e, packet)
  \/ z.result = "running" /\ z.ip = next /\ Holds(c, f, e, packet)
  \/ z.result = "running" /\ \E k \in 1..CondSize(c) : z.ip = start + k - 1 /\ Inside(c, f, e, packet, k, z)

\* The load.
LEMMA LoadTurn ==
  ASSUME NEW packet \in Seq(Byte), NEW code, NEW y, NEW c, NEW f, NEW e, NEW start, NEW next, NEW fail,
         Placed(code, y, c, f, e, start, next, fail),
         NEW m, Running(m), m.ip = start, NEW z, z = ExecuteIns(code, packet, m)
  PROVE  Leads(c, f, e, packet, start, next, fail, z)
<1> DEFINE ins == y[1]
           n == Len(code)
<1>1. /\ IsCondition(c) /\ f.offset \in Nat /\ f.size \in Nat /\ Loads(ins, f, e)
      /\ start \in Nat /\ next \in Nat /\ fail \in Nat /\ n \in Nat
      /\ CondSize(c) \in Nat /\ next = start + CondSize(c) /\ next <= fail /\ fail < n
      /\ \A k \in 1..CondSize(c) : code[start + k] = y[k]
  BY Zenon DEF Placed
<1>2. Len(c.values) \in Nat /\ (c.op \in {"in", "not_in"} => Len(c.values) # 0)
  BY <1>1, Joined DEF IsCondition
<1>3. CondSize(c) >= 3
  BY <1>2 DEF CondSize
<1>4. code[m.ip + 1] = ins /\ m.ip \in 0..(n - 1)
  BY <1>1, <1>3
<1>5. ins.op = "load" /\ ins.width = Width(f) /\ ins.offset = f.offset
  BY <1>1 DEF Loads
<1>6. Len(packet) \in Nat /\ Width(f) \in Nat
  BY <1>1, LenProperties DEF Width
<1> HIDE DEF ins, n
<1>7. /\ ins.offset + ins.width > Len(packet) => z.result = "false"
      /\ ~(ins.offset + ins.width > Len(packet)) =>
              z.result = "running" /\ z.ip = m.ip + 1 /\ z.acc = Load(packet, ins)
  <2>1. Effects(packet, n, ins, m, z)
    BY <1>1, <1>4, TurnEffects DEF n
  <2> QED BY <1>5, <2>1 DEF Effects
<1>8. CASE ins.offset + ins.width > Len(packet)
  <2>1. ~(f.offset + Width(f) <= Len(packet))
    BY <1>1, <1>5, <1>6, <1>8
  <2> QED BY <1>7, <1>8, <2>1 DEF Leads, Holds
<1>9. CASE ~(ins.offset + ins.width > Len(packet))
  <2>1. f.offset + Width(f) <= Len(packet)
    BY <1>1, <1>5, <1>6, <1>9
  <2>2. Load(packet, ins) = Got(f, e, packet)
    BY <1>1, <2>1, LoadMeans DEF Got
  <2>3. z.result = "running" /\ z.ip = start + 2 - 1 /\ z.acc = Got(f, e, packet)
    <3>1. start + 1 = start + 2 - 1
      BY <1>1
    <3> QED BY <1>7, <1>9, <2>2, <3>1
  <2>4. Inside(c, f, e, packet, 2, z)
    <3>1. ASSUME c.op \in {"in", "not_in"} PROVE InList(c, Got(f, e, packet), 2, z)
      <4>1. 1 \in 1..Len(c.values) /\ 2 = 3 * 1 - 1 /\ 1..(1 - 1) = {}
        BY <1>2, <3>1
      <4> QED BY <4>1 DEF InList
    <3> QED BY <2>1, <2>3, <3>1 DEF Inside, InTest
  <2>5. 2 \in 1..CondSize(c)
    BY <1>1, <1>3
  <2> QED BY <2>3, <2>4, <2>5 DEF Leads
<1> QED BY <1>8, <1>9

\* The test of a condition without a list.
LEMMA TestTurn ==
  ASSUME NEW packet \in Seq(Byte), NEW code, NEW y, NEW c, NEW f, NEW e, NEW start, NEW next, NEW fail,
         Placed(code, y, c, f, e, start, next, fail), c.op \notin {"in", "not_in"},
         NEW m, Running(m), NEW k \in {2, 3}, m.ip = start + k - 1,
         f.offset + Width(f) <= Len(packet), m.acc = Got(f, e, packet), InTest(c, Number(f, packet, e), k, m),
         NEW z, z = ExecuteIns(code, packet, m)
  PROVE  Leads(c, f, e, packet, start, next, fail, z)
<1> DEFINE n == Len(code)
           num == Number(f, packet, e)
<1>1. /\ IsCondition(c) /\ f.offset \in Nat /\ f.size \in Nat /\ Loads(y[1], f, e)
      /\ start \in Nat /\ next \in Nat /\ fail \in Nat /\ n \in Nat
      /\ next = start + CondSize(c) /\ next <= fail /\ fail < n
      /\ \A i \in 1..CondSize(c) : code[start + i] = y[i]
      /\ TestCode(y, c, fail)
      /\ c.op \in {"gt", "ge", "lt", "le"} => f.type # "int"
  BY DEF Placed, ConditionCode
<1>2. CondSize(c) = 3
  BY DEF CondSize
<1>3. code[m.ip + 1] = y[k] /\ m.ip \in 0..(n - 1)
  <2>1. start + k - 1 + 1 = start + k /\ k \in 1..3
    BY <1>1
  <2> QED BY <1>1, <1>2, <2>1
<1>4. Effects(packet, n, y[k], m, z)
  BY <1>1, <1>3, TurnEffects
<1> HIDE DEF n
<1>5. CASE k = 2
  <2>1. y[2] = Test(c) /\ Test(c).op = "cmp"
    BY <1>1 DEF TestCode, Test, Cmp
  <2>2. z.result = "running" /\ z.ip = m.ip + 1 /\ z.acc = m.acc /\ z.cmp = Compare(m.acc, Test(c))
    BY <1>4, <1>5, <2>1 DEF Effects
  <2>3. c.op \in {"gt", "ge", "lt", "le"} => Complement(num) = num
    <3>1. f.type # "int" => Complement(num) = num
      <4>1. /\ Load(packet, y[1]) = Complement(num)
            /\ f.type # "int" => Load(packet, y[1]) = num
        BY <1>1, LoadMeans
      <4> HIDE DEF num
      <4> QED BY <4>1
    <3> QED BY <1>1, <3>1
  <2>4. c.op \in Operators \ {"in", "not_in"}
    BY <1>1 DEF IsCondition
  <2> HIDE DEF num
  <2>5. Compare(Complement(num), Test(c)) = Says(c, num)
    BY <2>3, <2>4, TestMeans
  <2>6. z.cmp = Says(c, num)
    BY <2>2, <2>5 DEF Got, num
  <2>8. Compared(z, Says(c, num))
    <3>1. z.cmp <=> Says(c, num)
      BY <2>6, Zenon
    <3> QED BY <3>1, Zenon DEF Compared
  <2>9. Inside(c, f, e, packet, 3, z)
    BY <2>2, <2>8 DEF Inside, InTest, num
  <2>10. z.ip = start + 3 - 1 /\ 3 \in 1..CondSize(c)
    BY <1>1, <1>2, <1>5, <2>2
  <2> QED BY <2>2, <2>9, <2>10 DEF Leads
<1>6. CASE k = 3
  <2>1. y[3].op = "jump_if_false" /\ y[3].target = fail
    BY <1>1 DEF TestCode, JumpIfFalse
  <2>2. Compared(m, Says(c, num))
    BY <1>6 DEF InTest
  <2>3. CASE m.cmp /\ Says(c, num)
    <3>1. z.result = "running" /\ z.ip = m.ip + 1
      BY <1>4, <1>6, <2>1, <2>3 DEF Effects
    <3>2. z.ip = next
      BY <1>1, <1>2, <1>6, <3>1
    <3> QED BY <2>3, <3>1, <3>2 DEF Leads, Holds
  <2>4. CASE ~m.cmp /\ ~Says(c, num)
    <3>1. fail \in 0..(n - 1)
      BY <1>1
    <3>2. z.result = "running" /\ z.ip = fail
      BY <1>4, <1>6, <2>1, <2>4, <3>1 DEF Effects
    <3> QED BY <2>4, <3>2 DEF Leads, Holds
  <2> QED BY <2>2, <2>3, <2>4, Zenon DEF Compared
<1> QED BY <1>5, <1>6

\* The values of a list.
LEMMA ListTurn ==
  ASSUME NEW packet \in Seq(Byte), NEW code, NEW y, NEW c, NEW f, NEW e, NEW start, NEW next, NEW fail,
         Placed(code, y, c, f, e, start, next, fail), c.op \in {"in", "not_in"},
         NEW m, Running(m), NEW k \in 1..CondSize(c), m.ip = start + k - 1,
         f.offset + Width(f) <= Len(packet), m.acc = Got(f, e, packet), InList(c, Got(f, e, packet), k, m),
         NEW z, z = ExecuteIns(code, packet, m)
  PROVE  Leads(c, f, e, packet, start, next, fail, z)
<1> DEFINE n == Len(code)
           x == Got(f, e, packet)
           len == Len(c.values)
<1>1. /\ IsCondition(c)
      /\ start \in Nat /\ next \in Nat /\ fail \in Nat /\ n \in Nat
      /\ CondSize(c) \in Nat /\ next = start + CondSize(c) /\ next <= fail /\ fail < n
      /\ \A i \in 1..CondSize(c) : code[start + i] = y[i]
      /\ ListCode(y, c, start, next, fail)
  BY Zenon DEF Placed, ConditionCode
<1>2. len \in Nat /\ len # 0 /\ DOMAIN c.values = 1..len
  BY <1>1, Joined DEF IsCondition
<1>3. code[m.ip + 1] = y[k] /\ m.ip \in 0..(n - 1)
  <2>1. start + k - 1 + 1 = start + k /\ start + k - 1 \in 0..(n - 1)
    BY <1>1
  <2> QED BY <1>1, <2>1
<1>4. Effects(packet, n, y[k], m, z)
  BY <1>1, <1>3, TurnEffects
<1>5. CondSize(c) = IF c.op = "in" THEN 3 * len ELSE 1 + 3 * len
  BY DEF CondSize
<1>6. Holds(c, f, e, packet) <=> IF c.op = "in" THEN \E i \in 1..len : x = c.values[i]
                                ELSE \A i \in 1..len : x # c.values[i]
  BY <1>2 DEF Holds, Says, Got
<1>7. fail \in 0..(n - 1) /\ next \in 0..(n - 1)
  BY <1>1
<1>8. PICK v \in 1..len :
        /\ \A u \in 1..(v - 1) : x # c.values[u]
        /\ \/ k = 3 * v - 1
           \/ k = 3 * v /\ Compared(m, x = c.values[v])
           \/ k = 3 * v + 1 /\ x = c.values[v] /\ (v < len \/ c.op = "not_in")
  BY DEF InList
<1>9. PICK t, q : /\ t = (IF v < len THEN start + 3 * v + 1 ELSE IF c.op = "in" THEN fail ELSE next)
                  /\ q = (IF c.op = "in" THEN next ELSE fail)
  OBVIOUS
<1>10. /\ y[3 * v - 1] = Cmp("eq", c.values[v], 0) /\ y[3 * v] = JumpIfFalse(t)
       /\ v < len \/ c.op = "not_in" => y[3 * v + 1] = Jump(q)
  BY <1>1, <1>9 DEF ListCode
<1> HIDE DEF n, len, x
<1>11. ASSUME NEW l \in 1..CondSize(c), z.result = "running", z.ip = start + l - 1, z.acc = m.acc, InList(c, x, l, z)
       PROVE  Leads(c, f, e, packet, start, next, fail, z)
  <2>1. Inside(c, f, e, packet, l, z)
    BY <1>11 DEF Inside, x
  <2> QED BY <1>11, <2>1 DEF Leads
<1>12. CASE k = 3 * v - 1
  <2>1. Cmp("eq", c.values[v], 0).op = "cmp" /\ Cmp("eq", c.values[v], 0).cmp = "eq"
        /\ Cmp("eq", c.values[v], 0).operand = c.values[v]
    BY DEF Cmp
  <2> DEFINE ins == Cmp("eq", c.values[v], 0)
  <2> HIDE DEF ins
  <2>2. z.result = "running" /\ z.ip = m.ip + 1 /\ z.acc = m.acc /\ z.cmp = Compare(m.acc, ins)
    BY <1>4, <1>10, <1>12, <2>1 DEF Effects, ins
  <2>3. Compare(m.acc, ins) = (x = c.values[v])
    BY <2>1 DEF Compare, ins, x
  <2>4. Compared(z, x = c.values[v])
    <3>1. z.cmp = (x = c.values[v])
      BY <2>2, <2>3
    <3>2. z.cmp <=> (x = c.values[v])
      BY <3>1, Zenon
    <3> QED BY <3>2, Zenon DEF Compared
  <2>5. 3 * v \in 1..CondSize(c) /\ z.ip = start + 3 * v - 1
    <3>1. v \in Nat /\ v >= 1 /\ v <= len
      BY <1>2
    <3> QED BY <1>1, <1>2, <1>5, <1>12, <2>2, <3>1
  <2>6. InList(c, x, 3 * v, z)
    BY <1>8, <2>4, Zenon DEF InList, len
  <2> QED BY <1>11, <2>2, <2>5, <2>6
<1>13. CASE k = 3 * v /\ Compared(m, x = c.values[v])
  <2>1. y[k].op = "jump_if_false" /\ y[k].target = t
    BY <1>10, <1>13 DEF JumpIfFalse
  <2>2. CASE m.cmp /\ x = c.values[v]
    <3>1. z.result = "running" /\ z.ip = m.ip + 1 /\ z.acc = m.acc
      BY <1>4, <2>1, <2>2 DEF Effects
    <3>2. CASE v < len \/ c.op = "not_in"
      <4>1. 3 * v + 1 \in 1..CondSize(c) /\ z.ip = start + (3 * v + 1) - 1
        <5>1. v \in Nat /\ v >= 1 /\ v <= len
          BY <1>2
        <5> QED BY <1>1, <1>2, <1>5, <1>13, <3>1, <3>2, <5>1
      <4>2. InList(c, x, 3 * v + 1, z)
        BY <1>8, <2>2, <3>2 DEF InList, len
      <4> QED BY <1>11, <3>1, <4>1, <4>2
    <3>3. CASE ~(v < len \/ c.op = "not_in")
      <4>1. v = len /\ c.op = "in"
        BY <1>2, <3>3
      <4>2. z.ip = next
        BY <1>1, <1>2, <1>5, <1>13, <3>1, <4>1
      <4>3. Holds(c, f, e, packet)
        BY <1>6, <2>2, <4>1
      <4> QED BY <3>1, <4>2, <4>3 DEF Leads
    <3> QED BY <3>2, <3>3
  <2>3. CASE ~m.cmp /\ x # c.values[v]
    <3>0. \A u \in 1..v : x # c.values[u]
      <4>1. \A u \in 1..v : u \in 1..(v - 1) \/ u = v
        BY <1>2
      <4> QED BY <1>8, <2>3, <4>1
    <3>1. CASE v < len
      <4>1. t = start + 3 * v + 1 /\ t \in 0..(n - 1)
        BY <1>1, <1>2, <1>5, <1>9, <3>1
      <4>2. z.result = "running" /\ z.ip = t /\ z.acc = m.acc
        BY <1>4, <2>1, <2>3, <4>1 DEF Effects
      <4>3. /\ 3 * (v + 1) - 1 \in 1..CondSize(c) /\ z.ip = start + (3 * (v + 1) - 1) - 1
            /\ v + 1 \in 1..len /\ v + 1 - 1 = v
        BY <1>1, <1>2, <1>5, <3>1, <4>1, <4>2
      <4>4. InList(c, x, 3 * (v + 1) - 1, z)
        <5> DEFINE w == v + 1
        <5>1. w \in 1..len /\ \A u \in 1..(w - 1) : x # c.values[u]
          BY <3>0, <4>3
        <5> HIDE DEF w
        <5>2. InList(c, x, 3 * w - 1, z)
          BY <5>1 DEF InList, len
        <5> QED BY <5>2 DEF w
      <4> QED BY <1>11, <4>2, <4>3, <4>4
    <3>2. CASE ~(v < len)
      <4>1. v = len /\ t = IF c.op = "in" THEN fail ELSE next
        BY <1>2, <1>9, <3>2
      <4>2. t \in 0..(n - 1)
        BY <1>7, <4>1
      <4>3. z.result = "running" /\ z.ip = t
        BY <1>4, <2>1, <2>3, <4>2 DEF Effects
      <4>4. Holds(c, f, e, packet) <=> c.op # "in"
        BY <1>6, <3>0, <4>1
      <4> QED BY <4>1, <4>3, <4>4 DEF Leads
    <3> QED BY <3>1, <3>2
  <2> QED BY <1>13, <2>2, <2>3, Zenon DEF Compared
<1>14. CASE k = 3 * v + 1 /\ x = c.values[v] /\ (v < len \/ c.op = "not_in")
  <2>1. y[k].op = "jump" /\ y[k].target = q
    BY <1>10, <1>14 DEF Jump
  <2>2. q \in 0..(n - 1)
    BY <1>7, <1>9
  <2>3. z.result = "running" /\ z.ip = q
    BY <1>4, <2>1, <2>2 DEF Effects
  <2>4. Holds(c, f, e, packet) <=> c.op = "in"
    BY <1>6, <1>14
  <2> QED BY <1>9, <2>3, <2>4 DEF Leads
<1> QED BY <1>8, <1>12, <1>13, <1>14

\* One turn in a condition.
LEMMA ConditionTurn ==
  ASSUME NEW packet \in Seq(Byte), NEW code, NEW y, NEW c, NEW f, NEW e, NEW start, NEW next, NEW fail,
         Placed(code, y, c, f, e, start, next, fail),
         NEW m, Running(m), NEW k \in 1..CondSize(c), m.ip = start + k - 1, Inside(c, f, e, packet, k, m),
         NEW z, z = ExecuteIns(code, packet, m)
  PROVE  Leads(c, f, e, packet, start, next, fail, z)
<1>1. CASE k = 1
  <2>1. m.ip = start
    BY <1>1 DEF Placed
  <2> QED BY <2>1, LoadTurn
<1>2. CASE k # 1 /\ c.op \in {"in", "not_in"}
  <2>1. f.offset + Width(f) <= Len(packet) /\ m.acc = Got(f, e, packet) /\ InList(c, Got(f, e, packet), k, m)
    BY <1>2 DEF Inside
  <2> QED BY <1>2, <2>1, ListTurn
<1>3. CASE k # 1 /\ c.op \notin {"in", "not_in"}
  <2>1. /\ f.offset + Width(f) <= Len(packet) /\ m.acc = Got(f, e, packet)
        /\ InTest(c, Number(f, packet, e), k, m)
    BY <1>3 DEF Inside
  <2>2. k \in {2, 3}
    BY <2>1 DEF InTest
  <2> QED BY <1>3, <2>1, <2>2, TestTurn
<1> QED BY <1>1, <1>2, <1>3

\* Condition j of a rule holds of a packet whose fields are read as how says.
CondHolds(s, rule, how, packet, j) ==
  Holds(rule.conds[j], FieldOf(s, rule.conds[j]), Reading(FieldOf(s, rule.conds[j]), how), packet)
AllHold(s, rule, how, packet) == \A j \in 1..Len(rule.conds) : CondHolds(s, rule, how, packet, j)

\* The machine is in condition j, and those before it hold.
InCondition(s, rule, how, packet, j, m) ==
  /\ \A h \in 1..(j - 1) : CondHolds(s, rule, how, packet, h)
  /\ \E k \in 1..CondSize(rule.conds[j]) :
        /\ m.ip = CondStart(rule.conds, j) + k - 1
        /\ Inside(rule.conds[j], FieldOf(s, rule.conds[j]), Reading(FieldOf(s, rule.conds[j]), how), packet, k, m)

\* The machine knows no more than it has tested: at the return of true all conditions
\* hold, at that of false some do not.
Tested(s, rule, how, packet, m) ==
  /\ m.result = "true" => AllHold(s, rule, how, packet)
  /\ m.result = "false" => ~AllHold(s, rule, how, packet)
  /\ m.result = "running" =>
       \/ m.ip = CondStart(rule.conds, Len(rule.conds) + 1) /\ AllHold(s, rule, how, packet)
       \/ m.ip = CondStart(rule.conds, Len(rule.conds) + 1) + 1 /\ ~AllHold(s, rule, how, packet)
       \/ \E j \in 1..Len(rule.conds) : InCondition(s, rule, how, packet, j, m)

\* A rule whose fields have a place and a size, and that orders no signed field.
Plain(s, rule) ==
  \A j \in 1..Len(rule.conds) :
     /\ FieldOf(s, rule.conds[j]).offset \in Nat /\ FieldOf(s, rule.conds[j]).size \in Nat
     /\ rule.conds[j].op \in {"gt", "ge", "lt", "le"} => FieldOf(s, rule.conds[j]).type # "int"

\* The conditions of a rule, as ConditionTurn needs them.
LEMMA PiecePlaced ==
  ASSUME NEW code, NEW s, NEW rule, NEW how \in {"own", "opposite"},
         IsRule(rule), Len(rule.conds) # 0, RuleCode(code, s, rule, how), Plain(s, rule),
         NEW j \in 1..Len(rule.conds)
  PROVE  \E y : Placed(code, y, rule.conds[j], FieldOf(s, rule.conds[j]),
                       Reading(FieldOf(s, rule.conds[j]), how), CondStart(rule.conds, j),
                       CondStart(rule.conds, j + 1), CondStart(rule.conds, Len(rule.conds) + 1) + 1)
<1> DEFINE conds == rule.conds
           n == Len(conds)
           c == conds[j]
           f == FieldOf(s, conds[j])
           e == Reading(f, how)
           start == CondStart(conds, j)
           next == CondStart(conds, j + 1)
           success == CondStart(conds, n + 1)
           fail == success + 1
<1>1. n \in Nat \ {0} /\ IsSequence(conds)
  BY Joined DEF IsRule
<1>2. next = start + CondSize(c)
  BY <1>1, CondStarts
<1>3. start \in Nat /\ next \in Nat /\ success \in Nat /\ next <= success
  <2>1. \A i \in 1..(n + 1) :
           /\ CondStart(conds, i) \in Nat
           /\ \A k \in 1..i : CondStart(conds, k) <= CondStart(conds, i)
    BY StartsInOrder
  <2>2. j \in 1..(n + 1) /\ j + 1 \in 1..(n + 1) /\ n + 1 \in 1..(n + 1)
    BY <1>1
  <2> QED BY <2>1, <2>2
<1>4. PICK y : Piece(code, s, rule, how, j, y)
  BY DEF RuleCode
<1>5. /\ y[1] = LoadOf(f, how) /\ ConditionCode(y, c, start, next, fail)
      /\ \A k \in 1..CondSize(c) : code[start + k] = y[k]
  BY <1>4, Zenon DEF Piece
<1>6. Loads(y[1], f, e)
  BY <1>5, OpcodeLoads DEF LoadOf
<1>7. IsCondition(c) /\ CondSize(c) \in Nat
  <2>1. IsCondition(c)
    BY DEF IsRule
  <2>2. Len(c.values) \in Nat
    BY <2>1, Joined DEF IsCondition
  <2>3. \A a \in Nat : 3 * a \in Nat /\ 1 + 3 * a \in Nat
    OBVIOUS
  <2> QED BY <2>1, <2>2, <2>3 DEF CondSize
<1>8. f.offset \in Nat /\ f.size \in Nat /\ (c.op \in {"gt", "ge", "lt", "le"} => f.type # "int")
  BY DEF Plain
<1>9. Len(code) = success + 2
  BY DEF RuleCode
<1>10. fail \in Nat /\ Len(code) \in Nat /\ next <= fail /\ fail < Len(code)
  BY <1>3, <1>9
<1> HIDE DEF c, f, e, start, next, success, fail
<1>11. Placed(code, y, c, f, e, start, next, fail)
  BY <1>2, <1>3, <1>5, <1>6, <1>7, <1>8, <1>10, Zenon DEF Placed
<1> QED BY <1>11 DEF c, f, e, start, next, success, fail

\* One turn keeps that.
LEMMA RuleTurn ==
  ASSUME NEW code, NEW s, NEW rule, NEW how \in {"own", "opposite"}, NEW packet \in Seq(Byte),
         IsRule(rule), Len(rule.conds) # 0, RuleCode(code, s, rule, how), Plain(s, rule),
         NEW m, m = [ip |-> m.ip, acc |-> m.acc, cmp |-> m.cmp, result |-> m.result],
         m.result \in {"running", "true", "false"},
         Tested(s, rule, how, packet, m), NEW z, z = ExecuteIns(code, packet, m)
  PROVE  Tested(s, rule, how, packet, z)
<1> DEFINE conds == rule.conds
           n == Len(conds)
           success == CondStart(conds, n + 1)
           H(j) == CondHolds(s, rule, how, packet, j)
           All == AllHold(s, rule, how, packet)
<1>1. n \in Nat \ {0} /\ IsSequence(conds)
  BY Joined DEF IsRule
<1>2. success \in Nat
  <2>1. n + 1 \in 1..(n + 1)
    BY <1>1
  <2> QED BY <2>1, StartsInOrder
<1>3. /\ Len(code) = success + 2 /\ code[success + 1].op = "return_true"
      /\ code[success + 2].op = "return_false"
  BY DEF RuleCode, IsCode
<1>4. CASE m.result # "running"
  <2>1. z = m
    BY <1>4 DEF ExecuteIns
  <2> QED BY <2>1
<1>5. CASE m.result = "running"
  <2>0. Running(m)
    BY <1>5 DEF Running
  <2>1. CASE m.ip = success /\ All
    <3>1. success \in 0..(success + 2 - 1) /\ success + 2 \in Nat
      BY <1>2
    <3>2. Effects(packet, success + 2, code[success + 1], m, z)
      BY <1>3, <2>0, <2>1, <3>1, TurnEffects
    <3>3. z.result = "true"
      BY <1>3, <3>2 DEF Effects
    <3> QED BY <2>1, <3>3 DEF Tested
  <2>2. CASE m.ip = success + 1 /\ ~All
    <3>1. success + 1 \in 0..(success + 2 - 1) /\ success + 2 \in Nat /\ success + 1 + 1 = success + 2
      BY <1>2
    <3>2. Effects(packet, success + 2, code[success + 2], m, z)
      BY <1>3, <2>0, <2>2, <3>1, TurnEffects
    <3>3. z.result = "false"
      BY <1>3, <3>2 DEF Effects
    <3> QED BY <2>2, <3>3 DEF Tested
  <2>3. ASSUME NEW j \in 1..n, InCondition(s, rule, how, packet, j, m) PROVE Tested(s, rule, how, packet, z)
    <3> DEFINE c == conds[j]
               f == FieldOf(s, conds[j])
               e == Reading(f, how)
               start == CondStart(conds, j)
               next == CondStart(conds, j + 1)
               fail == success + 1
    <3>1. PICK y : Placed(code, y, c, f, e, start, next, fail)
      BY PiecePlaced
    <3>2. PICK k \in 1..CondSize(c) : m.ip = start + k - 1 /\ Inside(c, f, e, packet, k, m)
      BY <2>3 DEF InCondition
    <3>3. \A h \in 1..(j - 1) : H(h)
      BY <2>3 DEF InCondition
    <3>4. Leads(c, f, e, packet, start, next, fail, z)
      <4> HIDE DEF c, f, e, start, next, fail
      <4> QED BY <2>0, <3>1, <3>2, ConditionTurn
    <3>5. H(j) <=> Holds(c, f, e, packet)
      BY DEF CondHolds
    <3>6. All <=> \A h \in 1..n : H(h)
      BY DEF AllHold
    <3> HIDE DEF H, All
    <3>7. CASE z.result = "false" /\ ~Holds(c, f, e, packet)
      BY <3>5, <3>6, <3>7 DEF Tested, All
    <3>8. CASE z.result = "running" /\ z.ip = fail /\ ~Holds(c, f, e, packet)
      BY <3>5, <3>6, <3>8 DEF Tested, All
    <3>9. CASE z.result = "running" /\ z.ip = next /\ Holds(c, f, e, packet)
      <4>1. \A h \in 1..j : H(h)
        <5>1. \A h \in 1..j : h \in 1..(j - 1) \/ h = j
          BY <1>1
        <5> QED BY <3>3, <3>5, <3>9, <5>1
      <4>2. CASE j = n
        <5>1. All /\ z.ip = success
          BY <3>6, <3>9, <4>1, <4>2
        <5> QED BY <3>9, <5>1 DEF Tested, All
      <4>3. CASE j # n
        <5> DEFINE i == j + 1
                   d == conds[i]
        <5>1. i \in 1..n /\ i - 1 = j
          BY <1>1, <4>3
        <5>2. 1 \in 1..CondSize(d)
          <6>1. IsCondition(d)
            BY <5>1 DEF IsRule
          <6>2. Len(d.values) \in Nat /\ (d.op \in {"in", "not_in"} => Len(d.values) # 0)
            BY <6>1, Joined DEF IsCondition
          <6> QED BY <6>2 DEF CondSize
        <5>3. CondStart(conds, i) \in Nat
          <6>1. i \in 1..(n + 1)
            BY <1>1, <5>1
          <6> QED BY <6>1, StartsInOrder
        <5>4. z.ip = CondStart(conds, i) + 1 - 1
          BY <3>9, <5>3
        <5>5. Inside(d, FieldOf(s, d), Reading(FieldOf(s, d), how), packet, 1, z)
          BY DEF Inside
        <5>6. \A h \in 1..(i - 1) : CondHolds(s, rule, how, packet, h)
          BY <4>1, <5>1 DEF H
        <5> HIDE DEF i
        <5>7. InCondition(s, rule, how, packet, i, z)
          BY <5>2, <5>4, <5>5, <5>6 DEF InCondition
        <5> QED BY <3>9, <5>1, <5>7 DEF Tested
      <4> QED BY <4>2, <4>3
    <3>10. ASSUME z.result = "running",
                  NEW l \in 1..CondSize(c), z.ip = start + l - 1, Inside(c, f, e, packet, l, z)
           PROVE  Tested(s, rule, how, packet, z)
      <4>1. InCondition(s, rule, how, packet, j, z)
        BY <3>3, <3>10 DEF InCondition, H
      <4> QED BY <3>10, <4>1 DEF Tested
    <3> QED BY <3>4, <3>7, <3>8, <3>9, <3>10 DEF Leads
  <2> QED BY <1>5, <2>1, <2>2, <2>3 DEF Tested
<1> QED BY <1>4, <1>5

\* The code of a rule accepts a packet exactly when all conditions hold.
LEMMA RuleMeans ==
  ASSUME NEW code, NEW s, NEW rule, NEW how \in {"own", "opposite"}, NEW packet \in Seq(Byte),
         IsRule(rule), Len(rule.conds) # 0, RuleCode(code, s, rule, how), Plain(s, rule)
  PROVE  /\ Execute(code, packet) = "true" => AllHold(s, rule, how, packet)
         /\ Execute(code, packet) = "false" => ~AllHold(s, rule, how, packet)
         /\ Execute(code, packet) \in {"true", "false"}
<1>0. IsCode(code)
  BY DEF RuleCode
<1>1. PICK n \in Nat : n = Len(code)
  BY <1>0, Joined DEF IsCode
<1>2. PICK st : Traced(code, packet, n, st)
  BY <1>1, ExecuteStates
<1>3. /\ st[0] = Started
      /\ \A i \in 1..n : st[i] = ExecuteIns(code, packet, st[i - 1])
      /\ Executed(code, packet) = st[n]
  BY <1>2 DEF Traced
<1> DEFINE Good(i) == Runs(st[i], i, n) /\ Tested(s, rule, how, packet, st[i])
           T == {i \in 0..n : ~Good(i)}
<1>4. Good(0)
  <2>1. n # 0 /\ 0 \in 0..(n - 1)
    BY <1>0, <1>1 DEF IsCode
  <2>2. /\ Started.ip = 0 /\ Started.result = "running"
        /\ Started = [ip |-> Started.ip, acc |-> Started.acc, cmp |-> Started.cmp, result |-> Started.result]
    BY DEF Started
  <2>3. Runs(Started, 0, n)
    BY <2>1, <2>2 DEF Runs
  <2>4. IsSequence(rule.conds) /\ Len(rule.conds) \in Nat \ {0}
    BY Joined DEF IsRule
  <2>5. CondStart(rule.conds, 1) = 0 /\ 1 \in 1..Len(rule.conds)
    BY <2>4, CondStarts
  <2>6. 1 \in 1..CondSize(rule.conds[1])
    <3> DEFINE d == rule.conds[1]
    <3>1. IsCondition(d)
      BY <2>5 DEF IsRule
    <3>2. Len(d.values) \in Nat /\ (d.op \in {"in", "not_in"} => Len(d.values) # 0)
      BY <3>1, Joined DEF IsCondition
    <3> QED BY <3>2 DEF CondSize
  <2>7. InCondition(s, rule, how, packet, 1, Started)
    <3>1. Started.ip = CondStart(rule.conds, 1) + 1 - 1
      BY <2>2, <2>5
    <3>2. 1..(1 - 1) = {}
      OBVIOUS
    <3> QED BY <2>6, <3>1, <3>2 DEF InCondition, Inside
  <2>8. Tested(s, rule, how, packet, Started)
    BY <2>2, <2>5, <2>7 DEF Tested
  <2> QED BY <1>3, <2>3, <2>8
<1>5. ASSUME NEW i \in 1..n, Good(i - 1) PROVE Good(i)
  <2> DEFINE m == st[i - 1]
             z == st[i]
  <2>1. z = ExecuteIns(code, packet, m) /\ Runs(m, i - 1, n) /\ Tested(s, rule, how, packet, m)
    BY <1>3, <1>5
  <2> HIDE DEF m, z
  <2>2. Runs(z, i, n)
    BY <1>0, <1>1, <2>1, TurnForward
  <2>3. /\ m = [ip |-> m.ip, acc |-> m.acc, cmp |-> m.cmp, result |-> m.result]
        /\ m.result \in {"running", "true", "false"}
    BY <2>1 DEF Runs
  <2>4. Tested(s, rule, how, packet, z)
    BY <2>1, <2>3, RuleTurn
  <2> QED BY <2>2, <2>4 DEF z
<1> HIDE DEF Good
<1>6. T = {}
  <2>1. SUFFICES ASSUME T # {} PROVE FALSE
    OBVIOUS
  <2>2. T \in SUBSET Nat
    OBVIOUS
  <2>3. PICK k \in T : \A j \in T : k <= j
    BY <2>1, <2>2, LeastNumber
  <2>4. k \in 1..n /\ k - 1 \in 0..n
    BY <1>4, <2>3
  <2>5. Good(k - 1)
    BY <2>3, <2>4
  <2> QED BY <1>5, <2>3, <2>4, <2>5
<1>7. Tested(s, rule, how, packet, st[n])
  BY <1>6 DEF Good
<1>8. Execute(code, packet) = st[n].result
  BY <1>3 DEF Execute, Executed, Started
<1>9. Execute(code, packet) \in {"true", "false"}
  BY <1>0, ExecuteEnds
<1> QED BY <1>7, <1>8, <1>9 DEF Tested

-----------------------------------------------------------------------------
(* What a loaded definition accepts. *)

\* The struct of a rule.
StructOf(x, rule) == x.structs[TargetStruct(x.structs, rule)]

\* A rule that is compiled for a struct whose fields have a place, a size and an
\* endianness of E.
Compiled(E, s, rule) ==
  /\ IsRule(rule) /\ Len(rule.conds) # 0 /\ DOMAIN rule.conds = 1..Len(rule.conds) /\ s.min_size \in Nat
  /\ \A j \in 1..Len(rule.conds) :
        /\ FieldOf(s, rule.conds[j]).offset \in Nat /\ FieldOf(s, rule.conds[j]).size \in Nat
        /\ FieldOf(s, rule.conds[j]).endian \in E

\* A definition of such rules, and their code.
HasRules(E, x) ==
  /\ IsSequence(x.source)
  /\ x.filters = [i \in DOMAIN x.source |-> CompileRule(x.structs, x.source[i])]
  /\ \A i \in DOMAIN x.source : Compiled(E, StructOf(x, x.source[i]), x.source[i])

\* What find_field and the search for the struct find is there.
LEMMA RuleCompiled ==
  ASSUME NEW E, NEW s, LikeStructs(E, s, s), NEW rule, IsRule(rule), Compiles(s, rule)
  PROVE  Compiled(E, s[TargetStruct(s, rule)], rule)
<1> DEFINE at == TargetStruct(s, rule)
           x == s[at]
           conds == rule.conds
           A == {i \in 1..Len(s) : FindField(s[i], conds[1].path) # 0}
<1>1. conds # <<>> /\ at # 0 /\ \A j \in DOMAIN conds : FindField(x, conds[j].path) # 0
  BY DEF Compiles, TargetStruct
<1>2. IsSequence(conds) /\ DOMAIN conds = 1..Len(conds) /\ Len(conds) \in Nat
  BY Joined DEF IsRule
<1>3. Len(conds) # 0
  <2>1. PICK S : conds \in Seq(S)
    BY <1>2 DEF IsSequence
  <2> QED BY <1>1, <2>1, EmptySeq
<1>4. at \in 1..Len(s)
  <2>1. at = IF A # {} THEN Min(A) ELSE 0
    BY <1>1 DEF TargetStruct, SelectInSeq
  <2>2. Len(s) \in Nat
    BY Joined DEF LikeStructs
  <2>3. A # {} => Min(A) \in A
    BY <2>2, Selected
  <2>4. A \subseteq 1..Len(s)
    OBVIOUS
  <2> HIDE DEF A, at
  <2> QED BY <1>1, <2>1, <2>3, <2>4
<1>5. LikeStruct(E, x, x)
  BY <1>4 DEF LikeStructs
<1> HIDE DEF x
<1>6. x.min_size \in Nat /\ LikeFields(E, x.fields, x.fields)
  BY <1>5 DEF LikeStruct
<1>7. ASSUME NEW j \in 1..Len(conds)
      PROVE  FieldOf(x, conds[j]).offset \in Nat /\ FieldOf(x, conds[j]).size \in Nat /\ FieldOf(x, conds[j]).endian \in E
  <2> DEFINE k == FindField(x, conds[j].path)
             B == {i \in 1..Len(x.fields) : x.fields[i].path = conds[j].path}
  <2>1. k = IF B # {} THEN Min(B) ELSE 0
    BY DEF FindField, SelectInSeq
  <2>2. Len(x.fields) \in Nat
    BY <1>6, Joined DEF LikeFields
  <2>3. B # {} => Min(B) \in B
    BY <2>2, Selected
  <2>4. B \subseteq 1..Len(x.fields)
    OBVIOUS
  <2>5. k # 0
    BY <1>1, <1>2
  <2>6. k \in 1..Len(x.fields)
    <3> HIDE DEF B, k
    <3> QED BY <2>1, <2>3, <2>4, <2>5
  <2>7. LikeField(E, x.fields[k], x.fields[k])
    BY <1>6, <2>6 DEF LikeFields
  <2> HIDE DEF k
  <2>8. FieldOf(x, conds[j]) = x.fields[k]
    BY DEF FieldOf, k
  <2> QED BY <2>7, <2>8 DEF LikeField
<1>8. Compiled(E, x, rule)
  BY <1>2, <1>3, <1>6, <1>7 DEF Compiled
<1> QED BY <1>8 DEF x

\* pdef_parse_string makes such definitions.
LEMMA ParseRules ==
  ASSUME NEW E, NEW blocks, NEW n \in Nat, DOMAIN blocks = 1..n, \A i \in 1..n : IsBlock(blocks[i]),
         AllWithin(E, blocks, blocks, n), Parse(blocks).ok
  PROVE  HasRules(E, Parse(blocks))
<1> DEFINE p == FoldLeft(ParseBlock, ParserInit, blocks)
           q == FlattenStructs(p)
           x == Parse(blocks)
<1>1. ParserState(p) /\ IsSequence(p.structs)
  BY ParsedState
<1>2. AreRules(p.rules)
  BY ParsedRules
<1>3. x = IF /\ p.ok
             /\ q.ok
             /\ \A i \in DOMAIN q.rules : Compiles(q.structs, q.rules[i])
          THEN [ok |-> TRUE, mode |-> q.endian_mode, structs |-> q.structs, source |-> q.rules,
                filters |-> [i \in DOMAIN q.rules |-> CompileRule(q.structs, q.rules[i])]]
          ELSE NoProto
  BY DEF Parse
<1>4. LikeState(E, p, p)
  <2>1. Rewrites(blocks, blocks, n)
    BY DEF Rewrites, Rewritten
  <2> QED BY <2>1, LikeParsed
<1> SUFFICES HasRules(E, x)
  OBVIOUS
<1> HIDE DEF p, x
<1>5. q.rules = p.rules
  BY <1>1, FlattenedRules
<1>6. p.ok => LikeState(E, q, q)
  BY <1>4, LikeFlattened
<1> HIDE DEF q
<1>7. ~NoProto.ok
  BY DEF NoProto
<1>8. x.ok
  BY DEF x
<1>9. /\ p.ok /\ q.ok /\ \A i \in DOMAIN q.rules : Compiles(q.structs, q.rules[i])
      /\ x.structs = q.structs /\ x.source = q.rules
      /\ x.filters = [i \in DOMAIN q.rules |-> CompileRule(q.structs, q.rules[i])]
  BY <1>3, <1>7, <1>8
<1>10. LikeStructs(E, q.structs, q.structs)
  BY <1>6, <1>9 DEF LikeState
<1>11. IsSequence(q.rules) /\ \A i \in DOMAIN q.rules : IsRule(q.rules[i])
  <2>1. IsSequence(q.rules) /\ DOMAIN q.rules = 1..Len(q.rules)
    BY <1>2, <1>5, Joined DEF AreRules
  <2> QED BY <1>2, <1>5, <2>1 DEF AreRules
<1>12. ASSUME NEW i \in DOMAIN q.rules
       PROVE  Compiled(E, q.structs[TargetStruct(q.structs, q.rules[i])], q.rules[i])
  BY <1>9, <1>10, <1>11, RuleCompiled
<1> QED BY <1>9, <1>11, <1>12 DEF HasRules, StructOf

\* The definition that is loaded is such a definition, with fields of E if no block
\* on disk says another endianness.
LEMMA LoadedRules ==
  ASSUME NEW E, "big" \in E, FilterInv, CodeInv, WritebackInv, proto.ok,
         \A i \in DOMAIN file : Within(E, file[i])
  PROVE  HasRules(E, proto)
<1>1. PICK n \in Nat : DOMAIN file = 1..n
  BY DEF FilterInv
<1>2. proto = Parse(file)
  BY DEF WritebackInv
<1>3. \A i \in 1..n : IsBlock(file[i])
  BY <1>1 DEF CodeInv
<1>4. AllWithin(E, file, file, n)
  BY <1>1 DEF AllWithin
<1>5. Parse(file).ok
  BY <1>2
<1>6. HasRules(E, Parse(file))
  BY <1>1, <1>3, <1>4, <1>5, ParseRules
<1> QED BY <1>2, <1>6

\* RuleAccepts says that all conditions hold.
LEMMA AcceptsAll ==
  ASSUME NEW rule, DOMAIN rule.conds = 1..Len(rule.conds), NEW packet, NEW how
  PROVE  RuleAccepts(rule, packet, how) <=> AllHold(StructOf(proto, rule), rule, how, packet)
<1> DEFINE s == StructOf(proto, rule)
<1>1. RuleAccepts(rule, packet, how) <=>
        \A j \in 1..Len(rule.conds) :
           /\ FieldOf(s, rule.conds[j]).offset + Width(FieldOf(s, rule.conds[j])) <= Len(packet)
           /\ Says(rule.conds[j], Number(FieldOf(s, rule.conds[j]), packet, Reading(FieldOf(s, rule.conds[j]), how)))
  BY DEF RuleAccepts, FieldOf, StructOf
<1> QED BY <1>1 DEF AllHold, CondHolds, Holds

\* A rule of a loaded definition, as RuleMeans needs it.
LEMMA RulePlain ==
  ASSUME NEW E, HasRules(E, proto), NoSignedOrder, NEW i \in DOMAIN proto.source
  PROVE  Plain(StructOf(proto, proto.source[i]), proto.source[i])
<1> DEFINE rule == proto.source[i]
           s == StructOf(proto, rule)
<1>1. Compiled(E, s, rule)
  BY DEF HasRules
<1>2. \A j \in DOMAIN rule.conds : rule.conds[j].op \in {"gt", "ge", "lt", "le"} => FieldOf(s, rule.conds[j]).type # "int"
  BY DEF NoSignedOrder, FieldOf, StructOf
<1> HIDE DEF s, rule
<1>3. Plain(s, rule)
  BY <1>1, <1>2 DEF Compiled, Plain
<1> QED BY <1>3 DEF s, rule

\* The codes of a rule say whether the rule accepts a packet.
LEMMA CodesMean ==
  ASSUME NEW E, HasRules(E, proto), NoSignedOrder, NEW i \in DOMAIN proto.source, NEW packet \in Seq(Byte)
  PROVE  /\ i \in DOMAIN proto.filters
         /\ Execute(proto.filters[i].code_be, packet) \in {"true", "false"}
         /\ Execute(proto.filters[i].code_le, packet) \in {"true", "false"}
         /\ Execute(proto.filters[i].code_be, packet) = "true" <=> RuleAccepts(proto.source[i], packet, "own")
         /\ Execute(proto.filters[i].code_le, packet) = "true" <=> RuleAccepts(proto.source[i], packet, "opposite")
<1> DEFINE rule == proto.source[i]
           s == StructOf(proto, rule)
           be == CompileRule(proto.structs, rule).code_be
           le == CompileRule(proto.structs, rule).code_le
<1>1. Compiled(E, s, rule)
  BY DEF HasRules
<1>2. IsRule(rule) /\ Len(rule.conds) # 0 /\ DOMAIN rule.conds = 1..Len(rule.conds)
  BY <1>1 DEF Compiled
<1>3. i \in DOMAIN proto.filters /\ proto.filters[i].code_be = be /\ proto.filters[i].code_le = le
  BY DEF HasRules
<1>4. Plain(s, rule)
  BY RulePlain
<1> HIDE DEF rule
<1>5. RuleCode(be, s, rule, "own")
  BY <1>2, RuleInstructions DEF StructOf
<1>6. RuleCode(le, s, rule, "opposite")
  BY <1>2, SwappedInstructions DEF StructOf
<1> HIDE DEF be, le, s
<1>7. /\ Execute(be, packet) \in {"true", "false"}
      /\ Execute(be, packet) = "true" <=> AllHold(s, rule, "own", packet)
  BY <1>2, <1>4, <1>5, RuleMeans
<1>8. /\ Execute(le, packet) \in {"true", "false"}
      /\ Execute(le, packet) = "true" <=> AllHold(s, rule, "opposite", packet)
  BY <1>2, <1>4, <1>6, RuleMeans
<1>9. \A how : RuleAccepts(rule, packet, how) <=> AllHold(s, rule, how, packet)
  BY <1>2, AcceptsAll DEF s
<1> QED BY <1>3, <1>7, <1>8, <1>9 DEF rule

\* compile_filter_rules and the executor: the code of every rule of every
\* definition that parses accepts exactly the packets of which its conditions say
\* that they hold, code_be with the fields' own endianness and code_le with the
\* opposite one.
THEOREM PdefCodeMeans == Spec => []CodeMeansConditions
<1>1. FilterInv /\ CodeInv /\ WritebackInv => CodeMeansConditions
  <2> SUFFICES ASSUME FilterInv, CodeInv, WritebackInv, JustLoaded, NoSignedOrder,
                      NEW i \in DOMAIN proto.filters, NEW p \in Probes
               PROVE  LET rule == proto.source[i]
                          result(b) == IF b THEN "true" ELSE "false"
                      IN /\ Execute(proto.filters[i].code_be, p) = result(RuleAccepts(rule, p, "own"))
                         /\ Execute(proto.filters[i].code_le, p) = result(RuleAccepts(rule, p, "opposite"))
    BY DEF CodeMeansConditions
  <2>1. HasRules(Endians, proto)
    <3>1. "big" \in Endians /\ \A j \in DOMAIN file : Within(Endians, file[j])
      BY DEF Endians, Within
    <3>2. proto.ok
      BY DEF JustLoaded
    <3> QED BY <3>1, <3>2, LoadedRules
  <2>2. i \in DOMAIN proto.source
    BY <2>1 DEF HasRules
  <2>3. p \in Seq(Byte)
    BY FilesAssumption DEF Byte
  <2>4. /\ Execute(proto.filters[i].code_be, p) \in {"true", "false"}
        /\ Execute(proto.filters[i].code_le, p) \in {"true", "false"}
        /\ Execute(proto.filters[i].code_be, p) = "true" <=> RuleAccepts(proto.source[i], p, "own")
        /\ Execute(proto.filters[i].code_le, p) = "true" <=> RuleAccepts(proto.source[i], p, "opposite")
    BY <2>1, <2>2, <2>3, CodesMean
  <2> QED BY <2>4
<1> QED BY <1>1, PdefInvariant, PdefCodeInvariant, PdefWritebackInvariant, PTL

-----------------------------------------------------------------------------
(* Where a packet is tried. *)

\* x is an element of one of the first n sequences.
Member(seqs, n, x) == \E j \in 1..n : \E k \in 1..Len(seqs[j]) : x = seqs[j][k]

\* s has the elements of the first n sequences and no others.
Gathers(seqs, n, s) ==
  /\ IsSequence(s)
  /\ \A a \in 1..Len(s) : Member(seqs, n, s[a])
  /\ \A x : Member(seqs, n, x) => \E a \in 1..Len(s) : s[a] = x

\* One sequence.
LEMMA GathersOne ==
  ASSUME NEW seqs, IsSequence(seqs[1])
  PROVE  Gathers(seqs, 1, seqs[1])
<1>1. 1 \in 1..1 /\ \A j \in 1..1 : j = 1
  OBVIOUS
<1> QED BY <1>1, Zenon DEF Gathers, Member

\* One sequence more.
LEMMA GathersMore ==
  ASSUME NEW seqs, NEW i \in Nat, i >= 2, NEW s, Gathers(seqs, i - 1, s), IsSequence(seqs[i])
  PROVE  Gathers(seqs, i, s \o seqs[i])
<1> DEFINE t == seqs[i]
           u == s \o t
<1>1. /\ IsSequence(u) /\ Len(u) = Len(s) + Len(t) /\ Len(s) \in Nat /\ Len(t) \in Nat
      /\ \A a \in 1..Len(s) : u[a] = s[a]
      /\ \A a \in 1..Len(t) : u[Len(s) + a] = t[a]
  BY Joined DEF Gathers
<1>2. /\ \A j \in 1..(i - 1) : j \in 1..i
      /\ \A j \in 1..i : j \in 1..(i - 1) \/ j = i
      /\ i \in 1..i
  OBVIOUS
<1>3. \A x : Member(seqs, i, x) <=> Member(seqs, i - 1, x) \/ \E k \in 1..Len(t) : x = t[k]
  BY <1>2, Zenon DEF Member
<1> SUFFICES Gathers(seqs, i, u)
  OBVIOUS
<1> HIDE DEF u, t
<1>4. ASSUME NEW a \in 1..Len(u) PROVE Member(seqs, i, u[a])
  <2>1. CASE a \in 1..Len(s)
    <3>1. Member(seqs, i - 1, s[a])
      BY <2>1 DEF Gathers
    <3> QED BY <1>1, <1>3, <2>1, <3>1, Zenon
  <2>2. CASE a \notin 1..Len(s)
    <3>1. a - Len(s) \in 1..Len(t) /\ a = Len(s) + (a - Len(s))
      BY <1>1, <2>2
    <3>2. u[a] = t[a - Len(s)]
      BY <1>1, <3>1
    <3> QED BY <1>3, <3>1, <3>2, Zenon
  <2> QED BY <2>1, <2>2
<1>5. ASSUME NEW x, Member(seqs, i, x) PROVE \E a \in 1..Len(u) : u[a] = x
  <2>1. CASE Member(seqs, i - 1, x)
    <3>1. PICK a \in 1..Len(s) : s[a] = x
      BY <2>1, Zenon DEF Gathers
    <3>2. a \in 1..Len(u)
      BY <1>1
    <3>3. u[a] = x
      BY <1>1, <3>1, Zenon
    <3> QED BY <3>2, <3>3
  <2>2. CASE ~Member(seqs, i - 1, x)
    <3>1. PICK k \in 1..Len(t) : x = t[k]
      BY <1>3, <1>5, <2>2, Zenon
    <3>2. Len(s) + k \in 1..Len(u)
      BY <1>1
    <3>3. u[Len(s) + k] = x
      BY <1>1, <3>1, Zenon
    <3> QED BY <3>2, <3>3
  <2> QED BY <2>1, <2>2
<1> QED BY <1>1, <1>4, <1>5, Zenon DEF Gathers

\* FlattenSeq has the elements of the sequences and no others.
LEMMA FlattenGathers ==
  ASSUME NEW seqs, NEW n \in Nat \ {0}, Len(seqs) = n, \A i \in 1..n : IsSequence(seqs[i])
  PROVE  Gathers(seqs, n, FlattenSeq(seqs))
<1>1. PICK g : /\ g[1] = seqs[1]
               /\ \A i \in 2..n : g[i] = g[i - 1] \o seqs[i]
               /\ FlattenSeq(seqs) = g[n]
  BY FlattenSteps
<1> DEFINE T == {i \in 1..n : ~Gathers(seqs, i, g[i])}
<1>2. Gathers(seqs, 1, g[1])
  BY <1>1, GathersOne
<1>3. ASSUME NEW i \in 2..n, Gathers(seqs, i - 1, g[i - 1]) PROVE Gathers(seqs, i, g[i])
  <2>1. i \in Nat /\ i >= 2 /\ i \in 1..n
    OBVIOUS
  <2>2. Gathers(seqs, i, g[i - 1] \o seqs[i])
    BY <1>3, <2>1, GathersMore
  <2> QED BY <1>1, <2>2
<1>4. T = {}
  <2>1. SUFFICES ASSUME T # {} PROVE FALSE
    OBVIOUS
  <2>2. T \in SUBSET Nat
    OBVIOUS
  <2>3. PICK k \in T : \A j \in T : k <= j
    BY <2>1, <2>2, LeastNumber
  <2>4. k \in 2..n /\ k - 1 \in 1..n
    <3>1. k # 1
      BY <1>2
    <3> QED BY <3>1
  <2>5. Gathers(seqs, k - 1, g[k - 1])
    <3>1. ~(k <= k - 1)
      OBVIOUS
    <3> QED BY <2>3, <2>4, <3>1
  <2> QED BY <1>3, <2>3, <2>4, <2>5
<1> QED BY <1>1, <1>4

\* o is an offset at which a rule is tried on len bytes.
Tried(rule, len, o) ==
  IF rule.sliding
  THEN o \in 0..(len - 1) /\ o + rule.min_size <= len /\ (rule.sliding_max = 0 \/ o < rule.sliding_max)
  ELSE o = 0

\* Offsets has these.
LEMMA OffsetsTried ==
  ASSUME NEW rule, rule.min_size \in Nat, rule.sliding_max \in Nat, NEW len \in Nat
  PROVE  /\ IsSequence(Offsets(rule, len))
         /\ \A o : (\E k \in 1..Len(Offsets(rule, len)) : Offsets(rule, len)[k] = o) <=> Tried(rule, len, o)
<1> DEFINE max == rule.sliding_max
           size == rule.min_size
           limit == IF max > 0 /\ max < len THEN max ELSE len
           room == len - size + 1
           m == IF room < limit THEN room ELSE limit
           n == IF m < 0 THEN 0 ELSE m
           offs == Offsets(rule, len)
<1>1. CASE rule.sliding
  <2> DEFINE f == [k \in 1..n |-> k - 1]
  <2>1. n \in Nat /\ 1..m = 1..n
    OBVIOUS
  <2>2. offs = [k \in 1..m |-> k - 1]
    BY <1>1 DEF Offsets
  <2>3. offs = f
    <3> HIDE DEF m, n, offs
    <3> QED BY <2>1, <2>2
  <2>4. f = [k \in 1..n |-> f[k]]
    <3> HIDE DEF n
    <3> QED OBVIOUS
  <2>5. \A o : o + 1 \in 1..n /\ o \in Int <=>
            o \in 0..(len - 1) /\ o + size <= len /\ (max = 0 \/ o < max)
    OBVIOUS
  <2>6. \A k \in 1..n : f[k] = k - 1 /\ k - 1 \in Int /\ k - 1 + 1 = k
    <3> HIDE DEF n
    <3> QED BY <2>1
  <2> HIDE DEF f, n, m, offs
  <2>7. IsSequence(f) /\ Len(f) = n
    BY <2>1, <2>4, LenOf
  <2>8. ASSUME NEW o PROVE (\E k \in 1..n : f[k] = o) <=> o + 1 \in 1..n /\ o \in Int
    <3>1. ASSUME NEW k \in 1..n, f[k] = o PROVE o + 1 \in 1..n /\ o \in Int
      <4>1. o = k - 1
        BY <2>6, <3>1
      <4> QED BY <2>6, <4>1
    <3>2. ASSUME o + 1 \in 1..n, o \in Int PROVE \E k \in 1..n : f[k] = o
      <4>1. f[o + 1] = o + 1 - 1 /\ o + 1 - 1 = o
        BY <2>6, <3>2
      <4> QED BY <3>2, <4>1
    <3> QED BY <3>1, <3>2
  <2>9. \A o : Tried(rule, len, o) <=> o \in 0..(len - 1) /\ o + size <= len /\ (max = 0 \/ o < max)
    BY <1>1 DEF Tried
  <2>10. \A o : (\E k \in 1..Len(offs) : offs[k] = o) <=> Tried(rule, len, o)
    BY <2>3, <2>5, <2>7, <2>8, <2>9, Zenon
  <2> QED BY <2>3, <2>7, <2>10 DEF offs
<1>2. CASE ~rule.sliding
  <2>1. offs = <<0>>
    BY <1>2 DEF Offsets
  <2>2. IsSequence(<<0>>) /\ Len(<<0>>) = 1 /\ <<0>>[1] = 0
    BY Instructions
  <2>3. 1 \in 1..1 /\ \A k \in 1..1 : k = 1
    OBVIOUS
  <2>4. \A o : Tried(rule, len, o) <=> o = 0
    BY <1>2 DEF Tried
  <2> HIDE DEF offs
  <2>5. IsSequence(offs) /\ Len(offs) = 1 /\ offs[1] = 0
    BY <2>1, <2>2
  <2>6. \A o : (\E k \in 1..Len(offs) : offs[k] = o) <=> Tried(rule, len, o)
    BY <2>3, <2>4, <2>5, Zenon
  <2> QED BY <2>5, <2>6 DEF offs
<1> QED BY <1>1, <1>2

\* Rules whose sizes and limits are numbers.
HaveSizes(fs) ==
  IsSequence(fs) /\ \A i \in 1..Len(fs) : fs[i].min_size \in Nat /\ fs[i].sliding_max \in Nat

\* tries are the pairs of a rule and an offset at which it is tried.
AreTries(tries, fs, len) ==
  /\ \A a \in 1..Len(tries) : \E i \in 1..Len(fs) : \E o : tries[a] = <<i, o>> /\ Tried(fs[i], len, o)
  /\ \A i \in 1..Len(fs) : \A o : Tried(fs[i], len, o) => \E a \in 1..Len(tries) : tries[a] = <<i, o>>

\* A packet is tried there.
LEMMA TriesAre ==
  ASSUME NEW packet, Len(packet) \in Nat, NEW fs, HaveSizes(fs)
  PROVE  AreTries(Tries(packet, fs), fs, Len(packet))
<1> DEFINE len == Len(packet)
           n == Len(fs)
           offs(i) == Offsets(fs[i], len)
           row(i) == [k \in DOMAIN offs(i) |-> <<i, offs(i)[k]>>]
           seqs == [i \in DOMAIN fs |-> row(i)]
           tries == Tries(packet, fs)
<1>1. n \in Nat /\ DOMAIN fs = 1..n
  BY Joined DEF HaveSizes
<1>2. tries = FlattenSeq(seqs)
  BY DEF Tries
<1>3. ASSUME NEW i \in 1..n
      PROVE  /\ IsSequence(seqs[i])
             /\ \A x : (\E k \in 1..Len(seqs[i]) : x = seqs[i][k]) <=> \E o : x = <<i, o>> /\ Tried(fs[i], len, o)
  <2>1. fs[i].min_size \in Nat /\ fs[i].sliding_max \in Nat
    BY DEF HaveSizes
  <2>2. /\ IsSequence(offs(i))
        /\ \A o : (\E k \in 1..Len(offs(i)) : offs(i)[k] = o) <=> Tried(fs[i], len, o)
    BY <2>1, OffsetsTried
  <2>3. seqs[i] = row(i)
    BY <1>1
  <2> DEFINE s == offs(i)
             r == row(i)
  <2>4. r = [k \in DOMAIN s |-> <<i, s[k]>>]
    OBVIOUS
  <2> HIDE DEF s, r
  <2>5. Len(s) \in Nat /\ DOMAIN s = 1..Len(s)
    BY <2>2, Joined DEF s
  <2>6. r = [k \in 1..Len(s) |-> r[k]] /\ \A k \in 1..Len(s) : r[k] = <<i, s[k]>>
    BY <2>4, <2>5
  <2>7. IsSequence(r) /\ Len(r) = Len(s)
    BY <2>5, <2>6, LenOf
  <2>8. \A o : (\E k \in 1..Len(s) : s[k] = o) <=> Tried(fs[i], len, o)
    BY <2>2 DEF s
  <2>9. ASSUME NEW x PROVE (\E k \in 1..Len(r) : x = r[k]) <=> \E o : x = <<i, o>> /\ Tried(fs[i], len, o)
    BY <2>6, <2>7, <2>8, Zenon
  <2>10. seqs[i] = r
    BY <2>3 DEF r
  <2> HIDE DEF seqs
  <2> QED BY <2>7, <2>9, <2>10
<1>4. seqs = [i \in 1..n |-> seqs[i]]
  BY <1>1
<1> SUFFICES /\ \A a \in 1..Len(tries) : \E i \in 1..n : \E o : tries[a] = <<i, o>> /\ Tried(fs[i], len, o)
             /\ \A i \in 1..n : \A o : Tried(fs[i], len, o) => \E a \in 1..Len(tries) : tries[a] = <<i, o>>
  BY DEF AreTries
<1> HIDE DEF seqs, tries
<1>5. Len(seqs) = n
  <2> HIDE DEF n
  <2> QED BY <1>1, <1>4, LenOf
<1>6. CASE n = 0
  <2>1. tries = seqs
    BY <1>2, <1>5, <1>6 DEF FlattenSeq
  <2>2. 1..0 = {}
    OBVIOUS
  <2> QED BY <1>5, <1>6, <2>1, <2>2
<1>7. CASE n # 0
  <2>1. Gathers(seqs, n, tries)
    <3>1. n \in Nat \ {0} /\ \A i \in 1..n : IsSequence(seqs[i])
      BY <1>1, <1>3, <1>7
    <3> HIDE DEF n
    <3> QED BY <1>2, <1>5, <3>1, FlattenGathers
  <2>2. ASSUME NEW x PROVE Member(seqs, n, x) <=> \E i \in 1..n : \E o : x = <<i, o>> /\ Tried(fs[i], len, o)
    BY <1>3, Zenon DEF Member
  <2> HIDE DEF n
  <2>3. ASSUME NEW a \in 1..Len(tries)
        PROVE  \E i \in 1..n : \E o : tries[a] = <<i, o>> /\ Tried(fs[i], len, o)
    <3>1. Member(seqs, n, tries[a])
      BY <2>1, Zenon DEF Gathers
    <3> QED BY <2>2, <3>1, Zenon
  <2>4. ASSUME NEW i \in 1..n, NEW o, Tried(fs[i], len, o)
        PROVE  \E a \in 1..Len(tries) : tries[a] = <<i, o>>
    <3>1. Member(seqs, n, <<i, o>>)
      BY <2>2, <2>4, Zenon
    <3> QED BY <2>1, <3>1, Zenon DEF Gathers
  <2> QED BY <2>3, <2>4
<1> QED BY <1>6, <1>7

\* packet_filter_match accepts a packet if a rule does at an offset at which it is
\* tried.
LEMMA MatchIsTry ==
  ASSUME NEW packet, Len(packet) \in Nat, NEW x, NEW d, HaveSizes(x.filters)
  PROVE  FilterMatch(packet, x, d) # "none" <=>
           \E i \in 1..Len(x.filters) : \E o :
              /\ Tried(x.filters[i], Len(packet), o)
              /\ TryMatch(SubSeq(packet, o + 1, Len(packet)), x.filters[i], x.mode, d) # "none"
<1> DEFINE fs == x.filters
           len == Len(packet)
           tries == Tries(packet, fs)
           hits == Hits(packet, fs, x.mode, d)
           try(i, o) == TryMatch(SubSeq(packet, o + 1, len), fs[i], x.mode, d)
<1>1. /\ \A a \in 1..Len(tries) : \E i \in 1..Len(fs) : \E o : tries[a] = <<i, o>> /\ Tried(fs[i], len, o)
      /\ \A i \in 1..Len(fs) : \A o : Tried(fs[i], len, o) => \E a \in 1..Len(tries) : tries[a] = <<i, o>>
  <2>1. AreTries(tries, fs, len)
    BY TriesAre
  <2> QED BY <2>1 DEF AreTries
<1>2. \A i, o : Outcome(packet, fs, x.mode, d, <<i, o>>) = try(i, o)
  BY DEF Outcome
<1>3. \A a : a \in hits <=> a \in 1..Len(tries) /\ Outcome(packet, fs, x.mode, d, tries[a]) # "none"
  BY DEF Hits
<1>4. FilterMatch(packet, x, d) # "none" <=> hits # {}
  <2>1. CASE hits = {}
    BY <2>1, MatchFacts
  <2>2. CASE hits # {}
    <3>1. PICK i \in hits : FilterMatch(packet, x, d) = Outcome(packet, fs, x.mode, d, tries[i])
      BY <2>2, MatchFacts
    <3> QED BY <1>3, <2>2, <3>1
  <2> QED BY <2>1, <2>2
<1> SUFFICES FilterMatch(packet, x, d) # "none" <=>
               \E i \in 1..Len(fs) : \E o : Tried(fs[i], len, o) /\ try(i, o) # "none"
  OBVIOUS
<1> HIDE DEF try, tries, hits, fs, len
<1>5. ASSUME NEW a \in hits PROVE \E i \in 1..Len(fs) : \E o : Tried(fs[i], len, o) /\ try(i, o) # "none"
  <2>1. PICK i \in 1..Len(fs) : \E o : tries[a] = <<i, o>> /\ Tried(fs[i], len, o)
    BY <1>1, <1>3, Zenon
  <2>2. PICK o : tries[a] = <<i, o>> /\ Tried(fs[i], len, o)
    BY <2>1
  <2>3. Outcome(packet, fs, x.mode, d, tries[a]) # "none"
    BY <1>3
  <2>4. try(i, o) # "none"
    BY <1>2, <2>2, <2>3, Zenon
  <2> QED BY <2>2, <2>4
<1>6. ASSUME NEW i \in 1..Len(fs), NEW o, Tried(fs[i], len, o), try(i, o) # "none" PROVE hits # {}
  <2>1. PICK a \in 1..Len(tries) : tries[a] = <<i, o>>
    BY <1>1, <1>6, Zenon
  <2>2. a \in hits
    BY <1>2, <1>3, <1>6, <2>1
  <2> QED BY <2>2
<1> QED BY <1>4, <1>5, <1>6

\* Big-endian fields: their own endianness is big, and the opposite little.
LEMMA ReadBig ==
  ASSUME HasRules({"big"}, proto), NEW i \in DOMAIN proto.source, NEW packet
  PROVE  /\ RuleAccepts(proto.source[i], packet, "own") <=> RuleAccepts(proto.source[i], packet, "big")
         /\ RuleAccepts(proto.source[i], packet, "opposite") <=> RuleAccepts(proto.source[i], packet, "little")
<1> DEFINE rule == proto.source[i]
           s == StructOf(proto, rule)
<1>1. Compiled({"big"}, s, rule)
  BY DEF HasRules
<1> SUFFICES /\ RuleAccepts(rule, packet, "own") <=> RuleAccepts(rule, packet, "big")
             /\ RuleAccepts(rule, packet, "opposite") <=> RuleAccepts(rule, packet, "little")
  OBVIOUS
<1> HIDE DEF rule
<1>2. \A how : RuleAccepts(rule, packet, how) <=> AllHold(s, rule, how, packet)
  BY <1>1, AcceptsAll DEF Compiled
<1> HIDE DEF s
<1>3. \A f : f.endian = "big" => /\ Reading(f, "own") = "big" /\ Reading(f, "big") = "big"
                                 /\ Reading(f, "opposite") = "little" /\ Reading(f, "little") = "little"
  BY DEF Reading, Opposite
<1>4. \A j \in 1..Len(rule.conds) : FieldOf(s, rule.conds[j]).endian = "big"
  BY <1>1 DEF Compiled
<1>5. \A j \in 1..Len(rule.conds) :
         /\ CondHolds(s, rule, "own", packet, j) <=> CondHolds(s, rule, "big", packet, j)
         /\ CondHolds(s, rule, "opposite", packet, j) <=> CondHolds(s, rule, "little", packet, j)
  BY <1>3, <1>4, Zenon DEF CondHolds
<1> QED BY <1>2, <1>5, Zenon DEF AllHold

\* A rule of big-endian fields is tried on a packet under the settled endianness e.
LEMMA TryAccepts ==
  ASSUME HasRules({"big"}, proto), NoSignedOrder, NEW i \in DOMAIN proto.source, NEW packet \in Seq(Byte),
         NEW d, NEW e \in Endians, e = IF proto.mode = "auto" THEN d ELSE proto.mode
  PROVE  TryMatch(packet, proto.filters[i], proto.mode, d) # "none" <=> RuleAccepts(proto.source[i], packet, e)
<1> DEFINE fs == proto.filters[i]
           be == Execute(fs.code_be, packet) = "true"
           le == Execute(fs.code_le, packet) = "true"
<1>1. /\ be <=> RuleAccepts(proto.source[i], packet, "own")
      /\ le <=> RuleAccepts(proto.source[i], packet, "opposite")
  BY CodesMean
<1>2. /\ be <=> RuleAccepts(proto.source[i], packet, "big")
      /\ le <=> RuleAccepts(proto.source[i], packet, "little")
  BY <1>1, ReadBig
<1>3. TryMatch(packet, fs, proto.mode, d) =
        CASE e = "big" -> IF be THEN "big" ELSE "none"
          [] e = "little" -> IF le THEN "little" ELSE "none"
          [] OTHER -> IF be THEN "big" ELSE IF le THEN "little" ELSE "none"
  BY DEF TryMatch
<1> HIDE DEF be, le, fs
<1>4. TryMatch(packet, fs, proto.mode, d) # "none" <=> (e = "big" /\ be) \/ (e = "little" /\ le)
  BY <1>3 DEF Endians
<1>5. (e = "big" /\ be) \/ (e = "little" /\ le) <=> RuleAccepts(proto.source[i], packet, e)
  <2>1. CASE e = "big"
    BY <1>2, <2>1, Zenon
  <2>2. CASE e = "little"
    BY <1>2, <2>2, Zenon
  <2> QED BY <2>1, <2>2 DEF Endians
<1> QED BY <1>4, <1>5, Zenon DEF fs

\* The rules of a definition have sizes and limits, those of their structs and texts.
LEMMA RuleSizes ==
  ASSUME NEW E, NEW x, HasRules(E, x)
  PROVE  /\ HaveSizes(x.filters) /\ Len(x.filters) = Len(x.source)
         /\ DOMAIN x.source = 1..Len(x.source)
         /\ \A i \in DOMAIN x.source :
               /\ x.filters[i].min_size = StructOf(x, x.source[i]).min_size
               /\ x.filters[i].sliding = x.source[i].sliding
               /\ x.filters[i].sliding_max = x.source[i].sliding_max
<1> DEFINE fs == x.filters
           n == Len(x.source)
<1>1. n \in Nat /\ DOMAIN x.source = 1..n
  BY Joined DEF HasRules
<1>2. fs = [i \in 1..n |-> CompileRule(x.structs, x.source[i])]
  BY <1>1 DEF HasRules
<1>3. \A rule : /\ CompileRule(x.structs, rule).min_size = StructOf(x, rule).min_size
                /\ CompileRule(x.structs, rule).sliding = rule.sliding
                /\ CompileRule(x.structs, rule).sliding_max = rule.sliding_max
  BY DEF CompileRule, StructOf
<1>4. \A i \in 1..n : StructOf(x, x.source[i]).min_size \in Nat /\ x.source[i].sliding_max \in Nat
  BY <1>1 DEF HasRules, Compiled, IsRule
<1> HIDE DEF fs, n
<1>5. IsSequence(fs) /\ Len(fs) = n
  <2>1. fs = [i \in 1..n |-> fs[i]]
    BY <1>2
  <2> QED BY <1>1, <2>1, LenOf
<1>6. \A i \in 1..n : fs[i] = CompileRule(x.structs, x.source[i])
  BY <1>2
<1>7. \A i \in 1..n : /\ fs[i].min_size = StructOf(x, x.source[i]).min_size
                      /\ fs[i].sliding = x.source[i].sliding
                      /\ fs[i].sliding_max = x.source[i].sliding_max
  BY <1>3, <1>6, Zenon
<1>8. HaveSizes(fs)
  BY <1>4, <1>5, <1>7 DEF HaveSizes
<1> QED BY <1>1, <1>5, <1>7, <1>8, Zenon DEF fs, n

\* Accepts says that a rule accepts the packet at an offset at which it is tried.
LEMMA AcceptsTried ==
  ASSUME NEW E, HasRules(E, proto), NEW packet \in Seq(Byte), NEW e
  PROVE  Accepts(packet, e) <=>
           \E i \in DOMAIN proto.source : \E o :
              /\ Tried(proto.filters[i], Len(packet), o)
              /\ RuleAccepts(proto.source[i], SubSeq(packet, o + 1, Len(packet)), e)
<1> DEFINE len == Len(packet)
           rest(o) == SubSeq(packet, o + 1, len)
           at(i, o) == Tried(proto.filters[i], len, o) /\ RuleAccepts(proto.source[i], rest(o), e)
           one(i) == IF ~proto.source[i].sliding THEN RuleAccepts(proto.source[i], packet, e)
                     ELSE \E o \in 0..(len - 1) :
                             /\ o + StructOf(proto, proto.source[i]).min_size <= len
                             /\ proto.source[i].sliding_max = 0 \/ o < proto.source[i].sliding_max
                             /\ RuleAccepts(proto.source[i], rest(o), e)
<1>1. Accepts(packet, e) <=> \E i \in DOMAIN proto.source : one(i)
  BY DEF Accepts, StructOf
<1>2. rest(0) = packet
  <2>1. len \in Nat /\ DOMAIN packet = 1..len /\ packet \in [1..len -> Byte]
    BY LenProperties
  <2>2. rest(0) = [k \in 1..len |-> packet[k]]
    <3>1. rest(0) = [k \in 1..(len - (0 + 1) + 1) |-> packet[(0 + 1) + k - 1]]
      BY <2>1 DEF SubSeq
    <3>2. len - (0 + 1) + 1 = len /\ \A k \in 1..len : (0 + 1) + k - 1 = k
      BY <2>1
    <3> QED BY <3>1, <3>2
  <2> QED BY <2>1, <2>2
<1>3. ASSUME NEW i \in DOMAIN proto.source PROVE one(i) <=> \E o : at(i, o)
  <2>1. /\ proto.filters[i].min_size = StructOf(proto, proto.source[i]).min_size
        /\ proto.filters[i].sliding = proto.source[i].sliding
        /\ proto.filters[i].sliding_max = proto.source[i].sliding_max
    BY RuleSizes
  <2>2. CASE proto.source[i].sliding
    <3>1. \A o : Tried(proto.filters[i], len, o) <=>
             /\ o \in 0..(len - 1)
             /\ o + StructOf(proto, proto.source[i]).min_size <= len
             /\ proto.source[i].sliding_max = 0 \/ o < proto.source[i].sliding_max
      BY <2>1, <2>2, Zenon DEF Tried
    <3>2. one(i) <=> \E o \in 0..(len - 1) :
                             /\ o + StructOf(proto, proto.source[i]).min_size <= len
                             /\ proto.source[i].sliding_max = 0 \/ o < proto.source[i].sliding_max
                             /\ RuleAccepts(proto.source[i], rest(o), e)
      BY <2>2, Zenon
    <3> HIDE DEF one
    <3> QED BY <3>1, <3>2, Zenon
  <2>3. CASE ~proto.source[i].sliding
    <3>1. \A o : Tried(proto.filters[i], len, o) <=> o = 0
      BY <2>1, <2>3, Zenon DEF Tried
    <3>2. one(i) <=> RuleAccepts(proto.source[i], packet, e)
      BY <2>3, Zenon
    <3> HIDE DEF one, rest
    <3> QED BY <1>2, <3>1, <3>2, Zenon
  <2> QED BY <2>2, <2>3
<1> HIDE DEF one
<1> QED BY <1>1, <1>3, Zenon

\* packet_filter_match: as long as no @protocol block says little, a packet is
\* accepted exactly when some rule accepts it at some offset of its window, under
\* the endianness that is declared or that the capture has detected.
THEOREM PdefVerdict == Spec => []VerdictExact
<1>1. FilterInv /\ CodeInv /\ WritebackInv => VerdictExact
  <2> DEFINE e == IF proto.mode = "auto" THEN detected ELSE proto.mode
  <2> SUFFICES ASSUME FilterInv, CodeInv, WritebackInv, proto.ok, NoSignedOrder, NoLittleBlock(file),
                      e \in Endians, NEW p \in Probes
               PROVE  FilterMatch(p, proto, detected) # "none" <=> Accepts(p, e)
    BY DEF VerdictExact
  <2>1. HasRules({"big"}, proto)
    <3>1. \A i \in DOMAIN file : Within({"big"}, file[i])
      BY DEF NoLittleBlock, Within, Endians
    <3> QED BY <3>1, LoadedRules
  <2>2. p \in Seq(Byte) /\ Len(p) \in Nat
    BY FilesAssumption, LenProperties DEF Byte
  <2>3. /\ HaveSizes(proto.filters) /\ Len(proto.filters) = Len(proto.source)
        /\ DOMAIN proto.source = 1..Len(proto.source)
    BY <2>1, RuleSizes
  <2> HIDE DEF e
  <2>4. FilterMatch(p, proto, detected) # "none" <=>
          \E i \in DOMAIN proto.source : \E o :
             /\ Tried(proto.filters[i], Len(p), o)
             /\ TryMatch(SubSeq(p, o + 1, Len(p)), proto.filters[i], proto.mode, detected) # "none"
    <3>1. FilterMatch(p, proto, detected) # "none" <=>
            \E i \in 1..Len(proto.filters) : \E o :
               /\ Tried(proto.filters[i], Len(p), o)
               /\ TryMatch(SubSeq(p, o + 1, Len(p)), proto.filters[i], proto.mode, detected) # "none"
      BY <2>2, <2>3, MatchIsTry
    <3> QED BY <2>3, <3>1, Zenon
  <2>5. ASSUME NEW i \in DOMAIN proto.source, NEW o, Tried(proto.filters[i], Len(p), o)
        PROVE  TryMatch(SubSeq(p, o + 1, Len(p)), proto.filters[i], proto.mode, detected) # "none" <=>
                 RuleAccepts(proto.source[i], SubSeq(p, o + 1, Len(p)), e)
    <3> DEFINE rest == SubSeq(p, o + 1, Len(p))
    <3>1. o \in Nat
      BY <2>2, <2>5 DEF Tried
    <3>2. rest \in Seq(Byte)
      <4>1. \A k \in (o + 1)..Len(p) : p[k] \in Byte
        BY <2>2, <3>1
      <4> QED BY <2>2, <3>1, <4>1
    <3>3. e = IF proto.mode = "auto" THEN detected ELSE proto.mode
      BY DEF e
    <3> HIDE DEF rest
    <3>4. TryMatch(rest, proto.filters[i], proto.mode, detected) # "none" <=> RuleAccepts(proto.source[i], rest, e)
      BY <2>1, <3>2, <3>3, TryAccepts
    <3> QED BY <3>4 DEF rest
  <2>6. Accepts(p, e) <=>
          \E i \in DOMAIN proto.source : \E o :
             /\ Tried(proto.filters[i], Len(p), o)
             /\ RuleAccepts(proto.source[i], SubSeq(p, o + 1, Len(p)), e)
    BY <2>1, <2>2, AcceptsTried
  <2> QED BY <2>4, <2>5, <2>6, Zenon
<1> QED BY <1>1, PdefInvariant, PdefCodeInvariant, PdefWritebackInvariant, PTL
=============================================================================
