------------------------- MODULE HttpThreadProofs --------------------------
(***************************************************************************)
(* Theorems about the HTTP thread, for any finite set of clients, their    *)
(* requests, any size of a response, of a socket and any idle time.        *)
(***************************************************************************)
EXTENDS HttpThread, QueueLemmas, FiniteSetTheorems

-----------------------------------------------------------------------------
(* Counting the elements of a sequence. *)

\* A count is a natural number, and none of an empty sequence's elements counts.
LEMMA CountType ==
  ASSUME NEW S, NEW q \in Seq(S), NEW T
  PROVE  /\ IsFiniteSet({i \in DOMAIN q : q[i] \in T})
         /\ Count(q, T) \in Nat
         /\ q = <<>> => Count(q, T) = 0
<1>1. Len(q) \in Nat /\ DOMAIN q = 1..Len(q)
  BY LenProperties
<1>2. IsFiniteSet({i \in DOMAIN q : q[i] \in T})
  <2>1. IsFiniteSet(1..Len(q))
    BY <1>1, FS_Interval
  <2>2. {i \in DOMAIN q : q[i] \in T} \in SUBSET (1..Len(q))
    BY <1>1
  <2> QED BY <2>1, <2>2, FS_Subset
<1>3. q = <<>> => {i \in DOMAIN q : q[i] \in T} = {}
  BY <1>1
<1> QED BY <1>2, <1>3, FS_CardinalityType, FS_EmptySet DEF Count

\* Counting in two sequences one after the other.
LEMMA CountConcat ==
  ASSUME NEW S, NEW s \in Seq(S), NEW t \in Seq(S), NEW T
  PROVE  Count(s \o t, T) = Count(s, T) + Count(t, T)
<1> DEFINE n == Len(s)
           A == {i \in DOMAIN s : s[i] \in T}
           B == {i \in DOMAIN t : t[i] \in T}
           C == {i \in (n + 1)..(n + Len(t)) : t[i - n] \in T}
           f == [i \in B |-> i + n]
<1>1. /\ n \in Nat /\ Len(t) \in Nat /\ DOMAIN s = 1..n /\ DOMAIN t = 1..Len(t)
      /\ DOMAIN (s \o t) = 1..(n + Len(t))
      /\ \A i \in 1..(n + Len(t)) : (s \o t)[i] = IF i <= n THEN s[i] ELSE t[i - n]
  BY ConcatProperties, LenProperties
<1>2. {i \in DOMAIN (s \o t) : (s \o t)[i] \in T} = A \cup C
  BY <1>1
<1>3. A \cap C = {}
  BY <1>1
<1>4. f \in [B -> C]
  BY <1>1
<1>5. \A i, j \in B : f[i] = f[j] => i = j
  BY <1>1
<1>6. \A k \in C : \E i \in B : f[i] = k
  <2>1. ASSUME NEW k \in C PROVE \E i \in B : f[i] = k
    <3>1. k - n \in B /\ f[k - n] = k
      BY <1>1
    <3> QED BY <3>1
  <2> QED BY <2>1
<1>7. ExistsBijection(B, C)
  BY <1>4, <1>5, <1>6 DEF ExistsBijection, Bijection, Injection, Surjection, IsInjective
<1>8. IsFiniteSet(A) /\ IsFiniteSet(B)
  BY CountType
<1>9. IsFiniteSet(C) /\ Cardinality(C) = Cardinality(B)
  BY <1>7, <1>8, FS_Bijection
<1>10. Cardinality(A \cup C) = Cardinality(A) + Cardinality(C)
  <2>1. Cardinality(A) \in Nat /\ Cardinality(C) \in Nat /\ Cardinality({}) = 0
    BY <1>8, <1>9, FS_CardinalityType, FS_EmptySet
  <2> HIDE DEF A, B, C
  <2>2. Cardinality(A \cup C) = Cardinality(A) + Cardinality(C) - Cardinality(A \cap C)
    BY <1>8, <1>9, FS_Union
  <2>3. Cardinality(A \cap C) = 0
    BY <1>3, <2>1, Zenon
  <2> QED BY <2>1, <2>2, <2>3
<1> QED BY <1>2, <1>9, <1>10 DEF Count

\* A sequence of one element.
LEMMA CountOne ==
  ASSUME NEW x, NEW T
  PROVE  Count(<<x>>, T) = IF x \in T THEN 1 ELSE 0
<1>1. {i \in DOMAIN <<x>> : <<x>>[i] \in T} = IF x \in T THEN {1} ELSE {}
  OBVIOUS
<1> QED BY <1>1, FS_Singleton, FS_EmptySet DEF Count

\* One more element.
LEMMA CountAppend ==
  ASSUME NEW S, NEW q \in Seq(S), NEW x \in S, NEW T
  PROVE  Count(Append(q, x), T) = Count(q, T) + (IF x \in T THEN 1 ELSE 0)
<1>1. <<x>> \in Seq(S) /\ Append(q, x) = q \o <<x>>
  BY AppendIsConcat
<1>2. Count(q \o <<x>>, T) = Count(q, T) + Count(<<x>>, T)
  BY <1>1, CountConcat
<1>3. Count(<<x>>, T) = IF x \in T THEN 1 ELSE 0
  BY CountOne
<1> QED BY <1>1, <1>2, <1>3

\* One element less.
LEMMA CountTail ==
  ASSUME NEW S, NEW q \in Seq(S), q # <<>>, NEW T
  PROVE  Count(q, T) = Count(Tail(q), T) + (IF Head(q) \in T THEN 1 ELSE 0)
<1>1. /\ Tail(q) \in Seq(S) /\ Head(q) \in S /\ <<Head(q)>> \in Seq(S)
      /\ Len(Tail(q)) = Len(q) - 1 /\ Len(q) \in Nat /\ Len(q) >= 1 /\ Head(q) = q[1]
      /\ \A i \in 1..Len(q) : i # 1 => i - 1 \in 1..(Len(q) - 1) /\ q[i] = Tail(q)[i - 1]
  BY TailFacts, HeadTailProperties
<1> DEFINE p == <<Head(q)>> \o Tail(q)
<1>2. /\ p \in Seq(S) /\ Len(p) = 1 + (Len(q) - 1)
      /\ \A i \in 1..(1 + (Len(q) - 1)) : p[i] = IF i <= 1 THEN <<Head(q)>>[i] ELSE Tail(q)[i - 1]
  <2>1. Len(<<Head(q)>>) = 1
    OBVIOUS
  <2> QED BY <1>1, <2>1, ConcatProperties
<1>3. \A i \in 1..Len(q) : p[i] = q[i]
  BY <1>1, <1>2
<1>4. p = q
  BY <1>1, <1>2, <1>3, SeqEqual
<1>5. Count(p, T) = Count(<<Head(q)>>, T) + Count(Tail(q), T)
  BY <1>1, CountConcat
<1>6. Count(<<Head(q)>>, T) = IF Head(q) \in T THEN 1 ELSE 0
  BY CountOne
<1>7. Count(Tail(q), T) \in Nat
  BY <1>1, CountType
<1> HIDE DEF p
<1> QED BY <1>4, <1>5, <1>6, <1>7

\* A sequence cut in two.
LEMMA CutInTwo ==
  ASSUME NEW S, NEW q \in Seq(S), NEW n \in 0..Len(q), NEW T
  PROVE  /\ SubSeq(q, 1, n) \in Seq(S) /\ Len(SubSeq(q, 1, n)) = n
         /\ SubSeq(q, n + 1, Len(q)) \in Seq(S)
         /\ Count(q, T) = Count(SubSeq(q, 1, n), T) + Count(SubSeq(q, n + 1, Len(q)), T)
<1>1. Len(q) \in Nat /\ \A i \in 1..Len(q) : q[i] \in S
  BY LenProperties, ElementOfSeq
<1>2. SubSeq(q, 1, n) \in Seq(S) /\ Len(SubSeq(q, 1, n)) = n
  BY <1>1, SubSeqProperties
<1>3. SubSeq(q, n + 1, Len(q)) \in Seq(S)
  <2>1. \A i \in (n + 1)..Len(q) : q[i] \in S
    BY <1>1
  <2>2. n + 1 \in Int /\ Len(q) \in Int
    BY <1>1
  <2> QED BY <2>1, <2>2, SubSeqProperties
<1>4. SubSeq(q, 1, n) \o SubSeq(q, n + 1, Len(q)) = q
  <2>1. /\ 1 \in 1..(Len(q) + 1) /\ n \in (1 - 1)..Len(q) /\ Len(q) \in n..Len(q)
    BY <1>1
  <2>2. SubSeq(q, 1, n) \o SubSeq(q, n + 1, Len(q)) = SubSeq(q, 1, Len(q))
    BY <2>1, ConcatAdjacentSubSeq
  <2> QED BY <2>2, SubSeqFull
<1>5. Count(SubSeq(q, 1, n) \o SubSeq(q, n + 1, Len(q)), T)
        = Count(SubSeq(q, 1, n), T) + Count(SubSeq(q, n + 1, Len(q)), T)
  BY <1>2, <1>3, CountConcat
<1> QED BY <1>2, <1>3, <1>4, <1>5
-----------------------------------------------------------------------------
(* real_send: what the steps of its loop do to a connection and its output. *)

\* s is a connection of client c in the middle of a handler.
IsSending(s, c) ==
  /\ s \in [r : Connection, out : Seq(OwnUnits(c)), room : Nat]
  /\ s.r.client = c /\ Own(s.r)

HeadsLeft(s) == Count(s.out, HeadUnits) + HeadsDue(s.r)

\* What a part of real_send may do: only units of its buffer go out, as many as
\* the socket has room for, and no head comes from nowhere.
SendsOn(s, p, c) ==
  /\ IsSending(p, c)
  /\ Len(p.out) + p.room = Len(s.out) + s.room
  /\ p.r.pending = s.r.pending
  /\ HeadsLeft(p) <= HeadsLeft(s)

\* The units of a client are units, and only its heads count as heads.
LEMMA OwnUnitFacts ==
  ASSUME NEW c \in Clients
  PROVE  /\ OwnUnits(c) \subseteq Units
         /\ <<c, "head">> \in OwnUnits(c) /\ <<Blank, "head">> \in OwnUnits(c)
         /\ <<c, "body">> \in OwnUnits(c) /\ <<c, "body">> \notin HeadUnits
         /\ <<c, "head">> \in HeadUnits /\ <<Blank, "head">> \in HeadUnits
BY DEF OwnUnits, Units, HeadUnits

\* So are sequences of them, and buffers.
LEMMA OwnSeqs ==
  ASSUME NEW c \in Clients
  PROVE  /\ Seq(OwnUnits(c)) \subseteq Seq(Units)
         /\ Seq(Seq(OwnUnits(c))) \subseteq Seq(Seq(Units))
         /\ Seq({<<c, "body">>}) \subseteq Seq(OwnUnits(c))
<1>1. OwnUnits(c) \subseteq Units /\ {<<c, "body">>} \subseteq OwnUnits(c)
  BY OwnUnitFacts
<1>2. Seq(OwnUnits(c)) \subseteq Seq(Units)
  BY <1>1, SeqMonotonic
<1>3. Seq(Seq(OwnUnits(c))) \subseteq Seq(Seq(Units))
  BY <1>2, SeqMonotonic
<1>4. Seq({<<c, "body">>}) \subseteq Seq(OwnUnits(c))
  BY <1>1, SeqMonotonic
<1> QED BY <1>2, <1>3, <1>4

\* The heads a connection has yet to send are a number.
LEMMA HeadsDueNat ==
  ASSUME NEW r \in Connection, Own(r)
  PROVE  HeadsDue(r) \in Nat
<1>1. r.buf \in Seq(Seq(OwnUnits(r.client)))
  BY DEF Own
<1>2. r.buf # NoBuf => r.buf[1] \in Seq(OwnUnits(r.client))
  BY <1>1, TailFacts DEF NoBuf
<1>3. r.buf # NoBuf => Count(r.buf[1], HeadUnits) \in Nat
  BY <1>2, CountType
<1> QED BY <1>3 DEF HeadsDue

\* The same within a handler.
LEMMA HeadsDueType ==
  ASSUME NEW c \in Clients, NEW s, IsSending(s, c)
  PROVE  /\ HeadsDue(s.r) \in Nat /\ Count(s.out, HeadUnits) \in Nat /\ HeadsLeft(s) \in Nat
         /\ s.r.buf # NoBuf => s.r.buf[1] \in Seq(OwnUnits(c))
<1>1. s.r.buf \in Seq(Seq(OwnUnits(c))) /\ s.out \in Seq(OwnUnits(c))
  BY DEF IsSending, Own
<1>2. s.r.buf # NoBuf => s.r.buf[1] \in Seq(OwnUnits(c))
  BY <1>1, TailFacts DEF NoBuf
<1>4. HeadsDue(s.r) \in Nat
  BY HeadsDueNat DEF IsSending
<1>5. Count(s.out, HeadUnits) \in Nat
  BY <1>1, CountType
<1> QED BY <1>2, <1>4, <1>5 DEF HeadsLeft

\* SEND
LEMMA PushOK ==
  ASSUME NEW c \in Clients, NEW s, IsSending(s, c)
  PROVE  SendsOn(s, Push(s), c) /\ Push(s).r.status = s.r.status
<1>1. CASE s.r.buf \in {NoBuf, <<<<>>>>}
  BY <1>1, HeadsDueType DEF Push, SendsOn
<1>2. CASE s.r.buf \notin {NoBuf, <<<<>>>>}
  <2> DEFINE data == s.r.buf[1]
             n == Min({Len(data), s.room})
             sentNow == SubSeq(data, 1, n)
             rest == SubSeq(data, n + 1, Len(data))
             left == IF n = Len(data) THEN NoBuf ELSE <<rest>>
             p == [s EXCEPT !.out = @ \o sentNow, !.room = @ - n, !.r.buf = left]
  <2>1. Push(s) = p
    BY <1>2 DEF Push
  <2>2. /\ s \in [r : Connection, out : Seq(OwnUnits(c)), room : Nat]
        /\ s.r \in Connection /\ s.r.client = c /\ Own(s.r)
        /\ s.out \in Seq(OwnUnits(c)) /\ s.room \in Nat
    BY DEF IsSending
  <2>3. data \in Seq(OwnUnits(c)) /\ Len(data) \in Nat
    BY <1>2, HeadsDueType, LenProperties
  <2>4. n \in Nat /\ n <= Len(data) /\ n <= s.room
    <3>1. \A a, b \in Nat : Min({a, b}) \in Nat /\ Min({a, b}) <= a /\ Min({a, b}) <= b
      BY DEF Min
    <3> QED BY <2>2, <2>3, <3>1
  <2> HIDE DEF n
  <2>5. /\ sentNow \in Seq(OwnUnits(c)) /\ Len(sentNow) = n /\ rest \in Seq(OwnUnits(c))
        /\ Count(data, HeadUnits) = Count(sentNow, HeadUnits) + Count(rest, HeadUnits)
    BY <2>3, <2>4, CutInTwo
  <2> HIDE DEF data, sentNow, rest
  <2>6. /\ s.out \o sentNow \in Seq(OwnUnits(c))
        /\ Len(s.out \o sentNow) = Len(s.out) + n /\ Len(s.out) \in Nat
        /\ Count(s.out \o sentNow, HeadUnits) = Count(s.out, HeadUnits) + Count(sentNow, HeadUnits)
    <3>1. /\ s.out \o sentNow \in Seq(OwnUnits(c))
          /\ Len(s.out \o sentNow) = Len(s.out) + Len(sentNow) /\ Len(s.out) \in Nat
      BY <2>2, <2>5, ConcatProperties, LenProperties
    <3>2. Count(s.out \o sentNow, HeadUnits) = Count(s.out, HeadUnits) + Count(sentNow, HeadUnits)
      BY <2>2, <2>5, CountConcat
    <3> QED BY <2>5, <3>1, <3>2
  <2>7. left \in Seq(Seq(OwnUnits(c))) /\ (left # NoBuf => left[1] = rest)
    BY <2>5 DEF NoBuf
  <2>8. left \in Seq(Seq(Units))
    BY <2>7, OwnSeqs
  <2> HIDE DEF left
  <2>9. /\ p.r = [s.r EXCEPT !.buf = left] /\ p.out = s.out \o sentNow /\ p.room = s.room - n
        /\ p \in [r : Connection, out : Seq(OwnUnits(c)), room : Nat]
    <3>1. [s.r EXCEPT !.buf = left] \in Connection
      BY <2>2, <2>8 DEF Connection
    <3>2. s.room - n \in Nat
      BY <2>2, <2>4
    <3>3. p = [s EXCEPT !.out = s.out \o sentNow, !.room = s.room - n, !.r = [s.r EXCEPT !.buf = left]]
      BY <2>2
    <3> HIDE DEF p
    <3> QED BY <2>2, <2>6, <3>1, <3>2, <3>3
  <2> HIDE DEF p
  <2>10. /\ p.r.client = c /\ p.r.status = s.r.status /\ p.r.pending = s.r.pending
         /\ p.r.head = s.r.head /\ p.r.body = s.r.body /\ p.r.buf = left
    BY <2>2, <2>9 DEF Connection
  <2>11. IsSending(p, c)
    BY <2>2, <2>7, <2>9, <2>10 DEF IsSending, Own
  <2>12. Len(p.out) + p.room = Len(s.out) + s.room
    BY <2>2, <2>4, <2>6, <2>9
  <2>13. HeadsLeft(p) <= HeadsLeft(s)
    <3>1. Count(sentNow, HeadUnits) \in Nat /\ Count(rest, HeadUnits) \in Nat /\ Count(s.out, HeadUnits) \in Nat
      BY <2>2, <2>5, CountType
    <3>2. HeadsDue(s.r) = (IF s.r.status = "send_head" THEN 1 ELSE 0) + Count(data, HeadUnits)
      BY <1>2 DEF HeadsDue, data
    <3>3. HeadsDue(p.r) = (IF s.r.status = "send_head" THEN 1 ELSE 0)
                            + (IF left = NoBuf THEN 0 ELSE Count(rest, HeadUnits))
      BY <2>7, <2>10 DEF HeadsDue
    <3> QED BY <2>5, <2>6, <2>9, <3>1, <3>2, <3>3 DEF HeadsLeft
  <2> QED BY <2>1, <2>10, <2>11, <2>12, <2>13 DEF SendsOn
<1> QED BY <1>1, <1>2

\* get_send_buf
LEMMA PullOK ==
  ASSUME NEW c \in Clients, NEW s, IsSending(s, c)
  PROVE  SendsOn(s, Pull(s), c)
<1>1. /\ s \in [r : Connection, out : Seq(OwnUnits(c)), room : Nat]
      /\ s.r \in Connection /\ s.r.client = c /\ Own(s.r)
      /\ s.r.head \in {c, Blank} /\ s.r.body \in Seq({<<c, "body">>})
      /\ HeadsLeft(s) \in Nat /\ Count(s.out, HeadUnits) \in Nat
  BY HeadsDueType DEF IsSending, Own
<1>2. CASE s.r.buf = NoBuf /\ s.r.status = "send_head" /\ ~s.r.pending
  <2> DEFINE b == <<<<<<s.r.head, "head">>>>>>
             r == [s.r EXCEPT !.buf = b, !.status = "send_body"]
             p == [s EXCEPT !.r = r]
  <2>1. Pull(s) = p
    <3>1. Pull(s) = [s EXCEPT !.r.buf = b, !.r.status = "send_body"]
      BY <1>2 DEF Pull
    <3> QED BY <1>1, <3>1
  <2>2. /\ b \in Seq(Seq(OwnUnits(c))) /\ b # NoBuf /\ b[1] = <<<<s.r.head, "head">>>>
        /\ <<s.r.head, "head">> \in HeadUnits
    <3> DEFINE u == <<s.r.head, "head">>
    <3>1. u \in OwnUnits(c) /\ u \in HeadUnits
      BY <1>1, OwnUnitFacts
    <3> HIDE DEF u
    <3>2. <<u>> \in Seq(OwnUnits(c))
      BY <3>1
    <3>3. <<<<u>>>> \in Seq(Seq(OwnUnits(c))) /\ <<<<u>>>> # NoBuf /\ <<<<u>>>>[1] = <<u>>
      BY <3>2 DEF NoBuf
    <3> QED BY <3>1, <3>3 DEF u
  <2>3. b \in Seq(Seq(Units))
    BY <2>2, OwnSeqs
  <2>4. Count(b[1], HeadUnits) = 1
    BY <2>2, CountOne
  <2> HIDE DEF b
  <2>5. /\ r \in Connection /\ r.client = c /\ r.buf = b /\ r.status = "send_body"
        /\ r.pending = s.r.pending /\ r.head = s.r.head /\ r.body = s.r.body
    BY <1>1, <2>3 DEF Connection
  <2> HIDE DEF r
  <2>6. p.r = r /\ p.out = s.out /\ p.room = s.room /\ IsSending(p, c)
    BY <1>1, <2>2, <2>5 DEF IsSending, Own
  <2> HIDE DEF p
  <2>7. HeadsDue(s.r) = 1 /\ HeadsDue(p.r) = 1
    <3>1. p.r.status = "send_body" /\ p.r.buf = b
      BY <2>5, <2>6
    <3>2. HeadsDue(p.r) = 1
      BY <2>2, <2>4, <3>1 DEF HeadsDue
    <3>3. HeadsDue(s.r) = 1
      BY <1>2 DEF HeadsDue
    <3> QED BY <3>2, <3>3
  <2> QED BY <1>1, <2>1, <2>5, <2>6, <2>7 DEF SendsOn, HeadsLeft
<1>3. CASE s.r.buf = NoBuf /\ s.r.status = "send_body"
  <2> DEFINE b == <<s.r.body>>
             r == [s.r EXCEPT !.buf = b, !.body = <<>>, !.status = "recv_head", !.head = Blank]
             p == [s EXCEPT !.r = r]
  <2>1. Pull(s) = p
    <3>1. Pull(s) = [s EXCEPT !.r.buf = b, !.r.body = <<>>, !.r.status = "recv_head",
                              !.r.head = Blank]
      BY <1>3 DEF Pull
    <3> QED BY <1>1, <3>1
  <2>2. s.r.body \in Seq(OwnUnits(c))
    BY <1>1, OwnSeqs
  <2>3. b \in Seq(Seq(OwnUnits(c))) /\ b # NoBuf /\ b[1] = s.r.body
    BY <2>2 DEF NoBuf
  <2>4. b \in Seq(Seq(Units))
    BY <2>3, OwnSeqs
  <2>5. Count(b[1], HeadUnits) = 0
    <3>1. {i \in DOMAIN s.r.body : s.r.body[i] \in HeadUnits} = {}
      <4>1. \A i \in DOMAIN s.r.body : s.r.body[i] = <<c, "body">>
        BY <1>1, ElementOfSeq, LenProperties
      <4> QED BY <4>1, OwnUnitFacts
    <3> QED BY <2>3, <3>1, FS_EmptySet DEF Count
  <2> HIDE DEF b
  <2>6. /\ r \in Connection /\ r.client = c /\ r.buf = b /\ r.status = "recv_head"
        /\ r.pending = s.r.pending /\ r.head = Blank /\ r.body = <<>>
    <3>1. <<>> \in Seq(Units)
      BY EmptySeq
    <3> QED BY <1>1, <2>4, <3>1 DEF Connection
  <2> HIDE DEF r
  <2>7. p.r = r /\ p.out = s.out /\ p.room = s.room /\ IsSending(p, c)
    <3>1. <<>> \in Seq({<<c, "body">>})
      BY EmptySeq
    <3> QED BY <1>1, <2>3, <2>6, <3>1 DEF IsSending, Own
  <2> HIDE DEF p
  <2>8. HeadsDue(s.r) = 0 /\ HeadsDue(p.r) = 0
    BY <1>3, <2>3, <2>5, <2>6, <2>7 DEF HeadsDue
  <2> QED BY <1>1, <2>1, <2>6, <2>7, <2>8 DEF SendsOn, HeadsLeft
<1>4. CASE /\ ~(s.r.buf = NoBuf /\ s.r.status = "send_head" /\ ~s.r.pending)
           /\ ~(s.r.buf = NoBuf /\ s.r.status = "send_body")
  <2>1. Pull(s) = s
    BY <1>4 DEF Pull
  <2> QED BY <1>1, <2>1 DEF SendsOn
<1> QED BY <1>2, <1>3, <1>4

\* The loop of real_send.
LEMMA RealSendOK ==
  ASSUME NEW c \in Clients, NEW s, IsSending(s, c)
  PROVE  SendsOn(s, RealSend(s), c)
<1> DEFINE a == Push(s)
           b == Pull(a)
           d == Push(b)
           e == Pull(d)
           f == Push(e)
<1>0. \A x, y, z : SendsOn(x, y, c) /\ SendsOn(y, z, c) /\ IsSending(x, c) => SendsOn(x, z, c)
  <2>1. ASSUME NEW x, NEW y, NEW z, SendsOn(x, y, c), SendsOn(y, z, c), IsSending(x, c)
        PROVE  SendsOn(x, z, c)
    <3>1. IsSending(x, c) /\ IsSending(y, c) /\ IsSending(z, c)
      BY <2>1 DEF SendsOn
    <3>2. HeadsLeft(x) \in Nat /\ HeadsLeft(y) \in Nat /\ HeadsLeft(z) \in Nat
      BY <3>1, HeadsDueType
    <3> QED BY <2>1, <3>1, <3>2 DEF SendsOn
  <2> QED BY <2>1
<1>1. SendsOn(s, a, c)
  BY PushOK
<1> HIDE DEF a
<1>2. SendsOn(a, b, c)
  BY <1>1, PullOK DEF SendsOn
<1> HIDE DEF b
<1>3. SendsOn(b, d, c)
  BY <1>2, PushOK DEF SendsOn
<1> HIDE DEF d
<1>4. SendsOn(d, e, c)
  BY <1>3, PullOK DEF SendsOn
<1> HIDE DEF e
<1>5. SendsOn(e, f, c)
  BY <1>4, PushOK DEF SendsOn
<1>6. RealSend(s) = f
  BY DEF RealSend, a, b, d, e
<1> HIDE DEF f
<1>7. SendsOn(s, b, c)
  BY <1>0, <1>1, <1>2
<1>8. SendsOn(s, d, c)
  BY <1>0, <1>3, <1>7
<1>9. SendsOn(s, e, c)
  BY <1>0, <1>4, <1>8
<1> QED BY <1>0, <1>5, <1>6, <1>9
-----------------------------------------------------------------------------
(* Connect messages and replies in a queue. *)

\* A message is appended to a queue.
LEMMA QueueGrows ==
  ASSUME NEW S, NEW q \in Seq(S), NEW m \in S
  PROVE  /\ Range(Append(q, m)) = Range(q) \cup {m}
         /\ Connecting(Append(q, m)) = Connecting(q) \cup (IF IsConnect(m) THEN {m.client} ELSE {})
         /\ ConnectsOnce(q) /\ (IsConnect(m) => m.client \notin Connecting(q))
              => ConnectsOnce(Append(q, m))
<1> DEFINE p == Append(q, m)
<1>1. /\ Range(p) = Range(q) \cup {m}
      /\ Len(q) \in Nat /\ DOMAIN q = 1..Len(q) /\ DOMAIN p = 1..(Len(q) + 1)
      /\ \A i \in 1..Len(q) : p[i] = q[i]
      /\ p[Len(q) + 1] = m
  BY AppendFacts
<1> HIDE DEF p
<1>2. Connecting(p) = Connecting(q) \cup (IF IsConnect(m) THEN {m.client} ELSE {})
  BY <1>1 DEF Connecting
<1>3. ASSUME ConnectsOnce(q), IsConnect(m) => m.client \notin Connecting(q)
      PROVE  ConnectsOnce(p)
  <2>1. ASSUME NEW i \in DOMAIN p, NEW j \in DOMAIN p, IsConnect(p[i]), IsConnect(p[j]),
               p[i].client = p[j].client, i # j, i < j
        PROVE  FALSE
    <3>1. i \in DOMAIN q /\ p[i] = q[i] /\ q[i].client \in Connecting(q)
      BY <1>1, <2>1 DEF Connecting, Range
    <3>2. CASE j \in DOMAIN q
      BY <1>1, <1>3, <2>1, <3>1, <3>2 DEF ConnectsOnce
    <3>3. CASE j = Len(q) + 1
      BY <1>1, <1>3, <2>1, <3>1, <3>3
    <3> QED BY <1>1, <3>2, <3>3
  <2>2. \A i, j \in DOMAIN p : i # j => i < j \/ j < i
    BY <1>1
  <2> QED BY <2>1, <2>2 DEF ConnectsOnce
<1> QED BY <1>1, <1>2, <1>3 DEF p

\* The first message is taken off a queue.
LEMMA QueueShrinks ==
  ASSUME NEW S, NEW q \in Seq(S), q # <<>>
  PROVE  /\ Tail(q) \in Seq(S) /\ Head(q) \in S /\ Head(q) \in Range(q)
         /\ Range(q) = Range(Tail(q)) \cup {Head(q)}
         /\ Connecting(Tail(q)) \subseteq Connecting(q)
         /\ IsConnect(Head(q)) => Head(q).client \in Connecting(q)
         /\ ConnectsOnce(q) => /\ ConnectsOnce(Tail(q))
                               /\ IsConnect(Head(q)) => Head(q).client \notin Connecting(Tail(q))
<1> DEFINE p == Tail(q)
           h == Head(q)
<1>1. /\ p \in Seq(S) /\ h \in S /\ h \in Range(q) /\ Range(q) = Range(p) \cup {h}
      /\ Len(q) \in Nat /\ Len(q) >= 1 /\ DOMAIN q = 1..Len(q)
      /\ DOMAIN p = 1..(Len(q) - 1) /\ h = q[1]
      /\ \A i \in 1..(Len(q) - 1) : i + 1 \in 1..Len(q) /\ p[i] = q[i + 1]
  BY TailFacts
<1> HIDE DEF p, h
<1>2. Connecting(p) \subseteq Connecting(q) /\ (IsConnect(h) => h.client \in Connecting(q))
  BY <1>1 DEF Connecting
<1>3. ASSUME ConnectsOnce(q) PROVE ConnectsOnce(p)
  <2>1. ASSUME NEW i \in DOMAIN p, NEW j \in DOMAIN p, IsConnect(p[i]), IsConnect(p[j]),
               p[i].client = p[j].client
        PROVE  i = j
    <3>1. i + 1 = j + 1
      BY <1>1, <1>3, <2>1 DEF ConnectsOnce
    <3> QED BY <1>1, <3>1
  <2> QED BY <2>1 DEF ConnectsOnce
<1>4. ASSUME ConnectsOnce(q), IsConnect(h), h.client \in Connecting(p) PROVE FALSE
  <2>1. PICK m \in Range(p) : IsConnect(m) /\ m.client = h.client
    BY <1>4 DEF Connecting
  <2>2. PICK i \in DOMAIN p : p[i] = m
    BY DEF Range
  <2>3. i + 1 \in DOMAIN q /\ q[i + 1] = m /\ 1 \in DOMAIN q /\ i + 1 # 1
    BY <1>1, <2>2
  <2> QED BY <1>1, <1>4, <2>1, <2>3 DEF ConnectsOnce
<1> QED BY <1>1, <1>2, <1>3, <1>4 DEF p, h

\* Nothing is in an empty queue.
LEMMA QueueEmpty ==
  Range(<<>>) = {} /\ Connecting(<<>>) = {} /\ ConnectsOnce(<<>>)
<1>1. Range(<<>>) = {}
  BY DEF Range
<1> QED BY <1>1 DEF Connecting, ConnectsOnce

\* Replies to a connection, by the messages in the queue.
LEMMA InRepliesByRange ==
  ASSUME NEW q, NEW id
  PROVE  InRepliesOf(q, id) <=> \E m \in Range(q) : m.op = "reply" /\ m.id = id
BY DEF InRepliesOf, Range
-----------------------------------------------------------------------------
(* What a step has to show of each part of the invariant. *)

\* The connections are as they were, or fewer, and have the same clients.
SameClients ==
  /\ DOMAIN conn' \subseteq DOMAIN conn
  /\ \A id \in DOMAIN conn' : conn'[id].client = conn[id].client

\* A client keeps its connection when connect messages only go.
LEMMA ConnectionsKept ==
  ASSUME OneConnectionEach, UNCHANGED nextId, SameClients, Opened' = Opened,
         ConnectsOnce(mailbox'), ConnectsOnce(batch'),
         Connecting(mailbox') \cap Connecting(batch') = {},
         Connecting(mailbox') \cup Connecting(batch') \subseteq Awaited,
         nextId \in Nat
  PROVE  OneConnectionEach'
<1>1. Awaited' \subseteq Awaited
  BY DEF Awaited
<1>2. IsFiniteSet(Opened \ Awaited) /\ IsFiniteSet(Opened \ Awaited')
  <2>1. IsFiniteSet(Clients) /\ Opened \ Awaited \in SUBSET Clients
        /\ Opened \ Awaited' \in SUBSET Clients
    BY HttpAssumption DEF Opened
  <2> QED BY <2>1, FS_Subset
<1>3. Cardinality(Opened \ Awaited) <= Cardinality(Opened \ Awaited')
  BY <1>1, <1>2, FS_Subset
<1>4. Cardinality(Opened \ Awaited) \in Nat /\ Cardinality(Opened \ Awaited') \in Nat
  BY <1>2, FS_CardinalityType
<1>5. nextId' - 1 <= Cardinality(Opened' \ Awaited')
  BY <1>3, <1>4 DEF OneConnectionEach
<1>6. Awaited' \subseteq Opened'
  BY <1>1 DEF OneConnectionEach
<1>7. \A id \in DOMAIN conn' : conn'[id].client \in Opened' \ Awaited'
  BY <1>1 DEF OneConnectionEach, SameClients
<1>8. \A id, other \in DOMAIN conn' : conn'[id].client = conn'[other].client => id = other
  BY DEF OneConnectionEach, SameClients
<1> QED BY <1>5, <1>6, <1>7, <1>8 DEF OneConnectionEach

\* Replies and questions go on fitting their connections.
LEMMA FitsKept ==
  ASSUME RepliesFit, SameClients,
         \A m \in Range(asked') : m \in Range(asked) \/ Fits(m)',
         \A m \in Range(mailbox') \cup Range(batch') :
           m.op = "reply" => m \in Range(mailbox) \cup Range(batch) \/ Fits(m)'
  PROVE  RepliesFit'
<1>1. \A m : Fits(m) => Fits(m)'
  BY DEF Fits, SameClients
<1> QED BY <1>1 DEF RepliesFit

\* The replies under way to a client are a number, and so are the heads it has.
LEMMA CountsTyped ==
  ASSUME TypeOK, NEW c \in Clients
  PROVE  /\ Count(wire[c], HeadUnits) \in Nat /\ Count(mailbox, RepliesTo(c)) \in Nat
         /\ Count(batch, RepliesTo(c)) \in Nat /\ Replies(c) \in Nat /\ replied[c] \in Nat
         /\ HeadsAndReplies(c) = Count(wire[c], HeadUnits) + Replies(c)
<1>1. /\ wire[c] \in Seq(Units) /\ mailbox \in Seq(Message) /\ batch \in Seq(Message)
      /\ replied[c] \in Nat
  BY DEF TypeOK, ClientsTyped, QueuesTyped
<1>2. Count(wire[c], HeadUnits) \in Nat
  BY <1>1, CountType
<1>3. Count(mailbox, RepliesTo(c)) \in Nat
  BY <1>1, CountType
<1>4. Count(batch, RepliesTo(c)) \in Nat
  BY <1>1, CountType
<1> QED BY <1>1, <1>2, <1>3, <1>4 DEF HeadsAndReplies, Replies

\* The count of heads and replies goes on when no head is sent and no reply posted.
LEMMA CountedKept ==
  ASSUME TypeOK, QueuesTyped', OwnSent, RepliesCounted, UNCHANGED <<wire, replied>>,
         DOMAIN conn' \subseteq DOMAIN conn, \A id \in DOMAIN conn' : conn'[id] = conn[id],
         \A c \in Clients : Replies(c)' <= Replies(c)
  PROVE  RepliesCounted'
<1> SUFFICES ASSUME NEW c \in Clients, Kind[c] = "stop"
             PROVE  /\ HeadsAndReplies(c)' <= replied'[c]
                    /\ \A id \in DOMAIN conn' : conn'[id].client = c =>
                         HeadsAndReplies(c)' + HeadsDue(conn'[id]) <= replied'[c]
  BY DEF RepliesCounted
<1>1. /\ Count(wire[c], HeadUnits) \in Nat /\ Replies(c) \in Nat /\ replied[c] \in Nat
      /\ HeadsAndReplies(c) = Count(wire[c], HeadUnits) + Replies(c)
  BY CountsTyped
<1>2. HeadsAndReplies(c)' <= HeadsAndReplies(c) /\ HeadsAndReplies(c)' \in Nat
  <2>1. HeadsAndReplies(c)' = Count(wire[c], HeadUnits) + Count(mailbox', RepliesTo(c))
                                + Count(batch', RepliesTo(c))
    BY DEF HeadsAndReplies, RepliesTo
  <2>2. Count(mailbox', RepliesTo(c)) \in Nat /\ Count(batch', RepliesTo(c)) \in Nat
    BY CountType DEF QueuesTyped
  <2>3. Replies(c)' = Count(mailbox', RepliesTo(c)) + Count(batch', RepliesTo(c))
    BY DEF Replies, RepliesTo
  <2> QED BY <1>1, <2>1, <2>2, <2>3
<1>3. \A id \in DOMAIN conn' : HeadsDue(conn'[id]) \in Nat /\ conn'[id] = conn[id]
  BY HeadsDueNat DEF TypeOK, ConnsTyped, OwnSent
<1> QED BY <1>1, <1>2, <1>3 DEF RepliesCounted

TimerLists(tm, id) == {i \in {0, 1} : \E t \in tm[i] : t[2] = id}
UnderWay(id) ==
  (\E i \in DOMAIN asked : asked[i].id = id) \/ InRepliesOf(mailbox, id) \/ InRepliesOf(batch, id)

\* Timers stay armed when the connections that are left keep their lists.
LEMMA TimersKept ==
  ASSUME IdleTimerArmed, DOMAIN conn' \subseteq DOMAIN conn,
         \A id \in DOMAIN conn' : TimerLists(timers', id) = TimerLists(timers, id)
  PROVE  IdleTimerArmed'
BY DEF IdleTimerArmed, TimerLists

\* An answer stays under way when no connection starts to wait and nothing about
\* one that waits is lost.
LEMMA AnswersKept ==
  ASSUME AnswerUnderWayUntilReset, DOMAIN conn' \subseteq DOMAIN conn,
         \A id \in DOMAIN conn' :
           conn'[id].pending => (conn[id].pending /\ (UnderWay(id) => UnderWay(id)')) \/ UnderWay(id)',
         (\A c \in Clients : client'[c] # "rst") => (\A c \in Clients : client[c] # "rst")
  PROVE  AnswerUnderWayUntilReset'
BY DEF AnswerUnderWayUntilReset, AnswerUnderWay, UnderWay, InRepliesOf

\* A step that leaves connections and messages alone.
LEMMA QuietKeeps ==
  ASSUME HttpInv, UNCHANGED <<wire, conn, nextId, mailbox, batch, asked, replied>>,
         ClientsTyped', LoopTyped', Opened' = Opened,
         (\A c \in Clients : client'[c] # "rst") => (\A c \in Clients : client[c] # "rst"),
         \A id \in DOMAIN conn : TimerLists(timers', id) = TimerLists(timers, id)
  PROVE  HttpInv'
<1>1. TypeOK'
  BY DEF HttpInv, TypeOK, ConnsTyped, QueuesTyped, Issued, Message, Question
<1>2. OneConnectionEach'
  BY DEF HttpInv, OneConnectionEach, Awaited
<1>3. RepliesFit' /\ OwnSent'
  BY DEF HttpInv, RepliesFit, Fits, OwnSent
<1>4. RepliesCounted'
  BY DEF HttpInv, RepliesCounted, HeadsAndReplies
<1>5. IdleTimerArmed'
  BY TimersKept DEF HttpInv
<1>6. AnswerUnderWayUntilReset'
  BY DEF HttpInv, AnswerUnderWayUntilReset, AnswerUnderWay
<1> QED BY <1>1, <1>2, <1>3, <1>4, <1>5, <1>6 DEF HttpInv

\* The client sends a part of its request, reads what its socket holds, or closes
\* or resets the connection.
LEMMA ClientKeeps ==
  ASSUME HttpInv, NEW c \in Clients,
         \/ ClientSends(c) \/ ClientReads(c)
         \/ ClientLeaves(c, "fin") \/ ClientLeaves(c, "rst")
  PROVE  HttpInv'
<1>1. /\ UNCHANGED <<wire, conn, nextId, mailbox, batch, asked, replied>>
      /\ UNCHANGED <<phase, ready, doomed, timers, current>>
  BY DEF ClientSends, ClientReads, ClientLeaves, loopVars, timerVars, managerVars
<1>2. ClientsTyped /\ LoopTyped
  BY DEF HttpInv, TypeOK
<1>3. LoopTyped'
  BY <1>1, <1>2 DEF LoopTyped, Issued
<1>4. CASE ClientSends(c)
  <2>1. /\ sent[c] < Len(Request[c]) /\ sent' = [sent EXCEPT ![c] = @ + 1]
        /\ unread' = [unread EXCEPT ![c] = Append(@, Request[c][sent[c] + 1])]
        /\ UNCHANGED <<client, wire, held>>
    BY <1>4 DEF ClientSends
  <2>2. sent[c] \in Nat /\ Request[c] \in Seq(Parts) /\ Len(Request[c]) \in Nat
    BY <1>2, HttpAssumption, LenProperties DEF ClientsTyped, Parts
  <2>3. Request[c][sent[c] + 1] \in Parts
    <3>1. sent[c] + 1 \in 1..Len(Request[c])
      BY <2>1, <2>2
    <3> QED BY <2>2, <3>1, ElementOfSeq
  <2>4. unread' \in [Clients -> Seq(Parts)]
    BY <1>2, <2>1, <2>3, AppendProperties DEF ClientsTyped
  <2>5. sent' \in [Clients -> Nat] /\ \A d \in Clients : sent'[d] <= Len(Request[d])
    BY <1>2, <2>1, <2>2 DEF ClientsTyped
  <2>6. ClientsTyped'
    BY <1>2, <2>1, <2>4, <2>5 DEF ClientsTyped
  <2>7. Opened' = Opened
    BY <2>1 DEF Opened
  <2> QED BY <1>1, <1>3, <2>1, <2>6, <2>7, QuietKeeps
<1>5. CASE ClientReads(c)
  <2>1. held' = [held EXCEPT ![c] = 0] /\ UNCHANGED <<client, sent, unread, wire>>
    BY <1>5 DEF ClientReads
  <2>2. ClientsTyped'
    BY <1>2, <2>1, HttpAssumption DEF ClientsTyped
  <2>3. Opened' = Opened
    BY <2>1 DEF Opened
  <2> QED BY <1>1, <1>3, <2>1, <2>2, <2>3, QuietKeeps
<1>6. ASSUME NEW how \in {"fin", "rst"}, ClientLeaves(c, how) PROVE HttpInv'
  <2>1. /\ client[c] \in {"open", "fin"} /\ client' = [client EXCEPT ![c] = how]
        /\ UNCHANGED <<sent, unread, wire, held>>
    BY <1>6 DEF ClientLeaves
  <2>2. ClientsTyped'
    BY <1>2, <2>1 DEF ClientsTyped
  <2>3. Opened' = Opened
    BY <1>2, <2>1 DEF Opened, ClientsTyped
  <2>4. (\A d \in Clients : client'[d] # "rst") => (\A d \in Clients : client[d] # "rst")
    BY <1>2, <2>1 DEF ClientsTyped
  <2> QED BY <1>1, <1>3, <2>2, <2>3, <2>4, QuietKeeps
<1> QED BY <1>4, <1>5, <1>6

\* Time passes: the timers stay in their lists.
LEMMA TickKeeps ==
  ASSUME HttpInv, Tick
  PROVE  HttpInv'
<1> DEFINE Older(t) == <<IF t[1] > 0 THEN t[1] - 1 ELSE 0, t[2]>>
<1>1. /\ timers' = [i \in {0, 1} |-> {Older(t) : t \in timers[i]}]
      /\ UNCHANGED <<client, sent, unread, wire, held, conn, nextId, mailbox, batch, phase, ready,
                     doomed, current, asked, replied>>
  BY DEF Tick, clientVars, loopVars, managerVars
<1>2. LoopTyped /\ ClientsTyped
  BY DEF HttpInv, TypeOK
<1>3. \A t \in (0..IdleTime) \X Issued : Older(t) \in (0..IdleTime) \X Issued /\ Older(t)[2] = t[2]
  BY HttpAssumption
<1>4. \A i \in {0, 1} : timers[i] \subseteq (0..IdleTime) \X Issued
  BY <1>2 DEF LoopTyped
<1> HIDE DEF Older
<1>5. LoopTyped'
  <2>1. timers' \in [{0, 1} -> SUBSET ((0..IdleTime) \X Issued)]
    BY <1>1, <1>3, <1>4
  <2> QED BY <1>1, <1>2, <2>1 DEF LoopTyped, Issued
<1>6. \A id : TimerLists(timers', id) = TimerLists(timers, id)
  BY <1>1, <1>3, <1>4 DEF TimerLists
<1>7. ClientsTyped' /\ Opened' = Opened
  BY <1>1, <1>2 DEF ClientsTyped, Opened
<1> QED BY <1>1, <1>5, <1>6, <1>7, QuietKeeps

\* epoll_wait returns, or a connection's handler throws.
LEMMA PollKeeps ==
  ASSUME HttpInv, EpollWait \/ \E id \in DOMAIN conn : ConnThrows(id)
  PROVE  HttpInv'
<1>1. UNCHANGED <<client, sent, unread, wire, held, conn, nextId, mailbox, batch, timers, current,
                  asked, replied>>
  BY DEF EpollWait, ConnThrows, clientVars, timerVars, managerVars
<1>2. LoopTyped /\ ClientsTyped /\ ConnsTyped
  BY DEF HttpInv, TypeOK
<1>3. DOMAIN conn \subseteq ConnIds
  <2>1. Cardinality(Clients) \in Nat
    BY HttpAssumption, FS_CardinalityType
  <2> QED BY <1>2, <2>1 DEF ConnsTyped, Issued, ConnIds
<1>4. LoopTyped'
  <2>1. CASE EpollWait
    BY <1>1, <1>2, <1>3, <2>1 DEF EpollWait, LoopTyped, Issued
  <2>2. CASE \E id \in DOMAIN conn : ConnThrows(id)
    BY <1>1, <1>2, <1>3, <2>2 DEF ConnThrows, LoopTyped, Issued
  <2> QED BY <2>1, <2>2
<1>5. ClientsTyped' /\ Opened' = Opened
  BY <1>1, <1>2 DEF ClientsTyped, Opened
<1> QED BY <1>1, <1>4, <1>5, QuietKeeps

\* An answer under way, by the questions and messages there are.
LEMMA UnderWayByRange ==
  ASSUME NEW id
  PROVE  /\ UnderWay(id) <=> \/ \E m \in Range(asked) : m.id = id
                             \/ \E m \in Range(mailbox) \cup Range(batch) : m.op = "reply" /\ m.id = id
         /\ UnderWay(id)' <=> \/ \E m \in Range(asked') : m.id = id
                              \/ \E m \in Range(mailbox') \cup Range(batch') : m.op = "reply" /\ m.id = id
<1>1. UnderWay(id) <=> \/ \E m \in Range(asked) : m.id = id
                       \/ \E m \in Range(mailbox) \cup Range(batch) : m.op = "reply" /\ m.id = id
  BY DEF UnderWay, InRepliesOf, Range
<1>2. UnderWay(id)' <=> \/ \E m \in Range(asked') : m.id = id
                        \/ \E m \in Range(mailbox') \cup Range(batch') : m.op = "reply" /\ m.id = id
  BY DEF UnderWay, InRepliesOf, Range
<1> QED BY <1>1, <1>2

\* Which messages are replies to a client.
LEMMA ReplyKinds ==
  ASSUME NEW m \in Message, NEW c \in Clients, nextId \in Nat
  PROVE  m \in RepliesTo(c) <=> m.op = "reply" /\ m.client = c
<1>1. CASE m \in [op : {"connect"}, client : Clients]
  BY <1>1 DEF RepliesTo
<1>2. CASE m \in [op : {"reply"}, id : Issued, client : Clients]
  <2>1. m.id \in Nat
    BY <1>2 DEF Issued
  <2>2. m = [op |-> m.op, id |-> m.id, client |-> m.client]
    BY <1>2
  <2> QED BY <1>2, <2>1, <2>2 DEF RepliesTo
<1> QED BY <1>1, <1>2 DEF Message

\* A client connects: the listen thread posts a connect message for it.
LEMMA ClientConnectsKeeps ==
  ASSUME HttpInv, NEW c \in Clients, ClientConnects(c)
  PROVE  HttpInv'
<1> DEFINE m == [op |-> "connect", client |-> c]
<1>1. /\ client[c] = "new" /\ client' = [client EXCEPT ![c] = "open"]
      /\ mailbox' = Append(mailbox, m)
      /\ UNCHANGED <<sent, unread, wire, held, conn, nextId, batch, phase, ready, doomed, timers,
                     current, asked, replied>>
  BY DEF ClientConnects, loopVars, timerVars, managerVars
<1>2. ClientsTyped /\ ConnsTyped /\ QueuesTyped /\ LoopTyped /\ OneConnectionEach
  BY DEF HttpInv, TypeOK
<1>3. m \in Message /\ mailbox \in Seq(Message) /\ nextId \in Nat
  BY <1>2 DEF Message, QueuesTyped, ConnsTyped
<1>4. IsConnect(m) /\ m.client = c /\ m.op # "reply"
  BY DEF IsConnect
<1> HIDE DEF m
<1>5. Opened' = Opened \cup {c} /\ c \notin Opened
  BY <1>1, <1>2 DEF Opened, ClientsTyped
<1>6. /\ Range(mailbox') = Range(mailbox) \cup {m}
      /\ Connecting(mailbox') = Connecting(mailbox) \cup {c}
      /\ ConnectsOnce(mailbox')
  <2>1. c \notin Connecting(mailbox) /\ ConnectsOnce(mailbox)
    BY <1>2, <1>5 DEF OneConnectionEach, Awaited
  <2> QED BY <1>1, <1>3, <1>4, <2>1, QueueGrows
<1>7. TypeOK'
  <2>1. mailbox' \in Seq(Message)
    BY <1>1, <1>3, AppendFacts
  <2>2. ClientsTyped'
    BY <1>1, <1>2 DEF ClientsTyped
  <2>3. ConnsTyped' /\ QueuesTyped' /\ LoopTyped'
    BY <1>1, <1>2, <2>1 DEF ConnsTyped, QueuesTyped, LoopTyped, Issued, Message, Question
  <2> QED BY <2>2, <2>3 DEF TypeOK
<1>8. OneConnectionEach'
  <2>1. Awaited' = Awaited \cup {c} /\ c \notin Awaited /\ Awaited \subseteq Opened
    BY <1>1, <1>2, <1>5, <1>6 DEF Awaited, OneConnectionEach
  <2>2. Opened' \ Awaited' = Opened \ Awaited
    BY <1>5, <2>1
  <2>3. nextId' - 1 <= Cardinality(Opened' \ Awaited')
    BY <1>1, <1>2, <2>2 DEF OneConnectionEach
  <2>4. Connecting(mailbox') \cap Connecting(batch') = {}
    BY <1>1, <1>2, <1>6, <2>1 DEF OneConnectionEach, Awaited
  <2> QED BY <1>1, <1>2, <1>5, <1>6, <2>1, <2>2, <2>3, <2>4 DEF OneConnectionEach
<1>9. RepliesFit' /\ OwnSent'
  BY <1>1, <1>4, <1>6 DEF HttpInv, RepliesFit, Fits, OwnSent
<1>10. RepliesCounted'
  <2>1. ASSUME NEW d \in Clients PROVE Replies(d)' <= Replies(d)
    <3>1. m \notin RepliesTo(d)
      BY <1>3, <1>4, ReplyKinds
    <3>2. Count(mailbox', RepliesTo(d)) = Count(mailbox, RepliesTo(d)) + 0
      BY <1>1, <1>3, <3>1, CountAppend
    <3>3. Count(mailbox, RepliesTo(d)) \in Nat /\ Count(batch, RepliesTo(d)) \in Nat
      BY CountsTyped DEF HttpInv
    <3> QED BY <1>1, <3>2, <3>3 DEF Replies, RepliesTo
  <2>2. QueuesTyped'
    BY <1>7 DEF TypeOK
  <2> QED BY <1>1, <2>1, <2>2, CountedKept DEF HttpInv
<1>11. IdleTimerArmed'
  BY <1>1 DEF HttpInv, IdleTimerArmed
<1>12. AnswerUnderWayUntilReset'
  <2>1. \A id : UnderWay(id) => UnderWay(id)'
    BY <1>1, <1>6, UnderWayByRange
  <2>2. (\A d \in Clients : client'[d] # "rst") => (\A d \in Clients : client[d] # "rst")
    BY <1>1, <1>2 DEF ClientsTyped
  <2> QED BY <1>1, <2>1, <2>2, AnswersKept DEF HttpInv
<1> QED BY <1>7, <1>8, <1>9, <1>10, <1>11, <1>12 DEF HttpInv

\* The manager answers a question: the reply names the connection and the client
\* the question came from.
LEMMA ManagerRepliesKeeps ==
  ASSUME HttpInv, ManagerReplies
  PROVE  HttpInv'
<1> DEFINE q == Head(asked)
           m == [op |-> "reply", id |-> q.id, client |-> q.client]
<1>1. /\ asked # <<>> /\ mailbox' = Append(mailbox, m) /\ asked' = Tail(asked)
      /\ replied' = [replied EXCEPT ![q.client] = @ + 1]
      /\ UNCHANGED <<client, sent, unread, wire, held, conn, nextId, batch, phase, ready, doomed,
                     timers, current>>
  BY DEF ManagerReplies, clientVars, loopVars, timerVars
<1>2. ClientsTyped /\ ConnsTyped /\ QueuesTyped /\ LoopTyped /\ OneConnectionEach /\ RepliesFit
  BY DEF HttpInv, TypeOK
<1>3. /\ q \in Question /\ Tail(asked) \in Seq(Question) /\ q \in Range(asked)
      /\ Range(asked) = Range(asked') \cup {q}
  BY <1>1, <1>2, TailFacts DEF QueuesTyped
<1>4. /\ q.client \in Clients /\ m \in Message /\ mailbox \in Seq(Message) /\ nextId \in Nat
      /\ m.op = "reply" /\ m.id = q.id /\ m.client = q.client /\ ~IsConnect(m)
  BY <1>2, <1>3 DEF Question, Message, QueuesTyped, ConnsTyped, IsConnect
<1> HIDE DEF q, m
<1>5. /\ Range(mailbox') = Range(mailbox) \cup {m}
      /\ Connecting(mailbox') = Connecting(mailbox)
      /\ ConnectsOnce(mailbox')
  <2>1. ConnectsOnce(mailbox)
    BY <1>2 DEF OneConnectionEach
  <2>2. /\ Range(Append(mailbox, m)) = Range(mailbox) \cup {m}
        /\ Connecting(Append(mailbox, m))
             = Connecting(mailbox) \cup (IF IsConnect(m) THEN {m.client} ELSE {})
        /\ ConnectsOnce(mailbox) /\ (IsConnect(m) => m.client \notin Connecting(mailbox))
             => ConnectsOnce(Append(mailbox, m))
    BY <1>4, QueueGrows
  <2> QED BY <1>1, <1>4, <2>1, <2>2
<1>6. TypeOK'
  <2>1. mailbox' \in Seq(Message)
    BY <1>1, <1>4, AppendFacts
  <2>2. replied' \in [Clients -> Nat]
    BY <1>1, <1>2, <1>4 DEF QueuesTyped
  <2>3. ClientsTyped'
    BY <1>1, <1>2 DEF ClientsTyped
  <2>4. ConnsTyped' /\ QueuesTyped' /\ LoopTyped'
    BY <1>1, <1>2, <1>3, <2>1, <2>2 DEF ConnsTyped, QueuesTyped, LoopTyped, Issued, Message, Question
  <2> QED BY <2>3, <2>4 DEF TypeOK
<1>7. OneConnectionEach'
  <2>1. Opened' = Opened /\ Awaited' = Awaited
    BY <1>1, <1>5 DEF Opened, Awaited
  <2> QED BY <1>1, <1>2, <1>5, <2>1 DEF OneConnectionEach
<1>8. RepliesFit' /\ OwnSent'
  <2>1. Fits(m)
    BY <1>2, <1>3, <1>4 DEF RepliesFit, Fits
  <2> QED BY <1>1, <1>2, <1>3, <1>5, <2>1 DEF HttpInv, RepliesFit, Fits, OwnSent
<1>9. RepliesCounted'
  <2> SUFFICES ASSUME NEW c \in Clients, Kind[c] = "stop"
               PROVE  /\ HeadsAndReplies(c)' <= replied'[c]
                      /\ \A id \in DOMAIN conn' : conn'[id].client = c =>
                           HeadsAndReplies(c)' + HeadsDue(conn'[id]) <= replied'[c]
    BY DEF RepliesCounted
  <2> DEFINE one == IF c = q.client THEN 1 ELSE 0
  <2>1. m \in RepliesTo(c) <=> c = q.client
    BY <1>4, ReplyKinds
  <2>2. Count(mailbox', RepliesTo(c)) = Count(mailbox, RepliesTo(c)) + one
    <3>1. Count(mailbox', RepliesTo(c)) =
            Count(mailbox, RepliesTo(c)) + (IF m \in RepliesTo(c) THEN 1 ELSE 0)
      BY <1>1, <1>4, CountAppend
    <3> QED BY <2>1, <3>1
  <2>3. replied'[c] = replied[c] + one
    BY <1>1, <1>2, <1>4 DEF QueuesTyped
  <2>4. /\ Count(wire[c], HeadUnits) \in Nat /\ Count(mailbox, RepliesTo(c)) \in Nat
        /\ Count(batch, RepliesTo(c)) \in Nat /\ replied[c] \in Nat
    BY CountsTyped DEF HttpInv
  <2>5. HeadsAndReplies(c)' = HeadsAndReplies(c) + one /\ HeadsAndReplies(c) \in Nat
    <3>1. HeadsAndReplies(c)' = Count(wire[c], HeadUnits) + Count(mailbox', RepliesTo(c))
                                  + Count(batch, RepliesTo(c))
      BY <1>1 DEF HeadsAndReplies, RepliesTo
    <3> QED BY <2>2, <2>4, <3>1 DEF HeadsAndReplies
  <2>6. \A id \in DOMAIN conn : HeadsDue(conn[id]) \in Nat
    BY HeadsDueNat DEF HttpInv, TypeOK, ConnsTyped, OwnSent
  <2>7. one \in Nat
    OBVIOUS
  <2> HIDE DEF one
  <2> QED BY <1>1, <2>3, <2>4, <2>5, <2>6, <2>7 DEF HttpInv, RepliesCounted
<1>10. IdleTimerArmed'
  BY <1>1 DEF HttpInv, IdleTimerArmed
<1>11. AnswerUnderWayUntilReset'
  <2>1. \A id : UnderWay(id) => UnderWay(id)'
    BY <1>1, <1>3, <1>4, <1>5, UnderWayByRange
  <2> QED BY <1>1, <2>1, AnswersKept DEF HttpInv
<1> QED BY <1>6, <1>7, <1>8, <1>9, <1>10, <1>11 DEF HttpInv

\* The thread takes the channel's messages.
LEMMA TakeBatchKeeps ==
  ASSUME HttpInv, TakeBatch
  PROVE  HttpInv'
<1>1. /\ batch = <<>> /\ batch' = mailbox /\ mailbox' = <<>> /\ ready' \subseteq ready
      /\ UNCHANGED <<client, sent, unread, wire, held, conn, nextId, phase, doomed, timers, current,
                     asked, replied>>
  BY DEF TakeBatch, clientVars, timerVars, managerVars
<1>2. ClientsTyped /\ ConnsTyped /\ QueuesTyped /\ LoopTyped /\ OneConnectionEach
  BY DEF HttpInv, TypeOK
<1>3. /\ Range(batch) = {} /\ Connecting(batch) = {} /\ ConnectsOnce(batch)
      /\ Range(mailbox') = {} /\ Connecting(mailbox') = {} /\ ConnectsOnce(mailbox')
  BY <1>1, QueueEmpty
<1>4. TypeOK'
  <2>1. mailbox' \in Seq(Message)
    BY <1>1, EmptySeq
  <2>2. ClientsTyped'
    BY <1>1, <1>2 DEF ClientsTyped
  <2>3. ConnsTyped' /\ QueuesTyped' /\ LoopTyped'
    BY <1>1, <1>2, <2>1 DEF ConnsTyped, QueuesTyped, LoopTyped, Issued, Message, Question
  <2> QED BY <2>2, <2>3 DEF TypeOK
<1>5. OneConnectionEach'
  <2>1. Opened' = Opened /\ Awaited' = Awaited
    BY <1>1, <1>3 DEF Opened, Awaited
  <2> QED BY <1>1, <1>2, <1>3, <2>1 DEF OneConnectionEach
<1>6. RepliesFit' /\ OwnSent'
  BY <1>1, <1>3 DEF HttpInv, RepliesFit, Fits, OwnSent
<1>7. RepliesCounted'
  <2>1. ASSUME NEW d \in Clients PROVE Replies(d)' <= Replies(d)
    <3>1. Count(batch, RepliesTo(d)) = 0 /\ Count(mailbox', RepliesTo(d)) = 0
      BY <1>1, CountType, EmptySeq
    <3>2. Count(mailbox, RepliesTo(d)) \in Nat
      BY CountsTyped DEF HttpInv
    <3>3. Replies(d)' = Count(mailbox', RepliesTo(d)) + Count(mailbox, RepliesTo(d))
      BY <1>1 DEF Replies, RepliesTo
    <3> QED BY <3>1, <3>2, <3>3 DEF Replies
  <2>2. QueuesTyped'
    BY <1>4 DEF TypeOK
  <2> QED BY <1>1, <2>1, <2>2, CountedKept DEF HttpInv
<1>8. IdleTimerArmed'
  BY <1>1 DEF HttpInv, IdleTimerArmed
<1>9. AnswerUnderWayUntilReset'
  <2>1. \A id : UnderWay(id) => UnderWay(id)'
    BY <1>1, <1>3, UnderWayByRange
  <2> QED BY <1>1, <2>1, AnswersKept DEF HttpInv
<1> QED BY <1>4, <1>5, <1>6, <1>7, <1>8, <1>9 DEF HttpInv
-----------------------------------------------------------------------------
(* A connection's handler sends. *)

\* A handler starts with nothing sent and the room its client's socket has.
LEMMA SendingOK ==
  ASSUME TypeOK, OwnSent, NEW id \in DOMAIN conn
  PROVE  /\ conn[id] \in Connection /\ conn[id].client \in Clients /\ Own(conn[id])
         /\ IsSending(Sending(id), conn[id].client)
         /\ Sending(id).r = conn[id] /\ Sending(id).out = <<>>
         /\ Sending(id).room = SockRoom - held[conn[id].client]
         /\ Len(Sending(id).out) + Sending(id).room = SockRoom - held[conn[id].client]
<1>1. conn[id] \in Connection /\ Own(conn[id])
  BY DEF TypeOK, ConnsTyped, OwnSent
<1>2. conn[id].client \in Clients
  BY <1>1 DEF Connection
<1>3. SockRoom - held[conn[id].client] \in Nat
  BY <1>2, HttpAssumption DEF TypeOK, ClientsTyped
<1>4. <<>> \in Seq(OwnUnits(conn[id].client)) /\ Len(<<>>) = 0
  BY EmptySeq
<1> QED BY <1>1, <1>2, <1>3, <1>4 DEF Sending, IsSending

\* A handler is done: its connection has changed, its client's socket has taken
\* the units sent, and the others are as they were.
LEMMA SentFacts ==
  ASSUME TypeOK, OwnSent, NEW id \in DOMAIN conn, NEW c \in Clients, c = conn[id].client,
         NEW s, IsSending(s, c), Len(s.out) + s.room = SockRoom - held[c],
         Sent(id, s)
  PROVE  /\ DOMAIN conn' = DOMAIN conn /\ conn'[id] = s.r
         /\ \A other \in DOMAIN conn : other # id => conn'[other] = conn[other]
         /\ conn' \in [DOMAIN conn' -> Connection] /\ SameClients
         /\ wire' \in [Clients -> Seq(Units)] /\ held' \in [Clients -> 0..SockRoom]
         /\ OwnSent'
         /\ \A d \in Clients : d # c => wire'[d] = wire[d]
         /\ Count(wire'[c], HeadUnits) = Count(wire[c], HeadUnits) + Count(s.out, HeadUnits)
<1>1. /\ s.r \in Connection /\ s.r.client = c /\ Own(s.r)
      /\ s.out \in Seq(OwnUnits(c)) /\ s.room \in Nat /\ Len(s.out) \in Nat
  BY LenProperties DEF IsSending
<1>2. /\ conn' = [conn EXCEPT ![id] = s.r] /\ wire' = [wire EXCEPT ![c] = @ \o s.out]
      /\ held' = [held EXCEPT ![c] = @ + Len(s.out)]
  BY <1>1 DEF Sent
<1>3. /\ conn \in [DOMAIN conn -> Connection] /\ wire \in [Clients -> Seq(Units)]
      /\ held \in [Clients -> 0..SockRoom] /\ SockRoom \in Nat
      /\ \A d \in Clients : wire[d] \in Seq(OwnUnits(d))
      /\ \A o \in DOMAIN conn : Own(conn[o])
  BY HttpAssumption DEF TypeOK, ConnsTyped, ClientsTyped, OwnSent
<1>4. /\ DOMAIN conn' = DOMAIN conn /\ conn'[id] = s.r
      /\ \A other \in DOMAIN conn : other # id => conn'[other] = conn[other]
      /\ conn' \in [DOMAIN conn' -> Connection]
  BY <1>1, <1>2, <1>3
<1>5. SameClients
  BY <1>1, <1>4 DEF SameClients
<1>6. /\ wire'[c] = wire[c] \o s.out /\ \A d \in Clients : d # c => wire'[d] = wire[d]
      /\ DOMAIN wire' = Clients /\ wire' = [d \in Clients |-> wire'[d]]
  BY <1>2, <1>3
<1>7. wire[c] \o s.out \in Seq(OwnUnits(c))
  BY <1>1, <1>3, ConcatProperties
<1>8. \A d \in Clients : wire'[d] \in Seq(OwnUnits(d))
  BY <1>3, <1>6, <1>7
<1>9. wire' \in [Clients -> Seq(Units)]
  <2>1. \A d \in Clients : wire'[d] \in Seq(Units)
    BY <1>8, OwnSeqs
  <2> QED BY <1>6, <2>1
<1>10. held' \in [Clients -> 0..SockRoom]
  <2>1. held[c] \in 0..SockRoom
    BY <1>3
  <2>2. held[c] + Len(s.out) \in 0..SockRoom
    BY <1>1, <1>3, <2>1
  <2> QED BY <1>2, <1>3, <2>2
<1>11. OwnSent'
  <2>1. \A o \in DOMAIN conn' : Own(conn'[o])
    BY <1>1, <1>3, <1>4
  <2> QED BY <1>8, <2>1 DEF OwnSent
<1>12. Count(wire'[c], HeadUnits) = Count(wire[c], HeadUnits) + Count(s.out, HeadUnits)
  BY <1>1, <1>3, <1>6, CountConcat
<1> QED BY <1>4, <1>5, <1>6, <1>9, <1>10, <1>11, <1>12

\* The count of heads and replies goes on when the heads a handler has sent or has
\* yet to send, and the replies there still are, are not more than they were.
LEMMA CountedSent ==
  ASSUME TypeOK, OwnSent, OneConnectionEach, RepliesCounted, QueuesTyped', UNCHANGED replied,
         NEW id \in DOMAIN conn, NEW c \in Clients, c = conn[id].client,
         NEW s, IsSending(s, c), Len(s.out) + s.room = SockRoom - held[c],
         Sent(id, s),
         Kind[c] = "stop" => HeadsLeft(s) + Replies(c)' <= HeadsDue(conn[id]) + Replies(c),
         \A d \in Clients : d # c => Replies(d)' <= Replies(d)
  PROVE  RepliesCounted'
<1>1. /\ DOMAIN conn' = DOMAIN conn /\ conn'[id] = s.r
      /\ \A other \in DOMAIN conn : other # id => conn'[other] = conn[other]
      /\ SameClients
      /\ \A d \in Clients : d # c => wire'[d] = wire[d]
      /\ Count(wire'[c], HeadUnits) = Count(wire[c], HeadUnits) + Count(s.out, HeadUnits)
  BY SentFacts
<1> SUFFICES ASSUME NEW d \in Clients, Kind[d] = "stop"
             PROVE  /\ HeadsAndReplies(d)' <= replied'[d]
                    /\ \A o \in DOMAIN conn' : conn'[o].client = d =>
                         HeadsAndReplies(d)' + HeadsDue(conn'[o]) <= replied'[d]
  BY DEF RepliesCounted
<1>2. /\ Count(wire[d], HeadUnits) \in Nat /\ Replies(d) \in Nat /\ replied[d] \in Nat
      /\ HeadsAndReplies(d) = Count(wire[d], HeadUnits) + Replies(d)
  BY CountsTyped
<1>3. /\ HeadsAndReplies(d)' = Count(wire'[d], HeadUnits) + Replies(d)' /\ Replies(d)' \in Nat
  <2>1. /\ HeadsAndReplies(d)' = Count(wire'[d], HeadUnits) + Count(mailbox', RepliesTo(d))
                                  + Count(batch', RepliesTo(d))
        /\ Replies(d)' = Count(mailbox', RepliesTo(d)) + Count(batch', RepliesTo(d))
    BY DEF HeadsAndReplies, Replies, RepliesTo
  <2>2. Count(mailbox', RepliesTo(d)) \in Nat /\ Count(batch', RepliesTo(d)) \in Nat
    BY CountType DEF QueuesTyped
  <2>3. Count(wire'[d], HeadUnits) \in Nat
    <3>1. wire'[d] \in Seq(Units)
      BY SentFacts
    <3> QED BY <3>1, CountType
  <2> QED BY <2>1, <2>2, <2>3
<1>4. \A o \in DOMAIN conn : HeadsDue(conn[o]) \in Nat
  BY HeadsDueNat DEF TypeOK, ConnsTyped, OwnSent
<1>5. /\ HeadsAndReplies(d) <= replied[d]
      /\ \A o \in DOMAIN conn : conn[o].client = d =>
           HeadsAndReplies(d) + HeadsDue(conn[o]) <= replied[d]
  BY DEF RepliesCounted
<1>6. CASE d # c
  <2>1. \A o \in DOMAIN conn' : conn'[o].client = d => conn'[o] = conn[o] /\ o \in DOMAIN conn
    BY <1>1, <1>6 DEF SameClients
  <2>2. wire'[d] = wire[d] /\ Replies(d)' <= Replies(d)
    BY <1>1, <1>6
  <2>3. HeadsAndReplies(d)' <= HeadsAndReplies(d) /\ HeadsAndReplies(d)' \in Nat
    BY <1>2, <1>3, <2>2
  <2> QED BY <1>2, <1>4, <1>5, <2>1, <2>3
<1>7. CASE d = c
  <2>1. \A o \in DOMAIN conn' : conn'[o].client = d => o = id
    BY <1>1, <1>7 DEF SameClients, OneConnectionEach
  <2>2. HeadsDue(s.r) \in Nat /\ Count(s.out, HeadUnits) \in Nat
        /\ HeadsLeft(s) = Count(s.out, HeadUnits) + HeadsDue(s.r)
    BY HeadsDueType DEF HeadsLeft
  <2>3. HeadsAndReplies(d) + HeadsDue(conn[id]) <= replied[d] /\ HeadsDue(conn[id]) \in Nat
    BY <1>4, <1>5, <1>7
  <2>4. HeadsAndReplies(d)' + HeadsDue(s.r) <= replied[d] /\ HeadsAndReplies(d)' <= replied[d]
    BY <1>1, <1>2, <1>3, <1>7, <2>2, <2>3
  <2> QED BY <1>1, <2>1, <2>4
<1> QED BY <1>6, <1>7
-----------------------------------------------------------------------------
(* The messages of a batch. *)

\* A connect message: the new connection has an id no message or timer names.
LEMMA HandleConnectKeeps ==
  ASSUME HttpInv, HandleConnect
  PROVE  HttpInv'
<1> DEFINE h == Head(batch)
           c == h.client
           new == [client |-> c, status |-> "recv_head", pending |-> FALSE, parts |-> <<>>,
                   recvBody |-> <<>>, buf |-> NoBuf, body |-> <<>>, head |-> Blank]
<1>1. /\ batch # <<>> /\ h.op = "connect" /\ batch' = Tail(batch) /\ nextId' = nextId + 1
      /\ conn' = [id \in DOMAIN conn \cup {nextId} |-> IF id = nextId THEN new ELSE conn[id]]
      /\ timers' = [timers EXCEPT ![current] = @ \cup {<<IdleTime, nextId>>}]
      /\ UNCHANGED <<client, sent, unread, wire, held, mailbox, phase, ready, doomed, current,
                     asked, replied>>
  BY DEF HandleConnect, Receives, GenId, clientVars, managerVars
<1>2. ClientsTyped /\ ConnsTyped /\ QueuesTyped /\ LoopTyped /\ OneConnectionEach /\ RepliesFit
  BY DEF HttpInv, TypeOK
<1>3. /\ nextId \in Nat /\ nextId >= 1 /\ nextId \notin Issued /\ nextId \notin DOMAIN conn
      /\ Issued' = Issued \cup {nextId}
  BY <1>1, <1>2 DEF ConnsTyped, Issued
<1>4. /\ Tail(batch) \in Seq(Message) /\ h \in Message /\ h \in Range(batch)
      /\ Range(batch) = Range(batch') \cup {h} /\ Connecting(batch') \subseteq Connecting(batch)
      /\ IsConnect(h) /\ c \in Connecting(batch)
      /\ ConnectsOnce(batch') /\ c \notin Connecting(batch')
  <2>1. batch \in Seq(Message) /\ ConnectsOnce(batch) /\ IsConnect(h)
    BY <1>1, <1>2 DEF QueuesTyped, OneConnectionEach, IsConnect
  <2>2. /\ Tail(batch) \in Seq(Message) /\ h \in Message /\ h \in Range(batch)
        /\ Range(batch) = Range(Tail(batch)) \cup {h}
        /\ Connecting(Tail(batch)) \subseteq Connecting(batch)
        /\ c \in Connecting(batch) /\ ConnectsOnce(Tail(batch)) /\ c \notin Connecting(Tail(batch))
    BY <1>1, <2>1, QueueShrinks
  <2> QED BY <1>1, <2>1, <2>2
<1>5. c \in Clients /\ c \in Opened /\ c \in Awaited /\ c \notin Connecting(mailbox)
  BY <1>2, <1>4 DEF OneConnectionEach, Opened, Awaited
<1>6. /\ new \in Connection /\ Own(new) /\ HeadsDue(new) = 0 /\ new.client = c /\ ~new.pending
  <2>1. /\ <<>> \in Seq(Parts) /\ <<>> \in Seq(Units) /\ <<>> \in Seq(Seq(Units))
        /\ <<>> \in Seq({<<c, "body">>}) /\ <<>> \in Seq(Seq(OwnUnits(c)))
    BY EmptySeq
  <2>2. new \in Connection
    BY <1>5, <2>1 DEF Connection, NoBuf
  <2> QED BY <2>1, <2>2 DEF Own, HeadsDue, NoBuf
<1> HIDE DEF new
<1>7. /\ DOMAIN conn' = DOMAIN conn \cup {nextId} /\ conn'[nextId] = new
      /\ \A id \in DOMAIN conn : conn'[id] = conn[id]
      /\ conn' \in [DOMAIN conn' -> Connection]
  BY <1>1, <1>2, <1>3, <1>6 DEF ConnsTyped
<1>8. /\ Awaited' \subseteq Awaited \ {c} /\ Opened' = Opened
  BY <1>1, <1>4, <1>5 DEF Awaited, Opened
<1>9. nextId' - 1 <= Cardinality(Opened' \ Awaited') /\ nextId' - 1 <= Cardinality(Clients)
  <2> DEFINE A == Opened \ Awaited
             B == Opened' \ Awaited'
  <2>1. /\ IsFiniteSet(Clients) /\ A \in SUBSET Clients /\ B \in SUBSET Clients
        /\ A \cup {c} \subseteq B /\ c \notin A
    BY <1>5, <1>8, HttpAssumption DEF Opened
  <2> HIDE DEF A, B
  <2>2. IsFiniteSet(A) /\ IsFiniteSet(B)
    BY <2>1, FS_Subset
  <2>3. IsFiniteSet(A \cup {c}) /\ Cardinality(A \cup {c}) = Cardinality(A) + 1
    BY <2>1, <2>2, FS_AddElement
  <2>4. Cardinality(A \cup {c}) <= Cardinality(B)
    BY <2>1, <2>2, FS_Subset
  <2>5. Cardinality(B) <= Cardinality(Clients)
    BY <2>1, FS_Subset
  <2>6. Cardinality(A) \in Nat /\ Cardinality(B) \in Nat /\ Cardinality(Clients) \in Nat
    BY <2>1, <2>2, FS_CardinalityType
  <2>7. nextId - 1 <= Cardinality(A)
    BY <1>2 DEF OneConnectionEach, A
  <2> QED BY <1>1, <1>3, <2>3, <2>4, <2>5, <2>6, <2>7 DEF B
<1>10. TypeOK'
  <2>1. Message \subseteq Message' /\ Question \subseteq Question'
    BY <1>3 DEF Message, Question
  <2>2. Seq(Message) \subseteq Seq(Message') /\ Seq(Question) \subseteq Seq(Question')
    BY <2>1, SeqMonotonic
  <2>3. ClientsTyped'
    BY <1>1, <1>2 DEF ClientsTyped
  <2>4. ConnsTyped'
    <3>1. DOMAIN conn' \subseteq Issued'
      BY <1>2, <1>3, <1>7 DEF ConnsTyped
    <3>2. nextId' \in Nat \ {0}
      BY <1>1, <1>3
    <3> QED BY <1>7, <1>9, <3>1, <3>2 DEF ConnsTyped
  <2>5. QueuesTyped'
    <3>1. mailbox' \in Seq(Message) /\ batch' \in Seq(Message) /\ asked' \in Seq(Question)
          /\ replied' \in [Clients -> Nat]
      BY <1>1, <1>2, <1>4 DEF QueuesTyped
    <3> QED BY <2>2, <3>1 DEF QueuesTyped
  <2>6. LoopTyped'
    <3>1. <<IdleTime, nextId>> \in (0..IdleTime) \X Issued'
      BY <1>3, HttpAssumption
    <3>2. (0..IdleTime) \X Issued \subseteq (0..IdleTime) \X Issued'
      BY <1>3
    <3>3. timers' \in [{0, 1} -> SUBSET ((0..IdleTime) \X Issued')]
      BY <1>1, <1>2, <3>1, <3>2 DEF LoopTyped
    <3> QED BY <1>1, <1>2, <3>3 DEF LoopTyped
  <2> QED BY <2>3, <2>4, <2>5, <2>6 DEF TypeOK
<1>11. OneConnectionEach'
  <2>1. \A id \in DOMAIN conn : conn[id].client \in Opened \ Awaited
    BY <1>2 DEF OneConnectionEach
  <2>2. \A id \in DOMAIN conn' : conn'[id].client \in Opened' \ Awaited'
    BY <1>5, <1>6, <1>7, <1>8, <2>1
  <2>3. \A id, other \in DOMAIN conn' : conn'[id].client = conn'[other].client => id = other
    <3>1. \A id, other \in DOMAIN conn : conn[id].client = conn[other].client => id = other
      BY <1>2 DEF OneConnectionEach
    <3>2. \A id \in DOMAIN conn : conn[id].client # c
      BY <1>5, <2>1
    <3> QED BY <1>6, <1>7, <3>1, <3>2
  <2>4. Connecting(mailbox') \cap Connecting(batch') = {} /\ ConnectsOnce(mailbox')
    BY <1>1, <1>2, <1>4 DEF OneConnectionEach
  <2>5. Awaited' \subseteq Opened'
    BY <1>2, <1>8 DEF OneConnectionEach
  <2> QED BY <1>4, <1>9, <2>2, <2>3, <2>4, <2>5 DEF OneConnectionEach
<1>12. RepliesFit'
  <2>1. \A m \in Range(asked) : m.id \in Issued
    <3>1. \A i \in DOMAIN asked : asked[i] \in Question
      BY <1>2, ElementOfSeq, LenProperties DEF QueuesTyped
    <3> QED BY <3>1 DEF Question, Range
  <2>2. \A m \in Range(mailbox) \cup Range(batch) : m.op = "reply" => m.id \in Issued
    <3>1. \A i \in DOMAIN mailbox : mailbox[i] \in Message
      BY <1>2, ElementOfSeq, LenProperties DEF QueuesTyped
    <3>2. \A i \in DOMAIN batch : batch[i] \in Message
      BY <1>2, ElementOfSeq, LenProperties DEF QueuesTyped
    <3>3. \A m \in Message : m.op = "reply" => m.id \in Issued
      BY DEF Message
    <3> QED BY <3>1, <3>2, <3>3 DEF Range
  <2>3. \A m : m.id \in Issued /\ Fits(m) => Fits(m)'
    BY <1>3, <1>7 DEF Fits
  <2> QED BY <1>1, <1>2, <1>4, <2>1, <2>2, <2>3 DEF RepliesFit
<1>13. OwnSent'
  BY <1>1, <1>6, <1>7 DEF HttpInv, OwnSent
<1>14. RepliesCounted'
  <2> SUFFICES ASSUME NEW d \in Clients, Kind[d] = "stop"
               PROVE  /\ HeadsAndReplies(d)' <= replied'[d]
                      /\ \A id \in DOMAIN conn' : conn'[id].client = d =>
                           HeadsAndReplies(d)' + HeadsDue(conn'[id]) <= replied'[d]
    BY DEF RepliesCounted
  <2>1. h \notin RepliesTo(d)
    BY <1>1, <1>3, <1>4, ReplyKinds
  <2>2. Count(batch, RepliesTo(d)) = Count(batch', RepliesTo(d)) + 0
    <3>1. batch \in Seq(Message)
      BY <1>2 DEF QueuesTyped
    <3>2. Count(batch, RepliesTo(d))
            = Count(Tail(batch), RepliesTo(d)) + (IF h \in RepliesTo(d) THEN 1 ELSE 0)
      BY <1>1, <3>1, CountTail
    <3> QED BY <1>1, <2>1, <3>2
  <2>3. Count(batch', RepliesTo(d)) \in Nat
    BY <1>1, <1>4, CountType
  <2>4. HeadsAndReplies(d)' = HeadsAndReplies(d) /\ HeadsAndReplies(d) \in Nat
    <3>1. /\ Count(wire[d], HeadUnits) \in Nat /\ Count(mailbox, RepliesTo(d)) \in Nat
      BY CountsTyped DEF HttpInv
    <3>2. HeadsAndReplies(d)' = Count(wire[d], HeadUnits) + Count(mailbox, RepliesTo(d))
                                  + Count(batch', RepliesTo(d))
      BY <1>1 DEF HeadsAndReplies, RepliesTo
    <3> QED BY <2>2, <2>3, <3>1, <3>2 DEF HeadsAndReplies
  <2> QED BY <1>1, <1>6, <1>7, <2>4 DEF HttpInv, RepliesCounted
<1>15. IdleTimerArmed'
  <2>1. \A i \in {0, 1} : \A t \in timers[i] : t[2] \in Issued
    BY <1>2 DEF LoopTyped
  <2>2. current \in {0, 1} /\ timers'[current] = timers[current] \cup {<<IdleTime, nextId>>}
        /\ \A i \in {0, 1} : i # current => timers'[i] = timers[i]
    BY <1>1, <1>2 DEF LoopTyped
  <2>3. TimerLists(timers', nextId) = {current}
    <3>1. \E t \in timers'[current] : t[2] = nextId
      <4>1. <<IdleTime, nextId>> \in timers'[current] /\ <<IdleTime, nextId>>[2] = nextId
        BY <2>2
      <4> QED BY <4>1
    <3>2. \A i \in {0, 1} : i # current => ~\E t \in timers'[i] : t[2] = nextId
      BY <1>3, <2>1, <2>2
    <3> QED BY <2>2, <3>1, <3>2 DEF TimerLists
  <2>4. Cardinality(TimerLists(timers', nextId)) = 1
    BY <2>3, FS_Singleton
  <2>5. \A id \in DOMAIN conn : TimerLists(timers', id) = TimerLists(timers, id)
    BY <1>3, <2>2 DEF TimerLists
  <2> QED BY <1>7, <2>4, <2>5 DEF HttpInv, IdleTimerArmed, TimerLists
<1>16. AnswerUnderWayUntilReset'
  <2>1. \A id : UnderWay(id) => UnderWay(id)'
    BY <1>1, <1>4, UnderWayByRange
  <2>2. ASSUME \A d \in Clients : client'[d] # "rst", NEW id \in DOMAIN conn', conn'[id].pending
        PROVE  UnderWay(id)'
    <3>1. id \in DOMAIN conn /\ conn[id].pending
      BY <1>6, <1>7, <2>2
    <3>2. UnderWay(id)
      BY <1>1, <2>2, <3>1 DEF HttpInv, AnswerUnderWayUntilReset, AnswerUnderWay, UnderWay
    <3> QED BY <2>1, <3>2
  <2> QED BY <2>2 DEF AnswerUnderWayUntilReset, AnswerUnderWay, UnderWay, InRepliesOf
<1> QED BY <1>10, <1>11, <1>12, <1>13, <1>14, <1>15, <1>16 DEF HttpInv

\* A response's body is the client's.
LEMMA BodyOfType ==
  ASSUME NEW c \in Clients
  PROVE  BodyOf(c) \in Seq({<<c, "body">>}) /\ BodyOf(c) \in Seq(Units)
<1>1. BodyOf(c) \in Seq({<<c, "body">>})
  <2>1. BodyLen \in Nat
    BY HttpAssumption
  <2>2. BodyOf(c) \in [1..BodyLen -> {<<c, "body">>}]
    BY DEF BodyOf
  <2> QED BY <2>1, <2>2 DEF Seq
<1> QED BY <1>1, OwnSeqs

\* send_async_response makes one more head due, and nothing is sent by it yet.
LEMMA AnsweredOK ==
  ASSUME TypeOK, OwnSent, NEW q, q.id \in DOMAIN conn, conn[q.id].client = q.client
  PROVE  /\ q.client \in Clients /\ IsSending(Answered(q), q.client)
         /\ Answered(q).out = <<>>
         /\ Len(Answered(q).out) + Answered(q).room = SockRoom - held[q.client]
         /\ ~Answered(q).r.pending
         /\ HeadsLeft(Answered(q)) <= HeadsDue(conn[q.id]) + 1
<1> DEFINE c == q.client
           s == Sending(q.id)
           r == [s.r EXCEPT !.body = BodyOf(c), !.head = c, !.pending = FALSE,
                            !.status = "send_head"]
           a == [s EXCEPT !.r = r]
<1>1. /\ c \in Clients /\ conn[q.id] \in Connection /\ Own(conn[q.id]) /\ IsSending(s, c)
      /\ s.r = conn[q.id] /\ s.out = <<>> /\ Len(s.out) + s.room = SockRoom - held[c]
  BY SendingOK
<1> HIDE DEF s
<1>2. /\ s \in [r : Connection, out : Seq(OwnUnits(c)), room : Nat] /\ s.r \in Connection
      /\ s.r.client = c /\ s.r.buf \in Seq(Seq(OwnUnits(c)))
  BY <1>1 DEF IsSending, Own
<1>3. BodyOf(c) \in Seq({<<c, "body">>}) /\ BodyOf(c) \in Seq(Units)
  BY <1>1, BodyOfType
<1>4. /\ r \in Connection /\ r.client = c /\ r.body = BodyOf(c) /\ r.head = c /\ r.pending = FALSE
      /\ r.status = "send_head" /\ r.buf = s.r.buf
  BY <1>1, <1>2, <1>3 DEF Connection
<1>5. Own(r)
  BY <1>2, <1>3, <1>4 DEF Own
<1>6. Answered(q) = a
  <2>1. Answered(q) = [s EXCEPT !.r.body = BodyOf(c), !.r.head = c, !.r.pending = FALSE,
                                !.r.status = "send_head"]
    BY DEF Answered, s
  <2> QED BY <1>2, <2>1
<1> HIDE DEF r
<1>7. a.r = r /\ a.out = <<>> /\ a.room = s.room /\ IsSending(a, c)
  BY <1>1, <1>2, <1>4, <1>5 DEF IsSending
<1>8. HeadsLeft(a) <= HeadsDue(conn[q.id]) + 1
  <2>1. Count(a.out, HeadUnits) = 0
    BY <1>7, CountType, EmptySeq
  <2>2. HeadsDue(r) = 1 + (IF s.r.buf = NoBuf THEN 0 ELSE Count(s.r.buf[1], HeadUnits))
    BY <1>4 DEF HeadsDue
  <2>3. s.r.buf # NoBuf => Count(s.r.buf[1], HeadUnits) \in Nat
    <3>1. s.r.buf # NoBuf => s.r.buf[1] \in Seq(OwnUnits(c))
      BY <1>1, HeadsDueType
    <3> QED BY <3>1, CountType
  <2>4. HeadsDue(s.r) >= (IF s.r.buf = NoBuf THEN 0 ELSE Count(s.r.buf[1], HeadUnits))
        /\ HeadsDue(s.r) \in Nat
    BY <2>3 DEF HeadsDue
  <2> QED BY <1>1, <1>7, <2>1, <2>2, <2>3, <2>4 DEF HeadsLeft
<1> QED BY <1>1, <1>4, <1>6, <1>7, <1>8

\* A reply is taken off the batch, alone or with all that follows it.
LEMMA ReplyTaken ==
  ASSUME TypeOK, OneConnectionEach, Receives("reply"), UNCHANGED <<nextId, mailbox>>,
         batch' = Tail(batch) \/ batch' = <<>>
  PROVE  /\ batch' \in Seq(Message) /\ Head(batch) \in Message /\ Head(batch) \in Range(batch)
         /\ Head(batch).op = "reply" /\ Head(batch).client \in Clients
         /\ batch' = Tail(batch) => Range(batch) = Range(batch') \cup {Head(batch)}
         /\ Range(batch') \subseteq Range(batch)
         /\ Connecting(batch') \subseteq Connecting(batch) /\ ConnectsOnce(batch')
         /\ \A d \in Clients :
              /\ Replies(d)' \in Nat /\ Replies(d) \in Nat /\ Replies(d)' <= Replies(d)
              /\ d = Head(batch).client => Replies(d)' + 1 <= Replies(d)
<1> DEFINE h == Head(batch)
<1>1. /\ batch # <<>> /\ h.op = "reply" /\ batch \in Seq(Message) /\ ConnectsOnce(batch)
      /\ nextId \in Nat
  BY DEF Receives, TypeOK, QueuesTyped, ConnsTyped, OneConnectionEach
<1>2. /\ Tail(batch) \in Seq(Message) /\ h \in Message /\ h \in Range(batch)
      /\ Range(batch) = Range(Tail(batch)) \cup {h}
      /\ Connecting(Tail(batch)) \subseteq Connecting(batch) /\ ConnectsOnce(Tail(batch))
  BY <1>1, QueueShrinks
<1>3. h.client \in Clients
  BY <1>2 DEF Message
<1> HIDE DEF h
<1>4. batch' \in Seq(Message)
  BY <1>2, EmptySeq
<1>5. /\ Range(batch') \subseteq Range(batch)
      /\ Connecting(batch') \subseteq Connecting(batch) /\ ConnectsOnce(batch')
  BY <1>2, QueueEmpty
<1>6. ASSUME NEW d \in Clients
      PROVE  /\ Replies(d)' \in Nat /\ Replies(d) \in Nat /\ Replies(d)' <= Replies(d)
             /\ d = h.client => Replies(d)' + 1 <= Replies(d)
  <2> DEFINE R == RepliesTo(d)
  <2>1. Count(mailbox, R) \in Nat /\ Count(batch, R) \in Nat /\ Replies(d) \in Nat
    BY CountsTyped
  <2>2. Count(batch, R) = Count(Tail(batch), R) + (IF h \in R THEN 1 ELSE 0)
    BY <1>1, CountTail DEF h
  <2>3. h \in R <=> h.client = d
    BY <1>1, <1>2, ReplyKinds
  <2>4. Count(Tail(batch), R) \in Nat /\ Count(<<>>, R) = 0
    BY <1>2, CountType, EmptySeq
  <2>5. Replies(d)' = Count(mailbox, R) + Count(batch', R)
    BY DEF Replies, RepliesTo
  <2>6. Replies(d) = Count(mailbox, R) + Count(batch, R)
    BY DEF Replies
  <2> HIDE DEF R
  <2>7. CASE batch' = Tail(batch)
    <3>1. Count(batch', R) = Count(Tail(batch), R)
      BY <2>7
    <3> QED BY <2>1, <2>2, <2>3, <2>4, <2>5, <2>6, <3>1
  <2>8. CASE batch' = <<>>
    <3>1. Count(batch', R) = 0
      BY <2>4, <2>8
    <3> QED BY <2>1, <2>2, <2>3, <2>4, <2>5, <2>6, <3>1
  <2> QED BY <2>7, <2>8
<1> QED BY <1>1, <1>2, <1>3, <1>4, <1>5, <1>6 DEF h

\* A reply reaches its connection, which sends what it can.
LEMMA ReplyReaches ==
  ASSUME HttpInv, Receives("reply"), Head(batch).id \in DOMAIN conn,
         batch' = Tail(batch) \/ (batch' = <<>> /\ \E d \in Clients : client[d] = "rst"),
         NEW s, SendsOn(Answered(Head(batch)), s, conn[Head(batch).id].client),
         Sent(Head(batch).id, s),
         UNCHANGED <<client, sent, unread, nextId, mailbox, phase, ready, doomed, timers, current,
                     asked, replied>>
  PROVE  HttpInv'
<1> DEFINE q == Head(batch)
           id == q.id
           a == Answered(q)
<1>1. TypeOK /\ OwnSent /\ OneConnectionEach /\ RepliesFit /\ RepliesCounted /\ IdleTimerArmed
      /\ AnswerUnderWayUntilReset
  BY DEF HttpInv
<1>0. PICK c \in Clients : c = q.client
  BY <1>1, ReplyTaken
<1>2. /\ batch' \in Seq(Message) /\ q \in Range(batch) /\ q.op = "reply"
      /\ batch' = Tail(batch) => Range(batch) = Range(batch') \cup {q}
      /\ Range(batch') \subseteq Range(batch)
      /\ Connecting(batch') \subseteq Connecting(batch) /\ ConnectsOnce(batch')
      /\ \A d \in Clients :
           /\ Replies(d)' \in Nat /\ Replies(d) \in Nat /\ Replies(d)' <= Replies(d)
           /\ d = c => Replies(d)' + 1 <= Replies(d)
  BY <1>0, <1>1, ReplyTaken
<1> HIDE DEF q
<1>3. id \in DOMAIN conn /\ conn[id].client = c /\ SendsOn(a, s, c) /\ Sent(id, s)
  <2>1. id \in DOMAIN conn /\ SendsOn(a, s, conn[id].client) /\ Sent(id, s)
    BY DEF q
  <2>2. conn[id].client = c
    BY <1>0, <1>1, <1>2, <2>1 DEF RepliesFit, Fits
  <2> QED BY <2>1, <2>2
<1>4. /\ IsSending(a, c) /\ Len(a.out) + a.room = SockRoom - held[c] /\ ~a.r.pending
      /\ HeadsLeft(a) <= HeadsDue(conn[id]) + 1
  BY <1>0, <1>1, <1>3, AnsweredOK
<1> HIDE DEF a
<1>5. /\ IsSending(s, c) /\ Len(s.out) + s.room = SockRoom - held[c] /\ ~s.r.pending
      /\ HeadsLeft(s) <= HeadsLeft(a)
  BY <1>3, <1>4 DEF SendsOn
<1> HIDE DEF id
<1>6. /\ DOMAIN conn' = DOMAIN conn /\ conn'[id] = s.r
      /\ \A other \in DOMAIN conn : other # id => conn'[other] = conn[other]
      /\ conn' \in [DOMAIN conn' -> Connection] /\ SameClients
      /\ wire' \in [Clients -> Seq(Units)] /\ held' \in [Clients -> 0..SockRoom]
      /\ OwnSent'
  BY <1>1, <1>2, <1>3, <1>5, SentFacts
<1>7. TypeOK'
  <2>1. ClientsTyped'
    BY <1>1, <1>6 DEF TypeOK, ClientsTyped
  <2>2. ConnsTyped'
    BY <1>1, <1>6 DEF TypeOK, ConnsTyped, Issued
  <2>3. QueuesTyped' /\ LoopTyped'
    BY <1>1, <1>2 DEF TypeOK, QueuesTyped, LoopTyped, Issued, Message, Question
  <2> QED BY <2>1, <2>2, <2>3 DEF TypeOK
<1>8. OneConnectionEach'
  <2>1. /\ Connecting(mailbox') \cup Connecting(batch') \subseteq Awaited
        /\ Connecting(mailbox') \cap Connecting(batch') = {} /\ ConnectsOnce(mailbox')
    BY <1>1, <1>2 DEF Awaited, OneConnectionEach
  <2>2. Opened' = Opened /\ nextId \in Nat
    BY <1>1 DEF Opened, TypeOK, ConnsTyped
  <2> QED BY <1>1, <1>2, <1>6, <2>1, <2>2, ConnectionsKept
<1>9. RepliesFit'
  BY <1>1, <1>2, <1>6, FitsKept
<1>10. RepliesCounted'
  <2>1. HeadsLeft(s) + Replies(c)' <= HeadsDue(conn[id]) + Replies(c)
    <3>1. HeadsLeft(s) \in Nat /\ HeadsLeft(a) \in Nat
      BY <1>2, <1>4, <1>5, HeadsDueType
    <3>2. HeadsDue(conn[id]) \in Nat
      BY <1>1, <1>3, HeadsDueNat DEF TypeOK, ConnsTyped, OwnSent
    <3>3. Replies(c)' \in Nat /\ Replies(c) \in Nat /\ Replies(c)' + 1 <= Replies(c)
      BY <1>2
    <3> QED BY <1>4, <1>5, <3>1, <3>2, <3>3
  <2>2. QueuesTyped'
    BY <1>7 DEF TypeOK
  <2>3. \A d \in Clients : d # c => Replies(d)' <= Replies(d)
    BY <1>2
  <2> QED BY <1>1, <1>2, <1>3, <1>5, <2>1, <2>2, <2>3, CountedSent
<1>11. IdleTimerArmed'
  BY <1>1, <1>6 DEF IdleTimerArmed
<1>12. AnswerUnderWayUntilReset'
  <2>1. CASE batch' = Tail(batch)
    <3>1. \A o \in DOMAIN conn : o # id /\ UnderWay(o) => UnderWay(o)'
      BY <1>2, <2>1, UnderWayByRange DEF id
    <3>2. \A o \in DOMAIN conn' : conn'[o].pending => conn[o].pending /\ o # id
      BY <1>5, <1>6
    <3> QED BY <1>1, <1>6, <3>1, <3>2, AnswersKept
  <2>2. CASE \E d \in Clients : client[d] = "rst"
    BY <2>2 DEF AnswerUnderWayUntilReset
  <2> QED BY <2>1, <2>2
<1> QED BY <1>6, <1>7, <1>8, <1>9, <1>10, <1>11, <1>12 DEF HttpInv

\* NORMAL_MSG_HTTP_REPLY.
LEMMA HandleReplyKeeps ==
  ASSUME HttpInv, HandleReply
  PROVE  HttpInv'
<1> DEFINE q == Head(batch)
<1>1. /\ Receives("reply") /\ batch' = Tail(batch)
      /\ UNCHANGED <<client, sent, unread, nextId, mailbox, phase, ready, doomed, timers, current,
                     asked, replied>>
      /\ \/ q.id \notin DOMAIN conn /\ UNCHANGED <<conn, wire, held>>
         \/ q.id \in DOMAIN conn /\ Sent(q.id, RealSend(Answered(q)))
  BY DEF HandleReply, timerVars, managerVars
<1>2. TypeOK /\ OwnSent /\ OneConnectionEach /\ RepliesFit /\ RepliesCounted /\ IdleTimerArmed
      /\ AnswerUnderWayUntilReset
  BY DEF HttpInv
<1>3. /\ batch' \in Seq(Message) /\ q \in Range(batch) /\ q.op = "reply" /\ q.client \in Clients
      /\ Range(batch) = Range(batch') \cup {q}
      /\ Connecting(batch') \subseteq Connecting(batch) /\ ConnectsOnce(batch')
      /\ \A d \in Clients : Replies(d)' <= Replies(d)
  BY <1>1, <1>2, ReplyTaken
<1> HIDE DEF q
<1>4. CASE q.id \in DOMAIN conn /\ Sent(q.id, RealSend(Answered(q)))
  <2> DEFINE s == RealSend(Answered(q))
  <2>1. conn[q.id].client = q.client
    BY <1>2, <1>3, <1>4 DEF RepliesFit, Fits
  <2>2. IsSending(Answered(q), q.client)
    BY <1>2, <1>4, <2>1, AnsweredOK
  <2>3. SendsOn(Answered(q), s, q.client)
    BY <1>3, <2>2, RealSendOK
  <2>4. Sent(q.id, s)
    BY <1>4
  <2> HIDE DEF s
  <2> QED BY <1>1, <1>4, <2>1, <2>3, <2>4, ReplyReaches DEF q
<1>5. CASE q.id \notin DOMAIN conn /\ UNCHANGED <<conn, wire, held>>
  <2>1. TypeOK'
    <3>1. ClientsTyped'
      BY <1>1, <1>2, <1>5 DEF TypeOK, ClientsTyped
    <3>2. ConnsTyped' /\ QueuesTyped' /\ LoopTyped'
      BY <1>1, <1>2, <1>3, <1>5
         DEF TypeOK, ConnsTyped, QueuesTyped, LoopTyped, Issued, Message, Question
    <3> QED BY <3>1, <3>2 DEF TypeOK
  <2>2. SameClients
    BY <1>5 DEF SameClients
  <2>3. OneConnectionEach'
    <3>1. /\ Connecting(mailbox') \cup Connecting(batch') \subseteq Awaited
          /\ Connecting(mailbox') \cap Connecting(batch') = {} /\ ConnectsOnce(mailbox')
      BY <1>1, <1>2, <1>3 DEF Awaited, OneConnectionEach
    <3>2. Opened' = Opened /\ nextId \in Nat
      BY <1>1, <1>2 DEF Opened, TypeOK, ConnsTyped
    <3> QED BY <1>1, <1>2, <1>3, <2>2, <3>1, <3>2, ConnectionsKept
  <2>4. RepliesFit'
    BY <1>1, <1>2, <1>3, <2>2, FitsKept
  <2>5. OwnSent' /\ IdleTimerArmed'
    BY <1>1, <1>2, <1>5 DEF OwnSent, IdleTimerArmed
  <2>6. RepliesCounted'
    <3>1. QueuesTyped'
      BY <2>1 DEF TypeOK
    <3> QED BY <1>1, <1>2, <1>3, <1>5, <3>1, CountedKept
  <2>7. AnswerUnderWayUntilReset'
    <3>1. \A o \in DOMAIN conn : UnderWay(o) => UnderWay(o)'
      BY <1>1, <1>3, <1>5, UnderWayByRange
    <3> QED BY <1>1, <1>2, <1>5, <3>1, AnswersKept
  <2> QED BY <2>1, <2>3, <2>4, <2>5, <2>6, <2>7 DEF HttpInv
<1> QED BY <1>1, <1>4, <1>5

\* SEND throws while a reply is handled.
LEMMA HandleReplyThrowsKeeps ==
  ASSUME HttpInv, HandleReplyThrows
  PROVE  HttpInv'
<1> DEFINE q == Head(batch)
           c == q.client
           s == Pull(Answered(q))
<1>1. /\ Receives("reply") /\ batch' = <<>> /\ q.id \in DOMAIN conn
      /\ client[conn[q.id].client] = "rst" /\ conn' = [conn EXCEPT ![q.id] = s.r]
      /\ UNCHANGED <<client, sent, unread, wire, held, nextId, mailbox, phase, ready, doomed,
                     timers, current, asked, replied>>
  BY DEF HandleReplyThrows, clientVars, timerVars, managerVars
<1>2. TypeOK /\ OwnSent /\ OneConnectionEach /\ RepliesFit
  BY DEF HttpInv
<1>3. q \in Range(batch) /\ q.op = "reply" /\ c \in Clients
  BY <1>1, <1>2, ReplyTaken
<1> HIDE DEF q
<1>4. conn[q.id].client = c
  BY <1>1, <1>2, <1>3 DEF RepliesFit, Fits
<1>5. IsSending(Answered(q), c) /\ Answered(q).out = <<>>
  BY <1>1, <1>2, <1>4, AnsweredOK
<1>6. SendsOn(Answered(q), s, c)
  BY <1>3, <1>5, PullOK
<1>7. s.out = <<>>
  BY <1>5 DEF Pull, IsSending
<1> HIDE DEF s
<1>8. Sent(q.id, s)
  <2>1. s.r.client = c
    BY <1>6 DEF SendsOn, IsSending
  <2>2. /\ wire \in [Clients -> Seq(Units)] /\ held \in [Clients -> 0..SockRoom] /\ SockRoom \in Nat
    BY <1>2, HttpAssumption DEF TypeOK, ClientsTyped
  <2>3. wire[c] \o s.out = wire[c]
    BY <1>3, <1>7, <2>2, ConcatEmptySeq
  <2>4. held[c] + Len(s.out) = held[c]
    <3>1. Len(s.out) = 0
      BY <1>7, EmptySeq
    <3> QED BY <1>3, <2>2, <3>1
  <2>5. wire' = [wire EXCEPT ![c] = @ \o s.out] /\ held' = [held EXCEPT ![c] = @ + Len(s.out)]
    BY <1>1, <1>3, <2>2, <2>3, <2>4
  <2> QED BY <1>1, <2>1, <2>5 DEF Sent
<1>9. \E d \in Clients : client[d] = "rst"
  BY <1>1, <1>3, <1>4
<1> QED BY <1>1, <1>4, <1>6, <1>8, <1>9, ReplyReaches DEF q
-----------------------------------------------------------------------------
(* The rest of a turn. *)

\* Connections are erased and timers checked: a connection that is left keeps its
\* timer, for a timer of its own that was due would have erased it.
LEMMA EndOfTurnKeeps ==
  ASSUME HttpInv, EndOfTurn
  PROVE  HttpInv'
<1> DEFINE ids == doomed \cup {t[2] : t \in Due}
           gone == {conn[id].client : id \in ids \cap DOMAIN conn}
<1>1. /\ conn' = [id \in DOMAIN conn \ ids |-> conn[id]]
      /\ client' = [c \in Clients |-> IF c \in gone /\ client[c] # "rst" THEN "closed"
                                      ELSE client[c]]
      /\ unread' = [c \in Clients |-> IF c \in gone THEN <<>> ELSE unread[c]]
      /\ held' = [c \in Clients |-> IF c \in gone THEN 0 ELSE held[c]]
      /\ doomed' = {} /\ timers' = [timers EXCEPT ![current] = @ \ Due]
      /\ current' = 1 - current /\ phase' = "wait"
      /\ UNCHANGED <<sent, wire, nextId, mailbox, batch, ready, asked, replied>>
  BY DEF EndOfTurn, Erase, TimersAfter, managerVars
<1>2. ClientsTyped /\ ConnsTyped /\ QueuesTyped /\ LoopTyped /\ OneConnectionEach /\ TypeOK
      /\ OwnSent /\ RepliesFit /\ RepliesCounted /\ IdleTimerArmed /\ AnswerUnderWayUntilReset
  BY DEF HttpInv, TypeOK
<1>3. gone \subseteq Opened
  BY <1>2 DEF OneConnectionEach
<1>4. \A t \in timers[current] : t[2] \notin ids => t \notin Due
  OBVIOUS
<1> HIDE DEF ids, gone
<1>5. /\ DOMAIN conn' = DOMAIN conn \ ids /\ \A id \in DOMAIN conn' : conn'[id] = conn[id]
      /\ conn' \in [DOMAIN conn' -> Connection]
  BY <1>1, <1>2 DEF ConnsTyped
<1>6. SameClients
  BY <1>5 DEF SameClients
<1>7. Opened' = Opened
  BY <1>1, <1>3 DEF Opened
<1>8. (\A d \in Clients : client'[d] # "rst") => (\A d \in Clients : client[d] # "rst")
  BY <1>1
<1>9. TypeOK'
  <2>1. ClientsTyped'
    <3>1. client' \in [Clients -> {"new", "open", "fin", "rst", "closed"}]
      BY <1>1, <1>2 DEF ClientsTyped
    <3>2. unread' \in [Clients -> Seq(Parts)]
      BY <1>1, <1>2, EmptySeq DEF ClientsTyped
    <3>3. held' \in [Clients -> 0..SockRoom]
      BY <1>1, <1>2, HttpAssumption DEF ClientsTyped
    <3> QED BY <1>1, <1>2, <3>1, <3>2, <3>3 DEF ClientsTyped
  <2>2. ConnsTyped'
    BY <1>1, <1>2, <1>5 DEF ConnsTyped, Issued
  <2>3. QueuesTyped'
    BY <1>1, <1>2 DEF QueuesTyped, Issued, Message, Question
  <2>4. LoopTyped'
    BY <1>1, <1>2 DEF LoopTyped, Issued
  <2> QED BY <2>1, <2>2, <2>3, <2>4 DEF TypeOK
<1>10. OneConnectionEach'
  <2>1. /\ Connecting(mailbox') \cup Connecting(batch') \subseteq Awaited
        /\ Connecting(mailbox') \cap Connecting(batch') = {}
        /\ ConnectsOnce(mailbox') /\ ConnectsOnce(batch') /\ nextId \in Nat
    BY <1>1, <1>2 DEF Awaited, OneConnectionEach, ConnsTyped
  <2> QED BY <1>1, <1>2, <1>6, <1>7, <2>1, ConnectionsKept
<1>11. RepliesFit'
  BY <1>1, <1>2, <1>6, FitsKept
<1>12. OwnSent'
  BY <1>1, <1>2, <1>5 DEF OwnSent
<1>13. RepliesCounted'
  <2>1. \A d \in Clients : Replies(d)' <= Replies(d)
    <3>1. ASSUME NEW d \in Clients PROVE Replies(d)' <= Replies(d)
      <4>1. Replies(d)' = Replies(d)
        BY <1>1 DEF Replies, RepliesTo
      <4>2. Replies(d) \in Nat
        BY <1>2, CountsTyped
      <4> QED BY <4>1, <4>2
    <3> QED BY <3>1
  <2>2. QueuesTyped'
    BY <1>9 DEF TypeOK
  <2> QED BY <1>1, <1>2, <1>5, <2>1, <2>2, CountedKept
<1>14. IdleTimerArmed'
  <2>1. current \in {0, 1} /\ timers'[current] = timers[current] \ Due
        /\ \A i \in {0, 1} : i # current => timers'[i] = timers[i]
    BY <1>1, <1>2 DEF LoopTyped
  <2>2. \A id \in DOMAIN conn' : TimerLists(timers', id) = TimerLists(timers, id)
    BY <1>4, <1>5, <2>1 DEF TimerLists
  <2> QED BY <1>2, <1>5, <2>2, TimersKept
<1>15. AnswerUnderWayUntilReset'
  <2>1. \A o : UnderWay(o) => UnderWay(o)'
    BY <1>1, UnderWayByRange
  <2>2. \A o \in DOMAIN conn' : conn'[o].pending => conn[o].pending
    BY <1>5
  <2> QED BY <1>2, <1>5, <1>8, <2>1, <2>2, AnswersKept
<1> QED BY <1>9, <1>10, <1>11, <1>12, <1>13, <1>14, <1>15 DEF HttpInv

\* What a client has sent, and what is left of it after the head.
LEMMA PartsKept ==
  ASSUME NEW parts \in Seq(Parts), CountOf("head", parts) > 0
  PROVE  AfterHead(parts) \in Seq(Parts)
<1> DEFINE S == {i \in DOMAIN parts : parts[i] = "head"}
           n == Min(S)
<1>1. Len(parts) \in Nat /\ DOMAIN parts = 1..Len(parts) /\ \A i \in 1..Len(parts) : parts[i] \in Parts
  BY LenProperties, ElementOfSeq
<1>2. S # {}
  <2>1. S = {} => Cardinality(S) = 0
    BY FS_EmptySet
  <2> QED BY <2>1 DEF CountOf
<1>3. S \in SUBSET Nat
  BY <1>1
<1>4. n \in S
  <2>1. \E x \in S : \A y \in S : x <= y
    <3> HIDE DEF S
    <3> QED BY <1>2, <1>3, LeastNumber
  <2> QED BY <2>1 DEF Min
<1>5. n + 1 \in Int /\ \A i \in (n + 1)..Len(parts) : parts[i] \in Parts
  <2>1. n \in Nat /\ n >= 1
    BY <1>1, <1>4
  <2> HIDE DEF n, S
  <2> QED BY <1>1, <2>1
<1>6. SubSeq(parts, n + 1, Len(parts)) \in Seq(Parts)
  BY <1>1, <1>5, SubSeqProperties
<1> QED BY <1>6 DEF AfterHead

\* notify_send_ready
LEMMA NotifyOK ==
  ASSUME NEW c \in Clients, NEW s, IsSending(s, c)
  PROVE  /\ IsSending(NotifySendReady(s), c)
         /\ Len(NotifySendReady(s).out) + NotifySendReady(s).room = Len(s.out) + s.room
         /\ NotifySendReady(s).r.pending = s.r.pending
<1> DEFINE r == [s.r EXCEPT !.status = "send_head"]
           a == [s EXCEPT !.r = r]
<1>1. /\ s \in [r : Connection, out : Seq(OwnUnits(c)), room : Nat]
      /\ s.r \in Connection /\ s.r.client = c /\ Own(s.r)
  BY DEF IsSending
<1>2. /\ r \in Connection /\ r.client = c /\ r.pending = s.r.pending /\ r.head = s.r.head
      /\ r.body = s.r.body /\ r.buf = s.r.buf
  BY <1>1 DEF Connection
<1>3. NotifySendReady(s) = RealSend(a)
  <2>1. [s EXCEPT !.r.status = "send_head"] = a
    BY <1>1
  <2> QED BY <2>1 DEF NotifySendReady
<1> HIDE DEF r
<1>4. a.r = r /\ a.out = s.out /\ a.room = s.room /\ IsSending(a, c)
  BY <1>1, <1>2 DEF IsSending, Own
<1> HIDE DEF a
<1>5. SendsOn(a, RealSend(a), c)
  BY <1>4, RealSendOK
<1> QED BY <1>2, <1>3, <1>4, <1>5 DEF SendsOn

\* A request that is answered at once.
LEMMA AnswerAtOnceOK ==
  ASSUME NEW c \in Clients, NEW s, IsSending(s, c)
  PROVE  /\ IsSending(AnswerAtOnce(s), c) /\ ~AnswerAtOnce(s).r.pending
         /\ Len(AnswerAtOnce(s).out) + AnswerAtOnce(s).room = Len(s.out) + s.room
<1> DEFINE r == [s.r EXCEPT !.head = c, !.body = BodyOf(c), !.pending = FALSE]
           a == [s EXCEPT !.r = r]
           b == NotifySendReady(a)
<1>1. /\ s \in [r : Connection, out : Seq(OwnUnits(c)), room : Nat]
      /\ s.r \in Connection /\ s.r.client = c /\ Own(s.r)
  BY DEF IsSending
<1>2. BodyOf(c) \in Seq({<<c, "body">>}) /\ BodyOf(c) \in Seq(Units)
  BY BodyOfType
<1>3. /\ r \in Connection /\ r.client = c /\ r.pending = FALSE /\ r.head = c
      /\ r.body = BodyOf(c) /\ r.buf = s.r.buf
  BY <1>1, <1>2 DEF Connection
<1>4. AnswerAtOnce(s) = NotifySendReady(b)
  <2>1. [s EXCEPT !.r.head = c, !.r.body = BodyOf(c), !.r.pending = FALSE] = a
    BY <1>1
  <2> QED BY <1>1, <2>1 DEF AnswerAtOnce
<1> HIDE DEF r
<1>5. a.r = r /\ a.out = s.out /\ a.room = s.room /\ IsSending(a, c)
  BY <1>1, <1>2, <1>3 DEF IsSending, Own
<1> HIDE DEF a
<1>6. /\ IsSending(b, c) /\ Len(b.out) + b.room = Len(a.out) + a.room /\ b.r.pending = a.r.pending
  BY <1>5, NotifyOK
<1> HIDE DEF b
<1>7. /\ IsSending(NotifySendReady(b), c) /\ NotifySendReady(b).r.pending = b.r.pending
      /\ Len(NotifySendReady(b).out) + NotifySendReady(b).room = Len(b.out) + b.room
  BY <1>6, NotifyOK
<1> QED BY <1>3, <1>4, <1>5, <1>6, <1>7

\* A connection has received something, and its handler is done with result s.
LEMMA ReceiveKeeps ==
  ASSUME HttpInv, NEW id \in DOMAIN conn, NEW c \in Clients, c = conn[id].client,
         NEW s, IsSending(s, c), Len(s.out) + s.room = SockRoom - held[c], Sent(id, s),
         Kind[c] = "stop" => HeadsLeft(s) <= HeadsDue(conn[id]),
         ready' \subseteq ready, unread' = [unread EXCEPT ![c] = <<>>],
         NEW q \in Question, q.id = id, q.client = c,
         \/ asked' = Append(asked, q)
         \/ asked' = asked /\ (s.r.pending => conn[id].pending),
         UNCHANGED <<client, sent, nextId, mailbox, batch, phase, doomed, timers, current, replied>>
  PROVE  HttpInv'
<1>1. TypeOK /\ OwnSent /\ OneConnectionEach /\ RepliesFit /\ RepliesCounted /\ IdleTimerArmed
      /\ AnswerUnderWayUntilReset
  BY DEF HttpInv
<1>2. asked \in Seq(Question)
  BY <1>1 DEF TypeOK, QueuesTyped
<1>3. asked' \in Seq(Question) /\ Range(asked) \subseteq Range(asked')
      /\ Range(asked') \subseteq Range(asked) \cup {q}
      /\ (asked' # asked => q \in Range(asked'))
  <2>1. Append(asked, q) \in Seq(Question) /\ Range(Append(asked, q)) = Range(asked) \cup {q}
    BY <1>2, AppendFacts
  <2> QED BY <1>2, <2>1
<1>4. /\ DOMAIN conn' = DOMAIN conn /\ conn'[id] = s.r
      /\ \A other \in DOMAIN conn : other # id => conn'[other] = conn[other]
      /\ conn' \in [DOMAIN conn' -> Connection] /\ SameClients
      /\ wire' \in [Clients -> Seq(Units)] /\ held' \in [Clients -> 0..SockRoom]
      /\ OwnSent'
  BY <1>1, SentFacts
<1>5. TypeOK'
  <2>1. ClientsTyped'
    <3>1. unread' \in [Clients -> Seq(Parts)]
      BY <1>1, EmptySeq DEF TypeOK, ClientsTyped
    <3> QED BY <1>1, <1>4, <3>1 DEF TypeOK, ClientsTyped
  <2>2. ConnsTyped'
    BY <1>1, <1>4 DEF TypeOK, ConnsTyped, Issued
  <2>3. QueuesTyped' /\ LoopTyped'
    BY <1>1, <1>3 DEF TypeOK, QueuesTyped, LoopTyped, Issued, Message, Question
  <2> QED BY <2>1, <2>2, <2>3 DEF TypeOK
<1>6. OneConnectionEach'
  <2>1. /\ Connecting(mailbox') \cup Connecting(batch') \subseteq Awaited
        /\ Connecting(mailbox') \cap Connecting(batch') = {}
        /\ ConnectsOnce(mailbox') /\ ConnectsOnce(batch')
    BY <1>1 DEF Awaited, OneConnectionEach
  <2>2. Opened' = Opened /\ nextId \in Nat
    BY <1>1 DEF Opened, TypeOK, ConnsTyped
  <2> QED BY <1>1, <1>4, <2>1, <2>2, ConnectionsKept
<1>7. RepliesFit'
  <2>1. Fits(q)'
    BY <1>4 DEF Fits, SameClients
  <2> QED BY <1>1, <1>3, <1>4, <2>1, FitsKept
<1>8. RepliesCounted'
  <2>1. \A d \in Clients : Replies(d)' = Replies(d) /\ Replies(d) \in Nat
    <3>1. ASSUME NEW d \in Clients PROVE Replies(d)' = Replies(d) /\ Replies(d) \in Nat
      <4>1. Replies(d)' = Replies(d)
        BY DEF Replies, RepliesTo
      <4> QED BY <1>1, <4>1, CountsTyped
    <3> QED BY <3>1
  <2>2. Kind[c] = "stop" => HeadsLeft(s) + Replies(c)' <= HeadsDue(conn[id]) + Replies(c)
    <3>1. HeadsLeft(s) \in Nat
      BY HeadsDueType
    <3>2. HeadsDue(conn[id]) \in Nat
      BY <1>1, HeadsDueNat DEF TypeOK, ConnsTyped, OwnSent
    <3> QED BY <2>1, <3>1, <3>2
  <2>3. QueuesTyped'
    BY <1>5 DEF TypeOK
  <2>4. \A d \in Clients : d # c => Replies(d)' <= Replies(d)
    BY <2>1
  <2> QED BY <1>1, <2>2, <2>3, <2>4, CountedSent
<1>9. IdleTimerArmed'
  BY <1>1, <1>4 DEF IdleTimerArmed
<1>10. AnswerUnderWayUntilReset'
  <2>1. \A o : UnderWay(o) => UnderWay(o)'
    BY <1>3, UnderWayByRange
  <2>2. \A o \in DOMAIN conn' : conn'[o].pending => conn[o].pending \/ UnderWay(o)'
    <3>1. CASE asked' = Append(asked, q)
      <4>1. q \in Range(asked')
        BY <1>2, <3>1, AppendFacts
      <4>2. UnderWay(id)'
        BY <4>1, UnderWayByRange
      <4> QED BY <1>4, <4>2
    <3>2. CASE asked' = asked /\ (s.r.pending => conn[id].pending)
      BY <1>4, <3>2
    <3> QED BY <3>1, <3>2
  <2> QED BY <1>1, <1>4, <2>1, <2>2, AnswersKept
<1> QED BY <1>4, <1>5, <1>6, <1>7, <1>8, <1>9, <1>10 DEF HttpInv

\* event_process on EPOLLIN.
LEMMA ConnReceivesKeeps ==
  ASSUME HttpInv, NEW id \in DOMAIN conn, ConnReceives(id)
  PROVE  HttpInv'
<1> DEFINE r == conn[id]
           parts == r.parts \o unread[r.client]
           k == Consumed(r, parts)
           p == Sending(id)
           s == [p EXCEPT !.r = k]
<1>1. TypeOK /\ OwnSent
  BY DEF HttpInv
<1>2. PICK c \in Clients : c = r.client
  BY <1>1, SendingOK
<1>3. /\ r \in Connection /\ Own(r) /\ IsSending(p, c) /\ p.r = r /\ p.out = <<>>
      /\ Len(p.out) + p.room = SockRoom - held[c]
  BY <1>1, <1>2, SendingOK
<1>4. /\ r.status \in {"recv_head", "recv_body"} /\ ready' \subseteq ready
      /\ unread' = [unread EXCEPT ![c] = <<>>]
      /\ UNCHANGED <<client, sent, nextId, mailbox, batch, phase, doomed, timers, current, replied>>
      /\ \/ conn' = [conn EXCEPT ![id].parts = parts] /\ UNCHANGED <<wire, held, asked>>
         \/ /\ r.status = "recv_body" \/ CountOf("head", parts) > 0
            /\ Sent(id, RecvFinish(s))
            /\ asked' = IF GoesToManager(s.r)
                        THEN Append(asked, [id |-> id, client |-> c, body |-> s.r.recvBody])
                        ELSE asked
  BY <1>2 DEF ConnReceives, timerVars
<1>5. parts \in Seq(Parts)
  BY <1>1, <1>2, <1>3, ConcatProperties DEF Connection, TypeOK, ClientsTyped
<1>6. id \in Issued /\ SockRoom \in Nat
  BY <1>1, HttpAssumption DEF TypeOK, ConnsTyped
<1>7. p \in [r : Connection, out : Seq(OwnUnits(c)), room : Nat]
  BY <1>3 DEF IsSending
<1>8. Count(<<>>, HeadUnits) = 0
  BY CountType, EmptySeq
<1> HIDE DEF parts, p
<1>9. CASE conn' = [conn EXCEPT ![id].parts = parts] /\ UNCHANGED <<wire, held, asked>>
  <2> DEFINE e == [r EXCEPT !.parts = parts]
             f == [p EXCEPT !.r = e]
             q == [id |-> id, client |-> c, body |-> parts]
  <2>1. /\ e \in Connection /\ e.client = c /\ e.head = r.head /\ e.body = r.body
        /\ e.buf = r.buf /\ e.status = r.status /\ e.pending = r.pending
    BY <1>2, <1>3, <1>5 DEF Connection
  <2>2. conn' = [conn EXCEPT ![id] = e]
    BY <1>9
  <2>3. HeadsDue(e) = HeadsDue(r)
    BY <2>1 DEF HeadsDue
  <2>4. q \in Question /\ q.id = id /\ q.client = c
    BY <1>5, <1>6 DEF Question
  <2> HIDE DEF e, q
  <2>5. f.r = e /\ f.out = <<>> /\ f.room = p.room /\ IsSending(f, c)
    BY <1>2, <1>3, <1>7, <2>1 DEF IsSending, Own
  <2> HIDE DEF f
  <2>6. Sent(id, f)
    <3>1. wire \in [Clients -> Seq(Units)] /\ held \in [Clients -> 0..SockRoom]
      BY <1>1 DEF TypeOK, ClientsTyped
    <3>2. wire[c] \o f.out = wire[c]
      BY <2>5, <3>1, ConcatEmptySeq
    <3>3. held[c] + Len(f.out) = held[c]
      <4>1. Len(f.out) = 0
        BY <2>5, EmptySeq
      <4> QED BY <1>6, <3>1, <4>1
    <3>4. wire' = [wire EXCEPT ![c] = @ \o f.out] /\ held' = [held EXCEPT ![c] = @ + Len(f.out)]
      BY <1>9, <3>1, <3>2, <3>3
    <3> QED BY <2>1, <2>2, <2>5, <3>4 DEF Sent
  <2>7. HeadsLeft(f) <= HeadsDue(conn[id])
    <3>1. HeadsDue(r) \in Nat
      BY <1>3, HeadsDueNat
    <3> QED BY <1>8, <2>3, <2>5, <3>1 DEF HeadsLeft
  <2>8. Len(f.out) + f.room = SockRoom - held[c]
    BY <1>3, <2>5
  <2> QED BY <1>2, <1>4, <1>9, <2>1, <2>4, <2>5, <2>6, <2>7, <2>8, ReceiveKeeps
<1>10. CASE /\ r.status = "recv_body" \/ CountOf("head", parts) > 0
            /\ Sent(id, RecvFinish(s))
            /\ asked' = IF GoesToManager(s.r)
                        THEN Append(asked, [id |-> id, client |-> c, body |-> s.r.recvBody])
                        ELSE asked
  <2>1. /\ k \in Connection /\ k.client = c /\ k.head = r.head /\ k.body = r.body
        /\ k.buf = r.buf /\ k.status = "recv_body" /\ k.pending = r.pending
    <3> DEFINE more == IF r.status = "recv_head" THEN AfterHead(parts) ELSE parts
    <3>1. more \in Seq(Parts)
      BY <1>5, <1>10, PartsKept
    <3>2. r.recvBody \o more \in Seq(Parts) /\ <<>> \in Seq(Parts)
      BY <1>3, <3>1, ConcatProperties, EmptySeq DEF Connection
    <3>3. k = [r EXCEPT !.status = "recv_body", !.parts = <<>>, !.recvBody = r.recvBody \o more]
      BY <1>3 DEF Consumed, Connection
    <3> HIDE DEF more, k
    <3> QED BY <1>2, <1>3, <3>2, <3>3 DEF Connection
  <2> HIDE DEF k
  <2>2. s.r = k /\ s.out = <<>> /\ s.room = p.room /\ IsSending(s, c)
    BY <1>2, <1>3, <1>7, <2>1 DEF IsSending, Own
  <2>3. s \in [r : Connection, out : Seq(OwnUnits(c)), room : Nat]
    BY <2>2 DEF IsSending
  <2> HIDE DEF s
  <2> DEFINE q == [id |-> id, client |-> c, body |-> k.recvBody]
  <2>4. q \in Question /\ q.id = id /\ q.client = c
    BY <1>6, <2>1 DEF Question, Connection
  <2>5. CASE GoesToManager(s.r)
    <3> DEFINE e == [k EXCEPT !.pending = TRUE]
               f == [s EXCEPT !.r = e]
    <3>1. /\ e \in Connection /\ e.client = c /\ e.head = r.head /\ e.body = r.body
          /\ e.buf = r.buf /\ e.status = "recv_body" /\ e.pending = TRUE
      BY <2>1 DEF Connection
    <3>2. RecvFinish(s) = f
      <4>1. AskManager(s) = f
        BY <2>2, <2>3 DEF AskManager
      <4>2. f.r.pending
        BY <2>3, <3>1
      <4> HIDE DEF f
      <4> QED BY <2>5, <4>1, <4>2 DEF RecvFinish
    <3>3. HeadsDue(e) = HeadsDue(r)
      BY <1>4, <3>1 DEF HeadsDue
    <3> HIDE DEF e
    <3>4. f.r = e /\ f.out = <<>> /\ f.room = p.room /\ IsSending(f, c)
      BY <1>2, <1>3, <2>2, <2>3, <3>1 DEF IsSending, Own
    <3> HIDE DEF f
    <3>5. Sent(id, f) /\ asked' = Append(asked, q)
      BY <1>10, <2>2, <2>5, <3>2
    <3>6. HeadsLeft(f) <= HeadsDue(conn[id])
      <4>1. HeadsDue(r) \in Nat
        BY <1>3, HeadsDueNat
      <4> QED BY <1>8, <3>3, <3>4, <4>1 DEF HeadsLeft
    <3>7. Len(f.out) + f.room = SockRoom - held[c]
      BY <1>3, <3>4
    <3> HIDE DEF q
    <3> QED BY <1>2, <1>4, <2>4, <3>4, <3>5, <3>6, <3>7, ReceiveKeeps
  <2>6. CASE ~GoesToManager(s.r)
    <3> DEFINE f == AnswerAtOnce(s)
    <3>1. RecvFinish(s) = f
      BY <2>6 DEF RecvFinish
    <3>2. /\ IsSending(f, c) /\ ~f.r.pending /\ Len(f.out) + f.room = Len(s.out) + s.room
      BY <2>2, AnswerAtOnceOK
    <3> HIDE DEF f, q
    <3>3. Sent(id, f) /\ asked' = asked
      BY <1>10, <2>6, <3>1
    <3>4. Kind[c] # "stop"
      BY <2>1, <2>2, <2>6 DEF GoesToManager
    <3>5. Len(f.out) + f.room = SockRoom - held[c]
      BY <1>3, <2>2, <3>2
    <3> QED BY <1>2, <1>4, <2>4, <3>2, <3>3, <3>4, <3>5, ReceiveKeeps
  <2> QED BY <2>5, <2>6
<1> QED BY <1>4, <1>9, <1>10
-----------------------------------------------------------------------------
(* The invariant. *)

\* The thread starts with no connection and no message.
LEMMA InitInv ==
  ASSUME Init
  PROVE  HttpInv
<1>1. /\ Range(mailbox) = {} /\ Connecting(mailbox) = {} /\ ConnectsOnce(mailbox)
      /\ Range(batch) = {} /\ Connecting(batch) = {} /\ ConnectsOnce(batch)
      /\ Range(asked) = {} /\ DOMAIN conn = {}
  BY QueueEmpty DEF Init
<1>2. TypeOK
  <2>1. <<>> \in Seq(Message) /\ <<>> \in Seq(Question) /\ <<>> \in Seq(Parts) /\ <<>> \in Seq(Units)
    BY EmptySeq
  <2>2. ClientsTyped
    <3>1. \A c \in Clients : Len(Request[c]) \in Nat
      BY HttpAssumption, LenProperties
    <3> QED BY <2>1, <3>1, HttpAssumption DEF Init, ClientsTyped
  <2>3. ConnsTyped
    <3>1. Cardinality(Clients) \in Nat
      BY HttpAssumption, FS_CardinalityType
    <3> QED BY <1>1, <3>1 DEF Init, ConnsTyped
  <2>4. QueuesTyped /\ LoopTyped
    BY <2>1 DEF Init, QueuesTyped, LoopTyped
  <2> QED BY <2>2, <2>3, <2>4 DEF TypeOK
<1>3. OneConnectionEach
  <2>1. Opened = {} /\ Awaited = {}
    BY <1>1 DEF Init, Opened, Awaited
  <2>2. Cardinality(Opened \ Awaited) = 0
    BY <2>1, FS_EmptySet
  <2> QED BY <1>1, <2>1, <2>2 DEF Init, OneConnectionEach
<1>4. RepliesFit
  BY <1>1 DEF RepliesFit
<1>5. OwnSent
  <2>1. \A c \in Clients : <<>> \in Seq(OwnUnits(c))
    BY EmptySeq
  <2> QED BY <1>1, <2>1 DEF Init, OwnSent
<1>6. RepliesCounted
  <2>1. ASSUME NEW c \in Clients PROVE HeadsAndReplies(c) = 0 /\ replied[c] = 0
    <3>1. Count(<<>>, HeadUnits) = 0 /\ Count(<<>>, RepliesTo(c)) = 0
      BY CountType, EmptySeq
    <3> QED BY <3>1 DEF Init, HeadsAndReplies
  <2> QED BY <1>1, <2>1 DEF RepliesCounted
<1>7. IdleTimerArmed /\ AnswerUnderWayUntilReset
  BY <1>1 DEF IdleTimerArmed, AnswerUnderWayUntilReset, AnswerUnderWay
<1> QED BY <1>2, <1>3, <1>4, <1>5, <1>6, <1>7 DEF HttpInv

\* Every step keeps the invariant.
LEMMA StepInv ==
  ASSUME HttpInv, [Next]_vars
  PROVE  HttpInv'
<1>1. CASE UNCHANGED vars
  <2>1. UNCHANGED <<client, sent, unread, wire, held, conn, nextId, mailbox, batch, phase, ready,
                    doomed, timers, current, asked, replied>>
    BY <1>1 DEF vars, clientVars, loopVars, timerVars, managerVars
  <2>2. ClientsTyped' /\ LoopTyped' /\ Opened' = Opened
    BY <2>1 DEF HttpInv, TypeOK, ClientsTyped, LoopTyped, Issued, Opened
  <2> QED BY <2>1, <2>2, QuietKeeps
<1>2. CASE \E c \in Clients : ClientConnects(c)
  BY <1>2, ClientConnectsKeeps
<1>3. CASE \E c \in Clients : ClientSends(c) \/ ClientReads(c)
                                \/ ClientLeaves(c, "fin") \/ ClientLeaves(c, "rst")
  BY <1>3, ClientKeeps
<1>4. CASE ManagerReplies
  BY <1>4, ManagerRepliesKeeps
<1>5. CASE Tick
  BY <1>5, TickKeeps
<1>6. CASE EpollWait \/ \E id \in DOMAIN conn : ConnThrows(id)
  BY <1>6, PollKeeps
<1>7. CASE TakeBatch
  BY <1>7, TakeBatchKeeps
<1>8. CASE HandleConnect
  BY <1>8, HandleConnectKeeps
<1>9. CASE HandleReply
  BY <1>9, HandleReplyKeeps
<1>10. CASE HandleReplyThrows
  BY <1>10, HandleReplyThrowsKeeps
<1>11. CASE EndOfTurn
  BY <1>11, EndOfTurnKeeps
<1>12. CASE \E id \in DOMAIN conn : ConnReceives(id)
  BY <1>12, ConnReceivesKeeps
<1> QED BY <1>1, <1>2, <1>3, <1>4, <1>5, <1>6, <1>7, <1>8, <1>9, <1>10, <1>11, <1>12 DEF Next, Loop

\* The inductive invariant of the HTTP thread holds, whatever the clients, the
\* manager and the timers do.
THEOREM HttpInvariant == Spec => []HttpInv
<1>1. Init => HttpInv
  BY InitInv
<1>2. HttpInv /\ [Next]_vars => HttpInv'
  BY StepInv
<1> QED BY <1>1, <1>2, PTL DEF Spec

\* Types: a socket never holds more than it can, at most one connection is ever
\* made for each client, and messages and timers name ids that were issued.
THEOREM HttpTypeOK == Spec => []TypeOK
<1>1. HttpInv => TypeOK
  BY DEF HttpInv
<1> QED BY <1>1, HttpInvariant, PTL

\* A client only ever receives answers to its own request, although the manager's
\* replies come late (handle_http_reply looks the connection up by its id).
THEOREM HttpOwnAnswersOnly == Spec => []OwnAnswersOnly
<1>1. HttpInv => OwnAnswersOnly
  <2>1. ASSUME HttpInv, NEW c \in Clients, NEW i \in DOMAIN wire[c]
        PROVE  wire[c][i][1] \in {c, Blank}
    <3>1. wire[c] \in Seq(OwnUnits(c))
      BY <2>1 DEF HttpInv, OwnSent
    <3>2. wire[c][i] \in OwnUnits(c)
      BY <3>1, ElementOfSeq, LenProperties
    <3> QED BY <3>2 DEF OwnUnits
  <2> QED BY <2>1 DEF OwnAnswersOnly
<1> QED BY <1>1, HttpInvariant, PTL

\* A request that only the manager can answer is not answered before the manager
\* has replied: each head its client receives has a reply of its own.
THEOREM HttpNoEarlyAnswer == Spec => []NoEarlyAnswer
<1>1. HttpInv => NoEarlyAnswer
  <2>1. ASSUME HttpInv, NEW c \in Clients, Kind[c] = "stop"
        PROVE  Cardinality({i \in DOMAIN wire[c] : wire[c][i][2] = "head"}) <= replied[c]
    <3>1. wire[c] \in Seq(OwnUnits(c))
      BY <2>1 DEF HttpInv, OwnSent
    <3>2. \A i \in DOMAIN wire[c] : wire[c][i] \in OwnUnits(c)
      BY <3>1, ElementOfSeq, LenProperties
    <3>3. \A u \in OwnUnits(c) : u \in HeadUnits <=> u[2] = "head"
      BY DEF OwnUnits, HeadUnits
    <3>4. {i \in DOMAIN wire[c] : wire[c][i][2] = "head"} = {i \in DOMAIN wire[c] : wire[c][i] \in HeadUnits}
      BY <3>2, <3>3
    <3>5. Count(wire[c], HeadUnits) <= replied[c]
      <4>1. /\ Count(wire[c], HeadUnits) \in Nat /\ Replies(c) \in Nat /\ replied[c] \in Nat
            /\ HeadsAndReplies(c) = Count(wire[c], HeadUnits) + Replies(c)
        BY <2>1, CountsTyped DEF HttpInv
      <4>2. HeadsAndReplies(c) <= replied[c]
        BY <2>1 DEF HttpInv, RepliesCounted
      <4> QED BY <4>1, <4>2
    <3> QED BY <3>4, <3>5 DEF Count
  <2> QED BY <2>1 DEF NoEarlyAnswer
<1> QED BY <1>1, HttpInvariant, PTL

\* As long as no client has reset its connection, a connection that waits for an
\* answer has one under way: no reply is lost between perform and
\* send_async_response.
THEOREM HttpAnswerUnderWay == Spec => []AnswerUnderWayUntilReset
<1>1. HttpInv => AnswerUnderWayUntilReset
  BY DEF HttpInv
<1> QED BY <1>1, HttpInvariant, PTL

\* Every connection has its idle timer in exactly one of the two lists that
\* check_timer looks at in turn.
THEOREM HttpIdleTimerArmed == Spec => []IdleTimerArmed
<1>1. HttpInv => IdleTimerArmed
  BY DEF HttpInv
<1> QED BY <1>1, HttpInvariant, PTL
-----------------------------------------------------------------------------
(* The order of what a client receives. *)

HeadsIn(w, c) == CountOf(<<c, "head">>, w)
BodiesIn(w, c) == CountOf(<<c, "body">>, w)

\* The unit u is in its place after h heads and b body units.
Placed(u, h, b, c) == IF u = <<c, "body">> THEN b < h * BodyLen ELSE b = h * BodyLen

\* Heads and body units in two sequences one after the other.
LEMMA UnitsConcat ==
  ASSUME NEW c, NEW S, NEW s \in Seq(S), NEW t \in Seq(S)
  PROVE  /\ HeadsIn(s, c) \in Nat /\ BodiesIn(s, c) \in Nat
         /\ HeadsIn(s \o t, c) = HeadsIn(s, c) + HeadsIn(t, c)
         /\ BodiesIn(s \o t, c) = BodiesIn(s, c) + BodiesIn(t, c)
<1>1. \A u, w : CountOf(u, w) = Count(w, {u})
  BY DEF CountOf, Count
<1>2. \A u : Count(s, {u}) \in Nat /\ Count(s \o t, {u}) = Count(s, {u}) + Count(t, {u})
  <2>1. ASSUME NEW u
        PROVE  Count(s, {u}) \in Nat /\ Count(s \o t, {u}) = Count(s, {u}) + Count(t, {u})
    <3> DEFINE T == {u}
    <3> HIDE DEF T
    <3>1. Count(s, T) \in Nat
      BY CountType
    <3>2. Count(s \o t, T) = Count(s, T) + Count(t, T)
      BY CountConcat
    <3> QED BY <3>1, <3>2 DEF T
  <2> QED BY <2>1
<1> QED BY <1>1, <1>2 DEF HeadsIn, BodiesIn

\* The first units of two sequences one after the other.
LEMMA FirstOfTwo ==
  ASSUME NEW S, NEW s \in Seq(S), NEW t \in Seq(S)
  PROVE  /\ Len(s) \in Nat /\ Len(t) \in Nat /\ s \o t \in Seq(S)
         /\ DOMAIN s = 1..Len(s) /\ DOMAIN t = 1..Len(t) /\ DOMAIN (s \o t) = 1..(Len(s) + Len(t))
         /\ \A n \in 1..Len(s) : (s \o t)[n] = s[n] /\ SubSeq(s \o t, 1, n - 1) = SubSeq(s, 1, n - 1)
         /\ \A n \in 1..Len(t) : /\ (s \o t)[Len(s) + n] = t[n]
                                 /\ SubSeq(s \o t, 1, Len(s) + n - 1) = s \o SubSeq(t, 1, n - 1)
                                 /\ SubSeq(t, 1, n - 1) \in Seq(S)
<1> DEFINE p == s \o t
<1>1. /\ Len(s) \in Nat /\ Len(t) \in Nat /\ p \in Seq(S) /\ Len(p) = Len(s) + Len(t)
      /\ DOMAIN s = 1..Len(s) /\ DOMAIN t = 1..Len(t) /\ DOMAIN p = 1..(Len(s) + Len(t))
      /\ \A i \in 1..(Len(s) + Len(t)) : p[i] = IF i <= Len(s) THEN s[i] ELSE t[i - Len(s)]
      /\ \A i \in 1..Len(s) : s[i] \in S
      /\ \A i \in 1..Len(t) : t[i] \in S
  BY ConcatProperties, LenProperties, ElementOfSeq
<1> HIDE DEF p
<1>2. ASSUME NEW n \in 1..Len(s)
      PROVE  p[n] = s[n] /\ SubSeq(p, 1, n - 1) = SubSeq(s, 1, n - 1)
  <2>1. n - 1 \in 0..Len(s) /\ n - 1 \in 0..Len(p)
    BY <1>1
  <2>2. /\ SubSeq(s, 1, n - 1) \in Seq(S) /\ Len(SubSeq(s, 1, n - 1)) = n - 1
        /\ SubSeq(p, 1, n - 1) \in Seq(S) /\ Len(SubSeq(p, 1, n - 1)) = n - 1
    BY <1>1, <2>1, CutInTwo
  <2>3. \A i \in 1..(n - 1) : SubSeq(s, 1, n - 1)[i] = s[i] /\ SubSeq(p, 1, n - 1)[i] = p[i]
    BY <1>1, <2>1
  <2>4. \A i \in 1..(n - 1) : SubSeq(s, 1, n - 1)[i] = SubSeq(p, 1, n - 1)[i]
    BY <1>1, <2>3
  <2>5. SubSeq(p, 1, n - 1) = SubSeq(s, 1, n - 1)
    BY <2>2, <2>4, SeqEqual
  <2> QED BY <1>1, <2>5
<1>3. ASSUME NEW n \in 1..Len(t)
      PROVE  /\ p[Len(s) + n] = t[n]
             /\ SubSeq(p, 1, Len(s) + n - 1) = s \o SubSeq(t, 1, n - 1)
             /\ SubSeq(t, 1, n - 1) \in Seq(S)
  <2> DEFINE m == Len(s) + n - 1
             a == SubSeq(p, 1, m)
             t1 == SubSeq(t, 1, n - 1)
             b == s \o t1
  <2>1. n - 1 \in 0..Len(t) /\ m \in 0..Len(p) /\ m \in Nat
    BY <1>1
  <2>2. t1 \in Seq(S) /\ Len(t1) = n - 1 /\ a \in Seq(S) /\ Len(a) = m
    BY <1>1, <2>1, CutInTwo
  <2>3. (\A i \in 1..(n - 1) : t1[i] = t[i]) /\ (\A i \in 1..m : a[i] = p[i])
    BY <1>1, <2>1
  <2> HIDE DEF a, t1
  <2>4. b \in Seq(S) /\ Len(b) = m /\ \A i \in 1..m : b[i] = IF i <= Len(s) THEN s[i] ELSE t1[i - Len(s)]
    <3>1. b \in Seq(S) /\ Len(b) = Len(s) + Len(t1)
          /\ \A i \in 1..(Len(s) + Len(t1)) : b[i] = IF i <= Len(s) THEN s[i] ELSE t1[i - Len(s)]
      BY <2>2, ConcatProperties
    <3>2. Len(s) + Len(t1) = m
      BY <1>1, <2>2
    <3> QED BY <3>1, <3>2
  <2> HIDE DEF b
  <2>5. \A i \in 1..m : a[i] = b[i]
    <3>1. ASSUME NEW i \in 1..m PROVE a[i] = b[i]
      <4>1. CASE i <= Len(s)
        <5>1. i \in 1..(Len(s) + Len(t))
          BY <1>1, <4>1
        <5> QED BY <1>1, <2>3, <2>4, <4>1, <5>1
      <4>2. CASE ~(i <= Len(s))
        <5>1. i - Len(s) \in 1..(n - 1) /\ i \in 1..(Len(s) + Len(t))
          BY <1>1, <2>1, <4>2
        <5> HIDE DEF m
        <5> QED BY <1>1, <2>3, <2>4, <4>2, <5>1
      <4> QED BY <4>1, <4>2
    <3> QED BY <3>1
  <2>6. a = b
    BY <2>2, <2>4, <2>5, SeqEqual
  <2>7. p[Len(s) + n] = t[n]
    BY <1>1
  <2> QED BY <2>2, <2>6, <2>7 DEF a, b, t1
<1> QED BY <1>1, <1>2, <1>3 DEF p

\* A sequence of units is ordered if its first part is and every further unit is
\* in its place.
LEMMA OrderedConcat ==
  ASSUME NEW c, NEW S, NEW s \in Seq(S), NEW t \in Seq(S)
  PROVE  Ordered(s \o t, c) <=>
           /\ Ordered(s, c)
           /\ \A n \in 1..Len(t) :
                Placed(t[n], HeadsIn(s, c) + HeadsIn(SubSeq(t, 1, n - 1), c),
                             BodiesIn(s, c) + BodiesIn(SubSeq(t, 1, n - 1), c), c)
<1> DEFINE p == s \o t
           At(w, n) == Placed(w[n], HeadsIn(SubSeq(w, 1, n - 1), c), BodiesIn(SubSeq(w, 1, n - 1), c), c)
           Then(n) == Placed(t[n], HeadsIn(s, c) + HeadsIn(SubSeq(t, 1, n - 1), c),
                                   BodiesIn(s, c) + BodiesIn(SubSeq(t, 1, n - 1), c), c)
<1>1. \A w : Ordered(w, c) <=> \A n \in DOMAIN w : At(w, n)
  BY DEF Ordered, Placed, HeadsIn, BodiesIn
<1>2. /\ Len(s) \in Nat /\ Len(t) \in Nat
      /\ DOMAIN s = 1..Len(s) /\ DOMAIN p = 1..(Len(s) + Len(t))
      /\ \A n \in 1..Len(s) : p[n] = s[n] /\ SubSeq(p, 1, n - 1) = SubSeq(s, 1, n - 1)
      /\ \A n \in 1..Len(t) : /\ p[Len(s) + n] = t[n]
                              /\ SubSeq(p, 1, Len(s) + n - 1) = s \o SubSeq(t, 1, n - 1)
                              /\ SubSeq(t, 1, n - 1) \in Seq(S)
  BY FirstOfTwo
<1> HIDE DEF p
<1>3. \A n \in 1..Len(s) : At(p, n) <=> At(s, n)
  BY <1>2
<1>4. \A n \in 1..Len(t) : At(p, Len(s) + n) <=> Then(n)
  <2>1. ASSUME NEW n \in 1..Len(t) PROVE At(p, Len(s) + n) <=> Then(n)
    <3>1. /\ p[Len(s) + n] = t[n]
          /\ SubSeq(p, 1, Len(s) + n - 1) = s \o SubSeq(t, 1, n - 1) /\ SubSeq(t, 1, n - 1) \in Seq(S)
      BY <1>2
    <3>2. /\ HeadsIn(s \o SubSeq(t, 1, n - 1), c) = HeadsIn(s, c) + HeadsIn(SubSeq(t, 1, n - 1), c)
          /\ BodiesIn(s \o SubSeq(t, 1, n - 1), c) = BodiesIn(s, c) + BodiesIn(SubSeq(t, 1, n - 1), c)
      BY <3>1, UnitsConcat
    <3>3. /\ HeadsIn(SubSeq(p, 1, Len(s) + n - 1), c) = HeadsIn(s, c) + HeadsIn(SubSeq(t, 1, n - 1), c)
          /\ BodiesIn(SubSeq(p, 1, Len(s) + n - 1), c) = BodiesIn(s, c) + BodiesIn(SubSeq(t, 1, n - 1), c)
      BY <3>1, <3>2
    <3> QED BY <3>1, <3>3 DEF Placed
  <2> QED BY <2>1
<1> HIDE DEF At, Then
<1>5. \A n \in 1..(Len(s) + Len(t)) : n \in 1..Len(s) \/ (n - Len(s) \in 1..Len(t) /\ n = Len(s) + (n - Len(s)))
  BY <1>2
<1>6. \A n \in 1..Len(t) : Len(s) + n \in 1..(Len(s) + Len(t))
  BY <1>2
<1>7. \A n \in 1..Len(s) : n \in 1..(Len(s) + Len(t))
  BY <1>2
<1>8. (\A n \in DOMAIN p : At(p, n)) <=> (\A n \in 1..Len(s) : At(s, n)) /\ (\A n \in 1..Len(t) : Then(n))
  BY <1>2, <1>3, <1>4, <1>5, <1>6, <1>7
<1> QED BY <1>1, <1>2, <1>8 DEF p, Then

\* The first units of a response.
LEMMA ResponseStart ==
  ASSUME NEW c \in Clients, NEW k \in 0..(1 + BodyLen)
  PROVE  LET t == <<<<c, "head">>>> \o BodyOf(c)
         IN  /\ t \in Seq(OwnUnits(c)) /\ Len(t) = 1 + BodyLen
             /\ t[1] = <<c, "head">> /\ \A i \in 2..(1 + BodyLen) : t[i] = <<c, "body">>
             /\ HeadsIn(SubSeq(t, 1, k), c) = IF k = 0 THEN 0 ELSE 1
             /\ BodiesIn(SubSeq(t, 1, k), c) = IF k = 0 THEN 0 ELSE k - 1
<1> DEFINE hd == <<c, "head">>
           bd == <<c, "body">>
           t == <<hd>> \o BodyOf(c)
           u == SubSeq(t, 1, k)
<1>0. BodyLen \in Nat
  BY HttpAssumption
<1>1. hd # bd /\ hd \in OwnUnits(c)
  BY OwnUnitFacts
<1>2. /\ BodyOf(c) \in Seq(OwnUnits(c)) /\ Len(BodyOf(c)) = BodyLen
      /\ \A i \in 1..BodyLen : BodyOf(c)[i] = bd
  <2>1. BodyOf(c) \in Seq(OwnUnits(c))
    BY BodyOfType, OwnSeqs
  <2>2. DOMAIN BodyOf(c) = 1..BodyLen /\ \A i \in 1..BodyLen : BodyOf(c)[i] = bd
    BY DEF BodyOf
  <2> QED BY <1>0, <2>1, <2>2, LenProperties
<1> HIDE DEF hd, bd
<1>3. /\ t \in Seq(OwnUnits(c)) /\ Len(t) = 1 + BodyLen
      /\ t[1] = hd /\ \A i \in 2..(1 + BodyLen) : t[i] = bd
  <2>1. <<hd>> \in Seq(OwnUnits(c)) /\ Len(<<hd>>) = 1 /\ <<hd>>[1] = hd
    BY <1>1
  <2>2. /\ t \in Seq(OwnUnits(c)) /\ Len(t) = 1 + BodyLen
        /\ \A i \in 1..(1 + BodyLen) : t[i] = IF i <= 1 THEN <<hd>>[i] ELSE BodyOf(c)[i - 1]
    BY <1>2, <2>1, ConcatProperties
  <2> HIDE DEF t
  <2>3. t[1] = hd
    BY <1>0, <2>1, <2>2
  <2>4. ASSUME NEW i \in 2..(1 + BodyLen) PROVE t[i] = bd
    <3>1. i \in 1..(1 + BodyLen) /\ i - 1 \in 1..BodyLen /\ ~(i <= 1)
      BY <1>0
    <3> QED BY <1>2, <2>2, <3>1
  <2> QED BY <2>2, <2>3, <2>4
<1> HIDE DEF t
<1>4. u \in Seq(OwnUnits(c)) /\ Len(u) = k
  BY <1>3, CutInTwo
<1>5. DOMAIN u = 1..k /\ \A i \in 1..k : u[i] = t[i]
  BY <1>0, <1>3, <1>4, LenProperties
<1> HIDE DEF u
<1>6. k # 0 => {i \in DOMAIN u : u[i] = hd} = {1}
  BY <1>0, <1>1, <1>3, <1>5
<1>7. k # 0 => {i \in DOMAIN u : u[i] = bd} = 2..k
  BY <1>0, <1>1, <1>3, <1>5
<1>8. k = 0 => {i \in DOMAIN u : u[i] = hd} = {} /\ {i \in DOMAIN u : u[i] = bd} = {}
  BY <1>5
<1>9. Cardinality({}) = 0 /\ Cardinality({1}) = 1
  BY FS_EmptySet, FS_Singleton
<1>10. k # 0 => Cardinality(2..k) = k - 1
  BY <1>0, FS_Interval
<1>11. HeadsIn(u, c) = IF k = 0 THEN 0 ELSE 1
  BY <1>6, <1>8, <1>9 DEF HeadsIn, CountOf, hd
<1>12. BodiesIn(u, c) = IF k = 0 THEN 0 ELSE k - 1
  BY <1>7, <1>8, <1>9, <1>10 DEF BodiesIn, CountOf, bd
<1> QED BY <1>3, <1>11, <1>12 DEF t, u, hd, bd

\* A whole stream stays whole when a response follows.
LEMMA WholeResponse ==
  ASSUME NEW c \in Clients, NEW w \in Seq(OwnUnits(c)), Whole(w, c)
  PROVE  Whole(w \o (<<<<c, "head">>>> \o BodyOf(c)), c)
<1> DEFINE t == <<<<c, "head">>>> \o BodyOf(c)
           h == HeadsIn(w, c)
           b == BodiesIn(w, c)
<1>0. BodyLen \in Nat /\ BodyLen # 0
  BY HttpAssumption
<1>1. /\ t \in Seq(OwnUnits(c)) /\ Len(t) = 1 + BodyLen
      /\ t[1] = <<c, "head">> /\ \A i \in 2..(1 + BodyLen) : t[i] = <<c, "body">>
      /\ \A k \in 0..(1 + BodyLen) : /\ HeadsIn(SubSeq(t, 1, k), c) = IF k = 0 THEN 0 ELSE 1
                                     /\ BodiesIn(SubSeq(t, 1, k), c) = IF k = 0 THEN 0 ELSE k - 1
  <2>1. ASSUME NEW k \in 0..(1 + BodyLen)
        PROVE  /\ t \in Seq(OwnUnits(c)) /\ Len(t) = 1 + BodyLen
               /\ t[1] = <<c, "head">> /\ \A i \in 2..(1 + BodyLen) : t[i] = <<c, "body">>
               /\ HeadsIn(SubSeq(t, 1, k), c) = IF k = 0 THEN 0 ELSE 1
               /\ BodiesIn(SubSeq(t, 1, k), c) = IF k = 0 THEN 0 ELSE k - 1
    BY ResponseStart
  <2>2. 0 \in 0..(1 + BodyLen)
    BY <1>0
  <2> HIDE DEF t
  <2> QED BY <2>1, <2>2
<1> HIDE DEF t
<1>2. h \in Nat /\ b \in Nat /\ Ordered(w, c) /\ b = h * BodyLen
  BY UnitsConcat DEF Whole, HeadsIn, BodiesIn
<1>3. HeadsIn(t, c) = 1 /\ BodiesIn(t, c) = BodyLen
  <2>1. SubSeq(t, 1, 1 + BodyLen) = t
    BY <1>0, <1>1, SubSeqFull
  <2>2. 1 + BodyLen \in 0..(1 + BodyLen) /\ 1 + BodyLen # 0 /\ 1 + BodyLen - 1 = BodyLen
    BY <1>0
  <2> DEFINE k == 1 + BodyLen
  <2>3. HeadsIn(SubSeq(t, 1, k), c) = 1 /\ BodiesIn(SubSeq(t, 1, k), c) = k - 1
    <3> HIDE DEF k
    <3>1. k \in 0..(1 + BodyLen) /\ k # 0
      BY <2>2 DEF k
    <3> QED BY <1>1, <3>1
  <2>4. SubSeq(t, 1, k) = t
    BY <2>1
  <2>5. k - 1 = BodyLen
    BY <1>0
  <2> HIDE DEF k
  <2> QED BY <2>3, <2>4, <2>5
<1>4. HeadsIn(w \o t, c) = h + 1 /\ BodiesIn(w \o t, c) = b + BodyLen
  BY <1>1, <1>3, UnitsConcat
<1> HIDE DEF h, b
<1>5. (h + 1) * BodyLen = h * BodyLen + BodyLen
  BY <1>0, <1>2
<1>6. ASSUME NEW n \in 1..Len(t)
      PROVE  Placed(t[n], h + HeadsIn(SubSeq(t, 1, n - 1), c), b + BodiesIn(SubSeq(t, 1, n - 1), c), c)
  <2>1. n \in Nat /\ n - 1 \in 0..(1 + BodyLen)
    BY <1>0, <1>1
  <2>2. CASE n = 1
    <3>1. HeadsIn(SubSeq(t, 1, n - 1), c) = 0 /\ BodiesIn(SubSeq(t, 1, n - 1), c) = 0
      BY <1>1, <2>1, <2>2
    <3>2. t[n] # <<c, "body">>
      BY <1>1, <2>2
    <3> QED BY <1>2, <3>1, <3>2 DEF Placed
  <2>3. CASE n # 1
    <3>1. HeadsIn(SubSeq(t, 1, n - 1), c) = 1 /\ BodiesIn(SubSeq(t, 1, n - 1), c) = n - 1 - 1
      BY <1>1, <2>1, <2>3
    <3>2. t[n] = <<c, "body">> /\ n - 1 - 1 < BodyLen
      BY <1>0, <1>1, <2>1, <2>3
    <3>3. b + (n - 1 - 1) < (h + 1) * BodyLen
      BY <1>0, <1>2, <1>5, <2>1, <3>2
    <3> QED BY <3>1, <3>2, <3>3 DEF Placed
  <2> QED BY <2>2, <2>3
<1>7. Ordered(w \o t, c)
  BY <1>1, <1>2, <1>6, OrderedConcat DEF h, b
<1>8. b + BodyLen = (h + 1) * BodyLen
  BY <1>2, <1>5
<1> QED BY <1>4, <1>7, <1>8 DEF Whole, HeadsIn, BodiesIn, t

\* It does when an empty head follows.
LEMMA WholeBlank ==
  ASSUME NEW c \in Clients, NEW w \in Seq(OwnUnits(c)), Whole(w, c)
  PROVE  Whole(w \o <<<<Blank, "head">>>>, c)
<1> DEFINE u == <<Blank, "head">>
           t == <<u>>
           h == HeadsIn(w, c)
           b == BodiesIn(w, c)
<1>1. u # <<c, "body">> /\ u # <<c, "head">> /\ u \in OwnUnits(c)
  BY HttpAssumption, OwnUnitFacts
<1> HIDE DEF u
<1>2. t \in Seq(OwnUnits(c)) /\ Len(t) = 1 /\ t[1] = u /\ DOMAIN t = {1}
  BY <1>1
<1>3. h \in Nat /\ b \in Nat /\ Ordered(w, c) /\ b = h * BodyLen
  BY UnitsConcat DEF Whole, HeadsIn, BodiesIn
<1> HIDE DEF t
<1>4. \A x : x # u => CountOf(x, t) = 0
  BY <1>2, FS_EmptySet DEF CountOf
<1>5. HeadsIn(w \o t, c) = h /\ BodiesIn(w \o t, c) = b
  <2>1. HeadsIn(t, c) = 0 /\ BodiesIn(t, c) = 0
    BY <1>1, <1>4 DEF HeadsIn, BodiesIn
  <2> QED BY <1>2, <1>3, <2>1, UnitsConcat
<1>6. ASSUME NEW n \in 1..Len(t)
      PROVE  Placed(t[n], h + HeadsIn(SubSeq(t, 1, n - 1), c), b + BodiesIn(SubSeq(t, 1, n - 1), c), c)
  <2>0. n = 1
    BY <1>2
  <2>1. n = 1 /\ t[n] # <<c, "body">>
    BY <1>1, <1>2, <2>0
  <2>2. SubSeq(t, 1, n - 1) = <<>>
    <3>1. 0 \in 0..Len(t)
      BY <1>2
    <3>2. SubSeq(t, 1, 0) \in Seq(OwnUnits(c)) /\ Len(SubSeq(t, 1, 0)) = 0
      BY <1>2, <3>1, CutInTwo
    <3> QED BY <2>1, <3>2, EmptySeq
  <2>3. \A x : CountOf(x, <<>>) = 0
    BY FS_EmptySet DEF CountOf
  <2>4. HeadsIn(SubSeq(t, 1, n - 1), c) = 0 /\ BodiesIn(SubSeq(t, 1, n - 1), c) = 0
    BY <2>2, <2>3 DEF HeadsIn, BodiesIn
  <2>5. h + 0 = h /\ b + 0 = b
    BY <1>3
  <2> QED BY <1>3, <2>1, <2>4, <2>5 DEF Placed
<1>7. Ordered(w \o t, c)
  BY <1>2, <1>3, <1>6, OrderedConcat DEF h, b
<1> QED BY <1>3, <1>5, <1>7 DEF Whole, HeadsIn, BodiesIn, t, u

\* Nothing is a whole stream.
LEMMA WholeNothing ==
  ASSUME NEW c \in Clients
  PROVE  Whole(<<>>, c)
<1>1. \A x : CountOf(x, <<>>) = 0
  BY FS_EmptySet DEF CountOf
<1>2. BodyLen \in Nat
  BY HttpAssumption
<1> QED BY <1>1, <1>2 DEF Whole, Ordered
-----------------------------------------------------------------------------
(* real_send keeps the order: what went out and what it would still send are   *)
(* the same together, and what was on its way before goes out first.           *)

Flow(s, p) ==
  /\ p.out \o Ahead(p.r) = s.out \o Ahead(s.r)
  /\ p.r.parts = s.r.parts
  /\ s.r.status # "recv_body" => p.r.status # "recv_body"
  /\ s.r.body = <<>> => p.r.body = <<>>
  /\ \/ p.r.status = s.r.status /\ p.out \o Buffered(p.r) = s.out \o Buffered(s.r)
     \/ s.r.status \in {"send_head", "send_body"} /\ p.r.status \in {"send_body", "recv_head"}
  /\ Stuck(s.r) => p = s

\* The types of what is ahead.
LEMMA AheadType ==
  ASSUME NEW c \in Clients, NEW r \in Connection, r.client = c, Own(r)
  PROVE  /\ Buffered(r) \in Seq(OwnUnits(c)) /\ Behind(r) \in Seq(OwnUnits(c))
         /\ Ahead(r) \in Seq(OwnUnits(c))
         /\ r.buf # NoBuf => r.buf[1] \in Seq(OwnUnits(c))
         /\ r.buf = NoBuf => Buffered(r) = <<>> /\ Ahead(r) = Behind(r)
<1>0. <<>> \in Seq(OwnUnits(c))
  BY EmptySeq
<1>1. r.buf # NoBuf => r.buf[1] \in Seq(OwnUnits(c))
  <2>1. r.buf \in Seq(Seq(OwnUnits(c)))
    BY DEF Own
  <2> QED BY <2>1, ElementOfSeq, EmptySeq, LenProperties DEF NoBuf
<1>2. Buffered(r) \in Seq(OwnUnits(c))
  BY <1>0, <1>1 DEF Buffered
<1>3. Behind(r) \in Seq(OwnUnits(c))
  <2>1. r.body \in Seq(OwnUnits(c))
    BY OwnSeqs DEF Own
  <2>2. <<<<r.head, "head">>>> \o r.body \in Seq(OwnUnits(c))
    <3> DEFINE u == <<r.head, "head">>
    <3>1. u \in OwnUnits(c)
      BY OwnUnitFacts DEF Own
    <3> HIDE DEF u
    <3>2. <<u>> \in Seq(OwnUnits(c))
      BY <3>1
    <3>3. <<u>> \o r.body \in Seq(OwnUnits(c))
      BY <2>1, <3>2, ConcatProperties
    <3> QED BY <3>3 DEF u
  <2> QED BY <1>0, <2>1, <2>2 DEF Behind
<1>4. Ahead(r) \in Seq(OwnUnits(c))
  BY <1>2, <1>3, ConcatProperties DEF Ahead
<1>5. r.buf = NoBuf => Buffered(r) = <<>> /\ Ahead(r) = Behind(r)
  <2>1. ASSUME r.buf = NoBuf PROVE Buffered(r) = <<>>
    BY <2>1 DEF Buffered
  <2>2. <<>> \o Behind(r) = Behind(r)
    BY <1>3, ConcatEmptySeq
  <2> QED BY <2>1, <2>2 DEF Ahead
<1> QED BY <1>1, <1>2, <1>3, <1>4, <1>5

\* A sequence cut in two.
LEMMA CutAndJoined ==
  ASSUME NEW S, NEW q \in Seq(S), NEW n \in 0..Len(q)
  PROVE  /\ SubSeq(q, 1, n) \in Seq(S) /\ Len(SubSeq(q, 1, n)) = n
         /\ SubSeq(q, n + 1, Len(q)) \in Seq(S) /\ Len(SubSeq(q, n + 1, Len(q))) = Len(q) - n
         /\ SubSeq(q, 1, n) \o SubSeq(q, n + 1, Len(q)) = q
<1> DEFINE a == SubSeq(q, 1, n)
           b == SubSeq(q, n + 1, Len(q))
<1>1. a \in Seq(S) /\ Len(a) = n /\ b \in Seq(S)
  BY CutInTwo
<1>2. Len(q) \in Nat
  BY LenProperties
<1>3. a \o b = q
  <2>1. n \in 1 - 1 .. Len(q) /\ Len(q) \in n .. Len(q) /\ 1 \in 1 .. Len(q) + 1
    BY <1>2
  <2>2. a \o b = SubSeq(q, 1, Len(q))
    BY <2>1, ConcatAdjacentSubSeq
  <2> QED BY <2>2, SubSeqFull
<1> HIDE DEF a, b
<1>4. Len(a \o b) = Len(a) + Len(b) /\ Len(b) \in Nat
  BY <1>1, ConcatProperties, LenProperties
<1>5. Len(b) = Len(q) - n
  BY <1>1, <1>2, <1>3, <1>4
<1> QED BY <1>1, <1>3, <1>5 DEF a, b

\* SEND
LEMMA PushStream ==
  ASSUME NEW c \in Clients, NEW s, IsSending(s, c)
  PROVE  LET p == Push(s)
         IN  /\ p.r.status = s.r.status /\ p.r.pending = s.r.pending
             /\ p.r.head = s.r.head /\ p.r.body = s.r.body /\ p.r.parts = s.r.parts
             /\ p.out \o Buffered(p.r) = s.out \o Buffered(s.r)
             /\ s.r.buf = NoBuf \/ Stuck(s.r) => p = s
             /\ Stuck(p.r) => Stuck(s.r)
             /\ s.r.buf # NoBuf /\ ~Stuck(s.r) /\ Len(s.r.buf[1]) <= s.room => p.r.buf = NoBuf
<1>1. CASE s.r.buf \in {NoBuf, <<<<>>>>}
  BY <1>1 DEF Push, Stuck
<1>2. CASE s.r.buf \notin {NoBuf, <<<<>>>>}
  <2> DEFINE data == s.r.buf[1]
             n == Min({Len(data), s.room})
             sentNow == SubSeq(data, 1, n)
             rest == SubSeq(data, n + 1, Len(data))
             left == IF n = Len(data) THEN NoBuf ELSE <<rest>>
             p == [s EXCEPT !.out = @ \o sentNow, !.room = @ - n, !.r.buf = left]
  <2>1. Push(s) = p
    BY <1>2 DEF Push
  <2>2. /\ s \in [r : Connection, out : Seq(OwnUnits(c)), room : Nat]
        /\ s.r \in Connection /\ s.r.client = c /\ Own(s.r)
        /\ s.out \in Seq(OwnUnits(c)) /\ s.room \in Nat
    BY DEF IsSending
  <2>3. data \in Seq(OwnUnits(c)) /\ Len(data) \in Nat
    BY <1>2, HeadsDueType, LenProperties
  <2>4. n \in 0..Len(data) /\ (Len(data) <= s.room => n = Len(data))
    <3>1. \A a, b \in Nat : Min({a, b}) \in Nat /\ Min({a, b}) <= a /\ (a <= b => Min({a, b}) = a)
      BY DEF Min
    <3> QED BY <2>2, <2>3, <3>1
  <2> HIDE DEF n
  <2>5. /\ sentNow \in Seq(OwnUnits(c)) /\ Len(sentNow) = n
        /\ rest \in Seq(OwnUnits(c)) /\ Len(rest) = Len(data) - n
        /\ sentNow \o rest = data
    BY <2>3, <2>4, CutAndJoined
  <2>6. n # Len(data) => rest # <<>>
    <3>1. n # Len(data) => Len(rest) # 0
      BY <2>3, <2>4, <2>5
    <3> QED BY <3>1, EmptySeq
  <2>7. n = Len(data) => sentNow = data
    BY <2>3, SubSeqFull
  <2> HIDE DEF data, sentNow, rest
  <2>8. (s.out \o sentNow) \o rest = s.out \o data
    <3>1. ASSUME NEW x \in Seq(OwnUnits(c)), NEW y \in Seq(OwnUnits(c)), NEW z \in Seq(OwnUnits(c))
          PROVE  (x \o y) \o z = x \o (y \o z)
      BY ConcatAssociative
    <3>2. (s.out \o sentNow) \o rest = s.out \o (sentNow \o rest)
      BY <2>2, <2>5, <3>1
    <3> QED BY <2>5, <3>2
  <2>9. (s.out \o sentNow) \o <<>> = s.out \o sentNow
    <3>1. s.out \o sentNow \in Seq(OwnUnits(c))
      BY <2>2, <2>5, ConcatProperties
    <3> QED BY <3>1, ConcatEmptySeq
  <2>10. /\ n = Len(data) => left = NoBuf
         /\ n # Len(data) => left # NoBuf /\ left[1] = rest /\ left # <<<<>>>>
    BY <2>6 DEF NoBuf
  <2>11. NoBuf # <<<<>>>>
    BY DEF NoBuf
  <2> HIDE DEF left
  <2>12. /\ p.r = [s.r EXCEPT !.buf = left] /\ p.out = s.out \o sentNow
    BY <2>2
  <2> HIDE DEF p
  <2>13. /\ p.r.status = s.r.status /\ p.r.pending = s.r.pending
         /\ p.r.head = s.r.head /\ p.r.body = s.r.body /\ p.r.parts = s.r.parts /\ p.r.buf = left
    BY <2>2, <2>12 DEF Connection
  <2>14. Buffered(s.r) = data
    BY <1>2 DEF Buffered, data
  <2>15. p.out \o Buffered(p.r) = s.out \o data
    <3>1. CASE n = Len(data)
      <4>1. Buffered(p.r) = <<>>
        BY <2>10, <2>13, <3>1 DEF Buffered
      <4> QED BY <2>7, <2>9, <2>12, <3>1, <4>1
    <3>2. CASE n # Len(data)
      <4>1. Buffered(p.r) = rest
        BY <2>10, <2>13, <3>2 DEF Buffered
      <4> QED BY <2>8, <2>12, <4>1
    <3> QED BY <3>1, <3>2
  <2>16. ~Stuck(p.r)
    BY <2>10, <2>11, <2>13 DEF Stuck
  <2>17. Len(data) <= s.room => p.r.buf = NoBuf
    BY <2>4, <2>10, <2>13
  <2> QED BY <1>2, <2>1, <2>13, <2>14, <2>15, <2>16, <2>17 DEF Stuck, data
<1> QED BY <1>1, <1>2

\* get_send_buf
LEMMA PullStream ==
  ASSUME NEW c \in Clients, NEW s, IsSending(s, c)
  PROVE  LET p == Pull(s)
         IN  /\ p.out = s.out /\ p.room = s.room /\ p.r.parts = s.r.parts
             /\ \/ /\ s.r.buf = NoBuf /\ s.r.status = "send_head" /\ ~s.r.pending
                   /\ p.r.buf = <<<<<<s.r.head, "head">>>>>> /\ p.r.status = "send_body"
                   /\ p.r.body = s.r.body
                \/ /\ s.r.buf = NoBuf /\ s.r.status = "send_body"
                   /\ p.r.buf = <<s.r.body>> /\ p.r.status = "recv_head"
                   /\ p.r.body = <<>> /\ p.r.head = Blank
                \/ /\ ~(s.r.buf = NoBuf /\ s.r.status = "send_head" /\ ~s.r.pending)
                   /\ ~(s.r.buf = NoBuf /\ s.r.status = "send_body")
                   /\ p = s
<1>1. /\ s \in [r : Connection, out : Seq(OwnUnits(c)), room : Nat]
      /\ s.r \in Connection
  BY DEF IsSending
<1>2. CASE s.r.buf = NoBuf /\ s.r.status = "send_head" /\ ~s.r.pending
  <2> DEFINE b == <<<<<<s.r.head, "head">>>>>>
             r == [s.r EXCEPT !.buf = b, !.status = "send_body"]
             p == [s EXCEPT !.r = r]
  <2>1. Pull(s) = p
    <3>1. Pull(s) = [s EXCEPT !.r.buf = b, !.r.status = "send_body"]
      BY <1>2 DEF Pull
    <3> QED BY <1>1, <3>1
  <2> HIDE DEF b
  <2>2. /\ r.buf = b /\ r.status = "send_body" /\ r.body = s.r.body /\ r.parts = s.r.parts
    BY <1>1 DEF Connection
  <2> HIDE DEF r
  <2>3. p.r = r /\ p.out = s.out /\ p.room = s.room
    BY <1>1
  <2> HIDE DEF p
  <2> QED BY <1>2, <2>1, <2>2, <2>3 DEF b
<1>3. CASE s.r.buf = NoBuf /\ s.r.status = "send_body"
  <2> DEFINE b == <<s.r.body>>
             r == [s.r EXCEPT !.buf = b, !.body = <<>>, !.status = "recv_head", !.head = Blank]
             p == [s EXCEPT !.r = r]
  <2>1. Pull(s) = p
    <3>1. Pull(s) = [s EXCEPT !.r.buf = b, !.r.body = <<>>, !.r.status = "recv_head",
                              !.r.head = Blank]
      BY <1>3 DEF Pull
    <3> QED BY <1>1, <3>1
  <2> HIDE DEF b
  <2>2. /\ r.buf = b /\ r.status = "recv_head" /\ r.body = <<>> /\ r.head = Blank
        /\ r.parts = s.r.parts
    BY <1>1 DEF Connection
  <2> HIDE DEF r
  <2>3. p.r = r /\ p.out = s.out /\ p.room = s.room
    BY <1>1
  <2> HIDE DEF p
  <2> QED BY <1>3, <2>1, <2>2, <2>3 DEF b
<1>4. CASE /\ ~(s.r.buf = NoBuf /\ s.r.status = "send_head" /\ ~s.r.pending)
           /\ ~(s.r.buf = NoBuf /\ s.r.status = "send_body")
  <2>1. Pull(s) = s
    BY <1>4 DEF Pull
  <2> QED BY <1>4, <2>1
<1> QED BY <1>2, <1>3, <1>4

\* SEND keeps the order.
LEMMA PushFlows ==
  ASSUME NEW c \in Clients, NEW s, IsSending(s, c)
  PROVE  Flow(s, Push(s))
<1> DEFINE p == Push(s)
<1>1. /\ p.r.status = s.r.status /\ p.r.head = s.r.head /\ p.r.body = s.r.body
      /\ p.r.parts = s.r.parts
      /\ p.out \o Buffered(p.r) = s.out \o Buffered(s.r)
      /\ Stuck(s.r) => p = s
  BY PushStream
<1>2. IsSending(p, c)
  BY PushOK DEF SendsOn
<1> HIDE DEF p
<1>3. Behind(p.r) = Behind(s.r)
  BY <1>1 DEF Behind
<1>4. \A x : IsSending(x, c) => /\ x.out \in Seq(OwnUnits(c)) /\ Buffered(x.r) \in Seq(OwnUnits(c))
                                /\ Behind(x.r) \in Seq(OwnUnits(c))
  BY AheadType DEF IsSending
<1>5. \A x : IsSending(x, c) => x.out \o Ahead(x.r) = (x.out \o Buffered(x.r)) \o Behind(x.r)
  <2>1. ASSUME NEW x \in Seq(OwnUnits(c)), NEW y \in Seq(OwnUnits(c)), NEW z \in Seq(OwnUnits(c))
        PROVE  (x \o y) \o z = x \o (y \o z)
    BY ConcatAssociative
  <2>2. ASSUME NEW x, IsSending(x, c)
        PROVE  x.out \o Ahead(x.r) = (x.out \o Buffered(x.r)) \o Behind(x.r)
    <3>1. (x.out \o Buffered(x.r)) \o Behind(x.r) = x.out \o (Buffered(x.r) \o Behind(x.r))
      <4> DEFINE u == x.out
                 v == Buffered(x.r)
                 w == Behind(x.r)
      <4>1. u \in Seq(OwnUnits(c)) /\ v \in Seq(OwnUnits(c)) /\ w \in Seq(OwnUnits(c))
        BY <1>4, <2>2
      <4> HIDE DEF u, v, w
      <4>2. (u \o v) \o w = u \o (v \o w)
        BY <2>1, <4>1
      <4> QED BY <4>2 DEF u, v, w
    <3> QED BY <3>1 DEF Ahead
  <2> QED BY <2>2
<1>6. p.out \o Ahead(p.r) = s.out \o Ahead(s.r)
  BY <1>1, <1>2, <1>3, <1>5
<1> QED BY <1>1, <1>6 DEF Flow, p

\* get_send_buf keeps the order.
LEMMA PullFlows ==
  ASSUME NEW c \in Clients, NEW s, IsSending(s, c)
  PROVE  Flow(s, Pull(s))
<1> DEFINE p == Pull(s)
<1>1. /\ p.out = s.out /\ p.r.parts = s.r.parts
      /\ \/ /\ s.r.buf = NoBuf /\ s.r.status = "send_head" /\ ~s.r.pending
            /\ p.r.buf = <<<<<<s.r.head, "head">>>>>> /\ p.r.status = "send_body"
            /\ p.r.body = s.r.body
         \/ /\ s.r.buf = NoBuf /\ s.r.status = "send_body"
            /\ p.r.buf = <<s.r.body>> /\ p.r.status = "recv_head"
            /\ p.r.body = <<>> /\ p.r.head = Blank
         \/ p = s
  BY PullStream
<1> HIDE DEF p
<1>2. s.r \in Connection /\ s.r.client = c /\ Own(s.r)
  BY DEF IsSending
<1>3. s.r.buf = NoBuf => Ahead(s.r) = Behind(s.r) /\ ~Stuck(s.r)
  BY <1>2, AheadType DEF Stuck, NoBuf
<1>4. s.r.body \in Seq(OwnUnits(c))
  BY <1>2, OwnSeqs DEF Own
<1>5. CASE /\ s.r.buf = NoBuf /\ s.r.status = "send_head" /\ ~s.r.pending
           /\ p.r.buf = <<<<<<s.r.head, "head">>>>>> /\ p.r.status = "send_body"
           /\ p.r.body = s.r.body
  <2> DEFINE u == <<<<s.r.head, "head">>>>
  <2>1. p.r.buf # NoBuf /\ p.r.buf[1] = u
    BY <1>5 DEF NoBuf
  <2>2. Behind(s.r) = u \o s.r.body
    BY <1>5 DEF Behind
  <2> HIDE DEF u
  <2>3. Buffered(p.r) = u /\ Behind(p.r) = s.r.body
    BY <1>5, <2>1 DEF Buffered, Behind
  <2>4. Ahead(p.r) = Ahead(s.r)
    BY <1>3, <1>5, <2>2, <2>3 DEF Ahead
  <2> QED BY <1>1, <1>3, <1>5, <2>4 DEF Flow, p
<1>6. CASE /\ s.r.buf = NoBuf /\ s.r.status = "send_body"
           /\ p.r.buf = <<s.r.body>> /\ p.r.status = "recv_head"
           /\ p.r.body = <<>> /\ p.r.head = Blank
  <2>1. Buffered(p.r) = s.r.body /\ Behind(p.r) = <<>>
    BY <1>6 DEF Buffered, Behind, NoBuf
  <2>2. Behind(s.r) = s.r.body
    BY <1>6 DEF Behind
  <2>3. s.r.body \o <<>> = s.r.body
    BY <1>4, ConcatEmptySeq
  <2>4. Ahead(p.r) = Ahead(s.r)
    BY <1>3, <1>6, <2>1, <2>2, <2>3 DEF Ahead
  <2> QED BY <1>1, <1>3, <1>6, <2>4 DEF Flow, p
<1>7. CASE p = s
  BY <1>7 DEF Flow, p
<1> QED BY <1>1, <1>5, <1>6, <1>7

\* real_send keeps the order.
LEMMA RealSendFlows ==
  ASSUME NEW c \in Clients, NEW s, IsSending(s, c)
  PROVE  Flow(s, RealSend(s))
<1> DEFINE a == Push(s)
           b == Pull(a)
           d == Push(b)
           e == Pull(d)
           f == Push(e)
<1>0. \A x, y, z : Flow(x, y) /\ Flow(y, z) => Flow(x, z)
  <2>1. ASSUME NEW x, NEW y, NEW z, Flow(x, y), Flow(y, z)
        PROVE  Flow(x, z)
    <3>1. z.out \o Ahead(z.r) = x.out \o Ahead(x.r) /\ z.r.parts = x.r.parts
      BY <2>1 DEF Flow
    <3>2. /\ x.r.status # "recv_body" => z.r.status # "recv_body"
          /\ x.r.body = <<>> => z.r.body = <<>>
      BY <2>1 DEF Flow
    <3>3. Stuck(x.r) => z = x
      BY <2>1 DEF Flow
    <3>4. \/ z.r.status = x.r.status /\ z.out \o Buffered(z.r) = x.out \o Buffered(x.r)
          \/ x.r.status \in {"send_head", "send_body"} /\ z.r.status \in {"send_body", "recv_head"}
      BY <2>1 DEF Flow
    <3> QED BY <3>1, <3>2, <3>3, <3>4 DEF Flow
  <2> QED BY <2>1
<1>1. IsSending(a, c) /\ Flow(s, a)
  BY PushOK, PushFlows DEF SendsOn
<1> HIDE DEF a
<1>2. IsSending(b, c) /\ Flow(a, b)
  BY <1>1, PullOK, PullFlows DEF SendsOn
<1> HIDE DEF b
<1>3. IsSending(d, c) /\ Flow(b, d)
  BY <1>2, PushOK, PushFlows DEF SendsOn
<1> HIDE DEF d
<1>4. IsSending(e, c) /\ Flow(d, e)
  BY <1>3, PullOK, PullFlows DEF SendsOn
<1> HIDE DEF e
<1>5. Flow(e, f)
  BY <1>4, PushFlows
<1>6. RealSend(s) = f
  BY DEF RealSend, a, b, d, e
<1> HIDE DEF f
<1>7. Flow(s, b) /\ Flow(b, e)
  BY <1>0, <1>1, <1>2, <1>3, <1>4
<1> QED BY <1>0, <1>5, <1>6, <1>7

\* With room for the head, the head goes out and the body becomes the buffer.
LEMMA HeadGoesOut ==
  ASSUME NEW c \in Clients, NEW s, IsSending(s, c), s.r.buf = NoBuf, s.r.status = "send_head",
         ~s.r.pending, s.room > 0, s.r.body # <<>>
  PROVE  LET p == RealSend(s)
         IN  p.r.status = "recv_head" /\ p.r.head = Blank /\ p.r.body = <<>> /\ ~Stuck(p.r)
<1> DEFINE a == Push(s)
           b == Pull(a)
           d == Push(b)
           e == Pull(d)
           f == Push(e)
<1>1. a = s
  BY PushStream
<1>2. b = Pull(s) /\ IsSending(b, c)
  BY <1>1, PullOK DEF SendsOn
<1>3. /\ b.r.buf = <<<<<<s.r.head, "head">>>>>> /\ b.r.status = "send_body"
      /\ b.r.body = s.r.body /\ b.room = s.room
  BY <1>2, PullStream
<1> HIDE DEF b
<1>4. /\ b.r.buf # NoBuf /\ ~Stuck(b.r) /\ Len(b.r.buf[1]) <= b.room
  <2>1. b.r.buf # NoBuf /\ ~Stuck(b.r) /\ Len(b.r.buf[1]) = 1
    BY <1>3 DEF NoBuf, Stuck
  <2>2. s.room \in Nat
    BY DEF IsSending
  <2> QED BY <1>3, <2>1, <2>2
<1>5. IsSending(d, c) /\ d.r.buf = NoBuf /\ d.r.status = "send_body" /\ d.r.body = s.r.body
  BY <1>2, <1>3, <1>4, PushOK, PushStream DEF SendsOn
<1> HIDE DEF d
<1>6. /\ IsSending(e, c) /\ e.r.buf = <<s.r.body>> /\ e.r.status = "recv_head"
      /\ e.r.body = <<>> /\ e.r.head = Blank
  <2>1. IsSending(e, c)
    BY <1>5, PullOK DEF SendsOn
  <2>2. /\ e.r.buf = <<d.r.body>> /\ e.r.status = "recv_head" /\ e.r.body = <<>> /\ e.r.head = Blank
    BY <1>5, PullStream
  <2> QED BY <1>5, <2>1, <2>2
<1> HIDE DEF e
<1>7. ~Stuck(e.r)
  BY <1>6 DEF Stuck
<1>8. f.r.status = "recv_head" /\ f.r.head = Blank /\ f.r.body = <<>> /\ ~Stuck(f.r)
  BY <1>6, <1>7, PushStream
<1>9. RealSend(s) = f
  BY DEF RealSend, a, b, d, e
<1> QED BY <1>8, <1>9
-----------------------------------------------------------------------------
(* Steps that leave a client's stream alone. *)

\* What a step may not do to the counts of a client's questions and replies.
CountsGoOn(c) ==
  /\ Replies(c)' + replied[c] <= Replies(c) + replied'[c]
  /\ replied[c] <= replied'[c]

\* Nothing happens to the stream of c, though it may read, and its counts may fall.
Steady(c) ==
  /\ wire'[c] = wire[c] /\ held'[c] \in {held[c], 0}
  /\ unread'[c] = unread[c] /\ sent'[c] = sent[c]
  /\ Questions(c)' + Replies(c)' <= Questions(c) + Replies(c)
  /\ client'[c] = "new" \/ c \in Awaited' => client[c] = "new" \/ c \in Awaited
  /\ \A id \in DOMAIN conn' : conn'[id].client = c /\ client'[c] # "rst" =>
       client[c] # "rst" /\ id \in DOMAIN conn /\ conn'[id] = conn[id]

\* Questions and replies are counted in natural numbers.
LEMMA CountsBoth ==
  ASSUME TypeOK, TypeOK', NEW c \in Clients
  PROVE  /\ Questions(c) \in Nat /\ Replies(c) \in Nat /\ replied[c] \in Nat
         /\ Questions(c)' \in Nat /\ Replies(c)' \in Nat /\ replied'[c] \in Nat
<1>1. Count(asked, QuestionsOf(c)) \in Nat
  BY CountType DEF TypeOK, QueuesTyped
<1>2. Count(mailbox, RepliesTo(c)) \in Nat /\ Count(batch, RepliesTo(c)) \in Nat
  BY CountType DEF TypeOK, QueuesTyped
<1>3. asked' \in Seq(Question') /\ mailbox' \in Seq(Message') /\ batch' \in Seq(Message')
  BY DEF TypeOK, QueuesTyped
<1>4. Count(asked', QuestionsOf(c)) \in Nat
  BY <1>3, CountType
<1>5. Count(mailbox', RepliesTo(c)) \in Nat /\ Count(batch', RepliesTo(c)) \in Nat
  BY <1>3, CountType
<1>6. replied[c] \in Nat /\ replied'[c] \in Nat
  BY DEF TypeOK, QueuesTyped
<1>7. Questions(c)' = Count(asked', QuestionsOf(c))
  BY DEF Questions, QuestionsOf
<1>8. Replies(c)' = Count(mailbox', RepliesTo(c)) + Count(batch', RepliesTo(c))
  BY DEF Replies, RepliesTo
<1> QED BY <1>1, <1>2, <1>4, <1>5, <1>6, <1>7, <1>8 DEF Questions, Replies

\* A limit on the replies to come stays.
LEMMA AtMostKept ==
  ASSUME TypeOK, TypeOK', NEW c \in Clients, CountsGoOn(c),
         Questions(c)' + Replies(c)' <= Questions(c) + Replies(c),
         NEW k \in Nat, AtMost(c, k)
  PROVE  AtMost(c, k)'
<1>1. /\ Questions(c) \in Nat /\ Replies(c) \in Nat /\ replied[c] \in Nat
      /\ Questions(c)' \in Nat /\ Replies(c)' \in Nat /\ replied'[c] \in Nat
  BY CountsBoth
<1>2. Questions(c) + Replies(c) <= k \/ Replies(c) + 2 <= replied[c] + k
  BY DEF AtMost
<1>3. Questions(c)' + Replies(c)' <= k \/ Replies(c)' + 2 <= replied'[c] + k
  BY <1>1, <1>2 DEF CountsGoOn
<1> QED BY <1>3 DEF AtMost

\* The stream of a client that nothing happens to stays sound.
LEMMA SteadyKeeps ==
  ASSUME TypeOK, TypeOK', NEW c \in Clients, StreamSound(c), CountsGoOn(c), Steady(c)
  PROVE  StreamSound(c)'
<1>1. /\ wire'[c] = wire[c] /\ held'[c] \in {held[c], 0}
      /\ unread'[c] = unread[c] /\ sent'[c] = sent[c]
      /\ Questions(c)' + Replies(c)' <= Questions(c) + Replies(c)
  BY DEF Steady
<1>2. /\ Questions(c) \in Nat /\ Replies(c) \in Nat
      /\ Questions(c)' \in Nat /\ Replies(c)' \in Nat
  BY CountsBoth
<1>3. /\ AtMost(c, 1) => AtMost(c, 1)'
      /\ AtMost(c, 0) => AtMost(c, 0)'
  BY <1>1, AtMostKept
<1>4. Ordered(wire'[c], c)
  BY <1>1 DEF StreamSound
<1>5. Untouched(c) => Untouched(c)'
  <2>1. Questions(c) + Replies(c) = 0 => Questions(c)' + Replies(c)' = 0
    BY <1>1, <1>2
  <2> QED BY <1>1, <2>1 DEF Untouched
<1>6. client'[c] = "new" \/ c \in Awaited' => Untouched(c)'
  BY <1>5 DEF StreamSound, Steady
<1>7. ASSUME NEW id \in DOMAIN conn', conn'[id].client = c, client'[c] # "rst"
      PROVE  Unread(c, conn[id])' \/ Unanswered(c, conn[id])' \/ Answering(c, conn[id])'
  <2>1. client[c] # "rst" /\ id \in DOMAIN conn /\ conn'[id] = conn[id]
    BY <1>7 DEF Steady
  <2>2. PICK r : r = conn[id]
    OBVIOUS
  <2>3. r = conn'[id] /\ r.client = c
    BY <1>7, <2>1, <2>2
  <2>4. Unread(c, r) \/ Unanswered(c, r) \/ Answering(c, r)
    BY <2>1, <2>2, <2>3 DEF StreamSound
  <2>5. Unread(c, r) => Unread(c, r)'
    BY <1>5 DEF Unread
  <2>6. HeadRead(c, r) => HeadRead(c, r)'
    BY <1>1 DEF HeadRead
  <2>7. Unanswered(c, r) => Unanswered(c, r)'
    <3>1. Questions(c) + Replies(c) <= 1 => Questions(c)' + Replies(c)' <= 1
      BY <1>1, <1>2
    <3> QED BY <1>1, <2>6, <3>1 DEF Unanswered
  <2>8. Answering(c, r) => Answering(c, r)'
    BY <1>1, <1>3, <2>6 DEF Answering
  <2>9. Unread(c, r)' \/ Unanswered(c, r)' \/ Answering(c, r)'
    BY <2>4, <2>5, <2>7, <2>8
  <2> QED BY <2>3, <2>9 DEF Unread, Unanswered, Answering, HeadRead
<1> QED BY <1>4, <1>6, <1>7 DEF StreamSound

\* A step keeps the invariant if it keeps each client's stream sound.
LEMMA StreamKept ==
  ASSUME TypeOK, TypeOK', StreamInv, \A c \in Clients : CountsGoOn(c),
         \A c \in Clients : OneRequest(c) /\ replied[c] <= 2 /\ replied'[c] <= 2 /\ StreamSound(c)
                              /\ Replies(c) <= replied[c] => StreamSound(c)' \/ Steady(c)
  PROVE  StreamInv'
<1>1. ASSUME NEW c \in Clients
      PROVE  Replies(c)' <= replied'[c] /\ (OneRequest(c) /\ replied'[c] <= 2 => StreamSound(c)')
  <2>1. Replies(c) <= replied[c] /\ (OneRequest(c) /\ replied[c] <= 2 => StreamSound(c))
    BY DEF StreamInv
  <2>2. Replies(c) \in Nat /\ replied[c] \in Nat /\ Replies(c)' \in Nat /\ replied'[c] \in Nat
    BY CountsBoth
  <2>3. Replies(c)' <= replied'[c] /\ (replied'[c] <= 2 => replied[c] <= 2)
    BY <2>1, <2>2 DEF CountsGoOn
  <2> QED BY <2>1, <2>3, SteadyKeeps
<1> QED BY <1>1 DEF StreamInv, OneRequest

\* The counts when nothing is asked and nothing answered.
LEMMA RepliesFall ==
  ASSUME TypeOK, TypeOK', NEW c \in Clients, UNCHANGED <<asked, replied>>,
         Replies(c)' <= Replies(c)
  PROVE  /\ CountsGoOn(c) /\ Questions(c)' = Questions(c)
         /\ Questions(c)' + Replies(c)' <= Questions(c) + Replies(c)
<1>1. Questions(c)' = Questions(c)
  BY DEF Questions, QuestionsOf
<1>2. /\ Questions(c) \in Nat /\ Replies(c) \in Nat /\ replied[c] \in Nat
      /\ Questions(c)' \in Nat /\ Replies(c)' \in Nat /\ replied'[c] = replied[c]
  BY CountsBoth
<1>3. Questions(c)' + Replies(c)' <= Questions(c) + Replies(c)
  BY <1>1, <1>2
<1>4. CountsGoOn(c)
  BY <1>2 DEF CountsGoOn
<1> QED BY <1>1, <1>3, <1>4

\* Steps that touch neither queues nor connections: a client reads or leaves, time
\* passes, epoll_wait returns, a handler throws.
LEMMA StreamQuiet ==
  ASSUME HttpInv, HttpInv', StreamInv,
         UNCHANGED <<sent, unread, wire, conn, mailbox, batch, asked, replied>>,
         \A c \in Clients : /\ held'[c] \in {held[c], 0}
                            /\ client[c] = "rst" => client'[c] = "rst"
                            /\ client'[c] = "new" => client[c] = "new"
  PROVE  StreamInv'
<1>1. TypeOK /\ TypeOK'
  BY DEF HttpInv
<1>2. ASSUME NEW c \in Clients PROVE CountsGoOn(c) /\ Steady(c)
  <2>1. Replies(c)' = Replies(c) /\ Replies(c) \in Nat
    BY <1>1, CountsBoth DEF Replies, RepliesTo
  <2>2. /\ CountsGoOn(c) /\ Questions(c)' + Replies(c)' <= Questions(c) + Replies(c)
    BY <1>1, <2>1, RepliesFall
  <2>3. Awaited' = Awaited
    BY DEF Awaited, Connecting
  <2> QED BY <2>2, <2>3 DEF Steady
<1> QED BY <1>1, <1>2, StreamKept

\* A client reads or leaves.
LEMMA StreamReadsOrLeaves ==
  ASSUME HttpInv, HttpInv', StreamInv, NEW c \in Clients,
         ClientReads(c) \/ ClientLeaves(c, "fin") \/ ClientLeaves(c, "rst")
  PROVE  StreamInv'
<1>1. ClientsTyped
  BY DEF HttpInv, TypeOK
<1>2. CASE ClientReads(c)
  BY <1>1, <1>2, StreamQuiet DEF ClientReads, ClientsTyped, loopVars, managerVars
<1>3. CASE ClientLeaves(c, "fin")
  BY <1>1, <1>3, StreamQuiet DEF ClientLeaves, ClientsTyped, loopVars, managerVars
<1>4. CASE ClientLeaves(c, "rst")
  BY <1>1, <1>4, StreamQuiet DEF ClientLeaves, ClientsTyped, loopVars, managerVars
<1> QED BY <1>2, <1>3, <1>4

\* A client connects.
LEMMA StreamConnects ==
  ASSUME HttpInv, HttpInv', StreamInv, NEW c \in Clients, ClientConnects(c)
  PROVE  StreamInv'
<1> DEFINE m == [op |-> "connect", client |-> c]
<1>1. /\ client[c] = "new" /\ client' = [client EXCEPT ![c] = "open"]
      /\ mailbox' = Append(mailbox, m)
      /\ UNCHANGED <<sent, unread, wire, held, conn, nextId, batch, asked, replied>>
  BY DEF ClientConnects, loopVars, managerVars
<1>2. ClientsTyped /\ ConnsTyped /\ QueuesTyped /\ TypeOK /\ TypeOK'
  BY DEF HttpInv, TypeOK
<1>3. m \in Message /\ mailbox \in Seq(Message) /\ nextId \in Nat
  BY <1>2 DEF Message, QueuesTyped, ConnsTyped
<1>4. IsConnect(m) /\ m.client = c /\ m.op # "reply"
  BY DEF IsConnect
<1> HIDE DEF m
<1>5. Connecting(mailbox') = Connecting(mailbox) \cup {c}
  BY <1>1, <1>3, <1>4, QueueGrows
<1>6. ASSUME NEW d \in Clients PROVE CountsGoOn(d) /\ Steady(d)
  <2>1. Replies(d)' <= Replies(d)
    <3>1. m \notin RepliesTo(d)
      BY <1>3, <1>4, ReplyKinds
    <3>2. Count(mailbox', RepliesTo(d)) = Count(mailbox, RepliesTo(d)) + 0
      BY <1>1, <1>3, <3>1, CountAppend
    <3>3. Count(mailbox, RepliesTo(d)) \in Nat /\ Count(batch, RepliesTo(d)) \in Nat
      BY <1>2, CountsTyped
    <3> QED BY <1>1, <3>2, <3>3 DEF Replies, RepliesTo
  <2>2. CountsGoOn(d) /\ Questions(d)' + Replies(d)' <= Questions(d) + Replies(d)
    BY <1>1, <1>2, <2>1, RepliesFall
  <2>3. client'[d] = "new" \/ d \in Awaited' => client[d] = "new" \/ d \in Awaited
    BY <1>1, <1>2, <1>5 DEF Awaited, ClientsTyped
  <2>4. client'[d] # "rst" => client[d] # "rst"
    BY <1>1, <1>2 DEF ClientsTyped
  <2> QED BY <1>1, <2>2, <2>3, <2>4 DEF Steady
<1> QED BY <1>2, <1>6, StreamKept

\* Which questions are a client's.
LEMMA QuestionKinds ==
  ASSUME NEW q \in Question, NEW c \in Clients, nextId \in Nat
  PROVE  q \in QuestionsOf(c) <=> q.client = c
<1>1. q.id \in Nat /\ q.body \in Seq(Parts)
  BY DEF Question, Issued
<1>2. q = [id |-> q.id, client |-> q.client, body |-> q.body]
  BY DEF Question
<1> QED BY <1>1, <1>2 DEF QuestionsOf

\* The manager answers: one question less, one reply more.
LEMMA StreamManagerReplies ==
  ASSUME HttpInv, HttpInv', StreamInv, ManagerReplies
  PROVE  StreamInv'
<1> DEFINE q == Head(asked)
           m == [op |-> "reply", id |-> q.id, client |-> q.client]
<1>1. /\ asked # <<>> /\ mailbox' = Append(mailbox, m) /\ asked' = Tail(asked)
      /\ replied' = [replied EXCEPT ![q.client] = @ + 1]
      /\ UNCHANGED <<client, sent, unread, wire, held, conn, nextId, batch>>
  BY DEF ManagerReplies, clientVars, loopVars
<1>2. ConnsTyped /\ QueuesTyped /\ TypeOK /\ TypeOK'
  BY DEF HttpInv, TypeOK
<1>3. q \in Question
  BY <1>1, <1>2, TailFacts DEF QueuesTyped
<1>4. /\ q.client \in Clients /\ m \in Message /\ mailbox \in Seq(Message) /\ nextId \in Nat
      /\ asked \in Seq(Question)
      /\ m.op = "reply" /\ m.client = q.client /\ ~IsConnect(m)
  BY <1>2, <1>3 DEF Question, Message, QueuesTyped, ConnsTyped, IsConnect
<1> HIDE DEF m
<1>5. Connecting(mailbox') = Connecting(mailbox)
  <2>1. Connecting(Append(mailbox, m))
             = Connecting(mailbox) \cup (IF IsConnect(m) THEN {m.client} ELSE {})
    BY <1>4, QueueGrows
  <2> QED BY <1>1, <1>4, <2>1
<1>6. ASSUME NEW c \in Clients PROVE CountsGoOn(c) /\ Steady(c)
  <2> DEFINE one == IF c = q.client THEN 1 ELSE 0
  <2>1. m \in RepliesTo(c) <=> c = q.client
    BY <1>4, ReplyKinds
  <2>2. Count(mailbox', RepliesTo(c)) = Count(mailbox, RepliesTo(c)) + one
    <3>1. Count(mailbox', RepliesTo(c)) =
            Count(mailbox, RepliesTo(c)) + (IF m \in RepliesTo(c) THEN 1 ELSE 0)
      BY <1>1, <1>4, CountAppend
    <3> QED BY <2>1, <3>1
  <2>3. replied'[c] = replied[c] + one
    BY <1>1, <1>2, <1>4 DEF QueuesTyped
  <2>4. Count(asked, QuestionsOf(c)) = Count(asked', QuestionsOf(c)) + one
    <3>1. q \in QuestionsOf(c) <=> c = q.client
      BY <1>3, <1>4, QuestionKinds
    <3>2. Count(asked, QuestionsOf(c)) =
            Count(asked', QuestionsOf(c)) + (IF q \in QuestionsOf(c) THEN 1 ELSE 0)
      BY <1>1, <1>4, CountTail
    <3> QED BY <3>1, <3>2
  <2>5. /\ Questions(c) \in Nat /\ Replies(c) \in Nat /\ replied[c] \in Nat
        /\ Questions(c)' \in Nat /\ Replies(c)' \in Nat
    BY <1>2, CountsBoth
  <2>6. /\ Count(mailbox, RepliesTo(c)) \in Nat /\ Count(batch, RepliesTo(c)) \in Nat
    BY <1>2, CountsTyped
  <2>7. one \in Nat
    OBVIOUS
  <2> HIDE DEF one
  <2>8. Replies(c)' = Replies(c) + one
    <3>1. Replies(c)' = Count(mailbox', RepliesTo(c)) + Count(batch, RepliesTo(c))
      BY <1>1 DEF Replies, RepliesTo
    <3> QED BY <2>2, <2>6, <2>7, <3>1 DEF Replies
  <2>9. Questions(c) = Questions(c)' + one
    BY <2>4 DEF Questions, QuestionsOf
  <2>10. CountsGoOn(c)
    BY <2>3, <2>5, <2>7, <2>8 DEF CountsGoOn
  <2>11. Questions(c)' + Replies(c)' <= Questions(c) + Replies(c)
    BY <2>5, <2>7, <2>8, <2>9
  <2>12. Awaited' = Awaited
    BY <1>1, <1>5 DEF Awaited
  <2> QED BY <1>1, <2>10, <2>11, <2>12 DEF Steady
<1> QED BY <1>2, <1>6, StreamKept

\* The thread takes the channel's messages.
LEMMA StreamTakeBatch ==
  ASSUME HttpInv, HttpInv', StreamInv, TakeBatch
  PROVE  StreamInv'
<1>1. /\ batch = <<>> /\ batch' = mailbox /\ mailbox' = <<>>
      /\ UNCHANGED <<client, sent, unread, wire, held, conn, asked, replied>>
  BY DEF TakeBatch, clientVars, managerVars
<1>2. TypeOK /\ TypeOK'
  BY DEF HttpInv
<1>3. Connecting(batch) = {} /\ Connecting(mailbox') = {}
  BY <1>1, QueueEmpty
<1>4. Awaited' = Awaited
  BY <1>1, <1>3 DEF Awaited
<1>5. ASSUME NEW d \in Clients PROVE CountsGoOn(d) /\ Steady(d)
  <2>1. Replies(d)' <= Replies(d)
    <3>1. Count(batch, RepliesTo(d)) = 0 /\ Count(mailbox', RepliesTo(d)) = 0
      BY <1>1, CountType, EmptySeq
    <3>2. Count(mailbox, RepliesTo(d)) \in Nat
      BY <1>2, CountsTyped
    <3>3. Replies(d)' = Count(mailbox', RepliesTo(d)) + Count(mailbox, RepliesTo(d))
      BY <1>1 DEF Replies, RepliesTo
    <3> QED BY <3>1, <3>2, <3>3 DEF Replies
  <2>2. CountsGoOn(d) /\ Questions(d)' + Replies(d)' <= Questions(d) + Replies(d)
    BY <1>1, <1>2, <2>1, RepliesFall
  <2> QED BY <1>1, <1>4, <2>2 DEF Steady
<1> QED BY <1>2, <1>5, StreamKept
-----------------------------------------------------------------------------
(* Requests arrive and connections come and go. *)

\* The only head of a single request is its first part.
LEMMA OnlyFirstIsHead ==
  ASSUME NEW c \in Clients, OneRequest(c)
  PROVE  /\ Request[c] \in Seq(Parts) /\ Len(Request[c]) \in Nat /\ Len(Request[c]) >= 1
         /\ DOMAIN Request[c] = 1..Len(Request[c]) /\ Request[c][1] = "head"
         /\ \A i \in 1..Len(Request[c]) : i # 1 => Request[c][i] = "body"
<1> DEFINE q == Request[c]
           H == {i \in DOMAIN q : q[i] = "head"}
<1>1. q \in Seq(Parts) /\ q # <<>> /\ Head(q) = "head"
  BY HttpAssumption DEF Parts
<1>2. /\ Len(q) \in Nat /\ Len(q) >= 1 /\ DOMAIN q = 1..Len(q) /\ q[1] = "head"
  BY <1>1, TailFacts
<1>3. \A i \in 1..Len(q) : q[i] \in Parts
  BY <1>1, ElementOfSeq
<1>4. Cardinality(H) = 1 /\ IsFiniteSet(H)
  <2>1. IsFiniteSet(1..Len(q))
    BY <1>2, FS_Interval
  <2>2. IsFiniteSet(H)
    BY <1>2, <2>1, FS_Subset
  <2> QED BY <2>2 DEF OneRequest, CountOf
<1>5. 1 \in H
  BY <1>2
<1> HIDE DEF H
<1>6. PICK x : H = {x}
  BY <1>4, FS_Singleton
<1>7. \A i \in H : i = 1
  BY <1>5, <1>6
<1> QED BY <1>1, <1>2, <1>3, <1>7 DEF H, Parts

\* The next part follows those sent before it.
LEMMA PartsFollow ==
  ASSUME NEW S, NEW q \in Seq(S), NEW n \in Nat, n < Len(q)
  PROVE  Append(SubSeq(q, 1, n), q[n + 1]) = SubSeq(q, 1, n + 1)
<1> DEFINE a == SubSeq(q, 1, n)
           b == SubSeq(q, 1, n + 1)
           e == Append(a, q[n + 1])
<1>1. Len(q) \in Nat /\ DOMAIN q = 1..Len(q) /\ \A i \in 1..Len(q) : q[i] \in S
  BY LenProperties, ElementOfSeq
<1>2. n \in 0..Len(q) /\ n + 1 \in 0..Len(q) /\ n + 1 \in 1..Len(q)
  BY <1>1
<1>3. a \in Seq(S) /\ Len(a) = n /\ b \in Seq(S) /\ Len(b) = n + 1
  BY <1>2, CutAndJoined
<1>4. (\A i \in 1..n : a[i] = q[i]) /\ (\A i \in 1..(n + 1) : b[i] = q[i])
  BY <1>1, <1>2
<1> HIDE DEF a, b
<1>5. /\ e \in Seq(S) /\ DOMAIN e = 1..(n + 1)
      /\ \A i \in 1..n : e[i] = a[i] 
      /\ e[n + 1] = q[n + 1]
  BY <1>1, <1>2, <1>3, AppendFacts
<1>6. Len(e) = n + 1
  BY <1>5, LenProperties
<1> HIDE DEF e
<1>7. \A i \in 1..(n + 1) : i \in 1..n \/ i = n + 1
  OBVIOUS
<1>8. \A i \in 1..(n + 1) : e[i] = b[i]
  BY <1>4, <1>5, <1>7
<1>9. e = b
  BY <1>3, <1>5, <1>6, <1>8, SeqEqual
<1> QED BY <1>9 DEF a, b, e

\* A client sends a part of its request.
LEMMA StreamSends ==
  ASSUME HttpInv, HttpInv', StreamInv, NEW c \in Clients, ClientSends(c)
  PROVE  StreamInv'
<1> DEFINE x == Request[c][sent[c] + 1]
<1>1. /\ client[c] = "open" /\ sent[c] < Len(Request[c])
      /\ sent' = [sent EXCEPT ![c] = @ + 1] /\ unread' = [unread EXCEPT ![c] = Append(@, x)]
      /\ UNCHANGED <<client, wire, held, conn, nextId, mailbox, batch, asked, replied>>
  BY DEF ClientSends, loopVars, managerVars
<1>2. ClientsTyped /\ ConnsTyped /\ QueuesTyped /\ TypeOK /\ TypeOK'
  BY DEF HttpInv, TypeOK
<1>3. Awaited' = Awaited
  BY <1>1 DEF Awaited, Connecting
<1>4. ASSUME NEW d \in Clients
      PROVE  /\ CountsGoOn(d) /\ Questions(d)' = Questions(d) /\ Replies(d)' = Replies(d)
             /\ replied'[d] = replied[d]
             /\ Questions(d)' + Replies(d)' <= Questions(d) + Replies(d)
  <2>1. Replies(d)' = Replies(d) /\ Replies(d) \in Nat
    BY <1>1, <1>2, CountsBoth DEF Replies, RepliesTo
  <2> QED BY <1>1, <1>2, <2>1, RepliesFall
<1>5. ASSUME NEW d \in Clients, d # c PROVE Steady(d)
  <2>1. unread'[d] = unread[d] /\ sent'[d] = sent[d]
    BY <1>1, <1>2, <1>5 DEF ClientsTyped
  <2> QED BY <1>1, <1>3, <1>4, <2>1 DEF Steady
<1>6. ASSUME OneRequest(c), StreamSound(c) PROVE StreamSound(c)'
  <2>1. /\ Request[c] \in Seq(Parts) /\ Len(Request[c]) \in Nat
        /\ \A i \in 1..Len(Request[c]) : i # 1 => Request[c][i] = "body"
    BY <1>6, OnlyFirstIsHead
  <2>2. sent[c] \in Nat /\ sent[c] + 1 \in 1..Len(Request[c]) /\ unread[c] \in Seq(Parts)
    BY <1>1, <1>2, <2>1 DEF ClientsTyped
  <2>3. sent'[c] = sent[c] + 1 /\ unread'[c] = Append(unread[c], x)
    BY <1>1, <1>2 DEF ClientsTyped
  <2>4. x \in Parts
    BY <2>1, <2>2, ElementOfSeq
  <2>5. sent[c] >= 1 => x # "head"
    BY <2>1, <2>2
  <2>6. unread[c] = SubSeq(Request[c], 1, sent[c]) => unread'[c] = SubSeq(Request[c], 1, sent'[c])
    BY <1>1, <2>1, <2>2, <2>3, PartsFollow
  <2> HIDE DEF x
  <2>7. /\ DOMAIN unread[c] = 1..Len(unread[c]) /\ Len(unread[c]) \in Nat
        /\ DOMAIN unread'[c] = 1..(Len(unread[c]) + 1)
        /\ \A i \in 1..Len(unread[c]) : unread'[c][i] = unread[c][i]
        /\ unread'[c][Len(unread[c]) + 1] = x
        /\ unread'[c] \in Seq(Parts)
    BY <2>2, <2>3, <2>4, AppendFacts
  <2>8. Len(unread'[c]) = Len(unread[c]) + 1
    BY <2>7, LenProperties
  <2>9. Untouched(c) => Untouched(c)'
    BY <1>1, <1>4, <2>6 DEF Untouched
  <2>10. ASSUME NEW id \in DOMAIN conn, conn[id].client = c, client[c] # "rst"
        PROVE  Unread(c, conn[id])' \/ Unanswered(c, conn[id])' \/ Answering(c, conn[id])'
    <3>1. PICK r : r = conn[id]
      OBVIOUS
    <3>2. r = conn'[id] /\ r \in Connection
      BY <1>1, <1>2, <3>1 DEF ConnsTyped
    <3>3. Unread(c, r) \/ Unanswered(c, r) \/ Answering(c, r)
      BY <1>6, <2>10, <3>1 DEF StreamSound
    <3>4. Unread(c, r) => Unread(c, r)'
      BY <2>9 DEF Unread
    <3>5. HeadRead(c, r) => HeadRead(c, r)'
      <4>1. ASSUME HeadRead(c, r) PROVE HeadRead(c, r)'
        <5>1. sent[c] >= 1 /\ \A i \in DOMAIN unread[c] : unread[c][i] # "head"
          BY <4>1 DEF HeadRead
        <5>2. \A i \in 1..(Len(unread[c]) + 1) : i \in 1..Len(unread[c]) \/ i = Len(unread[c]) + 1
          BY <2>7
        <5>3. \A i \in DOMAIN unread'[c] : unread'[c][i] # "head"
          BY <2>5, <2>7, <5>1, <5>2
        <5>4. sent'[c] >= 1
          BY <2>2, <2>3
        <5> QED BY <4>1, <5>3, <5>4 DEF HeadRead
      <4> QED BY <4>1
    <3>6. Unanswered(c, r) => Unanswered(c, r)'
      <4>1. Len(r.recvBody) \in Nat
        BY <3>2, LenProperties DEF Connection
      <4>2. Len(r.recvBody) + Len(unread[c]) <= sent[c] - 1
              => Len(r.recvBody) + Len(unread'[c]) <= sent'[c] - 1
        <5>1. \A a, b, n \in Nat : a + b <= n - 1 => a + (b + 1) <= (n + 1) - 1
          OBVIOUS
        <5> QED BY <2>2, <2>3, <2>7, <2>8, <4>1, <5>1
      <4> QED BY <1>1, <1>4, <3>5, <4>2 DEF Unanswered, BodySent
    <3>7. AtMost(c, 1) => AtMost(c, 1)'
      BY <1>2, <1>4, AtMostKept
    <3>8. AtMost(c, 0) => AtMost(c, 0)'
      BY <1>2, <1>4, AtMostKept
    <3>9. Answering(c, r) => Answering(c, r)'
      BY <1>1, <3>5, <3>7, <3>8 DEF Answering
    <3>10. Unread(c, r)' \/ Unanswered(c, r)' \/ Answering(c, r)'
      BY <3>3, <3>4, <3>6, <3>9
    <3> QED BY <3>2, <3>10 DEF Unread, Unanswered, Answering, HeadRead
  <2>11. \A id \in DOMAIN conn' : conn'[id].client = c /\ client'[c] # "rst" =>
            Unread(c, conn[id])' \/ Unanswered(c, conn[id])' \/ Answering(c, conn[id])'
    BY <1>1, <2>10
  <2>12. Ordered(wire'[c], c) /\ (client'[c] = "new" \/ c \in Awaited' => Untouched(c)')
    BY <1>1, <1>3, <1>6, <2>9 DEF StreamSound
  <2> QED BY <2>11, <2>12 DEF StreamSound
<1> QED BY <1>2, <1>4, <1>5, <1>6, StreamKept

\* A connect message: the client's request is untouched.
LEMMA StreamHandleConnect ==
  ASSUME HttpInv, HttpInv', StreamInv, HandleConnect
  PROVE  StreamInv'
<1> DEFINE h == Head(batch)
           new == [client |-> h.client, status |-> "recv_head", pending |-> FALSE, parts |-> <<>>,
                   recvBody |-> <<>>, buf |-> NoBuf, body |-> <<>>, head |-> Blank]
<1>1. /\ batch # <<>> /\ h.op = "connect" /\ batch' = Tail(batch)
      /\ conn' = [id \in DOMAIN conn \cup {nextId} |-> IF id = nextId THEN new ELSE conn[id]]
      /\ UNCHANGED <<client, sent, unread, wire, held, mailbox, asked, replied>>
  BY DEF HandleConnect, Receives, GenId, clientVars, managerVars
<1>2. ConnsTyped /\ QueuesTyped /\ TypeOK /\ TypeOK' /\ OneConnectionEach
  BY DEF HttpInv, TypeOK
<1>3. nextId \in Nat /\ nextId \notin DOMAIN conn
  BY <1>2 DEF ConnsTyped, Issued
<1>4. /\ h \in Message /\ batch \in Seq(Message) /\ IsConnect(h)
      /\ Connecting(batch') \subseteq Connecting(batch) /\ h.client \in Connecting(batch)
  <2>1. batch \in Seq(Message) /\ IsConnect(h)
    BY <1>1, <1>2 DEF QueuesTyped, IsConnect
  <2>2. /\ h \in Message /\ Connecting(Tail(batch)) \subseteq Connecting(batch)
        /\ h.client \in Connecting(batch)
    BY <1>1, <2>1, QueueShrinks
  <2> QED BY <1>1, <2>1, <2>2
<1>5. h.client \in Awaited /\ Awaited' \subseteq Awaited
  BY <1>1, <1>4 DEF Awaited
<1>6. ASSUME NEW d \in Clients
      PROVE  /\ CountsGoOn(d) /\ Questions(d)' = Questions(d) /\ Replies(d)' = Replies(d)
             /\ Questions(d)' + Replies(d)' <= Questions(d) + Replies(d)
  <2>1. Replies(d)' = Replies(d) /\ Replies(d) \in Nat
    <3>1. h \notin RepliesTo(d)
      BY <1>1, <1>3, <1>4, ReplyKinds
    <3>2. Count(batch, RepliesTo(d)) = Count(batch', RepliesTo(d)) + 0
      BY <1>1, <1>4, <3>1, CountTail
    <3>3. Count(mailbox, RepliesTo(d)) \in Nat /\ Count(batch, RepliesTo(d)) \in Nat
      BY <1>2, CountsTyped
    <3>4. Count(batch', RepliesTo(d)) \in Nat
      <4>1. batch' \in Seq(Message')
        BY <1>2 DEF TypeOK, QueuesTyped
      <4> QED BY <4>1, CountType
    <3> QED BY <1>1, <3>2, <3>3, <3>4 DEF Replies, RepliesTo
  <2> QED BY <1>1, <1>2, <2>1, RepliesFall
<1>7. new.client = h.client /\ new.status = "recv_head" /\ new.buf = NoBuf /\ new.parts = <<>>
      /\ new.recvBody = <<>>
  OBVIOUS
<1> HIDE DEF new
<1>8. /\ DOMAIN conn' = DOMAIN conn \cup {nextId} /\ conn'[nextId] = new
      /\ \A id \in DOMAIN conn : conn'[id] = conn[id]
  BY <1>1, <1>3
<1>9. ASSUME NEW d \in Clients, d # h.client PROVE Steady(d)
  <2>1. \A id \in DOMAIN conn' : conn'[id].client = d => id \in DOMAIN conn
    BY <1>7, <1>8, <1>9
  <2> QED BY <1>1, <1>5, <1>6, <1>8, <2>1 DEF Steady
<1>10. ASSUME NEW d \in Clients, d = h.client, StreamSound(d) PROVE StreamSound(d)'
  <2>1. Untouched(d)'
    <3>1. Untouched(d)
      BY <1>5, <1>10 DEF StreamSound
    <3> QED BY <1>1, <1>6, <3>1 DEF Untouched
  <2>2. \A id \in DOMAIN conn' : conn'[id].client = d => id = nextId
    BY <1>2, <1>5, <1>8, <1>10 DEF OneConnectionEach
  <2>5. PICK n : n = nextId
    OBVIOUS
  <2>3. Unread(d, conn[n])'
    <3>1. conn'[n] = new
      BY <1>8, <2>5
    <3> QED BY <1>7, <2>1, <3>1 DEF Unread
  <2>4. Ordered(wire'[d], d)
    BY <1>1, <1>10 DEF StreamSound
  <2> QED BY <2>1, <2>2, <2>3, <2>4, <2>5 DEF StreamSound
<1> QED BY <1>2, <1>6, <1>9, <1>10, StreamKept

\* The end of a turn: a connection that is erased leaves no stream behind.
LEMMA StreamEndOfTurn ==
  ASSUME HttpInv, HttpInv', StreamInv, EndOfTurn
  PROVE  StreamInv'
<1> DEFINE ids == doomed \cup {t[2] : t \in Due}
           gone == {conn[id].client : id \in ids \cap DOMAIN conn}
<1>1. /\ conn' = [id \in DOMAIN conn \ ids |-> conn[id]]
      /\ client' = [c \in Clients |-> IF c \in gone /\ client[c] # "rst" THEN "closed"
                                      ELSE client[c]]
      /\ unread' = [c \in Clients |-> IF c \in gone THEN <<>> ELSE unread[c]]
      /\ held' = [c \in Clients |-> IF c \in gone THEN 0 ELSE held[c]]
      /\ UNCHANGED <<sent, wire, mailbox, batch, asked, replied>>
  BY DEF EndOfTurn, Erase, managerVars
<1>2. TypeOK /\ TypeOK' /\ OneConnectionEach
  BY DEF HttpInv
<1>3. \A c \in gone : /\ c \in Opened \ Awaited
                      /\ \A id \in DOMAIN conn : conn[id].client = c => id \in ids
  BY <1>2 DEF OneConnectionEach
<1> HIDE DEF ids, gone
<1>4. /\ DOMAIN conn' = DOMAIN conn \ ids /\ \A id \in DOMAIN conn' : conn'[id] = conn[id]
  BY <1>1
<1>5. Awaited' = Awaited
  BY <1>1 DEF Awaited, Connecting
<1>6. ASSUME NEW d \in Clients
      PROVE  CountsGoOn(d) /\ Questions(d)' + Replies(d)' <= Questions(d) + Replies(d)
  <2>1. Replies(d)' = Replies(d) /\ Replies(d) \in Nat
    BY <1>1, <1>2, CountsBoth DEF Replies, RepliesTo
  <2> QED BY <1>1, <1>2, <2>1, RepliesFall
<1>7. ASSUME NEW d \in Clients, d \notin gone PROVE Steady(d)
  <2>1. client'[d] = client[d] /\ unread'[d] = unread[d] /\ held'[d] = held[d]
    BY <1>1, <1>7
  <2> QED BY <1>1, <1>4, <1>5, <1>6, <2>1 DEF Steady
<1>8. ASSUME NEW d \in Clients, d \in gone, StreamSound(d) PROVE StreamSound(d)'
  <2>1. client'[d] # "new" /\ d \notin Awaited'
    BY <1>1, <1>3, <1>5, <1>8 DEF Opened
  <2>2. \A id \in DOMAIN conn' : conn'[id].client # d
    BY <1>3, <1>4, <1>8
  <2>3. Ordered(wire'[d], d)
    BY <1>1, <1>8 DEF StreamSound
  <2> QED BY <2>1, <2>2, <2>3 DEF StreamSound
<1> QED BY <1>2, <1>6, <1>7, <1>8, StreamKept

\* A reply that cannot be sent: its client has reset the connection.
LEMMA StreamReplyThrows ==
  ASSUME HttpInv, HttpInv', StreamInv, HandleReplyThrows
  PROVE  StreamInv'
<1> DEFINE q == Head(batch)
           s == Pull(Answered(q))
<1>1. /\ Receives("reply") /\ batch' = <<>> /\ q.id \in DOMAIN conn
      /\ client[conn[q.id].client] = "rst" /\ conn' = [conn EXCEPT ![q.id] = s.r]
      /\ UNCHANGED <<client, sent, unread, wire, held, nextId, mailbox, asked, replied>>
  BY DEF HandleReplyThrows, clientVars, managerVars
<1>2. TypeOK /\ TypeOK' /\ OwnSent /\ OneConnectionEach /\ RepliesFit
  BY DEF HttpInv
<1>3. /\ q \in Range(batch) /\ q.op = "reply" /\ q.client \in Clients
      /\ Connecting(batch') \subseteq Connecting(batch)
      /\ \A d \in Clients : Replies(d)' <= Replies(d)
  BY <1>1, <1>2, ReplyTaken
<1> HIDE DEF q
<1>4. conn[q.id].client = q.client
  BY <1>1, <1>2, <1>3 DEF RepliesFit, Fits
<1>5. s.r.client = q.client
  <2>1. IsSending(Answered(q), q.client)
    BY <1>1, <1>2, <1>4, AnsweredOK
  <2> QED BY <1>3, <2>1, PullOK DEF SendsOn, IsSending
<1> HIDE DEF s
<1>6. /\ DOMAIN conn' = DOMAIN conn /\ conn'[q.id].client = q.client
      /\ \A id \in DOMAIN conn : id # q.id => conn'[id] = conn[id]
  BY <1>1, <1>5
<1>7. ASSUME NEW d \in Clients PROVE CountsGoOn(d) /\ Steady(d)
  <2>1. CountsGoOn(d) /\ Questions(d)' + Replies(d)' <= Questions(d) + Replies(d)
    BY <1>1, <1>2, <1>3, RepliesFall
  <2>2. Awaited' \subseteq Awaited
    BY <1>1, <1>3 DEF Awaited
  <2>3. \A id \in DOMAIN conn' : conn'[id].client = d /\ client'[d] # "rst" => id # q.id
    BY <1>1, <1>4, <1>6
  <2> QED BY <1>1, <1>6, <2>1, <2>2, <2>3 DEF Steady
<1> QED BY <1>2, <1>7, StreamKept
-----------------------------------------------------------------------------
(* A connection's handler sends. *)

\* Three sequences one after the other.
LEMMA JoinThree ==
  ASSUME NEW S, NEW x \in Seq(S), NEW y \in Seq(S), NEW z \in Seq(S)
  PROVE  (x \o y) \o z = x \o (y \o z) /\ x \o y \in Seq(S) /\ y \o z \in Seq(S)
<1>1. (x \o y) \o z = x \o (y \o z)
  BY ConcatAssociative
<1>2. x \o y \in Seq(S) /\ y \o z \in Seq(S)
  BY ConcatProperties
<1> QED BY <1>1, <1>2

\* What has gone out of a whole stream is in order.
LEMMA PrefixOrdered ==
  ASSUME NEW c \in Clients, NEW w \in Seq(OwnUnits(c)), NEW x \in Seq(OwnUnits(c)),
         NEW y \in Seq(OwnUnits(c)), Whole(w \o (x \o y), c)
  PROVE  Whole((w \o x) \o y, c) /\ Ordered(w \o x, c)
<1>1. (w \o x) \o y = w \o (x \o y) /\ w \o x \in Seq(OwnUnits(c))
  BY JoinThree
<1>2. Whole((w \o x) \o y, c)
  BY <1>1
<1>3. Ordered((w \o x) \o y, c)
  BY <1>2 DEF Whole
<1> DEFINE v == w \o x
<1>4. v \in Seq(OwnUnits(c)) /\ Ordered(v \o y, c)
  BY <1>1, <1>3
<1> HIDE DEF v
<1>5. Ordered(v, c)
  BY <1>4, OrderedConcat
<1> QED BY <1>2, <1>5 DEF v

\* send_async_response before anything is sent.
LEMMA AnsweredStream ==
  ASSUME TypeOK, OwnSent, NEW q, q.id \in DOMAIN conn, conn[q.id].client = q.client
  PROVE  LET a == Answered(q)
             r == conn[q.id]
         IN  /\ a.r.status = "send_head" /\ ~a.r.pending /\ a.r.head = q.client
             /\ a.r.body = BodyOf(q.client) /\ a.r.parts = r.parts /\ a.r.buf = r.buf
             /\ a.out = <<>> /\ a.room = SockRoom - held[q.client]
             /\ Behind(a.r) = <<<<q.client, "head">>>> \o BodyOf(q.client)
             /\ Buffered(a.r) = Buffered(r) /\ (Stuck(a.r) <=> Stuck(r))
<1> DEFINE c == q.client
           s == Sending(q.id)
           r == [s.r EXCEPT !.body = BodyOf(c), !.head = c, !.pending = FALSE,
                            !.status = "send_head"]
           a == [s EXCEPT !.r = r]
<1>1. /\ c \in Clients /\ conn[q.id] \in Connection /\ IsSending(s, c)
      /\ s.r = conn[q.id] /\ s.out = <<>> /\ s.room = SockRoom - held[c]
  BY SendingOK
<1> HIDE DEF s
<1>2. /\ s \in [r : Connection, out : Seq(OwnUnits(c)), room : Nat] /\ s.r \in Connection
  BY <1>1 DEF IsSending
<1>3. /\ r.body = BodyOf(c) /\ r.head = c /\ r.pending = FALSE /\ r.status = "send_head"
      /\ r.buf = s.r.buf /\ r.parts = s.r.parts
  BY <1>2 DEF Connection
<1>4. Answered(q) = a
  <2>1. Answered(q) = [s EXCEPT !.r.body = BodyOf(c), !.r.head = c, !.r.pending = FALSE,
                                !.r.status = "send_head"]
    BY DEF Answered, s
  <2> QED BY <1>2, <2>1
<1> HIDE DEF r
<1>5. a.r = r /\ a.out = <<>> /\ a.room = s.room
  BY <1>1, <1>2
<1> HIDE DEF a
<1>6. Behind(r) = <<<<c, "head">>>> \o BodyOf(c)
  BY <1>3 DEF Behind
<1>7. Buffered(r) = Buffered(conn[q.id]) /\ (Stuck(r) <=> Stuck(conn[q.id]))
  BY <1>1, <1>3 DEF Buffered, Stuck
<1> QED BY <1>1, <1>3, <1>4, <1>5, <1>6, <1>7

\* A handler has sent for c: what it leaves to its connection and to its client.
LEMMA SentOwn ==
  ASSUME HttpInv, NEW id \in DOMAIN conn, NEW c \in Clients, NEW p, IsSending(p, c), Sent(id, p)
  PROVE  /\ wire'[c] = wire[c] \o p.out /\ wire[c] \in Seq(OwnUnits(c))
         /\ conn'[id] = p.r /\ held'[c] = held[c] + Len(p.out)
<1>1. p.r.client = c
  BY DEF IsSending
<1>2. /\ conn' = [conn EXCEPT ![id] = p.r]
      /\ wire' = [wire EXCEPT ![c] = @ \o p.out] /\ held' = [held EXCEPT ![c] = @ + Len(p.out)]
  BY <1>1 DEF Sent
<1>3. DOMAIN wire = Clients /\ DOMAIN held = Clients /\ wire[c] \in Seq(OwnUnits(c))
  BY DEF HttpInv, TypeOK, ClientsTyped, OwnSent
<1> QED BY <1>2, <1>3

\* Only the wire and the connection of c have changed.
LEMMA SentTo ==
  ASSUME HttpInv, NEW id \in DOMAIN conn, NEW c \in Clients, c = conn[id].client,
         NEW p, IsSending(p, c), Len(p.out) + p.room = SockRoom - held[c], Sent(id, p)
  PROVE  /\ \A o \in DOMAIN conn' : conn'[o].client = c => o = id
         /\ \A d \in Clients : d # c =>
              /\ wire'[d] = wire[d] /\ held'[d] = held[d]
              /\ \A o \in DOMAIN conn' : conn'[o].client = d => o \in DOMAIN conn /\ conn'[o] = conn[o]
<1>1. TypeOK /\ OwnSent /\ OneConnectionEach
  BY DEF HttpInv
<1>2. p.r.client = c
  BY DEF IsSending
<1>3. /\ DOMAIN conn' = DOMAIN conn /\ conn'[id] = p.r
      /\ \A other \in DOMAIN conn : other # id => conn'[other] = conn[other]
  BY <1>1, SentFacts
<1>4. /\ wire' = [wire EXCEPT ![c] = @ \o p.out] /\ held' = [held EXCEPT ![c] = @ + Len(p.out)]
  BY <1>2 DEF Sent
<1>5. DOMAIN wire = Clients /\ DOMAIN held = Clients
  BY <1>1 DEF TypeOK, ClientsTyped
<1>7. ASSUME NEW d \in Clients, d # c
      PROVE  /\ wire'[d] = wire[d] /\ held'[d] = held[d]
             /\ \A o \in DOMAIN conn' : conn'[o].client = d => o \in DOMAIN conn /\ conn'[o] = conn[o]
  <2>1. wire'[d] = wire[d] /\ held'[d] = held[d]
    BY <1>4, <1>5, <1>7
  <2>2. \A o \in DOMAIN conn' : conn'[o].client = d => o \in DOMAIN conn /\ conn'[o] = conn[o]
    BY <1>2, <1>3, <1>7
  <2> QED BY <2>1, <2>2
<1>8. \A o \in DOMAIN conn' : conn'[o].client = c => o = id
  BY <1>1, <1>2, <1>3 DEF OneConnectionEach
<1> QED BY <1>7, <1>8

\* Its own stream is sound if what went out is in order and the connection is in
\* one of the states after the first question or answer.
LEMMA StreamAfterSend ==
  ASSUME HttpInv, NEW id \in DOMAIN conn, NEW c \in Clients, c = conn[id].client,
         NEW p, IsSending(p, c), Len(p.out) + p.room = SockRoom - held[c], Sent(id, p),
         UNCHANGED client, Awaited' \subseteq Awaited, Ordered(wire'[c], c),
         client[c] # "rst" => Unanswered(c, conn[id])' \/ Answering(c, conn[id])'
  PROVE  StreamSound(c)'
<1>1. OneConnectionEach
  BY DEF HttpInv
<1>2. \A o \in DOMAIN conn' : conn'[o].client = c => o = id
  BY SentTo
<1>3. c \in Opened /\ c \notin Awaited' /\ client'[c] # "new"
  BY <1>1 DEF OneConnectionEach, Opened
<1> QED BY <1>2, <1>3 DEF StreamSound

\* The client that has reset its connection is sent a reply only if nothing can
\* be sent: an empty buffer is in the way.
LEMMA NothingSent ==
  ASSUME TypeOK, OwnSent, NEW q, q.id \in DOMAIN conn, conn[q.id].client = q.client,
         ~Sends(Answered(q))
  PROVE  RealSend(Answered(q)) = Answered(q)
<1> DEFINE a == Answered(q)
           b == Pull(a)
<1>1. q.client \in Clients /\ IsSending(a, q.client)
  BY AnsweredOK
<1>2. a.r.status = "send_head" /\ ~a.r.pending
  BY AnsweredStream
<1> HIDE DEF a
<1>3. b.r.buf \in {NoBuf, <<<<>>>>}
  BY DEF Sends, a
<1>4. a.r.buf = NoBuf => b.r.buf = <<<<<<a.r.head, "head">>>>>>
  BY <1>1, <1>2, PullStream
<1>5. a.r.buf # NoBuf
  <2>1. <<<<<<a.r.head, "head">>>>>> \notin {NoBuf, <<<<>>>>}
    BY DEF NoBuf
  <2> QED BY <1>3, <1>4, <2>1
<1>6. b = a
  BY <1>1, <1>5, PullStream
<1>7. Stuck(a.r)
  BY <1>3, <1>5, <1>6 DEF Stuck
<1>8. Flow(a, RealSend(a))
  BY <1>1, RealSendFlows
<1> QED BY <1>7, <1>8 DEF Flow, a

\* A response has a body.
LEMMA BodyNotEmpty ==
  ASSUME NEW c \in Clients
  PROVE  BodyOf(c) # <<>> /\ BodyOf(c) \in Seq(OwnUnits(c))
         /\ <<<<c, "head">>>> \o BodyOf(c) \in Seq(OwnUnits(c))
<1>1. BodyLen \in Nat /\ BodyLen # 0
  BY HttpAssumption
<1>2. DOMAIN BodyOf(c) = 1..BodyLen
  BY DEF BodyOf
<1>3. 1 \in DOMAIN BodyOf(c)
  BY <1>1, <1>2
<1>4. BodyOf(c) \in Seq(OwnUnits(c))
  BY BodyOfType, OwnSeqs
<1>5. <<<<c, "head">>>> \o BodyOf(c) \in Seq(OwnUnits(c))
  <2>1. 0 \in 0..(1 + BodyLen)
    BY <1>1
  <2> QED BY <2>1, ResponseStart
<1> QED BY <1>3, <1>4, <1>5

\* A reply to a client that has not been answered, or to one whose earlier
\* responses are whole or in its buffer: its response comes out after them.
LEMMA StreamReplySent ==
  ASSUME HttpInv, HttpInv', NEW q, q.id \in DOMAIN conn, NEW c \in Clients, c = q.client,
         conn[q.id].client = c, client[c] # "rst",
         OneRequest(c), StreamSound(c), Replies(c) <= replied[c], replied[c] <= 2,
         Replies(c)' + 1 <= Replies(c),
         NEW id, id = q.id, NEW p, p = RealSend(Answered(q)), Sent(id, p), Awaited' \subseteq Awaited,
         UNCHANGED <<client, sent, unread, asked, replied>>
  PROVE  StreamSound(c)'
<1> DEFINE r == conn[id]
           a == Answered(q)
           t == <<<<c, "head">>>> \o BodyOf(c)
           w == wire[c]
<1>1. TypeOK /\ OwnSent /\ TypeOK'
  BY DEF HttpInv
<1>2. IsSending(a, c) /\ Len(a.out) + a.room = SockRoom - held[c]
  BY <1>1, AnsweredOK
<1>3. /\ a.r.status = "send_head" /\ ~a.r.pending
      /\ a.r.body = BodyOf(c) /\ a.r.parts = r.parts /\ a.r.buf = r.buf
      /\ a.out = <<>> /\ a.room = SockRoom - held[c]
      /\ Behind(a.r) = t /\ Buffered(a.r) = Buffered(r) /\ (Stuck(a.r) <=> Stuck(r))
  BY <1>1, AnsweredStream
<1>6. p = RealSend(a)
  OBVIOUS
<1> HIDE DEF a
<1>4. /\ IsSending(p, c) /\ Len(p.out) + p.room = SockRoom - held[c]
  BY <1>2, <1>6, RealSendOK DEF SendsOn
<1>5. Flow(a, p)
  BY <1>2, <1>6, RealSendFlows
<1>7. r.buf = NoBuf /\ held[c] = 0 => p.r.status = "recv_head" /\ ~Stuck(p.r)
  <2>1. held[c] = 0 => a.room > 0
    BY <1>3, HttpAssumption
  <2> QED BY <1>2, <1>3, <1>6, <2>1, BodyNotEmpty, HeadGoesOut
<1>8. /\ wire'[c] = w \o p.out /\ w \in Seq(OwnUnits(c)) /\ conn'[id] = p.r
      /\ Ordered(wire'[c], c)
           /\ (client[c] # "rst" => Unanswered(c, conn[id])' \/ Answering(c, conn[id])')
             => StreamSound(c)'
  <2>1. id \in DOMAIN conn /\ c = conn[id].client /\ UNCHANGED client
    OBVIOUS
  <2> HIDE DEF r, t, w
  <2>2. /\ wire'[c] = wire[c] \o p.out /\ wire[c] \in Seq(OwnUnits(c)) /\ conn'[id] = p.r
    <3>1. HttpInv /\ Sent(id, p)
      OBVIOUS
    <3> QED BY ONLY <1>4, <2>1, <3>1, SentOwn
  <2>3. Ordered(wire'[c], c)
           /\ (client[c] # "rst" => Unanswered(c, conn[id])' \/ Answering(c, conn[id])')
             => StreamSound(c)'
    BY <1>4, <2>1, StreamAfterSend
  <2> QED BY <2>2, <2>3 DEF w
<1>9. /\ Questions(c) \in Nat /\ Replies(c) \in Nat /\ replied[c] \in Nat
      /\ Questions(c)' \in Nat /\ Replies(c)' \in Nat
      /\ Questions(c)' = Questions(c) /\ replied'[c] = replied[c]
  BY <1>1, CountsBoth, RepliesFall DEF Questions, QuestionsOf
<1>10. ~Unread(c, r)
  BY <1>9 DEF Unread, Untouched
<1>11. Unanswered(c, r) \/ Answering(c, r)
  BY <1>10 DEF StreamSound
<1>12. HeadRead(c, r) /\ p.r.parts = r.parts /\ p.r.status # "recv_body"
  BY <1>3, <1>5, <1>11 DEF Unanswered, Answering, Flow
<1>13. /\ a.out \in Seq(OwnUnits(c)) /\ Buffered(a.r) \in Seq(OwnUnits(c))
       /\ p.out \in Seq(OwnUnits(c)) /\ Ahead(p.r) \in Seq(OwnUnits(c))
       /\ Buffered(p.r) \in Seq(OwnUnits(c)) /\ Behind(p.r) \in Seq(OwnUnits(c))
  BY <1>2, <1>4, AheadType DEF IsSending
<1>14. Whole(w \o Buffered(r), c) =>
         Whole(wire'[c] \o Ahead(p.r), c) /\ Ordered(wire'[c], c)
  <2> SUFFICES ASSUME Whole(w \o Buffered(r), c)
               PROVE  Whole(wire'[c] \o Ahead(p.r), c) /\ Ordered(wire'[c], c)
    OBVIOUS
  <2> DEFINE b == Buffered(r)
  <2>1. w \in Seq(OwnUnits(c)) /\ b \in Seq(OwnUnits(c)) /\ t \in Seq(OwnUnits(c))
    BY <1>3, <1>8, <1>13, BodyNotEmpty
  <2>2. w \o b \in Seq(OwnUnits(c)) /\ (w \o b) \o t = w \o (b \o t) /\ b \o t \in Seq(OwnUnits(c))
    <3> HIDE DEF w, b, t
    <3> QED BY <2>1, JoinThree
  <2>3. Whole((w \o b) \o t, c)
    <3> DEFINE v == w \o b
    <3>1. v \in Seq(OwnUnits(c)) /\ Whole(v, c)
      BY <2>2
    <3> HIDE DEF v
    <3>2. Whole(v \o t, c)
      BY <3>1, WholeResponse
    <3> QED BY <3>2 DEF v
  <2>4. p.out \o Ahead(p.r) = b \o t
    <3>1. p.out \o Ahead(p.r) = a.out \o Ahead(a.r)
      BY <1>5 DEF Flow
    <3>2. a.out \o Ahead(a.r) = <<>> \o (b \o t)
      BY <1>3 DEF Ahead
    <3> HIDE DEF b, t
    <3>3. <<>> \o (b \o t) = b \o t
      BY <2>2, ConcatEmptySeq
    <3> QED BY <3>1, <3>2, <3>3
  <2>5. Whole(w \o (p.out \o Ahead(p.r)), c)
    BY <2>2, <2>3, <2>4
  <2> DEFINE x == p.out
             y == Ahead(p.r)
  <2>6. x \in Seq(OwnUnits(c)) /\ y \in Seq(OwnUnits(c)) /\ Whole(w \o (x \o y), c)
    BY <1>13, <2>5
  <2> HIDE DEF x, y, w
  <2>7. Whole((w \o x) \o y, c) /\ Ordered(w \o x, c)
    BY <2>1, <2>6, PrefixOrdered
  <2> QED BY <1>8, <2>7 DEF x, y, w
<1>15. HeadRead(c, p.r)'
  BY <1>12 DEF HeadRead
<1>16. CASE Unanswered(c, r)
  <2>1. r.buf = NoBuf /\ w = <<>> /\ held[c] = 0
    BY <1>16 DEF Unanswered
  <2>2. Whole(w \o Buffered(r), c)
    <3>1. Buffered(r) = <<>>
      BY <2>1 DEF Buffered
    <3>2. w \o Buffered(r) = <<>>
      BY <2>1, <3>1, ConcatEmptySeq, EmptySeq
    <3> QED BY <3>2, WholeNothing
  <2>3. p.r.status = "recv_head"
    BY <1>7, <2>1
  <2>4. Ahead(p.r) = Buffered(p.r)
    <3>1. Behind(p.r) = <<>>
      BY <2>3 DEF Behind
    <3>2. Buffered(p.r) \o <<>> = Buffered(p.r)
      BY <1>13, ConcatEmptySeq
    <3> QED BY <3>1, <3>2 DEF Ahead
  <2>5. AtMost(c, 1)'
    <3>1. Replies(c)' + 2 <= replied'[c] + 1
      BY <1>9
    <3> QED BY <3>1 DEF AtMost
  <2>6. Answering(c, p.r)'
    BY <1>12, <1>14, <1>15, <2>2, <2>4, <2>5 DEF Answering
  <2> QED BY <1>8, <1>14, <2>2, <2>6 DEF Answering, HeadRead
<1>17. CASE Answering(c, r)
  <2>1. AtMost(c, 1) /\ ~AtMost(c, 0)
    BY <1>9, <1>17 DEF Answering, AtMost
  <2>2. AtMost(c, 0)' /\ AtMost(c, 1)'
    <3>1. Questions(c)' + Replies(c)' <= 0 \/ Replies(c)' + 2 <= replied'[c] + 0
      BY <1>9, <2>1 DEF AtMost
    <3>2. Questions(c)' + Replies(c)' <= 1 \/ Replies(c)' + 2 <= replied'[c] + 1
      BY <1>9, <2>1 DEF AtMost
    <3> QED BY <3>1, <3>2 DEF AtMost
  <2>3. CASE Stuck(r)
    <3>1. p = a
      BY <1>3, <1>5, <2>3 DEF Flow
    <3>2. w \o p.out = w
      BY <1>3, <1>8, <3>1, ConcatEmptySeq
    <3>3. Ordered(wire'[c], c)
      BY <1>8, <3>2 DEF StreamSound
    <3>4. Answering(c, p.r)'
      BY <1>3, <1>12, <1>15, <2>2, <2>3, <3>1 DEF Answering
    <3> QED BY <1>8, <3>3, <3>4 DEF Answering, HeadRead
  <2>4. CASE ~Stuck(r)
    <3>1. Whole(w \o Buffered(r), c)
      BY <1>17, <2>1, <2>4 DEF Answering
    <3>2. Answering(c, p.r)'
      BY <1>12, <1>14, <1>15, <2>2, <3>1 DEF Answering
    <3> QED BY <1>8, <1>14, <3>1, <3>2 DEF Answering, HeadRead
  <2> QED BY <2>3, <2>4
<1> QED BY <1>11, <1>16, <1>17

\* NORMAL_MSG_HTTP_REPLY
LEMMA StreamHandleReply ==
  ASSUME HttpInv, HttpInv', StreamInv, HandleReply
  PROVE  StreamInv'
<1>0. PICK q : q = Head(batch)
  OBVIOUS
<1>1. /\ Receives("reply") /\ batch' = Tail(batch)
      /\ UNCHANGED <<client, sent, unread, nextId, mailbox, asked, replied>>
      /\ \/ q.id \notin DOMAIN conn /\ UNCHANGED <<conn, wire, held>>
         \/ /\ q.id \in DOMAIN conn /\ Sent(q.id, RealSend(Answered(q)))
            /\ ~(client[conn[q.id].client] = "rst" /\ Sends(Answered(q)))
  BY <1>0 DEF HandleReply, managerVars
<1>2. TypeOK /\ TypeOK' /\ OwnSent /\ OneConnectionEach /\ RepliesFit
  BY DEF HttpInv
<1>3. /\ q \in Range(batch) /\ q.op = "reply" /\ q.client \in Clients
      /\ Connecting(batch') \subseteq Connecting(batch)
      /\ \A d \in Clients : Replies(d)' <= Replies(d) /\ (d = q.client => Replies(d)' + 1 <= Replies(d))
  BY <1>0, <1>1, <1>2, ReplyTaken
<1>4. Awaited' \subseteq Awaited
  BY <1>1, <1>3 DEF Awaited
<1>5. ASSUME NEW d \in Clients
      PROVE  CountsGoOn(d) /\ Questions(d)' + Replies(d)' <= Questions(d) + Replies(d)
  BY <1>1, <1>2, <1>3, RepliesFall
<1>6. CASE q.id \notin DOMAIN conn /\ UNCHANGED <<conn, wire, held>>
  <2>1. ASSUME NEW d \in Clients PROVE Steady(d)
    BY <1>1, <1>4, <1>5, <1>6 DEF Steady
  <2> QED BY <1>2, <1>5, <2>1, StreamKept
<1>7. CASE /\ q.id \in DOMAIN conn /\ Sent(q.id, RealSend(Answered(q)))
           /\ ~(client[conn[q.id].client] = "rst" /\ Sends(Answered(q)))
  <2>1. PICK id, c, p : id = q.id /\ c = q.client /\ p = RealSend(Answered(q))
    OBVIOUS
  <2>2. c \in Clients /\ id \in DOMAIN conn /\ conn[id].client = c /\ Sent(id, p)
    BY <1>2, <1>3, <1>7, <2>1 DEF RepliesFit, Fits
  <2>3. IsSending(p, c) /\ Len(p.out) + p.room = SockRoom - held[c]
    <3> DEFINE a == Answered(q)
    <3>1. IsSending(a, c) /\ Len(a.out) + a.room = SockRoom - held[c]
      BY <1>2, <2>1, <2>2, AnsweredOK
    <3>2. p = RealSend(a)
      BY <2>1
    <3> HIDE DEF a
    <3> QED BY <2>2, <3>1, <3>2, RealSendOK DEF SendsOn
  <2>4. ASSUME NEW d \in Clients, d # c PROVE Steady(d)
    <3>1. /\ wire'[d] = wire[d] /\ held'[d] = held[d]
          /\ \A o \in DOMAIN conn' : conn'[o].client = d => o \in DOMAIN conn /\ conn'[o] = conn[o]
      BY <2>2, <2>3, <2>4, SentTo
    <3> QED BY <1>1, <1>4, <1>5, <3>1 DEF Steady
  <2>5. CASE client[c] = "rst"
    <3>1. p = Answered(q)
      BY <1>2, <1>7, <2>1, <2>2, <2>5, NothingSent
    <3>2. p.out = <<>>
      BY <1>2, <2>1, <2>2, <3>1, AnsweredOK
    <3>3. wire'[c] = wire[c]
      <4>1. wire'[c] = wire[c] \o p.out /\ wire[c] \in Seq(OwnUnits(c))
        BY <2>2, <2>3, SentOwn
      <4> QED BY <3>2, <4>1, ConcatEmptySeq
    <3>4. StreamSound(c) => StreamSound(c)'
      <4> SUFFICES ASSUME StreamSound(c) PROVE StreamSound(c)'
        OBVIOUS
      <4>1. Ordered(wire'[c], c)
        BY <3>3 DEF StreamSound
      <4> QED BY <1>1, <1>4, <2>2, <2>3, <2>5, <4>1, StreamAfterSend
    <3> QED BY <1>2, <1>5, <2>4, <3>4, StreamKept
  <2>6. CASE client[c] # "rst"
    <3>1. ASSUME OneRequest(c), replied[c] <= 2, StreamSound(c), Replies(c) <= replied[c]
          PROVE  StreamSound(c)'
      <4>1. Replies(c)' + 1 <= Replies(c)
        BY <1>3, <2>1, <2>2
      <4> QED BY <1>1, <1>4, <1>7, <2>1, <2>2, <2>6, <3>1, <4>1, StreamReplySent
    <3> QED BY <1>2, <1>5, <2>4, <3>1, StreamKept
  <2> QED BY <2>5, <2>6
<1> QED BY <1>1, <1>6, <1>7
-----------------------------------------------------------------------------
(* A connection receives. *)

\* notify_send_ready
LEMMA NotifyStream ==
  ASSUME NEW c \in Clients, NEW s, IsSending(s, c)
  PROVE  \E a : /\ IsSending(a, c) /\ NotifySendReady(s) = RealSend(a)
                /\ a.r.status = "send_head" /\ a.r.head = s.r.head /\ a.r.body = s.r.body
                /\ a.r.buf = s.r.buf /\ a.r.parts = s.r.parts /\ a.r.pending = s.r.pending
                /\ a.out = s.out /\ a.room = s.room
<1> DEFINE r == [s.r EXCEPT !.status = "send_head"]
           a == [s EXCEPT !.r = r]
<1>1. /\ s \in [r : Connection, out : Seq(OwnUnits(c)), room : Nat]
      /\ s.r \in Connection /\ s.r.client = c /\ Own(s.r)
  BY DEF IsSending
<1>2. /\ r \in Connection /\ r.client = c /\ r.pending = s.r.pending /\ r.head = s.r.head
      /\ r.body = s.r.body /\ r.buf = s.r.buf /\ r.parts = s.r.parts /\ r.status = "send_head"
  BY <1>1 DEF Connection
<1>3. NotifySendReady(s) = RealSend(a)
  <2>1. [s EXCEPT !.r.status = "send_head"] = a
    BY <1>1
  <2> QED BY <2>1 DEF NotifySendReady
<1> HIDE DEF r
<1>4. a.r = r /\ a.out = s.out /\ a.room = s.room /\ IsSending(a, c)
  BY <1>1, <1>2 DEF IsSending, Own
<1> HIDE DEF a
<1>5. /\ a.r.status = "send_head" /\ a.r.head = s.r.head /\ a.r.body = s.r.body
      /\ a.r.buf = s.r.buf /\ a.r.parts = s.r.parts /\ a.r.pending = s.r.pending
  BY <1>2, <1>4
<1> QED BY <1>3, <1>4, <1>5

\* The response, and the empty head recv_finish announces after it, come out whole.
LEMMA AtOnceStream ==
  ASSUME NEW c \in Clients, NEW s, IsSending(s, c), s.r.buf = NoBuf, s.out = <<>>, s.room > 0
  PROVE  LET f == AnswerAtOnce(s)
         IN  /\ f.r.parts = s.r.parts /\ f.r.status # "recv_body"
             /\ Whole(f.out \o Ahead(f.r), c) /\ Whole(f.out \o Buffered(f.r), c)
             /\ Ordered(f.out, c)
<1> DEFINE r == [s.r EXCEPT !.head = c, !.body = BodyOf(c), !.pending = FALSE]
           a == [s EXCEPT !.r = r]
           b == NotifySendReady(a)
           f == AnswerAtOnce(s)
           t == <<<<c, "head">>>> \o BodyOf(c)
           e == <<<<Blank, "head">>>>
<1>1. /\ s \in [r : Connection, out : Seq(OwnUnits(c)), room : Nat]
      /\ s.r \in Connection /\ s.r.client = c /\ Own(s.r)
  BY DEF IsSending
<1>2. BodyOf(c) \in Seq({<<c, "body">>}) /\ BodyOf(c) \in Seq(Units)
  BY BodyOfType
<1>3. /\ r \in Connection /\ r.client = c /\ r.pending = FALSE /\ r.head = c
      /\ r.body = BodyOf(c) /\ r.buf = s.r.buf /\ r.parts = s.r.parts
  BY <1>1, <1>2 DEF Connection
<1>4. f = NotifySendReady(b)
  <2>1. [s EXCEPT !.r.head = c, !.r.body = BodyOf(c), !.r.pending = FALSE] = a
    BY <1>1
  <2> QED BY <1>1, <2>1 DEF AnswerAtOnce
<1> HIDE DEF r
<1>5. a.r = r /\ a.out = s.out /\ a.room = s.room /\ IsSending(a, c)
  BY <1>1, <1>2, <1>3 DEF IsSending, Own
<1> HIDE DEF a, f
<1>6. PICK x : /\ IsSending(x, c) /\ b = RealSend(x) /\ x.r.status = "send_head"
               /\ x.r.head = c /\ x.r.body = BodyOf(c) /\ x.r.buf = NoBuf
               /\ x.r.parts = s.r.parts /\ x.r.pending = FALSE /\ x.out = <<>> /\ x.room > 0
  <2>1. PICK x : /\ IsSending(x, c) /\ NotifySendReady(a) = RealSend(x)
                 /\ x.r.status = "send_head" /\ x.r.head = a.r.head /\ x.r.body = a.r.body
                 /\ x.r.buf = a.r.buf /\ x.r.parts = a.r.parts /\ x.r.pending = a.r.pending
                 /\ x.out = a.out /\ x.room = a.room
    BY <1>5, NotifyStream
  <2> QED BY <1>3, <1>5, <2>1
<1> HIDE DEF b
<1>7. /\ b.r.status = "recv_head" /\ b.r.head = Blank /\ b.r.body = <<>>
  BY <1>6, BodyNotEmpty, HeadGoesOut
<1>8. IsSending(b, c) /\ Flow(x, b)
  BY <1>6, RealSendOK, RealSendFlows DEF SendsOn
<1>9. t \in Seq(OwnUnits(c))
  BY BodyNotEmpty
<1>10. Ahead(x.r) = t
  <2>1. Ahead(x.r) = Behind(x.r)
    BY <1>6, AheadType DEF IsSending
  <2>2. Behind(x.r) = t
    BY <1>6 DEF Behind
  <2> QED BY <2>1, <2>2
<1>11. \A y : IsSending(y, c) => /\ y.out \in Seq(OwnUnits(c)) /\ Buffered(y.r) \in Seq(OwnUnits(c))
                                 /\ Behind(y.r) \in Seq(OwnUnits(c)) /\ Ahead(y.r) \in Seq(OwnUnits(c))
  BY AheadType DEF IsSending
<1>12. \A y \in Seq(OwnUnits(c)) : <<>> \o y = y /\ y \o <<>> = y
  BY ConcatEmptySeq
<1> HIDE DEF t
<1>13. b.out \o Buffered(b.r) = t
  <2>1. b.out \o Ahead(b.r) = <<>> \o t
    BY <1>6, <1>8, <1>10 DEF Flow
  <2>2. Behind(b.r) = <<>>
    BY <1>7 DEF Behind
  <2>3. Ahead(b.r) = Buffered(b.r)
    BY <1>8, <1>11, <1>12, <2>2 DEF Ahead
  <2> QED BY <1>9, <1>12, <2>1, <2>3
<1>14. PICK y : /\ IsSending(y, c) /\ f = RealSend(y) /\ y.r.status = "send_head"
                /\ y.r.head = Blank /\ y.r.body = <<>> /\ y.r.buf = b.r.buf
                /\ y.r.parts = b.r.parts /\ y.out = b.out
  <2>1. PICK y : /\ IsSending(y, c) /\ NotifySendReady(b) = RealSend(y)
                 /\ y.r.status = "send_head" /\ y.r.head = b.r.head /\ y.r.body = b.r.body
                 /\ y.r.buf = b.r.buf /\ y.r.parts = b.r.parts /\ y.r.pending = b.r.pending
                 /\ y.out = b.out /\ y.room = b.room
    BY <1>8, NotifyStream
  <2> QED BY <1>4, <1>7, <2>1
<1>15. IsSending(f, c) /\ Flow(y, f)
  BY <1>14, RealSendOK, RealSendFlows DEF SendsOn
<1>16. y.out \o Buffered(y.r) = t
  BY <1>13, <1>14 DEF Buffered
<1>17. e \in Seq(OwnUnits(c))
  <2> DEFINE u == <<Blank, "head">>
  <2>1. u \in OwnUnits(c)
    BY OwnUnitFacts
  <2> HIDE DEF u
  <2>2. <<u>> \in Seq(OwnUnits(c))
    BY <2>1
  <2> QED BY <2>2 DEF u
<1>18. Behind(y.r) = e
  <2>1. Behind(y.r) = e \o <<>>
    BY <1>14 DEF Behind
  <2> HIDE DEF e
  <2> QED BY <1>12, <1>17, <2>1
<1> HIDE DEF e
<1>19. y.out \o Ahead(y.r) = t \o e
  <2> DEFINE o == y.out
             bf == Buffered(y.r)
  <2>1. o \in Seq(OwnUnits(c)) /\ bf \in Seq(OwnUnits(c))
    BY <1>11, <1>14
  <2>2. Ahead(y.r) = bf \o e
    BY <1>18 DEF Ahead
  <2>3. o \o bf = t
    BY <1>16
  <2> HIDE DEF o, bf
  <2>4. (o \o bf) \o e = o \o (bf \o e)
    BY <1>17, <2>1, JoinThree
  <2> QED BY <2>2, <2>3, <2>4 DEF o
<1>20. Whole(t, c)
  <2>1. Whole(<<>> \o t, c)
    BY WholeNothing, WholeResponse, EmptySeq DEF t
  <2> QED BY <1>9, <1>12, <2>1
<1>21. Whole(t \o e, c)
  BY <1>9, <1>20, WholeBlank DEF e
<1>22. f.out \o Ahead(f.r) = t \o e
  BY <1>15, <1>19 DEF Flow
<1>23. Whole(f.out \o Buffered(f.r), c)
  <2>1. CASE f.out \o Buffered(f.r) = y.out \o Buffered(y.r)
    BY <1>16, <1>20, <2>1
  <2>2. CASE f.r.status \in {"send_body", "recv_head"}
    <3>1. f.r.body = <<>>
      BY <1>14, <1>15 DEF Flow
    <3>2. Behind(f.r) = <<>>
      BY <2>2, <3>1 DEF Behind
    <3>3. Ahead(f.r) = Buffered(f.r)
      BY <1>11, <1>12, <1>15, <3>2 DEF Ahead
    <3> QED BY <1>21, <1>22, <3>3
  <2> QED BY <1>15, <2>1, <2>2 DEF Flow
<1>24. Ordered(f.out, c)
  <2> DEFINE o == f.out
             bf == Buffered(f.r)
  <2>1. o \in Seq(OwnUnits(c)) /\ bf \in Seq(OwnUnits(c)) /\ Ordered(o \o bf, c)
    BY <1>11, <1>15, <1>23 DEF Whole
  <2> HIDE DEF o, bf
  <2>2. Ordered(o, c)
    BY <2>1, OrderedConcat
  <2> QED BY <2>2 DEF o
<1>25. f.r.parts = s.r.parts /\ f.r.status # "recv_body"
  BY <1>6, <1>8, <1>14, <1>15 DEF Flow
<1> QED BY <1>21, <1>22, <1>23, <1>24, <1>25 DEF f

\* The body of a single request is all of it but the head.
LEMMA BodyLength ==
  ASSUME NEW c \in Clients, OneRequest(c)
  PROVE  Len(BodySent(c)) = Len(Request[c]) - 1
<1> DEFINE q == Request[c]
<1>1. /\ Len(q) \in Nat /\ Len(q) >= 1 /\ DOMAIN q = 1..Len(q) /\ q[1] = "head"
      /\ \A i \in 1..Len(q) : i # 1 => q[i] = "body"
  BY OnlyFirstIsHead
<1> HIDE DEF q
<1>2. {i \in DOMAIN q : q[i] = "body"} = 2..Len(q)
  BY <1>1
<1>3. Cardinality(2..Len(q)) = Len(q) - 1
  <2>1. 2 \in Int /\ Len(q) \in Int
    BY <1>1
  <2>2. Cardinality(2..Len(q)) = IF 2 > Len(q) THEN 0 ELSE Len(q) - 2 + 1
    BY <2>1, FS_Interval
  <2> QED BY <1>1, <2>2
<1>4. CountOf("body", q) = Len(q) - 1
  BY <1>2, <1>3 DEF CountOf
<1>5. BodySent(c) = [i \in 1..(Len(q) - 1) |-> "body"]
  BY <1>4 DEF BodySent, q
<1>6. Len([i \in 1..(Len(q) - 1) |-> "body"]) = Len(q) - 1
  <2>0. Len(q) - 1 \in Nat
    BY <1>1
  <2>1. PICK n \in Nat : n = Len(q) - 1
    BY <2>0
  <2>2. Len([i \in 1..n |-> "body"]) = n
    OBVIOUS
  <2> QED BY <2>1, <2>2
<1> QED BY <1>5, <1>6 DEF q

\* What follows the head in the first parts of a single request.
LEMMA AfterFirst ==
  ASSUME NEW c \in Clients, OneRequest(c), NEW n \in 1..Len(Request[c]),
         NEW parts, parts = SubSeq(Request[c], 1, n)
  PROVE  /\ AfterHead(parts) \in Seq(Parts) /\ Len(AfterHead(parts)) = n - 1
         /\ CountOf("head", parts) > 0
<1>1. /\ Request[c] \in Seq(Parts) /\ Len(Request[c]) \in Nat /\ DOMAIN Request[c] = 1..Len(Request[c])
      /\ Request[c][1] = "head" /\ \A i \in 1..Len(Request[c]) : i # 1 => Request[c][i] = "body"
  BY OnlyFirstIsHead
<1>2. n \in 0..Len(Request[c]) /\ n \in Nat /\ n >= 1
  BY <1>1
<1>3. parts \in Seq(Parts) /\ Len(parts) = n
  BY <1>1, <1>2, CutAndJoined
<1>4. DOMAIN parts = 1..n /\ \A i \in 1..n : parts[i] = Request[c][i]
  BY <1>1, <1>2, <1>3, LenProperties
<1> DEFINE S == {i \in DOMAIN parts : parts[i] = "head"}
<1>5. S = {1}
  <2>1. 1 \in 1..n /\ parts[1] = "head"
    BY <1>1, <1>2, <1>4
  <2>2. \A i \in 1..n : i \in 1..Len(Request[c])
    BY <1>1, <1>2
  <2>3. \A i \in 1..n : i # 1 => parts[i] = "body"
    BY <1>1, <1>4, <2>2
  <2> QED BY <1>4, <2>1, <2>3
<1>6. Min(S) = 1
  BY <1>5 DEF Min
<1>7. Cardinality(S) = 1
  BY <1>5, FS_Singleton
<1>8. AfterHead(parts) = SubSeq(parts, 1 + 1, Len(parts))
  BY <1>6 DEF AfterHead
<1>9. 1 \in 0..Len(parts)
  BY <1>2, <1>3
<1>10. SubSeq(parts, 1 + 1, Len(parts)) \in Seq(Parts)
       /\ Len(SubSeq(parts, 1 + 1, Len(parts))) = Len(parts) - 1
  BY <1>3, <1>9, CutAndJoined
<1>11. CountOf("head", parts) = 1
  BY <1>7 DEF CountOf
<1>12. CountOf("head", parts) > 0
  BY <1>11
<1>13. AfterHead(parts) \in Seq(Parts) /\ Len(AfterHead(parts)) = Len(parts) - 1
  BY <1>8, <1>10, Zenon
<1> QED BY <1>3, <1>12, <1>13

\* Everything received so far is consumed before a first answer: what that leaves.
LEMMA ConsumedStream ==
  ASSUME HttpInv, NEW c \in Clients, OneRequest(c), unread[c] # <<>>,
         NEW r \in Connection, r.client = c, Unread(c, r) \/ Unanswered(c, r),
         NEW k, k = Consumed(r, r.parts \o unread[c])
  PROVE  /\ k.recvBody \in Seq(Parts) /\ Len(k.recvBody) <= sent[c] - 1
         /\ sent[c] >= 1 /\ k.parts = <<>> /\ k.status = "recv_body" /\ k.buf = NoBuf
         /\ k.client = c /\ wire[c] = <<>> /\ held[c] = 0
         /\ k.recvBody = <<>> => Questions(c) + Replies(c) = 0
         /\ ~GoesToManager(k) => Questions(c) + Replies(c) <= 1
<1> DEFINE u == unread[c]
           parts == r.parts \o u
           more == IF r.status = "recv_head" THEN AfterHead(parts) ELSE parts
<1>1. TypeOK /\ sent[c] \in Nat /\ sent[c] <= Len(Request[c]) /\ u \in Seq(Parts)
  BY DEF HttpInv, TypeOK, ClientsTyped
<1>2. r.parts = <<>> /\ r.buf = NoBuf /\ wire[c] = <<>> /\ held[c] = 0
  BY DEF Unread, Unanswered, Untouched
<1>3. parts = u /\ Len(u) \in Nat /\ Len(u) # 0 /\ r.recvBody \in Seq(Parts)
      /\ Len(r.recvBody) \in Nat
  <2>1. r.recvBody \in Seq(Parts)
    BY DEF Connection
  <2> QED BY <1>1, <1>2, <2>1, ConcatEmptySeq, LenProperties, EmptySeq
<1>4. k = [r EXCEPT !.status = "recv_body", !.parts = <<>>, !.recvBody = r.recvBody \o more]
  BY DEF Consumed, Connection
<1> HIDE DEF more
<1>5. /\ k.status = "recv_body" /\ k.parts = <<>> /\ k.recvBody = r.recvBody \o more
      /\ k.buf = r.buf /\ k.client = c
  BY <1>4 DEF Connection
<1>6. Len(Request[c]) \in Nat
  BY OnlyFirstIsHead
<1>7. CASE Unread(c, r)
  <2>1. /\ u = SubSeq(Request[c], 1, sent[c]) /\ r.recvBody = <<>> /\ r.status = "recv_head"
        /\ Questions(c) + Replies(c) = 0
    BY <1>7 DEF Unread, Untouched
  <2>2. sent[c] >= 1
    <3>1. sent[c] \in 0..Len(Request[c]) /\ Request[c] \in Seq(Parts)
      BY <1>1, <1>6, OnlyFirstIsHead
    <3>2. Len(u) = sent[c]
      BY <2>1, <3>1, CutAndJoined
    <3> QED BY <1>1, <1>3, <3>2
  <2>3. more \in Seq(Parts) /\ Len(more) = sent[c] - 1
    <3>1. sent[c] \in 1..Len(Request[c])
      BY <1>1, <1>6, <2>2
    <3>2. PICK n \in 1..Len(Request[c]) : n = sent[c]
      BY <3>1
    <3> HIDE DEF u
    <3>3. AfterHead(u) \in Seq(Parts) /\ Len(AfterHead(u)) = n - 1
      BY <2>1, <3>2, AfterFirst
    <3> QED BY <1>3, <2>1, <3>2, <3>3 DEF more
  <2>4. k.recvBody = more
    BY <1>5, <2>1, <2>3, ConcatEmptySeq
  <2> QED BY <1>1, <1>2, <1>5, <2>1, <2>2, <2>3, <2>4
<1>8. CASE Unanswered(c, r)
  <2>1. /\ r.status = "recv_body" /\ Len(r.recvBody) + Len(u) <= sent[c] - 1 /\ sent[c] >= 1
        /\ Kind[c] # "status"
        /\ Kind[c] = "start" => /\ r.recvBody \in {<<>>, BodySent(c)}
                                /\ r.recvBody = <<>> => Questions(c) + Replies(c) <= 1
    BY <1>8 DEF Unanswered, HeadRead
  <2>2. more = u
    BY <1>3, <2>1 DEF more
  <2>3. /\ k.recvBody \in Seq(Parts) /\ Len(k.recvBody) = Len(r.recvBody) + Len(u)
    <3> DEFINE b == r.recvBody
    <3>1. k.recvBody = b \o u /\ b \in Seq(Parts)
      BY <1>3, <1>5, <2>2
    <3> HIDE DEF b, u
    <3>2. b \o u \in Seq(Parts) /\ Len(b \o u) = Len(b) + Len(u)
      BY <1>1, <3>1, ConcatProperties
    <3> QED BY <3>1, <3>2 DEF b
  <2> HIDE DEF u
  <2>4. Len(k.recvBody) <= sent[c] - 1 /\ k.recvBody # <<>>
    <3>1. Len(k.recvBody) # 0
      <4>1. \A a, b \in Nat : b # 0 => a + b # 0
        OBVIOUS
      <4> QED BY <1>3, <2>3, <4>1
    <3> QED BY <2>1, <2>3, <3>1, EmptySeq
  <2>5. ASSUME ~GoesToManager(k) PROVE Questions(c) + Replies(c) <= 1
    <3>1. Kind[c] = "start"
      BY <1>5, <2>1, <2>5, HttpAssumption DEF GoesToManager
    <3>2. r.recvBody # BodySent(c)
      <4>1. Len(BodySent(c)) = Len(Request[c]) - 1
        BY BodyLength
      <4>2. Len(r.recvBody) # Len(BodySent(c))
        <5>1. \A a, b, m, l \in Nat : b # 0 /\ a + b <= m - 1 /\ m <= l => a # l - 1
          OBVIOUS
        <5> QED BY <1>1, <1>3, <1>6, <2>1, <4>1, <5>1
      <4> QED BY <4>2
    <3> QED BY <2>1, <3>1, <3>2
  <2> QED BY <1>2, <1>5, <2>1, <2>3, <2>4, <2>5
<1> QED BY <1>7, <1>8

\* The questions after a connection of c may have asked one more.
LEMMA QuestionsAsked ==
  ASSUME TypeOK, NEW c \in Clients, NEW q \in Question, q.client = c,
         asked' = Append(asked, q), NEW d \in Clients
  PROVE  /\ Questions(d)' = Questions(d) + (IF d = c THEN 1 ELSE 0)
         /\ Questions(d) \in Nat
<1>1. nextId \in Nat /\ asked \in Seq(Question)
  BY DEF TypeOK, ConnsTyped, QueuesTyped
<1>2. q \in QuestionsOf(d) <=> d = c
  BY <1>1, QuestionKinds
<1>3. Count(asked', QuestionsOf(d)) = Count(asked, QuestionsOf(d)) + (IF q \in QuestionsOf(d) THEN 1 ELSE 0)
  BY <1>1, CountAppend
<1>4. Count(asked, QuestionsOf(d)) \in Nat
  BY <1>1, CountType
<1>5. Questions(d)' = Count(asked', QuestionsOf(d))
  BY DEF Questions, QuestionsOf
<1> QED BY <1>2, <1>3, <1>4, <1>5 DEF Questions

\* A connection has received something, and its handler is done with result f.
LEMMA StreamReceived ==
  ASSUME HttpInv, HttpInv', StreamInv, NEW id \in DOMAIN conn, NEW c \in Clients, c = conn[id].client,
         NEW f, IsSending(f, c), Len(f.out) + f.room = SockRoom - held[c], Sent(id, f),
         unread' = [unread EXCEPT ![c] = <<>>],
         UNCHANGED <<client, sent, mailbox, batch, replied>>,
         NEW q \in Question, q.client = c, asked' = Append(asked, q) \/ asked' = asked,
         OneRequest(c) /\ replied[c] <= 2 /\ StreamSound(c) =>
           Ordered(wire'[c], c) /\ (Unanswered(c, conn[id])' \/ Answering(c, conn[id])')
  PROVE  StreamInv'
<1>1. TypeOK /\ TypeOK' /\ DOMAIN unread = Clients
  BY DEF HttpInv, TypeOK, ClientsTyped
<1>2. Awaited' = Awaited
  BY DEF Awaited, Connecting
<1>3. ASSUME NEW d \in Clients PROVE CountsGoOn(d) /\ Replies(d)' = Replies(d)
  <2>1. Replies(d)' = Replies(d) /\ Replies(d) \in Nat /\ replied[d] \in Nat
    BY <1>1, CountsBoth DEF Replies, RepliesTo
  <2> QED BY <2>1 DEF CountsGoOn
<1>4. ASSUME NEW d \in Clients, d # c PROVE Steady(d)
  <2>1. Questions(d)' = Questions(d)
    <3>1. CASE asked' = Append(asked, q)
      <4>1. Questions(d)' = Questions(d) + 0 /\ Questions(d) \in Nat
        BY <1>1, <1>4, <3>1, QuestionsAsked
      <4> QED BY <4>1
    <3>2. CASE asked' = asked
      BY <3>2 DEF Questions, QuestionsOf
    <3> QED BY <3>1, <3>2
  <2>2. Questions(d)' + Replies(d)' <= Questions(d) + Replies(d)
    <3>1. Questions(d) \in Nat /\ Replies(d) \in Nat
      BY <1>1, CountsBoth
    <3> QED BY <1>3, <2>1, <3>1
  <2>3. /\ wire'[d] = wire[d] /\ held'[d] = held[d]
        /\ \A o \in DOMAIN conn' : conn'[o].client = d => o \in DOMAIN conn /\ conn'[o] = conn[o]
    BY <1>4, SentTo
  <2>4. unread'[d] = unread[d]
    BY <1>1, <1>4
  <2> QED BY <1>2, <2>2, <2>3, <2>4 DEF Steady
<1>5. OneRequest(c) /\ replied[c] <= 2 /\ StreamSound(c) => StreamSound(c)'
  BY <1>2, StreamAfterSend
<1> QED BY <1>1, <1>3, <1>4, <1>5, StreamKept

\* Parts without a head among them.
LEMMA NoHeadCounted ==
  ASSUME NEW s \in Seq(Parts), NEW t \in Seq(Parts)
  PROVE  /\ s \o t \in Seq(Parts) /\ CountOf("head", s \o t) \in Nat
         /\ CountOf("head", s \o t) = 0 <=>
              (\A i \in DOMAIN s : s[i] # "head") /\ (\A i \in DOMAIN t : t[i] # "head")
         /\ CountOf("head", s \o t) = 0 <=> \A i \in DOMAIN (s \o t) : (s \o t)[i] # "head"
<1> DEFINE p == s \o t
           H == {i \in DOMAIN p : p[i] = "head"}
<1>1. /\ Len(s) \in Nat /\ Len(t) \in Nat /\ p \in Seq(Parts)
      /\ DOMAIN s = 1..Len(s) /\ DOMAIN t = 1..Len(t) /\ DOMAIN p = 1..(Len(s) + Len(t))
      /\ \A n \in 1..Len(s) : p[n] = s[n]
      /\ \A n \in 1..Len(t) : p[Len(s) + n] = t[n]
  BY FirstOfTwo
<1> HIDE DEF p
<1>2. IsFiniteSet(H)
  <2>1. IsFiniteSet(1..(Len(s) + Len(t)))
    BY <1>1, FS_Interval
  <2> QED BY <1>1, <2>1, FS_Subset
<1>3. CountOf("head", p) = Cardinality(H)
  BY DEF CountOf
<1>4. Cardinality(H) \in Nat /\ (Cardinality(H) = 0 <=> H = {})
  BY <1>2, FS_CardinalityType, FS_EmptySet
<1>5. H = {} <=> \A i \in DOMAIN p : p[i] # "head"
  OBVIOUS
<1>6. \A i \in 1..(Len(s) + Len(t)) : i \in 1..Len(s) \/ (i - Len(s) \in 1..Len(t) /\ i = Len(s) + (i - Len(s)))
  BY <1>1
<1>7. /\ \A i \in 1..Len(s) : i \in 1..(Len(s) + Len(t))
      /\ \A i \in 1..Len(t) : Len(s) + i \in 1..(Len(s) + Len(t))
  BY <1>1
<1>8. (\A i \in DOMAIN p : p[i] # "head")
        <=> (\A i \in DOMAIN s : s[i] # "head") /\ (\A i \in DOMAIN t : t[i] # "head")
  <2>1. ASSUME \A i \in DOMAIN p : p[i] # "head"
        PROVE  (\A i \in DOMAIN s : s[i] # "head") /\ (\A i \in DOMAIN t : t[i] # "head")
    <3>1. ASSUME NEW i \in 1..Len(s) PROVE s[i] # "head"
      BY <1>1, <1>7, <2>1
    <3>2. ASSUME NEW i \in 1..Len(t) PROVE t[i] # "head"
      <4>1. p[Len(s) + i] # "head"
        BY <1>1, <1>7, <2>1
      <4> QED BY <1>1, <4>1
    <3> QED BY <1>1, <3>1, <3>2
  <2>2. ASSUME \A i \in DOMAIN s : s[i] # "head", \A i \in DOMAIN t : t[i] # "head",
               NEW i \in DOMAIN p
        PROVE  p[i] # "head"
    <3>1. CASE i \in 1..Len(s)
      BY <1>1, <2>2, <3>1
    <3>2. CASE i - Len(s) \in 1..Len(t) /\ i = Len(s) + (i - Len(s))
      <4>1. PICK j : j = i - Len(s)
        OBVIOUS
      <4>2. j \in 1..Len(t) /\ i = Len(s) + j
        BY <3>2, <4>1
      <4>3. p[i] = t[j]
        BY <1>1, <4>2
      <4> QED BY <1>1, <2>2, <4>2, <4>3
    <3> QED BY <1>1, <1>6, <2>2, <3>1, <3>2
  <2> QED BY <2>1, <2>2
<1> HIDE DEF H
<1> QED BY <1>1, <1>3, <1>4, <1>5, <1>8 DEF p

\* event_process on EPOLLIN: the first parts of a request are a reason to ask the
\* manager or to answer at once, later ones to ask again until an answer has come;
\* after that they are kept unread in the connection.
LEMMA StreamConnReceives ==
  ASSUME HttpInv, HttpInv', StreamInv, NEW id \in DOMAIN conn, ConnReceives(id)
  PROVE  StreamInv'
<1>1. TypeOK /\ OwnSent /\ TypeOK'
  BY DEF HttpInv
<1>2. PICK r, c : r = conn[id] /\ c = conn[id].client
  OBVIOUS
<1> DEFINE parts == r.parts \o unread[c]
           p == Sending(id)
           s == [p EXCEPT !.r = Consumed(r, parts)]
<1>3. /\ c \in Clients /\ r \in Connection /\ r.client = c /\ Own(r) /\ IsSending(p, c) /\ p.r = r
      /\ p.out = <<>> /\ p.room = SockRoom - held[c]
      /\ Len(p.out) + p.room = SockRoom - held[c]
  BY <1>1, <1>2, SendingOK
<1>4. /\ r.status \in {"recv_head", "recv_body"} /\ client[c] # "rst" /\ unread[c] # <<>>
      /\ unread' = [unread EXCEPT ![c] = <<>>]
      /\ UNCHANGED <<client, sent, nextId, mailbox, batch, replied>>
      /\ \/ /\ r.status = "recv_head" /\ CountOf("head", parts) = 0
            /\ conn' = [conn EXCEPT ![id].parts = parts] /\ UNCHANGED <<wire, held, asked>>
         \/ /\ r.status = "recv_body" \/ CountOf("head", parts) > 0
            /\ Sent(id, RecvFinish(s))
            /\ asked' = IF GoesToManager(s.r)
                        THEN Append(asked, [id |-> id, client |-> c, body |-> s.r.recvBody])
                        ELSE asked
  BY <1>2 DEF ConnReceives
<1>5. r.parts \in Seq(Parts) /\ unread[c] \in Seq(Parts) /\ DOMAIN unread = Clients
  BY <1>1, <1>3 DEF Connection, TypeOK, ClientsTyped
<1>6. /\ parts \in Seq(Parts) /\ CountOf("head", parts) \in Nat
      /\ CountOf("head", parts) = 0 <=>
           (\A i \in DOMAIN r.parts : r.parts[i] # "head")
             /\ (\A i \in DOMAIN unread[c] : unread[c][i] # "head")
      /\ CountOf("head", parts) = 0 <=> \A i \in DOMAIN parts : parts[i] # "head"
  BY <1>5, NoHeadCounted
<1>7. id \in Issued /\ SockRoom \in Nat
  BY <1>1, HttpAssumption DEF TypeOK, ConnsTyped
<1>8. p \in [r : Connection, out : Seq(OwnUnits(c)), room : Nat]
  BY <1>3 DEF IsSending
<1>9. unread'[c] = <<>> /\ DOMAIN unread'[c] = {}
  BY <1>3, <1>4, <1>5
<1>10. StreamSound(c) => Unread(c, r) \/ Unanswered(c, r) \/ Answering(c, r)
  BY <1>2, <1>4 DEF StreamSound
<1>11. Answering(c, r) => CountOf("head", parts) = 0
  BY <1>6 DEF Answering, HeadRead
<1>12. Replies(c)' = Replies(c) /\ replied'[c] = replied[c] /\ Replies(c) \in Nat /\ Questions(c) \in Nat
  BY <1>1, <1>3, <1>4, CountsBoth DEF Replies, RepliesTo
<1> HIDE DEF p
<1>13. CASE /\ r.status = "recv_head" /\ CountOf("head", parts) = 0
            /\ conn' = [conn EXCEPT ![id].parts = parts] /\ UNCHANGED <<wire, held, asked>>
  <2> DEFINE e == [r EXCEPT !.parts = parts]
             q == [id |-> id, client |-> c, body |-> parts]
  <2>4. q \in Question /\ q.id = id /\ q.client = c
    BY <1>3, <1>6, <1>7 DEF Question
  <2> HIDE DEF parts
  <2>1. /\ e \in Connection /\ e.client = c /\ e.head = r.head /\ e.body = r.body
        /\ e.buf = r.buf /\ e.status = r.status /\ e.pending = r.pending /\ e.parts = parts
    BY <1>3, <1>6 DEF Connection
  <2>2. conn' = [conn EXCEPT ![id] = e]
    BY <1>2, <1>13
  <2> HIDE DEF e, q
  <2>3. PICK f : f = [p EXCEPT !.r = e]
    OBVIOUS
  <2>5. f.r = e /\ f.out = <<>> /\ f.room = p.room /\ IsSending(f, c)
    BY <1>3, <1>8, <2>1, <2>3 DEF IsSending, Own
  <2>6. Sent(id, f)
    <3>1. wire \in [Clients -> Seq(Units)] /\ held \in [Clients -> 0..SockRoom]
      BY <1>1 DEF TypeOK, ClientsTyped
    <3>2. wire[c] \o f.out = wire[c]
      BY <1>3, <2>5, <3>1, ConcatEmptySeq
    <3>3. held[c] + Len(f.out) = held[c]
      <4>1. Len(f.out) = 0
        BY <2>5, EmptySeq
      <4> QED BY <1>3, <1>7, <3>1, <4>1
    <3>4. wire' = [wire EXCEPT ![c] = @ \o f.out] /\ held' = [held EXCEPT ![c] = @ + Len(f.out)]
      BY <1>13, <3>1, <3>2, <3>3
    <3> QED BY <2>1, <2>2, <2>5, <3>4 DEF Sent
  <2>7. Len(f.out) + f.room = SockRoom - held[c]
    BY <1>3, <2>5
  <2>8. ASSUME OneRequest(c), StreamSound(c)
        PROVE  Ordered(wire'[c], c) /\ Answering(c, conn[id])'
    <3>1. ~Unread(c, r)
      <4>1. Unread(c, r) => unread[c] = SubSeq(Request[c], 1, sent[c]) /\ r.parts = <<>>
        BY DEF Unread, Untouched
      <4>2. Unread(c, r) /\ unread[c][1] = "head" => CountOf("head", parts) # 0
        <5>1. 1 \in DOMAIN unread[c]
          <6>1. Len(unread[c]) \in Nat /\ Len(unread[c]) # 0 /\ DOMAIN unread[c] = 1..Len(unread[c])
            BY <1>4, <1>5, LenProperties, EmptySeq
          <6> QED BY <6>1
        <5> QED BY <1>6, <5>1
      <4>3. unread[c] = SubSeq(Request[c], 1, sent[c]) => unread[c][1] = "head"
        <5>1. /\ Request[c] \in Seq(Parts) /\ Len(Request[c]) \in Nat /\ Request[c][1] = "head"
              /\ DOMAIN Request[c] = 1..Len(Request[c])
          BY <1>3, <2>8, OnlyFirstIsHead
        <5>2. sent[c] \in 0..Len(Request[c])
          BY <1>1, <1>3, <5>1 DEF TypeOK, ClientsTyped
        <5>3. Len(SubSeq(Request[c], 1, sent[c])) = sent[c]
          BY <5>1, <5>2, CutAndJoined
        <5>4. Len(unread[c]) # 0
          BY <1>4, <1>5, EmptySeq
        <5>5. sent[c] # 0 => SubSeq(Request[c], 1, sent[c])[1] = Request[c][1]
          BY <5>1, <5>2
        <5> QED BY <5>1, <5>3, <5>4, <5>5
      <4> QED BY <1>13, <4>1, <4>2, <4>3
    <3>2. Answering(c, r)
      BY <1>10, <1>13, <2>8, <3>1 DEF Unanswered
    <3>3. HeadRead(c, f.r)'
      <4>1. sent'[c] >= 1
        BY <1>4, <3>2 DEF Answering, HeadRead
      <4>2. \A i \in DOMAIN f.r.parts : f.r.parts[i] # "head"
        BY <1>6, <1>13, <2>1, <2>5
      <4> QED BY <1>9, <4>1, <4>2 DEF HeadRead
    <3>4. /\ Buffered(f.r) = Buffered(r) /\ Behind(f.r) = Behind(r) /\ Ahead(f.r) = Ahead(r)
          /\ (Stuck(f.r) <=> Stuck(r)) /\ f.r.status = r.status
      <4>1. /\ f.r.head = r.head /\ f.r.body = r.body /\ f.r.buf = r.buf /\ f.r.status = r.status
        BY <2>1, <2>5
      <4>2. Buffered(f.r) = Buffered(r) /\ Behind(f.r) = Behind(r) /\ (Stuck(f.r) <=> Stuck(r))
        BY <4>1 DEF Buffered, Behind, Stuck
      <4> QED BY <4>1, <4>2 DEF Ahead
    <3>5. Questions(c)' = Questions(c)
      BY <1>13 DEF Questions, QuestionsOf
    <3>6. (AtMost(c, 1) => AtMost(c, 1)') /\ (AtMost(c, 0) => AtMost(c, 0)')
      BY <1>12, <3>5 DEF AtMost
    <3>7. Answering(c, f.r)'
      BY <1>13, <3>2, <3>3, <3>4, <3>6 DEF Answering
    <3>8. conn'[id] = f.r
      BY <1>3, <2>5, <2>6, SentOwn
    <3>9. Ordered(wire'[c], c)
      BY <1>13, <2>8 DEF StreamSound
    <3> QED BY <3>7, <3>8, <3>9 DEF Answering, HeadRead
  <2> QED BY <1>2, <1>3, <1>4, <1>13, <2>4, <2>5, <2>6, <2>7, <2>8, StreamReceived
<1>14. CASE /\ r.status = "recv_body" \/ CountOf("head", parts) > 0
            /\ Sent(id, RecvFinish(s))
            /\ asked' = IF GoesToManager(s.r)
                        THEN Append(asked, [id |-> id, client |-> c, body |-> s.r.recvBody])
                        ELSE asked
  <2>1. PICK k : k = Consumed(r, parts)
    OBVIOUS
  <2>2. /\ k \in Connection /\ k.client = c /\ k.head = r.head /\ k.body = r.body
        /\ k.buf = r.buf /\ k.status = "recv_body" /\ k.pending = r.pending
    <3> DEFINE more == IF r.status = "recv_head" THEN AfterHead(parts) ELSE parts
    <3>1. more \in Seq(Parts)
      BY <1>4, <1>6, <1>14, PartsKept
    <3>2. r.recvBody \o more \in Seq(Parts) /\ <<>> \in Seq(Parts)
      BY <1>3, <3>1, ConcatProperties, EmptySeq DEF Connection
    <3>3. k = [r EXCEPT !.status = "recv_body", !.parts = <<>>, !.recvBody = r.recvBody \o more]
      BY <1>3, <2>1 DEF Consumed, Connection
    <3> HIDE DEF more
    <3> QED BY <1>3, <3>2, <3>3 DEF Connection
  <2>3. s.r = k /\ s.out = <<>> /\ s.room = p.room /\ IsSending(s, c)
    BY <1>3, <1>8, <2>1, <2>2 DEF IsSending, Own
  <2>4. PICK t : t = s
    OBVIOUS
  <2>5. /\ t.r = k /\ t.out = <<>> /\ t.room = p.room /\ IsSending(t, c)
        /\ Sent(id, RecvFinish(t))
        /\ asked' = IF GoesToManager(k)
                    THEN Append(asked, [id |-> id, client |-> c, body |-> k.recvBody])
                    ELSE asked
    BY <1>14, <2>3, <2>4
  <2> HIDE DEF s
  <2>6. PICK q : q = [id |-> id, client |-> c, body |-> k.recvBody]
    OBVIOUS
  <2>7. q \in Question /\ q.client = c
    BY <1>3, <1>7, <2>2, <2>6 DEF Question, Connection
  <2>8. PICK f : f = RecvFinish(t)
    OBVIOUS
  <2>9. ASSUME OneRequest(c), StreamSound(c)
        PROVE  /\ Len(k.recvBody) <= sent[c] - 1 /\ Len(k.recvBody) \in Nat
               /\ sent[c] >= 1 /\ k.parts = <<>> /\ k.buf = NoBuf
               /\ wire[c] = <<>> /\ held[c] = 0
               /\ k.recvBody = <<>> => Questions(c) + Replies(c) = 0
               /\ ~GoesToManager(k) => Questions(c) + Replies(c) <= 1
    <3>1. Unread(c, r) \/ Unanswered(c, r)
      BY <1>6, <1>10, <1>11, <1>14, <2>9 DEF Answering
    <3>2. /\ k.recvBody \in Seq(Parts) /\ Len(k.recvBody) <= sent[c] - 1
          /\ sent[c] >= 1 /\ k.parts = <<>> /\ k.buf = NoBuf
          /\ wire[c] = <<>> /\ held[c] = 0
          /\ k.recvBody = <<>> => Questions(c) + Replies(c) = 0
          /\ ~GoesToManager(k) => Questions(c) + Replies(c) <= 1
      BY <1>3, <1>4, <2>1, <2>9, <3>1, ConsumedStream
    <3> QED BY <3>2, LenProperties
  <2>10. CASE GoesToManager(k)
    <3> DEFINE e == [k EXCEPT !.pending = TRUE]
    <3>1. t \in [r : Connection, out : Seq(OwnUnits(c)), room : Nat]
      BY <2>5 DEF IsSending
    <3>2. /\ e \in Connection /\ e.client = c /\ e.head = k.head /\ e.body = k.body
          /\ e.buf = k.buf /\ e.status = "recv_body" /\ e.pending = TRUE
          /\ e.parts = k.parts /\ e.recvBody = k.recvBody
      BY <2>2 DEF Connection
    <3>3. f = [t EXCEPT !.r = e]
      <4>1. AskManager(t) = [t EXCEPT !.r = e]
        BY <2>5, <3>1 DEF AskManager
      <4>2. [t EXCEPT !.r = e].r.pending
        BY <3>1, <3>2
      <4> HIDE DEF e
      <4> QED BY <2>5, <2>8, <2>10, <4>1, <4>2 DEF RecvFinish
    <3> HIDE DEF e
    <3>4. f.r = e /\ f.out = <<>> /\ f.room = p.room /\ IsSending(f, c)
      BY <1>3, <2>2, <2>5, <3>1, <3>2, <3>3 DEF IsSending, Own
    <3>5. Sent(id, f) /\ asked' = Append(asked, q)
      BY <2>5, <2>6, <2>8, <2>10
    <3>6. Len(f.out) + f.room = SockRoom - held[c]
      BY <1>3, <3>4
    <3>7. ASSUME OneRequest(c), StreamSound(c)
          PROVE  Ordered(wire'[c], c) /\ Unanswered(c, conn[id])'
      <4>1. conn'[id] = f.r /\ wire'[c] = wire[c] \o f.out /\ held'[c] = held[c] + Len(f.out)
        BY <1>3, <3>4, <3>5, SentOwn
      <4>2. wire'[c] = <<>> /\ held'[c] = 0
        <5>1. Len(f.out) = 0
          BY <3>4, EmptySeq
        <5>2. <<>> \o <<>> = <<>>
          BY ConcatEmptySeq, EmptySeq
        <5> QED BY <2>9, <3>4, <3>7, <4>1, <5>1, <5>2
      <4>3. Ordered(wire'[c], c)
        BY <4>2, WholeNothing, <1>3 DEF Whole
      <4>4. HeadRead(c, f.r)'
        BY <1>4, <1>9, <2>9, <3>2, <3>4, <3>7 DEF HeadRead
      <4>5. Len(f.r.recvBody) + Len(unread'[c]) <= sent'[c] - 1
        <5>1. Len(unread'[c]) = 0
          BY <1>9, EmptySeq
        <5>2. /\ Len(k.recvBody) \in Nat /\ Len(k.recvBody) <= sent[c] - 1
              /\ f.r.recvBody = k.recvBody /\ sent' = sent
          BY <1>4, <2>9, <3>2, <3>4, <3>7
        <5>3. \A a, n : a \in Nat /\ a <= n - 1 => a + 0 <= n - 1
          OBVIOUS
        <5> QED BY <5>1, <5>2, <5>3
      <4>6. /\ Kind[c] # "status"
            /\ Kind[c] = "start" => f.r.recvBody \in {<<>>, BodySent(c)}
        BY <2>2, <2>10, <3>2, <3>4 DEF GoesToManager
      <4>7. f.r.recvBody = <<>> => Questions(c)' + Replies(c)' <= 1
        <5>1. Questions(c)' = Questions(c) + 1
          BY <1>1, <1>3, <2>7, <3>5, QuestionsAsked
        <5> QED BY <1>12, <2>9, <3>2, <3>4, <3>7, <5>1
      <4>8. f.r.status = "recv_body" /\ f.r.buf = NoBuf /\ f.r.parts = <<>>
        BY <2>9, <3>2, <3>4, <3>7
      <4>9. Unanswered(c, f.r)'
        BY <4>2, <4>4, <4>5, <4>6, <4>7, <4>8 DEF Unanswered
      <4> QED BY <4>1, <4>3, <4>9 DEF Unanswered, HeadRead
    <3> QED BY <1>2, <1>3, <1>4, <2>7, <3>4, <3>5, <3>6, <3>7, StreamReceived
  <2>11. CASE ~GoesToManager(k)
    <3>1. f = AnswerAtOnce(t)
      BY <2>5, <2>8, <2>11 DEF RecvFinish
    <3>2. IsSending(f, c) /\ Len(f.out) + f.room = Len(t.out) + t.room
      BY <1>3, <2>5, <3>1, AnswerAtOnceOK
    <3>3. Sent(id, f) /\ asked' = asked
      BY <2>5, <2>8, <2>11
    <3>4. Len(f.out) + f.room = SockRoom - held[c]
      BY <1>3, <2>5, <3>2
    <3>5. ASSUME OneRequest(c), StreamSound(c)
          PROVE  Ordered(wire'[c], c) /\ Answering(c, conn[id])'
      <4>1. conn'[id] = f.r /\ wire'[c] = wire[c] \o f.out
        BY <1>3, <3>2, <3>3, SentOwn
      <4>2. wire'[c] = f.out
        <5>1. f.out \in Seq(OwnUnits(c))
          BY <3>2 DEF IsSending
        <5> QED BY <2>9, <3>5, <4>1, <5>1, ConcatEmptySeq
      <4>3. t.room > 0 /\ t.r.buf = NoBuf
        BY <1>3, <2>5, <2>9, <3>5, HttpAssumption
      <4>4. /\ f.r.parts = k.parts /\ f.r.status # "recv_body"
            /\ Whole(f.out \o Ahead(f.r), c) /\ Whole(f.out \o Buffered(f.r), c)
            /\ Ordered(f.out, c)
        BY <1>3, <2>5, <3>1, <4>3, AtOnceStream
      <4>5. HeadRead(c, f.r)'
        BY <1>4, <1>9, <2>9, <3>5, <4>4 DEF HeadRead
      <4>6. AtMost(c, 1)'
        <5>1. Questions(c)' = Questions(c)
          BY <3>3 DEF Questions, QuestionsOf
        <5> QED BY <1>12, <2>9, <2>11, <3>5, <5>1 DEF AtMost
      <4>7. Answering(c, f.r)'
        BY <4>2, <4>4, <4>5, <4>6 DEF Answering
      <4> QED BY <4>1, <4>2, <4>4, <4>7 DEF Answering, HeadRead
    <3> QED BY <1>2, <1>3, <1>4, <2>7, <3>2, <3>3, <3>4, <3>5, StreamReceived
  <2> QED BY <2>10, <2>11
<1> QED BY <1>4, <1>13, <1>14
-----------------------------------------------------------------------------
(* The invariant of the streams. *)

\* Nothing has been sent, asked or replied when the thread starts.
LEMMA StreamInit ==
  ASSUME Init
  PROVE  StreamInv
<1>1. /\ wire = [c \in Clients |-> <<>>] /\ unread = [c \in Clients |-> <<>>]
      /\ sent = [c \in Clients |-> 0] /\ held = [c \in Clients |-> 0]
      /\ replied = [c \in Clients |-> 0] /\ DOMAIN conn = {}
      /\ asked = <<>> /\ mailbox = <<>> /\ batch = <<>>
  BY DEF Init
<1>2. ASSUME NEW c \in Clients PROVE Questions(c) = 0 /\ Replies(c) = 0
  <2>1. Count(<<>>, QuestionsOf(c)) = 0 /\ Count(<<>>, RepliesTo(c)) = 0
    BY CountType, EmptySeq
  <2> QED BY <1>1, <2>1 DEF Questions, Replies
<1>3. ASSUME NEW c \in Clients PROVE StreamSound(c)
  <2>1. Ordered(wire[c], c)
    BY <1>1, <1>3, WholeNothing DEF Whole
  <2>2. SubSeq(Request[c], 1, 0) = <<>>
    <3>1. Request[c] \in Seq({"head", "body"})
      BY <1>3, HttpAssumption
    <3> QED BY <3>1
  <2>3. Untouched(c)
    BY <1>1, <1>2, <1>3, <2>2 DEF Untouched
  <2> QED BY <1>1, <2>1, <2>3 DEF StreamSound
<1> QED BY <1>1, <1>2, <1>3 DEF StreamInv

\* Every step keeps the streams sound.
LEMMA StreamStep ==
  ASSUME HttpInv, StreamInv, [Next]_vars
  PROVE  StreamInv'
<1>0. HttpInv'
  BY StepInv
<1>1. CASE UNCHANGED vars \/ Tick \/ EpollWait \/ \E id \in DOMAIN conn : ConnThrows(id)
  <2>1. UNCHANGED <<client, sent, unread, wire, held, conn, mailbox, batch, asked, replied>>
    BY <1>1 DEF Tick, EpollWait, ConnThrows, vars, clientVars, loopVars, managerVars
  <2> QED BY <1>0, <2>1, StreamQuiet
<1>2. CASE \E c \in Clients : ClientConnects(c)
  BY <1>0, <1>2, StreamConnects
<1>3. CASE \E c \in Clients : ClientSends(c)
  BY <1>0, <1>3, StreamSends
<1>4. CASE \E c \in Clients : ClientReads(c) \/ ClientLeaves(c, "fin") \/ ClientLeaves(c, "rst")
  BY <1>0, <1>4, StreamReadsOrLeaves
<1>5. CASE ManagerReplies
  BY <1>0, <1>5, StreamManagerReplies
<1>6. CASE TakeBatch
  BY <1>0, <1>6, StreamTakeBatch
<1>7. CASE HandleConnect
  BY <1>0, <1>7, StreamHandleConnect
<1>8. CASE HandleReply
  BY <1>0, <1>8, StreamHandleReply
<1>9. CASE HandleReplyThrows
  BY <1>0, <1>9, StreamReplyThrows
<1>10. CASE EndOfTurn
  BY <1>0, <1>10, StreamEndOfTurn
<1>11. CASE \E id \in DOMAIN conn : ConnReceives(id)
  BY <1>0, <1>11, StreamConnReceives
<1> QED BY <1>1, <1>2, <1>3, <1>4, <1>5, <1>6, <1>7, <1>8, <1>9, <1>10, <1>11 DEF Next, Loop

\* What is on the wire and what real_send has still to send make up whole
\* responses, and a head waits for room only when no reply can overtake it.
THEOREM HttpStreamInvariant == Spec => []StreamInv
<1>1. Init => StreamInv
  BY StreamInit
<1>2. HttpInv /\ StreamInv /\ [Next]_vars => StreamInv'
  BY StreamStep
<1> QED BY <1>1, <1>2, HttpInvariant, PTL DEF Spec

\* The units of different responses are never mixed on a client's connection, as
\* long as it sends one request and gets no more than two replies: real_send takes
\* up its buffer, its head and its body where the full socket stopped it.
THEOREM HttpStreamOrdered == Spec => []StreamOrdered
<1>1. StreamInv => StreamOrdered
  BY DEF StreamInv, StreamOrdered, StreamSound
<1> QED BY <1>1, HttpStreamInvariant, PTL
=============================================================================
