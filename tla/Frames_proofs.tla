---------------------------- MODULE Frames_proofs ----------------------------
(* Proofs about the frame parser, for any frames, sizes, limits and cuts of *)
(* the stream into reads.                                                   *)
(*                                                                          *)
(* The inductive invariant FramesInv says that every byte the parser holds  *)
(* is one of a frame that was sent (BytesInv), that of the extended header  *)
(* is there what is not needed any more (HeaderInv), and that the limit has *)
(* been reserved for the part of the payload that is still to come, unless  *)
(* the peer has sent a frame that lets the sum of sizes wrap (ReserveInv).  *)
(*                                                                          *)
(* ParseInv says where in the stream it is: the bytes that are left follow  *)
(* each other as they were sent (Flow), the next of them is one of a frame  *)
(* p, everything before p was right and has been handed on (Done), and what *)
(* the parser keeps is what p and the frames before it say up to there (the *)
(* four cases of Position). What the frames mean is defined by recursion on *)
(* their number; the induction it takes is SetInduction, which counts.      *)
EXTENDS Frames, SequenceTheorems, FiniteSetTheorems, TLAPS

KnownByte == [frame : 0..Len(sent), at : Nat]
Partial(op) == [op : {"none", op}, payload : Seq(KnownByte)]

BytesInv ==
  /\ sent \in Seq(PeerFrames)
  /\ socket \in Seq(KnownByte) /\ buffer \in Seq(KnownByte)
  /\ basic \in [1..2 -> KnownByte] /\ extended \in Seq(KnownByte)
  /\ data \in Partial("text") /\ control \in Partial("control")
  /\ mState \in {"basic", "extended", "application", "ready"}
  /\ current \in {"data", "control"} /\ failed \in BOOLEAN
  /\ needed \in Nat

HeaderInv ==
  /\ mState = "basic" => extended = <<>>
  /\ mState = "extended" => Len(extended) + needed = ExtensionLength(basic)
  /\ mState \in {"application", "ready"} => Len(extended) = ExtensionLength(basic)

ReserveInv == NoneIsHuge =>
  /\ Len(data.payload) <= MaxMessageSize
  /\ mState = "application" /\ current = "data" /\ ~failed =>
       Len(data.payload) + needed <= MaxMessageSize

FramesInv == BytesInv /\ HeaderInv /\ ReserveInv

\* What is left to be taken of the frames s, the sequence of bytes r: what
\* follows c bytes of frame p, and the byte at place i. After the last one
\* comes the first byte of the frame that will be sent next.
ByteOf(p, i) == [frame |-> p, at |-> i]
After(s, p, c) ==
  IF c = 0 \/ c < FrameLength(s[p]) THEN ByteOf(p, c + 1) ELSE ByteOf(p + 1, 1)
ByteAt(s, r, i) == IF i <= Len(r) THEN r[i] ELSE ByteOf(Len(s) + 1, 1)
IsSent(s, b) == \E p \in 1..Len(s) : \E i \in 1..FrameLength(s[p]) : b = ByteOf(p, i)
Flow(s, r) == \A i \in 1..Len(r) :
  IsSent(s, r[i]) /\ ByteAt(s, r, i + 1) = After(s, r[i].frame, r[i].at)

Rest == buffer \o socket
Flows == Flow(sent, Rest)
NextByte == ByteAt(sent, Rest, 1)

\* What there is of the data message before frame p, and how it is kept.
Base(p) == IF Open(p) THEN DataUpTo(p - 1) ELSE <<>>
Pending(p) == IF Open(p) THEN [op |-> "text", payload |-> DataUpTo(p - 1)] ELSE NoMessage
Part(p, f, n) == SubSeq(Payload(p, f), 1, n)

\* The plain header of frame p has been accepted.
GoodHeader(f, open) ==
  /\ f.op # "bad"
  /\ f.op = "control" => f.fin /\ f.ext = 0
  /\ f.op = "continuation" => open
  /\ f.op = "text" => ~open
HeaderOf(p) ==
  /\ p \in 1..Len(sent)
  /\ basic = [i \in 1..2 |-> ByteOf(p, i)]
  /\ GoodHeader(sent[p], Open(p))

\* The parser is in frame p: in its plain header or before it, in its extended
\* header, in its payload, or at its end, where a message is handed on.
InBasic(p) ==
  /\ mState = "basic" /\ needed \in 1..2
  /\ needed = 1 => p <= Len(sent) /\ basic[1] = ByteOf(p, 1)
  /\ data = Pending(p)
  /\ NextByte = After(sent, p, 2 - needed)
InExtended(p) ==
  /\ mState = "extended" /\ HeaderOf(p)
  /\ Len(extended) + needed = sent[p].ext
  /\ \A i \in 1..Len(extended) : extended[i] = ByteOf(p, 2 + i)
  /\ data = Pending(p)
  /\ NextByte = After(sent, p, 2 + Len(extended))
InPayload(p) ==
  /\ mState = "application" /\ HeaderOf(p) /\ GoodSize(sent[p])
  /\ needed <= Len(sent[p].payload)
  /\ LET part == Part(p, sent[p], Len(sent[p].payload) - needed)
     IN  IF sent[p].op = "control"
           THEN /\ current = "control" /\ control = [op |-> "control", payload |-> part]
                /\ data = Pending(p)
           ELSE /\ current = "data" /\ data = [op |-> "text", payload |-> Base(p) \o part]
                /\ SizeSum(Len(Base(p)), Len(sent[p].payload)) <= MaxMessageSize
  /\ NextByte = After(sent, p, FrameLength(sent[p]) - needed)
InReady(p) ==
  /\ mState = "ready" /\ p \in 1..Len(sent) /\ Good(p) /\ sent[p].fin
  /\ Current = MessageOf(sent, p)
  /\ IF sent[p].op = "control" THEN current = "control" /\ data = Pending(p)
                               ELSE current = "data"
  /\ NextByte = After(sent, p, FrameLength(sent[p]))

Done(p) == out = Messages(p - 1) /\ \A m \in 1..(p - 1) : Good(m)
Position(p) == Done(p) /\ (InBasic(p) \/ InExtended(p) \/ InPayload(p) \/ InReady(p))
ParseInv ==
  /\ ~failed => Flows /\ \E p \in 1..(Len(sent) + 1) : Position(p)
  /\ FailsAtBadFrame
-----------------------------------------------------------------------------
(* Sequences and bytes.                                                     *)

\* A function on 1..n is a sequence of length n.
LEMMA FunctionIsSeq ==
  ASSUME NEW S, NEW n \in Nat, NEW f \in [1..n -> S]
  PROVE  f \in Seq(S) /\ Len(f) = n
  OBVIOUS

\* What consume takes from its bytes, and what it leaves.
LEMMA TakeFacts ==
  ASSUME NEW S, NEW s \in Seq(S), NEW k \in 0..Len(s)
  PROVE  /\ SubSeq(s, 1, k) \in Seq(S) /\ Len(SubSeq(s, 1, k)) = k
         /\ SubSeq(s, k + 1, Len(s)) \in Seq(S)
  <1>1. \A i \in 1..Len(s) : s[i] \in S
    BY ElementOfSeq
  <1>2. k \in Int /\ Len(s) \in Int /\ k + 1 \in Int
    OBVIOUS
  <1>3. SubSeq(s, 1, k) \in Seq(S) /\ Len(SubSeq(s, 1, k)) = k
    <2>1. \A i \in 1..k : s[i] \in S
      BY <1>1
    <2> QED BY <1>2, <2>1, SubSeqProperties
  <1>4. SubSeq(s, k + 1, Len(s)) \in Seq(S)
    <2>1. \A i \in (k + 1)..Len(s) : s[i] \in S
      BY <1>1
    <2> QED BY <1>2, <2>1, SubSeqProperties
  <1> QED BY <1>3, <1>4

\* A part of a sequence, and the elements that follow it.
LEMMA PartFacts ==
  ASSUME NEW S, NEW P \in Seq(S), NEW h \in 0..Len(P), NEW t \in Seq(S), h + Len(t) <= Len(P),
         \A i \in 1..Len(t) : t[i] = P[h + i]
  PROVE  SubSeq(P, 1, h) \o t = SubSeq(P, 1, h + Len(t))
  <1> DEFINE a == SubSeq(P, 1, h)
             b == SubSeq(P, 1, h + Len(t))
  <1>1. h \in Nat /\ Len(t) \in Nat /\ Len(P) \in Nat
    BY LenProperties
  <1>2. a \in Seq(S) /\ Len(a) = h /\ \A i \in 1..h : a[i] = P[i]
    BY <1>1
  <1>3. b \in Seq(S) /\ Len(b) = h + Len(t) /\ \A i \in 1..(h + Len(t)) : b[i] = P[i]
    BY <1>1
  <1> HIDE DEF a, b
  <1>4. /\ a \o t \in Seq(S) /\ Len(a \o t) = h + Len(t)
        /\ \A i \in 1..(h + Len(t)) : (a \o t)[i] = IF i <= h THEN a[i] ELSE t[i - h]
    BY <1>1, <1>2, ConcatProperties
  <1>5. \A i \in 1..(h + Len(t)) : (a \o t)[i] = b[i]
    <2> TAKE i \in 1..(h + Len(t))
    <2>1. CASE i <= h
      <3>1. i \in 1..h
        BY <1>1, <2>1
      <3>2. (a \o t)[i] = a[i] /\ a[i] = P[i] /\ b[i] = P[i]
        BY <1>2, <1>3, <1>4, <2>1, <3>1
      <3> QED BY <3>2
    <2>2. CASE ~(i <= h)
      <3>1. i - h \in 1..Len(t) /\ h + (i - h) = i
        BY <1>1, <2>2
      <3>2. t[i - h] = P[i]
        BY <3>1
      <3> QED BY <1>3, <1>4, <2>2, <3>2
    <2> QED BY <2>1, <2>2
  <1>6. a \o t = b
    BY <1>3, <1>4, <1>5, SeqEqual
  <1> QED BY <1>6 DEF a, b

\* Dropping elements of the first of two sequences.
LEMMA DropFacts ==
  ASSUME NEW S, NEW a \in Seq(S), NEW b \in Seq(S), NEW k \in 0..Len(a)
  PROVE  SubSeq(a, k + 1, Len(a)) \o b = SubSeq(a \o b, k + 1, Len(a \o b))
  <1> DEFINE d == SubSeq(a, k + 1, Len(a))
             ab == a \o b
             e == SubSeq(ab, k + 1, Len(ab))
  <1>1. k \in Nat /\ Len(a) \in Nat /\ Len(b) \in Nat /\ k <= Len(a)
    BY LenProperties
  <1>2. /\ ab \in Seq(S) /\ Len(ab) = Len(a) + Len(b)
        /\ \A i \in 1..(Len(a) + Len(b)) : ab[i] = IF i <= Len(a) THEN a[i] ELSE b[i - Len(a)]
    BY ConcatProperties
  <1>3. d \in Seq(S) /\ Len(d) = Len(a) - k /\ \A i \in 1..(Len(a) - k) : d[i] = a[k + i]
    BY <1>1
  <1> HIDE DEF d, ab
  <1>4. e \in Seq(S) /\ Len(e) = Len(ab) - k /\ \A i \in 1..(Len(ab) - k) : e[i] = ab[k + i]
    BY <1>1, <1>2
  <1> HIDE DEF e
  <1>5. /\ d \o b \in Seq(S) /\ Len(d \o b) = Len(d) + Len(b)
        /\ \A i \in 1..(Len(d) + Len(b)) : (d \o b)[i] = IF i <= Len(d) THEN d[i] ELSE b[i - Len(d)]
    BY <1>3, ConcatProperties
  <1>6. ASSUME NEW i \in 1..Len(e) PROVE (d \o b)[i] = e[i]
    <2>1. e[i] = ab[k + i] /\ k + i \in 1..(Len(a) + Len(b)) /\ i \in 1..(Len(d) + Len(b))
      BY <1>1, <1>2, <1>3, <1>4
    <2>2. CASE i <= Len(d)
      <3>1. k + i <= Len(a) /\ i \in 1..(Len(a) - k)
        BY <1>1, <1>3, <2>2
      <3> QED BY <1>2, <1>3, <1>5, <2>1, <2>2, <3>1
    <2>3. CASE ~(i <= Len(d))
      <3>1. ~(k + i <= Len(a)) /\ (k + i) - Len(a) = i - Len(d)
        BY <1>1, <1>3, <2>3
      <3> QED BY <1>2, <1>5, <2>1, <2>3, <3>1
    <2> QED BY <2>2, <2>3
  <1>7. Len(d \o b) = Len(e)
    BY <1>1, <1>2, <1>3, <1>4, <1>5
  <1>8. d \o b = e
    BY <1>4, <1>5, <1>6, <1>7, SeqEqual
  <1> QED BY <1>8 DEF d, e, ab

\* Two sequences, one after the other.
LEMMA ConcatFacts ==
  ASSUME NEW S, NEW a \in Seq(S), NEW b \in Seq(S)
  PROVE  /\ a \o b \in Seq(S) /\ Len(a \o b) = Len(a) + Len(b)
         /\ \A i \in 1..Len(a) : (a \o b)[i] = a[i]
         /\ \A i \in 1..Len(b) : (a \o b)[Len(a) + i] = b[i]
  OBVIOUS

\* A sequence a, followed by x, is the beginning of a followed by y.
LEMMA LongerFacts ==
  ASSUME NEW S, NEW a \in Seq(S), NEW x \in Seq(S), NEW y \in Seq(S), Len(x) <= Len(y),
         \A i \in 1..Len(x) : x[i] = y[i]
  PROVE  /\ Len(a \o x) \in Nat /\ Len(a \o y) \in Nat /\ Len(a \o x) <= Len(a \o y)
         /\ \A i \in 1..Len(a \o x) : (a \o x)[i] = (a \o y)[i]
  <1>1. Len(a) \in Nat /\ Len(x) \in Nat /\ Len(y) \in Nat
    BY LenProperties
  <1>2. /\ Len(a \o x) = Len(a) + Len(x)
        /\ \A i \in 1..(Len(a) + Len(x)) : (a \o x)[i] = IF i <= Len(a) THEN a[i] ELSE x[i - Len(a)]
    BY ConcatProperties
  <1>3. /\ Len(a \o y) = Len(a) + Len(y)
        /\ \A i \in 1..(Len(a) + Len(y)) : (a \o y)[i] = IF i <= Len(a) THEN a[i] ELSE y[i - Len(a)]
    BY ConcatProperties
  <1>4. ASSUME NEW i \in 1..(Len(a) + Len(x)) PROVE (a \o x)[i] = (a \o y)[i]
    <2>1. i \in 1..(Len(a) + Len(y)) /\ (~(i <= Len(a)) => i - Len(a) \in 1..Len(x))
      BY <1>1
    <2> QED BY <1>2, <1>3, <2>1
  <1> QED BY <1>1, <1>2, <1>3, <1>4

-----------------------------------------------------------------------------
(* Recursion on the natural numbers.                                       *)

\* Induction on the natural numbers. If n were not in S, then taking 1 from each
\* number up to n outside S gave numbers outside S without n, and as many.
LEMMA SetInduction ==
  ASSUME NEW S, 0 \in S, \A n \in Nat : n \in S => n + 1 \in S
  PROVE  Nat \subseteq S
  <1> SUFFICES ASSUME NEW n \in Nat, n \notin S PROVE FALSE
    OBVIOUS
  <1> DEFINE T == (0..n) \ S
             f == [x \in T |-> x - 1]
  <1>1. IsFiniteSet(T) /\ n \in T
    <2>1. IsFiniteSet(0..n)
      BY FS_Interval
    <2>2. T \subseteq 0..n /\ n \in T
      OBVIOUS
    <2> HIDE DEF T
    <2> QED BY <2>1, <2>2, FS_Subset
  <1>2. IsFiniteSet(T \ {n}) /\ Cardinality(T \ {n}) = Cardinality(T) - 1
    BY <1>1, FS_RemoveElement
  <1>3. f \in Injection(T, T \ {n})
    <2>1. ASSUME NEW x \in T PROVE x - 1 \in T \ {n}
      <3>1. x # 0 /\ x \in Nat /\ x - 1 \in Nat
        OBVIOUS
      <3> QED BY <3>1
    <2> QED BY <2>1 DEF Injection, IsInjective
  <1>4. Cardinality(T) <= Cardinality(T \ {n})
    BY <1>2, <1>3, FS_Injection
  <1>5. Cardinality(T) \in Nat
    BY <1>1, FS_CardinalityType
  <1> QED BY <1>2, <1>4, <1>5

\* Values that follow each other by the steps g.
Steps(N, S) == [1..N -> [S -> S]]
Iterates(f, N, S, a, g) ==
  f \in [0..N -> S] /\ f[0] = a /\ \A n \in 1..N : f[n] = g[n][f[n - 1]]

\* There are such values.
LEMMA RecursionExists ==
  ASSUME NEW S, NEW N \in Nat, NEW a \in S, NEW g \in Steps(N, S)
  PROVE  \E f : Iterates(f, N, S, a, g)
  <1> USE DEF Steps, Iterates
  <1> DEFINE R(f, k) == f \in [0..k -> S] /\ f[0] = a /\ \A n \in 1..k : f[n] = g[n][f[n - 1]]
             K == {k \in Nat : k <= N => \E f : R(f, k)}
  <1>1. 0 \in K
    <2>1. R([n \in 0..0 |-> a], 0)
      OBVIOUS
    <2> QED BY <2>1
  <1>2. ASSUME NEW k \in Nat, k \in K PROVE k + 1 \in K
    <2> SUFFICES ASSUME k + 1 <= N PROVE \E f : R(f, k + 1)
      OBVIOUS
    <2>1. PICK f : R(f, k)
      BY <1>2
    <2> DEFINE h == [n \in 0..(k + 1) |-> IF n <= k THEN f[n] ELSE g[k + 1][f[k]]]
    <2>2. g[k + 1][f[k]] \in S
      BY <2>1
    <2>3. h \in [0..(k + 1) -> S] /\ h[0] = a
      BY <2>1, <2>2
    <2>4. ASSUME NEW n \in 1..(k + 1) PROVE h[n] = g[n][h[n - 1]]
      <3>1. CASE n <= k
        BY <2>1, <3>1
      <3>2. CASE n = k + 1
        BY <2>1, <3>2
      <3> QED BY <3>1, <3>2
    <2>5. R(h, k + 1)
      BY <2>3, <2>4
    <2> QED BY <2>5
  <1>3. N \in K
    <2> HIDE DEF K
    <2> QED BY <1>1, <1>2, SetInduction
  <1> QED BY <1>3

-----------------------------------------------------------------------------
(* What the frames mean.                                                    *)

\* A frame that the peer may send.
LEMMA FrameFacts ==
  ASSUME NEW f \in PeerFrames
  PROVE  /\ f \in Frame /\ f.payload \in Seq(UTF8) /\ Len(f.payload) \in Nat
         /\ f.ext \in {0, 2, 8} /\ f.op \in Opcodes /\ f.fin \in BOOLEAN
         /\ FrameLength(f) = 2 + f.ext + Len(f.payload)
         /\ FrameLength(f) \in Nat
  <1>1. f \in Frame
    BY FramesAssumption
  <1>2. f.payload \in Seq(UTF8) /\ f.ext \in {0, 2, 8} /\ f.op \in Opcodes /\ f.fin \in BOOLEAN
    BY <1>1 DEF Frame
  <1>3. Len(f.payload) \in Nat
    BY <1>2, LenProperties
  <1> QED BY <1>1, <1>2, <1>3 DEF FrameLength, HeaderLength

\* Its payload, as frame n of N.
LEMMA PayloadFacts ==
  ASSUME NEW N \in Nat, NEW n \in 1..N, NEW f \in PeerFrames
  PROVE  /\ Payload(n, f) \in Seq([frame : 0..N, at : Nat])
         /\ Len(Payload(n, f)) = Len(f.payload)
         /\ \A i \in 1..Len(f.payload) : Payload(n, f)[i] = [frame |-> n, at |-> 2 + f.ext + i]
  <1>1. Len(f.payload) \in Nat /\ f.ext \in {0, 2, 8} /\ n \in 0..N
    BY FrameFacts
  <1>2. \A i \in 1..Len(f.payload) : [frame |-> n, at |-> 2 + f.ext + i] \in [frame : 0..N, at : Nat]
    BY <1>1
  <1>3. Payload(n, f) \in [1..Len(f.payload) -> [frame : 0..N, at : Nat]]
    BY <1>1, <1>2 DEF Payload, HeaderLength
  <1>4. Payload(n, f) \in Seq([frame : 0..N, at : Nat]) /\ Len(Payload(n, f)) = Len(f.payload)
    BY <1>1, <1>3, FunctionIsSeq
  <1> QED BY <1>4 DEF Payload, HeaderLength

\* The bytes of the frames s.
BytesOf(s) == [frame : 0..Len(s), at : Nat]

\* What DataOf computes, frame by frame.
LEMMA DataFacts ==
  ASSUME NEW s \in Seq(PeerFrames)
  PROVE  /\ DataOf(s)[0] = <<>>
         /\ \A n \in 0..Len(s) : DataOf(s)[n] \in Seq(BytesOf(s))
         /\ \A n \in 1..Len(s) :
              DataOf(s)[n] = IF ~IsData(s[n]) THEN DataOf(s)[n - 1]
                             ELSE IF s[n].op = "text" THEN Payload(n, s[n])
                             ELSE DataOf(s)[n - 1] \o Payload(n, s[n])
  <1> DEFINE N == Len(s)
             next(n, x) == IF ~IsData(s[n]) THEN x
                           ELSE IF s[n].op = "text" THEN Payload(n, s[n])
                           ELSE x \o Payload(n, s[n])
             g == [n \in 1..N |-> [x \in Seq(BytesOf(s)) |-> next(n, x)]]
  <1>1. N \in Nat /\ <<>> \in Seq(BytesOf(s))
    BY EmptySeq, LenProperties
  <1>2. \A n \in 1..N, x \in Seq(BytesOf(s)) : next(n, x) \in Seq(BytesOf(s))
    <2> SUFFICES ASSUME NEW n \in 1..N, NEW x \in Seq(BytesOf(s)) PROVE next(n, x) \in Seq(BytesOf(s))
      OBVIOUS
    <2>1. s[n] \in PeerFrames
      BY <1>1, ElementOfSeq
    <2>2. Payload(n, s[n]) \in Seq(BytesOf(s))
      BY <1>1, <2>1, PayloadFacts DEF BytesOf
    <2>3. x \o Payload(n, s[n]) \in Seq(BytesOf(s))
      BY <2>2, ConcatProperties
    <2> QED BY <2>2, <2>3
  <1>3. g \in Steps(N, Seq(BytesOf(s)))
    BY <1>2 DEF Steps
  <1> HIDE DEF N
  <1>4. PICK f : Iterates(f, N, Seq(BytesOf(s)), <<>>, g)
    <2> HIDE DEF g
    <2> QED BY <1>1, <1>3, RecursionExists
  <1> DEFINE Rec(d) == d = [n \in 0..N |-> IF n = 0 THEN <<>> ELSE next(n, d[n - 1])]
  <1>5. Rec(f)
    <2>1. \A n \in 1..N : f[n - 1] \in Seq(BytesOf(s))
      BY <1>1, <1>4 DEF Iterates
    <2>2. \A n \in 1..N : f[n] = next(n, f[n - 1])
      BY <1>4, <2>1 DEF Iterates
    <2> HIDE DEF next
    <2> QED BY <1>1, <1>4, <2>2 DEF Iterates
  <1>6. DataOf(s) = CHOOSE d : Rec(d)
    BY DEF DataOf, N
  <1>7. Rec(DataOf(s))
    <2> HIDE DEF Rec
    <2> QED BY <1>5, <1>6, Zenon
  <1> HIDE DEF next
  <1>8. DataOf(s)[0] = <<>> /\ \A n \in 1..N : DataOf(s)[n] = next(n, DataOf(s)[n - 1])
    BY <1>1, <1>7
  <1>9. \A n \in 0..N : DataOf(s)[n] \in Seq(BytesOf(s))
    <2> DEFINE K == {k \in Nat : k <= N => DataOf(s)[k] \in Seq(BytesOf(s))}
    <2>1. 0 \in K
      BY <1>1, <1>8
    <2>2. \A k \in Nat : k \in K => k + 1 \in K
      BY <1>1, <1>2, <1>8
    <2>3. Nat \subseteq K
      <3> HIDE DEF K
      <3> QED BY <2>1, <2>2, SetInduction
    <2> QED BY <1>1, <2>3
  <1> QED BY <1>8, <1>9 DEF N, next

\* A message of the frames s.
MessageType(s) == [op : {"control", "text"}, payload : Seq(BytesOf(s))]

LEMMA MessageOfType ==
  ASSUME NEW s \in Seq(PeerFrames), NEW n \in 1..Len(s)
  PROVE  MessageOf(s, n) \in MessageType(s)
  <1>1. s[n] \in PeerFrames /\ Len(s) \in Nat /\ n \in 0..Len(s)
    BY ElementOfSeq, LenProperties
  <1>2. Payload(n, s[n]) \in Seq(BytesOf(s)) /\ DataOf(s)[n] \in Seq(BytesOf(s))
    BY <1>1, PayloadFacts, DataFacts DEF BytesOf
  <1> QED BY <1>2 DEF MessageOf, MessageType

\* What MessagesOf computes, frame by frame.
LEMMA MessagesFacts ==
  ASSUME NEW s \in Seq(PeerFrames)
  PROVE  /\ MessagesOf(s)[0] = <<>>
         /\ \A n \in 0..Len(s) : MessagesOf(s)[n] \in Seq(MessageType(s))
         /\ \A n \in 1..Len(s) :
              MessagesOf(s)[n] = IF s[n].fin THEN Append(MessagesOf(s)[n - 1], MessageOf(s, n))
                                 ELSE MessagesOf(s)[n - 1]
  <1> DEFINE N == Len(s)
             S == Seq(MessageType(s))
             next(n, x) == IF s[n].fin THEN Append(x, MessageOf(s, n)) ELSE x
             g == [n \in 1..N |-> [x \in S |-> next(n, x)]]
  <1>1. N \in Nat /\ <<>> \in S
    BY EmptySeq, LenProperties
  <1>2. \A n \in 1..N, x \in S : next(n, x) \in S
    BY MessageOfType, AppendProperties
  <1> HIDE DEF next
  <1>3. g \in Steps(N, S)
    BY <1>2 DEF Steps
  <1> HIDE DEF N, S
  <1>4. PICK f : Iterates(f, N, S, <<>>, g)
    <2> HIDE DEF g
    <2> QED BY <1>1, <1>3, RecursionExists
  <1> DEFINE Rec(d) == d = [n \in 0..N |-> IF n = 0 THEN <<>> ELSE next(n, d[n - 1])]
  <1>5. Rec(f)
    <2>1. \A n \in 1..N : f[n - 1] \in S
      BY <1>1, <1>4 DEF Iterates
    <2>2. \A n \in 1..N : f[n] = next(n, f[n - 1])
      BY <1>4, <2>1 DEF Iterates
    <2> QED BY <1>1, <1>4, <2>2 DEF Iterates
  <1>6. MessagesOf(s) = CHOOSE d : Rec(d)
    BY DEF MessagesOf, N, next
  <1>7. Rec(MessagesOf(s))
    <2> HIDE DEF Rec
    <2> QED BY <1>5, <1>6, Zenon
  <1>8. MessagesOf(s)[0] = <<>> /\ \A n \in 1..N : MessagesOf(s)[n] = next(n, MessagesOf(s)[n - 1])
    BY <1>1, <1>7
  <1>9. \A n \in 0..N : MessagesOf(s)[n] \in S
    <2> DEFINE K == {k \in Nat : k <= N => MessagesOf(s)[k] \in S}
    <2>1. 0 \in K
      BY <1>1, <1>8
    <2>2. \A k \in Nat : k \in K => k + 1 \in K
      BY <1>1, <1>2, <1>8
    <2>3. Nat \subseteq K
      <3> HIDE DEF K
      <3> QED BY <2>1, <2>2, SetInduction
    <2> QED BY <1>1, <2>3
  <1> QED BY <1>8, <1>9 DEF N, next, S

\* Another frame does not change what the frames before it mean.
LEMMA GrowFacts ==
  ASSUME NEW s \in Seq(PeerFrames), NEW f \in PeerFrames
  PROVE  /\ Append(s, f) \in Seq(PeerFrames) /\ Len(Append(s, f)) = Len(s) + 1
         /\ \A n \in 1..Len(s) : Append(s, f)[n] = s[n]
         /\ Append(s, f)[Len(s) + 1] = f
         /\ \A n \in 0..Len(s) : DataOf(Append(s, f))[n] = DataOf(s)[n]
         /\ \A n \in 0..Len(s) : MessagesOf(Append(s, f))[n] = MessagesOf(s)[n]
  <1> DEFINE t == Append(s, f)
             N == Len(s)
  <1>1. /\ t \in Seq(PeerFrames) /\ Len(t) = N + 1 /\ N \in Nat
        /\ \A n \in 1..N : t[n] = s[n]
        /\ t[N + 1] = f
    OBVIOUS
  <1> HIDE DEF t, N
  <1>2. \A n \in 0..N : DataOf(t)[n] = DataOf(s)[n]
    <2> DEFINE K == {k \in Nat : k <= N => DataOf(t)[k] = DataOf(s)[k]}
    <2>1. 0 \in K
      BY <1>1, DataFacts
    <2>2. ASSUME NEW k \in Nat, k \in K PROVE k + 1 \in K
      <3> SUFFICES ASSUME k + 1 <= N PROVE DataOf(t)[k + 1] = DataOf(s)[k + 1]
        OBVIOUS
      <3>1. k + 1 \in 1..Len(s) /\ k + 1 \in 1..Len(t) /\ t[k + 1] = s[k + 1] /\ (k + 1) - 1 = k
        BY <1>1 DEF N
      <3>2. DataOf(t)[k] = DataOf(s)[k]
        BY <1>1, <2>2
      <3> HIDE DEF K
      <3> QED BY <1>1, <3>1, <3>2, DataFacts
    <2>3. Nat \subseteq K
      <3> HIDE DEF K
      <3> QED BY <2>1, <2>2, SetInduction
    <2> QED BY <1>1, <2>3
  <1>3. \A n \in 0..N : MessagesOf(t)[n] = MessagesOf(s)[n]
    <2> DEFINE K == {k \in Nat : k <= N => MessagesOf(t)[k] = MessagesOf(s)[k]}
    <2>1. 0 \in K
      BY <1>1, MessagesFacts
    <2>2. ASSUME NEW k \in Nat, k \in K PROVE k + 1 \in K
      <3> SUFFICES ASSUME k + 1 <= N PROVE MessagesOf(t)[k + 1] = MessagesOf(s)[k + 1]
        OBVIOUS
      <3>1. k + 1 \in 1..Len(s) /\ k + 1 \in 1..Len(t) /\ t[k + 1] = s[k + 1] /\ (k + 1) - 1 = k
        BY <1>1 DEF N
      <3>2. MessagesOf(t)[k] = MessagesOf(s)[k]
        BY <1>1, <2>2
      <3>3. MessageOf(t, k + 1) = MessageOf(s, k + 1)
        BY <1>1, <1>2, <3>1 DEF MessageOf, N
      <3>4. MessagesOf(t)[k + 1] = IF t[k + 1].fin THEN Append(MessagesOf(t)[k], MessageOf(t, k + 1))
                                   ELSE MessagesOf(t)[k]
        BY <1>1, <3>1, MessagesFacts
      <3>5. MessagesOf(s)[k + 1] = IF s[k + 1].fin THEN Append(MessagesOf(s)[k], MessageOf(s, k + 1))
                                   ELSE MessagesOf(s)[k]
        BY <3>1, MessagesFacts
      <3> QED BY <3>1, <3>2, <3>3, <3>4, <3>5
    <2>3. Nat \subseteq K
      <3> HIDE DEF K
      <3> QED BY <2>1, <2>2, SetInduction
    <2> QED BY <1>1, <2>3
  <1> QED BY <1>1, <1>2, <1>3 DEF t, N

-----------------------------------------------------------------------------
(* The stream of bytes.                                                     *)

\* The frames that were sent.
LEMMA LengthFacts ==
  ASSUME NEW s \in Seq(PeerFrames)
  PROVE  /\ Len(s) \in Nat
         /\ \A p \in 1..Len(s) : /\ s[p] \in PeerFrames
                                 /\ FrameLength(s[p]) \in Nat /\ FrameLength(s[p]) >= 2
  <1>1. \A p \in 1..Len(s) : s[p] \in PeerFrames
    BY ElementOfSeq
  <1>2. \A p \in 1..Len(s) : FrameLength(s[p]) \in Nat /\ FrameLength(s[p]) >= 2
    BY <1>1, FrameFacts, SMTT(30)
  <1> QED BY <1>1, <1>2, LenProperties

\* Inside a frame its bytes follow each other.
LEMMA RunFacts ==
  ASSUME NEW s \in Seq(PeerFrames), NEW S, NEW r \in Seq(S), Flow(s, r),
         NEW p \in 1..Len(s), NEW c \in 0..FrameLength(s[p]),
         ByteAt(s, r, 1) = After(s, p, c)
  PROVE  \A k \in 0..Len(r) : c + k <= FrameLength(s[p]) =>
           /\ ByteAt(s, r, k + 1) = After(s, p, c + k)
           /\ k >= 1 => r[k] = ByteOf(p, c + k)
  <1> DEFINE F == FrameLength(s[p])
             K == {k \in Nat : k <= Len(r) /\ c + k <= F =>
                                 /\ ByteAt(s, r, k + 1) = After(s, p, c + k)
                                 /\ k >= 1 => r[k] = ByteOf(p, c + k)}
  <1>1. F \in Nat /\ Len(r) \in Nat /\ c \in Nat
    BY LengthFacts, LenProperties
  <1>2. 0 \in K
    BY <1>1
  <1>3. ASSUME NEW k \in Nat, k \in K PROVE k + 1 \in K
    <2> SUFFICES ASSUME k + 1 <= Len(r), c + (k + 1) <= F
                 PROVE  /\ ByteAt(s, r, (k + 1) + 1) = After(s, p, c + (k + 1))
                        /\ r[k + 1] = ByteOf(p, c + (k + 1))
      OBVIOUS
    <2>1. ByteAt(s, r, k + 1) = After(s, p, c + k)
      BY <1>1, <1>3
    <2>2. ByteAt(s, r, k + 1) = r[k + 1]
      BY DEF ByteAt
    <2>3. After(s, p, c + k) = ByteOf(p, c + (k + 1))
      BY <1>1 DEF After
    <2>4. ByteAt(s, r, (k + 1) + 1) = After(s, r[k + 1].frame, r[k + 1].at)
      BY <1>1 DEF Flow
    <2>5. r[k + 1].frame = p /\ r[k + 1].at = c + (k + 1)
      BY <2>1, <2>2, <2>3 DEF ByteOf
    <2> QED BY <2>1, <2>2, <2>3, <2>4, <2>5
  <1>4. Nat \subseteq K
    <2> HIDE DEF K
    <2> QED BY <1>2, <1>3, SetInduction
  <1> QED BY <1>1, <1>4

\* Taking bytes from the front.
LEMMA DropFlow ==
  ASSUME NEW s \in Seq(PeerFrames), NEW S, NEW r \in Seq(S), Flow(s, r),
         NEW k \in 0..Len(r)
  PROVE  LET t == SubSeq(r, k + 1, Len(r))
         IN  Flow(s, t) /\ ByteAt(s, t, 1) = ByteAt(s, r, k + 1)
  <1> DEFINE t == SubSeq(r, k + 1, Len(r))
  <1>1. /\ t \in Seq(S) /\ Len(t) = Len(r) - k
        /\ \A i \in 1..Len(t) : t[i] = r[k + i]
        /\ Len(r) \in Nat /\ k \in Nat /\ k <= Len(r)
    OBVIOUS
  <1> HIDE DEF t
  <1>2. \A i \in 1..(Len(t) + 1) : ByteAt(s, t, i) = ByteAt(s, r, k + i)
    BY <1>1 DEF ByteAt
  <1>3. ASSUME NEW i \in 1..Len(t)
        PROVE  IsSent(s, t[i]) /\ ByteAt(s, t, i + 1) = After(s, t[i].frame, t[i].at)
    <2>1. k + i \in 1..Len(r) /\ i + 1 \in 1..(Len(t) + 1) /\ k + (i + 1) = (k + i) + 1
      BY <1>1
    <2>2. /\ IsSent(s, r[k + i])
          /\ ByteAt(s, r, (k + i) + 1) = After(s, r[k + i].frame, r[k + i].at)
      BY <2>1 DEF Flow
    <2> QED BY <1>1, <1>2, <2>1, <2>2
  <1>4. Flow(s, t)
    BY <1>3 DEF Flow
  <1>5. ByteAt(s, t, 1) = ByteAt(s, r, k + 1)
    BY <1>1, <1>2
  <1> QED BY <1>4, <1>5 DEF t

\* The bytes of one more frame.
LEMMA ExtendFlow ==
  ASSUME NEW s \in Seq(PeerFrames), NEW r \in Seq(Byte), Flow(s, r), NEW f \in PeerFrames
  PROVE  LET s1 == Append(s, f)
             r1 == r \o Bytes(Len(s) + 1, f)
         IN  Flow(s1, r1) /\ ByteAt(s1, r1, 1) = ByteAt(s, r, 1)
  <1> DEFINE s1 == Append(s, f)
             r1 == r \o Bytes(Len(s) + 1, f)
             N == Len(s)
             F == FrameLength(f)
             R == Len(r)
  <1>1. N \in Nat /\ F \in Nat /\ F >= 2 /\ R \in Nat
    BY FrameFacts, LenProperties
  <1>2. Len(s1) = N + 1 /\ s1[N + 1] = f /\ \A p \in 1..N : s1[p] = s[p]
    OBVIOUS
  <1>3. /\ Len(r1) = R + F
        /\ \A i \in 1..R : r1[i] = r[i]
        /\ \A i \in 1..F : r1[R + i] = ByteOf(N + 1, i)
    <2> DEFINE B == Bytes(N + 1, f)
    <2>1. \A i \in 1..F : ByteOf(N + 1, i) \in Byte
      BY <1>1 DEF ByteOf, Byte
    <2>2. B = [i \in 1..F |-> ByteOf(N + 1, i)]
      BY DEF Bytes, ByteOf
    <2> HIDE DEF B, F
    <2>3. B \in [1..F -> Byte]
      BY <2>1, <2>2
    <2>4. B \in Seq(Byte) /\ Len(B) = F /\ \A i \in 1..F : B[i] = ByteOf(N + 1, i)
      BY <1>1, <2>2, <2>3, FunctionIsSeq
    <2>5. r1 = r \o B
      BY DEF B
    <2> HIDE DEF r1, R
    <2>6. /\ Len(r1) = Len(r) + Len(B)
          /\ \A i \in 1..Len(r) : r1[i] = r[i]
          /\ \A i \in 1..Len(B) : r1[Len(r) + i] = B[i]
      <3>1. B \in Seq(Byte)
        BY <2>4
      <3> QED BY <2>5, <3>1, ConcatFacts
    <2> QED BY <2>4, <2>6 DEF R
  <1> HIDE DEF s1, r1, F, N, R
  <1>4. \A p \in 1..N, c \in Nat : After(s1, p, c) = After(s, p, c)
    BY <1>2 DEF After
  <1>5. \A c \in 0..F : After(s1, N + 1, c) = IF c < F THEN ByteOf(N + 1, c + 1) ELSE ByteOf(N + 2, 1)
    <2>1. (N + 1) + 1 = N + 2
      BY <1>1
    <2> QED BY <1>1, <1>2, <2>1 DEF After, F
  <1>6. \A i \in 1..(R + 1) : ByteAt(s1, r1, i) = ByteAt(s, r, i)
    <2> SUFFICES ASSUME NEW i \in 1..(R + 1) PROVE ByteAt(s1, r1, i) = ByteAt(s, r, i)
      OBVIOUS
    <2>1. CASE i <= R
      <3>1. i \in 1..R /\ i <= Len(r1)
        BY <1>1, <1>3, <2>1
      <3> QED BY <1>3, <2>1, <3>1 DEF ByteAt, R
    <2>2. CASE i = R + 1
      <3>1. r1[R + 1] = ByteOf(N + 1, 1) /\ R + 1 <= Len(r1)
        BY <1>1, <1>3
      <3> QED BY <1>1, <2>2, <3>1 DEF ByteAt, R, N
    <2> QED BY <1>1, <2>1, <2>2
  <1>7. ASSUME NEW i \in 1..(R + F)
        PROVE  IsSent(s1, r1[i]) /\ ByteAt(s1, r1, i + 1) = After(s1, r1[i].frame, r1[i].at)
    <2>1. CASE i <= R
      <3>1. i \in 1..R /\ r1[i] = r[i] /\ i + 1 \in 1..(R + 1)
        BY <1>1, <1>3, <2>1
      <3>2. IsSent(s, r[i]) /\ ByteAt(s, r, i + 1) = After(s, r[i].frame, r[i].at)
        BY <3>1 DEF Flow, R
      <3>3. PICK p \in 1..N : \E j \in 1..FrameLength(s[p]) : r[i] = ByteOf(p, j)
        BY <3>2 DEF IsSent, N
      <3>4. PICK j \in 1..FrameLength(s[p]) : r[i] = ByteOf(p, j)
        BY <3>3
      <3>5. p \in 1..Len(s1) /\ j \in 1..FrameLength(s1[p])
        BY <1>1, <1>2
      <3>6. IsSent(s1, r1[i])
        BY <3>1, <3>4, <3>5 DEF IsSent
      <3>7. r[i].frame = p /\ r[i].at = j /\ j \in Nat
        BY <3>4 DEF ByteOf
      <3> QED BY <1>4, <1>6, <3>1, <3>2, <3>6, <3>7
    <2>2. CASE i > R
      <3> DEFINE j == i - R
      <3>1. j \in 1..F /\ i = R + j
        BY <1>1, <2>2
      <3> HIDE DEF j
      <3>2. r1[i] = ByteOf(N + 1, j)
        BY <1>3, <3>1
      <3>3. IsSent(s1, r1[i])
        <4>1. N + 1 \in 1..Len(s1) /\ j \in 1..FrameLength(s1[N + 1])
          BY <1>1, <1>2, <3>1 DEF F
        <4> QED BY <3>2, <4>1 DEF IsSent
      <3>4. CASE j < F
        <4>1. i + 1 = R + (j + 1) /\ j + 1 \in 1..F /\ i + 1 <= Len(r1)
          BY <1>1, <1>3, <3>1, <3>4
        <4>2. ByteAt(s1, r1, i + 1) = ByteOf(N + 1, j + 1)
          BY <1>3, <4>1 DEF ByteAt
        <4> QED BY <1>5, <3>1, <3>2, <3>3, <3>4, <4>2 DEF ByteOf
      <3>5. CASE j = F
        <4>1. ~(i + 1 <= Len(r1)) /\ (N + 1) + 1 = N + 2
          BY <1>1, <1>3, <3>1, <3>5
        <4>2. ByteAt(s1, r1, i + 1) = ByteOf(N + 2, 1)
          BY <1>2, <4>1 DEF ByteAt
        <4>3. After(s1, N + 1, j) = ByteOf(N + 2, 1)
          BY <1>1, <1>5, <3>1, <3>5
        <4>4. r1[i].frame = N + 1 /\ r1[i].at = j
          BY <3>2 DEF ByteOf
        <4> QED BY <3>3, <4>2, <4>3, <4>4
      <3>6. j < F \/ j = F
        BY <1>1, <3>1
      <3> QED BY <3>4, <3>5, <3>6
    <2> QED BY <1>1, <2>1, <2>2
  <1>8. Flow(s1, r1)
    BY <1>3, <1>7 DEF Flow
  <1>9. ByteAt(s1, r1, 1) = ByteAt(s, r, 1)
    BY <1>1, <1>6
  <1> QED BY <1>8, <1>9 DEF s1, r1, R, N

-----------------------------------------------------------------------------
(* Types and sizes.                                                         *)

\* The frame of a byte is a frame, also the one of zero bytes.
LEMMA FrameOfType ==
  ASSUME BytesInv, NEW b \in KnownByte
  PROVE  FrameOf(b) \in Frame
  <1>1. CASE b.frame = 0
    BY <1>1, EmptySeq DEF FrameOf, ZeroFrame, Frame, Opcodes
  <1>2. CASE b.frame # 0
    <2>1. sent[b.frame] \in PeerFrames
      BY <1>2, ElementOfSeq DEF BytesInv, KnownByte
    <2> QED BY <1>2, <2>1, FramesAssumption DEF FrameOf
  <1> QED BY <1>1, <1>2

\* The length that a header announces.
LEMMA ExtensionType ==
  ASSUME BytesInv, NEW b \in [1..2 -> KnownByte]
  PROVE  ExtensionLength(b) \in {0, 2, 8}
  BY FrameOfType DEF ExtensionLength, Frame

\* The size that complete headers announce.
LEMMA PayloadSizeType ==
  ASSUME BytesInv, NEW b \in [1..2 -> KnownByte], NEW e \in Seq(KnownByte),
         Len(e) = ExtensionLength(b)
  PROVE  PayloadSize(b, e) \in Nat
  <1> DEFINE last == IF ExtensionLength(b) = 0 THEN b[2] ELSE e[1]
  <1>1. last \in KnownByte
    BY ExtensionType, ElementOfSeq
  <1>2. FrameOf(last).payload \in Seq(UTF8)
    BY <1>1, FrameOfType DEF Frame
  <1> QED BY <1>2, LenProperties DEF PayloadSize

\* The sum of two sizes, which is the real one if that fits.
LEMMA SizeSumFacts ==
  ASSUME NEW m \in Nat, NEW n \in Nat
  PROVE  /\ SizeSum(m, n) \in Nat
         /\ m + n < WordSize => SizeSum(m, n) = m + n
  BY FramesAssumption DEF SizeSum

\* Without huge frames no complete header announces a huge size.
LEMMA SmallSize ==
  ASSUME BytesInv, NoneIsHuge, NEW b \in [1..2 -> KnownByte], NEW e \in Seq(KnownByte),
         Len(e) = ExtensionLength(b)
  PROVE  PayloadSize(b, e) < WordSize - MaxMessageSize
  <1> DEFINE last == IF ExtensionLength(b) = 0 THEN b[2] ELSE e[1]
  <1>1. last \in KnownByte /\ PayloadSize(b, e) = Len(FrameOf(last).payload)
    BY ExtensionType, ElementOfSeq DEF PayloadSize
  <1> HIDE DEF last
  <1>2. CASE last.frame = 0
    BY <1>1, <1>2, EmptySeq, FramesAssumption DEF FrameOf, ZeroFrame
  <1>3. CASE last.frame # 0
    <2>1. last.frame \in 1..Len(sent) /\ FrameOf(last) = sent[last.frame]
      BY <1>1, <1>3, LenProperties DEF FrameOf, KnownByte, BytesInv
    <2>2. FrameOf(last).payload \in Seq(UTF8)
      BY <1>1, FrameOfType DEF Frame
    <2>3. ~Huge(FrameOf(last))
      BY <2>1 DEF NoneIsHuge
    <2> QED BY <1>1, <2>2, <2>3, LenProperties, FramesAssumption DEF Huge
  <1> QED BY <1>2, <1>3

\* Putting bytes into the plain header.
LEMMA CopyBasicType ==
  ASSUME BytesInv, NEW k \in 0..Len(buffer)
  PROVE  CopyBasic(k) \in [1..2 -> KnownByte]
  BY ElementOfSeq DEF CopyBasic, BytesInv, HeaderLength

-----------------------------------------------------------------------------
LEMMA InitInv == Init => FramesInv
  <1> SUFFICES ASSUME Init PROVE FramesInv
    OBVIOUS
  <1>1. /\ <<>> \in Seq(PeerFrames) /\ <<>> \in Seq(KnownByte) /\ Len(<<>>) = 0
        /\ ZeroByte \in KnownByte
    BY EmptySeq DEF Init, KnownByte, ZeroByte
  <1>2. basic \in [1..2 -> KnownByte]
    BY <1>1 DEF Init
  <1>3. data \in Partial("text") /\ control \in Partial("control")
    BY <1>1 DEF Init, Partial, NoMessage
  <1>4. BytesInv
    BY <1>1, <1>2, <1>3 DEF Init, BytesInv, HeaderLength
  <1> QED
    BY <1>1, <1>4, FramesAssumption DEF Init, FramesInv, HeaderInv, ReserveInv, NoMessage

-----------------------------------------------------------------------------
(* The steps.                                                               *)

\* More frames do not change what is known of the bytes that were sent.
LEMMA PeerSendsInv ==
  ASSUME FramesInv, NEW f \in PeerFrames, PeerSends(f)
  PROVE  FramesInv'
  <1> USE DEF FramesInv
  <1>1. /\ sent' \in Seq(PeerFrames) /\ Len(sent') = Len(sent) + 1
        /\ \A i \in 1..Len(sent) : sent'[i] = sent[i]
    BY DEF PeerSends, BytesInv
  <1>2. KnownByte \subseteq KnownByte'
    BY <1>1 DEF KnownByte, BytesInv
  <1>3. Bytes(Len(sent) + 1, f) \in Seq(KnownByte')
    <2>1. FrameLength(f) \in Nat
      BY FramesAssumption, LenProperties DEF FrameLength, Frame, HeaderLength
    <2>2. Bytes(Len(sent) + 1, f) \in [1..FrameLength(f) -> KnownByte']
      BY <1>1, <2>1 DEF Bytes, KnownByte, BytesInv
    <2> QED BY <2>1, <2>2, FunctionIsSeq
  <1>4. /\ socket \in Seq(KnownByte') /\ buffer \in Seq(KnownByte')
        /\ extended \in Seq(KnownByte') /\ data.payload \in Seq(KnownByte')
        /\ control.payload \in Seq(KnownByte')
    BY <1>2, SeqMonotonic DEF BytesInv, Partial
  <1>5. socket' \in Seq(KnownByte')
    BY <1>3, <1>4, ConcatProperties DEF PeerSends
  <1>6. basic' \in [1..2 -> KnownByte']
    BY <1>2 DEF PeerSends, header, BytesInv
  <1>7. data' \in Partial("text")' /\ control' \in Partial("control")'
    BY <1>4 DEF PeerSends, messages, BytesInv, Partial
  <1>8. BytesInv'
    BY <1>1, <1>4, <1>5, <1>6, <1>7 DEF PeerSends, header, messages, BytesInv
  <1>9. ExtensionLength(basic)' = ExtensionLength(basic)
    BY <1>1 DEF PeerSends, header, ExtensionLength, FrameOf, KnownByte, BytesInv
  <1>10. NoneIsHuge' => NoneIsHuge
    BY <1>1, LenProperties DEF NoneIsHuge, BytesInv
  <1> QED
    BY <1>8, <1>9, <1>10 DEF PeerSends, header, messages, HeaderInv, ReserveInv

\* A read moves bytes from the socket to the buffer.
LEMMA ReadInv ==
  ASSUME FramesInv, NEW n \in 1..BufferSize, handle_read_frame(n)
  PROVE  FramesInv'
  <1> USE DEF FramesInv
  <1>1. n \in 0..Len(socket)
    BY FramesAssumption, LenProperties DEF handle_read_frame, Smaller, BytesInv
  <1>2. socket' \in Seq(KnownByte) /\ buffer' \in Seq(KnownByte)
    BY <1>1, TakeFacts DEF handle_read_frame, BytesInv
  <1>3. UNCHANGED <<sent, mState, needed, basic, extended, data, control, current, failed>>
    BY DEF handle_read_frame, header, messages
  <1>4. KnownByte' = KnownByte /\ ExtensionLength(basic)' = ExtensionLength(basic)
    BY <1>3 DEF KnownByte, ExtensionLength, FrameOf
  <1> QED
    BY <1>2, <1>3, <1>4 DEF BytesInv, HeaderInv, ReserveInv, NoneIsHuge, Partial

\* The parser waits for a frame.
LEMMA ResetInv ==
  ASSUME BytesInv, reset_headers
  PROVE  /\ mState' = "basic" /\ needed' \in Nat
         /\ extended' = <<>> /\ extended' \in Seq(KnownByte)
         /\ basic' \in [1..2 -> KnownByte]
  <1>1. ZeroByte \in KnownByte
    BY LenProperties DEF ZeroByte, KnownByte, BytesInv
  <1> QED
    BY <1>1, EmptySeq DEF reset_headers, HeaderLength

\* A part of the plain header, or the whole.
LEMMA ReadBasicInv ==
  ASSUME FramesInv, NEW k \in 0..BufferSize, ReadBasicHeader(k)
  PROVE  FramesInv'
  <1> USE DEF FramesInv
  <1>1. /\ k \in 0..Len(buffer) /\ k <= needed /\ k \in Nat /\ needed \in Nat
        /\ mState = "basic" /\ extended = <<>>
    BY LenProperties DEF ReadBasicHeader, Smaller, BytesInv, HeaderInv
  <1>2. buffer' \in Seq(KnownByte)
    BY <1>1, TakeFacts DEF ReadBasicHeader, Take, BytesInv
  <1>3. CopyBasic(k) \in [1..2 -> KnownByte] /\ ExtensionLength(CopyBasic(k)) \in Nat
    BY <1>1, CopyBasicType, ExtensionType
  <1>4. /\ UNCHANGED <<sent, socket, data, control, current>>
        /\ basic' = CopyBasic(k) /\ extended' = <<>>
    BY <1>1 DEF ReadBasicHeader, messages
  <1>5. KnownByte' = KnownByte /\ ExtensionLength(basic)' = ExtensionLength(CopyBasic(k))
    BY <1>4 DEF KnownByte, ExtensionLength, FrameOf
  <1>6. \/ mState' = "basic" /\ needed' \in Nat /\ failed' \in BOOLEAN
        \/ mState' = "extended" /\ needed' = ExtensionLength(CopyBasic(k)) /\ failed' = failed
    <2>1. CASE needed > k
      <3>1. needed' = needed - k /\ UNCHANGED <<mState, failed>>
        BY <2>1 DEF ReadBasicHeader
      <3> QED BY <1>1, <2>1, <3>1 DEF BytesInv
    <2>2. CASE ~(needed > k)
      <3>1. CASE ValidBasicHeader(CopyBasic(k))
        BY <1>1, <2>2, <3>1 DEF ReadBasicHeader
      <3>2. CASE ~ValidBasicHeader(CopyBasic(k))
        <4>1. failed' = TRUE /\ needed' = 0 /\ UNCHANGED <<mState, extended>>
          BY <2>2, <3>2 DEF ReadBasicHeader
        <4> QED BY <1>1, <4>1
      <3> QED BY <3>1, <3>2
    <2> QED BY <2>1, <2>2
  <1>7. BytesInv'
    BY <1>2, <1>3, <1>4, <1>5, <1>6, EmptySeq DEF BytesInv, Partial
  <1>8. HeaderInv'
    BY <1>3, <1>4, <1>5, <1>6, EmptySeq DEF HeaderInv
  <1>9. ReserveInv'
    BY <1>4, <1>6 DEF ReserveInv, NoneIsHuge
  <1> QED BY <1>7, <1>8, <1>9

\* The choice of the message, which reserves the size that is announced.
LEMMA ChooseInv ==
  ASSUME FramesInv, NEW size \in Nat, ChooseMessage(size), UNCHANGED sent
  PROVE  /\ data' \in Partial("text") /\ control' \in Partial("control")
         /\ current' \in {"data", "control"} /\ failed' \in BOOLEAN
         /\ NoneIsHuge /\ size < WordSize - MaxMessageSize =>
              /\ Len(data'.payload) <= MaxMessageSize
              /\ current' = "data" /\ ~failed' => Len(data'.payload) + size <= MaxMessageSize
  <1> USE DEF FramesInv
  <1> DEFINE Small == NoneIsHuge /\ size < WordSize - MaxMessageSize
  <1>1. /\ data \in Partial("text") /\ control \in Partial("control")
        /\ current \in {"data", "control"} /\ failed \in BOOLEAN
        /\ Len(data.payload) \in Nat
        /\ Small => Len(data.payload) <= MaxMessageSize
    BY LenProperties DEF BytesInv, ReserveInv, Partial
  <1>2. \A op : Message(op) \in Partial(op) /\ Len(Message(op).payload) = 0
    BY EmptySeq DEF Message, Partial
  <1>3. CASE Opcode(basic) = "control"
    BY <1>1, <1>2, <1>3 DEF ChooseMessage
  <1>4. CASE Opcode(basic) # "control" /\ SizeSum(Len(data.payload), size) > MaxMessageSize
    BY <1>1, <1>4 DEF ChooseMessage, messages
  <1>5. CASE Opcode(basic) # "control" /\ ~(SizeSum(Len(data.payload), size) > MaxMessageSize)
    <2>1. Small => Len(data.payload) + size <= MaxMessageSize
      <3> SUFFICES ASSUME Small PROVE Len(data.payload) + size <= MaxMessageSize
        OBVIOUS
      <3>1. Len(data.payload) + size < WordSize
        BY <1>1, FramesAssumption
      <3>2. SizeSum(Len(data.payload), size) = Len(data.payload) + size
        BY <1>1, <3>1, SizeSumFacts
      <3> QED BY <1>1, <1>5, <3>2, FramesAssumption
    <2>2. /\ data' = IF data = NoMessage THEN Message("text") ELSE data
          /\ current' = "data" /\ UNCHANGED <<control, failed>>
      BY <1>5 DEF ChooseMessage
    <2>3. Small => size <= MaxMessageSize
      BY <1>1, <2>1, FramesAssumption
    <2>4. CASE data = NoMessage
      BY <1>1, <1>2, <2>1, <2>2, <2>3, <2>4, FramesAssumption
    <2>5. CASE data # NoMessage
      BY <1>1, <2>1, <2>2, <2>5
    <2> QED BY <2>4, <2>5
  <1> QED BY <1>3, <1>4, <1>5

\* A part of the extended header, or the whole, which may be nothing.
LEMMA ReadExtendedInv ==
  ASSUME FramesInv, NEW k \in 0..BufferSize, ReadExtendedHeader(k)
  PROVE  FramesInv'
  <1> USE DEF FramesInv
  <1>1. /\ k \in 0..Len(buffer) /\ k <= needed /\ k \in Nat /\ needed \in Nat
        /\ mState = "extended" /\ Len(extended) + needed = ExtensionLength(basic)
    BY LenProperties DEF ReadExtendedHeader, Smaller, BytesInv, HeaderInv
  <1>2. buffer' \in Seq(KnownByte)
    BY <1>1, TakeFacts DEF ReadExtendedHeader, Take, BytesInv
  <1> DEFINE e == extended \o Taken(k)
  <1>3. e \in Seq(KnownByte) /\ Len(e) = Len(extended) + k
    <2>1. Taken(k) \in Seq(KnownByte) /\ Len(Taken(k)) = k
      BY <1>1, TakeFacts DEF Taken, BytesInv
    <2>2. extended \in Seq(KnownByte)
      BY DEF BytesInv
    <2> QED BY <2>1, <2>2, ConcatProperties
  <1>4. /\ UNCHANGED <<sent, socket, basic>> /\ extended' = e
    BY DEF ReadExtendedHeader
  <1>5. KnownByte' = KnownByte /\ ExtensionLength(basic)' = ExtensionLength(basic)
    BY <1>4 DEF KnownByte, ExtensionLength, FrameOf
  <1>6. Len(extended) \in Nat
    BY LenProperties DEF BytesInv
  <1>7. CASE needed > k \/ ~ValidExtendedHeader(basic, e)
    <2>1. UNCHANGED <<data, control, current>> /\ mState' = "extended" /\ failed' \in BOOLEAN
      BY <1>1, <1>7 DEF ReadExtendedHeader, messages, BytesInv
    <2>2. needed' \in Nat /\ Len(e) + needed' = ExtensionLength(basic)
      <3>1. CASE needed > k
        <4>1. needed' = needed - k
          BY <3>1 DEF ReadExtendedHeader
        <4> QED BY <1>1, <1>3, <1>6, <3>1, <4>1
      <3>2. CASE ~(needed > k)
        <4>1. needed' = 0
          BY <1>7, <3>2 DEF ReadExtendedHeader
        <4>2. k = needed
          BY <1>1, <3>2
        <4> QED BY <1>1, <1>3, <1>6, <4>1, <4>2
      <3> QED BY <3>1, <3>2
    <2>3. BytesInv'
      BY <1>2, <1>3, <1>4, <1>5, <2>1, <2>2 DEF BytesInv, Partial
    <2> QED BY <1>4, <1>5, <2>1, <2>2, <2>3 DEF HeaderInv, ReserveInv, NoneIsHuge
  <1>8. CASE ~(needed > k) /\ ValidExtendedHeader(basic, e)
    <2>1. Len(e) = ExtensionLength(basic)
      BY <1>1, <1>3, <1>6, <1>8
    <2> DEFINE size == PayloadSize(basic, e)
    <2>2. size \in Nat
      BY <1>3, <2>1, PayloadSizeType DEF BytesInv
    <2>3. mState' = "application" /\ needed' = size /\ ChooseMessage(size)
      BY <1>8 DEF ReadExtendedHeader
    <2>4. /\ data' \in Partial("text") /\ control' \in Partial("control")
          /\ current' \in {"data", "control"} /\ failed' \in BOOLEAN
          /\ NoneIsHuge =>
               /\ Len(data'.payload) <= MaxMessageSize
               /\ current' = "data" /\ ~failed' => Len(data'.payload) + size <= MaxMessageSize
      <3>1. NoneIsHuge => size < WordSize - MaxMessageSize
        BY <1>3, <2>1, SmallSize DEF BytesInv
      <3> HIDE DEF size
      <3> QED BY <1>4, <2>2, <2>3, <3>1, ChooseInv
    <2>5. BytesInv'
      BY <1>2, <1>3, <1>4, <1>5, <2>2, <2>3, <2>4 DEF BytesInv, Partial
    <2> QED BY <1>4, <1>5, <2>1, <2>3, <2>4, <2>5 DEF HeaderInv, ReserveInv, NoneIsHuge
  <1> QED BY <1>7, <1>8
\* The payload grows by what is taken from the reserve.
LEMMA AppendInv ==
  ASSUME FramesInv, NEW k \in 0..Len(buffer), k <= needed, AppendPayload(k),
         mState = "application", ~failed, UNCHANGED sent
  PROVE  /\ data' \in Partial("text") /\ control' \in Partial("control")
         /\ current' = current
         /\ NoneIsHuge =>
              /\ Len(data'.payload) <= MaxMessageSize
              /\ current = "data" => Len(data'.payload) + (needed - k) <= MaxMessageSize
  <1> USE DEF FramesInv
  <1>1. Taken(k) \in Seq(KnownByte) /\ Len(Taken(k)) = k
    BY TakeFacts DEF Taken, BytesInv
  <1>2. /\ data \in Partial("text") /\ control \in Partial("control")
        /\ Len(data.payload) \in Nat /\ needed \in Nat /\ k \in Nat
        /\ NoneIsHuge =>
             /\ Len(data.payload) <= MaxMessageSize
             /\ current = "data" => Len(data.payload) + needed <= MaxMessageSize
    BY LenProperties DEF BytesInv, ReserveInv, Partial
  <1>3. CASE current = "data"
    <2>1. /\ data' = [data EXCEPT !.payload = @ \o Taken(k)]
          /\ UNCHANGED <<control, current>>
      BY <1>3 DEF AppendPayload
    <2>2. /\ data.payload \o Taken(k) \in Seq(KnownByte)
          /\ Len(data.payload \o Taken(k)) = Len(data.payload) + k
      <3>1. data.payload \in Seq(KnownByte)
        BY <1>2 DEF Partial
      <3> QED BY <1>1, <3>1, ConcatProperties
    <2>3. data' \in Partial("text") /\ data'.payload = data.payload \o Taken(k)
      BY <1>2, <2>1, <2>2 DEF Partial
    <2>4. Len(data'.payload) = Len(data.payload) + k
      BY <2>2, <2>3
    <2> QED BY <1>2, <1>3, <2>1, <2>3, <2>4, FramesAssumption
  <1>4. CASE current # "data"
    <2>1. /\ control' = [control EXCEPT !.payload = @ \o Taken(k)]
          /\ UNCHANGED <<data, current>>
      BY <1>4 DEF AppendPayload
    <2>2. control.payload \o Taken(k) \in Seq(KnownByte)
      <3>1. control.payload \in Seq(KnownByte)
        BY <1>2 DEF Partial
      <3> QED BY <1>1, <3>1, ConcatProperties
    <2>3. control' \in Partial("control")
      BY <1>2, <2>1, <2>2 DEF Partial
    <2> QED BY <1>2, <1>4, <2>1, <2>3
  <1> QED BY <1>3, <1>4

\* A part of the payload, or the rest, which may be nothing.
LEMMA ReadPayloadInv ==
  ASSUME FramesInv, NEW k \in 0..BufferSize, ReadPayload(k)
  PROVE  FramesInv'
  <1> USE DEF FramesInv
  <1>1. /\ k \in 0..Len(buffer) /\ k <= needed /\ k \in Nat /\ needed \in Nat
        /\ mState = "application" /\ ~failed /\ Len(extended) = ExtensionLength(basic)
    BY LenProperties DEF ReadPayload, Consuming, Smaller, BytesInv, HeaderInv
  <1>2. buffer' \in Seq(KnownByte)
    BY <1>1, TakeFacts DEF ReadPayload, Take, BytesInv
  <1>3. UNCHANGED <<sent, socket>> /\ AppendPayload(k)
    BY DEF ReadPayload
  <1>4. /\ data' \in Partial("text") /\ control' \in Partial("control")
        /\ current' = current
        /\ NoneIsHuge =>
             /\ Len(data'.payload) <= MaxMessageSize
             /\ current = "data" => Len(data'.payload) + (needed - k) <= MaxMessageSize
    BY <1>1, <1>3, AppendInv
  <1>5. KnownByte' = KnownByte
    BY <1>3 DEF KnownByte
  <1>6. \/ /\ mState' \in {"application", "ready"} /\ UNCHANGED <<basic, extended>>
           /\ failed' \in BOOLEAN
           /\ failed' \/ mState' = "ready" \/ needed' = needed - k
           /\ needed' \in Nat
        \/ reset_headers /\ failed' = failed
    <2>1. CASE ~ValidPayload(k)
      BY <1>1, <2>1 DEF ReadPayload, header
    <2>2. CASE ValidPayload(k) /\ needed > k
      <3>1. needed' = needed - k /\ UNCHANGED <<mState, header, failed>>
        BY <2>2 DEF ReadPayload
      <3> QED BY <1>1, <2>2, <3>1 DEF header, BytesInv
    <2>3. CASE ValidPayload(k) /\ ~(needed > k)
      <3>1. EndFrame(k)
        BY <2>3 DEF ReadPayload
      <3>2. CASE ~Fin(basic)
        BY <3>1, <3>2 DEF EndFrame
      <3>3. CASE Fin(basic) /\ ValidEnd(k)
        <4>1. mState' = "ready" /\ needed' = 0 /\ UNCHANGED <<header, failed>>
          BY <3>1, <3>3 DEF EndFrame
        <4> QED BY <1>1, <4>1 DEF header, BytesInv
      <3>4. CASE Fin(basic) /\ ~ValidEnd(k)
        <4>1. failed' = TRUE /\ needed' = 0 /\ UNCHANGED <<mState, header>>
          BY <3>1, <3>4 DEF EndFrame
        <4> QED BY <1>1, <4>1 DEF header
      <3> QED BY <3>2, <3>3, <3>4
    <2> QED BY <2>1, <2>2, <2>3
  <1>7. CASE /\ mState' \in {"application", "ready"} /\ UNCHANGED <<basic, extended>>
             /\ failed' \in BOOLEAN
             /\ failed' \/ mState' = "ready" \/ needed' = needed - k
             /\ needed' \in Nat
    <2>1. ExtensionLength(basic)' = ExtensionLength(basic)
      BY <1>3, <1>7 DEF ExtensionLength, FrameOf
    <2>2. BytesInv'
      BY <1>2, <1>3, <1>4, <1>5, <1>7 DEF BytesInv, Partial
    <2> QED BY <1>1, <1>3, <1>4, <1>7, <2>1, <2>2 DEF HeaderInv, ReserveInv, NoneIsHuge
  <1>8. CASE reset_headers /\ failed' = failed
    <2>1. BytesInv'
      BY <1>2, <1>3, <1>4, <1>5, <1>8, ResetInv DEF BytesInv, Partial
    <2> QED BY <1>3, <1>4, <1>8, <2>1, ResetInv DEF HeaderInv, ReserveInv, NoneIsHuge
  <1> QED BY <1>6, <1>7, <1>8

\* A message is handed on, and its place is free again.
LEMMA GetMessageInv ==
  ASSUME FramesInv, get_message
  PROVE  FramesInv'
  <1> USE DEF FramesInv
  <1>1. UNCHANGED <<sent, socket, buffer, current, failed>> /\ reset_headers
    BY DEF get_message
  <1>2. KnownByte' = KnownByte
    BY <1>1 DEF KnownByte
  <1>3. \A op : NoMessage \in Partial(op) /\ Len(NoMessage.payload) = 0
    BY EmptySeq DEF NoMessage, Partial
  <1>4. /\ data' \in Partial("text") /\ control' \in Partial("control")
        /\ NoneIsHuge => Len(data'.payload) <= MaxMessageSize
    BY <1>3, FramesAssumption DEF get_message, BytesInv, ReserveInv
  <1>5. BytesInv'
    BY <1>1, <1>2, <1>4, ResetInv DEF BytesInv, Partial
  <1> QED BY <1>1, <1>4, <1>5, ResetInv DEF HeaderInv, ReserveInv, NoneIsHuge

-----------------------------------------------------------------------------
LEMMA InvHolds == Spec => []FramesInv
  <1>1. FramesInv /\ [Next]_vars => FramesInv'
    <2> SUFFICES ASSUME FramesInv, [Next]_vars PROVE FramesInv'
      OBVIOUS
    <2>1. CASE UNCHANGED vars
      BY <2>1 DEF vars, header, messages, FramesInv, BytesInv, HeaderInv, ReserveInv,
                  NoneIsHuge, KnownByte, Partial, ExtensionLength, FrameOf
    <2>2. CASE Next
      BY <2>2, PeerSendsInv, ReadInv, ReadBasicInv, ReadExtendedInv, ReadPayloadInv,
         GetMessageInv DEF Next, Consume
    <2> QED BY <2>1, <2>2
  <1> QED BY <1>1, InitInv, PTL DEF Spec

\* The parser's fields keep their types, and the extended header has at most
\* the eight bytes there is room for.
THEOREM FramesTypeCorrect == Spec => []FramesTypeOK
  <1>1. FramesInv => FramesTypeOK
    <2> SUFFICES ASSUME FramesInv PROVE FramesTypeOK
      OBVIOUS
    <2>1. BytesInv /\ HeaderInv
      BY DEF FramesInv
    <2>2. \A n \in 1..Len(sent) : sent[n] \in PeerFrames
      BY <2>1, ElementOfSeq DEF BytesInv
    <2>3. Len(basic) = 2
      BY <2>1, FunctionIsSeq DEF BytesInv
    <2>4. Len(extended) <= 8
      <3>1. ExtensionLength(basic) \in {0, 2, 8}
        BY <2>1, ExtensionType DEF BytesInv
      <3>2. Len(extended) \in Nat /\ needed \in Nat
        BY <2>1, LenProperties DEF BytesInv
      <3>3. mState = "basic" => Len(extended) = 0
        BY <2>1, EmptySeq DEF HeaderInv
      <3> QED BY <2>1, <3>1, <3>2, <3>3 DEF BytesInv, HeaderInv
    <2> QED BY <2>1, <2>2, <2>3, <2>4 DEF FramesTypeOK, BytesInv, Partial
  <1> QED BY <1>1, InvHolds, PTL

\* No message grows beyond the limit, in however many frames and reads it
\* comes, as long as no frame is so long that its size added to that of a
\* message within the limit wraps.
THEOREM SizeLimited == Spec => []SmallFramesMeetLimit
  <1>1. FramesInv => SmallFramesMeetLimit
    BY DEF FramesInv, ReserveInv, SmallFramesMeetLimit
  <1> QED BY <1>1, InvHolds, PTL

-----------------------------------------------------------------------------
(* The place of the parser in the stream.                                   *)

\* The frames that were sent, and their bytes that are not taken yet.
LEMMA SentFacts ==
  ASSUME FramesInv
  PROVE  /\ sent \in Seq(PeerFrames) /\ Len(sent) \in Nat
         /\ buffer \in Seq(KnownByte) /\ socket \in Seq(KnownByte)
         /\ Rest \in Seq(KnownByte) /\ Len(Rest) = Len(buffer) + Len(socket)
         /\ Len(buffer) \in Nat /\ Len(Rest) \in Nat
         /\ \A p \in 1..Len(sent) :
              /\ sent[p] \in PeerFrames /\ sent[p].fin \in BOOLEAN
              /\ Len(sent[p].payload) \in Nat /\ sent[p].ext \in {0, 2, 8}
              /\ FrameLength(sent[p]) = 2 + sent[p].ext + Len(sent[p].payload)
              /\ sent[p].op \in Opcodes
  <1>1. /\ sent \in Seq(PeerFrames) /\ buffer \in Seq(KnownByte) /\ socket \in Seq(KnownByte)
    BY DEF FramesInv, BytesInv
  <1>2. \A p \in 1..Len(sent) : sent[p] \in PeerFrames
    BY <1>1, ElementOfSeq
  <1>3. /\ Rest \in Seq(KnownByte) /\ Len(Rest) = Len(buffer) + Len(socket)
    BY <1>1, ConcatFacts DEF Rest
  <1> QED BY <1>1, <1>2, <1>3, FrameFacts, LenProperties

\* A step that sends nothing changes nothing of what the frames mean.
LEMMA StillFacts ==
  ASSUME UNCHANGED sent
  PROVE  \A n : /\ Messages(n)' = Messages(n) /\ DataUpTo(n)' = DataUpTo(n)
                /\ Good(n)' <=> Good(n)
                /\ Open(n)' <=> Open(n)
                /\ Pending(n)' = Pending(n) /\ Base(n)' = Base(n)
  <1>1. \A n : Messages(n)' = Messages(n) /\ DataUpTo(n)' = DataUpTo(n)
    BY DEF Messages, DataUpTo
  <1>2. \A n : Open(n)' <=> Open(n)
    BY DEF Open
  <1>3. \A n : Pending(n)' = Pending(n) /\ Base(n)' = Base(n)
    BY <1>1, <1>2 DEF Pending, Base
  <1>4. \A n : Good(n)' <=> Good(n)
    <2> TAKE n
    <2>1. WellFormed(DataUpTo(n))' <=> WellFormed(DataUpTo(n))
      BY <1>1, SMTT(30) DEF WellFormed, Code, FrameOf
    <2>2. Complete(DataUpTo(n))' <=> Complete(DataUpTo(n))
      BY <1>1, SMTT(30) DEF Complete, Code, FrameOf
    <2> QED BY <1>1, <1>2, <2>1, <2>2 DEF Good, IsData, GoodSize
  <1> QED BY <1>1, <1>2, <1>3, <1>4

\* What the frames mean that were sent: as MessagesOf and DataOf compute it.
LEMMA MeaningFacts ==
  ASSUME FramesInv
  PROVE  /\ Messages(0) = <<>> /\ DataUpTo(0) = <<>>
         /\ \A n \in 0..Len(sent) : /\ DataUpTo(n) \in Seq(KnownByte)
                                    /\ Messages(n) \in Seq(MessageType(sent))
         /\ \A n \in 1..Len(sent) :
              Messages(n) = IF sent[n].fin THEN Append(Messages(n - 1), MessageOf(sent, n))
                            ELSE Messages(n - 1)
         /\ \A n \in 1..Len(sent) :
              DataUpTo(n) = IF ~IsData(sent[n]) THEN DataUpTo(n - 1)
                            ELSE IF sent[n].op = "text" THEN Payload(n, sent[n])
                            ELSE DataUpTo(n - 1) \o Payload(n, sent[n])
  <1>1. sent \in Seq(PeerFrames) /\ KnownByte = BytesOf(sent)
    BY SentFacts DEF KnownByte, BytesOf
  <1>2. /\ DataUpTo(0) = <<>> /\ \A n \in 0..Len(sent) : DataUpTo(n) \in Seq(KnownByte)
        /\ \A n \in 1..Len(sent) :
              DataUpTo(n) = IF ~IsData(sent[n]) THEN DataUpTo(n - 1)
                            ELSE IF sent[n].op = "text" THEN Payload(n, sent[n])
                            ELSE DataUpTo(n - 1) \o Payload(n, sent[n])
    BY <1>1, DataFacts DEF DataUpTo
  <1>3. /\ Messages(0) = <<>> /\ \A n \in 0..Len(sent) : Messages(n) \in Seq(MessageType(sent))
        /\ \A n \in 1..Len(sent) :
              Messages(n) = IF sent[n].fin THEN Append(Messages(n - 1), MessageOf(sent, n))
                            ELSE Messages(n - 1)
    BY <1>1, MessagesFacts DEF Messages
  <1> QED BY <1>2, <1>3

\* One frame more does not change what the others mean.
LEMMA SendFacts ==
  ASSUME FramesInv, NEW f \in PeerFrames, PeerSends(f)
  PROVE  /\ Len(sent') = Len(sent) + 1 /\ sent'[Len(sent) + 1] = f
         /\ \A n \in 1..Len(sent) : sent'[n] = sent[n]
         /\ \A n \in 0..Len(sent) : Messages(n)' = Messages(n) /\ DataUpTo(n)' = DataUpTo(n)
         /\ \A n \in 1..Len(sent) : (Good(n)' <=> Good(n)) /\ MessageOf(sent', n) = MessageOf(sent, n)
         /\ \A n \in 1..(Len(sent) + 1) : (Open(n)' <=> Open(n)) /\ Pending(n)' = Pending(n)
                                          /\ Base(n)' = Base(n)
  <1> DEFINE N == Len(sent)
  <1>1. N \in Nat /\ sent \in Seq(PeerFrames) /\ sent' = Append(sent, f)
    BY SentFacts DEF PeerSends
  <1>2. /\ Len(sent') = N + 1 /\ sent'[N + 1] = f
        /\ \A n \in 1..N : sent'[n] = sent[n]
        /\ \A n \in 0..N : DataOf(sent')[n] = DataOf(sent)[n]
        /\ \A n \in 0..N : MessagesOf(sent')[n] = MessagesOf(sent)[n]
    BY <1>1, GrowFacts
  <1>3. \A n \in 0..N : Messages(n)' = Messages(n) /\ DataUpTo(n)' = DataUpTo(n)
    BY <1>2 DEF Messages, DataUpTo
  <1>4. \A n \in 1..N : MessageOf(sent', n) = MessageOf(sent, n)
    BY <1>1, <1>2 DEF MessageOf
  <1>5. \A n \in 1..(N + 1) : Open(n)' <=> Open(n)
    <2> TAKE n \in 1..(N + 1)
    <2>1. \A i \in 1..(n - 1) : i \in 1..N /\ sent'[i] = sent[i]
      BY <1>1, <1>2
    <2>2. \A i \in 1..(n - 1) : \A j \in (i + 1)..(n - 1) : j \in 1..(n - 1)
      BY <1>1
    <2> QED BY <2>1, <2>2 DEF Open
  <1>6. \A n \in 1..(N + 1) : Pending(n)' = Pending(n) /\ Base(n)' = Base(n)
    BY <1>1, <1>3, <1>5 DEF Pending, Base
  <1>7. ASSUME NEW n \in 1..N PROVE Good(n)' <=> Good(n)
    <2>1. PICK q \in Seq(KnownByte) : q = DataUpTo(n)
      BY MeaningFacts
    <2>2. /\ DataUpTo(n)' = q /\ DataUpTo(n) = q /\ n \in 1..(N + 1)
          /\ sent'[n] = sent[n] /\ (Open(n)' <=> Open(n))
      BY <1>1, <1>2, <1>3, <1>5, <2>1
    <2>3. \A i \in 1..Len(q) : q[i].frame = 0 \/ sent'[q[i].frame] = sent[q[i].frame]
      <3>1. \A i \in 1..Len(q) : q[i] \in KnownByte
        BY ElementOfSeq
      <3> QED BY <1>1, <1>2, <3>1 DEF KnownByte
    <2>4. Len(q) \in Nat
      BY LenProperties
    <2>5. WellFormed(DataUpTo(n))' <=> WellFormed(DataUpTo(n))
      <3>1. PICK C : C = [i \in 1..Len(q) |-> Code(q[i])]
        OBVIOUS
      <3>2. \A i \in 1..Len(q) : Code(q[i]) = C[i]
        BY <3>1
      <3>3. \A i \in 1..Len(q) : Code(q[i])' = C[i]
        BY <2>3, <3>2 DEF Code, FrameOf
      <3>4. WellFormed(DataUpTo(n)) <=>
              \A i \in 1..Len(q) : C[i] = "trail" <=> i > 1 /\ C[i - 1] = "lead"
        BY <2>2, <2>4, <3>2 DEF WellFormed
      <3>5. WellFormed(q)' <=>
              \A i \in 1..Len(q) : C[i] = "trail" <=> i > 1 /\ C[i - 1] = "lead"
        BY <2>4, <3>3 DEF WellFormed
      <3>6. WellFormed(DataUpTo(n))' <=> WellFormed(q)'
        BY <2>2 DEF WellFormed, Code, FrameOf
      <3> QED BY <3>4, <3>5, <3>6
    <2>6. Complete(DataUpTo(n))' <=> Complete(DataUpTo(n))
      <3>1. q # <<>> => Len(q) \in 1..Len(q)
        BY <2>4
      <3> QED BY <2>2, <2>3, <3>1 DEF Complete, Code, FrameOf, Last
    <2> QED BY <2>2, <2>5, <2>6 DEF Good, IsData, GoodSize
  <1> QED BY <1>2, <1>3, <1>4, <1>5, <1>6, <1>7

\* Whether a message is open after frame p, and its bytes.
LEMMA OpenFacts ==
  ASSUME FramesInv, NEW p \in 1..Len(sent)
  PROVE  Open(p + 1) <=> IF IsData(sent[p]) THEN ~sent[p].fin ELSE Open(p)
  <1>1. p \in Nat /\ (p + 1) - 1 = p
    BY SentFacts
  <1>2. ASSUME IsData(sent[p]) PROVE Open(p + 1) <=> ~sent[p].fin
    <2>1. ASSUME ~sent[p].fin PROVE Open(p + 1)
      <3>1. \A j \in (p + 1)..p : ~IsData(sent[j])
        BY <1>1
      <3> QED BY <1>1, <1>2, <2>1, <3>1 DEF Open
    <2>2. ASSUME Open(p + 1) PROVE ~sent[p].fin
      <3>1. PICK i \in 1..p : ~sent[i].fin /\ \A j \in (i + 1)..p : ~IsData(sent[j])
        BY <1>1, <2>2 DEF Open
      <3>2. i = p
        BY <1>1, <1>2, <3>1
      <3> QED BY <3>1, <3>2
    <2> QED BY <2>1, <2>2
  <1>3. ASSUME ~IsData(sent[p]) PROVE Open(p + 1) <=> Open(p)
    <2>1. ASSUME Open(p) PROVE Open(p + 1)
      <3>1. PICK i \in 1..(p - 1) : /\ IsData(sent[i]) /\ ~sent[i].fin
                                   /\ \A j \in (i + 1)..(p - 1) : ~IsData(sent[j])
        BY <2>1 DEF Open
      <3>2. i \in 1..p /\ \A j \in (i + 1)..p : ~IsData(sent[j])
        BY <1>1, <1>3, <3>1
      <3> QED BY <1>1, <3>1, <3>2 DEF Open
    <2>2. ASSUME Open(p + 1) PROVE Open(p)
      <3>1. PICK i \in 1..p : /\ IsData(sent[i]) /\ ~sent[i].fin
                             /\ \A j \in (i + 1)..p : ~IsData(sent[j])
        BY <1>1, <2>2 DEF Open
      <3>2. i \in 1..(p - 1)
        BY <1>1, <1>3, <3>1
      <3>3. \A j \in (i + 1)..(p - 1) : ~IsData(sent[j])
        BY <1>1, <3>1, <3>2
      <3> QED BY <3>1, <3>2, <3>3 DEF Open
    <2> QED BY <2>1, <2>2
  <1> QED BY <1>2, <1>3

\* The data message after a frame with a good header.
LEMMA PendingFacts ==
  ASSUME FramesInv, NEW p \in 1..Len(sent), GoodHeader(sent[p], Open(p))
  PROVE  /\ IsData(sent[p]) <=> sent[p].op # "control"
         /\ Base(p) \in Seq(KnownByte)
         /\ data = Pending(p) => (data = NoMessage <=> ~Open(p)) /\ data.payload = Base(p)
         /\ Payload(p, sent[p]) \in Seq(KnownByte)
         /\ Len(Payload(p, sent[p])) = Len(sent[p].payload)
         /\ sent[p].op = "control" => Pending(p + 1) = Pending(p)
         /\ sent[p].op # "control" =>
              /\ DataUpTo(p) = Base(p) \o Payload(p, sent[p])
              /\ Pending(p + 1) = IF sent[p].fin THEN NoMessage
                                  ELSE [op |-> "text", payload |-> DataUpTo(p)]
  <1>1. /\ p \in Nat /\ (p + 1) - 1 = p /\ p - 1 \in 0..Len(sent) /\ Len(sent) \in Nat
        /\ sent[p] \in PeerFrames /\ sent[p].op \in Opcodes
    BY SentFacts
  <1>2. IsData(sent[p]) <=> sent[p].op # "control"
    BY <1>1 DEF GoodHeader, IsData, Opcodes
  <1>3. Base(p) \in Seq(KnownByte)
    BY <1>1, MeaningFacts, EmptySeq DEF Base
  <1>4. /\ Payload(p, sent[p]) \in Seq(KnownByte)
        /\ Len(Payload(p, sent[p])) = Len(sent[p].payload)
    BY <1>1, PayloadFacts DEF KnownByte
  <1>5. sent[p].op = "control" => Pending(p + 1) = Pending(p)
    BY <1>1, <1>2, OpenFacts, MeaningFacts DEF Pending
  <1>6. ASSUME sent[p].op # "control"
        PROVE  DataUpTo(p) = Base(p) \o Payload(p, sent[p])
    <2>1. CASE sent[p].op = "text"
      <3>1. Base(p) = <<>> /\ DataUpTo(p) = Payload(p, sent[p])
        BY <1>2, <2>1, MeaningFacts DEF GoodHeader, Base
      <3> QED BY <1>4, <3>1
    <2>2. CASE sent[p].op = "continuation"
      <3>1. Base(p) = DataUpTo(p - 1)
        BY <2>2 DEF GoodHeader, Base
      <3> QED BY <1>2, <1>6, <2>2, <3>1, MeaningFacts
    <2> QED BY <1>2, <1>6, <2>1, <2>2 DEF IsData
  <1>7. sent[p].op # "control" =>
          Pending(p + 1) = IF sent[p].fin THEN NoMessage
                           ELSE [op |-> "text", payload |-> DataUpTo(p)]
    BY <1>1, <1>2, OpenFacts DEF Pending
  <1>8. data = Pending(p) => (data = NoMessage <=> ~Open(p)) /\ data.payload = Base(p)
    BY DEF Pending, Base, NoMessage
  <1> QED BY <1>2, <1>3, <1>4, <1>5, <1>6, <1>7, <1>8

\* A text that begins well did so as far as it had come.
LEMMA PrefixWellFormed ==
  ASSUME NEW q, NEW n \in Nat, NEW t, Len(t) \in Nat, Len(t) <= Len(q), Len(q) \in Nat,
         \A i \in 1..Len(t) : t[i] = q[i], WellFormed(q)
  PROVE  WellFormed(t)
  BY DEF WellFormed

\* What is taken inside a frame are its next bytes.
LEMMA TakeFlow ==
  ASSUME FramesInv, Flows, NEW p \in 1..Len(sent), NEW c \in Nat,
         NextByte = After(sent, p, c),
         NEW k \in 0..Len(buffer), c + k <= FrameLength(sent[p]),
         Take(k), UNCHANGED <<sent, socket>>
  PROVE  /\ Flows' /\ NextByte' = After(sent, p, c + k)
         /\ Taken(k) \in Seq(KnownByte) /\ Len(Taken(k)) = k
         /\ \A i \in 1..k : Taken(k)[i] = ByteOf(p, c + i) /\ buffer[i] = ByteOf(p, c + i)
  <1> DEFINE F == FrameLength(sent[p])
  <1>1. /\ sent \in Seq(PeerFrames) /\ Rest \in Seq(KnownByte) /\ k \in 0..Len(Rest)
        /\ buffer \in Seq(KnownByte) /\ socket \in Seq(KnownByte)
        /\ k \in Nat /\ Len(Rest) \in Nat
    BY SentFacts
  <1>2. F \in Nat
    BY <1>1, LengthFacts
  <1> HIDE DEF F
  <1>3. c \in 0..F /\ \A i \in 0..k : c + i <= F
    BY <1>1, <1>2 DEF F
  <1>4. Rest' = SubSeq(Rest, k + 1, Len(Rest))
    BY <1>1, DropFacts DEF Rest, Take
  <1>5. Flows' /\ NextByte' = ByteAt(sent, Rest, k + 1)
    BY <1>1, <1>4, DropFlow DEF Flows, NextByte
  <1>6. /\ Taken(k) \in Seq(KnownByte) /\ Len(Taken(k)) = k
        /\ \A i \in 1..k : Taken(k)[i] = buffer[i] /\ Rest[i] = buffer[i]
    BY <1>1 DEF Taken, Rest
  <1>7. \A i \in 0..k : /\ ByteAt(sent, Rest, i + 1) = After(sent, p, c + i)
                        /\ i >= 1 => Rest[i] = ByteOf(p, c + i)
    <2>1. \A i \in 0..Len(Rest) : c + i <= F =>
            /\ ByteAt(sent, Rest, i + 1) = After(sent, p, c + i)
            /\ i >= 1 => Rest[i] = ByteOf(p, c + i)
      BY <1>1, <1>3, RunFacts DEF Flows, NextByte, F
    <2> TAKE i \in 0..k
    <2>2. i \in 0..Len(Rest) /\ c + i <= F
      BY <1>1, <1>3
    <2> QED BY <2>1, <2>2
  <1> QED BY <1>1, <1>5, <1>6, <1>7

\* What the bytes of a header say.
LEMMA HeaderFacts ==
  ASSUME FramesInv, NEW p \in 1..Len(sent), NEW b, b[1] = ByteOf(p, 1), b[2] = ByteOf(p, 2)
  PROVE  /\ Fin(b) = sent[p].fin /\ Opcode(b) = sent[p].op /\ ExtensionLength(b) = sent[p].ext
         /\ \A e : (sent[p].ext > 0 => e[1] = ByteOf(p, 3)) =>
              PayloadSize(b, e) = Len(sent[p].payload)
  <1>1. p # 0 /\ sent[p].ext \in {0, 2, 8}
    BY SentFacts
  <1>2. \A i : FrameOf(ByteOf(p, i)) = sent[p]
    BY <1>1 DEF FrameOf, ByteOf
  <1>3. Fin(b) = sent[p].fin /\ Opcode(b) = sent[p].op /\ ExtensionLength(b) = sent[p].ext
    BY <1>2 DEF Fin, Opcode, ExtensionLength
  <1> QED BY <1>1, <1>2, <1>3 DEF PayloadSize

\* The parser fails at a frame that is wrong.
LEMMA Fails ==
  ASSUME FramesInv, NEW p \in 1..Len(sent), Done(p), ~Good(p), failed', UNCHANGED <<sent, out>>
  PROVE  ParseInv'
  BY StillFacts DEF ParseInv, FailsAtBadFrame, Done

\* The parser goes on, in the same frame or the next.
LEMMA Proceeds ==
  ASSUME FramesInv, NEW p \in 1..(Len(sent) + 1), Done(p)', Flows', ~failed', UNCHANGED sent,
         InBasic(p)' \/ InExtended(p)' \/ InPayload(p)' \/ InReady(p)'
  PROVE  ParseInv'
  BY DEF ParseInv, FailsAtBadFrame, Position

\* What is done stays done.
LEMMA DoneStill ==
  ASSUME NEW p, Done(p), UNCHANGED <<sent, out>>
  PROVE  Done(p)'
  BY StillFacts DEF Done

\* At first the parser waits for frame 1.
LEMMA InitParse == Init => ParseInv
  <1> SUFFICES ASSUME Init PROVE ParseInv
    OBVIOUS
  <1>1. FramesInv /\ ~failed /\ Len(sent) = 0
    BY InitInv DEF Init
  <1>2. Rest = <<>> /\ Len(Rest) = 0
    BY DEF Init, Rest
  <1>3. Flows
    BY <1>2 DEF Flows, Flow
  <1>4. NextByte = ByteOf(1, 1)
    BY <1>1, <1>2 DEF NextByte, ByteAt
  <1>5. ~Open(1) /\ Pending(1) = NoMessage
    BY DEF Open, Pending
  <1>6. Done(1)
    BY <1>1, MeaningFacts DEF Done, Init
  <1>7. InBasic(1)
    BY <1>4, <1>5 DEF InBasic, Init, HeaderLength, After
  <1> QED BY <1>1, <1>3, <1>6, <1>7 DEF ParseInv, Position, FailsAtBadFrame

\* A read leaves the bytes that are not taken as they were.
LEMMA ReadParse ==
  ASSUME FramesInv, ParseInv, NEW n \in 1..BufferSize, handle_read_frame(n)
  PROVE  ParseInv'
  <1>1. UNCHANGED <<sent, mState, needed, basic, extended, data, control, current, failed, out>>
    BY DEF handle_read_frame, header, messages
  <1>2. ~failed
    BY DEF handle_read_frame, Reading
  <1>3. Rest' = Rest
    <2>1. buffer = <<>> /\ socket \in Seq(KnownByte)
      BY SentFacts DEF handle_read_frame, Reading, Consuming
    <2>2. n \in 1..Len(socket)
      BY <2>1, FramesAssumption, LenProperties DEF handle_read_frame, Smaller
    <2>3. Rest = socket
      BY <2>1, ConcatEmptySeq DEF Rest
    <2>4. Rest' = SubSeq(socket, 1, n) \o SubSeq(socket, n + 1, Len(socket))
      BY DEF handle_read_frame, Rest
    <2>5. \A i \in 1..Len(SubSeq(socket, n + 1, Len(socket))) :
            SubSeq(socket, n + 1, Len(socket))[i] = socket[n + i]
      BY <2>1, <2>2
    <2>6. /\ SubSeq(socket, n + 1, Len(socket)) \in Seq(KnownByte)
          /\ n + Len(SubSeq(socket, n + 1, Len(socket))) = Len(socket)
      BY <2>1, <2>2
    <2>7. Rest' = SubSeq(socket, 1, Len(socket))
      BY <2>1, <2>2, <2>4, <2>5, <2>6, PartFacts
    <2> QED BY <2>1, <2>3, <2>7, SubSeqFull
  <1>4. PICK p \in 1..(Len(sent) + 1) : Position(p)
    BY <1>2 DEF ParseInv
  <1>5. Flows' /\ NextByte' = NextByte
    BY <1>1, <1>2, <1>3 DEF ParseInv, Flows, NextByte
  <1>6. Done(p)'
    BY <1>1, <1>4, DoneStill DEF Position
  <1>7. \A q : HeaderOf(q)' <=> HeaderOf(q)
    BY <1>1, StillFacts DEF HeaderOf, GoodHeader
  <1>8. InBasic(p)' \/ InExtended(p)' \/ InPayload(p)' \/ InReady(p)'
    <2>1. InBasic(p) => InBasic(p)'
      BY <1>1, <1>5, StillFacts DEF InBasic
    <2>2. InExtended(p) => InExtended(p)'
      BY <1>1, <1>5, <1>7, StillFacts DEF InExtended
    <2>3. InPayload(p) => InPayload(p)'
      BY <1>1, <1>5, <1>7, StillFacts DEF InPayload, GoodSize
    <2>4. InReady(p) => InReady(p)'
      BY <1>1, <1>5, StillFacts DEF InReady, Current
    <2> QED BY <1>4, <2>1, <2>2, <2>3, <2>4 DEF Position
  <1> QED BY <1>1, <1>2, <1>5, <1>6, <1>8, Proceeds

\* A new frame is the last of those that are still to be taken.
LEMMA SendParse ==
  ASSUME FramesInv, ParseInv, NEW f \in PeerFrames, PeerSends(f)
  PROVE  ParseInv'
  <1> DEFINE N == Len(sent)
  <1>1. /\ UNCHANGED <<buffer, mState, needed, basic, extended, data, control, current, failed, out>>
        /\ sent' = Append(sent, f) /\ socket' = socket \o Bytes(N + 1, f)
    BY DEF PeerSends, header, messages
  <1>2. N \in Nat /\ Len(sent') = N + 1
    BY SentFacts, SendFacts
  <1>3. FailsAtBadFrame'
    <2> SUFFICES ASSUME failed PROVE FailsAtBadFrame'
      BY <1>1 DEF FailsAtBadFrame
    <2>1. PICK n \in 1..N : ~Good(n) /\ out = Messages(n - 1) /\ \A m \in 1..(n - 1) : Good(m)
      BY DEF ParseInv, FailsAtBadFrame
    <2>2. n \in 1..Len(sent') /\ n - 1 \in 0..N /\ \A m \in 1..(n - 1) : m \in 1..N
      BY <1>2
    <2> QED BY <1>1, <2>1, <2>2, SendFacts DEF FailsAtBadFrame
  <1>4. ASSUME ~failed PROVE Flows' /\ \E p \in 1..(N + 2) : Position(p)'
    <2>1. PICK p \in 1..(N + 1) : Position(p)
      BY <1>4 DEF ParseInv
    <2>2. Flows' /\ NextByte' = NextByte
      <3>1. /\ sent \in Seq(PeerFrames) /\ Rest \in Seq(KnownByte)
            /\ buffer \in Seq(KnownByte) /\ socket \in Seq(KnownByte)
        BY SentFacts
      <3>2. KnownByte \subseteq Byte
        BY <1>2 DEF KnownByte, Byte
      <3>3. Rest \in Seq(Byte) /\ buffer \in Seq(Byte) /\ socket \in Seq(Byte)
        BY <3>1, <3>2, SeqMonotonic
      <3>4. Bytes(N + 1, f) \in Seq(Byte)
        <4>1. FrameLength(f) \in Nat
          BY FrameFacts
        <4>2. Bytes(N + 1, f) \in [1..FrameLength(f) -> Byte]
          BY <1>2, <4>1 DEF Bytes, Byte
        <4> QED BY <4>1, <4>2, FunctionIsSeq
      <3>5. Rest' = Rest \o Bytes(N + 1, f)
        <4> HIDE DEF N
        <4> QED BY <1>1, <3>3, <3>4, ConcatAssociative, SMTT(30) DEF Rest
      <3> QED BY <1>1, <1>4, <3>1, <3>3, <3>5, ExtendFlow DEF ParseInv, Flows, NextByte
    <2>3. Done(p)'
      <3>1. p - 1 \in 0..N /\ \A m \in 1..(p - 1) : m \in 1..N
        BY <1>2
      <3> QED BY <1>1, <2>1, <3>1, SendFacts DEF Position, Done
    <2>4. ASSUME p \in 1..N
          PROVE  /\ sent'[p] = sent[p] /\ MessageOf(sent', p) = MessageOf(sent, p)
                 /\ \A c : After(sent', p, c) = After(sent, p, c)
                 /\ p \in 1..Len(sent')
                 /\ HeaderOf(p)' <=> HeaderOf(p)
                 /\ Good(p)' <=> Good(p)
      <3>1. sent'[p] = sent[p] /\ p \in 1..Len(sent') /\ (Open(p)' <=> Open(p))
        BY <1>2, <2>4, SendFacts
      <3>2. HeaderOf(p)' <=> HeaderOf(p)
        BY <1>1, <2>4, <3>1 DEF HeaderOf, GoodHeader
      <3> QED BY <2>4, <3>1, <3>2, SendFacts DEF After
    <2>5. Pending(p)' = Pending(p) /\ Base(p)' = Base(p)
      BY SendFacts
    <2>6. InBasic(p) => InBasic(p)'
      <3>1. CASE p \in 1..N
        BY <1>1, <1>2, <2>2, <2>4, <2>5, <3>1 DEF InBasic
      <3>2. CASE p = N + 1
        <4>1. ASSUME InBasic(p) PROVE needed = 2
          BY <1>2, <3>2, <4>1 DEF InBasic
        <4>2. \A s : After(s, p, 0) = ByteOf(p, 1)
          BY DEF After
        <4> QED BY <1>1, <2>2, <2>5, <4>1, <4>2 DEF InBasic
      <3> QED BY <1>2, <3>1, <3>2
    <2>7. InExtended(p) => InExtended(p)'
      BY <1>1, <2>2, <2>4, <2>5 DEF InExtended, HeaderOf
    <2>8. InPayload(p) => InPayload(p)'
      <3> SUFFICES ASSUME InPayload(p) PROVE InPayload(p)'
        OBVIOUS
      <3>1. p \in 1..N
        BY DEF InPayload, HeaderOf
      <3> QED BY <1>1, <2>2, <2>4, <2>5, <3>1 DEF InPayload, GoodSize
    <2>9. InReady(p) => InReady(p)'
      BY <1>1, <2>2, <2>4, <2>5 DEF InReady, Current
    <2> QED BY <1>2, <2>1, <2>2, <2>3, <2>6, <2>7, <2>8, <2>9 DEF Position
  <1> QED BY <1>1, <1>2, <1>3, <1>4 DEF ParseInv

\* A part of the plain header, or the whole.
LEMMA BasicParse ==
  ASSUME FramesInv, ParseInv, NEW k \in 0..BufferSize, ReadBasicHeader(k)
  PROVE  ParseInv'
  <1> DEFINE N == Len(sent)
  <1>1. /\ mState = "basic" /\ ~failed /\ k = Smaller(needed, Len(buffer)) /\ Take(k)
        /\ UNCHANGED <<sent, socket, data, control, current, out>> /\ basic' = CopyBasic(k)
    BY DEF ReadBasicHeader, Consuming, messages
  <1>2. PICK p \in 1..(N + 1) : Done(p) /\ InBasic(p) /\ Flows
    BY <1>1 DEF ParseInv, Position, InExtended, InPayload, InReady
  <1>3. /\ N \in Nat /\ Len(buffer) \in Nat /\ Len(Rest) = Len(buffer) + Len(socket)
        /\ Len(socket) \in Nat /\ p \in Nat
    BY SentFacts, LenProperties
  <1>4. PICK c \in 0..1 : c = 2 - needed
    BY <1>2 DEF InBasic
  <1>5. /\ needed = 2 - c /\ data = Pending(p) /\ NextByte = After(sent, p, c)
        /\ c = 1 => p <= N /\ basic[1] = ByteOf(p, 1)
    BY <1>2, <1>4 DEF InBasic
  <1>6. k \in 1..needed /\ k \in 1..Len(buffer)
    <2>1. needed # 0
      BY <1>4, <1>5
    <2>2. buffer # <<>>
      BY <1>1, <2>1 DEF ReadBasicHeader, Consuming
    <2>3. Len(buffer) # 0
      BY <2>2, SentFacts, EmptySeq
    <2> QED BY <1>1, <1>3, <1>4, <1>5, <2>3 DEF Smaller
  <1>7. p \in 1..N
    <2> SUFFICES ASSUME p = N + 1 PROVE FALSE
      BY <1>3
    <2>1. NextByte = ByteOf(p, 1)
      BY <1>3, <1>4, <1>5 DEF After
    <2>2. 1 \in 1..Len(Rest)
      BY <1>3, <1>6
    <2>3. NextByte = Rest[1] /\ IsSent(sent, Rest[1])
      BY <1>2, <2>2 DEF Flows, Flow, NextByte, ByteAt
    <2> QED BY <1>3, <2>1, <2>3 DEF IsSent, ByteOf
  <1>8. /\ sent[p].ext \in {0, 2, 8} /\ Len(sent[p].payload) \in Nat
        /\ FrameLength(sent[p]) = 2 + sent[p].ext + Len(sent[p].payload)
    BY <1>7, SentFacts
  <1>9. /\ Flows' /\ NextByte' = After(sent, p, c + k)
        /\ \A i \in 1..k : buffer[i] = ByteOf(p, c + i)
    <2>1. c \in Nat /\ k \in 0..Len(buffer) /\ c + k <= FrameLength(sent[p])
      BY <1>4, <1>5, <1>6, <1>8
    <2> QED BY <1>1, <1>2, <1>5, <1>7, <2>1, TakeFlow
  <1>10. /\ basic' \in [1..2 -> KnownByte]
         /\ \A i \in 1..(c + k) : basic'[i] = ByteOf(p, i)
    <2>1. CopyBasic(k) = [i \in 1..2 |-> IF i \in (c + 1)..(c + k) THEN buffer[i - c] ELSE basic[i]]
      BY <1>4, <1>5 DEF CopyBasic, HeaderLength
    <2>2. ASSUME NEW i \in 1..(c + k) PROVE basic'[i] = ByteOf(p, i)
      <3>1. i \in 1..2 /\ basic'[i] = IF i \in (c + 1)..(c + k) THEN buffer[i - c] ELSE basic[i]
        BY <1>1, <1>4, <1>5, <1>6, <2>1
      <3>2. CASE i \in (c + 1)..(c + k)
        <4>1. i - c \in 1..k /\ c + (i - c) = i
          BY <1>4, <1>6, <3>2
        <4> QED BY <1>9, <3>1, <3>2, <4>1
      <3>3. CASE i \notin (c + 1)..(c + k)
        <4>1. c = 1 /\ i = 1
          BY <1>4, <3>1, <3>3
        <4> QED BY <1>5, <3>1, <3>3, <4>1
      <3> QED BY <3>2, <3>3
    <2>3. CopyBasic(k) \in [1..2 -> KnownByte]
      BY <1>6, CopyBasicType DEF FramesInv
    <2> QED BY <1>1, <2>2, <2>3
  <1>11. Done(p)' /\ Pending(p)' = Pending(p) /\ (Open(p)' <=> Open(p))
    BY <1>1, <1>2, DoneStill, StillFacts
  <1>12. CASE needed > k
    <2>1. c = 0 /\ k = 1 /\ needed = 2
      BY <1>4, <1>5, <1>6, <1>12
    <2>2. needed' = 1 /\ mState' = "basic" /\ failed' = failed
      BY <1>1, <1>12, <2>1 DEF ReadBasicHeader
    <2>3. basic'[1] = ByteOf(p, 1)
      BY <1>10, <2>1
    <2>4. InBasic(p)'
      BY <1>1, <1>5, <1>7, <1>9, <1>11, <2>1, <2>2, <2>3 DEF InBasic
    <2> QED BY <1>1, <1>9, <1>11, <2>2, <2>4, Proceeds
  <1>13. CASE ~(needed > k)
    <2>1. c + k = 2
      BY <1>4, <1>5, <1>6, <1>13
    <2>2. basic'[1] = ByteOf(p, 1) /\ basic'[2] = ByteOf(p, 2)
      BY <1>10, <2>1
    <2>3. basic' = [i \in 1..2 |-> ByteOf(p, i)]
      BY <1>10, <2>2
    <2>4. /\ Fin(CopyBasic(k)) = sent[p].fin /\ Opcode(CopyBasic(k)) = sent[p].op
          /\ ExtensionLength(CopyBasic(k)) = sent[p].ext
      BY <1>1, <1>7, <2>2, HeaderFacts
    <2>5. data = NoMessage <=> ~Open(p)
      BY <1>5 DEF Pending, NoMessage
    <2>6. ValidBasicHeader(CopyBasic(k)) <=> GoodHeader(sent[p], Open(p))
      BY <2>4, <2>5 DEF ValidBasicHeader, GoodHeader
    <2>7. CASE ValidBasicHeader(CopyBasic(k))
      <3>1. /\ mState' = "extended" /\ extended' = <<>> /\ needed' = sent[p].ext
            /\ failed' = failed
        BY <1>13, <2>4, <2>7 DEF ReadBasicHeader
      <3>2. HeaderOf(p)'
        BY <1>1, <1>7, <1>11, <2>3, <2>6, <2>7 DEF HeaderOf, GoodHeader
      <3>3. Len(extended') = 0
        BY <3>1
      <3>4. InExtended(p)'
        BY <1>1, <1>5, <1>8, <1>9, <1>11, <2>1, <3>1, <3>2, <3>3 DEF InExtended
      <3> QED BY <1>1, <1>9, <1>11, <3>1, <3>4, Proceeds
    <2>8. CASE ~ValidBasicHeader(CopyBasic(k))
      <3>1. ~Good(p)
        BY <2>6, <2>8 DEF Good, GoodHeader
      <3>2. failed'
        BY <1>13, <2>8 DEF ReadBasicHeader
      <3> QED BY <1>1, <1>2, <1>7, <3>1, <3>2, Fails
    <2> QED BY <2>7, <2>8
  <1> QED BY <1>12, <1>13

\* What is announced is right exactly if the frame is as long as its header
\* can say and no shorter one could.
LEMMA SizeFacts ==
  ASSUME NEW f \in PeerFrames
  PROVE  GoodSize(f) <=> /\ f.ext = 2 => Len(f.payload) > BasicSize
                         /\ f.ext = 8 => Len(f.payload) > ExtendedSize /\ Len(f.payload) < WordSize
  <1>1. f.ext \in {0, 2, 8} /\ Len(f.payload) \in Nat
    BY FrameFacts
  <1>2. /\ f.ext = 0 => Len(f.payload) <= BasicSize
        /\ f.ext = 2 => Len(f.payload) <= ExtendedSize
        /\ WordSize \in Nat /\ ExtendedSize \in 0..(WordSize - 1) /\ BasicSize \in 0..ExtendedSize
    BY FramesAssumption
  <1> QED BY <1>1, <1>2 DEF GoodSize

\* A part of the extended header, or the whole, which may be nothing.
LEMMA ExtendedParse ==
  ASSUME FramesInv, ParseInv, NEW k \in 0..BufferSize, ReadExtendedHeader(k)
  PROVE  ParseInv'
  <1> DEFINE N == Len(sent)
             e == extended \o Taken(k)
  <1>1. /\ mState = "extended" /\ ~failed /\ k = Smaller(needed, Len(buffer)) /\ Take(k)
        /\ UNCHANGED <<sent, socket, basic, out>> /\ extended' = e
    BY DEF ReadExtendedHeader, Consuming
  <1>2. PICK p \in 1..N : Done(p) /\ InExtended(p) /\ Flows
    BY <1>1 DEF ParseInv, Position, InBasic, InPayload, InReady, InExtended, HeaderOf
  <1> DEFINE f == sent[p]
             F == FrameLength(f)
  <1>3. /\ N \in Nat /\ Len(buffer) \in Nat /\ p \in Nat /\ f \in PeerFrames
        /\ f.ext \in {0, 2, 8} /\ Len(f.payload) \in Nat
        /\ F = 2 + f.ext + Len(f.payload)
    BY SentFacts
  <1>4. /\ HeaderOf(p) /\ Len(extended) + needed = f.ext /\ data = Pending(p)
        /\ \A i \in 1..Len(extended) : extended[i] = ByteOf(p, 2 + i)
        /\ NextByte = After(sent, p, 2 + Len(extended))
    BY <1>2 DEF InExtended
  <1>5. /\ extended \in Seq(KnownByte) /\ Len(extended) \in Nat /\ needed \in Nat
    BY LenProperties DEF FramesInv, BytesInv
  <1>6. PICK c \in Nat : c = Len(extended)
    BY <1>5
  <1>7. /\ k \in Nat /\ k <= needed /\ k \in 0..Len(buffer) /\ needed \in Nat
        /\ c + needed = f.ext
    BY <1>1, <1>3, <1>4, <1>5, <1>6 DEF Smaller
  <1>8. /\ Flows' /\ NextByte' = After(sent, p, (2 + c) + k)
        /\ Taken(k) \in Seq(KnownByte) /\ Len(Taken(k)) = k
        /\ \A i \in 1..k : Taken(k)[i] = ByteOf(p, (2 + c) + i)
    <2>1. 2 + c \in Nat /\ (2 + c) + k <= F
      <3> HIDE DEF f, F
      <3> QED BY <1>3, <1>6, <1>7
    <2> QED BY <1>1, <1>2, <1>4, <1>6, <1>7, <2>1, TakeFlow
  <1>9. /\ e \in Seq(KnownByte) /\ Len(e) = c + k
        /\ \A i \in 1..(c + k) : e[i] = ByteOf(p, 2 + i)
    <2>1. /\ e \in Seq(KnownByte) /\ Len(e) = c + k
          /\ \A i \in 1..(c + k) : e[i] = IF i <= c THEN extended[i] ELSE Taken(k)[i - c]
      <3>1. /\ e \in Seq(KnownByte) /\ Len(e) = Len(extended) + Len(Taken(k))
            /\ \A i \in 1..(Len(extended) + Len(Taken(k))) :
                 e[i] = IF i <= Len(extended) THEN extended[i] ELSE Taken(k)[i - Len(extended)]
        BY <1>5, <1>8, ConcatProperties
      <3> QED BY <1>6, <1>8, <3>1
    <2> HIDE DEF e
    <2>2. ASSUME NEW i \in 1..(c + k) PROVE e[i] = ByteOf(p, 2 + i)
      <3>1. CASE i <= c
        <4>1. i \in 1..Len(extended)
          BY <1>6, <3>1
        <4> QED BY <1>4, <2>1, <3>1, <4>1
      <3>2. CASE ~(i <= c)
        <4>1. i - c \in 1..k /\ (2 + c) + (i - c) = 2 + i
          BY <1>6, <1>7, <3>2
        <4> QED BY <1>8, <2>1, <3>2, <4>1
      <3> QED BY <3>1, <3>2
    <2> QED BY <2>1, <2>2
  <1>10. /\ Done(p)' /\ Pending(p)' = Pending(p) /\ Base(p)' = Base(p) /\ HeaderOf(p)'
    BY <1>1, <1>2, <1>4, DoneStill, StillFacts DEF HeaderOf, GoodHeader
  <1> HIDE DEF e
  <1>11. CASE needed > k
    <2>1. /\ needed' = needed - k /\ mState' = "extended" /\ failed' = failed
          /\ UNCHANGED <<data, control, current>>
      BY <1>1, <1>11 DEF ReadExtendedHeader, messages
    <2>2. Len(extended') + needed' = f.ext /\ (2 + c) + k = 2 + Len(extended')
      BY <1>1, <1>4, <1>5, <1>6, <1>7, <1>9, <2>1
    <2>3. InExtended(p)'
      BY <1>1, <1>4, <1>8, <1>9, <1>10, <2>1, <2>2 DEF InExtended
    <2> QED BY <1>1, <1>3, <1>8, <1>10, <2>1, <2>3, Proceeds
  <1>12. CASE ~(needed > k)
    <2>1. c + k = f.ext /\ Len(e) = f.ext
      <3>1. k = needed
        BY <1>7, <1>12
      <3> QED BY <1>7, <1>9, <3>1
    <2>2. /\ Opcode(basic) = f.op /\ ExtensionLength(basic) = f.ext
          /\ PayloadSize(basic, e) = Len(f.payload)
      <3>1. basic[1] = ByteOf(p, 1) /\ basic[2] = ByteOf(p, 2)
        BY <1>4 DEF HeaderOf
      <3>2. f.ext > 0 => e[1] = ByteOf(p, 3)
        BY <1>3, <1>9, <2>1
      <3> QED BY <3>1, <3>2, HeaderFacts
    <2>3. ValidExtendedHeader(basic, e) <=> GoodSize(f)
      BY <1>3, <2>2, SizeFacts DEF ValidExtendedHeader
    <2>4. CASE ~ValidExtendedHeader(basic, e)
      <3>1. failed' /\ ~Good(p)
        BY <1>12, <2>3, <2>4 DEF ReadExtendedHeader, Good, e
      <3> QED BY <1>1, <1>2, <3>1, Fails
    <2>5. CASE ValidExtendedHeader(basic, e)
      <3>1. mState' = "application" /\ needed' = Len(f.payload) /\ ChooseMessage(Len(f.payload))
        BY <1>12, <2>2, <2>5 DEF ReadExtendedHeader, e
      <3>2. /\ GoodHeader(f, Open(p))
            /\ Base(p) \in Seq(KnownByte) /\ data.payload = Base(p)
            /\ Payload(p, f) \in Seq(KnownByte) /\ Len(Payload(p, f)) = Len(f.payload)
            /\ data = NoMessage <=> ~Open(p)
            /\ IsData(f) <=> f.op # "control"
            /\ f.op # "control" => DataUpTo(p) = Base(p) \o Payload(p, f)
        BY <1>4, PendingFacts DEF HeaderOf
      <3>3. Part(p, f, Len(f.payload) - needed') = <<>> /\ Base(p) \o <<>> = Base(p)
        BY <1>3, <3>1, <3>2 DEF Part
      <3>4. /\ sent'[p] = f /\ GoodSize(f)' /\ needed' <= Len(f.payload)
            /\ NextByte' = After(sent', p, FrameLength(f) - needed')
        BY <1>1, <1>3, <1>8, <2>1, <2>3, <2>5, <3>1 DEF GoodSize
      <3>5. CASE f.op = "control"
        <4>1. /\ control' = [op |-> "control", payload |-> <<>>] /\ current' = "control"
              /\ UNCHANGED <<data, failed>>
          BY <2>2, <3>1, <3>5 DEF ChooseMessage, Message
        <4>2. InPayload(p)'
          BY <1>4, <1>10, <3>1, <3>3, <3>4, <3>5, <4>1 DEF InPayload
        <4> QED BY <1>1, <1>3, <1>8, <1>10, <4>1, <4>2, Proceeds
      <3>6. CASE f.op # "control" /\ SizeSum(Len(data.payload), Len(f.payload)) > MaxMessageSize
        <4>1. failed'
          BY <2>2, <3>1, <3>6 DEF ChooseMessage
        <4>2. Len(DataUpTo(p)) = Len(data.payload) + Len(f.payload)
          BY <3>2, <3>6, ConcatProperties
        <4>3. ~Good(p)
          <5>1. Len(DataUpTo(p)) % WordSize = SizeSum(Len(data.payload), Len(f.payload))
            BY <4>2 DEF SizeSum
          <5>2. Len(data.payload) \in Nat /\ MaxMessageSize \in Nat
            BY <3>2, FramesAssumption, LenProperties
          <5>3. SizeSum(Len(data.payload), Len(f.payload)) \in Nat
            BY <1>3, <5>2, SizeSumFacts
          <5>4. ~(Len(DataUpTo(p)) % WordSize <= MaxMessageSize)
            BY <3>6, <5>1, <5>2, <5>3
          <5> QED BY <3>2, <3>6, <5>4 DEF Good
        <4> QED BY <1>1, <1>2, <4>1, <4>3, Fails
      <3>7. CASE f.op # "control" /\ ~(SizeSum(Len(data.payload), Len(f.payload)) > MaxMessageSize)
        <4>1. /\ data' = IF data = NoMessage THEN Message("text") ELSE data
              /\ current' = "data" /\ failed' = failed
          BY <2>2, <3>1, <3>7 DEF ChooseMessage
        <4>2. data' = [op |-> "text", payload |-> Base(p)]
          BY <1>4, <3>2, <4>1 DEF Pending, Base, Message
        <4>3. SizeSum(Len(Base(p)), Len(f.payload)) <= MaxMessageSize
          <5>1. Len(data.payload) \in Nat /\ MaxMessageSize \in Nat
            BY <3>2, FramesAssumption, LenProperties
          <5>2. SizeSum(Len(data.payload), Len(f.payload)) \in Nat
            BY <1>3, <5>1, SizeSumFacts
          <5> QED BY <3>2, <3>7, <5>1, <5>2
        <4>4. /\ data' = [op |-> "text",
                          payload |-> Base(p)' \o Part(p, sent'[p], Len(sent'[p].payload) - needed')]
              /\ SizeSum(Len(Base(p)'), Len(sent'[p].payload)) <= MaxMessageSize
          BY <1>10, <3>3, <3>4, <4>2, <4>3
        <4>5. sent'[p].op # "control" /\ current' = "data" /\ mState' = "application"
          BY <3>1, <3>4, <3>7, <4>1
        <4>6. /\ GoodSize(sent[p])' /\ needed' <= Len(sent'[p].payload)
              /\ NextByte' = After(sent', p, FrameLength(sent'[p]) - needed')
          BY <3>4
        <4>7. InPayload(p)'
          BY <1>10, <4>4, <4>5, <4>6 DEF InPayload, GoodSize
        <4> QED BY <1>1, <1>3, <1>8, <1>10, <4>1, <4>7, Proceeds
      <3> QED BY <3>5, <3>6, <3>7
    <2> QED BY <2>4, <2>5
  <1> QED BY <1>11, <1>12

\* A part of the payload, or the rest, which may be nothing.
LEMMA PayloadParse ==
  ASSUME FramesInv, ParseInv, NEW k \in 0..BufferSize, ReadPayload(k)
  PROVE  ParseInv'
  <1> DEFINE N == Len(sent)
             D == data.payload \o Taken(k)
  <1>1. /\ mState = "application" /\ ~failed /\ k = Smaller(needed, Len(buffer)) /\ Take(k)
        /\ AppendPayload(k) /\ UNCHANGED <<sent, socket, out>>
    BY DEF ReadPayload, Consuming
  <1>2. PICK p \in 1..N : Done(p) /\ InPayload(p) /\ Flows
    BY <1>1 DEF ParseInv, Position, InBasic, InExtended, InReady, InPayload, HeaderOf
  <1> DEFINE f == sent[p]
             P == Payload(p, f)
  <1>3. /\ N \in Nat /\ Len(buffer) \in Nat /\ p \in 1..N /\ f \in PeerFrames
        /\ f.fin \in BOOLEAN /\ needed \in Nat
    BY SentFacts DEF FramesInv, BytesInv
  <1>4. /\ HeaderOf(p) /\ GoodSize(f)
        /\ \E c \in Nat, L \in Nat, h \in Nat :
             /\ c = 2 + f.ext /\ c >= 2 /\ L = Len(f.payload) /\ h = L - needed /\ h <= L
             /\ FrameLength(f) = c + L /\ FrameLength(f) - needed = c + h
    <2>1. HeaderOf(p) /\ GoodSize(f) /\ needed <= Len(f.payload)
      BY <1>2 DEF InPayload
    <2>2. /\ 2 + f.ext \in Nat /\ 2 + f.ext >= 2 /\ Len(f.payload) \in Nat
          /\ FrameLength(f) = (2 + f.ext) + Len(f.payload)
      <3>1. /\ f.ext \in {0, 2, 8} /\ Len(f.payload) \in Nat
            /\ FrameLength(f) = 2 + f.ext + Len(f.payload)
        BY SentFacts
      <3> HIDE DEF f
      <3> QED BY <3>1
    <2> HIDE DEF f
    <2>3. /\ Len(f.payload) - needed \in Nat /\ Len(f.payload) - needed <= Len(f.payload)
          /\ FrameLength(f) - needed = (2 + f.ext) + (Len(f.payload) - needed)
      BY <1>3, <2>1, <2>2
    <2> QED BY <2>1, <2>2, <2>3
  <1>4a. PICK c \in Nat, L \in Nat, h \in Nat :
           /\ c = 2 + f.ext /\ c >= 2 /\ L = Len(f.payload) /\ h = L - needed /\ h <= L
           /\ FrameLength(f) = c + L /\ FrameLength(f) - needed = c + h
    BY <1>4
  <1>5. /\ P \in Seq(KnownByte) /\ Len(P) = L
        /\ Base(p) \in Seq(KnownByte)
        /\ IsData(f) <=> f.op # "control"
        /\ f.op # "control" => DataUpTo(p) = Base(p) \o P
        /\ f.op # "control" => Pending(p + 1) = IF f.fin THEN NoMessage
                                               ELSE [op |-> "text", payload |-> DataUpTo(p)]
        /\ \A i \in 1..L : P[i] = ByteOf(p, c + i)
    BY <1>3, <1>4, <1>4a, PendingFacts, PayloadFacts DEF HeaderOf, ByteOf
  <1>6. h \in 0..L /\ needed = L - h /\ FrameLength(f) = c + L /\ Len(f.payload) = L /\ c >= 2
    BY <1>3, <1>4a
  <1>7. /\ NextByte = After(sent, p, c + h)
        /\ f.op = "control" => /\ current = "control" /\ data = Pending(p)
                               /\ control = [op |-> "control", payload |-> Part(p, f, h)]
        /\ f.op # "control" => /\ current = "data"
                               /\ data = [op |-> "text", payload |-> Base(p) \o Part(p, f, h)]
                               /\ SizeSum(Len(Base(p)), L) <= MaxMessageSize
    BY <1>2, <1>4a DEF InPayload
  <1> HIDE DEF P
  <1>8. k \in Nat /\ k <= needed /\ k \in 0..Len(buffer) /\ h + k \in 0..L
    <2>1. k \in Nat /\ k <= needed /\ k \in 0..Len(buffer)
      BY <1>1, <1>3 DEF Smaller
    <2>2. h + k \in 0..L
      BY <1>6, <2>1
    <2> QED BY <2>1, <2>2
  <1>9. /\ Flows' /\ NextByte' = After(sent, p, (c + h) + k)
        /\ Taken(k) \in Seq(KnownByte) /\ Len(Taken(k)) = k
        /\ \A i \in 1..k : Taken(k)[i] = ByteOf(p, (c + h) + i)
    <2>1. c + h \in Nat /\ (c + h) + k <= FrameLength(f)
      <3>1. (c + h) + k <= c + L
        BY <1>8
      <3> QED BY <1>4a, <3>1
    <2> QED BY <1>1, <1>2, <1>7, <1>8, <2>1, TakeFlow
  <1>10. Part(p, f, h) \o Taken(k) = Part(p, f, h + k)
    <2>1. \A i \in 1..k : Taken(k)[i] = P[h + i]
      <3> TAKE i \in 1..k
      <3>1. h + i \in 1..L /\ (c + h) + i = c + (h + i)
        BY <1>8
      <3> QED BY <1>5, <1>9, <3>1
    <2>2. h \in 0..Len(P) /\ h + Len(Taken(k)) <= Len(P)
      BY <1>5, <1>8, <1>9
    <2>3. SubSeq(P, 1, h) \o Taken(k) = SubSeq(P, 1, h + Len(Taken(k)))
      BY <1>5, <1>9, <2>1, <2>2, PartFacts, ZenonT(40)
    <2> QED BY <1>9, <2>3 DEF Part, P
  <1>11. /\ Part(p, f, h + k) \in Seq(KnownByte) /\ Len(Part(p, f, h + k)) = h + k
         /\ \A i \in 1..(h + k) : Part(p, f, h + k)[i] = P[i]
         /\ Part(p, f, L) = P
    <2>1. SubSeq(P, 1, L) = P
      BY <1>5, SubSeqFull
    <2> QED BY <1>5, <1>8, <2>1, SMTT(30) DEF Part, P
  <1>12. f.op # "control" => D = Base(p) \o Part(p, f, h + k)
    <2>1. Part(p, f, h) \in Seq(KnownByte)
      BY <1>5, <1>8 DEF Part, P
    <2>2. Base(p) \in Seq(KnownByte) /\ Taken(k) \in Seq(KnownByte)
      BY <1>5, <1>9
    <2>3. (Base(p) \o Part(p, f, h)) \o Taken(k) = Base(p) \o (Part(p, f, h) \o Taken(k))
      BY <2>1, <2>2, ConcatAssociative
    <2>4. f.op # "control" => data.payload = Base(p) \o Part(p, f, h)
      BY <1>7
    <2> QED BY <1>10, <2>3, <2>4
  <1>13. /\ Fin(basic) = f.fin /\ Opcode(basic) = f.op
    BY <1>4, HeaderFacts, SMTT(30) DEF HeaderOf
  <1>14. Done(p)' /\ Pending(p)' = Pending(p) /\ Base(p)' = Base(p) /\ GoodHeader(f, Open(p))
    BY <1>1, <1>2, <1>4, DoneStill, StillFacts DEF HeaderOf
  <1>15. /\ f.op = "control" => /\ current' = "control" /\ data' = Pending(p)
                                /\ control' = [op |-> "control", payload |-> Part(p, f, h + k)]
         /\ f.op # "control" => /\ current' = "data"
                                /\ data' = [op |-> "text", payload |-> D]
    <2>1. CASE f.op = "control"
      <3>1. /\ control' = [control EXCEPT !.payload = @ \o Taken(k)]
            /\ current' = current /\ data' = data
        BY <1>1, <1>7, <2>1 DEF AppendPayload
      <3>2. PICK x : control = [op |-> "control", payload |-> x] /\ x = Part(p, f, h)
        BY <1>7, <2>1
      <3>3. control' = [op |-> "control", payload |-> x \o Taken(k)]
        BY <3>1, <3>2
      <3>4. current' = "control" /\ data' = Pending(p)
        BY <1>7, <2>1, <3>1
      <3> QED BY <1>10, <2>1, <3>2, <3>3, <3>4
    <2>2. CASE f.op # "control"
      <3>1. data' = [data EXCEPT !.payload = @ \o Taken(k)] /\ current' = current
        BY <1>1, <1>7, <2>2 DEF AppendPayload
      <3>2. PICK x : data = [op |-> "text", payload |-> x]
        BY <1>7, <2>2
      <3>3. data' = [op |-> "text", payload |-> x \o Taken(k)] /\ D = x \o Taken(k)
        BY <3>1, <3>2
      <3> QED BY <1>7, <2>2, <3>1, <3>3
    <2> QED BY <2>1, <2>2
  <1> HIDE DEF D
  <1>16. f.op # "control" => Len(DataUpTo(p)) % WordSize <= MaxMessageSize
    <2>1. Len(Base(p) \o P) = Len(Base(p)) + L
      BY <1>5, ConcatFacts
    <2> QED BY <1>5, <1>7, <2>1 DEF SizeSum
  <1>17. CASE ~ValidPayload(k)
    <2>1. f.op # "control" /\ ~WellFormed(D)
      BY <1>7, <1>17 DEF ValidPayload, D
    <2>2. PICK B, X : B = Base(p) /\ X = Part(p, f, h + k)
      OBVIOUS
    <2>3. /\ B \in Seq(KnownByte) /\ X \in Seq(KnownByte) /\ P \in Seq(KnownByte)
          /\ Len(X) <= Len(P) /\ \A i \in 1..Len(X) : X[i] = P[i]
      BY <1>5, <1>8, <1>11, <2>2
    <2>4. D = B \o X /\ DataUpTo(p) = B \o P
      BY <1>5, <1>12, <2>1, <2>2
    <2>5. /\ Len(D) \in Nat /\ Len(DataUpTo(p)) \in Nat /\ Len(D) <= Len(DataUpTo(p))
          /\ \A i \in 1..Len(D) : D[i] = DataUpTo(p)[i]
      BY <2>3, <2>4, LongerFacts
    <2>6. ~WellFormed(DataUpTo(p))
      BY <2>1, <2>5, PrefixWellFormed
    <2>7. ~Good(p)
      BY <1>5, <2>1, <2>6 DEF Good
    <2>8. failed'
      BY <1>17 DEF ReadPayload
    <2> QED BY <1>1, <1>2, <1>3, <2>7, <2>8, Fails
  <1>18. CASE ValidPayload(k) /\ needed > k
    <2>1. /\ needed' = needed - k /\ mState' = "application" /\ failed' = failed
          /\ UNCHANGED <<basic, extended>>
      BY <1>1, <1>18 DEF ReadPayload, header
    <2>2. /\ needed' <= L /\ L - needed' = h + k
          /\ FrameLength(f) - needed' = (c + h) + k
      BY <1>6, <1>8, <1>18, <2>1
    <2>3. HeaderOf(p)' /\ sent' = sent
      BY <1>1, <1>4, <2>1, StillFacts DEF HeaderOf, GoodHeader
    <2>4. InPayload(p)'
      <3>1. f.op # "control" => data' = [op |-> "text", payload |-> Base(p)' \o Part(p, f, L - needed')]
        BY <1>12, <1>14, <1>15, <2>2
      <3>2. f.op = "control" => control' = [op |-> "control", payload |-> Part(p, f, L - needed')]
        BY <1>15, <2>2
      <3>3. f.op # "control" => SizeSum(Len(Base(p)'), L) <= MaxMessageSize
        BY <1>7, <1>14
      <3>4. NextByte' = After(sent', p, FrameLength(f) - needed')
        BY <1>9, <2>2, <2>3
      <3> QED BY <1>4, <1>6, <1>14, <1>15, <2>1, <2>2, <2>3, <3>1, <3>2, <3>3, <3>4
              DEF InPayload, GoodSize
    <2> QED BY <1>1, <1>3, <1>9, <1>14, <2>1, <2>4, Proceeds
  <1>19. CASE ValidPayload(k) /\ ~(needed > k)
    <2>1. EndFrame(k)
      BY <1>19 DEF ReadPayload
    <2>2. h + k = L /\ (c + h) + k = FrameLength(f)
      BY <1>6, <1>8, <1>19
    <2>3. f.op # "control" => D = DataUpTo(p) /\ WellFormed(DataUpTo(p))
      BY <1>5, <1>7, <1>11, <1>12, <1>19, <2>2 DEF ValidPayload, D
    <2>4. f.op = "control" => control' = [op |-> "control", payload |-> P]
      BY <1>11, <1>15, <2>2
    <2>5. NextByte' = After(sent, p, FrameLength(f))
      BY <1>9, <2>2
    <2>6. (f.op = "text" /\ f.fin => Complete(DataUpTo(p))) => Good(p)
      BY <1>4, <1>5, <1>14, <1>16, <2>3 DEF Good, GoodHeader
    <2>7. CASE ~f.fin
      <3>1. reset_headers /\ failed' = failed
        BY <1>13, <2>1, <2>7 DEF EndFrame
      <3>2. f.op # "control" /\ Good(p)
        BY <1>14, <2>6, <2>7 DEF GoodHeader
      <3>3. p + 1 \in 1..(N + 1) /\ (p + 1) - 1 = p
        BY <1>3
      <3>4. Done(p + 1)'
        <4>1. out = Messages(p)
          BY <1>2, <1>3, <2>7, MeaningFacts DEF Done
        <4>2. \A m \in 1..p : Good(m)
          BY <1>2, <1>3, <3>2 DEF Done
        <4> QED BY <1>1, <3>3, <4>1, <4>2, StillFacts DEF Done
      <3>5. data' = Pending(p + 1)'
        BY <1>1, <1>5, <1>15, <2>3, <2>7, <3>2, StillFacts
      <3>6. NextByte' = After(sent', p + 1, 0)
        <4>1. /\ ~(FrameLength(f) < FrameLength(f)) /\ FrameLength(f) # 0 /\ 0 + 1 = 1
              /\ sent' = sent
          BY <1>1, <1>6
        <4> QED BY <2>5, <4>1 DEF After, ByteOf
      <3>7. InBasic(p + 1)'
        BY <3>1, <3>5, <3>6 DEF InBasic, reset_headers, HeaderLength
      <3> QED BY <1>1, <1>9, <3>1, <3>3, <3>4, <3>7, Proceeds
    <2>8. CASE f.fin /\ ValidEnd(k)
      <3>1. mState' = "ready" /\ failed' = failed
        BY <1>13, <2>1, <2>8 DEF EndFrame
      <3>2. Good(p)
        BY <1>13, <2>3, <2>6, <2>8 DEF ValidEnd, D
      <3>3. Current' = MessageOf(sent', p)
        BY <1>1, <1>15, <2>3, <2>4 DEF Current, MessageOf, DataUpTo, P
      <3>4. /\ sent' = sent /\ p \in 1..Len(sent') /\ Good(p)' /\ sent'[p].fin
            /\ NextByte' = After(sent', p, FrameLength(sent'[p]))
        BY <1>1, <1>3, <2>5, <2>8, <3>2, StillFacts
      <3>5. IF sent'[p].op = "control" THEN current' = "control" /\ data' = Pending(p)'
                                       ELSE current' = "data"
        BY <1>14, <1>15, <3>4
      <3>6. InReady(p)'
        BY <3>1, <3>3, <3>4, <3>5 DEF InReady
      <3> QED BY <1>1, <1>3, <1>9, <1>14, <3>1, <3>6, Proceeds
    <2>9. CASE f.fin /\ ~ValidEnd(k)
      <3>1. failed'
        BY <1>13, <2>1, <2>9 DEF EndFrame
      <3>2. f.op = "text" /\ ~Complete(DataUpTo(p))
        BY <1>13, <2>3, <2>9 DEF ValidEnd, D
      <3>3. ~Good(p)
        BY <2>9, <3>2 DEF Good
      <3> QED BY <1>1, <1>2, <1>3, <3>1, <3>3, Fails
    <2> QED BY <2>7, <2>8, <2>9
  <1> QED BY <1>17, <1>18, <1>19

\* A message is handed on when its last frame is read.
LEMMA GetParse ==
  ASSUME FramesInv, ParseInv, get_message
  PROVE  ParseInv'
  <1> DEFINE N == Len(sent)
  <1>1. /\ mState = "ready" /\ ~failed /\ out' = Append(out, Current) /\ reset_headers
        /\ UNCHANGED <<sent, socket, buffer, current, failed>>
    BY DEF get_message
  <1>2. PICK p \in 1..N : Done(p) /\ InReady(p) /\ Flows
    BY <1>1 DEF ParseInv, Position, InBasic, InExtended, InPayload, InReady
  <1> DEFINE f == sent[p]
  <1>3. /\ N \in Nat /\ p \in 1..N /\ p + 1 \in 1..(N + 1) /\ (p + 1) - 1 = p
        /\ FrameLength(f) = 2 + f.ext + Len(f.payload)
        /\ f.ext \in {0, 2, 8} /\ Len(f.payload) \in Nat
    BY SentFacts
  <1>4. /\ Good(p) /\ f.fin /\ Current = MessageOf(sent, p)
        /\ NextByte = After(sent, p, FrameLength(f))
        /\ f.op = "control" => current = "control" /\ data = Pending(p)
        /\ f.op # "control" => current = "data"
    BY <1>2 DEF InReady
  <1>5. GoodHeader(f, Open(p))
    BY <1>4 DEF Good, GoodHeader
  <1>6. /\ f.op = "control" => Pending(p + 1) = Pending(p)
        /\ f.op # "control" => Pending(p + 1) = NoMessage
    BY <1>4, <1>5, PendingFacts
  <1>7. data' = Pending(p + 1)'
    BY <1>1, <1>4, <1>6, StillFacts DEF get_message
  <1>8. Done(p + 1)'
    <2>1. out' = Messages(p)
      BY <1>1, <1>2, <1>3, <1>4, MeaningFacts DEF Done
    <2>2. \A m \in 1..p : Good(m)
      BY <1>2, <1>3, <1>4 DEF Done
    <2> QED BY <1>1, <1>3, <2>1, <2>2, StillFacts DEF Done
  <1>9. Flows' /\ NextByte' = NextByte
    BY <1>1, <1>2 DEF Flows, NextByte, Rest
  <1>10. NextByte' = After(sent', p + 1, 0)
    BY <1>1, <1>3, <1>4, <1>9 DEF After, ByteOf
  <1>11. InBasic(p + 1)'
    BY <1>1, <1>7, <1>10 DEF InBasic, reset_headers, HeaderLength
  <1> QED BY <1>1, <1>3, <1>8, <1>9, <1>11, Proceeds

-----------------------------------------------------------------------------
\* The parser is always in its place, or has failed at a wrong frame.
LEMMA ParseHolds == Spec => []ParseInv
  <1>1. FramesInv /\ ParseInv /\ [Next]_vars => ParseInv'
    <2> SUFFICES ASSUME FramesInv, ParseInv, [Next]_vars PROVE ParseInv'
      OBVIOUS
    <2>1. CASE UNCHANGED vars
      <3>1. UNCHANGED sent /\ failed' = failed /\ out' = out
        BY <2>1 DEF vars
      <3>2. UNCHANGED <<mState, needed, basic, extended, data, control, current, socket, buffer>>
        BY <2>1 DEF vars, header, messages
      <3>3. CASE failed
        BY <3>1, <3>3, StillFacts DEF ParseInv, FailsAtBadFrame
      <3>4. CASE ~failed
        <4>1. PICK p \in 1..(Len(sent) + 1) : Position(p)
          BY <3>4 DEF ParseInv
        <4>2. Flows' /\ NextByte' = NextByte /\ Done(p)'
          BY <3>1, <3>2, <3>4, <4>1, DoneStill DEF ParseInv, Flows, NextByte, Rest, Position
        <4>3. InBasic(p)' \/ InExtended(p)' \/ InPayload(p)' \/ InReady(p)'
          BY <3>1, <3>2, <4>1, <4>2, StillFacts
             DEF Position, InBasic, InExtended, InPayload, InReady, HeaderOf, GoodHeader,
                 GoodSize, Current
        <4> QED BY <3>1, <3>4, <4>2, <4>3, Proceeds
      <3> QED BY <3>3, <3>4
    <2>2. CASE Next
      BY <2>2, SendParse, ReadParse, BasicParse, ExtendedParse, PayloadParse, GetParse
         DEF Next, Consume
    <2> QED BY <2>1, <2>2
  <1> QED BY <1>1, InitParse, InvHolds, PTL DEF Spec

\* Whatever the reads were, the parser fails only at a frame that is wrong, and
\* has handed on everything before it.
THEOREM FailureCorrect == Spec => []FailsAtBadFrame
  <1>1. ParseInv => FailsAtBadFrame
    BY DEF ParseInv
  <1> QED BY <1>1, ParseHolds, PTL

\* Where the parser is when it asks for more is where the frames end that it has
\* read.
LEMMA ReadingFacts ==
  ASSUME FramesInv, Reading, NEW p \in 1..(Len(sent) + 1), Position(p)
  PROVE  Received = p - 1
  <1>1. ~failed /\ mState # "ready" /\ buffer = <<>> /\ needed # 0
    BY DEF Reading, Consuming
  <1>2. Rest = socket /\ socket \in Seq(KnownByte) /\ Len(sent) \in Nat /\ needed \in Nat
        /\ extended \in Seq(KnownByte)
    BY <1>1, SentFacts, ConcatEmptySeq DEF Rest, FramesInv, BytesInv
  <1>3. NextByte.frame = p
    <2>1. CASE InBasic(p)
      <3>1. CASE needed = 2
        BY <2>1, <3>1 DEF InBasic, After, ByteOf
      <3>2. CASE needed = 1
        <4>1. p \in 1..Len(sent)
          BY <1>2, <2>1, <3>2 DEF InBasic
        <4>2. 1 < FrameLength(sent[p])
          <5>1. FrameLength(sent[p]) \in Nat /\ FrameLength(sent[p]) >= 2
            BY <4>1, SentFacts, LengthFacts
          <5> QED BY <5>1
        <4> QED BY <2>1, <3>2, <4>2 DEF InBasic, After, ByteOf
      <3> QED BY <2>1, <3>1, <3>2 DEF InBasic
    <2>2. CASE InExtended(p)
      <3>1. p \in 1..Len(sent) /\ Len(extended) + needed = sent[p].ext /\ Len(extended) \in Nat
        BY <1>2, <2>2, LenProperties DEF InExtended, HeaderOf
      <3>2. 2 + Len(extended) < FrameLength(sent[p])
        <4>1. /\ FrameLength(sent[p]) = 2 + sent[p].ext + Len(sent[p].payload)
              /\ sent[p].ext \in {0, 2, 8} /\ Len(sent[p].payload) \in Nat
          BY <3>1, SentFacts
        <4> QED BY <1>1, <1>2, <3>1, <4>1, SMTT(30)
      <3> QED BY <2>2, <3>2 DEF InExtended, After, ByteOf
    <2>3. CASE InPayload(p)
      <3>1. p \in 1..Len(sent)
        BY <2>3 DEF InPayload, HeaderOf
      <3>2. FrameLength(sent[p]) - needed < FrameLength(sent[p])
        <4>1. FrameLength(sent[p]) \in Nat
          BY <3>1, SentFacts, LengthFacts
        <4> QED BY <1>1, <1>2, <4>1
      <3> QED BY <2>3, <3>2 DEF InPayload, After, ByteOf
    <2> QED BY <1>1, <2>1, <2>2, <2>3 DEF Position, InReady
  <1>4. CASE socket = <<>>
    <2>1. NextByte = ByteOf(Len(sent) + 1, 1)
      BY <1>2, <1>4, EmptySeq DEF NextByte, ByteAt
    <2> QED BY <1>2, <1>3, <1>4, <2>1 DEF Received, ByteOf
  <1>5. CASE socket # <<>>
    <2>1. NextByte = socket[1]
      BY <1>2, <1>5, EmptySeq DEF NextByte, ByteAt
    <2> QED BY <1>3, <1>5, <2>1 DEF Received
  <1> QED BY <1>4, <1>5

\* Whatever the frames and the reads, when the handler asks for more it has
\* handed on the messages of the frames that are complete, in order, and nothing
\* else.
THEOREM DeliveryCorrect == Spec => []DeliversWhatArrived
  <1>1. FramesInv /\ ParseInv => DeliversWhatArrived
    <2> SUFFICES ASSUME FramesInv, ParseInv, Reading
                 PROVE  out = Messages(Received) /\ \A n \in 1..Received : Good(n)
      BY DEF DeliversWhatArrived
    <2>1. PICK p \in 1..(Len(sent) + 1) : Position(p)
      BY DEF ParseInv, Reading
    <2>2. Received = p - 1
      BY <2>1, ReadingFacts
    <2> QED BY <2>1, <2>2 DEF Position, Done
  <1> QED BY <1>1, InvHolds, ParseHolds, PTL
=============================================================================
