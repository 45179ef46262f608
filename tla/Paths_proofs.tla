---------------------------- MODULE Paths_proofs ----------------------------
(***************************************************************************)
(* Proofs about the path functions and the search, for all drives, shares  *)
(* and names that Windows allows, and any depth.                           *)
(*                                                                         *)
(* Located says what the functions need to know of a path: which kind of   *)
(* root it has, that it has no slash, and that it ends with a name unless  *)
(* it is a drive.  A root is Located; and what is Below such a path is     *)
(* Located again, has that path for its folder and is what                 *)
(* AddPathComponent makes (LocatedBelow, AddedFacts).  PathsInv says that  *)
(* the search is at one of the folders above the executable, and that none *)
(* it has left was the one.                                                *)
(***************************************************************************)
EXTENDS Paths, SequenceTheorems, FiniteSetTheorems, TLAPS

-----------------------------------------------------------------------------
(* Numbers and sequences.                                                   *)

\* Induction on the natural numbers. If n were not in S, then taking 1 from each
\* number up to n outside S gave numbers outside S without n, and as many.
LEMMA SetInduction ==
  ASSUME NEW S, 0 \in S, \A n \in Nat : n \in S => n + 1 \in S
  PROVE  Nat \subseteq S
  <1> SUFFICES ASSUME NEW n \in Nat, n \notin S PROVE FALSE
    OBVIOUS
  <1> DEFINE T == (0..n) \ S
             f == [x \in T |-> x - 1]
  <1>1. IsFiniteSet(T) /\ n \in T
    <2>1. IsFiniteSet(0..n)
      BY FS_Interval
    <2>2. T \subseteq 0..n /\ n \in T
      OBVIOUS
    <2> HIDE DEF T
    <2> QED BY <2>1, <2>2, FS_Subset
  <1>2. IsFiniteSet(T \ {n}) /\ Cardinality(T \ {n}) = Cardinality(T) - 1
    BY <1>1, FS_RemoveElement
  <1>3. f \in Injection(T, T \ {n})
    <2>1. ASSUME NEW x \in T PROVE x - 1 \in T \ {n}
      <3>1. x # 0 /\ x \in Nat /\ x - 1 \in Nat
        OBVIOUS
      <3> QED BY <3>1
    <2> QED BY <2>1 DEF Injection, IsInjective
  <1>4. Cardinality(T) <= Cardinality(T \ {n})
    BY <1>2, <1>3, FS_Injection
  <1>5. Cardinality(T) \in Nat
    BY <1>1, FS_CardinalityType
  <1> QED BY <1>2, <1>4, <1>5

\* Sequences of one and of two.
LEMMA TupleFacts ==
  ASSUME NEW S, NEW a \in S, NEW b \in S
  PROVE  /\ <<a>> \in Seq(S) /\ Len(<<a>>) = 1 /\ <<a>>[1] = a
         /\ <<a, b>> \in Seq(S) /\ Len(<<a, b>>) = 2 /\ <<a, b>>[1] = a /\ <<a, b>>[2] = b
  OBVIOUS

\* A part of a sequence.
LEMMA PartFacts ==
  ASSUME NEW S, NEW s \in Seq(S), NEW m \in 1..(Len(s) + 1), NEW n \in (m - 1)..Len(s)
  PROVE  /\ SubSeq(s, m, n) \in Seq(S)
         /\ Len(SubSeq(s, m, n)) = (n - m) + 1
         /\ \A i \in 1..((n - m) + 1) : SubSeq(s, m, n)[i] = s[(m + i) - 1]
  <1>1. Len(s) \in Nat
    BY LenProperties
  <1>2. \A i \in m..n : s[i] \in S
    BY <1>1, ElementOfSeq
  <1>3. m \in Int /\ n \in Int /\ n >= m - 1
    BY <1>1
  <1>4. /\ SubSeq(s, m, n) \in Seq(S)
        /\ Len(SubSeq(s, m, n)) = IF m <= n THEN n - m + 1 ELSE 0
        /\ \A i \in 1..(n - m + 1) : SubSeq(s, m, n)[i] = s[m + i - 1]
    BY <1>2, <1>3, SubSeqProperties
  <1> QED BY <1>3, <1>4

\* What is at the front of a sequence.
LEMMA PrefixFacts ==
  ASSUME NEW S, NEW s \in Seq(S), NEW u \in Seq(S)
  PROVE  IsPrefix(u, s) <=> Len(u) <= Len(s) /\ \A i \in 1..Len(u) : u[i] = s[i]
  <1>1. Len(s) \in Nat /\ Len(u) \in Nat
    BY LenProperties
  <1>2. SubSeq(u, 1, Len(u)) = u
    BY SubSeqFull
  <1>3. ASSUME Len(u) <= Len(s)
        PROVE  u = SubSeq(s, 1, Len(u)) <=> \A i \in 1..Len(u) : u[i] = s[i]
    <2> DEFINE t == SubSeq(s, 1, Len(u))
    <2>1. t \in Seq(S) /\ Len(t) = Len(u) /\ \A i \in 1..Len(u) : t[i] = s[i]
      <3>1. 1 \in 1..(Len(s) + 1) /\ Len(u) \in (1 - 1)..Len(s)
        BY <1>1, <1>3
      <3> QED BY <1>1, <3>1, PartFacts
    <2> HIDE DEF t
    <2>2. ASSUME \A i \in 1..Len(u) : u[i] = s[i] PROVE u = t
      BY <2>1, <2>2, SeqEqual
    <2> QED BY <2>1, <2>2 DEF t
  <1> QED BY <1>2, <1>3 DEF IsPrefix

LEMMA ReverseFacts ==
  ASSUME NEW S, NEW s \in Seq(S)
  PROVE  /\ Reverse(s) \in Seq(S) /\ Len(Reverse(s)) = Len(s)
         /\ \A i \in 1..Len(s) : Reverse(s)[i] = s[(Len(s) - i) + 1]
  <1>1. Len(s) \in Nat
    BY LenProperties
  <1>2. \A i \in 1..Len(s) : s[(Len(s) - i) + 1] \in S
    BY <1>1
  <1>3. Reverse(s) \in [1..Len(s) -> S]
    BY <1>2 DEF Reverse
  <1> QED BY <1>1, <1>3 DEF Reverse

\* What is at its end.
LEMMA SuffixFacts ==
  ASSUME NEW S, NEW s \in Seq(S), NEW a \in S, NEW b \in S
  PROVE  /\ IsSuffix(<<a>>, s) <=> Len(s) >= 1 /\ s[Len(s)] = a
         /\ IsSuffix(<<a, b>>, s) <=> Len(s) >= 2 /\ s[Len(s) - 1] = a /\ s[Len(s)] = b
  <1> DEFINE r == Reverse(s)
             u == Reverse(<<a>>)
             v == Reverse(<<a, b>>)
  <1>1. Len(s) \in Nat
    BY LenProperties
  <1>2. r \in Seq(S) /\ Len(r) = Len(s) /\ \A i \in 1..Len(s) : r[i] = s[(Len(s) - i) + 1]
    BY ReverseFacts
  <1>3. u \in Seq(S) /\ Len(u) = 1 /\ u[1] = a
    <2>1. PICK e : e = <<a>>
      OBVIOUS
    <2>2. e \in Seq(S) /\ Len(e) = 1 /\ e[1] = a
      BY <2>1, TupleFacts
    <2>3. Reverse(e) \in Seq(S) /\ Len(Reverse(e)) = 1 /\ Reverse(e)[1] = a
      BY <2>2, ReverseFacts
    <2> QED BY <2>1, <2>3
  <1>4. v \in Seq(S) /\ Len(v) = 2 /\ v[1] = b /\ v[2] = a
    BY TupleFacts, ReverseFacts
  <1> HIDE DEF r, u, v
  <1>5. IsPrefix(u, r) <=> 1 <= Len(s) /\ a = r[1]
    <2>1. IsPrefix(u, r) <=> Len(u) <= Len(r) /\ \A i \in 1..Len(u) : u[i] = r[i]
      BY <1>2, <1>3, PrefixFacts
    <2>2. 1..Len(u) = {1}
      BY <1>3
    <2> QED BY <1>2, <1>3, <2>1, <2>2
  <1>6. IsPrefix(v, r) <=> 2 <= Len(s) /\ b = r[1] /\ a = r[2]
    <2>1. IsPrefix(v, r) <=> Len(v) <= Len(r) /\ \A i \in 1..Len(v) : v[i] = r[i]
      <3>1. v \in Seq(S) /\ r \in Seq(S)
        BY <1>2, <1>4
      <3> QED BY <3>1, PrefixFacts
    <2>2. 1..Len(v) = {1, 2}
      BY <1>4
    <2> QED BY <1>2, <1>4, <2>1, <2>2
  <1>7. /\ Len(s) >= 1 => r[1] = s[Len(s)]
        /\ Len(s) >= 2 => r[2] = s[Len(s) - 1]
    BY <1>1, <1>2
  <1>8. IsSuffix(<<a>>, s) <=> IsPrefix(u, r)
    BY DEF IsSuffix, r, u
  <1>9. IsSuffix(<<a, b>>, s) <=> IsPrefix(v, r)
    BY DEF IsSuffix, r, v
  <1> QED BY <1>1, <1>5, <1>6, <1>7, <1>8, <1>9

LEMMA LastFacts ==
  ASSUME NEW S, NEW s \in Seq(S), NEW a \in S
  PROVE  IsSuffix(<<a>>, s) <=> Len(s) >= 1 /\ s[Len(s)] = a
  <1>1. \A b \in S : IsSuffix(<<a>>, s) <=> Len(s) >= 1 /\ s[Len(s)] = a
    BY SuffixFacts
  <1> QED BY <1>1

\* The last place of a character, and the first.
LEMMA FindFacts ==
  ASSUME NEW s \in Seq(Character), NEW c, NEW m \in 1..Len(s), s[m] = c
  PROVE  /\ (\A i \in (m + 1)..Len(s) : s[i] # c) => FindLast(s, c) = m
         /\ (\A i \in 1..(m - 1) : s[i] # c) => FindFirst(s, c) = m
  <1> DEFINE I == {i \in 1..Len(s) : s[i] = c}
  <1>1. Len(s) \in Nat /\ m \in I
    BY LenProperties
  <1>2. ASSUME \A i \in (m + 1)..Len(s) : s[i] # c PROVE FindLast(s, c) = m
    <2>1. \A i \in I : m >= i
      BY <1>1, <1>2
    <2>2. \A x \in I : (\A y \in I : x >= y) => x = m
      BY <1>1, <2>1
    <2>3. Max(I) = m
      <3> HIDE DEF I
      <3> QED BY <1>1, <2>1, <2>2 DEF Max
    <2> QED BY <1>1, <2>3 DEF FindLast, SelectLastInSeq
  <1>3. ASSUME \A i \in 1..(m - 1) : s[i] # c PROVE FindFirst(s, c) = m
    <2>1. \A i \in I : m <= i
      BY <1>1, <1>3
    <2>2. \A x \in I : (\A y \in I : x <= y) => x = m
      BY <1>1, <2>1
    <2>3. Min(I) = m
      <3> HIDE DEF I
      <3> QED BY <1>1, <2>1, <2>2 DEF Min
    <2> QED BY <1>1, <2>3 DEF FindFirst, SelectInSeq
  <1> QED BY <1>2, <1>3

\* A character that is in a sequence has a last place.
LEMMA LastExists ==
  ASSUME NEW s \in Seq(Character), NEW c, NEW i \in 1..Len(s), s[i] = c
  PROVE  \E m \in 1..Len(s) : s[m] = c /\ \A j \in (m + 1)..Len(s) : s[j] # c
  <1> DEFINE Has(k) == \E j \in 1..k : s[j] = c
             HasLast(k) == \E m \in 1..k : s[m] = c /\ \A j \in (m + 1)..k : s[j] # c
             K == {k \in Nat : k <= Len(s) /\ Has(k) => HasLast(k)}
  <1>1. Len(s) \in Nat
    BY LenProperties
  <1>2. 0 \in K
    OBVIOUS
  <1>3. ASSUME NEW k \in Nat, k \in K PROVE k + 1 \in K
    <2> SUFFICES ASSUME k + 1 <= Len(s), Has(k + 1) PROVE HasLast(k + 1)
      OBVIOUS
    <2>1. CASE s[k + 1] = c
      <3>1. k + 1 \in 1..(k + 1) /\ \A j \in ((k + 1) + 1)..(k + 1) : s[j] # c
        OBVIOUS
      <3> QED BY <2>1, <3>1
    <2>2. CASE s[k + 1] # c
      <3>1. Has(k)
        BY <2>2
      <3>2. PICK m \in 1..k : s[m] = c /\ \A j \in (m + 1)..k : s[j] # c
        BY <1>1, <1>3, <3>1
      <3>3. m \in 1..(k + 1) /\ \A j \in (m + 1)..(k + 1) : s[j] # c
        BY <2>2, <3>2
      <3> QED BY <3>2, <3>3
    <2> QED BY <2>1, <2>2
  <1>4. Len(s) \in K
    <2> HIDE DEF K
    <2> QED BY <1>1, <1>2, <1>3, SetInduction
  <1> QED BY <1>1, <1>4

\* And a first.
LEMMA FirstExists ==
  ASSUME NEW s \in Seq(Character), NEW c, NEW i \in 1..Len(s), s[i] = c
  PROVE  \E m \in 1..Len(s) : s[m] = c /\ \A j \in 1..(m - 1) : s[j] # c
  <1> DEFINE Has(k) == \E j \in 1..k : s[j] = c
             HasFirst(k) == \E m \in 1..k : s[m] = c /\ \A j \in 1..(m - 1) : s[j] # c
             K == {k \in Nat : k <= Len(s) /\ Has(k) => HasFirst(k)}
  <1>1. Len(s) \in Nat
    BY LenProperties
  <1>2. 0 \in K
    OBVIOUS
  <1>3. ASSUME NEW k \in Nat, k \in K PROVE k + 1 \in K
    <2> SUFFICES ASSUME k + 1 <= Len(s), Has(k + 1) PROVE HasFirst(k + 1)
      OBVIOUS
    <2>1. CASE Has(k)
      <3>1. PICK m \in 1..k : s[m] = c /\ \A j \in 1..(m - 1) : s[j] # c
        BY <1>1, <1>3, <2>1
      <3>2. m \in 1..(k + 1)
        OBVIOUS
      <3> QED BY <3>1, <3>2
    <2>2. CASE ~Has(k)
      <3>1. s[k + 1] = c
        BY <2>2
      <3>2. k + 1 \in 1..(k + 1) /\ \A j \in 1..((k + 1) - 1) : s[j] # c
        BY <2>2
      <3> QED BY <3>1, <3>2
    <2> QED BY <2>1, <2>2
  <1>4. Len(s) \in K
    <2> HIDE DEF K
    <2> QED BY <1>1, <1>2, <1>3, SetInduction
  <1> QED BY <1>1, <1>4

-----------------------------------------------------------------------------
(* Paths.                                                                   *)

\* The root that a path begins with is a drive, or it is a share and followed by
\* names; and it is a drive itself, or ends with a name.
OnDrive(path) == path[1] # Backslash /\ path[2] = ":" /\ path[3] = Backslash
OnShare(path) == /\ path[1] = Backslash /\ path[2] = Backslash
                 /\ \E i \in 3..Len(path) : path[i] = Backslash
Located(path) ==
  /\ path \in Seq(Character) /\ Len(path) >= 3
  /\ \A i \in 1..Len(path) : path[i] # "/"
  /\ OnDrive(path) \/ OnShare(path)
  /\ path[Len(path)] \in {Backslash, ":"} => Len(path) = 3 /\ OnDrive(path)

LEMMA Characters ==
  /\ Backslash \in Character /\ ":" \in Character
  /\ "." \in Character /\ "sdPlugin" \in Character
  /\ Backslash # "." /\ Backslash # ":" /\ "." # "sdPlugin"
  <1>1. /\ Backslash \in Character /\ ":" \in Character
        /\ "." \in Character /\ "sdPlugin" \in Character
    BY DEF Character
  <1>2. Backslash # "." /\ Backslash # ":" /\ "." # "sdPlugin"
    BY DEF Backslash
  <1> QED BY <1>1, <1>2

\* Backslashes are the delimiters.
LEMMA DelimiterFacts ==
  ASSUME NEW path, Located(path)
  PROVE  Delimiter(path) = Backslash /\ Contains(path, Backslash)
  <1>1. Len(path) \in Nat
    BY LenProperties DEF Located
  <1>2. \E i \in 1..Len(path) : path[i] = Backslash
    BY <1>1 DEF Located, OnDrive, OnShare
  <1> QED BY <1>2 DEF Delimiter, Contains

\* Nothing is removed from a path that ends with a name.
LEMMA TrimmedFacts ==
  ASSUME NEW path \in Seq(Character), path # <<>>, path[Len(path)] # Backslash
  PROVE  Trimmed(path, Backslash) = path
  <1> DEFINE L == Len(path)
             I == {i \in 1..L : path[i] # Backslash}
  <1>1. L \in Nat /\ L >= 1
    BY EmptySeq, LenProperties
  <1>2. L \in I /\ \A i \in I : L >= i
    BY <1>1
  <1>3. \A x \in I : (\A y \in I : x >= y) => x = L
    BY <1>1, <1>2
  <1>4. Max(I) = L
    <2> HIDE DEF I
    <2> QED BY <1>2, <1>3 DEF Max
  <1>5. SubSeq(path, 1, L) = path
    BY SubSeqFull
  <1>6. Trimmed(path, Backslash) = LET last == IF I # {} THEN Max(I) ELSE 0
                                   IN IF last = 0 /\ path # <<>> THEN <<Backslash>> ELSE SubSeq(path, 1, last)
    BY DEF Trimmed, SelectLastInSeq
  <1> HIDE DEF I
  <1> QED BY <1>1, <1>2, <1>4, <1>5, <1>6

\* The name of a file is what follows the last delimiter.
LEMMA FileNameFacts ==
  ASSUME NEW path, Located(path), NEW m \in 1..(Len(path) - 1), path[m] = Backslash,
         \A i \in (m + 1)..Len(path) : path[i] \notin {Backslash, ":"}
  PROVE  GetFileName(path) = SubSeq(path, m + 1, Len(path))
  <1>1. /\ path \in Seq(Character) /\ Len(path) \in Nat /\ path # <<>>
        /\ path[Len(path)] # Backslash /\ m \in 1..Len(path)
    BY LenProperties, EmptySeq DEF Located
  <1>2. Delimiter(path) = Backslash /\ Contains(path, Backslash)
    BY DelimiterFacts
  <1>3. Trimmed(path, Backslash) = path
    BY <1>1, TrimmedFacts
  <1>4. ~HasSuffix(path, <<":", Backslash>>)
    BY <1>1, Characters, SuffixFacts DEF HasSuffix
  <1>5. path # <<Backslash>>
    BY DEF Located
  <1>6. FindLast(path, Backslash) = m
    BY <1>1, FindFacts
  <1> QED BY <1>2, <1>3, <1>4, <1>5, <1>6 DEF GetFileName

LEMMA LastTwo ==
  ASSUME NEW S, NEW s \in Seq(S), Len(s) >= 2
  PROVE  SubSeq(s, Len(s) - 1, Len(s)) = <<s[Len(s) - 1], s[Len(s)]>>
  <1> DEFINE L == Len(s)
             t == SubSeq(s, L - 1, L)
  <1>1. L \in Nat
    BY LenProperties
  <1>2. t \in Seq(S) /\ Len(t) = 2 /\ t[1] = s[L - 1] /\ t[2] = s[L]
    <2>1. L - 1 \in 1..(L + 1) /\ L \in ((L - 1) - 1)..L
      BY <1>1
    <2> HIDE DEF t
    <2>2. /\ t \in Seq(S) /\ Len(t) = (L - (L - 1)) + 1
          /\ \A i \in 1..((L - (L - 1)) + 1) : t[i] = s[((L - 1) + i) - 1]
      BY <2>1, PartFacts DEF t
    <2> QED BY <1>1, <2>2
  <1> HIDE DEF t
  <1>3. t = <<t[1], t[2]>>
    <2>1. t[1] \in S /\ t[2] \in S
      BY <1>2
    <2>2. PICK e : e = <<t[1], t[2]>>
      OBVIOUS
    <2>3. e \in Seq(S) /\ Len(e) = 2 /\ e[1] = t[1] /\ e[2] = t[2]
      BY <2>1, <2>2, TupleFacts
    <2>4. \A i \in 1..Len(t) : t[i] = e[i]
      <3>1. 1..Len(t) = {1, 2}
        BY <1>2
      <3> QED BY <2>3, <3>1
    <2>5. t = e
      BY <1>2, <2>3, <2>4, SeqEqual
    <2> QED BY <2>2, <2>5
  <1> QED BY <1>2, <1>3 DEF t

\* Whether it has an extension, and which.
LEMMA ExtensionFacts ==
  ASSUME NEW path, Located(path), NEW m \in 1..(Len(path) - 1), path[m] = Backslash,
         \A i \in (m + 1)..Len(path) : path[i] \notin {Backslash, ":"}
  PROVE  GetExtension(path) = Suffix <=> IsSuffix(Suffix, path)
  <1> DEFINE name == SubSeq(path, m + 1, Len(path))
             L == Len(name)
             dot == FindLast(name, ".")
  <1>1. GetFileName(path) = name
    BY FileNameFacts
  <1>2. /\ name \in Seq(Character) /\ L = Len(path) - m /\ L \in Nat /\ L >= 1
        /\ \A i \in 1..L : name[i] = path[m + i]
        /\ path \in Seq(Character) /\ Len(path) \in Nat
    <2>1. path \in Seq(Character) /\ Len(path) \in Nat
      BY LenProperties DEF Located
    <2>2. m + 1 \in 1..(Len(path) + 1) /\ Len(path) \in ((m + 1) - 1)..Len(path)
      BY <2>1
    <2> HIDE DEF name
    <2>3. /\ name \in Seq(Character) /\ L = (Len(path) - (m + 1)) + 1
          /\ \A i \in 1..((Len(path) - (m + 1)) + 1) : name[i] = path[((m + 1) + i) - 1]
      BY <2>1, <2>2, PartFacts DEF name
    <2> QED BY <2>1, <2>3
  <1> HIDE DEF name
  <1>3. IsSuffix(Suffix, path) <=> L >= 2 /\ name[L - 1] = "." /\ name[L] = "sdPlugin"
    <2>1. IsSuffix(Suffix, path) <=>
            Len(path) >= 2 /\ path[Len(path) - 1] = "." /\ path[Len(path)] = "sdPlugin"
      BY <1>2, Characters, SuffixFacts DEF Suffix
    <2>2. name[L] = path[Len(path)]
      <3>1. L \in 1..L /\ m + L = Len(path)
        BY <1>2
      <3> QED BY <1>2, <3>1
    <2>3. CASE L = 1
      <3>1. path[Len(path) - 1] = Backslash
        <4>1. Len(path) \in Nat /\ Len(path) - m = 1
          BY <1>2, <2>3
        <4>2. m \in Nat
          BY <4>1
        <4> QED BY <4>1, <4>2
      <3> QED BY <2>1, <2>3, <3>1, Characters
    <2>4. CASE L >= 2
      <3>1. name[L - 1] = path[Len(path) - 1]
        <4>1. L - 1 \in 1..L /\ m + (L - 1) = Len(path) - 1
          BY <1>2, <2>4
        <4> QED BY <1>2, <4>1
      <3>2. Len(path) >= 2
        BY <1>2, <2>4
      <3> QED BY <2>1, <2>2, <2>4, <3>1, <3>2
    <2> QED BY <1>2, <2>3, <2>4
  <1>4. GetExtension(path) = IF dot \in {0, L} THEN <<>> ELSE SubSeq(name, dot, L)
    BY <1>1 DEF GetExtension
  <1>5. CASE name[L] = "."
    <2>1. dot = L
      BY <1>2, <1>5, FindFacts
    <2>2. Suffix # <<>>
      BY DEF Suffix
    <2> QED BY <1>3, <1>4, <1>5, <2>1, <2>2
  <1>6. CASE L >= 2 /\ name[L] # "." /\ name[L - 1] = "."
    <2>1. dot = L - 1
      BY <1>2, <1>6, FindFacts
    <2>2. SubSeq(name, L - 1, L) = <<name[L - 1], name[L]>>
      BY <1>2, <1>6, LastTwo
    <2>3. GetExtension(path) = <<".", name[L]>>
      <3>1. L - 1 \notin {0, L}
        BY <1>2, <1>6
      <3> QED BY <1>4, <1>6, <2>1, <2>2, <3>1
    <2>4. GetExtension(path) = Suffix <=> name[L] = "sdPlugin"
      BY <2>3 DEF Suffix
    <2> QED BY <1>3, <1>6, <2>4
  <1>7. CASE name[L] # "." /\ ~(L >= 2 /\ name[L - 1] = ".")
    <2> SUFFICES ASSUME GetExtension(path) = Suffix PROVE FALSE
      BY <1>3, <1>7
    <2>1. dot \notin {0, L} /\ SubSeq(name, dot, L) = Suffix
      <3>1. Suffix # <<>>
        BY DEF Suffix
      <3> QED BY <1>4, <3>1
    <2>2. \E i \in 1..L : name[i] = "."
      <3> SUFFICES ASSUME \A i \in 1..L : name[i] # "." PROVE FALSE
        OBVIOUS
      <3>1. {i \in 1..L : name[i] = "."} = {}
        OBVIOUS
      <3>2. dot = 0
        BY <3>1 DEF FindLast, SelectLastInSeq
      <3> QED BY <2>1, <3>2
    <2>3. PICK m1 \in 1..L : name[m1] = "." /\ \A j \in (m1 + 1)..L : name[j] # "."
      <3>1. name \in Seq(Character)
        BY <1>2
      <3>2. PICK i \in 1..L : name[i] = "."
        BY <2>2
      <3> QED BY <3>1, <3>2, LastExists
    <2>4. dot = m1
      BY <1>2, <2>3, FindFacts
    <2>5. m1 \in Nat /\ m1 <= L - 2
      BY <1>2, <1>7, <2>3
    <2>6. Len(SubSeq(name, m1, L)) = (L - m1) + 1
      <3>1. m1 \in 1..(L + 1) /\ L \in (m1 - 1)..L
        BY <1>2, <2>3
      <3> QED BY <1>2, <3>1, PartFacts
    <2>7. Len(Suffix) = 2
      BY DEF Suffix
    <2>8. (L - m1) + 1 = 2
      BY <2>1, <2>4, <2>6, <2>7
    <2>9. L \in Nat
      BY <1>2
    <2> QED BY <2>5, <2>8, <2>9
  <1> QED BY <1>5, <1>6, <1>7

\* The path of a file in a folder: the folder's, a delimiter and the name.
IsBelow(path, name, q, m) ==
  /\ q \in Seq(Character) /\ m \in Nat /\ Len(name) \in Nat /\ Len(name) >= 1
  /\ Len(q) = m + Len(name) /\ q[m] = Backslash
  /\ m = IF path[Len(path)] = Backslash THEN Len(path) ELSE Len(path) + 1
  /\ \A i \in 1..Len(path) : q[i] = path[i]
  /\ \A i \in 1..Len(name) : q[m + i] = name[i]

LEMMA BelowShape ==
  ASSUME NEW path, Located(path), NEW name, IsName(name)
  PROVE  \E m : IsBelow(path, name, Below(path, name), m)
  <1>1. /\ path \in Seq(Character) /\ Len(path) \in Nat /\ Len(path) >= 3
        /\ name \in Seq(Character) /\ Len(name) \in Nat /\ Len(name) >= 1
    BY LenProperties, EmptySeq DEF Located, IsName
  <1>2. HasSuffix(path, <<Backslash>>) <=> path[Len(path)] = Backslash
    BY <1>1, Characters, LastFacts DEF HasSuffix
  <1>3. CASE path[Len(path)] = Backslash
    <2>1. Below(path, name) = path \o name
      <3>1. path \o <<>> = path
        BY <1>1, ConcatEmptySeq
      <3> QED BY <1>2, <1>3, <3>1 DEF Below
    <2>2. IsBelow(path, name, path \o name, Len(path))
      <3>1. /\ path \o name \in Seq(Character)
            /\ Len(path \o name) = Len(path) + Len(name)
            /\ \A i \in 1..(Len(path) + Len(name)) :
                 (path \o name)[i] = IF i <= Len(path) THEN path[i] ELSE name[i - Len(path)]
        BY <1>1, ConcatProperties
      <3>2. \A i \in 1..Len(path) : (path \o name)[i] = path[i]
        BY <1>1, <3>1
      <3>3. \A i \in 1..Len(name) : (path \o name)[Len(path) + i] = name[i]
        <4> TAKE i \in 1..Len(name)
        <4>1. /\ Len(path) + i \in 1..(Len(path) + Len(name))
              /\ ~(Len(path) + i <= Len(path)) /\ (Len(path) + i) - Len(path) = i
          BY <1>1
        <4> QED BY <3>1, <4>1
      <3>4. (path \o name)[Len(path)] = Backslash
        BY <1>1, <1>3, <3>2
      <3> QED BY <1>1, <1>3, <3>1, <3>2, <3>3, <3>4 DEF IsBelow
    <2> QED BY <2>1, <2>2
  <1>4. CASE path[Len(path)] # Backslash
    <2> DEFINE front == path \o <<Backslash>>
               m == Len(path) + 1
    <2>1. Below(path, name) = front \o name
      BY <1>2, <1>4 DEF Below
    <2>2. /\ front \in Seq(Character) /\ Len(front) = m
          /\ \A i \in 1..Len(path) : front[i] = path[i]
          /\ front[m] = Backslash
      <3>1. PICK b : b = <<Backslash>>
        OBVIOUS
      <3>2. b \in Seq(Character) /\ Len(b) = 1 /\ b[1] = Backslash
        BY <3>1, Characters, TupleFacts
      <3>3. /\ path \o b \in Seq(Character)
            /\ Len(path \o b) = Len(path) + 1
            /\ \A i \in 1..(Len(path) + 1) :
                 (path \o b)[i] = IF i <= Len(path) THEN path[i] ELSE b[i - Len(path)]
        BY <1>1, <3>2, ConcatProperties
      <3>4. m \in 1..(Len(path) + 1) /\ ~(m <= Len(path)) /\ m - Len(path) = 1
        BY <1>1
      <3>5. (path \o b)[m] = Backslash
        BY <3>2, <3>3, <3>4
      <3>6. \A i \in 1..Len(path) : (path \o b)[i] = path[i]
        BY <1>1, <3>3
      <3> QED BY <3>1, <3>3, <3>5, <3>6
    <2> HIDE DEF front
    <2>3. /\ front \o name \in Seq(Character)
          /\ Len(front \o name) = m + Len(name)
          /\ \A i \in 1..(m + Len(name)) :
               (front \o name)[i] = IF i <= m THEN front[i] ELSE name[i - m]
      <3>1. /\ front \o name \in Seq(Character)
            /\ Len(front \o name) = Len(front) + Len(name)
            /\ \A i \in 1..(Len(front) + Len(name)) :
                 (front \o name)[i] = IF i <= Len(front) THEN front[i] ELSE name[i - Len(front)]
        BY <1>1, <2>2, ConcatProperties
      <3> QED BY <2>2, <3>1
    <2>4. \A i \in 1..Len(path) : (front \o name)[i] = path[i]
      <3> TAKE i \in 1..Len(path)
      <3>1. i \in 1..(m + Len(name)) /\ i <= m
        BY <1>1
      <3> QED BY <2>2, <2>3, <3>1
    <2>5. \A i \in 1..Len(name) : (front \o name)[m + i] = name[i]
      <3> TAKE i \in 1..Len(name)
      <3>1. m + i \in 1..(m + Len(name)) /\ ~(m + i <= m) /\ (m + i) - m = i
        BY <1>1
      <3> QED BY <2>3, <3>1
    <2>6. (front \o name)[m] = Backslash
      <3>1. m \in 1..(m + Len(name)) /\ m <= m
        BY <1>1
      <3> QED BY <2>2, <2>3, <3>1
    <2>7. m \in Nat
      BY <1>1
    <2> HIDE DEF m
    <2>8. m = IF path[Len(path)] = Backslash THEN Len(path) ELSE Len(path) + 1
      BY <1>4 DEF m
    <2> QED BY <1>1, <2>1, <2>3, <2>4, <2>5, <2>6, <2>7, <2>8 DEF IsBelow
  <1> QED BY <1>3, <1>4

\* What there is to know of the characters of such a path.
LEMMA BelowFacts ==
  ASSUME NEW path, Located(path), NEW name, IsName(name), NEW q, NEW m, IsBelow(path, name, q, m)
  PROVE  /\ Located(q) /\ m \in 1..(Len(q) - 1) /\ m \in 1..Len(q) /\ m >= Len(path)
         /\ q \in Seq(Character) /\ q # <<>> /\ Len(q) \in Nat
         /\ \A i \in (m + 1)..Len(q) : q[i] \notin {Backslash, ":"}
  <1>1. /\ path \in Seq(Character) /\ Len(path) \in Nat /\ Len(path) >= 3
        /\ name \in Seq(Character) /\ Len(name) \in Nat /\ Len(name) >= 1
        /\ \A i \in 1..Len(path) : path[i] # "/"
        /\ \A i \in 1..Len(name) : name[i] \notin {Backslash, "/", ":"}
    BY LenProperties, EmptySeq DEF Located, IsName
  <1>2. /\ q \in Seq(Character) /\ m \in Nat /\ Len(q) = m + Len(name) /\ q[m] = Backslash
        /\ m >= Len(path) /\ m <= Len(path) + 1
        /\ \A i \in 1..Len(path) : q[i] = path[i]
        /\ \A i \in 1..Len(name) : q[m + i] = name[i]
    BY <1>1 DEF IsBelow
  <1>3. m \in 1..(Len(q) - 1) /\ m \in 1..Len(q) /\ Len(q) \in Nat /\ Len(q) >= 4
    BY <1>1, <1>2
  <1>4. \A i \in (m + 1)..Len(q) : q[i] \notin {Backslash, "/", ":"}
    <2> TAKE i \in (m + 1)..Len(q)
    <2>1. i - m \in 1..Len(name) /\ m + (i - m) = i
      BY <1>1, <1>2
    <2> QED BY <1>1, <1>2, <2>1
  <1>5. \A i \in 1..Len(q) : q[i] # "/"
    <2> TAKE i \in 1..Len(q)
    <2>1. i <= Len(path) \/ i = m \/ i \in (m + 1)..Len(q)
      BY <1>1, <1>2
    <2>2. CASE i <= Len(path)
      <3>1. i \in 1..Len(path)
        BY <2>2
      <3> QED BY <1>1, <1>2, <3>1
    <2>3. CASE i = m
      BY <1>2, <2>3 DEF Backslash
    <2>4. CASE i \in (m + 1)..Len(q)
      BY <1>4, <2>4
    <2> QED BY <2>1, <2>2, <2>3, <2>4
  <1>6. q[1] = path[1] /\ q[2] = path[2] /\ q[3] = path[3]
    BY <1>1, <1>2
  <1>7. OnDrive(q) \/ OnShare(q)
    <2>1. m \in 3..Len(q)
      BY <1>1, <1>2, <1>3
    <2> QED BY <1>2, <1>6, <2>1 DEF Located, OnDrive, OnShare
  <1>8. q[Len(q)] \notin {Backslash, ":"}
    <2>1. Len(q) \in (m + 1)..Len(q)
      BY <1>1, <1>2
    <2> QED BY <1>4, <2>1
  <1>9. Located(q)
    BY <1>2, <1>3, <1>5, <1>7, <1>8 DEF Located
  <1>10. q # <<>>
    BY <1>3
  <1> QED BY <1>2, <1>3, <1>4, <1>9, <1>10

\* The folder is a part of the path.
LEMMA BelowPrefix ==
  ASSUME NEW path, Located(path), NEW name, IsName(name), NEW q, NEW m, IsBelow(path, name, q, m)
  PROVE  /\ SubSeq(q, 1, Len(path)) = path /\ IsStrictPrefix(path, q)
         /\ Len(q) > Len(path)
  <1>1. /\ path \in Seq(Character) /\ Len(path) \in Nat /\ q \in Seq(Character)
        /\ Len(q) \in Nat /\ Len(q) > Len(path)
    BY BelowFacts, LenProperties DEF Located
  <1>2. \A i \in 1..Len(path) : path[i] = q[i]
    BY DEF IsBelow
  <1>3. IsPrefix(path, q)
    BY <1>1, <1>2, PrefixFacts
  <1>4. SubSeq(path, 1, Len(path)) = path
    BY <1>1, SubSeqFull
  <1> QED BY <1>1, <1>3, <1>4 DEF IsPrefix, IsStrictPrefix

LEMMA BelowFileName ==
  ASSUME NEW path, Located(path), NEW name, IsName(name), NEW q, NEW m, IsBelow(path, name, q, m)
  PROVE  /\ GetFileName(q) = name
         /\ GetExtension(q) = Suffix <=> IsSuffix(Suffix, q)
  <1>1. /\ Located(q) /\ m \in 1..(Len(q) - 1) /\ m \in Nat /\ q[m] = Backslash
        /\ q \in Seq(Character) /\ Len(q) \in Nat
        /\ \A i \in (m + 1)..Len(q) : q[i] \notin {Backslash, ":"}
        /\ Len(q) = m + Len(name) /\ name \in Seq(Character) /\ Len(name) \in Nat
        /\ \A i \in 1..Len(name) : q[m + i] = name[i]
    <2>1. /\ Located(q) /\ m \in 1..(Len(q) - 1) /\ q \in Seq(Character) /\ Len(q) \in Nat
          /\ \A i \in (m + 1)..Len(q) : q[i] \notin {Backslash, ":"}
      BY BelowFacts
    <2>2. name \in Seq(Character)
      BY DEF IsName
    <2> QED BY <2>1, <2>2 DEF IsBelow
  <1> DEFINE t == SubSeq(q, m + 1, Len(q))
  <1>2. GetFileName(q) = t
    BY <1>1, FileNameFacts
  <1>3. t \in Seq(Character) /\ Len(t) = Len(name) /\ \A i \in 1..Len(name) : t[i] = name[i]
    <2>1. m + 1 \in 1..(Len(q) + 1) /\ Len(q) \in ((m + 1) - 1)..Len(q)
      BY <1>1
    <2> HIDE DEF t
    <2>2. /\ t \in Seq(Character) /\ Len(t) = (Len(q) - (m + 1)) + 1
          /\ \A i \in 1..((Len(q) - (m + 1)) + 1) : t[i] = q[((m + 1) + i) - 1]
      BY <1>1, <2>1, PartFacts DEF t
    <2>3. (Len(q) - (m + 1)) + 1 = Len(name)
      BY <1>1
    <2>4. \A i \in 1..Len(name) : t[i] = name[i]
      <3> TAKE i \in 1..Len(name)
      <3>1. ((m + 1) + i) - 1 = m + i
        BY <1>1
      <3> QED BY <1>1, <2>2, <2>3, <3>1
    <2> QED BY <2>2, <2>3, <2>4
  <1>4. t = name
    <2> HIDE DEF t
    <2> QED BY <1>1, <1>3, SeqEqual
  <1>5. GetExtension(q) = Suffix <=> IsSuffix(Suffix, q)
    BY <1>1, ExtensionFacts
  <1> QED BY <1>2, <1>4, <1>5

\* What is below a root is not a root.
LEMMA BelowNoRoot ==
  ASSUME NEW path, Located(path), NEW name, IsName(name), NEW q, NEW m, IsBelow(path, name, q, m)
  PROVE  ~IsNetworkDriveRoot(q) /\ ~HasSuffix(q, <<":", Backslash>>)
  <1>1. /\ Located(q) /\ m \in 1..(Len(q) - 1) /\ m \in Nat /\ q[m] = Backslash
        /\ q \in Seq(Character) /\ Len(q) \in Nat /\ Len(q) >= 3
        /\ \A i \in (m + 1)..Len(q) : q[i] \notin {Backslash, ":"}
        /\ path \in Seq(Character) /\ Len(path) \in Nat /\ Len(path) >= 3
        /\ \A i \in 1..Len(path) : q[i] = path[i]
        /\ m = IF path[Len(path)] = Backslash THEN Len(path) ELSE Len(path) + 1
    <2>1. /\ Located(q) /\ m \in 1..(Len(q) - 1) /\ q \in Seq(Character) /\ Len(q) \in Nat
          /\ \A i \in (m + 1)..Len(q) : q[i] \notin {Backslash, ":"}
      BY BelowFacts
    <2>2. path \in Seq(Character) /\ Len(path) \in Nat /\ Len(path) >= 3 /\ Len(q) >= 3
      BY <2>1, LenProperties DEF Located
    <2> QED BY <2>1, <2>2 DEF IsBelow
  <1>2. ~HasSuffix(q, <<":", Backslash>>)
    <2>1. q[Len(q)] # Backslash
      BY <1>1
    <2> QED BY <1>1, <2>1, Characters, SuffixFacts DEF HasSuffix
  <1>3. ASSUME IsNetworkDriveRoot(q) PROVE FALSE
    <2> DEFINE rest == SubSeq(q, 3, Len(q))
    <2>1. HasPrefix(q, <<Backslash, Backslash>>) /\ FindFirst(rest, Backslash) = FindLast(rest, Backslash)
      BY <1>1, <1>3, DelimiterFacts DEF IsNetworkDriveRoot
    <2>2. q[1] = Backslash
      <3>1. PICK u : u = <<Backslash, Backslash>>
        OBVIOUS
      <3>2. u \in Seq(Character) /\ Len(u) = 2 /\ u[1] = Backslash
        BY <3>1, Characters, TupleFacts
      <3>3. 1 \in 1..Len(u)
        BY <3>2
      <3>4. IsPrefix(u, q)
        BY <2>1, <3>1 DEF HasPrefix
      <3> QED BY <1>1, <3>2, <3>3, <3>4, PrefixFacts
    <2>3. path[1] = Backslash
      BY <1>1, <2>2
    <2>4. ~OnDrive(path) /\ OnShare(path)
      BY <2>3 DEF Located, OnDrive
    <2>5. m = Len(path) + 1
      BY <1>1, <2>4 DEF Located
    <2>6. PICK i \in 3..Len(path) : path[i] = Backslash
      BY <2>4 DEF OnShare
    <2>7. /\ rest \in Seq(Character) /\ Len(rest) = Len(q) - 2
          /\ \A j \in 1..(Len(q) - 2) : rest[j] = q[j + 2]
      <3>1. 3 \in 1..(Len(q) + 1) /\ Len(q) \in (3 - 1)..Len(q)
        BY <1>1
      <3> HIDE DEF rest
      <3>2. /\ rest \in Seq(Character) /\ Len(rest) = (Len(q) - 3) + 1
            /\ \A j \in 1..((Len(q) - 3) + 1) : rest[j] = q[(3 + j) - 1]
        BY <1>1, <3>1, PartFacts DEF rest
      <3> QED BY <1>1, <3>2
    <2> HIDE DEF rest
    <2>8. i - 2 \in 1..Len(rest) /\ m - 2 \in 1..Len(rest) /\ i < m
      BY <1>1, <2>5, <2>7
    <2>9. rest[i - 2] = Backslash /\ rest[m - 2] = Backslash
      BY <1>1, <2>5, <2>6, <2>7, <2>8
    <2>10. FindLast(rest, Backslash) = m - 2
      <3>1. \A j \in ((m - 2) + 1)..Len(rest) : rest[j] # Backslash
        BY <1>1, <2>5, <2>7
      <3>2. PICK n : n = m - 2
        OBVIOUS
      <3>3. /\ rest \in Seq(Character) /\ n \in 1..Len(rest) /\ rest[n] = Backslash
            /\ \A j \in (n + 1)..Len(rest) : rest[j] # Backslash
        BY <2>7, <2>8, <2>9, <3>1, <3>2
      <3>4. FindLast(rest, Backslash) = n
        BY <3>3, FindFacts
      <3> QED BY <3>2, <3>4
    <2>11. PICK k \in 1..Len(rest) : rest[k] = Backslash /\ \A j \in 1..(k - 1) : rest[j] # Backslash
      BY <2>7, <2>8, <2>9, FirstExists
    <2>12. FindFirst(rest, Backslash) = k
      BY <2>7, <2>11, FindFacts
    <2>13. k <= i - 2
      BY <2>8, <2>9, <2>11
    <2>14. m - 2 <= i - 2
      BY <2>1, <2>10, <2>12, <2>13
    <2> QED BY <1>1, <2>8, <2>14
  <1> QED BY <1>2, <1>3

\* The folder of what is below a folder is that folder.
LEMMA BelowFolder ==
  ASSUME NEW path, Located(path), NEW name, IsName(name), NEW q, NEW m, IsBelow(path, name, q, m)
  PROVE  GetFolderPath(q) = path
  <1> DEFINE found == SubSeq(q, 1, m - 1)
             folder == Trimmed(found, Backslash)
  <1>1. /\ Located(q) /\ m \in 1..(Len(q) - 1) /\ m \in 1..Len(q) /\ m \in Nat
        /\ q \in Seq(Character) /\ Len(q) \in Nat /\ q # <<>>
        /\ \A i \in (m + 1)..Len(q) : q[i] \notin {Backslash, ":"}
        /\ path \in Seq(Character) /\ Len(path) \in Nat /\ Len(path) >= 3
    BY BelowFacts, LenProperties DEF Located
  <1>2. /\ q[m] = Backslash /\ \A i \in 1..Len(path) : q[i] = path[i]
        /\ m = IF path[Len(path)] = Backslash THEN Len(path) ELSE Len(path) + 1
    BY DEF IsBelow
  <1>3. Delimiter(q) = Backslash /\ Contains(q, Backslash)
    BY <1>1, DelimiterFacts
  <1>4. Trimmed(q, Backslash) = q
    BY <1>1, TrimmedFacts
  <1>5. FindLast(q, Backslash) = m
    BY <1>1, <1>2, FindFacts
  <1>6. ~IsNetworkDriveRoot(q) /\ ~HasSuffix(q, <<":", Backslash>>)
    BY BelowNoRoot
  <1>7. GetFolderPath(q) =
          IF HasSuffix(found, <<":", Backslash>>) THEN found
          ELSE IF HasSuffix(found, <<":">>) THEN found \o <<Backslash>>
          ELSE IF folder = <<>> /\ Backslash = "/" THEN <<"/">>
          ELSE folder
    BY <1>3, <1>4, <1>5, <1>6 DEF GetFolderPath
  <1>8. found \in Seq(Character) /\ Len(found) = m - 1 /\ \A i \in 1..(m - 1) : found[i] = q[i]
    <2>1. 1 \in 1..(Len(q) + 1) /\ m - 1 \in (1 - 1)..Len(q)
      BY <1>1
    <2> HIDE DEF found
    <2>2. /\ found \in Seq(Character) /\ Len(found) = ((m - 1) - 1) + 1
          /\ \A i \in 1..(((m - 1) - 1) + 1) : found[i] = q[(1 + i) - 1]
      BY <1>1, <2>1, PartFacts DEF found
    <2> QED BY <1>1, <2>2
  <1> HIDE DEF found, folder
  <1>9. /\ HasSuffix(found, <<":", Backslash>>) <=>
             m - 1 >= 2 /\ found[m - 2] = ":" /\ found[m - 1] = Backslash
        /\ HasSuffix(found, <<":">>) <=> m - 1 >= 1 /\ found[m - 1] = ":"
    <2>1. HasSuffix(found, <<":">>) <=> Len(found) >= 1 /\ found[Len(found)] = ":"
      BY <1>8, Characters, LastFacts DEF HasSuffix
    <2>2. HasSuffix(found, <<":", Backslash>>) <=>
            Len(found) >= 2 /\ found[Len(found) - 1] = ":" /\ found[Len(found)] = Backslash
      BY <1>8, Characters, SuffixFacts DEF HasSuffix
    <2>3. Len(found) - 1 = m - 2
      BY <1>1, <1>8
    <2> QED BY <1>8, <2>1, <2>2, <2>3
  <1>10. CASE path[Len(path)] = Backslash
    <2>1. m = 3 /\ Len(path) = 3 /\ path[2] = ":" /\ path[3] = Backslash
      BY <1>2, <1>10 DEF Located, OnDrive
    <2>2. found[1] = path[1] /\ found[2] = ":" /\ Len(found) = 2
      BY <1>2, <1>8, <2>1
    <2>3. GetFolderPath(q) = found \o <<Backslash>>
      <3>1. m - 1 = 2
        BY <2>1
      <3>2. HasSuffix(found, <<":">>)
        BY <1>9, <2>2, <3>1
      <3>3. ~HasSuffix(found, <<":", Backslash>>)
        BY <1>9, <2>2, <3>1, Characters
      <3> QED BY <1>7, <3>2, <3>3
    <2>4. found \o <<Backslash>> = path
      <3>1. PICK b : b = <<Backslash>>
        OBVIOUS
      <3>2. b \in Seq(Character) /\ Len(b) = 1 /\ b[1] = Backslash
        BY <3>1, Characters, TupleFacts
      <3>3. /\ found \o b \in Seq(Character) /\ Len(found \o b) = 2 + 1
            /\ \A i \in 1..(2 + 1) : (found \o b)[i] = IF i <= 2 THEN found[i] ELSE b[i - 2]
        <4>1. /\ found \o b \in Seq(Character) /\ Len(found \o b) = Len(found) + Len(b)
              /\ \A i \in 1..(Len(found) + Len(b)) :
                   (found \o b)[i] = IF i <= Len(found) THEN found[i] ELSE b[i - Len(found)]
          BY <1>8, <3>2, ConcatProperties
        <4> QED BY <2>2, <3>2, <4>1
      <3>4. /\ (found \o b)[1] = path[1] /\ (found \o b)[2] = path[2]
            /\ (found \o b)[3] = path[3]
        BY <2>1, <2>2, <3>2, <3>3
      <3>5. \A i \in 1..Len(path) : (found \o b)[i] = path[i]
        <4>1. 1..Len(path) = {1, 2, 3}
          BY <2>1
        <4> QED BY <3>4, <4>1
      <3>6. found \o b = path
        <4>1. Len(found \o b) = Len(path)
          BY <2>1, <3>3
        <4> QED BY <1>1, <3>3, <3>5, <4>1, SeqEqual
      <3> QED BY <3>1, <3>6
    <2> QED BY <2>3, <2>4
  <1>11. CASE path[Len(path)] # Backslash
    <2>1. m - 1 = Len(path)
      BY <1>1, <1>2, <1>11
    <2>2. path[Len(path)] # ":"
      BY <1>11, Characters DEF Located, OnDrive
    <2>3. found = path
      <3>1. \A i \in 1..Len(path) : found[i] = path[i]
        BY <1>2, <1>8, <2>1
      <3> QED BY <1>1, <1>8, <2>1, <3>1, SeqEqual
    <2>4. folder = path
      <3>1. path # <<>>
        BY <1>1
      <3> QED BY <1>1, <1>11, <2>3, <3>1, TrimmedFacts DEF folder
    <2>5. Backslash # "/"
      BY DEF Backslash
    <2> QED BY <1>7, <1>9, <1>11, <2>1, <2>2, <2>3, <2>4, <2>5
  <1> QED BY <1>10, <1>11

\* AddPathComponent makes the path of what is below a folder.
LEMMA AddedFacts ==
  ASSUME NEW path, Located(path), NEW name, IsName(name)
  PROVE  AddPathComponent(path, name) = Below(path, name)
  <1> DEFINE q == Below(path, name)
  <1>1. PICK m : IsBelow(path, name, q, m)
    BY BelowShape
  <1>2. /\ path \in Seq(Character) /\ Len(path) \in Nat /\ Len(path) >= 3 /\ path # <<>>
        /\ name \in Seq(Character) /\ name # <<>> /\ Len(name) \in Nat /\ Len(name) >= 1
    BY LenProperties, EmptySeq DEF Located, IsName
  <1>3. IsDelimiter(Last(path)) <=> HasSuffix(path, <<Backslash>>)
    <2>1. HasSuffix(path, <<Backslash>>) <=> path[Len(path)] = Backslash
      BY <1>2, Characters, LastFacts DEF HasSuffix
    <2>2. Len(path) \in 1..Len(path)
      BY <1>2
    <2>3. path[Len(path)] # "/"
      BY <2>2 DEF Located
    <2> QED BY <2>1, <2>3 DEF IsDelimiter, Last
  <1>4. ~IsDelimiter(Head(name))
    <2>1. Head(name) = name[1]
      BY <1>2
    <2>2. 1 \in 1..Len(name)
      BY <1>2
    <2> QED BY <2>1, <2>2 DEF IsDelimiter, IsName
  <1>5. path \o <<>> = path
    BY <1>2, ConcatEmptySeq
  <1>6. AddPathComponent(path, name) = ReplaceAll(q, "/", Backslash)
    BY <1>2, <1>3, <1>4, <1>5 DEF AddPathComponent, Below
  <1>7. ReplaceAll(q, "/", Backslash) = q
    <2> HIDE DEF q
    <2>1. q \in Seq(Character) /\ \A i \in 1..Len(q) : q[i] # "/"
      BY <1>1, BelowFacts DEF Located
    <2>2. q = [i \in 1..Len(q) |-> q[i]]
      BY <2>1, LenProperties
    <2> QED BY <2>1, <2>2 DEF ReplaceAll
  <1> QED BY <1>6, <1>7

\* A drive.
LEMMA DriveFacts ==
  ASSUME NEW root, IsDrive(root)
  PROVE  /\ Located(root) /\ GetFolderPath(root) = root
         /\ HasSuffix(root, <<":", Backslash>>) /\ ~IsSuffix(Suffix, root)
  <1>1. /\ root \in Seq(Character) /\ Len(root) = 3 /\ root[2] = ":" /\ root[3] = Backslash
        /\ root[1] \notin {Backslash, "/", ":"}
    <2>1. IsName(<<root[1]>>)
      BY DEF IsDrive
    <2>2. PICK u : u = <<root[1]>>
      OBVIOUS
    <2>3. 1 \in 1..Len(u) /\ u[1] = root[1]
      BY <2>2
    <2>4. u[1] \notin {Backslash, "/", ":"}
      BY <2>1, <2>2, <2>3 DEF IsName
    <2> QED BY <2>3, <2>4 DEF IsDrive
  <1>2. \A i \in 1..Len(root) : root[i] # "/"
    <2>1. 1..Len(root) = {1, 2, 3}
      BY <1>1
    <2> QED BY <1>1, <2>1 DEF Backslash
  <1>3. Located(root)
    BY <1>1, <1>2 DEF Located, OnDrive
  <1>4. HasSuffix(root, <<":", Backslash>>)
    <2>1. Len(root) >= 2 /\ root[Len(root) - 1] = ":" /\ root[Len(root)] = Backslash
      BY <1>1
    <2> QED BY <1>1, <2>1, Characters, SuffixFacts DEF HasSuffix
  <1>5. ~IsSuffix(Suffix, root)
    <2>1. Backslash # "sdPlugin"
      BY DEF Backslash
    <2>2. root \in Seq(Character) /\ root[Len(root)] # "sdPlugin"
      BY <1>1, <2>1
    <2> QED BY <2>2, Characters, SuffixFacts DEF Suffix
  <1>6. Delimiter(root) = Backslash
    BY <1>3, DelimiterFacts
  <1> QED BY <1>3, <1>4, <1>5, <1>6 DEF GetFolderPath

\* A share.
LEMMA ShareFacts ==
  ASSUME NEW root, IsShare(root)
  PROVE  /\ Located(root) /\ GetFolderPath(root) = root
         /\ ~HasSuffix(root, <<":", Backslash>>)
         /\ GetExtension(root) = Suffix <=> IsSuffix(Suffix, root)
  <1> DEFINE L == Len(root)
             rest == SubSeq(root, 3, L)
  <1>1. /\ root \in Seq(Character) /\ L > 4 /\ root[1] = Backslash /\ root[2] = Backslash
        /\ L \in Nat
    BY LenProperties DEF IsShare
  <1>2. PICK i \in 4..(L - 1) : /\ root[i] = Backslash
                                /\ IsName(SubSeq(root, 3, i - 1))
                                /\ IsName(SubSeq(root, i + 1, L))
    BY DEF IsShare
  <1>3. \A j \in 3..L : j # i => root[j] \notin {Backslash, "/", ":"}
    <2> SUFFICES ASSUME NEW j \in 3..L, j # i PROVE root[j] \notin {Backslash, "/", ":"}
      OBVIOUS
    <2>1. CASE j < i
      <3> DEFINE server == SubSeq(root, 3, i - 1)
      <3>1. 3 \in 1..(L + 1) /\ i - 1 \in (3 - 1)..L
        BY <1>1, <1>2
      <3>2. Len(server) = ((i - 1) - 3) + 1 /\ \A n \in 1..(((i - 1) - 3) + 1) : server[n] = root[(3 + n) - 1]
        BY <1>1, <3>1, PartFacts
      <3> HIDE DEF server
      <3>3. j - 2 \in 1..Len(server) /\ j - 2 \in 1..(((i - 1) - 3) + 1) /\ (3 + (j - 2)) - 1 = j
        BY <1>1, <1>2, <2>1, <3>2
      <3>4. server[j - 2] = root[j]
        BY <3>2, <3>3
      <3> QED BY <1>2, <3>3, <3>4 DEF IsName, server
    <2>2. CASE j > i
      <3> DEFINE share == SubSeq(root, i + 1, L)
      <3>1. i + 1 \in 1..(L + 1) /\ L \in ((i + 1) - 1)..L
        BY <1>1, <1>2
      <3>2. Len(share) = (L - (i + 1)) + 1 /\ \A n \in 1..((L - (i + 1)) + 1) : share[n] = root[((i + 1) + n) - 1]
        BY <1>1, <3>1, PartFacts
      <3> HIDE DEF share
      <3>3. j - i \in 1..Len(share) /\ j - i \in 1..((L - (i + 1)) + 1) /\ ((i + 1) + (j - i)) - 1 = j
        BY <1>1, <1>2, <2>2, <3>2
      <3>4. share[j - i] = root[j]
        BY <3>2, <3>3
      <3> QED BY <1>2, <3>3, <3>4 DEF IsName, share
    <2> QED BY <1>2, <2>1, <2>2
  <1>4. root[L] \notin {Backslash, ":"}
    <2>1. L \in 3..L /\ L # i
      BY <1>1, <1>2
    <2> QED BY <1>3, <2>1
  <1>5. Located(root)
    <2>1. \A j \in 1..L : root[j] # "/"
      <3> TAKE j \in 1..L
      <3>1. j = 1 \/ j = 2 \/ j = i \/ (j \in 3..L /\ j # i)
        BY <1>1
      <3>2. Backslash # "/"
        BY DEF Backslash
      <3> QED BY <1>1, <1>2, <1>3, <3>1, <3>2
    <2>2. OnShare(root)
      <3>1. i \in 3..L
        BY <1>1, <1>2
      <3> QED BY <1>1, <1>2, <3>1 DEF OnShare
    <2> QED BY <1>1, <1>4, <2>1, <2>2 DEF Located
  <1>6. GetExtension(root) = Suffix <=> IsSuffix(Suffix, root)
    <2>1. i \in 1..(L - 1)
      BY <1>1, <1>2
    <2>2. \A j \in (i + 1)..L : root[j] \notin {Backslash, ":"}
      BY <1>1, <1>2, <1>3
    <2> QED BY <1>2, <1>5, <2>1, <2>2, ExtensionFacts
  <1>7. Delimiter(root) = Backslash
    BY <1>5, DelimiterFacts
  <1>8. IsNetworkDriveRoot(root)
    <2>1. HasPrefix(root, <<Backslash, Backslash>>)
      <3>1. PICK u : u = <<Backslash, Backslash>>
        OBVIOUS
      <3>2. u \in Seq(Character) /\ Len(u) = 2 /\ u[1] = Backslash /\ u[2] = Backslash
        BY <3>1, Characters, TupleFacts
      <3>3. Len(u) <= L /\ \A n \in 1..Len(u) : u[n] = root[n]
        <4>1. 1..Len(u) = {1, 2}
          BY <3>2
        <4> QED BY <1>1, <3>2, <4>1
      <3>4. IsPrefix(u, root)
        BY <1>1, <3>2, <3>3, PrefixFacts
      <3> QED BY <3>1, <3>4 DEF HasPrefix
    <2>2. /\ rest \in Seq(Character) /\ Len(rest) = L - 2
          /\ \A j \in 1..(L - 2) : rest[j] = root[j + 2]
      <3>1. 3 \in 1..(L + 1) /\ L \in (3 - 1)..L
        BY <1>1
      <3> HIDE DEF rest
      <3>2. /\ rest \in Seq(Character) /\ Len(rest) = (L - 3) + 1
            /\ \A j \in 1..((L - 3) + 1) : rest[j] = root[(3 + j) - 1]
        BY <1>1, <3>1, PartFacts DEF rest
      <3> QED BY <1>1, <3>2
    <2> HIDE DEF rest
    <2>3. i - 2 \in 1..Len(rest) /\ rest[i - 2] = Backslash
      BY <1>1, <1>2, <2>2
    <2>4. \A j \in 1..Len(rest) : j # i - 2 => rest[j] # Backslash
      <3> TAKE j \in 1..Len(rest)
      <3>1. j # i - 2 => j + 2 \in 3..L /\ j + 2 # i
        BY <1>1, <1>2, <2>2
      <3> QED BY <1>3, <2>2, <3>1
    <2>5. FindLast(rest, Backslash) = i - 2 /\ FindFirst(rest, Backslash) = i - 2
      <3>1. /\ \A j \in ((i - 2) + 1)..Len(rest) : rest[j] # Backslash
            /\ \A j \in 1..((i - 2) - 1) : rest[j] # Backslash
        BY <1>1, <2>2, <2>3, <2>4
      <3>2. PICK n : n = i - 2
        OBVIOUS
      <3>3. /\ rest \in Seq(Character) /\ n \in 1..Len(rest) /\ rest[n] = Backslash
            /\ \A j \in (n + 1)..Len(rest) : rest[j] # Backslash
            /\ \A j \in 1..(n - 1) : rest[j] # Backslash
        BY <2>2, <2>3, <3>1, <3>2
      <3>4. FindLast(rest, Backslash) = n /\ FindFirst(rest, Backslash) = n
        BY <3>3, FindFacts
      <3> QED BY <3>2, <3>4
    <2> QED BY <1>7, <2>1, <2>5 DEF IsNetworkDriveRoot, rest
  <1>9. ~HasSuffix(root, <<":", Backslash>>)
    BY <1>1, <1>4, Characters, SuffixFacts DEF HasSuffix
  <1> QED BY <1>5, <1>6, <1>7, <1>8, <1>9 DEF GetFolderPath

-----------------------------------------------------------------------------
(* The paths of an executable and of the folders above it.                  *)

LEMMA LocatedBelow ==
  ASSUME NEW path, Located(path), NEW name, IsName(name)
  PROVE  /\ Located(Below(path, name)) /\ GetFolderPath(Below(path, name)) = path
         /\ GetFileName(Below(path, name)) = name
         /\ IsStrictPrefix(path, Below(path, name)) /\ Below(path, name) # path
         /\ ~HasSuffix(Below(path, name), <<":", Backslash>>)
         /\ GetExtension(Below(path, name)) = Suffix <=> IsSuffix(Suffix, Below(path, name))
  <1>1. PICK m : IsBelow(path, name, Below(path, name), m)
    BY BelowShape
  <1> DEFINE q == Below(path, name)
  <1> HIDE DEF q
  <1>2. IsBelow(path, name, q, m)
    BY <1>1 DEF q
  <1>3. Located(q)
    BY <1>2, BelowFacts
  <1>4. GetFolderPath(q) = path
    BY <1>2, BelowFolder
  <1>5. GetFileName(q) = name /\ (GetExtension(q) = Suffix <=> IsSuffix(Suffix, q))
    BY <1>2, BelowFileName
  <1>6. IsStrictPrefix(path, q)
    BY <1>2, BelowPrefix
  <1>7. ~HasSuffix(q, <<":", Backslash>>)
    BY <1>2, BelowNoRoot
  <1>8. q # path
    BY <1>6 DEF IsStrictPrefix
  <1> QED BY <1>3, <1>4, <1>5, <1>6, <1>7, <1>8 DEF q

LEMMA PathsOfFacts ==
  ASSUME NEW root, Located(root), NEW names \in Seq(Names), \A name \in Names : IsName(name)
  PROVE  /\ PathsOf(root, names)[0] = root
         /\ \A k \in 1..Len(names) :
              PathsOf(root, names)[k] = Below(PathsOf(root, names)[k - 1], names[k])
         /\ \A k \in 0..Len(names) : Located(PathsOf(root, names)[k])
  <1> DEFINE N == Len(names)
             Chain(f, k) == /\ f = [n \in 0..k |-> f[n]] /\ f[0] = root
                            /\ \A n \in 1..k : f[n] = Below(f[n - 1], names[n])
             Rec(f) == f = [k \in 0..N |-> IF k = 0 THEN root ELSE Below(f[k - 1], names[k])]
  <1>1. N \in Nat /\ \A k \in 1..N : IsName(names[k])
    BY LenProperties, ElementOfSeq
  <1>2. \E f : Chain(f, N)
    <2> DEFINE K == {k \in Nat : \E f : Chain(f, k)}
    <2>1. 0 \in K
      <3>1. PICK f : f = [n \in 0..0 |-> root]
        OBVIOUS
      <3>2. Chain(f, 0)
        BY <3>1
      <3> QED BY <3>2
    <2>2. ASSUME NEW k \in Nat, k \in K PROVE k + 1 \in K
      <3>1. PICK f : Chain(f, k)
        BY <2>2
      <3>2. PICK h : h = [n \in 0..(k + 1) |-> IF n <= k THEN f[n] ELSE Below(f[k], names[k + 1])]
        OBVIOUS
      <3>3. h = [n \in 0..(k + 1) |-> h[n]] /\ h[0] = root
        BY <3>1, <3>2
      <3>4. ASSUME NEW n \in 1..(k + 1) PROVE h[n] = Below(h[n - 1], names[n])
        <4>1. /\ h[n] = IF n <= k THEN f[n] ELSE Below(f[k], names[k + 1])
              /\ h[n - 1] = f[n - 1]
          <5>1. n \in 0..(k + 1) /\ n - 1 \in 0..(k + 1) /\ n - 1 <= k
            OBVIOUS
          <5> QED BY <3>2, <5>1
        <4>2. CASE n <= k
          <5>1. f[n] = Below(f[n - 1], names[n])
            BY <3>1, <4>2
          <5> QED BY <4>1, <4>2, <5>1
        <4>3. CASE n = k + 1
          <5>1. ~(n <= k) /\ n - 1 = k
            BY <4>3
          <5> QED BY <4>1, <4>3, <5>1
        <4> QED BY <4>2, <4>3
      <3>5. Chain(h, k + 1)
        BY <3>3, <3>4
      <3> HIDE DEF Chain
      <3>6. k + 1 \in Nat
        OBVIOUS
      <3> QED BY <3>5, <3>6
    <2>3. N \in K
      <3> HIDE DEF K
      <3> QED BY <1>1, <2>1, <2>2, SetInduction
    <2> QED BY <2>3
  <1>3. PICK f : Chain(f, N)
    BY <1>2
  <1>4. Rec(f)
    <2>1. f = [k \in 0..N |-> f[k]]
      BY <1>3
    <2>2. \A k \in 0..N : f[k] = IF k = 0 THEN root ELSE Below(f[k - 1], names[k])
      <3>1. f[0] = root /\ \A k \in 1..N : f[k] = Below(f[k - 1], names[k])
        BY <1>3
      <3>2. \A k \in 0..N : k = 0 \/ k \in 1..N
        BY <1>1
      <3> QED BY <3>1, <3>2
    <2>3. [k \in 0..N |-> f[k]] = [k \in 0..N |-> IF k = 0 THEN root ELSE Below(f[k - 1], names[k])]
      BY <2>2
    <2> QED BY <2>1, <2>3
  <1>5. PathsOf(root, names) = CHOOSE d : Rec(d)
    BY DEF PathsOf
  <1>6. Rec(PathsOf(root, names))
    <2> HIDE DEF Rec
    <2> QED BY <1>4, <1>5, Zenon
  <1> DEFINE P == PathsOf(root, names)
  <1>7. P[0] = root /\ \A k \in 1..N : P[k] = Below(P[k - 1], names[k])
    <2> HIDE DEF P
    <2>1. Rec(P)
      BY <1>6 DEF P
    <2> QED BY <1>1, <2>1
  <1>8. \A k \in 0..N : Located(P[k])
    <2> HIDE DEF P
    <2> DEFINE K == {k \in Nat : k <= N => Located(P[k])}
    <2>1. 0 \in K
      BY <1>7
    <2>2. ASSUME NEW k \in Nat, k \in K PROVE k + 1 \in K
      <3> SUFFICES ASSUME k + 1 <= N PROVE Located(P[k + 1])
        OBVIOUS
      <3>1. Located(P[k]) /\ IsName(names[k + 1]) /\ P[k + 1] = Below(P[k], names[k + 1])
        BY <1>1, <1>7, <2>2
      <3> QED BY <3>1, LocatedBelow
    <2>3. \A k \in Nat : k \in K
      <3> HIDE DEF K
      <3> QED BY <2>1, <2>2, SetInduction
    <2> QED BY <2>3
  <1> QED BY <1>7, <1>8

-----------------------------------------------------------------------------
(* The search.                                                              *)

Tree == PathsOf(executable.root, executable.names)
Depth == Len(executable.names)

\* The search is at folder number k, and none below it is the one.
At(k) ==
  /\ pathString = Tree[k]
  /\ searching => sPluginPath = <<>> /\ \A j \in (k + 1)..Depth : ~IsSuffix(Suffix, Tree[j])

PathsInv ==
  /\ executable.root \in Roots /\ executable.names \in Seq(Names)
  /\ \E k \in 0..Depth : At(k)
  /\ PluginPathIsNearest

LEMMA RootFacts ==
  ASSUME NEW root \in Roots
  PROVE  /\ Located(root) /\ GetFolderPath(root) = root
         /\ HasSuffix(root, <<":", Backslash>>) => ~IsSuffix(Suffix, root)
         /\ ~HasSuffix(root, <<":", Backslash>>) =>
              (GetExtension(root) = Suffix <=> IsSuffix(Suffix, root))
  <1>1. IsDrive(root) \/ IsShare(root)
    BY PathsAssumption
  <1>2. CASE IsDrive(root)
    BY <1>2, DriveFacts
  <1>3. CASE IsShare(root)
    <2>1. Located(root) /\ GetFolderPath(root) = root /\ (GetExtension(root) = Suffix <=> IsSuffix(Suffix, root))
      BY <1>3, ShareFacts
    <2>2. ~HasSuffix(root, <<":", Backslash>>)
      BY <1>3, ShareFacts
    <2> QED BY <2>1, <2>2
  <1> QED BY <1>1, <1>2, <1>3

\* What the tests of the search say at each folder.
LEMMA TreeFacts ==
  ASSUME executable.root \in Roots, executable.names \in Seq(Names), NEW k \in 0..Depth
  PROVE  /\ Depth \in Nat /\ Tree[0] = executable.root /\ Located(Tree[k])
         /\ k = 0 => GetFolderPath(Tree[k]) = Tree[k]
         /\ k > 0 => /\ GetFolderPath(Tree[k]) = Tree[k - 1] /\ IsStrictPrefix(Tree[k - 1], Tree[k])
                     /\ Tree[k - 1] # Tree[k] /\ ~HasSuffix(Tree[k], <<":", Backslash>>)
         /\ HasSuffix(Tree[k], <<":", Backslash>>) => ~IsSuffix(Suffix, Tree[k])
         /\ ~HasSuffix(Tree[k], <<":", Backslash>>) =>
              (GetExtension(Tree[k]) = Suffix <=> IsSuffix(Suffix, Tree[k]))
         /\ Tree[k] \notin {<<>>, <<"/">>}
  <1>1. \A name \in Names : IsName(name)
    BY PathsAssumption
  <1>2. Depth \in Nat /\ (k > 0 => k - 1 \in 0..Depth /\ k \in 1..Depth)
    BY LenProperties DEF Depth
  <1>3. /\ Tree[0] = executable.root
        /\ \A j \in 1..Depth : Tree[j] = Below(Tree[j - 1], executable.names[j])
        /\ \A j \in 0..Depth : Located(Tree[j])
    BY <1>1, RootFacts, PathsOfFacts DEF Tree, Depth
  <1>4. Tree[k] \notin {<<>>, <<"/">>}
    BY <1>3 DEF Located
  <1>5. CASE k = 0
    BY <1>2, <1>3, <1>4, <1>5, RootFacts
  <1>6. CASE k > 0
    <2>1. IsName(executable.names[k])
      <3>1. k \in 1..Len(executable.names)
        BY <1>2, <1>6 DEF Depth
      <3> QED BY <1>1, <3>1, ElementOfSeq
    <2>2. Located(Tree[k - 1]) /\ Located(Tree[k]) /\ Tree[k] = Below(Tree[k - 1], executable.names[k])
      BY <1>2, <1>3, <1>6
    <2>3. PICK p : p = Tree[k - 1]
      OBVIOUS
    <2>4. PICK name : name = executable.names[k]
      OBVIOUS
    <2>5. Located(p) /\ IsName(name) /\ Tree[k] = Below(p, name)
      BY <2>1, <2>2, <2>3, <2>4
    <2>6. /\ GetFolderPath(Tree[k]) = p /\ IsStrictPrefix(p, Tree[k])
          /\ p # Tree[k] /\ ~HasSuffix(Tree[k], <<":", Backslash>>)
          /\ GetExtension(Tree[k]) = Suffix <=> IsSuffix(Suffix, Tree[k])
      BY <2>5, LocatedBelow
    <2> QED BY <1>2, <1>3, <1>4, <1>6, <2>2, <2>3, <2>6
  <1> QED BY <1>2, <1>5, <1>6

\* Where the search stops at the top.
LEMMA TopFacts ==
  ASSUME executable.root \in Roots, executable.names \in Seq(Names), NEW k \in 0..Depth,
         pathString = Tree[k]
  PROVE  AtTop <=> HasSuffix(Tree[k], <<":", Backslash>>)
  BY TreeFacts DEF AtTop

\* The nearest of the folders, if it is number k or none.
IsNearest(paths, depth, path) ==
  LET named == {k \in 0..depth : IsSuffix(Suffix, paths[k])}
      nearest == CHOOSE k \in named : \A j \in named : j <= k
  IN path = IF named = {} THEN <<>> ELSE paths[nearest]

LEMMA NearestFacts ==
  ASSUME NEW paths, NEW depth \in Nat, NEW k \in 0..depth,
         \A j \in (k + 1)..depth : ~IsSuffix(Suffix, paths[j])
  PROVE  /\ IsSuffix(Suffix, paths[k]) => IsNearest(paths, depth, paths[k])
         /\ k = 0 /\ ~IsSuffix(Suffix, paths[k]) => IsNearest(paths, depth, <<>>)
  <1> DEFINE named == {j \in 0..depth : IsSuffix(Suffix, paths[j])}
             nearest == CHOOSE x \in named : \A j \in named : j <= x
  <1>1. \A path : IsNearest(paths, depth, path) <=> path = IF named = {} THEN <<>> ELSE paths[nearest]
    BY DEF IsNearest
  <1>2. ASSUME IsSuffix(Suffix, paths[k]) PROVE IsNearest(paths, depth, paths[k])
    <2>1. k \in named /\ \A j \in named : j <= k
      BY <1>2
    <2>2. \A x \in named : (\A j \in named : j <= x) => x = k
      BY <2>1
    <2>3. nearest = k
      <3> HIDE DEF named
      <3> QED BY <2>1, <2>2
    <2> HIDE DEF named, nearest
    <2> QED BY <1>1, <2>1, <2>3
  <1>3. ASSUME k = 0, ~IsSuffix(Suffix, paths[k]) PROVE IsNearest(paths, depth, <<>>)
    <2>1. named = {}
      BY <1>3
    <2> HIDE DEF named, nearest
    <2> QED BY <1>1, <2>1
  <1> QED BY <1>2, <1>3

LEMMA NearestIsIt ==
  PluginPathIsNearest <=> (~searching => IsNearest(Tree, Depth, sPluginPath))
  BY DEF PluginPathIsNearest, IsNearest, Tree, Depth

LEMMA PathsInit == Init => PathsInv
  <1> SUFFICES ASSUME Init PROVE PathsInv
    OBVIOUS
  <1>1. executable.root \in Roots /\ executable.names \in Seq(Names)
    <2>1. PICK n \in 0..(MaxDepth + 1) : executable.names \in [1..n -> Names]
      BY DEF Init, Executables, BoundedSeq, SeqOf
    <2>2. executable.names \in Seq(Names)
      BY <2>1, PathsAssumption
    <2> QED BY <2>2 DEF Init, Executables
  <1>2. Depth \in Nat
    BY <1>1, LenProperties DEF Depth
  <1>3. Depth \in 0..Depth /\ At(Depth)
    BY <1>2 DEF Init, At, Tree, Depth
  <1>4. PluginPathIsNearest
    BY DEF Init, PluginPathIsNearest
  <1> QED BY <1>1, <1>3, <1>4 DEF PathsInv

\* One step: the invariant holds again, and the search goes up if it moves.
LEMMA PathsStep ==
  ASSUME PathsInv, [Next]_vars
  PROVE  PathsInv' /\ (pathString' = pathString \/ IsStrictPrefix(pathString', pathString))
  <1>1. executable.root \in Roots /\ executable.names \in Seq(Names)
    BY DEF PathsInv
  <1>2. PICK k \in 0..Depth : At(k)
    BY DEF PathsInv
  <1>3. executable' = executable
    BY DEF Next, vars, Found, GoUp, GiveUp, Done
  <1>4. Tree' = Tree /\ Depth' = Depth /\ executable'.root \in Roots /\ executable'.names \in Seq(Names)
    BY <1>1, <1>3 DEF Tree, Depth
  <1>5. PluginPathIsNearest' <=> (~searching' => IsNearest(Tree, Depth, sPluginPath'))
    BY <1>3 DEF PluginPathIsNearest, IsNearest, Tree, Depth
  <1>6. At(k) /\ Depth \in Nat /\ pathString = Tree[k]
    BY <1>1, <1>2, TreeFacts DEF At
  <1>7. CASE Found
    <2>1. /\ searching /\ ~AtTop /\ GetExtension(Tree[k]) = Suffix
          /\ sPluginPath' = Tree[k] /\ ~searching' /\ pathString' = pathString
      BY <1>6, <1>7 DEF Found
    <2>2. IsSuffix(Suffix, Tree[k])
      BY <1>1, <1>6, <2>1, TreeFacts, TopFacts
    <2>3. \A j \in (k + 1)..Depth : ~IsSuffix(Suffix, Tree[j])
      BY <1>6, <2>1 DEF At
    <2>4. IsNearest(Tree, Depth, Tree[k])
      BY <1>6, <2>2, <2>3, NearestFacts
    <2>5. At(k)'
      BY <1>4, <1>6, <2>1 DEF At
    <2> QED BY <1>4, <1>5, <2>1, <2>4, <2>5 DEF PathsInv
  <1>8. CASE GoUp
    <2>1. /\ searching /\ ~AtTop /\ GetExtension(Tree[k]) # Suffix
          /\ GetFolderPath(Tree[k]) # Tree[k] /\ pathString' = GetFolderPath(Tree[k])
          /\ searching' = searching /\ sPluginPath' = sPluginPath
      BY <1>6, <1>8 DEF GoUp
    <2>2. k > 0 /\ k - 1 \in 0..Depth
      BY <1>1, <1>6, <2>1, TreeFacts
    <2>3. pathString' = Tree[k - 1] /\ IsStrictPrefix(pathString', pathString)
      BY <1>1, <1>6, <2>1, <2>2, TreeFacts
    <2>4. ~IsSuffix(Suffix, Tree[k])
      BY <1>1, <1>6, <2>1, TreeFacts, TopFacts
    <2>5. \A j \in ((k - 1) + 1)..Depth : ~IsSuffix(Suffix, Tree[j])
      BY <1>6, <2>1, <2>4 DEF At
    <2>6. sPluginPath = <<>>
      BY <1>6, <2>1 DEF At
    <2>7. At(k - 1)'
      <3>1. PICK n : n = k - 1
        OBVIOUS
      <3>2. At(n)'
        BY <1>4, <2>1, <2>3, <2>5, <2>6, <3>1 DEF At
      <3> QED BY <3>1, <3>2
    <2> QED BY <1>4, <1>5, <2>1, <2>2, <2>3, <2>7 DEF PathsInv
  <1>9. CASE GiveUp
    <2>1. /\ searching /\ ~searching' /\ pathString' = pathString /\ sPluginPath' = sPluginPath
          /\ AtTop \/ (GetExtension(Tree[k]) # Suffix /\ GetFolderPath(Tree[k]) = Tree[k])
      BY <1>6, <1>9 DEF GiveUp
    <2>2. k = 0
      BY <1>1, <1>6, <2>1, TreeFacts, TopFacts
    <2>3. ~IsSuffix(Suffix, Tree[k])
      BY <1>1, <1>6, <2>1, TreeFacts, TopFacts
    <2>4. sPluginPath = <<>> /\ \A j \in (k + 1)..Depth : ~IsSuffix(Suffix, Tree[j])
      BY <1>6, <2>1 DEF At
    <2>5. IsNearest(Tree, Depth, <<>>)
      BY <1>6, <2>2, <2>3, <2>4, NearestFacts
    <2>6. At(k)'
      BY <1>4, <1>6, <2>1 DEF At
    <2> QED BY <1>4, <1>5, <2>1, <2>4, <2>5, <2>6 DEF PathsInv
  <1>10. CASE UNCHANGED vars
    <2>1. searching' = searching /\ sPluginPath' = sPluginPath /\ pathString' = pathString
      BY <1>10 DEF vars
    <2>2. At(k)'
      BY <1>4, <1>6, <2>1 DEF At
    <2>3. PluginPathIsNearest'
      BY <1>5, <2>1, NearestIsIt DEF PathsInv
    <2> QED BY <1>4, <2>1, <2>2, <2>3 DEF PathsInv
  <1> QED BY <1>7, <1>8, <1>9, <1>10 DEF Next, Done

LEMMA PathsInvariant == Spec => []PathsInv
  BY PathsInit, PathsStep, PTL DEF Spec

-----------------------------------------------------------------------------
(* Theorems.                                                                *)

\* The search finds the nearest folder whose path ends in .sdPlugin, for all
\* names and shares that Windows allows, however deep the executable is (lines
\* 247-266).
THEOREM NearestIsFound == Spec => []PluginPathIsNearest
  <1>1. PathsInv => PluginPathIsNearest
    BY DEF PathsInv
  <1> QED BY <1>1, PathsInvariant, PTL

\* Each step of the search goes to a folder that contains the path (lines
\* 258-262).
THEOREM SearchGoesUp == Spec => GoesUp
  <1>1. PathsInv /\ [Next]_vars =>
          [pathString' = pathString \/ IsStrictPrefix(pathString', pathString)]_vars
    BY PathsStep
  <1> QED BY <1>1, PathsInvariant, PTL DEF Spec, GoesUp

\* A file with any name, added to a folder of the search, is in that folder and
\* has that name (lines 137-163, against 62-121 and 165-231).
THEOREM AddedFileIsInItsFolder == Spec => []FileIsInItsFolder
  <1>1. PathsInv => FileIsInItsFolder
    <2> SUFFICES ASSUME PathsInv, NEW name \in Names
                 PROVE  LET file == AddPathComponent(pathString, name)
                        IN GetFolderPath(file) = pathString /\ GetFileName(file) = name
      BY DEF FileIsInItsFolder
    <2>1. PICK k \in 0..Depth : At(k)
      BY DEF PathsInv
    <2>2. Located(pathString)
      <3>1. Located(Tree[k])
        BY TreeFacts DEF PathsInv
      <3> QED BY <2>1, <3>1 DEF At
    <2>3. IsName(name)
      BY PathsAssumption
    <2> QED BY <2>2, <2>3, AddedFacts, LocatedBelow
  <1> QED BY <1>1, PathsInvariant, PTL
=============================================================================
