--------------------------- MODULE RecordForm_proofs ---------------------------
(***************************************************************************)
(* Theorems about RecordForm and the picker under it, for any limits, any  *)
(* records and inputs, any tree of directories and any number of edits.    *)
(***************************************************************************)
EXTENDS RecordForm, FiniteSetTheorems, SequenceTheorems, WellFoundedInduction, TLAPS

-----------------------------------------------------------------------------
(* Induction over the natural numbers, stated of a set *)

LEMMA LeastIs ==
  ASSUME NEW S, S \subseteq Nat, S # {}
  PROVE  Min(S) \in S /\ \A m \in S : Min(S) <= m
<1> DEFINE R == OpToRel(<, Nat)
<1>1. \E x \in S : \A y \in S : ~ (<<y, x>> \in R)
  <2>1. IsWellFoundedOn(R, Nat)
    BY NatLessThanWellFounded
  <2> HIDE DEF R
  <2>2. QED
    BY <2>1, WFMin
<1>2. PICK x \in S : \A y \in S : ~ (<<y, x>> \in R)
  BY <1>1
<1>3. \A y \in S : x \in Nat /\ y \in Nat /\ ~ (y < x)
  BY <1>2 DEF OpToRel
<1>4. \A y \in S : x <= y
  BY <1>3
<1>5. QED
  BY <1>4 DEF Min

LEMMA Induction ==
  ASSUME NEW T, 0 \in T, \A n \in Nat : n \in T => n + 1 \in T
  PROVE  Nat \subseteq T
<1> DEFINE U == Nat \ T
           x == Min(U)
<1>1. SUFFICES ASSUME U # {} PROVE FALSE
  OBVIOUS
<1>2. x \in U /\ \A y \in U : x <= y
  BY <1>1, LeastIs
<1> HIDE DEF x
<1>3. x # 0 /\ x \in Nat
  BY <1>2
<1>4. x - 1 \in Nat /\ ~ (x <= x - 1) /\ (x - 1) + 1 = x
  BY <1>3
<1>5. x - 1 \in T
  BY <1>2, <1>4
<1>6. QED
  BY <1>2, <1>4, <1>5

LEMMA SeqInduction ==
  ASSUME NEW C, NEW Q, <<>> \in Q,
         \A a \in Seq(C), c \in C : a \in Q => Append(a, c) \in Q
  PROVE  Seq(C) \subseteq Q
<1> DEFINE T == {n \in Nat : \A s \in Seq(C) : Len(s) = n => s \in Q}
<1>1. 0 \in T
  OBVIOUS
<1>2. ASSUME NEW n \in Nat, n \in T PROVE n + 1 \in T
  <2> SUFFICES ASSUME NEW s \in Seq(C), Len(s) = n + 1 PROVE s \in Q
    OBVIOUS
  <2> DEFINE a == SubSeq(s, 1, n)
             c == s[n + 1]
  <2>1. a \in Seq(C) /\ Len(a) = n /\ c \in C
    OBVIOUS
  <2>2. s = Append(a, c)
    OBVIOUS
  <2>3. QED
    BY <1>2, <2>1, <2>2
<1>3. Nat \subseteq T
  <2> HIDE DEF T
  <2>1. QED
    BY <1>1, <1>2, Induction
<1>4. \A s \in Seq(C) : Len(s) \in Nat
  OBVIOUS
<1>5. QED
  BY <1>3, <1>4

-----------------------------------------------------------------------------
(* What is kept of a string *)

\* f has what is kept of every beginning of s.
Keeps(f, s, S) ==
  f = [n \in 0..Len(s) |->
         IF n = 0 THEN <<>>
         ELSE IF s[n] \in S THEN Append(f[n - 1], s[n]) ELSE f[n - 1]]

LEMMA KeepsExist ==
  ASSUME NEW C, NEW S, NEW s \in Seq(C)
  PROVE  \E f : Keeps(f, s, S)
<1> DEFINE T == {n \in Nat : n <= Len(s) => \E f : Keeps(f, SubSeq(s, 1, n), S)}
<1>1. 0 \in T
  <2>1. Keeps([n \in {0} |-> <<>>], SubSeq(s, 1, 0), S)
    BY DEF Keeps
  <2>2. QED
    BY <2>1
<1>2. ASSUME NEW n \in Nat, n \in T PROVE n + 1 \in T
  <2> SUFFICES ASSUME n + 1 <= Len(s) PROVE \E f : Keeps(f, SubSeq(s, 1, n + 1), S)
    OBVIOUS
  <2> DEFINE a == SubSeq(s, 1, n)
             b == SubSeq(s, 1, n + 1)
  <2>1. Len(a) = n /\ Len(b) = n + 1 /\ \A i \in 1..n : b[i] = a[i]
    OBVIOUS
  <2>2. PICK f : Keeps(f, a, S)
    BY <1>2
  <2> DEFINE g == [i \in 0..(n + 1) |-> IF i <= n THEN f[i] ELSE
                    IF b[i] \in S THEN Append(f[i - 1], b[i]) ELSE f[i - 1]]
  <2> HIDE DEF a, b
  <2>3. Keeps(g, b, S)
    <3>1. \A i \in 0..n : f[i] = IF i = 0 THEN <<>>
             ELSE IF a[i] \in S THEN Append(f[i - 1], a[i]) ELSE f[i - 1]
      BY <2>1, <2>2 DEF Keeps
    <3>2. \A i \in 1..(n + 1) : g[i - 1] = f[i - 1]
      OBVIOUS
    <3>3. \A i \in 0..(n + 1) : g[i] = IF i = 0 THEN <<>>
             ELSE IF b[i] \in S THEN Append(g[i - 1], b[i]) ELSE g[i - 1]
      <4> TAKE i \in 0..(n + 1)
      <4>1. CASE i = 0
        BY <3>1, <4>1
      <4>2. CASE i \in 1..n
        BY <2>1, <3>1, <3>2, <4>2
      <4>3. CASE i = n + 1
        BY <3>2, <4>3
      <4>4. QED
        BY <4>1, <4>2, <4>3
    <3>4. QED
      BY <2>1, <3>3 DEF Keeps
  <2>4. QED
    BY <2>3 DEF b
<1>3. Len(s) \in T
  <2> HIDE DEF T
  <2>1. Nat \subseteq T
    BY <1>1, <1>2, Induction
  <2>2. QED
    BY <2>1
<1>4. SubSeq(s, 1, Len(s)) = s
  OBVIOUS
<1>5. \E f : Keeps(f, SubSeq(s, 1, Len(s)), S)
  BY <1>3
<1>6. QED
  BY <1>4, <1>5

LEMMA KeepIs ==
  ASSUME NEW C, NEW S, NEW s \in Seq(C)
  PROVE  \E f : Keeps(f, s, S) /\ Keep(s, S) = f[Len(s)]
<1> DEFINE g == CHOOSE f : Keeps(f, s, S)
<1>1. Keeps(g, s, S)
  BY KeepsExist
<1>2. Keep(s, S) = g[Len(s)]
  BY DEF Keep, Keeps
<1>3. QED
  BY <1>1, <1>2

LEMMA KeepEmpty ==
  ASSUME NEW S
  PROVE  Keep(<<>>, S) = <<>>
<1>1. <<>> \in Seq({})
  OBVIOUS
<1>2. PICK f : Keeps(f, <<>>, S) /\ Keep(<<>>, S) = f[Len(<<>>)]
  BY <1>1, KeepIs
<1>3. QED
  BY <1>2 DEF Keeps

LEMMA KeepAppend ==
  ASSUME NEW C, NEW S, NEW s \in Seq(C), NEW c \in C
  PROVE  Keep(Append(s, c), S) = IF c \in S THEN Append(Keep(s, S), c) ELSE Keep(s, S)
<1> DEFINE b == Append(s, c)
<1>1. b \in Seq(C) /\ Len(b) = Len(s) + 1 /\ b[Len(s) + 1] = c /\ \A i \in 1..Len(s) : b[i] = s[i]
  OBVIOUS
<1> HIDE DEF b
<1>2. PICK f : Keeps(f, s, S) /\ Keep(s, S) = f[Len(s)]
  BY KeepIs
<1>3. PICK g : Keeps(g, b, S) /\ Keep(b, S) = g[Len(b)]
  BY <1>1, KeepIs
<1>4. Len(s) \in Nat
  OBVIOUS
<1>5. /\ \A i \in 0..Len(s) : f[i] = IF i = 0 THEN <<>>
           ELSE IF s[i] \in S THEN Append(f[i - 1], s[i]) ELSE f[i - 1]
      /\ \A i \in 0..Len(s) + 1 : g[i] = IF i = 0 THEN <<>>
           ELSE IF b[i] \in S THEN Append(g[i - 1], b[i]) ELSE g[i - 1]
  BY <1>1, <1>2, <1>3 DEF Keeps
<1> DEFINE T == {n \in Nat : n <= Len(s) => g[n] = f[n]}
<1>6. 0 \in T
  BY <1>4, <1>5
<1>7. ASSUME NEW n \in Nat, n \in T PROVE n + 1 \in T
  <2> SUFFICES ASSUME n + 1 <= Len(s) PROVE g[n + 1] = f[n + 1]
    OBVIOUS
  <2>1. n + 1 \in 0..Len(s) /\ n + 1 \in 0..Len(s) + 1 /\ n + 1 \in 1..Len(s) /\ n + 1 # 0
        /\ (n + 1) - 1 = n
    BY <1>4
  <2>2. g[n] = f[n] /\ b[n + 1] = s[n + 1]
    BY <1>1, <1>4, <1>7, <2>1
  <2>3. QED
    BY <1>5, <2>1, <2>2
<1>8. g[Len(s)] = f[Len(s)]
  <2> HIDE DEF T
  <2>1. Nat \subseteq T
    BY <1>6, <1>7, Induction
  <2>2. QED
    BY <1>4, <2>1 DEF T
<1>9. g[Len(b)] = IF c \in S THEN Append(g[Len(s)], c) ELSE g[Len(s)]
  <2>1. Len(b) \in 0..Len(s) + 1 /\ Len(b) # 0 /\ Len(b) - 1 = Len(s) /\ b[Len(b)] = c
    BY <1>1, <1>4
  <2>2. QED
    BY <1>5, <2>1
<1>10. QED
  BY <1>2, <1>3, <1>8, <1>9 DEF b

LEMMA KeepType ==
  ASSUME NEW C, NEW S, NEW s \in Seq(C)
  PROVE  Keep(s, S) \in Seq(C \cap S) /\ Len(Keep(s, S)) <= Len(s)
<1> DEFINE Q == {a \in Seq(C) : Keep(a, S) \in Seq(C \cap S) /\ Len(Keep(a, S)) <= Len(a)}
<1>1. <<>> \in Q
  <2>1. <<>> \in Seq(C) /\ <<>> \in Seq(C \cap S) /\ Len(<<>>) = 0
    OBVIOUS
  <2>2. Keep(<<>>, S) = <<>>
    BY KeepEmpty
  <2>3. Keep(<<>>, S) \in Seq(C \cap S)
    BY <2>1, <2>2
  <2>4. Len(Keep(<<>>, S)) = 0
    BY <2>2, <2>3, EmptySeq
  <2>5. QED
    BY <2>1, <2>3, <2>4
<1>2. ASSUME NEW a \in Seq(C), NEW c \in C, a \in Q PROVE Append(a, c) \in Q
  <2> DEFINE k == Keep(a, S)
  <2>1. Keep(Append(a, c), S) = IF c \in S THEN Append(k, c) ELSE k
    BY KeepAppend
  <2>2. k \in Seq(C \cap S) /\ Len(k) <= Len(a) /\ Len(Append(a, c)) = Len(a) + 1
    BY <1>2
  <2> HIDE DEF k
  <2>3. Len(k) \in Nat /\ Len(a) \in Nat /\ Append(a, c) \in Seq(C)
    BY <2>2
  <2>4. CASE c \in S
    <3>1. Append(k, c) \in Seq(C \cap S) /\ Len(Append(k, c)) = Len(k) + 1
      BY <2>2, <2>4
    <3>2. Keep(Append(a, c), S) = Append(k, c)
      BY <2>1, <2>4
    <3>3. QED
      BY <2>2, <2>3, <3>1, <3>2
  <2>5. CASE c \notin S
    <3>1. Keep(Append(a, c), S) = k
      BY <2>1, <2>5
    <3>2. QED
      BY <2>2, <2>3, <3>1
  <2>6. QED
    BY <2>4, <2>5
<1>3. Seq(C) \subseteq Q
  <2> HIDE DEF Q
  <2>1. QED
    BY <1>1, <1>2, SeqInduction
<1>4. QED
  BY <1>3

LEMMA KeepAll ==
  ASSUME NEW S, NEW s \in Seq(S)
  PROVE  Keep(s, S) = s
<1> DEFINE Q == {a \in Seq(S) : Keep(a, S) = a}
<1>1. <<>> \in Q
  BY KeepEmpty
<1>2. ASSUME NEW a \in Seq(S), NEW c \in S, a \in Q PROVE Append(a, c) \in Q
  <2>1. Keep(Append(a, c), S) = Append(Keep(a, S), c)
    BY KeepAppend
  <2>2. QED
    BY <1>2, <2>1
<1>3. Seq(S) \subseteq Q
  <2> HIDE DEF Q
  <2>1. QED
    BY <1>1, <1>2, SeqInduction
<1>4. QED
  BY <1>3

LEMMA KeepNone ==
  ASSUME NEW C, NEW S, C \cap S = {}, NEW s \in Seq(C)
  PROVE  Keep(s, S) = <<>>
<1>1. Keep(s, S) \in Seq({})
  BY KeepType
<1>2. QED
  BY <1>1

LEMMA KeepsNone ==
  ASSUME NEW C, NEW S, NEW s \in Seq(C), Keep(s, S) = <<>>
  PROVE  s \in Seq(C \ S)
<1> DEFINE Q == {a \in Seq(C) : Keep(a, S) = <<>> => a \in Seq(C \ S)}
<1>1. <<>> \in Q
  OBVIOUS
<1>2. ASSUME NEW a \in Seq(C), NEW c \in C, a \in Q PROVE Append(a, c) \in Q
  <2> DEFINE k == Keep(a, S)
  <2>1. Keep(Append(a, c), S) = IF c \in S THEN Append(k, c) ELSE k
    BY KeepAppend
  <2>2. k \in Seq(C \cap S)
    BY KeepType
  <2>3. k = <<>> => a \in Seq(C \ S)
    BY <1>2
  <2> HIDE DEF k
  <2>4. c \in S => Append(k, c) # <<>>
    BY <2>2
  <2>5. ASSUME Keep(Append(a, c), S) = <<>> PROVE Append(a, c) \in Seq(C \ S)
    <3>1. c \notin S /\ k = <<>>
      BY <2>1, <2>4, <2>5
    <3>2. QED
      BY <2>3, <3>1
  <2>6. QED
    BY <2>5
<1>3. Seq(C) \subseteq Q
  <2> HIDE DEF Q
  <2>1. QED
    BY <1>1, <1>2, SeqInduction
<1>4. QED
  BY <1>3

LEMMA KeepConcat ==
  ASSUME NEW C, NEW S, NEW a \in Seq(C), NEW b \in Seq(C)
  PROVE  Keep(a \o b, S) = Keep(a, S) \o Keep(b, S)
<1> DEFINE Q == {x \in Seq(C) : Keep(a \o x, S) = Keep(a, S) \o Keep(x, S)}
<1>1. <<>> \in Q
  <2>1. Keep(a, S) \in Seq(C \cap S) /\ a \o <<>> = a
    BY KeepType
  <2>2. Keep(a, S) \o <<>> = Keep(a, S)
    BY <2>1
  <2>3. QED
    BY <2>1, <2>2, KeepEmpty
<1>2. ASSUME NEW x \in Seq(C), NEW c \in C, x \in Q PROVE Append(x, c) \in Q
  <2> DEFINE k == Keep(a, S)
             l == Keep(x, S)
  <2>1. k \in Seq(C \cap S) /\ l \in Seq(C \cap S)
    BY KeepType
  <2>2. a \o Append(x, c) = Append(a \o x, c) /\ a \o x \in Seq(C)
    OBVIOUS
  <2>3. ASSUME NEW y \in Seq(C)
        PROVE  Keep(Append(y, c), S) = IF c \in S THEN Append(Keep(y, S), c) ELSE Keep(y, S)
    BY KeepAppend
  <2>4. Keep(Append(x, c), S) = IF c \in S THEN Append(l, c) ELSE l
    BY KeepAppend
  <2>5. Keep(a \o x, S) = k \o l
    BY <1>2
  <2> HIDE DEF k, l
  <2>6. k \o Append(l, c) = Append(k \o l, c)
    BY <2>1
  <2>7. Keep(a \o Append(x, c), S) = k \o Keep(Append(x, c), S)
    BY <2>2, <2>3, <2>4, <2>5, <2>6
  <2>8. QED
    BY <2>7 DEF k
<1>3. Seq(C) \subseteq Q
  <2> HIDE DEF Q
  <2>1. QED
    BY <1>1, <1>2, SeqInduction
<1>4. QED
  BY <1>3

-----------------------------------------------------------------------------
(* Bytes and limits *)

LEMMA BytesEmpty == Bytes(<<>>) = 0
BY KeepEmpty DEF Bytes

LEMMA BytesType ==
  ASSUME NEW C, NEW s \in Seq(C)
  PROVE  Bytes(s) \in Nat /\ Len(s) <= Bytes(s)
<1>1. Keep(s, {"w"}) \in Seq(C \cap {"w"})
  BY KeepType
<1>2. Len(Keep(s, {"w"})) \in Nat /\ Len(s) \in Nat
  BY <1>1
<1>3. QED
  BY <1>2 DEF Bytes

LEMMA BytesConcat ==
  ASSUME NEW C, NEW a \in Seq(C), NEW b \in Seq(C)
  PROVE  Bytes(a \o b) = Bytes(a) + Bytes(b)
<1> DEFINE k == Keep(a, {"w"})
           l == Keep(b, {"w"})
<1>1. k \in Seq(C \cap {"w"}) /\ l \in Seq(C \cap {"w"})
  BY KeepType
<1>2. Keep(a \o b, {"w"}) = k \o l
  BY KeepConcat
<1> HIDE DEF k, l
<1>3. Len(a \o b) = Len(a) + Len(b) /\ Len(k \o l) = Len(k) + Len(l)
  BY <1>1
<1>4. Len(a) \in Nat /\ Len(b) \in Nat /\ Len(k) \in Nat /\ Len(l) \in Nat
  BY <1>1
<1>5. QED
  BY <1>2, <1>3, <1>4 DEF Bytes, k, l

LEMMA LimitFits ==
  ASSUME NEW C, NEW s \in Seq(C), NEW n \in Nat
  PROVE  /\ Limit(s, n) \in Seq(C) /\ Len(Limit(s, n)) <= n
         /\ Len(Limit(s, n)) = Smaller(n, Len(s))
         /\ Len(s) <= n => Limit(s, n) = s
BY DEF Limit, Smaller

\* A string is what is before a place and what is behind it.
LEMMA Halves ==
  ASSUME NEW C, NEW s \in Seq(C), NEW m \in 0..Len(s)
  PROVE  /\ SubSeq(s, 1, m) \in Seq(C) /\ Len(SubSeq(s, 1, m)) = m
         /\ SubSeq(s, m + 1, Len(s)) \in Seq(C) /\ Len(SubSeq(s, m + 1, Len(s))) = Len(s) - m
         /\ s = SubSeq(s, 1, m) \o SubSeq(s, m + 1, Len(s))
<1>1. Len(s) \in Nat /\ m \in Nat /\ m <= Len(s)
  OBVIOUS
<1>2. SubSeq(s, 1, m) \in Seq(C) /\ Len(SubSeq(s, 1, m)) = m
  BY <1>1
<1>3. SubSeq(s, m + 1, Len(s)) \in Seq(C) /\ Len(SubSeq(s, m + 1, Len(s))) = Len(s) - m
  <2>1. \A i \in m + 1..Len(s) : s[i] \in C
    BY <1>1
  <2>2. /\ SubSeq(s, m + 1, Len(s)) \in Seq(C)
        /\ Len(SubSeq(s, m + 1, Len(s))) = IF m + 1 <= Len(s) THEN Len(s) - (m + 1) + 1 ELSE 0
    BY <1>1, <2>1, SubSeqProperties
  <2>3. QED
    BY <1>1, <2>2
<1>4. SubSeq(s, 1, m) \o SubSeq(s, m + 1, Len(s)) = SubSeq(s, 1, Len(s))
  <2>1. 1 \in 1..Len(s) + 1 /\ m \in 1 - 1..Len(s) /\ Len(s) \in m..Len(s)
    BY <1>1
  <2>2. QED
    BY <2>1, ConcatAdjacentSubSeq
<1>5. QED
  BY <1>2, <1>3, <1>4, SubSeqFull

LEMMA LimitSplits ==
  ASSUME NEW C, NEW s \in Seq(C), NEW n \in Nat
  PROVE  Bytes(Limit(s, n)) <= Bytes(s)
<1> DEFINE m == Smaller(n, Len(s))
           a == SubSeq(s, 1, m)
           b == SubSeq(s, m + 1, Len(s))
<1>1. m \in 0..Len(s)
  BY DEF Smaller
<1>2. Limit(s, n) = a
  BY DEF Limit
<1> HIDE DEF m
<1>3. a \in Seq(C) /\ b \in Seq(C) /\ s = a \o b
  BY <1>1, Halves
<1> HIDE DEF a, b
<1>4. Bytes(s) = Bytes(a) + Bytes(b) /\ Bytes(a) \in Nat /\ Bytes(b) \in Nat
  BY <1>3, BytesConcat, BytesType
<1>5. QED
  BY <1>2, <1>4

LEMMA LimitBytesFits ==
  ASSUME NEW C, NEW s \in Seq(C), NEW n \in Nat
  PROVE  /\ LimitBytes(s, n) \in Seq(C) /\ Bytes(LimitBytes(s, n)) <= n
         /\ Bytes(s) <= n => LimitBytes(s, n) = s
<1> DEFINE P(k) == Bytes(Limit(s, k)) <= n /\ (k < Len(s) => Bytes(Limit(s, k + 1)) > n)
           k == CHOOSE i \in 0..Len(s) : P(i)
<1>1. Len(s) \in Nat /\ \A i \in Nat : Limit(s, i) \in Seq(C) /\ Bytes(Limit(s, i)) \in Nat
  BY LimitFits, BytesType
<1>2. \E i \in 0..Len(s) : P(i)
  <2> SUFFICES ASSUME \A i \in 0..Len(s) : ~ P(i) PROVE FALSE
    OBVIOUS
  <2> DEFINE T == {m \in Nat : m <= Len(s) => Bytes(Limit(s, m)) <= n}
  <2>1. 0 \in T
    <3>1. Limit(s, 0) = <<>>
      BY DEF Limit, Smaller
    <3>2. QED
      BY <3>1, BytesEmpty
  <2>2. ASSUME NEW m \in Nat, m \in T PROVE m + 1 \in T
    <3> SUFFICES ASSUME m + 1 <= Len(s) PROVE Bytes(Limit(s, m + 1)) <= n
      OBVIOUS
    <3>1. m \in 0..Len(s) /\ m < Len(s)
      <4>1. Len(s) \in Nat
        BY <1>1
      <4>2. QED
        BY <4>1
    <3>2. Bytes(Limit(s, m)) <= n
      BY <2>2, <3>1
    <3>3. ~ P(m)
      BY <3>1
    <3>4. ~ (Bytes(Limit(s, m + 1)) > n)
      BY <3>1, <3>2, <3>3
    <3>5. Bytes(Limit(s, m + 1)) \in Nat
      BY <1>1
    <3>6. QED
      BY <3>4, <3>5
  <2>3. Nat \subseteq T
    <3> HIDE DEF T
    <3>1. QED
      BY <2>1, <2>2, Induction
  <2>4. Bytes(Limit(s, Len(s))) <= n /\ ~ (Len(s) < Len(s))
    <3>1. Len(s) \in Nat
      BY <1>1
    <3>2. Len(s) \in T
      BY <2>3, <3>1
    <3>3. QED
      BY <3>1, <3>2
  <2>5. P(Len(s)) /\ Len(s) \in 0..Len(s)
    BY <1>1, <2>4
  <2>6. QED
    BY <2>5
<1>3. k \in 0..Len(s) /\ P(k)
  BY <1>2
<1>4. LimitBytes(s, n) = Limit(s, k)
  BY DEF LimitBytes
<1> HIDE DEF k
<1>5. LimitBytes(s, n) \in Seq(C) /\ Bytes(LimitBytes(s, n)) <= n
  BY <1>1, <1>3, <1>4
<1>6. ASSUME Bytes(s) <= n PROVE LimitBytes(s, n) = s
  <2>1. k + 1 \in Nat
    BY <1>1, <1>3
  <2>2. Bytes(Limit(s, k + 1)) <= Bytes(s) /\ Bytes(s) \in Nat /\ Bytes(Limit(s, k + 1)) \in Nat
    BY <1>1, <2>1, LimitSplits, BytesType
  <2>3. ~ (k < Len(s))
    BY <1>3, <1>6, <2>2
  <2>4. k \in Nat /\ Len(s) <= k
    BY <1>1, <1>3, <2>3
  <2>5. QED
    BY <1>4, <2>4, LimitFits
<1>7. QED
  BY <1>5, <1>6

-----------------------------------------------------------------------------
(* What the controls make of a string *)

LineChars == Printed \cup {"lf"}

LEMMA CharSets ==
  /\ Printed \subseteq Chars /\ LineChars \subseteq Chars /\ Digits \subseteq Printed
  /\ Chars \cap LineChars = LineChars /\ Chars \cap Printed = Printed /\ Chars \cap Digits = Digits
  /\ Printed \cap Controls = {} /\ Digits \cap Controls = {}
  /\ {"lf", "cr", "tab", "hid"} \cap Printed = {}
BY DEF LineChars, Chars, Printed, Controls, Digits

LEMMA LinesType ==
  ASSUME NEW s \in Seq(Chars)
  PROVE  Lines(s) \in Seq(LineChars) /\ (s \in Seq(LineChars) => Lines(s) = s)
<1> DEFINE t == [i \in DOMAIN s |-> Plain(s, i)]
<1>1. \A i \in DOMAIN s : s[i] \in Chars /\ Plain(s, i) \in Chars
  BY DEF Plain, Chars, Controls, Printed
<1>2. t \in Seq(Chars)
  BY <1>1
<1>3. Lines(s) = Keep(t, LineChars)
  BY DEF Lines, LineChars
<1>4. ASSUME s \in Seq(LineChars) PROVE t = s
  <2>1. \A i \in DOMAIN s : s[i] \in LineChars
    BY <1>4
  <2>2. \A i \in DOMAIN s : Plain(s, i) = s[i]
    <3> SUFFICES ASSUME NEW i \in DOMAIN s PROVE Plain(s, i) = s[i]
      OBVIOUS
    <3>1. s[i] # "cr" /\ s[i] # "tab"
      BY <2>1, CharSets DEF LineChars
    <3>2. i \in 1..Len(s)
      OBVIOUS
    <3>3. i > 1 => i - 1 \in DOMAIN s
      BY <3>2
    <3>4. i > 1 => s[i - 1] # "cr"
      BY <2>1, <3>3, CharSets DEF LineChars
    <3>5. QED
      BY <3>1, <3>4 DEF Plain
  <2>3. QED
    BY <1>2, <2>2
<1> HIDE DEF t
<1>5. Keep(t, LineChars) \in Seq(LineChars)
  BY <1>2, KeepType, CharSets
<1>6. QED
  BY <1>3, <1>4, <1>5, KeepAll

\* What control c of a form may hold.
Allowed(c) ==
  IF c = "text" THEN {v \in Seq(LineChars) : Bytes(v) <= MaxText}
  ELSE {v \in Seq(IF c \in DigitFields THEN Digits ELSE Printed) : Len(v) <= MaxOf(c)}

LEMMA SubSeqOf ==
  ASSUME NEW C, NEW D, D \subseteq C, NEW s \in Seq(D)
  PROVE  s \in Seq(C)
OBVIOUS

LEMMA AreaType ==
  ASSUME NEW s \in Seq(Chars), NEW n \in Nat
  PROVE  /\ Area(s, n) \in Seq(LineChars) /\ Bytes(Area(s, n)) <= n
         /\ s \in Seq(LineChars) /\ Bytes(s) <= n => Area(s, n) = s
<1>1. Lines(s) \in Seq(LineChars) /\ (s \in Seq(LineChars) => Lines(s) = s)
  BY LinesType
<1>2. QED
  BY <1>1, LimitBytesFits DEF Area

LEMMA FirstLineType ==
  ASSUME NEW s \in Seq(Chars)
  PROVE  FirstLine(s) \in Seq(Chars) /\ (s \in Seq(Chars \ Controls) => FirstLine(s) = s)
<1> DEFINE E == {i \in DOMAIN s : s[i] \in {"lf", "cr"}}
           m == Min(E \cup {Len(s) + 1})
<1>1. Len(s) \in Nat /\ E \subseteq 1..Len(s)
  OBVIOUS
<1>2. m \in E \cup {Len(s) + 1}
  <2> DEFINE F == E \cup {Len(s) + 1}
  <2>1. F \subseteq Nat /\ F # {}
    BY <1>1
  <2> HIDE DEF F
  <2>2. Min(F) \in F
    BY <2>1, LeastIs
  <2>3. QED
    BY <2>2 DEF F
<1>3. FirstLine(s) = SubSeq(s, 1, m - 1)
  BY DEF FirstLine
<1>4. ASSUME s \in Seq(Chars \ Controls) PROVE m = Len(s) + 1
  <2>1. \A i \in DOMAIN s : s[i] \notin Controls
    BY <1>4
  <2>2. E = {}
    BY <2>1 DEF Controls
  <2>3. QED
    BY <1>2, <2>2
<1> HIDE DEF m, E
<1>5. m - 1 \in 0..Len(s)
  BY <1>1, <1>2
<1>6. SubSeq(s, 1, m - 1) \in Seq(Chars)
  BY <1>5, Halves
<1>7. ASSUME s \in Seq(Chars \ Controls) PROVE SubSeq(s, 1, m - 1) = s
  BY <1>1, <1>4, <1>7, SubSeqFull
<1>8. QED
  BY <1>3, <1>6, <1>7

LEMMA MaxOfType == \A c : MaxOf(c) \in Nat
BY LimitsAssumption DEF MaxOf

LEMMA NormalType ==
  ASSUME NEW c, NEW s \in Seq(Chars)
  PROVE  /\ Normal(c, s) \in Allowed(c)
         /\ s \in Allowed(c) => Normal(c, s) = s
<1>1. CASE c = "text"
  <2>1. MaxText \in Nat
    BY LimitsAssumption
  <2>2. Normal(c, s) = Area(s, MaxText)
    BY <1>1 DEF Normal, DigitFields
  <2>3. QED
    BY <1>1, <2>1, <2>2, AreaType DEF Allowed
<1>2. CASE c # "text" /\ c \in DigitFields
  <2>1. Keep(s, Digits) \in Seq(Digits) /\ (s \in Seq(Digits) => Keep(s, Digits) = s)
    BY KeepType, KeepAll, CharSets
  <2>2. Normal(c, s) = Limit(Keep(s, Digits), MaxOf(c))
    BY <1>2 DEF Normal
  <2>3. QED
    BY <1>2, <2>1, <2>2, LimitFits, MaxOfType DEF Allowed
<1>3. CASE c # "text" /\ c \notin DigitFields
  <2> DEFINE l == FirstLine(s)
  <2>1. l \in Seq(Chars) /\ (s \in Seq(Printed) => l = s)
    <3>1. s \in Seq(Printed) => s \in Seq(Chars \ Controls)
      <4>1. Printed \subseteq Chars \ Controls
        BY CharSets
      <4>2. QED
        BY <4>1, SubSeqOf
    <3>2. QED
      BY <3>1, FirstLineType
  <2>2. Normal(c, s) = Limit(Keep(l, Printed), MaxOf(c))
    BY <1>3 DEF Normal
  <2> HIDE DEF l
  <2>3. Keep(l, Printed) \in Seq(Printed) /\ (l \in Seq(Printed) => Keep(l, Printed) = l)
    BY <2>1, KeepType, KeepAll, CharSets
  <2>4. QED
    BY <1>3, <2>1, <2>2, <2>3, LimitFits, MaxOfType DEF Allowed
<1>4. QED
  BY <1>1, <1>2, <1>3

LEMMA AllowedIsString ==
  ASSUME NEW c, NEW s \in Allowed(c)
  PROVE  s \in Seq(Chars) /\ s = Normal(c, s)
<1>1. s \in Seq(Chars)
  BY CharSets, SubSeqOf DEF Allowed
<1>2. QED
  BY <1>1, NormalType

-----------------------------------------------------------------------------
(* Editing a string *)

LEMMA Spliced ==
  ASSUME NEW C, NEW v \in Seq(C), NEW x \in Seq(C), NEW n \in 0..Len(v)
  PROVE  LET r == SubSeq(v, 1, n) \o x \o SubSeq(v, n + 1, Len(v)) IN
           /\ r \in Seq(C) /\ Len(r) = Len(v) + Len(x) /\ n + Len(x) \in 0..Len(r)
           /\ Bytes(r) = Bytes(v) + Bytes(x)
<1> DEFINE a == SubSeq(v, 1, n)
           b == SubSeq(v, n + 1, Len(v))
<1>1. /\ a \in Seq(C) /\ b \in Seq(C) /\ Len(a) = n /\ Len(b) = Len(v) - n
      /\ v = a \o b
  BY Halves
<1> HIDE DEF a, b
<1>2. a \o x \in Seq(C) /\ a \o x \o b \in Seq(C)
  BY <1>1
<1>3. Len(a \o x) = Len(a) + Len(x) /\ Len(a \o x \o b) = Len(a \o x) + Len(b)
  BY <1>1, <1>2, ConcatProperties
<1>4. /\ Bytes(a \o x) = Bytes(a) + Bytes(x) /\ Bytes(a \o x \o b) = Bytes(a \o x) + Bytes(b)
      /\ Bytes(v) = Bytes(a) + Bytes(b)
  BY <1>1, <1>2, BytesConcat
<1>5. Bytes(a) \in Nat /\ Bytes(b) \in Nat /\ Bytes(x) \in Nat
  BY <1>1, BytesType
<1>6. Len(a \o x \o b) = Len(v) + Len(x) /\ n + Len(x) \in 0..Len(a \o x \o b)
  <2>1. Len(v) \in Nat /\ Len(x) \in Nat /\ n \in Nat /\ n <= Len(v)
    OBVIOUS
  <2>2. Len(a \o x \o b) = n + Len(x) + (Len(v) - n)
    BY <1>1, <1>3
  <2>3. QED
    BY <2>1, <2>2
<1>7. Bytes(a \o x \o b) = Bytes(v) + Bytes(x)
  BY <1>4, <1>5
<1>8. QED
  BY <1>2, <1>6, <1>7 DEF a, b

LEMMA Removed ==
  ASSUME NEW C, NEW v \in Seq(C), NEW i \in 1..Len(v)
  PROVE  /\ RemoveAt(v, i) \in Seq(C) /\ Len(RemoveAt(v, i)) = Len(v) - 1
         /\ Bytes(RemoveAt(v, i)) <= Bytes(v)
<1> DEFINE a == SubSeq(v, 1, i - 1)
           w == SubSeq(v, i, Len(v))
           b == SubSeq(v, i + 1, Len(v))
<1>1. i - 1 \in 0..Len(v) /\ (i - 1) + 1 = i /\ i \in 0..Len(v) /\ Len(v) \in i..Len(v)
      /\ Len(v) \in Nat
  OBVIOUS
<1>2. a \in Seq(C) /\ w \in Seq(C) /\ Len(a) = i - 1 /\ v = a \o w
  BY <1>1, Halves
<1>3. b \in Seq(C) /\ Len(b) = Len(v) - i
  BY <1>1, Halves
<1>4. w = <<v[i]>> \o b
  BY <1>1, SubSeqRecursiveFirst
<1>5. v[i] \in C
  OBVIOUS
<1> DEFINE u == <<v[i]>>
<1>6. u \in Seq(C) /\ w = u \o b
  BY <1>4, <1>5
<1>7. RemoveAt(v, i) = a \o b
  BY DEF RemoveAt
<1> HIDE DEF a, b, w, u
<1>8. a \o b \in Seq(C) /\ Len(a \o b) = Len(a) + Len(b)
  BY <1>2, <1>3, ConcatProperties
<1>9. /\ Bytes(v) = Bytes(a) + Bytes(w) /\ Bytes(w) = Bytes(u) + Bytes(b)
      /\ Bytes(a \o b) = Bytes(a) + Bytes(b)
  BY <1>2, <1>3, <1>6, BytesConcat
<1>10. Bytes(a) \in Nat /\ Bytes(b) \in Nat /\ Bytes(u) \in Nat
  BY <1>2, <1>3, <1>6, BytesType
<1>11. Bytes(a \o b) <= Bytes(v)
  BY <1>9, <1>10
<1>12. Len(a \o b) = Len(v) - 1
  BY <1>1, <1>2, <1>3, <1>8
<1>13. QED
  BY <1>7, <1>8, <1>11, <1>12

LEMMA LineStartIs ==
  ASSUME NEW s \in Seq(Chars), NEW n \in 0..Len(s)
  PROVE  LineStart(s, n) \in 0..n
<1> DEFINE P(m, k) == (k = 0 \/ s[k] = "lf") /\ \A i \in (k + 1)..m : s[i] # "lf"
           T == {m \in Nat : \E k \in 0..m : P(m, k)}
<1>1. 0 \in T
  <2>1. P(0, 0)
    OBVIOUS
  <2>2. QED
    BY <2>1
<1>2. ASSUME NEW m \in Nat, m \in T PROVE m + 1 \in T
  <2>1. PICK k \in 0..m : P(m, k)
    BY <1>2
  <2>2. CASE s[m + 1] = "lf"
    <3>1. P(m + 1, m + 1)
      BY <2>2
    <3>2. QED
      BY <3>1
  <2>3. CASE s[m + 1] # "lf"
    <3>1. P(m + 1, k)
      BY <2>1, <2>3
    <3>2. QED
      BY <3>1
  <2>4. QED
    BY <2>2, <2>3
<1>3. n \in T
  <2> HIDE DEF T
  <2>1. Nat \subseteq T
    BY <1>1, <1>2, Induction
  <2>2. QED
    BY <2>1
<1>4. \E k \in 0..n : P(n, k)
  BY <1>3
<1>5. QED
  BY <1>4 DEF LineStart

LEMMA LineEndIs ==
  ASSUME NEW s \in Seq(Chars), NEW n \in 0..Len(s)
  PROVE  LineEnd(s, n) \in n..Len(s)
<1> DEFINE E == {k \in n..Len(s) : k = Len(s) \/ s[k + 1] = "lf"}
           k == Min(E)
<1>1. Len(s) \in Nat /\ n \in Nat /\ n <= Len(s)
  OBVIOUS
<1>2. E \subseteq Nat /\ E # {}
  <2>1. Len(s) \in E
    BY <1>1
  <2>2. QED
    BY <1>1, <2>1
<1>3. k \in E /\ \A m \in E : k <= m
  <2> HIDE DEF E
  <2>1. QED
    BY <1>2, LeastIs
<1> HIDE DEF k
<1>4. ASSUME NEW i \in (n + 1)..k PROVE s[i] # "lf"
  <2>1. i - 1 \in n..Len(s) /\ (i - 1) + 1 = i /\ ~ (k <= i - 1)
    BY <1>1, <1>3
  <2>2. QED
    BY <1>3, <2>1
<1>5. /\ k \in n..Len(s) /\ (k = Len(s) \/ s[k + 1] = "lf")
      /\ \A i \in (n + 1)..k : s[i] # "lf"
  BY <1>3, <1>4
<1>6. QED
  BY <1>5 DEF LineEnd

LEMMA LineAboveIs ==
  ASSUME NEW s \in Seq(Chars), NEW n \in 0..Len(s)
  PROVE  LineAbove(s, n) \in 0..Len(s)
<1> DEFINE start == LineStart(s, n)
           above == LineStart(s, start - 1)
<1>1. start \in 0..n /\ Len(s) \in Nat
  BY LineStartIs
<1>2. ASSUME start # 0 PROVE above \in 0..start - 1
  <2>1. start - 1 \in 0..Len(s)
    BY <1>1, <1>2
  <2>2. QED
    BY <2>1, LineStartIs
<1>3. LineAbove(s, n) = IF start = 0 THEN n ELSE above + Smaller(n - start, start - 1 - above)
  BY DEF LineAbove
<1> HIDE DEF start, above
<1>4. QED
  BY <1>1, <1>2, <1>3 DEF Smaller

LEMMA LineBelowIs ==
  ASSUME NEW s \in Seq(Chars), NEW n \in 0..Len(s)
  PROVE  LineBelow(s, n) \in 0..Len(s)
<1> DEFINE start == LineStart(s, n)
           end == LineEnd(s, n)
           below == LineEnd(s, end + 1)
<1>1. start \in 0..n /\ end \in n..Len(s) /\ Len(s) \in Nat
  BY LineStartIs, LineEndIs
<1>2. ASSUME end # Len(s) PROVE below \in end + 1..Len(s)
  <2>1. end + 1 \in 0..Len(s)
    BY <1>1, <1>2
  <2>2. QED
    BY <2>1, LineEndIs
<1>3. LineBelow(s, n) =
        IF end = Len(s) THEN n ELSE end + 1 + Smaller(n - start, below - (end + 1))
  BY DEF LineBelow
<1> HIDE DEF start, end, below
<1>4. QED
  BY <1>1, <1>2, <1>3 DEF Smaller

-----------------------------------------------------------------------------
(***************************************************************************)
(* The invariant of a form: every field holds what its control lets in,    *)
(* the cursors are in their fields, and a text that is edited is the one   *)
(* loaded, as the window shows it, until the user changes it.              *)
(***************************************************************************)
ValuesFit(f) == \A c \in DOMAIN f.values : f.values[c] \in Allowed(c)

CursorsFit(f) ==
  /\ f.type = "text" => f.area \in 0..Len(f.values["text"])
  /\ f.active \in LineFields => f.cursor \in 0..Len(f.values[f.active])

OriginalFits(f) ==
  f.type = "text" /\ f.editing =>
    /\ ValidLines(f.original, MaxText)
    /\ ~ f.dirty => f.values["text"] = Area(f.original, MaxText)

FormFits(f) ==
  /\ f.type \in Types /\ f \in Forms(f.type)
  /\ ValuesFit(f) /\ CursorsFit(f) /\ OriginalFits(f)

\* What TextIsKept says of a step from form f to form g.
TextKept(f, g) ==
  f.type = "text" =>
    IF f.values["text"] = g.values["text"] THEN SentText(g) = SentText(f)
    ELSE Area(SentText(g), MaxText) = g.values["text"]

\* An edit or a movement leads from form f to form g.
Advances(f, g) ==
  FormFits(g) /\ g.type = f.type /\ g.editing = f.editing /\ TextKept(f, g)

LEMMA FieldsIs ==
  /\ \A type \in Types : /\ FieldsOf(type) \subseteq LineFields \cup {"text"}
                         /\ FieldsOf(type) \subseteq Range(Order(type))
                         /\ Range(Order(type)) \cap LineFields \subseteq FieldsOf(type)
                         /\ "title" \in FieldsOf(type)
                         /\ "text" \in FieldsOf(type) <=> type = "text"
                         /\ "text" \in Range(Order(type)) <=> type = "text"
                         /\ "metadata" \in FieldsOf(type)
  /\ {"login", "password", "url"} \subseteq FieldsOf("credentials")
  /\ {"number", "cardholder", "month", "year", "cvv"} \subseteq FieldsOf("card")
  /\ "text" \notin LineFields
<1>1. /\ Range(Order("text")) = {"title", "text", "metadata", "submit", "cancel"}
      /\ Range(Order("credentials")) =
           {"title", "login", "password", "url", "metadata", "submit", "reveal", "cancel"}
      /\ Range(Order("card")) =
           {"title", "number", "cardholder", "month", "year", "cvv", "metadata", "submit",
            "reveal", "cancel"}
      /\ Range(Order("binary")) = {"title", "filePath", "metadata", "submit", "cancel"}
  BY DEF Range, Order
<1>2. QED
  BY <1>1 DEF FieldsOf, Types, LineFields, DigitFields

LEMMA EditedAdvances ==
  ASSUME NEW f, FormFits(f), f.active \in DOMAIN f.values,
         NEW s \in Allowed(f.active), NEW n \in 0..Len(s)
  PROVE  Advances(f, Edited(f, s, n))
<1> DEFINE g == Edited(f, s, n)
<1>1. f.type \in Types /\ f \in Forms(f.type) /\ DOMAIN f.values = FieldsOf(f.type)
  BY DEF FormFits, Forms
<1>2. s \in Seq(Chars) /\ n \in Nat
  BY AllowedIsString
<1>3. CASE f.active = "text"
  <2>1. f.type = "text" /\ "text" \in FieldsOf(f.type)
    BY <1>1, <1>3, FieldsIs
  <2> DEFINE v == [f.values EXCEPT !["text"] = s]
             d == (f.dirty \/ (f.editing /\ s # f.values["text"]))
  <2>2. g = [f EXCEPT !.values = v, !.area = n, !.dirty = d]
    BY <1>3 DEF Edited
  <2>3. v \in [FieldsOf(f.type) -> Seq(Chars)] /\ v["text"] = s /\ d \in BOOLEAN
        /\ \A c \in FieldsOf(f.type) : v[c] \in Allowed(c)
    BY <1>1, <1>2, <1>3, <2>1 DEF Forms, FormFits, ValuesFit
  <2> HIDE DEF v
  <2>4. /\ g \in Forms(f.type) /\ g.type = f.type /\ g.values = v /\ g.area = n
        /\ g.dirty = (f.dirty \/ (f.editing /\ s # f.values["text"]))
        /\ g.active = f.active /\ g.editing = f.editing /\ g.original = f.original
    BY <1>1, <1>2, <2>2, <2>3 DEF Forms
  <2>5. ValuesFit(g)
    BY <1>1, <2>3, <2>4 DEF ValuesFit, Forms
  <2>6. CursorsFit(g)
    BY <1>3, <2>3, <2>4, FieldsIs DEF CursorsFit
  <2>7. OriginalFits(g)
    BY <2>1, <2>3, <2>4 DEF OriginalFits, FormFits
  <2>8. TextKept(f, g)
    <3>1. s \in Seq(LineChars) /\ Bytes(s) <= MaxText /\ MaxText \in Nat
      BY <1>3, LimitsAssumption DEF Allowed
    <3>2. Area(s, MaxText) = s
      BY <1>2, <3>1, AreaType
    <3>3. QED
      BY <2>3, <2>4, <3>2 DEF TextKept, SentText
  <2>9. QED
    BY <1>1, <2>4, <2>5, <2>6, <2>7, <2>8 DEF Advances, FormFits
<1>4. CASE f.active # "text"
  <2>1. f.active \in LineFields
    BY <1>1, <1>4, FieldsIs
  <2> DEFINE v == [f.values EXCEPT ![f.active] = s]
  <2>2. g = [f EXCEPT !.values = v, !.cursor = n]
    BY <1>4 DEF Edited
  <2>3. v \in [FieldsOf(f.type) -> Seq(Chars)] /\ v[f.active] = s
        /\ (f.type = "text" => v["text"] = f.values["text"])
        /\ \A c \in FieldsOf(f.type) : v[c] \in Allowed(c)
    BY <1>1, <1>2, <1>4, FieldsIs DEF Forms, FormFits, ValuesFit
  <2> HIDE DEF v
  <2>4. /\ g \in Forms(f.type) /\ g.type = f.type /\ g.values = v /\ g.area = f.area
        /\ g.dirty = f.dirty /\ g.cursor = n
        /\ g.active = f.active /\ g.editing = f.editing /\ g.original = f.original
    BY <1>1, <1>2, <2>2, <2>3 DEF Forms
  <2>5. ValuesFit(g)
    BY <1>1, <2>3, <2>4 DEF ValuesFit, Forms
  <2>6. CursorsFit(g)
    BY <2>1, <2>3, <2>4 DEF CursorsFit, FormFits
  <2>7. OriginalFits(g)
    BY <2>3, <2>4 DEF OriginalFits, FormFits
  <2>8. TextKept(f, g)
    BY <2>3, <2>4 DEF TextKept, SentText
  <2>9. QED
    BY <1>1, <2>4, <2>5, <2>6, <2>7, <2>8 DEF Advances, FormFits
<1>5. QED
  BY <1>3, <1>4

LEMMA ActiveFits ==
  ASSUME NEW f, FormFits(f), f.active \in DOMAIN f.values
  PROVE  /\ f.values[f.active] \in Allowed(f.active)
         /\ CursorOf(f) \in 0..Len(f.values[f.active])
<1>1. f.type \in Types /\ f \in Forms(f.type) /\ DOMAIN f.values = FieldsOf(f.type)
  BY DEF FormFits, Forms
<1>2. f.active = "text" => f.type = "text"
  BY <1>1, FieldsIs
<1>3. f.active # "text" => f.active \in LineFields
  BY <1>1, FieldsIs
<1>4. QED
  BY <1>2, <1>3 DEF FormFits, ValuesFit, CursorsFit, CursorOf

LEMMA InsertAdvances ==
  ASSUME NEW f, FormFits(f), f.active \in DOMAIN f.values, NEW s \in Seq(Chars)
  PROVE  Advances(f, InsertedIn(f, s))
<1> DEFINE n == CursorOf(f)
           value == f.values[f.active]
           new == Fitting(f, s)
           r == SubSeq(value, 1, n) \o new \o SubSeq(value, n + 1, Len(value))
           c == f.active
<1>1. value \in Allowed(c) /\ n \in 0..Len(value)
  BY ActiveFits
<1>2. InsertedIn(f, s) = Edited(f, r, n + Len(new))
  BY DEF InsertedIn
<1>3. CASE c = "text"
  <2>1. value \in Seq(LineChars) /\ Bytes(value) <= MaxText /\ MaxText \in Nat
    BY <1>1, <1>3, LimitsAssumption DEF Allowed
  <2>2. Area(s, MaxText) \in Seq(Chars)
    BY <2>1, AreaType, CharSets, SubSeqOf
  <2>3. Bytes(value) \in Nat /\ MaxText - Bytes(value) \in Nat
    BY <2>1, BytesType
  <2>4. new = Area(Area(s, MaxText), MaxText - Bytes(value))
    BY <1>3 DEF Fitting
  <2> HIDE DEF n, value, new, r
  <2>5. new \in Seq(LineChars) /\ Bytes(new) <= MaxText - Bytes(value)
    BY <2>2, <2>3, <2>4, AreaType
  <2>6. Bytes(new) \in Nat
    BY <2>5, BytesType
  <2>7. r \in Seq(LineChars) /\ n + Len(new) \in 0..Len(r) /\ Bytes(r) = Bytes(value) + Bytes(new)
    BY <1>1, <2>1, <2>5, Spliced DEF r
  <2>8. r \in Allowed(c)
    BY <1>3, <2>1, <2>3, <2>5, <2>6, <2>7 DEF Allowed
  <2>9. QED
    BY <1>2, <2>7, <2>8, EditedAdvances
<1>4. CASE c # "text"
  <2> DEFINE S == IF c \in DigitFields THEN Digits ELSE Printed
  <2>1. value \in Seq(S) /\ Len(value) <= MaxOf(c) /\ MaxOf(c) \in Nat
    BY <1>1, <1>4, MaxOfType DEF Allowed
  <2>2. Normal(c, s) \in Seq(S)
    BY <1>4, NormalType DEF Allowed
  <2>3. Len(value) \in Nat /\ MaxOf(c) - Len(value) \in Nat
    BY <2>1
  <2>4. new = Limit(Normal(c, s), MaxOf(c) - Len(value))
    BY <1>4 DEF Fitting
  <2> HIDE DEF n, value, new, r, S
  <2>5. new \in Seq(S) /\ Len(new) <= MaxOf(c) - Len(value)
    BY <2>2, <2>3, <2>4, LimitFits
  <2>6. r \in Seq(S) /\ n + Len(new) \in 0..Len(r) /\ Len(r) = Len(value) + Len(new)
    BY <1>1, <2>1, <2>5, Spliced DEF r
  <2>7. Len(new) \in Nat
    BY <2>5
  <2>8. r \in Allowed(c)
    BY <1>4, <2>1, <2>3, <2>5, <2>6, <2>7 DEF Allowed, S
  <2>9. QED
    BY <1>2, <2>6, <2>8, EditedAdvances
<1>5. QED
  BY <1>3, <1>4

LEMMA RemoveAdvances ==
  ASSUME NEW f, FormFits(f), f.active \in DOMAIN f.values,
         NEW i \in 1..Len(f.values[f.active])
  PROVE  Advances(f, Edited(f, RemoveAt(f.values[f.active], i), i - 1))
<1> DEFINE value == f.values[f.active]
           r == RemoveAt(value, i)
           c == f.active
<1>1. value \in Allowed(c)
  BY ActiveFits
<1>2. r \in Allowed(c) /\ Len(r) = Len(value) - 1
  <2>1. CASE c = "text"
    <3>1. value \in Seq(LineChars) /\ Bytes(value) <= MaxText /\ MaxText \in Nat
      BY <1>1, <2>1, LimitsAssumption DEF Allowed
    <3> HIDE DEF value
    <3>2. r \in Seq(LineChars) /\ Len(r) = Len(value) - 1 /\ Bytes(r) <= Bytes(value)
      BY <3>1, Removed DEF value
    <3>3. Bytes(r) \in Nat /\ Bytes(value) \in Nat
      BY <3>1, <3>2, BytesType
    <3>4. QED
      BY <2>1, <3>1, <3>2, <3>3 DEF Allowed
  <2>2. CASE c # "text"
    <3> DEFINE S == IF c \in DigitFields THEN Digits ELSE Printed
    <3>1. value \in Seq(S) /\ Len(value) <= MaxOf(c) /\ MaxOf(c) \in Nat
      BY <1>1, <2>2, MaxOfType DEF Allowed
    <3> HIDE DEF value, S
    <3>2. r \in Seq(S) /\ Len(r) = Len(value) - 1
      BY <3>1, Removed DEF value
    <3>3. Len(value) \in Nat
      BY <3>1
    <3>4. QED
      BY <2>2, <3>1, <3>2, <3>3 DEF Allowed, S
  <2>3. QED
    BY <2>1, <2>2
<1>3. i - 1 \in 0..Len(r)
  BY <1>2
<1>4. QED
  BY <1>2, <1>3, EditedAdvances

LEMMA PlacedAdvances ==
  ASSUME NEW f, FormFits(f), NEW g \in Forms(f.type), CursorsFit(g),
         g.values = f.values, g.editing = f.editing, g.original = f.original, g.dirty = f.dirty
  PROVE  Advances(f, g)
<1>1. g.type = f.type
  BY DEF Forms
<1>2. ValuesFit(g) /\ OriginalFits(g) /\ TextKept(f, g)
  BY <1>1 DEF FormFits, ValuesFit, OriginalFits, TextKept, SentText
<1>3. QED
  BY <1>1, <1>2 DEF Advances, FormFits

LEMMA AreaMoves ==
  ASSUME NEW f, FormFits(f), f.active = "text", f.active \in DOMAIN f.values,
         NEW k \in 0..Len(f.values["text"])
  PROVE  Advances(f, [f EXCEPT !.area = k])
<1> DEFINE g == [f EXCEPT !.area = k]
<1>1. f \in Forms(f.type) /\ k \in Nat /\ "text" \notin LineFields
  BY FieldsIs DEF FormFits
<1>2. /\ g \in Forms(f.type) /\ g.values = f.values /\ g.editing = f.editing /\ g.area = k
      /\ g.original = f.original /\ g.dirty = f.dirty /\ g.active = f.active
  BY <1>1 DEF Forms
<1> HIDE DEF g
<1>3. CursorsFit(g)
  BY <1>1, <1>2 DEF CursorsFit
<1>4. QED
  BY <1>2, <1>3, PlacedAdvances DEF g

LEMMA CursorMoves ==
  ASSUME NEW f, FormFits(f), f.active # "text", f.active \in DOMAIN f.values,
         NEW k \in 0..Len(f.values[f.active])
  PROVE  Advances(f, [f EXCEPT !.cursor = k])
<1> DEFINE g == [f EXCEPT !.cursor = k]
<1>1. f \in Forms(f.type) /\ k \in Nat
  BY DEF FormFits
<1>2. /\ g \in Forms(f.type) /\ g.values = f.values /\ g.editing = f.editing /\ g.area = f.area
      /\ g.original = f.original /\ g.dirty = f.dirty /\ g.active = f.active /\ g.cursor = k
      /\ g.type = f.type
  BY <1>1 DEF Forms
<1> HIDE DEF g
<1>3. CursorsFit(g)
  BY <1>1, <1>2 DEF CursorsFit, FormFits
<1>4. QED
  BY <1>2, <1>3, PlacedAdvances DEF g

LEMMA FocusAdvances ==
  ASSUME NEW f, FormFits(f), NEW c \in Range(Order(f.type))
  PROVE  Advances(f, FocusedOn(f, c))
<1> DEFINE g == FocusedOn(f, c)
<1>1. f \in Forms(f.type) /\ f.type \in Types /\ DOMAIN f.values = FieldsOf(f.type)
  BY DEF FormFits, Forms
<1>2. \A d \in DOMAIN f.values : f.values[d] \in Seq(Chars) /\ Len(f.values[d]) \in Nat
  BY <1>1 DEF Forms
<1>3. CASE c = "text"
  <2> DEFINE a == LineEnd(f.values["text"], f.area)
  <2>1. f.type = "text" /\ "text" \in DOMAIN f.values /\ "text" \notin LineFields
    BY <1>1, <1>3, FieldsIs
  <2>2. f.area \in 0..Len(f.values["text"])
    BY <2>1 DEF FormFits, CursorsFit
  <2>3. a \in 0..Len(f.values["text"]) /\ a \in Nat
    BY <1>2, <2>1, <2>2, LineEndIs
  <2>4. g = [f EXCEPT !.active = c, !.area = a, !.cursor = 0]
    BY <1>3 DEF FocusedOn
  <2> HIDE DEF a, g
  <2>5. /\ g \in Forms(f.type) /\ g.values = f.values /\ g.editing = f.editing /\ g.area = a
        /\ g.original = f.original /\ g.dirty = f.dirty /\ g.active = c
    BY <1>1, <2>3, <2>4 DEF Forms
  <2>6. CursorsFit(g)
    BY <1>3, <2>1, <2>3, <2>5 DEF CursorsFit
  <2>7. QED
    BY <2>5, <2>6, PlacedAdvances DEF g
<1>4. CASE c # "text"
  <2> DEFINE n == IF c \in DOMAIN f.values THEN Len(f.values[c]) ELSE 0
  <2>1. n \in Nat
    BY <1>2
  <2>2. g = [f EXCEPT !.active = c, !.cursor = n]
    BY <1>4 DEF FocusedOn
  <2>3. c \in LineFields => c \in DOMAIN f.values /\ n \in 0..Len(f.values[c])
    BY <1>1, <1>2, FieldsIs
  <2> HIDE DEF n
  <2>4. /\ g \in Forms(f.type) /\ g.values = f.values /\ g.editing = f.editing /\ g.area = f.area
        /\ g.original = f.original /\ g.dirty = f.dirty /\ g.active = c /\ g.cursor = n
        /\ g.type = f.type
    BY <1>1, <2>1, <2>2 DEF Forms
  <2> HIDE DEF g
  <2>5. CursorsFit(g)
    BY <2>3, <2>4 DEF CursorsFit, FormFits
  <2>6. QED
    BY <2>4, <2>5, PlacedAdvances DEF g
<1>5. QED
  BY <1>3, <1>4

LEMMA NewFits ==
  ASSUME NEW type \in Types
  PROVE  FormFits(NewForm(type)) /\ NewForm(type).type = type /\ ~ NewForm(type).editing
<1> DEFINE g == NewForm(type)
           v == [c \in FieldsOf(type) |-> <<>>]
<1>1. "title" \in Range(Order(type)) /\ "title" \in FieldsOf(type) /\ <<>> \in Seq(Chars)
      /\ ("text" \in FieldsOf(type) <=> type = "text")
  BY FieldsIs
<1>2. \A c : <<>> \in Allowed(c)
  <2>1. MaxText \in Nat /\ \A c : MaxOf(c) \in Nat
    BY LimitsAssumption, MaxOfType
  <2>2. Len(<<>>) = 0 /\ \A S : <<>> \in Seq(S)
    OBVIOUS
  <2>3. QED
    BY <2>1, <2>2, BytesEmpty DEF Allowed
<1>3. v \in [FieldsOf(type) -> Seq(Chars)]
  BY <1>1
<1>4. /\ g \in Forms(type) /\ g.values = v /\ g.active = "title" /\ g.cursor = 0 /\ g.area = 0
      /\ ~ g.editing /\ g.type = type
  BY <1>1, <1>3 DEF NewForm, Forms
<1>5. ValuesFit(g)
  BY <1>2, <1>4 DEF ValuesFit
<1>6. 0 \in 0..Len(<<>>)
  OBVIOUS
<1>7. CursorsFit(g)
  BY <1>1, <1>4, <1>6 DEF CursorsFit
<1>8. OriginalFits(g)
  BY <1>4 DEF OriginalFits
<1>9. QED
  BY <1>4, <1>5, <1>7, <1>8 DEF FormFits

LEMMA EditFits ==
  ASSUME NEW record \in Loads
  PROVE  FormFits(EditForm(record)) /\ EditForm(record).editing
<1> DEFINE type == record.type
           g == EditForm(record)
           v == [c \in FieldsOf(type) |-> Normal(c, record.values[c])]
           a == IF type = "text" THEN Len(v["text"]) ELSE 0
           o == IF type = "text" THEN record.values["text"] ELSE <<>>
           n == Len(v["title"])
<1>1. type \in Types /\ record.values \in [FieldsOf(type) -> Seq(Chars)]
      /\ ValidRecord(type, record.values)
  BY LoadsAssumption
<1>2. /\ "title" \in Range(Order(type)) /\ "title" \in FieldsOf(type)
      /\ ("text" \in FieldsOf(type) <=> type = "text")
  BY <1>1, FieldsIs
<1>3. \A c \in FieldsOf(type) : v[c] \in Allowed(c) /\ v[c] \in Seq(Chars)
  BY <1>1, NormalType, AllowedIsString
<1>4. v \in [FieldsOf(type) -> Seq(Chars)]
  BY <1>3
<1>5. n \in Nat /\ a \in Nat /\ o \in Seq(Chars) /\ a \in 0..a /\ n \in 0..n
  BY <1>1, <1>2, <1>3
<1>6. g = [NewForm(type) EXCEPT !.editing = TRUE, !.values = v, !.cursor = n, !.area = a,
                                !.original = o, !.existing = type = "binary"]
  BY DEF EditForm
<1>7. type = "text" =>
        /\ a = Len(v["text"]) /\ o = record.values["text"] /\ v["text"] = Area(o, MaxText)
  BY <1>2 DEF Normal, DigitFields
<1> HIDE DEF v, a, o
<1>8. /\ g \in Forms(type) /\ g.values = v /\ g.active = "title" /\ g.cursor = n /\ g.area = a
      /\ g.editing /\ g.type = type /\ g.original = o /\ ~ g.dirty
  <2> DEFINE e == type = "binary"
  <2>1. e \in BOOLEAN
    OBVIOUS
  <2>2. NewForm(type) \in Forms(type) /\ NewForm(type).active = "title" /\ ~ NewForm(type).dirty
    BY <1>1, NewFits DEF NewForm, FormFits
  <2>3. g = [NewForm(type) EXCEPT !.editing = TRUE, !.values = v, !.cursor = n, !.area = a,
                                  !.original = o, !.existing = e]
    BY <1>6
  <2> HIDE DEF n, type, e, g
  <2>4. QED
    BY <1>4, <1>5, <2>1, <2>2, <2>3 DEF Forms
<1> HIDE DEF g
<1>9. ValuesFit(g)
  BY <1>3, <1>4, <1>8 DEF ValuesFit
<1>10. CursorsFit(g)
  BY <1>5, <1>7, <1>8 DEF CursorsFit
<1>11. OriginalFits(g)
  BY <1>1, <1>7, <1>8 DEF OriginalFits, ValidRecord, ValidText
<1>12. QED
  BY <1>1, <1>8, <1>9, <1>10, <1>11 DEF FormFits, g

-----------------------------------------------------------------------------
(* What is submitted *)

LEMMA MaxIs ==
  ASSUME NEW n \in Nat, NEW S \in SUBSET (1..n), S # {}
  PROVE  Max(S) \in S /\ \A m \in S : m <= Max(S)
<1> DEFINE R == {n - m : m \in S}
           k == Min(R)
<1>1. R \subseteq Nat /\ R # {}
  <2>1. \A m \in S : m \in 1..n /\ n - m \in Nat
    OBVIOUS
  <2>2. \A i \in R : i \in Nat
    BY <2>1
  <2>3. PICK m \in S : TRUE
    OBVIOUS
  <2>4. n - m \in R
    BY <2>3
  <2>5. QED
    BY <2>2, <2>4
<1>2. k \in R /\ \A i \in R : k <= i
  <2> HIDE DEF R
  <2>1. QED
    BY <1>1, LeastIs
<1> HIDE DEF k
<1>3. PICK x \in S : k = n - x
  BY <1>2
<1>4. \A m \in S : x >= m
  <2> SUFFICES ASSUME NEW m \in S PROVE x >= m
    OBVIOUS
  <2>1. n - x <= n - m /\ x \in Nat /\ m \in Nat
    BY <1>2, <1>3
  <2>2. QED
    BY <2>1
<1>5. Max(S) \in S /\ \A m \in S : Max(S) >= m
  BY <1>3, <1>4 DEF Max
<1>6. QED
  BY <1>5

\* What is left of a string without the spaces at its ends is one of its parts, and
\* empty only if there is nothing but spaces.
LEMMA TrimmedIs ==
  ASSUME NEW C, NEW s \in Seq(C)
  PROVE  /\ Trimmed(s) \in Seq(C) /\ Len(Trimmed(s)) <= Len(s)
         /\ ~ Blank(s) <=> \E i \in DOMAIN s : s[i] \notin Spaces
         /\ ~ Blank(s) => ~ Blank(Trimmed(s))
<1> DEFINE Solid(t) == {i \in DOMAIN t : t[i] \notin Spaces}
<1>1. \A t \in Seq(C) : Trimmed(t) = IF Solid(t) = {} THEN <<>> ELSE SubSeq(t, Min(Solid(t)), Max(Solid(t)))
  BY DEF Trimmed
<1>2. ASSUME NEW t \in Seq(C), Solid(t) # {}
      PROVE  /\ Trimmed(t) \in Seq(C) /\ Len(Trimmed(t)) <= Len(t) /\ Trimmed(t) # <<>>
             /\ Solid(Trimmed(t)) # {}
  <2> DEFINE S == Solid(t)
             a == Min(S)
             b == Max(S)
             u == SubSeq(t, a, b)
  <2>1. Len(t) \in Nat /\ S \in SUBSET (1..Len(t)) /\ S \subseteq Nat /\ S # {}
    BY <1>2
  <2>2. a \in S /\ b \in S /\ a <= b
    <3> HIDE DEF S
    <3>1. a \in S /\ b \in S /\ \A m \in S : m <= b
      BY <2>1, LeastIs, MaxIs
    <3>2. QED
      BY <3>1
  <2>3. a \in 1..Len(t) /\ b \in 1..Len(t) /\ t[a] \notin Spaces
    BY <2>1, <2>2
  <2>4. Trimmed(t) = u
    BY <1>1, <1>2
  <2> HIDE DEF a, b, S
  <2>5. u \in Seq(C) /\ Len(u) = b - a + 1 /\ u[1] = t[a]
    BY <2>1, <2>2, <2>3
  <2>6. Len(u) <= Len(t) /\ u # <<>> /\ 1 \in DOMAIN u
    BY <2>1, <2>2, <2>3, <2>5
  <2>7. 1 \in Solid(u)
    BY <2>3, <2>5, <2>6
  <2>8. QED
    BY <2>4, <2>5, <2>6, <2>7
<1>3. ASSUME NEW t \in Seq(C), Solid(t) = {} PROVE Trimmed(t) = <<>>
  BY <1>1, <1>3
<1>4. Trimmed(s) \in Seq(C) /\ Len(Trimmed(s)) <= Len(s)
  <2>1. CASE Solid(s) # {}
    BY <1>2, <2>1
  <2>2. CASE Solid(s) = {}
    <3>1. Trimmed(s) = <<>>
      BY <1>3, <2>2
    <3>2. QED
      BY <3>1
  <2>3. QED
    BY <2>1, <2>2
<1>5. ASSUME NEW t \in Seq(C) PROVE ~ Blank(t) <=> Solid(t) # {}
  BY <1>2, <1>3 DEF Blank
<1>6. ~ Blank(s) => ~ Blank(Trimmed(s))
  BY <1>2, <1>4, <1>5
<1>7. QED
  BY <1>4, <1>5, <1>6

LEMMA ExpiryInTwoDigits ==
  ASSUME NEW month \in Seq(Digits), Len(month) <= 2, NEW year \in Seq(Digits), Len(year) <= 2,
         ExpiryParses(month, year)
  PROVE  ExpiryParses(TwoDigits(month), TwoDigits(year))
<1>1. ASSUME NEW s \in Seq(Digits)
      PROVE  /\ TwoDigits(s) = <<>> <=> s = <<>>
             /\ s # <<>> /\ Len(s) <= 2 => Number(TwoDigits(s)) = Number(s)
  <2>1. CASE Len(s) = 1
    <3> DEFINE t == <<"0">> \o s
    <3>1. Len(t) = 2 /\ t[1] = "0" /\ t[2] = s[1] /\ t # <<>> /\ s # <<>>
      <4> DEFINE z == <<"0">>
      <4>1. z \in Seq(Digits) /\ Len(z) = 1 /\ z[1] = "0"
        BY DEF Digits
      <4> HIDE DEF z
      <4>2. Len(z \o s) = 2 /\ (z \o s)[1] = "0" /\ (z \o s)[2] = s[1]
        BY <2>1, <4>1, ConcatProperties
      <4>3. QED
        BY <2>1, <4>1, <4>2 DEF z
    <3>2. TwoDigits(s) = t
      BY <2>1 DEF TwoDigits
    <3>3. Digit(s[1]) \in Nat /\ Digit("0") = 0
      BY DEF Digit
    <3> HIDE DEF t
    <3>4. Number(t) = 10 * 0 + Digit(s[1])
      BY <3>1, <3>3 DEF Number
    <3>5. QED
      BY <2>1, <3>1, <3>2, <3>3, <3>4 DEF Number
  <2>2. CASE Len(s) # 1
    BY <2>2 DEF TwoDigits
  <2>3. QED
    BY <2>1, <2>2
<1>2. QED
  BY <1>1 DEF ExpiryParses

\* What is sent of each field.
LEMMA SentIs ==
  ASSUME NEW f, NEW c \in FieldsOf(f.type)
  PROVE  Sent(f)[c] = IF c = "text" THEN SentText(f)
                      ELSE IF c = "title" THEN Trimmed(f.values[c])
                      ELSE IF c \in {"month", "year"} THEN TwoDigits(f.values[c])
                      ELSE f.values[c]
BY DEF Sent

LEMMA LineIsValid ==
  ASSUME NEW c, c # "text", c \notin DigitFields, NEW s \in Allowed(c)
  PROVE  ValidLine(s, MaxField)
<1>1. s \in Seq(Printed) /\ Len(s) <= MaxField
  BY DEF Allowed, MaxOf, DigitFields
<1>2. Keep(s, Controls) = <<>>
  BY <1>1, KeepNone, CharSets
<1>3. QED
  BY <1>1, <1>2 DEF ValidLine

LEMMA DigitsAreValid ==
  ASSUME NEW c \in DigitFields, NEW s \in Allowed(c), NEW low, NEW high, Len(s) \in low..high
  PROVE  ValidDigits(s, low, high)
<1>1. s \in Seq(Digits)
  BY DEF Allowed, DigitFields
<1>2. QED
  BY <1>1, KeepAll DEF ValidDigits

LEMMA SubmittedFits ==
  ASSUME NEW f, FormFits(f), CanSubmit(f)
  PROVE  ValidRecord(f.type, Sent(f))
<1> DEFINE v == f.values
           w == Sent(f)
<1>1. f.type \in Types /\ f \in Forms(f.type) /\ DOMAIN v = FieldsOf(f.type)
  BY DEF FormFits, Forms
<1>2. \A c \in FieldsOf(f.type) :
        /\ v[c] \in Allowed(c)
        /\ c \notin {"text", "title", "month", "year"} => w[c] = v[c]
  BY <1>1, SentIs DEF FormFits, ValuesFit
<1>3. ~ Blank(v["title"])
  BY DEF CanSubmit
<1>4. ValidRequired(w["title"], MaxField) /\ ValidLine(w["metadata"], MaxField)
  <2>1. /\ "title" \in FieldsOf(f.type) /\ "metadata" \in FieldsOf(f.type)
        /\ {"title", "metadata"} \cap DigitFields = {}
    BY <1>1, FieldsIs DEF DigitFields
  <2>2. ValidLine(w["metadata"], MaxField)
    BY <1>2, <2>1, LineIsValid
  <2>3. w["title"] = Trimmed(v["title"]) /\ MaxOf("title") = MaxField
    BY <1>1, <2>1, SentIs DEF MaxOf, DigitFields
  <2>4. v["title"] \in Seq(Printed) /\ Len(v["title"]) <= MaxField
    BY <1>2, <2>1, <2>3 DEF Allowed
  <2>5. /\ w["title"] \in Seq(Printed) /\ Len(w["title"]) <= Len(v["title"])
        /\ ~ Blank(w["title"])
    BY <1>3, <2>3, <2>4, TrimmedIs
  <2>6. w["title"] \in Allowed("title")
    <3>1. Len(w["title"]) <= MaxField
      BY <2>4, <2>5, LimitsAssumption
    <3>2. QED
      BY <2>1, <2>3, <2>5, <3>1 DEF Allowed
  <2>7. ValidLine(w["title"], MaxField)
    BY <2>1, <2>6, LineIsValid
  <2>8. QED
    BY <2>2, <2>5, <2>7 DEF ValidRequired
<1>5. ASSUME f.type = "text" PROVE ValidText(w)
  <2>1. "text" \in FieldsOf(f.type) /\ w["text"] = SentText(f) /\ v["text"] # <<>>
    BY <1>1, <1>5, FieldsIs, SentIs DEF CanSubmit
  <2>2. v["text"] \in Seq(LineChars) /\ Bytes(v["text"]) <= MaxText
    BY <1>1, <2>1 DEF FormFits, ValuesFit, Allowed
  <2>3. CASE f.editing /\ ~ f.dirty
    BY <1>5, <2>1, <2>3 DEF FormFits, OriginalFits, ValidText, SentText
  <2>4. CASE ~ (f.editing /\ ~ f.dirty)
    BY <2>1, <2>2, <2>4 DEF ValidText, ValidLines, SentText
  <2>5. QED
    BY <2>3, <2>4
<1>6. ASSUME f.type = "credentials" PROVE ValidCredentials(w)
  <2>1. /\ {"login", "password", "url"} \subseteq FieldsOf(f.type)
        /\ {"login", "password", "url"} \cap DigitFields = {}
    BY <1>6, FieldsIs DEF DigitFields
  <2>2. /\ ValidLine(v["login"], MaxField) /\ ValidLine(v["password"], MaxField)
        /\ ValidLine(v["url"], MaxField)
    BY <1>2, <2>1, LineIsValid
  <2>3. ~ Blank(v["login"]) /\ ~ Blank(v["password"])
    BY <1>6 DEF CanSubmit
  <2>4. QED
    BY <1>2, <2>1, <2>2, <2>3 DEF ValidCredentials, ValidRequired
<1>7. ASSUME f.type = "card" PROVE ValidCard(w)
  <2>1. /\ {"number", "cardholder", "month", "year", "cvv"} \subseteq FieldsOf(f.type)
        /\ "cardholder" \notin DigitFields /\ {"number", "month", "year", "cvv"} \subseteq DigitFields
    BY <1>7, FieldsIs DEF DigitFields
  <2>2. /\ Len(v["number"]) \in MinNumber..MaxNumber
        /\ v["cvv"] # <<>> => Len(v["cvv"]) = CVVSize
        /\ ExpiryParses(v["month"], v["year"])
    BY <1>7 DEF CanSubmit
  <2>3. ValidDigits(v["number"], MinNumber, MaxNumber)
    BY <1>2, <2>1, <2>2, DigitsAreValid
  <2>4. v["cvv"] # <<>> => ValidDigits(v["cvv"], CVVSize, CVVSize)
    <3>1. CVVSize \in CVVSize..CVVSize
      BY LimitsAssumption
    <3>2. QED
      BY <1>2, <2>1, <2>2, <3>1, DigitsAreValid
  <2>5. ValidLine(v["cardholder"], MaxField)
    BY <1>2, <2>1, LineIsValid
  <2>6. ExpiryParses(w["month"], w["year"])
    <3>1. w["month"] = TwoDigits(v["month"]) /\ w["year"] = TwoDigits(v["year"])
      BY <2>1, SentIs
    <3>2. MaxOf("month") = 2 /\ MaxOf("year") = 2
      BY DEF MaxOf
    <3>3. \A c \in {"month", "year"} : v[c] \in Seq(Digits) /\ Len(v[c]) <= 2
      BY <1>2, <2>1, <3>2 DEF Allowed
    <3>4. QED
      BY <2>2, <3>1, <3>3, ExpiryInTwoDigits
  <2>7. QED
    BY <1>2, <2>1, <2>3, <2>4, <2>5, <2>6 DEF ValidCard
<1>8. QED
  BY <1>4, <1>5, <1>6, <1>7 DEF ValidRecord

-----------------------------------------------------------------------------
(* What is sent of a text *)

LEMMA SentFits ==
  ASSUME NEW f, FormFits(f), f.type = "text"
  PROVE  Area(SentText(f), MaxText) = f.values["text"]
<1>1. f \in Forms(f.type) /\ f.type \in Types /\ MaxText \in Nat
  BY LimitsAssumption DEF FormFits
<1>2. "text" \in DOMAIN f.values
  BY <1>1, FieldsIs DEF Forms
<1>3. CASE f.editing /\ ~ f.dirty
  BY <1>3 DEF FormFits, OriginalFits, SentText
<1>4. CASE ~ (f.editing /\ ~ f.dirty)
  <2>1. f.values["text"] \in Seq(LineChars) /\ Bytes(f.values["text"]) <= MaxText
    BY <1>2 DEF FormFits, ValuesFit, Allowed
  <2>2. f.values["text"] \in Seq(Chars)
    BY <2>1, CharSets, SubSeqOf
  <2>3. QED
    BY <1>1, <1>4, <2>1, <2>2, AreaType DEF SentText
<1>5. QED
  BY <1>3, <1>4

-----------------------------------------------------------------------------
(* The user at the form *)

LEMMA MoveAdvances ==
  ASSUME FormFits(form), MoveCursor
  PROVE  Advances(form, form')
<1> DEFINE value == form.values[form.active]
           n == CursorOf(form)
           near == {n - 1, n + 1} \cap 0..Len(value)
<1>1. form.active \in DOMAIN form.values
  BY DEF MoveCursor, InField
<1>2. value \in Seq(Chars) /\ n \in 0..Len(value) /\ Len(value) \in Nat
  <2>1. value \in Allowed(form.active) /\ n \in 0..Len(value)
    BY <1>1, ActiveFits
  <2>2. value \in Seq(Chars)
    BY <2>1, AllowedIsString
  <2>3. QED
    BY <2>1, <2>2
<1>3. CASE form.active = "text"
  <2>1. PICK k \in near \cup {LineStart(value, n), LineEnd(value, n), LineAbove(value, n),
                              LineBelow(value, n)} :
          form' = [form EXCEPT !.area = k]
    BY <1>3 DEF MoveCursor
  <2>2. LineStart(value, n) \in 0..Len(value) /\ LineEnd(value, n) \in 0..Len(value)
    <3>1. LineStart(value, n) \in 0..n /\ LineEnd(value, n) \in n..Len(value)
      BY <1>2, LineStartIs, LineEndIs
    <3>2. QED
      BY <1>2, <3>1
  <2>3. LineAbove(value, n) \in 0..Len(value) /\ LineBelow(value, n) \in 0..Len(value)
    BY <1>2, LineAboveIs, LineBelowIs
  <2>4. k \in 0..Len(value)
    BY <2>1, <2>2, <2>3
  <2>5. QED
    BY <1>1, <1>3, <2>1, <2>4, AreaMoves
<1>4. CASE form.active # "text"
  <2>1. PICK k \in near \cup {0, Len(value)} : form' = [form EXCEPT !.cursor = k]
    BY <1>4 DEF MoveCursor
  <2>2. k \in 0..Len(value)
    BY <1>2, <2>1
  <2>3. QED
    BY <1>1, <1>4, <2>1, <2>2, CursorMoves
<1>5. QED
  BY <1>3, <1>4

\* Whatever the user does at a form leads to a form that fits.
LEMMA EditsAdvance ==
  ASSUME form # NoForm => FormFits(form), UserEdits
  PROVE  form # NoForm /\ Advances(form, form') /\ UNCHANGED pickerVars
<1>1. ASSUME NEW s \in Inputs, Insert(s)
      PROVE  form # NoForm /\ Advances(form, form') /\ UNCHANGED pickerVars
  <2>1. s \in Seq(Chars)
    BY InputsAssumption
  <2>2. form # NoForm /\ form.active \in DOMAIN form.values /\ form' = InsertedIn(form, s)
    BY <1>1 DEF Insert, InField, Ready
  <2>3. QED
    BY <1>1, <2>1, <2>2, InsertAdvances DEF Insert
<1>2. ASSUME NEW i \in 1..Len(form.values[form.active]), InField,
             form' = Edited(form, RemoveAt(form.values[form.active], i), i - 1)
      PROVE  form # NoForm /\ Advances(form, form')
  <2>1. form # NoForm /\ form.active \in DOMAIN form.values
    BY <1>2 DEF InField, Ready
  <2>2. QED
    BY <1>2, <2>1, RemoveAdvances
<1>3. ASSUME InField
      PROVE  CursorOf(form) \in 0..Len(form.values[form.active])
             /\ Len(form.values[form.active]) \in Nat
  <2>1. form # NoForm /\ form.active \in DOMAIN form.values
    BY <1>3 DEF InField, Ready
  <2>2. /\ form.values[form.active] \in Allowed(form.active)
        /\ CursorOf(form) \in 0..Len(form.values[form.active])
    BY <2>1, ActiveFits
  <2>3. form.values[form.active] \in Seq(Chars)
    BY <2>2, AllowedIsString
  <2>4. QED
    BY <2>2, <2>3
<1>4. CASE Backspace
  <2>1. InField /\ CursorOf(form) \in 1..Len(form.values[form.active])
    BY <1>3, <1>4 DEF Backspace
  <2>2. QED
    BY <1>2, <1>4, <2>1 DEF Backspace
<1>5. CASE Delete
  <2> DEFINE i == CursorOf(form) + 1
  <2>1. InField /\ i \in 1..Len(form.values[form.active]) /\ i - 1 = CursorOf(form)
    BY <1>3, <1>5 DEF Delete
  <2>2. form' = Edited(form, RemoveAt(form.values[form.active], i), i - 1)
    BY <1>5, <2>1 DEF Delete
  <2> HIDE DEF i
  <2>3. QED
    BY <1>2, <1>5, <2>1, <2>2 DEF Delete
<1>6. CASE MoveCursor
  <2>1. form # NoForm
    BY <1>6 DEF MoveCursor, InField, Ready
  <2>2. QED
    BY <1>6, <2>1, MoveAdvances DEF MoveCursor
<1>7. ASSUME NEW c, Focus(c)
      PROVE  form # NoForm /\ Advances(form, form') /\ UNCHANGED pickerVars
  BY <1>7, FocusAdvances DEF Focus, Ready
<1>8. QED
  BY <1>1, <1>4, <1>5, <1>6, <1>7 DEF UserEdits

-----------------------------------------------------------------------------
(* The listing of a directory *)

LEMMA OrderExists ==
  ASSUME NEW S, S \subseteq Nat, IsFiniteSet(S)
  PROVE  \E s \in [1..Cardinality(S) -> S] :
           \A i, j \in 1..Cardinality(S) : i < j => s[i] < s[j]
<1> DEFINE Sorted(n, U) == \E s \in [1..n -> U] : \A i, j \in 1..n : i < j => s[i] < s[j]
           T == {n \in Nat : \A U \in SUBSET Nat :
                                IsFiniteSet(U) /\ Cardinality(U) = n => Sorted(n, U)}
<1>1. 0 \in T
  <2>1. ASSUME NEW U PROVE Sorted(0, U)
    <3> DEFINE e == [i \in {} |-> 0]
    <3>1. 1..0 = {} /\ e \in [1..0 -> U]
      OBVIOUS
    <3>2. QED
      BY <3>1
  <2>2. QED
    BY <2>1
<1>2. ASSUME NEW n \in Nat, n \in T PROVE n + 1 \in T
  <2> SUFFICES ASSUME NEW U \in SUBSET Nat, IsFiniteSet(U), Cardinality(U) = n + 1
               PROVE  Sorted(n + 1, U)
    OBVIOUS
  <2> DEFINE m == Min(U)
             V == U \ {m}
  <2>1. U # {}
    BY FS_EmptySet
  <2>2. m \in U /\ \A k \in U : m <= k
    BY <2>1, LeastIs
  <2> HIDE DEF m
  <2>3. V \in SUBSET Nat /\ IsFiniteSet(V) /\ Cardinality(V) = n /\ \A k \in V : k \in U /\ m < k
    <3>1. IsFiniteSet(V) /\ Cardinality(V) = Cardinality(U) - 1
      BY <2>2, FS_RemoveElement
    <3>2. QED
      BY <2>2, <3>1
  <2>4. PICK s \in [1..n -> V] : \A i, j \in 1..n : i < j => s[i] < s[j]
    BY <1>2, <2>3
  <2> DEFINE t == [i \in 1..n + 1 |-> IF i = 1 THEN m ELSE s[i - 1]]
  <2> HIDE DEF V
  <2>5. \A i \in 1..n + 1 : i # 1 => i - 1 \in 1..n /\ t[i] = s[i - 1] /\ t[i] \in V
    BY <2>4
  <2>6. t \in [1..n + 1 -> U]
    BY <2>2, <2>3, <2>5
  <2>7. ASSUME NEW i \in 1..n + 1, NEW j \in 1..n + 1, i < j PROVE t[i] < t[j]
    <3>1. j # 1
      BY <2>7
    <3>2. CASE i = 1
      BY <2>3, <2>5, <3>1, <3>2
    <3>3. CASE i # 1
      <4>1. i - 1 \in 1..n /\ j - 1 \in 1..n /\ i - 1 < j - 1
        BY <2>7, <3>1, <3>3
      <4>2. QED
        BY <2>4, <2>5, <3>1, <3>3, <4>1
    <3>4. QED
      BY <3>2, <3>3
  <2> HIDE DEF t
  <2>8. QED
    BY <2>6, <2>7
<1>3. Cardinality(S) \in T
  <2>1. Cardinality(S) \in Nat
    BY FS_CardinalityType
  <2>2. Nat \subseteq T
    <3> HIDE DEF T
    <3>1. QED
      BY <1>1, <1>2, Induction
  <2>3. QED
    BY <2>1, <2>2
<1>4. QED
  BY <1>3

LEMMA NamedIs ==
  ASSUME NEW S, S \subseteq Nat, IsFiniteSet(S), NEW kind
  PROVE  /\ Named(S, kind) \in Seq([name : S, kind : {kind}])
         /\ S = {} => Named(S, kind) = <<>>
<1> DEFINE n == Cardinality(S)
           s == InOrder(S)
<1>1. n \in Nat /\ (S = {} => n = 0)
  BY FS_CardinalityType, FS_EmptySet
<1>2. s \in [1..n -> S]
  BY OrderExists DEF InOrder
<1>3. Named(S, kind) = [i \in 1..n |-> [name |-> s[i], kind |-> kind]]
  BY DEF Named
<1> HIDE DEF n, s
<1>4. \A i \in 1..n : [name |-> s[i], kind |-> kind] \in [name : S, kind : {kind}]
  BY <1>2
<1>5. Named(S, kind) \in Seq([name : S, kind : {kind}])
  BY <1>1, <1>3, <1>4
<1>6. ASSUME S = {} PROVE Named(S, kind) = <<>>
  BY <1>1, <1>3, <1>6
<1>7. QED
  BY <1>5, <1>6

\* What a list of entries in directory d may hold.
EntriesFit(entries, d) ==
  entries # <<>> =>
    /\ Up \in Range(entries) <=> d # Root
    /\ \A e \in Range(entries) : e.kind = "directory" => Len(d) < MaxDepth

LEMMA ElementsOf ==
  ASSUME NEW C, NEW s \in Seq(C)
  PROVE  \A i \in DOMAIN s : s[i] \in C
OBVIOUS

LEMMA RangeConcat ==
  ASSUME NEW C, NEW a \in Seq(C), NEW b \in Seq(C)
  PROVE  Range(a \o b) = Range(a) \cup Range(b)
<1> DEFINE c == a \o b
<1>1. /\ c \in Seq(C) /\ Len(c) = Len(a) + Len(b) /\ Len(a) \in Nat /\ Len(b) \in Nat
      /\ \A i \in 1..Len(a) : c[i] = a[i]
      /\ \A i \in 1..Len(b) : c[Len(a) + i] = b[i]
  BY ConcatProperties
<1>2. /\ DOMAIN a = 1..Len(a) /\ DOMAIN b = 1..Len(b) /\ DOMAIN c = 1..Len(c)
  BY <1>1
<1> HIDE DEF c
<1>3. ASSUME NEW i \in DOMAIN c PROVE c[i] \in Range(a) \cup Range(b)
  <2>1. CASE i <= Len(a)
    <3>1. i \in DOMAIN a /\ c[i] = a[i]
      BY <1>1, <1>2, <2>1
    <3>2. QED
      BY <3>1 DEF Range
  <2>2. CASE ~ (i <= Len(a))
    <3> DEFINE j == i - Len(a)
    <3>1. j \in DOMAIN b /\ i = Len(a) + j
      BY <1>1, <1>2, <2>2
    <3>2. c[i] = b[j]
      BY <1>1, <1>2, <3>1
    <3>3. QED
      BY <3>1, <3>2 DEF Range
  <2>3. QED
    BY <2>1, <2>2
<1>4. ASSUME NEW i \in DOMAIN a PROVE i \in DOMAIN c /\ a[i] = c[i]
  BY <1>1, <1>2
<1>5. ASSUME NEW i \in DOMAIN b PROVE Len(a) + i \in DOMAIN c /\ b[i] = c[Len(a) + i]
  BY <1>1, <1>2
<1>6. Range(c) \subseteq Range(a) \cup Range(b)
  BY <1>3 DEF Range
<1>7. Range(a) \subseteq Range(c) /\ Range(b) \subseteq Range(c)
  BY <1>4, <1>5 DEF Range
<1>8. QED
  BY <1>6, <1>7 DEF c

LEMMA ListingIs ==
  ASSUME NEW d \in Dirs, NEW only \in BOOLEAN, NEW entries \in Listings(d, only)
  PROVE  entries \in Seq(Entries) /\ EntriesFit(entries, d)
<1>1. CASE entries = <<>>
  BY <1>1 DEF EntriesFit
<1>2. CASE entries # <<>>
  <2>1. PICK names \in SUBSET NamesIn(d) : entries = Listing(d, only, names)
    BY <1>2 DEF Listings
  <2> DEFINE D == DirNames \cap names
             F == FileNames \cap names
             a == IF d = Root THEN <<>> ELSE <<Up>>
             b == Named(D, "directory")
             c == IF only THEN <<>> ELSE Named(F, "file")
  <2>2. /\ D \subseteq Nat /\ F \subseteq Nat /\ IsFiniteSet(D) /\ IsFiniteSet(F)
        /\ D \subseteq DirNames /\ F \subseteq FileNames
    <3>1. DirNames \subseteq Nat /\ FileNames \subseteq Nat /\ IsFiniteSet(DirNames \cup FileNames)
      BY NamesAssumption
    <3>2. D \in SUBSET (DirNames \cup FileNames) /\ F \in SUBSET (DirNames \cup FileNames)
      OBVIOUS
    <3>3. QED
      BY <3>1, <3>2, FS_Subset
  <2>3. b \in Seq([name : D, kind : {"directory"}]) /\ (D = {} => b = <<>>)
    BY <2>2, NamedIs
  <2>4. Named(F, "file") \in Seq([name : F, kind : {"file"}])
    BY <2>2, NamedIs
  <2>5. entries = a \o b \o c
    BY <2>1 DEF Listing
  <2>6. /\ [name : D, kind : {"directory"}] \subseteq Entries
        /\ [name : F, kind : {"file"}] \subseteq Entries /\ Up \in Entries
    BY <2>2 DEF Entries
  <2>7. D # {} => Len(d) < MaxDepth
    BY NamesAssumption DEF NamesIn
  <2> DEFINE N == Named(F, "file")
  <2> HIDE DEF D, F, b, N
  <2>8. a \in Seq(Entries) /\ b \in Seq(Entries) /\ c \in Seq(Entries)
    <3>1. b \in Seq(Entries) /\ N \in Seq(Entries)
      BY <2>3, <2>4, <2>6, SubSeqOf DEF N
    <3>2. QED
      BY <2>6, <3>1 DEF N
  <2>9. /\ \A e \in Range(b) : e.kind = "directory" /\ D # {}
        /\ \A e \in Range(c) : e.kind = "file"
    <3>1. \A i \in DOMAIN b : b[i] \in [name : D, kind : {"directory"}]
      BY <2>3, ElementsOf
    <3>2. \A i \in DOMAIN N : N[i] \in [name : F, kind : {"file"}]
      <4>1. N \in Seq([name : F, kind : {"file"}])
        BY <2>4 DEF N
      <4>2. QED
        BY <4>1, ElementsOf
    <3>3. DOMAIN <<>> = {}
      OBVIOUS
    <3>4. QED
      BY <3>1, <3>2, <3>3 DEF Range, N
  <2>10. Range(a) = IF d = Root THEN {} ELSE {Up}
    BY DEF Range
  <2> HIDE DEF a, c
  <2>11. a \o b \in Seq(Entries) /\ entries \in Seq(Entries)
    BY <2>5, <2>8
  <2>12. Range(entries) = Range(a) \cup Range(b) \cup Range(c)
    <3>1. Range(a \o b) = Range(a) \cup Range(b)
      BY <2>8, RangeConcat
    <3>2. Range(entries) = Range(a \o b) \cup Range(c)
      <4> DEFINE x == a \o b
      <4>1. x \in Seq(Entries) /\ entries = x \o c
        BY <2>5, <2>11
      <4> HIDE DEF x
      <4>2. Range(entries) = Range(x) \cup Range(c)
        BY <2>8, <4>1, RangeConcat
      <4>3. QED
        BY <4>2 DEF x
    <3>3. QED
      BY <3>1, <3>2
  <2>13. Up.kind = "parent"
    BY DEF Up
  <2>14. EntriesFit(entries, d)
    BY <2>7, <2>9, <2>10, <2>12, <2>13 DEF EntriesFit
  <2>15. QED
    BY <2>11, <2>14
<1>3. QED
  BY <1>1, <1>2

-----------------------------------------------------------------------------
(* Paths *)

LEMMA DirectoriesAre ==
  ASSUME NEW d
  PROVE  d \in Dirs <=> d \in Seq(DirNames) /\ Len(d) <= MaxDepth
<1>1. MaxDepth \in Nat
  BY NamesAssumption
<1>2. ASSUME d \in Dirs PROVE d \in Seq(DirNames) /\ Len(d) <= MaxDepth
  <2>1. PICK n \in 0..MaxDepth : d \in [1..n -> DirNames]
    BY <1>2 DEF Dirs
  <2>2. n \in Nat /\ n <= MaxDepth
    BY <1>1, <2>1
  <2>3. QED
    BY <2>1, <2>2
<1>3. ASSUME d \in Seq(DirNames), Len(d) <= MaxDepth PROVE d \in Dirs
  <2>1. Len(d) \in 0..MaxDepth /\ d \in [1..Len(d) -> DirNames]
    BY <1>1, <1>3
  <2>2. QED
    BY <2>1 DEF Dirs
<1>4. QED
  BY <1>2, <1>3

LEMMA PathsAre ==
  /\ Root \in Dirs
  /\ \A d \in Dirs :
       /\ d # Root => Front(d) \in Dirs /\ Last(d) \in DirNames
       /\ Len(d) < MaxDepth => \A n \in DirNames : Append(d, n) \in Dirs
  /\ \A path \in Files : path # Root => Last(path) \in FileNames
<1>1. Root \in Dirs
  <2>1. Root \in Seq(DirNames) /\ Len(Root) = 0 /\ MaxDepth \in Nat
    BY NamesAssumption DEF Root
  <2>2. Len(Root) <= MaxDepth
    BY <2>1
  <2>3. QED
    BY <2>1, <2>2, Zenon, DirectoriesAre
<1>2. ASSUME NEW d \in Dirs, d # Root
      PROVE  Front(d) \in Dirs /\ Last(d) \in DirNames
  <2>1. d \in Seq(DirNames) /\ Len(d) <= MaxDepth
    BY DirectoriesAre
  <2>2. Len(d) \in Nat /\ Len(d) # 0 /\ MaxDepth \in Nat
    BY <1>2, <2>1, EmptySeq, NamesAssumption DEF Root
  <2>3. Last(d) \in DirNames
    BY <2>1, <2>2 DEF Last
  <2>4. Len(d) - 1 \in 0..Len(d)
    BY <2>2
  <2>5. Front(d) \in Seq(DirNames) /\ Len(Front(d)) = Len(d) - 1
    BY <2>1, <2>4, Halves DEF Front
  <2>6. QED
    BY <2>1, <2>2, <2>3, <2>5, DirectoriesAre
<1>3. ASSUME NEW d \in Dirs, Len(d) < MaxDepth, NEW n \in DirNames
      PROVE  Append(d, n) \in Dirs
  <2>1. d \in Seq(DirNames) /\ Len(d) \in Nat /\ MaxDepth \in Nat
    BY DirectoriesAre, NamesAssumption
  <2>2. Append(d, n) \in Seq(DirNames) /\ Len(Append(d, n)) <= MaxDepth
    BY <1>3, <2>1
  <2>3. QED
    BY <2>2, DirectoriesAre
<1>4. ASSUME NEW path \in Files PROVE Last(path) \in FileNames
  <2>1. PICK d \in Dirs, f \in FileNames : path = Append(d, f)
    BY DEF Files
  <2>2. d \in Seq(DirNames)
    BY <2>1, DirectoriesAre
  <2>3. Last(path) = f
    BY <2>1, <2>2 DEF Last
  <2>4. QED
    BY <2>3
<1>5. QED
  BY <1>1, <1>2, <1>3, <1>4

-----------------------------------------------------------------------------
(* The open picker *)

\* Pickers that differ in the entry selected and in what is visible at most.
Alike(p, q) ==
  /\ q.target = p.target /\ q.dir = p.dir /\ q.entries = p.entries /\ q.height = p.height
  /\ q.selectName = p.selectName /\ q.focus = p.focus /\ q.click = p.click

LEMMA VisibleIs ==
  ASSUME NEW p \in Pickers
  PROVE  LET q == EnsureVisible(p) IN q \in Pickers /\ Alike(p, q) /\ q.selected = p.selected
<1> DEFINE n == Len(p.entries)
           shown == IF p.selected <= p.offset THEN p.selected - 1
                    ELSE IF p.selected > p.offset + p.height THEN p.selected - p.height
                    ELSE p.offset
           o == IF n = 0 THEN 0 ELSE Between(shown, 0, IF n > p.height THEN n - p.height ELSE 0)
<1>1. p.selected \in Nat /\ p.offset \in Nat /\ p.height \in Nat /\ p.entries \in Seq(Entries)
  BY NamesAssumption DEF Pickers
<1>2. n \in Nat /\ shown \in Int
  BY <1>1
<1> HIDE DEF n, shown
<1>3. o \in Nat
  BY <1>1, <1>2 DEF Between
<1>4. EnsureVisible(p) = [p EXCEPT !.offset = o]
  BY DEF EnsureVisible, n, shown
<1> HIDE DEF o
<1>5. QED
  BY <1>3, <1>4 DEF Pickers, Alike

LEMMA NearIs ==
  ASSUME NEW p \in Pickers, NEW position \in Int
  PROVE  SelectNear(p, position) \in Pickers /\ Alike(p, SelectNear(p, position))
<1>1. CASE p.entries = <<>>
  <2> DEFINE q == [p EXCEPT !.selected = 1]
             r == [q EXCEPT !.offset = 0]
  <2>1. SelectNear(p, position) = r
    BY <1>1 DEF SelectNear
  <2>2. q \in Pickers /\ Alike(p, q)
    BY DEF Pickers, Alike
  <2> HIDE DEF q
  <2>3. r \in Pickers /\ Alike(q, r)
    BY <2>2 DEF Pickers, Alike
  <2>4. QED
    BY <2>1, <2>2, <2>3 DEF Alike
<1>2. CASE p.entries # <<>>
  <2> DEFINE m == Between(position, 1, Len(p.entries))
             q == [p EXCEPT !.selected = m]
  <2>1. p.entries \in Seq(Entries)
    BY DEF Pickers
  <2>2. Len(p.entries) \in Nat /\ Len(p.entries) # 0
    BY <1>2, <2>1, EmptySeq
  <2>3. m \in Nat \ {0}
    BY <2>2 DEF Between
  <2>4. SelectNear(p, position) = EnsureVisible(q)
    BY <1>2 DEF SelectNear
  <2> HIDE DEF m
  <2>5. q \in Pickers /\ Alike(p, q)
    BY <2>3 DEF Pickers, Alike
  <2> HIDE DEF q
  <2>6. EnsureVisible(q) \in Pickers /\ Alike(q, EnsureVisible(q))
    BY <2>5, VisibleIs
  <2>7. QED
    BY <2>4, <2>5, <2>6 DEF Alike
<1>3. QED
  BY <1>1, <1>2

LEMMA HighlightedIs ==
  ASSUME NEW p \in Pickers
  PROVE  LET e == Highlighted(p) IN
           /\ e.kind # "none" => e \in Range(p.entries) /\ e \in Entries
           /\ e.kind = "file" => e.name \in FileNames
           /\ e.kind = "directory" => e.name \in DirNames
           /\ e.kind = "parent" <=> e = Up
<1>1. \A i \in DOMAIN p.entries : p.entries[i] \in Entries
  BY ElementsOf DEF Pickers
<1>2. ASSUME NEW e \in Entries
      PROVE  /\ e.kind = "file" => e.name \in FileNames
             /\ e.kind = "directory" => e.name \in DirNames
             /\ e.kind = "parent" <=> e = Up
  BY DEF Entries, Up
<1>3. CASE p.selected \in DOMAIN p.entries
  BY <1>1, <1>2, <1>3 DEF Highlighted, Range
<1>4. CASE p.selected \notin DOMAIN p.entries
  BY <1>4 DEF Highlighted, NoEntry, Up
<1>5. QED
  BY <1>3, <1>4

LEMMA RingIs ==
  ASSUME NEW ring, NEW n \in {2, 3}, DOMAIN ring = 1..n, NEW x, NEW step \in {-1, 1}
  PROVE  LET here == IF x \in Range(ring) THEN CHOOSE i \in DOMAIN ring : ring[i] = x ELSE 1
         IN  ((here - 1 + step) % n) + 1 \in 1..n
<1> DEFINE here == IF x \in Range(ring) THEN CHOOSE i \in DOMAIN ring : ring[i] = x ELSE 1
<1>1. here \in 1..n
  <2>1. CASE x \in Range(ring)
    <3>1. \E j \in DOMAIN ring : ring[j] = x
      BY <2>1 DEF Range
    <3>2. (CHOOSE i \in DOMAIN ring : ring[i] = x) \in DOMAIN ring
      BY <3>1
    <3>3. QED
      BY <2>1, <3>2
  <2>2. CASE x \notin Range(ring)
    BY <2>2
  <2>3. QED
    BY <2>1, <2>2
<1> HIDE DEF here
<1>2. ((here - 1 + step) % n) + 1 \in 1..n
  BY <1>1
<1>3. QED
  BY <1>2 DEF here

LEMMA NextFocusIs ==
  ASSUME NEW p, NEW step \in {-1, 1}
  PROVE  /\ NextFocus(p, step) \in {"tree", "select", "cancel"}
         /\ NextFocus(p, step) = "select" => SelectEnabled(p)
<1> DEFINE here(ring) == IF p.focus \in Range(ring)
                           THEN CHOOSE i \in DOMAIN ring : ring[i] = p.focus ELSE 1
           place(ring, n) == ((here(ring) - 1 + step) % n) + 1
<1>1. CASE SelectEnabled(p)
  <2> DEFINE ring == <<"tree", "select", "cancel">>
  <2>1. DOMAIN ring = 1..3 /\ Len(ring) = 3
    OBVIOUS
  <2>2. NextFocus(p, step) = ring[place(ring, Len(ring))]
    BY <1>1 DEF NextFocus
  <2>3. \A r : DOMAIN r = 1..3 => place(r, 3) \in 1..3
    BY RingIs
  <2>4. place(ring, 3) \in 1..3
    BY <2>1, <2>3
  <2> HIDE DEF place
  <2>5. QED
    BY <1>1, <2>1, <2>2, <2>4
<1>2. CASE ~ SelectEnabled(p)
  <2> DEFINE ring == <<"tree", "cancel">>
  <2>1. DOMAIN ring = 1..2 /\ Len(ring) = 2
    OBVIOUS
  <2>2. NextFocus(p, step) = ring[place(ring, Len(ring))]
    BY <1>2 DEF NextFocus
  <2>3. \A r : DOMAIN r = 1..2 => place(r, 2) \in 1..2
    BY RingIs
  <2>4. place(ring, 2) \in 1..2
    BY <2>1, <2>3
  <2> HIDE DEF place
  <2>5. QED
    BY <1>2, <2>1, <2>2, <2>4
<1>3. QED
  BY <1>1, <1>2

-----------------------------------------------------------------------------
(***************************************************************************)
(* The invariant of the picker: besides its type, it shows what can be in  *)
(* its directory, Select has the focus only while it can be pressed, and   *)
(* the fields hold paths of their kind, typed ones in the configuration    *)
(* only.                                                                   *)
(***************************************************************************)
OpenFits(p) ==
  /\ p \in Pickers /\ p.target \in TargetsOf(window)
  /\ EntriesFit(p.entries, p.dir)
  /\ p.focus = "select" => SelectEnabled(p)

FieldsFit ==
  /\ fields \in [TargetsOf(window) -> Values]
  /\ PickedFits
  /\ \A t \in DOMAIN fields : fields[t].kind = "typed" => HostOf(t) = "config"

Reads == [dir : Dirs, only : BOOLEAN]

PickerIInv ==
  /\ IsOpen => OpenFits(picker)
  /\ FieldsFit
  /\ BagToSet(reads) \subseteq Reads
  /\ timers \subseteq Timers

LEMMA VoidedFit ==
  ASSUME NEW ts, ts \subseteq Timers
  PROVE  Voided(ts) \subseteq Timers
<1>1. ASSUME NEW t \in Timers
      PROVE  [t EXCEPT !.state = IF @ = "current" THEN "void" ELSE @] \in Timers
  BY DEF Timers
<1>2. QED
  BY <1>1 DEF Voided

LEMMA EarlierFit ==
  ASSUME timers \subseteq Timers
  PROVE  Earlier \subseteq Timers
<1>1. ASSUME NEW t \in Timers PROVE [t EXCEPT !.state = "earlier"] \in Timers
  BY DEF Timers
<1>2. QED
  BY <1>1 DEF Earlier

\* Reads in flight are those asked for by pickers that fit.
LEMMA ReadAdded ==
  ASSUME BagToSet(reads) \subseteq Reads, NEW p \in Pickers
  PROVE  BagToSet(reads (+) SetToBag({ReadOf(p)})) \subseteq Reads
<1>1. ReadOf(p) \in Reads
  <2>1. IsFilePicker(p.target) \in BOOLEAN
    BY DEF IsFilePicker
  <2>2. QED
    BY <2>1 DEF ReadOf, Reads, Pickers
<1>2. QED
  BY <1>1 DEF BagToSet, SetToBag, (+)

LEMMA ReadTaken ==
  ASSUME BagToSet(reads) \subseteq Reads, NEW r
  PROVE  BagToSet(reads (-) SetToBag({r})) \subseteq Reads
BY DEF BagToSet, SetToBag, (-)

LEMMA FitsUnchanged ==
  ASSUME NEW p, OpenFits(p), window' = window
  PROVE  OpenFits(p)'
BY DEF OpenFits

LEMMA FieldsUnchanged ==
  ASSUME FieldsFit, UNCHANGED <<window, fields>>
  PROVE  FieldsFit'
BY DEF FieldsFit, PickedFits

\* The picker without a click is as good.
LEMMA ClearedFits ==
  ASSUME NEW p, OpenFits(p)
  PROVE  OpenFits(ClearClick(p))
<1> DEFINE q == ClearClick(p)
<1>1. /\ q \in Pickers /\ q.target = p.target /\ q.entries = p.entries /\ q.dir = p.dir
      /\ q.focus = p.focus /\ q.selected = p.selected
  BY DEF OpenFits, ClearClick, Pickers, NoClick
<1>2. SelectEnabled(q) <=> SelectEnabled(p)
  BY <1>1 DEF SelectEnabled, CanSelect, Highlighted
<1> HIDE DEF q
<1>3. OpenFits(q)
  BY <1>1, <1>2 DEF OpenFits
<1>4. QED
  BY <1>3 DEF q

LEMMA ContinueFits ==
  ASSUME PickerIInv, NEW p, OpenFits(p), NEW ts \in SUBSET Timers, Continue(p, ts)
  PROVE  PickerIInv'
<1>1. OpenFits(picker)'
  BY ClearedFits, FitsUnchanged DEF Continue
<1>2. FieldsFit'
  BY FieldsUnchanged DEF Continue, PickerIInv
<1>3. timers' \subseteq Timers /\ reads' = reads
  BY VoidedFit DEF Continue
<1>4. QED
  BY <1>1, <1>2, <1>3 DEF PickerIInv

LEMMA EnterFits ==
  ASSUME PickerIInv, NEW p, OpenFits(p), p.focus = "tree", NEW ts \in SUBSET Timers,
         NEW d \in Dirs, NEW name \in {NoName, 0} \cup DirNames \cup FileNames,
         Enter(p, d, name, ts)
  PROVE  PickerIInv'
<1> DEFINE c == ClearClick(p)
           q == [c EXCEPT !.dir = d, !.entries = <<>>, !.selected = 1, !.offset = 0,
                          !.selectName = name]
<1>1. c \in Pickers /\ c.target = p.target /\ c.focus = "tree"
  BY DEF OpenFits, ClearClick, Pickers, NoClick
<1> HIDE DEF c
<1>2. q \in Pickers /\ q.target = p.target /\ q.focus = "tree" /\ q.entries = <<>>
  <2> DEFINE e == <<>>
  <2>1. e \in Seq(Entries) /\ 1 \in Nat \ {0} /\ 0 \in Nat
    OBVIOUS
  <2>2. q = [c EXCEPT !.dir = d, !.entries = e, !.selected = 1, !.offset = 0, !.selectName = name]
    OBVIOUS
  <2> HIDE DEF q
  <2>3. q.entries = e
    BY <1>1, <2>2 DEF Pickers
  <2> HIDE DEF e
  <2>4. q \in Pickers /\ q.target = c.target /\ q.focus = c.focus
    BY <1>1, <2>1, <2>2 DEF Pickers
  <2>5. QED
    BY <1>1, <2>3, <2>4 DEF e
<1>3. picker' = q /\ reads' = reads (+) SetToBag({ReadOf(q)})
  BY DEF Enter, c
<1> HIDE DEF q
<1>4. OpenFits(q)
  BY <1>2 DEF OpenFits, EntriesFit
<1>5. OpenFits(picker)'
  BY <1>3, <1>4, FitsUnchanged DEF Enter
<1>6. FieldsFit' /\ timers' \subseteq Timers
  BY FieldsUnchanged, VoidedFit DEF Enter, PickerIInv
<1>7. BagToSet(reads') \subseteq Reads
  BY <1>2, <1>3, ReadAdded DEF PickerIInv
<1>8. QED
  BY <1>5, <1>6, <1>7 DEF PickerIInv

LEMMA OpenHighlightedFits ==
  ASSUME PickerIInv, NEW p, OpenFits(p), p.focus = "tree", NEW ts \in SUBSET Timers,
         OpenHighlighted(p, ts)
  PROVE  PickerIInv'
<1> DEFINE e == Highlighted(p)
<1>1. p.dir \in Dirs /\ p.selectName \in {NoName, 0} \cup DirNames \cup FileNames
  BY DEF OpenFits, Pickers
<1>2. /\ e.kind # "none" => e \in Range(p.entries) /\ e \in Entries
      /\ e.kind = "directory" => e.name \in DirNames
      /\ e.kind = "parent" <=> e = Up
  BY HighlightedIs DEF OpenFits
<1>3. CASE ~ IsDirectory(e) \/ (e = Up /\ p.dir = Root)
  BY <1>3, ContinueFits DEF OpenHighlighted
<1>4. CASE e = Up /\ p.dir # Root
  <2>1. Enter(p, Front(p.dir), Last(p.dir), ts)
    BY <1>4 DEF OpenHighlighted, IsDirectory, Up
  <2>2. Front(p.dir) \in Dirs /\ Last(p.dir) \in DirNames
    BY <1>1, <1>4, PathsAre
  <2>3. QED
    BY <2>1, <2>2, EnterFits
<1>5. CASE IsDirectory(e) /\ e # Up
  <2>1. Enter(p, Append(p.dir, e.name), p.selectName, ts)
    BY <1>5 DEF OpenHighlighted
  <2>2. e.kind = "directory" /\ e \in Range(p.entries)
    BY <1>2, <1>5 DEF IsDirectory
  <2>3. Len(p.dir) < MaxDepth
    <3>1. p.entries # <<>>
      BY <2>2 DEF Range
    <3>2. QED
      BY <2>2, <3>1 DEF OpenFits, EntriesFit
  <2>4. Append(p.dir, e.name) \in Dirs
    BY <1>1, <1>2, <2>2, <2>3, PathsAre
  <2>5. QED
    BY <1>1, <2>1, <2>4, EnterFits
<1>6. QED
  BY <1>3, <1>4, <1>5

LEMMA CloseFits ==
  ASSUME PickerIInv, Close, FieldsFit'
  PROVE  PickerIInv'
<1>1. ~ IsOpen'
  BY DEF Close, IsOpen
<1>2. timers' \subseteq Timers /\ reads' = reads
  BY EarlierFit DEF Close, PickerIInv
<1>3. QED
  BY <1>1, <1>2 DEF PickerIInv

\* What is picked is a path of the kind the field is for.
LEMMA PickFits ==
  ASSUME PickerIInv, NEW p, OpenFits(p), SelectEnabled(p), Pick(p)
  PROVE  PickerIInv'
<1> DEFINE e == Highlighted(p)
           path == IF e = Up THEN p.dir ELSE Append(p.dir, e.name)
           kind == IF IsDirectory(e) THEN "directory" ELSE "file"
           v == [path |-> path, kind |-> kind]
           t == p.target
<1>1. p.dir \in Dirs /\ t \in TargetsOf(window) /\ p \in Pickers
  BY DEF OpenFits, Pickers
<1>2. /\ e.kind # "none" => e \in Range(p.entries) /\ e \in Entries
      /\ e.kind = "file" => e.name \in FileNames
      /\ e.kind = "directory" => e.name \in DirNames
      /\ e.kind = "parent" <=> e = Up
  BY <1>1, HighlightedIs
<1>3. v \in Values /\ kind = IF IsFilePicker(t) THEN "file" ELSE "directory"
  <2>1. CASE IsFilePicker(t)
    <3>1. e.kind = "file"
      BY <2>1 DEF SelectEnabled, CanSelect
    <3>2. kind = "file" /\ path = Append(p.dir, e.name)
      BY <1>2, <3>1 DEF IsDirectory
    <3>3. path \in Files
      BY <1>1, <1>2, <3>1, <3>2 DEF Files
    <3> HIDE DEF path, kind
    <3>4. QED
      BY <2>1, <3>2, <3>3 DEF Values
  <2>2. CASE ~ IsFilePicker(t)
    <3>1. IsDirectory(e)
      BY <2>2 DEF SelectEnabled, CanSelect
    <3>2. kind = "directory"
      BY <3>1
    <3>3. path \in Dirs
      <4>1. CASE e = Up
        BY <1>1, <4>1
      <4>2. CASE e # Up
        <5>1. e.kind = "directory" /\ e \in Range(p.entries)
          BY <1>2, <3>1, <4>2 DEF IsDirectory
        <5>2. p.entries # <<>>
          BY <5>1 DEF Range
        <5>3. Len(p.dir) < MaxDepth
          BY <5>1, <5>2 DEF OpenFits, EntriesFit
        <5>4. QED
          BY <1>1, <1>2, <4>2, <5>1, <5>3, PathsAre
      <4>3. QED
        BY <4>1, <4>2
    <3> HIDE DEF path, kind
    <3>4. QED
      BY <2>2, <3>2, <3>3 DEF Values
  <2>3. QED
    BY <2>1, <2>2
<1>4. fields' = [fields EXCEPT ![t] = v] /\ Close
  BY DEF Pick
<1>5. window' = window
  BY <1>4 DEF Close
<1> HIDE DEF v, t
<1>6. FieldsFit'
  <2>1. fields' \in [TargetsOf(window) -> Values]
    BY <1>1, <1>3, <1>4 DEF PickerIInv, FieldsFit
  <2>2. ASSUME NEW u \in DOMAIN fields'
        PROVE  /\ fields'[u].kind \in {"none", "typed", IF IsFilePicker(u) THEN "file" ELSE "directory"}
               /\ fields'[u].kind = "typed" => HostOf(u) = "config"
    <3>1. u \in DOMAIN fields
      BY <1>4
    <3>2. CASE u = t
      <4>1. fields'[u] = v /\ v.kind = kind
        BY <1>4, <3>1, <3>2 DEF v
      <4>2. QED
        BY <1>3, <3>2, <4>1
    <3>3. CASE u # t
      <4>1. fields'[u] = fields[u]
        BY <1>4, <3>1, <3>3
      <4>2. QED
        BY <3>1, <4>1 DEF PickerIInv, FieldsFit, PickedFits
    <3>4. QED
      BY <3>2, <3>3
  <2>3. QED
    BY <1>5, <2>1, <2>2 DEF FieldsFit, PickedFits
<1>7. QED
  BY <1>4, <1>6, CloseFits

-----------------------------------------------------------------------------
(* The steps of the picker *)

\* A picker of the same window whose highlighted entry is the same.
LEMMA SameFits ==
  ASSUME NEW p, OpenFits(p), NEW q \in Pickers, Alike(p, q), q.focus # "select"
  PROVE  OpenFits(q)
BY DEF OpenFits, Alike

LEMMA WithEntriesFits ==
  ASSUME NEW p, OpenFits(p), NEW entries \in Seq(Entries), EntriesFit(entries, p.dir)
  PROVE  OpenFits(WithEntries(p, entries))
<1> DEFINE named == {i \in DOMAIN entries : entries[i].name = p.selectName}
           wanted == IF p.selectName # NoName /\ named # {} THEN CHOOSE i \in named : TRUE
                     ELSE p.selected
           o == [p EXCEPT !.entries = entries, !.selectName = NoName]
           q == SelectNear(o, wanted)
           r == IF q.focus = "select" /\ ~ SelectEnabled(q) THEN FocusTree(q) ELSE q
<1>1. p \in Pickers /\ p.target \in TargetsOf(window)
  BY DEF OpenFits
<1>2. wanted \in Int
  <2>1. named \subseteq Int /\ p.selected \in Int
    BY <1>1 DEF Pickers
  <2>2. QED
    BY <2>1
<1>3. o \in Pickers /\ o.target = p.target /\ o.entries = entries /\ o.dir = p.dir
  BY <1>1 DEF Pickers
<1>4. WithEntries(p, entries) = r
  BY DEF WithEntries
<1> HIDE DEF wanted, o
<1>5. q \in Pickers /\ q.target = p.target /\ q.entries = entries /\ q.dir = p.dir
  BY <1>2, <1>3, NearIs DEF Alike
<1> HIDE DEF q
<1>6. CASE q.focus = "select" /\ ~ SelectEnabled(q)
  <2>1. r = [q EXCEPT !.focus = "tree"]
    BY <1>6 DEF FocusTree
  <2>2. r \in Pickers /\ r.target = p.target /\ r.entries = entries /\ r.dir = p.dir
        /\ r.focus = "tree"
    BY <1>5, <2>1 DEF Pickers
  <2> HIDE DEF r
  <2>3. QED
    BY <1>1, <1>4, <2>2 DEF OpenFits
<1>7. CASE ~ (q.focus = "select" /\ ~ SelectEnabled(q))
  <2>1. r = q
    BY <1>7
  <2> HIDE DEF r
  <2>2. QED
    BY <1>1, <1>4, <1>5, <1>7, <2>1 DEF OpenFits
<1>8. QED
  BY <1>6, <1>7

LEMMA ReadEndsFits ==
  ASSUME PickerIInv, NEW r \in BagToSet(reads), ReadEnds(r)
  PROVE  PickerIInv'
<1>1. r.dir \in Dirs /\ r.only \in BOOLEAN
  BY DEF PickerIInv, Reads
<1>2. FieldsFit' /\ timers' \subseteq Timers /\ window' = window
  BY FieldsUnchanged DEF ReadEnds, PickerIInv
<1>3. BagToSet(reads') \subseteq Reads
  BY ReadTaken DEF ReadEnds, PickerIInv
<1>4. CASE IsOpen /\ picker.dir = r.dir
  <2>1. PICK entries \in Listings(r.dir, r.only) : picker' = WithEntries(picker, entries)
    BY <1>4 DEF ReadEnds
  <2>2. entries \in Seq(Entries) /\ EntriesFit(entries, picker.dir)
    BY <1>1, <1>4, <2>1, ListingIs
  <2>3. OpenFits(picker)'
    BY <1>2, <1>4, <2>1, <2>2, WithEntriesFits, FitsUnchanged DEF PickerIInv
  <2>4. QED
    BY <1>2, <1>3, <2>3 DEF PickerIInv
<1>5. CASE ~ (IsOpen /\ picker.dir = r.dir)
  <2>1. picker' = picker
    BY <1>5 DEF ReadEnds
  <2>2. IsOpen' => OpenFits(picker)'
    BY <1>2, <2>1, FitsUnchanged DEF PickerIInv, IsOpen
  <2>3. QED
    BY <1>2, <1>3, <2>2 DEF PickerIInv
<1>6. QED
  BY <1>4, <1>5

\* A picker with the focus on the tree and another entry selected.
LEMMA ClickedFits ==
  ASSUME NEW p, OpenFits(p), NEW index \in Nat \ {0}
  PROVE  /\ OpenFits(FocusTree([p EXCEPT !.selected = index]))
         /\ FocusTree([p EXCEPT !.selected = index]).focus = "tree"
         /\ OpenFits(EnsureVisible([FocusTree(p) EXCEPT !.selected = index]))
         /\ EnsureVisible([FocusTree(p) EXCEPT !.selected = index]).focus = "tree"
<1> DEFINE q == FocusTree([p EXCEPT !.selected = index])
           r == [FocusTree(p) EXCEPT !.selected = index]
           s == EnsureVisible(r)
<1>1. /\ q \in Pickers /\ q.target = p.target /\ q.dir = p.dir /\ q.entries = p.entries
      /\ q.focus = "tree"
  BY DEF OpenFits, FocusTree, Pickers
<1>2. /\ r \in Pickers /\ r.target = p.target /\ r.dir = p.dir /\ r.entries = p.entries
      /\ r.focus = "tree"
  BY DEF OpenFits, FocusTree, Pickers
<1> HIDE DEF q, r
<1>3. s \in Pickers /\ Alike(r, s)
  BY <1>2, VisibleIs
<1> HIDE DEF s
<1>4. OpenFits(q) /\ OpenFits(s) /\ s.focus = "tree"
  BY <1>1, <1>2, <1>3 DEF OpenFits, Alike
<1>5. QED
  BY <1>1, <1>4 DEF q, r, s

LEMMA KeysFit ==
  ASSUME PickerIInv, NEW step \in {-1, 1}, TabKey(step) \/ ArrowKey(step)
  PROVE  PickerIInv'
<1>1. IsOpen /\ OpenFits(picker) /\ timers \in SUBSET Timers /\ picker \in Pickers
  BY DEF TabKey, ArrowKey, PickerIInv, OpenFits
<1>2. CASE TabKey(step)
  <2> DEFINE n == NextFocus(picker, step)
             q == [picker EXCEPT !.focus = n]
  <2>1. n \in {"tree", "select", "cancel"} /\ (n = "select" => SelectEnabled(picker))
    BY NextFocusIs
  <2> HIDE DEF n
  <2>2. /\ q \in Pickers /\ q.target = picker.target /\ q.entries = picker.entries
        /\ q.dir = picker.dir /\ q.focus = n /\ q.selected = picker.selected
    BY <1>1, <2>1 DEF Pickers
  <2>3. Continue(q, timers)
    BY <1>2 DEF TabKey, n
  <2> HIDE DEF q
  <2>4. SelectEnabled(q) <=> SelectEnabled(picker)
    BY <2>2 DEF SelectEnabled, CanSelect, Highlighted
  <2>5. OpenFits(q)
    BY <1>1, <2>1, <2>2, <2>4 DEF OpenFits
  <2>6. QED
    BY <1>1, <2>3, <2>5, ContinueFits
<1>3. CASE ArrowKey(step) /\ picker.focus = "tree"
  <2> DEFINE q == SelectNear(picker, picker.selected + step)
  <2>1. picker.selected + step \in Int
    BY <1>1 DEF Pickers
  <2>2. q \in Pickers /\ Alike(picker, q)
    BY <1>1, <2>1, NearIs
  <2>3. Continue(q, timers)
    BY <1>3 DEF ArrowKey
  <2> HIDE DEF q
  <2>4. OpenFits(q)
    BY <1>1, <1>3, <2>2, SameFits DEF Alike
  <2>5. QED
    BY <1>1, <2>3, <2>4, ContinueFits
<1>4. CASE ArrowKey(step) /\ picker.focus # "tree"
  BY <1>1, <1>4, ContinueFits DEF ArrowKey
<1>5. QED
  BY <1>2, <1>3, <1>4

LEMMA LeaveFits ==
  ASSUME PickerIInv, Close, UNCHANGED fields
  PROVE  PickerIInv'
BY FieldsUnchanged, CloseFits DEF Close, PickerIInv

LEMMA EnterKeyFits ==
  ASSUME PickerIInv, EnterKey \/ EscKey \/ PressSelect
  PROVE  PickerIInv'
<1>1. IsOpen /\ OpenFits(picker) /\ timers \in SUBSET Timers
  BY DEF EnterKey, EscKey, PressSelect, PickerIInv
<1>2. picker.focus \in {"tree", "select", "cancel"}
  BY <1>1 DEF OpenFits, Pickers
<1>3. ASSUME IF SelectEnabled(picker) THEN Pick(picker) ELSE Continue(picker, timers)
      PROVE  PickerIInv'
  <2>1. CASE SelectEnabled(picker)
    BY <1>1, <1>3, <2>1, PickFits
  <2>2. CASE ~ SelectEnabled(picker)
    BY <1>1, <1>3, <2>2, ContinueFits
  <2>3. QED
    BY <2>1, <2>2
<1>4. CASE EnterKey
  <2>1. CASE picker.focus = "tree"
    <3>1. OpenHighlighted(picker, timers)
      BY <1>4, <2>1 DEF EnterKey
    <3>2. QED
      BY <1>1, <2>1, <3>1, OpenHighlightedFits
  <2>2. CASE picker.focus = "select"
    BY <1>3, <1>4, <2>2 DEF EnterKey
  <2>3. CASE picker.focus = "cancel"
    BY <1>4, <2>3, LeaveFits DEF EnterKey
  <2>4. QED
    BY <1>2, <2>1, <2>2, <2>3
<1>5. CASE EscKey
  BY <1>5, LeaveFits DEF EscKey
<1>6. CASE PressSelect
  BY <1>3, <1>6 DEF PressSelect
<1>7. QED
  BY <1>4, <1>5, <1>6

LEMMA ClickFits ==
  ASSUME PickerIInv, NEW index, Click(index)
  PROVE  PickerIInv'
<1>1. IsOpen /\ OpenFits(picker) /\ timers \in SUBSET Timers /\ picker \in Pickers
  BY DEF Click, PickerIInv, OpenFits
<1>2. index \in DOMAIN picker.entries
  BY DEF Click, FirstClick, SecondClick
<1>3. index \in Nat \ {0} /\ picker.dir \in Dirs
  <2>1. picker.entries \in Seq(Entries) /\ picker.dir \in Dirs
    BY <1>1 DEF Pickers
  <2>2. QED
    BY <1>2, <2>1
<1> DEFINE p == EnsureVisible([FocusTree(picker) EXCEPT !.selected = index])
<1>4. OpenFits(p) /\ p.focus = "tree"
  BY <1>1, <1>3, ClickedFits
<1>5. CASE FirstClick(index)
  <2> DEFINE q == [p EXCEPT !.click = index]
  <2>1. picker' = q /\ UNCHANGED <<window, fields, reads>>
    BY <1>5 DEF FirstClick
  <2> HIDE DEF p
  <2>2. q \in Pickers /\ Alike([p EXCEPT !.click = index], q) /\ q.focus = "tree"
        /\ q.target = p.target /\ q.dir = p.dir /\ q.entries = p.entries
    BY <1>3, <1>4 DEF OpenFits, Pickers, Alike
  <2> HIDE DEF q
  <2>3. OpenFits(q)
    BY <1>4, <2>2 DEF OpenFits
  <2>4. OpenFits(picker)'
    BY <2>1, <2>3, FitsUnchanged
  <2>5. [dir |-> picker.dir, index |-> index, state |-> "current"] \in Timers
    BY <1>3 DEF Timers
  <2>6. timers' \subseteq Timers
    <3>1. Voided(timers) \subseteq Timers
      BY <1>1, VoidedFit
    <3>2. timers' = Voided(timers)
                      \cup {[dir |-> picker.dir, index |-> index, state |-> "current"]}
      BY <1>5 DEF FirstClick
    <3>3. QED
      BY <2>5, <3>1, <3>2
  <2>7. FieldsFit'
    BY <2>1, FieldsUnchanged DEF PickerIInv
  <2>8. QED
    BY <2>1, <2>4, <2>6, <2>7 DEF PickerIInv
<1>6. CASE SecondClick(index)
  <2>1. IF SelectEnabled(p) THEN Pick(p) ELSE OpenHighlighted(p, timers)
    BY <1>6 DEF SecondClick
  <2> HIDE DEF p
  <2>2. CASE SelectEnabled(p)
    BY <1>4, <2>1, <2>2, PickFits
  <2>3. CASE ~ SelectEnabled(p)
    BY <1>1, <1>4, <2>1, <2>3, OpenHighlightedFits
  <2>4. QED
    BY <2>2, <2>3
<1>7. QED
  BY <1>5, <1>6 DEF Click

LEMMA TimerFits ==
  ASSUME PickerIInv, NEW t \in timers, TimerFires(t)
  PROVE  PickerIInv'
<1>1. t \in Timers /\ timers \ {t} \in SUBSET Timers
  BY DEF PickerIInv
<1>2. CASE timers' = timers \ {t} /\ UNCHANGED <<window, fields, picker, reads>>
  <2>1. FieldsFit' /\ timers' \subseteq Timers
    BY <1>1, <1>2, FieldsUnchanged DEF PickerIInv
  <2>2. IsOpen' => OpenFits(picker)'
    BY <1>2, FitsUnchanged DEF PickerIInv, IsOpen
  <2>3. QED
    BY <1>2, <2>1, <2>2 DEF PickerIInv
<1>3. CASE /\ Accepts(t)
           /\ OpenHighlighted(FocusTree([picker EXCEPT !.selected = t.index]), timers \ {t})
  <2>1. OpenFits(picker) /\ t.index \in Nat \ {0}
    BY <1>1, <1>3 DEF Accepts, PickerIInv, Timers
  <2> DEFINE p == FocusTree([picker EXCEPT !.selected = t.index])
  <2>2. OpenFits(p) /\ p.focus = "tree"
    BY <2>1, ClickedFits
  <2>3. OpenHighlighted(p, timers \ {t})
    BY <1>3
  <2> HIDE DEF p
  <2>4. QED
    BY <1>1, <2>2, <2>3, OpenHighlightedFits
<1>4. QED
  BY <1>2, <1>3 DEF TimerFires

LEMMA ResizeFits ==
  ASSUME PickerIInv, NEW h \in Heights, Resize(h)
  PROVE  PickerIInv'
<1> DEFINE p == [picker EXCEPT !.height = h]
           q == EnsureVisible(p)
<1>1. IsOpen /\ OpenFits(picker) /\ picker \in Pickers /\ picker' = q
  BY DEF Resize, PickerIInv, OpenFits
<1>2. /\ p \in Pickers /\ p.target = picker.target /\ p.dir = picker.dir /\ p.focus = picker.focus
      /\ p.entries = picker.entries /\ p.selected = picker.selected
  BY <1>1 DEF Pickers
<1> HIDE DEF p
<1>3. q \in Pickers /\ Alike(p, q) /\ q.selected = p.selected
  BY <1>2, VisibleIs
<1> HIDE DEF q
<1>4. SelectEnabled(q) <=> SelectEnabled(picker)
  BY <1>2, <1>3 DEF Alike, SelectEnabled, CanSelect, Highlighted
<1>5. OpenFits(q)
  BY <1>1, <1>2, <1>3, <1>4 DEF OpenFits, Alike
<1>6. OpenFits(picker)'
  BY <1>1, <1>5, FitsUnchanged DEF Resize
<1>7. FieldsFit'
  BY FieldsUnchanged DEF Resize, PickerIInv
<1>8. QED
  BY <1>6, <1>7 DEF Resize, PickerIInv

LEMMA StepFits ==
  ASSUME PickerIInv, PickerStep
  PROVE  PickerIInv' /\ window' = window
<1>1. PickerIInv'
  BY ReadEndsFits, KeysFit, EnterKeyFits, ClickFits, TimerFits, ResizeFits DEF PickerStep
<1>2. ASSUME NEW p, NEW ts, OpenHighlighted(p, ts) \/ Continue(p, ts) \/ Pick(p) \/ Close
      PROVE  window' = window
  BY <1>2 DEF OpenHighlighted, Continue, Enter, Pick, Close
<1>3. ASSUME NEW step, TabKey(step) \/ ArrowKey(step) PROVE window' = window
  BY <1>2, <1>3 DEF TabKey, ArrowKey
<1>4. ASSUME EnterKey \/ EscKey \/ PressSelect PROVE window' = window
  <2>1. CASE EnterKey
    <3>1. picker.focus \in {"tree", "select", "cancel"}
      BY <2>1 DEF EnterKey, PickerIInv, OpenFits, Pickers
    <3>2. QED
      BY <1>2, <2>1, <3>1 DEF EnterKey
  <2>2. CASE EscKey
    BY <1>2, <2>2 DEF EscKey
  <2>3. CASE PressSelect
    BY <1>2, <2>3 DEF PressSelect
  <2>4. QED
    BY <1>4, <2>1, <2>2, <2>3
<1>5. ASSUME NEW index, Click(index) PROVE window' = window
  <2>1. CASE FirstClick(index)
    BY <2>1 DEF FirstClick
  <2>2. CASE SecondClick(index)
    BY <1>2, <2>2 DEF SecondClick
  <2>3. QED
    BY <1>5, <2>1, <2>2 DEF Click
<1>6. ASSUME NEW t, TimerFires(t) PROVE window' = window
  BY <1>2, <1>6 DEF TimerFires
<1>7. window' = window
  BY <1>3, <1>4, <1>5, <1>6 DEF PickerStep, ReadEnds, Resize
<1>8. QED
  BY <1>1, <1>7

-----------------------------------------------------------------------------
(* Windows *)

LEMMA TargetsAre ==
  /\ TargetsOf("none") = {}
  /\ TargetsOf("create") = {"createFile"} /\ TargetsOf("edit") = {"editFile"}
BY TargetsAssumption DEF TargetsOf, HostOf, AllTargets

LEMMA PathsFit ==
  ASSUME NEW w, window' = w, fields' = NoPaths(w)
  PROVE  FieldsFit'
<1>1. NoPath \in Values /\ NoPath.kind = "none"
  BY DEF NoPath, Values
<1> DEFINE f == NoPaths(w)
<1>2. f \in [TargetsOf(w) -> Values] /\ \A t \in DOMAIN f : f[t].kind = "none"
  BY <1>1 DEF NoPaths
<1> HIDE DEF f
<1>3. fields' = f
  BY DEF f
<1>4. QED
  BY <1>2, <1>3 DEF FieldsFit, PickedFits

LEMMA BrowseFits ==
  ASSUME PickerIInv, NEW t, Browse(t)
  PROVE  PickerIInv' /\ window' = window
<1>1. PICK d \in StartDirectories(t) \cap Dirs, h \in Heights :
        LET p == [target |-> t, dir |-> d, entries |-> <<>>, selected |-> 1, offset |-> 0,
                  height |-> h, selectName |-> InitialName(t, d), focus |-> "tree",
                  click |-> NoClick]
        IN  picker' = p /\ reads' = reads (+) SetToBag({ReadOf(p)})
  BY DEF Browse
<1>2. t \in TargetsOf(window) /\ t \in Targets /\ UNCHANGED <<window, fields, timers>>
  BY DEF Browse, TargetsOf
<1> DEFINE n == InitialName(t, d)
           e == <<>>
           p == [target |-> t, dir |-> d, entries |-> e, selected |-> 1, offset |-> 0,
                 height |-> h, selectName |-> n, focus |-> "tree", click |-> NoClick]
<1>3. n \in {NoName, 0} \cup DirNames \cup FileNames
  <2>1. SelectionPath(t) \in Dirs \cup Files
    <3>1. fields[t] \in Values
      BY <1>2 DEF PickerIInv, FieldsFit
    <3>2. QED
      BY <3>1, PathsAre DEF SelectionPath, Values, NoPath
  <2>2. SelectionPath(t) # Root => Last(SelectionPath(t)) \in DirNames \cup FileNames
    BY <2>1, PathsAre
  <2>3. QED
    BY <2>2 DEF InitialName, Up
<1>4. e \in Seq(Entries) /\ 1 \in Nat \ {0}
  OBVIOUS
<1>5. picker' = p /\ reads' = reads (+) SetToBag({ReadOf(p)})
  BY <1>1
<1>6. EntriesFit(e, d)
  BY DEF EntriesFit
<1> HIDE DEF n, e
<1>7. p \in Pickers
  BY <1>2, <1>3, <1>4 DEF Pickers, NoClick
<1>8. p.target = t /\ p.entries = e /\ p.dir = d /\ p.focus = "tree"
  OBVIOUS
<1> HIDE DEF p
<1>9. OpenFits(p)
  BY <1>2, <1>6, <1>7, <1>8 DEF OpenFits
<1>10. OpenFits(picker)'
  BY <1>2, <1>5, <1>9, FitsUnchanged
<1>11. BagToSet(reads') \subseteq Reads
  BY <1>5, <1>7, ReadAdded DEF PickerIInv
<1>12. FieldsFit' /\ timers' \subseteq Timers
  BY <1>2, FieldsUnchanged DEF PickerIInv
<1>13. QED
  BY <1>2, <1>10, <1>11, <1>12 DEF PickerIInv

LEMMA TypePathFits ==
  ASSUME PickerIInv, NEW t, NEW path \in Dirs \cup Files, TypePath(t, path)
  PROVE  PickerIInv'
<1> DEFINE v == [path |-> path, kind |-> "typed"]
<1>1. v \in Values /\ v.kind = "typed"
  BY DEF Values
<1>2. /\ t \in TargetsOf("config") /\ t \in DOMAIN fields /\ fields' = [fields EXCEPT ![t] = v]
      /\ UNCHANGED <<window, picker, reads, timers>>
  BY DEF TypePath
<1> HIDE DEF v
<1>3. FieldsFit'
  <2>1. fields' \in [TargetsOf(window) -> Values]
    BY <1>1, <1>2 DEF PickerIInv, FieldsFit
  <2>2. HostOf(t) = "config"
    BY <1>2 DEF TargetsOf
  <2>3. ASSUME NEW u \in DOMAIN fields'
        PROVE  /\ fields'[u].kind \in {"none", "typed", IF IsFilePicker(u) THEN "file" ELSE "directory"}
               /\ fields'[u].kind = "typed" => HostOf(u) = "config"
    <3>1. u \in DOMAIN fields
      BY <1>2
    <3>2. CASE u = t
      BY <1>1, <1>2, <2>2, <3>1, <3>2
    <3>3. CASE u # t
      <4>1. fields'[u] = fields[u]
        BY <1>2, <3>1, <3>3
      <4>2. QED
        BY <3>1, <4>1 DEF PickerIInv, FieldsFit, PickedFits
    <3>4. QED
      BY <3>2, <3>3
  <2>4. QED
    BY <1>2, <2>1, <2>3 DEF FieldsFit, PickedFits
<1>4. IsOpen' => OpenFits(picker)'
  BY <1>2, FitsUnchanged DEF PickerIInv, IsOpen
<1>5. QED
  BY <1>2, <1>3, <1>4 DEF PickerIInv

\* A window that opens or closes below no picker.
LEMMA WindowFits ==
  ASSUME PickerIInv, ~ IsOpen, NEW w, window' = w, fields' = NoPaths(w),
         UNCHANGED <<picker, reads, timers>>
  PROVE  PickerIInv'
<1>1. FieldsFit'
  BY PathsFit
<1>2. ~ IsOpen'
  BY DEF IsOpen
<1>3. QED
  BY <1>1, <1>2 DEF PickerIInv

-----------------------------------------------------------------------------
(***************************************************************************)
(* The invariant of the form and its picker: both fit, and the form is the *)
(* one of the window.                                                      *)
(***************************************************************************)
IInv ==
  /\ PickerIInv
  /\ form = NoForm <=> window \notin {"create", "edit"}
  /\ form # NoForm => FormFits(form) /\ (form.editing <=> window = "edit")

LEMMA FormIsOpen ==
  ASSUME NEW f, FormFits(f)
  PROVE  f # NoForm
BY DEF FormFits, Types, NoForm

LEMMA FormStarts == Init => IInv
<1> SUFFICES ASSUME Init PROVE IInv
  OBVIOUS
<1>1. window = "none" /\ fields = <<>> /\ ~ IsOpen /\ form = NoForm
  BY DEF Init, IsOpen
<1>2. FieldsFit
  BY <1>1, TargetsAre DEF FieldsFit, PickedFits
<1>3. BagToSet(reads) \subseteq Reads /\ timers \subseteq Timers
  BY DEF Init, BagToSet, EmptyBag, SetToBag
<1>4. QED
  BY <1>1, <1>2, <1>3 DEF IInv, PickerIInv

LEMMA EditsKeep ==
  ASSUME IInv, UserEdits
  PROVE  IInv'
<1>1. form # NoForm /\ Advances(form, form') /\ UNCHANGED pickerVars
  BY EditsAdvance DEF IInv
<1>2. FormFits(form') /\ form'.editing = form.editing /\ form' # NoForm
  BY <1>1, FormIsOpen DEF Advances
<1>3. PickerIInv'
  <2>1. FieldsFit'
    BY <1>1, FieldsUnchanged DEF pickerVars, IInv, PickerIInv
  <2>2. IsOpen' => OpenFits(picker)'
    BY <1>1, FitsUnchanged DEF pickerVars, IInv, PickerIInv, IsOpen
  <2>3. QED
    BY <1>1, <2>1, <2>2 DEF pickerVars, IInv, PickerIInv
<1>4. QED
  BY <1>1, <1>2, <1>3 DEF IInv, pickerVars

LEMMA OpensKeep ==
  ASSUME IInv, UserOpens
  PROVE  IInv'
<1>1. ASSUME window = "none" PROVE ~ IsOpen
  BY <1>1, TargetsAre DEF IInv, PickerIInv, OpenFits
<1>2. ASSUME NEW w \in {"config", "save"}, OpenWindow(w) PROVE IInv'
  <2>1. PickerIInv'
    BY <1>1, <1>2, WindowFits DEF OpenWindow, IInv
  <2>2. form' = form /\ form = NoForm /\ window' = w
    BY <1>2 DEF OpenWindow, IInv
  <2>3. QED
    BY <1>2, <2>1, <2>2 DEF IInv
<1>3. ASSUME NEW w \in {"create", "edit"}, NEW f, OpenForm(w, f), FormFits(f),
             f.editing <=> w = "edit"
      PROVE  IInv'
  <2>1. PickerIInv'
    BY <1>1, <1>3, WindowFits DEF OpenForm, IInv
  <2>2. form' = f /\ f # NoForm /\ window' = w
    BY <1>3, FormIsOpen DEF OpenForm
  <2>3. QED
    BY <1>3, <2>1, <2>2 DEF IInv
<1>4. ASSUME NEW type \in Types, OpenCreate(type) PROVE IInv'
  BY <1>3, <1>4, NewFits DEF OpenCreate
<1>5. ASSUME NEW record \in Loads, OpenEdit(record) PROVE IInv'
  BY <1>3, <1>5, EditFits DEF OpenEdit
<1>6. CASE CloseWindow
  <2>1. NoPaths("none") = <<>>
    BY TargetsAre DEF NoPaths
  <2>2. ~ IsOpen /\ window' = "none" /\ fields' = NoPaths("none")
        /\ UNCHANGED <<picker, reads, timers>>
    BY <1>6, <2>1 DEF CloseWindow
  <2>3. PickerIInv'
    BY <2>2, WindowFits DEF IInv
  <2>4. QED
    BY <1>6, <2>3 DEF CloseWindow, IInv
<1>7. ASSUME NEW t, NEW path \in Dirs \cup Files, TypePath(t, path) PROVE IInv'
  BY <1>7, TypePathFits DEF TypePath, IInv
<1>8. ASSUME NEW t, OpenPicker(t) PROVE IInv'
  BY <1>8, BrowseFits DEF OpenPicker, IInv
<1>9. QED
  BY <1>2, <1>4, <1>5, <1>6, <1>7, <1>8 DEF UserOpens

LEMMA PickerKeeps ==
  ASSUME IInv, PickerGoesOn
  PROVE  IInv'
BY StepFits DEF PickerGoesOn, IInv, formVars

LEMMA FormStutters ==
  ASSUME IInv, UNCHANGED vars
  PROVE  IInv'
<1>1. FieldsFit'
  BY FieldsUnchanged DEF vars, IInv, PickerIInv
<1>2. IsOpen' => OpenFits(picker)'
  BY FitsUnchanged DEF vars, IInv, PickerIInv, IsOpen
<1>3. QED
  BY <1>1, <1>2 DEF vars, IInv, PickerIInv

\* The invariant holds of every state the form and its picker reach.
THEOREM Invariance == Spec => []IInv
<1>1. IInv /\ [Next]_vars => IInv'
  BY EditsKeep, OpensKeep, PickerKeeps, FormStutters DEF Next
<1>2. QED
  BY FormStarts, <1>1, PTL DEF Spec

(***************************************************************************)
(* Every field holds what its control would make of its own contents,      *)
(* within its limit, with the cursor in it, whatever is typed, pasted,     *)
(* removed and moved (textField.normalize, textArea).                      *)
(***************************************************************************)
THEOREM TypeCorrect == Spec => []TypeOK
<1>1. IInv => TypeOK
  <2> SUFFICES ASSUME IInv PROVE TypeOK
    OBVIOUS
  <2>1. /\ picker = NoPicker \/ picker \in Pickers
        /\ IsOpen => picker.target \in TargetsOf(window)
    BY DEF IInv, PickerIInv, OpenFits, IsOpen
  <2>2. /\ fields \in [TargetsOf(window) -> Values] /\ timers \subseteq Timers
        /\ BagToSet(reads) \subseteq [dir : Dirs, only : BOOLEAN]
    BY DEF IInv, PickerIInv, FieldsFit, Reads
  <2>3. ASSUME form # NoForm
        PROVE  /\ form \in Forms(form.type)
               /\ \A c \in DOMAIN form.values : form.values[c] = Normal(c, form.values[c])
               /\ form.type = "text" => form.area \in 0..Len(form.values["text"])
               /\ form.active \in LineFields => form.cursor \in 0..Len(form.values[form.active])
    BY <2>3, AllowedIsString DEF IInv, FormFits, ValuesFit, CursorsFit
  <2>4. form = NoForm <=> window \notin {"create", "edit"}
    BY DEF IInv
  <2>5. QED
    BY <2>1, <2>2, <2>3, <2>4 DEF TypeOK
<1>2. QED
  BY Invariance, <1>1, PTL

(***************************************************************************)
(* Whatever listings and timers come late, the picker shows entries of its *)
(* own directory, Select has the focus only while it can be pressed, and a *)
(* field gets a path of its kind (applyReadResult, acceptsMouseOpen).      *)
(***************************************************************************)
THEOREM PickersFit == Spec => []PickerFits
<1>1. IInv => PickerFits
  BY DEF IInv, PickerIInv, OpenFits, FieldsFit, EntriesFit, PickerFits, ListingFits
<1>2. QED
  BY Invariance, <1>1, PTL

(***************************************************************************)
(* What canSubmit lets through, the validation of internal/model accepts,  *)
(* for all limits: the two are written independently                       *)
(* (record_create_form.go, string_validation.go, payload validation).      *)
(***************************************************************************)
THEOREM SubmittedIsAccepted == Spec => []SubmittedIsValid
<1>1. IInv => SubmittedIsValid
  <2> SUFFICES ASSUME IInv, form # NoForm, CanSubmit(form)
               PROVE  /\ ValidRecord(form.type, Sent(form))
                      /\ form.type = "binary" => FilePath(form).kind = "file" \/ form.existing
    BY DEF SubmittedIsValid
  <2>1. FormFits(form) /\ window \in {"create", "edit"} /\ (form.editing <=> window = "edit")
    BY DEF IInv
  <2>2. ValidRecord(form.type, Sent(form))
    BY <2>1, SubmittedFits
  <2>3. ASSUME form.type = "binary", ~ form.existing PROVE FilePath(form).kind = "file"
    <3>1. FilePath(form) # NoPath
      BY <2>3 DEF CanSubmit
    <3>2. PICK t \in {"createFile", "editFile"} :
            /\ TargetsOf(window) = {t} /\ FilePath(form) = fields[t]
      BY <2>1, TargetsAre DEF FilePath
    <3>3. /\ fields[t] \in Values
          /\ fields[t].kind \in {"none", "typed", "file"}
          /\ fields[t].kind # "typed"
      BY <3>2 DEF IInv, PickerIInv, FieldsFit, PickedFits, IsFilePicker, HostOf
    <3>4. fields[t].kind = "none" => fields[t] = NoPath
      BY <3>3 DEF Values, NoPath
    <3>5. QED
      BY <3>1, <3>2, <3>3, <3>4
  <2>4. QED
    BY <2>2, <2>3
<1>2. QED
  BY Invariance, <1>1, PTL

(***************************************************************************)
(* A text is sent as it was loaded until the user changes what is shown of *)
(* it, and what is sent is always what the window shows.                   *)
(***************************************************************************)
THEOREM TextStaysKept == Spec => TextIsKept
<1> DEFINE Kept == IsText(form)' =>
             IF IsText(form) /\ form.values["text"] = form'.values["text"]
               THEN SentText(form') = SentText(form)
               ELSE Area(SentText(form'), MaxText) = form'.values["text"]
<1>1. IInv /\ IInv' /\ [Next]_vars => Kept
  <2> SUFFICES ASSUME IInv, IInv', [Next]_vars, IsText(form)'
               PROVE  IF IsText(form) /\ form.values["text"] = form'.values["text"]
                        THEN SentText(form') = SentText(form)
                        ELSE Area(SentText(form'), MaxText) = form'.values["text"]
    OBVIOUS
  <2>1. FormFits(form') /\ form'.type = "text" /\ form' # NoForm
    BY DEF IInv, IsText
  <2>2. Area(SentText(form'), MaxText) = form'.values["text"]
    BY <2>1, SentFits
  <2>3. CASE UserEdits
    <3>1. Advances(form, form') /\ form # NoForm
      BY <2>3, EditsAdvance DEF IInv
    <3>2. QED
      BY <2>2, <3>1 DEF Advances, TextKept, IsText
  <2>4. CASE form' = form
    BY <2>2, <2>4
  <2>5. CASE UserOpens
    <3>1. CASE window = "none"
      BY <2>2, <3>1 DEF IInv, IsText
    <3>2. CASE window # "none"
      BY <2>1, <2>4, <2>5, <3>2
      DEF UserOpens, OpenWindow, OpenCreate, OpenEdit, OpenForm, CloseWindow, TypePath,
          OpenPicker
    <3>3. QED
      BY <3>1, <3>2
  <2>6. CASE PickerGoesOn
    BY <2>4, <2>6 DEF PickerGoesOn, formVars
  <2>7. QED
    BY <2>3, <2>4, <2>5, <2>6 DEF Next, vars
<1>2. QED
  BY Invariance, <1>1, PTL DEF Spec, TextIsKept

-----------------------------------------------------------------------------
(* A record that is opened and saved at once *)

\* The fields that only one type has.
LEMMA OwnFields ==
  \A type \in Types : \A c \in FieldsOf(type) :
    /\ c \in DigitFields \cup {"cardholder"} => type = "card"
    /\ c \in {"login", "password", "url"} => type = "credentials"
<1>1. /\ Range(Order("text")) = {"title", "text", "metadata", "submit", "cancel"}
      /\ Range(Order("credentials")) =
           {"title", "login", "password", "url", "metadata", "submit", "reveal", "cancel"}
      /\ Range(Order("binary")) = {"title", "filePath", "metadata", "submit", "cancel"}
  BY DEF Range, Order
<1> SUFFICES ASSUME NEW type \in Types, NEW c \in FieldsOf(type)
             PROVE  /\ c \in DigitFields \cup {"cardholder"} => type = "card"
                    /\ c \in {"login", "password", "url"} => type = "credentials"
  OBVIOUS
<1>2. c \in Range(Order(type))
  BY DEF FieldsOf
<1>3. CASE type = "text"
  BY <1>1, <1>2, <1>3 DEF DigitFields
<1>4. CASE type = "binary"
  BY <1>1, <1>2, <1>4 DEF DigitFields
<1>5. CASE type = "credentials"
  BY <1>1, <1>2, <1>5 DEF DigitFields
<1>6. CASE type = "card"
  <2>1. Range(Order("card")) =
          {"title", "number", "cardholder", "month", "year", "cvv", "metadata", "submit",
           "reveal", "cancel"}
    BY DEF Range, Order
  <2>2. QED
    BY <1>2, <1>6, <2>1
<1>7. QED
  BY <1>3, <1>4, <1>5, <1>6 DEF Types

\* An expiry in two digits.
LEMMA PairIs ==
  ASSUME NEW s \in [1..2 -> Digits]
  PROVE  s \in Seq(Digits) /\ Len(s) = 2
<1>1. \E n \in Nat : s \in [1..n -> Digits]
  OBVIOUS
<1>2. s \in UNION {[1..n -> Digits] : n \in Nat}
  BY <1>1
<1>3. s \in Seq(Digits)
  BY <1>2, SeqDef, Zenon
<1>4. Len(s) \in Nat /\ 1..Len(s) = 1..2
  BY <1>3, LenProperties
<1>5. QED
  BY <1>3, <1>4

LEMMA LineIsSent ==
  ASSUME NEW c, c # "text", c \notin DigitFields, NEW s \in Seq(Chars), ValidLine(s, MaxField)
  PROVE  Normal(c, s) = Keep(s, Printed)
<1>1. s \in Seq(Chars \ Controls) /\ Len(s) <= MaxField
  BY KeepsNone DEF ValidLine
<1>2. FirstLine(s) = s
  BY <1>1, FirstLineType
<1>3. Normal(c, s) = Limit(Keep(s, Printed), MaxField)
  BY <1>2 DEF Normal, MaxOf, DigitFields
<1> DEFINE k == Keep(s, Printed)
<1>4. k \in Seq(Printed) /\ Len(k) <= Len(s)
  BY KeepType, CharSets
<1> HIDE DEF k
<1>5. Len(k) <= MaxField /\ MaxField \in Nat
  BY <1>1, <1>4, LimitsAssumption
<1>6. Limit(k, MaxField) = k
  BY <1>4, <1>5, LimitFits
<1>7. QED
  BY <1>3, <1>6 DEF k

LEMMA DigitsAreSent ==
  ASSUME NEW c \in DigitFields, NEW s \in Seq(Digits), Len(s) <= MaxOf(c)
  PROVE  Normal(c, s) = Keep(s, Printed)
<1>1. s \in Seq(Chars) /\ s \in Seq(Printed)
  BY CharSets, SubSeqOf
<1>2. s \in Allowed(c)
  BY DEF Allowed, DigitFields
<1>3. QED
  BY <1>1, <1>2, NormalType, KeepAll

LEMMA ValidDigitsAre ==
  ASSUME NEW s \in Seq(Chars), NEW low, NEW high, ValidDigits(s, low, high)
  PROVE  s \in Seq(Digits)
<1>1. Keep(s, Digits) \in Seq(Digits)
  BY KeepType, CharSets
<1>2. QED
  BY <1>1 DEF ValidDigits

(***************************************************************************)
(* What a record that is opened and saved at once loses: its single lines  *)
(* what is not printed, its title the spaces at its ends, too              *)
(* (populateRecordEditForm, recordFormInputFrom).  Nothing is cut off by a *)
(* limit, and a text keeps every character.                                *)
(***************************************************************************)
THEOREM SavedAsLoaded ==
  ASSUME NEW r \in Loads
  PROVE  \A c \in FieldsOf(r.type) :
           /\ c = "text" => Sent(EditForm(r))[c] = r.values[c]
           /\ c = "title" => Sent(EditForm(r))[c] = Trimmed(Keep(r.values[c], Printed))
           /\ c \notin {"text", "title"} => Sent(EditForm(r))[c] = Keep(r.values[c], Printed)
<1> DEFINE f == EditForm(r)
<1>1. /\ r.type \in Types /\ r.values \in [FieldsOf(r.type) -> Seq(Chars)]
      /\ ValidRecord(r.type, r.values)
      /\ r.type = "card" =>
           {r.values["month"], r.values["year"]} \subseteq {<<>>} \cup [1..2 -> Digits]
  BY LoadsAssumption
<1>2. /\ f.type = r.type /\ f.editing /\ ~ f.dirty
      /\ f.values = [c \in FieldsOf(r.type) |-> Normal(c, r.values[c])]
      /\ f.original = IF r.type = "text" THEN r.values["text"] ELSE <<>>
  BY DEF EditForm, NewForm
<1> HIDE DEF f
<1> SUFFICES ASSUME NEW c \in FieldsOf(r.type)
             PROVE  /\ c = "text" => Sent(f)[c] = r.values[c]
                    /\ c = "title" => Sent(f)[c] = Trimmed(Keep(r.values[c], Printed))
                    /\ c \notin {"text", "title"} => Sent(f)[c] = Keep(r.values[c], Printed)
  BY DEF f
<1> DEFINE s == r.values[c]
<1>3. s \in Seq(Chars)
  BY <1>1
<1>4. CASE c = "text"
  BY <1>1, <1>2, <1>4, FieldsIs, SentIs DEF SentText
<1>5. CASE c # "text"
  <2>1. /\ c = "title" => Sent(f)[c] = Trimmed(Normal(c, s))
        /\ c \in {"month", "year"} => Sent(f)[c] = TwoDigits(Normal(c, s))
        /\ c \notin {"title", "month", "year"} => Sent(f)[c] = Normal(c, s)
    BY <1>2, <1>5, SentIs
  <2>2. CASE c \in {"month", "year"}
    <3>1. r.type = "card"
      BY <1>1, <2>2, OwnFields DEF DigitFields
    <3>2. s = <<>> \/ s \in [1..2 -> Digits]
      BY <1>1, <2>2, <3>1
    <3>3. s \in Seq(Digits) /\ Len(s) <= 2 /\ Len(s) # 1
      <4>1. CASE s = <<>>
        BY <4>1
      <4>2. CASE s \in [1..2 -> Digits]
        <5> HIDE DEF s
        <5>1. s \in Seq(Digits) /\ Len(s) = 2
          BY <4>2, PairIs
        <5>2. QED
          BY <5>1
      <4>3. QED
        BY <3>2, <4>1, <4>2
    <3>4. MaxOf(c) = 2 /\ c \in DigitFields
      BY <2>2 DEF MaxOf, DigitFields
    <3>5. Normal(c, s) = s /\ Keep(s, Printed) = s
      <4>1. s \in Allowed(c)
        BY <3>3, <3>4, <2>2 DEF Allowed
      <4>2. s \in Seq(Printed)
        BY <3>3, CharSets, SubSeqOf
      <4>3. QED
        BY <4>1, <4>2, AllowedIsString, KeepAll
    <3>6. TwoDigits(s) = s
      BY <3>3 DEF TwoDigits
    <3>7. QED
      BY <1>5, <2>1, <2>2, <3>5, <3>6
  <2>3. CASE c = "number"
    <3>1. ValidDigits(s, MinNumber, MaxNumber)
      BY <1>1, <2>3, OwnFields DEF DigitFields, ValidRecord, ValidCard
    <3>2. s \in Seq(Digits) /\ Len(s) <= MaxOf(c) /\ c \in DigitFields
      <4>1. MaxOf(c) = MaxNumber /\ c \in DigitFields
        BY <2>3 DEF MaxOf, DigitFields
      <4>2. s \in Seq(Digits)
        BY <1>3, <3>1, ValidDigitsAre
      <4>3. Len(s) \in Nat /\ MinNumber \in Nat /\ MaxNumber \in Nat
        BY <4>2, LimitsAssumption
      <4>4. Len(s) <= MaxNumber
        BY <3>1, <4>3 DEF ValidDigits
      <4>5. QED
        BY <4>1, <4>2, <4>4
    <3>3. QED
      BY <1>5, <2>1, <2>3, <3>2, DigitsAreSent
  <2>4. CASE c = "cvv"
    <3>1. s = <<>> \/ ValidDigits(s, CVVSize, CVVSize)
      BY <1>1, <2>4, OwnFields DEF DigitFields, ValidRecord, ValidCard
    <3>2. MaxOf(c) = CVVSize /\ CVVSize \in Nat /\ c \in DigitFields
      BY <2>4, LimitsAssumption DEF MaxOf, DigitFields
    <3>3. CASE s = <<>>
      <4>1. s \in Seq(Digits) /\ Len(s) <= MaxOf(c)
        BY <3>2, <3>3
      <4>2. QED
        BY <1>5, <2>1, <2>4, <3>2, <4>1, DigitsAreSent
    <3>4. CASE ValidDigits(s, CVVSize, CVVSize)
      <4>1. s \in Seq(Digits)
        BY <1>3, <3>4, ValidDigitsAre
      <4>2. Len(s) <= MaxOf(c)
        BY <3>2, <3>4 DEF ValidDigits
      <4>3. QED
        BY <1>5, <2>1, <2>4, <3>2, <4>1, <4>2, DigitsAreSent
    <3>5. QED
      BY <3>1, <3>3, <3>4
  <2>5. CASE c \notin DigitFields
    <3>1. ValidLine(s, MaxField)
      <4>1. c \in {"title", "login", "password", "url", "cardholder", "metadata"}
        BY <1>1, <1>5, <2>5, FieldsIs DEF LineFields
      <4>2. /\ c \in {"login", "password", "url"} => r.type = "credentials"
            /\ c = "cardholder" => r.type = "card"
        BY <1>1, OwnFields
      <4>3. QED
        BY <1>1, <4>1, <4>2 DEF ValidRecord, ValidRequired, ValidCredentials, ValidCard
    <3>2. Normal(c, s) = Keep(s, Printed)
      BY <1>3, <1>5, <2>5, <3>1, LineIsSent
    <3>3. QED
      BY <1>5, <2>1, <2>5, <3>2 DEF DigitFields
  <2>6. QED
    BY <2>2, <2>3, <2>4, <2>5 DEF DigitFields
<1>6. QED
  BY <1>4, <1>5
=============================================================================
