-------------------------- MODULE GenieScriptProofs --------------------------
(***************************************************************************)
(* The splitter takes every script apart into the statements it was made   *)
(* of: for every alphabet, any number of statements and any quoted values, *)
(* but for values with a line that begins with "--".                       *)
(* The recursions over the text are reasoned about by induction over sets  *)
(* of positions (Upwards, Downwards).                                      *)
(***************************************************************************)
EXTENDS GenieScript, SequenceTheorems, FiniteSetTheorems, WellFoundedInduction, TLAPS

(* A set of such numbers has a last one: the sets of what comes from a member *)
(* on have a smallest among them, as finite sets do.                         *)
LEMMA LastMember ==
    ASSUME NEW n \in Nat, NEW A \in SUBSET (0..n), A # {}
    PROVE  \E k \in A : \A j \in A : j <= k
<1>. DEFINE Onwards(k) == {j \in A : k <= j}
            T == {Onwards(k) : k \in A}
            R == StrictSubsetOrdering(0..n)
<1>1. IsWellFoundedOn(R, SUBSET (0..n))
  <2>1. IsFiniteSet(0..n)
    BY FS_Interval
  <2>2. FiniteSubsetsOf(0..n) = SUBSET (0..n)
    BY <2>1, FS_FiniteSubsetsOfFinite
  <2>. QED  BY <2>2, FS_StrictSubsetOrderingWellFounded
<1>2. T \subseteq SUBSET (0..n) /\ T # {}
  OBVIOUS
<1>3. PICK s \in T : \A r \in T : <<r, s>> \notin R
  <2>. HIDE DEF T, R
  <2>. QED  BY <1>1, <1>2, WFMin
<1>4. PICK k \in A : s = Onwards(k)
  OBVIOUS
<1>5. ASSUME NEW j \in A, ~(j <= k)
      PROVE  FALSE
  <2>1. A \subseteq Int
    OBVIOUS
  <2>2. k \in s /\ k \notin Onwards(j)
    BY <1>4, <1>5, <2>1
  <2>3. ASSUME NEW i \in Onwards(j)
        PROVE  i \in Onwards(k)
    <3>1. j \in Int /\ k \in Int /\ i \in A /\ i \in Int /\ j <= i
      BY <2>1
    <3>2. k <= i
      BY <3>1, <1>5
    <3>. QED  BY <3>1, <3>2
  <2>4. <<Onwards(j), s>> \in R
    BY <2>2, <2>3, <1>2, <1>4 DEF StrictSubsetOrdering
  <2>. QED  BY <1>3, <2>4
<1>. QED  BY <1>5

(* Induction from 0 to n, and from n down to 0, over a set of numbers.       *)
LEMMA Upwards ==
    ASSUME NEW n \in Nat, NEW P, 0 \in P,
           \A i \in 0..n : i < n /\ i \in P => i + 1 \in P
    PROVE  \A i \in 0..n : i \in P
<1>. DEFINE B == {k \in 0..n : \A i \in 0..k : i \in P}
<1>1. PICK k \in B : \A j \in B : j <= k
  <2>1. 0 \in B
    OBVIOUS
  <2>. HIDE DEF B
  <2>2. B \in SUBSET (0..n)
    BY DEF B
  <2>. QED  BY <2>1, <2>2, LastMember
<1>2. CASE k < n
  <2>1. k + 1 \in B
    BY <1>2
  <2>. QED  BY <1>1, <2>1
<1>. QED  BY <1>2

LEMMA Downwards ==
    ASSUME NEW n \in Nat, NEW P, n \in P,
           \A i \in 0..n : i < n /\ i + 1 \in P => i \in P
    PROVE  \A i \in 0..n : i \in P
<1>. DEFINE B == {k \in 0..n : k \notin P}
<1>1. SUFFICES ASSUME B # {} PROVE FALSE
  OBVIOUS
<1>2. PICK k \in B : \A j \in B : j <= k
  <2>. HIDE DEF B
  <2>2. B \in SUBSET (0..n)
    BY DEF B
  <2>. QED  BY <1>1, <2>2, LastMember
<1>3. k < n
  OBVIOUS
<1>4. k + 1 \notin B /\ k + 1 \in 0..n
  BY <1>2, <1>3
<1>. QED  BY <1>3, <1>4

-----------------------------------------------------------------------------
(* The recursion of Chunks, justified: each position looks at the one after. *)

Scan(text, later, i) == IF i > Len(text) THEN AtEnd ELSE Step(text, i, later[i + 1])

LEMMA LooksAhead ==
    ASSUME NEW text, Len(text) \in Nat, NEW i \in 1..Len(text) + 1, NEW f, NEW g,
           i <= Len(text) => f[i + 1] = g[i + 1]
    PROVE  Scan(text, f, i) = Scan(text, g, i)
BY DEF Scan

(* There is a function that solves the equation, built from the end of the   *)
(* text, so the one that TLA+ chooses solves it.                             *)
LEMMA ChunksStep ==
    ASSUME NEW text, Len(text) \in Nat
    PROVE  \A i \in 1..Len(text) + 1 : Chunks(text)[i] = Scan(text, Chunks(text), i)
<1>. DEFINE N == Len(text) + 1
            R(f) == [i \in 1..N |-> Scan(text, f, i)]
            P == {k \in 0..N : \E g : DOMAIN g = 1..N /\ \A i \in 1..N : i > k => g[i] = Scan(text, g, i)}
<1>0. N \in Nat
  OBVIOUS
<1>1. N \in P
  <2>. DEFINE g == [i \in 1..N |-> {}]
  <2>1. DOMAIN g = 1..N /\ \A i \in 1..N : i > N => g[i] = Scan(text, g, i)
    OBVIOUS
  <2>. HIDE DEF g
  <2>. QED  BY <2>1
<1>2. ASSUME NEW k \in 0..N, k < N, k + 1 \in P
      PROVE  k \in P
  <2>1. PICK g : DOMAIN g = 1..N /\ \A i \in 1..N : i > k + 1 => g[i] = Scan(text, g, i)
    BY <1>2
  <2>. DEFINE h == [i \in 1..N |-> IF i = k + 1 THEN Scan(text, g, i) ELSE g[i]]
  <2>2. ASSUME NEW i \in 1..N, i > k
        PROVE  h[i] = Scan(text, h, i)
    <3>1. i <= Len(text) => h[i + 1] = g[i + 1]
      BY <2>2, <1>2
    <3>2. Scan(text, h, i) = Scan(text, g, i)
      BY <3>1, LooksAhead
    <3>3. h[i] = Scan(text, g, i)
      BY <2>1, <2>2, <1>2
    <3>. QED  BY <3>2, <3>3
  <2>3. DOMAIN h = 1..N
    OBVIOUS
  <2>. QED  BY <2>2, <2>3, <1>2
<1>3. 0 \in P
  <2>. HIDE DEF P, N
  <2>. QED  BY <1>0, <1>1, <1>2, Downwards
<1>4. \E g : g = R(g)
  <2>1. PICK g : DOMAIN g = 1..N /\ \A i \in 1..N : i > 0 => g[i] = Scan(text, g, i)
    BY <1>3
  <2>. DEFINE h == [i \in 1..N |-> g[i]]
  <2>2. ASSUME NEW i \in 1..N
        PROVE  h[i] = Scan(text, h, i)
    <3>1. i <= Len(text) => h[i + 1] = g[i + 1]
      OBVIOUS
    <3>2. Scan(text, h, i) = Scan(text, g, i)
      BY <3>1, LooksAhead
    <3>. QED  BY <2>1, <3>2
  <2>3. h = R(h)
    BY <2>2
  <2>. QED  BY <2>3
<1>5. Chunks(text) = CHOOSE f : f = R(f)
  BY DEF Chunks, Scan
<1>6. Chunks(text) = R(Chunks(text))
  <2>. HIDE DEF R
  <2>. QED  BY <1>4, <1>5
<1>. QED  BY <1>6

(* The characters a text is made of: those that mean something to the        *)
(* splitter, and whatever else.                                              *)
Chunk(C) == [cur : Seq(C), out : Seq(Seq(C))]
Marks == {"'", ";", "insert", "--", "break"}

LEMMA Single == ASSUME NEW S, NEW a \in S PROVE <<a>> \in Seq(S) /\ Len(<<a>>) = 1
OBVIOUS

(* Concatenation under a name, and where its parts lie in it.                *)
Glue(a, b) == a \o b

Joins(a, b, c) ==
    /\ Len(a) \in Nat /\ Len(b) \in Nat /\ Len(c) = Len(a) + Len(b)
    /\ \A j \in 1..Len(a) : c[j] = a[j]
    /\ \A j \in 1..Len(b) : c[Len(a) + j] = b[j]

LEMMA Appends ==
    ASSUME NEW S, NEW a \in Seq(S), NEW b \in Seq(S)
    PROVE  Glue(a, b) \in Seq(S) /\ Joins(a, b, Glue(a, b))
<1>. DEFINE c == Glue(a, b)
<1>1. Len(a) \in Nat /\ Len(b) \in Nat
  OBVIOUS
<1>2. /\ c \in Seq(S) /\ Len(c) = Len(a) + Len(b)
      /\ \A i \in 1..Len(a) + Len(b) : c[i] = IF i <= Len(a) THEN a[i] ELSE b[i - Len(a)]
  BY ConcatProperties DEF Glue
<1>. HIDE DEF c
<1>3. \A j \in 1..Len(a) : c[j] = a[j]
  BY <1>1, <1>2
<1>4. ASSUME NEW j \in 1..Len(b)
      PROVE  c[Len(a) + j] = b[j]
  <2>1. Len(a) + j \in 1..Len(a) + Len(b) /\ ~(Len(a) + j <= Len(a)) /\ (Len(a) + j) - Len(a) = j
    BY <1>1
  <2>. QED  BY <2>1, <1>2
<1>5. Joins(a, b, c)
  BY <1>1, <1>2, <1>3, <1>4 DEF Joins
<1>. QED  BY <1>2, <1>5 DEF c

LEMMA Pair == ASSUME NEW a, NEW b PROVE <<a>> \o <<b>> = <<a, b>>
<1>. DEFINE S == {a, b}
            s == <<a>>
            t == <<b>>
            u == <<a, b>>
<1>1. /\ s \in Seq(S) /\ Len(s) = 1 /\ s[1] = a
      /\ t \in Seq(S) /\ Len(t) = 1 /\ t[1] = b
      /\ u \in Seq(S) /\ Len(u) = 2 /\ u[1] = a /\ u[2] = b
  OBVIOUS
<1>. HIDE DEF S, s, t, u
<1>2. /\ s \o t \in Seq(S) /\ Len(s \o t) = Len(s) + Len(t)
      /\ \A i \in 1..Len(s) + Len(t) : (s \o t)[i] = IF i <= Len(s) THEN s[i] ELSE t[i - Len(s)]
  BY <1>1, ConcatProperties
<1>3. Len(s \o t) = 2 /\ \A i \in 1..2 : (s \o t)[i] = u[i]
  BY <1>1, <1>2
<1>4. s \o t = u
  BY <1>1, <1>2, <1>3, SeqEqual
<1>. QED  BY <1>4 DEF s, t, u

-----------------------------------------------------------------------------
(* FlattenSeq is as recursive: seqs glued together from the front, f[i] being *)
(* the first i of them.                                                      *)
Piece(seqs, g, i) == IF i = 1 THEN seqs[i] ELSE g[i - 1] \o seqs[i]

LEMMA LooksBack ==
    ASSUME NEW seqs, NEW i \in Nat, NEW g, NEW h, i # 1 => g[i - 1] = h[i - 1]
    PROVE  Piece(seqs, g, i) = Piece(seqs, h, i)
BY DEF Piece

LEMMA FlattenSeqStep ==
    ASSUME NEW seqs, Len(seqs) \in Nat, Len(seqs) # 0
    PROVE  \E g : /\ FlattenSeq(seqs) = g[Len(seqs)]
                  /\ \A i \in 1..Len(seqs) : g[i] = Piece(seqs, g, i)
<1>. DEFINE n == Len(seqs)
            R(g) == [i \in 1..n |-> Piece(seqs, g, i)]
            P == {k \in 0..n : \E g : DOMAIN g = 1..n /\ \A i \in 1..n : i <= k => g[i] = Piece(seqs, g, i)}
<1>1. 0 \in P
  <2>. DEFINE g == [i \in 1..n |-> {}]
  <2>1. DOMAIN g = 1..n /\ \A i \in 1..n : i <= 0 => g[i] = Piece(seqs, g, i)
    OBVIOUS
  <2>. HIDE DEF g
  <2>. QED  BY <2>1
<1>2. ASSUME NEW k \in 0..n, k < n, k \in P
      PROVE  k + 1 \in P
  <2>1. PICK g : DOMAIN g = 1..n /\ \A i \in 1..n : i <= k => g[i] = Piece(seqs, g, i)
    BY <1>2
  <2>. DEFINE h == [i \in 1..n |-> IF i = k + 1 THEN Piece(seqs, g, i) ELSE g[i]]
  <2>2. ASSUME NEW i \in 1..n, i <= k + 1
        PROVE  h[i] = Piece(seqs, h, i)
    <3>1. i # 1 => h[i - 1] = g[i - 1]
      BY <2>2, <1>2
    <3>2. Piece(seqs, h, i) = Piece(seqs, g, i)
      BY <3>1, LooksBack
    <3>3. h[i] = Piece(seqs, g, i)
      BY <2>1, <2>2, <1>2
    <3>. QED  BY <3>2, <3>3
  <2>3. DOMAIN h = 1..n /\ k + 1 \in 0..n
    BY <1>2
  <2>. HIDE DEF h
  <2>. QED  BY <2>2, <2>3
<1>3. n \in P
  <2>1. n \in Nat /\ n \in 0..n
    OBVIOUS
  <2>2. \A k \in 0..n : k < n /\ k \in P => k + 1 \in P
    BY <1>2
  <2>. HIDE DEF P, n
  <2>. QED  BY <2>1, <2>2, <1>1, Upwards
<1>4. \E g : g = R(g)
  <2>1. PICK g : DOMAIN g = 1..n /\ \A i \in 1..n : i <= n => g[i] = Piece(seqs, g, i)
    BY <1>3
  <2>. DEFINE h == [i \in 1..n |-> g[i]]
  <2>2. ASSUME NEW i \in 1..n
        PROVE  h[i] = Piece(seqs, h, i)
    <3>1. i # 1 => h[i - 1] = g[i - 1]
      OBVIOUS
    <3>2. Piece(seqs, h, i) = Piece(seqs, g, i)
      BY <3>1, LooksBack
    <3>. QED  BY <3>2, <2>1
  <2>3. h = R(h)
    BY <2>2
  <2>. QED  BY <2>3
<1>. DEFINE f == CHOOSE g : g = R(g)
<1>5. FlattenSeq(seqs) = f[n]
  BY DEF FlattenSeq, Piece
<1>6. f = R(f)
  <2>. HIDE DEF R
  <2>. QED  BY <1>4
<1>. HIDE DEF f
<1>7. \A i \in 1..n : f[i] = Piece(seqs, f, i)
  BY <1>6
<1>. QED  BY <1>5, <1>7

Assembly(f, seqs, S) ==
    /\ f[0] = <<>> /\ f[Len(seqs)] = FlattenSeq(seqs)
    /\ \A i \in 0..Len(seqs) : f[i] \in Seq(S) /\ (i < Len(seqs) => f[i + 1] = Glue(f[i], seqs[i + 1]))

LEMMA Flattened ==
    ASSUME NEW S, NEW seqs \in Seq(Seq(S))
    PROVE  \E f : Assembly(f, seqs, S)
<1>1. CASE Len(seqs) = 0
  <2>1. FlattenSeq(seqs) = <<>>
    BY <1>1 DEF FlattenSeq
  <2>. DEFINE f == [i \in 0..0 |-> <<>>]
  <2>2. f[0] = <<>> /\ <<>> \in Seq(S)
    OBVIOUS
  <2>. HIDE DEF f
  <2>3. \A i \in 0..Len(seqs) : i = 0 /\ ~(i < Len(seqs))
    BY <1>1
  <2>. QED  BY <2>1, <2>2, <2>3, <1>1 DEF Assembly
<1>2. CASE Len(seqs) # 0
  <2>. DEFINE n == Len(seqs)
  <2>0. n \in Nat /\ n > 0 /\ \A i \in 1..n : seqs[i] \in Seq(S)
    BY <1>2
  <2>1. PICK g : /\ FlattenSeq(seqs) = g[n]
                 /\ \A i \in 1..n : g[i] = Piece(seqs, g, i)
    BY <1>2, <2>0, FlattenSeqStep
  <2>. HIDE DEF n
  <2>. DEFINE f == [i \in 0..n |-> IF i = 0 THEN <<>> ELSE g[i]]
  <2>2. f[0] = <<>> /\ f[n] = FlattenSeq(seqs)
    BY <2>0, <2>1
  <2>3. \A i \in 1..n : f[i] = g[i]
    BY <2>0
  <2>4. f[1] = seqs[1]
    BY <2>0, <2>1, <2>3 DEF Piece
  <2>5. \A i \in 1..n : i < n => f[i + 1] = Piece(seqs, g, i + 1) /\ g[i] = f[i] /\ i + 1 # 1 /\ (i + 1) - 1 = i
    BY <2>0, <2>1, <2>3
  <2>. HIDE DEF f
  <2>6. \A i \in 1..n : i < n => f[i + 1] = Glue(f[i], seqs[i + 1])
    BY <2>5 DEF Piece, Glue
  <2>7. \A i \in 0..n : i < n => f[i + 1] = Glue(f[i], seqs[i + 1])
    <3>1. Glue(<<>>, seqs[1]) = seqs[1]
      BY <2>0, ConcatEmptySeq DEF Glue
    <3>2. \A i \in 0..n : i = 0 \/ i \in 1..n
      BY <2>0
    <3>3. f[0 + 1] = Glue(f[0], seqs[0 + 1])
      BY <2>2, <2>4, <3>1
    <3>. QED  BY <2>6, <3>2, <3>3
  <2>. DEFINE Q == {i \in 0..n : f[i] \in Seq(S)}
  <2>8. 0 \in Q
    <3>1. <<>> \in Seq(S) /\ 0 \in 0..n
      BY <2>0
    <3>. QED  BY <2>2, <3>1
  <2>9. ASSUME NEW i \in 0..n, i < n, i \in Q
        PROVE  i + 1 \in Q
    <3>1. i + 1 \in 1..n /\ i + 1 \in 0..n
      BY <2>0, <2>9
    <3>2. f[i + 1] = Glue(f[i], seqs[i + 1]) /\ f[i] \in Seq(S) /\ seqs[i + 1] \in Seq(S)
      BY <2>0, <2>7, <2>9, <3>1
    <3>3. Glue(f[i], seqs[i + 1]) \in Seq(S)
      BY <3>2, Appends
    <3>. QED  BY <3>1, <3>2, <3>3
  <2>10. \A i \in 0..n : i \in Q
    <3>. HIDE DEF Q
    <3>. QED  BY <2>0, <2>8, <2>9, Upwards
  <2>. QED  BY <2>2, <2>7, <2>10 DEF Assembly, n
<1>. QED  BY <1>1, <1>2

(* The first i pieces are the beginning of the whole. *)
LEMMA PiecesLeadUp ==
    ASSUME NEW S, NEW seqs \in Seq(Seq(S)), NEW f, Assembly(f, seqs, S)
    PROVE  \A i \in 0..Len(seqs) :
              /\ Len(f[i]) <= Len(FlattenSeq(seqs))
              /\ \A j \in 1..Len(f[i]) : FlattenSeq(seqs)[j] = f[i][j]
<1>. DEFINE n == Len(seqs)
            whole == FlattenSeq(seqs)
            P == {i \in 0..n : Len(f[i]) <= Len(whole) /\ \A j \in 1..Len(f[i]) : whole[j] = f[i][j]}
<1>1. n \in Nat /\ n \in 0..n /\ \A i \in 1..n : seqs[i] \in Seq(S)
  OBVIOUS
<1>2. /\ f[n] = whole
      /\ \A i \in 0..n : f[i] \in Seq(S) /\ (i < n => f[i + 1] = Glue(f[i], seqs[i + 1]))
  BY DEF Assembly
<1>. HIDE DEF n, whole
<1>3. whole \in Seq(S)
  BY <1>1, <1>2
<1>4. n \in P
  BY <1>1, <1>2, <1>3
<1>5. ASSUME NEW i \in 0..n, i < n, i + 1 \in P
      PROVE  i \in P
  <2>. DEFINE a == f[i]
              b == seqs[i + 1]
  <2>1. a \in Seq(S) /\ b \in Seq(S) /\ f[i + 1] = Glue(f[i], seqs[i + 1])
    BY <1>1, <1>2, <1>5
  <2>2. f[i + 1] = Glue(a, b)
    BY <2>1
  <2>. HIDE DEF a, b
  <2>3. Joins(a, b, f[i + 1])
    BY <2>1, <2>2, Appends
  <2>4. Len(whole) \in Nat
    BY <1>3
  <2>5. /\ Len(f[i + 1]) <= Len(whole)
        /\ \A j \in 1..Len(f[i + 1]) : whole[j] = f[i + 1][j]
    BY <1>5
  <2>6. Len(a) <= Len(whole) /\ \A j \in 1..Len(a) : whole[j] = a[j]
    BY <2>3, <2>4, <2>5 DEF Joins
  <2>. QED  BY <2>6 DEF a
<1>6. \A i \in 0..n : i < n /\ i + 1 \in P => i \in P
  BY <1>5
<1>7. \A i \in 0..n : i \in P
  <2>. HIDE DEF P
  <2>. QED  BY <1>1, <1>4, <1>6, Downwards
<1>. QED  BY <1>7 DEF n, whole

(* After the first i pieces comes the next. *)
Occurs(part, text, k) ==
    k + Len(part) <= Len(text) /\ \A j \in 1..Len(part) : text[k + j] = part[j]

LEMMA PiecesOccur ==
    ASSUME NEW S, NEW seqs \in Seq(Seq(S)), NEW f, Assembly(f, seqs, S),
           NEW i \in 0..Len(seqs), i < Len(seqs)
    PROVE  Occurs(seqs[i + 1], FlattenSeq(seqs), Len(f[i])) /\ Joins(f[i], seqs[i + 1], f[i + 1])
<1>. DEFINE a == f[i]
            e == seqs[i + 1]
            g == f[i + 1]
            whole == FlattenSeq(seqs)
<1>1. i + 1 \in 1..Len(seqs) /\ i + 1 \in 0..Len(seqs)
  OBVIOUS
<1>2. a \in Seq(S) /\ e \in Seq(S) /\ g = Glue(a, e)
  BY <1>1 DEF Assembly
<1>3. Len(g) <= Len(whole) /\ \A j \in 1..Len(g) : whole[j] = g[j]
  BY <1>1, PiecesLeadUp
<1>. HIDE DEF a, e, g, whole
<1>4. Joins(a, e, g)
  BY <1>2, Appends
<1>5. ASSUME NEW j \in 1..Len(e)
      PROVE  whole[Len(a) + j] = e[j]
  <2>1. Len(a) + j \in 1..Len(g)
    BY <1>4 DEF Joins
  <2>2. g[Len(a) + j] = e[j]
    BY <1>4 DEF Joins
  <2>. QED  BY <2>1, <2>2, <1>3
<1>6. Len(a) + Len(e) <= Len(whole)
  BY <1>3, <1>4 DEF Joins
<1>7. Occurs(e, whole, Len(a))
  BY <1>5, <1>6 DEF Occurs
<1>. QED  BY <1>4, <1>7 DEF a, e, g, whole

-----------------------------------------------------------------------------
(* What is left of a text without its comment lines and the white space      *)
(* around it.                                                                *)
Kept(text) == [i \in DOMAIN text |-> IF InComment(text, i) THEN <<>> ELSE <<text[i]>>]
Dark(text) == {i \in DOMAIN text : text[i] \notin WhiteSpace}

LEMMA CleanedIs == \A text : Cleaned(text) = Strip(FlattenSeq(Kept(text)))
BY DEF Cleaned, Kept

LEMMA KeptType ==
    ASSUME NEW C, NEW text \in Seq(C)
    PROVE  /\ Kept(text) \in Seq(Seq(C)) /\ Len(Kept(text)) = Len(text)
           /\ \A i \in 1..Len(text) : Kept(text)[i] = IF InComment(text, i) THEN <<>> ELSE <<text[i]>>
           /\ FlattenSeq(Kept(text)) \in Seq(C)
<1>1. /\ Kept(text) \in Seq(Seq(C)) /\ Len(Kept(text)) = Len(text)
      /\ \A i \in 1..Len(text) : Kept(text)[i] = IF InComment(text, i) THEN <<>> ELSE <<text[i]>>
  <2>1. Len(text) \in Nat /\ DOMAIN text = 1..Len(text) /\ \A i \in 1..Len(text) : text[i] \in C
    OBVIOUS
  <2>2. \A i \in 1..Len(text) : <<text[i]>> \in Seq(C) /\ <<>> \in Seq(C)
    BY <2>1
  <2>. QED  BY <2>1, <2>2 DEF Kept
<1>2. PICK f : Assembly(f, Kept(text), C)
  BY <1>1, Flattened
<1>3. Len(Kept(text)) \in 0..Len(Kept(text))
  BY <1>1
<1>. QED  BY <1>1, <1>2, <1>3 DEF Assembly

(* A set of positions has a first one, too. *)
LEMMA FirstMember ==
    ASSUME NEW n \in Nat, NEW A \in SUBSET (0..n), A # {}
    PROVE  \E k \in A : \A j \in A : k <= j
<1>. DEFINE B == {n - i : i \in A}
<1>1. PICK a \in A : TRUE
  OBVIOUS
<1>2. B \in SUBSET (0..n) /\ B # {} /\ A \subseteq Int
  BY <1>1
<1>3. PICK m \in B : \A j \in B : j <= m
  <2>. HIDE DEF B
  <2>. QED  BY <1>2, LastMember
<1>4. PICK k \in A : m = n - k
  OBVIOUS
<1>5. ASSUME NEW j \in A
      PROVE  k <= j
  <2>1. n - j <= n - k /\ j \in Int /\ k \in Int
    BY <1>2, <1>3, <1>4
  <2>. QED  BY <2>1
<1>. QED  BY <1>5

LEMMA Ends ==
    ASSUME NEW n \in Nat, NEW A \in SUBSET (1..n), A # {}
    PROVE  /\ Min(A) \in A /\ Max(A) \in A
           /\ \A j \in A : Min(A) <= j /\ j <= Max(A)
<1>1. A \in SUBSET (0..n)
  OBVIOUS
<1>2. \E k \in A : \A j \in A : k <= j
  BY <1>1, FirstMember
<1>3. \E k \in A : \A j \in A : j <= k
  BY <1>1, LastMember
<1>4. \E k \in A : \A j \in A : k >= j
  BY <1>1, <1>3
<1>5. Min(A) \in A /\ \A j \in A : Min(A) =< j
  BY <1>2 DEF Min
<1>6. Max(A) \in A /\ \A j \in A : Max(A) >= j
  BY <1>4 DEF Max
<1>. QED  BY <1>1, <1>5, <1>6

LEMMA StripType ==
    ASSUME NEW C, NEW text \in Seq(C)
    PROVE  Strip(text) \in Seq(C)
<1>. DEFINE A == Dark(text)
<1>1. Strip(text) = IF A = {} THEN <<>> ELSE SubSeq(text, Min(A), Max(A))
  BY DEF Strip, Dark
<1>2. CASE A = {}
  BY <1>1, <1>2
<1>3. CASE A # {}
  <2>1. Len(text) \in Nat /\ A \in SUBSET (1..Len(text)) /\ \A i \in 1..Len(text) : text[i] \in C
    BY DEF Dark
  <2>. HIDE DEF A
  <2>2. Min(A) \in 1..Len(text) /\ Max(A) \in 1..Len(text)
    BY <1>3, <2>1, Ends
  <2>3. Min(A) \in Int /\ Max(A) \in Int /\ \A i \in Min(A)..Max(A) : text[i] \in C
    BY <2>1, <2>2
  <2>4. SubSeq(text, Min(A), Max(A)) \in Seq(C)
    BY <2>3, SubSeqProperties
  <2>. QED  BY <1>1, <1>3, <2>4
<1>. QED  BY <1>2, <1>3

LEMMA CleanedType ==
    ASSUME NEW C, NEW text \in Seq(C)
    PROVE  Cleaned(text) \in Seq(C)
BY CleanedIs, KeptType, StripType

(* Comment lines at the head of a text, and none after them. *)
LEMMA KeptTail ==
    ASSUME NEW C, NEW text \in Seq(C), NEW a \in 0..Len(text),
           \A i \in 1..a : InComment(text, i),
           \A i \in a + 1..Len(text) : ~InComment(text, i)
    PROVE  FlattenSeq(Kept(text)) = SubSeq(text, a + 1, Len(text))
<1>. DEFINE n == Len(text)
            seqs == Kept(text)
<1>1. /\ n \in Nat /\ Len(seqs) = n /\ seqs \in Seq(Seq(C))
      /\ \A i \in 1..n : seqs[i] = IF InComment(text, i) THEN <<>> ELSE <<text[i]>>
  BY KeptType
<1>2. PICK f : Assembly(f, seqs, C)
  BY <1>1, Flattened
<1>3. /\ f[0] = <<>> /\ f[n] = FlattenSeq(seqs)
      /\ \A i \in 0..n : f[i] \in Seq(C) /\ (i < n => f[i + 1] = Glue(f[i], seqs[i + 1]))
  BY <1>1, <1>2 DEF Assembly
<1>. HIDE DEF seqs
<1>. DEFINE P == {i \in 0..n : f[i] = SubSeq(text, a + 1, i)}
<1>4. 0 \in P
  <2>1. SubSeq(text, a + 1, 0) = <<>>
    BY SubSeqEmpty
  <2>. QED  BY <1>1, <1>3, <2>1
<1>5. ASSUME NEW i \in 0..n, i < n, i \in P
      PROVE  i + 1 \in P
  <2>0. i + 1 \in 1..n /\ i + 1 \in 0..n
    BY <1>1, <1>5
  <2>1. /\ i + 1 \in 1..n /\ i + 1 \in 0..n
        /\ f[i + 1] = Glue(f[i], seqs[i + 1]) /\ f[i] \in Seq(C)
    <3>. HIDE DEF n
    <3>. QED  BY <1>3, <1>5, <2>0
  <2>2. CASE i + 1 <= a
    <3>0. i + 1 \in 1..a
      BY <2>0, <2>2
    <3>1. seqs[i + 1] = <<>>
      <4>. HIDE DEF n
      <4>. QED  BY <1>1, <2>0, <3>0
    <3>2. Glue(f[i], <<>>) = f[i]
      BY <2>1, ConcatEmptySeq DEF Glue
    <3>3. SubSeq(text, a + 1, i) = <<>> /\ SubSeq(text, a + 1, i + 1) = <<>>
      BY <2>1, <2>2, SubSeqEmpty
    <3>. QED  BY <1>5, <2>1, <3>1, <3>2, <3>3
  <2>3. CASE ~(i + 1 <= a)
    <3>1. a + 1 \in 1..n /\ i + 1 \in a + 1..n /\ (i + 1) - 1 = i
      BY <2>1, <2>3
    <3>2. seqs[i + 1] = <<text[i + 1]>>
      BY <1>1, <2>1, <3>1
    <3>3. SubSeq(text, a + 1, i + 1) = SubSeq(text, a + 1, (i + 1) - 1) \o <<text[i + 1]>>
      BY <3>1, SubSeqRecursiveSecond
    <3>. QED  BY <1>5, <2>1, <3>1, <3>2, <3>3 DEF Glue
  <2>. QED  BY <2>2, <2>3
<1>6. \A i \in 0..n : i \in P
  <2>. HIDE DEF P, n
  <2>. QED  BY <1>1, <1>4, <1>5, Upwards
<1>7. n \in P
  BY <1>1, <1>6
<1>. QED  BY <1>3, <1>7 DEF seqs

(* White space before a text that has none around it. *)
LEMMA StripTail ==
    ASSUME NEW C, NEW text \in Seq(C), NEW b \in 0..Len(text), b < Len(text),
           \A i \in 1..b : text[i] \in WhiteSpace,
           text[b + 1] \notin WhiteSpace, text[Len(text)] \notin WhiteSpace
    PROVE  Strip(text) = SubSeq(text, b + 1, Len(text))
<1>. DEFINE A == Dark(text)
            n == Len(text)
<1>1. n \in Nat /\ A \in SUBSET (1..n) /\ b + 1 \in A /\ n \in A /\ \A j \in A : b + 1 <= j
  BY DEF Dark
<1>2. Strip(text) = SubSeq(text, Min(A), Max(A))
  BY <1>1 DEF Strip, Dark
<1>. HIDE DEF A
<1>3. /\ Min(A) \in A /\ Max(A) \in A
      /\ \A j \in A : Min(A) <= j /\ j <= Max(A)
  BY <1>1, Ends
<1>4. Min(A) = b + 1 /\ Max(A) = n
  <2>1. Min(A) \in 1..n /\ Max(A) \in 1..n
    BY <1>1, <1>3
  <2>2. b + 1 <= Min(A) /\ Min(A) <= b + 1 /\ n <= Max(A)
    BY <1>1, <1>3
  <2>. HIDE DEF n
  <2>. QED  BY <1>1, <2>1, <2>2
<1>. QED  BY <1>2, <1>4

-----------------------------------------------------------------------------
(* A statement under a line break, or under a comment line, is cleaned to    *)
(* itself, unless one of its own lines is a comment.                         *)
Whole(s) ==
    /\ s # <<>> /\ s[1] \notin WhiteSpace /\ s[Len(s)] \notin WhiteSpace
    /\ NoCommentLine(s)

LEMMA CommentsAbove ==
    ASSUME NEW C, NEW a \in Seq(C), NEW s \in Seq(C), NEW text, Joins(a, s, text), text \in Seq(C),
           Len(a) >= 1, a[Len(a)] = "break", NoCommentLine(s),
           NEW j \in 1..Len(text), OpensComment(text, j)
    PROVE  j < Len(a)
<1>. DEFINE p == Len(a)
<1>1. /\ p \in Nat /\ p >= 1 /\ Len(s) \in Nat /\ Len(text) = p + Len(s)
      /\ text[p] = "break" /\ \A i \in 1..Len(s) : text[p + i] = s[i]
  BY DEF Joins
<1>2. PICK k \in 1..j : /\ k = 1 \/ text[k - 1] = "break"
                        /\ \A m \in k..j - 1 : text[m] = " "
  BY DEF OpensComment
<1>3. text[j] = "--"
  BY DEF OpensComment
<1>. HIDE DEF p
<1>4. SUFFICES ASSUME j > p PROVE FALSE
  <2>1. j # p
    BY <1>1, <1>3
  <2>. QED  BY <1>1, <2>1 DEF p
<1>. DEFINE i == j - p
<1>5. i \in 1..Len(s) /\ p + i = j
  BY <1>1, <1>4
<1>6. k > p
  <2>1. CASE k <= p
    <3>1. p \in k..j - 1
      BY <1>1, <1>4, <2>1
    <3>. QED  BY <1>1, <1>2, <3>1
  <2>. QED  BY <1>1, <2>1
<1>. DEFINE l == k - p
<1>7. l \in 1..i /\ p + l = k
  BY <1>1, <1>4, <1>6
<1>8. s[i] = "--"
  BY <1>1, <1>3, <1>5
<1>9. l = 1 \/ s[l - 1] = "break"
  <2>1. CASE l = 1
    BY <2>1
  <2>2. CASE l # 1
    <3>1. l - 1 \in 1..Len(s) /\ p + (l - 1) = k - 1 /\ k # 1
      BY <1>1, <1>5, <1>6, <1>7, <2>2
    <3>. QED  BY <1>1, <1>2, <3>1
  <2>. QED  BY <2>1, <2>2
<1>10. ASSUME NEW m \in l..i - 1
       PROVE  s[m] = " "
  <2>1. m \in 1..Len(s) /\ p + m \in k..j - 1
    BY <1>1, <1>5, <1>7
  <2>. QED  BY <1>1, <1>2, <2>1
<1>. HIDE DEF i, l
<1>11. OpensComment(s, i)
  BY <1>7, <1>8, <1>9, <1>10 DEF OpensComment
<1>. QED  BY <1>5, <1>11 DEF NoCommentLine

LEMMA CleanedUnderBreak ==
    ASSUME NEW C, Marks \subseteq C, NEW s \in Seq(C), Whole(s)
    PROVE  Cleaned(Glue(<<"break">>, s)) = s
<1>. DEFINE a == <<"break">>
            text == Glue(a, s)
            n == Len(text)
<1>1. a \in Seq(C) /\ Len(a) = 1 /\ a[1] = "break"
  <2>1. "break" \in C
    BY DEF Marks
  <2>. QED  BY <2>1, Single
<1>. HIDE DEF a
<1>2. text \in Seq(C) /\ Joins(a, s, text)
  BY <1>1, Appends
<1>. HIDE DEF text
<1>3. /\ n = 1 + Len(s) /\ Len(s) \in Nat /\ Len(s) >= 1
      /\ text[1] = "break" /\ \A i \in 1..Len(s) : text[1 + i] = s[i]
  <2>1. Len(s) >= 1
    BY DEF Whole
  <2>. QED  BY <1>1, <1>2, <2>1 DEF Joins
<1>4. \A i \in 1..n : ~InComment(text, i)
  <2>1. ASSUME NEW j \in 1..n, OpensComment(text, j)
        PROVE  FALSE
    <3>1. NoCommentLine(s) /\ Len(a) >= 1 /\ a[Len(a)] = "break"
      BY <1>1 DEF Whole
    <3>2. j < Len(a)
      BY <1>1, <1>2, <2>1, <3>1, CommentsAbove
    <3>. QED  BY <1>1, <2>1, <3>2
  <2>2. DOMAIN text = 1..n
    BY <1>2
  <2>. QED  BY <2>1, <2>2 DEF InComment
<1>5. FlattenSeq(Kept(text)) = text
  <2>1. FlattenSeq(Kept(text)) = SubSeq(text, 0 + 1, n)
    <3>1. 0 \in 0..n /\ (\A i \in 1..0 : InComment(text, i)) /\ \A i \in 0 + 1..n : ~InComment(text, i)
      BY <1>3, <1>4
    <3>. QED  BY <1>2, <3>1, KeptTail
  <2>. QED  BY <1>2, <2>1, SubSeqFull
<1>6. Strip(text) = SubSeq(text, 1 + 1, n)
  <2>1. "break" \in WhiteSpace
    BY DEF WhiteSpace
  <2>2. 1 \in 0..n /\ 1 < n /\ \A i \in 1..1 : text[i] \in WhiteSpace
    BY <1>3, <2>1
  <2>3. text[1 + 1] \notin WhiteSpace /\ text[n] \notin WhiteSpace
    <3>1. 1 \in 1..Len(s) /\ Len(s) \in 1..Len(s) /\ n = 1 + Len(s)
      BY <1>3
    <3>. QED  BY <1>3, <3>1 DEF Whole
  <2>. QED  BY <1>2, <2>2, <2>3, StripTail
<1>7. SubSeq(text, 1 + 1, n) = s
  <2>. DEFINE u == SubSeq(text, 1 + 1, n)
  <2>1. \A i \in 1 + 1..n : text[i] \in C
    BY <1>2, <1>3
  <2>2. u \in Seq(C) /\ Len(u) = n - (1 + 1) + 1 /\ \A i \in 1..n - (1 + 1) + 1 : u[i] = text[1 + 1 + i - 1]
    BY <1>3, <2>1, SubSeqProperties
  <2>3. Len(u) = Len(s) /\ \A i \in 1..Len(s) : u[i] = s[i]
    <3>1. \A i \in 1..Len(s) : 1 + 1 + i - 1 = 1 + i
      BY <1>3
    <3>. HIDE DEF u
    <3>. QED  BY <1>3, <2>2, <3>1
  <2>. HIDE DEF u
  <2>. QED  BY <2>2, <2>3, SeqEqual DEF u
<1>. QED  BY <1>5, <1>6, <1>7, CleanedIs DEF text, a

LEMMA CleanedUnderHeader ==
    ASSUME NEW C, Marks \subseteq C, NEW s \in Seq(C), Whole(s)
    PROVE  Cleaned(Glue(<<"--", "break">>, s)) = s
<1>. DEFINE a == <<"--", "break">>
            text == Glue(a, s)
            n == Len(text)
<1>1. a \in Seq(C) /\ Len(a) = 2 /\ a[1] = "--" /\ a[2] = "break"
  <2>1. "--" \in C /\ "break" \in C
    BY DEF Marks
  <2>2. a \in Seq(C)
    BY <2>1
  <2>. QED  BY <2>2
<1>. HIDE DEF a
<1>2. text \in Seq(C) /\ Joins(a, s, text)
  BY <1>1, Appends
<1>. HIDE DEF text
<1>3. /\ n = 2 + Len(s) /\ Len(s) \in Nat /\ Len(s) >= 1 /\ DOMAIN text = 1..n
      /\ text[1] = "--" /\ text[2] = "break" /\ \A i \in 1..Len(s) : text[2 + i] = s[i]
  <2>1. Len(s) >= 1
    BY DEF Whole
  <2>. QED  BY <1>1, <1>2, <2>1 DEF Joins
<1>4. \A i \in 1..2 : InComment(text, i)
  <2>1. 1 \in DOMAIN text /\ OpensComment(text, 1)
    BY <1>3 DEF OpensComment
  <2>2. \A i \in 1..2 : \A k \in (i..1 - 1) \cup (1..i - 1) : text[k] # "break"
    BY <1>3
  <2>. QED  BY <2>1, <2>2 DEF InComment
<1>5. \A i \in 2 + 1..n : ~InComment(text, i)
  <2>1. ASSUME NEW i \in 2 + 1..n, NEW j \in 1..n, OpensComment(text, j),
               \A k \in (i..j - 1) \cup (j..i - 1) : text[k] # "break"
        PROVE  FALSE
    <3>1. NoCommentLine(s) /\ Len(a) >= 1 /\ a[Len(a)] = "break"
      BY <1>1 DEF Whole
    <3>2. j < 2
      BY <1>1, <1>2, <2>1, <3>1, CommentsAbove
    <3>3. 2 \in j..i - 1
      BY <1>3, <2>1, <3>2
    <3>. QED  BY <1>3, <2>1, <3>3
  <2>. QED  BY <2>1, <1>3 DEF InComment
<1>6. SubSeq(text, 2 + 1, n) = s
  <2>. DEFINE u == SubSeq(text, 2 + 1, n)
  <2>1. \A i \in 2 + 1..n : text[i] \in C
    BY <1>2, <1>3
  <2>2. u \in Seq(C) /\ Len(u) = n - (2 + 1) + 1 /\ \A i \in 1..n - (2 + 1) + 1 : u[i] = text[2 + 1 + i - 1]
    BY <1>3, <2>1, SubSeqProperties
  <2>3. Len(u) = Len(s) /\ \A i \in 1..Len(s) : u[i] = s[i]
    <3>1. \A i \in 1..Len(s) : 2 + 1 + i - 1 = 2 + i
      BY <1>3
    <3>. HIDE DEF u
    <3>. QED  BY <1>3, <2>2, <3>1
  <2>. HIDE DEF u
  <2>. QED  BY <2>2, <2>3, SeqEqual DEF u
<1>7. FlattenSeq(Kept(text)) = s
  <2>1. 2 \in 0..n
    BY <1>3
  <2>. QED  BY <1>2, <1>4, <1>5, <1>6, <2>1, KeptTail
<1>8. Strip(s) = s
  <2>1. /\ 0 \in 0..Len(s) /\ 0 < Len(s) /\ (\A i \in 1..0 : s[i] \in WhiteSpace) /\ 0 + 1 = 1
        /\ s[0 + 1] \notin WhiteSpace /\ s[Len(s)] \notin WhiteSpace
    BY <1>3 DEF Whole
  <2>2. Strip(s) = SubSeq(s, 0 + 1, Len(s))
    BY <2>1, StripTail
  <2>. QED  BY <2>2, SubSeqFull
<1>. QED  BY <1>7, <1>8, CleanedIs DEF text, a

(* A header with nothing under it, and no text at all. *)
LEMMA CleanedNothing == Cleaned(<<"--">>) = <<>> /\ Cleaned(<<>>) = <<>>
<1>. DEFINE C == {"--"}
<1>1. <<"--">> \in Seq(C) /\ <<>> \in Seq(C)
  BY Single
<1>. HIDE DEF C
<1>2. Strip(<<>>) = <<>>
  BY DEF Strip
<1>3. FlattenSeq(Kept(<<"--">>)) = <<>>
  <2>. DEFINE t == <<"--">>
  <2>1. t \in Seq(C) /\ Len(t) = 1 /\ t[1] = "--" /\ DOMAIN t = 1..1
    BY <1>1
  <2>. HIDE DEF t
  <2>2. InComment(t, 1)
    <3>1. OpensComment(t, 1)
      BY <2>1 DEF OpensComment
    <3>. QED  BY <2>1, <3>1 DEF InComment
  <2>3. 1 \in 0..Len(t) /\ (\A i \in 1..1 : InComment(t, i)) /\ \A i \in 1 + 1..Len(t) : ~InComment(t, i)
    BY <2>1, <2>2
  <2>4. FlattenSeq(Kept(t)) = SubSeq(t, 1 + 1, Len(t))
    BY <2>1, <2>3, KeptTail
  <2>5. SubSeq(t, 1 + 1, Len(t)) = <<>>
    BY <2>1, SubSeqEmpty
  <2>. QED  BY <2>4, <2>5 DEF t
<1>4. FlattenSeq(Kept(<<>>)) = <<>>
  <2>. DEFINE t == <<>>
  <2>1. t \in Seq(C) /\ Len(t) = 0
    BY <1>1
  <2>. HIDE DEF t
  <2>2. 0 \in 0..Len(t) /\ (\A i \in 1..0 : InComment(t, i)) /\ \A i \in 0 + 1..Len(t) : ~InComment(t, i)
    BY <2>1
  <2>3. FlattenSeq(Kept(t)) = SubSeq(t, 0 + 1, Len(t))
    BY <2>1, <2>2, KeptTail
  <2>4. SubSeq(t, 0 + 1, Len(t)) = <<>>
    BY <2>1, SubSeqEmpty
  <2>. QED  BY <2>3, <2>4 DEF t
<1>. QED  BY <1>2, <1>3, <1>4, CleanedIs

-----------------------------------------------------------------------------
(* The three operations keep chunks chunks. *)
LEMMA ChunkOps ==
    ASSUME NEW C, NEW c \in Chunk(C)
    PROVE  /\ Body(c) \in Seq(Seq(C))
           /\ Close(c) \in Chunk(C)
           /\ \A x \in Seq(C) : Push(x, c) \in Chunk(C)
<1>. DEFINE body == Cleaned(c.cur)
<1>1. c.cur \in Seq(C) /\ c.out \in Seq(Seq(C)) /\ c = [cur |-> c.cur, out |-> c.out]
  BY DEF Chunk
<1>2. body \in Seq(C)
  BY <1>1, CleanedType
<1>. HIDE DEF body
<1>3. <<body>> \o c.out \in Seq(Seq(C))
  <2>1. <<body>> \in Seq(Seq(C))
    BY <1>2
  <2>. QED  BY <1>1, <2>1, ConcatProperties
<1>4. Body(c) \in Seq(Seq(C))
  BY <1>1, <1>3 DEF Body, body
<1>5. ASSUME NEW x \in Seq(C)
      PROVE  Push(x, c) \in Chunk(C)
  <2>1. Push(x, c) = [cur |-> x \o c.cur, out |-> c.out]
    BY <1>1 DEF Push
  <2>2. x \o c.cur \in Seq(C)
    BY <1>1, ConcatProperties
  <2>. QED  BY <1>1, <2>1, <2>2 DEF Chunk
<1>6. <<>> \in Seq(C)
  OBVIOUS
<1>. QED  BY <1>4, <1>5, <1>6 DEF Chunk, Close

(* What is appended in two steps may be appended in one. *)
LEMMA PushPush ==
    ASSUME NEW C, NEW c \in Chunk(C), NEW x \in Seq(C), NEW y \in Seq(C)
    PROVE  Push(x, Push(y, c)) = Push(Glue(x, y), c)
<1>. DEFINE z == c.cur
<1>1. z \in Seq(C)
  BY DEF Chunk
<1>2. x \o (y \o z) = (x \o y) \o z
  <2>. HIDE DEF z
  <2>. QED  BY <1>1, ConcatAssociative
<1>. QED  BY <1>2 DEF Push, Glue

Scanned(F, i, C) ==
    F[i].outside \in Chunk(C) /\ F[i].inside \in Chunk(C) /\ F[i].escaped \in Chunk(C)

(* At every position the loop has chunks, as Step says it makes them. *)
LEMMA ChunksTyped ==
    ASSUME NEW C, Marks \subseteq C, NEW text \in Seq(C)
    PROVE  /\ \A i \in 1..Len(text) + 1 : Scanned(Chunks(text), i, C)
           /\ \A i \in 1..Len(text) : Chunks(text)[i] = Step(text, i, Chunks(text)[i + 1])
           /\ Chunks(text)[Len(text) + 1] = AtEnd
<1>. DEFINE N == Len(text) + 1
            F == Chunks(text)
            P == {k \in 0..N : \A i \in 1..N : i > k => Scanned(F, i, C)}
<1>0. Len(text) \in Nat /\ \A i \in 1..N : F[i] = Scan(text, F, i)
  BY ChunksStep
<1>. HIDE DEF F
<1>1. N \in P /\ N \in Nat
  OBVIOUS
<1>2. \A i \in 1..Len(text) : F[i] = Step(text, i, F[i + 1])
  <2>. TAKE i \in 1..Len(text)
  <2>1. i \in 1..N /\ ~(i > Len(text))
    BY <1>0
  <2>. QED  BY <2>1, <1>0 DEF Scan
<1>3. F[N] = AtEnd
  <2>1. N \in 1..N /\ N > Len(text)
    BY <1>0
  <2>. QED  BY <2>1, <1>0 DEF Scan
<1>4. ASSUME NEW k \in 0..N, k < N, k + 1 \in P
      PROVE  k \in P
  <2>. DEFINE i == k + 1
  <2>1. Nothing \in Chunk(C)
    BY DEF Chunk, Nothing
  <2>2. CASE i = N
    BY <1>3, <2>1, <2>2 DEF AtEnd, Scanned
  <2>3. CASE i # N
    <3>1. i \in 1..Len(text) /\ i + 1 \in 1..N
      BY <1>0, <1>4, <2>3
    <3>2. Scanned(F, i + 1, C)
      BY <1>0, <1>4, <3>1
    <3>3. <<text[i]>> \in Seq(C)
      BY <3>1
    <3>4. <<"'">> \in Seq(C)
      <4>1. "'" \in C
        BY DEF Marks
      <4>. QED  BY <4>1
    <3>. DEFINE next == F[i + 1]
    <3>5. next.outside \in Chunk(C) /\ next.inside \in Chunk(C) /\ next.escaped \in Chunk(C)
      BY <3>2 DEF Scanned
    <3>. HIDE DEF i, next
    <3>6. \A c \in Chunk(C) : Close(c) \in Chunk(C) /\ \A x \in Seq(C) : Push(x, c) \in Chunk(C)
      BY ChunkOps
    <3>7. Outside(text, i, next) \in Chunk(C)
      BY <3>3, <3>4, <3>5, <3>6 DEF Outside
    <3>8. Inside(text, i, next) \in Chunk(C)
      BY <3>3, <3>4, <3>5, <3>6 DEF Inside
    <3>9. Push(<<text[i]>>, next.inside) \in Chunk(C)
      BY <3>3, <3>5, <3>6
    <3>10. F[i] = Step(text, i, next)
      BY <1>2, <3>1 DEF next
    <3>11. Scanned(F, i, C)
      BY <3>7, <3>8, <3>9, <3>10 DEF Step, Scanned
    <3>. QED  BY <3>11, <1>4 DEF i
  <2>. QED  BY <2>2, <2>3
<1>5. 0 \in P
  <2>. HIDE DEF P, N
  <2>. QED  BY <1>1, <1>4, Downwards
<1>. QED  BY <1>2, <1>3, <1>5 DEF F

(* One turn of the loop, by the character it is at. *)
LEMMA ScanRules ==
    ASSUME NEW C, Marks \subseteq C, NEW text \in Seq(C), NEW i \in 1..Len(text)
    PROVE  LET F == Chunks(text)
           IN  /\ text[i] = ";" => F[i].outside = Close(F[i + 1].outside)
               /\ text[i] = "'" => F[i].outside = Push(<<"'">>, F[i + 1].inside)
               /\ text[i] \notin {";", "'"} => F[i].outside = Push(<<text[i]>>, F[i + 1].outside)
               /\ Doubled(text, i) => F[i].inside = Push(<<"'", "'">>, F[i + 2].inside)
               /\ text[i] = "'" /\ ~Doubled(text, i) => F[i].inside = Push(<<"'">>, F[i + 1].outside)
               /\ text[i] # "'" => F[i].inside = Push(<<text[i]>>, F[i + 1].inside)
<1>. DEFINE F == Chunks(text)
            next == F[i + 1]
<1>1. F[i] = Step(text, i, next)
  BY ChunksTyped
<1>2. F[i].outside = Outside(text, i, next) /\ F[i].inside = Inside(text, i, next)
  BY <1>1 DEF Step
<1>3. \A j \in 1..Len(text) + 1 : Scanned(F, j, C)
  BY ChunksTyped
<1>4. ASSUME Doubled(text, i)
      PROVE  F[i].inside = Push(<<"'", "'">>, F[i + 2].inside)
  <2>1. i + 1 \in 1..Len(text) /\ i + 2 \in 1..Len(text) + 1 /\ i + 1 + 1 = i + 2 /\ text[i + 1] = "'"
    BY <1>4 DEF Doubled
  <2>2. F[i + 1] = Step(text, i + 1, F[i + 2])
    BY <2>1, ChunksTyped
  <2>. HIDE DEF F
  <2>3. F[i].inside = Push(<<"'">>, F[i + 1].escaped)
    BY <1>2, <1>4 DEF Inside
  <2>4. F[i + 1].escaped = Push(<<"'">>, F[i + 2].inside)
    BY <2>1, <2>2 DEF Step
  <2>5. <<"'">> \in Seq(C) /\ F[i + 2].inside \in Chunk(C)
    <3>1. "'" \in C
      BY DEF Marks
    <3>2. F[i + 2].inside \in Chunk(C)
      BY <1>3, <2>1 DEF Scanned
    <3>. QED  BY <3>1, <3>2
  <2>6. Push(<<"'">>, Push(<<"'">>, F[i + 2].inside)) = Push(Glue(<<"'">>, <<"'">>), F[i + 2].inside)
    BY <2>5, PushPush
  <2>7. Glue(<<"'">>, <<"'">>) = <<"'", "'">>
    BY Pair DEF Glue
  <2>. QED  BY <2>3, <2>4, <2>6, <2>7
<1>. HIDE DEF F
<1>5. /\ text[i] = ";" => F[i].outside = Close(F[i + 1].outside)
      /\ text[i] = "'" => F[i].outside = Push(<<"'">>, F[i + 1].inside)
      /\ text[i] \notin {";", "'"} => F[i].outside = Push(<<text[i]>>, F[i + 1].outside)
  BY <1>2 DEF Outside
<1>6. /\ text[i] = "'" /\ ~Doubled(text, i) => F[i].inside = Push(<<"'">>, F[i + 1].outside)
      /\ text[i] # "'" => F[i].inside = Push(<<text[i]>>, F[i + 1].inside)
  BY <1>2 DEF Inside, Doubled
<1>. QED  BY <1>4, <1>5, <1>6 DEF F

-----------------------------------------------------------------------------
(* A literal: from its first character on to its closing quote the splitter   *)
(* stays inside, doubled quotes or not, and takes what it reads as it is.    *)
Quoted(v) == [k \in DOMAIN v |-> EscapedChar(v[k])]

LEMMA Escapes ==
    ASSUME NEW C, Marks \subseteq C, NEW v \in Seq(C)
    PROVE  /\ Quoted(v) \in Seq(Seq(C)) /\ Len(Quoted(v)) = Len(v)
           /\ \A i \in 1..Len(v) : Quoted(v)[i] = EscapedChar(v[i]) /\ v[i] \in C
           /\ Escaped(v) = FlattenSeq(Quoted(v)) /\ Escaped(v) \in Seq(C)
<1>1. \A c \in C : EscapedChar(c) \in Seq(C)
  <2>1. "'" \in C
    BY DEF Marks
  <2>. QED  BY <2>1 DEF EscapedChar
<1>2. Len(v) \in Nat /\ DOMAIN v = 1..Len(v) /\ \A i \in DOMAIN v : v[i] \in C
  OBVIOUS
<1>3. /\ Quoted(v) \in Seq(Seq(C)) /\ Len(Quoted(v)) = Len(v)
      /\ \A i \in 1..Len(v) : Quoted(v)[i] = EscapedChar(v[i]) /\ v[i] \in C
  BY <1>1, <1>2 DEF Quoted
<1>4. Escaped(v) = FlattenSeq(Quoted(v))
  BY DEF Escaped, Quoted
<1>5. PICK f : Assembly(f, Quoted(v), C)
  BY <1>3, Flattened
<1>6. FlattenSeq(Quoted(v)) \in Seq(C)
  <2>1. Len(Quoted(v)) \in 0..Len(Quoted(v))
    BY <1>2, <1>3
  <2>. QED  BY <2>1, <1>5 DEF Assembly
<1>. QED  BY <1>3, <1>4, <1>6

(* By induction over the characters of the value. *)
LEMMA ScanLiteral ==
    ASSUME NEW C, Marks \subseteq C, NEW text \in Seq(C), NEW v \in Seq(C),
           NEW p \in 1..Len(text), p + Len(Escaped(v)) <= Len(text),
           \A j \in 1..Len(Escaped(v)) : text[p - 1 + j] = Escaped(v)[j]
    PROVE  Chunks(text)[p].inside = Push(Escaped(v), Chunks(text)[p + Len(Escaped(v))].inside)
<1>. DEFINE n == Len(v)
            F == Chunks(text)
            E == Escaped(v)
            seqs == Quoted(v)
<1>1. /\ seqs \in Seq(Seq(C)) /\ Len(seqs) = n /\ n \in Nat
      /\ \A i \in 1..n : seqs[i] = EscapedChar(v[i]) /\ v[i] \in C
      /\ E = FlattenSeq(seqs) /\ E \in Seq(C) /\ Len(E) \in Nat
  BY Escapes
<1>2. PICK f : Assembly(f, seqs, C)
  BY <1>1, Flattened
<1>3. ASSUME NEW i \in 0..n, i < n
      PROVE  Occurs(seqs[i + 1], E, Len(f[i])) /\ Joins(f[i], seqs[i + 1], f[i + 1])
  <2>1. seqs \in Seq(Seq(C)) /\ i \in 0..Len(seqs) /\ i < Len(seqs)
    BY <1>1, <1>3
  <2>. HIDE DEF seqs, n
  <2>2. Occurs(seqs[i + 1], FlattenSeq(seqs), Len(f[i])) /\ Joins(f[i], seqs[i + 1], f[i + 1])
    BY <1>2, <2>1, PiecesOccur
  <2>. QED  BY <2>2, <1>1
<1>4. /\ f[0] = <<>> /\ f[n] = E
      /\ \A i \in 0..n : f[i] \in Seq(C) /\ (i < n => f[i + 1] = Glue(f[i], seqs[i + 1]))
  BY <1>1, <1>2 DEF Assembly
<1>5. \A i \in 1..Len(text) + 1 : F[i].outside \in Chunk(C) /\ F[i].inside \in Chunk(C)
  BY ChunksTyped DEF Scanned
<1>6. p \in Nat /\ p + Len(E) <= Len(text) /\ Len(text) \in Nat
      /\ \A j \in 1..Len(E) : text[p - 1 + j] = E[j]
  OBVIOUS
<1>. HIDE DEF n, F, E, seqs
<1>. DEFINE P == {i \in 0..n : F[p].inside = Push(f[i], F[p + Len(f[i])].inside)}
<1>7. 0 \in P
  <2>1. F[p].inside \in Chunk(C) /\ Len(f[0]) = 0 /\ p + 0 = p
    BY <1>4, <1>5, <1>6
  <2>. DEFINE c == F[p].inside
  <2>2. c = [cur |-> c.cur, out |-> c.out] /\ <<>> \o c.cur = c.cur
    <3>1. c.cur \in Seq(C) /\ c = [cur |-> c.cur, out |-> c.out]
      BY <2>1 DEF Chunk
    <3>. DEFINE z == c.cur
    <3>2. <<>> \o z = z
      <4>. HIDE DEF z
      <4>. QED  BY <3>1 DEF z
    <3>. QED  BY <3>1, <3>2
  <2>3. Push(<<>>, c) = c
    <3>. HIDE DEF c
    <3>. QED  BY <2>2 DEF Push
  <2>4. Len(f[0]) = 0 /\ p + Len(f[0]) = p /\ 0 \in 0..n
    BY <2>1, <1>1
  <2>5. F[p].inside = Push(f[0], F[p + Len(f[0])].inside)
    BY <2>3, <2>4, <1>4
  <2>. QED  BY <2>4, <2>5
<1>8. ASSUME NEW i \in 0..n, i < n, i \in P
      PROVE  i + 1 \in P
  <2>. DEFINE e == seqs[i + 1]
              q == p + Len(f[i])
  <2>1. /\ i + 1 \in 1..n /\ i + 1 \in 0..n
        /\ e = EscapedChar(v[i + 1]) /\ e \in Seq(C) /\ v[i + 1] \in C
        /\ f[i] \in Seq(C) /\ f[i + 1] \in Seq(C) /\ f[i + 1] = Glue(f[i], e)
    <3>1. i + 1 \in 1..n /\ i + 1 \in 0..n
      BY <1>1, <1>8
    <3>2. e = EscapedChar(v[i + 1]) /\ e \in Seq(C) /\ v[i + 1] \in C
      BY <3>1, <1>1
    <3>3. f[i] \in Seq(C) /\ f[i + 1] \in Seq(C) /\ f[i + 1] = Glue(f[i], seqs[i + 1])
      BY <3>1, <1>4, <1>8
    <3>. QED  BY <3>1, <3>2, <3>3
  <2>2. Occurs(e, E, Len(f[i])) /\ Joins(f[i], e, f[i + 1])
    BY <1>3, <1>8
  <2>3. /\ Len(f[i]) \in Nat /\ Len(e) \in Nat /\ Len(f[i + 1]) = Len(f[i]) + Len(e)
        /\ Len(f[i]) + Len(e) <= Len(E)
    BY <2>2 DEF Occurs, Joins
  <2>. HIDE DEF e
  <2>4. q \in Nat /\ q >= 1 /\ q + Len(e) <= Len(text)
    BY <2>3, <1>1, <1>6
  <2>5. ASSUME NEW j \in 1..Len(e)
        PROVE  text[q - 1 + j] = e[j]
    <3>1. Len(f[i]) + j \in 1..Len(E) /\ p - 1 + (Len(f[i]) + j) = q - 1 + j
      BY <2>3, <1>1, <1>6
    <3>2. E[Len(f[i]) + j] = e[j]
      BY <2>2 DEF Occurs
    <3>. QED  BY <1>6, <3>1, <3>2
  <2>. HIDE DEF q
  <2>6. F[q].inside = Push(e, F[q + Len(e)].inside)
    <3>1. CASE v[i + 1] = "'"
      <4>1. e = <<"'", "'">> /\ Len(e) = 2
        BY <2>1, <3>1 DEF EscapedChar
      <4>2. text[q] = "'" /\ text[q + 1] = "'" /\ q < Len(text)
        <5>1. text[q - 1 + 1] = e[1] /\ text[q - 1 + 2] = e[2]
          BY <2>5, <4>1
        <5>2. q - 1 + 1 = q /\ q - 1 + 2 = q + 1 /\ q < Len(text)
          BY <2>4, <4>1, <1>6
        <5>. QED  BY <5>1, <5>2, <4>1
      <4>3. q \in 1..Len(text) /\ Doubled(text, q)
        BY <2>4, <4>2, <1>6 DEF Doubled
      <4>. QED  BY <4>1, <4>3, ScanRules DEF F
    <3>2. CASE v[i + 1] # "'"
      <4>1. e = <<v[i + 1]>> /\ Len(e) = 1
        BY <2>1, <3>2 DEF EscapedChar
      <4>2. text[q] = v[i + 1] /\ q <= Len(text)
        <5>1. text[q - 1 + 1] = e[1]
          BY <2>5, <4>1
        <5>2. q - 1 + 1 = q /\ q <= Len(text)
          BY <2>4, <4>1, <1>6
        <5>. QED  BY <5>1, <5>2, <4>1
      <4>3. q \in 1..Len(text) /\ text[q] # "'"
        BY <2>4, <4>2, <3>2, <1>6
      <4>. QED  BY <4>1, <4>2, <4>3, ScanRules DEF F
    <3>. QED  BY <3>1, <3>2
  <2>7. F[q + Len(e)].inside \in Chunk(C)
    <3>1. q + Len(e) \in 1..Len(text) + 1
      BY <2>3, <2>4, <1>6
    <3>. QED  BY <3>1, <1>5
  <2>8. F[p].inside = Push(f[i], F[q].inside)
    BY <1>8 DEF q
  <2>9. Push(f[i], Push(e, F[q + Len(e)].inside)) = Push(Glue(f[i], e), F[q + Len(e)].inside)
    BY <2>1, <2>7, PushPush
  <2>10. q + Len(e) = p + Len(f[i + 1])
    BY <2>3, <1>6 DEF q
  <2>11. F[p].inside = Push(f[i + 1], F[p + Len(f[i + 1])].inside)
    <3>1. F[p].inside = Push(f[i + 1], F[q + Len(e)].inside)
      BY <2>1, <2>6, <2>8, <2>9
    <3>. QED  BY <3>1, <2>10
  <2>. QED  BY <2>1, <2>11
<1>9. \A i \in 0..n : i \in P
  <2>. HIDE DEF P
  <2>. QED  BY <1>1, <1>7, <1>8, Upwards
<1>10. n \in P
  <2>1. n \in 0..n
    BY <1>1
  <2>. QED  BY <1>9, <2>1
<1>. QED  BY <1>4, <1>10 DEF E, F

-----------------------------------------------------------------------------
(* A statement: an INSERT with one literal. *)
LEMMA InsertShape ==
    ASSUME NEW C, Marks \subseteq C, NEW v \in Seq(C)
    PROVE  /\ InsertOf(v) \in Seq(C) /\ InsertOf(v) # <<>>
           /\ Len(InsertOf(v)) = Len(Escaped(v)) + 3
           /\ InsertOf(v)[1] = "insert" /\ InsertOf(v)[2] = "'"
           /\ \A j \in 1..Len(Escaped(v)) : InsertOf(v)[2 + j] = Escaped(v)[j]
           /\ InsertOf(v)[Len(Escaped(v)) + 3] = "'"
<1>. DEFINE E == Escaped(v)
            a == <<"insert", "'">>
            z == <<"'">>
<1>1. E \in Seq(C) /\ Len(E) \in Nat
  BY Escapes
<1>2. a \in Seq(C) /\ z \in Seq(C) /\ Len(a) = 2 /\ Len(z) = 1
      /\ a[1] = "insert" /\ a[2] = "'" /\ z[1] = "'"
  <2>1. "insert" \in C /\ "'" \in C
    BY DEF Marks
  <2>2. a \in Seq(C) /\ z \in Seq(C)
    BY <2>1
  <2>. QED  BY <2>2
<1>3. InsertOf(v) = Glue(Glue(a, E), z)
  BY DEF InsertOf, Glue
<1>. DEFINE b == Glue(a, E)
            w == InsertOf(v)
<1>. HIDE DEF E, a, z, b, w
<1>4. /\ b \in Seq(C) /\ Len(b) = 2 + Len(E)
      /\ b[1] = a[1] /\ b[2] = a[2] /\ \A j \in 1..Len(E) : b[2 + j] = E[j]
  <2>1. b \in Seq(C) /\ Joins(a, E, b)
    BY <1>1, <1>2, Appends DEF b
  <2>2. 1 \in 1..Len(a) /\ 2 \in 1..Len(a)
    BY <1>2
  <2>. QED  BY <2>1, <2>2, <1>2 DEF Joins
<1>. HIDE DEF b, w
<1>5. /\ w \in Seq(C) /\ Len(w) = Len(b) + 1
      /\ \A j \in 1..Len(b) : w[j] = b[j]
      /\ w[Len(b) + 1] = z[1]
  <2>1. w = Glue(b, z)
    BY <1>3 DEF b, w
  <2>2. w \in Seq(C) /\ Joins(b, z, w)
    BY <2>1, <1>2, <1>4, Appends
  <2>3. 1 \in 1..Len(z)
    BY <1>2
  <2>. QED  BY <2>2, <2>3, <1>2 DEF Joins
<1>6. Len(w) = Len(E) + 3 /\ w # <<>>
  BY <1>1, <1>4, <1>5
<1>7. w[1] = "insert" /\ w[2] = "'"
  <2>1. 1 \in 1..Len(b) /\ 2 \in 1..Len(b)
    BY <1>1, <1>4
  <2>. QED  BY <2>1, <1>2, <1>4, <1>5
<1>8. ASSUME NEW j \in 1..Len(E)
      PROVE  w[2 + j] = E[j]
  <2>1. 2 + j \in 1..Len(b)
    BY <1>1, <1>4
  <2>. QED  BY <2>1, <1>4, <1>5
<1>9. w[Len(E) + 3] = "'"
  <2>1. Len(b) + 1 = Len(E) + 3
    BY <1>1, <1>4
  <2>. QED  BY <2>1, <1>2, <1>5
<1>. QED  BY <1>5, <1>6, <1>7, <1>8, <1>9 DEF E, w

(* A statement and its semicolon, after position k. *)
Stands(statement, text, k) ==
    /\ k + Len(statement) + 1 <= Len(text)
    /\ \A j \in 1..Len(statement) : text[k + j] = statement[j]
    /\ text[k + Len(statement) + 1] = ";"

LEMMA Semicolon ==
    ASSUME NEW C, Marks \subseteq C
    PROVE  <<";">> \in Seq(C) /\ Len(<<";">>) = 1 /\ <<";">>[1] = ";"
<1>1. ";" \in C
  BY DEF Marks
<1>2. <<";">> \in Seq(C) /\ Len(<<";">>) = 1
  BY <1>1, Single
<1>. QED  BY <1>2

LEMMA Standing ==
    ASSUME NEW C, Marks \subseteq C, NEW text \in Seq(C), NEW s \in Seq(C), NEW k \in Nat,
           Occurs(Ended(s), text, k)
    PROVE  /\ text[k + 1] = "break" /\ k + 1 \in 1..Len(text)
           /\ Stands(s, text, k + 1) /\ k + Len(Ended(s)) + 1 = k + 1 + Len(s) + 2
<1>. DEFINE top == <<"break">>
            end == <<";">>
            h == Glue(top, s)
            e == Ended(s)
<1>1. end \in Seq(C) /\ Len(end) = 1 /\ end[1] = ";"
  BY Semicolon
<1>2. top \in Seq(C) /\ Len(top) = 1 /\ top[1] = "break"
  <2>1. "break" \in C
    BY DEF Marks
  <2>. QED  BY <2>1, Single
<1>3. e = Glue(h, end)
  BY DEF Ended, Glue
<1>. HIDE DEF e, end, top
<1>4. h \in Seq(C) /\ Joins(top, s, h)
  BY <1>2, Appends
<1>. HIDE DEF h
<1>5. Joins(h, end, e)
  BY <1>1, <1>3, <1>4, Appends
<1>6. /\ Len(s) \in Nat /\ Len(h) = 1 + Len(s) /\ h[1] = "break"
      /\ \A j \in 1..Len(s) : h[1 + j] = s[j]
  BY <1>2, <1>4 DEF Joins
<1>7. /\ Len(e) = Len(s) + 2 /\ e[1] = "break" /\ e[Len(s) + 2] = ";"
      /\ \A j \in 1..Len(s) : e[1 + j] = s[j]
  <2>1. Len(e) = Len(h) + 1 /\ (\A j \in 1..Len(h) : e[j] = h[j]) /\ e[Len(h) + 1] = ";"
    <3>1. Len(end) = 1
      BY <1>1
    <3>2. 1 \in 1..Len(end)
      BY <3>1
    <3>. QED  BY <1>1, <1>5, <3>1, <3>2 DEF Joins
  <2>2. Len(h) + 1 = Len(s) + 2 /\ 1 \in 1..Len(h) /\ \A j \in 1..Len(s) : 1 + j \in 1..Len(h)
    BY <1>6
  <2>. QED  BY <1>6, <2>1, <2>2
<1>8. k + Len(e) <= Len(text) /\ \A j \in 1..Len(e) : text[k + j] = e[j]
  BY DEF Occurs, e
<1>9. Len(text) \in Nat
  OBVIOUS
<1>10. /\ 1 \in 1..Len(e) /\ Len(s) + 2 \in 1..Len(e)
       /\ k + (Len(s) + 2) = k + 1 + Len(s) + 1 /\ k + 1 + Len(s) + 1 <= Len(text)
       /\ k + 1 \in 1..Len(text) /\ k + Len(e) + 1 = k + 1 + Len(s) + 2
  <2>1. Len(s) \in Nat /\ Len(e) = Len(s) + 2 /\ k + Len(e) <= Len(text)
    BY <1>6, <1>7, <1>8
  <2>. QED  BY <1>9, <2>1
<1>11. text[k + 1] = "break" /\ text[k + 1 + Len(s) + 1] = ";"
  BY <1>7, <1>8, <1>10
<1>12. ASSUME NEW j \in 1..Len(s)
       PROVE  text[k + 1 + j] = s[j]
  <2>1. 1 + j \in 1..Len(e) /\ k + (1 + j) = k + 1 + j
    <3>1. Len(s) \in Nat /\ Len(e) = Len(s) + 2
      BY <1>6, <1>7
    <3>. QED  BY <3>1
  <2>. QED  BY <1>7, <1>8, <2>1
<1>. QED  BY <1>10, <1>11, <1>12 DEF Stands, e

(* What the splitter makes of a text from a statement on: the statement, and  *)
(* then what it makes of the text after its semicolon.                       *)
LEMMA OneInsert ==
    ASSUME NEW C, Marks \subseteq C, NEW text \in Seq(C), NEW v \in Seq(C), NEW k \in Nat,
           Stands(InsertOf(v), text, k)
    PROVE  Chunks(text)[k + 1].outside =
               [cur |-> InsertOf(v), out |-> Body(Chunks(text)[k + Len(InsertOf(v)) + 2].outside)]
<1>. DEFINE F == Chunks(text)
            E == Escaped(v)
            I == InsertOf(v)
            m == Len(E)
            p == k + 3
            q == p + m
            insert == <<"insert">>
            quote == <<"'">>
            rest == Close(F[q + 2].outside)
<1>1. E \in Seq(C) /\ m \in Nat
  BY Escapes
<1>2. /\ Len(I) = m + 3 /\ I[1] = "insert" /\ I[2] = "'"
      /\ (\A j \in 1..m : I[2 + j] = E[j]) /\ I[m + 3] = "'"
  BY InsertShape
<1>3. /\ k + (m + 3) + 1 <= Len(text) /\ Len(text) \in Nat
      /\ \A j \in 1..m + 3 : text[k + j] = I[j]
      /\ text[k + (m + 3) + 1] = ";"
  <2>1. Len(text) \in Nat
    OBVIOUS
  <2>2. /\ k + Len(I) + 1 <= Len(text)
        /\ \A j \in 1..Len(I) : text[k + j] = I[j]
        /\ text[k + Len(I) + 1] = ";"
    BY DEF Stands
  <2>3. Len(I) = m + 3
    BY <1>2
  <2>. HIDE DEF m, I
  <2>. QED  BY <2>1, <2>2, <2>3
<1>. DEFINE Rules(i) ==
                /\ text[i] = ";" => F[i].outside = Close(F[i + 1].outside)
                /\ text[i] = "'" => F[i].outside = Push(quote, F[i + 1].inside)
                /\ text[i] \notin {";", "'"} => F[i].outside = Push(<<text[i]>>, F[i + 1].outside)
                /\ text[i] = "'" /\ ~Doubled(text, i) => F[i].inside = Push(quote, F[i + 1].outside)
<1>4. \A i \in 1..Len(text) : Rules(i)
  BY ScanRules
<1>5. \A i \in 1..Len(text) + 1 : F[i].outside \in Chunk(C) /\ F[i].inside \in Chunk(C)
  BY ChunksTyped DEF Scanned
<1>. HIDE DEF F, m, I, E
<1>6. /\ k + 1 \in 1..Len(text) /\ k + 2 \in 1..Len(text)
      /\ p \in 1..Len(text) /\ q \in 1..Len(text) /\ q + 1 \in 1..Len(text)
      /\ p + m <= Len(text) /\ q + 2 \in 1..Len(text) + 1
  <2>0. k + (m + 3) + 1 <= Len(text) /\ Len(text) \in Nat /\ m \in Nat
    BY <1>1, <1>3
  <2>1. k + 1 \in 1..Len(text) /\ k + 2 \in 1..Len(text)
    BY <2>0
  <2>2. p \in 1..Len(text) /\ q \in 1..Len(text) /\ q + 1 \in 1..Len(text)
    BY <2>0
  <2>3. p + m <= Len(text) /\ q + 2 \in 1..Len(text) + 1
    BY <2>0
  <2>. QED  BY <2>1, <2>2, <2>3
<1>7. /\ k + 1 + 1 = k + 2 /\ k + 2 + 1 = p /\ q + 1 + 1 = q + 2
      /\ k + (m + 3) = q /\ k + (m + 3) + 1 = q + 1 /\ k + (m + 3) + 2 = q + 2
  BY <1>1
<1>8. text[k + 1] = "insert" /\ text[k + 2] = "'" /\ text[q] = "'" /\ text[q + 1] = ";"
  <2>1. 1 \in 1..m + 3 /\ 2 \in 1..m + 3 /\ m + 3 \in 1..m + 3
    BY <1>1
  <2>. QED  BY <2>1, <1>2, <1>3, <1>7
<1>9. \A j \in 1..m : text[p - 1 + j] = E[j]
  <2>. TAKE j \in 1..m
  <2>1. 2 + j \in 1..m + 3 /\ k + (2 + j) = p - 1 + j
    BY <1>1
  <2>. QED  BY <2>1, <1>2, <1>3
<1>. HIDE DEF p
<1>10. F[p].inside = Push(E, F[q].inside)
  BY <1>6, <1>9, ScanLiteral DEF F, m, E
<1>. HIDE DEF q
<1>11. F[q + 1].outside = rest
  <2>1. Rules(q + 1)
    BY <1>4, <1>6
  <2>. QED  BY <2>1, <1>7, <1>8
<1>12. F[q].inside = Push(quote, F[q + 1].outside)
  <2>1. Rules(q)
    BY <1>4, <1>6
  <2>2. ~Doubled(text, q)
    BY <1>8 DEF Doubled
  <2>. QED  BY <2>1, <2>2, <1>8
<1>13. F[k + 2].outside = Push(quote, F[p].inside)
  <2>1. Rules(k + 2)
    BY <1>4, <1>6
  <2>. QED  BY <2>1, <1>7, <1>8
<1>14. F[k + 1].outside = Push(insert, F[k + 2].outside)
  <2>1. Rules(k + 1)
    BY <1>4, <1>6
  <2>2. text[k + 1] \notin {";", "'"} /\ <<text[k + 1]>> = insert
    BY <1>8
  <2>. QED  BY <2>1, <2>2, <1>7
<1>. HIDE DEF Rules
<1>15. insert \in Seq(C) /\ quote \in Seq(C) /\ <<"insert", "'">> \in Seq(C)
  <2>1. "insert" \in C /\ "'" \in C
    BY DEF Marks
  <2>. QED  BY <2>1
<1>16. Glue(insert, quote) = <<"insert", "'">>
  BY Pair DEF Glue
<1>17. rest \in Chunk(C)
  BY <1>5, <1>6, ChunkOps
<1>18. rest.cur = <<>> /\ rest.out = Body(F[q + 2].outside)
  BY DEF Close
<1>19. I \in Seq(C) /\ I = Glue(Glue(Glue(insert, quote), E), quote)
  <2>1. I \in Seq(C)
    BY InsertShape DEF I
  <2>2. I = Glue(Glue(<<"insert", "'">>, E), quote)
    BY DEF I, E, InsertOf, Glue
  <2>. QED  BY <2>1, <2>2, <1>16
<1>. HIDE DEF rest, insert, quote
<1>20. Push(insert, Push(quote, Push(E, Push(quote, rest)))) = Push(I, rest)
  <2>1. Glue(insert, quote) \in Seq(C)
    BY <1>15, Appends
  <2>2. Glue(Glue(insert, quote), E) \in Seq(C)
    BY <1>1, <2>1, Appends
  <2>3. Push(quote, rest) \in Chunk(C)
    BY <1>15, <1>17, ChunkOps
  <2>4. Push(E, Push(quote, rest)) \in Chunk(C)
    BY <1>1, <2>3, ChunkOps
  <2>5. Push(insert, Push(quote, Push(E, Push(quote, rest)))) = Push(Glue(insert, quote), Push(E, Push(quote, rest)))
    BY <1>15, <2>4, PushPush
  <2>6. Push(Glue(insert, quote), Push(E, Push(quote, rest))) = Push(Glue(Glue(insert, quote), E), Push(quote, rest))
    BY <1>1, <2>1, <2>3, PushPush
  <2>7. Push(Glue(Glue(insert, quote), E), Push(quote, rest)) = Push(I, rest)
    BY <1>15, <1>17, <1>19, <2>2, PushPush
  <2>. QED  BY <2>5, <2>6, <2>7
<1>21. Push(I, rest) = [cur |-> I, out |-> Body(F[q + 2].outside)]
  <2>1. I \o <<>> = I
    BY <1>19, ConcatEmptySeq
  <2>. QED  BY <2>1, <1>18 DEF Push
<1>22. F[k + 1].outside = [cur |-> I, out |-> Body(F[q + 2].outside)]
  BY <1>10, <1>11, <1>12, <1>13, <1>14, <1>20, <1>21
<1>. QED  BY <1>2, <1>7, <1>22 DEF F, I

-----------------------------------------------------------------------------
(* A script. *)
EndedAll(statements) == [i \in DOMAIN statements |-> Ended(statements[i])]

(* The statements that have no comment line in them. *)
Inserts(C) == {s \in {InsertOf(v) : v \in Seq(C)} : NoCommentLine(s)}
Quotes(statements, C) == statements \in Seq(Inserts(C))

LEMMA InsertsWhole ==
    ASSUME NEW C, Marks \subseteq C, NEW s \in Inserts(C)
    PROVE  s \in Seq(C) /\ s # <<>> /\ Whole(s)
<1>1. PICK v \in Seq(C) : s = InsertOf(v)
  BY DEF Inserts
<1>2. NoCommentLine(s)
  BY DEF Inserts
<1>3. Len(Escaped(v)) \in Nat
  BY Escapes
<1>4. s \in Seq(C) /\ s # <<>> /\ s[1] = "insert" /\ s[Len(s)] = "'"
  BY <1>1, InsertShape
<1>5. "insert" \notin WhiteSpace /\ "'" \notin WhiteSpace
  BY DEF WhiteSpace
<1>. QED  BY <1>2, <1>4, <1>5 DEF Whole

(* One statement more is one chunk more. *)
LEMMA NextChunk ==
    ASSUME NEW C, Marks \subseteq C, NEW text \in Seq(C), NEW s \in Inserts(C), NEW k \in Nat,
           Occurs(Ended(s), text, k)
    PROVE  Chunks(text)[k + 1].outside =
               [cur |-> Glue(<<"break">>, s), out |-> Body(Chunks(text)[k + Len(Ended(s)) + 1].outside)]
<1>. DEFINE F == Chunks(text)
            q == k + Len(Ended(s)) + 1
            after == Body(F[q].outside)
            top == <<"break">>
<1>1. s \in Seq(C)
  BY InsertsWhole
<1>2. /\ text[k + 1] = "break" /\ k + 1 \in 1..Len(text)
      /\ Stands(s, text, k + 1) /\ q = k + 1 + Len(s) + 2
  BY <1>1, Standing
<1>3. PICK v \in Seq(C) : s = InsertOf(v)
  BY DEF Inserts
<1>. HIDE DEF q
<1>4. F[k + 1 + 1].outside = [cur |-> s, out |-> after]
  <2>1. k + 1 \in Nat
    OBVIOUS
  <2>2. F[k + 1 + 1].outside = [cur |-> s, out |-> Body(F[k + 1 + Len(s) + 2].outside)]
    BY <1>2, <1>3, <2>1, OneInsert
  <2>. QED  BY <1>2, <2>2
<1>5. F[k + 1].outside = Push(<<text[k + 1]>>, F[k + 1 + 1].outside)
  <2>1. text[k + 1] \notin {";", "'"}
    BY <1>2
  <2>. QED  BY <1>2, <2>1, ScanRules
<1>. HIDE DEF after, F
<1>6. F[k + 1].outside = Push(top, [cur |-> s, out |-> after])
  BY <1>2, <1>4, <1>5
<1>. QED  BY <1>6 DEF Push, Glue, F, after, q

(* _split_statements undoes the joining of the renderer: a script of any     *)
(* number of statements comes apart into those statements, whatever quotes,  *)
(* semicolons and line breaks the quoted values hold, so long as no line of  *)
(* a value is taken for a comment.  By induction from the end.               *)
THEOREM SplitInvertsScripts ==
    ASSUME NEW C, Marks \subseteq C, NEW statements, Quotes(statements, C)
    PROVE  split_statements(Script(statements)) = statements
<1>. DEFINE n == Len(statements)
            W == FlattenSeq(EndedAll(statements))
            T == Script(statements)
            F == Chunks(T)
            seqs == EndedAll(statements)
<1>1. n \in Nat /\ DOMAIN statements = 1..n /\ \A i \in 1..n : statements[i] \in Inserts(C)
  BY DEF Quotes
<1>3. ASSUME NEW i \in 1..n
      PROVE  seqs[i] = Ended(statements[i]) /\ seqs[i] \in Seq(C)
  <2>1. statements[i] \in Seq(C)
    BY <1>1, InsertsWhole
  <2>2. Ended(statements[i]) \in Seq(C)
    <3>1. <<";">> \in Seq(C)
      BY Semicolon
    <3>2. <<"break">> \in Seq(C)
      <4>1. "break" \in C
        BY DEF Marks
      <4>. QED  BY <4>1, Single
    <3>3. Glue(<<"break">>, statements[i]) \in Seq(C)
      BY <2>1, <3>2, Appends
    <3>4. Glue(Glue(<<"break">>, statements[i]), <<";">>) \in Seq(C)
      BY <3>1, <3>3, Appends
    <3>. QED  BY <3>4 DEF Ended, Glue
  <2>. QED  BY <1>1, <2>2 DEF EndedAll
<1>4. seqs \in Seq(Seq(C)) /\ Len(seqs) = n
  <2>1. seqs = [i \in 1..n |-> seqs[i]]
    BY <1>1 DEF EndedAll
  <2>2. \A i \in 1..n : seqs[i] \in Seq(C)
    BY <1>3
  <2>. HIDE DEF seqs, n
  <2>. QED  BY <1>1, <2>1, <2>2
<1>5. W = FlattenSeq(seqs) /\ T = Glue(<<"--">>, W)
  BY DEF Script, EndedAll, Glue
<1>6. PICK f : Assembly(f, seqs, C)
  BY <1>4, Flattened
<1>7. ASSUME NEW i \in 0..n, i < n
      PROVE  Occurs(seqs[i + 1], W, Len(f[i])) /\ Joins(f[i], seqs[i + 1], f[i + 1])
  <2>1. seqs \in Seq(Seq(C)) /\ i \in 0..Len(seqs) /\ i < Len(seqs)
    BY <1>4, <1>7
  <2>. HIDE DEF seqs, n, W
  <2>2. Occurs(seqs[i + 1], FlattenSeq(seqs), Len(f[i])) /\ Joins(f[i], seqs[i + 1], f[i + 1])
    BY <1>6, <2>1, PiecesOccur
  <2>. QED  BY <2>2, <1>5
<1>. HIDE DEF n, W, T, F, seqs
<1>8. f[0] = <<>> /\ f[n] = W /\ f[n] \in Seq(C)
  <2>1. n \in 0..n
    BY <1>1
  <2>. QED  BY <1>4, <1>5, <1>6, <2>1 DEF Assembly
<1>9. /\ T \in Seq(C) /\ Len(W) \in Nat /\ Len(T) = 1 + Len(W) /\ T[1] = "--"
      /\ \A j \in 1..Len(W) : T[1 + j] = W[j]
  <2>. DEFINE d == <<"--">>
  <2>1. d \in Seq(C) /\ Len(d) = 1 /\ d[1] = "--"
    <3>1. "--" \in C
      BY DEF Marks
    <3>. QED  BY <3>1, Single
  <2>. HIDE DEF d
  <2>2. T \in Seq(C) /\ Joins(d, W, T)
    BY <1>5, <1>8, <2>1, Appends DEF d
  <2>3. 1 \in 1..Len(d)
    BY <2>1
  <2>. QED  BY <2>1, <2>2, <2>3 DEF Joins
<1>10. ASSUME NEW i \in 0..n, i < n
       PROVE  /\ Occurs(seqs[i + 1], T, 1 + Len(f[i])) /\ Len(f[i]) \in Nat
              /\ Len(f[i + 1]) = Len(f[i]) + Len(seqs[i + 1])
  <2>. DEFINE k == Len(f[i])
              e == seqs[i + 1]
  <2>1. Occurs(e, W, k) /\ k \in Nat /\ Len(e) \in Nat /\ Len(f[i + 1]) = k + Len(e)
    BY <1>7, <1>10 DEF Joins
  <2>. HIDE DEF k, e
  <2>2. 1 + k + Len(e) <= Len(T)
    BY <1>9, <2>1 DEF Occurs
  <2>3. ASSUME NEW j \in 1..Len(e)
        PROVE  T[1 + k + j] = e[j]
    <3>1. k + j \in 1..Len(W) /\ 1 + (k + j) = 1 + k + j /\ W[k + j] = e[j]
      BY <1>9, <2>1 DEF Occurs
    <3>. QED  BY <1>9, <3>1
  <2>. QED  BY <2>1, <2>2, <2>3 DEF Occurs, k, e
<1>. DEFINE Rest(i) == Body(F[Len(f[i]) + 2].outside)
            P == {i \in 0..n : Rest(i) = SubSeq(statements, i + 1, n)}
<1>11. F[Len(f[n]) + 2].outside = Nothing
  <2>. DEFINE q == Len(T) + 1
  <2>1. F[q] = AtEnd
    BY <1>9, ChunksTyped DEF F
  <2>2. Len(f[n]) + 2 = q
    BY <1>8, <1>9
  <2>. HIDE DEF q
  <2>. QED  BY <2>1, <2>2 DEF AtEnd
<1>12. Rest(n) = SubSeq(statements, n + 1, n)
  <2>1. Body(Nothing) = <<>>
    BY CleanedNothing DEF Body, Nothing
  <2>2. SubSeq(statements, n + 1, n) = <<>>
    BY <1>1, SubSeqEmpty
  <2>. QED  BY <1>11, <2>1, <2>2
<1>13. ASSUME NEW i \in 0..n, i < n
       PROVE  /\ F[Len(f[i]) + 2].outside = [cur |-> Glue(<<"break">>, statements[i + 1]), out |-> Rest(i + 1)]
              /\ statements[i + 1] \in Inserts(C)
  <2>. DEFINE s == statements[i + 1]
              k == 1 + Len(f[i])
              r == Rest(i + 1)
  <2>1. i + 1 \in 1..n
    BY <1>1, <1>13
  <2>2. s \in Inserts(C) /\ seqs[i + 1] = Ended(s)
    BY <1>1, <1>3, <2>1
  <2>0. /\ Occurs(seqs[i + 1], T, 1 + Len(f[i])) /\ Len(f[i]) \in Nat
        /\ Len(f[i + 1]) = Len(f[i]) + Len(seqs[i + 1])
    BY <1>10, <1>13
  <2>3. Occurs(seqs[i + 1], T, k) /\ k \in Nat /\ k + 1 = Len(f[i]) + 2
    <3>1. k \in Nat /\ k + 1 = Len(f[i]) + 2
      BY <2>0
    <3>. QED  BY <2>0, <3>1
  <2>4. k + Len(seqs[i + 1]) + 1 = Len(f[i + 1]) + 2
    <3>1. Len(seqs[i + 1]) \in Nat
      BY <1>3, <2>1
    <3>2. \A a, b \in Nat : 1 + a + b + 1 = a + b + 2
      OBVIOUS
    <3>3. Len(f[i]) \in Nat /\ Len(f[i + 1]) = Len(f[i]) + Len(seqs[i + 1])
      BY <2>0
    <3>. QED  BY <3>1, <3>2, <3>3, Zenon
  <2>5. r = Body(F[Len(f[i + 1]) + 2].outside)
    OBVIOUS
  <2>. HIDE DEF s, k, r
  <2>6. F[k + 1].outside = [cur |-> Glue(<<"break">>, s), out |-> Body(F[k + Len(Ended(s)) + 1].outside)]
    BY <1>9, <2>2, <2>3, NextChunk DEF F
  <2>7. k + Len(Ended(s)) + 1 = Len(f[i + 1]) + 2
    BY <2>2, <2>4
  <2>8. F[Len(f[i]) + 2].outside = [cur |-> Glue(<<"break">>, s), out |-> r]
    BY <2>3, <2>5, <2>6, <2>7
  <2>. QED  BY <2>2, <2>8 DEF s, r
<1>14. ASSUME NEW i \in 0..n, i < n
       PROVE  SubSeq(statements, i + 1, n) = <<statements[i + 1]>> \o SubSeq(statements, (i + 1) + 1, n)
  <2>. DEFINE l == i + 1
  <2>1. n \in l..Len(statements) /\ l \in 1..Len(statements)
    BY <1>1, <1>14 DEF n
  <2>2. statements \in Seq(Inserts(C))
    BY DEF Quotes
  <2>3. SubSeq(statements, l, n) = <<statements[l]>> \o SubSeq(statements, l + 1, n)
    BY <2>1, <2>2, SubSeqRecursiveFirst
  <2>. QED  BY <2>3
<1>15. ASSUME NEW i \in 0..n, i < n, Rest(i + 1) = SubSeq(statements, (i + 1) + 1, n)
       PROVE  Rest(i) = SubSeq(statements, i + 1, n)
  <2>. DEFINE s == statements[i + 1]
              r == Rest(i + 1)
              c == F[Len(f[i]) + 2].outside
  <2>1. c = [cur |-> Glue(<<"break">>, s), out |-> r] /\ s \in Inserts(C)
    BY <1>13, <1>15
  <2>2. Rest(i) = Body(c)
    OBVIOUS
  <2>3. r = SubSeq(statements, (i + 1) + 1, n)
    BY <1>15
  <2>4. SubSeq(statements, i + 1, n) = <<s>> \o SubSeq(statements, (i + 1) + 1, n)
    BY <1>14, <1>15
  <2>. HIDE DEF s, r, c, Rest
  <2>5. s # <<>> /\ Cleaned(Glue(<<"break">>, s)) = s
    BY <2>1, InsertsWhole, CleanedUnderBreak
  <2>6. Body(c) = <<s>> \o r
    <3>1. c.cur = Glue(<<"break">>, s) /\ c.out = r
      BY <2>1
    <3>. QED  BY <2>5, <3>1 DEF Body
  <2>. QED  BY <2>2, <2>3, <2>4, <2>6
<1>. HIDE DEF Rest
<1>16. \A i \in 0..n : i \in P
  <2>1. n \in P
    BY <1>1, <1>12
  <2>2. \A i \in 0..n : i < n /\ i + 1 \in P => i \in P
    BY <1>15
  <2>. HIDE DEF P
  <2>. QED  BY <1>1, <2>1, <2>2, Downwards
<1>17. SubSeq(statements, 1, n) = statements
  BY SubSeqFull DEF n, Quotes
<1>18. F[1].outside = Push(<<"--">>, F[2].outside)
  <2>1. 1 \in 1..Len(T) /\ T[1] \notin {";", "'"} /\ 1 + 1 = 2 /\ <<T[1]>> = <<"--">>
    BY <1>9
  <2>2. F[1].outside = Push(<<T[1]>>, F[1 + 1].outside)
    BY <1>9, <2>1, ScanRules DEF F
  <2>. QED  BY <2>1, <2>2
<1>19. Len(f[0]) + 2 = 2
  BY <1>8
<1>20. Body(F[1].outside) = statements
  <2>1. CASE n = 0
    <3>1. F[2].outside = Nothing
      BY <1>11, <1>19, <2>1
    <3>2. <<"--">> \o <<>> = <<"--">>
      BY ConcatEmptySeq
    <3>3. F[1].outside = [cur |-> <<"--">>, out |-> <<>>]
      BY <1>18, <3>1, <3>2 DEF Push, Nothing
    <3>4. Body(F[1].outside) = <<>>
      BY <3>3, CleanedNothing DEF Body
    <3>5. statements = <<>>
      BY <1>1, <1>17, <2>1, SubSeqEmpty
    <3>. QED  BY <3>4, <3>5
  <2>2. CASE n # 0
    <3>. DEFINE s == statements[0 + 1]
                r == Rest(0 + 1)
                u == Glue(<<"break">>, s)
                w == Glue(<<"--">>, u)
    <3>1. 0 \in 0..n /\ 0 < n /\ 0 + 1 \in 0..n
      BY <1>1, <2>2
    <3>2. F[Len(f[0]) + 2].outside = [cur |-> u, out |-> r] /\ s \in Inserts(C)
      BY <1>13, <3>1 DEF Rest
    <3>3. r = SubSeq(statements, (0 + 1) + 1, n)
      BY <1>16, <3>1
    <3>4. SubSeq(statements, 0 + 1, n) = <<s>> \o r
      BY <1>14, <3>1, <3>3
    <3>. HIDE DEF s, r
    <3>5. s \in Seq(C) /\ s # <<>> /\ Whole(s)
      BY <3>2, InsertsWhole
    <3>6. w = Glue(<<"--", "break">>, s)
      <4>1. <<"--">> \in Seq(C) /\ <<"break">> \in Seq(C)
        <5>1. "--" \in C /\ "break" \in C
          BY DEF Marks
        <5>. QED  BY <5>1
      <4>2. <<"--">> \o (<<"break">> \o s) = (<<"--">> \o <<"break">>) \o s
        BY <3>5, <4>1, ConcatAssociative
      <4>. QED  BY <4>2, Pair DEF Glue
    <3>7. Cleaned(w) = s
      BY <3>5, <3>6, CleanedUnderHeader
    <3>8. F[1].outside = [cur |-> w, out |-> r]
      <4>. HIDE DEF u
      <4>1. F[2].outside = [cur |-> u, out |-> r]
        BY <1>19, <3>2
      <4>. QED  BY <1>18, <4>1 DEF Push, Glue
    <3>9. Body(F[1].outside) = <<s>> \o r
      <4>. DEFINE c == F[1].outside
      <4>. HIDE DEF w
      <4>1. c.cur = w /\ c.out = r
        BY <3>8
      <4>. HIDE DEF c
      <4>2. Body(c) = <<s>> \o r
        BY <3>5, <3>7, <4>1 DEF Body
      <4>. QED  BY <4>2 DEF c
    <3>10. SubSeq(statements, 1, n) = <<s>> \o r
      <4>1. 0 + 1 = 1
        OBVIOUS
      <4>. QED  BY <3>4, <4>1, Zenon
    <3>. HIDE DEF u, w
    <3>. QED  BY <1>17, <3>9, <3>10, Zenon
  <2>. QED  BY <2>1, <2>2
<1>. QED  BY <1>20 DEF split_statements, F, T

=============================================================================
