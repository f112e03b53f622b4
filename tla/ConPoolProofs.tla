---------------------------- MODULE ConPoolProofs ----------------------------
(***************************************************************************)
(* What new_with_strategy takes from the answer of the application is what *)
(* the application put into it: proofs for every list of pairs, every way  *)
(* to spread them over records and every cut of the answer into reads.     *)
(***************************************************************************)
EXTENDS ConPool, TLAPS, WellFoundedInduction, SequenceTheorems, FiniteSetTheorems

-----------------------------------------------------------------------------
(* Induction *)

\* A set of numbers has a smallest one.
LEMMA SmallestOf ==
    ASSUME NEW T, T \subseteq Nat, T # {}
    PROVE  \E x \in T : \A y \in T : x <= y
<1>. DEFINE R == {ss \in Nat \X Nat : ss[1] < ss[2]}
<1>1. IsWellFoundedOn(R, Nat)
  BY NatLessThanWellFounded DEF OpToRel
<1>. HIDE DEF R
<1>2. PICK x \in T : \A y \in T : ~(<<y, x>> \in R)
  BY <1>1, WFMin
<1>3. \A y \in T : x <= y
  <2>. SUFFICES ASSUME NEW y \in T PROVE x <= y
    OBVIOUS
  <2>1. <<y, x>> \notin R /\ x \in Nat /\ y \in Nat
    BY <1>2
  <2>2. ~(y < x)
    BY <2>1 DEF R
  <2>. QED  BY <2>1, <2>2
<1>. QED  BY <1>3

\* Induction, for the set of the numbers that have the property to be shown.
LEMMA Induct ==
    ASSUME NEW S, 0 \in S, \A n \in Nat : n \in S => n + 1 \in S
    PROVE  Nat \subseteq S
<1>. SUFFICES ASSUME {n \in Nat : n \notin S} # {} PROVE FALSE
  OBVIOUS
<1>1. PICK m \in {n \in Nat : n \notin S} : \A k \in {n \in Nat : n \notin S} : m <= k
  BY SmallestOf
<1>2. m # 0 /\ m - 1 \in Nat /\ (m - 1) + 1 = m
  BY <1>1
<1>. QED  BY <1>1, <1>2

-----------------------------------------------------------------------------
(* Sequences *)

\* Concatenation, as an operator the provers need not look into.
Cat(a, b) == a \o b

\* What concatenation yields.
LEMMA CatType ==
    ASSUME NEW S, NEW a \in Seq(S), NEW b \in Seq(S)
    PROVE  Cat(a, b) \in Seq(S) /\ Len(Cat(a, b)) = Len(a) + Len(b)
BY ConcatProperties DEF Cat

\* Its elements.
LEMMA CatElements ==
    ASSUME NEW S, NEW a \in Seq(S), NEW b \in Seq(S)
    PROVE  /\ \A i \in 1 .. Len(a) : Cat(a, b)[i] = a[i]
           /\ \A i \in 1 .. Len(b) : Cat(a, b)[Len(a) + i] = b[i]
BY ConcatProperties DEF Cat

\* It is associative.
LEMMA CatAssoc ==
    ASSUME NEW S, NEW a \in Seq(S), NEW b \in Seq(S), NEW c \in Seq(S)
    PROVE  Cat(Cat(a, b), c) = Cat(a, Cat(b, c))
BY ConcatAssociative DEF Cat

\* The empty sequence is neutral.
LEMMA CatEmpty ==
    ASSUME NEW S, NEW a \in Seq(S) PROVE Cat(a, <<>>) = a /\ Cat(<<>>, a) = a
BY ConcatEmptySeq DEF Cat

\* Append puts one element behind.
LEMMA CatAppend ==
    ASSUME NEW S, NEW a \in Seq(S), NEW b \in Seq(S), NEW e \in S
    PROVE  Cat(a, Append(b, e)) = Append(Cat(a, b), e)
BY DEF Cat

\* A sequence is its head and its tail.
LEMMA CatHead ==
    ASSUME NEW S, NEW s \in Seq(S), s # <<>>
    PROVE  /\ Head(s) \in S /\ Tail(s) \in Seq(S) /\ <<Head(s)>> \in Seq(S)
           /\ s = Cat(<<Head(s)>>, Tail(s))
BY DEF Cat

\* Four sequences behind each other: type and length,
LEMMA CatFourType ==
    ASSUME NEW S, NEW a \in Seq(S), NEW x \in Seq(S), NEW y \in Seq(S), NEW t \in Seq(S)
    PROVE  /\ Cat(Cat(Cat(a, x), y), t) \in Seq(S)
           /\ Len(Cat(Cat(Cat(a, x), y), t)) = Len(a) + Len(x) + Len(y) + Len(t)
BY DEF Cat

\* d has the elements of a, x, y and t.
FourParts(d, a, x, y, t) ==
    /\ \A i \in 1 .. Len(a) : d[i] = a[i]
    /\ \A i \in 1 .. Len(x) : d[Len(a) + i] = x[i]
    /\ \A i \in 1 .. Len(y) : d[Len(a) + Len(x) + i] = y[i]
    /\ \A i \in 1 .. Len(t) : d[Len(a) + Len(x) + Len(y) + i] = t[i]

\* and elements.
LEMMA CatFourElements ==
    ASSUME NEW S, NEW a \in Seq(S), NEW x \in Seq(S), NEW y \in Seq(S), NEW t \in Seq(S),
           NEW d, d = Cat(Cat(Cat(a, x), y), t)
    PROVE  FourParts(d, a, x, y, t)
BY DEF Cat, FourParts

\* Two sequences behind the same one differ if the whole does.
LEMMA CatCancel ==
    ASSUME NEW S, NEW a \in Seq(S), NEW b \in Seq(S), NEW c \in Seq(S), Cat(a, b) = Cat(a, c)
    PROVE  b = c
<1>1. Len(b) = Len(c)
  <2>1. Len(Cat(a, b)) = Len(a) + Len(b) /\ Len(Cat(a, c)) = Len(a) + Len(c)
    BY CatType
  <2>2. Len(a) \in Nat /\ Len(b) \in Nat /\ Len(c) \in Nat
    BY LenProperties
  <2>. QED  BY <2>1, <2>2
<1>2. \A i \in 1 .. Len(b) : b[i] = c[i]
  BY <1>1, CatElements
<1>. QED  BY <1>1, <1>2, SeqEqual

\* What is behind the first n elements.
Beyond(a, n) == SubSeq(a, n + 1, Len(a))

\* A sequence that is not shorter than the front of another begins with it.
LEMMA CatSplit ==
    ASSUME NEW S, NEW a \in Seq(S), NEW b \in Seq(S), NEW c \in Seq(S), NEW d \in Seq(S),
           Cat(a, b) = Cat(c, d), Len(c) <= Len(a)
    PROVE  /\ Beyond(a, Len(c)) \in Seq(S)
           /\ a = Cat(c, Beyond(a, Len(c)))
           /\ d = Cat(Beyond(a, Len(c)), b)
<1>. DEFINE r == Beyond(a, Len(c))
<1>1. /\ r \in Seq(S) /\ Len(r) = Len(a) - Len(c)
      /\ \A i \in 1 .. Len(r) : r[i] = a[Len(c) + i]
  BY DEF Beyond
<1>. HIDE DEF r
<1>2. \A i \in 1 .. Len(c) : a[i] = c[i]
  <2>. SUFFICES ASSUME NEW i \in 1 .. Len(c) PROVE a[i] = c[i]
    OBVIOUS
  <2>1. (a \o b)[i] = a[i] /\ (c \o d)[i] = c[i]
    OBVIOUS
  <2>. QED  BY <2>1 DEF Cat
<1>3. a = c \o r
  <2>1. c \o r \in Seq(S) /\ Len(c \o r) = Len(a)
    BY <1>1
  <2>2. ASSUME NEW i \in 1 .. Len(a) PROVE a[i] = (c \o r)[i]
    <3>. i \in Int /\ Len(c) \in Int
      OBVIOUS
    <3>1. CASE i <= Len(c)
      BY <1>1, <1>2, <3>1
    <3>2. CASE ~(i <= Len(c))
      <4>1. i - Len(c) \in 1 .. Len(r)
        BY <1>1, <3>2
      <4>2. (c \o r)[i] = r[i - Len(c)]
        BY <1>1, <3>2
      <4>3. r[i - Len(c)] = a[Len(c) + (i - Len(c))] /\ Len(c) + (i - Len(c)) = i
        BY <1>1, <4>1
      <4>. QED  BY <4>2, <4>3
    <3>. QED  BY <3>1, <3>2
  <2>. QED  BY <2>1, <2>2, SeqEqual
<1>4. Cat(c, Cat(r, b)) = Cat(c, d)
  <2>1. Cat(Cat(c, r), b) = Cat(c, Cat(r, b))
    BY <1>1, CatAssoc
  <2>. QED  BY <1>3, <2>1 DEF Cat
<1>5. Cat(r, b) = d
  BY <1>1, <1>4, CatType, CatCancel
<1>. QED  BY <1>1, <1>3, <1>5 DEF r, Cat

\* The same without naming the rest.
LEMMA CatFront ==
    ASSUME NEW S, NEW a \in Seq(S), NEW b \in Seq(S), NEW c \in Seq(S), NEW d \in Seq(S),
           Cat(a, b) = Cat(c, d), Len(c) <= Len(a)
    PROVE  \E v \in Seq(S) : a = Cat(c, v) /\ d = Cat(v, b)
BY CatSplit

\* A sequence is its first n elements and the rest.
LEMMA CatCut ==
    ASSUME NEW S, NEW s \in Seq(S), NEW n \in 0 .. Len(s)
    PROVE  /\ SubSeq(s, 1, n) \in Seq(S) /\ Beyond(s, n) \in Seq(S)
           /\ Len(SubSeq(s, 1, n)) = n
           /\ Len(Beyond(s, n)) = Len(s) - n
           /\ Cat(SubSeq(s, 1, n), Beyond(s, n)) = s
<1>. DEFINE a == SubSeq(s, 1, n)
            b == Beyond(s, n)
<1>1. /\ a \in Seq(S) /\ Len(a) = n
      /\ b \in Seq(S) /\ Len(b) = Len(s) - n
  BY DEF Beyond
<1>2. /\ \A i \in 1 .. n : a[i] = s[i]
      /\ \A i \in 1 .. Len(s) - n : b[i] = s[n + i]
  BY DEF Beyond
<1>. HIDE DEF a, b
<1>3. a \o b \in Seq(S) /\ Len(a \o b) = Len(s)
  BY <1>1
<1>4. ASSUME NEW i \in 1 .. Len(s) PROVE (a \o b)[i] = s[i]
  <2>. i \in Int /\ n \in Int
    OBVIOUS
  <2>1. CASE i <= n
    BY <1>1, <1>2, <2>1
  <2>2. CASE ~(i <= n)
    <3>1. (a \o b)[i] = b[i - n]
      BY <1>1, <2>2
    <3>2. b[i - n] = s[n + (i - n)] /\ n + (i - n) = i
      BY <1>2, <2>2
    <3>. QED  BY <3>1, <3>2
  <2>. QED  BY <2>1, <2>2
<1>5. a \o b = s
  BY <1>3, <1>4, SeqEqual
<1>. QED  BY <1>1, <1>5 DEF a, b, Cat

-----------------------------------------------------------------------------
(* The bytes of a BufList *)

\* All bytes of the buffers s, in order.
Flat(s) ==
    LET flat[n \in 0 .. Len(s)] == IF n = 0 THEN <<>> ELSE Cat(flat[n - 1], s[n])
    IN  flat[Len(s)]

\* f has the bytes of the first 0 .. m buffers of s.
IsFlat(f, s, m) == f = [n \in 0 .. m |-> IF n = 0 THEN <<>> ELSE Cat(f[n - 1], s[n])]

\* There is such a function.
LEMMA FlatExists ==
    ASSUME NEW S, NEW s \in Seq(Seq(S))
    PROVE  \A m \in Nat : m <= Len(s) => \E f : IsFlat(f, s, m) /\ f \in [0 .. m -> Seq(S)]
<1>. DEFINE G == {m \in Nat : m <= Len(s) => \E f : IsFlat(f, s, m) /\ f \in [0 .. m -> Seq(S)]}
<1>1. 0 \in G
  <2>. DEFINE f == [n \in 0 .. 0 |-> <<>>]
  <2>1. f = [n \in 0 .. 0 |-> IF n = 0 THEN <<>> ELSE Cat(f[n - 1], s[n])]
    OBVIOUS
  <2>2. f \in [0 .. 0 -> Seq(S)]
    BY EmptySeq
  <2>. HIDE DEF f
  <2>. QED  BY <2>1, <2>2 DEF IsFlat
<1>2. ASSUME NEW m \in Nat, m \in G PROVE m + 1 \in G
  <2>. SUFFICES ASSUME m + 1 <= Len(s)
                PROVE  \E f : IsFlat(f, s, m + 1) /\ f \in [0 .. m + 1 -> Seq(S)]
    OBVIOUS
  <2>1. PICK f : IsFlat(f, s, m) /\ f \in [0 .. m -> Seq(S)]
    BY <1>2
  <2>. DEFINE g == [n \in 0 .. m + 1 |-> IF n = m + 1 THEN Cat(f[m], s[m + 1]) ELSE f[n]]
  <2>2. \A n \in 0 .. m : f[n] = IF n = 0 THEN <<>> ELSE Cat(f[n - 1], s[n])
    BY <2>1 DEF IsFlat
  <2>3. \A n \in 0 .. m + 1 : g[n] = IF n = 0 THEN <<>> ELSE Cat(g[n - 1], s[n])
    BY <2>2
  <2>4. g \in [0 .. m + 1 -> Seq(S)]
    <3>1. f[m] \in Seq(S) /\ s[m + 1] \in Seq(S)
      BY <2>1
    <3>2. Cat(f[m], s[m + 1]) \in Seq(S)
      BY <3>1, CatType
    <3>. QED  BY <2>1, <3>2
  <2>5. IsFlat(g, s, m + 1)
    BY <2>3, <2>4 DEF IsFlat
  <2>. QED  BY <2>4, <2>5
<1>. HIDE DEF G
<1>3. Nat \subseteq G
  BY <1>1, <1>2, Induct
<1>. QED  BY <1>3 DEF G

\* The first m buffers of s and t are the same.
Alike(s, t, m) == \A i \in 1 .. m : s[i] = t[i]

\* It depends on the buffers up to m only.
LEMMA FlatUnique ==
    ASSUME NEW s, NEW t, NEW m \in Nat, NEW k \in Nat, m <= k, NEW f, NEW g,
           IsFlat(f, s, m), IsFlat(g, t, k), Alike(s, t, m)
    PROVE  f[m] = g[m]
<1>. DEFINE G == {n \in Nat : n <= m => f[n] = g[n]}
<1>1. 0 \in G
  BY DEF IsFlat
<1>2. ASSUME NEW n \in Nat, n \in G PROVE n + 1 \in G
  <2>. SUFFICES ASSUME n + 1 <= m PROVE f[n + 1] = g[n + 1]
    OBVIOUS
  <2>1. f[n + 1] = Cat(f[n], s[n + 1])
    BY DEF IsFlat
  <2>2. g[n + 1] = Cat(g[n], t[n + 1])
    BY DEF IsFlat
  <2>3. s[n + 1] = t[n + 1]
    BY DEF Alike
  <2>. QED  BY <1>2, <2>1, <2>2, <2>3
<1>. HIDE DEF G
<1>3. Nat \subseteq G
  BY <1>1, <1>2, Induct
<1>. QED  BY <1>3 DEF G

\* So Flat is the last value of such a function.
LEMMA FlatIs ==
    ASSUME NEW S, NEW s \in Seq(Seq(S))
    PROVE  \E f : /\ IsFlat(f, s, Len(s)) /\ f \in [0 .. Len(s) -> Seq(S)]
                  /\ Flat(s) = f[Len(s)]
<1>. DEFINE h == CHOOSE f : f = [n \in 0 .. Len(s) |-> IF n = 0 THEN <<>> ELSE Cat(f[n - 1], s[n])]
<1>1. Flat(s) = h[Len(s)]
  BY DEF Flat
<1>2. PICK f : IsFlat(f, s, Len(s)) /\ f \in [0 .. Len(s) -> Seq(S)]
  BY FlatExists
<1>3. IsFlat(h, s, Len(s))
  BY <1>2 DEF IsFlat
<1>. HIDE DEF h
<1>4. f[Len(s)] = h[Len(s)]
  <2>1. Len(s) \in Nat /\ Len(s) <= Len(s) /\ Alike(s, s, Len(s))
    BY LenProperties DEF Alike
  <2>. QED  BY <1>2, <1>3, <2>1, FlatUnique
<1>. QED  BY <1>1, <1>2, <1>4

\* Its bytes are those of the buffers.
LEMMA FlatType == ASSUME NEW S, NEW s \in Seq(Seq(S)) PROVE Flat(s) \in Seq(S)
<1>1. PICK f : f \in [0 .. Len(s) -> Seq(S)] /\ Flat(s) = f[Len(s)]
  BY FlatIs
<1>2. Len(s) \in 0 .. Len(s)
  BY LenProperties
<1>. QED  BY <1>1, <1>2

\* No buffers, no bytes.
LEMMA FlatEmpty == Flat(<<>>) = <<>>
<1>1. <<>> \in Seq(Seq({})) /\ Len(<<>>) = 0
  BY EmptySeq
<1>2. PICK f : IsFlat(f, <<>>, 0) /\ Flat(<<>>) = f[0]
  BY <1>1, FlatIs
<1>. QED  BY <1>2 DEF IsFlat

\* One more buffer is put behind.
LEMMA FlatAppend ==
    ASSUME NEW S, NEW s \in Seq(Seq(S)), NEW b \in Seq(S)
    PROVE  Flat(Append(s, b)) = Cat(Flat(s), b)
<1>. DEFINE t == Append(s, b)
<1>1. t \in Seq(Seq(S)) /\ Len(t) = Len(s) + 1 /\ t[Len(s) + 1] = b /\ Alike(s, t, Len(s))
  BY AppendProperties DEF Alike
<1>. HIDE DEF t
<1>2. PICK f : IsFlat(f, s, Len(s)) /\ Flat(s) = f[Len(s)]
  BY FlatIs
<1>3. PICK g : IsFlat(g, t, Len(t)) /\ Flat(t) = g[Len(t)]
  BY <1>1, FlatIs
<1>l. Len(s) \in Nat /\ Len(s) + 1 \in Nat /\ Len(s) <= Len(s) + 1
  BY LenProperties
<1>4. f[Len(s)] = g[Len(s)]
  BY <1>1, <1>2, <1>3, <1>l, FlatUnique
<1>5. g[Len(s) + 1] = Cat(g[Len(s)], b)
  <2>1. g = [n \in 0 .. Len(s) + 1 |-> IF n = 0 THEN <<>> ELSE Cat(g[n - 1], t[n])]
    BY <1>1, <1>3 DEF IsFlat
  <2>2. Len(s) + 1 \in 0 .. Len(s) + 1 /\ Len(s) + 1 # 0 /\ (Len(s) + 1) - 1 = Len(s)
    BY <1>l
  <2>3. g[Len(s) + 1] = Cat(g[(Len(s) + 1) - 1], t[Len(s) + 1])
    BY <2>1, <2>2
  <2>. QED  BY <1>1, <2>2, <2>3
<1>. QED  BY <1>1, <1>2, <1>3, <1>4, <1>5 DEF t

\* More buffers are put behind.
LEMMA FlatConcat ==
    ASSUME NEW S, NEW s \in Seq(Seq(S)), NEW t \in Seq(Seq(S))
    PROVE  Flat(Cat(s, t)) = Cat(Flat(s), Flat(t))
<1>. DEFINE G == {n \in Nat : \A u \in Seq(Seq(S)) :
                                  Len(u) = n => Flat(Cat(s, u)) = Cat(Flat(s), Flat(u))}
<1>1. 0 \in G
  <2>. SUFFICES ASSUME NEW u \in Seq(Seq(S)), Len(u) = 0 PROVE Flat(Cat(s, u)) = Cat(Flat(s), Flat(u))
    OBVIOUS
  <2>1. u = <<>>
    BY EmptySeq
  <2>2. Cat(s, u) = s /\ Cat(Flat(s), <<>>) = Flat(s)
    BY <2>1, CatEmpty, FlatType
  <2>. QED  BY <2>1, <2>2, FlatEmpty
<1>2. ASSUME NEW n \in Nat, n \in G PROVE n + 1 \in G
  <2>. SUFFICES ASSUME NEW u \in Seq(Seq(S)), Len(u) = n + 1
                PROVE  Flat(Cat(s, u)) = Cat(Flat(s), Flat(u))
    OBVIOUS
  <2>1. PICK v \in Seq(Seq(S)), b \in Seq(S) : u = Append(v, b)
    <3>1. u # <<>>
      BY EmptySeq
    <3>. QED  BY <3>1, SequenceEmptyOrAppend
  <2>2. Len(v) = n
    BY <2>1, AppendProperties
  <2>3. Flat(Cat(s, v)) = Cat(Flat(s), Flat(v))
    BY <1>2, <2>2
  <2>4. Cat(s, v) \in Seq(Seq(S)) /\ Cat(s, u) = Append(Cat(s, v), b)
    BY <2>1, CatType, CatAppend
  <2>5. Flat(Cat(s, u)) = Cat(Cat(Flat(s), Flat(v)), b)
    BY <2>3, <2>4, FlatAppend
  <2>6. Flat(u) = Cat(Flat(v), b)
    BY <2>1, FlatAppend
  <2>7. Flat(s) \in Seq(S) /\ Flat(v) \in Seq(S)
    BY FlatType
  <2>8. Cat(Cat(Flat(s), Flat(v)), b) = Cat(Flat(s), Cat(Flat(v), b))
    BY <2>7, CatAssoc
  <2>. QED  BY <2>5, <2>6, <2>8
<1>. HIDE DEF G
<1>3. Nat \subseteq G
  BY <1>1, <1>2, Induct
<1>4. Len(t) \in Nat
  BY LenProperties
<1>. QED  BY <1>3, <1>4 DEF G

\* One buffer.
LEMMA FlatOne == ASSUME NEW S, NEW b \in Seq(S) PROVE <<b>> \in Seq(Seq(S)) /\ Flat(<<b>>) = b
<1>1. <<b>> = Append(<<>>, b) /\ <<>> \in Seq(Seq(S)) /\ <<b>> \in Seq(Seq(S))
  OBVIOUS
<1>2. Flat(<<b>>) = Cat(<<>>, b)
  BY <1>1, FlatAppend, FlatEmpty
<1>. QED  BY <1>1, <1>2, CatEmpty

\* The first buffer, and the others behind it.
LEMMA FlatHead ==
    ASSUME NEW S, NEW s \in Seq(Seq(S)), s # <<>>
    PROVE  Flat(s) = Cat(Head(s), Flat(Tail(s)))
<1>1. Head(s) \in Seq(S) /\ Tail(s) \in Seq(Seq(S)) /\ s = Cat(<<Head(s)>>, Tail(s))
  BY CatHead
<1>2. <<Head(s)>> \in Seq(Seq(S)) /\ Flat(<<Head(s)>>) = Head(s)
  BY <1>1, FlatOne
<1>3. Flat(Cat(<<Head(s)>>, Tail(s))) = Cat(Flat(<<Head(s)>>), Flat(Tail(s)))
  BY <1>1, <1>2, FlatConcat
<1>. QED  BY <1>1, <1>2, <1>3

\* BufList::remaining is the number of these bytes.
LEMMA LenFlat ==
    ASSUME NEW S, NEW s \in Seq(Seq(S)) PROVE Remaining(s) = Len(Flat(s))
<1>. DEFINE Def(g) == [n \in 0 .. Len(s) |-> IF n = 0 THEN 0 ELSE g[n - 1] + Len(s[n])]
<1>. DEFINE h == CHOOSE g : g = Def(g)
<1>1. Remaining(s) = h[Len(s)]
  BY DEF Remaining
<1>2. PICK f : /\ IsFlat(f, s, Len(s)) /\ f \in [0 .. Len(s) -> Seq(S)]
               /\ Flat(s) = f[Len(s)]
  BY FlatIs
<1>. DEFINE c == [n \in 0 .. Len(s) |-> Len(f[n])]
<1>3. c = Def(c)
  <2>. SUFFICES ASSUME NEW n \in 0 .. Len(s)
                PROVE  c[n] = IF n = 0 THEN 0 ELSE c[n - 1] + Len(s[n])
    OBVIOUS
  <2>1. CASE n = 0
    <3>1. f[0] = <<>>
      BY <1>2 DEF IsFlat
    <3>. QED  BY <2>1, <3>1
  <2>2. CASE n # 0
    <3>1. n - 1 \in 0 .. Len(s) /\ n \in 1 .. Len(s)
      BY <2>2, LenProperties
    <3>2. s[n] \in Seq(S) /\ f[n - 1] \in Seq(S)
      BY <1>2, <3>1, ElementOfSeq
    <3>3. f[n] = Cat(f[n - 1], s[n])
      BY <1>2, <2>2 DEF IsFlat
    <3>4. Len(f[n]) = Len(f[n - 1]) + Len(s[n])
      BY <3>2, <3>3, CatType
    <3>. QED  BY <2>2, <3>1, <3>4
  <2>. QED  BY <2>1, <2>2
<1>. HIDE DEF c
<1>4. h = Def(h)
  BY <1>3
<1>. HIDE DEF h
<1>. DEFINE G == {n \in Nat : n <= Len(s) => c[n] = h[n]}
<1>5. 0 \in G
  BY <1>3, <1>4
<1>6. ASSUME NEW n \in Nat, n \in G PROVE n + 1 \in G
  <2>. SUFFICES ASSUME n + 1 <= Len(s) PROVE c[n + 1] = h[n + 1]
    OBVIOUS
  <2>1. c[n + 1] = c[n] + Len(s[n + 1])
    BY <1>3
  <2>2. h[n + 1] = h[n] + Len(s[n + 1])
    BY <1>4
  <2>. QED  BY <1>6, <2>1, <2>2
<1>. HIDE DEF G
<1>7. Nat \subseteq G
  BY <1>5, <1>6, Induct
<1>8. c[Len(s)] = h[Len(s)]
  BY <1>7, LenProperties DEF G
<1>. QED  BY <1>1, <1>2, <1>8, LenProperties DEF c

-----------------------------------------------------------------------------
(* Pairs *)

\* Half of the bytes are short lengths.
LEMMA HalfType == HALF \in Nat \ {0} /\ BYTE = 2 * HALF /\ BYTE \in Nat \ {0}
BY ByteAssumption DEF HALF

\* The bytes of a pair, lengths first.
Encode(p) == Cat(Cat(Cat(LengthBytes(Len(p.name)), LengthBytes(Len(p.value))), p.name), p.value)

\* Those of the pairs q.
Encodes(q)  == [k \in 1 .. Len(q) |-> Encode(q[k])]
Encoding(q) == Flat(Encodes(q))

\* A length is one byte below HALF, or four bytes of which the first is not below it.
LEMMA LengthBytesType ==
    ASSUME NEW n \in Nat
    PROVE  /\ LengthBytes(n) \in Bytes /\ Len(LengthBytes(n)) = IF n < HALF THEN 1 ELSE 4
           /\ n < HALF => LengthBytes(n) = <<n>>
           /\ n >= HALF => LengthBytes(n)[1] >= HALF
<1>1. CASE n < HALF
  BY <1>1, HalfType DEF LengthBytes, Bytes
<1>2. CASE n >= HALF
  <2>. DEFINE a == n \div BYTE
              b == a \div BYTE
              c == b \div BYTE
  <2>1. a \in Nat
    BY HalfType
  <2>. HIDE DEF a
  <2>2. b \in Nat
    BY <2>1, HalfType
  <2>. HIDE DEF b
  <2>3. c \in Nat
    BY <2>2, HalfType
  <2>. HIDE DEF c
  <2>4. c % HALF \in 0 .. HALF - 1
    BY <2>3, HalfType
  <2>5. b % BYTE \in 0 .. BYTE - 1 /\ a % BYTE \in 0 .. BYTE - 1 /\ n % BYTE \in 0 .. BYTE - 1
    BY <2>1, <2>2, HalfType
  <2>6. LengthBytes(n) = <<HALF + (c % HALF), b % BYTE, a % BYTE, n % BYTE>>
    BY <1>2, HalfType DEF LengthBytes, a, b, c
  <2>7. HALF + (c % HALF) \in 0 .. BYTE - 1 /\ HALF + (c % HALF) >= HALF
    BY <2>4, HalfType
  <2>. QED  BY <1>2, <2>5, <2>6, <2>7, HalfType DEF Bytes
<1>. QED  BY <1>1, <1>2, HalfType

\* Lengths of one byte or four, as NameValuePair::len counts them.
LEMMA LengthSum ==
    ASSUME NEW n \in Nat, NEW v \in Nat
    PROVE  (n + v + 2) + (IF n >= HALF THEN 3 ELSE 0) + (IF v >= HALF THEN 3 ELSE 0)
           = (IF n < HALF THEN 1 ELSE 4) + (IF v < HALF THEN 1 ELSE 4) + n + v
BY HalfType

\* What NVBody counts for a pair is the length of its bytes.
LEMMA EncodeType ==
    ASSUME NEW p \in Pair
    PROVE  Encode(p) \in Bytes /\ Len(Encode(p)) = PairLen(p) /\ PairLen(p) \in Nat /\ PairLen(p) >= 2
<1>. DEFINE B == 0 .. BYTE - 1
<1>1. PICK x \in Seq(B), y \in Seq(B) : x = p.name /\ y = p.value
  BY DEF Pair, Bytes
<1>n. PICK n \in Nat, v \in Nat : n = Len(x) /\ v = Len(y)
  BY LenProperties
<1>2. PICK a \in Seq(B) : a = LengthBytes(n) /\ Len(a) = IF n < HALF THEN 1 ELSE 4
  BY LengthBytesType DEF Bytes
<1>3. PICK b \in Seq(B) : b = LengthBytes(v) /\ Len(b) = IF v < HALF THEN 1 ELSE 4
  BY LengthBytesType DEF Bytes
<1>4. Encode(p) = Cat(Cat(Cat(a, b), x), y)
  BY <1>1, <1>n, <1>2, <1>3 DEF Encode
<1>. HIDE DEF B
<1>5. Encode(p) \in Seq(B) /\ Len(Encode(p)) = Len(a) + Len(b) + Len(x) + Len(y)
  BY <1>4, CatFourType
<1>6. PairLen(p) = (n + v + 2) + (IF n >= HALF THEN 3 ELSE 0) + (IF v >= HALF THEN 3 ELSE 0)
  BY <1>1, <1>n DEF PairLen
<1>7. PairLen(p) = Len(a) + Len(b) + n + v
  BY <1>2, <1>3, <1>6, LengthSum
<1>8. Len(a) \in Nat /\ Len(b) \in Nat /\ Len(a) >= 1 /\ Len(b) >= 1
  BY <1>2, <1>3
<1>9. PairLen(p) \in Nat /\ PairLen(p) >= 2
  BY <1>7, <1>8
<1>. QED  BY <1>5, <1>n, <1>7, <1>9 DEF B, Bytes

\* NVBody::add puts the bytes of the pair behind those it has.
LEMMA AddEncodes ==
    ASSUME NEW body \in [pairs : Seq(Bytes), len : Nat], NEW p \in Pair
    PROVE  /\ Add(body, p).pairs \in Seq(Bytes)
           /\ Flat(Add(body, p).pairs) = Cat(Flat(body.pairs), Encode(p))
           /\ Add(body, p).len = body.len + PairLen(p)
           /\ Add(body, p) \in [pairs : Seq(Bytes), len : Nat]
<1>. DEFINE l == Cat(LengthBytes(Len(p.name)), LengthBytes(Len(p.value)))
            two == <<l, p.name>>
            end == IF p.value = <<>> THEN <<>> ELSE <<p.value>>
            B == 0 .. BYTE - 1
<1>1. p.name \in Seq(B) /\ p.value \in Seq(B) /\ Len(p.name) \in Nat /\ Len(p.value) \in Nat
  BY LenProperties DEF Pair, Bytes
<1>2. l \in Seq(B)
  BY <1>1, LengthBytesType, CatType DEF Bytes
<1>3. body.pairs \in Seq(Seq(B)) /\ body.len \in Nat
  BY DEF Bytes
<1>4. Encode(p) = Cat(Cat(l, p.name), p.value)
  BY DEF Encode
<1>5. Add(body, p) = [pairs |-> Cat(Cat(body.pairs, two), end), len |-> body.len + PairLen(p)]
  BY DEF Add, Cat
<1>. HIDE DEF l, B
<1>6. two \in Seq(Seq(B)) /\ two = Append(<<l>>, p.name)
  BY <1>1, <1>2
<1>. HIDE DEF two
<1>7. Flat(two) = Cat(l, p.name)
  <2>1. <<l>> \in Seq(Seq(B)) /\ Flat(<<l>>) = l
    BY <1>2, FlatOne
  <2>. QED  BY <1>1, <1>6, <2>1, FlatAppend
<1>8. end \in Seq(Seq(B)) /\ Flat(end) = p.value
  BY <1>1, FlatOne, FlatEmpty, EmptySeq
<1>. HIDE DEF end
<1>9. Cat(body.pairs, two) \in Seq(Seq(B)) /\ Flat(Cat(body.pairs, two)) = Cat(Flat(body.pairs), Flat(two))
  BY <1>3, <1>6, CatType, FlatConcat
<1>10. /\ Cat(Cat(body.pairs, two), end) \in Seq(Seq(B))
       /\ Flat(Cat(Cat(body.pairs, two), end)) = Cat(Flat(Cat(body.pairs, two)), Flat(end))
  BY <1>8, <1>9, CatType, FlatConcat
<1>11. Flat(body.pairs) \in Seq(B) /\ Cat(l, p.name) \in Seq(B)
  BY <1>1, <1>2, <1>3, FlatType, CatType
<1>12. Cat(Cat(Flat(body.pairs), Cat(l, p.name)), p.value) = Cat(Flat(body.pairs), Cat(Cat(l, p.name), p.value))
  BY <1>1, <1>11, CatAssoc
<1>13. PairLen(p) \in Nat
  BY EncodeType
<1>. QED  BY <1>3, <1>4, <1>5, <1>7, <1>8, <1>9, <1>10, <1>12, <1>13 DEF B, Bytes

\* Where two lengths a, a name x and a value y are in a sequence d that begins with them.
TwoParts(d, a, x, y, e) ==
    /\ Len(d) = 2 + Len(x) + Len(y) + Len(e)
    /\ d[1] = a[1] /\ d[2] = a[2]
    /\ \A i \in 1 .. Len(x) : d[2 + i] = x[i]
    /\ \A i \in 1 .. Len(y) : d[2 + Len(x) + i] = y[i]
    /\ \A i \in 1 .. Len(e) : d[2 + Len(x) + Len(y) + i] = e[i]

\* They are there.
LEMMA ShortElements ==
    ASSUME NEW B, NEW a \in Seq(B), NEW x \in Seq(B), NEW y \in Seq(B), NEW e \in Seq(B),
           Len(a) = 2
    PROVE  /\ Cat(Cat(Cat(a, x), y), e) \in Seq(B)
           /\ TwoParts(Cat(Cat(Cat(a, x), y), e), a, x, y, e)
<1>. DEFINE d == Cat(Cat(Cat(a, x), y), e)
<1>1. d \in Seq(B)
  BY CatFourType
<1>2. Len(d) = 2 + Len(x) + Len(y) + Len(e)
  <2>1. Cat(a, x) \in Seq(B) /\ Len(Cat(a, x)) = 2 + Len(x)
    BY CatType
  <2>2. Cat(Cat(a, x), y) \in Seq(B) /\ Len(Cat(Cat(a, x), y)) = 2 + Len(x) + Len(y)
    BY <2>1, CatType
  <2>. QED  BY <2>2, CatType
<1>3. d \in Seq(B) /\ Len(d) = 2 + Len(x) + Len(y) + Len(e)
  BY <1>1, <1>2
<1>4. FourParts(d, a, x, y, e)
  BY CatFourElements
<1>. HIDE DEF d
<1>5. TwoParts(d, a, x, y, e)
  BY <1>3, <1>4 DEF FourParts, TwoParts
<1>. QED  BY <1>3, <1>5 DEF d

\* Two bytes in sequence.
LEMMA TwoBytes ==
    ASSUME NEW S, NEW n \in S, NEW v \in S
    PROVE  /\ Cat(<<n>>, <<v>>) \in Seq(S) /\ Len(Cat(<<n>>, <<v>>)) = 2
           /\ Cat(<<n>>, <<v>>)[1] = n /\ Cat(<<n>>, <<v>>)[2] = v
BY DEF Cat

\* The bytes of a pair with short lengths, whatever follows it.
LEMMA EncodeElements ==
    ASSUME NEW p \in Pair, NEW t \in Bytes, Len(p.name) < HALF, Len(p.value) < HALF
    PROVE  /\ Cat(Encode(p), t) \in Bytes
           /\ \E a : /\ a[1] = Len(p.name) /\ a[2] = Len(p.value)
                     /\ TwoParts(Cat(Encode(p), t), a, p.name, p.value, t)
<1>. DEFINE B == 0 .. BYTE - 1
<1>1. p.name \in Seq(B) /\ p.value \in Seq(B) /\ t \in Seq(B)
  BY DEF Pair, Bytes
<1>2. PICK n \in Nat, v \in Nat : n = Len(p.name) /\ v = Len(p.value)
  BY <1>1, LenProperties
<1>3. n \in B /\ v \in B /\ n < HALF /\ v < HALF
  BY <1>2, HalfType
<1>. HIDE DEF B
<1>4. LengthBytes(n) = <<n>> /\ LengthBytes(v) = <<v>>
  BY <1>3, LengthBytesType
<1>. DEFINE a == Cat(<<n>>, <<v>>)
<1>5. a \in Seq(B) /\ Len(a) = 2 /\ a[1] = n /\ a[2] = v
  BY <1>3, TwoBytes
<1>6. Encode(p) = Cat(Cat(a, p.name), p.value)
  BY <1>2, <1>4 DEF Encode
<1>. HIDE DEF a
<1>7. /\ Cat(Cat(Cat(a, p.name), p.value), t) \in Seq(B)
      /\ TwoParts(Cat(Cat(Cat(a, p.name), p.value), t), a, p.name, p.value, t)
  BY <1>1, <1>5, ShortElements
<1>. QED  BY <1>2, <1>5, <1>6, <1>7 DEF B, Bytes

\* The first lengths in what begins with a pair are short only if those of the pair are.
LEMMA LongByte ==
    ASSUME NEW p \in Pair, NEW t \in Bytes,
           ShortLength(Cat(Encode(p), t), 1), ShortLength(Cat(Encode(p), t), 2)
    PROVE  Len(p.name) < HALF /\ Len(p.value) < HALF
<1>. DEFINE B == 0 .. BYTE - 1
            d == Cat(Encode(p), t)
<1>1. PICK x \in Seq(B), y \in Seq(B), e \in Seq(B) : x = p.name /\ y = p.value /\ e = t
  BY DEF Pair, Bytes
<1>2. PICK n \in Nat, v \in Nat : n = Len(x) /\ v = Len(y)
  BY LenProperties
<1>3. PICK a \in Seq(B), b \in Seq(B) : a = LengthBytes(n) /\ b = LengthBytes(v)
  BY LengthBytesType DEF Bytes
<1>4. d = Cat(Cat(Cat(Cat(a, b), x), y), e)
  BY <1>1, <1>2, <1>3 DEF Encode
<1>5. d[1] < HALF /\ d[2] < HALF
  BY DEF ShortLength
<1>. HIDE DEF B, d
<1>6. Cat(a, b) \in Seq(B)
  BY CatType
<1>7. \A i \in 1 .. Len(Cat(a, b)) : d[i] = Cat(a, b)[i]
  <2>. DEFINE c == Cat(a, b)
  <2>1. c \in Seq(B) /\ d = Cat(Cat(Cat(c, x), y), e)
    BY <1>4, <1>6
  <2>. HIDE DEF c
  <2>2. FourParts(d, c, x, y, e)
    BY <2>1, CatFourElements
  <2>. QED  BY <2>2 DEF FourParts, c
<1>8. Len(Cat(a, b)) = Len(a) + Len(b) /\ Len(a) \in Nat /\ Len(b) \in Nat
  BY CatType, LenProperties
<1>9. Len(a) >= 1 /\ Len(b) >= 1
  <2>1. Len(LengthBytes(n)) = IF n < HALF THEN 1 ELSE 4
    BY LengthBytesType
  <2>2. Len(LengthBytes(v)) = IF v < HALF THEN 1 ELSE 4
    BY LengthBytesType
  <2>. QED  BY <1>3, <2>1, <2>2
<1>10. d[1] = a[1]
  <2>1. Cat(a, b)[1] = a[1]
    BY <1>8, <1>9, CatElements
  <2>. QED  BY <1>7, <1>8, <1>9, <2>1
<1>11. n < HALF
  <2>. SUFFICES ASSUME n >= HALF PROVE FALSE
    BY HalfType
  <2>1. a[1] >= HALF /\ a[1] \in Int
    <3>1. a[1] \in B
      BY <1>8, <1>9, ElementOfSeq
    <3>. QED  BY <1>3, <3>1, LengthBytesType DEF B
  <2>. QED  BY <1>5, <1>10, <2>1, HalfType
<1>12. Len(a) = 1
  BY <1>3, <1>11, LengthBytesType
<1>13. d[2] = b[1]
  <2>1. Cat(a, b)[Len(a) + 1] = b[1]
    BY <1>8, <1>9, CatElements
  <2>. QED  BY <1>7, <1>8, <1>9, <1>12, <2>1
<1>14. v < HALF
  <2>. SUFFICES ASSUME v >= HALF PROVE FALSE
    BY HalfType
  <2>1. b[1] >= HALF /\ b[1] \in Int
    <3>1. b[1] \in B
      BY <1>8, <1>9, ElementOfSeq
    <3>. QED  BY <1>3, <3>1, LengthBytesType DEF B
  <2>. QED  BY <1>5, <1>13, <2>1, HalfType
<1>. QED  BY <1>1, <1>2, <1>11, <1>14

\* A part of a sequence is the sequence with the same elements.
LEMMA SubSeqIs ==
    ASSUME NEW S, NEW d \in Seq(S), NEW x \in Seq(S), NEW k \in Nat, k + Len(x) <= Len(d),
           \A i \in 1 .. Len(x) : d[k + i] = x[i]
    PROVE  SubSeq(d, k + 1, k + Len(x)) = x
<1>1. Len(x) \in Nat /\ Len(d) \in Nat
  BY LenProperties
<1>2. \A i \in k + 1 .. k + Len(x) : d[i] \in S
  BY <1>1, ElementOfSeq
<1>. DEFINE s == SubSeq(d, k + 1, k + Len(x))
<1>3. s \in Seq(S) /\ Len(s) = Len(x)
  BY <1>1, <1>2
<1>4. \A i \in 1 .. Len(x) : s[i] = d[k + i]
  BY <1>1
<1>. HIDE DEF s
<1>5. s = x
  BY <1>3, <1>4, SeqEqual
<1>. QED  BY <1>5 DEF s

\* NameValuePair::parse undoes NVBody::add, and panics only at a length that takes
\* four bytes.
LEMMA Decodes ==
    ASSUME NEW p \in Pair, NEW t \in Bytes
    PROVE  /\ Parsable(Cat(Encode(p), t)) <=> Len(p.name) < HALF /\ Len(p.value) < HALF
           /\ Parsable(Cat(Encode(p), t)) =>
                 Parse(Cat(Encode(p), t)) = p /\ Rest(Cat(Encode(p), t)) = t
<1>. DEFINE d == Cat(Encode(p), t)
            B == 0 .. BYTE - 1
<1>1. Parsable(d) => Len(p.name) < HALF /\ Len(p.value) < HALF
  BY LongByte DEF Parsable
<1>2. ASSUME Len(p.name) < HALF, Len(p.value) < HALF
      PROVE  Parsable(d) /\ Parse(d) = p /\ Rest(d) = t
  <2>1. PICK x \in Seq(B), y \in Seq(B), e \in Seq(B) : x = p.name /\ y = p.value /\ e = t
    BY DEF Pair, Bytes
  <2>2. PICK n \in Nat, v \in Nat, l \in Nat : n = Len(x) /\ v = Len(y) /\ l = Len(e)
    BY LenProperties
  <2>3. PICK a : /\ a[1] = Len(p.name) /\ a[2] = Len(p.value)
                 /\ TwoParts(d, a, p.name, p.value, t)
    BY <1>2, EncodeElements
  <2>4. d \in Seq(B)
    BY <1>2, EncodeElements DEF Bytes
  <2>. HIDE DEF d, B
  <2>5. Len(d) = 2 + n + v + l /\ d[1] = n /\ d[2] = v
    BY <2>1, <2>2, <2>3 DEF TwoParts
  <2>6. /\ \A i \in 1 .. Len(x) : d[2 + i] = x[i]
        /\ \A i \in 1 .. Len(y) : d[(2 + n) + i] = y[i]
        /\ \A i \in 1 .. Len(e) : d[(2 + n + v) + i] = e[i]
    BY <2>1, <2>2, <2>3 DEF TwoParts
  <2>7. SubSeq(d, 2 + 1, 2 + Len(x)) = x
    BY <2>2, <2>4, <2>5, <2>6, SubSeqIs
  <2>8. SubSeq(d, (2 + n) + 1, (2 + n) + Len(y)) = y
    <3>1. PICK k \in Nat : k = 2 + n
      OBVIOUS
    <3>2. k + Len(y) <= Len(d) /\ \A i \in 1 .. Len(y) : d[k + i] = y[i]
      BY <2>2, <2>5, <2>6, <3>1
    <3>3. SubSeq(d, k + 1, k + Len(y)) = y
      BY <2>4, <3>2, SubSeqIs
    <3>. QED  BY <3>1, <3>3
  <2>9. SubSeq(d, (2 + n + v) + 1, (2 + n + v) + Len(e)) = e
    <3>1. PICK k \in Nat : k = 2 + n + v
      OBVIOUS
    <3>2. k + Len(e) <= Len(d) /\ \A i \in 1 .. Len(e) : d[k + i] = e[i]
      BY <2>2, <2>5, <2>6, <3>1
    <3>3. SubSeq(d, k + 1, k + Len(e)) = e
      BY <2>4, <3>2, SubSeqIs
    <3>. QED  BY <3>1, <3>3
  <2>10. Parsable(d)
    <3>1. n < HALF /\ v < HALF
      BY <1>2, <2>1, <2>2
    <3>2. 1 <= Len(d) /\ 2 <= Len(d) /\ 2 + n + v <= Len(d)
      BY <2>5
    <3>. QED  BY <2>5, <3>1, <3>2 DEF Parsable, ShortLength
  <2>11. Parse(d) = p
    <3>1. 2 + 1 = 3 /\ (2 + n) + 1 = 3 + n /\ (2 + n) + v = 2 + n + v
      OBVIOUS
    <3>2. Parse(d) = [name |-> SubSeq(d, 3, 2 + n), value |-> SubSeq(d, 3 + n, 2 + n + v)]
      BY <2>5 DEF Parse
    <3>3. Parse(d) = [name |-> x, value |-> y]
      BY <2>2, <2>7, <2>8, <3>1, <3>2
    <3>. QED  BY <2>1, <3>3 DEF Pair
  <2>12. Rest(d) = t
    <3>1. (2 + n + v) + 1 = 3 + n + v /\ (2 + n + v) + l = 2 + n + v + l
      OBVIOUS
    <3>2. Rest(d) = SubSeq(d, 3 + n + v, 2 + n + v + l)
      BY <2>5 DEF Rest
    <3>. QED  BY <2>1, <2>2, <2>9, <3>1, <3>2
  <2>. QED  BY <2>10, <2>11, <2>12
<1>. QED  BY <1>1, <1>2

\* The bytes of pairs are bytes.
LEMMA EncodingType ==
    ASSUME NEW q \in Seq(Pair) PROVE Encodes(q) \in Seq(Bytes) /\ Encoding(q) \in Bytes
<1>1. Len(q) \in Nat /\ \A k \in 1 .. Len(q) : Encode(q[k]) \in Bytes
  <2>1. \A k \in 1 .. Len(q) : q[k] \in Pair
    BY ElementOfSeq
  <2>. QED  BY <2>1, LenProperties, EncodeType
<1>2. Encodes(q) \in Seq(Bytes)
  BY <1>1 DEF Encodes
<1>. QED  BY <1>2, FlatType DEF Encoding, Bytes

\* None of them, no bytes.
LEMMA EncodingEmpty == Encoding(<<>>) = <<>>
<1>1. Encodes(<<>>) = <<>>
  BY DEF Encodes
<1>. QED  BY <1>1, FlatEmpty DEF Encoding

\* One more pair.
LEMMA EncodingAppend ==
    ASSUME NEW q \in Seq(Pair), NEW p \in Pair
    PROVE  Encoding(Append(q, p)) = Cat(Encoding(q), Encode(p))
<1>. DEFINE t == Append(q, p)
<1>1. /\ Len(q) \in Nat /\ t \in Seq(Pair) /\ Len(t) = Len(q) + 1 /\ t[Len(q) + 1] = p
      /\ \A k \in 1 .. Len(q) : t[k] = q[k]
  BY AppendProperties, LenProperties
<1>. HIDE DEF t
<1>2. Encodes(q) \in Seq(Bytes) /\ Encodes(t) \in Seq(Bytes) /\ Encode(p) \in Bytes
  BY <1>1, EncodingType, EncodeType
<1>3. Len(Encodes(q)) = Len(q) /\ Len(Encodes(t)) = Len(q) + 1
  BY <1>1 DEF Encodes
<1>4. /\ \A k \in 1 .. Len(q) : Encodes(t)[k] = Encodes(q)[k]
      /\ Encodes(t)[Len(q) + 1] = Encode(p)
  BY <1>1 DEF Encodes
<1>5. Encodes(t) = Append(Encodes(q), Encode(p))
  <2>. DEFINE u == Append(Encodes(q), Encode(p))
  <2>1. /\ u \in Seq(Bytes) /\ Len(u) = Len(q) + 1 /\ u[Len(q) + 1] = Encode(p)
        /\ \A k \in 1 .. Len(q) : u[k] = Encodes(q)[k]
    BY <1>2, <1>3, AppendProperties
  <2>. HIDE DEF u
  <2>2. ASSUME NEW k \in 1 .. Len(q) + 1 PROVE Encodes(t)[k] = u[k]
    <3>1. CASE k = Len(q) + 1
      BY <1>4, <2>1, <3>1
    <3>2. CASE k # Len(q) + 1
      <4>1. k \in 1 .. Len(q)
        BY <1>1, <3>2
      <4>. QED  BY <1>4, <2>1, <4>1
    <3>. QED  BY <3>1, <3>2
  <2>3. Encodes(t) = u
    BY <1>2, <1>3, <2>1, <2>2, SeqEqual
  <2>. QED  BY <2>3 DEF u
<1>6. Flat(Append(Encodes(q), Encode(p))) = Cat(Flat(Encodes(q)), Encode(p))
  BY <1>2, FlatAppend DEF Bytes
<1>. QED  BY <1>5, <1>6 DEF Encoding, t

\* The first pair, and the others behind it.
LEMMA EncodingHead ==
    ASSUME NEW q \in Seq(Pair), q # <<>>
    PROVE  Encoding(q) = Cat(Encode(Head(q)), Encoding(Tail(q)))
<1>1. /\ Len(q) \in Nat /\ Len(q) >= 1 /\ Head(q) = q[1] /\ Tail(q) \in Seq(Pair)
      /\ Len(Tail(q)) = Len(q) - 1 /\ \A k \in 1 .. Len(q) - 1 : Tail(q)[k] = q[k + 1]
  BY HeadTailProperties, EmptySeq
<1>2. Encodes(q) \in Seq(Bytes) /\ Encodes(Tail(q)) \in Seq(Bytes)
  BY <1>1, EncodingType
<1>3. Len(Encodes(q)) = Len(q) /\ Encodes(q)[1] = Encode(Head(q))
  BY <1>1 DEF Encodes
<1>4. Encodes(q) # <<>>
  BY <1>1, <1>3, EmptySeq
<1>5. Head(Encodes(q)) = Encode(Head(q))
  BY <1>2, <1>3, <1>4
<1>6. Tail(Encodes(q)) = Encodes(Tail(q))
  <2>. DEFINE u == Tail(Encodes(q))
              w == Encodes(Tail(q))
  <2>1. /\ u \in Seq(Bytes) /\ Len(u) = Len(q) - 1
        /\ \A k \in 1 .. Len(q) - 1 : u[k] = Encodes(q)[k + 1]
    BY <1>2, <1>3, <1>4, HeadTailProperties
  <2>2. Len(w) = Len(q) - 1 /\ \A k \in 1 .. Len(q) - 1 : w[k] = Encode(q[k + 1])
    BY <1>1 DEF Encodes
  <2>3. \A k \in 1 .. Len(q) - 1 : Encodes(q)[k + 1] = Encode(q[k + 1])
    BY <1>1 DEF Encodes
  <2>4. w \in Seq(Bytes)
    BY <1>2
  <2>. HIDE DEF u, w
  <2>5. u = w
    BY <2>1, <2>2, <2>3, <2>4, SeqEqual
  <2>. QED  BY <2>5 DEF u, w
<1>7. Flat(Encodes(q)) = Cat(Head(Encodes(q)), Flat(Tail(Encodes(q))))
  BY <1>2, <1>4, FlatHead DEF Bytes
<1>. QED  BY <1>5, <1>6, <1>7 DEF Encoding

\* A pair has bytes.
LEMMA EncodingFilled == ASSUME NEW q \in Seq(Pair), q # <<>> PROVE Encoding(q) # <<>>
<1>1. Head(q) \in Pair /\ Tail(q) \in Seq(Pair)
  BY HeadTailProperties
<1>2. /\ Encode(Head(q)) \in Bytes /\ Len(Encode(Head(q))) = PairLen(Head(q))
      /\ PairLen(Head(q)) \in Nat /\ PairLen(Head(q)) >= 2
  BY <1>1, EncodeType
<1>3. Encoding(Tail(q)) \in Bytes /\ Len(Encoding(Tail(q))) \in Nat
  BY <1>1, EncodingType, LenProperties DEF Bytes
<1>4. Len(Cat(Encode(Head(q)), Encoding(Tail(q)))) = PairLen(Head(q)) + Len(Encoding(Tail(q)))
  BY <1>2, <1>3, CatType DEF Bytes
<1>5. Len(Encoding(q)) >= 2
  BY <1>2, <1>3, <1>4, EncodingHead
<1>. QED  BY <1>5, EmptySeq

-----------------------------------------------------------------------------
(* Records *)

\* The bytes of padding.
Zeros(n) == [j \in 1 .. n |-> 0]

\* A record, and its bytes.
Rec       == [type : {GetValuesResult, UnknownType}, body : Bytes]
Header(r) == <<r.type, Len(r.body), Padding(Len(r.body))>>
Frame(r)  == Cat(Cat(Header(r), r.body), Zeros(Padding(Len(r.body))))

\* The bytes of the records q.
Frames(q) == [k \in 1 .. Len(q) |-> Frame(q[k])]
Stream(q) == Flat(Frames(q))

\* Padding is a number of bytes.
LEMMA PaddingType == ASSUME NEW n \in Nat PROVE Padding(n) \in Nat
<1>1. n % ALIGN \in 0 .. ALIGN - 1 /\ ALIGN \in Nat
  BY RecordAssumption
<1>. QED  BY <1>1 DEF Padding

\* The zeros are that many.
LEMMA ZerosType == ASSUME NEW n \in Nat PROVE Zeros(n) \in Seq(Nat) /\ Len(Zeros(n)) = n
BY DEF Zeros

\* The header of a record.
LEMMA HeaderType ==
    ASSUME NEW r \in Rec
    PROVE  /\ Header(r) \in Seq(Nat) /\ Len(Header(r)) = 3
           /\ Header(r)[1] = r.type /\ Header(r)[2] = Len(r.body)
           /\ Header(r)[3] = Padding(Len(r.body))
           /\ r.body \in Seq(Nat) /\ Len(r.body) \in Nat /\ Padding(Len(r.body)) \in Nat
<1>1. r.type \in Nat
  BY DEF Rec, GetValuesResult, UnknownType
<1>2. r.body \in Seq(0 .. BYTE - 1)
  BY DEF Rec, Bytes
<1>3. r.body \in Seq(Nat) /\ Len(r.body) \in Nat
  <2>1. 0 .. BYTE - 1 \subseteq Nat
    BY HalfType
  <2>. QED  BY <1>2, <2>1, SeqMonotonic, LenProperties
<1>4. Padding(Len(r.body)) \in Nat
  BY <1>3, PaddingType
<1>5. PICK a \in Nat, b \in Nat, c \in Nat : a = r.type /\ b = Len(r.body) /\ c = Padding(Len(r.body))
  BY <1>1, <1>3, <1>4
<1>6. Header(r) = <<a, b, c>>
  BY <1>5 DEF Header
<1>. QED  BY <1>3, <1>4, <1>5, <1>6

\* The bytes of a record are numbers, the two lengths of its header included.
LEMMA FrameType == ASSUME NEW r \in Rec PROVE Frame(r) \in Seq(Nat)
<1>1. Header(r) \in Seq(Nat) /\ r.body \in Seq(Nat) /\ Zeros(Padding(Len(r.body))) \in Seq(Nat)
  BY HeaderType, ZerosType
<1>. QED  BY <1>1, CatType DEF Frame

\* The bytes of records are numbers.
LEMMA StreamType ==
    ASSUME NEW q \in Seq(Rec) PROVE Frames(q) \in Seq(Seq(Nat)) /\ Stream(q) \in Seq(Nat)
<1>1. Len(q) \in Nat /\ \A k \in 1 .. Len(q) : Frame(q[k]) \in Seq(Nat)
  <2>1. \A k \in 1 .. Len(q) : q[k] \in Rec
    BY ElementOfSeq
  <2>. QED  BY <2>1, LenProperties, FrameType
<1>2. Frames(q) \in Seq(Seq(Nat))
  BY <1>1 DEF Frames
<1>. QED  BY <1>2, FlatType DEF Stream, Bytes

\* None of them, no bytes.
LEMMA StreamEmpty == Stream(<<>>) = <<>>
<1>1. Frames(<<>>) = <<>>
  BY DEF Frames
<1>. QED  BY <1>1, FlatEmpty DEF Stream

\* One more record.
LEMMA StreamAppend ==
    ASSUME NEW q \in Seq(Rec), NEW p \in Rec
    PROVE  Stream(Append(q, p)) = Cat(Stream(q), Frame(p))
<1>. DEFINE t == Append(q, p)
<1>1. /\ Len(q) \in Nat /\ t \in Seq(Rec) /\ Len(t) = Len(q) + 1 /\ t[Len(q) + 1] = p
      /\ \A k \in 1 .. Len(q) : t[k] = q[k]
  BY AppendProperties, LenProperties
<1>. HIDE DEF t
<1>2. Frames(q) \in Seq(Seq(Nat)) /\ Frames(t) \in Seq(Seq(Nat)) /\ Frame(p) \in Seq(Nat)
  BY <1>1, StreamType, FrameType
<1>3. Len(Frames(q)) = Len(q) /\ Len(Frames(t)) = Len(q) + 1
  BY <1>1 DEF Frames
<1>4. /\ \A k \in 1 .. Len(q) : Frames(t)[k] = Frames(q)[k]
      /\ Frames(t)[Len(q) + 1] = Frame(p)
  BY <1>1 DEF Frames
<1>5. Frames(t) = Append(Frames(q), Frame(p))
  <2>. DEFINE u == Append(Frames(q), Frame(p))
  <2>1. /\ u \in Seq(Seq(Nat)) /\ Len(u) = Len(q) + 1 /\ u[Len(q) + 1] = Frame(p)
        /\ \A k \in 1 .. Len(q) : u[k] = Frames(q)[k]
    BY <1>2, <1>3, AppendProperties
  <2>. HIDE DEF u
  <2>2. ASSUME NEW k \in 1 .. Len(q) + 1 PROVE Frames(t)[k] = u[k]
    <3>1. CASE k = Len(q) + 1
      BY <1>4, <2>1, <3>1
    <3>2. CASE k # Len(q) + 1
      <4>1. k \in 1 .. Len(q)
        BY <1>1, <3>2
      <4>. QED  BY <1>4, <2>1, <4>1
    <3>. QED  BY <3>1, <3>2
  <2>3. Frames(t) = u
    BY <1>2, <1>3, <2>1, <2>2, SeqEqual
  <2>. QED  BY <2>3 DEF u
<1>6. Flat(Append(Frames(q), Frame(p))) = Cat(Flat(Frames(q)), Frame(p))
  BY <1>2, FlatAppend DEF Bytes
<1>. QED  BY <1>5, <1>6 DEF Stream, t

\* The first record, and the others behind it.
LEMMA StreamHead ==
    ASSUME NEW q \in Seq(Rec), q # <<>>
    PROVE  Stream(q) = Cat(Frame(Head(q)), Stream(Tail(q)))
<1>1. /\ Len(q) \in Nat /\ Len(q) >= 1 /\ Head(q) = q[1] /\ Tail(q) \in Seq(Rec)
      /\ Len(Tail(q)) = Len(q) - 1 /\ \A k \in 1 .. Len(q) - 1 : Tail(q)[k] = q[k + 1]
  BY HeadTailProperties, EmptySeq
<1>2. Frames(q) \in Seq(Seq(Nat)) /\ Frames(Tail(q)) \in Seq(Seq(Nat))
  BY <1>1, StreamType
<1>3. Len(Frames(q)) = Len(q) /\ Frames(q)[1] = Frame(Head(q))
  BY <1>1 DEF Frames
<1>4. Frames(q) # <<>>
  BY <1>1, <1>3, EmptySeq
<1>5. Head(Frames(q)) = Frame(Head(q))
  BY <1>2, <1>3, <1>4
<1>6. Tail(Frames(q)) = Frames(Tail(q))
  <2>. DEFINE u == Tail(Frames(q))
              w == Frames(Tail(q))
  <2>1. /\ u \in Seq(Seq(Nat)) /\ Len(u) = Len(q) - 1
        /\ \A k \in 1 .. Len(q) - 1 : u[k] = Frames(q)[k + 1]
    BY <1>2, <1>3, <1>4, HeadTailProperties
  <2>2. Len(w) = Len(q) - 1 /\ \A k \in 1 .. Len(q) - 1 : w[k] = Frame(q[k + 1])
    BY <1>1 DEF Frames
  <2>3. \A k \in 1 .. Len(q) - 1 : Frames(q)[k + 1] = Frame(q[k + 1])
    BY <1>1 DEF Frames
  <2>4. w \in Seq(Seq(Nat))
    BY <1>2
  <2>. HIDE DEF u, w
  <2>5. u = w
    BY <2>1, <2>2, <2>3, <2>4, SeqEqual
  <2>. QED  BY <2>5 DEF u, w
<1>7. Flat(Frames(q)) = Cat(Head(Frames(q)), Flat(Tail(Frames(q))))
  BY <1>2, <1>4, FlatHead DEF Bytes
<1>. QED  BY <1>5, <1>6, <1>7 DEF Stream

\* Record::read takes exactly the record in front, whatever the cut behind it.
LEMMA FrameRead ==
    ASSUME NEW r \in Rec, NEW s \in Seq(Nat), NEW w \in Seq(Nat), NEW b \in Seq(Nat),
           Cat(s, w) = Cat(Frame(r), b), Complete(s)
    PROVE  /\ [type |-> s[1], body |-> SubSeq(s, HEADER_LEN + 1, HEADER_LEN + s[2])] = r
           /\ SubSeq(s, HEADER_LEN + s[2] + s[3] + 1, Len(s)) \in Seq(Nat)
           /\ Cat(SubSeq(s, HEADER_LEN + s[2] + s[3] + 1, Len(s)), w) = b
<1>1. PICK h \in Seq(Nat), y \in Seq(Nat), l \in Nat, m \in Nat :
            /\ h = Header(r) /\ y = r.body /\ l = Len(y) /\ m = Padding(l)
            /\ Len(h) = 3 /\ h[1] = r.type /\ h[2] = l /\ h[3] = m
  BY HeaderType
<1>l. Len(h) = 3 /\ Len(y) = l
  BY <1>1
<1>2. PICK z \in Seq(Nat) : z = Zeros(m) /\ Len(z) = m
  BY ZerosType
<1>3. PICK f \in Seq(Nat) : f = Frame(r) /\ f = Cat(Cat(h, y), z)
  BY <1>1, <1>2, FrameType DEF Frame
<1>4. Len(s) \in Nat /\ Len(s) >= 3 /\ Len(s) >= 3 + s[2] + s[3]
  BY LenProperties DEF Complete, HEADER_LEN
<1>5. s[1] = h[1] /\ s[2] = h[2] /\ s[3] = h[3]
  <2>1. PICK g \in Seq(Nat) : g = Cat(Cat(y, z), b) /\ Cat(f, b) = Cat(h, g)
    <3>1. Cat(Cat(h, y), z) = Cat(h, Cat(y, z)) /\ Cat(y, z) \in Seq(Nat)
      BY CatAssoc, CatType
    <3>2. Cat(Cat(h, Cat(y, z)), b) = Cat(h, Cat(Cat(y, z), b)) /\ Cat(Cat(y, z), b) \in Seq(Nat)
      BY <3>1, CatAssoc, CatType
    <3>. QED  BY <1>3, <3>1, <3>2
  <2>2. Cat(s, w) = Cat(h, g) /\ Len(h) <= Len(s)
    BY <1>l, <1>3, <1>4, <2>1
  <2>3. PICK v \in Seq(Nat) : s = Cat(h, v)
    BY <2>2, CatFront
  <2>4. \A i \in 1 .. Len(h) : Cat(h, v)[i] = h[i]
    BY CatElements
  <2>5. \A i \in 1 .. 3 : s[i] = h[i]
    BY <1>l, <2>3, <2>4
  <2>. QED  BY <2>5
<1>6. Len(f) = 3 + l + m
  <2>1. Cat(h, y) \in Seq(Nat) /\ Len(Cat(h, y)) = Len(h) + Len(y)
    BY CatType
  <2>2. Len(Cat(Cat(h, y), z)) = Len(Cat(h, y)) + Len(z)
    BY <2>1, CatType
  <2>. QED  BY <1>l, <1>2, <1>3, <2>1, <2>2
<1>7. Len(f) <= Len(s)
  BY <1>1, <1>4, <1>5, <1>6
<1>8. /\ SubSeq(s, Len(f) + 1, Len(s)) \in Seq(Nat)
      /\ s = Cat(f, SubSeq(s, Len(f) + 1, Len(s)))
      /\ b = Cat(SubSeq(s, Len(f) + 1, Len(s)), w)
  BY <1>3, <1>7, CatSplit DEF Beyond
<1>9. HEADER_LEN + s[2] + s[3] + 1 = Len(f) + 1
  BY <1>1, <1>5, <1>6 DEF HEADER_LEN
<1>10. SubSeq(s, 3 + 1, 3 + Len(y)) = y
  <2>1. PICK v \in Seq(Nat) : s = Cat(Cat(Cat(h, y), z), v)
    BY <1>3, <1>8
  <2>2. FourParts(s, h, y, z, v)
    BY <2>1, CatFourElements
  <2>3. \A i \in 1 .. Len(y) : s[3 + i] = y[i]
    BY <1>1, <2>2 DEF FourParts
  <2>4. 3 + Len(y) <= Len(s)
    BY <1>l, <1>4, <1>6, <1>7
  <2>. QED  BY <2>3, <2>4, SubSeqIs
<1>11. [type |-> s[1], body |-> SubSeq(s, HEADER_LEN + 1, HEADER_LEN + s[2])] = r
  <2>1. [type |-> s[1], body |-> SubSeq(s, HEADER_LEN + 1, HEADER_LEN + s[2])] = [type |-> r.type, body |-> r.body]
    BY <1>1, <1>5, <1>10 DEF HEADER_LEN
  <2>. QED  BY <2>1 DEF Rec
<1>. QED  BY <1>8, <1>9, <1>11

-----------------------------------------------------------------------------
(* The pairs of a record *)

\* The pairs in body i and in the bodies before it, if place says the body of each.
In(pl, i)     == {n \in DOMAIN pl : pl[n] = i}
Before(pl, i) == {n \in DOMAIN pl : pl[n] < i}

\* Sent, as an operator of place and answer.
SentOf(pl, an, i) ==
    [j \in 1 .. Cardinality(In(pl, i)) |-> an[j + Cardinality(Before(pl, i))]]

\* It is.
LEMMA SentIs == \A i : Sent(i) = SentOf(place, answer, i)
BY DEF Sent, SentOf, In, Before

\* They can be counted, and are not more than there are.
LEMMA CountType ==
    ASSUME NEW pl \in Seq(Nat), NEW i \in Nat
    PROVE  /\ IsFiniteSet(In(pl, i)) /\ IsFiniteSet(Before(pl, i))
           /\ Cardinality(In(pl, i)) \in Nat /\ Cardinality(Before(pl, i)) \in Nat
           /\ Cardinality(In(pl, i)) + Cardinality(Before(pl, i)) <= Len(pl)
           /\ (\A n \in 1 .. Len(pl) : pl[n] <= i) =>
                 Cardinality(In(pl, i)) + Cardinality(Before(pl, i)) = Len(pl)
<1>. DEFINE A == In(pl, i)
            B == Before(pl, i)
            D == 1 .. Len(pl)
<1>1. Len(pl) \in Nat /\ \A n \in D : pl[n] \in Nat
  BY LenProperties, ElementOfSeq
<1>2. IsFiniteSet(D) /\ Cardinality(D) = Len(pl)
  BY <1>1, FS_Interval
<1>3. A \subseteq D /\ B \subseteq D /\ A \cap B = {} /\ ((\A n \in D : pl[n] <= i) => A \cup B = D)
  BY <1>1 DEF In, Before
<1>. HIDE DEF A, B, D
<1>4. IsFiniteSet(A) /\ IsFiniteSet(B)
  BY <1>2, <1>3, FS_Subset
<1>5. Cardinality(A) \in Nat /\ Cardinality(B) \in Nat
  BY <1>4, FS_CardinalityType
<1>6. Cardinality(A \cup B) = Cardinality(A) + Cardinality(B)
  <2>1. Cardinality(A \cup B) = Cardinality(A) + Cardinality(B) - Cardinality(A \cap B)
    BY <1>4, FS_Union
  <2>2. Cardinality(A \cap B) = 0
    BY <1>3, FS_EmptySet
  <2>. QED  BY <1>5, <2>1, <2>2
<1>7. Cardinality(A \cup B) <= Len(pl)
  <2>1. A \cup B \in SUBSET D
    BY <1>3
  <2>. QED  BY <1>2, <2>1, FS_Subset
<1>8. (\A n \in D : pl[n] <= i) => Cardinality(A \cup B) = Len(pl)
  BY <1>2, <1>3
<1>. QED  BY <1>4, <1>5, <1>6, <1>7, <1>8 DEF A, B, D

\* c elements of an, those behind the first b.
Window(an, b, c) == [j \in 1 .. c |-> an[j + b]]

\* They are a sequence.
LEMMA WindowType ==
    ASSUME NEW S, NEW c \in Nat, NEW b \in Nat, NEW an \in Seq(S), c + b <= Len(an)
    PROVE  Window(an, b, c) \in Seq(S) /\ Len(Window(an, b, c)) = c
<1>1. \A j \in 1 .. c : an[j + b] \in S
  <2>1. \A j \in 1 .. c : j + b \in 1 .. Len(an)
    BY LenProperties
  <2>. QED  BY <2>1, ElementOfSeq
<1>. QED  BY <1>1 DEF Window

\* The pairs sent in a record are pairs of the answer.
LEMMA SentType ==
    ASSUME NEW S, NEW pl \in Seq(Nat), NEW an \in Seq(S), NEW i \in Nat, Len(pl) <= Len(an)
    PROVE  /\ SentOf(pl, an, i) \in Seq(S) /\ Len(SentOf(pl, an, i)) = Cardinality(In(pl, i))
           /\ \A j \in 1 .. Cardinality(In(pl, i)) :
                 /\ SentOf(pl, an, i)[j] = an[j + Cardinality(Before(pl, i))]
                 /\ j + Cardinality(Before(pl, i)) \in 1 .. Len(pl)
<1>1. PICK c \in Nat, b \in Nat : c = Cardinality(In(pl, i)) /\ b = Cardinality(Before(pl, i))
  BY CountType
<1>2. c + b <= Len(pl) /\ Len(pl) \in Nat /\ Len(an) \in Nat
  BY <1>1, CountType, LenProperties
<1>3. SentOf(pl, an, i) = Window(an, b, c)
  BY <1>1 DEF SentOf, Window
<1>4. \A j \in 1 .. c : j + b \in 1 .. Len(pl) /\ j + b \in 1 .. Len(an)
  BY <1>2
<1>5. c + b <= Len(an)
  BY <1>2
<1>6. /\ Window(an, b, c) \in Seq(S) /\ Len(Window(an, b, c)) = c
      /\ \A j \in 1 .. c : Window(an, b, c)[j] = an[j + b]
  <2>1. Window(an, b, c) \in Seq(S) /\ Len(Window(an, b, c)) = c
    BY <1>5, WindowType
  <2>2. \A j \in 1 .. c : Window(an, b, c)[j] = an[j + b]
    BY DEF Window
  <2>. QED  BY <2>1, <2>2
<1>. QED  BY <1>1, <1>3, <1>4, <1>6

\* A record without pairs.
LEMMA SentEmpty ==
    ASSUME NEW S, NEW pl \in Seq(Nat), NEW an \in Seq(S), NEW i \in Nat, Len(pl) <= Len(an),
           In(pl, i) = {}
    PROVE  SentOf(pl, an, i) = <<>>
<1>1. SentOf(pl, an, i) \in Seq(S) /\ Len(SentOf(pl, an, i)) = Cardinality(In(pl, i))
  BY SentType
<1>2. Cardinality(In(pl, i)) = 0
  BY FS_EmptySet
<1>. QED  BY <1>1, <1>2, EmptySeq

\* One more pair goes into body k, behind all others.
LEMMA CountAppend ==
    ASSUME NEW pl \in Seq(Nat), NEW k \in Nat, NEW i \in Nat
    PROVE  /\ k = i => In(Append(pl, k), i) = In(pl, i) \cup {Len(pl) + 1}
           /\ k # i => In(Append(pl, k), i) = In(pl, i)
           /\ k < i => Before(Append(pl, k), i) = Before(pl, i) \cup {Len(pl) + 1}
           /\ ~(k < i) => Before(Append(pl, k), i) = Before(pl, i)
<1>. DEFINE t == Append(pl, k)
<1>1. /\ Len(pl) \in Nat /\ DOMAIN pl = 1 .. Len(pl) /\ DOMAIN t = 1 .. Len(pl) + 1
      /\ t[Len(pl) + 1] = k /\ \A n \in 1 .. Len(pl) : t[n] = pl[n]
  BY AppendProperties, LenProperties
<1>. HIDE DEF t
<1>2. 1 .. Len(pl) + 1 = (1 .. Len(pl)) \cup {Len(pl) + 1} /\ Len(pl) + 1 \notin 1 .. Len(pl)
  BY <1>1
<1>3. /\ k = i => In(t, i) = In(pl, i) \cup {Len(pl) + 1}
      /\ k # i => In(t, i) = In(pl, i)
  BY <1>1, <1>2 DEF In
<1>4. /\ k < i => Before(t, i) = Before(pl, i) \cup {Len(pl) + 1}
      /\ ~(k < i) => Before(t, i) = Before(pl, i)
  BY <1>1, <1>2 DEF Before
<1>. QED  BY <1>3, <1>4 DEF t

\* Then it is the last one of record k, and the records before stay as they are.
LEMMA SentAppend ==
    ASSUME NEW S, NEW pl \in Seq(Nat), NEW an \in Seq(S), NEW k \in Nat, Len(pl) < Len(an),
           \A n \in 1 .. Len(pl) : pl[n] <= k
    PROVE  /\ SentOf(Append(pl, k), an, k) = Append(SentOf(pl, an, k), an[Len(pl) + 1])
           /\ \A i \in Nat : i < k => SentOf(Append(pl, k), an, i) = SentOf(pl, an, i)
<1>1. ASSUME NEW i \in Nat, i < k
      PROVE  SentOf(Append(pl, k), an, i) = SentOf(pl, an, i)
  <2>1. In(Append(pl, k), i) = In(pl, i) /\ Before(Append(pl, k), i) = Before(pl, i)
    BY <1>1, CountAppend
  <2>. QED  BY <2>1 DEF SentOf
<1>2. PICK c \in Nat, b \in Nat : c = Cardinality(In(pl, k)) /\ b = Cardinality(Before(pl, k))
  BY CountType
<1>3. c + b = Len(pl) /\ IsFiniteSet(In(pl, k)) /\ Len(pl) \in Nat /\ Len(an) \in Nat
  BY <1>2, CountType, LenProperties
<1>4. Cardinality(In(Append(pl, k), k)) = c + 1 /\ Cardinality(Before(Append(pl, k), k)) = b
  <2>1. In(Append(pl, k), k) = In(pl, k) \cup {Len(pl) + 1} /\ Before(Append(pl, k), k) = Before(pl, k)
    BY CountAppend
  <2>2. Len(pl) + 1 \notin In(pl, k)
    BY <1>3, LenProperties DEF In
  <2>3. Cardinality(In(pl, k) \cup {Len(pl) + 1}) = Cardinality(In(pl, k)) + 1
    BY <1>3, <2>2, FS_AddElement
  <2>. QED  BY <1>2, <2>1, <2>3
<1>5. SentOf(Append(pl, k), an, k) = Window(an, b, c + 1)
  BY <1>4 DEF SentOf, Window
<1>6. SentOf(pl, an, k) = Window(an, b, c)
  BY <1>2 DEF SentOf, Window
<1>7. c + b <= Len(an) /\ (c + 1) + b <= Len(an)
  BY <1>3
<1>8. (c + 1) + b = Len(pl) + 1
  BY <1>3
<1>9. SentOf(Append(pl, k), an, k) = Append(SentOf(pl, an, k), an[Len(pl) + 1])
  <2>. DEFINE u == SentOf(Append(pl, k), an, k)
              v == SentOf(pl, an, k)
              e == an[Len(pl) + 1]
  <2>0. u \in Seq(S) /\ Len(u) = c + 1 /\ \A j \in 1 .. c + 1 : u[j] = an[j + b]
    <3>1. PICK k1 \in Nat : k1 = c + 1
      OBVIOUS
    <3>2. Window(an, b, k1) \in Seq(S) /\ Len(Window(an, b, k1)) = k1
      BY <1>7, <3>1, WindowType
    <3>3. \A j \in 1 .. c + 1 : Window(an, b, c + 1)[j] = an[j + b]
      BY DEF Window
    <3>. QED  BY <1>5, <3>1, <3>2, <3>3
  <2>1. u \in Seq(S) /\ Len(u) = c + 1 /\ u[c + 1] = e /\ e \in S
    <3>1. u[c + 1] = an[(c + 1) + b] /\ Len(pl) + 1 \in 1 .. Len(an)
      BY <2>0, <1>3
    <3>. QED  BY <1>8, <2>0, <3>1, ElementOfSeq
  <2>2. v \in Seq(S) /\ Len(v) = c /\ \A j \in 1 .. c : v[j] = an[j + b]
    <3>1. Window(an, b, c) \in Seq(S) /\ Len(Window(an, b, c)) = c
      BY <1>7, WindowType
    <3>2. \A j \in 1 .. c : Window(an, b, c)[j] = an[j + b]
      BY DEF Window
    <3>. QED  BY <1>6, <3>1, <3>2
  <2>3. \A j \in 1 .. c : u[j] = v[j]
    <3>1. \A j \in 1 .. c : j \in 1 .. c + 1
      OBVIOUS
    <3>. QED  BY <2>0, <2>2, <3>1
  <2>. HIDE DEF u, v, e
  <2>4. u = Append(v, e)
    <3>. DEFINE a == Append(v, e)
    <3>1. a \in Seq(S) /\ Len(a) = c + 1 /\ a[c + 1] = e /\ \A j \in 1 .. c : a[j] = v[j]
      BY <2>1, <2>2, AppendProperties
    <3>. HIDE DEF a
    <3>2. \A j \in 1 .. c + 1 : j \in 1 .. c \/ j = c + 1
      OBVIOUS
    <3>3. \A j \in 1 .. c + 1 : u[j] = a[j]
      BY <2>1, <2>3, <3>1, <3>2
    <3>4. u = a
      BY <2>1, <3>1, <3>3, SeqEqual
    <3>. QED  BY <3>4 DEF a
  <2>. QED  BY <2>4 DEF u, v, e
<1>. QED  BY <1>1, <1>9

-----------------------------------------------------------------------------
(* The inductive invariant *)

\* Every body holds the bytes of its pairs and counts them, and a record can hold it.
ListInv ==
    /\ bodies # <<>> /\ Len(place) = added
    /\ \A i \in 1 .. Len(bodies) :
          /\ Flat(bodies[i].pairs) = Encoding(Sent(i))
          /\ bodies[i].len = Len(Flat(bodies[i].pairs))
          /\ bodies[i].len <= MAX_LENGTH

\* The records of the answer.
RecordOf(body) == [type |-> GetValuesResult, body |-> Flat(body.pairs)]
Records        == [i \in 1 .. Len(bodies) |-> RecordOf(bodies[i])]
UnknownRecord  == [type |-> UnknownType, body |-> Zeros(UNKNOWN_LEN)]

\* The client has nothing, or nothing is under way either.
Unread == rbuf = <<>> /\ recs = <<>>
Silent == wire = <<>> /\ Unread

\* While the answer is written, wire has what was written of it, to the byte.
BuildInv ==
    /\ role \in {"list", "panic"} \/ (role # "sent" /\ net # "open") => Silent
    /\ role = "list" => cur = 1
    /\ role = "record" /\ net = "open" => Unread /\ wire = Stream(SubSeq(Records, 1, cur - 1))
    /\ role = "copy" => cur <= Len(bodies)
    /\ role = "copy" /\ net = "open" =>
          /\ Unread
          /\ Cat(wire, Flat(bufs)) =
                Cat(Stream(SubSeq(Records, 1, cur - 1)), Cat(Header(Records[cur]), Records[cur].body))

\* Of the records q, some were read and the bytes of the others follow, until the
\* answer was cut off.
Arrives(q) ==
    \E left \in Seq(Rec), more \in Seq(Nat) :
        q = Cat(recs, left) /\ Cat(Cat(rbuf, wire), more) = Stream(left)

\* The answer under way is the list, or the UnknownType record.
SentInv == role = "sent" => Arrives(Records) \/ (Arrives(<<UnknownRecord>>) /\ answer = <<>>)

\* Of the pairs sent, took was taken: data is the bytes of the others, or the last one
\* taken was MPXS_CONNS=0 and nothing is left.
Whole(data, took, rest) ==
    data = Encoding(rest) /\ \A j \in 1 .. Len(took) : ~NoMultiplex(took[j])
Broken(data, took) ==
    /\ data = <<>> /\ took # <<>> /\ NoMultiplex(took[Len(took)])
    /\ \A j \in 1 .. Len(took) - 1 : ~NoMultiplex(took[j])
InPairs(data, took, sent) ==
    \E rest \in Seq(Pair) : sent = Cat(took, rest) /\ (Whole(data, took, rest) \/ Broken(data, took))

\* What was taken from a record is the front of what was sent in it.
KeptInv ==
    \A i \in 1 .. Len(seen) :
        recs[i].type = GetValuesResult => \E rest \in Seq(Pair) : Sent(i) = Cat(seen[i], rest)

\* The pairs of one record.
PairsInv ==
    stage \in {"pairs", "panic"} =>
        /\ seen # <<>>
        /\ kvs # <<>> => recs[Len(seen)].type = GetValuesResult
        /\ recs[Len(seen)].type = GetValuesResult =>
              InPairs(kvs, seen[Len(seen)], Sent(Len(seen)))

\* Where the client is.
ReadInv ==
    /\ stage \in {"connect", "query", "read", "parse"} => seen = <<>>
    /\ stage \in {"connect", "query"} => role = "list" /\ Silent
    /\ Len(seen) <= Len(recs)
    /\ stage = "panic" => kvs # <<>> /\ ~Parsable(kvs)

Inv == TypeOK /\ ListInv /\ BuildInv /\ SentInv /\ ReadInv /\ KeptInv /\ PairsInv

\* It holds at first.
LEMMA InitInv == ASSUME Init PROVE Inv
<1>1. answer \in Seq(Pair) /\ Len(answer) \in Nat
  BY AnswerAssumption, LenProperties DEF Init
<1>2. bodies = <<EmptyBody>> /\ EmptyBody \in [pairs : Seq(Bytes), len : Nat]
  BY DEF Init, EmptyBody
<1>3. TypeOK
  BY <1>1, <1>2, LimitAssumption DEF Init, TypeOK, Stage, Bytes
<1>4. ListInv
  <2>1. Flat(EmptyBody.pairs) = <<>> /\ EmptyBody.len = 0
    BY FlatEmpty DEF EmptyBody
  <2>2. Sent(1) = <<>>
    <3>1. place = <<>> /\ place \in Seq(Nat) /\ Len(place) = 0 /\ In(place, 1) = {}
      BY DEF Init, In
    <3>2. SentOf(place, answer, 1) = <<>>
      <4>1. 1 \in Nat /\ Len(place) <= Len(answer)
        BY <1>1, <3>1
      <4>. QED  BY <1>1, <3>1, <4>1, SentEmpty
    <3>. QED  BY <3>2, SentIs
  <2>. QED  BY <1>2, <2>1, <2>2, EncodingEmpty, RecordAssumption DEF Init, ListInv
<1>5. BuildInv /\ SentInv
  BY DEF Init, BuildInv, SentInv, Silent, Unread
<1>6. ReadInv /\ KeptInv /\ PairsInv
  BY DEF Init, ReadInv, KeptInv, PairsInv, Silent, Unread
<1>. QED  BY <1>3, <1>4, <1>5, <1>6 DEF Inv

\* What the list says is kept where the list is.
LEMMA ListFrame ==
    ASSUME ListInv, UNCHANGED <<answer, added, bodies, place>>
    PROVE  ListInv'
<1>1. \A i : Sent(i)' = Sent(i)
  BY DEF Sent
<1>. QED  BY <1>1 DEF ListInv

\* The way to the client is kept where nobody writes or reads.
LEMMA WayFrame ==
    ASSUME BuildInv, SentInv, UNCHANGED <<answer, role, bodies, cur, bufs, net, wire, rbuf, recs>>
    PROVE  BuildInv' /\ SentInv'
<1>1. Records' = Records
  BY DEF Records
<1>2. BuildInv'
  BY <1>1 DEF BuildInv, Silent, Unread
<1>3. \A q : Arrives(q)' <=> Arrives(q)
  BY DEF Arrives
<1>4. SentInv'
  BY <1>1, <1>3 DEF SentInv
<1>. QED  BY <1>2, <1>4

\* Until it has read the answer the client has taken nothing from it.
LEMMA ClientFrame ==
    ASSUME ReadInv, stage \in {"read", "parse"}, stage' \in {"read", "parse", "values", "failed"},
           seen' = seen, Len(recs') \in Nat
    PROVE  ReadInv' /\ KeptInv' /\ PairsInv'
<1>1. seen = <<>> /\ seen' = <<>> /\ Len(<<>>) = 0
  BY DEF ReadInv
<1>2. ReadInv'
  BY <1>1 DEF ReadInv
<1>3. KeptInv'
  BY <1>1 DEF KeptInv
<1>. QED  BY <1>2, <1>3 DEF PairsInv

\* The record in front of the client is frozen while the application works.
LEMMA AppFrame ==
    ASSUME Inv, Asked, UNCHANGED client PROVE ReadInv' /\ KeptInv' /\ PairsInv'
<1>1. stage = "read" /\ stage' = "read" /\ seen' = seen /\ recs' = recs
  BY DEF Asked, client
<1>2. Len(recs) \in Nat
  BY LenProperties DEF Inv, TypeOK
<1>. QED  BY <1>1, <1>2, ClientFrame DEF Inv

\* NVBodyList::add
LEMMA AppAddInv == ASSUME Inv, AppAdd PROVE Inv'
<1>. DEFINE Body == [pairs : Seq(Bytes), len : Nat]
            p    == answer[added + 1]
            list == IF Fits(Last(bodies), p) THEN bodies ELSE Append(bodies, EmptyBody)
            L    == Len(list)
<1>1. /\ answer \in Seq(Pair) /\ added \in 0 .. Len(answer) /\ bodies \in Seq(Body) /\ Len(place) = added
      /\ place \in Seq(1 .. Len(bodies)) /\ added < Len(answer) /\ bodies # <<>> /\ MAX_LENGTH \in Nat
  BY RecordAssumption DEF Inv, TypeOK, AppAdd, ListInv
<1>2. Len(answer) \in Nat /\ Len(bodies) \in Nat /\ Len(bodies) >= 1 /\ added \in Nat
  BY <1>1, EmptySeq, LenProperties
<1>3. p \in Pair
  <2>1. added + 1 \in 1 .. Len(answer)
    BY <1>1, <1>2
  <2>. QED  BY <1>1, <2>1, ElementOfSeq
<1>4. /\ Fits(list[L], p) /\ bodies' = [list EXCEPT ![L] = Add(@, p)] /\ place' = Append(place, L)
      /\ added' = added + 1 /\ answer' = answer /\ role = "list" /\ role' = "list"
      /\ UNCHANGED <<cur, bufs, net, wire, client>> /\ Asked
  BY DEF AppAdd, Last
<1>. HIDE DEF p
<1>5. EmptyBody \in Body /\ EmptyBody.pairs = <<>> /\ EmptyBody.len = 0
  BY DEF EmptyBody
<1>6. /\ list \in Seq(Body) /\ L \in Nat /\ L >= 1 /\ Len(bodies) <= L
      /\ \A i \in 1 .. L : i < L => i <= Len(bodies) /\ list[i] = bodies[i]
      /\ \/ L = Len(bodies) /\ list[L] = bodies[L]
         \/ L = Len(bodies) + 1 /\ list[L] = EmptyBody
  <2>. HIDE DEF Body
  <2>1. CASE Fits(Last(bodies), p)
    BY <1>1, <1>2, <2>1
  <2>2. CASE ~Fits(Last(bodies), p)
    <3>1. list = Append(bodies, EmptyBody)
      BY <2>2
    <3>2. /\ list \in Seq(Body) /\ L = Len(bodies) + 1 /\ list[L] = EmptyBody
          /\ \A i \in 1 .. Len(bodies) : list[i] = bodies[i]
      BY <1>1, <1>5, <3>1, AppendProperties
    <3>. QED  BY <1>2, <3>2
  <2>. QED  BY <2>1, <2>2
<1>. HIDE DEF list
<1>7. place \in Seq(Nat) /\ \A n \in 1 .. Len(place) : place[n] <= Len(bodies)
  <2>1. 1 .. Len(bodies) \subseteq Nat /\ \A n \in 1 .. Len(place) : place[n] \in 1 .. Len(bodies)
    BY <1>1, ElementOfSeq
  <2>. QED  BY <1>1, <2>1, SeqMonotonic
<1>8. list[L] \in Body
  <2>. HIDE DEF Body
  <2>1. L \in 1 .. L
    BY <1>6
  <2>. QED  BY <1>6, <2>1, ElementOfSeq
<1>9. /\ Flat(list[L].pairs) = Encoding(SentOf(place, answer, L))
      /\ list[L].len = Len(Flat(list[L].pairs))
  <2>1. CASE L = Len(bodies) /\ list[L] = bodies[L]
    BY <1>2, <2>1, SentIs DEF Inv, ListInv
  <2>2. CASE L = Len(bodies) + 1 /\ list[L] = EmptyBody
    <3>1. In(place, L) = {}
      <4>1. \A n \in 1 .. Len(place) : place[n] # L
        <5>1. \A n \in 1 .. Len(place) : place[n] \in Nat
          BY <1>7, ElementOfSeq
        <5>. QED  BY <1>2, <1>7, <2>2, <5>1
      <4>. QED  BY <1>7, <4>1, LenProperties DEF In
    <3>2. SentOf(place, answer, L) = <<>>
      <4>1. Len(place) <= Len(answer)
        BY <1>1, <1>2
      <4>. QED  BY <1>1, <1>6, <1>7, <3>1, <4>1, SentEmpty
    <3>. QED  BY <1>5, <2>2, <3>2, EncodingEmpty, FlatEmpty
  <2>. QED  BY <1>6, <2>1, <2>2
<1>10. /\ SentOf(place', answer, L) = Append(SentOf(place, answer, L), p)
       /\ \A i \in Nat : i < L => SentOf(place', answer, i) = SentOf(place, answer, i)
  <2>1. \A n \in 1 .. Len(place) : place[n] <= L
    <3>1. \A n \in 1 .. Len(place) : place[n] \in Nat
      BY <1>7, ElementOfSeq
    <3>. QED  BY <1>2, <1>6, <1>7, <3>1
  <2>2. Len(place) < Len(answer) /\ answer[Len(place) + 1] = p
    BY <1>1 DEF p
  <2>. QED  BY <1>1, <1>4, <1>6, <1>7, <2>1, <2>2, SentAppend
<1>11. SentOf(place, answer, L) \in Seq(Pair)
  <2>1. Len(place) <= Len(answer)
    BY <1>1, <1>2
  <2>. QED  BY <1>1, <1>6, <1>7, <2>1, SentType
<1>. DEFINE a == Add(list[L], p)
<1>12. /\ a.pairs \in Seq(Bytes) /\ Flat(a.pairs) = Cat(Flat(list[L].pairs), Encode(p))
       /\ a.len = list[L].len + PairLen(p) /\ a \in Body
  BY <1>3, <1>8, AddEncodes
<1>13. /\ bodies' \in Seq(Body) /\ Len(bodies') = L
       /\ \A i \in 1 .. L : bodies'[i] = IF i = L THEN a ELSE list[i]
  <2>1. L \in 1 .. L
    BY <1>6
  <2>. HIDE DEF Body, a
  <2>2. bodies' = [list EXCEPT ![L] = a]
    BY <1>4 DEF a
  <2>. QED  BY <1>6, <1>12, <2>1, <2>2, ExceptSeq
<1>14. a.len = Len(Flat(a.pairs)) /\ a.len <= MAX_LENGTH
  <2>1. Flat(list[L].pairs) \in Bytes /\ Len(Flat(list[L].pairs)) \in Nat
    <3>1. list[L].pairs \in Seq(Bytes)
      BY <1>8
    <3>. QED  BY <3>1, FlatType, LenProperties DEF Bytes
  <2>2. /\ Encode(p) \in Bytes /\ Len(Encode(p)) = PairLen(p) /\ PairLen(p) \in Nat
    BY <1>3, EncodeType
  <2>3. Len(Cat(Flat(list[L].pairs), Encode(p))) = Len(Flat(list[L].pairs)) + Len(Encode(p))
    BY <2>1, <2>2, CatType DEF Bytes
  <2>4. PairLen(p) + list[L].len <= MAX_LENGTH
    BY <1>4 DEF Fits
  <2>. HIDE DEF a
  <2>. QED  BY <1>1, <1>9, <1>12, <2>1, <2>2, <2>3, <2>4
<1>15. Flat(a.pairs) = Encoding(SentOf(place', answer, L))
  BY <1>3, <1>9, <1>10, <1>11, <1>12, EncodingAppend
<1>. HIDE DEF a, Body
<1>16. ListInv'
  <2>1. bodies' # <<>> /\ Len(place') = added'
    <3>1. bodies' # <<>>
      BY <1>6, <1>13, EmptySeq
    <3>2. Len(Append(place, L)) = Len(place) + 1
      BY <1>6, <1>7, AppendProperties
    <3>. QED  BY <1>1, <1>4, <3>1, <3>2
  <2>2. ASSUME NEW i \in 1 .. L
        PROVE  /\ Flat(bodies'[i].pairs) = Encoding(SentOf(place', answer, i))
               /\ bodies'[i].len = Len(Flat(bodies'[i].pairs))
               /\ bodies'[i].len <= MAX_LENGTH
    <3>1. CASE i = L
      BY <1>13, <1>14, <1>15, <3>1
    <3>2. CASE i # L
      <4>1. i \in Nat /\ i < L /\ i \in 1 .. Len(bodies) /\ bodies'[i] = bodies[i]
        BY <1>2, <1>6, <1>13, <3>2
      <4>2. SentOf(place', answer, i) = Sent(i)
        BY <1>10, <4>1, SentIs
      <4>. QED  BY <4>1, <4>2 DEF Inv, ListInv
    <3>. QED  BY <3>1, <3>2
  <2>3. \A i : Sent(i)' = SentOf(place', answer, i)
    BY <1>4 DEF Sent, SentOf, In, Before
  <2>. QED  BY <1>13, <2>1, <2>2, <2>3 DEF ListInv
<1>17. TypeOK'
  <2>1. answer' \in Seq(Pair) /\ added' \in 0 .. Len(answer')
    BY <1>1, <1>2, <1>4
  <2>2. cur' \in 1 .. Len(bodies') + 1
    <3>1. cur \in 1 .. Len(bodies) + 1
      BY DEF Inv, TypeOK
    <3>2. 1 .. Len(bodies) + 1 \subseteq 1 .. L + 1
      BY <1>2, <1>6
    <3>. QED  BY <1>4, <1>13, <3>1, <3>2
  <2>3. place' \in Seq(1 .. Len(bodies'))
    <3>1. 1 .. Len(bodies) \subseteq 1 .. L /\ L \in 1 .. L
      BY <1>2, <1>6
    <3>2. place \in Seq(1 .. L)
      BY <1>1, <3>1, SeqMonotonic
    <3>. QED  BY <1>4, <1>13, <3>1, <3>2, AppendProperties
  <2>. QED  BY <1>4, <1>13, <2>1, <2>2, <2>3 DEF Inv, TypeOK, client, Body
<1>18. BuildInv' /\ SentInv'
  BY <1>4 DEF Inv, BuildInv, SentInv, Silent, Unread, client
<1>19. ReadInv' /\ KeptInv' /\ PairsInv'
  BY <1>4, AppFrame
<1>. QED  BY <1>16, <1>17, <1>18, <1>19 DEF Inv

\* The records of the answer are records, and their headers say how long they are.
LEMMA RecordsType ==
    ASSUME TypeOK, ListInv
    PROVE  /\ Records \in Seq(Rec) /\ Len(Records) = Len(bodies) /\ Len(bodies) \in Nat
           /\ \A i \in 1 .. Len(bodies) :
                 /\ Records[i] = RecordOf(bodies[i]) /\ Records[i] \in Rec
                 /\ bodies[i].pairs \in Seq(Bytes) /\ Flat(bodies[i].pairs) = Records[i].body
                 /\ Header(Records[i]) = <<GetValuesResult, bodies[i].len, Padding(bodies[i].len)>>
                 /\ Len(Records[i].body) = bodies[i].len
<1>. DEFINE Body == [pairs : Seq(Bytes), len : Nat]
<1>1. bodies \in Seq(Body) /\ Len(bodies) \in Nat
  BY LenProperties DEF TypeOK
<1>2. \A i \in 1 .. Len(bodies) : bodies[i] \in Body
  <2>. HIDE DEF Body
  <2>. QED  BY <1>1, ElementOfSeq
<1>3. \A i \in 1 .. Len(bodies) : bodies[i].pairs \in Seq(Bytes) /\ Flat(bodies[i].pairs) \in Bytes
  BY <1>2, FlatType DEF Bytes
<1>4. \A i \in 1 .. Len(bodies) : RecordOf(bodies[i]) \in Rec
  BY <1>3 DEF RecordOf, Rec
<1>5. Records \in Seq(Rec) /\ Len(Records) = Len(bodies)
      /\ \A i \in 1 .. Len(bodies) : Records[i] = RecordOf(bodies[i])
  BY <1>1, <1>4 DEF Records
<1>6. ASSUME NEW i \in 1 .. Len(bodies)
      PROVE  /\ Header(Records[i]) = <<GetValuesResult, bodies[i].len, Padding(bodies[i].len)>>
             /\ Len(Records[i].body) = bodies[i].len
             /\ Flat(bodies[i].pairs) = Records[i].body
  <2>1. Records[i].type = GetValuesResult /\ Records[i].body = Flat(bodies[i].pairs)
    <3>1. Records[i] = RecordOf(bodies[i])
      BY <1>5
    <3>2. Records[i] = [type |-> GetValuesResult, body |-> Flat(bodies[i].pairs)]
      BY <3>1 DEF RecordOf
    <3>. QED  BY <3>2
  <2>2. bodies[i].len = Len(Flat(bodies[i].pairs))
    BY DEF ListInv
  <2>. QED  BY <2>1, <2>2 DEF Header
<1>. QED  BY <1>1, <1>3, <1>4, <1>5, <1>6

\* The first k + 1 records are the first k and one more.
LEMMA FrontRecords ==
    ASSUME NEW S, NEW q \in Seq(S), NEW k \in 0 .. Len(q)
    PROVE  /\ SubSeq(q, 1, k) \in Seq(S)
           /\ k < Len(q) => SubSeq(q, 1, k + 1) = Append(SubSeq(q, 1, k), q[k + 1])
           /\ SubSeq(q, 1, 0) = <<>> /\ SubSeq(q, 1, Len(q)) = q
<1>1. Len(q) \in Nat /\ \A i \in 1 .. Len(q) : q[i] \in S
  BY LenProperties, ElementOfSeq
<1>2. SubSeq(q, 1, k) \in Seq(S)
  BY <1>1, SubSeqProperties
<1>3. ASSUME k < Len(q) PROVE SubSeq(q, 1, k + 1) = Append(SubSeq(q, 1, k), q[k + 1])
  OBVIOUS
<1>. QED  BY <1>2, <1>3, SubSeqEmpty, SubSeqFull

\* An answer without a pair that fits; the list is done.
LEMMA AppListInv == ASSUME Inv, AppAddPanic \/ AppDone PROVE Inv'
<1>1. /\ Asked /\ role = "list" /\ role' \in {"panic", "record"} /\ net = "open"
      /\ UNCHANGED <<answer, added, bodies, place, cur, bufs, net, wire, client>>
  BY DEF AppAddPanic, AppDone, Asked
<1>2. TypeOK'
  BY <1>1 DEF Inv, TypeOK, client
<1>3. ListInv'
  BY <1>1, ListFrame DEF Inv
<1>4. Silent /\ cur = 1
  BY <1>1 DEF Inv, BuildInv
<1>5. Stream(SubSeq(Records, 1, 0)) = <<>>
  <2>1. SubSeq(Records, 1, 0) = <<>>
    BY SubSeqEmpty
  <2>. QED  BY <2>1, StreamEmpty
<1>6. Records' = Records /\ cur' - 1 = 0
  BY <1>1, <1>4 DEF Records
<1>7. BuildInv' /\ SentInv'
  BY <1>1, <1>4, <1>5, <1>6 DEF BuildInv, SentInv, Silent, Unread, client
<1>8. ReadInv' /\ KeptInv' /\ PairsInv'
  BY <1>1, AppFrame
<1>. QED  BY <1>2, <1>3, <1>7, <1>8 DEF Inv

\* What is written is bytes and the lengths in headers.
LEMMA BytesAreNat == ASSUME NEW b \in Bytes PROVE b \in Seq(Nat)
<1>1. 0 .. BYTE - 1 \subseteq Nat
  BY HalfType
<1>. QED  BY <1>1, SeqMonotonic DEF Bytes

\* Record::append: the header
LEMMA AppHeaderInv == ASSUME Inv, AppHeader PROVE Inv'
<1>1. /\ Asked /\ role = "record" /\ role' = "copy" /\ net = "open" /\ cur <= Len(bodies)
      /\ wire' = Cat(wire, <<GetValuesResult, bodies[cur].len, Padding(bodies[cur].len)>>)
      /\ bufs' = bodies[cur].pairs
      /\ UNCHANGED <<answer, added, bodies, place, cur, net, client>>
  BY DEF AppHeader, Asked, Cat
<1>2. cur \in 1 .. Len(bodies)
  BY <1>1 DEF Inv, TypeOK
<1>3. /\ Records \in Seq(Rec) /\ Len(Records) = Len(bodies) /\ Len(bodies) \in Nat
      /\ Records[cur] \in Rec /\ bodies[cur].pairs \in Seq(Bytes)
      /\ Flat(bodies[cur].pairs) = Records[cur].body
      /\ Header(Records[cur]) = <<GetValuesResult, bodies[cur].len, Padding(bodies[cur].len)>>
  BY <1>2, RecordsType DEF Inv
<1>. DEFINE w == Stream(SubSeq(Records, 1, cur - 1))
            h == Header(Records[cur])
            b == Records[cur].body
<1>4. Unread /\ wire = w
  BY <1>1 DEF Inv, BuildInv
<1>5. w \in Seq(Nat) /\ h \in Seq(Nat) /\ b \in Seq(Nat)
  <2>1. cur - 1 \in 0 .. Len(Records)
    BY <1>2, <1>3
  <2>2. SubSeq(Records, 1, cur - 1) \in Seq(Rec)
    BY <1>3, <2>1, FrontRecords
  <2>. QED  BY <1>3, <2>2, StreamType, HeaderType
<1>6. wire' = Cat(w, h)
  BY <1>1, <1>3, <1>4
<1>. HIDE DEF w, h, b
<1>7. Cat(Cat(w, h), b) = Cat(w, Cat(h, b)) /\ Cat(w, h) \in Seq(Nat)
  BY <1>5, CatAssoc, CatType
<1>8. TypeOK'
  BY <1>1, <1>3, <1>6, <1>7 DEF Inv, TypeOK, client
<1>9. ListInv'
  BY <1>1, ListFrame DEF Inv
<1>10. Flat(bufs') = b
  BY <1>1, <1>3 DEF b
<1>11. Records' = Records
  BY <1>1 DEF Records
<1>12. Cat(wire', Flat(bufs')) = Cat(w, Cat(h, b))
  BY <1>6, <1>7, <1>10
<1>13. Cat(wire', Flat(bufs')) =
          Cat(Stream(SubSeq(Records', 1, cur' - 1)), Cat(Header(Records'[cur']), Records'[cur'].body))
  BY <1>1, <1>11, <1>12 DEF w, h, b
<1>14. BuildInv' /\ SentInv'
  BY <1>1, <1>4, <1>13 DEF BuildInv, SentInv, Unread, client
<1>15. ReadInv' /\ KeptInv' /\ PairsInv'
  BY <1>1, AppFrame
<1>. QED  BY <1>8, <1>9, <1>14, <1>15 DEF Inv

\* NVBody::drain copies the front buffer.
LEMMA AppCopyInv == ASSUME Inv, AppCopy PROVE Inv'
<1>1. /\ Asked /\ role = "copy" /\ role' = "copy" /\ net = "open" /\ Remaining(bufs) > 0
      /\ wire' = Cat(wire, FirstBuf(bufs)) /\ bufs' = Advance(bufs, Len(FirstBuf(bufs)))
      /\ UNCHANGED <<answer, added, bodies, place, cur, net, client>>
  BY DEF AppCopy, Asked, Cat
<1>2. bufs \in Seq(Bytes) /\ wire \in Seq(Nat)
  BY DEF Inv, TypeOK
<1>3. bufs # <<>>
  <2>1. Remaining(bufs) = Len(Flat(bufs))
    BY <1>2, LenFlat DEF Bytes
  <2>2. Len(<<>>) = 0 /\ Flat(<<>>) = <<>>
    BY FlatEmpty
  <2>. QED  BY <1>1, <2>1, <2>2
<1>. DEFINE a == Head(bufs)
            t == Tail(bufs)
<1>4. a \in Bytes /\ t \in Seq(Bytes) /\ FirstBuf(bufs) = a /\ Len(a) \in Nat
  BY <1>2, <1>3, HeadTailProperties, LenProperties DEF FirstBuf, Bytes
<1>5. Flat(bufs) = Cat(a, Flat(t)) /\ Flat(t) \in Bytes
  BY <1>2, <1>3, <1>4, FlatHead, FlatType DEF Bytes
<1>6. bufs' = IF Len(a) = 0 THEN bufs ELSE t
  BY <1>1, <1>4 DEF Advance
<1>. HIDE DEF a, t
<1>7. a \in Seq(Nat) /\ Flat(t) \in Seq(Nat) /\ Flat(bufs) \in Seq(Nat)
  BY <1>4, <1>5, BytesAreNat, CatType
<1>8. bufs' \in Seq(Bytes) /\ wire' \in Seq(Nat)
  BY <1>1, <1>2, <1>4, <1>6, <1>7, CatType
<1>9. Cat(wire', Flat(bufs')) = Cat(wire, Flat(bufs))
  <2>1. CASE Len(a) = 0
    <3>1. a = <<>>
      BY <1>7, <2>1, EmptySeq
    <3>2. wire' = wire
      BY <1>1, <1>2, <1>4, <3>1, CatEmpty
    <3>. QED  BY <1>6, <2>1, <3>2
  <2>2. CASE Len(a) # 0
    <3>1. Cat(Cat(wire, a), Flat(t)) = Cat(wire, Cat(a, Flat(t)))
      BY <1>2, <1>7, CatAssoc
    <3>. QED  BY <1>1, <1>4, <1>5, <1>6, <2>2, <3>1
  <2>. QED  BY <2>1, <2>2
<1>10. TypeOK'
  BY <1>1, <1>8 DEF Inv, TypeOK, client
<1>11. ListInv'
  BY <1>1, ListFrame DEF Inv
<1>12. Records' = Records
  BY <1>1 DEF Records
<1>13. BuildInv' /\ SentInv'
  BY <1>1, <1>9, <1>12 DEF Inv, BuildInv, SentInv, Unread, client
<1>14. ReadInv' /\ KeptInv' /\ PairsInv'
  BY <1>1, AppFrame
<1>. QED  BY <1>10, <1>11, <1>13, <1>14 DEF Inv

\* Record::append: the padding
LEMMA AppPadInv == ASSUME Inv, AppPad PROVE Inv'
<1>1. /\ Asked /\ role = "copy" /\ role' = "record" /\ net = "open" /\ Remaining(bufs) = 0
      /\ wire' = Cat(wire, Zeros(Padding(bodies[cur].len))) /\ cur' = cur + 1
      /\ UNCHANGED <<answer, added, bodies, place, bufs, net, client>>
  BY DEF AppPad, Asked, Cat, Zeros
<1>2. cur \in 1 .. Len(bodies) /\ bufs \in Seq(Bytes) /\ wire \in Seq(Nat)
  BY <1>1 DEF Inv, TypeOK, BuildInv
<1>3. /\ Records \in Seq(Rec) /\ Len(Records) = Len(bodies) /\ Len(bodies) \in Nat
      /\ Records[cur] \in Rec /\ Len(Records[cur].body) = bodies[cur].len
  BY <1>2, RecordsType DEF Inv
<1>. DEFINE w == Stream(SubSeq(Records, 1, cur - 1))
            h == Header(Records[cur])
            b == Records[cur].body
            z == Zeros(Padding(bodies[cur].len))
<1>4. Unread /\ Cat(wire, Flat(bufs)) = Cat(w, Cat(h, b))
  BY <1>1 DEF Inv, BuildInv
<1>5. Flat(bufs) = <<>>
  <2>1. Remaining(bufs) = Len(Flat(bufs)) /\ Flat(bufs) \in Bytes
    BY <1>2, LenFlat, FlatType DEF Bytes
  <2>. QED  BY <1>1, <2>1, EmptySeq DEF Bytes
<1>6. wire = Cat(w, Cat(h, b))
  BY <1>2, <1>4, <1>5, CatEmpty
<1>7. cur - 1 \in 0 .. Len(Records) /\ cur - 1 < Len(Records) /\ (cur - 1) + 1 = cur
  BY <1>2, <1>3
<1>8. SubSeq(Records, 1, cur - 1) \in Seq(Rec)
      /\ SubSeq(Records, 1, cur) = Append(SubSeq(Records, 1, cur - 1), Records[cur])
  <2>1. PICK k \in 0 .. Len(Records) : k = cur - 1 /\ k < Len(Records) /\ k + 1 = cur
    BY <1>7
  <2>2. SubSeq(Records, 1, k) \in Seq(Rec)
        /\ SubSeq(Records, 1, k + 1) = Append(SubSeq(Records, 1, k), Records[k + 1])
    BY <1>3, <2>1, FrontRecords
  <2>. QED  BY <2>1, <2>2
<1>9. w \in Seq(Nat) /\ h \in Seq(Nat) /\ b \in Seq(Nat) /\ z \in Seq(Nat)
  BY <1>3, <1>8, StreamType, HeaderType, ZerosType
<1>10. Stream(SubSeq(Records, 1, cur)) = Cat(w, Frame(Records[cur]))
  BY <1>3, <1>8, StreamAppend
<1>11. Frame(Records[cur]) = Cat(Cat(h, b), z)
  BY <1>3 DEF Frame
<1>. HIDE DEF w, h, b, z
<1>12. Cat(h, b) \in Seq(Nat)
  BY <1>9, CatType
<1>13. Cat(Cat(w, Cat(h, b)), z) = Cat(w, Cat(Cat(h, b), z))
  BY <1>9, <1>12, CatAssoc
<1>14. wire' = Stream(SubSeq(Records, 1, cur))
  BY <1>1, <1>6, <1>10, <1>11, <1>13 DEF z
<1>15. wire' \in Seq(Nat) /\ cur' \in 1 .. Len(bodies) + 1
  BY <1>1, <1>2, <1>9, CatType DEF z
<1>16. TypeOK'
  BY <1>1, <1>15 DEF Inv, TypeOK, client
<1>17. ListInv'
  BY <1>1, ListFrame DEF Inv
<1>18. Records' = Records /\ cur' - 1 = cur
  BY <1>1, <1>2 DEF Records
<1>19. BuildInv' /\ SentInv'
  BY <1>1, <1>4, <1>14, <1>18 DEF BuildInv, SentInv, Unread, client
<1>20. ReadInv' /\ KeptInv' /\ PairsInv'
  BY <1>1, AppFrame
<1>. QED  BY <1>16, <1>17, <1>19, <1>20 DEF Inv

\* An answer all of which is under way arrives.
LEMMA ArrivesWhole ==
    ASSUME NEW q \in Seq(Rec), Unread', wire' = Stream(q) PROVE Arrives(q)'
<1>1. Stream(q) \in Seq(Nat) /\ <<>> \in Seq(Nat) /\ <<>> \in Seq(Rec)
  BY StreamType, EmptySeq
<1>2. Cat(Cat(<<>>, Stream(q)), <<>>) = Stream(q) /\ Cat(<<>>, q) = q
  BY <1>1, CatEmpty
<1>3. q = Cat(recs', q) /\ Cat(Cat(rbuf', wire'), <<>>) = Stream(q)
  BY <1>2 DEF Unread
<1>. QED  BY <1>1, <1>3 DEF Arrives

\* The list is sent.
LEMMA AppSendInv == ASSUME Inv, AppSend PROVE Inv'
<1>1. /\ Asked /\ role = "record" /\ role' = "sent" /\ net = "open" /\ cur > Len(bodies)
      /\ UNCHANGED <<answer, added, bodies, place, cur, bufs, net, wire, client>>
  BY DEF AppSend, Asked
<1>2. /\ Records \in Seq(Rec) /\ Len(Records) = Len(bodies) /\ Len(bodies) \in Nat
  BY RecordsType DEF Inv
<1>3. cur - 1 = Len(Records)
  <2>1. cur \in 1 .. Len(bodies) + 1
    BY DEF Inv, TypeOK
  <2>. QED  BY <1>1, <1>2, <2>1
<1>4. Unread /\ wire = Stream(Records)
  <2>1. Unread /\ wire = Stream(SubSeq(Records, 1, cur - 1))
    BY <1>1 DEF Inv, BuildInv
  <2>2. SubSeq(Records, 1, Len(Records)) = Records
    BY <1>2, SubSeqFull
  <2>. QED  BY <1>3, <2>1, <2>2
<1>5. TypeOK'
  BY <1>1 DEF Inv, TypeOK, client
<1>6. ListInv'
  BY <1>1, ListFrame DEF Inv
<1>7. Records' = Records /\ Unread'
  BY <1>1, <1>4 DEF Records, Unread, client
<1>8. Arrives(Records)'
  <2>1. PICK q \in Seq(Rec) : q = Records
    BY <1>2
  <2>2. Arrives(q)'
    BY <1>1, <1>4, <1>7, <2>1, ArrivesWhole
  <2>3. Records' = q
    BY <1>7, <2>1
  <2>. QED  BY <2>2, <2>3 DEF Arrives
<1>9. BuildInv' /\ SentInv'
  BY <1>1, <1>8 DEF BuildInv, SentInv
<1>10. ReadInv' /\ KeptInv' /\ PairsInv'
  BY <1>1, AppFrame
<1>. QED  BY <1>5, <1>6, <1>9, <1>10 DEF Inv

\* The UnknownType record is one.
LEMMA UnknownRecordType ==
    /\ UnknownRecord \in Rec /\ UnknownRecord.type = UnknownType
    /\ UnknownRecord.body = Zeros(UNKNOWN_LEN) /\ Len(UnknownRecord.body) = UNKNOWN_LEN
<1>1. UNKNOWN_LEN \in Nat /\ 0 \in 0 .. BYTE - 1
  BY LimitAssumption, HalfType
<1>2. Zeros(UNKNOWN_LEN) \in Bytes /\ Len(Zeros(UNKNOWN_LEN)) = UNKNOWN_LEN
  BY <1>1 DEF Zeros, Bytes
<1>. QED  BY <1>2 DEF UnknownRecord, Rec

\* Zeros behind zeros.
LEMMA ZerosSum == ASSUME NEW m \in Nat, NEW n \in Nat PROVE Zeros(m + n) = Cat(Zeros(m), Zeros(n))
<1>1. m + n \in Nat /\ Zeros(m) \in Seq(Nat) /\ Zeros(n) \in Seq(Nat) /\ Zeros(m + n) \in Seq(Nat)
      /\ Len(Zeros(m)) = m /\ Len(Zeros(n)) = n /\ Len(Zeros(m + n)) = m + n
  BY ZerosType
<1>. DEFINE c == Cat(Zeros(m), Zeros(n))
<1>2. c \in Seq(Nat) /\ Len(c) = m + n
  BY <1>1, CatType
<1>3. \A i \in 1 .. m + n : c[i] = 0
  <2>1. \A i \in 1 .. m + n : c[i] = IF i <= m THEN Zeros(m)[i] ELSE Zeros(n)[i - m]
    <3>1. PICK x \in Seq(Nat), y \in Seq(Nat) : x = Zeros(m) /\ y = Zeros(n) /\ Len(x) = m /\ Len(y) = n
      BY <1>1
    <3>2. \A i \in 1 .. m + n : (x \o y)[i] = IF i <= m THEN x[i] ELSE y[i - m]
      BY <3>1
    <3>. QED  BY <3>1, <3>2 DEF Cat
  <2>2. \A i \in 1 .. m + n : (i <= m => i \in 1 .. m) /\ (~(i <= m) => i - m \in 1 .. n)
    OBVIOUS
  <2>3. (\A i \in 1 .. m : Zeros(m)[i] = 0) /\ (\A i \in 1 .. n : Zeros(n)[i] = 0)
    BY DEF Zeros
  <2>. HIDE DEF c
  <2>. QED  BY <2>1, <2>2, <2>3
<1>4. \A i \in 1 .. m + n : Zeros(m + n)[i] = 0
  BY DEF Zeros
<1>. HIDE DEF c
<1>5. Zeros(m + n) = c
  BY <1>1, <1>2, <1>3, <1>4, SeqEqual
<1>. QED  BY <1>5 DEF c

\* The answer of an application that does not know GetValues.
LEMMA AppUnknownInv == ASSUME Inv, AppUnknown PROVE Inv'
<1>. DEFINE n == UNKNOWN_LEN
            m == Padding(UNKNOWN_LEN)
            h == <<UnknownType, n, m>>
            q == <<UnknownRecord>>
<1>1. /\ Asked /\ role = "list" /\ role' = "sent" /\ net = "open" /\ answer = <<>>
      /\ wire' = Cat(h, Zeros(n + m))
      /\ UNCHANGED <<answer, added, bodies, place, cur, bufs, net, client>>
  BY DEF AppUnknown, Asked, Cat, Zeros
<1>2. n \in Nat /\ m \in Nat
  BY LimitAssumption, PaddingType
<1>3. h = Header(UnknownRecord) /\ h \in Seq(Nat)
  BY UnknownRecordType, HeaderType DEF Header
<1>4. Frame(UnknownRecord) = Cat(Cat(h, Zeros(n)), Zeros(m))
  BY <1>3, UnknownRecordType DEF Frame
<1>. HIDE DEF n, m, h
<1>5. wire' = Frame(UnknownRecord)
  <2>1. Cat(Cat(h, Zeros(n)), Zeros(m)) = Cat(h, Cat(Zeros(n), Zeros(m)))
    BY <1>2, <1>3, ZerosType, CatAssoc
  <2>. QED  BY <1>1, <1>2, <1>4, <2>1, ZerosSum
<1>6. q \in Seq(Rec) /\ Stream(q) = Frame(UnknownRecord) /\ Frame(UnknownRecord) \in Seq(Nat)
  <2>1. UnknownRecord \in Rec /\ <<>> \in Seq(Rec) /\ q = Append(<<>>, UnknownRecord)
    BY UnknownRecordType, EmptySeq
  <2>2. Stream(Append(<<>>, UnknownRecord)) = Cat(<<>>, Frame(UnknownRecord))
    BY <2>1, StreamAppend, StreamEmpty
  <2>3. Frame(UnknownRecord) \in Seq(Nat)
    BY <2>1, FrameType
  <2>. QED  BY <2>1, <2>2, <2>3, CatEmpty
<1>. HIDE DEF q
<1>7. Unread'
  BY <1>1 DEF Inv, BuildInv, Silent, Unread, client
<1>8. Arrives(q)'
  <2>1. PICK x \in Seq(Rec) : x = q
    BY <1>6
  <2>2. Arrives(x)'
    BY <1>5, <1>6, <1>7, <2>1, ArrivesWhole
  <2>. QED  BY <2>1, <2>2
<1>9. TypeOK'
  BY <1>1, <1>5, <1>6 DEF Inv, TypeOK, client
<1>10. ListInv'
  BY <1>1, ListFrame DEF Inv
<1>11. BuildInv' /\ SentInv'
  BY <1>1, <1>8 DEF BuildInv, SentInv, q
<1>12. ReadInv' /\ KeptInv' /\ PairsInv'
  BY <1>1, AppFrame
<1>. QED  BY <1>9, <1>10, <1>11, <1>12 DEF Inv

\* What arrives still does if the end of it is lost.
LEMMA ArrivesCut ==
    ASSUME NEW q, TypeOK, Arrives(q), NEW w \in Seq(Nat), NEW v \in Seq(Nat), wire = Cat(w, v),
           wire' = w, rbuf' = rbuf, recs' = recs
    PROVE  Arrives(q)'
<1>1. PICK left \in Seq(Rec), more \in Seq(Nat) :
            q = Cat(recs, left) /\ Cat(Cat(rbuf, wire), more) = Stream(left)
  BY DEF Arrives
<1>2. rbuf \in Seq(Nat)
  BY DEF TypeOK
<1>3. Cat(rbuf, Cat(w, v)) = Cat(Cat(rbuf, w), v) /\ Cat(rbuf, w) \in Seq(Nat)
  BY <1>2, CatAssoc, CatType
<1>4. Cat(Cat(Cat(rbuf, w), v), more) = Cat(Cat(rbuf, w), Cat(v, more)) /\ Cat(v, more) \in Seq(Nat)
  BY <1>3, CatAssoc, CatType
<1>5. Cat(Cat(rbuf', wire'), Cat(v, more)) = Stream(left)
  BY <1>1, <1>3, <1>4
<1>. QED  BY <1>1, <1>4, <1>5 DEF Arrives

\* The application is gone; what is under way may be lost from some point on.
LEMMA AppGoneInv == ASSUME Inv, AppClose \/ AppReset PROVE Inv'
<1>1. /\ net = "open" /\ net' \in {"eof", "reset"} /\ UNCHANGED <<appl, client>>
      /\ \E n \in IF role = "sent" THEN 0 .. Len(wire) ELSE {0} : wire' = SubSeq(wire, 1, n)
  <2>1. CASE AppClose
    BY <2>1 DEF AppClose
  <2>2. CASE AppReset
    <3>1. SubSeq(wire, 1, 0) = <<>>
      BY SubSeqEmpty
    <3>2. 0 \in IF role = "sent" THEN 0 .. Len(wire) ELSE {0}
      BY LenProperties DEF Inv, TypeOK
    <3>. QED  BY <2>2, <3>1, <3>2 DEF AppReset
  <2>. QED  BY <2>1, <2>2
<1>2. wire \in Seq(Nat) /\ Len(wire) \in Nat
  BY LenProperties DEF Inv, TypeOK
<1>3. PICK n \in 0 .. Len(wire) : wire' = SubSeq(wire, 1, n) /\ (role # "sent" => n = 0)
  BY <1>1, <1>2
<1>4. PICK w \in Seq(Nat), v \in Seq(Nat) : wire' = w /\ wire = Cat(w, v) /\ Len(w) = n
  <2>1. /\ SubSeq(wire, 1, n) \in Seq(Nat) /\ Beyond(wire, n) \in Seq(Nat)
        /\ Len(SubSeq(wire, 1, n)) = n /\ Cat(SubSeq(wire, 1, n), Beyond(wire, n)) = wire
    BY <1>2, CatCut
  <2>2. wire' \in Seq(Nat) /\ Len(wire') = n /\ wire = Cat(wire', Beyond(wire, n))
    BY <1>3, <2>1
  <2>. QED  BY <2>1, <2>2
<1>5. TypeOK'
  BY <1>1, <1>4 DEF Inv, TypeOK, appl, client
<1>6. ListInv'
  BY <1>1, ListFrame DEF Inv, appl
<1>7. role # "sent" => Unread
  BY <1>1 DEF Inv, TypeOK, BuildInv, Silent
<1>8. role # "sent" => wire' = <<>>
  BY <1>3, <1>4, EmptySeq
<1>9. BuildInv'
  BY <1>1, <1>7, <1>8 DEF Inv, BuildInv, Silent, Unread, appl, client
<1>10. SentInv'
  <2>1. \A q : Arrives(q) => Arrives(q)'
    <3>. SUFFICES ASSUME NEW q, Arrives(q) PROVE Arrives(q)'
      OBVIOUS
    <3>1. TypeOK /\ rbuf' = rbuf /\ recs' = recs
      BY <1>1 DEF Inv, client
    <3>. QED  BY <1>4, <3>1, ArrivesCut
  <2>2. Records' = Records /\ role' = role /\ answer' = answer
    BY <1>1 DEF Records, appl
  <2>. QED  BY <2>1, <2>2 DEF Inv, SentInv
<1>11. ReadInv'
  <2>1. stage \in {"connect", "query"} => wire' = <<>> /\ Unread
    BY <1>7, <1>8 DEF Inv, ReadInv
  <2>. QED  BY <1>1, <2>1 DEF Inv, ReadInv, Silent, Unread, appl, client
<1>12. KeptInv' /\ PairsInv'
  <2>1. \A i : Sent(i)' = Sent(i)
    BY <1>1 DEF Sent, appl
  <2>. QED  BY <1>1, <2>1 DEF Inv, KeptInv, PairsInv, client
<1>. QED  BY <1>5, <1>6, <1>9, <1>10, <1>11, <1>12 DEF Inv

\* The steps of new_with_strategy that take nothing: connect, query, the end of the
\* answer, of a record and of all records, and the errors.
LEMMA QuietInv ==
    ASSUME Inv, Connect \/ Query \/ ReadFail \/ ReadNone \/ PairPanic \/ EndPairs \/ Open
    PROVE  Inv'
<1>1. UNCHANGED <<appl, net, wire, rbuf, recs, kvs, max_cons, max_req_per_con, seen>>
  BY DEF Connect, Query, ReadFail, ReadNone, PairPanic, EndPairs, Open
<1>2. /\ stage' \in Stage
      /\ stage' \in {"connect", "query", "read", "parse"} => stage \in {"connect", "query", "read", "parse"}
      /\ stage' \in {"connect", "query"} => stage \in {"connect", "query"}
      /\ stage' \in {"pairs", "panic"} => stage = "pairs"
      /\ stage' = "panic" => kvs # <<>> /\ ~Parsable(kvs)
  BY DEF Connect, Query, ReadFail, ReadNone, PairPanic, EndPairs, Open, Stage
<1>3. TypeOK'
  BY <1>1, <1>2 DEF Inv, TypeOK, appl
<1>4. ListInv'
  BY <1>1, ListFrame DEF Inv, appl
<1>5. BuildInv' /\ SentInv'
  BY <1>1, WayFrame DEF Inv, appl
<1>6. ReadInv'
  BY <1>1, <1>2 DEF Inv, ReadInv, Silent, Unread, appl
<1>7. KeptInv' /\ PairsInv'
  <2>1. \A i : Sent(i)' = Sent(i)
    BY <1>1 DEF Sent, appl
  <2>. QED  BY <1>1, <1>2, <2>1 DEF Inv, KeptInv, PairsInv
<1>. QED  BY <1>3, <1>4, <1>5, <1>6, <1>7 DEF Inv

\* The smaller of two numbers is not larger than the first.
LEMMA MinOfTwo == ASSUME NEW a \in Nat, NEW b \in Nat PROVE Min({a, b}) \in Nat /\ Min({a, b}) <= a
<1>1. \E x \in {a, b} : \A y \in {a, b} : x <= y
  OBVIOUS
<1>2. Min({a, b}) \in {a, b} /\ \A y \in {a, b} : Min({a, b}) <= y
  BY <1>1 DEF Min
<1>. QED  BY <1>2

\* read_buf takes a front part of what is under way, or nothing.
LEMMA ReadBufInv == ASSUME Inv, ReadBuf PROVE Inv'
<1>1. /\ stage = "read" /\ stage' = "parse"
      /\ UNCHANGED <<appl, net, recs, kvs, max_cons, max_req_per_con, seen>>
  BY DEF ReadBuf
<1>2. rbuf \in Seq(Nat) /\ wire \in Seq(Nat) /\ Len(wire) \in Nat /\ Len(recs) \in Nat
  BY LenProperties DEF Inv, TypeOK
<1>3. \/ UNCHANGED <<rbuf, wire>>
      \/ /\ role = "sent"
         /\ \E w \in Seq(Nat), v \in Seq(Nat) : wire = Cat(w, v) /\ wire' = v /\ rbuf' = Cat(rbuf, w)
  <2>. SUFFICES ASSUME ~UNCHANGED <<rbuf, wire>>
                PROVE  /\ role = "sent"
                       /\ \E w \in Seq(Nat), v \in Seq(Nat) :
                             wire = Cat(w, v) /\ wire' = v /\ rbuf' = Cat(rbuf, w)
    OBVIOUS
  <2>1. /\ role = "sent" \/ net = "eof"
        /\ \E n \in 1 .. Min({Len(wire), ReadCap}) :
              rbuf' = rbuf \o SubSeq(wire, 1, n) /\ wire' = SubSeq(wire, n + 1, Len(wire))
    BY DEF ReadBuf
  <2>2. PICK n \in 1 .. Min({Len(wire), ReadCap}) :
              rbuf' = Cat(rbuf, SubSeq(wire, 1, n)) /\ wire' = Beyond(wire, n)
    BY <2>1 DEF Beyond, Cat
  <2>3. n \in 1 .. Len(wire) /\ n \in 0 .. Len(wire)
    <3>1. Min({Len(wire), ReadCap}) \in Nat /\ Min({Len(wire), ReadCap}) <= Len(wire)
      BY <1>2, MinOfTwo, LimitAssumption
    <3>. QED  BY <1>2, <3>1
  <2>4. role = "sent"
    <3>1. wire # <<>>
      BY <1>2, <2>3, EmptySeq
    <3>. QED  BY <2>1, <3>1 DEF Inv, TypeOK, BuildInv, Silent
  <2>5. /\ SubSeq(wire, 1, n) \in Seq(Nat) /\ Beyond(wire, n) \in Seq(Nat)
        /\ Cat(SubSeq(wire, 1, n), Beyond(wire, n)) = wire
    BY <1>2, <2>3, CatCut
  <2>. QED  BY <2>2, <2>4, <2>5
<1>4. rbuf' \in Seq(Nat) /\ wire' \in Seq(Nat) /\ (role # "sent" => UNCHANGED <<rbuf, wire>>)
  BY <1>2, <1>3, CatType
<1>5. TypeOK'
  BY <1>1, <1>4 DEF Inv, TypeOK, Stage, appl
<1>6. ListInv'
  BY <1>1, ListFrame DEF Inv, appl
<1>7. Records' = Records
  BY <1>1 DEF Records, appl
<1>8. BuildInv'
  BY <1>1, <1>4, <1>7 DEF Inv, BuildInv, Silent, Unread, appl
<1>9. \A q : Arrives(q) => Arrives(q)'
  <2>. SUFFICES ASSUME NEW q, Arrives(q) PROVE Arrives(q)'
    OBVIOUS
  <2>1. CASE UNCHANGED <<rbuf, wire>>
    BY <1>1, <2>1 DEF Arrives
  <2>2. ASSUME NEW w \in Seq(Nat), NEW v \in Seq(Nat),
               wire = Cat(w, v), wire' = v, rbuf' = Cat(rbuf, w)
        PROVE  Arrives(q)'
    <3>1. Cat(rbuf', wire') = Cat(rbuf, wire)
      BY <1>2, <2>2, CatAssoc
    <3>. QED  BY <1>1, <3>1 DEF Arrives
  <2>. QED  BY <1>3, <2>1, <2>2
<1>10. SentInv'
  BY <1>1, <1>7, <1>9 DEF Inv, SentInv, appl
<1>11. ReadInv' /\ KeptInv' /\ PairsInv'
  BY <1>1, <1>2, ClientFrame DEF Inv
<1>. QED  BY <1>5, <1>6, <1>8, <1>10, <1>11 DEF Inv

\* Record::read takes the next of the records that arrive.
LEMMA ArrivesNext ==
    ASSUME TypeOK, NEW q, Arrives(q), Complete(rbuf), ReadRecord
    PROVE  /\ Arrives(q)' /\ rbuf' \in Seq(Nat) /\ recs' \in Seq(Rec)
<1>1. rbuf \in Seq(Nat) /\ wire \in Seq(Nat) /\ recs \in Seq(Rec)
  BY DEF TypeOK, Rec
<1>2. PICK left \in Seq(Rec), more \in Seq(Nat) :
            q = Cat(recs, left) /\ Cat(Cat(rbuf, wire), more) = Stream(left)
  BY DEF Arrives
<1>3. Cat(rbuf, Cat(wire, more)) = Stream(left) /\ Cat(wire, more) \in Seq(Nat)
  BY <1>1, <1>2, CatAssoc, CatType
<1>4. left # <<>>
  <2>. SUFFICES ASSUME left = <<>> PROVE FALSE
    OBVIOUS
  <2>1. Cat(rbuf, Cat(wire, more)) = <<>>
    BY <1>3, StreamEmpty
  <2>2. Len(rbuf) \in Nat /\ Len(Cat(wire, more)) \in Nat
        /\ Len(Cat(rbuf, Cat(wire, more))) = Len(rbuf) + Len(Cat(wire, more))
    BY <1>1, <1>3, CatType, LenProperties
  <2>3. Len(rbuf) >= 3
    BY DEF Complete, HEADER_LEN
  <2>. QED  BY <2>1, <2>2, <2>3, EmptySeq
<1>5. PICK r \in Rec, t \in Seq(Rec) : r = Head(left) /\ t = Tail(left) /\ left = Cat(<<r>>, t)
                                       /\ <<r>> \in Seq(Rec)
  BY <1>4, CatHead
<1>6. Stream(left) = Cat(Frame(r), Stream(t)) /\ Stream(t) \in Seq(Nat)
  BY <1>4, <1>5, StreamHead, StreamType
<1>. DEFINE v == SubSeq(rbuf, HEADER_LEN + rbuf[2] + rbuf[3] + 1, Len(rbuf))
<1>7. /\ [type |-> rbuf[1], body |-> SubSeq(rbuf, HEADER_LEN + 1, HEADER_LEN + rbuf[2])] = r
      /\ v \in Seq(Nat) /\ Cat(v, Cat(wire, more)) = Stream(t)
  BY <1>1, <1>3, <1>6, FrameRead
<1>8. recs' = Append(recs, r) /\ rbuf' = v /\ wire' = wire
  BY <1>7 DEF ReadRecord
<1>. HIDE DEF v
<1>9. recs' = Cat(recs, <<r>>) /\ recs' \in Seq(Rec)
  BY <1>1, <1>8, AppendIsConcat, AppendProperties DEF Cat
<1>10. q = Cat(recs', t)
  <2>1. PICK e \in Seq(Rec) : e = <<r>>
    BY <1>5
  <2>2. Cat(Cat(recs, e), t) = Cat(recs, Cat(e, t))
    BY <1>1, CatAssoc
  <2>. QED  BY <1>2, <1>5, <1>9, <2>1, <2>2
<1>11. Cat(Cat(rbuf', wire'), more) = Stream(t)
  BY <1>1, <1>7, <1>8, CatAssoc
<1>. QED  BY <1>7, <1>8, <1>9, <1>10, <1>11 DEF Arrives

\* Record::read and parse_body
LEMMA ReadRecordInv == ASSUME Inv, ReadRecord PROVE Inv'
<1>1. /\ stage = "parse" /\ stage' = "parse" /\ Complete(rbuf)
      /\ UNCHANGED <<appl, net, wire, kvs, max_cons, max_req_per_con, seen>>
  BY DEF ReadRecord
<1>2. role = "sent"
  <2>1. Len(rbuf) >= 3
    BY <1>1 DEF Complete, HEADER_LEN
  <2>2. rbuf # <<>>
    BY <2>1, EmptySeq
  <2>. QED  BY <2>2 DEF Inv, TypeOK, BuildInv, Silent, Unread
<1>3. \A q : Arrives(q) => Arrives(q)' /\ rbuf' \in Seq(Nat) /\ recs' \in Seq(Rec)
  BY <1>1, ArrivesNext DEF Inv
<1>4. Records' = Records
  BY <1>1 DEF Records, appl
<1>5. SentInv' /\ rbuf' \in Seq(Nat) /\ recs' \in Seq(Rec)
  BY <1>1, <1>2, <1>3, <1>4 DEF Inv, SentInv, appl
<1>6. TypeOK'
  BY <1>1, <1>5 DEF Inv, TypeOK, Rec, appl
<1>7. ListInv'
  BY <1>1, ListFrame DEF Inv, appl
<1>8. BuildInv'
  BY <1>1, <1>2 DEF BuildInv, appl
<1>9. ReadInv' /\ KeptInv' /\ PairsInv'
  <2>1. Len(recs') \in Nat
    BY <1>5, LenProperties
  <2>. QED  BY <1>1, <2>1, ClientFrame DEF Inv
<1>. QED  BY <1>5, <1>6, <1>7, <1>8, <1>9 DEF Inv

\* The pairs sent in a record that was read.
LEMMA SentPairs == ASSUME TypeOK, ListInv, NEW i \in Nat PROVE Sent(i) \in Seq(Pair)
<1>1. place \in Seq(Nat)
  <2>1. place \in Seq(1 .. Len(bodies)) /\ 1 .. Len(bodies) \subseteq Nat
    BY DEF TypeOK
  <2>. QED  BY <2>1, SeqMonotonic
<1>2. answer \in Seq(Pair) /\ Len(place) <= Len(answer)
  BY LenProperties DEF TypeOK, ListInv
<1>3. SentOf(place, answer, i) \in Seq(Pair)
  BY <1>1, <1>2, SentType
<1>. QED  BY <1>3, SentIs

\* A GetValuesResult that was read is the record of that number.
LEMMA RecordIs ==
    ASSUME TypeOK, ListInv, BuildInv, SentInv, NEW i \in 1 .. Len(recs),
           recs[i].type = GetValuesResult
    PROVE  /\ i \in 1 .. Len(bodies) /\ recs[i].body = Encoding(Sent(i))
           /\ role = "sent" /\ Arrives(Records)
<1>1. recs \in Seq(Rec) /\ Len(recs) \in Nat /\ i \in Nat
  BY LenProperties DEF TypeOK, Rec
<1>2. role = "sent"
  <2>1. recs # <<>>
    BY <1>1, EmptySeq
  <2>. QED  BY <2>1 DEF TypeOK, BuildInv, Silent, Unread
<1>3. \A q \in Seq(Rec) : Arrives(q) => i \in 1 .. Len(q) /\ q[i] = recs[i]
  <2>. SUFFICES ASSUME NEW q \in Seq(Rec), Arrives(q) PROVE i \in 1 .. Len(q) /\ q[i] = recs[i]
    OBVIOUS
  <2>1. PICK left \in Seq(Rec) : q = Cat(recs, left)
    BY DEF Arrives
  <2>2. Len(Cat(recs, left)) = Len(recs) + Len(left) /\ Len(left) \in Nat
    BY <1>1, CatType, LenProperties
  <2>3. Cat(recs, left)[i] = recs[i]
    BY <1>1, CatElements
  <2>. QED  BY <1>1, <2>1, <2>2, <2>3
<1>4. Arrives(Records)
  <2>. SUFFICES ASSUME Arrives(<<UnknownRecord>>) PROVE FALSE
    BY <1>2 DEF SentInv
  <2>1. <<UnknownRecord>> \in Seq(Rec)
    BY UnknownRecordType
  <2>2. i \in 1 .. Len(<<UnknownRecord>>) /\ <<UnknownRecord>>[i] = recs[i]
    BY <1>3, <2>1
  <2>3. recs[i] = UnknownRecord
    BY <2>2
  <2>. QED  BY <2>3, UnknownRecordType DEF GetValuesResult, UnknownType
<1>5. /\ Records \in Seq(Rec) /\ Len(Records) = Len(bodies)
      /\ \A k \in 1 .. Len(bodies) : Flat(bodies[k].pairs) = Records[k].body
  BY RecordsType
<1>6. i \in 1 .. Len(bodies) /\ recs[i] = Records[i]
  BY <1>3, <1>4, <1>5
<1>7. Flat(bodies[i].pairs) = Encoding(Sent(i))
  BY <1>6 DEF ListInv
<1>. QED  BY <1>2, <1>4, <1>5, <1>6, <1>7

\* The next record, or one that is skipped.
LEMMA NextRecordInv == ASSUME Inv, NextRecord PROVE Inv'
<1>. DEFINE i == Len(seen) + 1
            r == recs[i]
<1>1. /\ stage = "values" /\ stage' = "pairs" /\ Len(seen) < Len(recs)
      /\ kvs' = (IF r.type = GetValuesResult THEN r.body ELSE <<>>) /\ seen' = Append(seen, <<>>)
      /\ UNCHANGED <<appl, net, wire, rbuf, recs, max_cons, max_req_per_con>>
  BY DEF NextRecord
<1>2. seen \in Seq(Seq(Pair)) /\ Len(seen) \in Nat /\ recs \in Seq(Rec) /\ Len(recs) \in Nat
  BY LenProperties DEF Inv, TypeOK, Rec
<1>3. i \in 1 .. Len(recs) /\ i \in Nat
  BY <1>1, <1>2
<1>4. r \in Rec
  BY <1>2, <1>3, ElementOfSeq
<1>5. <<>> \in Seq(Pair) /\ <<>> \in Bytes
  BY EmptySeq DEF Bytes
<1>6. /\ seen' \in Seq(Seq(Pair)) /\ Len(seen') = i /\ seen'[i] = <<>> /\ seen' # <<>>
      /\ \A k \in 1 .. Len(seen) : seen'[k] = seen[k]
  <2>1. /\ seen' \in Seq(Seq(Pair)) /\ Len(seen') = Len(seen) + 1 /\ seen'[Len(seen) + 1] = <<>>
        /\ seen' # <<>>
    BY <1>1, <1>2, <1>5, AppendProperties
  <2>2. \A k \in 1 .. Len(seen) : seen'[k] = seen[k]
    BY <1>1, <1>2, <1>5, AppendProperties
  <2>. QED  BY <2>1, <2>2
<1>7. kvs' \in Bytes
  BY <1>1, <1>4, <1>5 DEF Rec
<1>8. TypeOK'
  BY <1>1, <1>6, <1>7 DEF Inv, TypeOK, Stage, appl
<1>9. ListInv'
  BY <1>1, ListFrame DEF Inv, appl
<1>10. BuildInv' /\ SentInv'
  BY <1>1, WayFrame DEF Inv, appl
<1>11. \A k : Sent(k)' = Sent(k)
  BY <1>1 DEF Sent, appl
<1>12. Sent(i) \in Seq(Pair)
  BY <1>3, SentPairs DEF Inv
<1>13. Sent(i) = Cat(<<>>, Sent(i))
  BY <1>12, CatEmpty
<1>14. ReadInv'
  BY <1>1, <1>2, <1>3, <1>6 DEF ReadInv
<1>15. KeptInv'
  <2>. SUFFICES ASSUME NEW k \in 1 .. i, recs[k].type = GetValuesResult
                PROVE  \E rest \in Seq(Pair) : Sent(k) = Cat(seen'[k], rest)
    BY <1>1, <1>6, <1>11 DEF KeptInv
  <2>1. CASE k = i
    BY <1>6, <1>12, <1>13, <2>1
  <2>2. CASE k # i
    <3>1. k \in 1 .. Len(seen)
      BY <1>2, <2>2
    <3>. QED  BY <1>6, <3>1 DEF Inv, KeptInv
  <2>. QED  BY <2>1, <2>2
<1>16. PairsInv'
  <2>1. kvs' # <<>> => r.type = GetValuesResult
    BY <1>1
  <2>2. ASSUME r.type = GetValuesResult PROVE InPairs(kvs', <<>>, Sent(i))
    <3>1. r.body = Encoding(Sent(i))
      BY <1>3, <2>2, RecordIs DEF Inv
    <3>2. kvs' = Encoding(Sent(i))
      BY <1>1, <2>2, <3>1
    <3>3. \A j \in 1 .. Len(<<>>) : FALSE
      BY EmptySeq
    <3>4. Whole(kvs', <<>>, Sent(i))
      BY <3>2, <3>3 DEF Whole
    <3>. QED  BY <1>12, <1>13, <3>4 DEF InPairs
  <2>3. Len(seen') = i /\ recs'[Len(seen')] = r /\ seen'[Len(seen')] = <<>> /\ seen' # <<>>
    BY <1>1, <1>6
  <2>. HIDE DEF i, r
  <2>. QED  BY <2>1, <2>2, <2>3, <1>11 DEF PairsInv
<1>. QED  BY <1>8, <1>9, <1>10, <1>14, <1>15, <1>16 DEF Inv

\* A limit that was parsed fits its integer type.
LEMMA ChosenType ==
    ASSUME NEW limit, NEW now \in 0 .. limit - 1, NEW text
    PROVE  Chosen(now, ParseInt(text, limit)) \in 0 .. limit - 1
<1>1. ParseInt(text, limit) \subseteq 0 .. limit - 1
  BY DEF ParseInt
<1>2. CASE ParseInt(text, limit) = {}
  BY <1>2 DEF Chosen
<1>3. CASE ParseInt(text, limit) # {}
  <2>1. (CHOOSE v \in ParseInt(text, limit) : TRUE) \in ParseInt(text, limit)
    BY <1>3
  <2>. QED  BY <1>1, <1>3, <2>1 DEF Chosen
<1>. QED  BY <1>2, <1>3

\* So do the limits the pool works with.
LEMMA LimitsType ==
    ASSUME max_cons \in 0 .. U8 - 1, max_req_per_con \in 0 .. U16 - 1, NEW p
    PROVE  MaxCons(p) \in 0 .. U8 - 1 /\ MaxReqPerCon(p) \in 0 .. U16 - 1
<1>1. MaxCons(p) \in 0 .. U8 - 1
  BY ChosenType DEF MaxCons
<1>2. 1 \in 0 .. U16 - 1
  BY LimitAssumption
<1>3. NoMultiplex(p) => p.name # MAX_REQS
  BY NameAssumption DEF NoMultiplex
<1>4. MaxReqPerCon(p) \in 0 .. U16 - 1
  BY <1>2, <1>3, ChosenType DEF MaxReqPerCon
<1>. QED  BY <1>1, <1>4

\* NVDrain::next takes the first of the pairs that are left.
LEMMA TakesNext ==
    ASSUME Inv, NextPair
    PROVE  \E h \in Pair, rest \in Seq(Pair) :
               /\ Parse(kvs) = h /\ Rest(kvs) = Encoding(rest)
               /\ recs[Len(seen)].type = GetValuesResult
               /\ Sent(Len(seen)) = Cat(Append(seen[Len(seen)], h), rest)
               /\ \A j \in 1 .. Len(seen[Len(seen)]) : ~NoMultiplex(seen[Len(seen)][j])
<1>. DEFINE took == seen[Len(seen)]
            sent == Sent(Len(seen))
<1>1. stage = "pairs" /\ kvs # <<>> /\ Parsable(kvs)
  BY DEF NextPair
<1>2. seen # <<>> /\ recs[Len(seen)].type = GetValuesResult /\ InPairs(kvs, took, sent)
  BY <1>1 DEF Inv, PairsInv
<1>3. took \in Seq(Pair)
  <2>1. seen \in Seq(Seq(Pair)) /\ Len(seen) \in 1 .. Len(seen)
    BY <1>2, EmptySeq DEF Inv, TypeOK
  <2>. QED  BY <2>1, ElementOfSeq
<1>. HIDE DEF took, sent
<1>4. PICK all \in Seq(Pair) : sent = Cat(took, all) /\ Whole(kvs, took, all)
  BY <1>1, <1>2 DEF InPairs, Broken
<1>5. all # <<>>
  BY <1>1, <1>4, EncodingEmpty DEF Whole
<1>6. PICK h \in Pair, rest \in Seq(Pair) :
            h = Head(all) /\ rest = Tail(all) /\ all = Cat(<<h>>, rest) /\ <<h>> \in Seq(Pair)
  BY <1>5, CatHead
<1>7. kvs = Cat(Encode(h), Encoding(rest)) /\ Encoding(rest) \in Bytes
  BY <1>4, <1>5, <1>6, EncodingHead, EncodingType DEF Whole
<1>8. Parse(kvs) = h /\ Rest(kvs) = Encoding(rest)
  BY <1>1, <1>7, Decodes
<1>9. sent = Cat(Append(took, h), rest)
  <2>1. PICK e \in Seq(Pair) : e = <<h>>
    BY <1>6
  <2>2. Cat(Cat(took, e), rest) = Cat(took, Cat(e, rest))
    BY <1>3, CatAssoc
  <2>3. Append(took, h) = Cat(took, e)
    BY <1>3, <2>1, AppendIsConcat DEF Cat
  <2>. QED  BY <1>4, <1>6, <2>1, <2>2, <2>3
<1>10. \A j \in 1 .. Len(took) : ~NoMultiplex(took[j])
  BY <1>4 DEF Whole
<1>11. h \in Pair /\ rest \in Seq(Pair)
  OBVIOUS
<1>. QED  BY <1>2, <1>8, <1>9, <1>10, <1>11 DEF took, sent

\* NVDrain::next and the match on the name
LEMMA NextPairInv == ASSUME Inv, NextPair PROVE Inv'
<1>. DEFINE k == Len(seen)
            took == seen[k]
<1>1. /\ stage = "pairs" /\ kvs # <<>>
      /\ max_cons' = MaxCons(Parse(kvs)) /\ max_req_per_con' = MaxReqPerCon(Parse(kvs))
      /\ kvs' = Behind(Parse(kvs)) /\ seen' = [seen EXCEPT ![k] = Append(took, Parse(kvs))]
      /\ UNCHANGED <<appl, net, wire, stage, rbuf, recs>>
  BY DEF NextPair
<1>2. PICK h \in Pair, rest \in Seq(Pair) :
            /\ Parse(kvs) = h /\ Rest(kvs) = Encoding(rest) /\ recs[k].type = GetValuesResult
            /\ Sent(k) = Cat(Append(took, h), rest)
            /\ \A j \in 1 .. Len(took) : ~NoMultiplex(took[j])
  BY TakesNext
<1>3. seen # <<>> /\ seen \in Seq(Seq(Pair))
  BY <1>1 DEF Inv, PairsInv, TypeOK
<1>4. k \in 1 .. k /\ k \in Nat /\ took \in Seq(Pair)
  <2>1. k \in 1 .. k /\ k \in Nat
    BY <1>3, EmptySeq
  <2>. QED  BY <1>3, <2>1, ElementOfSeq
<1>. DEFINE new == Append(took, h)
<1>5. /\ new \in Seq(Pair) /\ new # <<>> /\ Len(new) = Len(took) + 1 /\ new[Len(took) + 1] = h
      /\ \A j \in 1 .. Len(took) : new[j] = took[j]
  BY <1>4, AppendProperties
<1>6. seen' = [seen EXCEPT ![k] = new]
  BY <1>1, <1>2
<1>. HIDE DEF new
<1>7. /\ seen' \in Seq(Seq(Pair)) /\ Len(seen') = k /\ seen'[k] = new
      /\ \A i \in 1 .. k : i # k => seen'[i] = seen[i]
  BY <1>3, <1>4, <1>5, <1>6, ExceptSeq
<1>8. kvs' = (IF NoMultiplex(h) THEN <<>> ELSE Encoding(rest)) /\ kvs' \in Bytes
  <2>1. Encoding(rest) \in Bytes /\ <<>> \in Bytes
    BY EncodingType, EmptySeq DEF Bytes
  <2>. QED  BY <1>1, <1>2, <2>1 DEF Behind
<1>9. max_cons' \in 0 .. U8 - 1 /\ max_req_per_con' \in 0 .. U16 - 1
  BY <1>1, LimitsType DEF Inv, TypeOK
<1>10. TypeOK'
  BY <1>1, <1>7, <1>8, <1>9 DEF Inv, TypeOK, appl
<1>11. ListInv'
  BY <1>1, ListFrame DEF Inv, appl
<1>12. BuildInv' /\ SentInv'
  BY <1>1, WayFrame DEF Inv, appl
<1>13. \A i : Sent(i)' = Sent(i)
  BY <1>1 DEF Sent, appl
<1>14. ReadInv'
  BY <1>1, <1>7 DEF Inv, ReadInv
<1>15. KeptInv'
  <2>. SUFFICES ASSUME NEW i \in 1 .. k, recs[i].type = GetValuesResult
                PROVE  \E r \in Seq(Pair) : Sent(i) = Cat(seen'[i], r)
    BY <1>1, <1>7, <1>13 DEF KeptInv
  <2>1. CASE i = k
    BY <1>2, <1>7, <2>1 DEF new
  <2>2. CASE i # k
    BY <1>7, <2>2 DEF Inv, KeptInv
  <2>. QED  BY <2>1, <2>2
<1>16. InPairs(kvs', new, Sent(k))
  <2>1. Len(took) \in Nat /\ Sent(k) = Cat(new, rest)
    BY <1>2, <1>4, LenProperties DEF new
  <2>2. CASE NoMultiplex(h)
    <3>1. \A j \in 1 .. Len(new) - 1 : ~NoMultiplex(new[j])
      BY <1>2, <1>5, <2>1
    <3>2. new[Len(new)] = h
      BY <1>5
    <3>3. Broken(kvs', new)
      BY <1>5, <1>8, <2>2, <3>1, <3>2 DEF Broken
    <3>. QED  BY <2>1, <3>3 DEF InPairs
  <2>3. CASE ~NoMultiplex(h)
    <3>1. \A j \in 1 .. Len(took) + 1 : j \in 1 .. Len(took) \/ j = Len(took) + 1
      BY <2>1
    <3>2. \A j \in 1 .. Len(new) : ~NoMultiplex(new[j])
      BY <1>2, <1>5, <2>3, <3>1
    <3>3. Whole(kvs', new, rest)
      BY <1>8, <2>3, <3>2 DEF Whole
    <3>. QED  BY <2>1, <3>3 DEF InPairs
  <2>. QED  BY <2>2, <2>3
<1>17. PairsInv'
  <2>1. Len(seen') = k /\ recs'[k] = recs[k] /\ seen'[Len(seen')] = new /\ seen' # <<>>
    <3>1. Len(seen') = k /\ seen'[k] = new
      BY <1>7
    <3>2. recs' = recs
      BY <1>1
    <3>3. seen' # <<>>
      <4>1. Len(seen') # 0
        BY <1>4, <3>1
      <4>. QED  BY <4>1, EmptySeq
    <3>. HIDE DEF k
    <3>. QED  BY <3>1, <3>2, <3>3
  <2>. HIDE DEF k
  <2>. QED  BY <1>2, <1>13, <1>16, <2>1 DEF PairsInv
<1>. QED  BY <1>10, <1>11, <1>12, <1>14, <1>15, <1>17 DEF Inv

\* Every step keeps the invariant.
LEMMA NextInv == ASSUME Inv, [Next]_vars PROVE Inv'
<1>1. CASE App
  BY <1>1, AppAddInv, AppListInv, AppHeaderInv, AppCopyInv, AppPadInv, AppSendInv, AppUnknownInv DEF App
<1>2. CASE AppClose \/ AppReset
  BY <1>2, AppGoneInv
<1>3. CASE NewWithStrategy
  BY <1>3, QuietInv, ReadBufInv, ReadRecordInv, NextRecordInv, NextPairInv DEF NewWithStrategy
<1>4. CASE UNCHANGED vars
  <2>1. TypeOK' /\ ListInv' /\ BuildInv' /\ SentInv'
    BY <1>4, ListFrame, WayFrame DEF Inv, TypeOK, vars, appl, client
  <2>2. \A i : Sent(i)' = Sent(i)
    BY <1>4 DEF Sent, vars, appl
  <2>3. ReadInv' /\ KeptInv' /\ PairsInv'
    BY <1>4, <2>2 DEF Inv, ReadInv, KeptInv, PairsInv, Silent, Unread, vars, appl, client
  <2>. QED  BY <2>1, <2>3 DEF Inv
<1>. QED  BY <1>1, <1>2, <1>3, <1>4 DEF Next

\* The invariant holds in every reachable state.
THEOREM InvAlways == Spec => []Inv
<1>1. Init => Inv
  BY InitInv
<1>2. Inv /\ [Next]_vars => Inv'
  BY NextInv
<1>. QED  BY <1>1, <1>2, PTL DEF Spec

-----------------------------------------------------------------------------
(* What follows *)

\* The front of a sequence put together from two.
LEMMA CatPrefix ==
    ASSUME NEW S, NEW a \in Seq(S), NEW b \in Seq(S) PROVE IsPrefix(a, Cat(a, b))
<1>. DEFINE t == Cat(a, b)
            u == SubSeq(t, 1, Len(a))
<1>1. t \in Seq(S) /\ Len(t) = Len(a) + Len(b) /\ Len(a) \in Nat /\ Len(b) \in Nat
  BY CatType, LenProperties
<1>2. \A i \in 1 .. Len(a) : t[i] = a[i]
  BY CatElements
<1>. HIDE DEF t
<1>3. u \in Seq(S) /\ Len(u) = Len(a) /\ \A i \in 1 .. Len(a) : u[i] = t[i]
  BY <1>1, SubSeqProperties
<1>4. u = a
  <2>. HIDE DEF u
  <2>. QED  BY <1>2, <1>3, SeqEqual
<1>5. SubSeq(a, 1, Len(a)) = a
  <2>1. Len(a) \in 0 .. Len(a)
    BY <1>1
  <2>. QED  BY <2>1, FrontRecords
<1>6. Len(a) <= Len(t)
  BY <1>1
<1>. QED  BY <1>4, <1>5, <1>6 DEF IsPrefix, t

\* Whatever numbers the application states and however its answer is cut, the two limits
\* fit u8 and u16, every record read is a GetValuesResult or UnknownType record whose
\* body is bytes, what is left of it is bytes, and the counts stay in their ranges.
THEOREM TypeCorrect == Spec => []TypeOK
<1>1. Inv => TypeOK
  BY DEF Inv
<1>. QED  BY <1>1, InvAlways, PTL

\* NVBody::len, counted pair by pair, is the length of the buffers NVBody::add
\* collected, and no body outgrows a record.
THEOREM LengthsAlwaysAgree == Spec => []LengthsAgree
<1>1. Inv => LengthsAgree
  <2>. SUFFICES ASSUME Inv, NEW i \in DOMAIN bodies
                PROVE  bodies[i].len = Remaining(bodies[i].pairs) /\ bodies[i].len <= MAX_LENGTH
    BY DEF LengthsAgree
  <2>1. bodies \in Seq([pairs : Seq(Bytes), len : Nat])
    BY DEF Inv, TypeOK
  <2>2. i \in 1 .. Len(bodies)
    BY <2>1, LenProperties
  <2>3. bodies[i].pairs \in Seq(Seq(0 .. BYTE - 1))
    <3>1. bodies[i] \in [pairs : Seq(Bytes), len : Nat]
      BY <2>1, <2>2, ElementOfSeq
    <3>. QED  BY <3>1 DEF Bytes
  <2>4. Remaining(bodies[i].pairs) = Len(Flat(bodies[i].pairs))
    BY <2>3, LenFlat
  <2>. QED  BY <2>2, <2>4 DEF Inv, ListInv
<1>. QED  BY <1>1, InvAlways, PTL

\* What NVDrain takes from a GetValuesResult is what NVBodyList put into that
\* record, pair by pair and in order, for all names and values, however read_buf
\* cuts the bytes.
THEOREM RoundTripAlways == Spec => []RoundTrip
<1>1. Inv => RoundTrip
  <2>. SUFFICES ASSUME Inv, NEW i \in DOMAIN seen, recs[i].type = GetValuesResult
                PROVE  IsPrefix(seen[i], Sent(i))
    BY DEF RoundTrip
  <2>1. seen \in Seq(Seq(Pair))
    BY DEF Inv, TypeOK
  <2>2. i \in 1 .. Len(seen)
    BY <2>1, LenProperties
  <2>3. seen[i] \in Seq(Pair)
    BY <2>1, <2>2, ElementOfSeq
  <2>4. PICK rest \in Seq(Pair) : Sent(i) = Cat(seen[i], rest)
    BY <2>2 DEF Inv, KeptInv
  <2>. QED  BY <2>3, <2>4, CatPrefix
<1>. QED  BY <1>1, InvAlways, PTL

\* NameValuePair::parse panics only on a name or a value that the encoder wrote with
\* a four-byte length: no cut of the stream and no short pair brings it there.
THEOREM PanicsOnlyIfLong == Spec => []PanicOnlyIfLong
<1>1. Inv => PanicOnlyIfLong
  <2>. DEFINE k == Len(seen)
              took == seen[k]
  <2>. SUFFICES ASSUME Inv, stage = "panic"
                PROVE  \E n \in 1 .. added : Len(answer[n].name) >= HALF \/ Len(answer[n].value) >= HALF
    BY DEF PanicOnlyIfLong
  <2>1. kvs # <<>> /\ ~Parsable(kvs) /\ seen # <<>> /\ InPairs(kvs, took, Sent(k))
    BY DEF Inv, ReadInv, PairsInv
  <2>2. took \in Seq(Pair) /\ Len(took) \in Nat /\ k \in Nat
    <3>1. seen \in Seq(Seq(Pair)) /\ k \in 1 .. k /\ k \in Nat
      BY <2>1, EmptySeq DEF Inv, TypeOK
    <3>2. took \in Seq(Pair)
      BY <3>1, ElementOfSeq
    <3>. HIDE DEF took
    <3>. QED  BY <3>1, <3>2, LenProperties
  <2>. HIDE DEF took, k
  <2>3. PICK all \in Seq(Pair) : Sent(k) = Cat(took, all) /\ kvs = Encoding(all)
    BY <2>1 DEF InPairs, Whole, Broken
  <2>4. all # <<>>
    BY <2>1, <2>3, EncodingEmpty
  <2>5. PICK h \in Pair, rest \in Seq(Pair) : h = Head(all) /\ rest = Tail(all)
    BY <2>4, CatHead
  <2>6. kvs = Cat(Encode(h), Encoding(rest)) /\ Encoding(rest) \in Bytes
    BY <2>3, <2>4, <2>5, EncodingHead, EncodingType
  <2>7. Len(h.name) >= HALF \/ Len(h.value) >= HALF
    <3>1. ~(Len(h.name) < HALF /\ Len(h.value) < HALF)
      BY <2>1, <2>6, Decodes
    <3>2. Len(h.name) \in Nat /\ Len(h.value) \in Nat
      BY LenProperties DEF Pair, Bytes
    <3>. QED  BY <3>1, <3>2, HalfType
  <2>8. \E n \in 1 .. added : answer[n] = h
    <3>1. place \in Seq(Nat) /\ answer \in Seq(Pair) /\ Len(place) <= Len(answer) /\ Len(place) = added
      <4>1. place \in Seq(1 .. Len(bodies)) /\ 1 .. Len(bodies) \subseteq Nat
        BY DEF Inv, TypeOK
      <4>2. place \in Seq(Nat)
        BY <4>1, SeqMonotonic
      <4>. QED  BY <4>2, LenProperties DEF Inv, TypeOK, ListInv
    <3>. DEFINE j == Len(took) + 1
    <3>2. /\ Len(Sent(k)) = Cardinality(In(place, k))
          /\ \A m \in 1 .. Cardinality(In(place, k)) :
                 /\ Sent(k)[m] = answer[m + Cardinality(Before(place, k))]
                 /\ m + Cardinality(Before(place, k)) \in 1 .. Len(place)
      <4>1. /\ Len(SentOf(place, answer, k)) = Cardinality(In(place, k))
            /\ \A m \in 1 .. Cardinality(In(place, k)) :
                   /\ SentOf(place, answer, k)[m] = answer[m + Cardinality(Before(place, k))]
                   /\ m + Cardinality(Before(place, k)) \in 1 .. Len(place)
        BY <2>2, <3>1, SentType
      <4>2. Sent(k) = SentOf(place, answer, k)
        BY SentIs
      <4>. QED  BY <4>1, <4>2
    <3>3. j \in 1 .. Len(Sent(k)) /\ Sent(k)[j] = h
      <4>1. Len(all) \in Nat /\ 1 \in 1 .. Len(all) /\ all[1] = h
        BY <2>4, <2>5, EmptySeq, LenProperties
      <4>2. Len(Cat(took, all)) = Len(took) + Len(all)
        BY <2>2, CatType
      <4>3. Cat(took, all)[j] = all[1]
        BY <2>2, <4>1, CatElements
      <4>4. j \in 1 .. Len(took) + Len(all)
        BY <2>2, <4>1
      <4>. QED  BY <2>3, <4>1, <4>2, <4>3, <4>4
    <3>. HIDE DEF j
    <3>. QED  BY <3>1, <3>2, <3>3
  <2>. QED  BY <2>7, <2>8
<1>. QED  BY <1>1, InvAlways, PTL

-----------------------------------------------------------------------------
(* The limits *)

\* Pairs that no MPXS_CONNS=0 of the same record precedes: those among the first p,
\* and those in the bodies up to k.
Heard(pl, an) ==
    {n \in DOMAIN pl : \A q \in 1 .. n - 1 : pl[q] = pl[n] => ~NoMultiplex(an[q])}
UpTo(pl, an, p)    == {n \in Heard(pl, an) : n <= p}
Through(pl, an, k) == {n \in Heard(pl, an) : pl[n] <= k}

\* Pairs of S that set max_cons, and those that set max_req_per_con.
Conns(an, S) == {n \in S : an[n].name = MAX_CONNS /\ ParseInt(an[n].value, U8) # {}}
Reqs(an, S) ==
    {n \in S : (an[n].name = MAX_REQS /\ ParseInt(an[n].value, U16) # {}) \/ NoMultiplex(an[n])}

\* What the last of the pairs S makes of a limit.
LastOf(an, S) ==
    IF S = {} THEN 1
    ELSE IF NoMultiplex(an[Max(S)]) THEN 1 ELSE Number(Unsigned(an[Max(S)].value))

\* No pair goes into a body before that of an earlier pair.
InOrder(pl) == \A m, n \in 1 .. Len(pl) : m <= n => pl[m] <= pl[n]

\* A set of numbers from 1 without gaps is as large as its last one.
LEMMA FrontSet ==
    ASSUME NEW N \in Nat, NEW T, T \subseteq 1 .. N, \A n \in T : \A m \in 1 .. n : m \in T
    PROVE  T = 1 .. Cardinality(T) /\ Cardinality(T) \in Nat
<1>. DEFINE G == {n \in Nat : n + 1 \notin T}
<1>1. N \in G
  OBVIOUS
<1>2. PICK m \in G : \A y \in G : m <= y
  BY <1>1, SmallestOf
<1>3. m \in Nat /\ m + 1 \notin T
  OBVIOUS
<1>4. \A x \in 1 .. m : x \in T
  <2>. SUFFICES ASSUME NEW x \in 1 .. m PROVE x \in T
    OBVIOUS
  <2>1. x - 1 \in Nat /\ ~(m <= x - 1) /\ (x - 1) + 1 = x
    BY <1>3
  <2>2. x - 1 \notin G
    BY <1>2, <2>1
  <2>. QED  BY <2>1, <2>2
<1>5. \A x \in T : x \in 1 .. m
  <2>. SUFFICES ASSUME NEW x \in T, x \notin 1 .. m PROVE FALSE
    OBVIOUS
  <2>1. x \in Nat /\ m + 1 \in 1 .. x
    BY <1>3
  <2>. QED  BY <1>3, <2>1
<1>6. T = 1 .. m
  BY <1>4, <1>5
<1>7. Cardinality(1 .. m) = m
  <2>1. 1 \in Int /\ m \in Int
    BY <1>3
  <2>2. Cardinality(1 .. m) = IF 1 > m THEN 0 ELSE m - 1 + 1
    BY <2>1, FS_Interval
  <2>. QED  BY <1>3, <2>2
<1>. QED  BY <1>3, <1>6, <1>7

\* In order, the pairs of the bodies before i come first, those of body i next.
LEMMA Offsets ==
    ASSUME NEW pl \in Seq(Nat), InOrder(pl), NEW i \in Nat
    PROVE  /\ Before(pl, i) = 1 .. Cardinality(Before(pl, i)) /\ Cardinality(Before(pl, i)) \in Nat
           /\ Before(pl, i + 1) = 1 .. Cardinality(Before(pl, i)) + Cardinality(In(pl, i))
           /\ Cardinality(In(pl, i)) \in Nat
<1>. DEFINE D == 1 .. Len(pl)
<1>1. Len(pl) \in Nat /\ DOMAIN pl = D /\ \A n \in D : pl[n] \in Nat
  BY LenProperties, ElementOfSeq
<1>2. ASSUME NEW k \in Nat
      PROVE  Before(pl, k) = 1 .. Cardinality(Before(pl, k)) /\ Cardinality(Before(pl, k)) \in Nat
  <2>1. Before(pl, k) \subseteq 1 .. Len(pl)
    BY <1>1 DEF Before
  <2>2. \A n \in Before(pl, k) : \A m \in 1 .. n : m \in Before(pl, k)
    <3>. SUFFICES ASSUME NEW n \in Before(pl, k), NEW m \in 1 .. n PROVE m \in Before(pl, k)
      OBVIOUS
    <3>1. n \in D /\ pl[n] < k
      BY <1>1 DEF Before
    <3>2. m \in D /\ m <= n
      BY <1>1, <3>1
    <3>3. pl[m] <= pl[n] /\ pl[m] \in Nat /\ pl[n] \in Nat
      BY <1>1, <3>1, <3>2 DEF InOrder
    <3>. QED  BY <1>1, <3>1, <3>2, <3>3 DEF Before
  <2>. QED  BY <1>1, <2>1, <2>2, FrontSet
<1>3. Before(pl, i + 1) = In(pl, i) \cup Before(pl, i) /\ In(pl, i) \cap Before(pl, i) = {}
  BY <1>1 DEF Before, In
<1>4. /\ IsFiniteSet(In(pl, i)) /\ IsFiniteSet(Before(pl, i))
      /\ Cardinality(In(pl, i)) \in Nat /\ Cardinality(Before(pl, i)) \in Nat
  BY CountType
<1>5. Cardinality(In(pl, i) \cup Before(pl, i)) = Cardinality(Before(pl, i)) + Cardinality(In(pl, i))
  <2>. DEFINE A == In(pl, i)
              B == Before(pl, i)
  <2>. HIDE DEF A, B
  <2>1. Cardinality(A \cup B) = Cardinality(A) + Cardinality(B) - Cardinality(A \cap B)
    BY <1>4, FS_Union DEF A, B
  <2>2. Cardinality(A \cap B) = 0
    BY <1>3, FS_EmptySet DEF A, B
  <2>3. Cardinality(A) \in Nat /\ Cardinality(B) \in Nat
    BY <1>4 DEF A, B
  <2>4. Cardinality(A \cup B) = Cardinality(B) + Cardinality(A)
    BY <2>1, <2>2, <2>3
  <2>. QED  BY <2>4 DEF A, B
<1>6. Before(pl, i + 1) = 1 .. Cardinality(Before(pl, i + 1))
  <2>1. i + 1 \in Nat
    OBVIOUS
  <2>. QED  BY <1>2, <2>1
<1>7. Before(pl, i) = 1 .. Cardinality(Before(pl, i))
  BY <1>2
<1>. QED  BY <1>3, <1>4, <1>5, <1>6, <1>7

\* A body and all before it, counted both ways.
LEMMA ThroughIs ==
    ASSUME NEW pl \in Seq(Nat), InOrder(pl), NEW an, NEW k \in Nat
    PROVE  /\ Through(pl, an, k) = UpTo(pl, an, Cardinality(Before(pl, k)) + Cardinality(In(pl, k)))
           /\ Through(pl, an, k) = UpTo(pl, an, Cardinality(Before(pl, k + 1)))
<1>1. /\ Before(pl, k + 1) = 1 .. Cardinality(Before(pl, k)) + Cardinality(In(pl, k))
      /\ Cardinality(Before(pl, k)) \in Nat /\ Cardinality(In(pl, k)) \in Nat
  BY Offsets
<1>2. Before(pl, k + 1) = 1 .. Cardinality(Before(pl, k + 1)) /\ Cardinality(Before(pl, k + 1)) \in Nat
  <2>1. PICK i \in Nat : i = k + 1
    OBVIOUS
  <2>2. Before(pl, i) = 1 .. Cardinality(Before(pl, i)) /\ Cardinality(Before(pl, i)) \in Nat
    BY Offsets
  <2>. QED  BY <2>1, <2>2
<1>3. \A n \in Heard(pl, an) : n \in Nat /\ n >= 1 /\ (pl[n] <= k <=> n \in Before(pl, k + 1))
  <2>. SUFFICES ASSUME NEW n \in Heard(pl, an)
                PROVE  n \in Nat /\ n >= 1 /\ (pl[n] <= k <=> n \in Before(pl, k + 1))
    OBVIOUS
  <2>1. n \in DOMAIN pl /\ n \in 1 .. Len(pl) /\ pl[n] \in Nat /\ Len(pl) \in Nat
    BY LenProperties, ElementOfSeq DEF Heard
  <2>. QED  BY <2>1 DEF Before
<1>4. ASSUME NEW m \in Nat, Before(pl, k + 1) = 1 .. m PROVE Through(pl, an, k) = UpTo(pl, an, m)
  <2>1. \A n \in Heard(pl, an) : pl[n] <= k <=> n <= m
    BY <1>3, <1>4
  <2>. QED  BY <2>1 DEF Through, UpTo
<1>5. PICK m \in Nat : m = Cardinality(Before(pl, k)) + Cardinality(In(pl, k))
  BY <1>1
<1>6. Through(pl, an, k) = UpTo(pl, an, m)
  BY <1>1, <1>4, <1>5
<1>7. Through(pl, an, k) = UpTo(pl, an, Cardinality(Before(pl, k + 1)))
  BY <1>2, <1>4
<1>. QED  BY <1>5, <1>6, <1>7

\* One more pair.
LEMMA UpToNext ==
    ASSUME NEW pl \in Seq(Nat), NEW an, NEW p \in Nat, p + 1 \in Heard(pl, an)
    PROVE  /\ UpTo(pl, an, p + 1) = UpTo(pl, an, p) \cup {p + 1}
           /\ UpTo(pl, an, p) \subseteq Nat /\ \A m \in UpTo(pl, an, p) : m < p + 1
<1>1. \A n \in Heard(pl, an) : n \in Nat
  <2>1. Heard(pl, an) \subseteq DOMAIN pl /\ DOMAIN pl = 1 .. Len(pl) /\ Len(pl) \in Nat
    BY LenProperties DEF Heard
  <2>. QED  BY <2>1
<1>2. \A n \in Nat : n <= p + 1 <=> (n <= p \/ n = p + 1)
  OBVIOUS
<1>. QED  BY <1>1, <1>2 DEF UpTo

\* Behind MPXS_CONNS=0, pair p of body k, no pair of that body counts.
LEMMA UpToBroken ==
    ASSUME NEW pl \in Seq(Nat), InOrder(pl), NEW an, NEW k \in Nat, NEW p \in Nat,
           Cardinality(Before(pl, k)) < p,
           p <= Cardinality(Before(pl, k)) + Cardinality(In(pl, k)), NoMultiplex(an[p])
    PROVE  Through(pl, an, k) = UpTo(pl, an, p)
<1>. DEFINE b == Cardinality(Before(pl, k))
            c == Cardinality(In(pl, k))
<1>1. /\ Before(pl, k) = 1 .. b /\ b \in Nat /\ Before(pl, k + 1) = 1 .. b + c /\ c \in Nat
      /\ b < p /\ p <= b + c
  BY Offsets
<1>2. Through(pl, an, k) = UpTo(pl, an, b + c)
  BY ThroughIs
<1>. HIDE DEF b, c
<1>3. \A n \in b + 1 .. b + c : pl[n] = k
  <2>. SUFFICES ASSUME NEW n \in b + 1 .. b + c PROVE pl[n] = k
    OBVIOUS
  <2>1. n \in Before(pl, k + 1) /\ n \notin Before(pl, k)
    BY <1>1
  <2>2. n \in DOMAIN pl /\ pl[n] < k + 1 /\ ~(pl[n] < k)
    BY <2>1 DEF Before
  <2>3. pl[n] \in Nat
    BY <2>2, LenProperties, ElementOfSeq
  <2>. QED  BY <2>2, <2>3
<1>4. pl[p] = k
  <2>1. p \in b + 1 .. b + c
    BY <1>1
  <2>. QED  BY <1>3, <2>1
<1>5. \A n \in Heard(pl, an) : n \in Nat /\ (n <= b + c <=> n <= p)
  <2>. SUFFICES ASSUME NEW n \in Heard(pl, an) PROVE n \in Nat /\ (n <= b + c <=> n <= p)
    OBVIOUS
  <2>1. n \in Nat
    <3>1. Heard(pl, an) \subseteq DOMAIN pl /\ DOMAIN pl = 1 .. Len(pl) /\ Len(pl) \in Nat
      BY LenProperties DEF Heard
    <3>. QED  BY <3>1
  <2>2. ASSUME n <= b + c, ~(n <= p) PROVE FALSE
    <3>1. n \in b + 1 .. b + c /\ p \in 1 .. n - 1
      BY <1>1, <2>1, <2>2
    <3>2. pl[n] = k
      BY <1>3, <3>1
    <3>3. pl[p] = pl[n] => ~NoMultiplex(an[p])
      BY <3>1 DEF Heard
    <3>. QED  BY <1>4, <3>2, <3>3
  <2>3. n <= p => n <= b + c
    BY <1>1, <2>1
  <2>. QED  BY <2>1, <2>2, <2>3
<1>6. UpTo(pl, an, b + c) = UpTo(pl, an, p)
  BY <1>5 DEF UpTo
<1>. QED  BY <1>2, <1>6

\* The last of the pairs decides.
LEMMA LastOfAdd ==
    ASSUME NEW an, NEW S, S \subseteq Nat, NEW n \in Nat, \A m \in S : m < n
    PROVE  LastOf(an, S \cup {n}) = IF NoMultiplex(an[n]) THEN 1 ELSE Number(Unsigned(an[n].value))
<1>1. Max(S \cup {n}) = n
  <2>1. \A y \in S \cup {n} : n >= y
    OBVIOUS
  <2>2. \A x \in S \cup {n} : (\A y \in S \cup {n} : x >= y) => x = n
    OBVIOUS
  <2>. QED  BY <2>1, <2>2 DEF Max
<1>2. S \cup {n} # {}
  OBVIOUS
<1>. QED  BY <1>1, <1>2 DEF LastOf

\* parse_int gives the number of the text.
LEMMA ChosenIs ==
    ASSUME NEW now, NEW text, NEW limit
    PROVE  /\ ParseInt(text, limit) # {} => Chosen(now, ParseInt(text, limit)) = Number(Unsigned(text))
           /\ ParseInt(text, limit) = {} => Chosen(now, ParseInt(text, limit)) = now
<1>1. ParseInt(text, limit) # {} => ParseInt(text, limit) = {Number(Unsigned(text))}
  BY DEF ParseInt
<1>. QED  BY <1>1 DEF Chosen

\* A pair taken sets max_cons to what it states, or leaves it.
LEMMA ConnsAdd ==
    ASSUME NEW an, NEW S, S \subseteq Nat, NEW n \in Nat, \A m \in S : m < n,
           max_cons = LastOf(an, Conns(an, S))
    PROVE  MaxCons(an[n]) = LastOf(an, Conns(an, S \cup {n}))
<1>1. CASE an[n].name = MAX_CONNS /\ ParseInt(an[n].value, U8) # {}
  <2>1. Conns(an, S \cup {n}) = Conns(an, S) \cup {n} /\ Conns(an, S) \subseteq S
    BY <1>1 DEF Conns
  <2>2. Conns(an, S) \subseteq Nat /\ \A m \in Conns(an, S) : m < n
    BY <2>1
  <2>3. ~NoMultiplex(an[n])
    BY <1>1, NameAssumption DEF NoMultiplex
  <2>4. LastOf(an, Conns(an, S) \cup {n}) = Number(Unsigned(an[n].value))
    BY <2>2, <2>3, LastOfAdd
  <2>5. MaxCons(an[n]) = Number(Unsigned(an[n].value))
    BY <1>1, ChosenIs DEF MaxCons
  <2>. QED  BY <2>1, <2>4, <2>5
<1>2. CASE ~(an[n].name = MAX_CONNS /\ ParseInt(an[n].value, U8) # {})
  <2>1. Conns(an, S \cup {n}) = Conns(an, S)
    BY <1>2 DEF Conns
  <2>2. MaxCons(an[n]) = max_cons
    BY <1>2, ChosenIs DEF MaxCons
  <2>. QED  BY <2>1, <2>2
<1>. QED  BY <1>1, <1>2

\* So for max_req_per_con, and MPXS_CONNS=0 sets it to one.
LEMMA ReqsAdd ==
    ASSUME NEW an, NEW S, S \subseteq Nat, NEW n \in Nat, \A m \in S : m < n,
           max_req_per_con = LastOf(an, Reqs(an, S))
    PROVE  MaxReqPerCon(an[n]) = LastOf(an, Reqs(an, S \cup {n}))
<1>. DEFINE p == an[n]
            reqs == p.name = MAX_REQS /\ ParseInt(p.value, U16) # {}
<1>1. p.name = MAX_REQS => ~NoMultiplex(p)
  BY NameAssumption DEF NoMultiplex
<1>2. CASE reqs \/ NoMultiplex(p)
  <2>1. Reqs(an, S \cup {n}) = Reqs(an, S) \cup {n} /\ Reqs(an, S) \subseteq S
    BY <1>2 DEF Reqs
  <2>2. Reqs(an, S) \subseteq Nat /\ \A m \in Reqs(an, S) : m < n
    BY <2>1
  <2>3. LastOf(an, Reqs(an, S) \cup {n}) = IF NoMultiplex(p) THEN 1 ELSE Number(Unsigned(p.value))
    BY <2>2, LastOfAdd
  <2>4. MaxReqPerCon(p) = IF NoMultiplex(p) THEN 1 ELSE Number(Unsigned(p.value))
    <3>1. CASE NoMultiplex(p)
      <4>1. p.name # MAX_REQS
        BY <1>1, <3>1
      <4>. QED  BY <3>1, <4>1 DEF MaxReqPerCon
    <3>2. CASE ~NoMultiplex(p)
      <4>1. reqs
        BY <1>2, <3>2
      <4>2. Chosen(max_req_per_con, ParseInt(p.value, U16)) = Number(Unsigned(p.value))
        BY <4>1, ChosenIs
      <4>. QED  BY <3>2, <4>1, <4>2 DEF MaxReqPerCon
    <3>. QED  BY <3>1, <3>2
  <2>. QED  BY <2>1, <2>3, <2>4
<1>3. CASE ~(reqs \/ NoMultiplex(p))
  <2>1. Reqs(an, S \cup {n}) = Reqs(an, S)
    BY <1>3 DEF Reqs
  <2>2. MaxReqPerCon(p) = max_req_per_con
    <3>1. CASE p.name = MAX_REQS
      <4>1. Chosen(max_req_per_con, ParseInt(p.value, U16)) = max_req_per_con
        BY <1>3, <3>1, ChosenIs
      <4>. QED  BY <1>3, <3>1, <4>1 DEF MaxReqPerCon
    <3>2. CASE p.name # MAX_REQS
      BY <1>3, <3>2 DEF MaxReqPerCon
    <3>. QED  BY <3>1, <3>2
  <2>. QED  BY <2>1, <2>2
<1>. QED  BY <1>2, <1>3

\* Where the pairs of a record are in the answer: those taken first, then the next.
LEMMA TakenAt ==
    ASSUME NEW S, NEW pl \in Seq(Nat), InOrder(pl), NEW an \in Seq(S), Len(pl) <= Len(an),
           NEW k \in Nat, NEW took \in Seq(S), NEW rest \in Seq(S),
           SentOf(pl, an, k) = Cat(took, rest)
    PROVE  /\ Len(took) + Len(rest) = Cardinality(In(pl, k))
           /\ \A j \in 1 .. Len(took) :
                 /\ an[Cardinality(Before(pl, k)) + j] = took[j]
                 /\ Cardinality(Before(pl, k)) + j \in 1 .. Len(pl)
                 /\ pl[Cardinality(Before(pl, k)) + j] = k
<1>1. PICK c \in Nat, b \in Nat : c = Cardinality(In(pl, k)) /\ b = Cardinality(Before(pl, k))
  BY CountType
<1>2. /\ Len(SentOf(pl, an, k)) = c
      /\ \A j \in 1 .. c : SentOf(pl, an, k)[j] = an[j + b] /\ j + b \in 1 .. Len(pl)
  <2>1. /\ Len(SentOf(pl, an, k)) = Cardinality(In(pl, k))
        /\ \A j \in 1 .. Cardinality(In(pl, k)) :
              /\ SentOf(pl, an, k)[j] = an[j + Cardinality(Before(pl, k))]
              /\ j + Cardinality(Before(pl, k)) \in 1 .. Len(pl)
    BY SentType
  <2>. QED  BY <1>1, <2>1
<1>3. /\ Len(Cat(took, rest)) = Len(took) + Len(rest) /\ Len(took) \in Nat /\ Len(rest) \in Nat
      /\ \A j \in 1 .. Len(took) : Cat(took, rest)[j] = took[j]
  BY CatType, CatElements, LenProperties
<1>4. Before(pl, k) = 1 .. b /\ Before(pl, k + 1) = 1 .. b + c
  BY <1>1, Offsets
<1>5. ASSUME NEW j \in 1 .. Len(took)
      PROVE  an[b + j] = took[j] /\ b + j \in 1 .. Len(pl) /\ pl[b + j] = k
  <2>1. j \in 1 .. c /\ j + b = b + j
    BY <1>2, <1>3
  <2>2. an[b + j] = took[j] /\ b + j \in 1 .. Len(pl)
    BY <1>2, <1>3, <2>1
  <2>3. b + j \in Before(pl, k + 1) /\ b + j \notin Before(pl, k)
    BY <1>4, <2>1
  <2>4. b + j \in DOMAIN pl /\ pl[b + j] < k + 1 /\ ~(pl[b + j] < k)
    BY <2>3 DEF Before
  <2>5. pl[b + j] \in Nat
    BY <2>2, ElementOfSeq
  <2>. QED  BY <2>2, <2>4, <2>5
<1>. QED  BY <1>1, <1>2, <1>3, <1>5

\* The next pair of a record counts if none taken before it was MPXS_CONNS=0.
LEMMA HeardNext ==
    ASSUME NEW S, NEW pl \in Seq(Nat), InOrder(pl), NEW an \in Seq(S), Len(pl) <= Len(an),
           NEW k \in Nat, NEW took \in Seq(S), NEW h \in S, NEW rest \in Seq(S),
           SentOf(pl, an, k) = Cat(Append(took, h), rest),
           \A j \in 1 .. Len(took) : ~NoMultiplex(took[j])
    PROVE  /\ (Cardinality(Before(pl, k)) + Len(took)) + 1 \in Heard(pl, an)
           /\ an[(Cardinality(Before(pl, k)) + Len(took)) + 1] = h
<1>1. PICK b \in Nat : b = Cardinality(Before(pl, k))
  BY CountType
<1>2. PICK new \in Seq(S) : new = Append(took, h)
  BY AppendProperties
<1>3. /\ Len(new) = Len(took) + 1 /\ new[Len(took) + 1] = h /\ Len(took) \in Nat
      /\ \A j \in 1 .. Len(took) : new[j] = took[j]
  BY <1>2, AppendProperties, LenProperties
<1>4. \A j \in 1 .. Len(new) : an[b + j] = new[j] /\ b + j \in 1 .. Len(pl) /\ pl[b + j] = k
  <2>1. SentOf(pl, an, k) = Cat(new, rest)
    BY <1>2
  <2>2. \A j \in 1 .. Len(new) :
           /\ an[Cardinality(Before(pl, k)) + j] = new[j]
           /\ Cardinality(Before(pl, k)) + j \in 1 .. Len(pl)
           /\ pl[Cardinality(Before(pl, k)) + j] = k
    BY <2>1, TakenAt
  <2>. QED  BY <1>1, <2>2
<1>5. PICK n \in Nat : n = (b + Len(took)) + 1 /\ n = b + (Len(took) + 1)
  <2>1. Len(took) \in Nat
    BY <1>3
  <2>2. b + (Len(took) + 1) = (b + Len(took)) + 1 /\ (b + Len(took)) + 1 \in Nat
    BY <2>1
  <2>. QED  BY <2>2
<1>6. an[n] = h /\ n \in 1 .. Len(pl) /\ pl[n] = k
  <2>1. Len(took) + 1 \in 1 .. Len(new)
    BY <1>3
  <2>. QED  BY <1>3, <1>4, <1>5, <2>1
<1>7. n \in Heard(pl, an)
  <2>. SUFFICES ASSUME NEW q \in 1 .. n - 1, pl[q] = k PROVE ~NoMultiplex(an[q])
    BY <1>6, LenProperties DEF Heard
  <2>1. q \notin Before(pl, k)
    BY DEF Before
  <2>2. Before(pl, k) = 1 .. b
    BY <1>1, Offsets
  <2>3. q \in Nat /\ q > b
    BY <2>1, <2>2
  <2>4. PICK j \in 1 .. Len(took) : q = b + j
    <3>1. q - b \in 1 .. Len(took) /\ q = b + (q - b)
      BY <1>3, <1>5, <2>3
    <3>. QED  BY <3>1
  <2>5. j \in 1 .. Len(new)
    BY <1>3
  <2>. QED  BY <1>3, <1>4, <2>4, <2>5
<1>. QED  BY <1>1, <1>5, <1>6, <1>7

-----------------------------------------------------------------------------
(* The limits follow the pairs taken *)

\* Those among the pairs taken so far that count: of the record being read only the
\* front, of an earlier one all.
Taken ==
    IF stage \in {"pairs", "panic"}
    THEN UpTo(place, answer, Cardinality(Before(place, Len(seen))) + Len(seen[Len(seen)]))
    ELSE Through(place, answer, Len(seen))

\* The limits are those stated by the pairs taken so far, and a pool is ready when it
\* has taken the pairs of all records.
LimitInv ==
    /\ InOrder(place)
    /\ max_cons = LastOf(answer, Conns(answer, Taken))
    /\ max_req_per_con = LastOf(answer, Reqs(answer, Taken))
    /\ stage = "ready" => Len(seen) = Len(recs)

\* Without a record none was taken.
LEMMA ThroughNone ==
    ASSUME NEW N \in Nat, NEW pl \in Seq(1 .. N), NEW an PROVE Through(pl, an, 0) = {}
<1>1. \A n \in DOMAIN pl : pl[n] \in 1 .. N
  BY LenProperties, ElementOfSeq
<1>. QED  BY <1>1 DEF Through, Heard

\* Without a pair the limits are one.
LEMMA LastOfNone ==
    ASSUME NEW an PROVE LastOf(an, Conns(an, {})) = 1 /\ LastOf(an, Reqs(an, {})) = 1
<1>1. Conns(an, {}) = {} /\ Reqs(an, {}) = {}
  BY DEF Conns, Reqs
<1>. QED  BY <1>1 DEF LastOf

\* At first nothing was taken.
LEMMA InitLimit == ASSUME Init PROVE LimitInv
<1>1. Taken = {}
  <2>1. Len(<<>>) = 0 /\ <<>> \in Seq(1 .. 0)
    OBVIOUS
  <2>2. Through(<<>>, answer, 0) = {}
    BY <2>1, ThroughNone
  <2>. QED  BY <2>1, <2>2 DEF Init, Taken
<1>2. InOrder(place)
  BY DEF Init, InOrder
<1>. QED  BY <1>1, <1>2, LastOfNone DEF Init, LimitInv

\* A step that takes nothing.
LEMMA LimitFrame ==
    ASSUME LimitInv, UNCHANGED <<answer, place, seen, max_cons, max_req_per_con>>,
           stage \in {"pairs", "panic"} <=> stage' \in {"pairs", "panic"},
           stage' = "ready" => Len(seen') = Len(recs')
    PROVE  LimitInv'
<1>1. Taken' = Taken
  BY DEF Taken
<1>. QED  BY <1>1 DEF LimitInv

\* NVBodyList::add, before the client has read anything
LEMMA AppAddLimit == ASSUME Inv, LimitInv, Inv', AppAdd PROVE LimitInv'
<1>1. stage = "read" /\ UNCHANGED <<answer, client>> /\ \E m \in Nat : place' = Append(place, m) /\ m >= Len(bodies)
  <2>. DEFINE list == IF Fits(Last(bodies), answer[added + 1]) THEN bodies
                      ELSE Append(bodies, EmptyBody)
  <2>1. stage = "read" /\ UNCHANGED <<answer, client>> /\ place' = Append(place, Len(list))
    BY DEF AppAdd, Asked
  <2>2. bodies \in Seq([pairs : Seq(Bytes), len : Nat]) /\ EmptyBody \in [pairs : Seq(Bytes), len : Nat]
    BY DEF Inv, TypeOK, EmptyBody
  <2>3. Len(list) \in Nat /\ Len(list) >= Len(bodies)
    BY <2>2, AppendProperties, LenProperties
  <2>. QED  BY <2>1, <2>3
<1>2. seen = <<>> /\ seen' = <<>> /\ stage' = "read" /\ Len(seen) = 0 /\ Len(seen') = 0
  BY <1>1 DEF Inv, ReadInv, client
<1>3. place \in Seq(1 .. Len(bodies)) /\ place' \in Seq(1 .. Len(bodies')) /\ Len(bodies) \in Nat
      /\ Len(bodies') \in Nat
  BY LenProperties DEF Inv, TypeOK
<1>4. Taken = {} /\ Taken' = {}
  BY <1>1, <1>2, <1>3, ThroughNone DEF Taken
<1>5. InOrder(place)'
  <2>1. PICK m \in Nat : place' = Append(place, m) /\ m >= Len(bodies)
    BY <1>1
  <2>2. \A n \in 1 .. Len(place) : place[n] \in Nat /\ place[n] <= m
    BY <1>3, <2>1, ElementOfSeq
  <2>3. /\ Len(place') = Len(place) + 1 /\ Len(place) \in Nat /\ place'[Len(place) + 1] = m
        /\ \A n \in 1 .. Len(place) : place'[n] = place[n]
    BY <1>3, <2>1, AppendProperties, LenProperties
  <2>4. \A i \in 1 .. Len(place) + 1 : i \in 1 .. Len(place) \/ i = Len(place) + 1
    BY <2>3
  <2>5. ASSUME NEW i \in 1 .. Len(place'), NEW j \in 1 .. Len(place'), i <= j
        PROVE  place'[i] <= place'[j]
    <3>1. CASE j \in 1 .. Len(place)
      <4>1. i \in 1 .. Len(place)
        BY <2>3, <2>5, <3>1
      <4>2. place[i] <= place[j]
        BY <2>5, <3>1, <4>1 DEF LimitInv, InOrder
      <4>. QED  BY <2>3, <3>1, <4>1, <4>2
    <3>2. CASE j = Len(place) + 1
      <4>1. CASE i \in 1 .. Len(place)
        BY <2>2, <2>3, <3>2, <4>1
      <4>2. CASE i = Len(place) + 1
        BY <2>3, <3>2, <4>2
      <4>. QED  BY <2>3, <2>4, <4>1, <4>2
    <3>. QED  BY <2>3, <2>4, <3>1, <3>2
  <2>. QED  BY <2>5 DEF InOrder
<1>6. max_cons' = 1 /\ max_req_per_con' = 1
  BY <1>1, <1>4, LastOfNone DEF LimitInv, client
<1>. QED  BY <1>2, <1>4, <1>5, <1>6, LastOfNone DEF LimitInv

\* The types the lemmas about place and answer need.
LEMMA PlaceType ==
    ASSUME Inv
    PROVE  /\ place \in Seq(Nat) /\ answer \in Seq(Pair) /\ Len(place) <= Len(answer)
           /\ seen \in Seq(Seq(Pair)) /\ Len(seen) \in Nat
           /\ seen # <<>> => /\ Len(seen) \in 1 .. Len(seen) /\ seen[Len(seen)] \in Seq(Pair)
                             /\ Len(seen[Len(seen)]) \in Nat
<1>1. place \in Seq(Nat)
  <2>1. place \in Seq(1 .. Len(bodies)) /\ 1 .. Len(bodies) \subseteq Nat
    BY DEF Inv, TypeOK
  <2>. QED  BY <2>1, SeqMonotonic
<1>2. answer \in Seq(Pair) /\ Len(place) <= Len(answer)
  BY LenProperties DEF Inv, TypeOK, ListInv
<1>3. seen \in Seq(Seq(Pair)) /\ Len(seen) \in Nat
  BY LenProperties DEF Inv, TypeOK
<1>4. ASSUME seen # <<>>
      PROVE  Len(seen) \in 1 .. Len(seen) /\ seen[Len(seen)] \in Seq(Pair) /\ Len(seen[Len(seen)]) \in Nat
  <2>1. Len(seen) \in 1 .. Len(seen)
    BY <1>3, <1>4, EmptySeq
  <2>2. seen[Len(seen)] \in Seq(Pair)
    BY <1>3, <2>1, ElementOfSeq
  <2>. QED  BY <2>1, <2>2, LenProperties
<1>. QED  BY <1>1, <1>2, <1>3, <1>4

\* The answer was empty if a record of another type was read.
LEMMA OtherRecord ==
    ASSUME Inv, NEW i \in 1 .. Len(recs), recs[i].type # GetValuesResult PROVE place = <<>>
<1>1. recs \in Seq(Rec) /\ Len(recs) \in Nat /\ i \in Nat
  BY LenProperties DEF Inv, TypeOK, Rec
<1>2. role = "sent"
  <2>1. recs # <<>>
    BY <1>1, EmptySeq
  <2>. QED  BY <2>1 DEF Inv, TypeOK, BuildInv, Silent, Unread
<1>3. ~Arrives(Records)
  <2>. SUFFICES ASSUME Arrives(Records) PROVE FALSE
    OBVIOUS
  <2>1. /\ Records \in Seq(Rec) /\ Len(Records) = Len(bodies)
        /\ \A k \in 1 .. Len(bodies) : Records[k] = RecordOf(bodies[k])
    BY RecordsType DEF Inv
  <2>2. PICK left \in Seq(Rec) : Records = Cat(recs, left)
    BY DEF Arrives
  <2>3. Len(Cat(recs, left)) = Len(recs) + Len(left) /\ Len(left) \in Nat
    BY <1>1, CatType, LenProperties
  <2>4. Cat(recs, left)[i] = recs[i]
    BY <1>1, CatElements
  <2>5. i \in 1 .. Len(bodies) /\ recs[i] = Records[i]
    BY <1>1, <2>1, <2>2, <2>3, <2>4
  <2>6. recs[i] = RecordOf(bodies[i])
    BY <2>1, <2>5
  <2>7. RecordOf(bodies[i]).type = GetValuesResult
    BY DEF RecordOf
  <2>. QED  BY <2>6, <2>7
<1>4. answer = <<>>
  BY <1>2, <1>3 DEF Inv, SentInv
<1>5. Len(place) = 0 /\ place \in Seq(1 .. Len(bodies))
  BY <1>4 DEF Inv, TypeOK, ListInv
<1>. QED  BY <1>5, EmptySeq

\* The next record: nothing of it was taken yet.
LEMMA NextRecordLimit == ASSUME Inv, LimitInv, NextRecord PROVE LimitInv'
<1>. DEFINE k == Len(seen)
<1>1. /\ stage = "values" /\ stage' = "pairs" /\ seen' = Append(seen, <<>>)
      /\ UNCHANGED <<answer, place, max_cons, max_req_per_con>>
  BY DEF NextRecord, appl
<1>2. seen \in Seq(Seq(Pair)) /\ <<>> \in Seq(Pair) /\ k \in Nat /\ place \in Seq(Nat) /\ InOrder(place)
  BY PlaceType DEF LimitInv
<1>3. Len(seen') = k + 1 /\ seen'[k + 1] = <<>>
  BY <1>1, <1>2, AppendProperties
<1>. HIDE DEF k
<1>4. PICK b \in Nat : b = Cardinality(Before(place, k + 1))
  <2>1. PICK i \in Nat : i = k + 1
    BY <1>2
  <2>2. Cardinality(Before(place, i)) \in Nat
    BY <1>2, CountType
  <2>. QED  BY <2>1, <2>2
<1>5. Taken' = UpTo(place, answer, b)
  <2>1. Cardinality(Before(place, Len(seen')))  + Len(seen'[Len(seen')]) = b
    <3>1. Len(seen'[Len(seen')]) = 0
      BY <1>3
    <3>2. Cardinality(Before(place, Len(seen'))) = b
      BY <1>3, <1>4
    <3>. QED  BY <3>1, <3>2
  <2>. QED  BY <1>1, <2>1 DEF Taken
<1>6. Taken = UpTo(place, answer, b)
  <2>1. Through(place, answer, k) = UpTo(place, answer, Cardinality(Before(place, k + 1)))
    BY <1>2, ThroughIs
  <2>. QED  BY <1>1, <1>4, <2>1 DEF Taken, k
<1>. QED  BY <1>1, <1>5, <1>6 DEF LimitInv

\* The next pair: it is the one behind those taken, and it counts.
LEMMA NextPairLimit == ASSUME Inv, LimitInv, NextPair PROVE LimitInv'
<1>. DEFINE k == Len(seen)
            took == seen[k]
<1>1. /\ stage = "pairs" /\ stage' = "pairs" /\ seen' = [seen EXCEPT ![k] = Append(took, Parse(kvs))]
      /\ max_cons' = MaxCons(Parse(kvs)) /\ max_req_per_con' = MaxReqPerCon(Parse(kvs))
      /\ UNCHANGED <<answer, place>>
  BY DEF NextPair, appl
<1>2. PICK h \in Pair, rest \in Seq(Pair) :
            /\ Parse(kvs) = h /\ Sent(k) = Cat(Append(took, h), rest)
            /\ \A j \in 1 .. Len(took) : ~NoMultiplex(took[j])
  BY TakesNext
<1>3. /\ place \in Seq(Nat) /\ answer \in Seq(Pair) /\ Len(place) <= Len(answer) /\ InOrder(place)
      /\ seen \in Seq(Seq(Pair)) /\ k \in Nat /\ k \in 1 .. k /\ took \in Seq(Pair) /\ Len(took) \in Nat
  <2>1. seen # <<>>
    BY <1>1 DEF Inv, PairsInv
  <2>. QED  BY <2>1, PlaceType DEF LimitInv
<1>. DEFINE new == Append(took, h)
<1>4. new \in Seq(Pair) /\ Len(new) = Len(took) + 1
  BY <1>3, AppendProperties
<1>5. seen' = [seen EXCEPT ![k] = new]
  BY <1>1, <1>2
<1>. HIDE DEF new
<1>6. Len(seen') = k /\ seen'[k] = new
  BY <1>3, <1>4, <1>5, ExceptSeq
<1>7. SentOf(place, answer, k) = Cat(Append(took, h), rest)
  BY <1>2, SentIs
<1>. HIDE DEF k, took
<1>8. PICK b \in Nat : b = Cardinality(Before(place, k))
  BY <1>3, CountType
<1>9. PICK p \in Nat : p = b + Len(took)
  BY <1>3
<1>10. p + 1 \in Heard(place, answer) /\ answer[p + 1] = h
  <2>1. /\ (Cardinality(Before(place, k)) + Len(took)) + 1 \in Heard(place, answer)
        /\ answer[(Cardinality(Before(place, k)) + Len(took)) + 1] = h
    BY <1>2, <1>3, <1>7, HeardNext
  <2>. QED  BY <1>8, <1>9, <2>1
<1>11. Taken = UpTo(place, answer, p)
  BY <1>1, <1>8, <1>9 DEF Taken, k, took
<1>12. Taken' = UpTo(place, answer, p + 1)
  <2>1. Cardinality(Before(place, Len(seen'))) + Len(seen'[Len(seen')]) = p + 1
    <3>1. Len(seen'[Len(seen')]) = Len(took) + 1
      BY <1>4, <1>6
    <3>2. Cardinality(Before(place, Len(seen'))) = b
      BY <1>6, <1>8
    <3>. QED  BY <1>3, <1>9, <3>1, <3>2
  <2>. QED  BY <1>1, <2>1 DEF Taken
<1>13. PICK S : S = UpTo(place, answer, p)
  OBVIOUS
<1>14. PICK n \in Nat : n = p + 1
  OBVIOUS
<1>15. Taken = S /\ Taken' = S \cup {n} /\ S \subseteq Nat /\ \A m \in S : m < n
  BY <1>3, <1>10, <1>11, <1>12, <1>13, <1>14, UpToNext
<1>16. max_cons = LastOf(answer, Conns(answer, S)) /\ max_req_per_con = LastOf(answer, Reqs(answer, S))
  BY <1>15 DEF LimitInv
<1>17. /\ MaxCons(answer[n]) = LastOf(answer, Conns(answer, S \cup {n}))
       /\ MaxReqPerCon(answer[n]) = LastOf(answer, Reqs(answer, S \cup {n}))
  <2>1. MaxCons(answer[n]) = LastOf(answer, Conns(answer, S \cup {n}))
    BY <1>15, <1>16, ConnsAdd
  <2>2. MaxReqPerCon(answer[n]) = LastOf(answer, Reqs(answer, S \cup {n}))
    BY <1>15, <1>16, ReqsAdd
  <2>. QED  BY <2>1, <2>2
<1>18. max_cons' = MaxCons(answer[n]) /\ max_req_per_con' = MaxReqPerCon(answer[n])
  BY <1>1, <1>2, <1>10, <1>14
<1>. QED  BY <1>1, <1>3, <1>15, <1>17, <1>18 DEF LimitInv

\* The end of a record: all its pairs were taken, or none of the others counts.
LEMMA EndPairsLimit == ASSUME Inv, LimitInv, EndPairs PROVE LimitInv'
<1>. DEFINE k == Len(seen)
            took == seen[k]
<1>1. /\ stage = "pairs" /\ stage' = "values" /\ kvs = <<>>
      /\ UNCHANGED <<answer, place, seen, max_cons, max_req_per_con>>
  BY DEF EndPairs, appl
<1>2. seen # <<>> /\ (recs[k].type = GetValuesResult => InPairs(kvs, took, Sent(k)))
  BY <1>1 DEF Inv, PairsInv
<1>3. /\ place \in Seq(Nat) /\ answer \in Seq(Pair) /\ Len(place) <= Len(answer) /\ InOrder(place)
      /\ k \in Nat /\ k \in 1 .. k /\ took \in Seq(Pair) /\ Len(took) \in Nat
  BY <1>2, PlaceType DEF LimitInv
<1>4. k \in 1 .. Len(recs)
  <2>1. Len(recs) \in Nat /\ k <= Len(recs)
    BY LenProperties DEF Inv, TypeOK, ReadInv
  <2>. QED  BY <1>3, <2>1
<1>5. PICK b \in Nat, c \in Nat : b = Cardinality(Before(place, k)) /\ c = Cardinality(In(place, k))
  BY <1>3, CountType
<1>6. Taken = UpTo(place, answer, b + Len(took)) /\ Taken' = Through(place, answer, k)
  BY <1>1, <1>5 DEF Taken
<1>7. Through(place, answer, k) = UpTo(place, answer, b + Len(took))
  <2>1. CASE recs[k].type # GetValuesResult
    <3>1. place = <<>>
      BY <1>4, <2>1, OtherRecord
    <3>. QED  BY <3>1 DEF Through, UpTo, Heard
  <2>2. CASE recs[k].type = GetValuesResult
    <3>. HIDE DEF k, took
    <3>1. PICK rest \in Seq(Pair) : Sent(k) = Cat(took, rest) /\ (Whole(kvs, took, rest) \/ Broken(kvs, took))
      BY <1>2, <2>2 DEF InPairs
    <3>2. SentOf(place, answer, k) = Cat(took, rest)
      BY <3>1, SentIs
    <3>3. /\ Len(took) + Len(rest) = c /\ Len(rest) \in Nat
          /\ \A j \in 1 .. Len(took) : answer[b + j] = took[j]
      <4>1. /\ Len(took) + Len(rest) = Cardinality(In(place, k))
            /\ \A j \in 1 .. Len(took) : answer[Cardinality(Before(place, k)) + j] = took[j]
        BY <1>3, <3>2, TakenAt
      <4>. QED  BY <1>5, <4>1, LenProperties
    <3>4. CASE Whole(kvs, took, rest)
      <4>1. rest = <<>>
        BY <1>1, <3>4, EncodingFilled DEF Whole
      <4>2. Len(took) = c
        BY <1>3, <3>3, <4>1
      <4>3. Through(place, answer, k) =
               UpTo(place, answer, Cardinality(Before(place, k)) + Cardinality(In(place, k)))
        BY <1>3, ThroughIs
      <4>. QED  BY <1>5, <4>2, <4>3
    <3>5. CASE Broken(kvs, took)
      <4>1. NoMultiplex(took[Len(took)]) /\ Len(took) \in 1 .. Len(took)
        BY <1>3, <3>5, EmptySeq DEF Broken
      <4>2. PICK p \in Nat : p = b + Len(took)
        BY <1>3
      <4>3. NoMultiplex(answer[p]) /\ b < p /\ p <= b + c
        <5>1. answer[p] = took[Len(took)]
          BY <3>3, <4>1, <4>2
        <5>2. b < p /\ p <= b + c
          BY <1>3, <3>3, <4>1, <4>2
        <5>. QED  BY <4>1, <5>1, <5>2
      <4>4. Through(place, answer, k) = UpTo(place, answer, p)
        BY <1>3, <1>5, <4>3, UpToBroken
      <4>. QED  BY <4>2, <4>4
    <3>. QED  BY <3>1, <3>4, <3>5
  <2>. QED  BY <2>1, <2>2
<1>8. Taken' = Taken
  BY <1>6, <1>7
<1>. QED  BY <1>1, <1>8 DEF LimitInv

\* The other steps take nothing.
LEMMA QuietLimit ==
    ASSUME Inv, LimitInv, [Next]_vars, ~AppAdd, ~NextRecord, ~NextPair, ~EndPairs PROVE LimitInv'
<1>1. CASE App \/ AppClose \/ AppReset \/ UNCHANGED vars
  <2>1. UNCHANGED <<answer, place, client>>
    BY <1>1 DEF App, AppAddPanic, AppDone, AppHeader, AppCopy, AppPad, AppSend, AppUnknown,
                AppClose, AppReset, vars, appl
  <2>2. stage' = stage /\ seen' = seen /\ recs' = recs
    BY <2>1 DEF client
  <2>3. stage' = "ready" => Len(seen') = Len(recs')
    BY <2>2 DEF LimitInv
  <2>. QED  BY <2>1, <2>2, <2>3, LimitFrame DEF client
<1>2. CASE Connect \/ Query \/ ReadBuf \/ ReadFail \/ ReadRecord \/ ReadNone
  <2>1. /\ stage \notin {"pairs", "panic"} /\ stage' \notin {"pairs", "panic", "ready"}
        /\ UNCHANGED <<answer, place, seen, max_cons, max_req_per_con>>
    BY <1>2 DEF Connect, Query, ReadBuf, ReadFail, ReadRecord, ReadNone, appl
  <2>. QED  BY <2>1, LimitFrame
<1>3. CASE PairPanic
  <2>1. /\ stage = "pairs" /\ stage' = "panic"
        /\ UNCHANGED <<answer, place, seen, max_cons, max_req_per_con>>
    BY <1>3 DEF PairPanic, appl
  <2>. QED  BY <2>1, LimitFrame
<1>4. CASE Open
  <2>1. /\ stage = "values" /\ stage' \in {"ready", "failed"} /\ Len(seen) = Len(recs)
        /\ UNCHANGED <<answer, place, seen, recs, max_cons, max_req_per_con>>
    BY <1>4 DEF Open, appl
  <2>. QED  BY <2>1, LimitFrame
<1>. QED  BY <1>1, <1>2, <1>3, <1>4 DEF Next, NewWithStrategy

\* The limits follow the pairs in every reachable state.
THEOREM LimitsAlways == Spec => [](Inv /\ LimitInv)
<1>1. Init => Inv /\ LimitInv
  BY InitInv, InitLimit
<1>2. Inv /\ LimitInv /\ [Next]_vars => Inv' /\ LimitInv'
  <2>. SUFFICES ASSUME Inv, LimitInv, [Next]_vars PROVE Inv' /\ LimitInv'
    OBVIOUS
  <2>1. Inv'
    BY NextInv
  <2>2. LimitInv'
    BY <2>1, AppAddLimit, NextRecordLimit, NextPairLimit, EndPairsLimit, QuietLimit
  <2>. QED  BY <2>1, <2>2
<1>. QED  BY <1>1, <1>2, PTL DEF Spec

-----------------------------------------------------------------------------
(* What the limits of a ready pool are *)

\* A set of numbers up to N has a largest one.
LEMMA LargestOf ==
    ASSUME NEW N \in Nat, NEW T, T \subseteq 1 .. N, T # {}
    PROVE  Max(T) \in T /\ \A y \in T : Max(T) >= y
<1>. DEFINE B == {m \in Nat : \A y \in T : y <= m}
<1>1. N \in B
  OBVIOUS
<1>2. PICK m \in B : \A b \in B : m <= b
  <2>1. B \subseteq Nat /\ B # {}
    BY <1>1
  <2>. HIDE DEF B
  <2>. QED  BY <2>1, SmallestOf
<1>3. m \in T
  <2>. SUFFICES ASSUME m \notin T PROVE FALSE
    OBVIOUS
  <2>1. m \in Nat /\ \A y \in T : y \in Nat /\ y >= 1 /\ y <= m /\ y # m
    OBVIOUS
  <2>2. m - 1 \in Nat /\ \A y \in T : y <= m - 1
    <3>1. \E y \in T : y \in T
      OBVIOUS
    <3>2. m >= 1
      BY <2>1, <3>1
    <3>. QED  BY <2>1, <3>2
  <2>3. m - 1 \in B /\ ~(m <= m - 1)
    BY <2>2
  <2>. QED  BY <1>2, <2>3
<1>4. \A y \in T : m >= y
  OBVIOUS
<1>5. \E x \in T : \A y \in T : x >= y
  BY <1>3, <1>4
<1>. HIDE DEF B
<1>. QED  BY <1>5 DEF Max

\* No pair counts that was not told, and all do if none says NoMultiplex.
LEMMA CountsTold ==
    ASSUME Inv, LimitInv, stage = "ready"
    PROVE  /\ Taken = Through(place, answer, Len(recs)) /\ Taken \subseteq Told
           /\ Told \subseteq 1 .. Len(place) /\ Len(place) \in Nat
           /\ \A n \in Told : place[n] \in Nat
           /\ (\A n \in Told : ~NoMultiplex(answer[n])) => Taken = Told
<1>1. /\ DOMAIN place = 1 .. Len(place) /\ Len(place) \in Nat
      /\ \A n \in DOMAIN place : place[n] \in Nat
  BY PlaceType, LenProperties, ElementOfSeq
<1>2. Taken = Through(place, answer, Len(recs))
  BY DEF Taken, LimitInv
<1>3. Taken \subseteq Told /\ Told \subseteq 1 .. Len(place)
  BY <1>1, <1>2 DEF Through, Heard, Told
<1>4. ASSUME \A n \in Told : ~NoMultiplex(answer[n]), NEW n \in Told PROVE n \in Taken
  <2>1. n \in DOMAIN place /\ place[n] <= Len(recs)
    BY DEF Told
  <2>2. ASSUME NEW q \in 1 .. n - 1, place[q] = place[n] PROVE ~NoMultiplex(answer[q])
    <3>1. q \in DOMAIN place
      BY <1>1, <2>1
    <3>. QED  BY <1>4, <2>1, <2>2, <3>1 DEF Told
  <2>. QED  BY <1>2, <2>1, <2>2 DEF Through, Heard
<1>. QED  BY <1>1, <1>2, <1>3, <1>4 DEF Told

\* The first NoMultiplex of a record counts.
LEMMA FirstNoMultiplex ==
    ASSUME Inv, LimitInv, stage = "ready", NEW n \in Told, NoMultiplex(answer[n])
    PROVE  \E f \in Taken : NoMultiplex(answer[f]) /\ place[f] = place[n]
<1>. DEFINE S == {f \in Told : NoMultiplex(answer[f]) /\ place[f] = place[n]}
<1>1. /\ Taken = Through(place, answer, Len(recs))
      /\ Told \subseteq 1 .. Len(place) /\ Len(place) \in Nat /\ DOMAIN place = 1 .. Len(place)
  BY CountsTold, PlaceType, LenProperties
<1>2. PICK f \in S : \A g \in S : f <= g
  <2>1. Told \subseteq Nat
    BY <1>1
  <2>2. S \subseteq Nat /\ S # {}
    BY <2>1
  <2>. HIDE DEF S
  <2>. QED  BY <2>2, SmallestOf
<1>3. ASSUME NEW q \in 1 .. f - 1, place[q] = place[f] PROVE ~NoMultiplex(answer[q])
  <2>1. q \in 1 .. Len(place) /\ ~(f <= q)
    BY <1>1
  <2>2. q \notin S
    BY <1>2, <2>1
  <2>3. q \in Told
    BY <1>1, <1>3, <2>1 DEF Told
  <2>. QED  BY <1>3, <2>2, <2>3
<1>4. f \in Taken
  BY <1>1, <1>3 DEF Through, Heard, Told
<1>. QED  BY <1>4

\* No pair that counts stands behind NoMultiplex in its record.
LEMMA NoneBehind ==
    ASSUME Inv, LimitInv, stage = "ready", NEW f \in Taken, NoMultiplex(answer[f]),
           NEW m \in Taken, place[m] <= place[f]
    PROVE  m <= f
<1>. SUFFICES ASSUME ~(m <= f) PROVE FALSE
  OBVIOUS
<1>1. /\ Taken = Through(place, answer, Len(recs)) /\ Taken \subseteq Told
      /\ Told \subseteq 1 .. Len(place) /\ Len(place) \in Nat
      /\ place[m] \in Nat /\ place[f] \in Nat
  BY CountsTold
<1>2. m \in 1 .. Len(place) /\ f \in 1 .. Len(place) /\ f <= m /\ f \in 1 .. m - 1
  BY <1>1
<1>3. place[f] <= place[m]
  BY <1>2 DEF LimitInv, InOrder
<1>4. place[f] = place[m]
  BY <1>1, <1>3
<1>. QED  BY <1>1, <1>2, <1>4 DEF Through, Heard

\* A pool that is ready works with limits the application stated: with the last ones of
\* all records that new_with_strategy read, and one where it stated none, if it does
\* not say that it cannot multiplex; with one request per connection if it does and
\* states MAX_REQS in no later record.  For every answer and every cut of its bytes.
THEOREM NegotiatedAlways == Spec => []Negotiated
<1>1. ASSUME Inv, LimitInv, stage = "ready"
      PROVE  /\ (\A n \in Told : ~NoMultiplex(answer[n])) =>
                    /\ max_cons = LastStated(Stating(MAX_CONNS, U8))
                    /\ max_req_per_con = LastStated(Stating(MAX_REQS, U16))
             /\ \A n \in Told :
                   NoMultiplex(answer[n]) /\ (\A m \in Stating(MAX_REQS, U16) : place[m] <= place[n])
                       => max_req_per_con = 1
             /\ max_cons = 1 \/ \E n \in Stating(MAX_CONNS, U8) : max_cons = Limit(n)
  <2>1. /\ Taken \subseteq Told /\ Told \subseteq 1 .. Len(place) /\ Len(place) \in Nat
        /\ (\A n \in Told : ~NoMultiplex(answer[n])) => Taken = Told
    BY <1>1, CountsTold
  <2>2. /\ max_cons = LastOf(answer, Conns(answer, Taken))
        /\ max_req_per_con = LastOf(answer, Reqs(answer, Taken))
    BY <1>1 DEF LimitInv
  <2>3. Conns(answer, Taken) \subseteq Taken /\ Reqs(answer, Taken) \subseteq Taken
    BY DEF Conns, Reqs
  <2>4. ASSUME NEW S, S \subseteq Taken, S # {} PROVE Max(S) \in S /\ \A y \in S : Max(S) >= y
    <3>1. S \subseteq 1 .. Len(place)
      BY <2>1, <2>4
    <3>. QED  BY <2>1, <2>4, <3>1, LargestOf
  <2>5. ASSUME \A n \in Told : ~NoMultiplex(answer[n])
        PROVE  /\ max_cons = LastStated(Stating(MAX_CONNS, U8))
               /\ max_req_per_con = LastStated(Stating(MAX_REQS, U16))
    <3>1. Taken = Told
      BY <2>1, <2>5
    <3>2. /\ Conns(answer, Taken) = Stating(MAX_CONNS, U8)
          /\ Reqs(answer, Taken) = Stating(MAX_REQS, U16)
      BY <2>5, <3>1 DEF Conns, Reqs, Stating
    <3>3. ASSUME NEW S, S \subseteq Taken PROVE LastOf(answer, S) = LastStated(S)
      <4>1. S # {} => ~NoMultiplex(answer[Max(S)])
        BY <2>4, <2>5, <3>1, <3>3
      <4>. QED  BY <4>1 DEF LastOf, LastStated, Limit
    <3>4. /\ LastOf(answer, Conns(answer, Taken)) = LastStated(Conns(answer, Taken))
          /\ LastOf(answer, Reqs(answer, Taken)) = LastStated(Reqs(answer, Taken))
      BY <2>3, <3>3
    <3>. QED  BY <2>2, <3>2, <3>4
  <2>6. ASSUME NEW n \in Told, NoMultiplex(answer[n]),
               \A m \in Stating(MAX_REQS, U16) : place[m] <= place[n]
        PROVE  max_req_per_con = 1
    <3>1. PICK f \in Taken : NoMultiplex(answer[f]) /\ place[f] = place[n]
      BY <1>1, <2>6, FirstNoMultiplex
    <3>2. PICK x : x = Max(Reqs(answer, Taken))
      OBVIOUS
    <3>3. f \in Reqs(answer, Taken)
      BY <3>1 DEF Reqs
    <3>4. x \in Reqs(answer, Taken) /\ x >= f /\ x \in Taken /\ x \in Nat /\ f \in Nat
      <4>1. x \in Reqs(answer, Taken) /\ x >= f
        BY <2>3, <2>4, <3>2, <3>3
      <4>. QED  BY <2>1, <2>3, <3>3, <4>1
    <3>5. NoMultiplex(answer[x])
      <4>. SUFFICES ASSUME ~NoMultiplex(answer[x]) PROVE FALSE
        OBVIOUS
      <4>1. x \in Stating(MAX_REQS, U16)
        BY <2>1, <3>4 DEF Reqs, Stating
      <4>2. place[x] <= place[f]
        BY <2>6, <3>1, <4>1
      <4>3. x <= f
        BY <1>1, <3>1, <3>4, <4>2, NoneBehind
      <4>4. x = f
        BY <3>4, <4>3
      <4>. QED  BY <3>1, <4>4
    <3>. QED  BY <2>2, <3>2, <3>3, <3>5 DEF LastOf
  <2>7. max_cons = 1 \/ \E n \in Stating(MAX_CONNS, U8) : max_cons = Limit(n)
    <3>. SUFFICES ASSUME max_cons # 1 PROVE \E n \in Stating(MAX_CONNS, U8) : max_cons = Limit(n)
      OBVIOUS
    <3>1. PICK x : x = Max(Conns(answer, Taken))
      OBVIOUS
    <3>2. Conns(answer, Taken) # {} /\ max_cons = Limit(x)
      BY <2>2, <3>1 DEF LastOf, Limit
    <3>3. x \in Conns(answer, Taken)
      BY <2>3, <2>4, <3>1, <3>2
    <3>4. x \in Stating(MAX_CONNS, U8)
      BY <2>1, <3>3 DEF Conns, Stating
    <3>. QED  BY <3>2, <3>4
  <2>. QED  BY <2>5, <2>6, <2>7
<1>2. Inv /\ LimitInv => Negotiated
  BY <1>1 DEF Negotiated
<1>. QED  BY <1>2, LimitsAlways, PTL
=============================================================================
