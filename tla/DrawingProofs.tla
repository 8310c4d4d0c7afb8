--------------------------- MODULE DrawingProofs ---------------------------
(***************************************************************************)
(* Proofs about Drawing: a drawing of any size, stored and read any number *)
(* of times, keeps its shape, and its points only ever sink.               *)
(***************************************************************************)
EXTENDS Drawing, WellFoundedInduction, TLAPS

-----------------------------------------------------------------------------
(* Numbers. *)

\* A coordinate after a round trip, in a box of the given extent.
Sunk(x, e, short, off) == denorm(norm(x, e, short), e, off)

\* a \div b in terms of products, which is all the next lemma needs.
LEMMA Quotient ==
  ASSUME NEW a \in Nat, NEW b \in Nat \ {0}
  PROVE  /\ a \div b \in Nat
         /\ (a \div b) * b <= a /\ a < (a \div b) * b + b
         /\ a % b = 0 => a = (a \div b) * b
  OBVIOUS

LEMMA FullQuotient == ASSUME NEW b \in Nat \ {0} PROVE (10000 * b) \div b = 10000
  OBVIOUS

\* The step a coordinate is put on: the one below it, or at most one further down.
LEMMA NormFacts ==
  ASSUME NEW min \in Int, NEW L \in Nat \ {0}, NEW d \in 0..L, NEW short \in BOOLEAN,
         short => d # 0 /\ d # L /\ (10000 * d) % L = 0
  PROVE  LET k == norm(min + d, [min |-> min, length |-> L], short)
         IN /\ k \in Nat /\ k * L <= 10000 * d /\ 10000 * d <= k * L + L
            /\ d = L => k = 10000
<1> DEFINE a == 10000 * d
           q == a \div L
           k == norm(min + d, [min |-> min, length |-> L], short)
<1>1. a \in Nat /\ (min + d) - min = d
  OBVIOUS
<1>2. k = q - (IF short THEN 1 ELSE 0)
  BY <1>1 DEF norm
<1>3. q \in Nat /\ q * L <= a /\ a < q * L + L /\ (a % L = 0 => a = q * L)
  <2> HIDE DEF a
  <2>. QED  BY <1>1, Quotient
<1>4. CASE ~short
  <2>1. k = q
    BY <1>2, <1>3, <1>4
  <2>2. d = L => q = 10000
    <3>1. (10000 * L) \div L = 10000
      BY FullQuotient
    <3>2. d = L => q = (10000 * L) \div L
      OBVIOUS
    <3>. QED  BY ONLY <3>1, <3>2
  <2>3. k \in Nat /\ k * L <= a /\ a <= k * L + L
    <3> HIDE DEF k, q, a
    <3>. QED  BY <1>1, <1>3, <2>1
  <2>. QED  BY <2>1, <2>2, <2>3
<1>5. CASE short
  <2>0. d \in Nat \ {0} /\ d # L /\ a % L = 0
    BY <1>5
  <2>1. k = q - 1 /\ a = q * L /\ a # 0 /\ d # L
    <3>1. a # 0
      BY <2>0
    <3> HIDE DEF k, q, a
    <3>. QED  BY <1>2, <1>3, <1>5, <2>0, <3>1
  <2>2. q # 0
    <3> HIDE DEF a, q
    <3>. QED  BY <1>3, <2>1
  <2>3. k \in Nat /\ k * L <= a /\ a <= k * L + L
    <3>1. (q - 1) * L = q * L - L
      <4> HIDE DEF q
      <4>. QED  BY <1>3
    <3> HIDE DEF k, q, a
    <3>. QED  BY <1>1, <1>3, <2>1, <2>2, <3>1
  <2>. QED  BY <2>1, <2>3
<1>. QED  BY <1>4, <1>5

\* A round trip takes a coordinate towards the corner of its box or leaves it where
\* it is; it leaves the sides of the box, and everything in a small one.
LEMMA SunkFacts ==
  ASSUME NEW min \in Int, NEW L \in Nat, NEW x \in min..min + L, NEW short \in BOOLEAN,
         NEW off \in {-1, 0, 1},
         short => x # min /\ x # min + L /\ (10000 * (x - min)) % L = 0
  PROVE  LET r == Sunk(x, [min |-> min, length |-> L], short, off)
         IN /\ r \in min..x
            /\ x = min + L => r = x
            /\ L < 4375 => r = x
<1> DEFINE e == [min |-> min, length |-> L]
           d == x - min
           k == norm(x, e, short)
           t == 625 * off + k * L
           r == Sunk(x, e, short, off)
<1>1. d \in 0..L /\ x = min + d
  OBVIOUS
<1>2. PICK up \in {4999, 5000} : r = min + (t + up) \div 10000
  BY DEF Sunk, denorm
<1>3. /\ k \in Nat /\ k * L \in Int /\ k * L <= 10000 * d /\ 10000 * d <= k * L + L
      /\ 0 <= k * L
      /\ d = L => k * L = 10000 * L
  <2>1. CASE L = 0
    <3>1. k = 0
      BY <2>1 DEF norm
    <3> HIDE DEF k
    <3>. QED  BY <1>1, <2>1, <3>1
  <2>2. CASE L # 0
    <3>1. k = norm(min + d, e, short)
      BY <1>1
    <3>2. short => d # 0 /\ d # L /\ (10000 * d) % L = 0
      OBVIOUS
    <3>3. /\ k \in Nat /\ k * L <= 10000 * d /\ 10000 * d <= k * L + L
          /\ d = L => k = 10000
      <4> HIDE DEF k, d
      <4>. QED  BY <1>1, <2>2, <3>1, <3>2, NormFacts
    <3> HIDE DEF k, d
    <3>4. k * L \in Nat
      BY <3>3
    <3>. QED  BY <3>3, <3>4
  <2>. QED  BY <2>1, <2>2
<1> DEFINE z == k * L
<1>4. z \in Int /\ 0 <= z /\ z <= 10000 * d /\ 10000 * d <= z + L /\ (d = L => z = 10000 * L)
  BY <1>3
<1>5. r = min + (625 * off + z + up) \div 10000
  BY <1>2
<1> HIDE DEF z, r, k, t
<1>6. (625 * off + z + up) \div 10000 \in 0..d
  BY <1>1, <1>4
<1>7. d = L => (625 * off + z + up) \div 10000 = d
  BY <1>1, <1>4
<1>8. L < 4375 => (625 * off + z + up) \div 10000 = d
  BY <1>1, <1>4
<1> HIDE DEF d
<1> DEFINE h == (625 * off + z + up) \div 10000
<1>9. h \in 0..d /\ (d = L => h = d) /\ (L < 4375 => h = d) /\ r = min + h
  BY <1>5, <1>6, <1>7, <1>8
<1> HIDE DEF h
<1>10. r \in min..x /\ (x = min + L => r = x) /\ (L < 4375 => r = x)
  BY <1>1, <1>9
<1>. QED  BY <1>10 DEF r

-----------------------------------------------------------------------------
(* The box of a path. *)

LEMMA LeastNatural ==
  ASSUME NEW T \in SUBSET Nat, T # {}
  PROVE  \E x \in T : \A y \in T : x <= y
<1>1. PICK x \in T : \A y \in T : ~(<<y, x>> \in OpToRel(<, Nat))
  BY NatLessThanWellFounded, WFMin, Zenon
<1>2. \A y \in T : <<y, x>> \in OpToRel(<, Nat) <=> y < x
  BY DEF OpToRel
<1>3. \A y \in T : ~(y < x)
  BY <1>1, <1>2, Zenon
<1>. QED  BY <1>3

Within(x, b) == -b <= x /\ x <= b

LEMMA WithinSome == ASSUME NEW x \in Int PROVE \E b \in Nat : Within(x, b)
<1>1. CASE x >= 0
  <2>1. x \in Nat /\ Within(x, x)
    BY <1>1 DEF Within
  <2>. QED  BY <2>1
<1>2. CASE x < 0
  <2>1. -x \in Nat /\ Within(x, -x)
    BY <1>2 DEF Within
  <2>. QED  BY <2>1
<1>. QED  BY <1>1, <1>2

LEMMA WithinMore ==
  ASSUME NEW x \in Int, NEW b \in Nat, NEW c \in Nat, Within(x, b) \/ Within(x, c)
  PROVE  Within(x, b + c)
  BY DEF Within

LEMMA InitialIndexes ==
  ASSUME NEW k \in Nat, NEW l \in 1..k, NEW j \in 1..l
  PROVE  j \in 1..k /\ (j # l => j \in 1..l - 1)
  OBVIOUS

\* The numbers of a sequence have a bound.  No number n is the least for which those
\* of the first n have none.
LEMMA SeqBounded ==
  ASSUME NEW s \in Seq(Int)
  PROVE  \E b \in Nat : \A i \in DOMAIN s : Within(s[i], b)
<1> DEFINE N == Len(s)
           Bounds(b, n) == \A i \in 1..n : Within(s[i], b)
           T == {n \in 0..N : ~\E b \in Nat : Bounds(b, n)}
<1>1. N \in Nat /\ DOMAIN s = 1..N /\ \A i \in 1..N : s[i] \in Int
  OBVIOUS
<1> HIDE DEF N
<1>2. T = {}
  <2>. SUFFICES ASSUME T # {} PROVE FALSE
    OBVIOUS
  <2>1. PICK n \in T : \A m \in T : n <= m
    <3>1. T \in SUBSET Nat
      BY <1>1
    <3> HIDE DEF T
    <3>. QED  BY <3>1, LeastNatural
  <2>2. n \in 0..N
    BY <2>1
  <2>3. n # 0
    <3>1. Bounds(0, 0)
      OBVIOUS
    <3>. QED  BY <2>1, <3>1
  <2>4. n - 1 \in 0..N /\ n - 1 \notin T
    <3>1. n - 1 \in 0..N /\ ~(n <= n - 1)
      BY <1>1, <2>2, <2>3
    <3> HIDE DEF T
    <3>. QED  BY <2>1, <3>1
  <2>5. PICK b \in Nat : Bounds(b, n - 1)
    BY <2>4
  <2>6. n \in 1..N /\ s[n] \in Int
    BY <1>1, <2>2, <2>3
  <2>7. PICK c \in Nat : Within(s[n], c)
    BY <2>6, WithinSome
  <2>8. Bounds(b + c, n)
    <3>. SUFFICES ASSUME NEW i \in 1..n PROVE Within(s[i], b + c)
      OBVIOUS
    <3>1. i \in 1..N /\ (i # n => i \in 1..n - 1)
      BY <1>1, <2>6, InitialIndexes
    <3>. QED  BY <1>1, <2>5, <2>7, <3>1, WithinMore
  <2>9. b + c \in Nat
    OBVIOUS
  <2>. QED  BY <2>1, <2>8, <2>9
<1>3. N \in 0..N
  BY <1>1
<1>4. PICK b \in Nat : Bounds(b, N)
  BY <1>2, <1>3
<1>. QED  BY <1>1, <1>4

\* A bounded set of integers has a smallest and a largest member.
LEMMA BoundedHasEnds ==
  ASSUME NEW b \in Nat, NEW S \in SUBSET Int, \A x \in S : Within(x, b), S # {}
  PROVE  /\ MinOf(S) \in S /\ \A x \in S : MinOf(S) <= x
         /\ MaxOf(S) \in S /\ \A x \in S : MaxOf(S) >= x
<1>1. \E m \in S : \A x \in S : m <= x
  <2> DEFINE T == {x + b : x \in S}
  <2>0. \A x \in S : x \in Int /\ x + b \in Nat
    BY DEF Within
  <2>1. T \in SUBSET Nat /\ T # {} /\ \A x \in S : x + b \in T
    BY <2>0
  <2>2. PICK n \in T : \A y \in T : n <= y
    <3> HIDE DEF T
    <3>. QED  BY <2>1, LeastNatural
  <2>3. PICK m \in S : n = m + b
    BY <2>2
  <2>4. \A x \in S : m + b <= x + b
    <3> HIDE DEF T
    <3>. QED  BY <2>1, <2>2, <2>3
  <2>5. \A x \in S : m <= x
    <3> TAKE x \in S
    <3>1. x \in Int /\ m \in Int /\ m + b <= x + b
      BY <2>0, <2>4
    <3>. QED  BY ONLY <3>1, b \in Nat
  <2>. QED  BY <2>5
<1>2. \E m \in S : \A x \in S : m >= x
  <2> DEFINE T == {b - x : x \in S}
  <2>0. \A x \in S : x \in Int /\ b - x \in Nat
    BY DEF Within
  <2>1. T \in SUBSET Nat /\ T # {} /\ \A x \in S : b - x \in T
    BY <2>0
  <2>2. PICK n \in T : \A y \in T : n <= y
    <3> HIDE DEF T
    <3>. QED  BY <2>1, LeastNatural
  <2>3. PICK m \in S : n = b - m
    BY <2>2
  <2>4. \A x \in S : b - m <= b - x
    <3> HIDE DEF T
    <3>. QED  BY <2>1, <2>2, <2>3
  <2>5. \A x \in S : m >= x
    <3> TAKE x \in S
    <3>1. x \in Int /\ m \in Int /\ b - m <= b - x
      BY <2>0, <2>4
    <3>. QED  BY ONLY <3>1, b \in Nat
  <2>. QED  BY <2>5
<1>. QED  BY <1>1, <1>2 DEF MinOf, MaxOf

LEMMA PartFacts ==
  ASSUME NEW p \in Seq(Part), NEW i \in DOMAIN p
  PROVE  /\ p[i] \in Part /\ p[i].label \in STRING /\ p[i].c \in Seq(Int)
         /\ \A j \in DOMAIN p[i].c : p[i].c[j] \in Int
<1>1. p[i] \in Part
  OBVIOUS
<1>2. p[i].label \in STRING /\ p[i].c \in Seq(Int)
  BY <1>1 DEF Part
<1>. QED  BY <1>1, <1>2

LEMMA SeqOfFunction ==
  ASSUME NEW S, NEW n \in Nat, NEW f \in [1..n -> S] PROVE f \in Seq(S) /\ Len(f) = n
  OBVIOUS

LEMMA SeqIsFunction ==
  ASSUME NEW S, NEW s \in Seq(S) PROVE s = [j \in DOMAIN s |-> s[j]]
  OBVIOUS

LEMMA CoordinatesAre ==
  ASSUME NEW p, NEW a
  PROVE  \A x : x \in Coordinates(p, a) <=>
           \E i \in DOMAIN p : \E j \in DOMAIN p[i].c : Axis(j) = a /\ x = p[i].c[j]
  BY DEF Coordinates

\* The coordinates of a path are integers and have a bound.
LEMMA CoordinatesBounded ==
  ASSUME NEW p \in Seq(Part), NEW a
  PROVE  /\ Coordinates(p, a) \in SUBSET Int
         /\ \E b \in Nat : \A x \in Coordinates(p, a) : Within(x, b)
<1> DEFINE N == Len(p)
           Bound(i) == CHOOSE b \in Nat : \A j \in DOMAIN p[i].c : Within(p[i].c[j], b)
           B == [i \in 1..N |-> Bound(i)]
<1>1. N \in Nat /\ DOMAIN p = 1..N
  OBVIOUS
<1>2. ASSUME NEW i \in DOMAIN p
      PROVE  Bound(i) \in Nat /\ \A j \in DOMAIN p[i].c : Within(p[i].c[j], Bound(i))
  BY PartFacts, SeqBounded
<1> HIDE DEF N, Bound
<1>3. B \in Seq(Int) /\ DOMAIN B = DOMAIN p /\ \A i \in DOMAIN p : B[i] = Bound(i)
  BY <1>1, <1>2
<1> HIDE DEF B
<1>4. PICK b \in Nat : \A i \in DOMAIN B : Within(B[i], b)
  BY <1>3, SeqBounded
<1>5. ASSUME NEW x \in Coordinates(p, a) PROVE x \in Int /\ Within(x, b)
  <2>1. PICK i \in DOMAIN p : \E j \in DOMAIN p[i].c : x = p[i].c[j]
    BY DEF Coordinates
  <2>2. PICK j \in DOMAIN p[i].c : x = p[i].c[j]
    BY <2>1
  <2>3. x \in Int
    BY <2>2, PartFacts
  <2>4. Within(x, B[i]) /\ Within(B[i], b) /\ B[i] \in Nat
    BY <1>2, <1>3, <1>4, <2>2
  <2>. QED  BY <2>3, <2>4 DEF Within
<1>. QED  BY <1>5

\* The coordinates of a path lie between the ends of its extent, which are among them.
LEMMA ExtentFacts ==
  ASSUME NEW p \in Seq(Part), NEW a, Coordinates(p, a) # {}
  PROVE  LET e == Extent(p, a)
         IN /\ e = [min |-> e.min, length |-> e.length] /\ e.min \in Int /\ e.length \in Nat
            /\ e.min \in Coordinates(p, a) /\ e.min + e.length \in Coordinates(p, a)
            /\ \A x \in Coordinates(p, a) : x \in e.min..e.min + e.length
<1> DEFINE S == Coordinates(p, a)
<1>1. S \in SUBSET Int /\ \E b \in Nat : \A x \in S : Within(x, b)
  BY CoordinatesBounded
<1>2. Extent(p, a) = [min |-> MinOf(S), length |-> MaxOf(S) - MinOf(S)]
  BY DEF Extent
<1> HIDE DEF S
<1>3. S # {}
  BY DEF S
<1>4. /\ MinOf(S) \in S /\ \A x \in S : MinOf(S) <= x
      /\ MaxOf(S) \in S /\ \A x \in S : MaxOf(S) >= x
  BY <1>1, <1>3, BoundedHasEnds
<1> DEFINE lo == MinOf(S)
           hi == MaxOf(S)
<1> HIDE DEF lo, hi
<1>5. lo \in Int /\ hi \in Int /\ lo <= hi
  BY <1>1, <1>4 DEF lo, hi
<1>6. hi - lo \in Nat /\ lo + (hi - lo) = hi
  BY <1>5
<1>7. \A x \in S : x \in lo..hi
  BY <1>1, <1>4, <1>5 DEF lo, hi
<1>8. Extent(p, a).min = lo /\ Extent(p, a).length = hi - lo
  BY <1>2 DEF lo, hi
<1>9. lo \in S /\ hi \in S
  BY <1>4 DEF lo, hi
<1>10. Extent(p, a) = [min |-> Extent(p, a).min, length |-> Extent(p, a).length]
  BY <1>2
<1>. QED  BY <1>5, <1>6, <1>7, <1>8, <1>9, <1>10 DEF S

\* An extent is known by its ends.
LEMMA ExtentIs ==
  ASSUME NEW p \in Seq(Part), NEW a, NEW m \in Coordinates(p, a), NEW l \in Nat,
         m \in Int, m + l \in Coordinates(p, a), \A x \in Coordinates(p, a) : x \in m..m + l
  PROVE  Extent(p, a) = [min |-> m, length |-> l]
<1> DEFINE e == Extent(p, a)
<1>1. /\ e = [min |-> e.min, length |-> e.length] /\ e.min \in Int /\ e.length \in Nat
      /\ e.min \in Coordinates(p, a) /\ e.min + e.length \in Coordinates(p, a)
      /\ \A x \in Coordinates(p, a) : x \in e.min..e.min + e.length
  BY ExtentFacts
<1> HIDE DEF e
<1>2. e.min = m
  BY <1>1
<1>3. e.length = l
  BY <1>1, <1>2
<1>. QED  BY <1>1, <1>2, <1>3 DEF e

-----------------------------------------------------------------------------
(* Paths. *)

\* A path as decode_path leaves it.
IsDecoded(p) ==
  /\ p \in Seq(Part)
  /\ \A i \in DOMAIN p : p[i].label \in DOMAIN Arity /\ Len(p[i].c) = Arity[p[i].label]

LEMMA ArityFacts ==
  DOMAIN Arity = {"M", "L", "Q", "z"} /\ \A l \in DOMAIN Arity : Arity[l] \in Nat
  BY DEF Arity

LEMMA OptionFacts ==
  ASSUME NEW v PROVE Some(v) # None /\ Some(v)[1] = v /\ Len(Some(v)) = 1
  BY DEF Some, None

LEMMA FirstCoordinates ==
  ASSUME NEW c \in Seq(Int), NEW n \in Nat, n <= Len(c)
  PROVE  SubSeq(c, 1, n) \in Seq(Int) /\ Len(SubSeq(c, 1, n)) = n
         /\ (n = Len(c) => SubSeq(c, 1, n) = c)
  OBVIOUS

\* decode_path cuts the parts to their arity, or refuses them.
LEMMA DecodeFacts ==
  ASSUME NEW p \in Seq(Part), decode_path(p) # None
  PROVE  /\ decode_path(p) = Some(decode_path(p)[1])
         /\ IsDecoded(decode_path(p)[1]) /\ Len(decode_path(p)[1]) = Len(p)
<1> DEFINE short(i) == SubSeq(p[i].c, 1, Arity[p[i].label])
           q == [i \in DOMAIN p |-> [p[i] EXCEPT !.c = SubSeq(@, 1, Arity[p[i].label])]]
<1>1. \A i \in DOMAIN p : p[i].label \in DOMAIN Arity /\ Len(p[i].c) >= Arity[p[i].label]
  BY DEF decode_path
<1>2. decode_path(p) = Some(q)
  BY <1>1 DEF decode_path
<1>3. ASSUME NEW i \in DOMAIN p
      PROVE  q[i] \in Part /\ q[i].label = p[i].label /\ Len(q[i].c) = Arity[p[i].label]
  <2>1. p[i] \in Part /\ p[i].c \in Seq(Int) /\ Arity[p[i].label] \in Nat
        /\ Arity[p[i].label] <= Len(p[i].c)
    BY <1>1, PartFacts, ArityFacts
  <2>2. short(i) \in Seq(Int) /\ Len(short(i)) = Arity[p[i].label]
    BY <2>1, FirstCoordinates
  <2> HIDE DEF short
  <2>3. q[i] = [p[i] EXCEPT !.c = short(i)]
    BY DEF short
  <2> HIDE DEF q
  <2>. QED  BY <2>1, <2>2, <2>3 DEF Part
<1>4. DOMAIN p = 1..Len(p) /\ Len(p) \in Nat
  OBVIOUS
<1>5. DOMAIN q = 1..Len(p)
  BY <1>4
<1> HIDE DEF q
<1>6. q \in Seq(Part) /\ Len(q) = Len(p)
  <2>1. q = [i \in 1..Len(p) |-> q[i]]
    BY <1>5 DEF q
  <2>. QED  BY <1>3, <1>4, <1>5, <2>1
<1>. QED  BY <1>1, <1>2, <1>3, <1>4, <1>5, <1>6, OptionFacts DEF IsDecoded

\* What is decoded stays as it is.
LEMMA DecodeDecoded ==
  ASSUME NEW p, IsDecoded(p) PROVE decode_path(p) = Some(p)
<1> DEFINE q == [i \in DOMAIN p |-> [p[i] EXCEPT !.c = SubSeq(@, 1, Arity[p[i].label])]]
<1>1. p \in Seq(Part)
  BY DEF IsDecoded
<1>2. ASSUME NEW i \in DOMAIN p
      PROVE  /\ p[i].label \in DOMAIN Arity /\ Len(p[i].c) = Arity[p[i].label]
             /\ p[i] \in Part /\ p[i].c \in Seq(Int) /\ Arity[p[i].label] \in Nat
             /\ Len(p[i].c) >= Arity[p[i].label]
  BY <1>1, PartFacts, ArityFacts DEF IsDecoded
<1>3. decode_path(p) = Some(q)
  BY <1>2 DEF decode_path
<1>4. ASSUME NEW i \in DOMAIN p
      PROVE  [p[i] EXCEPT !.c = SubSeq(@, 1, Arity[p[i].label])] = p[i]
  <2>1. SubSeq(p[i].c, 1, Arity[p[i].label]) = p[i].c
    BY <1>2, FirstCoordinates
  <2>2. [p[i] EXCEPT !.c = p[i].c] = p[i]
    BY <1>2 DEF Part
  <2>. QED  BY <2>1, <2>2
<1>5. q = [i \in DOMAIN p |-> p[i]]
  BY <1>4
<1>6. p = [i \in DOMAIN p |-> p[i]]
  BY <1>1
<1>. QED  BY <1>3, <1>5, <1>6

\* The coordinates whose quotient may come out below, as Inexact has them.
ShortOK(p, short) ==
  \A a \in {"x", "y"} : \A x : <<a, x>> \in short =>
    LET e == Extent(p, a)
    IN x # e.min /\ x # e.min + e.length /\ (10000 * (x - e.min)) % e.length = 0

OffOK(off) == off \in [{"x", "y"} -> {-1, 0, 1}]

\* A coordinate of a path after a round trip.
SunkAt(p, i, j, short, off) ==
  Sunk(p[i].c[j], Extent(p, Axis(j)), <<Axis(j), p[i].c[j]>> \in short, off[Axis(j)])

LEMMA CoordinateFacts ==
  ASSUME NEW p \in Seq(Part), NEW i \in DOMAIN p, NEW j \in DOMAIN p[i].c
  PROVE  /\ Axis(j) \in {"x", "y"} /\ p[i].c[j] \in Int
         /\ p[i].c[j] \in Coordinates(p, Axis(j))
<1>1. Axis(j) \in {"x", "y"}
  BY DEF Axis
<1>2. p[i].c[j] \in Coordinates(p, Axis(j))
  BY DEF Coordinates
<1>. QED  BY <1>1, <1>2, PartFacts

\* SunkFacts for the coordinates of a path.
LEMMA SunkCoordinate ==
  ASSUME NEW p \in Seq(Part), NEW i \in DOMAIN p, NEW j \in DOMAIN p[i].c,
         NEW short, ShortOK(p, short), NEW off, OffOK(off)
  PROVE  LET e == Extent(p, Axis(j))
             x == p[i].c[j]
             r == SunkAt(p, i, j, short, off)
         IN /\ r \in Int /\ e.min <= r /\ r <= x
            /\ x = e.min + e.length => r = x
            /\ e.length < 4375 => r = x
<1> DEFINE a == Axis(j)
           e == Extent(p, a)
           x == p[i].c[j]
           below == <<a, x>> \in short
           r == SunkAt(p, i, j, short, off)
<1>1. a \in {"x", "y"} /\ x \in Int /\ x \in Coordinates(p, a) /\ off[a] \in {-1, 0, 1}
  BY CoordinateFacts DEF OffOK
<1>2. /\ e = [min |-> e.min, length |-> e.length] /\ e.min \in Int /\ e.length \in Nat
      /\ x \in e.min..e.min + e.length
  <2> HIDE DEF a, x
  <2>. QED  BY <1>1, ExtentFacts
<1>3. below \in BOOLEAN
  OBVIOUS
<1>4. below => x # e.min /\ x # e.min + e.length /\ (10000 * (x - e.min)) % e.length = 0
  <2> HIDE DEF a, x
  <2>. QED  BY <1>1 DEF ShortOK
<1>5. r = Sunk(x, [min |-> e.min, length |-> e.length], below, off[a])
  <2>1. r = Sunk(x, e, below, off[a])
    BY DEF SunkAt
  <2> HIDE DEF e, r, x, below, a
  <2>. QED  BY <1>2, <2>1
<1>6. r \in e.min..x /\ (x = e.min + e.length => r = x) /\ (e.length < 4375 => r = x)
  <2> HIDE DEF e, r, x, below, a
  <2>. QED  BY <1>1, <1>2, <1>3, <1>4, <1>5, SunkFacts
<1>7. r \in Int /\ e.min <= r /\ r <= x
  <2> HIDE DEF e, r, x, below, a
  <2>. QED  BY <1>1, <1>2, <1>6
<1>. QED  BY <1>6, <1>7

\* What compress_path makes of a decoded path.
Compressed(p, short, off) ==
  LET extent == [x |-> Extent(p, "x"), y |-> Extent(p, "y")]
  IN [parts |-> [i \in DOMAIN p |-> CompactPart(p[i], extent, short)],
      extent |-> extent, off |-> off]

LEMMA CompressFacts ==
  ASSUME NEW path, decode_path(path) # None, NEW short, NEW off
  PROVE  compress_path(path, short, off) = Some(Compressed(decode_path(path)[1], short, off))
  BY DEF compress_path, Compressed

\* A path that is compressed and decompressed has its parts, with other coordinates.
LEMMA RoundTrip ==
  ASSUME NEW p, IsDecoded(p), NEW short, ShortOK(p, short), NEW off, OffOK(off)
  PROVE  LET q == decompress_path(Compressed(p, short, off))
         IN /\ IsDecoded(q) /\ DOMAIN q = DOMAIN p /\ Len(q) = Len(p)
            /\ \A i \in DOMAIN p : q[i] =
                 [p[i] EXCEPT !.c = [j \in DOMAIN p[i].c |-> SunkAt(p, i, j, short, off)]]
<1> DEFINE extent == [x |-> Extent(p, "x"), y |-> Extent(p, "y")]
           C == Compressed(p, short, off)
           q == decompress_path(C)
           k(i, j) == norm(p[i].c[j], extent[Axis(j)], <<Axis(j), p[i].c[j]>> \in short)
           K(i) == [j \in DOMAIN p[i].c |-> k(i, j)]
           R(i) == [j \in DOMAIN p[i].c |-> SunkAt(p, i, j, short, off)]
<1>1. p \in Seq(Part) /\ DOMAIN p = 1..Len(p) /\ Len(p) \in Nat
  BY DEF IsDecoded
<1>2. ASSUME NEW i \in DOMAIN p
      PROVE  /\ p[i] \in Part /\ p[i].c \in Seq(Int) /\ p[i].label \in DOMAIN Arity
             /\ Len(p[i].c) = Arity[p[i].label] /\ DOMAIN p[i].c = 1..Len(p[i].c)
             /\ Len(p[i].c) \in Nat
  BY <1>1, PartFacts DEF IsDecoded
<1>3. /\ DOMAIN C.parts = DOMAIN p /\ C.extent = extent /\ C.off = off
      /\ \A i \in DOMAIN p : C.parts[i] = [p[i] EXCEPT !.c = K(i)]
  BY DEF Compressed, CompactPart
<1>4. ASSUME NEW i \in DOMAIN p
      PROVE  C.parts[i].c = K(i)
  <2> HIDE DEF K, C
  <2>. QED  BY <1>2, <1>3 DEF Part
<1>5. ASSUME NEW i \in DOMAIN p, NEW j \in DOMAIN p[i].c
      PROVE  denorm(K(i)[j], extent[Axis(j)], off[Axis(j)]) = SunkAt(p, i, j, short, off)
  <2>1. Axis(j) \in {"x", "y"}
    BY DEF Axis
  <2>2. extent[Axis(j)] = Extent(p, Axis(j))
    BY <2>1
  <2>. QED  BY <2>2 DEF SunkAt, Sunk
<1>6. ASSUME NEW i \in DOMAIN p PROVE q[i] = [p[i] EXCEPT !.c = R(i)]
  <2>1. q[i] = [C.parts[i] EXCEPT !.c = [j \in DOMAIN C.parts[i].c |->
                  denorm(C.parts[i].c[j], C.extent[Axis(j)], C.off[Axis(j)])]]
    <3> HIDE DEF C
    <3>. QED  BY <1>3 DEF decompress_path
  <2>2. [j \in DOMAIN C.parts[i].c |-> denorm(C.parts[i].c[j], C.extent[Axis(j)], C.off[Axis(j)])]
        = R(i)
    <3>1. DOMAIN K(i) = DOMAIN p[i].c
      OBVIOUS
    <3>2. C.parts[i].c = K(i) /\ C.extent = extent /\ C.off = off
      BY <1>3, <1>4
    <3> HIDE DEF C, K, extent
    <3>3. [j \in DOMAIN C.parts[i].c |-> denorm(C.parts[i].c[j], C.extent[Axis(j)], C.off[Axis(j)])]
          = [j \in DOMAIN p[i].c |-> denorm(K(i)[j], extent[Axis(j)], off[Axis(j)])]
      BY <3>1, <3>2
    <3>. QED  BY <1>5, <3>3
  <2>3. [[p[i] EXCEPT !.c = K(i)] EXCEPT !.c = R(i)] = [p[i] EXCEPT !.c = R(i)]
    <3> HIDE DEF K, R
    <3>. QED  BY <1>2 DEF Part
  <2> HIDE DEF C, K, R, q
  <2>. QED  BY <1>3, <2>1, <2>2, <2>3
<1>7. DOMAIN q = DOMAIN p /\ q = [i \in DOMAIN p |-> q[i]]
  <2> HIDE DEF C
  <2>. QED  BY <1>3 DEF decompress_path
<1> HIDE DEF q
<1>8. ASSUME NEW i \in DOMAIN p
      PROVE  q[i] \in Part /\ q[i].label = p[i].label /\ Len(q[i].c) = Len(p[i].c)
  <2>1. R(i) \in [1..Len(p[i].c) -> Int]
    BY <1>1, <1>2, SunkCoordinate
  <2> HIDE DEF R
  <2>2. R(i) \in Seq(Int) /\ Len(R(i)) = Len(p[i].c)
    BY <1>2, <2>1, SeqOfFunction
  <2>. QED  BY <1>2, <1>6, <2>2 DEF Part
<1>9. q \in Seq(Part) /\ Len(q) = Len(p)
  BY <1>1, <1>7, <1>8
<1>10. IsDecoded(q)
  BY <1>2, <1>7, <1>8, <1>9 DEF IsDecoded
<1>. QED  BY <1>6, <1>7, <1>9, <1>10 DEF q

\* A round trip: where the points of a path are afterwards, and its box.
LEMMA RoundTripKeeps ==
  ASSUME NEW p, IsDecoded(p), NEW short, ShortOK(p, short), NEW off, OffOK(off)
  PROVE  LET q == decompress_path(Compressed(p, short, off))
         IN /\ IsDecoded(q) /\ Len(q) = Len(p)
            /\ \A i \in DOMAIN p : \A j \in DOMAIN p[i].c : q[i].c[j] <= p[i].c[j]
            /\ \A a \in {"x", "y"} : Extent(q, a) = Extent(p, a)
            /\ (\A a \in {"x", "y"} : Extent(p, a).length < 4375) => q = p
<1> DEFINE q == decompress_path(Compressed(p, short, off))
           r(i, j) == SunkAt(p, i, j, short, off)
<1>1. /\ IsDecoded(q) /\ DOMAIN q = DOMAIN p /\ Len(q) = Len(p)
      /\ \A i \in DOMAIN p : q[i] = [p[i] EXCEPT !.c = [j \in DOMAIN p[i].c |-> r(i, j)]]
  BY RoundTrip
<1> HIDE DEF q
<1>2. p \in Seq(Part) /\ q \in Seq(Part)
  BY <1>1 DEF IsDecoded
<1>3. ASSUME NEW i \in DOMAIN p
      PROVE  /\ q[i].c = [j \in DOMAIN p[i].c |-> r(i, j)]
             /\ DOMAIN q[i].c = DOMAIN p[i].c
             /\ p[i] \in Part /\ p[i].c \in Seq(Int)
  <2>1. p[i] \in Part /\ p[i].c \in Seq(Int)
    BY <1>2, PartFacts
  <2> HIDE DEF r
  <2>2. q[i].c = [j \in DOMAIN p[i].c |-> r(i, j)]
    BY <1>1, <2>1 DEF Part
  <2>. QED  BY <2>1, <2>2
<1>4. ASSUME NEW i \in DOMAIN p, NEW j \in DOMAIN p[i].c
      PROVE  LET e == Extent(p, Axis(j))
             IN /\ q[i].c[j] \in Int /\ e.min <= q[i].c[j] /\ q[i].c[j] <= p[i].c[j]
                /\ p[i].c[j] = e.min + e.length => q[i].c[j] = p[i].c[j]
                /\ e.length < 4375 => q[i].c[j] = p[i].c[j]
                /\ Axis(j) \in {"x", "y"} /\ p[i].c[j] \in Int
                /\ p[i].c[j] \in Coordinates(p, Axis(j))
  <2>1. q[i].c[j] = r(i, j)
    BY <1>3
  <2>2. LET e == Extent(p, Axis(j))
        IN /\ r(i, j) \in Int /\ e.min <= r(i, j) /\ r(i, j) <= p[i].c[j]
           /\ p[i].c[j] = e.min + e.length => r(i, j) = p[i].c[j]
           /\ e.length < 4375 => r(i, j) = p[i].c[j]
    BY <1>2, SunkCoordinate
  <2> HIDE DEF r
  <2>. QED  BY <1>2, <2>1, <2>2, CoordinateFacts
<1>5. ASSUME NEW a \in {"x", "y"} PROVE Extent(q, a) = Extent(p, a)
  <2> DEFINE e == Extent(p, a)
  <2>1. ASSUME NEW y \in Coordinates(q, a)
        PROVE  \E i \in DOMAIN p : \E j \in DOMAIN p[i].c : Axis(j) = a /\ y = q[i].c[j]
    <3>1. PICK i \in DOMAIN q : \E j \in DOMAIN q[i].c : Axis(j) = a /\ y = q[i].c[j]
      BY <2>1, CoordinatesAre
    <3>2. i \in DOMAIN p /\ DOMAIN q[i].c = DOMAIN p[i].c
      BY <1>1, <1>3
    <3>. QED  BY <3>1, <3>2
  <2>2. ASSUME NEW x \in Coordinates(p, a)
        PROVE  \E i \in DOMAIN p : \E j \in DOMAIN p[i].c : Axis(j) = a /\ x = p[i].c[j]
    BY DEF Coordinates
  <2>3. ASSUME NEW i \in DOMAIN p, NEW j \in DOMAIN p[i].c, Axis(j) = a
        PROVE  q[i].c[j] \in Coordinates(q, a)
    BY <1>1, <1>3, <2>3, CoordinatesAre
  <2>4. CASE Coordinates(p, a) = {}
    <3>1. Coordinates(q, a) = {}
      BY <1>4, <2>1, <2>4
    <3>. QED  BY <2>4, <3>1 DEF Extent
  <2>5. CASE Coordinates(p, a) # {}
    <3>1. /\ e = [min |-> e.min, length |-> e.length] /\ e.min \in Int /\ e.length \in Nat
          /\ e.min \in Coordinates(p, a) /\ e.min + e.length \in Coordinates(p, a)
          /\ \A x \in Coordinates(p, a) : x \in e.min..e.min + e.length
      BY <1>2, <2>5, ExtentFacts
    <3>2. e.min \in Coordinates(q, a)
      <4>1. PICK i \in DOMAIN p : \E j \in DOMAIN p[i].c : Axis(j) = a /\ e.min = p[i].c[j]
        BY <2>2, <3>1
      <4>2. PICK j \in DOMAIN p[i].c : Axis(j) = a /\ e.min = p[i].c[j]
        BY <4>1
      <4>3. q[i].c[j] \in Int /\ e.min <= q[i].c[j] /\ q[i].c[j] <= e.min
        BY <1>4, <4>2
      <4>4. q[i].c[j] = e.min
        <5> HIDE DEF e
        <5>. QED  BY <3>1, <4>3
      <4>. QED  BY <2>3, <4>2, <4>4
    <3>3. e.min + e.length \in Coordinates(q, a)
      <4>1. PICK i \in DOMAIN p : \E j \in DOMAIN p[i].c : Axis(j) = a /\ e.min + e.length = p[i].c[j]
        BY <2>2, <3>1
      <4>2. PICK j \in DOMAIN p[i].c : Axis(j) = a /\ e.min + e.length = p[i].c[j]
        BY <4>1
      <4>3. q[i].c[j] = e.min + e.length
        BY <1>4, <4>2
      <4>. QED  BY <2>3, <4>2, <4>3
    <3>4. ASSUME NEW y \in Coordinates(q, a) PROVE y \in e.min..e.min + e.length
      <4>1. PICK i \in DOMAIN p : \E j \in DOMAIN p[i].c : Axis(j) = a /\ y = q[i].c[j]
        BY <2>1
      <4>2. PICK j \in DOMAIN p[i].c : Axis(j) = a /\ y = q[i].c[j]
        BY <4>1
      <4>3. /\ y \in Int /\ e.min <= y /\ y <= p[i].c[j] /\ p[i].c[j] \in Int
            /\ p[i].c[j] \in Coordinates(p, a)
        BY <1>4, <4>2
      <4> DEFINE x == p[i].c[j]
      <4>4. y \in Int /\ e.min <= y /\ y <= x /\ x \in e.min..e.min + e.length
        BY <3>1, <4>3
      <4> HIDE DEF e, x
      <4>. QED  BY <3>1, <4>4
    <3> HIDE DEF e
    <3>5. Extent(q, a) = [min |-> e.min, length |-> e.length]
      BY <1>2, <3>1, <3>2, <3>3, <3>4, ExtentIs
    <3>. QED  BY <3>1, <3>5 DEF e
  <2>. QED  BY <2>4, <2>5
<1>6. ASSUME \A a \in {"x", "y"} : Extent(p, a).length < 4375 PROVE q = p
  <2>1. ASSUME NEW i \in DOMAIN p PROVE q[i] = p[i]
    <3>1. \A j \in DOMAIN p[i].c : q[i].c[j] = p[i].c[j]
      BY <1>4, <1>6
    <3>2. \A j \in DOMAIN p[i].c : r(i, j) = p[i].c[j]
      BY <1>3, <3>1
    <3> HIDE DEF r
    <3>3. [j \in DOMAIN p[i].c |-> r(i, j)] = p[i].c
      <4>1. p[i].c = [j \in DOMAIN p[i].c |-> p[i].c[j]]
        BY <1>3, SeqIsFunction
      <4>. QED  BY <3>2, <4>1
    <3>4. [p[i] EXCEPT !.c = p[i].c] = p[i]
      BY <1>3 DEF Part
    <3>. QED  BY <1>1, <3>3, <3>4
  <2>2. p = [i \in DOMAIN p |-> p[i]] /\ q = [i \in DOMAIN p |-> q[i]]
    BY <1>1, <1>2
  <2>. QED  BY <2>1, <2>2
<1>. QED  BY <1>1, <1>4, <1>5, <1>6 DEF q

-----------------------------------------------------------------------------
(* Drawings. *)

\* What Inexact and Offs have is what the lemmas above need.
LEMMA InexactFacts ==
  ASSUME NEW d, NEW short \in SUBSET Inexact(d), NEW off \in Offs(d)
  PROVE  ShortOK(PathOf(d), short) /\ OffOK(off)
<1>1. OffOK(off)
  BY DEF Offs, OffOK
<1>2. ASSUME NEW a \in {"x", "y"}, NEW x, <<a, x>> \in short
      PROVE  LET e == Extent(PathOf(d), a)
             IN x # e.min /\ x # e.min + e.length /\ (10000 * (x - e.min)) % e.length = 0
  <2>1. PICK b \in {"x", "y"} :
          <<a, x>> \in LET e == Extent(PathOf(d), b)
                       IN {<<b, z>> : z \in {z \in Coordinates(PathOf(d), b) \ {e.min, e.min + e.length} :
                             (10000 * (z - e.min)) % e.length = 0}}
    BY <1>2 DEF Inexact
  <2>. QED  BY <2>1
<1>. QED  BY <1>1, <1>2 DEF ShortOK

\* What a client gets back of a drawing that is no path.
LEMMA OtherRoundTrip ==
  ASSUME NEW d, DrawingOK(d), d.kind # "path", NEW short, NEW off,
         from_json(d, short, off).error = "none"
  PROVE  LET n == into_json(from_json(d, short, off))
         IN /\ DrawingOK(n) /\ n.kind = d.kind /\ n.copied = d.copied
            /\ Deserialized(n) = Deserialized(d)
<1> DEFINE D == Deserialized(d)
<1>1. from_json(d, short, off) = [error |-> "none", format |-> "Other", event |-> D]
  BY DEF from_json, from_event
<1>2. into_json(from_json(d, short, off)) = D
  BY <1>1 DEF into_json
<1>3. /\ DOMAIN D = DOMAIN d /\ D.kind = d.kind /\ D.copied = d.copied /\ D.path = d.path
  BY DEF Deserialized, DrawingOK
<1>4. Deserialized(D) = D
  BY DEF Deserialized, DrawingOK
<1>. QED  BY <1>2, <1>3, <1>4 DEF DrawingOK

\* What a client gets back of a path.
LEMMA PathRoundTrip ==
  ASSUME NEW d, DrawingOK(d), d.kind = "path", NEW short, NEW off,
         from_json(d, short, off).error = "none"
  PROVE  LET n == into_json(from_json(d, short, off))
         IN /\ DOMAIN n = DOMAIN d /\ n.kind = "path" /\ n.copied = d.copied
            /\ IsDecoded(PathOf(d))
            /\ n.path = Some(decompress_path(Compressed(PathOf(d), short, off)))
<1> DEFINE D == Deserialized(d)
           s == try_from_event(D, short, off)
           path == IF D.path = None THEN None ELSE compress_path(D.path[1], short, off)
           num == [f \in NumField |-> Compacted(f, D.num[f])]
<1>1. from_json(d, short, off) = s
  BY DEF from_json, Kind
<1>2. /\ DOMAIN D = DOMAIN d /\ D.kind = "path" /\ D.copied = d.copied /\ D.path = d.path
  BY DEF Deserialized, DrawingOK
<1>3. /\ D.path # None /\ path # None
      /\ s = [error |-> "none", format |-> "Path",
              kind |-> D.kind, copied |-> D.copied, shadow |-> D.shadow,
              no_scale_cache |-> IF D.no_scale_cache = None THEN TRUE ELSE D.no_scale_cache[1],
              num |-> [f \in NumField |-> num[f][1]], path |-> path[1]]
  <2> HIDE DEF D, path, num
  <2>. QED  BY <1>1 DEF try_from_event, D, path, num
<1>4. d.path[1] \in Seq(Part)
  BY <1>2, <1>3 DEF DrawingOK, None
<1>5. decode_path(d.path[1]) # None
  BY <1>2, <1>3 DEF compress_path
<1>6. PathOf(d) = decode_path(d.path[1])[1]
  BY <1>2, <1>3, <1>5 DEF PathOf
<1>7. IsDecoded(PathOf(d))
  BY <1>4, <1>5, <1>6, DecodeFacts
<1>8. path[1] = Compressed(PathOf(d), short, off)
  BY <1>2, <1>3, <1>5, <1>6, CompressFacts, OptionFacts
<1> HIDE DEF path, num
<1>9. LET n == into_json(s)
      IN /\ DOMAIN n = {"kind", "copied", "shadow", "shape", "no_scale_cache", "num", "path"}
         /\ n.kind = D.kind /\ n.copied = D.copied
         /\ n.path = Some(decompress_path(path[1]))
  <2> HIDE DEF D, s
  <2>. QED  BY <1>3 DEF into_json
<1>. QED  BY <1>1, <1>2, <1>7, <1>8, <1>9 DEF DrawingOK

\* A path that is read is decoded already.
LEMMA PathOfLoaded ==
  ASSUME NEW n, n.kind = "path", NEW q, IsDecoded(q), n.path = Some(q)
  PROVE  PathOf(n) = q /\ n.path \in Seq(Seq(Part)) /\ Len(n.path) <= 1
<1>1. n.path # None /\ n.path[1] = q
  BY OptionFacts
<1>2. decode_path(q) = Some(q) /\ q \in Seq(Part)
  BY DecodeDecoded DEF IsDecoded
<1>3. PathOf(n) = q
  BY <1>1, <1>2, OptionFacts DEF PathOf
<1>. QED  BY <1>2, <1>3 DEF Some

\* What ShapeKept and DriftsOneWay need of one round trip.
Keeps(d, n) ==
  /\ DrawingOK(n) /\ n.kind = d.kind /\ n.copied = d.copied
  /\ d.kind # "path" => Deserialized(n) = Deserialized(d)
  /\ d.kind = "path" =>
       /\ Len(PathOf(n)) = Len(PathOf(d))
       /\ \A i \in DOMAIN PathOf(d) : \A j \in DOMAIN PathOf(d)[i].c :
            PathOf(n)[i].c[j] <= PathOf(d)[i].c[j]
       /\ \A a \in {"x", "y"} : Extent(PathOf(n), a) = Extent(PathOf(d), a)
       /\ (\A a \in {"x", "y"} : Extent(PathOf(d), a).length < 4375) => PathOf(n) = PathOf(d)

LEMMA RoundTripOK ==
  ASSUME NEW d, DrawingOK(d), NEW short \in SUBSET Inexact(d), NEW off \in Offs(d),
         from_json(d, short, off).error = "none"
  PROVE  Keeps(d, into_json(from_json(d, short, off)))
<1> DEFINE n == into_json(from_json(d, short, off))
<1>1. CASE d.kind # "path"
  <2>1. DrawingOK(n) /\ n.kind = d.kind /\ n.copied = d.copied /\ Deserialized(n) = Deserialized(d)
    BY <1>1, OtherRoundTrip
  <2> HIDE DEF n
  <2>2. Keeps(d, n)
    BY <1>1, <2>1 DEF Keeps
  <2>. QED  BY <2>2 DEF n
<1>2. CASE d.kind = "path"
  <2> DEFINE q == decompress_path(Compressed(PathOf(d), short, off))
  <2>1. /\ DOMAIN n = DOMAIN d /\ n.kind = "path" /\ n.copied = d.copied
        /\ IsDecoded(PathOf(d)) /\ n.path = Some(q)
    BY <1>2, PathRoundTrip
  <2>2. ShortOK(PathOf(d), short) /\ OffOK(off)
    BY InexactFacts
  <2>3. /\ IsDecoded(q) /\ Len(q) = Len(PathOf(d))
        /\ \A i \in DOMAIN PathOf(d) : \A j \in DOMAIN PathOf(d)[i].c : q[i].c[j] <= PathOf(d)[i].c[j]
        /\ \A a \in {"x", "y"} : Extent(q, a) = Extent(PathOf(d), a)
        /\ (\A a \in {"x", "y"} : Extent(PathOf(d), a).length < 4375) => q = PathOf(d)
    BY <2>1, <2>2, RoundTripKeeps
  <2> HIDE DEF n, q
  <2>4. PathOf(n) = q /\ n.path \in Seq(Seq(Part)) /\ Len(n.path) <= 1
    BY <2>1, <2>3, PathOfLoaded
  <2>5. DrawingOK(n)
    BY <2>1, <2>4 DEF DrawingOK
  <2>6. Keeps(d, n)
    BY <1>2, <2>1, <2>3, <2>4, <2>5 DEF Keeps
  <2>. QED  BY <2>6 DEF n
<1>. QED  BY <1>1, <1>2

LEMMA LoadKeeps == ASSUME ShapeInv, Load PROVE Keeps(drawing, drawing') /\ stored' = None
<1>1. PICK short \in SUBSET Inexact(drawing), off \in Offs(drawing) :
        /\ from_json(drawing, short, off).error = "none"
        /\ stored = Some(from_json(drawing, short, off))
  BY DEF ShapeInv, StoredFrom, Load
<1>2. drawing' = into_json(from_json(drawing, short, off)) /\ stored' = None
  BY <1>1, OptionFacts DEF Load
<1>3. DrawingOK(drawing)
  BY DEF ShapeInv
<1>. QED  BY <1>1, <1>2, <1>3, RoundTripOK

LEMMA LoadStep == ASSUME ShapeInv, Load PROVE ShapeInv'
<1>1. Keeps(drawing, drawing') /\ stored' = None /\ original' = original
  BY LoadKeeps DEF Load
<1>2. /\ DrawingOK(original) /\ DrawingOK(drawing') /\ drawing'.kind = original.kind
      /\ drawing'.copied = original.copied
  BY <1>1 DEF ShapeInv, ShapeKept, Keeps
<1>3. StoredFrom(drawing)'
  BY <1>1 DEF StoredFrom
<1>4. original.kind # "path" => Deserialized(drawing') = Deserialized(original)
  BY <1>1 DEF ShapeInv, ShapeKept, Keeps
<1>5. PathKept'
  <2>. SUFFICES ASSUME original.kind = "path", PathOf(original) # <<>>
                PROVE  /\ Len(PathOf(drawing')) = Len(PathOf(original))
                       /\ \A a \in {"x", "y"} : Extent(PathOf(drawing'), a) = Extent(PathOf(original), a)
                       /\ (\A a \in {"x", "y"} : Extent(PathOf(original), a).length < 4375)
                            => PathOf(drawing') = PathOf(original)
    BY <1>1 DEF PathKept
  <2>1. /\ Len(PathOf(drawing)) = Len(PathOf(original))
        /\ \A a \in {"x", "y"} : Extent(PathOf(drawing), a) = Extent(PathOf(original), a)
        /\ (\A a \in {"x", "y"} : Extent(PathOf(original), a).length < 4375)
             => PathOf(drawing) = PathOf(original)
    BY DEF ShapeInv, ShapeKept, PathKept
  <2>2. drawing.kind = "path"
    BY DEF ShapeInv
  <2>. QED  BY <1>1, <2>1, <2>2 DEF Keeps
<1>. QED  BY <1>1, <1>2, <1>3, <1>4, <1>5 DEF ShapeInv, ShapeKept

LEMMA SaveStep == ASSUME ShapeInv, Save PROVE ShapeInv'
<1>1. UNCHANGED <<original, drawing>>
  BY DEF Save
<1>2. PICK short \in SUBSET Inexact(drawing), off \in Offs(drawing) :
        LET s == from_json(drawing, short, off)
        IN IF s.error = "none" THEN stored' = Some(s) /\ reply' = "ok"
                               ELSE UNCHANGED stored /\ reply' = "InvalidEvent"
  BY DEF Save
<1>3. stored = None
  BY DEF Save
<1>4. StoredFrom(drawing)'
  BY <1>1, <1>2, <1>3 DEF StoredFrom, Inexact, Offs
<1>. QED  BY <1>1, <1>4 DEF ShapeInv, ShapeKept, PathKept

LEMMA ShapeInvAlways == Spec => []ShapeInv
<1>1. Init => ShapeInv
  BY DrawingAssumption DEF Init, ShapeInv, StoredFrom, ShapeKept, PathKept
<1>2. ShapeInv /\ [Next]_vars => ShapeInv'
  <2>. SUFFICES ASSUME ShapeInv, [Next]_vars PROVE ShapeInv'
    OBVIOUS
  <2>1. CASE UNCHANGED vars
    BY <2>1 DEF vars, ShapeInv, StoredFrom, ShapeKept, PathKept
  <2>. QED  BY <2>1, LoadStep, SaveStep DEF Next
<1>. QED  BY <1>1, <1>2, PTL DEF Spec

\* The shape of a drawing survives being stored and read any number of times: a path
\* of any number of parts and any coordinates keeps them and its box, and stays as it
\* is if it is small; any other drawing comes back as it was sent.
THEOREM ShapeAlwaysKept == Spec => []ShapeKept
<1>1. ShapeInv => ShapeKept
  BY DEF ShapeInv
<1>. QED  BY <1>1, ShapeInvAlways, PTL

\* No round trip takes a point away from the corner of its path's box, so that a
\* drawing that is stored over and over comes to rest, whatever its coordinates and
\* whichever way floating-point arithmetic rounds them within the model's bounds.
THEOREM AlwaysDriftsOneWay == Spec => DriftsOneWay
<1>1. ShapeInv /\ [Next]_vars =>
        [LET p == PathOf(drawing)
             q == PathOf(drawing')
         IN \A i \in DOMAIN p : \A j \in DOMAIN p[i].c : q[i].c[j] <= p[i].c[j]]_drawing
  <2>. SUFFICES ASSUME ShapeInv, Next, drawing' # drawing,
                       NEW i \in DOMAIN PathOf(drawing), NEW j \in DOMAIN PathOf(drawing)[i].c
                PROVE  PathOf(drawing')[i].c[j] <= PathOf(drawing)[i].c[j]
    BY DEF vars
  <2>1. Load
    BY DEF Next, Save
  <2>2. drawing.kind = "path"
    BY DEF PathOf
  <2>. QED  BY <2>1, <2>2, LoadKeeps DEF Keeps
<1>. QED  BY <1>1, ShapeInvAlways, PTL DEF Spec, DriftsOneWay
=============================================================================
