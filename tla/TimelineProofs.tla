--------------------------- MODULE TimelineProofs ---------------------------
(***************************************************************************)
(* Proofs about Timeline and its two users.                                *)
(*                                                                         *)
(* Editions: a committed room is what its cuts make of its source.         *)
(* AdjustRoom: a room is adjusted once, and its events stay in sync with   *)
(* the video.                                                              *)
(*                                                                         *)
(* What the loops compute is proved by induction on the number of rounds,  *)
(* in the form that a set of naturals that is not empty has a least one.   *)
(***************************************************************************)
EXTENDS Editions, AdjustRoom, FiniteSetTheorems, WellFoundedInduction, TLAPS

LEMMA LeastNatural ==
  ASSUME NEW T \in SUBSET Nat, T # {}
  PROVE  \E x \in T : \A y \in T : x <= y
<1>1. PICK x \in T : \A y \in T : ~(<<y, x>> \in OpToRel(<, Nat))
  BY NatLessThanWellFounded, WFMin, Zenon
<1>2. \A y \in T : <<y, x>> \in OpToRel(<, Nat) <=> y < x
  BY DEF OpToRel
<1>3. \A y \in T : ~(y < x)
  BY <1>1, <1>2, Zenon
<1>. QED  BY <1>3

-----------------------------------------------------------------------------
(* Nanoseconds and milliseconds. *)

LEMMA NanosecondsOf ==
  ASSUME NEW a \in Int, NEW b \in Int
  PROVE  /\ Milliseconds(a) \in Int
         /\ a >= 0 => Milliseconds(a) >= 0
         /\ a <= b => Milliseconds(a) <= Milliseconds(b)
         /\ Milliseconds(a + b) = Milliseconds(a) + Milliseconds(b)
<1>. DEFINE c == NANOSECONDS_IN_MILLISECOND
<1>1. c \in Int /\ c > 0
  BY AdjustAssumption
<1>. HIDE DEF c
<1>2. a * c \in Int /\ b * c \in Int /\ (a + b) * c = a * c + b * c
  BY <1>1
<1>3. a >= 0 => a * c >= 0
  BY <1>1
<1>4. a <= b => a * c <= b * c
  BY <1>1
<1>. QED  BY <1>2, <1>3, <1>4 DEF Milliseconds, c

LEMMA NaturalNanoseconds == ASSUME NEW a \in Nat PROVE Milliseconds(a) \in Nat
<1>1. a \in Int /\ a >= 0
  OBVIOUS
<1>2. Milliseconds(a) \in Int /\ (a >= 0 => Milliseconds(a) >= 0)
  BY <1>1, NanosecondsOf
<1>. QED  BY <1>1, <1>2

LEMMA QuotientIs ==
  ASSUME NEW a \in Nat, NEW b \in Nat \ {0}
  PROVE  a \div b \in Nat /\ (a \div b) * b <= a /\ a < (a \div b) * b + b
  OBVIOUS

-----------------------------------------------------------------------------
(* Sorting. *)

\* What a list of commands is made from: no two have the same place in the order.
CutsOK(cuts) ==
  /\ IsFiniteSet(cuts)
  /\ \A x \in cuts : x.at \in Int /\ x.change \in Int /\ x.order \in Int
  /\ \A x, y \in cuts : (x.change = y.change /\ x.order = y.order) => x = y

\* s lists cuts in their order.
Lists(s, cuts) ==
  /\ DOMAIN s = 1..Cardinality(cuts)
  /\ \A i \in DOMAIN s : s[i] \in cuts
  /\ \A x \in cuts : \E i \in DOMAIN s : s[i] = x
  /\ \A i, j \in DOMAIN s : i < j => Precedes(s[i], s[j])

LEMMA PrecedesOrder ==
  ASSUME NEW cuts, CutsOK(cuts)
  PROVE  /\ \A x \in cuts : ~Precedes(x, x)
         /\ \A x, y, z \in cuts : Precedes(x, y) /\ Precedes(y, z) => Precedes(x, z)
         /\ \A x, y \in cuts : x = y \/ Precedes(x, y) \/ Precedes(y, x)
         /\ \A x, y \in cuts : Precedes(x, y) => x.at <= y.at
  BY DEF CutsOK, Precedes

LEMMA SortedLists ==
  ASSUME NEW cuts, CutsOK(cuts)
  PROVE  Lists(Sorted(cuts), cuts)
<1>. DEFINE before(x) == {y \in cuts : Precedes(y, x)}
            rank == [x \in cuts |-> Cardinality(before(x))]
            n == Cardinality(cuts)
<1>1. IsFiniteSet(cuts) /\ n \in Nat
  BY FS_CardinalityType DEF CutsOK
<1>2. ASSUME NEW x \in cuts PROVE rank[x] \in 0..n - 1
  <2>1. before(x) \in SUBSET cuts /\ x \notin before(x)
    BY PrecedesOrder
  <2>2. /\ IsFiniteSet(before(x)) /\ Cardinality(before(x)) <= n
        /\ n = Cardinality(before(x)) => cuts = before(x)
    BY <1>1, <2>1, FS_Subset
  <2>3. Cardinality(before(x)) \in Nat
    BY <2>2, FS_CardinalityType
  <2>4. Cardinality(before(x)) # n
    BY <2>1, <2>2
  <2>. QED  BY <1>1, <2>2, <2>3, <2>4
<1>3. ASSUME NEW x \in cuts, NEW y \in cuts, Precedes(x, y) PROVE rank[x] < rank[y]
  <2>1. before(x) \in SUBSET before(y) /\ x \in before(y) /\ x \notin before(x)
    BY <1>3, PrecedesOrder
  <2>2. IsFiniteSet(before(y))
    <3>1. before(y) \in SUBSET cuts
      OBVIOUS
    <3>. QED  BY <1>1, <3>1, FS_Subset
  <2>3. /\ Cardinality(before(x)) <= Cardinality(before(y))
        /\ Cardinality(before(x)) = Cardinality(before(y)) => before(x) = before(y)
    BY <2>1, <2>2, FS_Subset
  <2>4. rank[x] # rank[y] /\ rank[x] <= rank[y]
    BY <2>1, <2>3
  <2>. QED  BY <1>2, <2>4
<1>4. \A x, y \in cuts : rank[x] = rank[y] => x = y
  <2>. SUFFICES ASSUME NEW x \in cuts, NEW y \in cuts, rank[x] = rank[y], x # y PROVE FALSE
    OBVIOUS
  <2>1. Precedes(x, y) \/ Precedes(y, x)
    BY PrecedesOrder
  <2>2. rank[x] < rank[y] \/ rank[y] < rank[x]
    BY <2>1, <1>3
  <2>. QED  BY <2>2, <1>2
<1>5. rank \in Surjection(cuts, 0..n - 1)
  <2>1. rank \in [cuts -> 0..n - 1]
    BY <1>2
  <2>2. rank \in Injection(cuts, 0..n - 1)
    BY <2>1, <1>4 DEF Injection, IsInjective
  <2>3. IsFiniteSet(0..n - 1) /\ Cardinality(0..n - 1) = n
    BY <1>1, FS_Interval
  <2>. QED  BY <2>2, <2>3, FS_Injection
<1>6. \A i \in 1..n : Sorted(cuts)[i] \in cuts /\ rank[Sorted(cuts)[i]] = i - 1
  <2>. SUFFICES ASSUME NEW i \in 1..n PROVE Sorted(cuts)[i] \in cuts /\ rank[Sorted(cuts)[i]] = i - 1
    OBVIOUS
  <2>1. i - 1 \in 0..n - 1
    BY <1>1
  <2>2. \E x \in cuts : rank[x] = i - 1
    BY <1>5, <2>1 DEF Surjection
  <2>3. Sorted(cuts)[i] = CHOOSE x \in cuts : Cardinality({y \in cuts : Precedes(y, x)}) = i - 1
    BY <1>1 DEF Sorted
  <2>4. \E x \in cuts : Cardinality({y \in cuts : Precedes(y, x)}) = i - 1
    BY <2>2
  <2>. QED  BY <2>3, <2>4
<1>7. DOMAIN Sorted(cuts) = 1..n
  BY DEF Sorted
<1>8. ASSUME NEW x \in cuts PROVE \E i \in 1..n : Sorted(cuts)[i] = x
  <2>1. rank[x] + 1 \in 1..n
    BY <1>1, <1>2
  <2>2. Sorted(cuts)[rank[x] + 1] \in cuts /\ rank[Sorted(cuts)[rank[x] + 1]] = rank[x]
    <3>. DEFINE i == rank[x] + 1
    <3>1. i \in 1..n /\ i - 1 = rank[x]
      BY <1>2, <2>1
    <3>. HIDE DEF i, rank
    <3>2. Sorted(cuts)[i] \in cuts /\ rank[Sorted(cuts)[i]] = i - 1
      BY <1>6, <3>1
    <3>. QED  BY <3>1, <3>2 DEF i
  <2>. QED  BY <1>4, <2>1, <2>2
<1>9. ASSUME NEW i \in 1..n, NEW j \in 1..n, i < j PROVE Precedes(Sorted(cuts)[i], Sorted(cuts)[j])
  <2>. DEFINE x == Sorted(cuts)[i]
              y == Sorted(cuts)[j]
  <2>1. x \in cuts /\ y \in cuts /\ rank[x] = i - 1 /\ rank[y] = j - 1
    BY <1>6
  <2>2. x # y
    BY <2>1, <1>9
  <2>3. ~Precedes(y, x)
    <3>1. ~(rank[y] < rank[x])
      BY <2>1, <1>9
    <3>. QED  BY <1>3, <2>1, <3>1
  <2>. QED  BY <2>1, <2>2, <2>3, PrecedesOrder
<1>. QED  BY <1>6, <1>7, <1>8, <1>9 DEF Lists

-----------------------------------------------------------------------------
(* Folding. *)

\* f folds Follow over the first n commands, and over any set of them.
FoldsFollow(f, base, seq, n) ==
  f = [s \in SUBSET (1..n) |->
         IF s = {} THEN base ELSE LET x == Max(s) IN Follow(f[s \ {x}], seq[x])]

LEMMA MaxIs ==
  ASSUME NEW n \in Int, NEW S \in SUBSET Int, n \in S, \A y \in S : y <= n
  PROVE  Max(S) = n
<1>1. \E x \in S : \A y \in S : x >= y
  OBVIOUS
<1>2. Max(S) \in S /\ \A y \in S : Max(S) >= y
  BY <1>1 DEF Max
<1>3. Max(S) >= n /\ Max(S) <= n /\ Max(S) \in Int
  BY <1>2
<1>. QED  BY <1>3

LEMMA MinIs ==
  ASSUME NEW n \in Int, NEW S \in SUBSET Int, n \in S, \A y \in S : n <= y
  PROVE  Min(S) = n
<1>1. \E x \in S : \A y \in S : x <= y
  OBVIOUS
<1>2. Min(S) \in S /\ \A y \in S : Min(S) <= y
  BY <1>1 DEF Min
<1>3. Min(S) >= n /\ Min(S) <= n /\ Min(S) \in Int
  BY <1>2
<1>. QED  BY <1>3

LEMMA FollowFoldExists ==
  ASSUME NEW seq, NEW base, NEW m \in Nat
  PROVE  \E f : FoldsFollow(f, base, seq, m)
<1>. DEFINE T == {n \in Nat : ~\E f : FoldsFollow(f, base, seq, n)}
<1>1. SUFFICES ASSUME T # {} PROVE FALSE
  OBVIOUS
<1>2. PICK n \in T : \A k \in T : n <= k
  <2>1. T \in SUBSET Nat
    OBVIOUS
  <2>. QED  BY <1>1, <2>1, LeastNatural
<1>3. n # 0
  <2>1. FoldsFollow([s \in SUBSET (1..0) |-> base], base, seq, 0)
    BY DEF FoldsFollow
  <2>. QED  BY <2>1
<1>4. PICK g : FoldsFollow(g, base, seq, n - 1)
  BY <1>2, <1>3
<1>. DEFINE f == [s \in SUBSET (1..n) |-> IF n \in s THEN Follow(g[s \ {n}], seq[n]) ELSE g[s]]
<1>5. ASSUME NEW s \in SUBSET (1..n), s # {}
      PROVE  f[s] = Follow(f[s \ {Max(s)}], seq[Max(s)])
  <2>1. CASE n \in s
    <3>1. Max(s) = n
      BY <2>1, MaxIs
    <3>2. s \ {n} \in SUBSET (1..n) /\ n \notin s \ {n}
      OBVIOUS
    <3>3. f[s \ {n}] = g[s \ {n}]
      BY <3>2
    <3>. QED  BY <2>1, <3>1, <3>3
  <2>2. CASE n \notin s
    <3>1. s \in SUBSET (1..n - 1)
      BY <2>2
    <3>2. g[s] = Follow(g[s \ {Max(s)}], seq[Max(s)])
      BY <1>4, <1>5, <3>1 DEF FoldsFollow
    <3>3. f[s] = g[s] /\ f[s \ {Max(s)}] = g[s \ {Max(s)}]
      BY <2>2
    <3>. QED  BY <3>2, <3>3
  <2>. QED  BY <2>1, <2>2
<1>6. f[{}] = base
  <2>1. g[{}] = base
    BY <1>4 DEF FoldsFollow
  <2>. QED  BY <2>1
<1>7. FoldsFollow(f, base, seq, n)
  BY <1>5, <1>6 DEF FoldsFollow
<1>. QED  BY <1>2, <1>7

\* run[k] is the state after k commands.
Runs(run, base, seq, n) ==
  run[0] = base /\ \A k \in 0..n - 1 : run[k + 1] = Follow(run[k], seq[k + 1])

LEMMA FoldLeftRuns ==
  ASSUME NEW seq, NEW base, NEW n \in Nat, DOMAIN seq = 1..n
  PROVE  \E run : Runs(run, base, seq, n) /\ FoldLeft(Follow, base, seq) = run[n]
<1>. DEFINE f == CHOOSE f : FoldsFollow(f, base, seq, n)
            run == [k \in 0..n |-> f[1..k]]
<1>1. FoldsFollow(f, base, seq, n)
  BY FollowFoldExists
<1>2. FoldLeft(Follow, base, seq) = f[1..n]
  BY DEF FoldLeft, MapThenFoldSet, FoldsFollow
<1>3. run[0] = base
  <2>1. f[{}] = base
    BY <1>1 DEF FoldsFollow
  <2>2. 1..0 = {}
    OBVIOUS
  <2>. QED  BY <2>1, <2>2
<1>4. ASSUME NEW k \in 0..n - 1 PROVE run[k + 1] = Follow(run[k], seq[k + 1])
  <2>1. 1..k + 1 \in SUBSET (1..n) /\ k + 1 \in 1..k + 1
    <3>1. k \in Nat /\ k + 1 <= n
      OBVIOUS
    <3>. QED  BY <3>1
  <2>2. Max(1..k + 1) = k + 1
    <3>1. k + 1 \in Int /\ 1..k + 1 \in SUBSET Int /\ \A y \in 1..k + 1 : y <= k + 1
      OBVIOUS
    <3>. QED  BY <2>1, <3>1, MaxIs
  <2>3. (1..k + 1) \ {k + 1} = 1..k
    OBVIOUS
  <2>4. f[1..k + 1] = Follow(f[1..k], seq[k + 1])
    BY <1>1, <2>1, <2>2, <2>3 DEF FoldsFollow
  <2>. QED  BY <2>4
<1>5. run[n] = f[1..n]
  OBVIOUS
<1>. HIDE DEF run, f
<1>. QED  BY <1>2, <1>3, <1>4, <1>5 DEF Runs

-----------------------------------------------------------------------------
(* collect_gaps. *)

\* The commands of a kind among the first k, and how many cuts they leave open.
UpTo(s, k, command) == {s[i] : i \in {i \in 1..k : s[i].data = command}}

Open(s, k) == Cardinality(UpTo(s, k, "start")) - Cardinality(UpTo(s, k, "stop"))

\* A time that comes between command i and the next one.
During(s, i, t) == s[i].at <= t /\ t < s[i + 1].at

InGaps(gaps, t) == \E g \in DOMAIN gaps : gaps[g][1] <= t /\ t < gaps[g][2]

\* The cut that is open after k commands started with command m.
Begun(s, k, m) ==
  /\ m > 1 => Open(s, m - 1) = 0
  /\ \A i \in m..k : Open(s, i) > 0
  /\ \A t \in Int : (s[m].at <= t /\ t < s[k].at) <=> \E i \in m..k - 1 : During(s, i, t)

\* The state says whether a cut is open, and since when.
Tracks(state, s, k) ==
  /\ state.nest \in Nat
  /\ IF state.start = None
     THEN state.nest = 0 /\ Open(s, k) = 0
     ELSE /\ Open(s, k) = state.nest + 1
          /\ \E m \in 1..k : state.start = s[m].at /\ Begun(s, k, m)

\* The gaps follow one another, and end where no cut is open.
Ordered(state, s, k) ==
  /\ state.gaps \in Seq(Int \X Int)
  /\ GapsOK(state.gaps)
  /\ \A g \in DOMAIN state.gaps : \E j \in 1..k : Open(s, j) = 0 /\ s[j].at = state.gaps[g][2]
  /\ \A j \in 1..k : Open(s, j) = 0 => \E g \in DOMAIN state.gaps : s[j].at = state.gaps[g][2]
  /\ state.start # None => \A g \in DOMAIN state.gaps : state.gaps[g][2] <= state.start

CutDuring(s, k, t) ==
  \E i \in 1..k - 1 : During(s, i, t) /\ Open(s, i) > 0 /\ \E j \in i + 1..k : Open(s, j) = 0

\* The gaps hold the times when a cut was open that has been closed.
Covers(state, s, k) == \A t \in Int : InGaps(state.gaps, t) <=> CutDuring(s, k, t)

StateOK(state, s, k) ==
  /\ DOMAIN state = {"start", "nest", "gaps", "result"}
  /\ Tracks(state, s, k) /\ Ordered(state, s, k) /\ Covers(state, s, k)

LEMMA ListTypes ==
  ASSUME NEW cuts, CutsOK(cuts), NEW s, Lists(s, cuts)
  PROVE  /\ Cardinality(cuts) \in Nat
         /\ \A i \in 1..Cardinality(cuts) : s[i] \in cuts /\ s[i].at \in Int
         /\ \A i, j \in 1..Cardinality(cuts) : i <= j => s[i].at <= s[j].at
         /\ \A i, j \in 1..Cardinality(cuts) : s[i] = s[j] => i = j
<1>1. Cardinality(cuts) \in Nat
  BY FS_CardinalityType DEF CutsOK
<1>2. \A i \in 1..Cardinality(cuts) : s[i] \in cuts /\ s[i].at \in Int
  BY DEF Lists, CutsOK
<1>3. \A i, j \in 1..Cardinality(cuts) : i < j => s[i].at <= s[j].at
  BY <1>2, PrecedesOrder DEF Lists
<1>4. \A i, j \in 1..Cardinality(cuts) : i <= j => s[i].at <= s[j].at
  BY <1>1, <1>2, <1>3
<1>5. \A i, j \in 1..Cardinality(cuts) : s[i] = s[j] => i = j
  BY <1>1, <1>2, PrecedesOrder DEF Lists
<1>. QED  BY <1>1, <1>2, <1>4, <1>5

LEMMA UpToFinite ==
  ASSUME NEW cuts, CutsOK(cuts), NEW s, Lists(s, cuts), NEW k \in 0..Cardinality(cuts), NEW command
  PROVE  IsFiniteSet(UpTo(s, k, command)) /\ Cardinality(UpTo(s, k, command)) \in Nat
<1>1. 1..k \in SUBSET (1..Cardinality(cuts))
  BY ListTypes
<1>2. UpTo(s, k, command) \in SUBSET cuts
  BY <1>1, ListTypes DEF UpTo
<1>. QED  BY <1>2, FS_Subset, FS_CardinalityType DEF CutsOK

LEMMA UpToStep ==
  ASSUME NEW cuts, CutsOK(cuts), NEW s, Lists(s, cuts), NEW k \in 0..Cardinality(cuts) - 1, NEW command
  PROVE  Cardinality(UpTo(s, k + 1, command)) =
           IF s[k + 1].data = command THEN Cardinality(UpTo(s, k, command)) + 1
                                      ELSE Cardinality(UpTo(s, k, command))
<1>1. k \in 0..Cardinality(cuts) /\ k + 1 \in 1..Cardinality(cuts) /\ 1..k \in SUBSET (1..Cardinality(cuts))
  BY ListTypes
<1>2. IsFiniteSet(UpTo(s, k, command))
  BY <1>1, UpToFinite
<1>3. s[k + 1] \notin UpTo(s, k, command)
  <2>. SUFFICES ASSUME NEW i \in 1..k, s[i] = s[k + 1] PROVE FALSE
    BY DEF UpTo
  <2>1. i = k + 1
    BY <1>1, ListTypes
  <2>. QED  BY <1>1, <2>1, ListTypes
<1>4. 1..k + 1 = (1..k) \cup {k + 1}
  BY <1>1, ListTypes
<1>5. CASE s[k + 1].data = command
  <2>1. UpTo(s, k + 1, command) = UpTo(s, k, command) \cup {s[k + 1]}
    BY <1>4, <1>5 DEF UpTo
  <2>. QED  BY <1>2, <1>3, <1>5, <2>1, FS_AddElement
<1>6. CASE s[k + 1].data # command
  <2>1. UpTo(s, k + 1, command) = UpTo(s, k, command)
    BY <1>4, <1>6 DEF UpTo
  <2>. QED  BY <1>6, <2>1
<1>. QED  BY <1>5, <1>6

LEMMA OpenInt ==
  ASSUME NEW cuts, CutsOK(cuts), NEW s, Lists(s, cuts), NEW k \in 0..Cardinality(cuts)
  PROVE  Open(s, k) \in Int
  BY UpToFinite DEF Open

LEMMA OpenStep ==
  ASSUME NEW cuts, CutsOK(cuts), NEW s, Lists(s, cuts), NEW k \in 0..Cardinality(cuts) - 1
  PROVE  /\ s[k + 1].data = "start" => Open(s, k + 1) = Open(s, k) + 1
         /\ s[k + 1].data = "stop" => Open(s, k + 1) = Open(s, k) - 1
<1>1. k \in 0..Cardinality(cuts)
  BY ListTypes
<1>2. /\ Cardinality(UpTo(s, k, "start")) \in Nat /\ Cardinality(UpTo(s, k, "stop")) \in Nat
  BY <1>1, UpToFinite
<1>3. "start" # "stop"
  OBVIOUS
<1>. QED  BY <1>2, <1>3, UpToStep DEF Open

LEMMA OpenNone == ASSUME NEW s PROVE Open(s, 0) = 0
<1>1. UpTo(s, 0, "start") = {} /\ UpTo(s, 0, "stop") = {}
  BY DEF UpTo
<1>. QED  BY <1>1, FS_EmptySet DEF Open

\* The first command, and those that nest.
LEMMA FollowStart ==
  ASSUME NEW cuts, CutsOK(cuts), NEW s, Lists(s, cuts), NEW k \in 0..Cardinality(cuts) - 1,
         NEW state, StateOK(state, s, k), state.start = None, s[k + 1].data = "start",
         NEW next, next = [state EXCEPT !.start = s[k + 1].at]
  PROVE  StateOK(next, s, k + 1)
<1>1. /\ k \in Nat /\ Cardinality(cuts) \in Nat /\ k + 1 \in 1..Cardinality(cuts) /\ k \in 0..Cardinality(cuts)
      /\ 1..k + 1 = (1..k) \cup {k + 1}
  BY ListTypes
<1>2. /\ DOMAIN next = {"start", "nest", "gaps", "result"}
      /\ next.start = s[k + 1].at /\ next.nest = 0 /\ next.gaps = state.gaps
      /\ Open(s, k) = 0 /\ Open(s, k + 1) = 1
  BY OpenStep DEF StateOK, Tracks
<1>3. s[k + 1].at \in Int /\ s[k + 1].at # None
  BY <1>1, ListTypes, EditionsAssumption
<1>4. Tracks(next, s, k + 1)
  <2>1. Begun(s, k + 1, k + 1)
    BY <1>1, <1>2, <1>3 DEF Begun, During
  <2>. QED  BY <1>1, <1>2, <1>3, <2>1 DEF Tracks
<1>5. Ordered(next, s, k + 1)
  <2>1. \A g \in DOMAIN state.gaps : \E j \in 1..k : Open(s, j) = 0 /\ s[j].at = state.gaps[g][2]
    BY DEF StateOK, Ordered
  <2>2. \A g \in DOMAIN next.gaps : next.gaps[g][2] <= next.start
    BY <1>1, <1>2, <2>1, ListTypes
  <2>3. \A j \in 1..k + 1 : Open(s, j) = 0 => \E g \in DOMAIN next.gaps : s[j].at = next.gaps[g][2]
    <3>1. \A j \in 1..k : Open(s, j) = 0 => \E g \in DOMAIN state.gaps : s[j].at = state.gaps[g][2]
      BY DEF StateOK, Ordered
    <3>. QED  BY <1>1, <1>2, <3>1
  <2>4. \A g \in DOMAIN next.gaps : \E j \in 1..k + 1 : Open(s, j) = 0 /\ s[j].at = next.gaps[g][2]
    BY <1>1, <1>2, <2>1
  <2>. QED  BY <1>2, <2>2, <2>3, <2>4 DEF StateOK, Ordered
<1>6. Covers(next, s, k + 1)
  <2>. SUFFICES ASSUME NEW t \in Int PROVE CutDuring(s, k, t) <=> CutDuring(s, k + 1, t)
    BY <1>2 DEF StateOK, Covers
  <2>1. CutDuring(s, k, t) => CutDuring(s, k + 1, t)
    BY <1>1 DEF CutDuring
  <2>2. ASSUME NEW i \in 1..k, During(s, i, t), Open(s, i) > 0, NEW j \in i + 1..k + 1, Open(s, j) = 0
        PROVE  CutDuring(s, k, t)
    <3>1. j # k + 1 /\ i # k
      BY <1>2, <2>2
    <3>2. i \in 1..k - 1 /\ j \in i + 1..k
      BY <1>1, <2>2, <3>1
    <3>. QED  BY <2>2, <3>2 DEF CutDuring
  <2>3. (k + 1) - 1 = k
    BY <1>1
  <2>. QED  BY <2>1, <2>2, <2>3 DEF CutDuring
<1>. QED  BY <1>2, <1>4, <1>5, <1>6 DEF StateOK

\* The cut that is open goes on.
LEMMA BegunOn ==
  ASSUME NEW cuts, CutsOK(cuts), NEW s, Lists(s, cuts), NEW k \in 1..Cardinality(cuts) - 1,
         NEW m \in 1..k, Begun(s, k, m)
  PROVE  /\ \A t \in Int : (s[m].at <= t /\ t < s[k + 1].at) <=> \E i \in m..k : During(s, i, t)
         /\ Open(s, k + 1) > 0 => Begun(s, k + 1, m)
<1>1. /\ k \in Nat /\ Cardinality(cuts) \in Nat /\ k \in 1..Cardinality(cuts)
      /\ k + 1 \in 1..Cardinality(cuts) /\ m \in 1..Cardinality(cuts) /\ m <= k /\ k <= k + 1
  BY ListTypes
<1>2. s[m].at \in Int /\ s[k].at \in Int /\ s[k + 1].at \in Int /\ s[m].at <= s[k].at /\ s[k].at <= s[k + 1].at
  BY <1>1, ListTypes
<1>3. m..k = (m..k - 1) \cup {k} /\ m..k + 1 = (m..k) \cup {k + 1} /\ (k + 1) - 1 = k
  BY <1>1
<1>4. ASSUME NEW t \in Int
      PROVE  (s[m].at <= t /\ t < s[k + 1].at) <=> \E i \in m..k : During(s, i, t)
  <2>1. (s[m].at <= t /\ t < s[k].at) <=> \E i \in m..k - 1 : During(s, i, t)
    BY DEF Begun
  <2>2. (s[m].at <= t /\ t < s[k + 1].at) <=> (s[m].at <= t /\ t < s[k].at) \/ During(s, k, t)
    BY <1>2 DEF During
  <2>. QED  BY <1>3, <2>1, <2>2
<1>5. ASSUME Open(s, k + 1) > 0 PROVE Begun(s, k + 1, m)
  BY <1>3, <1>4, <1>5 DEF Begun
<1>. QED  BY <1>4, <1>5

LEMMA FollowNested ==
  ASSUME NEW cuts, CutsOK(cuts), NEW s, Lists(s, cuts), NEW k \in 0..Cardinality(cuts) - 1,
         NEW state, StateOK(state, s, k), state.start # None,
         NEW nest \in Nat, Open(s, k + 1) = nest + 1,
         NEW next, next = [state EXCEPT !.nest = nest]
  PROVE  StateOK(next, s, k + 1)
<1>1. /\ k \in Nat /\ Cardinality(cuts) \in Nat /\ k + 1 \in 1..Cardinality(cuts) /\ k \in 0..Cardinality(cuts)
      /\ 1..k + 1 = (1..k) \cup {k + 1}
  BY ListTypes
<1>2. /\ DOMAIN next = {"start", "nest", "gaps", "result"}
      /\ next.start = state.start /\ next.nest = nest /\ next.gaps = state.gaps
  BY DEF StateOK
<1>3. PICK m \in 1..k : state.start = s[m].at /\ Begun(s, k, m)
  BY DEF StateOK, Tracks
<1>4. k \in 1..Cardinality(cuts) - 1
  BY <1>1, <1>3
<1>5. Tracks(next, s, k + 1)
  <2>1. Begun(s, k + 1, m)
    BY <1>3, <1>4, BegunOn
  <2>. QED  BY <1>1, <1>2, <1>3, <2>1 DEF Tracks
<1>6. Ordered(next, s, k + 1)
  <2>1. Open(s, k + 1) # 0
    OBVIOUS
  <2>. QED  BY <1>1, <1>2, <2>1 DEF StateOK, Ordered
<1>7. Covers(next, s, k + 1)
  <2>. SUFFICES ASSUME NEW t \in Int PROVE CutDuring(s, k, t) <=> CutDuring(s, k + 1, t)
    BY <1>2 DEF StateOK, Covers
  <2>1. CutDuring(s, k, t) => CutDuring(s, k + 1, t)
    BY <1>1 DEF CutDuring
  <2>2. ASSUME NEW i \in 1..k, During(s, i, t), Open(s, i) > 0, NEW j \in i + 1..k + 1, Open(s, j) = 0
        PROVE  CutDuring(s, k, t)
    <3>1. j # k + 1
      BY <2>2
    <3>2. i \in 1..k - 1 /\ j \in i + 1..k
      BY <1>1, <2>2, <3>1
    <3>. QED  BY <2>2, <3>2 DEF CutDuring
  <2>3. (k + 1) - 1 = k
    BY <1>1
  <2>. QED  BY <2>1, <2>2, <2>3 DEF CutDuring
<1>. QED  BY <1>2, <1>5, <1>6, <1>7 DEF StateOK

LEMMA AppendGap ==
  ASSUME NEW gaps \in Seq(Int \X Int), GapsOK(gaps), NEW a \in Int, NEW b \in Int, a <= b,
         \A g \in DOMAIN gaps : gaps[g][2] <= a
  PROVE  /\ Append(gaps, <<a, b>>) \in Seq(Int \X Int) /\ GapsOK(Append(gaps, <<a, b>>))
         /\ DOMAIN Append(gaps, <<a, b>>) = DOMAIN gaps \cup {Len(gaps) + 1}
         /\ \A g \in DOMAIN gaps : Append(gaps, <<a, b>>)[g] = gaps[g]
         /\ Append(gaps, <<a, b>>)[Len(gaps) + 1] = <<a, b>>
         /\ \A t \in Int : InGaps(Append(gaps, <<a, b>>), t) <=> InGaps(gaps, t) \/ (a <= t /\ t < b)
<1>. DEFINE n == Len(gaps)
            more == Append(gaps, <<a, b>>)
<1>1. /\ n \in Nat /\ DOMAIN gaps = 1..n /\ DOMAIN more = (1..n) \cup {n + 1}
      /\ \A g \in 1..n : more[g] = gaps[g] /\ gaps[g] \in Int \X Int
      /\ more[n + 1] = <<a, b>> /\ more \in Seq(Int \X Int)
  <2>1. <<a, b>> \in Int \X Int
    OBVIOUS
  <2>2. 1..n + 1 = (1..n) \cup {n + 1}
    OBVIOUS
  <2>. QED  BY <2>1, <2>2
<1>. HIDE DEF n, more
<1>0. more[n + 1][1] = a /\ more[n + 1][2] = b /\ more[n + 1] \in Int \X Int
  BY <1>1
<1>2. GapsOK(more)
  <2>. SUFFICES ASSUME NEW i \in (1..n) \cup {n + 1}
                PROVE  /\ more[i] \in Int \X Int /\ more[i][1] <= more[i][2]
                       /\ \A j \in (1..n) \cup {n + 1} : i < j => more[i][2] <= more[j][1]
    BY <1>1 DEF GapsOK
  <2>1. CASE i = n + 1
    <3>1. \A j \in (1..n) \cup {n + 1} : ~(n + 1 < j)
      BY <1>1
    <3>2. more[n + 1][1] <= more[n + 1][2]
      BY <1>0
    <3>. QED  BY <1>0, <2>1, <3>1, <3>2
  <2>2. CASE i \in 1..n
    <3>1. /\ gaps[i][1] <= gaps[i][2] /\ gaps[i][2] <= a
          /\ \A j \in 1..n : i < j => gaps[i][2] <= gaps[j][1]
      BY <1>1, <2>2 DEF GapsOK
    <3>2. more[i] = gaps[i] /\ \A j \in 1..n : more[j] = gaps[j]
      BY <1>1, <2>2
    <3>. QED  BY <1>0, <1>1, <2>2, <3>1, <3>2
  <2>. QED  BY <2>1, <2>2
<1>3. ASSUME NEW t \in Int PROVE InGaps(more, t) <=> InGaps(gaps, t) \/ (a <= t /\ t < b)
  <2>1. InGaps(more, t) <=> \/ \E g \in 1..n : more[g][1] <= t /\ t < more[g][2]
                            \/ more[n + 1][1] <= t /\ t < more[n + 1][2]
    BY <1>1 DEF InGaps
  <2>. QED  BY <1>1, <2>1 DEF InGaps
<1>. QED  BY <1>1, <1>2, <1>3 DEF n, more

LEMMA FollowStop ==
  ASSUME NEW cuts, CutsOK(cuts), NEW s, Lists(s, cuts), NEW k \in 0..Cardinality(cuts) - 1,
         NEW state, StateOK(state, s, k), state.start # None, Open(s, k + 1) = 0,
         NEW next, next = [state EXCEPT !.start = None, !.nest = 0,
                                        !.gaps = Append(@, <<state.start, s[k + 1].at>>)]
  PROVE  StateOK(next, s, k + 1)
<1>1. /\ k \in Nat /\ Cardinality(cuts) \in Nat /\ k + 1 \in 1..Cardinality(cuts) /\ k \in 0..Cardinality(cuts)
      /\ 1..k + 1 = (1..k) \cup {k + 1}
  BY ListTypes
<1>2. PICK m \in 1..k : state.start = s[m].at /\ Begun(s, k, m)
  BY DEF StateOK, Tracks
<1>3. k \in 1..Cardinality(cuts) - 1 /\ m \in 1..Cardinality(cuts) /\ m <= k + 1
  BY <1>1, <1>2
<1>. DEFINE a == s[m].at
            b == s[k + 1].at
            n == Len(state.gaps)
<1>4. a \in Int /\ b \in Int /\ a <= b
  BY <1>1, <1>3, ListTypes
<1>5. /\ DOMAIN next = {"start", "nest", "gaps", "result"}
      /\ next.start = None /\ next.nest = 0 /\ next.gaps = Append(state.gaps, <<a, b>>)
  BY <1>2 DEF StateOK
<1>6. /\ state.gaps \in Seq(Int \X Int) /\ GapsOK(state.gaps)
      /\ \A g \in DOMAIN state.gaps : state.gaps[g][2] <= a
  BY <1>2 DEF StateOK, Ordered
<1>7. /\ next.gaps \in Seq(Int \X Int) /\ GapsOK(next.gaps)
      /\ DOMAIN next.gaps = DOMAIN state.gaps \cup {n + 1}
      /\ \A g \in DOMAIN state.gaps : next.gaps[g] = state.gaps[g]
      /\ next.gaps[n + 1] = <<a, b>>
      /\ \A t \in Int : InGaps(next.gaps, t) <=> InGaps(state.gaps, t) \/ (a <= t /\ t < b)
  <2>. HIDE DEF a, b
  <2>1. LET more == Append(state.gaps, <<a, b>>)
        IN  /\ more \in Seq(Int \X Int) /\ GapsOK(more)
            /\ DOMAIN more = DOMAIN state.gaps \cup {n + 1}
            /\ \A g \in DOMAIN state.gaps : more[g] = state.gaps[g]
            /\ more[n + 1] = <<a, b>>
            /\ \A t \in Int : InGaps(more, t) <=> InGaps(state.gaps, t) \/ (a <= t /\ t < b)
    BY <1>4, <1>6, AppendGap, Zenon
  <2>. QED  BY <1>5, <2>1, Zenon
<1>8. Tracks(next, s, k + 1)
  BY <1>5 DEF Tracks
<1>9. Ordered(next, s, k + 1)
  <2>1. next.gaps[n + 1][2] = b
    BY <1>7
  <2>2. \A g \in DOMAIN next.gaps : \E j \in 1..k + 1 : Open(s, j) = 0 /\ s[j].at = next.gaps[g][2]
    <3>1. ASSUME NEW g \in DOMAIN state.gaps
          PROVE  \E j \in 1..k + 1 : Open(s, j) = 0 /\ s[j].at = next.gaps[g][2]
      BY <1>1, <1>7, <3>1 DEF StateOK, Ordered
    <3>2. \E j \in 1..k + 1 : Open(s, j) = 0 /\ s[j].at = next.gaps[n + 1][2]
      BY <1>1, <2>1
    <3>. QED  BY <1>7, <3>1, <3>2
  <2>3. \A j \in 1..k + 1 : Open(s, j) = 0 => \E g \in DOMAIN next.gaps : s[j].at = next.gaps[g][2]
    <3>1. ASSUME NEW j \in 1..k, Open(s, j) = 0 PROVE \E g \in DOMAIN next.gaps : s[j].at = next.gaps[g][2]
      BY <1>7, <3>1 DEF StateOK, Ordered
    <3>2. \E g \in DOMAIN next.gaps : s[k + 1].at = next.gaps[g][2]
      BY <1>7, <2>1
    <3>. QED  BY <1>1, <3>1, <3>2
  <2>. QED  BY <1>5, <1>7, <2>2, <2>3 DEF Ordered
<1>10. Covers(next, s, k + 1)
  <2>. SUFFICES ASSUME NEW t \in Int
                PROVE  CutDuring(s, k, t) \/ (a <= t /\ t < b) <=> CutDuring(s, k + 1, t)
    BY <1>7 DEF StateOK, Covers
  <2>1. CutDuring(s, k, t) => CutDuring(s, k + 1, t)
    BY <1>1 DEF CutDuring
  <2>2. ASSUME a <= t, t < b PROVE CutDuring(s, k + 1, t)
    <3>1. PICK i \in m..k : During(s, i, t)
      BY <1>2, <1>3, <2>2, BegunOn
    <3>2. Open(s, i) > 0
      BY <1>2, <3>1 DEF Begun
    <3>3. i \in 1..(k + 1) - 1 /\ k + 1 \in i + 1..k + 1
      BY <1>1, <1>2, <3>1
    <3>. QED  BY <3>1, <3>2, <3>3 DEF CutDuring
  <2>3. ASSUME NEW i \in 1..k, During(s, i, t), Open(s, i) > 0, NEW j \in i + 1..k + 1, Open(s, j) = 0
        PROVE  CutDuring(s, k, t) \/ (a <= t /\ t < b)
    <3>1. CASE i >= m
      <4>1. i \in m..k
        BY <1>1, <1>2, <3>1
      <4>. QED  BY <1>2, <1>3, <2>3, <4>1, BegunOn
    <3>2. CASE i < m
      <4>1. m > 1 /\ Open(s, m - 1) = 0
        BY <1>2, <3>2 DEF Begun
      <4>2. i # m - 1
        BY <2>3, <4>1
      <4>3. i \in 1..k - 1 /\ m - 1 \in i + 1..k
        BY <1>1, <1>2, <3>2, <4>2
      <4>. QED  BY <2>3, <4>1, <4>3 DEF CutDuring
    <3>. QED  BY <1>1, <1>2, <3>1, <3>2
  <2>4. (k + 1) - 1 = k
    BY <1>1
  <2>. QED  BY <2>1, <2>2, <2>3, <2>4 DEF CutDuring
<1>. QED  BY <1>5, <1>8, <1>9, <1>10 DEF StateOK

\* One round of the loop.
LEMMA FollowStep ==
  ASSUME NEW cuts, CutsOK(cuts), NEW s, Lists(s, cuts), NEW k \in 0..Cardinality(cuts) - 1,
         NEW state, state.result = "ok" => StateOK(state, s, k),
         DOMAIN state = {"start", "nest", "gaps", "result"},
         NEW next, next = Follow(state, s[k + 1])
  PROVE  /\ DOMAIN next = {"start", "nest", "gaps", "result"}
         /\ next.result = "ok" => StateOK(next, s, k + 1)
<1>1. DOMAIN next = {"start", "nest", "gaps", "result"}
  BY DEF Follow, EndGap, Unexpected
<1>2. next.result = "ok" => state.result = "ok"
  BY DEF Follow, EndGap, Unexpected
<1>3. SUFFICES ASSUME next.result = "ok", state.result = "ok", StateOK(state, s, k)
               PROVE  StateOK(next, s, k + 1)
  BY <1>1, <1>2
<1>. DEFINE cut == s[k + 1]
<1>4. /\ state.nest \in Nat
      /\ state.start # None => Open(s, k) = state.nest + 1
      /\ cut.data = "start" => Open(s, k + 1) = Open(s, k) + 1
      /\ cut.data = "stop" => Open(s, k + 1) = Open(s, k) - 1
  <2>1. state.nest \in Nat /\ (state.start # None => Open(s, k) = state.nest + 1)
    BY <1>3 DEF StateOK, Tracks
  <2>. QED  BY <2>1, OpenStep
<1>5. CASE cut.data = None
  <2>1. next = [state EXCEPT !.result = "panic"]
    BY <1>3, <1>5, EditionsAssumption DEF Follow
  <2>. QED  BY <1>3, <2>1
<1>6. CASE cut.data # None /\ cut.data = "start" /\ state.start = None
  <2>1. next = [state EXCEPT !.start = cut.at]
    BY <1>3, <1>6 DEF Follow
  <2>. QED  BY <1>3, <1>6, <2>1, FollowStart
<1>7. CASE cut.data # None /\ cut.data = "start" /\ state.start # None
  <2>1. next = [state EXCEPT !.nest = state.nest + 1]
    BY <1>3, <1>7 DEF Follow
  <2>2. Open(s, k + 1) = (state.nest + 1) + 1 /\ state.nest + 1 \in Nat
    BY <1>4, <1>7
  <2>. QED  BY <1>3, <1>7, <2>1, <2>2, FollowNested
<1>8. CASE cut.data # None /\ cut.data = "stop" /\ state.start # None /\ state.nest > 0
  <2>1. next = [state EXCEPT !.nest = state.nest - 1]
    BY <1>3, <1>8, "start" # "stop" DEF Follow
  <2>2. Open(s, k + 1) = (state.nest - 1) + 1 /\ state.nest - 1 \in Nat
    BY <1>4, <1>8
  <2>. QED  BY <1>3, <1>8, <2>1, <2>2, FollowNested
<1>9. CASE cut.data # None /\ cut.data = "stop" /\ state.start # None /\ state.nest = 0
  <2>1. next = [state EXCEPT !.start = None, !.gaps = Append(@, <<state.start, cut.at>>)]
    BY <1>3, <1>9, "start" # "stop" DEF Follow, EndGap
  <2>2. next = [state EXCEPT !.start = None, !.nest = 0, !.gaps = Append(@, <<state.start, cut.at>>)]
    BY <1>1, <1>9, <2>1
  <2>3. Open(s, k + 1) = 0
    BY <1>4, <1>9
  <2>. QED  BY <1>3, <1>9, <2>2, <2>3, FollowStop
<1>10. CASE \/ cut.data # None /\ cut.data \notin {"start", "stop"}
            \/ cut.data # None /\ cut.data = "stop" /\ state.start = None
  <2>1. next = Unexpected(state)
    BY <1>3, <1>10 DEF Follow
  <2>. QED  BY <1>3, <2>1 DEF Unexpected
<1>. QED  BY <1>4, <1>5, <1>6, <1>7, <1>8, <1>9, <1>10

\* What collect_gaps returns for commands in order.
LEMMA CollectGapsIs ==
  ASSUME NEW cuts, CutsOK(cuts), CollectGaps(cuts).result = "ok"
  PROVE  StateOK(CollectGaps(cuts), Sorted(cuts), Cardinality(cuts))
<1>. DEFINE s == Sorted(cuts)
            n == Cardinality(cuts)
            stopped == [start |-> None, nest |-> 0, gaps |-> <<>>, result |-> "ok"]
<1>1. Lists(s, cuts) /\ n \in Nat /\ DOMAIN s = 1..n
  BY SortedLists, ListTypes DEF Lists
<1>2. CollectGaps(cuts) = FoldLeft(Follow, stopped, s)
  <2>1. ~\E x \in cuts : x.at = None
    BY EditionsAssumption DEF CutsOK
  <2>. QED  BY <2>1 DEF CollectGaps
<1>3. PICK run : Runs(run, stopped, s, n) /\ FoldLeft(Follow, stopped, s) = run[n]
  BY <1>1, FoldLeftRuns
<1>. DEFINE good(k) == /\ DOMAIN run[k] = {"start", "nest", "gaps", "result"}
                       /\ run[k].result = "ok" => StateOK(run[k], s, k)
            T == {k \in 0..n : ~good(k)}
<1>4. good(0)
  <2>1. run[0] = stopped
    BY <1>3 DEF Runs
  <2>2. Tracks(stopped, s, 0)
    BY OpenNone DEF Tracks
  <2>3. Ordered(stopped, s, 0)
    BY DEF Ordered, GapsOK
  <2>4. Covers(stopped, s, 0)
    BY DEF Covers, InGaps, CutDuring
  <2>. QED  BY <2>1, <2>2, <2>3, <2>4 DEF StateOK
<1>. HIDE DEF s, stopped
<1>5. ASSUME NEW k \in 0..n - 1, good(k) PROVE good(k + 1)
  <2>1. run[k + 1] = Follow(run[k], s[k + 1])
    BY <1>3 DEF Runs
  <2>. QED  BY <1>1, <1>5, <2>1, FollowStep
<1>. HIDE DEF good
<1>6. T = {}
  <2>. SUFFICES ASSUME T # {} PROVE FALSE
    OBVIOUS
  <2>1. T \in SUBSET Nat
    BY <1>1
  <2>2. PICK k \in T : \A j \in T : k <= j
    BY <2>1, LeastNatural
  <2>3. k # 0
    BY <1>4, <2>2
  <2>4. k - 1 \in 0..n - 1 /\ k - 1 \notin T
    BY <1>1, <2>2, <2>3
  <2>5. good((k - 1) + 1)
    BY <1>1, <1>5, <2>4
  <2>. QED  BY <1>1, <2>2, <2>5
<1>7. good(n)
  BY <1>1, <1>6
<1>. QED  BY <1>2, <1>3, <1>7 DEF good, s

LEMMA UpToIs ==
  ASSUME NEW cuts, CutsOK(cuts), NEW s, Lists(s, cuts), NEW j \in 1..Cardinality(cuts), NEW command
  PROVE  UpTo(s, j, command) = {y \in {y \in cuts : y = s[j] \/ Precedes(y, s[j])} : y.data = command}
<1>0. Cardinality(cuts) \in Nat /\ DOMAIN s = 1..Cardinality(cuts)
  BY ListTypes DEF Lists
<1>1. ASSUME NEW i \in 1..j PROVE s[i] \in cuts /\ (s[i] = s[j] \/ Precedes(s[i], s[j]))
  <2>1. i \in 1..Cardinality(cuts) /\ (i = j \/ i < j)
    BY <1>0
  <2>. QED  BY <1>0, <2>1 DEF Lists
<1>2. ASSUME NEW y \in cuts, y = s[j] \/ Precedes(y, s[j]) PROVE \E i \in 1..j : s[i] = y
  <2>1. PICK i \in 1..Cardinality(cuts) : s[i] = y
    BY <1>0 DEF Lists
  <2>2. ~(j < i)
    <3>. SUFFICES ASSUME j < i PROVE FALSE
      OBVIOUS
    <3>1. Precedes(s[j], y) /\ s[j] \in cuts
      BY <1>0, <2>1 DEF Lists
    <3>. QED  BY <1>2, <3>1, PrecedesOrder
  <2>. QED  BY <1>0, <2>1, <2>2
<1>. QED  BY <1>1, <1>2 DEF UpTo

LEMMA ClosingIs ==
  ASSUME NEW cuts, CutsOK(cuts), NEW s, Lists(s, cuts), NEW j \in 1..Cardinality(cuts)
  PROVE  s[j] \in Closing(cuts) <=> Open(s, j) = 0
<1>0. Cardinality(cuts) \in Nat
  BY ListTypes
<1>1. s[j] \in cuts
  BY ListTypes
<1>4. j \in 0..Cardinality(cuts)
  BY <1>0
<1>2. s[j] \in Closing(cuts) <=> Cardinality(UpTo(s, j, "start")) = Cardinality(UpTo(s, j, "stop"))
  <2>. DEFINE upTo(x) == {y \in cuts : y = x \/ Precedes(y, x)}
              starts(x) == {y \in upTo(x) : y.data = "start"}
              stops(x) == {y \in upTo(x) : y.data = "stop"}
  <2>1. Closing(cuts) = {x \in cuts : Cardinality(starts(x)) = Cardinality(stops(x))}
    BY Zenon DEF Closing
  <2>2. UpTo(s, j, "start") = starts(s[j]) /\ UpTo(s, j, "stop") = stops(s[j])
    BY UpToIs
  <2>. HIDE DEF starts, stops
  <2>. QED  BY <1>1, <2>1, <2>2
<1>3. Cardinality(UpTo(s, j, "start")) \in Nat /\ Cardinality(UpTo(s, j, "stop")) \in Nat
  BY <1>4, UpToFinite
<1>. QED  BY <1>2, <1>3 DEF Open

LEMMA DepthIs ==
  ASSUME NEW cuts, CutsOK(cuts), NEW s, Lists(s, cuts), NEW i \in 1..Cardinality(cuts) - 1,
         NEW t \in Int, During(s, i, t)
  PROVE  Depth(cuts, t) = Open(s, i)
<1>0. /\ Cardinality(cuts) \in Nat /\ DOMAIN s = 1..Cardinality(cuts)
      /\ i \in 1..Cardinality(cuts) /\ i + 1 \in 1..Cardinality(cuts)
  <2>1. Cardinality(cuts) \in Nat /\ DOMAIN s = 1..Cardinality(cuts)
    BY ListTypes DEF Lists
  <2>. QED  BY <2>1
<1>1. ASSUME NEW command PROVE {x \in cuts : x.data = command /\ x.at <= t} = UpTo(s, i, command)
  <2>1. ASSUME NEW j \in 1..i PROVE s[j] \in cuts /\ s[j].at <= t
    <3>1. j \in 1..Cardinality(cuts) /\ j <= i
      BY <1>0
    <3>2. s[j].at <= s[i].at /\ s[j].at \in Int /\ s[i].at \in Int /\ s[j] \in cuts
      BY <1>0, <3>1, ListTypes
    <3>. QED  BY <3>2 DEF During
  <2>2. ASSUME NEW x \in cuts, x.at <= t PROVE \E j \in 1..i : s[j] = x
    <3>1. PICK j \in 1..Cardinality(cuts) : s[j] = x
      BY <1>0 DEF Lists
    <3>2. ~(i + 1 <= j)
      <4>. SUFFICES ASSUME i + 1 <= j PROVE FALSE
        OBVIOUS
      <4>1. s[i + 1].at <= s[j].at /\ s[j].at \in Int /\ s[i + 1].at \in Int
        BY <1>0, <3>1, ListTypes
      <4>. QED  BY <2>2, <3>1, <4>1 DEF During
    <3>. QED  BY <1>0, <3>1, <3>2
  <2>. QED  BY <2>1, <2>2 DEF UpTo
<1>. QED  BY <1>1 DEF Depth, Open

\* A time when a cut is open, and a command comes later, comes between two commands.
LEMMA DuringExists ==
  ASSUME NEW cuts, CutsOK(cuts), NEW s, Lists(s, cuts), NEW t \in Int, Depth(cuts, t) > 0,
         NEW k \in 1..Cardinality(cuts), s[k].at > t
  PROVE  \E i \in 1..Cardinality(cuts) - 1 : During(s, i, t) /\ i < k
<1>0. Cardinality(cuts) \in Nat /\ DOMAIN s = 1..Cardinality(cuts)
  BY ListTypes DEF Lists
<1>. DEFINE T == {j \in 1..Cardinality(cuts) : s[j].at > t}
<1>1. PICK j \in T : \A l \in T : j <= l
  <2>1. k \in T /\ T \in SUBSET Nat
    OBVIOUS
  <2>. QED  BY <2>1, LeastNatural
<1>2. j # 1
  <2>. SUFFICES ASSUME j = 1 PROVE FALSE
    OBVIOUS
  <2>1. \A x \in cuts : ~(x.at <= t)
    <3>. SUFFICES ASSUME NEW x \in cuts PROVE ~(x.at <= t)
      OBVIOUS
    <3>1. PICK i \in 1..Cardinality(cuts) : s[i] = x
      BY <1>0 DEF Lists
    <3>2. s[1].at <= s[i].at /\ s[1].at \in Int /\ s[i].at \in Int /\ s[1].at > t
      BY <1>0, <1>1, <3>1, ListTypes
    <3>. QED  BY <3>1, <3>2
  <2>2. /\ {x \in cuts : x.data = "start" /\ x.at <= t} = {}
        /\ {x \in cuts : x.data = "stop" /\ x.at <= t} = {}
    <3>1. ASSUME NEW command PROVE {x \in cuts : x.data = command /\ x.at <= t} = {}
      BY <2>1, Zenon
    <3>. QED  BY <3>1
  <2>3. Depth(cuts, t) = 0
    <3>1. Cardinality({}) = 0
      BY FS_EmptySet
    <3>2. Depth(cuts, t) = Cardinality({}) - Cardinality({})
      BY <2>2, Zenon DEF Depth
    <3>. QED  BY <3>1, <3>2
  <2>. QED  BY <2>3
<1>3. j - 1 \in 1..Cardinality(cuts) /\ j - 1 \notin T /\ j <= k /\ (j - 1) + 1 = j
  BY <1>0, <1>1, <1>2
<1>4. s[j - 1].at <= t /\ t < s[j].at
  BY <1>1, <1>3, ListTypes
<1>5. j - 1 \in 1..Cardinality(cuts) - 1 /\ j - 1 < k /\ During(s, j - 1, t)
  BY <1>0, <1>1, <1>3, <1>4 DEF During
<1>. QED  BY <1>5

\* The gaps are what is cut out.
LEMMA GapsAreCutOut ==
  ASSUME NEW cuts, CutsOK(cuts), NEW s, Lists(s, cuts), NEW state, StateOK(state, s, Cardinality(cuts))
  PROVE  \A t \in Int : InGaps(state.gaps, t) <=> CutOut(cuts, t)
<1>. DEFINE n == Cardinality(cuts)
<1>0. n \in Nat /\ DOMAIN s = 1..n
  BY ListTypes DEF Lists
<1>. SUFFICES ASSUME NEW t \in Int PROVE CutDuring(s, n, t) <=> CutOut(cuts, t)
  BY DEF StateOK, Covers
<1>1. ASSUME NEW i \in 1..n - 1, During(s, i, t), Open(s, i) > 0, NEW j \in i + 1..n, Open(s, j) = 0
      PROVE  CutOut(cuts, t)
  <2>1. Depth(cuts, t) > 0
    BY <1>1, DepthIs
  <2>2. j \in 1..n /\ i + 1 \in 1..n /\ i + 1 <= j
    BY <1>0, <1>1
  <2>3. s[j] \in Closing(cuts)
    BY <1>1, <2>2, ClosingIs
  <2>4. s[i + 1].at <= s[j].at /\ s[i + 1].at \in Int /\ s[j].at \in Int
    BY <2>2, ListTypes
  <2>5. s[j].at > t
    BY <1>1, <2>4 DEF During
  <2>. QED  BY <2>1, <2>3, <2>5 DEF CutOut
<1>2. ASSUME CutOut(cuts, t) PROVE CutDuring(s, n, t)
  <2>1. PICK x \in Closing(cuts) : x.at > t
    BY <1>2 DEF CutOut
  <2>2. PICK j \in 1..n : s[j] = x
    BY <1>0, <2>1 DEF Lists, Closing
  <2>3. Open(s, j) = 0
    BY <2>1, <2>2, ClosingIs
  <2>4. PICK i \in 1..n - 1 : During(s, i, t) /\ i < j
    BY <1>2, <2>1, <2>2, DuringExists DEF CutOut
  <2>5. Open(s, i) > 0
    BY <1>2, <2>4, DepthIs, Zenon DEF CutOut
  <2>6. j \in i + 1..n
    BY <1>0, <2>2, <2>4
  <2>. QED  BY <2>3, <2>4, <2>5, <2>6 DEF CutDuring
<1>. QED  BY <1>1, <1>2 DEF CutDuring

\* They end where no cut is open.
LEMMA GapsEndAtClosing ==
  ASSUME NEW cuts, CutsOK(cuts), NEW s, Lists(s, cuts), NEW state, StateOK(state, s, Cardinality(cuts))
  PROVE  /\ \A x \in Closing(cuts) : \E g \in DOMAIN state.gaps : x.at = state.gaps[g][2]
         /\ \A g \in DOMAIN state.gaps : \E x \in Closing(cuts) : x.at = state.gaps[g][2]
<1>0. Cardinality(cuts) \in Nat /\ DOMAIN s = 1..Cardinality(cuts)
  BY ListTypes DEF Lists
<1>1. ASSUME NEW x \in Closing(cuts) PROVE \E g \in DOMAIN state.gaps : x.at = state.gaps[g][2]
  <2>1. PICK j \in 1..Cardinality(cuts) : s[j] = x
    BY <1>0 DEF Lists, Closing
  <2>2. Open(s, j) = 0
    BY <2>1, ClosingIs
  <2>. QED  BY <2>1, <2>2 DEF StateOK, Ordered
<1>2. ASSUME NEW g \in DOMAIN state.gaps PROVE \E x \in Closing(cuts) : x.at = state.gaps[g][2]
  <2>1. PICK j \in 1..Cardinality(cuts) : Open(s, j) = 0 /\ s[j].at = state.gaps[g][2]
    BY DEF StateOK, Ordered
  <2>. QED  BY <2>1, ClosingIs
<1>. QED  BY <1>1, <1>2

-----------------------------------------------------------------------------
(* invert_segments. *)

LEMMA CoveredByBoth ==
  ASSUME NEW a \in Seq(Int \X Int), NEW b \in Seq(Int \X Int), NEW t \in Int
  PROVE  InGaps(a \o b, t) <=> InGaps(a, t) \/ InGaps(b, t)
<1>. DEFINE c == a \o b
<1>0. /\ Len(a) \in Nat /\ Len(b) \in Nat
      /\ DOMAIN a = 1..Len(a) /\ DOMAIN b = 1..Len(b) /\ DOMAIN c = 1..Len(a) + Len(b)
  OBVIOUS
<1>1. \A i \in 1..Len(a) : i \in DOMAIN c /\ c[i] = a[i]
  BY <1>0
<1>2. \A i \in 1..Len(b) : Len(a) + i \in DOMAIN c /\ c[Len(a) + i] = b[i]
  BY <1>0
<1>3. \A i \in DOMAIN c : i \in 1..Len(a) \/ \E j \in 1..Len(b) : i = Len(a) + j
  <2>. SUFFICES ASSUME NEW i \in DOMAIN c, i \notin 1..Len(a) PROVE \E j \in 1..Len(b) : i = Len(a) + j
    OBVIOUS
  <2>1. i - Len(a) \in 1..Len(b) /\ i = Len(a) + (i - Len(a))
    BY <1>0
  <2>. QED  BY <2>1
<1>. HIDE DEF c
<1>4. InGaps(c, t) <=> InGaps(a, t) \/ InGaps(b, t)
  <2>1. ASSUME NEW i \in DOMAIN c, c[i][1] <= t, t < c[i][2] PROVE InGaps(a, t) \/ InGaps(b, t)
    <3>1. CASE i \in 1..Len(a)
      BY <1>0, <1>1, <2>1, <3>1 DEF InGaps
    <3>2. CASE \E j \in 1..Len(b) : i = Len(a) + j
      BY <1>0, <1>2, <2>1, <3>2 DEF InGaps
    <3>. QED  BY <1>3, <3>1, <3>2
  <2>2. ASSUME NEW i \in DOMAIN a, a[i][1] <= t, t < a[i][2] PROVE InGaps(c, t)
    BY <1>0, <1>1, <2>2 DEF InGaps
  <2>3. ASSUME NEW i \in DOMAIN b, b[i][1] <= t, t < b[i][2] PROVE InGaps(c, t)
    BY <1>0, <1>2, <2>3 DEF InGaps
  <2>. QED  BY <2>1, <2>2, <2>3 DEF InGaps
<1>. QED  BY <1>4 DEF c

\* Where a time can be in a list of intervals that follow one another.
LEMMA Between ==
  ASSUME NEW n \in Nat, n > 0, NEW lo \in [1..n -> Int], NEW hi \in [1..n -> Int],
         \A i \in 1..n : lo[i] <= hi[i],
         \A i, j \in 1..n : i < j => hi[i] <= lo[j],
         NEW t \in Int
  PROVE  /\ ~(\E i \in 1..n : lo[i] <= t /\ t < hi[i])
            <=> \/ t < lo[1]
                \/ \E i \in 1..n - 1 : hi[i] <= t /\ t < lo[i + 1]
                \/ hi[n] <= t
         /\ t < lo[1] => t < hi[n]
         /\ (\E i \in 1..n - 1 : hi[i] <= t /\ t < lo[i + 1]) => t < hi[n]
<1>0. 1 \in 1..n /\ n \in 1..n /\ \A i \in 1..n : lo[i] \in Int /\ hi[i] \in Int
  OBVIOUS
<1>1. \A i, j \in 1..n : i <= j => lo[i] <= lo[j] /\ hi[i] <= hi[j]
  <2>. SUFFICES ASSUME NEW i \in 1..n, NEW j \in 1..n, i <= j PROVE lo[i] <= lo[j] /\ hi[i] <= hi[j]
    OBVIOUS
  <2>1. lo[i] <= hi[i] /\ lo[j] <= hi[j] /\ (i < j => hi[i] <= lo[j])
    OBVIOUS
  <2>2. i = j \/ i < j
    OBVIOUS
  <2>. QED  BY <1>0, <2>1, <2>2
<1>2. \A i \in 1..n : lo[1] <= lo[i] /\ hi[i] <= hi[n]
  BY <1>0, <1>1
<1>3. ASSUME t < lo[1] PROVE t < hi[n] /\ \A i \in 1..n : t < lo[i]
  BY <1>0, <1>2, <1>3
<1>4. ASSUME hi[n] <= t PROVE \A i \in 1..n : hi[i] <= t
  BY <1>0, <1>2, <1>4
<1>5. ASSUME NEW i \in 1..n - 1, hi[i] <= t, t < lo[i + 1]
      PROVE  t < hi[n] /\ \A j \in 1..n : hi[j] <= t \/ t < lo[j]
  <2>1. i \in 1..n /\ i + 1 \in 1..n /\ \A j \in 1..n : j <= i \/ i + 1 <= j
    OBVIOUS
  <2>2. \A j \in 1..n : hi[j] <= hi[i] \/ lo[i + 1] <= lo[j]
    BY <1>1, <2>1
  <2>3. lo[i + 1] <= hi[n]
    BY <1>0, <1>2, <2>1
  <2>4. hi[i] \in Int /\ lo[i + 1] \in Int /\ hi[n] \in Int
    BY <1>0, <2>1
  <2>5. t < hi[n]
    BY <1>5, <2>3, <2>4
  <2>6. ASSUME NEW j \in 1..n PROVE hi[j] <= t \/ t < lo[j]
    <3>1. hi[j] \in Int /\ lo[j] \in Int /\ (hi[j] <= hi[i] \/ lo[i + 1] <= lo[j])
      BY <1>0, <2>2
    <3>. QED  BY <1>5, <2>4, <3>1
  <2>. QED  BY <2>5, <2>6
<1>6. ASSUME ~(\E i \in 1..n : lo[i] <= t /\ t < hi[i]), ~(t < lo[1]), ~(hi[n] <= t)
      PROVE  \E i \in 1..n - 1 : hi[i] <= t /\ t < lo[i + 1]
  <2>. DEFINE T == {i \in 1..n : t < hi[i]}
  <2>1. PICK j \in T : \A i \in T : j <= i
    <3>1. T \in SUBSET Nat /\ n \in T
      BY <1>0, <1>6
    <3>. QED  BY <3>1, LeastNatural
  <2>2. t < lo[j] /\ j \in 1..n
    BY <1>0, <1>6, <2>1
  <2>3. j # 1
    BY <1>6, <2>2
  <2>4. j - 1 \in 1..n /\ j - 1 \notin T /\ j - 1 \in 1..n - 1 /\ (j - 1) + 1 = j
    BY <2>1, <2>3
  <2>5. hi[j - 1] <= t
    BY <1>0, <2>4
  <2>. QED  BY <2>2, <2>4, <2>5
<1>7. ASSUME NEW i \in 1..n, lo[i] <= t, t < hi[i] PROVE ~(hi[i] <= t) /\ ~(t < lo[i])
  BY <1>0, <1>7
<1>. QED  BY <1>3, <1>4, <1>5, <1>6, <1>7

\* A list of gaps as two functions.
Bounds(gaps, n, lo, hi) ==
  /\ n \in Nat /\ n > 0 /\ n = Len(gaps) /\ DOMAIN gaps = 1..n
  /\ lo \in [1..n -> Int] /\ hi \in [1..n -> Int]
  /\ \A i \in 1..n : gaps[i] = <<lo[i], hi[i]>>
  /\ \A i \in 1..n : lo[i] <= hi[i]
  /\ \A i, j \in 1..n : i < j => hi[i] <= lo[j]

LEMMA GapsFollow ==
  ASSUME NEW gaps \in Seq(Int \X Int), GapsOK(gaps), gaps # <<>>
  PROVE  \E n, lo, hi : Bounds(gaps, n, lo, hi)
<1>. DEFINE n == Len(gaps)
            lo == [i \in 1..n |-> gaps[i][1]]
            hi == [i \in 1..n |-> gaps[i][2]]
<1>1. n \in Nat /\ n > 0 /\ DOMAIN gaps = 1..n /\ \A i \in 1..n : gaps[i] \in Int \X Int
  OBVIOUS
<1>. HIDE DEF n
<1>2. lo \in [1..n -> Int] /\ hi \in [1..n -> Int]
  BY <1>1
<1>3. \A i \in 1..n : gaps[i] = <<lo[i], hi[i]>>
  BY <1>1
<1>4. \A i \in 1..n : lo[i] <= hi[i]
  BY <1>1 DEF GapsOK
<1>5. \A i, j \in 1..n : i < j => hi[i] <= lo[j]
  BY <1>1 DEF GapsOK
<1>6. n = Len(gaps)
  BY DEF n
<1>. HIDE DEF lo, hi
<1>. QED  BY <1>1, <1>2, <1>3, <1>4, <1>5, <1>6 DEF Bounds

\* The segments before the first gap, between two gaps, and after the last one.
Leading(first) == IF first > 0 THEN << <<0, first>> >> ELSE <<>>

Inner(n, lo, hi) == [i \in 1..n - 1 |-> <<hi[i], lo[i + 1]>>]

Trailing(last, duration, least) ==
  IF last < duration /\ duration - last > least THEN << <<last, duration>> >> ELSE <<>>

LEMMA InvertedParts ==
  ASSUME NEW gaps, gaps # <<>>, NEW n, NEW lo, NEW hi, Bounds(gaps, n, lo, hi),
         NEW duration \in Nat, NEW least \in Nat
  PROVE  /\ InvertSegments(gaps, duration, least)
            = Leading(lo[1]) \o Inner(n, lo, hi) \o Trailing(hi[n], duration, least)
         /\ Leading(lo[1]) \in Seq(Int \X Int)
         /\ Inner(n, lo, hi) \in Seq(Int \X Int)
         /\ Trailing(hi[n], duration, least) \in Seq(Int \X Int)
<1>1. /\ n \in Nat /\ 1 \in 1..n /\ n \in 1..n /\ n - 1 \in Nat /\ lo[1] \in Int /\ hi[n] \in Int
      /\ \A i \in 1..n - 1 : i \in 1..n /\ i + 1 \in 1..n
      /\ lo \in [1..n -> Int] /\ hi \in [1..n -> Int] /\ n = Len(gaps)
  BY DEF Bounds
<1>2. \A i \in 1..n : gaps[i][1] = lo[i] /\ gaps[i][2] = hi[i]
  BY DEF Bounds
<1>3. InvertSegments(gaps, duration, least)
      = Leading(lo[1]) \o Inner(n, lo, hi) \o Trailing(hi[n], duration, least)
  <2>1. Head(gaps) = gaps[1] /\ Len(gaps) = n
    BY <1>1
  <2>2. Inner(n, lo, hi) = [i \in 1..Len(gaps) - 1 |-> <<gaps[i][2], gaps[i + 1][1]>>]
    BY <1>1, <1>2, <2>1 DEF Inner
  <2>3. Head(gaps)[1] = lo[1] /\ gaps[Len(gaps)][2] = hi[n]
    BY <1>1, <1>2, <2>1
  <2>. QED  BY <2>2, <2>3, Zenon DEF InvertSegments, Leading, Trailing
<1>4. Leading(lo[1]) \in Seq(Int \X Int)
  <2>1. <<0, lo[1]>> \in Int \X Int
    BY <1>1
  <2>2. << <<0, lo[1]>> >> \in Seq(Int \X Int) /\ <<>> \in Seq(Int \X Int)
    BY <2>1
  <2>. QED  BY <2>2 DEF Leading
<1>5. Trailing(hi[n], duration, least) \in Seq(Int \X Int)
  <2>1. <<hi[n], duration>> \in Int \X Int
    BY <1>1
  <2>2. << <<hi[n], duration>> >> \in Seq(Int \X Int) /\ <<>> \in Seq(Int \X Int)
    BY <2>1
  <2>. QED  BY <2>2 DEF Trailing
<1>6. Inner(n, lo, hi) \in Seq(Int \X Int)
  <2>1. \A i \in 1..n - 1 : <<hi[i], lo[i + 1]>> \in Int \X Int
    BY <1>1
  <2>. QED  BY <1>1, <2>1 DEF Inner
<1>. QED  BY <1>3, <1>4, <1>5, <1>6

\* What is left over at the end is too short.
TailCut(gaps, duration, least, t) ==
  gaps # <<>> /\ gaps[Len(gaps)][2] <= t /\ duration - gaps[Len(gaps)][2] <= least

\* The segments are what the gaps leave over.
LEMMA SegmentsAreLeft ==
  ASSUME NEW gaps \in Seq(Int \X Int), GapsOK(gaps), NEW duration \in Nat, NEW least \in Nat,
         NEW t \in 0..duration - 1
  PROVE  InGaps(InvertSegments(gaps, duration, least), t)
         <=> ~InGaps(gaps, t) /\ ~TailCut(gaps, duration, least, t)
<1>1. CASE gaps = <<>>
  <2>1. InvertSegments(gaps, duration, least) = << <<0, duration>> >>
    BY <1>1 DEF InvertSegments
  <2>2. InGaps(<< <<0, duration>> >>, t)
    BY DEF InGaps
  <2>3. ~InGaps(gaps, t) /\ ~TailCut(gaps, duration, least, t)
    BY <1>1 DEF InGaps, TailCut
  <2>. QED  BY <2>1, <2>2, <2>3
<1>2. CASE gaps # <<>>
  <2>1. PICK n, lo, hi : Bounds(gaps, n, lo, hi)
    BY <1>2, GapsFollow
  <2>2. /\ n \in Nat /\ 1 \in 1..n /\ n \in 1..n /\ n - 1 \in Nat /\ lo[1] \in Int /\ hi[n] \in Int
        /\ \A i \in 1..n - 1 : i \in 1..n /\ i + 1 \in 1..n
    <3>1. n \in Nat /\ n > 0 /\ lo \in [1..n -> Int] /\ hi \in [1..n -> Int]
      BY <2>1 DEF Bounds
    <3>. QED  BY <3>1
  <2>3. \A i \in 1..n : gaps[i][1] = lo[i] /\ gaps[i][2] = hi[i]
    BY <2>1 DEF Bounds
  <2>4. /\ InvertSegments(gaps, duration, least)
           = Leading(lo[1]) \o Inner(n, lo, hi) \o Trailing(hi[n], duration, least)
        /\ Leading(lo[1]) \in Seq(Int \X Int)
        /\ Inner(n, lo, hi) \in Seq(Int \X Int)
        /\ Trailing(hi[n], duration, least) \in Seq(Int \X Int)
    BY <1>2, <2>1, InvertedParts
  <2>. DEFINE head == Leading(lo[1])
              mid == Inner(n, lo, hi)
              tail == Trailing(hi[n], duration, least)
  <2>5. InGaps(head, t) <=> t < lo[1]
    BY <2>2 DEF InGaps, Leading
  <2>6. InGaps(mid, t) <=> \E i \in 1..n - 1 : hi[i] <= t /\ t < lo[i + 1]
    BY DEF InGaps, Inner
  <2>7. InGaps(tail, t) <=> (hi[n] <= t /\ duration - hi[n] > least)
    BY <2>2 DEF InGaps, Trailing
  <2>8. TailCut(gaps, duration, least, t) <=> (hi[n] <= t /\ duration - hi[n] <= least)
    BY <1>2, <2>1, <2>2, <2>3 DEF TailCut, Bounds
  <2>9. InGaps(gaps, t) <=> \E i \in 1..n : lo[i] <= t /\ t < hi[i]
    BY <2>1, <2>3 DEF InGaps, Bounds
  <2>10. /\ ~InGaps(gaps, t) <=> \/ t < lo[1]
                                 \/ \E i \in 1..n - 1 : hi[i] <= t /\ t < lo[i + 1]
                                 \/ hi[n] <= t
         /\ t < lo[1] => t < hi[n]
         /\ (\E i \in 1..n - 1 : hi[i] <= t /\ t < lo[i + 1]) => t < hi[n]
    <3>1. t \in Int
      OBVIOUS
    <3>2. /\ ~(\E i \in 1..n : lo[i] <= t /\ t < hi[i])
             <=> \/ t < lo[1]
                 \/ \E i \in 1..n - 1 : hi[i] <= t /\ t < lo[i + 1]
                 \/ hi[n] <= t
          /\ t < lo[1] => t < hi[n]
          /\ (\E i \in 1..n - 1 : hi[i] <= t /\ t < lo[i + 1]) => t < hi[n]
      <4>. HIDE DEF head, mid, tail
      <4>. QED  BY <2>1, <3>1, Between DEF Bounds
    <3>. QED  BY <2>9, <3>2, Zenon
  <2>. HIDE DEF head, mid, tail
  <2>11. InGaps(head \o mid \o tail, t) <=> InGaps(head, t) \/ InGaps(mid, t) \/ InGaps(tail, t)
    <3>1. t \in Int /\ head \o mid \in Seq(Int \X Int)
      BY <2>4 DEF head, mid
    <3>2. InGaps((head \o mid) \o tail, t) <=> InGaps(head \o mid, t) \/ InGaps(tail, t)
      BY <2>4, <3>1, CoveredByBoth DEF tail
    <3>3. InGaps(head \o mid, t) <=> InGaps(head, t) \/ InGaps(mid, t)
      BY <2>4, <3>1, CoveredByBoth DEF head, mid
    <3>. QED  BY <3>2, <3>3
  <2>12. t \in Int /\ duration - hi[n] \in Int
    BY <2>2
  <2>. QED  BY <2>2, <2>4, <2>5, <2>6, <2>7, <2>8, <2>10, <2>11, <2>12 DEF head, mid, tail
<1>. QED  BY <1>1, <1>2

\* The same of the gaps that collect_gaps returns, in terms of the commands.
\* Two lists of which the second begins after the first.
LEMMA JoinedOK ==
  ASSUME NEW a \in Seq(Int \X Int), NEW b \in Seq(Int \X Int), GapsOK(a), GapsOK(b),
         \A i \in DOMAIN a, j \in DOMAIN b : a[i][2] <= b[j][1]
  PROVE  a \o b \in Seq(Int \X Int) /\ GapsOK(a \o b)
<1>. DEFINE c == a \o b
            m == Len(a)
            n == Len(b)
<1>1. /\ m \in Nat /\ n \in Nat /\ DOMAIN a = 1..m /\ DOMAIN b = 1..n
      /\ DOMAIN c = 1..m + n /\ c \in Seq(Int \X Int)
      /\ \A i \in 1..m : c[i] = a[i]
      /\ \A i \in m + 1..m + n : c[i] = b[i - m]
  <2>1. c \in Seq(Int \X Int)
    OBVIOUS
  <2>. QED  BY <2>1
<1>2. ASSUME NEW i \in m + 1..m + n PROVE i - m \in 1..n
  BY <1>1
<1>. HIDE DEF c, m, n
<1>3. ASSUME NEW i \in 1..m + n PROVE i \in 1..m \/ i \in m + 1..m + n
  BY <1>1
<1>4. ASSUME NEW i \in 1..m + n PROVE c[i] \in Int \X Int /\ c[i][1] <= c[i][2]
  <2>1. CASE i \in 1..m
    BY <1>1, <2>1 DEF GapsOK
  <2>2. CASE i \in m + 1..m + n
    <3>1. i - m \in DOMAIN b /\ c[i] = b[i - m]
      BY <1>1, <1>2, <2>2
    <3>. QED  BY <3>1 DEF GapsOK
  <2>. QED  BY <1>3, <2>1, <2>2
<1>5. ASSUME NEW i \in 1..m + n, NEW j \in 1..m + n, i < j PROVE c[i][2] <= c[j][1]
  <2>1. CASE i \in 1..m /\ j \in 1..m
    BY <1>1, <1>5, <2>1 DEF GapsOK
  <2>2. CASE i \in 1..m /\ j \in m + 1..m + n
    BY <1>1, <1>2, <2>2
  <2>3. CASE i \in m + 1..m + n /\ j \in m + 1..m + n
    <3>1. i - m \in 1..n /\ j - m \in 1..n /\ i - m < j - m
      BY <1>1, <1>2, <1>5, <2>3
    <3>2. c[i] = b[i - m] /\ c[j] = b[j - m] /\ i - m \in DOMAIN b /\ j - m \in DOMAIN b
      BY <1>1, <2>3, <3>1
    <3>3. b[i - m][2] <= b[j - m][1]
      BY <3>1, <3>2 DEF GapsOK
    <3>. QED  BY <3>2, <3>3
  <2>4. CASE i \in m + 1..m + n /\ j \in 1..m
    BY <1>1, <1>5, <2>4
  <2>. QED  BY <1>3, <2>1, <2>2, <2>3, <2>4
<1>6. GapsOK(c)
  BY <1>1, <1>4, <1>5 DEF GapsOK
<1>. QED  BY <1>1, <1>6 DEF c

LEMMA OnePairOK ==
  ASSUME NEW a \in Int, NEW b \in Int, a <= b
  PROVE  /\ << <<a, b>> >> \in Seq(Int \X Int) /\ GapsOK(<< <<a, b>> >>)
         /\ DOMAIN << <<a, b>> >> = {1} /\ << <<a, b>> >>[1] = <<a, b>>
<1>. DEFINE s == << <<a, b>> >>
<1>1. <<a, b>> \in Int \X Int /\ <<a, b>>[1] = a /\ <<a, b>>[2] = b
  OBVIOUS
<1>2. DOMAIN s = {1} /\ s[1] = <<a, b>>
  OBVIOUS
<1>3. s \in Seq(Int \X Int)
  BY <1>1
<1>. HIDE DEF s
<1>4. GapsOK(s)
  BY <1>1, <1>2 DEF GapsOK
<1>. QED  BY <1>2, <1>3, <1>4 DEF s

\* What invert_segments returns is in order again.
LEMMA InvertedOK ==
  ASSUME NEW gaps \in Seq(Int \X Int), GapsOK(gaps), NEW duration \in Nat, NEW least \in Nat
  PROVE  /\ InvertSegments(gaps, duration, least) \in Seq(Int \X Int)
         /\ GapsOK(InvertSegments(gaps, duration, least))
<1>1. CASE gaps = <<>>
  <2>1. InvertSegments(gaps, duration, least) = << <<0, duration>> >>
    BY <1>1 DEF InvertSegments
  <2>2. 0 \in Int /\ duration \in Int /\ 0 <= duration
    OBVIOUS
  <2>. QED  BY <2>1, <2>2, OnePairOK
<1>2. CASE gaps # <<>>
  <2>1. PICK n, lo, hi : Bounds(gaps, n, lo, hi)
    BY <1>2, GapsFollow
  <2>2. /\ n \in Nat /\ 1 \in 1..n /\ n \in 1..n /\ n - 1 \in Nat /\ lo[1] \in Int /\ hi[n] \in Int
        /\ \A i \in 1..n - 1 : i \in 1..n /\ i + 1 \in 1..n
        /\ \A i \in 1..n : lo[i] \in Int /\ hi[i] \in Int /\ lo[i] <= hi[i]
        /\ \A i, j \in 1..n : i < j => hi[i] <= lo[j]
    <3>1. /\ n \in Nat /\ n > 0 /\ lo \in [1..n -> Int] /\ hi \in [1..n -> Int]
          /\ \A i \in 1..n : lo[i] <= hi[i]
          /\ \A i, j \in 1..n : i < j => hi[i] <= lo[j]
      BY <2>1 DEF Bounds
    <3>. QED  BY <3>1
  <2>3. /\ \A i \in 1..n : lo[1] <= lo[i] /\ lo[1] <= hi[i]
        /\ \A i \in 1..n : lo[i] <= hi[n] /\ hi[i] <= hi[n]
    <3>1. ASSUME NEW i \in 1..n PROVE lo[1] <= lo[i] /\ lo[1] <= hi[i]
      <4>1. i = 1 \/ hi[1] <= lo[i]
        BY <2>2
      <4>. QED  BY <2>2, <4>1
    <3>2. ASSUME NEW i \in 1..n PROVE lo[i] <= hi[n] /\ hi[i] <= hi[n]
      <4>1. i = n \/ hi[i] <= lo[n]
        BY <2>2
      <4>. QED  BY <2>2, <4>1
    <3>. QED  BY <3>1, <3>2
  <2>. DEFINE head == Leading(lo[1])
              mid == Inner(n, lo, hi)
              tail == Trailing(hi[n], duration, least)
  <2>4. /\ InvertSegments(gaps, duration, least) = head \o mid \o tail
        /\ head \in Seq(Int \X Int) /\ mid \in Seq(Int \X Int) /\ tail \in Seq(Int \X Int)
    <3>1. /\ InvertSegments(gaps, duration, least)
             = Leading(lo[1]) \o Inner(n, lo, hi) \o Trailing(hi[n], duration, least)
          /\ Leading(lo[1]) \in Seq(Int \X Int)
          /\ Inner(n, lo, hi) \in Seq(Int \X Int)
          /\ Trailing(hi[n], duration, least) \in Seq(Int \X Int)
      <4>. HIDE DEF head, mid, tail
      <4>. QED  BY <1>2, <2>1, InvertedParts
    <3>. QED  BY <3>1, Zenon
  <2>5. GapsOK(head) /\ \A i \in DOMAIN head : head[i][2] = lo[1]
    <3>1. CASE lo[1] > 0
      <4>1. head = << <<0, lo[1]>> >>
        BY <3>1 DEF Leading
      <4>. QED  BY <2>2, <3>1, <4>1, OnePairOK
    <3>2. CASE ~(lo[1] > 0)
      <4>1. head = <<>>
        BY <3>2 DEF Leading
      <4>2. DOMAIN head = {}
        BY <4>1
      <4>. QED  BY <4>2 DEF GapsOK
    <3>. QED  BY <3>1, <3>2
  <2>6. GapsOK(tail) /\ \A i \in DOMAIN tail : tail[i][1] = hi[n]
    <3>1. CASE hi[n] < duration /\ duration - hi[n] > least
      <4>1. tail = << <<hi[n], duration>> >>
        BY <3>1 DEF Trailing
      <4>2. hi[n] <= duration /\ duration \in Int
        BY <2>2, <3>1
      <4>. QED  BY <2>2, <4>1, <4>2, OnePairOK
    <3>2. CASE ~(hi[n] < duration /\ duration - hi[n] > least)
      <4>1. tail = <<>>
        BY <3>2 DEF Trailing
      <4>2. DOMAIN tail = {}
        BY <4>1
      <4>. QED  BY <4>2 DEF GapsOK
    <3>. QED  BY <3>1, <3>2
  <2>7. DOMAIN mid = 1..n - 1 /\ \A i \in 1..n - 1 : mid[i] = <<hi[i], lo[i + 1]>>
    BY DEF Inner
  <2>. HIDE DEF head, mid, tail
  <2>8. \A i \in 1..n - 1 : mid[i] \in Int \X Int /\ mid[i][1] = hi[i] /\ mid[i][2] = lo[i + 1]
    <3>. SUFFICES ASSUME NEW i \in 1..n - 1
                  PROVE  mid[i] \in Int \X Int /\ mid[i][1] = hi[i] /\ mid[i][2] = lo[i + 1]
      OBVIOUS
    <3>1. mid[i] = <<hi[i], lo[i + 1]>> /\ hi[i] \in Int /\ lo[i + 1] \in Int
      BY <2>2, <2>7
    <3>. QED  BY <3>1
  <2>9. GapsOK(mid)
    <3>1. ASSUME NEW i \in 1..n - 1 PROVE mid[i] \in Int \X Int /\ mid[i][1] <= mid[i][2]
      <4>1. hi[i] <= lo[i + 1]
        BY <2>2
      <4>. QED  BY <2>8, <4>1
    <3>2. ASSUME NEW i \in 1..n - 1, NEW j \in 1..n - 1, i < j PROVE mid[i][2] <= mid[j][1]
      <4>1. i + 1 = j \/ i + 1 < j
        BY <2>2, <3>2
      <4>2. lo[i + 1] <= hi[i + 1] /\ (i + 1 < j => hi[i + 1] <= lo[j]) /\ lo[j] <= hi[j]
        BY <2>2
      <4>3. lo[i + 1] <= hi[j]
        BY <2>2, <4>1, <4>2
      <4>. QED  BY <2>8, <4>3
    <3>. QED  BY <2>7, <3>1, <3>2 DEF GapsOK
  <2>10. head \o mid \in Seq(Int \X Int) /\ GapsOK(head \o mid)
    <3>1. \A i \in DOMAIN head, j \in DOMAIN mid : head[i][2] <= mid[j][1]
      BY <2>2, <2>3, <2>5, <2>7, <2>8
    <3>. QED  BY <2>4, <2>5, <2>9, <3>1, JoinedOK
  <2>11. \A i \in DOMAIN (head \o mid), j \in DOMAIN tail : (head \o mid)[i][2] <= tail[j][1]
    <3>. SUFFICES ASSUME NEW i \in DOMAIN (head \o mid), NEW j \in DOMAIN tail
                  PROVE  (head \o mid)[i][2] <= hi[n]
      BY <2>6
    <3>1. \/ i \in DOMAIN head /\ (head \o mid)[i] = head[i]
          \/ i - Len(head) \in DOMAIN mid /\ (head \o mid)[i] = mid[i - Len(head)]
      <4>1. /\ Len(head) \in Nat /\ DOMAIN head = 1..Len(head)
            /\ Len(mid) \in Nat /\ DOMAIN mid = 1..Len(mid)
        BY <2>4
      <4>2. i \in 1..Len(head) + Len(mid)
        BY <2>4
      <4>3. CASE i \in 1..Len(head)
        BY <2>4, <4>1, <4>3
      <4>4. CASE i \notin 1..Len(head)
        <5>1. i - Len(head) \in 1..Len(mid)
          BY <4>1, <4>2, <4>4
        <5>2. (head \o mid)[i] = mid[i - Len(head)]
          BY <2>4, <4>1, <4>2, <4>4
        <5>. QED  BY <4>1, <5>1, <5>2
      <4>. QED  BY <4>3, <4>4
    <3>2. CASE i \in DOMAIN head /\ (head \o mid)[i] = head[i]
      BY <2>2, <2>3, <2>5, <3>2
    <3>3. CASE i - Len(head) \in DOMAIN mid /\ (head \o mid)[i] = mid[i - Len(head)]
      BY <2>2, <2>3, <2>7, <2>8, <3>3
    <3>. QED  BY <3>1, <3>2, <3>3
  <2>. QED  BY <2>4, <2>6, <2>10, <2>11, JoinedOK
<1>. QED  BY <1>1, <1>2

\* In whole milliseconds, a millisecond is in a pair if its last nanosecond is.
LEMMA TruncatedCovers ==
  ASSUME NEW pairs \in Seq(Int \X Int), NEW v \in Nat
  PROVE  Covered(Truncated(pairs), v) <=> InGaps(pairs, LastOf(v))
<1>. DEFINE c == NANOSECONDS_IN_MILLISECOND
            ms(n) == IF n < 0 THEN -((-n) \div c) ELSE n \div c
            end == (v + 1) * c
<1>1. c \in Nat \ {0}
  BY AdjustAssumption
<1>. HIDE DEF c
<1>2. end \in Int /\ end > 0 /\ LastOf(v) = end - 1
  <2>1. (v + 1) * c \in Int /\ (v + 1) * c > 0
    BY <1>1
  <2>. QED  BY <2>1 DEF LastOf, Milliseconds, c
<1>3. ASSUME NEW n \in Int PROVE ms(n) \in Int /\ (ms(n) <= v <=> n <= end - 1)
  <2>1. CASE n < 0
    <3>. DEFINE q == (-n) \div c
    <3>1. -n \in Nat
      BY <2>1
    <3>2. q \in Nat
      BY <1>1, <3>1, QuotientIs
    <3>3. ms(n) = -q
      BY <2>1
    <3>. HIDE DEF q, ms, end
    <3>. QED  BY <1>2, <2>1, <3>2, <3>3
  <2>2. CASE ~(n < 0)
    <3>. DEFINE q == n \div c
    <3>1. n \in Nat
      BY <2>2
    <3>2. q \in Nat /\ q * c <= n /\ n < q * c + c
      BY <1>1, <3>1, QuotientIs
    <3>3. ms(n) = q
      BY <2>2
    <3>. HIDE DEF q, ms
    <3>4. q <= v => q * c + c <= end
      <4>1. q <= v => (q + 1) * c <= (v + 1) * c
        BY <1>1, <3>2
      <4>2. (q + 1) * c = q * c + c
        BY <1>1, <3>2
      <4>. QED  BY <4>1, <4>2
    <3>5. q > v => end <= q * c
      BY <1>1, <3>2
    <3>6. q * c \in Int
      BY <1>1, <3>2
    <3>. HIDE DEF end
    <3>. QED  BY <1>1, <1>2, <3>1, <3>2, <3>3, <3>4, <3>5, <3>6
  <2>. QED  BY <2>1, <2>2
<1>4. /\ DOMAIN Truncated(pairs) = DOMAIN pairs
      /\ \A i \in DOMAIN pairs : Truncated(pairs)[i] = <<ms(pairs[i][1]), ms(pairs[i][2])>>
  BY DEF Truncated, c
<1>. HIDE DEF ms, end
<1>5. ASSUME NEW i \in DOMAIN pairs
      PROVE  /\ Truncated(pairs)[i][1] <= v <=> pairs[i][1] <= LastOf(v)
             /\ v < Truncated(pairs)[i][2] <=> LastOf(v) < pairs[i][2]
  <2>1. pairs[i][1] \in Int /\ pairs[i][2] \in Int
    OBVIOUS
  <2>2. Truncated(pairs)[i][1] = ms(pairs[i][1]) /\ Truncated(pairs)[i][2] = ms(pairs[i][2])
    BY <1>4
  <2>3. /\ ms(pairs[i][1]) <= v <=> pairs[i][1] <= end - 1
        /\ ms(pairs[i][2]) \in Int /\ (ms(pairs[i][2]) <= v <=> pairs[i][2] <= end - 1)
    BY <1>3, <2>1
  <2>4. v < ms(pairs[i][2]) <=> end - 1 < pairs[i][2]
    BY <1>2, <2>1, <2>3
  <2>. QED  BY <1>2, <2>2, <2>3, <2>4
<1>. QED  BY <1>4, <1>5 DEF Covered, InGaps

LEMMA SegmentsFollowCuts ==
  ASSUME NEW cuts, CutsOK(cuts), CollectGaps(cuts).result = "ok", NEW t \in 0..Duration - 1
  PROVE  InGaps(InvertSegments(CollectGaps(cuts).gaps, Duration, Milliseconds(min_segment_length)), t)
         <=> ~CutOut(cuts, t) /\ ~ShortTail(cuts, t)
<1>. DEFINE gaps == CollectGaps(cuts).gaps
            n == Len(gaps)
            least == Milliseconds(min_segment_length)
<1>0. Duration \in Nat /\ least \in Nat /\ t \in Int
  <2>1. min_segment_length \in Nat
    BY EditionsAssumption
  <2>. QED  BY <2>1, NaturalNanoseconds, EditionsAssumption
<1>1. StateOK(CollectGaps(cuts), Sorted(cuts), Cardinality(cuts)) /\ Lists(Sorted(cuts), cuts)
  BY CollectGapsIs, SortedLists
<1>2. gaps \in Seq(Int \X Int) /\ GapsOK(gaps)
  BY <1>1 DEF StateOK, Ordered
<1>3. InGaps(gaps, t) <=> CutOut(cuts, t)
  BY <1>0, <1>1, GapsAreCutOut
<1>4. /\ \A x \in Closing(cuts) : \E g \in DOMAIN gaps : x.at = gaps[g][2]
      /\ \A g \in DOMAIN gaps : \E x \in Closing(cuts) : x.at = gaps[g][2]
  BY <1>1, GapsEndAtClosing
<1>5. TailCut(gaps, Duration, least, t) <=> ShortTail(cuts, t)
  <2>. HIDE DEF gaps
  <2>1. CASE gaps = <<>>
    <3>1. Closing(cuts) = {}
      BY <1>4, <2>1
    <3>. QED  BY <2>1, <3>1 DEF TailCut, ShortTail
  <2>2. CASE gaps # <<>>
    <3>1. n \in DOMAIN gaps /\ \A g \in DOMAIN gaps : gaps[g][2] \in Int /\ gaps[g][2] <= gaps[n][2]
      <4>1. PICK m, lo, hi : Bounds(gaps, m, lo, hi)
        BY <1>2, <2>2, GapsFollow
      <4>2. m \in 1..m /\ \A g \in 1..m : gaps[g][2] = hi[g] /\ hi[g] \in Int
        BY <4>1 DEF Bounds
      <4>3. \A g \in 1..m : hi[g] <= hi[m]
        <5>. SUFFICES ASSUME NEW g \in 1..m PROVE hi[g] <= hi[m]
          OBVIOUS
        <5>1. g = m \/ hi[g] <= lo[m]
          BY <4>1, <4>2 DEF Bounds
        <5>. QED  BY <4>1, <4>2, <5>1 DEF Bounds
      <4>. QED  BY <4>1, <4>2, <4>3 DEF Bounds
    <3>3. PICK z \in Closing(cuts) : z.at = gaps[n][2]
      BY <1>4, <3>1
    <3>4. \A x \in Closing(cuts) : x.at \in Int /\ x.at <= z.at
      BY <1>4, <3>1, <3>3
    <3>. QED  BY <1>0, <2>2, <3>3, <3>4 DEF TailCut, ShortTail
  <2>. QED  BY <2>1, <2>2
<1>. QED  BY <1>0, <1>2, <1>3, <1>5, SegmentsAreLeft

-----------------------------------------------------------------------------
(* The shift of an event. *)

\* The milliseconds before a time that are in one of a set of gaps.
Missing(gaps, s, at) == {u \in 0..at - 1 : \E i \in s : gaps[i][1] <= u /\ u < gaps[i][2]}

\* Those that begin before a time, and what each takes off it.
Before(gaps, some, at) == {i \in some : gaps[i][1] < at}

Taken(gaps, i, at) == Min({gaps[i][2], at}) - gaps[i][1]

NonNegative(gaps, some) == some \subseteq DOMAIN gaps /\ \A i \in some : gaps[i][1] >= 0

LEMMA MissingFinite ==
  ASSUME NEW gaps, NEW s, NEW at \in Nat
  PROVE  IsFiniteSet(Missing(gaps, s, at)) /\ Cardinality(Missing(gaps, s, at)) \in Nat
<1>1. IsFiniteSet(0..at - 1)
  BY FS_Interval
<1>2. Missing(gaps, s, at) \in SUBSET (0..at - 1)
  BY DEF Missing
<1>3. IsFiniteSet(Missing(gaps, s, at))
  BY <1>1, <1>2, FS_Subset
<1>. QED  BY <1>3, FS_CardinalityType

LEMMA MissingStep ==
  ASSUME NEW gaps \in Seq(Int \X Int), GapsOK(gaps), NEW some, NonNegative(gaps, some), NEW at \in Nat,
         NEW s \in SUBSET Before(gaps, some, at), NEW x \in s
  PROVE  Cardinality(Missing(gaps, s, at))
         = Taken(gaps, x, at) + Cardinality(Missing(gaps, s \ {x}, at))
<1>1. /\ x \in DOMAIN gaps /\ gaps[x][1] \in Int /\ gaps[x][2] \in Int
      /\ 0 <= gaps[x][1] /\ gaps[x][1] <= gaps[x][2] /\ gaps[x][1] < at
  BY DEF Before, GapsOK, NonNegative
<1>. DEFINE lo == gaps[x][1]
            hi == gaps[x][2]
            stop == Min({hi, at})
            own == lo..stop - 1
            rest == Missing(gaps, s \ {x}, at)
<1>2. /\ stop \in Int /\ lo <= stop /\ stop <= hi /\ stop <= at /\ (stop = hi \/ stop = at)
  <2>1. CASE hi <= at
    <3>0. hi \in Int /\ {hi, at} \in SUBSET Int /\ hi \in {hi, at} /\ \A y \in {hi, at} : hi <= y
      BY <1>1, <2>1
    <3>1. stop = hi
      BY <3>0, MinIs
    <3>. QED  BY <1>1, <2>1, <3>1
  <2>2. CASE at < hi
    <3>0. at \in Int /\ {hi, at} \in SUBSET Int /\ at \in {hi, at} /\ \A y \in {hi, at} : at <= y
      BY <1>1, <2>2
    <3>1. stop = at
      BY <3>0, MinIs
    <3>. QED  BY <1>1, <2>2, <3>1
  <2>. QED  BY <1>1, <2>1, <2>2
<1>. HIDE DEF stop
<1>3. own = {u \in 0..at - 1 : lo <= u /\ u < hi}
  BY <1>1, <1>2
<1>4. Missing(gaps, s, at) = rest \cup own
  BY <1>3 DEF Missing
<1>5. rest \cap own = {}
  <2>. SUFFICES ASSUME NEW u \in 0..at - 1, lo <= u, u < hi,
                       NEW i \in s \ {x}, gaps[i][1] <= u, u < gaps[i][2]
                PROVE  FALSE
    BY <1>3 DEF Missing
  <2>1. /\ i \in DOMAIN gaps /\ gaps[i][1] \in Int /\ gaps[i][2] \in Int
    BY DEF Before, GapsOK, NonNegative
  <2>2. i < x \/ x < i
    <3>1. i \in 1..Len(gaps) /\ x \in 1..Len(gaps) /\ Len(gaps) \in Nat /\ i # x
      BY <1>1, <2>1
    <3>. QED  BY <3>1
  <2>3. gaps[i][2] <= lo \/ hi <= gaps[i][1]
    BY <1>1, <2>1, <2>2 DEF GapsOK
  <2>. QED  BY <1>1, <2>1, <2>3
<1>6. IsFiniteSet(own) /\ Cardinality(own) = stop - lo
  <2>1. lo \in Int /\ stop - 1 \in Int
    BY <1>1, <1>2
  <2>. HIDE DEF lo
  <2>2. IsFiniteSet(lo..stop - 1) /\ Cardinality(lo..stop - 1) = IF lo > stop - 1 THEN 0 ELSE stop - 1 - lo + 1
    BY <2>1, FS_Interval
  <2>3. lo <= stop /\ stop \in Int
    BY <1>2 DEF lo
  <2>. QED  BY <2>1, <2>2, <2>3
<1>7. IsFiniteSet(rest) /\ Cardinality(rest) \in Nat
  BY MissingFinite
<1>8. Cardinality(rest \cup own) = Cardinality(rest) + Cardinality(own) - Cardinality(rest \cap own)
  BY <1>6, <1>7, FS_Union
<1>9. Cardinality(rest \cap own) = 0
  <2>1. Cardinality({}) = 0
    BY FS_EmptySet
  <2>. QED  BY <1>5, <2>1, Zenon
<1>10. Cardinality(rest \cup own) = Cardinality(rest) + (stop - lo)
  <2>1. lo \in Int
    BY <1>1
  <2>. HIDE DEF rest, own, lo
  <2>2. Cardinality(own) = stop - lo /\ Cardinality(rest) \in Nat
    BY <1>6, <1>7
  <2>. QED  BY <1>2, <1>8, <1>9, <2>1, <2>2
<1>11. Taken(gaps, x, at) = stop - lo
  BY DEF Taken, stop
<1>12. stop - lo \in Int
  BY <1>1, <1>2
<1>. HIDE DEF rest, own, lo
<1>. QED  BY <1>4, <1>7, <1>10, <1>11, <1>12 DEF rest

\* f adds up what the gaps of a set take off.
SumsTaken(f, gaps, some, at) ==
  f = [s \in SUBSET Before(gaps, some, at) |->
         IF s = {} THEN 0
         ELSE LET x == CHOOSE x \in s : TRUE IN Taken(gaps, x, at) + f[s \ {x}]]

LEMMA BeforeFinite ==
  ASSUME NEW gaps \in Seq(Int \X Int), NEW some \in SUBSET DOMAIN gaps, NEW at
  PROVE  IsFiniteSet(Before(gaps, some, at))
<1>1. DOMAIN gaps = 1..Len(gaps) /\ 1 \in Int /\ Len(gaps) \in Int
  OBVIOUS
<1>2. IsFiniteSet(DOMAIN gaps)
  BY <1>1, FS_Interval
<1>3. Before(gaps, some, at) \in SUBSET DOMAIN gaps
  BY DEF Before
<1>. QED  BY <1>2, <1>3, FS_Subset

\* There is only one such f.
LEMMA SumIs ==
  ASSUME NEW gaps \in Seq(Int \X Int), GapsOK(gaps), NEW some, NonNegative(gaps, some), NEW at \in Nat,
         NEW f, SumsTaken(f, gaps, some, at)
  PROVE  \A s \in SUBSET Before(gaps, some, at) : f[s] = Cardinality(Missing(gaps, s, at))
<1>. DEFINE S == Before(gaps, some, at)
            T == {n \in Nat : \E s \in SUBSET S : Cardinality(s) = n /\ f[s] # Cardinality(Missing(gaps, s, at))}
<1>0. ASSUME NEW s \in SUBSET S PROVE IsFiniteSet(s) /\ Cardinality(s) \in Nat
  <2>1. IsFiniteSet(s)
    BY BeforeFinite, FS_Subset DEF NonNegative
  <2>. QED  BY <2>1, FS_CardinalityType
<1>1. SUFFICES ASSUME T # {} PROVE FALSE
  BY <1>0
<1>2. PICK n \in T : \A k \in T : n <= k
  <2>1. T \in SUBSET Nat
    OBVIOUS
  <2>. QED  BY <1>1, <2>1, LeastNatural
<1>3. PICK s \in SUBSET S : Cardinality(s) = n /\ f[s] # Cardinality(Missing(gaps, s, at))
  BY <1>2
<1>4. s # {}
  <2>. SUFFICES ASSUME s = {} PROVE FALSE
    OBVIOUS
  <2>1. f[{}] = 0
    BY DEF SumsTaken
  <2>2. Missing(gaps, {}, at) = {}
    BY DEF Missing
  <2>. QED  BY <1>3, <2>1, <2>2, FS_EmptySet
<1>. DEFINE x == CHOOSE x \in s : TRUE
<1>5. x \in s
  BY <1>4
<1>6. f[s] = Taken(gaps, x, at) + f[s \ {x}]
  BY <1>4 DEF SumsTaken
<1>. HIDE DEF x
<1>7. s \ {x} \in SUBSET S /\ Cardinality(s \ {x}) = n - 1 /\ Cardinality(s \ {x}) \in Nat
  <2>1. s \ {x} \in SUBSET S
    OBVIOUS
  <2>2. Cardinality(s \ {x}) = Cardinality(s) - 1
    BY <1>0, <1>5, FS_RemoveElement
  <2>. QED  BY <1>0, <1>3, <2>1, <2>2
<1>8. n - 1 \notin T /\ n - 1 \in Nat
  BY <1>2, <1>7
<1>9. f[s \ {x}] = Cardinality(Missing(gaps, s \ {x}, at))
  BY <1>7, <1>8
<1>. QED  BY <1>3, <1>5, <1>6, <1>9, MissingStep

LEMMA ShiftByIs ==
  ASSUME NEW gaps \in Seq(Int \X Int), GapsOK(gaps), NEW some, NonNegative(gaps, some), NEW at \in Nat
  PROVE  ShiftBy(gaps, some, at) = Cardinality(Missing(gaps, some, at))
<1>. DEFINE f == CHOOSE f : SumsTaken(f, gaps, some, at)
            g == [s \in SUBSET Before(gaps, some, at) |-> Cardinality(Missing(gaps, s, at))]
<1>1. SumsTaken(g, gaps, some, at)
  <2>1. ASSUME NEW s \in SUBSET Before(gaps, some, at), s # {}
        PROVE  g[s] = Taken(gaps, CHOOSE x \in s : TRUE, at) + g[s \ {CHOOSE x \in s : TRUE}]
    <3>. DEFINE x == CHOOSE x \in s : TRUE
    <3>1. x \in s
      BY <2>1
    <3>. HIDE DEF x
    <3>2. Cardinality(Missing(gaps, s, at)) = Taken(gaps, x, at) + Cardinality(Missing(gaps, s \ {x}, at))
      BY <3>1, MissingStep
    <3>3. g[s] = Cardinality(Missing(gaps, s, at)) /\ g[s \ {x}] = Cardinality(Missing(gaps, s \ {x}, at))
      OBVIOUS
    <3>4. g[s] = Taken(gaps, x, at) + g[s \ {x}]
      BY <3>2, <3>3
    <3>. QED  BY <3>4 DEF x
  <2>2. g[{}] = 0
    <3>1. Missing(gaps, {}, at) = {}
      BY DEF Missing
    <3>. QED  BY <3>1, FS_EmptySet
  <2>. QED  BY <2>1, <2>2 DEF SumsTaken
<1>2. SumsTaken(f, gaps, some, at)
  BY <1>1
<1>3. ShiftBy(gaps, some, at) = f[Before(gaps, some, at)]
  BY DEF ShiftBy, MapThenSumSet, MapThenFoldSet, SumsTaken, Before, Taken
<1>. HIDE DEF f, g
<1>4. f[Before(gaps, some, at)] = Cardinality(Missing(gaps, Before(gaps, some, at), at))
  BY <1>2, SumIs
<1>5. Missing(gaps, Before(gaps, some, at), at) = Missing(gaps, some, at)
  <2>. SUFFICES ASSUME NEW u \in 0..at - 1, NEW i \in some, gaps[i][1] <= u
                PROVE  gaps[i][1] < at
    BY DEF Missing, Before
  <2>1. gaps[i][1] \in Int
    BY DEF GapsOK, NonNegative
  <2>. QED  BY <2>1
<1>. QED  BY <1>3, <1>4, <1>5

LEMMA ShiftIs ==
  ASSUME NEW gaps \in Seq(Int \X Int), GapsOK(gaps), NonNegative(gaps, DOMAIN gaps), NEW at \in Nat
  PROVE  Shift(gaps, at) = Cardinality({u \in 0..at - 1 : InGaps(gaps, u)})
<1>1. Shift(gaps, at) = Cardinality(Missing(gaps, DOMAIN gaps, at))
  BY ShiftByIs DEF Shift
<1>2. Missing(gaps, DOMAIN gaps, at) = {u \in 0..at - 1 : InGaps(gaps, u)}
  BY DEF Missing, InGaps
<1>. QED  BY <1>1, <1>2

\* The times of the room come from the clock, the ones of changes from requests:
\* change.create does not refuse a negative one.
NonNegativeTimes ==
  /\ \A e \in Source : e.at \in Nat
  /\ \A x \in Changesets : x.kind = "stream" /\ x.at # None => x.at \in Nat

\* An event is moved by what is cut out before it.
LEMMA MovedIs ==
  ASSUME NEW cuts, CutsOK(cuts), CollectGaps(cuts).result = "ok", \A x \in cuts : x.at \in Nat,
         NEW at \in Nat
  PROVE  at - Shift(CollectGaps(cuts).gaps, at) + Milliseconds(Offset) = Moved(cuts, at)
<1>. DEFINE gaps == CollectGaps(cuts).gaps
            s == Sorted(cuts)
            n == Cardinality(cuts)
<1>1. StateOK(CollectGaps(cuts), s, n) /\ Lists(s, cuts) /\ n \in Nat
  BY CollectGapsIs, SortedLists, ListTypes
<1>2. gaps \in Seq(Int \X Int) /\ GapsOK(gaps)
  BY <1>1 DEF StateOK, Ordered
<1>3. \A t \in Int : InGaps(gaps, t) <=> CutDuring(s, n, t)
  BY <1>1 DEF StateOK, Covers
<1>4. \A j \in 1..n : s[j].at \in Nat
  BY <1>1, ListTypes
<1>5. \A g \in DOMAIN gaps : \E j \in 1..n : s[j].at = gaps[g][2]
  BY <1>1 DEF StateOK, Ordered
<1>6. NonNegative(gaps, DOMAIN gaps)
  <2>. SUFFICES ASSUME NEW g \in DOMAIN gaps, ~(gaps[g][1] >= 0) PROVE FALSE
    BY DEF NonNegative
  <2>1. gaps[g][1] \in Int /\ gaps[g][2] \in Int
    BY <1>2 DEF GapsOK
  <2>2. gaps[g][2] \in Nat
    BY <1>4, <1>5
  <2>3. InGaps(gaps, gaps[g][1])
    BY <2>1, <2>2 DEF InGaps
  <2>4. CutDuring(s, n, gaps[g][1])
    BY <1>3, <2>1, <2>3
  <2>5. PICK i \in 1..n - 1 : s[i].at <= gaps[g][1]
    BY <2>4 DEF CutDuring, During
  <2>6. i \in 1..n
    BY <1>1
  <2>. QED  BY <1>4, <2>1, <2>5, <2>6
<1>. DEFINE all == 0..at - 1
            cut == {u \in all : InGaps(gaps, u)}
<1>7. {u \in all : ~CutOut(cuts, u)} = all \ cut
  <2>1. \A u \in all : InGaps(gaps, u) <=> CutOut(cuts, u)
    BY <1>1, GapsAreCutOut
  <2>. QED  BY <2>1
<1>8. Shift(gaps, at) = Cardinality(cut)
  BY <1>2, <1>6, ShiftIs
<1>9. IsFiniteSet(all) /\ Cardinality(all) = at
  BY FS_Interval
<1>10. all \cap cut = cut /\ cut \in SUBSET all
  OBVIOUS
<1>11. Cardinality(all \ cut) = at - Cardinality(cut) /\ Cardinality(cut) \in Nat
  <2>. HIDE DEF all, cut
  <2>1. Cardinality(all \ cut) = Cardinality(all) - Cardinality(all \cap cut)
    BY <1>9, FS_Difference
  <2>2. IsFiniteSet(cut)
    BY <1>9, <1>10, FS_Subset
  <2>3. Cardinality(cut) \in Nat
    BY <2>2, FS_CardinalityType
  <2>. QED  BY <1>9, <1>10, <2>1, <2>3
<1>12. Moved(cuts, at) = Cardinality(all \ cut) + Milliseconds(Offset)
  BY <1>7 DEF Moved
<1>13. Milliseconds(Offset) \in Int
  BY EditionsAssumption, NanosecondsOf
<1>. HIDE DEF all, cut, gaps
<1>. QED  BY <1>8, <1>11, <1>12, <1>13 DEF gaps

-----------------------------------------------------------------------------
(* The changes a task reads. *)

\* Changes as the table holds them.
Numbered(S) == S \subseteq Change /\ \A x, y \in S : x.n = y.n => x = y

LEMMA NumberedFinite ==
  ASSUME NEW S, Numbered(S)
  PROVE  IsFiniteSet(S)
<1>. DEFINE f == [x \in S |-> x.n]
<1>1. MaxChanges \in Nat
  BY EditionsAssumption
<1>2. f \in [S -> 1..MaxChanges]
  BY DEF Numbered, Change
<1>3. f \in Injection(S, 1..MaxChanges)
  BY <1>2 DEF Injection, IsInjective, Numbered
<1>4. IsFiniteSet(1..MaxChanges)
  BY <1>1, FS_Interval
<1>. QED  BY <1>3, <1>4, FS_Injection

\* All changes of kind stream are listed, if they are not more than the limit.
LEMMA AllListed ==
  ASSUME NEW S, Numbered(S), OnlyAddsCuts(S)
  PROVE  ListQuery(S, "stream") = {x \in S : x.row.kind = "stream"}
<1>. DEFINE found == {x \in S : x.row.kind = "stream"}
            later(x) == {y \in found : y.n > x.n}
<1>1. IsFiniteSet(found) /\ Cardinality(found) \in Nat /\ Cardinality(found) <= DEFAULT_LIST_LIMIT
  <2>1. found \in SUBSET S
    OBVIOUS
  <2>2. IsFiniteSet(found)
    BY <2>1, NumberedFinite, FS_Subset
  <2>. QED  BY <2>2, FS_CardinalityType DEF OnlyAddsCuts
<1>2. ASSUME NEW x \in found PROVE Cardinality(later(x)) < DEFAULT_LIST_LIMIT
  <2>1. later(x) \in SUBSET found /\ x \notin later(x)
    BY DEF Numbered, Change
  <2>2. Cardinality(later(x)) <= Cardinality(found) /\ IsFiniteSet(later(x))
        /\ (Cardinality(found) = Cardinality(later(x)) => found = later(x))
    BY <1>1, <2>1, FS_Subset
  <2>3. Cardinality(later(x)) \in Nat /\ DEFAULT_LIST_LIMIT \in Nat
    BY <2>2, FS_CardinalityType, EditionsAssumption
  <2>4. Cardinality(found) # Cardinality(later(x))
    BY <2>1, <2>2
  <2>. HIDE DEF later, found
  <2>. QED  BY <1>1, <2>2, <2>3, <2>4
<1>3. ListQuery(S, "stream") = {x \in found : Cardinality(later(x)) < DEFAULT_LIST_LIMIT}
  BY Zenon DEF ListQuery
<1>. HIDE DEF later
<1>. QED  BY <1>2, <1>3

\* The commands that a room has, in an order in which they may be listed.
LEMMA EventCutsOK ==
  ASSUME NEW events, IsFiniteSet(events), \A e \in events : e.at \in Int,
         NEW p \in Orders(Streams(events))
  PROVE  /\ CutsOK(EventCuts(events, p))
         /\ \A x \in EventCuts(events, p) : x.change = 0 /\ \E e \in events : x.at = e.at
<1>. DEFINE streams == Streams(events)
            cuts == EventCuts(events, p)
            f == [e \in streams |-> [at |-> e.at, data |-> e.data, change |-> 0, order |-> p[e.id]]]
<1>1. IsFiniteSet(streams) /\ Cardinality(streams) \in Nat
  <2>1. streams \in SUBSET events
    BY DEF Streams
  <2>2. IsFiniteSet(streams)
    BY <2>1, FS_Subset
  <2>. QED  BY <2>2, FS_CardinalityType
<1>2. f \in Surjection(streams, cuts)
  <2>1. \A e \in streams : f[e] \in cuts
    BY DEF EventCuts
  <2>2. \A x \in cuts : \E e \in streams : f[e] = x
    BY DEF EventCuts
  <2>. QED  BY <2>1, <2>2 DEF Surjection
<1>3. IsFiniteSet(cuts)
  BY <1>1, <1>2, FS_Surjection
<1>4. /\ \A e \in streams : e \in events /\ e.at \in Int /\ p[e.id] \in 1..Cardinality(streams)
      /\ \A e, g \in streams : e # g => p[e.id] # p[g.id]
  BY DEF Orders, Streams
<1>5. ASSUME NEW x \in cuts
      PROVE  \E e \in streams : x = [at |-> e.at, data |-> e.data, change |-> 0, order |-> p[e.id]]
  BY DEF EventCuts
<1>. HIDE DEF streams, cuts
<1>6. \A x \in cuts : /\ x.at \in Int /\ x.change = 0 /\ x.order \in Int
                       /\ \E e \in events : x.at = e.at
  BY <1>1, <1>4, <1>5
<1>7. ASSUME NEW x \in cuts, NEW y \in cuts, x.order = y.order PROVE x = y
  <2>1. PICK e \in streams : x = [at |-> e.at, data |-> e.data, change |-> 0, order |-> p[e.id]]
    BY <1>5
  <2>2. PICK g \in streams : y = [at |-> g.at, data |-> g.data, change |-> 0, order |-> p[g.id]]
    BY <1>5
  <2>3. p[e.id] = p[g.id]
    BY <1>7, <2>1, <2>2
  <2>. QED  BY <1>4, <2>1, <2>2, <2>3
<1>8. CutsOK(cuts)
  BY <1>3, <1>6, <1>7 DEF CutsOK
<1>. QED  BY <1>6, <1>8 DEF cuts

\* The commands of listed changes.
ChangeCuts(found) ==
  {[at |-> x.row.at, data |-> x.row.data, change |-> 1, order |-> -x.n] : x \in found}

LEMMA ChangeCutsAre ==
  ASSUME NEW S, Numbered(S), NEW found \in SUBSET S
  PROVE  /\ IsFiniteSet(ChangeCuts(found))
         /\ \A c \in ChangeCuts(found) : c.change = 1 /\ c.order \in Int /\ c.at \in Int \cup {None}
         /\ \A c, d \in ChangeCuts(found) : c.order = d.order => c = d
<1>. DEFINE B == ChangeCuts(found)
            f == [x \in found |-> [at |-> x.row.at, data |-> x.row.data, change |-> 1, order |-> -x.n]]
<1>1. IsFiniteSet(found)
  BY NumberedFinite, FS_Subset
<1>2. f \in Surjection(found, B)
  <2>1. \A x \in found : f[x] \in B
    BY DEF ChangeCuts
  <2>2. \A c \in B : \E x \in found : f[x] = c
    BY DEF ChangeCuts
  <2>. QED  BY <2>1, <2>2 DEF Surjection
<1>3. IsFiniteSet(B)
  BY <1>1, <1>2, FS_Surjection
<1>4. ASSUME NEW c \in B
      PROVE  \E x \in found : c = [at |-> x.row.at, data |-> x.row.data, change |-> 1, order |-> -x.n]
  BY DEF ChangeCuts
<1>5. \A x \in found : x.n \in Int /\ x.row \in Changesets
  BY DEF Numbered, Change
<1>6. \A x \in found : x.row.at \in Int \cup {None}
  BY <1>5, EditionsAssumption
<1>. HIDE DEF B
<1>7. \A c \in B : c.change = 1 /\ c.order \in Int /\ c.at \in Int \cup {None}
  BY <1>4, <1>5, <1>6
<1>8. ASSUME NEW c \in B, NEW d \in B, c.order = d.order PROVE c = d
  <2>1. PICK x \in found : c = [at |-> x.row.at, data |-> x.row.data, change |-> 1, order |-> -x.n]
    BY <1>4
  <2>2. PICK y \in found : d = [at |-> y.row.at, data |-> y.row.data, change |-> 1, order |-> -y.n]
    BY <1>4
  <2>3. -x.n = -y.n
    BY <1>8, <2>1, <2>2
  <2>4. x.n = y.n
    BY <1>5, <2>3
  <2>5. x = y
    BY <2>4 DEF Numbered
  <2>. QED  BY <2>1, <2>2, <2>5
<1>. QED  BY <1>3, <1>7, <1>8 DEF B

\* The commands of a room and of listed changes can be sorted.
LEMMA CutsAreOK ==
  ASSUME NEW S, Numbered(S), NEW found \in SUBSET S, NEW p \in SourceOrders,
         CollectGaps(Cuts(found, p)).result = "ok"
  PROVE  CutsOK(Cuts(found, p))
<1>. DEFINE cuts == Cuts(found, p)
            A == EventCuts(Source, p)
            B == ChangeCuts(found)
<1>1. \A x \in cuts : x.at # None
  <2>. SUFFICES ASSUME NEW x \in cuts, x.at = None PROVE FALSE
    OBVIOUS
  <2>1. CollectGaps(cuts).result = "panic"
    BY Zenon DEF CollectGaps
  <2>. QED  BY <2>1, "panic" # "ok"
<1>2. cuts = A \cup B
  BY Zenon DEF Cuts, ChangeCuts
<1>3. CutsOK(A) /\ \A x \in A : x.change = 0
  <2>1. IsFiniteSet(Source) /\ \A e \in Source : e.at \in Int
    BY EditionsAssumption
  <2>. QED  BY <2>1, EventCutsOK DEF SourceOrders
<1>4. /\ IsFiniteSet(B)
      /\ \A c \in B : c.change = 1 /\ c.order \in Int /\ c.at \in Int \cup {None}
      /\ \A c, d \in B : c.order = d.order => c = d
  BY ChangeCutsAre
<1>. HIDE DEF cuts, A, B
<1>5. IsFiniteSet(cuts)
  BY <1>2, <1>3, <1>4, FS_Union DEF CutsOK
<1>6. \A x \in cuts : x.at \in Int /\ x.change \in Int /\ x.order \in Int
  BY <1>1, <1>2, <1>3, <1>4 DEF CutsOK
<1>7. \A x, y \in cuts : (x.change = y.change /\ x.order = y.order) => x = y
  BY <1>2, <1>3, <1>4 DEF CutsOK
<1>8. CutsOK(cuts)
  BY <1>5, <1>6, <1>7 DEF CutsOK
<1>. QED  BY <1>8 DEF cuts

-----------------------------------------------------------------------------
(* The events of the committed room. *)

Removed(S, e) ==
  \E x \in S : \/ x.row.type = "removal" /\ x.row.event = e.id
               \/ x.row.type = "bulk_removal" /\ x.row.set = e.set

Modified(S, e) == \E x \in S : x.row.type = "modification" /\ x.row.event = e.id

\* Which rows of the join come from an event.
LEMMA JoinedOf ==
  ASSUME NEW S, NEW e \in Source, NEW r \in Joined(S), r.event = e
  PROVE  /\ \A x \in S : x.row.type = "bulk_removal" => x.row.set # e.set
         /\ \/ /\ r.change = None
               /\ \A x \in S : x.row.type # "bulk_removal" => x.row.event # e.id
            \/ /\ r.change \in S /\ r.change.row.type \notin {"bulk_removal", "removal"}
               /\ r.change.row.event = e.id
<1>1. e # None
  BY EditionsAssumption
<1>. QED  BY <1>1 DEF Joined

LEMMA JoinedAlone ==
  ASSUME NEW S, NEW e \in Source,
         \A x \in S : x.row.type = "bulk_removal" => x.row.set # e.set,
         \A x \in S : x.row.type # "bulk_removal" => x.row.event # e.id
  PROVE  [event |-> e, change |-> None] \in Joined(S)
  BY DEF Joined

LEMMA ChangeTypes ==
  ASSUME NEW S, S \subseteq Change, NEW x \in S, NEW e \in Source
  PROVE  /\ x.row.type \in {"addition", "modification", "removal", "bulk_removal"}
         /\ x.row.type = "addition" => x.row.event # e.id
<1>1. x.row \in Changesets
  BY DEF Change
<1>2. e.id \in Int /\ None \notin Int
  BY EditionsAssumption
<1>. QED  BY <1>1, <1>2, EditionsAssumption

\* An event that is not modified is cloned unless it is removed.
LEMMA ClonedUnlessRemoved ==
  ASSUME NEW S, S \subseteq Change, NEW gaps, NEW e \in Source, e.kind # "stream", ~Modified(S, e)
  PROVE  {r \in Cloned(S, gaps) : r.of.event = e} = {} <=> Removed(S, e)
<1>1. ASSUME ~Removed(S, e) PROVE \E r \in Cloned(S, gaps) : r.of.event = e
  <2>. DEFINE q == [event |-> e, change |-> None]
  <2>1. \A x \in S : x.row.type # "bulk_removal" => x.row.event # e.id
    <3>. SUFFICES ASSUME NEW x \in S, x.row.type # "bulk_removal", x.row.event = e.id PROVE FALSE
      OBVIOUS
    <3>1. x.row.type \in {"modification", "removal"}
      BY ChangeTypes
    <3>. QED  BY <1>1, <3>1 DEF Removed, Modified
  <2>2. q \in Joined(S)
    BY <1>1, <2>1, JoinedAlone DEF Removed
  <2>3. Clone(q, gaps).of = q /\ Clone(q, gaps).kind = e.kind
    BY DEF Clone, Coalesced
  <2>4. Clone(q, gaps) \in Cloned(S, gaps)
    BY <2>2, <2>3 DEF Cloned
  <2>. QED  BY <2>3, <2>4
<1>2. ASSUME Removed(S, e), NEW r \in Cloned(S, gaps), r.of.event = e PROVE FALSE
  <2>1. r.of \in Joined(S)
    BY DEF Cloned, Clone
  <2>2. /\ \A x \in S : x.row.type = "bulk_removal" => x.row.set # e.set
        /\ \/ /\ r.of.change = None
              /\ \A x \in S : x.row.type # "bulk_removal" => x.row.event # e.id
           \/ /\ r.of.change \in S /\ r.of.change.row.type \notin {"bulk_removal", "removal"}
              /\ r.of.change.row.event = e.id
    <3>. DEFINE q == r.of
    <3>1. q \in Joined(S) /\ q.event = e
      BY <1>2, <2>1
    <3>. HIDE DEF q
    <3>2. /\ \A x \in S : x.row.type = "bulk_removal" => x.row.set # e.set
          /\ \/ /\ q.change = None
                /\ \A x \in S : x.row.type # "bulk_removal" => x.row.event # e.id
             \/ /\ q.change \in S /\ q.change.row.type \notin {"bulk_removal", "removal"}
                /\ q.change.row.event = e.id
      BY <3>1, JoinedOf
    <3>. QED  BY <3>2 DEF q
  <2>3. CASE \A x \in S : x.row.type # "bulk_removal" => x.row.event # e.id
    BY <1>2, <2>2, <2>3 DEF Removed
  <2>4. CASE r.of.change \in S /\ r.of.change.row.type \notin {"bulk_removal", "removal"}
             /\ r.of.change.row.event = e.id
    <3>1. r.of.change.row.type = "modification"
      BY <2>4, ChangeTypes
    <3>. QED  BY <2>4, <3>1 DEF Modified
  <2>. QED  BY <2>2, <2>3, <2>4
<1>. QED  BY <1>1, <1>2

\* An event that keeps its time is shifted by what is cut out before it.
LEMMA ClonedAt ==
  ASSUME NEW S, NEW gaps, NEW e \in Source, NEW r \in Cloned(S, gaps), r.of.event = e,
         r.of.change = None \/ r.of.change.row.at = None
  PROVE  r.at = e.at - Shift(gaps, e.at) + Milliseconds(Offset)
<1>1. e # None
  BY EditionsAssumption
<1>2. PICK q \in Joined(S) : r = Clone(q, gaps)
  BY DEF Cloned
<1>3. r.of = q /\ r.at = Coalesced(q, "at") - ShiftOf(q, gaps) + Milliseconds(Offset)
  BY <1>2 DEF Clone
<1>4. q.event = e /\ ShiftOf(q, gaps) = Shift(gaps, e.at)
  BY <1>1, <1>3 DEF ShiftOf
<1>5. Coalesced(q, "at") = e.at
  BY <1>3, <1>4 DEF Coalesced
<1>. QED  BY <1>3, <1>4, <1>5

\* What a successful commit has is what the property asks for, for the order in
\* which its cuts were listed.
Follows(c, p) ==
  LET cuts == CutsOf(c, p)
      S == commit[c].applied
      rows(e) == {r \in commit[c].events : r.of.event = e}
  IN  /\ \A v \in 0..(Duration \div NANOSECONDS_IN_MILLISECOND) - 1 :
           Covered(commit[c].segments, v)
           <=> ~CutOut(cuts, LastOf(v)) /\ ~ShortTail(cuts, LastOf(v))
      /\ \A e \in {e \in Source : e.kind # "stream"} :
           /\ ~Modified(S, e) => (rows(e) = {} <=> Removed(S, e))
           /\ \A r \in rows(e) :
                (r.of.change = None \/ r.of.change.row.at = None) => r.at = Moved(cuts, e.at)

LEMMA InvariantImpliesFollows ==
  ASSUME NonNegativeTimes, CommitInv, NEW c \in Committed
  PROVE  \E p \in SourceOrders : Follows(c, p)
<1>. DEFINE S == commit[c].applied
            L == commit[c].listed
            gaps == commit[c].gaps
            rows(e) == {r \in commit[c].events : r.of.event = e}
<1>1. c \in Commits /\ commit[c].pc = "success" /\ OnlyAddsCuts(L)
  BY DEF Committed
<1>2. Numbered(L) /\ S \subseteq Change
  BY <1>1 DEF CommitInv, TypeOK, Numbered
<1>3. ListQuery(L, "stream") = {x \in L : x.row.kind = "stream"}
  BY <1>1, <1>2, AllListed
<1>4. PICK p \in SourceOrders :
        LET collected == CollectGaps(Cuts(ListQuery(L, "stream"), p))
        IN collected.result = "ok" /\ gaps = collected.gaps
  BY <1>1, Zenon DEF CommitInv
<1>. DEFINE cuts == CutsOf(c, p)
            segments == InvertSegments(gaps, Duration, Milliseconds(min_segment_length))
<1>5. cuts = Cuts(ListQuery(L, "stream"), p) /\ CollectGaps(cuts).result = "ok" /\ gaps = CollectGaps(cuts).gaps
  BY <1>3, <1>4 DEF CutsOf
<1>6. commit[c].events = Cloned(S, gaps)
  BY <1>1 DEF CommitInv
<1>7. commit[c].segments = Truncated(segments)
  BY <1>1 DEF CommitInv, Segments
<1>8. CutsOK(cuts)
  BY <1>2, <1>3, <1>5, CutsAreOK
<1>9. \A x \in cuts : x.at \in Nat
  <2>. SUFFICES ASSUME NEW x \in cuts PROVE x.at \in Nat
    OBVIOUS
  <2>1. x.at \in Int /\ x.at # None
    BY <1>8, EditionsAssumption DEF CutsOK
  <2>2. \/ \E e \in Source : x.at = e.at
        \/ \E y \in L : y.row.kind = "stream" /\ x.at = y.row.at
    BY <1>3, <1>5 DEF Cuts, EventCuts, Streams
  <2>3. \A y \in L : y.row \in Changesets
    BY <1>2 DEF Numbered, Change
  <2>. QED  BY <2>1, <2>2, <2>3 DEF NonNegativeTimes
<1>. HIDE DEF cuts, S, L, gaps
<1>10. ASSUME NEW v \in 0..(Duration \div NANOSECONDS_IN_MILLISECOND) - 1
       PROVE  Covered(commit[c].segments, v)
              <=> ~CutOut(cuts, LastOf(v)) /\ ~ShortTail(cuts, LastOf(v))
  <2>1. v \in Nat /\ LastOf(v) \in 0..Duration - 1
    <3>. DEFINE n == NANOSECONDS_IN_MILLISECOND
                q == Duration \div n
    <3>1. n \in Nat \ {0} /\ Duration \in Nat
      BY EditionsAssumption
    <3>2. q \in Nat /\ q * n <= Duration
      BY <3>1, QuotientIs
    <3>3. LastOf(v) = (v + 1) * n - 1
      BY DEF LastOf, Milliseconds
    <3>. HIDE DEF q, n
    <3>4. v \in Nat /\ v + 1 <= q
      BY <1>10, <3>2 DEF q, n
    <3>5. (v + 1) * n \in Int /\ (v + 1) * n > 0 /\ (v + 1) * n <= q * n
      BY <3>1, <3>2, <3>4
    <3>6. q * n \in Int
      BY <3>1, <3>2
    <3>. QED  BY <3>1, <3>2, <3>3, <3>4, <3>5, <3>6
  <2>2. segments \in Seq(Int \X Int)
    <3>1. gaps \in Seq(Int \X Int) /\ GapsOK(gaps)
      BY <1>5, <1>8, CollectGapsIs DEF StateOK, Ordered
    <3>2. Milliseconds(min_segment_length) \in Nat /\ Duration \in Nat
      BY EditionsAssumption, NanosecondsOf
    <3>. QED  BY <3>1, <3>2, InvertedOK
  <2>3. Covered(commit[c].segments, v) <=> InGaps(segments, LastOf(v))
    BY <1>7, <2>1, <2>2, TruncatedCovers
  <2>. QED  BY <1>5, <1>8, <2>1, <2>3, SegmentsFollowCuts
<1>11. ASSUME NEW e \in Source, e.kind # "stream", ~Modified(S, e)
       PROVE  rows(e) = {} <=> Removed(S, e)
  BY <1>2, <1>6, <1>11, ClonedUnlessRemoved
<1>12. ASSUME NEW e \in Source, NEW r \in rows(e), r.of.change = None \/ r.of.change.row.at = None
       PROVE  r.at = Moved(cuts, e.at)
  <2>1. r.at = e.at - Shift(gaps, e.at) + Milliseconds(Offset)
    BY <1>6, <1>12, ClonedAt
  <2>2. e.at \in Nat
    BY DEF NonNegativeTimes
  <2>. QED  BY <1>5, <1>8, <1>9, <2>1, <2>2, MovedIs
<1>13. Follows(c, p)
  BY <1>10, <1>11, <1>12 DEF Follows, cuts, S
<1>. QED  BY <1>13

-----------------------------------------------------------------------------
(* CommitInv is an invariant. *)

\* CommitInv is about the table and the requests, and about each task.
TableOK ==
  /\ edition \in BOOLEAN
  /\ Numbered(changes)
  /\ created \in 0..MaxChanges
  /\ \A x \in changes : x.n <= created
  /\ request \in [Handlers -> Requests \cup {None}]

CollectedFrom(S, p) == CollectGaps(Cuts(ListQuery(S, "stream"), p))

TaskOK(t) ==
  /\ DOMAIN t = DOMAIN Idle
  /\ t.pc \in Locations
  /\ GapsOK(t.gaps)
  /\ Numbered(t.listed)
  /\ t.applied \subseteq Change
  /\ t.pc \in {"collected", "cloned", "success"} =>
       \E p \in SourceOrders :
         CollectedFrom(t.listed, p).result = "ok" /\ t.gaps = CollectedFrom(t.listed, p).gaps
  /\ t.pc \in {"cloned", "success"} => t.events = Cloned(t.applied, t.gaps)
  /\ t.pc = "success" => t.segments = Segments(t.gaps)

TasksOK == DOMAIN commit = Commits /\ \A c \in Commits : TaskOK(commit[c])

LEMMA InvariantParts == CommitInv <=> TableOK /\ TasksOK
<1>1. ASSUME CommitInv PROVE TableOK
  BY <1>1 DEF CommitInv, TypeOK, TableOK, Numbered
<1>2. ASSUME CommitInv PROVE TasksOK
  <2>. SUFFICES ASSUME NEW c \in Commits PROVE TaskOK(commit[c])
    BY <1>2 DEF TasksOK, CommitInv
  <2>. QED  BY <1>2, Zenon DEF CommitInv, TypeOK, TaskOK, Numbered, CollectedFrom
<1>3. ASSUME TableOK, TasksOK PROVE CommitInv
  <2>1. TypeOK
    BY <1>3 DEF TypeOK, TableOK, TasksOK, TaskOK, Numbered
  <2>. QED  BY <1>3, <2>1, Zenon DEF TasksOK, TaskOK, CommitInv, Numbered, CollectedFrom
<1>. QED  BY <1>1, <1>2, <1>3

\* What collect_gaps returns are gaps that follow one another.
LEMMA CollectedOK ==
  ASSUME NEW S, Numbered(S), NEW p \in SourceOrders, CollectedFrom(S, p).result = "ok"
  PROVE  GapsOK(CollectedFrom(S, p).gaps)
<1>. DEFINE found == ListQuery(S, "stream")
<1>1. found \in SUBSET S
  BY DEF ListQuery
<1>2. CutsOK(Cuts(found, p))
  BY <1>1, CutsAreOK DEF CollectedFrom
<1>. QED  BY <1>2, CollectGapsIs DEF CollectedFrom, StateOK, Ordered

LEMMA IdleOK == TaskOK(Idle) /\ TaskOK([Idle EXCEPT !.pc = "error"])
<1>1. GapsOK(<<>>)
  BY DEF GapsOK
<1>2. Numbered({})
  BY DEF Numbered
<1>. QED  BY <1>1, <1>2 DEF TaskOK, Idle, Locations

LEMMA InitEstablishes == Init => CommitInv
<1>. SUFFICES ASSUME Init PROVE CommitInv
  OBVIOUS
<1>1. TableOK
  BY EditionsAssumption DEF Init, TableOK, Numbered
<1>2. TasksOK
  BY IdleOK DEF Init, TasksOK
<1>. QED  BY <1>1, <1>2, InvariantParts

\* A step that replaces one task.
LEMMA TaskReplaced ==
  ASSUME TasksOK, NEW c \in Commits, NEW t, TaskOK(t), commit' = [commit EXCEPT ![c] = t]
  PROVE  TasksOK'
<1>1. DOMAIN commit' = Commits
  BY DEF TasksOK
<1>2. ASSUME NEW d \in Commits PROVE TaskOK(commit'[d])
  BY DEF TasksOK
<1>. QED  BY <1>1, <1>2 DEF TasksOK

LEMMA HandlerKeepsTable ==
  ASSUME TableOK, NEW h \in Handlers,
         Find(h) \/ Refuse(h) \/ CreateChange(h) \/ DeleteChange(h) \/ DeleteEdition(h)
  PROVE  TableOK' /\ commit' = commit
<1>0. MaxChanges \in Nat
  BY EditionsAssumption
<1>1. CASE Find(h)
  BY <1>1 DEF Find, TableOK
<1>2. CASE Refuse(h)
  BY <1>2 DEF Refuse, Respond, TableOK
<1>3. CASE CreateChange(h)
  <2>1. PICK x \in Changesets : changes' = changes \cup {[n |-> created + 1, row |-> x]}
    BY <1>3 DEF CreateChange
  <2>2. created' = created + 1 /\ created' \in 1..MaxChanges /\ created \in Nat
    BY <1>0, <1>3 DEF CreateChange, TableOK
  <2>3. \A y \in changes : y.n \in Int /\ y.n <= created /\ y.n # created + 1
    <3>1. \A y \in changes : y.n \in Int /\ y.n <= created
      BY DEF TableOK, Numbered, Change
    <3>. QED  BY <2>2, <3>1
  <2>4. [n |-> created + 1, row |-> x] \in Change
    BY <2>2 DEF Change
  <2>5. Numbered(changes')
    BY <2>1, <2>3, <2>4 DEF TableOK, Numbered
  <2>6. \A y \in changes' : y.n <= created'
    BY <2>1, <2>2, <2>3
  <2>7. request' \in [Handlers -> Requests \cup {None}] /\ edition' \in BOOLEAN /\ commit' = commit
    BY <1>3 DEF CreateChange, Respond, TableOK
  <2>8. created' \in 0..MaxChanges
    BY <2>2
  <2>. QED  BY <2>5, <2>6, <2>7, <2>8 DEF TableOK
<1>4. CASE DeleteChange(h)
  BY <1>4 DEF DeleteChange, Respond, TableOK, Numbered
<1>5. CASE DeleteEdition(h)
  BY <1>5 DEF DeleteEdition, Respond, TableOK, Numbered
<1>. QED  BY <1>1, <1>2, <1>3, <1>4, <1>5

LEMMA CommitKeepsTasks ==
  ASSUME TableOK, TasksOK, NEW c \in Commits, Accept(c) \/ Task(c)
  PROVE  TableOK' /\ TasksOK'
<1>1. TaskOK(commit[c]) /\ DOMAIN commit[c] = DOMAIN Idle
  BY DEF TasksOK, TaskOK
<1>2. TableOK'
  <2>1. UNCHANGED <<edition, changes, created, request>>
    BY Zenon DEF Accept, Task, Collect, CloneEvents, CommitTxn, Fail
  <2>. QED  BY <2>1 DEF TableOK
<1>3. DOMAIN Idle = {"pc", "gaps", "events", "segments", "listed", "applied"}
  BY DEF Idle
<1>4. CASE Accept(c)
  <2>. DEFINE t == [commit[c] EXCEPT !.pc = "accepted"]
  <2>1. commit' = [commit EXCEPT ![c] = t]
    BY <1>4 DEF Accept
  <2>2. TaskOK(t)
    BY <1>1, <1>3 DEF TaskOK, Locations
  <2>. QED  BY <1>2, <2>1, <2>2, TaskReplaced
<1>5. CASE Fail(c)
  BY <1>2, <1>5, IdleOK, TaskReplaced DEF Fail
<1>6. CASE Collect(c)
  <2>0. PICK p \in SourceOrders :
          LET found == CollectedFrom(changes, p)
          IN \/ /\ found.result = "ok"
                /\ commit' = [commit EXCEPT ![c] = [@ EXCEPT !.pc = "collected",
                              !.gaps = found.gaps, !.listed = changes]]
             \/ commit' = [commit EXCEPT ![c].pc = "error"]
             \/ commit' = [commit EXCEPT ![c] = [@ EXCEPT !.pc = "panicked", !.listed = changes]]
    BY <1>6, Zenon DEF Collect, CollectedFrom
  <2>. DEFINE collected == CollectedFrom(changes, p)
              ok == [commit[c] EXCEPT !.pc = "collected", !.gaps = collected.gaps, !.listed = changes]
              invalid == [commit[c] EXCEPT !.pc = "error"]
              panic == [commit[c] EXCEPT !.pc = "panicked", !.listed = changes]
  <2>1. \/ collected.result = "ok" /\ commit' = [commit EXCEPT ![c] = ok]
        \/ commit' = [commit EXCEPT ![c] = invalid]
        \/ commit' = [commit EXCEPT ![c] = panic]
    BY <2>0, Zenon
  <2>2. Numbered(changes)
    BY DEF TableOK
  <2>3. CASE collected.result = "ok" /\ commit' = [commit EXCEPT ![c] = ok]
    <3>1. GapsOK(collected.gaps)
      BY <2>2, <2>3, CollectedOK
    <3>2. TaskOK(ok)
      BY <1>1, <1>3, <2>2, <2>3, <3>1 DEF TaskOK, Locations
    <3>. QED  BY <1>2, <2>3, <3>2, TaskReplaced
  <2>4. CASE commit' = [commit EXCEPT ![c] = invalid]
    <3>1. TaskOK(invalid)
      BY <1>1, <1>3 DEF TaskOK, Locations
    <3>. QED  BY <1>2, <2>4, <3>1, TaskReplaced
  <2>5. CASE commit' = [commit EXCEPT ![c] = panic]
    <3>1. TaskOK(panic)
      BY <1>1, <1>3, <2>2 DEF TaskOK, Locations
    <3>. QED  BY <1>2, <2>5, <3>1, TaskReplaced
  <2>. QED  BY <2>1, <2>3, <2>4, <2>5
<1>7. CASE CloneEvents(c)
  <2>. DEFINE t == [commit[c] EXCEPT !.pc = "cloned", !.applied = changes,
                       !.events = Cloned(changes, commit[c].gaps)]
  <2>1. commit' = [commit EXCEPT ![c] = t] /\ commit[c].pc = "collected"
    BY <1>7, Zenon DEF CloneEvents
  <2>2. changes \subseteq Change
    BY DEF TableOK, Numbered
  <2>3. TaskOK(t)
    BY <1>1, <1>3, <2>1, <2>2 DEF TaskOK, Locations
  <2>. QED  BY <1>2, <2>1, <2>3, TaskReplaced
<1>8. CASE CommitTxn(c)
  <2>. DEFINE t == [commit[c] EXCEPT !.pc = "success",
                       !.segments = Segments(commit[c].gaps)]
  <2>1. commit' = [commit EXCEPT ![c] = t] /\ commit[c].pc = "cloned"
    BY <1>8, Zenon DEF CommitTxn
  <2>2. TaskOK(t)
    BY <1>1, <1>3, <2>1 DEF TaskOK, Locations
  <2>. QED  BY <1>2, <2>1, <2>2, TaskReplaced
<1>. QED  BY <1>4, <1>5, <1>6, <1>7, <1>8 DEF Task

LEMMA NextKeeps == CommitInv /\ [Next]_vars => CommitInv'
<1>. SUFFICES ASSUME CommitInv, [Next]_vars PROVE CommitInv'
  OBVIOUS
<1>1. TableOK /\ TasksOK
  BY InvariantParts
<1>2. SUFFICES TableOK' /\ TasksOK'
  <2>1. CommitInv' <=> TableOK' /\ TasksOK'
    BY InvariantParts, PTL
  <2>. QED  BY <2>1
<1>3. CASE UNCHANGED vars
  BY <1>1, <1>3 DEF vars, TableOK, TasksOK
<1>4. ASSUME NEW h \in Handlers,
             Find(h) \/ Refuse(h) \/ CreateChange(h) \/ DeleteChange(h) \/ DeleteEdition(h)
      PROVE  TableOK' /\ TasksOK'
  <2>1. TableOK' /\ commit' = commit
    BY <1>1, <1>4, HandlerKeepsTable
  <2>. QED  BY <1>1, <2>1 DEF TasksOK
<1>5. ASSUME NEW c \in Commits, Accept(c) \/ Task(c) PROVE TableOK' /\ TasksOK'
  BY <1>1, <1>5, CommitKeepsTasks
<1>. QED  BY <1>3, <1>4, <1>5 DEF Next

\* The states that the actions of an edition reach have their types, and gaps
\* that collect_gaps returned follow one another, whatever changes were stored.
THEOREM EditionTypeCorrect == Spec => []TypeOK
<1>1. Init => CommitInv
  BY InitEstablishes
<1>2. CommitInv /\ [Next]_vars => CommitInv'
  BY NextKeeps
<1>3. CommitInv => TypeOK
  BY DEF CommitInv
<1>. QED  BY <1>1, <1>2, <1>3, PTL DEF Spec

\* A committed room is what the cuts make of its source, for any room, any
\* changes, any number of requests and of commits, in any interleaving.
THEOREM CommitsFollowCuts ==
  ASSUME NonNegativeTimes
  PROVE  Spec => []CommitFollowsCuts
<1>1. Init => CommitInv
  BY InitEstablishes
<1>2. CommitInv /\ [Next]_vars => CommitInv'
  BY NextKeeps
<1>3. CommitInv => CommitFollowsCuts
  BY InvariantImpliesFollows, Zenon DEF CommitFollowsCuts, Follows, Removed, Modified
<1>. QED  BY <1>1, <1>2, <1>3, PTL DEF Spec

-----------------------------------------------------------------------------
(* room.adjust: a room is adjusted once. *)

\* Task t goes to a location, and has an original room if `original` is not None.
TaskAt(t, to, original) ==
  /\ DOMAIN task' = Tasks
  /\ \A u \in Tasks \ {t} : task'[u] = task[u]
  /\ DOMAIN task'[t] = DOMAIN IdleTask
  /\ task'[t].pc = to
  /\ task'[t].original = original

LEMMA TaskFields ==
  ASSUME OnceInv, NEW t \in Tasks
  PROVE  /\ DOMAIN task = Tasks
         /\ DOMAIN task[t] = {"pc", "unbounded", "streams", "original", "cut_gaps",
              "cut_original_segments", "modified", "modified_segments"}
         /\ DOMAIN IdleTask = DOMAIN task[t]
  BY DEF OnceInv, IdleTask

\* A step that leaves the row alone: the task that goes on after the row has it.
LEMMA RowStays ==
  ASSUME OnceInv, UNCHANGED adjustment, NEW t \in Tasks, NEW to, NEW original,
         TaskAt(t, to, original),
         task[t].pc \in HoldsRow \/ (to \notin HoldsRow /\ original = task[t].original)
  PROVE  OnceInv'
<1>1. ASSUME NEW u \in Tasks, u # t
      PROVE  /\ DOMAIN task'[u] = DOMAIN IdleTask
             /\ task'[u].pc \in HoldsRow => adjustment' = u
             /\ task'[u].original # None => adjustment' = u
  BY <1>1 DEF OnceInv, TaskAt
<1>2. /\ task'[t].pc \in HoldsRow => adjustment' = t
      /\ task'[t].original # None => adjustment' = t
  BY DEF OnceInv, TaskAt
<1>. QED  BY <1>1, <1>2 DEF OnceInv, TaskAt

\* The insert: nobody has the row, so no other task goes on.
LEMMA RowInserted ==
  ASSUME OnceInv, NEW t \in Tasks, InsertAdjustment(t)
  PROVE  OnceInv'
<1>1. adjustment = None /\ adjustment' = t /\ task' = [task EXCEPT ![t].pc = "inserted"]
  BY DEF InsertAdjustment, GoTo
<1>2. ASSUME NEW u \in Tasks PROVE task[u].pc \notin HoldsRow /\ task[u].original = None
  BY <1>1, AdjustAssumption DEF OnceInv
<1>3. /\ DOMAIN task' = Tasks /\ DOMAIN task'[t] = DOMAIN IdleTask
      /\ \A u \in Tasks \ {t} : task'[u] = task[u]
  BY <1>1, TaskFields
<1>. QED  BY <1>1, <1>2, <1>3 DEF OnceInv

\* A task that has not inserted the row yet.
LEMMA BeforeRow ==
  ASSUME OnceInv, NEW t \in Tasks, AcceptAdjust(t) \/ Close(t) \/ FailAdjust(t) PROVE OnceInv'
<1>1. UNCHANGED adjustment
  BY DEF AcceptAdjust, Close, FailAdjust
<1>2. "accepted" \notin HoldsRow /\ "closed" \notin HoldsRow /\ "error" \notin HoldsRow
  BY DEF HoldsRow, Running
<1>3. CASE AcceptAdjust(t)
  <2>1. TaskAt(t, "accepted", task[t].original)
    BY <1>3, TaskFields DEF AcceptAdjust, TaskAt
  <2>. QED  BY <1>1, <1>2, <2>1, RowStays
<1>4. CASE Close(t)
  <2>1. TaskAt(t, "closed", task[t].original)
    BY <1>4, TaskFields DEF Close, GoTo, TaskAt
  <2>. QED  BY <1>1, <1>2, <2>1, RowStays
<1>5. CASE FailAdjust(t)
  <2>1. TaskAt(t, "error", task[t].original)
    BY <1>5, TaskFields DEF FailAdjust, TaskAt
  <2>. QED  BY <1>1, <1>2, <2>1, RowStays
<1>. QED  BY <1>3, <1>4, <1>5

\* A task that has inserted the row, and what it keeps of the room.
LEMMA AfterRow ==
  ASSUME OnceInv, NEW t \in Tasks,
         \/ ListBreaks(t) \/ InsertStreams(t) \/ CreateOriginal(t) \/ CloneOriginal(t)
         \/ FindCutGaps(t) \/ CutSegments(t) \/ CreateModified(t) \/ CloneModified(t)
         \/ DeleteCuts(t) \/ Succeed(t)
  PROVE  OnceInv'
<1>1. UNCHANGED adjustment /\ task[t].pc \in HoldsRow
  <2>1. /\ UNCHANGED adjustment
        /\ task[t].pc \in {"inserted", "listed", "streamed", "created", "original", "gaps",
                           "segments", "recreated", "modified", "stripped"}
    BY DEF ListBreaks, InsertStreams, GoTo, CreateOriginal, CloneOriginal, FindCutGaps,
           CutSegments, CreateModified, CloneModified, DeleteCuts, Succeed
  <2>. QED  BY <2>1 DEF HoldsRow, Running
<1>2. \E to, original : TaskAt(t, to, original)
  <2>1. CASE ListBreaks(t)
    <3>1. TaskAt(t, "listed", task[t].original)
      BY <2>1, TaskFields DEF ListBreaks, TaskAt
    <3>. QED  BY <3>1
  <2>2. CASE InsertStreams(t)
    <3>1. TaskAt(t, "streamed", task[t].original)
      BY <2>2, TaskFields DEF InsertStreams, GoTo, TaskAt
    <3>. QED  BY <3>1
  <2>3. CASE CreateOriginal(t)
    <3>1. TaskAt(t, "panicked", task[t].original) \/ TaskAt(t, "created", {})
      BY <2>3, TaskFields DEF CreateOriginal, TaskAt
    <3>. QED  BY <3>1
  <2>4. CASE CloneOriginal(t)
    <3>1. TaskAt(t, "original", clone_events(source, SegmentGaps, 0))
      BY <2>4, TaskFields DEF CloneOriginal, TaskAt
    <3>. QED  BY <3>1
  <2>5. CASE FindCutGaps(t)
    <3>1. TaskAt(t, "gaps", task[t].original)
      BY <2>5, TaskFields DEF FindCutGaps, TaskAt
    <3>. QED  BY <3>1
  <2>6. CASE CutSegments(t)
    <3>1. PICK kept : task' = [task EXCEPT ![t].pc = "segments", ![t].cut_original_segments = kept]
      BY <2>6 DEF CutSegments
    <3>2. TaskAt(t, "segments", task[t].original)
      BY <3>1, TaskFields DEF TaskAt
    <3>. QED  BY <3>2
  <2>7. CASE CreateModified(t)
    <3>1. TaskAt(t, "recreated", task[t].original)
      BY <2>7, TaskFields DEF CreateModified, TaskAt
    <3>. QED  BY <3>1
  <2>8. CASE CloneModified(t)
    <3>1. TaskAt(t, "modified", task[t].original)
      BY <2>8, TaskFields DEF CloneModified, TaskAt
    <3>. QED  BY <3>1
  <2>9. CASE DeleteCuts(t)
    <3>1. TaskAt(t, "stripped", task[t].original)
      BY <2>9, TaskFields DEF DeleteCuts, TaskAt
    <3>. QED  BY <3>1
  <2>10. CASE Succeed(t)
    <3>1. PICK kept : task' = [task EXCEPT ![t].pc = "success", ![t].modified_segments = kept]
      BY <2>10 DEF Succeed
    <3>2. TaskAt(t, "success", task[t].original)
      BY <3>1, TaskFields DEF TaskAt
    <3>. QED  BY <3>2
  <2>. QED  BY <2>1, <2>2, <2>3, <2>4, <2>5, <2>6, <2>7, <2>8, <2>9, <2>10
<1>. QED  BY <1>1, <1>2, RowStays

\* The process stops: the row stays, and nobody goes on.
LEMMA CrashStep == ASSUME OnceInv, Crash PROVE OnceInv'
<1>1. /\ UNCHANGED adjustment /\ DOMAIN task' = Tasks
      /\ \A t \in Tasks : task'[t] = IF task[t].pc \in Running THEN [task[t] EXCEPT !.pc = "crashed"]
                                                               ELSE task[t]
  BY DEF Crash
<1>2. ASSUME NEW t \in Tasks
      PROVE  /\ DOMAIN task'[t] = DOMAIN IdleTask
             /\ task'[t].pc \in HoldsRow => adjustment' = t
             /\ task'[t].original # None => adjustment' = t
  <2>1. CASE task[t].pc \in Running
    <3>1. DOMAIN task'[t] = DOMAIN task[t] /\ task'[t].pc = "crashed" /\ task'[t].original = task[t].original
      BY <1>1, <2>1, TaskFields
    <3>. QED  BY <1>1, <3>1 DEF OnceInv, HoldsRow, Running
  <2>2. CASE task[t].pc \notin Running
    BY <1>1, <2>2 DEF OnceInv
  <2>. QED  BY <2>1, <2>2
<1>. QED  BY <1>1, <1>2 DEF OnceInv

LEMMA OnceStep == OnceInv /\ [AdjustNext]_adjustVars => OnceInv'
<1>. SUFFICES ASSUME OnceInv, [AdjustNext]_adjustVars PROVE OnceInv'
  OBVIOUS
<1>1. CASE UNCHANGED <<adjustment, task>>
  BY <1>1, AdjustAssumption DEF OnceInv
<1>2. ASSUME NEW t \in Tasks, AcceptAdjust(t) \/ Step(t) PROVE OnceInv'
  BY <1>2, BeforeRow, RowInserted, AfterRow DEF Step
<1>3. Insert \/ UNCHANGED adjustVars => UNCHANGED <<adjustment, task>>
  BY DEF Insert, adjustVars
<1>. QED  BY <1>1, <1>2, <1>3, CrashStep DEF AdjustNext

\* One task at most derives rooms from a room: however many requests overlap, are
\* repeated after an error, or come back after the process has stopped between two
\* steps, the primary key of the adjustment row lets a single task past it.
THEOREM AlwaysAdjustedOnce == AdjustSpec => []AdjustedOnce
<1>1. AdjustInit => OnceInv
  BY AdjustAssumption DEF AdjustInit, OnceInv, IdleTask, HoldsRow, Running
<1>2. OnceInv => AdjustedOnce
  BY DEF OnceInv, AdjustedOnce
<1>3. OnceInv /\ [AdjustNext]_adjustVars => OnceInv'
  BY OnceStep
<1>. QED  BY <1>1, <1>2, <1>3, PTL DEF AdjustSpec

-----------------------------------------------------------------------------
(* cut_events_to_gaps. *)

\* f folds FollowCut over the first n commands, and over any set of them.
FoldsCut(f, base, seq, n) ==
  f = [s \in SUBSET (1..n) |->
         IF s = {} THEN base ELSE LET x == Max(s) IN FollowCut(f[s \ {x}], seq[x])]

LEMMA CutFoldExists ==
  ASSUME NEW seq, NEW base, NEW m \in Nat
  PROVE  \E f : FoldsCut(f, base, seq, m)
<1>. DEFINE T == {n \in Nat : ~\E f : FoldsCut(f, base, seq, n)}
<1>1. SUFFICES ASSUME T # {} PROVE FALSE
  OBVIOUS
<1>2. PICK n \in T : \A k \in T : n <= k
  <2>1. T \in SUBSET Nat
    OBVIOUS
  <2>. QED  BY <1>1, <2>1, LeastNatural
<1>3. n # 0
  <2>1. FoldsCut([s \in SUBSET (1..0) |-> base], base, seq, 0)
    BY DEF FoldsCut
  <2>. QED  BY <2>1
<1>4. PICK g : FoldsCut(g, base, seq, n - 1)
  BY <1>2, <1>3
<1>. DEFINE f == [s \in SUBSET (1..n) |-> IF n \in s THEN FollowCut(g[s \ {n}], seq[n]) ELSE g[s]]
<1>5. ASSUME NEW s \in SUBSET (1..n), s # {}
      PROVE  f[s] = FollowCut(f[s \ {Max(s)}], seq[Max(s)])
  <2>1. CASE n \in s
    <3>1. Max(s) = n
      BY <2>1, MaxIs
    <3>2. s \ {n} \in SUBSET (1..n) /\ n \notin s \ {n}
      OBVIOUS
    <3>3. f[s \ {n}] = g[s \ {n}]
      BY <3>2
    <3>. QED  BY <2>1, <3>1, <3>3
  <2>2. CASE n \notin s
    <3>1. s \in SUBSET (1..n - 1)
      BY <2>2
    <3>2. g[s] = FollowCut(g[s \ {Max(s)}], seq[Max(s)])
      BY <1>4, <1>5, <3>1 DEF FoldsCut
    <3>3. f[s] = g[s] /\ f[s \ {Max(s)}] = g[s \ {Max(s)}]
      BY <2>2
    <3>. QED  BY <3>2, <3>3
  <2>. QED  BY <2>1, <2>2
<1>6. f[{}] = base
  <2>1. g[{}] = base
    BY <1>4 DEF FoldsCut
  <2>. QED  BY <2>1
<1>7. FoldsCut(f, base, seq, n)
  BY <1>5, <1>6 DEF FoldsCut
<1>. QED  BY <1>2, <1>7

\* run[k] is the state after k commands.
CutRuns(run, base, seq, n) ==
  run[0] = base /\ \A k \in 0..n - 1 : run[k + 1] = FollowCut(run[k], seq[k + 1])

LEMMA FoldLeftCuts ==
  ASSUME NEW seq, NEW base, NEW n \in Nat, DOMAIN seq = 1..n
  PROVE  \E run : CutRuns(run, base, seq, n) /\ FoldLeft(FollowCut, base, seq) = run[n]
<1>. DEFINE f == CHOOSE f : FoldsCut(f, base, seq, n)
            run == [k \in 0..n |-> f[1..k]]
<1>1. FoldsCut(f, base, seq, n)
  BY CutFoldExists
<1>2. FoldLeft(FollowCut, base, seq) = f[1..n]
  BY DEF FoldLeft, MapThenFoldSet, FoldsCut
<1>3. run[0] = base
  <2>1. f[{}] = base
    BY <1>1 DEF FoldsCut
  <2>2. 1..0 = {}
    OBVIOUS
  <2>. QED  BY <2>1, <2>2
<1>4. ASSUME NEW k \in 0..n - 1 PROVE run[k + 1] = FollowCut(run[k], seq[k + 1])
  <2>1. 1..k + 1 \in SUBSET (1..n) /\ k + 1 \in 1..k + 1
    <3>1. k \in Nat /\ k + 1 <= n
      OBVIOUS
    <3>. QED  BY <3>1
  <2>2. Max(1..k + 1) = k + 1
    <3>1. k + 1 \in Int /\ 1..k + 1 \in SUBSET Int /\ \A y \in 1..k + 1 : y <= k + 1
      OBVIOUS
    <3>. QED  BY <2>1, <3>1, MaxIs
  <2>3. (1..k + 1) \ {k + 1} = 1..k
    OBVIOUS
  <2>4. f[1..k + 1] = FollowCut(f[1..k], seq[k + 1])
    BY <1>1, <2>1, <2>2, <2>3 DEF FoldsCut
  <2>. QED  BY <2>4
<1>5. run[n] = f[1..n]
  OBVIOUS
<1>. HIDE DEF run, f
<1>. QED  BY <1>2, <1>3, <1>4, <1>5 DEF CutRuns

\* Where command k is; the first cut counts from the opening.
Reached(s, k) == IF k = 0 THEN 0 ELSE s[k].at

\* Command i ends a cut that the one before it, or the opening, has begun.
EndsCut(s, i) == s[i].data = "stop" /\ (i = 1 \/ s[i - 1].data = "start")

CutBy(s, i, t) == EndsCut(s, i) /\ Reached(s, i - 1) <= t /\ t < s[i].at

\* After k commands: where the cut that goes on has begun, and the cuts so far.
CutState(state, s, k) ==
  /\ state.start = IF k = 0 \/ s[k].data = "start" THEN Reached(s, k) ELSE None
  /\ state.gaps \in Seq(Int \X Int)
  /\ GapsOK(state.gaps)
  /\ \A g \in DOMAIN state.gaps : 0 <= state.gaps[g][1] /\ state.gaps[g][2] <= Reached(s, k)
  /\ \A t \in Int : InGaps(state.gaps, t) <=> \E i \in 1..k : CutBy(s, i, t)

LEMMA CutStep ==
  ASSUME NEW cuts, CutsOK(cuts), \A x \in cuts : x.at \in Nat, NEW s, Lists(s, cuts),
         NEW k \in 0..Cardinality(cuts) - 1,
         NEW state, state.result = "ok" => CutState(state, s, k),
         DOMAIN state = {"start", "gaps", "result"},
         NEW next, next = FollowCut(state, s[k + 1])
  PROVE  /\ DOMAIN next = {"start", "gaps", "result"}
         /\ next.result = "ok" => CutState(next, s, k + 1)
<1>1. /\ k \in Nat /\ Cardinality(cuts) \in Nat /\ k + 1 \in 1..Cardinality(cuts)
      /\ 1..k + 1 = (1..k) \cup {k + 1} /\ k + 1 # 0 /\ (k + 1) - 1 = k
  BY ListTypes
<1>2. /\ Reached(s, k) \in Nat /\ s[k + 1].at \in Nat /\ Reached(s, k) <= s[k + 1].at
      /\ Reached(s, k + 1) = s[k + 1].at
  <2>1. s[k + 1].at \in Nat
    BY <1>1, ListTypes
  <2>2. CASE k = 0
    BY <2>1, <2>2 DEF Reached
  <2>3. CASE k # 0
    <3>1. k \in 1..Cardinality(cuts) /\ k <= k + 1
      BY <1>1, <2>3
    <3>2. s[k].at \in Nat /\ s[k].at <= s[k + 1].at
      BY <1>1, <3>1, ListTypes
    <3>. QED  BY <1>1, <2>1, <2>3, <3>2 DEF Reached
  <2>. QED  BY <2>2, <2>3
<1>3. CASE state.result # "ok"
  <2>1. next = state
    BY <1>3 DEF FollowCut
  <2>. QED  BY <1>3, <2>1
<1>4. CASE state.result = "ok" /\ s[k + 1].data = "start"
  <2>1. next = [state EXCEPT !.start = s[k + 1].at]
    BY <1>4 DEF FollowCut
  <2>2. /\ DOMAIN next = {"start", "gaps", "result"}
        /\ next.start = s[k + 1].at /\ next.gaps = state.gaps
    BY <2>1
  <2>3. \A t \in Int : ~CutBy(s, k + 1, t)
    BY <1>4 DEF CutBy, EndsCut
  <2>4. \A t \in Int : InGaps(next.gaps, t) <=> \E i \in 1..k + 1 : CutBy(s, i, t)
    BY <1>1, <1>4, <2>2, <2>3 DEF CutState
  <2>5. \A g \in DOMAIN next.gaps : 0 <= next.gaps[g][1] /\ next.gaps[g][2] <= Reached(s, k + 1)
    BY <1>2, <1>4, <2>2 DEF CutState, GapsOK
  <2>. QED  BY <1>1, <1>2, <1>4, <2>2, <2>4, <2>5 DEF CutState
<1>5. CASE state.result = "ok" /\ s[k + 1].data = "stop" /\ state.start # None
  <2>1. next = EndGap(state, s[k + 1].at)
    BY <1>5 DEF FollowCut
  <2>2. state.start = Reached(s, k) /\ (k = 0 \/ s[k].data = "start")
    BY <1>5 DEF CutState
  <2>. DEFINE a == Reached(s, k)
              b == s[k + 1].at
  <2>3. /\ DOMAIN next = {"start", "gaps", "result"}
        /\ next.start = None /\ next.gaps = Append(state.gaps, <<a, b>>)
    BY <2>1, <2>2 DEF EndGap
  <2>4. a \in Int /\ b \in Int /\ 0 <= a /\ a <= b
    BY <1>2
  <2>5. /\ state.gaps \in Seq(Int \X Int) /\ GapsOK(state.gaps)
        /\ \A g \in DOMAIN state.gaps : state.gaps[g][2] <= a
        /\ \A g \in DOMAIN state.gaps : 0 <= state.gaps[g][1]
    BY <1>5 DEF CutState
  <2>. HIDE DEF a, b
  <2>6. /\ next.gaps \in Seq(Int \X Int) /\ GapsOK(next.gaps)
        /\ DOMAIN next.gaps = DOMAIN state.gaps \cup {Len(state.gaps) + 1}
        /\ \A g \in DOMAIN state.gaps : next.gaps[g] = state.gaps[g]
        /\ next.gaps[Len(state.gaps) + 1] = <<a, b>>
        /\ \A t \in Int : InGaps(next.gaps, t) <=> InGaps(state.gaps, t) \/ (a <= t /\ t < b)
    <3>1. LET more == Append(state.gaps, <<a, b>>)
          IN /\ more \in Seq(Int \X Int) /\ GapsOK(more)
             /\ DOMAIN more = DOMAIN state.gaps \cup {Len(state.gaps) + 1}
             /\ \A g \in DOMAIN state.gaps : more[g] = state.gaps[g]
             /\ more[Len(state.gaps) + 1] = <<a, b>>
             /\ \A t \in Int : InGaps(more, t) <=> InGaps(state.gaps, t) \/ (a <= t /\ t < b)
      BY <2>4, <2>5, AppendGap
    <3>. QED  BY <2>3, <3>1, Zenon
  <2>7. \A t \in Int : CutBy(s, k + 1, t) <=> (a <= t /\ t < b)
    <3>1. EndsCut(s, k + 1)
      BY <1>1, <1>5, <2>2 DEF EndsCut
    <3>. QED  BY <1>1, <3>1 DEF CutBy, a, b
  <2>8. \A t \in Int : InGaps(next.gaps, t) <=> \E i \in 1..k + 1 : CutBy(s, i, t)
    <3>1. \A t \in Int : InGaps(state.gaps, t) <=> \E i \in 1..k : CutBy(s, i, t)
      BY <1>5 DEF CutState
    <3>. QED  BY <1>1, <2>6, <2>7, <3>1
  <2>9. \A g \in DOMAIN next.gaps : 0 <= next.gaps[g][1] /\ next.gaps[g][2] <= b
    <3>. SUFFICES ASSUME NEW g \in DOMAIN next.gaps PROVE 0 <= next.gaps[g][1] /\ next.gaps[g][2] <= b
      OBVIOUS
    <3>1. CASE g \in DOMAIN state.gaps
      <4>1. /\ next.gaps[g] = state.gaps[g] /\ 0 <= state.gaps[g][1]
            /\ state.gaps[g][2] <= a /\ state.gaps[g][2] \in Int
        BY <2>5, <2>6, <3>1 DEF GapsOK
      <4>. QED  BY <2>4, <4>1
    <3>2. CASE g = Len(state.gaps) + 1
      BY <2>4, <2>6, <3>2
    <3>. QED  BY <2>6, <3>1, <3>2
  <2>. QED  BY <1>1, <1>2, <1>5, <2>3, <2>6, <2>8, <2>9 DEF CutState, b
<1>6. CASE state.result = "ok" /\ s[k + 1].data = "stop" /\ state.start = None
  <2>1. next = state
    BY <1>6 DEF FollowCut
  <2>2. k # 0 /\ s[k].data # "start"
    BY <1>2, <1>6, AdjustAssumption DEF CutState
  <2>3. \A t \in Int : ~CutBy(s, k + 1, t)
    BY <1>1, <2>2 DEF CutBy, EndsCut
  <2>4. \A t \in Int : InGaps(next.gaps, t) <=> \E i \in 1..k + 1 : CutBy(s, i, t)
    BY <1>1, <1>6, <2>1, <2>3 DEF CutState
  <2>5. \A g \in DOMAIN next.gaps : 0 <= next.gaps[g][1] /\ next.gaps[g][2] <= Reached(s, k + 1)
    BY <1>2, <1>6, <2>1 DEF CutState, GapsOK
  <2>. QED  BY <1>1, <1>6, <2>1, <2>4, <2>5 DEF CutState
<1>7. CASE state.result = "ok" /\ s[k + 1].data \notin {"start", "stop"}
  <2>1. next = [state EXCEPT !.result = "invalid"]
    BY <1>7 DEF FollowCut, Unexpected
  <2>. QED  BY <2>1
<1>. QED  BY <1>3, <1>4, <1>5, <1>6, <1>7

\* The commands in a room.
LEMMA CutsInOK ==
  ASSUME NEW events, Stored(events), NEW p \in Orders(Streams(events))
  PROVE  CutsOK(EventCuts(events, p)) /\ \A x \in EventCuts(events, p) : x.at \in Nat
<1>1. IsFiniteSet(events) /\ \A e \in events : e.at \in Nat
  BY DEF Stored
<1>. QED  BY <1>1, EventCutsOK

LEMMA CutLoop ==
  ASSUME NEW events, Stored(events), NEW p \in Orders(Streams(events)),
         cut_events_to_gaps(events, p).result = "ok"
  PROVE  CutState(cut_events_to_gaps(events, p), CutEvents(events, p),
                  Cardinality(EventCuts(events, p)))
<1>. DEFINE cuts == EventCuts(events, p)
            s == CutEvents(events, p)
            n == Cardinality(cuts)
            begun == [start |-> 0, gaps |-> <<>>, result |-> "ok"]
<1>1. CutsOK(cuts) /\ \A x \in cuts : x.at \in Nat
  BY CutsInOK
<1>2. Lists(s, cuts)
  BY <1>1, SortedLists DEF CutEvents
<1>3. n \in Nat /\ DOMAIN s = 1..n
  BY <1>1, <1>2, ListTypes DEF Lists
<1>4. PICK run : CutRuns(run, begun, s, n) /\ FoldLeft(FollowCut, begun, s) = run[n]
  BY <1>3, FoldLeftCuts
<1>5. cut_events_to_gaps(events, p) = run[n]
  BY <1>4 DEF cut_events_to_gaps
<1>6. CutState(begun, s, 0)
  <2>1. begun.start = Reached(s, 0)
    BY DEF Reached
  <2>2. begun.gaps \in Seq(Int \X Int) /\ DOMAIN begun.gaps = {}
    OBVIOUS
  <2>3. \A t \in Int : ~InGaps(begun.gaps, t)
    BY <2>2 DEF InGaps
  <2>4. 1..0 = {}
    OBVIOUS
  <2>. QED  BY <2>1, <2>2, <2>3, <2>4 DEF CutState, GapsOK
<1>. DEFINE OK(k) == /\ DOMAIN run[k] = {"start", "gaps", "result"}
                     /\ run[k].result = "ok" => CutState(run[k], s, k)
            T == {k \in 0..n : ~OK(k)}
<1>7. OK(0)
  BY <1>4, <1>6 DEF CutRuns
<1>8. ASSUME NEW k \in 0..n - 1, OK(k) PROVE OK(k + 1)
  <2>1. run[k + 1] = FollowCut(run[k], s[k + 1])
    BY <1>4 DEF CutRuns
  <2>. HIDE DEF cuts, s
  <2>. QED  BY <1>1, <1>2, <1>8, <2>1, CutStep DEF n
<1>. HIDE DEF OK, s, n
<1>9. T = {}
  <2>. SUFFICES ASSUME T # {} PROVE FALSE
    OBVIOUS
  <2>1. PICK k \in T : \A j \in T : k <= j
    <3>1. T \in SUBSET Nat
      BY <1>3
    <3>. QED  BY <3>1, LeastNatural
  <2>2. k # 0 /\ k - 1 \in 0..n - 1 /\ k - 1 \notin T
    BY <1>3, <1>7, <2>1
  <2>3. OK(k - 1)
    BY <1>3, <2>2
  <2>4. OK((k - 1) + 1)
    BY <1>8, <2>2, <2>3
  <2>. QED  BY <2>1, <2>4
<1>10. OK(n)
  BY <1>3, <1>9
<1>. QED  BY <1>5, <1>10 DEF OK, s, n

\* The commands up to a time are the first ones.
LEMMA FirstCuts ==
  ASSUME NEW cuts, CutsOK(cuts), NEW s, Lists(s, cuts), NEW t \in Int
  PROVE  \E b \in 0..Cardinality(cuts) :
           /\ Cardinality({i \in DOMAIN s : s[i].at <= t}) = b
           /\ \A i \in 1..Cardinality(cuts) : s[i].at <= t <=> i <= b
<1>. DEFINE n == Cardinality(cuts)
            after == {i \in 1..n : s[i].at > t}
<1>1. /\ n \in Nat /\ DOMAIN s = 1..n /\ \A i \in 1..n : s[i].at \in Int
      /\ \A i, j \in 1..n : i <= j => s[i].at <= s[j].at
  BY ListTypes DEF Lists
<1>. HIDE DEF n
<1>2. PICK b \in 0..n : \A i \in 1..n : s[i].at <= t <=> i <= b
  <2>1. CASE after = {}
    <3>1. \A i \in 1..n : s[i].at <= t /\ i <= n
      BY <1>1, <2>1
    <3>2. n \in 0..n
      BY <1>1
    <3>. QED  BY <3>1, <3>2
  <2>2. CASE after # {}
    <3>1. PICK a \in after : \A j \in after : a <= j
      <4>1. after \in SUBSET Nat
        BY <1>1
      <4>. QED  BY <2>2, <4>1, LeastNatural
    <3>2. a - 1 \in 0..n /\ a \in 1..n /\ s[a].at > t
      BY <1>1, <3>1
    <3>3. ASSUME NEW i \in 1..n PROVE s[i].at <= t <=> i <= a - 1
      <4>1. CASE i <= a - 1
        <5>1. i \notin after
          BY <3>1, <3>2, <4>1
        <5>. QED  BY <1>1, <4>1, <5>1
      <4>2. CASE ~(i <= a - 1)
        <5>1. a <= i
          BY <3>2, <4>2
        <5>2. s[a].at <= s[i].at /\ s[a].at \in Int /\ s[i].at \in Int
          BY <1>1, <3>2, <5>1
        <5>. QED  BY <3>2, <4>2, <5>2
      <4>. QED  BY <4>1, <4>2
    <3>. QED  BY <3>2, <3>3
  <2>. QED  BY <2>1, <2>2
<1>3. {i \in DOMAIN s : s[i].at <= t} = 1..b
  BY <1>1, <1>2
<1>4. Cardinality(1..b) = b
  <2>1. b \in Int /\ b >= 0
    BY <1>1, <1>2
  <2>. QED  BY <2>1, FS_Interval
<1>. QED  BY <1>2, <1>3, <1>4 DEF n

LEMMA CutAtIs ==
  ASSUME NEW cuts, CutsOK(cuts), \A x \in cuts : x.at \in Nat, NEW t \in Nat
  PROVE  CutAt(Sorted(cuts), t) <=> \E i \in 1..Cardinality(cuts) : CutBy(Sorted(cuts), i, t)
<1>. DEFINE s == Sorted(cuts)
            n == Cardinality(cuts)
<1>1. /\ Lists(s, cuts) /\ n \in Nat /\ DOMAIN s = 1..n
      /\ \A i \in 1..n : s[i] \in cuts /\ s[i].at \in Nat
      /\ \A i, j \in 1..n : i <= j => s[i].at <= s[j].at
  BY SortedLists, ListTypes DEF Lists
<1>2. Len(s) = n
  <2>1. s = [i \in 1..n |-> s[i]]
    <3>. DEFINE nth(i) == CHOOSE x \in cuts : Cardinality({y \in cuts : Precedes(y, x)}) = i - 1
    <3>1. s = [i \in 1..n |-> nth(i)]
      BY Zenon DEF Sorted
    <3>. HIDE DEF nth, s
    <3>. QED  BY <3>1
  <2>. HIDE DEF s, n
  <2>2. s \in [1..n -> cuts]
    BY <1>1, <2>1
  <2>. QED  BY <1>1, <2>2
<1>3. PICK b \in 0..n : /\ Cardinality({i \in DOMAIN s : s[i].at <= t}) = b
                        /\ \A i \in 1..n : s[i].at <= t <=> i <= b
  <2>1. t \in Int
    OBVIOUS
  <2>. HIDE DEF s
  <2>. QED  BY <1>1, <2>1, FirstCuts
<1>. HIDE DEF s, n
<1>4. CutAt(s, t) <=> b < n /\ s[b + 1].data = "stop" /\ (b > 0 => s[b].data = "start")
  BY <1>2, <1>3 DEF CutAt
<1>5. ASSUME b < n, s[b + 1].data = "stop", b > 0 => s[b].data = "start"
      PROVE  \E i \in 1..n : CutBy(s, i, t)
  <2>1. b + 1 \in 1..n /\ (b + 1) - 1 = b
    BY <1>1, <1>3, <1>5
  <2>2. EndsCut(s, b + 1)
    BY <1>1, <1>3, <1>5, <2>1 DEF EndsCut
  <2>3. t < s[b + 1].at
    BY <1>1, <1>3, <2>1
  <2>4. Reached(s, b) <= t
    <3>1. CASE b = 0
      BY <3>1 DEF Reached
    <3>2. CASE b # 0
      <4>1. b \in 1..n
        BY <1>1, <1>3, <3>2
      <4>. QED  BY <1>3, <3>2, <4>1 DEF Reached
    <3>. QED  BY <3>1, <3>2
  <2>. QED  BY <2>1, <2>2, <2>3, <2>4 DEF CutBy
<1>6. ASSUME NEW i \in 1..n, CutBy(s, i, t)
      PROVE  b < n /\ s[b + 1].data = "stop" /\ (b > 0 => s[b].data = "start")
  <2>1. t < s[i].at /\ s[i].at \in Nat /\ i \in Nat /\ b \in Nat
    BY <1>1, <1>3, <1>6 DEF CutBy
  <2>2. ~(i <= b)
    BY <1>3, <2>1
  <2>3. i - 1 <= b
    <3>1. CASE i = 1
      BY <2>1, <3>1
    <3>2. CASE i # 1
      <4>1. i - 1 \in 1..n /\ s[i - 1].at <= t
        BY <1>1, <1>6, <3>2 DEF CutBy, Reached
      <4>. QED  BY <1>3, <4>1
    <3>. QED  BY <3>1, <3>2
  <2>4. i = b + 1
    BY <2>1, <2>2, <2>3
  <2>. QED  BY <1>1, <1>6, <2>1, <2>4 DEF CutBy, EndsCut
<1>. QED  BY <1>4, <1>5, <1>6 DEF s, n

\* cut_events_to_gaps finds the moments that are cut out.
LEMMA CutGapsAre ==
  ASSUME NEW events, Stored(events), NEW p \in Orders(Streams(events)),
         cut_events_to_gaps(events, p).result = "ok"
  PROVE  LET gaps == cut_events_to_gaps(events, p).gaps
         IN /\ gaps \in Seq(Int \X Int) /\ GapsOK(gaps)
            /\ \A g \in DOMAIN gaps : 0 <= gaps[g][1]
            /\ \A t \in Nat : InGaps(gaps, t) <=> CutAt(CutEvents(events, p), t)
<1>. DEFINE found == cut_events_to_gaps(events, p)
            cuts == EventCuts(events, p)
            s == CutEvents(events, p)
<1>1. CutState(found, s, Cardinality(cuts))
  BY CutLoop
<1>2. s = Sorted(cuts)
  BY DEF CutEvents
<1>3. CutsOK(cuts) /\ \A x \in cuts : x.at \in Nat
  BY CutsInOK
<1>. HIDE DEF found, cuts, s
<1>4. ASSUME NEW t \in Nat PROVE InGaps(found.gaps, t) <=> CutAt(s, t)
  <2>1. InGaps(found.gaps, t) <=> \E i \in 1..Cardinality(cuts) : CutBy(s, i, t)
    BY <1>1 DEF CutState
  <2>2. CutAt(s, t) <=> \E i \in 1..Cardinality(cuts) : CutBy(s, i, t)
    BY <1>2, <1>3, CutAtIs
  <2>. QED  BY <2>1, <2>2
<1>5. /\ found.gaps \in Seq(Int \X Int) /\ GapsOK(found.gaps)
      /\ \A g \in DOMAIN found.gaps : 0 <= found.gaps[g][1]
  BY <1>1 DEF CutState
<1>. QED  BY <1>4, <1>5 DEF found, s

-----------------------------------------------------------------------------
(* clone_events: where an event comes to. *)

\* The moments before a time that no gap takes away.
LEMMA LeftOver ==
  ASSUME NEW at \in Nat, NEW gone \in SUBSET (0..at - 1)
  PROVE  /\ Cardinality(gone) \in Nat /\ Cardinality(gone) <= at
         /\ at - Cardinality(gone) = Cardinality((0..at - 1) \ gone)
<1>1. IsFiniteSet(0..at - 1) /\ Cardinality(0..at - 1) = at
  <2>1. 0 \in Int /\ at - 1 \in Int
    OBVIOUS
  <2>. QED  BY <2>1, FS_Interval
<1>2. IsFiniteSet(gone) /\ Cardinality(gone) <= at
  BY <1>1, FS_Subset
<1>3. IsFiniteSet((0..at - 1) \ gone)
  BY <1>1, FS_Difference
<1>4. Cardinality(gone) \in Nat /\ Cardinality((0..at - 1) \ gone) \in Nat
  BY <1>2, <1>3, FS_CardinalityType
<1>5. /\ gone \cup ((0..at - 1) \ gone) = 0..at - 1
      /\ gone \cap ((0..at - 1) \ gone) = {}
  OBVIOUS
<1>6. Cardinality(0..at - 1) = Cardinality(gone) + Cardinality((0..at - 1) \ gone) - Cardinality({})
  BY <1>2, <1>3, <1>5, FS_Union
<1>. QED  BY <1>1, <1>2, <1>4, <1>6, FS_EmptySet

LEMMA CollapsedIs ==
  ASSUME NEW gaps \in Seq(Int \X Int), GapsOK(gaps), NEW at \in Nat
  PROVE  /\ Collapsed(gaps, at) \in Nat
         /\ (\A i \in DOMAIN gaps : gaps[i][1] >= 0 \/ gaps[i][2] <= 0)
            => Collapsed(gaps, at) = Cardinality({n \in 0..at - 1 : ~InGaps(gaps, n)})
<1>. DEFINE some == {i \in DOMAIN gaps : gaps[i][1] >= 0}
            gone == Missing(gaps, some, at)
<1>1. \A i \in DOMAIN gaps : gaps[i][1] \in Int /\ gaps[i][2] \in Int
  BY DEF GapsOK
<1>2. gone \in SUBSET (0..at - 1)
  BY DEF Missing
<1>3. ShiftBy(gaps, some, at) = Cardinality(gone)
  <2>1. NonNegative(gaps, some)
    BY <1>1 DEF NonNegative
  <2>. QED  BY <2>1, ShiftByIs
<1>4. CASE \E i \in DOMAIN gaps : gaps[i][1] = 0 /\ at <= gaps[i][2]
  <2>1. Collapsed(gaps, at) = 0
    BY <1>4 DEF Collapsed
  <2>2. {n \in 0..at - 1 : ~InGaps(gaps, n)} = {}
    BY <1>1, <1>4 DEF InGaps
  <2>3. Cardinality({n \in 0..at - 1 : ~InGaps(gaps, n)}) = 0
    BY <2>2, FS_EmptySet
  <2>. QED  BY <2>1, <2>3
<1>5. CASE ~\E i \in DOMAIN gaps : gaps[i][1] = 0 /\ at <= gaps[i][2]
  <2>1. Collapsed(gaps, at) = at - Cardinality(gone)
    BY <1>3, <1>5 DEF Collapsed
  <2>2. Collapsed(gaps, at) \in Nat /\ Collapsed(gaps, at) = Cardinality((0..at - 1) \ gone)
    <3>. HIDE DEF gone
    <3>. QED  BY <1>2, <2>1, LeftOver
  <2>3. ASSUME \A i \in DOMAIN gaps : gaps[i][1] >= 0 \/ gaps[i][2] <= 0
        PROVE  (0..at - 1) \ gone = {n \in 0..at - 1 : ~InGaps(gaps, n)}
    BY <1>1, <2>3 DEF Missing, InGaps
  <2>. QED  BY <2>2, <2>3
<1>. QED  BY <1>4, <1>5

-----------------------------------------------------------------------------
(* The pauses of the recording. *)

\* The request of a task that has gone past the check of the segments.
Bounded == \A i \in DOMAIN room.segments : room.segments[i][2] # None

LEMMA NanoSegmentsOK ==
  ASSUME Recorded, room \in Scenarios, Bounded
  PROVE  /\ NanoSegments \in Seq(Int \X Int) /\ GapsOK(NanoSegments)
         /\ DOMAIN NanoSegments = DOMAIN room.segments /\ Len(NanoSegments) = Len(room.segments)
         /\ room.segments \in Seq(Int \X Int)
         /\ \A i \in DOMAIN room.segments :
              /\ NanoSegments[i][1] = Milliseconds(room.segments[i][1] + room.rtc_offset)
              /\ NanoSegments[i][2] = Milliseconds(room.segments[i][2] + room.rtc_offset)
<1>1. room.segments \in Seq(Int \X Int) /\ GapsOK(room.segments) /\ room.rtc_offset \in Int
  BY DEF Recorded, Bounded
<1>. DEFINE s == room.segments
            r == room.rtc_offset
            m == Len(s)
            lo(i) == Milliseconds(s[i][1] + r)
            hi(i) == Milliseconds(s[i][2] + r)
            nano == [i \in DOMAIN s |-> <<lo(i), hi(i)>>]
<1>2. nano = NanoSegments
  BY DEF NanoSegments
<1>3. m \in Nat /\ DOMAIN s = 1..m
  BY <1>1
<1>. HIDE DEF s, r, m
<1>4. /\ \A i \in 1..m : s[i][1] \in Int /\ s[i][2] \in Int /\ s[i][1] <= s[i][2]
      /\ \A i, j \in 1..m : i < j => s[i][2] <= s[j][1]
  BY <1>1, <1>3 DEF GapsOK, s
<1>5. ASSUME NEW i \in 1..m PROVE lo(i) \in Int /\ hi(i) \in Int /\ lo(i) <= hi(i)
  <2>1. s[i][1] + r \in Int /\ s[i][2] + r \in Int /\ s[i][1] + r <= s[i][2] + r
    BY <1>1, <1>4 DEF r
  <2>. QED  BY <2>1, NanosecondsOf
<1>6. ASSUME NEW i \in 1..m, NEW j \in 1..m, i < j PROVE hi(i) <= lo(j)
  <2>1. s[i][2] + r \in Int /\ s[j][1] + r \in Int /\ s[i][2] + r <= s[j][1] + r
    BY <1>1, <1>4, <1>6 DEF r
  <2>. QED  BY <2>1, NanosecondsOf
<1>. HIDE DEF lo, hi
<1>7. /\ DOMAIN nano = 1..m
      /\ \A i \in 1..m : nano[i] = <<lo(i), hi(i)>> /\ nano[i] \in Int \X Int
  BY <1>3, <1>5
<1>8. nano \in Seq(Int \X Int) /\ Len(nano) = m
  BY <1>3, <1>7
<1>. HIDE DEF nano
<1>9. \A i \in 1..m : nano[i][1] = lo(i) /\ nano[i][2] = hi(i)
  BY <1>7
<1>10. GapsOK(nano)
  BY <1>5, <1>6, <1>7, <1>9 DEF GapsOK
<1>. QED  BY <1>1, <1>2, <1>3, <1>7, <1>8, <1>9, <1>10 DEF s, m, r, lo, hi

LEMMA LengthsOK ==
  ASSUME Recorded, room \in Scenarios
  PROVE  Milliseconds(room.duration) \in Nat /\ Milliseconds(min_segment_length) \in Nat
<1>1. room.duration \in Nat /\ min_segment_length \in Nat
  BY AdjustAssumption DEF Recorded
<1>. QED  BY <1>1, NaturalNanoseconds

LEMMA SegmentGapsOK ==
  ASSUME Recorded, room \in Scenarios, Bounded
  PROVE  SegmentGaps \in Seq(Int \X Int) /\ GapsOK(SegmentGaps)
<1>. QED  BY LengthsOK, NanoSegmentsOK, InvertedOK DEF SegmentGaps

LEMMA PausedIs ==
  ASSUME Recorded, room \in Scenarios, Bounded, room.segments # <<>>,
         NEW t \in 0..Milliseconds(room.duration) - 1
  PROVE  InGaps(SegmentGaps, t) <=> Paused(t)
<1>. DEFINE duration == Milliseconds(room.duration)
            least == Milliseconds(min_segment_length)
            m == Len(room.segments)
<1>1. duration \in Nat /\ least \in Nat
  BY LengthsOK
<1>2. /\ NanoSegments \in Seq(Int \X Int) /\ GapsOK(NanoSegments)
      /\ DOMAIN NanoSegments = DOMAIN room.segments /\ Len(NanoSegments) = m
      /\ room.segments \in Seq(Int \X Int)
  BY NanoSegmentsOK
<1>3. NanoSegments # <<>> /\ m \in DOMAIN room.segments /\ m \in DOMAIN NanoSegments
  BY <1>2
<1>4. Milliseconds(Finish) + RtcOffset = NanoSegments[m][2] /\ NanoSegments[m][2] \in Int
  <2>1. Finish \in Int /\ room.rtc_offset \in Int /\ Finish = room.segments[m][2]
    <3>1. room.segments[m] \in Int \X Int
      BY <1>2, <1>3
    <3>2. room.rtc_offset \in Int
      BY DEF Recorded
    <3>. QED  BY <3>1, <3>2 DEF Finish
  <2>2. NanoSegments[m][2] = Milliseconds(Finish + room.rtc_offset)
    BY <1>3, <2>1, NanoSegmentsOK
  <2>3. Finish + room.rtc_offset \in Int
    BY <2>1
  <2>. QED  BY <2>1, <2>2, <2>3, NanosecondsOf DEF RtcOffset
<1>5. InGaps(SegmentGaps, t)
      <=> ~InGaps(NanoSegments, t) /\ ~TailCut(NanoSegments, duration, least, t)
  <2>. HIDE DEF duration, least
  <2>1. t \in 0..duration - 1 /\ SegmentGaps = InvertSegments(NanoSegments, duration, least)
    BY DEF SegmentGaps, duration, least
  <2>. QED  BY <1>1, <1>2, <2>1, SegmentsAreLeft
<1>6. TailCut(NanoSegments, duration, least, t)
      <=> NanoSegments[m][2] <= t /\ duration - NanoSegments[m][2] <= least
  BY <1>2, <1>3 DEF TailCut
<1>7. Paused(t) <=> /\ ~InGaps(NanoSegments, t)
                    /\ t >= NanoSegments[m][2] => duration - NanoSegments[m][2] > least
  <2>1. InGaps(NanoSegments, t)
        <=> \E i \in DOMAIN room.segments : NanoSegments[i][1] <= t /\ t < NanoSegments[i][2]
    BY <1>2 DEF InGaps
  <2>2. t < duration
    BY <1>1
  <2>3. Paused(t) <=> /\ ~\E i \in DOMAIN room.segments : NanoSegments[i][1] <= t /\ t < NanoSegments[i][2]
                      /\ t < duration
                      /\ t >= NanoSegments[m][2] => duration - NanoSegments[m][2] > least
    BY <1>4 DEF Paused
  <2>. QED  BY <2>1, <2>2, <2>3
<1>. HIDE DEF duration, least, m
<1>8. t \in Int
  BY <1>1 DEF duration
<1>. QED  BY <1>1, <1>4, <1>5, <1>6, <1>7, <1>8

-----------------------------------------------------------------------------
(* clone_events: the copies of the events. *)

\* A copy of an event: in its place, up to the events that come to the same one.
CopyOf(c, e, events, gaps, offset) ==
  /\ DOMAIN c = DOMAIN e
  /\ c.id = e.id /\ c.kind = e.kind /\ c.data = e.data /\ c.created = e.created
  /\ c.at - (Collapsed(gaps, e.at) + offset) \in 0..Cardinality(events)

LEMMA ClonesOf ==
  ASSUME NEW events, Stored(events), NEW gaps \in Seq(Int \X Int), GapsOK(gaps), NEW offset \in Int
  PROVE  LET copies == clone_events(events, gaps, offset)
         IN /\ IsFiniteSet(copies) /\ Cardinality(copies) <= Cardinality(events)
            /\ \A c \in copies : c.at \in Int
            /\ \A c \in copies : \E e \in events : CopyOf(c, e, events, gaps, offset)
            /\ \A e \in events : \E c \in copies : c.id = e.id
            /\ \A c, d \in copies : c.id = d.id => c = d
<1>. DEFINE copies == clone_events(events, gaps, offset)
            Placed(e) == [e EXCEPT !.at = Collapsed(gaps, @) + offset]
            shifted == {Placed(e) : e \in events}
            f == [e \in events |-> Placed(e)]
            g == [e \in shifted |-> Monotonized(e, shifted)]
            Ties(x) == Cardinality({y \in shifted : y.at = x.at /\ y.kind # "stream" /\ y.created < x.created})
<1>1. copies = {Monotonized(e, shifted) : e \in shifted}
  BY DEF clone_events
<1>2. IsFiniteSet(shifted) /\ Cardinality(shifted) <= Cardinality(events)
  <2>. HIDE DEF Placed
  <2>1. f \in Surjection(events, shifted)
    BY DEF Surjection
  <2>. QED  BY <2>1, FS_Surjection DEF Stored
<1>3. ASSUME NEW e \in events
      PROVE  /\ Collapsed(gaps, e.at) \in Nat
             /\ DOMAIN Placed(e) = {"id", "kind", "data", "at", "created"}
             /\ Placed(e).id = e.id /\ Placed(e).kind = e.kind /\ Placed(e).data = e.data
             /\ Placed(e).created = e.created
             /\ Placed(e).at = Collapsed(gaps, e.at) + offset /\ Placed(e).at \in Int
  <2>1. DOMAIN e = {"id", "kind", "data", "at", "created"} /\ e.at \in Nat
    BY DEF Stored
  <2>2. Collapsed(gaps, e.at) \in Nat
    BY <2>1, CollapsedIs
  <2>. QED  BY <2>1, <2>2
<1>. HIDE DEF Placed
<1>4. \A x \in shifted : \E e \in events : x = Placed(e)
  OBVIOUS
<1>. HIDE DEF shifted
<1>5. IsFiniteSet(copies) /\ Cardinality(copies) <= Cardinality(events)
  <2>. HIDE DEF copies
  <2>1. g \in Surjection(shifted, copies)
    BY <1>1 DEF Surjection
  <2>2. IsFiniteSet(copies) /\ Cardinality(copies) <= Cardinality(shifted)
    BY <1>2, <2>1, FS_Surjection
  <2>3. Cardinality(copies) \in Nat /\ Cardinality(shifted) \in Nat /\ Cardinality(events) \in Nat
    BY <1>2, <2>2, FS_CardinalityType DEF Stored
  <2>. QED  BY <1>2, <2>2, <2>3
<1>6. ASSUME NEW x \in shifted PROVE Ties(x) \in 0..Cardinality(events)
  <2>. DEFINE T == {y \in shifted : y.at = x.at /\ y.kind # "stream" /\ y.created < x.created}
  <2>1. T \in SUBSET shifted
    OBVIOUS
  <2>. HIDE DEF T
  <2>2. IsFiniteSet(T) /\ Cardinality(T) <= Cardinality(shifted)
    BY <1>2, <2>1, FS_Subset
  <2>3. Cardinality(T) \in Nat /\ Cardinality(shifted) \in Nat /\ Cardinality(events) \in Nat
    BY <1>2, <2>2, FS_CardinalityType DEF Stored
  <2>4. Cardinality(T) \in 0..Cardinality(events)
    BY <1>2, <2>2, <2>3
  <2>. QED  BY <2>4 DEF T
<1>7. ASSUME NEW e \in events, Placed(e) \in shifted
      PROVE  LET c == Monotonized(Placed(e), shifted)
             IN CopyOf(c, e, events, gaps, offset) /\ c.at \in Int
  <2>. DEFINE x == Placed(e)
              c == Monotonized(x, shifted)
  <2>0. /\ DOMAIN x = {"id", "kind", "data", "at", "created"} /\ DOMAIN e = DOMAIN x
        /\ x.id = e.id /\ x.kind = e.kind /\ x.data = e.data /\ x.created = e.created
        /\ x.at = Collapsed(gaps, e.at) + offset /\ x.at \in Int /\ Collapsed(gaps, e.at) \in Nat
    BY <1>3 DEF Stored
  <2>1. Ties(x) \in 0..Cardinality(events) /\ Cardinality(events) \in Nat
    BY <1>6, <1>7, FS_CardinalityType DEF Stored
  <2>. HIDE DEF x
  <2>2. CASE x.kind = "stream"
    <3>1. c = x
      BY <2>2 DEF Monotonized
    <3>. QED  BY <2>0, <2>1, <3>1 DEF CopyOf, x
  <2>3. CASE x.kind # "stream"
    <3>1. c = [x EXCEPT !.at = @ + Ties(x)]
      BY <2>3 DEF Monotonized
    <3>. HIDE DEF Ties, c
    <3>2. /\ DOMAIN c = DOMAIN x /\ c.id = x.id /\ c.kind = x.kind /\ c.data = x.data
          /\ c.created = x.created /\ c.at = x.at + Ties(x)
      BY <2>0, <3>1
    <3>3. c.at \in Int /\ c.at - (Collapsed(gaps, e.at) + offset) \in 0..Cardinality(events)
      BY <2>0, <2>1, <3>2
    <3>. QED  BY <2>0, <3>2, <3>3 DEF CopyOf, x, c
  <2>. QED  BY <2>2, <2>3
<1>8. ASSUME NEW c \in copies
      PROVE  \E e \in events : /\ c = Monotonized(Placed(e), shifted)
                               /\ Placed(e) \in shifted
  BY <1>1, <1>4
<1>9. \A c \in copies : \E e \in events : CopyOf(c, e, events, gaps, offset) /\ c.at \in Int
  BY <1>7, <1>8
<1>10. ASSUME NEW e \in events PROVE \E c \in copies : c.id = e.id
  <2>1. Placed(e) \in shifted
    BY DEF shifted
  <2>2. Monotonized(Placed(e), shifted) \in copies
    BY <1>1, <2>1
  <2>3. Monotonized(Placed(e), shifted).id = e.id
    BY <1>7, <2>1 DEF CopyOf
  <2>. QED  BY <2>2, <2>3
<1>11. ASSUME NEW c \in copies, NEW d \in copies, c.id = d.id PROVE c = d
  <2>1. PICK e \in events : c = Monotonized(Placed(e), shifted) /\ Placed(e) \in shifted
    BY <1>8
  <2>2. PICK h \in events : d = Monotonized(Placed(h), shifted) /\ Placed(h) \in shifted
    BY <1>8
  <2>3. c.id = e.id /\ d.id = h.id
    BY <1>7, <2>1, <2>2 DEF CopyOf
  <2>4. e = h
    BY <1>11, <2>3 DEF Stored
  <2>. QED  BY <2>1, <2>2, <2>4
<1>. HIDE DEF copies
<1>12. /\ IsFiniteSet(copies) /\ Cardinality(copies) <= Cardinality(events)
       /\ \A c \in copies : c.at \in Int
       /\ \A c \in copies : \E e \in events : CopyOf(c, e, events, gaps, offset)
       /\ \A e \in events : \E c \in copies : c.id = e.id
       /\ \A c, d \in copies : c.id = d.id => c = d
  BY <1>5, <1>9, <1>10, <1>11
<1>. QED  BY <1>12 DEF copies

\* The original room has the events again.
LEMMA ClonesStored ==
  ASSUME NEW events, Stored(events), NEW gaps \in Seq(Int \X Int), GapsOK(gaps)
  PROVE  Stored(clone_events(events, gaps, 0))
<1>. DEFINE copies == clone_events(events, gaps, 0)
<1>1. /\ IsFiniteSet(copies)
      /\ \A c \in copies : c.at \in Int
      /\ \A c \in copies : \E e \in events : CopyOf(c, e, events, gaps, 0)
      /\ \A c, d \in copies : c.id = d.id => c = d
  BY ClonesOf
<1>. HIDE DEF copies
<1>2. ASSUME NEW c \in copies
      PROVE  DOMAIN c = {"id", "kind", "data", "at", "created"} /\ c.id \in Nat /\ c.at \in Nat
             /\ c.created \in Nat
  <2>1. PICK e \in events : CopyOf(c, e, events, gaps, 0)
    BY <1>1
  <2>2. DOMAIN e = {"id", "kind", "data", "at", "created"} /\ e.id \in Nat /\ e.at \in Nat
        /\ e.created \in Nat
    BY DEF Stored
  <2>3. Collapsed(gaps, e.at) \in Nat
    BY <2>2, CollapsedIs
  <2>4. c.at - (Collapsed(gaps, e.at) + 0) \in 0..Cardinality(events) /\ Cardinality(events) \in Nat
    BY <2>1, FS_CardinalityType DEF CopyOf, Stored
  <2>. QED  BY <1>1, <2>1, <2>2, <2>3, <2>4 DEF CopyOf
<1>3. Stored(copies)
  BY <1>1, <1>2 DEF Stored
<1>. QED  BY <1>3 DEF copies

LEMMA PlaceIs ==
  ASSUME NEW events, \A c, d \in events : c.id = d.id => c = d, NEW c \in events
  PROVE  Place(events, c.id) = c.at
<1>1. (CHOOSE e \in events : e.id = c.id) = c
  OBVIOUS
<1>. QED  BY <1>1 DEF Place, EventOf

-----------------------------------------------------------------------------
(* room.adjust: events stay in sync with the video. *)

LEMMA SourceStored ==
  ASSUME Recorded, SyncInv, ~late
  PROVE  Stored(source) /\ \A e \in source : e.at <= Milliseconds(room.duration)
<1>. DEFINE all == room.events \cup StreamEvents(room.events)
<1>1. /\ Stored(all) /\ source \in SUBSET all
      /\ \A e \in room.events : e.at <= Milliseconds(room.duration)
  BY DEF SyncInv, Recorded
<1>2. \A e \in all : e.at <= Milliseconds(room.duration)
  <2>1. \A e \in StreamEvents(room.events) : \E f \in room.events : e.at = f.at
    BY DEF StreamEvents
  <2>. QED  BY <1>1, <2>1
<1>. HIDE DEF all
<1>3. IsFiniteSet(source)
  BY <1>1, FS_Subset DEF Stored
<1>. QED  BY <1>1, <1>2, <1>3 DEF Stored

\* The copy of an event, and that its place is near where it should be.
LEMMA CloneIsNear ==
  ASSUME NEW events, Stored(events), NEW gaps \in Seq(Int \X Int), GapsOK(gaps), NEW offset \in Int,
         NEW e \in events
  PROVE  \E c \in clone_events(events, gaps, offset) :
           /\ c.id = e.id /\ c.kind = e.kind
           /\ c.at \in Int
           /\ c.at - (Collapsed(gaps, e.at) + offset) \in 0..Cardinality(events)
<1>. DEFINE copies == clone_events(events, gaps, offset)
<1>1. /\ \A c \in copies : c.at \in Int
      /\ \A c \in copies : \E f \in events : CopyOf(c, f, events, gaps, offset)
      /\ \A f \in events : \E c \in copies : c.id = f.id
  BY ClonesOf
<1>. HIDE DEF copies
<1>2. PICK c \in copies : c.id = e.id
  BY <1>1
<1>3. PICK f \in events : CopyOf(c, f, events, gaps, offset)
  BY <1>1
<1>4. f = e
  BY <1>2, <1>3 DEF CopyOf, Stored
<1>5. c.id = e.id /\ c.kind = e.kind /\ c.at \in Int /\ c.at - (Collapsed(gaps, e.at) + offset) \in 0..Cardinality(events)
  BY <1>1, <1>3, <1>4 DEF CopyOf
<1>. QED  BY <1>5 DEF copies

LEMMA OriginalInSync ==
  ASSUME Recorded, SyncInv, ~late, Bounded, room.segments # <<>>, OpenedOnAir, NEW e \in source
  PROVE  Place(clone_events(source, SegmentGaps, 0), e.id)
           - Cardinality({n \in 0..e.at - 1 : ~Paused(n)}) \in 0..Cardinality(source)
<1>. DEFINE gaps == SegmentGaps
<1>1. Stored(source) /\ e.at \in Nat /\ e.at <= Milliseconds(room.duration) /\ room \in Scenarios
  BY SourceStored DEF Stored, SyncInv
<1>2. gaps \in Seq(Int \X Int) /\ GapsOK(gaps)
  BY <1>1, SegmentGapsOK
<1>3. \A i \in DOMAIN gaps : gaps[i][1] >= 0 \/ gaps[i][2] <= 0
  BY DEF OpenedOnAir
<1>4. ASSUME NEW n \in 0..e.at - 1 PROVE InGaps(gaps, n) <=> Paused(n)
  <2>1. n \in 0..Milliseconds(room.duration) - 1
    BY <1>1, LengthsOK
  <2>. QED  BY <1>1, <2>1, PausedIs
<1>. HIDE DEF gaps
<1>5. {n \in 0..e.at - 1 : ~InGaps(gaps, n)} = {n \in 0..e.at - 1 : ~Paused(n)}
  BY <1>4
<1>6. /\ Collapsed(gaps, e.at) \in Nat
      /\ Collapsed(gaps, e.at) = Cardinality({n \in 0..e.at - 1 : ~InGaps(gaps, n)})
  BY <1>1, <1>2, <1>3, CollapsedIs
<1>7. PICK c \in clone_events(source, gaps, 0) :
        c.id = e.id /\ c.at \in Int /\ c.at - (Collapsed(gaps, e.at) + 0) \in 0..Cardinality(source)
  <2>1. 0 \in Int
    OBVIOUS
  <2>. QED  BY <1>1, <1>2, <2>1, CloneIsNear
<1>8. \A x, y \in clone_events(source, gaps, 0) : x.id = y.id => x = y
  <2>1. 0 \in Int
    OBVIOUS
  <2>. QED  BY <1>1, <1>2, <2>1, ClonesOf
<1>9. Place(clone_events(source, gaps, 0), e.id) = c.at
  BY <1>7, <1>8, PlaceIs
<1>10. c.at - Collapsed(gaps, e.at) \in 0..Cardinality(source)
  BY <1>6, <1>7
<1>11. Collapsed(gaps, e.at) = Cardinality({n \in 0..e.at - 1 : ~Paused(n)})
  BY <1>5, <1>6
<1>. QED  BY <1>9, <1>10, <1>11 DEF gaps

LEMMA ModifiedInSync ==
  ASSUME Recorded, NEW events, Stored(events), NEW e \in events, e.kind # "stream",
         NEW p \in Orders(Streams(events)), cut_events_to_gaps(events, p).result = "ok",
         NEW offset \in Int
  PROVE  LET copies == clone_events(events, cut_events_to_gaps(events, p).gaps, offset)
             uncut(n) == Cardinality({i \in 0..n - 1 : ~CutAt(CutEvents(events, p), i)})
         IN Place({c \in copies : c.kind # "stream"}, e.id) - (uncut(e.at) + offset)
            \in 0..Cardinality(events)
<1>. DEFINE gaps == cut_events_to_gaps(events, p).gaps
            copies == clone_events(events, gaps, offset)
            kept == {c \in copies : c.kind # "stream"}
            left == {i \in 0..e.at - 1 : ~CutAt(CutEvents(events, p), i)}
<1>1. /\ gaps \in Seq(Int \X Int) /\ GapsOK(gaps)
      /\ \A g \in DOMAIN gaps : 0 <= gaps[g][1]
      /\ \A t \in Nat : InGaps(gaps, t) <=> CutAt(CutEvents(events, p), t)
  BY CutGapsAre
<1>. HIDE DEF gaps
<1>2. e.at \in Nat
  BY DEF Stored
<1>3. {n \in 0..e.at - 1 : ~InGaps(gaps, n)} = left
  <2>1. \A n \in 0..e.at - 1 : n \in Nat
    BY <1>2
  <2>. QED  BY <1>1, <2>1
<1>4. Collapsed(gaps, e.at) \in Nat /\ Collapsed(gaps, e.at) = Cardinality(left)
  <2>1. \A i \in DOMAIN gaps : gaps[i][1] >= 0 \/ gaps[i][2] <= 0
    BY <1>1 DEF GapsOK
  <2>2. /\ Collapsed(gaps, e.at) \in Nat
        /\ Collapsed(gaps, e.at) = Cardinality({n \in 0..e.at - 1 : ~InGaps(gaps, n)})
    BY <1>1, <1>2, <2>1, CollapsedIs
  <2>. QED  BY <1>3, <2>2
<1>5. PICK c \in copies :
        /\ c.id = e.id /\ c.kind = e.kind
        /\ c.at - (Collapsed(gaps, e.at) + offset) \in 0..Cardinality(events)
  BY <1>1, CloneIsNear
<1>6. \A x, y \in copies : x.id = y.id => x = y
  BY <1>1, ClonesOf
<1>. HIDE DEF copies, left
<1>7. c \in kept /\ \A x, y \in kept : x.id = y.id => x = y
  BY <1>5, <1>6
<1>. HIDE DEF kept
<1>8. Place(kept, e.id) = c.at
  BY <1>5, <1>7, PlaceIs
<1>9. Place(kept, e.id) - (Cardinality(left) + offset) \in 0..Cardinality(events)
  BY <1>4, <1>5, <1>8
<1>. QED  BY <1>9 DEF kept, copies, gaps, left

LEMMA SyncImplies ==
  ASSUME Recorded, SyncInv
  PROVE  EventsInSync
<1>. SUFFICES ASSUME NEW t \in Tasks, task[t].pc = "success", ~late
              PROVE  LET close(at, ref) == at - ref \in 0..Cardinality(source)
                         o == task[t].original
                         uncut(cuts, n) == Cardinality({i \in 0..n - 1 : ~CutAt(cuts, i)})
                     IN /\ OpenedOnAir =>
                             \A e \in source : close(Place(o, e.id), Cardinality({n \in 0..e.at - 1 : ~Paused(n)}))
                        /\ \E p \in Orders(Streams(o)) : \A i \in Ids(source) :
                             close(Place(task[t].modified, i),
                                   uncut(CutEvents(o, p), Place(o, i)) + Milliseconds(room.offset))
  BY DEF EventsInSync, Undisturbed
<1>. DEFINE o == task[t].original
            offset == Milliseconds(room.offset)
            gaps == task[t].cut_gaps
<1>1. /\ room \in Scenarios /\ Bounded /\ room.segments # <<>>
      /\ o = clone_events(source, SegmentGaps, 0)
      /\ \E p \in Orders(Streams(o)) :
           cut_events_to_gaps(o, p).result = "ok" /\ gaps = cut_events_to_gaps(o, p).gaps
      /\ task[t].modified = {e \in clone_events(o, gaps, offset) : e.kind # "stream"}
  <2>1. InStep(task[t]) /\ room \in Scenarios
    BY DEF SyncInv
  <2>. QED  BY <2>1 DEF InStep, HasOriginal, HoldsRow, Bounded
<1>2. Stored(source) /\ SegmentGaps \in Seq(Int \X Int) /\ GapsOK(SegmentGaps) /\ offset \in Int
  <2>1. room.offset \in Int
    BY <1>1 DEF Recorded
  <2>. QED  BY <1>1, <2>1, SourceStored, SegmentGapsOK, NanosecondsOf
<1>. PICK p \in Orders(Streams(o)) :
       cut_events_to_gaps(o, p).result = "ok" /\ gaps = cut_events_to_gaps(o, p).gaps
  BY <1>1
<1>. HIDE DEF offset, gaps
<1>3. Stored(o)
  BY <1>1, <1>2, ClonesStored
<1>4. ASSUME OpenedOnAir, NEW e \in source
      PROVE  Place(o, e.id) - Cardinality({n \in 0..e.at - 1 : ~Paused(n)}) \in 0..Cardinality(source)
  BY <1>1, <1>4, OriginalInSync
<1>5. ASSUME NEW i \in Ids(source)
      PROVE  Place(task[t].modified, i)
               - (Cardinality({n \in 0..Place(o, i) - 1 : ~CutAt(CutEvents(o, p), n)}) + offset)
             \in 0..Cardinality(source)
  <2>1. PICK e \in source : e.id = i /\ e.kind # "stream"
    BY DEF Ids
  <2>. HIDE DEF o
  <2>2. PICK c \in o : c.id = i /\ c.kind # "stream"
    <3>1. 0 \in Int
      OBVIOUS
    <3>2. PICK c \in clone_events(source, SegmentGaps, 0) : c.id = e.id /\ c.kind = e.kind
      BY <1>2, <3>1, CloneIsNear
    <3>. QED  BY <1>1, <2>1, <3>2
  <2>3. Place(o, i) = c.at
    BY <1>3, <2>2, PlaceIs DEF Stored
  <2>4. Place(task[t].modified, c.id)
          - (Cardinality({n \in 0..c.at - 1 : ~CutAt(CutEvents(o, p), n)}) + offset)
        \in 0..Cardinality(o)
    BY <1>1, <1>2, <1>3, <2>2, ModifiedInSync
  <2>5. /\ Cardinality(o) \in Nat /\ Cardinality(source) \in Nat
        /\ Cardinality(o) <= Cardinality(source)
    <3>1. 0 \in Int
      OBVIOUS
    <3>2. Cardinality(o) <= Cardinality(source)
      BY <1>1, <1>2, <3>1, ClonesOf
    <3>. QED  BY <1>2, <1>3, <3>2, FS_CardinalityType DEF Stored
  <2>6. \A x : x \in 0..Cardinality(o) => x \in 0..Cardinality(source)
    BY <2>5
  <2>. QED  BY <2>2, <2>3, <2>4, <2>6
<1>. QED  BY <1>4, <1>5 DEF offset

LEMMA StreamsOfSource ==
  ASSUME NEW events, NEW some \in SUBSET (events \cup StreamEvents(events))
  PROVE  StreamEvents(some) \subseteq StreamEvents(events)
<1>1. \A e \in StreamEvents(events) : CutOf(e) = None
  BY DEF StreamEvents, CutOf
<1>2. {e \in some : CutOf(e) # None} \subseteq {e \in events : CutOf(e) # None}
  BY <1>1
<1>. QED  BY <1>2 DEF StreamEvents

LEMMA SameGaps == ASSUME UNCHANGED room PROVE UNCHANGED SegmentGaps
  BY DEF SegmentGaps, NanoSegments

\* A step of task t: what the others have made is still what the events give.
LEMMA OthersInStep ==
  ASSUME SyncInv, UNCHANGED <<room, late>>, NEW t \in Tasks,
         \A u \in Tasks \ {t} : task'[u] = task[u],
         \/ UNCHANGED source
         \/ \A u \in Tasks \ {t} : task[u].pc \notin HasOriginal,
         (~late => source \subseteq room.events \cup StreamEvents(room.events))',
         InStep(task[t])'
  PROVE  SyncInv'
<1>1. ASSUME NEW u \in Tasks, u # t PROVE InStep(task[u])'
  <2>1. InStep(task[u]) /\ task'[u] = task[u]
    BY <1>1 DEF SyncInv
  <2>. QED  BY <2>1, SameGaps DEF InStep
<1>2. \A u \in Tasks : InStep(task[u])'
  BY <1>1
<1>. QED  BY <1>2 DEF SyncInv

\* Before the original room there is nothing to keep but the request and the cuts found.
LEMMA EarlyStep ==
  ASSUME SyncInv, OnceInv, NEW t \in Tasks,
         AcceptAdjust(t) \/ FailAdjust(t) \/ Close(t) \/ InsertAdjustment(t)
  PROVE  SyncInv'
<1>1. /\ UNCHANGED <<room, late, source>>
      /\ \A u \in Tasks \ {t} : task'[u] = task[u]
      /\ task'[t].streams = task[t].streams
  <2>1. CASE AcceptAdjust(t)
    BY <2>1, TaskFields DEF AcceptAdjust
  <2>2. CASE FailAdjust(t)
    BY <2>2, TaskFields DEF FailAdjust
  <2>3. CASE Close(t)
    BY <2>3, TaskFields DEF Close, GoTo
  <2>4. CASE InsertAdjustment(t)
    BY <2>4, TaskFields DEF InsertAdjustment, GoTo
  <2>. QED  BY <2>1, <2>2, <2>3, <2>4
<1>2. /\ task'[t].pc \in {"accepted", "error", "closed", "inserted"}
      /\ task'[t].pc \in {"closed", "inserted"} => Bounded
  <2>1. CASE AcceptAdjust(t)
    BY <2>1, TaskFields DEF AcceptAdjust
  <2>2. CASE FailAdjust(t)
    BY <2>2, TaskFields DEF FailAdjust
  <2>3. CASE Close(t)
    BY <2>3, TaskFields DEF Close, GoTo, Bounded
  <2>4. CASE InsertAdjustment(t)
    <3>1. task[t].pc = "closed" /\ task'[t].pc = "inserted"
      BY <2>4, TaskFields DEF InsertAdjustment, GoTo
    <3>. QED  BY <3>1 DEF SyncInv, InStep, Bounded
  <2>. QED  BY <2>1, <2>2, <2>3, <2>4
<1>3. InStep(task[t]) /\ (~late => source \subseteq room.events \cup StreamEvents(room.events))
  BY DEF SyncInv
<1>4. InStep(task[t])'
  BY <1>1, <1>2, <1>3 DEF InStep, HasOriginal, HoldsRow, Running, Bounded
<1>. QED  BY <1>1, <1>3, <1>4, OthersInStep

\* The stream events are inserted by the task that has the row, before it copies.
LEMMA StreamStep ==
  ASSUME SyncInv, OnceInv, NEW t \in Tasks,
         ListBreaks(t) \/ InsertStreams(t) \/ CreateOriginal(t)
  PROVE  SyncInv'
<1>1. /\ UNCHANGED <<room, late, adjustment>>
      /\ \A u \in Tasks \ {t} : task'[u] = task[u]
  <2>1. CASE ListBreaks(t)
    BY <2>1, TaskFields DEF ListBreaks
  <2>2. CASE InsertStreams(t)
    BY <2>2, TaskFields DEF InsertStreams, GoTo
  <2>3. CASE CreateOriginal(t)
    BY <2>3, TaskFields DEF CreateOriginal
  <2>. QED  BY <2>1, <2>2, <2>3
<1>2. /\ InStep(task[t]) /\ room \in Scenarios
      /\ ~late => source \subseteq room.events \cup StreamEvents(room.events)
  BY DEF SyncInv
<1>3. CASE ListBreaks(t)
  <2>1. /\ task[t].pc = "inserted" /\ task'[t].pc = "listed"
        /\ task'[t].streams = StreamEvents(source) /\ UNCHANGED source
    BY <1>3, TaskFields DEF ListBreaks
  <2>2. ~late => StreamEvents(source) \subseteq StreamEvents(room.events)
    BY <1>2, StreamsOfSource
  <2>3. InStep(task[t])'
    BY <1>1, <1>2, <2>1, <2>2 DEF InStep, HasOriginal, HoldsRow, Running
  <2>. QED  BY <1>1, <1>2, <2>1, <2>3, OthersInStep
<1>4. CASE InsertStreams(t)
  <2>1. /\ task[t].pc = "listed" /\ task'[t].pc = "streamed"
        /\ task'[t].streams = task[t].streams /\ source' = source \cup task[t].streams
    BY <1>4, TaskFields DEF InsertStreams, GoTo
  <2>2. ASSUME NEW u \in Tasks \ {t} PROVE task[u].pc \notin HasOriginal
    BY <2>1 DEF OnceInv, HasOriginal, HoldsRow, Running
  <2>3. ~late => source' \subseteq room.events \cup StreamEvents(room.events)
    BY <1>2, <2>1 DEF InStep
  <2>4. InStep(task[t])'
    BY <1>1, <1>2, <2>1 DEF InStep, HasOriginal, HoldsRow, Running
  <2>. QED  BY <1>1, <2>2, <2>3, <2>4, OthersInStep
<1>5. CASE CreateOriginal(t)
  <2>1. /\ task[t].pc = "streamed" /\ UNCHANGED source
        /\ task'[t].streams = task[t].streams
        /\ \/ task'[t].pc = "panicked"
           \/ task'[t].pc = "created" /\ room.segments # <<>>
    BY <1>5, TaskFields DEF CreateOriginal
  <2>2. InStep(task[t])'
    BY <1>1, <1>2, <2>1 DEF InStep, HasOriginal, HoldsRow, Running
  <2>. QED  BY <1>1, <1>2, <2>1, <2>2, OthersInStep
<1>. QED  BY <1>3, <1>4, <1>5

LEMMA CloneStep ==
  ASSUME SyncInv, OnceInv, NEW t \in Tasks,
         \/ CloneOriginal(t) \/ FindCutGaps(t) \/ CutSegments(t) \/ CreateModified(t)
         \/ CloneModified(t) \/ DeleteCuts(t) \/ Succeed(t)
  PROVE  SyncInv'
<1>1. /\ UNCHANGED <<room, late, source>>
      /\ \A u \in Tasks \ {t} : task'[u] = task[u]
      /\ task'[t].streams = task[t].streams
      /\ task[t].pc \in HoldsRow /\ task[t].pc \in HasOriginal \cup {"created"}
      /\ task'[t].pc \in HasOriginal
  <2>1. CASE CloneOriginal(t)
    BY <2>1, TaskFields DEF CloneOriginal, HoldsRow, Running, HasOriginal
  <2>2. CASE FindCutGaps(t)
    BY <2>2, TaskFields DEF FindCutGaps, HoldsRow, Running, HasOriginal
  <2>3. CASE CutSegments(t)
    <3>1. PICK kept : task' = [task EXCEPT ![t].pc = "segments", ![t].cut_original_segments = kept]
      BY <2>3 DEF CutSegments
    <3>2. task[t].pc = "gaps" /\ UNCHANGED <<room, late, source>>
      BY <2>3 DEF CutSegments
    <3>. QED  BY <3>1, <3>2, TaskFields DEF HoldsRow, Running, HasOriginal
  <2>4. CASE CreateModified(t)
    BY <2>4, TaskFields DEF CreateModified, HoldsRow, Running, HasOriginal
  <2>5. CASE CloneModified(t)
    BY <2>5, TaskFields DEF CloneModified, HoldsRow, Running, HasOriginal
  <2>6. CASE DeleteCuts(t)
    BY <2>6, TaskFields DEF DeleteCuts, HoldsRow, Running, HasOriginal
  <2>7. CASE Succeed(t)
    <3>1. PICK kept : task' = [task EXCEPT ![t].pc = "success", ![t].modified_segments = kept]
      BY <2>7 DEF Succeed
    <3>2. task[t].pc = "stripped" /\ UNCHANGED <<room, late, source>>
      BY <2>7 DEF Succeed
    <3>. QED  BY <3>1, <3>2, TaskFields DEF HoldsRow, Running, HasOriginal
  <2>. QED  BY <2>1, <2>2, <2>3, <2>4, <2>5, <2>6, <2>7
<1>2. /\ InStep(task[t])
      /\ ~late => source \subseteq room.events \cup StreamEvents(room.events)
  BY DEF SyncInv
<1>3. Bounded /\ room.segments # <<>> /\ UNCHANGED SegmentGaps
  BY <1>1, <1>2, SameGaps DEF InStep, Bounded
<1>. DEFINE Cutting(x) == \E p \in Orders(Streams(x.original)) :
                            LET cuts == cut_events_to_gaps(x.original, p)
                            IN cuts.result = "ok" /\ x.cut_gaps = cuts.gaps
            Copied(x) == clone_events(x.original, x.cut_gaps, Milliseconds(room.offset))
<1>4. SUFFICES ~late =>
        /\ task'[t].original = clone_events(source, SegmentGaps, 0)
        /\ task'[t].pc # "original" => Cutting(task'[t])
        /\ task'[t].pc = "modified" => task'[t].modified = Copied(task'[t])
        /\ task'[t].pc \in {"stripped", "success"} =>
             task'[t].modified = {e \in Copied(task'[t]) : e.kind # "stream"}
  <2>1. InStep(task[t])'
    BY <1>1, <1>2, <1>3, <1>4 DEF InStep, Bounded
  <2>. QED  BY <1>1, <1>2, <2>1, OthersInStep
<1>. SUFFICES ASSUME ~late
              PROVE  /\ task'[t].original = clone_events(source, SegmentGaps, 0)
                     /\ task'[t].pc # "original" => Cutting(task'[t])
                     /\ task'[t].pc = "modified" => task'[t].modified = Copied(task'[t])
                     /\ task'[t].pc \in {"stripped", "success"} =>
                          task'[t].modified = {e \in Copied(task'[t]) : e.kind # "stream"}
  OBVIOUS
<1>5. /\ task[t].pc \in HasOriginal => task[t].original = clone_events(source, SegmentGaps, 0)
      /\ task[t].pc \in HasOriginal \ {"original"} => Cutting(task[t])
      /\ task[t].pc = "modified" => task[t].modified = Copied(task[t])
      /\ task[t].pc = "stripped" => task[t].modified = {e \in Copied(task[t]) : e.kind # "stream"}
  BY <1>2 DEF InStep
<1>6. CASE CloneOriginal(t)
  <2>1. task'[t].pc = "original" /\ task'[t].original = clone_events(source, SegmentGaps, 0)
    BY <1>6, TaskFields DEF CloneOriginal
  <2>. QED  BY <2>1
<1>7. CASE FindCutGaps(t)
  <2>1. /\ task[t].pc = "original" /\ task'[t].pc = "gaps" /\ task'[t].original = task[t].original
        /\ Cutting(task'[t])
    BY <1>7, TaskFields DEF FindCutGaps
  <2>. QED  BY <1>5, <2>1 DEF HasOriginal
<1>8. CASE CutSegments(t)
  <2>1. PICK kept : task' = [task EXCEPT ![t].pc = "segments", ![t].cut_original_segments = kept]
    BY <1>8 DEF CutSegments
  <2>2. /\ task[t].pc = "gaps" /\ task'[t].pc = "segments" /\ task'[t].original = task[t].original
        /\ task'[t].cut_gaps = task[t].cut_gaps
    BY <1>8, <2>1, TaskFields DEF CutSegments
  <2>. QED  BY <1>5, <2>2 DEF HasOriginal
<1>9. CASE CreateModified(t)
  <2>1. /\ task[t].pc = "segments" /\ task'[t].pc = "recreated"
        /\ task'[t].original = task[t].original /\ task'[t].cut_gaps = task[t].cut_gaps
    BY <1>9, TaskFields DEF CreateModified
  <2>. QED  BY <1>5, <2>1 DEF HasOriginal
<1>10. CASE CloneModified(t)
  <2>1. /\ task[t].pc = "recreated" /\ task'[t].pc = "modified"
        /\ task'[t].original = task[t].original /\ task'[t].cut_gaps = task[t].cut_gaps
        /\ task'[t].modified = Copied(task[t])
    BY <1>10, TaskFields DEF CloneModified
  <2>. QED  BY <1>5, <2>1 DEF HasOriginal
<1>11. CASE DeleteCuts(t)
  <2>1. /\ task[t].pc = "modified" /\ task'[t].pc = "stripped"
        /\ task'[t].original = task[t].original /\ task'[t].cut_gaps = task[t].cut_gaps
        /\ task'[t].modified = {e \in task[t].modified : e.kind # "stream"}
    BY <1>11, TaskFields DEF DeleteCuts
  <2>. QED  BY <1>5, <2>1 DEF HasOriginal
<1>12. CASE Succeed(t)
  <2>1. PICK kept : task' = [task EXCEPT ![t].pc = "success", ![t].modified_segments = kept]
    BY <1>12 DEF Succeed
  <2>2. /\ task[t].pc = "stripped" /\ task'[t].pc = "success"
        /\ task'[t].original = task[t].original /\ task'[t].cut_gaps = task[t].cut_gaps
        /\ task'[t].modified = task[t].modified
    BY <1>12, <2>1, TaskFields DEF Succeed
  <2>. QED  BY <1>5, <2>2 DEF HasOriginal
<1>. QED  BY <1>6, <1>7, <1>8, <1>9, <1>10, <1>11, <1>12

\* The process stops, or an event comes late.
LEMMA OutsideStep ==
  ASSUME SyncInv, OnceInv, Crash \/ Insert \/ UNCHANGED adjustVars
  PROVE  SyncInv'
<1>1. CASE UNCHANGED adjustVars
  <2>1. UNCHANGED <<room, late, source, task, SegmentGaps>>
    BY <1>1, SameGaps DEF adjustVars
  <2>. QED  BY <2>1 DEF SyncInv, InStep
<1>2. CASE Crash
  <2>1. /\ UNCHANGED <<room, late, source>>
        /\ \A t \in Tasks : task'[t] = IF task[t].pc \in Running THEN [task[t] EXCEPT !.pc = "crashed"]
                                                                 ELSE task[t]
    BY <1>2 DEF Crash
  <2>2. ASSUME NEW t \in Tasks PROVE InStep(task[t])'
    <3>1. InStep(task[t])
      BY DEF SyncInv
    <3>2. CASE task[t].pc \in Running
      <4>1. task'[t].pc = "crashed" /\ task'[t].streams = task[t].streams
        BY <2>1, <3>2, TaskFields
      <4>. QED  BY <2>1, <3>1, <4>1 DEF InStep, HasOriginal, HoldsRow, Running
    <3>3. CASE task[t].pc \notin Running
      <4>1. task'[t] = task[t] /\ UNCHANGED SegmentGaps
        BY <2>1, <3>3, SameGaps
      <4>. QED  BY <2>1, <3>1, <4>1 DEF InStep
    <3>. QED  BY <3>2, <3>3
  <2>. QED  BY <2>1, <2>2 DEF SyncInv
<1>3. CASE Insert
  <2>1. UNCHANGED <<room, task>> /\ late'
    BY <1>3 DEF Insert
  <2>2. ASSUME NEW t \in Tasks PROVE InStep(task[t])'
    <3>1. InStep(task[t])
      BY DEF SyncInv
    <3>. QED  BY <2>1, <3>1 DEF InStep
  <2>. QED  BY <2>1, <2>2 DEF SyncInv
<1>. QED  BY <1>1, <1>2, <1>3

\* Events stay in sync with the video: for any recording and any cuts, any number of
\* overlapping requests, failures and crashes, an adjustment that succeeds puts every
\* event, in both rooms, where the video has its moment.
THEOREM EventsAlwaysInSync == ASSUME Recorded PROVE AdjustSpec => []EventsInSync
<1>1. AdjustInit => OnceInv /\ SyncInv
  <2>. SUFFICES ASSUME AdjustInit PROVE OnceInv /\ SyncInv
    OBVIOUS
  <2>1. OnceInv
    BY AdjustAssumption DEF AdjustInit, OnceInv, IdleTask, HoldsRow, Running
  <2>2. /\ room \in Scenarios /\ source = room.events
        /\ \A t \in Tasks : task[t].pc = "idle" /\ task[t].streams = {}
    BY DEF AdjustInit, IdleTask
  <2>3. \A t \in Tasks : InStep(task[t])
    BY <2>2 DEF InStep, HasOriginal, HoldsRow, Running
  <2>. QED  BY <2>1, <2>2, <2>3 DEF SyncInv
<1>2. OnceInv /\ SyncInv /\ [AdjustNext]_adjustVars => OnceInv' /\ SyncInv'
  <2>. SUFFICES ASSUME OnceInv, SyncInv, [AdjustNext]_adjustVars PROVE SyncInv'
    BY OnceStep
  <2>1. ASSUME NEW t \in Tasks, AcceptAdjust(t) \/ Step(t) PROVE SyncInv'
    BY <2>1, EarlyStep, StreamStep, CloneStep DEF Step
  <2>. QED  BY <2>1, OutsideStep DEF AdjustNext
<1>3. SyncInv => EventsInSync
  BY SyncImplies
<1>. QED  BY <1>1, <1>2, <1>3, PTL DEF AdjustSpec
=============================================================================
