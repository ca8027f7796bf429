------------------------------ MODULE SlotsProofs ------------------------------
(***************************************************************************)
(* Theorems about Slots: what the engine computes with sets of intervals   *)
(* is what the weekly rules say of every minute.  TypeCorrect is the       *)
(* inductive invariant; ClaimsSound what a claim may rely on; OfferedHeld  *)
(* that the wide question of a search and the narrow one of a hold agree;  *)
(* OfferedIsRight the engine against the rules read minute by minute.      *)
(***************************************************************************)
EXTENDS Slots, FiniteSetTheorems, WellFoundedInduction, TLAPS

-----------------------------------------------------------------------------
(* Numbers. *)

\* A finite set of numbers has a least one: among the parts of the set that have
\* none there would be a smallest.
LEMMA HasLeast ==
  ASSUME NEW S \in SUBSET Int, IsFiniteSet(S), S # {}
  PROVE  \E m \in S : \A x \in S : m <= x
<1> DEFINE Least(X) == \E m \in X : \A x \in X : m <= x
           Bad == { X \in FiniteSubsetsOf(S) : X # {} /\ ~Least(X) }
<1>1. SUFFICES ASSUME ~Least(S)  PROVE FALSE
  OBVIOUS
<1>2. Bad # {} /\ Bad \subseteq FiniteSubsetsOf(S)
  <2>1. S \in FiniteSubsetsOf(S)
    BY DEF FiniteSubsetsOf
  <2>2. QED
    BY <1>1, <2>1
<1>3. PICK X \in Bad : \A Y \in Bad : ~(<< Y, X >> \in StrictSubsetOrdering(S))
  <2> HIDE DEF Bad
  <2> QED BY <1>2, FS_StrictSubsetOrderingWellFounded, WFMin
<1>4. PICK x \in X : TRUE
  OBVIOUS
<1> DEFINE Y == X \ { x }
<1>5. IsFiniteSet(X) /\ X \subseteq S
  BY DEF FiniteSubsetsOf
<1>6. Y \in FiniteSubsetsOf(S)
  BY <1>5, FS_RemoveElement DEF FiniteSubsetsOf
<1>7. << Y, X >> \in StrictSubsetOrdering(S)
  BY <1>5, <1>4 DEF StrictSubsetOrdering
<1>8. Y = {} \/ Least(Y)
  BY <1>3, <1>6, <1>7
<1>9. Least(X)
  <2>1. CASE Y = {}
    BY <2>1, <1>4, <1>5
  <2>2. CASE Least(Y)
    <3>1. PICK m \in Y : \A y \in Y : m <= y
      BY <2>2
    <3>2. m \in Int /\ x \in Int /\ X \subseteq Int
      BY <1>5, <1>4
    <3>3. CASE m <= x
      BY <3>1, <3>2, <3>3
    <3>4. CASE x < m
      BY <3>1, <3>2, <3>4, <1>4
    <3>5. QED BY <3>2, <3>3, <3>4
  <2>3. QED BY <1>8, <2>1, <2>2
<1>10. QED BY <1>9

LEMMA HasGreatest ==
  ASSUME NEW S \in SUBSET Int, IsFiniteSet(S), S # {}
  PROVE  \E m \in S : \A x \in S : m >= x
<1> DEFINE N == { -x : x \in S }
<1>1. N \in SUBSET Int /\ N # {}
  OBVIOUS
<1>2. IsFiniteSet(N)
  <2> DEFINE f == [ x \in S |-> -x ]
  <2>1. f \in Surjection(S, N)
    BY DEF Surjection
  <2> HIDE DEF f, N
  <2>2. QED BY <2>1, FS_Surjection
<1>3. PICK m \in N : \A x \in N : m <= x
  <2> HIDE DEF N
  <2> QED BY <1>1, <1>2, HasLeast
<1>4. PICK s \in S : m = -s
  OBVIOUS
<1>5. \A x \in S : m <= -x
  BY <1>3
<1>6. \A x \in S : s >= x
  BY <1>4, <1>5
<1>7. QED BY <1>6

LEMMA MaxIsGreatest ==
  ASSUME NEW S \in SUBSET Int, IsFiniteSet(S), S # {}
  PROVE  Max(S) \in S /\ \A x \in S : x <= Max(S)
<1>1. \E m \in S : \A x \in S : m >= x
  BY HasGreatest
<1>2. Max(S) \in S /\ \A x \in S : Max(S) >= x
  BY <1>1 DEF Max
<1>3. QED BY <1>2

\* The larger of two, and the smallest of three.
LEMMA MaxOfTwo ==
  ASSUME NEW a \in Int, NEW b \in Int
  PROVE  Max({ a, b }) = IF a >= b THEN a ELSE b
<1>1. \E m \in { a, b } : \A x \in { a, b } : m >= x
  OBVIOUS
<1>2. Max({ a, b }) \in { a, b } /\ \A x \in { a, b } : Max({ a, b }) >= x
  BY <1>1 DEF Max
<1>3. QED BY <1>2

LEMMA MinOfTwo ==
  ASSUME NEW a \in Int, NEW b \in Int
  PROVE  Min({ a, b }) = IF a <= b THEN a ELSE b
<1>1. \E m \in { a, b } : \A x \in { a, b } : m <= x
  OBVIOUS
<1>2. Min({ a, b }) \in { a, b } /\ \A x \in { a, b } : Min({ a, b }) <= x
  BY <1>1 DEF Min
<1>3. QED BY <1>2

LEMMA MinOfThree ==
  ASSUME NEW a \in Int, NEW b \in Int, NEW c \in Int
  PROVE  /\ Min({ a, b, c }) \in { a, b, c }
         /\ Min({ a, b, c }) <= a /\ Min({ a, b, c }) <= b /\ Min({ a, b, c }) <= c
<1>1. \E m \in { a, b, c } : \A x \in { a, b, c } : m <= x
  <2>1. CASE a <= b /\ a <= c
    BY <2>1
  <2>2. CASE b <= a /\ b <= c
    BY <2>2
  <2>3. CASE c <= a /\ c <= b
    BY <2>3
  <2>4. QED BY <2>1, <2>2, <2>3
<1>2. Min({ a, b, c }) \in { a, b, c } /\ \A x \in { a, b, c } : Min({ a, b, c }) <= x
  BY <1>1 DEF Min
<1>3. QED BY <1>2

\* A reading of the clock is a day and a minute of it.
LEMMA DayAndMinute ==
  ASSUME NEW r \in Int
  PROVE  /\ r \div DayLength \in Int /\ r % DayLength \in Int
         /\ 0 <= r % DayLength /\ r % DayLength < DayLength
         /\ r = ((r \div DayLength) * DayLength) + (r % DayLength)
BY ConstantAssumption

LEMMA LaterDay ==
  ASSUME NEW d \in Int, NEW e \in Int, d < e
  PROVE  (d * DayLength) + DayLength <= e * DayLength
<1>0. DayLength \in Nat \ {0}
  BY ConstantAssumption
<1>1. PICK k \in Nat : e = d + 1 + k
  <2>1. e - d - 1 \in Nat
    OBVIOUS
  <2>2. e = d + 1 + (e - d - 1)
    OBVIOUS
  <2>3. QED BY <2>1, <2>2
<1>2. k * DayLength >= 0
  BY <1>0, Z3
<1>3. e * DayLength = (d * DayLength) + DayLength + (k * DayLength)
  BY <1>1, <1>0, Z3
<1>4. d * DayLength \in Int /\ e * DayLength \in Int /\ k * DayLength \in Int
  BY <1>0
<1>5. QED BY <1>2, <1>3, <1>4, <1>0

LEMMA OnlyDay ==
  ASSUME NEW r \in Int, NEW d \in Int, NEW m \in Int, 0 <= m, m < DayLength,
         r = (d * DayLength) + m
  PROVE  r \div DayLength = d /\ r % DayLength = m
<1>0. DayLength \in Nat \ {0}
  BY ConstantAssumption
<1>1. d * DayLength \in Int /\ (r \div DayLength) * DayLength \in Int
  BY <1>0, DayAndMinute
<1>2. r \div DayLength = d
  <2>1. CASE r \div DayLength < d
    BY <2>1, <1>0, <1>1, DayAndMinute, LaterDay
  <2>2. CASE d < r \div DayLength
    BY <2>2, <1>0, <1>1, DayAndMinute, LaterDay
  <2>3. QED BY <2>1, <2>2, DayAndMinute
<1>3. QED BY <1>0, <1>1, <1>2, DayAndMinute

LEMMA DaysAreOrdered ==
  ASSUME NEW r \in Int, NEW s \in Int, r <= s
  PROVE  r \div DayLength <= s \div DayLength
<1>0. DayLength \in Nat \ {0}
  BY ConstantAssumption
<1>1. /\ (r \div DayLength) * DayLength \in Int /\ (s \div DayLength) * DayLength \in Int
      /\ r \div DayLength \in Int /\ s \div DayLength \in Int
  BY <1>0, DayAndMinute
<1>2. CASE s \div DayLength < r \div DayLength
  BY <1>2, <1>0, <1>1, DayAndMinute, LaterDay
<1>3. QED BY <1>1, <1>2

-----------------------------------------------------------------------------
(* Intervals and their union. *)

\* A finite set of intervals of whole minutes, none of them empty.
Spans(S) ==
  /\ IsFiniteSet(S)
  /\ \A i \in S : i.start \in Int /\ i.end \in Int /\ i.start < i.end

In(S, t) == \E i \in S : i.start <= t /\ t < i.end

LEMMA StartsFinite ==
  ASSUME NEW S, Spans(S)
  PROVE  /\ { i.start : i \in S } \in SUBSET Int /\ IsFiniteSet({ i.start : i \in S })
         /\ { i.end : i \in S } \in SUBSET Int /\ IsFiniteSet({ i.end : i \in S })
<1> DEFINE A == { i.start : i \in S }
           B == { i.end : i \in S }
           f == [ i \in S |-> i.start ]
           g == [ i \in S |-> i.end ]
<1>1. f \in Surjection(S, A) /\ g \in Surjection(S, B)
  BY DEF Surjection
<1>2. A \in SUBSET Int /\ B \in SUBSET Int /\ IsFiniteSet(S)
  BY DEF Spans
<1> HIDE DEF A, B, f, g
<1>3. IsFiniteSet(A) /\ IsFiniteSet(B)
  BY <1>1, <1>2, FS_Surjection
<1>4. QED BY <1>2, <1>3 DEF A, B

LastEnd(S, a) == Max({ j.end : j \in Group(S, a) })

\* The part of the set that one window takes in.
LEMMA GroupFacts ==
  ASSUME NEW S, Spans(S), NEW a \in Openings(S)
  PROVE  /\ a \in Int
         /\ \E i \in S : i.start = a /\ \A j \in S : j.start < a => j.end < a
         /\ \E m \in Group(S, a) : /\ m.end = LastEnd(S, a)
                                   /\ \A j \in Group(S, a) : j.end <= m.end
         /\ LastEnd(S, a) \in Int
         /\ a < LastEnd(S, a)
<1> DEFINE G == Group(S, a)
           E == { j.end : j \in G }
<1>1. PICK i \in S : i.start = a /\ \A j \in S : j.start < a => j.end < a
  BY DEF Openings
<1>2. a \in Int /\ i.end \in Int /\ a < i.end
  BY <1>1 DEF Spans
<1>3. i \in G
  BY <1>1, <1>2 DEF Group
<1>4. G \subseteq S /\ Spans(G)
  <2>1. G \subseteq S
    BY DEF Group
  <2>2. IsFiniteSet(G)
    BY <2>1, FS_Subset DEF Spans
  <2>3. QED BY <2>1, <2>2 DEF Spans
<1>5. E \in SUBSET Int /\ IsFiniteSet(E) /\ i.end \in E
  <2> HIDE DEF G
  <2> QED BY <1>3, <1>4, StartsFinite
<1>6. Max(E) \in E /\ \A x \in E : x <= Max(E)
  <2> HIDE DEF E
  <2> QED BY <1>5, MaxIsGreatest
<1>7. PICK m \in G : m.end = Max(E)
  BY <1>6
<1>8. \A j \in G : j.end <= m.end
  BY <1>6, <1>7
<1>9. Max(E) \in Int /\ a < Max(E)
  <2> DEFINE e == Max(E)
  <2>1. e \in Int /\ i.end <= e
    BY <1>5, <1>6
  <2> HIDE DEF E, e
  <2>2. QED BY <2>1, <1>2 DEF e
<1>10. Max(E) = LastEnd(S, a)
  BY DEF LastEnd
<1>11. QED
  <2> HIDE DEF E, G
  <2> QED BY <1>1, <1>2, <1>7, <1>8, <1>9, <1>10 DEF G

\* A window is not empty, and begins where one of its intervals does.
LEMMA WindowFacts ==
  ASSUME NEW S, Spans(S), NEW w \in Merge(S)
  PROVE  /\ w.start \in Int /\ w.end \in Int /\ w.start < w.end
         /\ w.start \in Openings(S) /\ w = Span(w.start, LastEnd(S, w.start))
         /\ w.end = LastEnd(S, w.start)
         /\ \E i \in S : i.start = w.start
<1>1. PICK a \in Openings(S) : w = Span(a, LastEnd(S, a))
  BY DEF Merge, LastEnd
<1>2. w.start = a /\ w.end = LastEnd(S, a)
  BY <1>1 DEF Span
<1>3. QED BY <1>1, <1>2, GroupFacts

\* Between the start and the end of a window there is no gap: the first interval
\* of the group that begins after a gap would open a window of its own.
LEMMA NoGapInside ==
  ASSUME NEW S, Spans(S), NEW w \in Merge(S), NEW t \in Int, w.start <= t, t < w.end
  PROVE  In(S, t)
<1> DEFINE G == Group(S, w.start)
           Later == { j \in G : t < j.start }
           L == { j.start : j \in Later }
<1>1. /\ w.start \in Int /\ w.end \in Int /\ w.start \in Openings(S)
      /\ w.end = LastEnd(S, w.start)
  BY WindowFacts
<1>2. PICK m \in G : m.end = w.end /\ \A j \in G : j.end <= m.end
  BY <1>1, GroupFacts
<1>3. SUFFICES ASSUME ~In(S, t)  PROVE FALSE
  OBVIOUS
<1>4. G \subseteq S /\ \A i \in S : i.start \in Int /\ i.end \in Int /\ i.start < i.end
  BY DEF Group, Spans
<1>5. m \in Later
  BY <1>1, <1>2, <1>3, <1>4 DEF In
<1>6. Spans(Later)
  <2>1. Later \in SUBSET S
    BY <1>4
  <2>2. IsFiniteSet(Later)
    <3> HIDE DEF Later
    <3> QED BY <2>1, FS_Subset DEF Spans
  <2>3. QED BY <2>1, <2>2 DEF Spans
<1>7. PICK k \in Later : \A j \in Later : k.start <= j.start
  <2>1. L \in SUBSET Int /\ IsFiniteSet(L) /\ L # {}
    <3> HIDE DEF Later
    <3> QED BY <1>5, <1>6, StartsFinite
  <2>2. PICK l \in L : \A x \in L : l <= x
    <3> HIDE DEF L
    <3> QED BY <2>1, HasLeast
  <2>3. QED BY <2>2
<1>8. \A j \in S : j.start < k.start => j.end < k.start
  <2>1. SUFFICES ASSUME NEW j \in S, j.start < k.start  PROVE j.end < k.start
    OBVIOUS
  <2>2. k \in G /\ k \in S /\ t < k.start
    BY <1>4
  <2>3. CASE j.start <= t
    BY <2>1, <2>2, <2>3, <1>3, <1>4 DEF In
  <2>4. CASE t < j.start
    <3>1. j \in G
      <4>1. j.start >= w.start
        BY <2>4, <1>1, <1>4
      <4>2. \A b \in Openings(S) : b <= j.start => b <= w.start
        <5>1. SUFFICES ASSUME NEW b \in Openings(S), b <= j.start  PROVE b <= w.start
          OBVIOUS
        <5>2. b \in Int
          BY GroupFacts
        <5>3. b <= k.start
          BY <5>1, <5>2, <2>1, <2>2, <1>4
        <5>4. QED BY <5>3, <2>2 DEF Group
      <4>3. QED BY <4>1, <4>2, <2>1 DEF Group
    <3>2. k.start <= j.start
      BY <3>1, <2>4, <1>7
    <3>3. QED BY <3>2, <2>1, <2>2, <1>4
  <2>5. QED BY <2>1, <2>3, <2>4, <1>4
<1>9. k.start \in Openings(S)
  BY <1>8, <1>4 DEF Openings
<1>10. k.start <= w.start
  BY <1>9, <1>4 DEF Group
<1>11. QED BY <1>10, <1>1, <1>4

\* Two windows that begin at different minutes do not even touch.
LEMMA WindowsApart ==
  ASSUME NEW S, Spans(S), NEW v \in Merge(S), NEW w \in Merge(S), v.start < w.start
  PROVE  v.end < w.start
<1>1. v.start \in Int /\ w.start \in Int /\ v.start \in Openings(S) /\ w.start \in Openings(S)
  BY WindowFacts
<1>2. v.end = LastEnd(S, v.start)
  BY WindowFacts
<1>3. PICK m \in Group(S, v.start) : m.end = v.end
  BY <1>1, <1>2, GroupFacts
<1>4. m \in S /\ m.start \in Int /\ \A b \in Openings(S) : b <= m.start => b <= v.start
  BY DEF Group, Spans
<1>5. m.start < w.start
  <2>1. ~(w.start <= m.start)
    BY <1>1, <1>4
  <2>2. QED BY <2>1, <1>1, <1>4
<1>6. \A j \in S : j.start < w.start => j.end < w.start
  BY <1>1, GroupFacts
<1>7. QED BY <1>3, <1>4, <1>5, <1>6

LEMMA SameWindow ==
  ASSUME NEW S, Spans(S), NEW v \in Merge(S), NEW w \in Merge(S), v.start = w.start
  PROVE  v = w
<1>1. /\ v = Span(v.start, LastEnd(S, v.start))
      /\ w = Span(w.start, LastEnd(S, w.start))
  BY WindowFacts
<1>2. QED BY <1>1

\* Every interval is in a window.
LEMMA NothingDropped ==
  ASSUME NEW S, Spans(S), NEW i \in S
  PROVE  \E w \in Merge(S) : w.start <= i.start /\ i.end <= w.end
<1> DEFINE Before == { b \in Openings(S) : b <= i.start }
           A == { j.start : j \in S }
<1>1. A \in SUBSET Int /\ IsFiniteSet(A) /\ A # {}
  BY StartsFinite
<1>2. Openings(S) \subseteq A
  BY DEF Openings
<1>3. Before \in SUBSET Int /\ IsFiniteSet(Before)
  <2>1. Before \in SUBSET A
    BY <1>2
  <2> HIDE DEF A, Before
  <2>2. QED BY <1>1, <2>1, FS_Subset
<1>4. Before # {}
  <2>1. PICK a \in A : \A x \in A : a <= x
    <3> HIDE DEF A
    <3> QED BY <1>1, HasLeast
  <2>2. PICK j \in S : j.start = a
    BY <2>1
  <2>3. \A k \in S : ~(k.start < j.start)
    BY <2>1, <2>2 DEF Spans
  <2>4. j.start \in Openings(S) /\ j.start <= i.start
    BY <2>1, <2>2, <2>3 DEF Openings
  <2>5. QED BY <2>4
<1>5. Max(Before) \in Before /\ \A b \in Before : b <= Max(Before)
  <2> HIDE DEF Before
  <2> QED BY <1>3, <1>4, MaxIsGreatest
<1> DEFINE a == Max(Before)
           w == Span(a, LastEnd(S, a))
<1>6. a \in Openings(S) /\ a <= i.start /\ \A b \in Openings(S) : b <= i.start => b <= a
  BY <1>5
<1>7. w \in Merge(S)
  <2> HIDE DEF a
  <2> QED BY <1>6 DEF Merge, LastEnd
<1>8. i \in Group(S, a)
  <2>1. a \in Int /\ i.start \in Int
    BY <1>3, <1>5 DEF Spans
  <2>2. i.start >= a
    BY <2>1, <1>6
  <2> HIDE DEF a
  <2>3. QED BY <2>2, <1>6 DEF Group
<1>9. i.end <= LastEnd(S, a)
  <2> HIDE DEF a
  <2> QED BY <1>6, <1>8, GroupFacts
<1>10. w.start = a /\ w.end = LastEnd(S, a)
  BY DEF Span
<1>11. QED
  <2> HIDE DEF a
  <2> QED BY <1>6, <1>7, <1>9, <1>10

\* What is covered minute by minute is covered by one window.
LEMMA OneWindow ==
  ASSUME NEW S, Spans(S), NEW a \in Int, NEW b \in Int, a < b,
         \A t \in Int : a <= t /\ t < b => In(S, t)
  PROVE  \E w \in Merge(S) : w.start <= a /\ b <= w.end
<1>1. PICK i \in S : i.start <= a /\ a < i.end
  BY DEF In
<1>2. PICK w \in Merge(S) : w.start <= i.start /\ i.end <= w.end
  BY NothingDropped
<1>3. /\ i.start \in Int /\ i.end \in Int
      /\ w.start \in Int /\ w.end \in Int /\ w.start < w.end
  BY WindowFacts DEF Spans
<1>4. w.start <= a /\ a < w.end
  BY <1>1, <1>2, <1>3
<1>5. CASE w.end < b
  <2>1. PICK j \in S : j.start <= w.end /\ w.end < j.end
    BY <1>3, <1>4, <1>5 DEF In
  <2>2. PICK v \in Merge(S) : v.start <= j.start /\ j.end <= v.end
    BY NothingDropped
  <2>3. /\ j.start \in Int /\ j.end \in Int
        /\ v.start \in Int /\ v.end \in Int /\ v.start < v.end
    BY WindowFacts DEF Spans
  <2>4. v.start <= w.end /\ w.end < v.end
    BY <2>1, <2>2, <2>3, <1>3
  <2>5. CASE v.start < w.start
    <3>1. v.end < w.start
      BY <2>5, WindowsApart
    <3>2. QED BY <3>1, <2>3, <2>4, <1>3
  <2>6. CASE w.start < v.start
    <3>1. w.end < v.start
      BY <2>6, WindowsApart
    <3>2. QED BY <3>1, <2>3, <2>4, <1>3
  <2>7. CASE v.start = w.start
    <3>1. v = w
      BY <2>7, SameWindow
    <3>2. QED BY <3>1, <2>4, <1>3
  <2>8. QED BY <2>3, <2>5, <2>6, <2>7, <1>3
<1>6. QED BY <1>3, <1>4, <1>5

-----------------------------------------------------------------------------
(* Hours on the clock of their owner. *)

LEMMA ZoneFacts ==
  ASSUME NEW o \in Owner
  PROVE  Zone[o].before \in Int /\ Zone[o].after \in Int /\ Zone[o].change \in Int
BY ConstantAssumption

LEMMA ClockFacts ==
  ASSUME NEW o \in Owner, NEW t \in Int
  PROVE  /\ Reading(Zone[o], t) \in Int
         /\ LocalDay(Zone[o], t) = Reading(Zone[o], t) \div DayLength
         /\ LocalDay(Zone[o], t) \in Int
<1>1. Reading(Zone[o], t) \in Int
  BY ZoneFacts DEF Reading
<1>2. LocalDay(Zone[o], t) = Reading(Zone[o], t) \div DayLength
  BY DEF LocalDay, Reading
<1>3. QED BY <1>1, <1>2, DayAndMinute

LEMMA InstantType ==
  ASSUME NEW o \in Owner, NEW day \in Int, NEW minute \in Int
  PROVE  Instant(Zone[o], day, minute) \in Int
<1>1. day * DayLength \in Int
  BY ConstantAssumption
<1> DEFINE r == (day * DayLength) + minute
<1>2. r \in Int
  BY <1>1
<1> HIDE DEF r
<1>3. Instant(Zone[o], day, minute) =
        IF r - Zone[o].before < Zone[o].change \/ r - Zone[o].after < Zone[o].change
        THEN r - Zone[o].before ELSE r - Zone[o].after
  BY DEF Instant, r
<1>4. QED BY <1>2, <1>3, ZoneFacts

\* An hour that the clock neither skips nor shows twice comes before a minute just
\* if it comes before the reading of that minute.
LEMMA InstantInOrder ==
  ASSUME NEW o \in Owner, NEW day \in Int, NEW minute \in Int, NEW t \in Int,
         ~ /\ Zone[o].change + Zone[o].before < (day * DayLength) + minute
           /\ (day * DayLength) + minute < Zone[o].change + Zone[o].after,
         ~ /\ Zone[o].change + Zone[o].after < (day * DayLength) + minute
           /\ (day * DayLength) + minute < Zone[o].change + Zone[o].before
  PROVE  Instant(Zone[o], day, minute) <= t <=> (day * DayLength) + minute <= Reading(Zone[o], t)
<1> DEFINE r == (day * DayLength) + minute
           b == Zone[o].before
           a == Zone[o].after
           c == Zone[o].change
<1>1. r \in Int
  <2>1. day * DayLength \in Int
    BY ConstantAssumption
  <2>2. QED BY <2>1
<1>2. a \in Int /\ b \in Int /\ c \in Int
  BY ZoneFacts
<1>3. Instant(Zone[o], day, minute) = IF r - b < c \/ r - a < c THEN r - b ELSE r - a
  BY DEF Instant
<1>4. Reading(Zone[o], t) = IF t < c THEN t + b ELSE t + a
  BY DEF Reading
<1>5. ~(c + b < r /\ r < c + a) /\ ~(c + a < r /\ r < c + b)
  OBVIOUS
<1> HIDE DEF r, a, b, c
<1>6. (IF r - b < c \/ r - a < c THEN r - b ELSE r - a) <= t
        <=> r <= (IF t < c THEN t + b ELSE t + a)
  BY <1>1, <1>2, <1>5
<1>7. Instant(Zone[o], day, minute) <= t <=> r <= Reading(Zone[o], t)
  BY <1>3, <1>4, <1>6
<1>8. QED BY <1>7 DEF r

LEMMA HourIsPlain ==
  ASSUME PlainHours, NEW rule \in Rule, NEW day \in Int,
         NEW minute \in { rule.start_time, rule.end_time }
  PROVE  /\ minute \in Int /\ 0 <= minute /\ minute < DayLength
         /\ ~ /\ Zone[rule.owner].change + Zone[rule.owner].before < (day * DayLength) + minute
              /\ (day * DayLength) + minute < Zone[rule.owner].change + Zone[rule.owner].after
         /\ ~ /\ Zone[rule.owner].change + Zone[rule.owner].after < (day * DayLength) + minute
              /\ (day * DayLength) + minute < Zone[rule.owner].change + Zone[rule.owner].before
<1> DEFINE r == (day * DayLength) + minute
           b == Zone[rule.owner].change + Zone[rule.owner].before
           a == Zone[rule.owner].change + Zone[rule.owner].after
<1>1. /\ minute \in Int /\ 0 <= minute /\ minute < DayLength
      /\ rule.owner \in Owner /\ DayLength \in Nat \ {0}
  BY ConstantAssumption
<1>2. a \in Int /\ b \in Int
  BY <1>1, ZoneFacts
<1>3. r \in Int
  <2>1. day * DayLength \in Int
    BY <1>1
  <2>2. QED BY <1>1, <2>1
<1>4. r % DayLength = minute
  <2> HIDE DEF r
  <2>1. r = (day * DayLength) + minute
    BY DEF r
  <2>2. QED BY <2>1, <1>1, <1>3, OnlyDay
<1>5. \A reading \in (b + 1 .. a - 1) \cup (a + 1 .. b - 1) :
        reading % DayLength \notin { rule.start_time, rule.end_time }
  BY DEF PlainHours
<1>6. r \notin (b + 1 .. a - 1) \cup (a + 1 .. b - 1)
  <2> HIDE DEF r, a, b
  <2> QED BY <1>4, <1>5
<1>7. ~(b < r /\ r < a) /\ ~(a < r /\ r < b)
  <2> HIDE DEF r, a, b
  <2> QED BY <1>2, <1>3, <1>6
<1>8. QED BY <1>1, <1>7

\* What a rule opens on a day are the minutes whose reading is on that day and
\* within its hours.
LEMMA RuleMinutes ==
  ASSUME PlainHours, NEW rule \in Rule, NEW day \in Int, NEW t \in Int
  PROVE  /\ Instant(Zone[rule.owner], day, rule.start_time) <= t
         /\ t < Instant(Zone[rule.owner], day, rule.end_time)
         <=>
         /\ day = Reading(Zone[rule.owner], t) \div DayLength
         /\ rule.start_time <= Reading(Zone[rule.owner], t) % DayLength
         /\ Reading(Zone[rule.owner], t) % DayLength < rule.end_time
<1> DEFINE z == Zone[rule.owner]
           x == Reading(z, t)
           first == rule.start_time
           last == rule.end_time
           base == day * DayLength
<1>1. /\ rule.owner \in Owner /\ DayLength \in Nat \ {0}
      /\ first \in Int /\ last \in Int /\ 0 <= first /\ first < last /\ last < DayLength
  BY ConstantAssumption
<1>2. x \in Int /\ base \in Int
  BY <1>1, ClockFacts
<1>3. Instant(z, day, first) <= t <=> base + first <= x
  BY <1>1, HourIsPlain, InstantInOrder
<1>4. Instant(z, day, last) <= t <=> base + last <= x
  BY <1>1, HourIsPlain, InstantInOrder
<1>5. Instant(z, day, last) \in Int
  BY <1>1, InstantType
<1>6. t < Instant(z, day, last) <=> x < base + last
  <2> HIDE DEF x, z, first, last, base
  <2> QED BY <1>1, <1>2, <1>4, <1>5
<1>7. base + first <= x /\ x < base + last
        <=> day = x \div DayLength /\ first <= x % DayLength /\ x % DayLength < last
  <2>1. ASSUME base + first <= x, x < base + last
        PROVE  day = x \div DayLength /\ first <= x % DayLength /\ x % DayLength < last
    <3> DEFINE m == x - base
    <3>1. m \in Int /\ first <= m /\ m < last /\ x = base + m
      <4> HIDE DEF x, first, last, base
      <4> QED BY <1>1, <1>2, <2>1
    <3>2. 0 <= m /\ m < DayLength
      <4> HIDE DEF first, last, m
      <4> QED BY <1>1, <3>1
    <3>3. x \div DayLength = day /\ x % DayLength = m
      <4>1. x = (day * DayLength) + m
        BY <3>1
      <4> HIDE DEF x, m
      <4>2. QED BY <4>1, <1>2, <3>1, <3>2, OnlyDay
    <3>4. QED BY <3>1, <3>3
  <2>2. ASSUME day = x \div DayLength, first <= x % DayLength, x % DayLength < last
        PROVE  base + first <= x /\ x < base + last
    <3>1. x = base + (x % DayLength) /\ x % DayLength \in Int
      <4>1. x = ((x \div DayLength) * DayLength) + (x % DayLength) /\ x % DayLength \in Int
        <5> HIDE DEF x
        <5> QED BY <1>2, DayAndMinute
      <4>2. QED BY <4>1, <2>2
    <3> DEFINE m == x % DayLength
    <3>2. m \in Int /\ x = base + m /\ first <= m /\ m < last
      BY <3>1, <2>2
    <3> HIDE DEF x, first, last, base, m
    <3>3. QED BY <3>2, <1>1, <1>2
  <2>3. QED BY <2>1, <2>2
<1>8. QED BY <1>3, <1>6, <1>7

-----------------------------------------------------------------------------
(* Rules that are applied, and rules that are in force. *)

\* The engine's word on a minute: by the first of its day the rule applies to that.
RuleIsApplied(rule, z, t) ==
  LET day == Reading(z, t) \div DayLength
      minute == Reading(z, t) % DayLength
  IN /\ RuleAppliesOn(rule, day, z)
     /\ rule.start_time <= minute /\ minute < rule.end_time

\* Of two hours of the day one comes along in any stretch of a day less a minute.
LEMMA OneOfTwoHours ==
  ASSUME NEW s \in Int, NEW e \in Int, 0 <= s, s < e, e < DayLength, NEW x \in Int
  PROVE  \E r \in Int : /\ x <= r /\ r <= x + DayLength - 2
                        /\ r % DayLength = s \/ r % DayLength = e
<1> DEFINE D == DayLength
           k == x \div D
           m == x % D
           base == k * D
           next == (k + 1) * D
<1>1. D \in Int /\ D > 0 /\ k \in Int /\ m \in Int /\ 0 <= m /\ m < D
  BY ConstantAssumption, DayAndMinute
<1>2. base \in Int /\ next \in Int /\ next = base + D
  <2> HIDE DEF D, k
  <2> QED BY <1>1, Z3
<1>3. x = base + m
  BY DayAndMinute
<1>4. ASSUME NEW h \in { s, e }
      PROVE  (base + h) % D = h /\ (next + h) % D = h
  <2>1. h \in Int /\ 0 <= h /\ h < D
    BY <1>1
  <2> DEFINE u == base + h
             v == next + h
  <2>2. u \in Int /\ v \in Int /\ u = (k * D) + h /\ v = ((k + 1) * D) + h
    BY <1>2, <2>1
  <2>3. k + 1 \in Int
    BY <1>1
  <2> HIDE DEF u, v, k
  <2>4. u % D = h
    BY <1>1, <2>1, <2>2, OnlyDay
  <2> DEFINE j == k + 1
  <2>5. j \in Int /\ v = (j * D) + h
    BY <2>2, <2>3
  <2> HIDE DEF j
  <2>6. v % D = h
    BY <2>1, <2>2, <2>5, OnlyDay
  <2>7. QED BY <2>4, <2>6 DEF u, v
<1> HIDE DEF base, next, k, m, D
<1>5. CASE m <= s
  <2>1. base + s \in Int /\ x <= base + s /\ base + s <= x + D - 2
    BY <1>1, <1>2, <1>3, <1>5 DEF D
  <2>2. (base + s) % D = s
    BY <1>4
  <2>3. QED BY <2>1, <2>2 DEF D
<1>6. CASE s + 1 = m
  <2>1. base + e \in Int /\ x <= base + e /\ base + e <= x + D - 2
    BY <1>1, <1>2, <1>3, <1>6 DEF D
  <2>2. (base + e) % D = e
    BY <1>4
  <2>3. QED BY <2>1, <2>2 DEF D
<1>7. CASE s + 1 < m
  <2>1. next + s \in Int /\ x <= next + s /\ next + s <= x + D - 2
    BY <1>1, <1>2, <1>3, <1>7 DEF D
  <2>2. (next + s) % D = s
    BY <1>4
  <2>3. QED BY <2>1, <2>2 DEF D
<1>8. QED BY <1>1, <1>5, <1>6, <1>7

\* A clock that a whole day is put forward or back would skip the hours of a rule.
LEMMA JumpIsShort ==
  ASSUME PlainHours, NEW rule \in Rule
  PROVE  /\ Zone[rule.owner].after - Zone[rule.owner].before < DayLength
         /\ Zone[rule.owner].before - Zone[rule.owner].after < DayLength
<1> DEFINE b == Zone[rule.owner].before
           a == Zone[rule.owner].after
           c == Zone[rule.owner].change
           D == DayLength
           s == rule.start_time
           e == rule.end_time
<1>1. /\ rule.owner \in Owner /\ D \in Nat \ {0}
      /\ s \in Int /\ e \in Int /\ 0 <= s /\ s < e /\ e < D
  BY ConstantAssumption
<1>2. a \in Int /\ b \in Int /\ c \in Int
  BY <1>1, ZoneFacts
<1>3. \A r \in Int :
        (c + b < r /\ r < c + a) \/ (c + a < r /\ r < c + b) => r % D # s /\ r % D # e
  <2> DEFINE f == Zone[rule.owner].change + Zone[rule.owner].before
             g == Zone[rule.owner].change + Zone[rule.owner].after
  <2>1. \A r \in (f + 1 .. g - 1) \cup (g + 1 .. f - 1) :
          r % DayLength \notin { rule.start_time, rule.end_time }
    BY DEF PlainHours
  <2>2. f \in Int /\ g \in Int /\ f = c + b /\ g = c + a
    BY <1>2
  <2> HIDE DEF f, g
  <2>3. \A r \in Int : (f < r /\ r < g) \/ (g < r /\ r < f)
                          => r \in (f + 1 .. g - 1) \cup (g + 1 .. f - 1)
    BY <2>2
  <2>4. \A r \in Int : (f < r /\ r < g) \/ (g < r /\ r < f) => r % D # s /\ r % D # e
    BY <2>1, <2>3
  <2>5. QED BY <2>2, <2>4
<1>4. \A x \in Int : \E r \in Int : x <= r /\ r <= x + D - 2 /\ (r % D = s \/ r % D = e)
  BY <1>1, OneOfTwoHours
<1> HIDE DEF a, b, c, D, s, e
<1>5. ASSUME a - b >= D  PROVE FALSE
  <2>1. c + b + 1 \in Int
    BY <1>2
  <2>2. PICK r \in Int : /\ c + b + 1 <= r /\ r <= (c + b + 1) + D - 2
                         /\ r % D = s \/ r % D = e
    BY <1>4, <2>1
  <2>3. c + b < r /\ r < c + a
    BY <1>1, <1>2, <1>5, <2>2
  <2>4. QED BY <1>3, <2>2, <2>3
<1>6. ASSUME b - a >= D  PROVE FALSE
  <2>1. c + a + 1 \in Int
    BY <1>2
  <2>2. PICK r \in Int : /\ c + a + 1 <= r /\ r <= (c + a + 1) + D - 2
                         /\ r % D = s \/ r % D = e
    BY <1>4, <2>1
  <2>3. c + a < r /\ r < c + b
    BY <1>1, <1>2, <1>6, <2>2
  <2>4. QED BY <1>3, <2>2, <2>3
<1>7. a - b < D /\ b - a < D
  BY <1>1, <1>2, <1>5, <1>6
<1>8. QED BY <1>7 DEF a, b, D

\* The minute that the engine takes for the first of a day is of that day.
LEMMA DayHasIt ==
  ASSUME PlainHours, NEW rule \in Rule, NEW t \in Int
  PROVE  LET z == Zone[rule.owner]
             u == Instant(z, LocalDay(z, t), 0)
         IN /\ u \in t - 2 * DayLength .. t + 2 * DayLength
            /\ LocalDay(z, u) = LocalDay(z, t)
<1> DEFINE z == Zone[rule.owner]
           b == z.before
           a == z.after
           c == z.change
           D == DayLength
           day == LocalDay(z, t)
           base == day * D
           u == Instant(z, day, 0)
           m == Reading(z, t) % D
           x == Reading(z, u)
<1>1. rule.owner \in Owner /\ D \in Nat \ {0} /\ D \in Int /\ D > 0
  BY ConstantAssumption
<1>2. a \in Int /\ b \in Int /\ c \in Int /\ day \in Int
  BY <1>1, ZoneFacts, ClockFacts
<1>3. base \in Int /\ m \in Int /\ 0 <= m /\ m < D /\ Reading(z, t) = base + m
  <2>1. Reading(z, t) \in Int /\ day = Reading(z, t) \div D
    BY <1>1, ClockFacts
  <2>2. day * D \in Int
    BY <1>1, <1>2
  <2> DEFINE y == Reading(z, t)
  <2>3. y \in Int /\ day = y \div D
    BY <2>1
  <2> HIDE DEF y, day, D
  <2>4. y % D \in Int /\ 0 <= y % D /\ y % D < D /\ y = ((y \div D) * D) + (y % D)
    BY <2>3, DayAndMinute DEF D
  <2>5. QED BY <2>2, <2>3, <2>4 DEF y
<1>4. u = IF base - b < c \/ base - a < c THEN base - b ELSE base - a
  <2>1. base + 0 = base
    BY <1>3
  <2> HIDE DEF base
  <2>2. u = IF (base + 0) - b < c \/ (base + 0) - a < c THEN (base + 0) - b ELSE (base + 0) - a
    BY DEF Instant, base
  <2>3. QED BY <2>1, <2>2
<1>5. base + m = IF t < c THEN t + b ELSE t + a
  BY <1>3 DEF Reading
<1>6. x = IF u < c THEN u + b ELSE u + a
  BY DEF Reading
<1>7. a - b < D /\ b - a < D
  BY JumpIsShort
<1>8. u \in Int
  BY <1>1, <1>2, InstantType
<1>9. LocalDay(z, u) = x \div D /\ x \in Int
  <2> HIDE DEF u
  <2> QED BY <1>1, <1>8, ClockFacts
<1> HIDE DEF x, m, u, base, day, a, b, c, D, z
<1>10. base <= x /\ x < base + D
  BY <1>1, <1>2, <1>3, <1>4, <1>6, <1>7
<1>11. x \div D = day
  <2> DEFINE n == x - base
  <2>1. n \in Int /\ 0 <= n /\ n < D /\ x = base + n
    BY <1>1, <1>3, <1>9, <1>10
  <2> HIDE DEF n
  <2>2. x = (day * D) + n
    BY <2>1 DEF base
  <2>3. QED BY <1>2, <1>9, <2>1, <2>2, OnlyDay DEF D
<1>12. t - 2 * D <= u /\ u <= t + 2 * D
  BY <1>1, <1>2, <1>3, <1>4, <1>5, <1>7
<1>13. 2 * D \in Int
  BY <1>1
<1>14. u \in t - 2 * D .. t + 2 * D
  BY <1>8, <1>12, <1>13
<1>15. LocalDay(z, u) = day
  BY <1>9, <1>11
<1>16. QED BY <1>14, <1>15 DEF u, day, z, D

\* A rule that is applied to a minute opens it: at the first minute of the day, by which
\* the engine judges, the rule is in force.
LEMMA AppliedOpens ==
  ASSUME PlainHours, NEW rule \in Rule, NEW t \in Int, RuleIsApplied(rule, Zone[rule.owner], t)
  PROVE  RuleOpens(rule, Zone[rule.owner], t)
<1> DEFINE z == Zone[rule.owner]
           day == LocalDay(z, t)
           u == Instant(z, day, 0)
<1>1. rule.owner \in Owner /\ day = Reading(z, t) \div DayLength
  <2>1. rule.owner \in Owner
    BY ConstantAssumption
  <2>2. QED BY <2>1, ClockFacts
<1>2. /\ RuleAppliesOn(rule, day, z)
      /\ rule.start_time <= Reading(z, t) % DayLength
      /\ Reading(z, t) % DayLength < rule.end_time
  BY <1>1 DEF RuleIsApplied
<1>3. /\ u \in t - 2 * DayLength .. t + 2 * DayLength
      /\ LocalDay(z, u) = LocalDay(z, t)
  BY DayHasIt
<1>4. /\ rule.weekday = day % WeekLength
      /\ InForce(rule, u)
  BY <1>2 DEF RuleAppliesOn, InForce
<1> HIDE DEF u
<1>5. QED BY <1>2, <1>3, <1>4 DEF RuleOpens

-----------------------------------------------------------------------------
(* The hours of one owner. *)

RuleSpan(z, rule, day) ==
  Span(Instant(z, day, rule.start_time), Instant(z, day, rule.end_time))

\* Some of the rules of an owner, and the days from one to another.
Hours(owned, o) == owned \subseteq { rule \in Rule : rule.owner = o } /\ IsFiniteSet(owned)

OpenAt(owned, o, t) == \E rule \in owned : RuleIsApplied(rule, Zone[o], t)

LEMMA RuleWindowsHave ==
  ASSUME NEW owned, NEW days, NEW z, NEW i, i \in RuleWindows(owned, days, z)
  PROVE  /\ i.end > i.start
         /\ \E rule \in owned, day \in days :
              RuleAppliesOn(rule, day, z) /\ i = RuleSpan(z, rule, day)
<1>1. PICK p \in owned \X days : RuleAppliesOn(p[1], p[2], z) /\ i = RuleSpan(z, p[1], p[2])
  BY DEF RuleWindows, RuleSpan
<1>2. i.end > i.start
  BY DEF RuleWindows
<1>3. QED BY <1>1, <1>2

LEMMA RuleWindowsTake ==
  ASSUME NEW owned, NEW days, NEW z, NEW rule \in owned, NEW day \in days,
         RuleAppliesOn(rule, day, z),
         RuleSpan(z, rule, day).end > RuleSpan(z, rule, day).start
  PROVE  RuleSpan(z, rule, day) \in RuleWindows(owned, days, z)
<1> DEFINE p == << rule, day >>
           i == RuleSpan(z, rule, day)
<1>1. p \in owned \X days /\ p[1] = rule /\ p[2] = day
  OBVIOUS
<1> HIDE DEF p
<1>2. p \in { q \in owned \X days : RuleAppliesOn(q[1], q[2], z) }
  BY <1>1
<1>3. i = Span(Instant(z, p[2], p[1].start_time), Instant(z, p[2], p[1].end_time))
  BY <1>1 DEF RuleSpan
<1> HIDE DEF i
<1>4. i \in RuleWindows(owned, days, z)
  BY <1>2, <1>3 DEF RuleWindows, i
<1>5. QED BY <1>4 DEF i

LEMMA RuleWindowsAreSpans ==
  ASSUME NEW o \in Owner, NEW owned, Hours(owned, o), NEW d \in Int, NEW e \in Int
  PROVE  Spans(RuleWindows(owned, d .. e, Zone[o]))
<1> DEFINE z == Zone[o]
           P == owned \X (d .. e)
           f == [ p \in P |-> RuleSpan(z, p[1], p[2]) ]
           T == { RuleSpan(z, p[1], p[2]) : p \in P }
           W == RuleWindows(owned, d .. e, z)
<1>1. IsFiniteSet(P)
  <2>1. IsFiniteSet(owned) /\ IsFiniteSet(d .. e)
    BY FS_Interval DEF Hours
  <2>2. QED BY <2>1, FS_Product
<1>2. IsFiniteSet(T)
  <2>1. f \in Surjection(P, T)
    BY DEF Surjection
  <2> HIDE DEF f, P, T
  <2>2. QED BY <1>1, <2>1, FS_Surjection
<1>3. W \in SUBSET T
  <2>1. SUFFICES ASSUME NEW i \in W  PROVE i \in T
    OBVIOUS
  <2>2. PICK rule \in owned, day \in d .. e : i = RuleSpan(z, rule, day)
    BY RuleWindowsHave
  <2>3. << rule, day >> \in P
    OBVIOUS
  <2>4. QED BY <2>2, <2>3
<1>4. IsFiniteSet(W)
  <2> HIDE DEF W, T
  <2> QED BY <1>2, <1>3, FS_Subset
<1>5. ASSUME NEW i \in W
      PROVE  i.start \in Int /\ i.end \in Int /\ i.start < i.end
  <2>1. PICK rule \in owned, day \in d .. e : i = RuleSpan(z, rule, day)
    BY <1>5, RuleWindowsHave
  <2>2. rule \in Rule /\ rule.start_time \in Int /\ rule.end_time \in Int /\ day \in Int
    BY ConstantAssumption DEF Hours
  <2>3. i.start = Instant(z, day, rule.start_time) /\ i.end = Instant(z, day, rule.end_time)
    BY <2>1 DEF RuleSpan, Span
  <2>4. i.start \in Int /\ i.end \in Int
    BY <2>2, <2>3, InstantType
  <2>5. i.end > i.start
    BY <1>5, RuleWindowsHave
  <2>6. QED BY <2>4, <2>5
<1>6. QED BY <1>4, <1>5 DEF Spans

\* A minute is in one of them just if a rule says so of its reading, and its day is
\* one of those looked at.
LEMMA RuleWindowsMinutes ==
  ASSUME PlainHours, NEW o \in Owner, NEW owned, Hours(owned, o),
         NEW days, days \subseteq Int, NEW t \in Int
  PROVE  In(RuleWindows(owned, days, Zone[o]), t)
           <=> OpenAt(owned, o, t) /\ LocalDay(Zone[o], t) \in days
<1> DEFINE z == Zone[o]
           x == Reading(z, t)
<1>1. \A rule \in owned : rule \in Rule /\ rule.owner = o
  BY DEF Hours
<1>2. LocalDay(z, t) = x \div DayLength
  BY ClockFacts
<1>3. ASSUME In(RuleWindows(owned, days, z), t)
      PROVE  OpenAt(owned, o, t) /\ x \div DayLength \in days
  <2>1. PICK i \in RuleWindows(owned, days, z) : i.start <= t /\ t < i.end
    BY <1>3 DEF In
  <2>2. PICK rule \in owned, day \in days :
          RuleAppliesOn(rule, day, z) /\ i = RuleSpan(z, rule, day)
    <3>1. i \in RuleWindows(owned, days, z)
      OBVIOUS
    <3> HIDE DEF z, x
    <3>2. QED BY ONLY <3>1, RuleWindowsHave
  <2>3. Instant(z, day, rule.start_time) <= t /\ t < Instant(z, day, rule.end_time)
    BY <2>1, <2>2 DEF RuleSpan, Span
  <2>4. /\ day = x \div DayLength
        /\ rule.start_time <= x % DayLength /\ x % DayLength < rule.end_time
    <3>1. rule \in Rule /\ Zone[rule.owner] = z /\ day \in Int
      BY <1>1
    <3>2. QED BY <3>1, <2>3, RuleMinutes
  <2>5. RuleIsApplied(rule, z, t)
    BY <2>2, <2>4 DEF RuleIsApplied
  <2>6. QED BY <2>4, <2>5 DEF OpenAt
<1>4. ASSUME OpenAt(owned, o, t), x \div DayLength \in days
      PROVE  In(RuleWindows(owned, days, z), t)
  <2> DEFINE day == x \div DayLength
  <2>1. PICK rule \in owned : RuleIsApplied(rule, z, t)
    BY <1>4 DEF OpenAt
  <2>2. /\ RuleAppliesOn(rule, day, z)
        /\ rule.start_time <= x % DayLength /\ x % DayLength < rule.end_time
    BY <2>1 DEF RuleIsApplied
  <2>3. rule \in Rule /\ Zone[rule.owner] = z /\ day \in Int
    BY <1>1, <1>4
  <2> DEFINE i == RuleSpan(z, rule, day)
  <2>4. Instant(z, day, rule.start_time) <= t /\ t < Instant(z, day, rule.end_time)
    BY <2>2, <2>3, RuleMinutes
  <2>5. /\ i.start = Instant(z, day, rule.start_time)
        /\ i.end = Instant(z, day, rule.end_time)
    BY DEF RuleSpan, Span
  <2>6. i.start \in Int /\ i.end \in Int
    <3>1. rule.start_time \in Int /\ rule.end_time \in Int
      BY <2>3, ConstantAssumption
    <3>2. QED BY <3>1, <2>3, <2>5, InstantType
  <2>7. i.end > i.start
    <3> HIDE DEF i
    <3> QED BY <2>4, <2>5, <2>6
  <2>8. i \in RuleWindows(owned, days, z)
    <3>1. day \in days
      BY <1>4
    <3> HIDE DEF day
    <3>2. QED BY <2>2, <2>7, <3>1, RuleWindowsTake
  <2> HIDE DEF i
  <2>9. QED BY <2>4, <2>5, <2>8 DEF In
<1>5. QED BY <1>2, <1>3, <1>4

\* A stretch of time lies in one of an owner's windows just if every minute of it
\* is within the owner's hours.
LEMMA HoursCover ==
  ASSUME PlainHours, NEW o \in Owner, NEW owned, Hours(owned, o), NEW d \in Int, NEW e \in Int,
         NEW a \in Int, NEW b \in Int, a < b
  PROVE  (\E w \in WindowsFor(owned, d .. e, Zone[o]) : w.start <= a /\ b <= w.end)
           <=> \A t \in Int : a <= t /\ t < b =>
                 OpenAt(owned, o, t) /\ LocalDay(Zone[o], t) \in d .. e
<1> DEFINE S == RuleWindows(owned, d .. e, Zone[o])
<1>1. Spans(S)
  BY RuleWindowsAreSpans
<1>2. WindowsFor(owned, d .. e, Zone[o]) = Merge(S)
  BY DEF WindowsFor
<1>3. \A t \in Int : In(S, t) <=> OpenAt(owned, o, t) /\ LocalDay(Zone[o], t) \in d .. e
  <2> DEFINE days == d .. e
  <2>1. days \subseteq Int
    OBVIOUS
  <2> HIDE DEF days
  <2>2. \A t \in Int : In(RuleWindows(owned, days, Zone[o]), t)
                          <=> OpenAt(owned, o, t) /\ LocalDay(Zone[o], t) \in days
    BY <2>1, RuleWindowsMinutes
  <2>3. QED BY <2>2 DEF days
<1> HIDE DEF S
<1>4. ASSUME NEW w \in Merge(S), w.start <= a, b <= w.end, NEW t \in Int, a <= t, t < b
      PROVE  In(S, t)
  <2>1. w.start \in Int /\ w.end \in Int
    BY <1>1, WindowFacts
  <2>2. w.start <= t /\ t < w.end
    BY <1>4, <2>1
  <2>3. QED BY <1>1, <2>2, NoGapInside
<1>5. ASSUME \A t \in Int : a <= t /\ t < b => In(S, t)
      PROVE  \E w \in Merge(S) : w.start <= a /\ b <= w.end
  BY <1>1, <1>5, OneWindow
<1>6. QED BY <1>2, <1>3, <1>4, <1>5

-----------------------------------------------------------------------------
(* The engine, minute by minute. *)

\* Two stretches of time overlap just if they have a minute in common.
LEMMA CommonMinute ==
  ASSUME NEW i, i.start \in Int, i.end \in Int, i.start < i.end,
         NEW j, j.start \in Int, j.end \in Int, j.start < j.end
  PROVE  Overlaps(i, j) <=> \E t \in Minutes(j) : t \in Minutes(i)
<1> DEFINE a == i.start
           b == i.end
           c == j.start
           d == j.end
<1>1. Overlaps(i, j) <=> a < d /\ c < b
  BY DEF Overlaps
<1>2. Minutes(i) = a .. b - 1 /\ Minutes(j) = c .. d - 1
  BY DEF Minutes
<1> HIDE DEF a, b, c, d
<1>3. a \in Int /\ b \in Int /\ a < b /\ c \in Int /\ d \in Int /\ c < d
  BY DEF a, b, c, d
<1>4. ASSUME a < d, c < b  PROVE \E t \in c .. d - 1 : t \in a .. b - 1
  <2>1. CASE a <= c
    BY <2>1, <1>3, <1>4
  <2>2. CASE c < a
    BY <2>2, <1>3, <1>4
  <2>3. QED BY <2>1, <2>2, <1>3
<1>5. ASSUME NEW t \in c .. d - 1, t \in a .. b - 1  PROVE a < d /\ c < b
  BY <1>3, <1>5
<1>6. QED BY <1>1, <1>2, <1>4, <1>5

\* Windows as the engine makes them: intervals of whole minutes.
Windows(S) == \A w \in S : w.start \in Int /\ w.end \in Int

Reaches(S, a, b) == \E w \in S : w.start <= a /\ b <= w.end

LEMMA BothReach ==
  ASSUME NEW L, NEW R, Windows(L), Windows(R), NEW a \in Int, NEW b \in Int, a < b
  PROVE  Reaches(Intersect(L, R), a, b) <=> Reaches(L, a, b) /\ Reaches(R, a, b)
<1> DEFINE Both(l, r) == Span(Max({ l.start, r.start }), Min({ l.end, r.end }))
<1>1. ASSUME NEW l \in L, NEW r \in R
      PROVE  /\ Both(l, r).start \in Int /\ Both(l, r).end \in Int
             /\ Both(l, r).start <= a <=> l.start <= a /\ r.start <= a
             /\ b <= Both(l, r).end <=> b <= l.end /\ b <= r.end
  <2>1. l.start \in Int /\ l.end \in Int /\ r.start \in Int /\ r.end \in Int
    BY DEF Windows
  <2> DEFINE x == Max({ l.start, r.start })
             y == Min({ l.end, r.end })
  <2>2. Both(l, r).start = x /\ Both(l, r).end = y
    BY DEF Span
  <2>3. x = IF l.start >= r.start THEN l.start ELSE r.start
    BY <2>1, MaxOfTwo
  <2>4. y = IF l.end <= r.end THEN l.end ELSE r.end
    BY <2>1, MinOfTwo
  <2> HIDE DEF x, y, Both
  <2>5. QED BY <2>1, <2>2, <2>3, <2>4
<1>2. Intersect(L, R) = { i \in { Both(l, r) : l \in L, r \in R } : i.start < i.end }
  BY DEF Intersect
<1> HIDE DEF Both
<1>3. ASSUME Reaches(Intersect(L, R), a, b)  PROVE Reaches(L, a, b) /\ Reaches(R, a, b)
  <2>1. PICK i \in Intersect(L, R) : i.start <= a /\ b <= i.end
    BY <1>3 DEF Reaches
  <2>2. PICK l \in L, r \in R : i = Both(l, r)
    BY <2>1, <1>2
  <2>3. l.start <= a /\ r.start <= a /\ b <= l.end /\ b <= r.end
    BY <2>1, <2>2, <1>1
  <2>4. QED BY <2>3 DEF Reaches
<1>4. ASSUME Reaches(L, a, b), Reaches(R, a, b)  PROVE Reaches(Intersect(L, R), a, b)
  <2>1. PICK l \in L : l.start <= a /\ b <= l.end
    BY <1>4 DEF Reaches
  <2>2. PICK r \in R : r.start <= a /\ b <= r.end
    BY <1>4 DEF Reaches
  <2> DEFINE i == Both(l, r)
  <2>3. i.start \in Int /\ i.end \in Int /\ i.start <= a /\ b <= i.end
    BY <2>1, <2>2, <1>1
  <2>4. i.start < i.end
    <3> HIDE DEF i
    <3> QED BY <2>3
  <2>5. i \in Intersect(L, R)
    BY <2>4, <1>2
  <2> HIDE DEF i
  <2>6. QED BY <2>3, <2>5 DEF Reaches
<1>5. QED BY <1>3, <1>4

\* What a request asks, whether it is a search or the question of resolve_slot.
Question(q) ==
  /\ q.service \in Service
  /\ q.range.start \in Int /\ q.range.end \in Int
  /\ q.step \in Nat \ {0} /\ q.limit \in Nat \ {0}
  /\ q.preferred \in Resource \cup { None }

\* The types of the state that the lemmas below need.
World ==
  /\ now \in Nat /\ active \subseteq Resource
  /\ rules \subseteq Rule /\ IsFiniteSet(rules)
  /\ blocks \subseteq Block
  /\ \A c \in claims : c.service \in Service /\ c.starts_at \in Int

\* What an engine is given: all rules, but maybe not all blocks and claims.
Given(inputs) ==
  /\ inputs.active = active /\ inputs.rules = rules
  /\ inputs.blocks \subseteq blocks /\ inputs.claims \subseteq claims

LEMMA ServiceFacts ==
  ASSUME NEW s \in Service
  PROVE  /\ s.duration \in Nat /\ s.duration > 0 /\ s.duration < MaxQuery
         /\ s.before \in Nat /\ s.after \in Nat /\ s.notice \in Nat /\ s.horizon \in Nat
         /\ s.candidates \in Seq(Seq(Resource))
         /\ MaxQuery \in Nat
BY ConstantAssumption

LEMMA QueryFacts ==
  ASSUME World, NEW q, Question(q)
  PROVE  /\ Earliest(q) \in Int /\ Latest(q) \in Int
         /\ \A t \in Int : t >= Earliest(q) /\ t + q.service.duration <= Latest(q)
                              <=> Permitted(q, t)
<1> DEFINE s == q.service
           a == q.range.start
           b == q.range.end
           n == now + s.notice
           h == now + s.horizon
           e == Earliest(q)
           l == Latest(q)
<1>1. /\ a \in Int /\ b \in Int /\ n \in Int /\ h \in Int
      /\ s.duration \in Int /\ MaxQuery \in Nat
  BY ServiceFacts DEF World, Question
<1>2. e = IF a >= n THEN a ELSE n
  BY <1>1, MaxOfTwo DEF Earliest
<1>3. e \in Int
  BY <1>1, <1>2
<1>4. l = Min({ b, h, e + MaxQuery })
  BY DEF Latest
<1>5. ASSUME NEW t \in Int
      PROVE  Permitted(q, t)
               <=> LET end == t + s.duration
                   IN /\ t >= a /\ t >= n /\ end <= b /\ end <= h
                      /\ end <= a + MaxQuery \/ end <= n + MaxQuery
  BY DEF Permitted
<1> HIDE DEF s, a, b, n, h, e, l
<1>6. l \in { b, h, e + MaxQuery } /\ l <= b /\ l <= h /\ l <= e + MaxQuery
  <2> DEFINE m == e + MaxQuery
  <2>1. m \in Int
    BY <1>1, <1>3
  <2> HIDE DEF m
  <2>2. Min({ b, h, m }) \in { b, h, m } /\ Min({ b, h, m }) <= b
        /\ Min({ b, h, m }) <= h /\ Min({ b, h, m }) <= m
    BY <1>1, <2>1, MinOfThree
  <2>3. l = Min({ b, h, m })
    BY <1>4 DEF m
  <2>4. l \in { b, h, m } /\ l <= b /\ l <= h /\ l <= m
    BY <2>2, <2>3
  <2>5. QED BY <2>4 DEF m
<1>7. l \in Int
  BY <1>1, <1>3, <1>6
<1>8. ASSUME NEW t \in Int
      PROVE  t >= e /\ t + s.duration <= l <=> Permitted(q, t)
  <2> DEFINE end == t + s.duration
  <2>1. end \in Int
    BY <1>1
  <2>2. end <= l <=> end <= b /\ end <= h /\ end <= e + MaxQuery
    <3> HIDE DEF end
    <3> QED BY <2>1, <1>1, <1>3, <1>6
  <2>3. end <= e + MaxQuery <=> end <= a + MaxQuery \/ end <= n + MaxQuery
    <3> HIDE DEF end
    <3> QED BY <2>1, <1>1, <1>2
  <2>4. t >= e <=> t >= a /\ t >= n
    BY <1>1, <1>2
  <2>5. QED BY <1>5, <2>2, <2>3, <2>4
<1>9. QED BY <1>3, <1>7, <1>8 DEF e, l, s

\* The hours by the rules that the engine applies, as the reference states them by the
\* rules that are in force.
EngineOpens(o, t) == OpenAt(Owned(rules, o), o, t)

EngineWorks(r, t) ==
  EngineOpens(Branch, t) /\ (Owned(rules, r) = {} \/ EngineOpens(r, t))

EngineServes(team, i, B, C) ==
  \A t \in Minutes(i) :
    /\ ~Blocked(Branch, t, B)
    /\ \A n \in DOMAIN team :
         EngineWorks(team[n], t) /\ ~Blocked(team[n], t, B) /\ ~Taken(team[n], t, C)

EngineOpenFor(i) == \A t \in Minutes(i) : EngineOpens(Branch, t)

EngineOnGrid(t, step) ==
  \E opening \in t - 2 * DayLength .. t :
    /\ (t - opening) % step = 0
    /\ ~EngineOpens(Branch, opening - 1) /\ \A u \in opening .. t : EngineOpens(Branch, u)

\* Whom the engine finds at work is at work.
LEMMA EngineIsRight ==
  ASSUME World, PlainHours, NEW t \in Int
  PROVE  /\ \A o : EngineOpens(o, t) => Opens(o, t)
         /\ \A r : EngineWorks(r, t) => Works(r, t)
<1>1. ASSUME NEW o, EngineOpens(o, t)  PROVE Opens(o, t)
  <2>1. PICK rule \in Owned(rules, o) : RuleIsApplied(rule, Zone[o], t)
    BY <1>1 DEF EngineOpens, OpenAt
  <2>2. rule \in Rule /\ rule.owner = o
    BY DEF Owned, World
  <2>3. RuleOpens(rule, Zone[o], t)
    BY <2>1, <2>2, AppliedOpens
  <2>4. QED BY <2>3 DEF Opens
<1>2. QED BY <1>1 DEF EngineWorks, Works

\* The hours of the branch, and of a resource, as the engine expands them for a query.
OpenIn(q, t) == EngineOpens(Branch, t) /\ LocalDay(Zone[Branch], t) \in Days(q)

AtWorkIn(q, r, t) ==
  /\ OpenIn(q, t)
  /\ Owned(rules, r) # {} => EngineOpens(r, t) /\ LocalDay(Zone[r], t) \in Days(q)

LEMMA DaysAreNumbers ==
  ASSUME World, NEW q, Question(q)
  PROVE  /\ LocalDay(Zone[Branch], Earliest(q)) \in Int
         /\ LocalDay(Zone[Branch], Latest(q)) \in Int
BY QueryFacts, ClockFacts DEF Owner

\* The windows of an owner reach over a stretch just if the owner's hours do.
LEMMA OwnerReaches ==
  ASSUME World, PlainHours, NEW q, Question(q), NEW o \in Owner,
         NEW a \in Int, NEW b \in Int, a < b
  PROVE  /\ Windows(WindowsFor(Owned(rules, o), Days(q), Zone[o]))
         /\ Reaches(WindowsFor(Owned(rules, o), Days(q), Zone[o]), a, b)
              <=> \A t \in Int : a <= t /\ t < b =>
                    EngineOpens(o, t) /\ LocalDay(Zone[o], t) \in Days(q)
<1> DEFINE d == LocalDay(Zone[Branch], Earliest(q))
           e == LocalDay(Zone[Branch], Latest(q))
           owned == Owned(rules, o)
<1>1. d \in Int /\ e \in Int
  BY DaysAreNumbers
<1>2. Hours(owned, o)
  <2>1. owned \subseteq { rule \in Rule : rule.owner = o }
    BY DEF World, Owned
  <2>2. IsFiniteSet(owned)
    <3>1. owned \in SUBSET rules
      BY DEF Owned
    <3> HIDE DEF owned
    <3>2. QED BY <3>1, FS_Subset DEF World
  <2>3. QED BY <2>1, <2>2 DEF Hours
<1>3. Days(q) = d .. e
  BY DEF Days
<1>4. \A t : EngineOpens(o, t) <=> OpenAt(owned, o, t)
  BY DEF EngineOpens
<1> HIDE DEF d, e, owned
<1>5. Windows(WindowsFor(owned, d .. e, Zone[o]))
  <2>1. Spans(RuleWindows(owned, d .. e, Zone[o]))
    BY <1>1, <1>2, RuleWindowsAreSpans
  <2>2. QED BY <2>1, WindowFacts DEF WindowsFor, Windows
<1>6. Reaches(WindowsFor(owned, d .. e, Zone[o]), a, b)
        <=> \A t \in Int : a <= t /\ t < b =>
              OpenAt(owned, o, t) /\ LocalDay(Zone[o], t) \in d .. e
  BY <1>1, <1>2, HoursCover DEF Reaches
<1>7. QED BY <1>3, <1>4, <1>5, <1>6 DEF owned

LEMMA ResourceReaches ==
  ASSUME World, PlainHours, NEW q, Question(q), NEW inputs, Given(inputs), NEW r \in Resource,
         NEW a \in Int, NEW b \in Int, a < b
  PROVE  Reaches(ResourceWindows(r, LocationWindows(q, inputs), q, inputs), a, b)
           <=> \A t \in Int : a <= t /\ t < b => AtWorkIn(q, r, t)
<1> DEFINE location == LocationWindows(q, inputs)
           own == Owned(rules, r)
           mine == WindowsFor(own, Days(q), Zone[r])
<1>1. Branch \in Owner /\ r \in Owner
  BY DEF Owner
<1>2. location = WindowsFor(Owned(rules, Branch), Days(q), Zone[Branch])
  BY DEF LocationWindows, Given
<1>3. Windows(location) /\ Windows(mine)
  BY <1>1, <1>2, OwnerReaches
<1>4. Reaches(location, a, b) <=> \A t \in Int : a <= t /\ t < b => OpenIn(q, t)
  BY <1>1, <1>2, OwnerReaches DEF OpenIn
<1>5. Reaches(mine, a, b)
        <=> \A t \in Int : a <= t /\ t < b => EngineOpens(r, t) /\ LocalDay(Zone[r], t) \in Days(q)
  BY <1>1, OwnerReaches
<1>6. ResourceWindows(r, location, q, inputs)
        = IF own = {} THEN location ELSE Intersect(location, mine)
  BY DEF ResourceWindows, Given
<1> HIDE DEF location, mine
<1>7. Reaches(Intersect(location, mine), a, b)
        <=> Reaches(location, a, b) /\ Reaches(mine, a, b)
  BY <1>3, BothReach
<1>8. CASE own = {}
  BY <1>4, <1>6, <1>8 DEF AtWorkIn, location
<1>9. CASE own # {}
  <2>1. Reaches(ResourceWindows(r, location, q, inputs), a, b)
          <=> Reaches(location, a, b) /\ Reaches(mine, a, b)
    BY <1>6, <1>7, <1>9
  <2> HIDE DEF own
  <2>2. (\A t \in Int : a <= t /\ t < b => AtWorkIn(q, r, t))
          <=> /\ \A t \in Int : a <= t /\ t < b => OpenIn(q, t)
              /\ \A t \in Int : a <= t /\ t < b =>
                   EngineOpens(r, t) /\ LocalDay(Zone[r], t) \in Days(q)
    BY <1>9 DEF AtWorkIn, own
  <2>3. QED BY <2>1, <2>2, <1>4, <1>5 DEF location
<1>10. QED BY <1>8, <1>9

LEMMA WindowOf ==
  ASSUME NEW s \in Service, NEW t \in Int
  PROVE  /\ ReservationWindow(s, t).start = t - s.before
         /\ ReservationWindow(s, t).end = t + s.duration + s.after
         /\ ReservationWindow(s, t).start \in Int /\ ReservationWindow(s, t).end \in Int
         /\ ReservationWindow(s, t).start < ReservationWindow(s, t).end
         /\ Appointment(s, t).start = t /\ Appointment(s, t).end = t + s.duration
         /\ \A u \in Int : u \in Minutes(ReservationWindow(s, t))
                             <=> t - s.before <= u /\ u < t + s.duration + s.after
         /\ \A u \in Int : u \in Minutes(Appointment(s, t)) <=> t <= u /\ u < t + s.duration
         /\ Minutes(ReservationWindow(s, t)) \subseteq Int
         /\ Minutes(Appointment(s, t)) \subseteq Minutes(ReservationWindow(s, t))
         /\ t \in Minutes(Appointment(s, t))
<1>1. s.duration \in Int /\ s.duration > 0 /\ s.before \in Nat /\ s.after \in Nat
  BY ServiceFacts
<1>2. /\ ReservationWindow(s, t).start = t - s.before
      /\ ReservationWindow(s, t).end = t + s.duration + s.after
      /\ Appointment(s, t).start = t /\ Appointment(s, t).end = t + s.duration
  BY DEF ReservationWindow, Appointment, Span
<1> DEFINE w == ReservationWindow(s, t)
           v == Appointment(s, t)
<1>3. Minutes(w) = w.start .. w.end - 1 /\ Minutes(v) = v.start .. v.end - 1
  BY DEF Minutes
<1>4. /\ w.start = t - s.before /\ w.end = t + s.duration + s.after
      /\ v.start = t /\ v.end = t + s.duration
  BY <1>2
<1> HIDE DEF w, v
<1> DEFINE a == w.start
           b == w.end
           c == v.end
<1>5. a \in Int /\ b \in Int /\ c \in Int /\ a <= t /\ t < c /\ c <= b
  BY <1>1, <1>4
<1>6. Minutes(w) = a .. b - 1 /\ Minutes(v) = t .. c - 1
  BY <1>3, <1>4
<1> HIDE DEF a, b, c
<1>7. /\ \A u \in Int : u \in Minutes(w) <=> a <= u /\ u < b
      /\ \A u \in Int : u \in Minutes(v) <=> t <= u /\ u < c
      /\ Minutes(w) \subseteq Int /\ Minutes(v) \subseteq Minutes(w) /\ t \in Minutes(v)
  BY <1>5, <1>6
<1>8. a = t - s.before /\ b = t + s.duration + s.after /\ c = t + s.duration
  BY <1>4 DEF a, b, c
<1>9. a = w.start /\ b = w.end /\ a < b
  BY <1>5 DEF a, b
<1>10. /\ \A u \in Int : u \in Minutes(w) <=> t - s.before <= u /\ u < t + s.duration + s.after
       /\ \A u \in Int : u \in Minutes(v) <=> t <= u /\ u < t + s.duration
  BY <1>7, <1>8
<1>11. QED BY <1>4, <1>5, <1>7, <1>9, <1>10 DEF w, v

\* An owner's blocks are clear of a stretch of time just if none of its minutes is
\* blocked, and so for what is claimed of a resource.
LEMMA ClearOfBlocks ==
  ASSUME NEW o, NEW B, B \subseteq Block, NEW s \in Service, NEW t \in Int
  PROVE  (\A b \in Owned(B, o) : ~Overlaps(b, ReservationWindow(s, t)))
           <=> \A u \in Minutes(ReservationWindow(s, t)) : ~Blocked(o, u, B)
<1> DEFINE w == ReservationWindow(s, t)
<1>1. w.start \in Int /\ w.end \in Int /\ w.start < w.end
  BY WindowOf
<1> HIDE DEF w
<1>2. ASSUME NEW b \in Owned(B, o)
      PROVE  Overlaps(b, w) <=> \E u \in Minutes(w) : u \in Minutes(b)
  <2>1. b.start \in Int /\ b.end \in Int /\ b.start < b.end
    BY <1>2, ConstantAssumption DEF Owned
  <2>2. QED BY <1>1, <2>1, CommonMinute
<1>3. (\A b \in Owned(B, o) : ~Overlaps(b, w)) <=> \A u \in Minutes(w) : ~Blocked(o, u, B)
  BY <1>2 DEF Blocked
<1>4. QED BY <1>3 DEF w

LEMMA ClearOfClaims ==
  ASSUME NEW r, NEW C, \A c \in C : c.service \in Service /\ c.starts_at \in Int,
         NEW s \in Service, NEW t \in Int
  PROVE  (\A c \in C : r \in ToSet(c.team) =>
             ~Overlaps(ReservationWindow(c.service, c.starts_at), ReservationWindow(s, t)))
           <=> \A u \in Minutes(ReservationWindow(s, t)) : ~Taken(r, u, C)
<1> DEFINE w == ReservationWindow(s, t)
           v(c) == ReservationWindow(c.service, c.starts_at)
<1>1. w.start \in Int /\ w.end \in Int /\ w.start < w.end
  BY WindowOf
<1>2. ASSUME NEW c \in C
      PROVE  v(c).start \in Int /\ v(c).end \in Int /\ v(c).start < v(c).end
  BY <1>2, WindowOf
<1>3. \A u : Taken(r, u, C) <=> \E c \in C : r \in ToSet(c.team) /\ u \in Minutes(v(c))
  BY DEF Taken
<1> HIDE DEF w, v
<1>4. ASSUME NEW c \in C
      PROVE  Overlaps(v(c), w) <=> \E u \in Minutes(w) : u \in Minutes(v(c))
  BY <1>1, <1>2, CommonMinute
<1>5. (\A c \in C : r \in ToSet(c.team) => ~Overlaps(v(c), w))
        <=> \A u \in Minutes(w) : ~Taken(r, u, C)
  BY <1>3, <1>4
<1>6. QED BY <1>5 DEF w, v

\* At work, not blocked and not taken.
FreeIn(q, r, t, B, C) == AtWorkIn(q, r, t) /\ ~Blocked(r, t, B) /\ ~Taken(r, t, C)

AllWindows(q, inputs) ==
  [ r \in Resource |-> ResourceWindows(r, LocationWindows(q, inputs), q, inputs) ]

LEMMA ResourceIsFree ==
  ASSUME World, PlainHours, NEW q, Question(q), NEW inputs, Given(inputs), NEW r \in Resource,
         NEW t \in Int
  PROVE  ResourceFree(r, ReservationWindow(q.service, t), inputs, AllWindows(q, inputs)[r])
           <=> \A u \in Minutes(ReservationWindow(q.service, t)) :
                 FreeIn(q, r, u, inputs.blocks, inputs.claims)
<1> DEFINE w == ReservationWindow(q.service, t)
           own == ResourceWindows(r, LocationWindows(q, inputs), q, inputs)
           a == w.start
           b == w.end
<1>1. AllWindows(q, inputs)[r] = own
  BY DEF AllWindows
<1>2. q.service \in Service
  BY DEF Question
<1>3. a \in Int /\ b \in Int /\ a < b
  BY <1>2, WindowOf
<1>4. \A u \in Int : u \in Minutes(w) <=> a <= u /\ u < b
  BY <1>3 DEF Minutes
<1>5. Minutes(w) \subseteq Int
  BY <1>2, WindowOf
<1>6. (\E v \in own : Covers(v, w)) <=> Reaches(own, a, b)
  BY DEF Covers, Reaches
<1>7. Reaches(own, a, b) <=> \A u \in Int : a <= u /\ u < b => AtWorkIn(q, r, u)
  <2> HIDE DEF a, b
  <2> QED BY <1>3, ResourceReaches
<1>8. (\E v \in own : Covers(v, w)) <=> \A u \in Minutes(w) : AtWorkIn(q, r, u)
  <2> HIDE DEF a, b, w, own
  <2> QED BY <1>4, <1>5, <1>6, <1>7
<1>9. (\A x \in Owned(inputs.blocks, r) : ~Overlaps(x, w))
        <=> \A u \in Minutes(w) : ~Blocked(r, u, inputs.blocks)
  <2>1. inputs.blocks \subseteq Block
    BY DEF World, Given
  <2>2. QED BY <1>2, <2>1, ClearOfBlocks
<1>10. (\A c \in inputs.claims : r \in ToSet(c.team) =>
            ~Overlaps(ReservationWindow(c.service, c.starts_at), w))
         <=> \A u \in Minutes(w) : ~Taken(r, u, inputs.claims)
  <2>1. \A c \in inputs.claims : c.service \in Service /\ c.starts_at \in Int
    BY DEF World, Given
  <2>2. QED BY <1>2, <2>1, ClearOfClaims
<1>11. ResourceFree(r, w, inputs, own)
         <=> /\ \E v \in own : Covers(v, w)
             /\ \A x \in Owned(inputs.blocks, r) : ~Overlaps(x, w)
             /\ \A c \in inputs.claims : r \in ToSet(c.team) =>
                  ~Overlaps(ReservationWindow(c.service, c.starts_at), w)
  BY DEF ResourceFree
<1>12. (\A u \in Minutes(w) : FreeIn(q, r, u, inputs.blocks, inputs.claims))
         <=> /\ \A u \in Minutes(w) : AtWorkIn(q, r, u)
             /\ \A u \in Minutes(w) : ~Blocked(r, u, inputs.blocks)
             /\ \A u \in Minutes(w) : ~Taken(r, u, inputs.claims)
  BY DEF FreeIn
<1> HIDE DEF w, own
<1>13. QED BY <1>1, <1>8, <1>9, <1>10, <1>11, <1>12 DEF w

-----------------------------------------------------------------------------
(* Teams. *)

LEMMA RoleFacts ==
  ASSUME NEW s \in Service, NEW present
  PROVE  /\ Roles(s, present) \subseteq Nat /\ IsFiniteSet(Roles(s, present))
         /\ \A n \in Roles(s, present) :
              /\ n \in DOMAIN s.candidates /\ s.candidates[n] \in Seq(Resource)
              /\ ToSet(s.candidates[n]) \subseteq Resource
<1> DEFINE c == s.candidates
<1>1. c \in Seq(Seq(Resource))
  BY ServiceFacts
<1>2. Roles(s, present) \subseteq DOMAIN c
  BY DEF Roles
<1> HIDE DEF c
<1>3. DOMAIN c = 1 .. Len(c) /\ Len(c) \in Nat
  BY <1>1
<1>4. IsFiniteSet(Roles(s, present))
  <2>1. IsFiniteSet(1 .. Len(c))
    BY <1>3, FS_Interval
  <2>2. QED BY <1>2, <1>3, <2>1, FS_Subset
<1>5. ASSUME NEW n \in Roles(s, present)
      PROVE  n \in DOMAIN c /\ c[n] \in Seq(Resource) /\ ToSet(c[n]) \subseteq Resource
  <2>1. n \in DOMAIN c /\ c[n] \in Seq(Resource)
    BY <1>1, <1>2
  <2>2. QED BY <2>1 DEF ToSet
<1>6. QED BY <1>2, <1>3, <1>4, <1>5 DEF c

LEMMA OrderedFacts ==
  ASSUME NEW c \in Seq(Resource), NEW present, NEW preferred
  PROVE  /\ DOMAIN Ordered(c, present, preferred) \in SUBSET Nat
         /\ IsFiniteSet(DOMAIN Ordered(c, present, preferred))
         /\ preferred \in ToSet(c) \cap present
              => \A r : r \in ToSet(Ordered(c, present, preferred)) <=> r = preferred
         /\ preferred \notin ToSet(c) \cap present => Ordered(c, present, preferred) = c
         /\ ToSet(Ordered(c, present, preferred)) \subseteq ToSet(c)
<1> DEFINE o == Ordered(c, present, preferred)
<1>1. CASE preferred \in ToSet(c) \cap present
  <2>1. o = << preferred >>
    BY <1>1 DEF Ordered
  <2>2. DOMAIN << preferred >> = 1 .. 1 /\ << preferred >>[1] = preferred
    OBVIOUS
  <2>3. \A r : r \in ToSet(<< preferred >>) <=> r = preferred
    BY <2>2 DEF ToSet
  <2>4. IsFiniteSet(1 .. 1)
    <3>1. 1 .. 1 = { 1 }
      OBVIOUS
    <3>2. QED BY <3>1, FS_Singleton
  <2> HIDE DEF o
  <2>5. QED BY <1>1, <2>1, <2>2, <2>3, <2>4 DEF o
<1>2. CASE preferred \notin ToSet(c) \cap present
  <2>1. o = c
    BY <1>2 DEF Ordered
  <2>2. DOMAIN c = 1 .. Len(c) /\ Len(c) \in Nat
    OBVIOUS
  <2>3. IsFiniteSet(1 .. Len(c))
    BY <2>2, FS_Interval
  <2> HIDE DEF o
  <2>4. QED BY <1>2, <2>1, <2>2, <2>3 DEF o
<1>3. QED BY <1>1, <1>2

\* Who is picked of those that are free.
Picks(s, present, preferred, free) ==
  { team \in [ Roles(s, present) -> present ] :
      \A n \in DOMAIN team :
        IsFirst(team[n], Ordered(s.candidates[n], present, preferred),
                free \ { team[m] : m \in { m \in DOMAIN team : m < n } }) }

LEMMA PickedTeam ==
  ASSUME NEW s \in Service, NEW present, NEW preferred, NEW free,
         NEW team \in Picks(s, present, preferred, free)
  PROVE  /\ team \in Teams(s, present, preferred)
         /\ \A n \in DOMAIN team : team[n] \in free
<1> DEFINE D == Roles(s, present)
           Chosen(n) == { team[m] : m \in { m \in DOMAIN team : m < n } }
<1>1. team \in [ D -> present ] /\ DOMAIN team = D
  BY DEF Picks
<1>2. \A n \in D : IsFirst(team[n], Ordered(s.candidates[n], present, preferred), free \ Chosen(n))
  BY <1>1 DEF Picks
<1>3. D \subseteq Nat /\ \A n \in D : s.candidates[n] \in Seq(Resource)
  BY RoleFacts
<1>4. ASSUME NEW n \in D
      PROVE  /\ team[n] \in ToSet(Ordered(s.candidates[n], present, preferred))
             /\ team[n] \in free /\ team[n] \notin Chosen(n)
  <2> HIDE DEF D, Chosen
  <2>1. IsFirst(team[n], Ordered(s.candidates[n], present, preferred), free \ Chosen(n))
    BY <1>2
  <2>2. QED BY <2>1 DEF IsFirst, ToSet
<1>5. IsInjective(team)
  <2>1. ASSUME NEW m \in D, NEW n \in D, m < n  PROVE team[m] # team[n]
    BY <1>1, <1>4, <2>1
  <2>2. \A m, n \in D : team[m] = team[n] => m = n
    BY <2>1, <1>3
  <2>3. QED BY <2>2, <1>1 DEF IsInjective
<1>6. ASSUME NEW n \in D
      PROVE  /\ team[n] \in ToSet(s.candidates[n])
             /\ preferred \in ToSet(s.candidates[n]) \cap present => team[n] = preferred
  <2> HIDE DEF D
  <2> QED BY <1>3, <1>4, OrderedFacts
<1>7. QED
  <2> HIDE DEF D
  <2>1. team \in Teams(s, present, preferred)
    BY <1>1, <1>5, <1>6 DEF Teams, D
  <2>2. QED BY <2>1, <1>1, <1>4

LEMMA FirstIsOne ==
  ASSUME NEW r, NEW x, NEW ordered, NEW free, DOMAIN ordered \subseteq Nat,
         IsFirst(r, ordered, free), IsFirst(x, ordered, free)
  PROVE  r = x
<1>1. PICK k \in DOMAIN ordered :
        r = ordered[k] /\ r \in free /\ \A l \in DOMAIN ordered : l < k => ordered[l] \notin free
  BY DEF IsFirst
<1>2. PICK j \in DOMAIN ordered :
        x = ordered[j] /\ x \in free /\ \A l \in DOMAIN ordered : l < j => ordered[l] \notin free
  BY DEF IsFirst
<1>3. ~(k < j) /\ ~(j < k)
  BY <1>1, <1>2
<1>4. k \in Nat /\ j \in Nat
  OBVIOUS
<1>5. k = j
  BY <1>3, <1>4
<1>6. QED BY <1>1, <1>2, <1>5

\* There is one team at most: two would differ first in some role, and the first
\* free candidate of that role, after the same choices, is one.
LEMMA OnePick ==
  ASSUME NEW s \in Service, NEW present, NEW preferred, NEW free,
         NEW team \in Picks(s, present, preferred, free),
         NEW other \in Picks(s, present, preferred, free)
  PROVE  team = other
<1> DEFINE D == Roles(s, present)
           Differ == { n \in D : team[n] # other[n] }
           Chosen(x, n) == { x[m] : m \in { m \in DOMAIN x : m < n } }
           First(x, n) == IsFirst(x[n], Ordered(s.candidates[n], present, preferred),
                                  free \ Chosen(x, n))
<1>1. /\ team \in [ D -> present ] /\ other \in [ D -> present ]
      /\ DOMAIN team = D /\ DOMAIN other = D
  BY DEF Picks
<1>2. \A n \in D : First(team, n) /\ First(other, n)
  BY <1>1 DEF Picks
<1>3. D \subseteq Nat /\ IsFiniteSet(D) /\ \A n \in D : s.candidates[n] \in Seq(Resource)
  BY RoleFacts
<1> HIDE DEF D, First
<1>4. SUFFICES ASSUME Differ # {}  PROVE FALSE
  BY <1>1
<1>5. Differ \in SUBSET Int /\ IsFiniteSet(Differ)
  <2>1. Differ \in SUBSET D /\ \A n \in Differ : n \in Int
    BY <1>3
  <2> HIDE DEF Differ
  <2>2. IsFiniteSet(Differ)
    BY <1>3, <2>1, FS_Subset
  <2>3. QED BY <2>1, <2>2
<1>6. PICK n \in Differ : \A m \in Differ : n <= m
  <2> HIDE DEF Differ
  <2> QED BY <1>4, <1>5, HasLeast
<1>7. n \in D /\ team[n] # other[n]
  OBVIOUS
<1>8. Chosen(team, n) = Chosen(other, n)
  <2>1. ASSUME NEW m \in D, m < n, team[m] # other[m]  PROVE FALSE
    <3>1. m \in Differ /\ m \in Int /\ n \in Int
      <4>1. m \in Differ
        BY <2>1
      <4>2. QED BY <4>1, <1>5
    <3>2. n <= m
      BY <1>6, <3>1
    <3>3. QED BY <3>1, <3>2, <2>1
  <2>2. QED BY <1>1, <2>1
<1>9. DOMAIN Ordered(s.candidates[n], present, preferred) \subseteq Nat
  BY <1>3, <1>7, OrderedFacts
<1>10. /\ IsFirst(team[n], Ordered(s.candidates[n], present, preferred), free \ Chosen(team, n))
       /\ IsFirst(other[n], Ordered(s.candidates[n], present, preferred), free \ Chosen(team, n))
  BY <1>2, <1>7, <1>8 DEF First
<1> HIDE DEF Chosen
<1>11. team[n] = other[n]
  BY <1>9, <1>10, FirstIsOne
<1>12. QED BY <1>7, <1>11

\* Only the candidates matter.
LEMMA SamePick ==
  ASSUME NEW s \in Service, NEW present, NEW preferred, NEW free, NEW also,
         \A n \in Roles(s, present) :
           \A r \in ToSet(s.candidates[n]) : r \in free <=> r \in also
  PROVE  Picks(s, present, preferred, free) \subseteq Picks(s, present, preferred, also)
<1>1. SUFFICES ASSUME NEW team \in Picks(s, present, preferred, free)
               PROVE  team \in Picks(s, present, preferred, also)
  OBVIOUS
<1> DEFINE D == Roles(s, present)
           Chosen(n) == { team[m] : m \in { m \in DOMAIN team : m < n } }
           o(n) == Ordered(s.candidates[n], present, preferred)
<1>2. team \in [ D -> present ] /\ DOMAIN team = D
  BY DEF Picks
<1>3. \A n \in D : IsFirst(team[n], o(n), free \ Chosen(n))
  BY <1>2 DEF Picks
<1>4. ASSUME NEW n \in D  PROVE IsFirst(team[n], o(n), also \ Chosen(n))
  <2>1. ToSet(o(n)) \subseteq ToSet(s.candidates[n])
    BY RoleFacts, OrderedFacts
  <2>2. IsFirst(team[n], o(n), free \ Chosen(n))
    BY <1>3
  <2> HIDE DEF D, Chosen, o
  <2>3. \A k \in DOMAIN o(n) : o(n)[k] \in free <=> o(n)[k] \in also
    BY <2>1 DEF ToSet, D
  <2>4. QED BY <2>2, <2>3 DEF IsFirst
<1>5. QED BY <1>2, <1>4 DEF Picks

LEMMA FirstOfThem ==
  ASSUME NEW ordered, DOMAIN ordered \in SUBSET Int, IsFiniteSet(DOMAIN ordered), NEW free,
         NEW x \in ToSet(ordered), x \in free
  PROVE  \E r : IsFirst(r, ordered, free)
<1> DEFINE K == { k \in DOMAIN ordered : ordered[k] \in free }
<1>1. K \in SUBSET Int /\ IsFiniteSet(K)
  <2>1. K \in SUBSET DOMAIN ordered
    OBVIOUS
  <2> HIDE DEF K
  <2>2. QED BY <2>1, FS_Subset
<1>2. K # {}
  BY DEF ToSet
<1>3. PICK k \in K : \A l \in K : k <= l
  <2> HIDE DEF K
  <2> QED BY <1>1, <1>2, HasLeast
<1>4. \A l \in DOMAIN ordered : l < k => ordered[l] \notin free
  BY <1>1, <1>3
<1>5. IsFirst(ordered[k], ordered, free)
  BY <1>3, <1>4 DEF IsFirst
<1>6. QED BY <1>5

\* If somebody of each role is free and nobody fits two roles, a team is found.
LEMMA SomePick ==
  ASSUME NEW s \in Service, NEW present, NEW preferred, NEW free, free \subseteq present,
         OneRoleEach(s), NEW team \in Teams(s, present, preferred),
         \A n \in DOMAIN team : team[n] \in free
  PROVE  Picks(s, present, preferred, free) # {}
<1> DEFINE D == Roles(s, present)
           o(n) == Ordered(s.candidates[n], present, preferred)
           pick == [ n \in D |-> CHOOSE r : IsFirst(r, o(n), free) ]
           Chosen(n) == { pick[m] : m \in { m \in DOMAIN pick : m < n } }
<1>1. DOMAIN team = D /\ \A n \in D :
        /\ team[n] \in ToSet(s.candidates[n])
        /\ preferred \in ToSet(s.candidates[n]) \cap present => team[n] = preferred
  BY DEF Teams
<1>2. /\ D \subseteq Nat
      /\ \A n \in D : n \in DOMAIN s.candidates /\ s.candidates[n] \in Seq(Resource)
  BY RoleFacts
<1>3. ASSUME NEW n \in D
      PROVE  /\ IsFirst(pick[n], o(n), free) /\ pick[n] \in free
             /\ pick[n] \in ToSet(s.candidates[n])
             /\ ToSet(o(n)) \subseteq ToSet(s.candidates[n])
  <2>1. /\ DOMAIN o(n) \in SUBSET Nat /\ IsFiniteSet(DOMAIN o(n))
        /\ ToSet(o(n)) \subseteq ToSet(s.candidates[n])
    BY <1>2, OrderedFacts
  <2>2. team[n] \in ToSet(o(n))
    <3>1. CASE preferred \in ToSet(s.candidates[n]) \cap present
      <4>1. team[n] = preferred
        BY <1>1, <3>1
      <4>2. \A r : r \in ToSet(o(n)) <=> r = preferred
        BY <1>2, <3>1, OrderedFacts
      <4> HIDE DEF o
      <4>3. QED BY <4>1, <4>2
    <3>2. CASE preferred \notin ToSet(s.candidates[n]) \cap present
      <4>1. o(n) = s.candidates[n]
        BY <1>2, <3>2, OrderedFacts
      <4> HIDE DEF o
      <4>2. QED BY <4>1, <1>1
    <3>3. QED BY <3>1, <3>2
  <2>3. team[n] \in free
    BY <1>1
  <2> HIDE DEF o
  <2>4. \E r : IsFirst(r, o(n), free)
    BY <2>1, <2>2, <2>3, FirstOfThem
  <2>5. IsFirst(CHOOSE r : IsFirst(r, o(n), free), o(n), free)
    BY <2>4
  <2>6. pick[n] = CHOOSE r : IsFirst(r, o(n), free)
    OBVIOUS
  <2>7. IsFirst(pick[n], o(n), free)
    BY <2>5, <2>6
  <2> HIDE DEF pick
  <2>8. QED BY <2>1, <2>7 DEF IsFirst, ToSet
<1>4. pick \in [ D -> present ] /\ DOMAIN pick = D
  BY <1>3
<1> HIDE DEF pick, o, D
<1>5. ASSUME NEW n \in D  PROVE IsFirst(pick[n], o(n), free \ Chosen(n))
  <2>1. \A x \in ToSet(o(n)) : x \notin Chosen(n)
    <3>1. ASSUME NEW m \in D, m < n, pick[m] \in ToSet(s.candidates[n])  PROVE FALSE
      <4>1. /\ m \in DOMAIN s.candidates /\ n \in DOMAIN s.candidates /\ m # n
            /\ m \in Nat /\ n \in Nat
        BY <1>2, <3>1
      <4>2. ToSet(s.candidates[m]) \cap ToSet(s.candidates[n]) = {}
        BY <4>1 DEF OneRoleEach
      <4>3. QED BY <4>2, <3>1, <1>3
    <3>2. QED BY <3>1, <1>3, <1>4
  <2> HIDE DEF Chosen
  <2>2. IsFirst(pick[n], o(n), free)
    BY <1>3
  <2>3. \A k \in DOMAIN o(n) : o(n)[k] \notin Chosen(n)
    BY <2>1 DEF ToSet
  <2>4. QED BY <2>2, <2>3 DEF IsFirst
<1>6. pick \in Picks(s, present, preferred, free)
  BY <1>4, <1>5 DEF Picks, D, o
<1>7. QED BY <1>6

-----------------------------------------------------------------------------
(* Slots. *)

TeamsAt(q, inputs, t) ==
  PickResources(q.service, ReservationWindow(q.service, t), inputs, AllWindows(q, inputs),
                q.preferred)

FreeAt(q, inputs, t) ==
  FreeResources(ReservationWindow(q.service, t), inputs, AllWindows(q, inputs))

\* A start on the grid, clear of what blocks the branch.
StartsAt(q, inputs, t) ==
  /\ \E w \in LocationWindows(q, inputs) :
       t \in Grid(w, Earliest(q), Latest(q), q.service, q.step)
  /\ \A b \in Owned(inputs.blocks, Branch) : ~Overlaps(b, ReservationWindow(q.service, t))

LEMMA TeamsArePicked ==
  ASSUME NEW q, NEW inputs, NEW t
  PROVE  TeamsAt(q, inputs, t)
           = Picks(q.service, inputs.active, q.preferred, FreeAt(q, inputs, t))
BY DEF TeamsAt, PickResources, Picks, FreeAt

LEMMA SlotsAre ==
  ASSUME NEW q, NEW inputs
  PROVE  /\ \A s \in AllSlots(q, inputs) :
              /\ s = [ starts_at |-> s.starts_at, team |-> s.team ]
              /\ StartsAt(q, inputs, s.starts_at) /\ s.team \in TeamsAt(q, inputs, s.starts_at)
         /\ \A t : StartsAt(q, inputs, t) => \A team \in TeamsAt(q, inputs, t) :
              [ starts_at |-> t, team |-> team ] \in AllSlots(q, inputs)
<1> DEFINE location == LocationWindows(q, inputs)
           starts == { t \in UNION { Grid(w, Earliest(q), Latest(q), q.service, q.step) :
                                       w \in location } :
                         \A b \in Owned(inputs.blocks, Branch) :
                           ~Overlaps(b, ReservationWindow(q.service, t)) }
<1>1. AllSlots(q, inputs)
        = UNION { { [ starts_at |-> t, team |-> team ] : team \in TeamsAt(q, inputs, t) } :
                    t \in starts }
  BY DEF AllSlots, TeamsAt, AllWindows
<1>2. \A t : t \in starts <=> StartsAt(q, inputs, t)
  BY DEF StartsAt
<1> HIDE DEF starts
<1>3. ASSUME NEW s \in AllSlots(q, inputs)
      PROVE  /\ s = [ starts_at |-> s.starts_at, team |-> s.team ]
             /\ StartsAt(q, inputs, s.starts_at) /\ s.team \in TeamsAt(q, inputs, s.starts_at)
  <2>1. PICK t \in starts : \E team \in TeamsAt(q, inputs, t) :
                              s = [ starts_at |-> t, team |-> team ]
    BY <1>1
  <2>2. PICK team \in TeamsAt(q, inputs, t) : s = [ starts_at |-> t, team |-> team ]
    BY <2>1
  <2>3. s.starts_at = t /\ s.team = team
    BY <2>2
  <2>4. QED BY <1>2, <2>2, <2>3
<1>4. ASSUME NEW t, StartsAt(q, inputs, t), NEW team \in TeamsAt(q, inputs, t)
      PROVE  [ starts_at |-> t, team |-> team ] \in AllSlots(q, inputs)
  BY <1>1, <1>2, <1>4
<1>5. QED BY <1>3, <1>4

LEMMA GridFacts ==
  ASSUME NEW w, w.start \in Int, w.end \in Int, NEW e \in Int, NEW l \in Int,
         NEW s \in Service, NEW step, NEW t
  PROVE  t \in Grid(w, e, l, s, step)
           <=> /\ t \in Int /\ w.start <= t /\ e <= t
               /\ t + s.duration <= w.end /\ t + s.duration <= l
               /\ (t - w.start) % step = 0
<1> DEFINE a == Max({ w.start, e })
           b == Min({ w.end, l })
           d == s.duration
<1>1. a = IF w.start >= e THEN w.start ELSE e
  BY MaxOfTwo
<1>2. b = IF w.end <= l THEN w.end ELSE l
  BY MinOfTwo
<1>3. d \in Int
  BY ServiceFacts
<1>4. t \in Grid(w, e, l, s, step) <=> t \in a .. b - d /\ (t - w.start) % step = 0
  BY DEF Grid
<1> HIDE DEF a, b, d
<1>5. a \in Int /\ b \in Int
  BY <1>1, <1>2
<1>6. t \in a .. b - d <=> t \in Int /\ a <= t /\ t <= b - d
  BY <1>3, <1>5
<1>7. ASSUME t \in Int
      PROVE  /\ a <= t <=> w.start <= t /\ e <= t
             /\ t <= b - d <=> t + d <= w.end /\ t + d <= l
  BY <1>1, <1>2, <1>3, <1>7
<1>8. QED BY <1>4, <1>6, <1>7 DEF d

LEMMA LocationFacts ==
  ASSUME World, PlainHours, NEW q, Question(q), NEW inputs, Given(inputs)
  PROVE  /\ LocationWindows(q, inputs) = WindowsFor(Owned(rules, Branch), Days(q), Zone[Branch])
         /\ Windows(LocationWindows(q, inputs))
         /\ \A a, b \in Int : a < b =>
              (Reaches(LocationWindows(q, inputs), a, b)
                 <=> \A t \in Int : a <= t /\ t < b => OpenIn(q, t))
<1>1. Branch \in Owner
  BY DEF Owner
<1>2. LocationWindows(q, inputs) = WindowsFor(Owned(rules, Branch), Days(q), Zone[Branch])
  BY DEF LocationWindows, Given
<1>3. \A a, b \in Int : a < b =>
        (Reaches(LocationWindows(q, inputs), a, b)
           <=> \A t \in Int : a <= t /\ t < b => OpenIn(q, t))
  BY <1>1, <1>2, OwnerReaches DEF OpenIn
<1>4. 0 \in Int /\ 1 \in Int /\ 0 < 1
  OBVIOUS
<1>5. Windows(LocationWindows(q, inputs))
  BY <1>1, <1>2, <1>4, OwnerReaches
<1>6. QED BY <1>2, <1>3, <1>5

\* What a start of the engine is good for.
LEMMA StartFacts ==
  ASSUME World, PlainHours, NEW q, Question(q), NEW inputs, Given(inputs),
         NEW t, StartsAt(q, inputs, t)
  PROVE  /\ t \in Int /\ Permitted(q, t)
         /\ \A u \in Minutes(Appointment(q.service, t)) : OpenIn(q, u)
         /\ \A u \in Minutes(ReservationWindow(q.service, t)) : ~Blocked(Branch, u, inputs.blocks)
<1> DEFINE d == q.service.duration
<1>1. q.service \in Service
  BY DEF Question
<1>2. d \in Int /\ d > 0
  BY <1>1, ServiceFacts
<1>3. PICK w \in LocationWindows(q, inputs) :
        t \in Grid(w, Earliest(q), Latest(q), q.service, q.step)
  BY DEF StartsAt
<1>4. w.start \in Int /\ w.end \in Int
  BY LocationFacts DEF Windows
<1>5. /\ t \in Int /\ w.start <= t /\ Earliest(q) <= t
      /\ t + d <= w.end /\ t + d <= Latest(q)
  BY <1>1, <1>3, <1>4, QueryFacts, GridFacts
<1>6. Permitted(q, t)
  BY <1>2, <1>5, QueryFacts
<1>7. \A u \in Int : t <= u /\ u < t + d => OpenIn(q, u)
  <2> DEFINE e == t + d
  <2>1. e \in Int /\ t < e
    BY <1>2, <1>5
  <2>2. Reaches(LocationWindows(q, inputs), t, e)
    BY <1>5 DEF Reaches
  <2> HIDE DEF e
  <2>3. \A u \in Int : t <= u /\ u < e => OpenIn(q, u)
    BY <1>5, <2>1, <2>2, LocationFacts
  <2>4. QED BY <2>3 DEF e
<1>8. \A u \in Minutes(Appointment(q.service, t)) : OpenIn(q, u)
  <2>1. Minutes(Appointment(q.service, t)) \subseteq Int
    BY <1>1, <1>5, WindowOf
  <2>2. QED BY <1>1, <1>5, <1>7, <2>1, WindowOf
<1>9. \A u \in Minutes(ReservationWindow(q.service, t)) : ~Blocked(Branch, u, inputs.blocks)
  <2>1. inputs.blocks \subseteq Block
    BY DEF World, Given
  <2>2. \A b \in Owned(inputs.blocks, Branch) : ~Overlaps(b, ReservationWindow(q.service, t))
    BY DEF StartsAt
  <2>3. QED BY <1>1, <1>5, <2>1, <2>2, ClearOfBlocks
<1>10. QED BY <1>5, <1>6, <1>8, <1>9

\* What a team of the engine is good for.
LEMMA TeamFacts ==
  ASSUME World, PlainHours, NEW q, Question(q), NEW inputs, Given(inputs),
         NEW t \in Int, NEW team \in TeamsAt(q, inputs, t)
  PROVE  /\ team \in Teams(q.service, active, q.preferred)
         /\ \A n \in DOMAIN team :
              /\ team[n] \in Resource
              /\ \A u \in Minutes(ReservationWindow(q.service, t)) :
                   FreeIn(q, team[n], u, inputs.blocks, inputs.claims)
<1>1. q.service \in Service /\ inputs.active = active /\ active \subseteq Resource
  BY DEF Question, Given, World
<1>2. team \in Picks(q.service, active, q.preferred, FreeAt(q, inputs, t))
  BY <1>1, TeamsArePicked
<1>3. /\ team \in Teams(q.service, active, q.preferred)
      /\ \A n \in DOMAIN team : team[n] \in FreeAt(q, inputs, t)
  BY <1>1, <1>2, PickedTeam
<1>4. ASSUME NEW n \in DOMAIN team
      PROVE  /\ team[n] \in Resource
             /\ \A u \in Minutes(ReservationWindow(q.service, t)) :
                  FreeIn(q, team[n], u, inputs.blocks, inputs.claims)
  <2>1. /\ team[n] \in Resource
        /\ ResourceFree(team[n], ReservationWindow(q.service, t), inputs,
                        AllWindows(q, inputs)[team[n]])
    BY <1>1, <1>3 DEF FreeAt, FreeResources
  <2>2. QED BY <2>1, ResourceIsFree
<1>5. QED BY <1>3, <1>4

-----------------------------------------------------------------------------
(* Types. *)

\* The question of resolve_slot.
Narrow(service, t, preferred) ==
  [ service |-> service, range |-> Span(t - 1, t + service.duration + 1), step |-> 1,
    limit |-> 64, preferred |-> preferred ]

LEMMA NarrowFacts ==
  ASSUME World, NEW service \in Service, NEW t \in Int, NEW preferred \in Resource \cup { None },
         NEW s \in ResolveSlot(service, t, preferred)
  PROVE  LET q == Narrow(service, t, preferred)
         IN /\ Question(q) /\ q.service = service /\ q.preferred = preferred
            /\ q.range = Span(t - 1, t + service.duration + 1)
            /\ Given(Loaded(q.range))
            /\ s \in AllSlots(q, Loaded(q.range))
            /\ s.starts_at = t
<1> DEFINE q == Narrow(service, t, preferred)
           range == Span(t - 1, t + service.duration + 1)
<1>1. /\ q.service = service /\ q.range = range /\ q.step = 1 /\ q.limit = 64
      /\ q.preferred = preferred
  BY DEF Narrow
<1>2. range.start \in Int /\ range.end \in Int
  BY ServiceFacts DEF Span
<1>3. s \in ComputeSlots(q, Loaded(range)) /\ s.starts_at = t
  BY DEF ResolveSlot, Narrow
<1> HIDE DEF q, range
<1>4. Question(q)
  BY <1>1, <1>2 DEF Question
<1>5. Given(Loaded(range))
  BY DEF Given, Loaded
<1>6. s \in AllSlots(q, Loaded(range))
  BY <1>3 DEF ComputeSlots
<1>7. QED BY <1>1, <1>3, <1>4, <1>5, <1>6 DEF q, range

\* The inductive invariant: the rules in force are finitely many, and the claims
\* expire at a minute or never.
Inv ==
  /\ TypeOK /\ IsFiniteSet(rules)
  /\ \A c \in claims : c.until = None \/ c.until \in Int

LEMMA InvIsWorld ==
  ASSUME Inv
  PROVE  World
<1>1. Start \subseteq Int
  BY ConstantAssumption
<1>2. \A c \in claims : c.service \in Service /\ c.starts_at \in Int
  BY <1>1 DEF Inv, TypeOK
<1>3. now \in Nat /\ active \subseteq Resource /\ rules \subseteq Rule /\ blocks \subseteq Block
  BY DEF Inv, TypeOK
<1>4. QED BY <1>2, <1>3 DEF Inv, World

LEMMA InvInit ==
  ASSUME Init
  PROVE  Inv
BY ConstantAssumption, FS_EmptySet DEF Init, Inv, TypeOK

\* A team that was picked for a preference is one that could be picked for none.
LEMMA TeamIsAnyTeam ==
  ASSUME NEW s \in Service, NEW present \in SUBSET Resource, NEW preferred,
         NEW team \in Teams(s, present, preferred)
  PROVE  team \in Teams(s, present, None)
<1>1. None \notin present
  BY ConstantAssumption
<1>2. QED BY <1>1 DEF Teams

\* A claim that is made has a team of the resources that work here.
LEMMA ClaimsType ==
  ASSUME Inv, NEW service \in Service, NEW t \in Start, NEW preferred \in Preference,
         NEW until, until = None \/ (until \in Int /\ until <= now + HoldTTL),
         Claims(service, t, preferred, until)
  PROVE  Inv'
<1>1. World
  BY InvIsWorld
<1>2. t \in Int /\ preferred \in Resource \cup { None }
  BY ConstantAssumption
<1>3. PICK s \in ResolveSlot(service, t, preferred) :
        /\ claims' = { c \in claims : Live(c) } \cup
             { [ service |-> service, starts_at |-> t, team |-> s.team, until |-> until ] }
        /\ UNCHANGED << now, active, rules, blocks >>
  BY DEF Claims
<1> DEFINE q == Narrow(service, t, preferred)
           inputs == Loaded(q.range)
           new == [ service |-> service, starts_at |-> t, team |-> s.team, until |-> until ]
<1>4. s \in AllSlots(q, inputs) /\ q.service = service
  BY <1>1, <1>2, NarrowFacts
<1>5. inputs.active = active
  BY DEF Loaded
<1> HIDE DEF q, inputs
<1>6. s.team \in Picks(service, active, q.preferred, FreeAt(q, inputs, s.starts_at))
  <2>1. s.team \in TeamsAt(q, inputs, s.starts_at)
    BY <1>4, SlotsAre
  <2>2. QED BY <2>1, <1>4, <1>5, TeamsArePicked
<1>7. s.team \in Teams(service, active, None)
  <2>1. active \in SUBSET Resource
    BY <1>1 DEF World
  <2>2. QED BY <1>6, <2>1, PickedTeam, TeamIsAnyTeam
<1>8. /\ new.service \in Service /\ new.starts_at \in Start
      /\ \E present \in SUBSET Resource : new.team \in Teams(new.service, present, None)
      /\ new.until = None \/ (new.until \in Int /\ new.until <= now + HoldTTL)
  BY <1>1, <1>7 DEF World
<1> HIDE DEF new
<1>9. claims' \subseteq claims \cup { new }
  BY <1>3 DEF new
<1>10. \A c \in claims' :
         /\ c.service \in Service /\ c.starts_at \in Start
         /\ \E present \in SUBSET Resource : c.team \in Teams(c.service, present, None)
         /\ c.until = None \/ (c.until \in Int /\ c.until <= now + HoldTTL)
  BY <1>8, <1>9 DEF Inv, TypeOK
<1>11. UNCHANGED << now, active, rules, blocks >>
  BY <1>3
<1>12. QED BY <1>10, <1>11 DEF Inv, TypeOK, Teams, Roles

\* Nothing else changes a claim that stays.
LEMMA InvNext ==
  ASSUME Inv, [Next]_vars
  PROVE  Inv'
<1>1. ASSUME NEW rule \in Rule, AddRule(rule)  PROVE Inv'
  <2>1. IsFiniteSet(rules \cup { rule })
    BY FS_AddElement DEF Inv
  <2>2. QED BY <1>1, <2>1 DEF AddRule, Inv, TypeOK, Teams, Roles
<1>2. ASSUME NEW rule \in Rule, DeleteRule(rule)  PROVE Inv'
  <2>1. IsFiniteSet(rules \ { rule })
    BY FS_RemoveElement DEF Inv
  <2>2. QED BY <1>2, <2>1 DEF DeleteRule, Inv, TypeOK, Teams, Roles
<1>3. ASSUME NEW b \in Block, AddBlock(b) \/ DeleteBlock(b)  PROVE Inv'
  BY <1>3 DEF AddBlock, DeleteBlock, Inv, TypeOK, Teams, Roles
<1>4. ASSUME NEW r \in Leaver, Deactivate(r) \/ Activate(r)  PROVE Inv'
  BY <1>4, ConstantAssumption DEF Deactivate, Activate, Inv, TypeOK, Teams, Roles
<1>5. ASSUME NEW service \in Service, NEW t \in Start, NEW preferred \in Preference,
             HoldSlot(service, t, preferred) \/ Book(service, t, preferred)
      PROVE  Inv'
  <2>1. now + HoldTTL \in Int
    BY ConstantAssumption DEF Inv, TypeOK
  <2>2. now + HoldTTL <= now + HoldTTL
    BY <2>1
  <2>3. CASE HoldSlot(service, t, preferred)
    BY <2>1, <2>2, <2>3, ClaimsType DEF HoldSlot
  <2>4. CASE Book(service, t, preferred)
    BY <2>4, ClaimsType DEF Book
  <2>5. QED BY <1>5, <2>3, <2>4
<1>6. ASSUME NEW c \in claims, Release(c)  PROVE Inv'
  BY <1>6 DEF Release, Inv, TypeOK, Teams, Roles
<1>7. ASSUME Tick  PROVE Inv'
  <2>1. now' = now + 1 /\ now' \in 0 .. Horizon /\ UNCHANGED << active, rules, blocks, claims >>
    BY <1>7, ConstantAssumption DEF Tick, Inv, TypeOK
  <2>2. \A c \in claims : c.until \in Int /\ c.until <= now + HoldTTL
                            => c.until <= now' + HoldTTL
    BY <2>1, ConstantAssumption DEF Inv, TypeOK
  <2>3. QED BY <2>1, <2>2 DEF Inv, TypeOK, Teams, Roles
<1>8. CASE UNCHANGED vars
  BY <1>8 DEF vars, Inv, TypeOK, Teams, Roles
<1>9. QED BY <1>1, <1>2, <1>3, <1>4, <1>5, <1>6, <1>7, <1>8 DEF Next

LEMMA InvAlways == Spec => []Inv
<1>1. QED BY InvInit, InvNext, PTL DEF Spec

\* Whatever rules, blocks and resources come and go, a claim is for a start that may
\* be asked for, by a team that has one candidate of every role that anybody was there
\* for and nobody twice, and expires within the time to live of a hold.
THEOREM TypeCorrect == Spec => []TypeOK
<1>1. Inv => TypeOK
  BY DEF Inv
<1>2. QED BY <1>1, InvAlways, PTL

-----------------------------------------------------------------------------
(* Claims. *)

\* What is loaded around a minute is all that matters to it.
LEMMA LoadedIsEnough ==
  ASSUME World, NEW range, range.start \in Int, range.end \in Int,
         NEW u \in Int, range.start <= u, u < range.end
  PROVE  /\ \A o : Blocked(o, u, Loaded(range).blocks) <=> Blocked(o, u, blocks)
         /\ \A r : Taken(r, u, Loaded(range).claims) <=> Taken(r, u, { c \in claims : Live(c) })
<1> DEFINE B == Loaded(range).blocks
           C == Loaded(range).claims
           L == { c \in claims : Live(c) }
           w(c) == ReservationWindow(c.service, c.starts_at)
<1>1. /\ B = { b \in blocks : Overlaps(b, range) }
      /\ C = { c \in L : Overlaps(w(c), range) }
  BY DEF Loaded
<1>2. ASSUME NEW i, i.start \in Int, i.end \in Int, u \in Minutes(i)
      PROVE  Overlaps(i, range)
  BY <1>2 DEF Minutes, Overlaps
<1>3. \A b \in blocks : b.start \in Int /\ b.end \in Int
  BY ConstantAssumption DEF World
<1>4. \A c \in claims : w(c).start \in Int /\ w(c).end \in Int
  BY WindowOf DEF World
<1> HIDE DEF B, C, w
<1>5. ASSUME NEW o  PROVE Blocked(o, u, B) <=> Blocked(o, u, blocks)
  BY <1>1, <1>2, <1>3 DEF Blocked, Owned
<1>6. ASSUME NEW r  PROVE Taken(r, u, C) <=> Taken(r, u, L)
  BY <1>1, <1>2, <1>4 DEF Taken, w
<1>7. QED BY <1>5, <1>6 DEF B, C

\* The exclusion constraint leaves none of the team's minutes to another claim.
LEMMA UnclaimedMinutes ==
  ASSUME World, NEW service \in Service, NEW s, s.starts_at \in Int, Unclaimed(service, s),
         NEW r \in ToSet(s.team), NEW u \in Minutes(ReservationWindow(service, s.starts_at))
  PROVE  ~Taken(r, u, { c \in claims : Live(c) })
<1> DEFINE L == { c \in claims : Live(c) }
<1>1. \A c \in L : c.service \in Service /\ c.starts_at \in Int
  BY DEF World
<1>2. \A c \in L : r \in ToSet(c.team) =>
        ~Overlaps(ReservationWindow(c.service, c.starts_at),
                  ReservationWindow(service, s.starts_at))
  BY DEF Unclaimed
<1> HIDE DEF L
<1>3. \A v \in Minutes(ReservationWindow(service, s.starts_at)) : ~Taken(r, v, L)
  BY <1>1, <1>2, ClearOfClaims
<1>4. QED BY <1>3 DEF L

\* A claim of the engine's slot for a team nobody else has claimed.
LEMMA ClaimIsSound ==
  ASSUME World, PlainHours, NEW service \in Service, NEW t \in Int,
         NEW preferred \in Resource \cup { None }, NEW s \in ResolveSlot(service, t, preferred),
         Unclaimed(service, s)
  PROVE  LET others == { d \in claims : Live(d) }
             visit == Appointment(service, t)
         IN /\ OpenFor(visit) /\ Serves(s.team, visit, blocks, others)
            /\ \A n \in DOMAIN s.team :
                 \A u \in Minutes(ReservationWindow(service, t)) : ~Taken(s.team[n], u, others)
<1> DEFINE q == Narrow(service, t, preferred)
           inputs == Loaded(q.range)
           others == { d \in claims : Live(d) }
           visit == Appointment(service, t)
           window == ReservationWindow(service, t)
<1>1. /\ Question(q) /\ Given(inputs) /\ s \in AllSlots(q, inputs) /\ s.starts_at = t
      /\ q.service = service /\ q.range = Span(t - 1, t + service.duration + 1)
  BY NarrowFacts
<1>2. /\ q.range.start = t - 1 /\ q.range.end = t + service.duration + 1
      /\ service.duration \in Int
  BY <1>1, ServiceFacts DEF Span
<1> HIDE DEF q
<1>3. StartsAt(q, inputs, t) /\ s.team \in TeamsAt(q, inputs, t)
  BY <1>1, SlotsAre
<1> HIDE DEF inputs
<1>4. /\ \A u \in Minutes(visit) : OpenIn(q, u)
      /\ \A u \in Minutes(window) : ~Blocked(Branch, u, inputs.blocks)
  BY <1>1, <1>3, StartFacts
<1>5. \A n \in DOMAIN s.team : \A u \in Minutes(window) :
        FreeIn(q, s.team[n], u, inputs.blocks, inputs.claims)
  BY <1>1, <1>3, TeamFacts
<1>6. /\ Minutes(visit) \subseteq Minutes(window) /\ Minutes(visit) \subseteq Int
      /\ \A u \in Minutes(visit) : t <= u /\ u < t + service.duration
  BY WindowOf
<1>7. OpenFor(visit)
  <2>1. \A u \in Minutes(visit) : u \in Int /\ EngineOpens(Branch, u)
    BY <1>4, <1>6 DEF OpenIn
  <2> HIDE DEF visit
  <2>2. QED BY <2>1, EngineIsRight DEF OpenFor
<1>8. \A n \in DOMAIN s.team : \A u \in Minutes(window) : ~Taken(s.team[n], u, others)
  <2> HIDE DEF window, others
  <2>1. \A n \in DOMAIN s.team : s.team[n] \in ToSet(s.team)
    BY DEF ToSet
  <2>2. QED BY <1>1, <2>1, UnclaimedMinutes DEF window, others
<1>9. ASSUME NEW u \in Minutes(visit)
      PROVE  /\ ~Blocked(Branch, u, blocks)
             /\ \A n \in DOMAIN s.team :
                  /\ Works(s.team[n], u) /\ ~Blocked(s.team[n], u, blocks)
                  /\ ~Taken(s.team[n], u, others)
  <2>1. u \in Int /\ q.range.start <= u /\ u < q.range.end /\ u \in Minutes(window)
        /\ q.range.start \in Int /\ q.range.end \in Int
    <3> HIDE DEF visit, window
    <3> QED BY <1>2, <1>6
  <2>2. \A o : Blocked(o, u, inputs.blocks) <=> Blocked(o, u, blocks)
    BY <2>1, LoadedIsEnough DEF inputs
  <2> HIDE DEF visit, window, others
  <2>3. ~Blocked(Branch, u, blocks)
    BY <1>4, <2>1, <2>2
  <2>4. ASSUME NEW n \in DOMAIN s.team
        PROVE  Works(s.team[n], u) /\ ~Blocked(s.team[n], u, blocks)
    <3>1. FreeIn(q, s.team[n], u, inputs.blocks, inputs.claims)
      BY <1>5, <2>1
    <3>2. EngineWorks(s.team[n], u) /\ ~Blocked(s.team[n], u, blocks)
      BY <3>1, <2>2 DEF FreeIn, AtWorkIn, OpenIn, EngineWorks
    <3>3. QED BY <3>2, <2>1, EngineIsRight
  <2>5. QED BY <2>1, <2>3, <2>4, <1>8
<1>10. Serves(s.team, visit, blocks, others)
  <2> HIDE DEF visit, others
  <2> QED BY <1>9 DEF Serves
<1>11. QED BY <1>7, <1>8, <1>10

LEMMA ClaimStep ==
  ASSUME Inv, PlainHours, NEW service \in Service, NEW t \in Start,
         NEW preferred \in Preference, NEW until, Claims(service, t, preferred, until),
         NEW c \in claims' \ claims
  PROVE  LET others == { d \in claims : Live(d) }
             visit == Appointment(c.service, c.starts_at)
         IN /\ OpenFor(visit) /\ Serves(c.team, visit, blocks, others)
            /\ \A n \in DOMAIN c.team :
                 \A u \in Minutes(ReservationWindow(c.service, c.starts_at)) :
                   ~Taken(c.team[n], u, others)
<1>1. World
  BY InvIsWorld
<1>2. t \in Int /\ preferred \in Resource \cup { None }
  BY ConstantAssumption
<1>3. PICK s \in ResolveSlot(service, t, preferred) :
        /\ Unclaimed(service, s)
        /\ claims' = { d \in claims : Live(d) } \cup
             { [ service |-> service, starts_at |-> t, team |-> s.team, until |-> until ] }
  BY DEF Claims
<1>4. c = [ service |-> service, starts_at |-> t, team |-> s.team, until |-> until ]
  BY <1>3
<1>5. c.service = service /\ c.starts_at = t /\ c.team = s.team
  BY <1>4
<1>6. LET others == { d \in claims : Live(d) }
          visit == Appointment(service, t)
      IN /\ OpenFor(visit) /\ Serves(s.team, visit, blocks, others)
         /\ \A n \in DOMAIN s.team :
              \A u \in Minutes(ReservationWindow(service, t)) : ~Taken(s.team[n], u, others)
  BY <1>1, <1>2, <1>3, ClaimIsSound
<1>7. QED BY <1>5, <1>6

\* Where no hours begin or end at a reading that a clock jumps over or shows twice:
\* whoever claims a slot, by a hold or a booking, gets an appointment within the hours
\* of the branch and of each of the team, clear of every block there is and not only of
\* those that were loaded, and no minute of its window is another live claim's.
THEOREM ClaimsSound ==
  ASSUME PlainHours
  PROVE  Spec => ClaimsAreSound
<1> DEFINE Sound(c) ==
             LET others == { d \in claims : Live(d) }
                 visit == Appointment(c.service, c.starts_at)
             IN /\ OpenFor(visit) /\ Serves(c.team, visit, blocks, others)
                /\ \A n \in DOMAIN c.team :
                     \A t \in Minutes(ReservationWindow(c.service, c.starts_at)) :
                       ~Taken(c.team[n], t, others)
           Added == \A c \in claims' \ claims : Sound(c)
<1>1. ASSUME Inv, [Next]_vars  PROVE Added
  <2>1. SUFFICES ASSUME NEW c \in claims' \ claims  PROVE Sound(c)
    OBVIOUS
  <2>2. PICK service \in Service, t \in Start, preferred \in Preference :
          HoldSlot(service, t, preferred) \/ Book(service, t, preferred)
    <3> HIDE DEF Sound
    <3> QED BY <1>1, <2>1 DEF Next, vars, AddRule, DeleteRule, AddBlock, DeleteBlock,
                              Deactivate, Activate, Release, Tick
  <2>3. PICK until : Claims(service, t, preferred, until)
    BY <2>2 DEF HoldSlot, Book
  <2>4. QED BY <1>1, <2>1, <2>3, ClaimStep
<1> HIDE DEF Sound
<1>2. Inv /\ [Next]_vars => [Added]_vars
  BY <1>1
<1>3. [][Added]_vars <=> ClaimsAreSound
  BY DEF ClaimsAreSound, Sound
<1>4. QED BY <1>2, <1>3, InvAlways, PTL DEF Spec

-----------------------------------------------------------------------------
(* Days. *)

\* Time does not go back to an earlier day.
LEMMA DaysGoOn ==
  ASSUME SteadyDays, NEW o \in Owner, NEW u \in Int, NEW v \in Int, u <= v
  PROVE  LocalDay(Zone[o], u) <= LocalDay(Zone[o], v)
<1> DEFINE b == Zone[o].before
           a == Zone[o].after
           c == Zone[o].change
           last == c - 1 + b
           first == c + a
           D == DayLength
<1>1. b \in Int /\ a \in Int /\ c \in Int
  BY ZoneFacts
<1>2. /\ LocalDay(Zone[o], u) = (IF u < c THEN u + b ELSE u + a) \div D
      /\ LocalDay(Zone[o], v) = (IF v < c THEN v + b ELSE v + a) \div D
  <2>1. \A t : LocalDay(Zone[o], t) = (t + (IF t < c THEN b ELSE a)) \div D
    BY DEF LocalDay
  <2>2. QED BY <2>1
<1>3. \A x, y \in Int : x <= y => x \div D <= y \div D
  BY DaysAreOrdered
<1>4. \/ last \div D = first \div D
      \/ first > last
  BY DEF SteadyDays
<1>5. \A x \in Int : x \div D \in Int
  BY DayAndMinute
<1> HIDE DEF b, a, c, D
<1>6. last \in Int /\ first \in Int
  BY <1>1
<1> HIDE DEF last, first
<1>7. last \div D <= first \div D
  BY <1>3, <1>4, <1>5, <1>6
<1>8. CASE v < c
  <2>1. u + b \in Int /\ v + b \in Int /\ u + b <= v + b /\ u < c
    BY <1>1, <1>8
  <2>2. (u + b) \div D <= (v + b) \div D
    BY <1>3, <2>1
  <2>3. QED BY <1>2, <1>8, <2>1, <2>2
<1>9. CASE c <= u
  <2>1. u + a \in Int /\ v + a \in Int /\ u + a <= v + a /\ ~(u < c) /\ ~(v < c)
    BY <1>1, <1>9
  <2>2. (u + a) \div D <= (v + a) \div D
    BY <1>3, <2>1
  <2>3. QED BY <1>2, <2>1, <2>2
<1>10. CASE u < c /\ c <= v
  <2>1. /\ u + b \in Int /\ v + a \in Int /\ u + b <= last /\ first <= v + a
        /\ ~(v < c)
    BY <1>1, <1>10 DEF last, first
  <2>2. (u + b) \div D <= last \div D /\ first \div D <= (v + a) \div D
    BY <1>3, <1>6, <2>1
  <2>3. (u + b) \div D \in Int /\ (v + a) \div D \in Int
    BY <1>5, <2>1
  <2>4. (u + b) \div D <= (v + a) \div D
    BY <1>5, <1>6, <1>7, <2>2, <2>3
  <2>5. QED BY <1>2, <1>10, <2>1, <2>4
<1>11. QED BY <1>1, <1>8, <1>9, <1>10

\* The days that a query expands are those of all its minutes.
LEMMA DaysOfQuery ==
  ASSUME World, SteadyDays, NEW q, Question(q), NEW u \in Int, Earliest(q) <= u, u <= Latest(q)
  PROVE  LocalDay(Zone[Branch], u) \in Days(q)
<1>1. Branch \in Owner /\ Earliest(q) \in Int /\ Latest(q) \in Int
  BY QueryFacts DEF Owner
<1> DEFINE d == LocalDay(Zone[Branch], u)
           e == LocalDay(Zone[Branch], Earliest(q))
           l == LocalDay(Zone[Branch], Latest(q))
<1>2. d \in Int /\ e \in Int /\ l \in Int
  BY <1>1, ClockFacts
<1>3. e <= d /\ d <= l
  BY <1>1, DaysGoOn
<1>4. Days(q) = e .. l
  BY DEF Days
<1> HIDE DEF d, e, l
<1>5. d \in Days(q)
  BY <1>2, <1>3, <1>4
<1>6. QED BY <1>5 DEF d

LEMMA RequestsAsk ==
  ASSUME NEW q \in Request
  PROVE  Question(q)
BY ConstantAssumption DEF Question

-----------------------------------------------------------------------------
(* The same slot twice. *)

\* With nothing changed the narrow question permits what the search did.
LEMMA NarrowPermits ==
  ASSUME World, NEW q, Question(q), NEW t \in Int, Permitted(q, t)
  PROVE  LET p == Narrow(q.service, t, q.preferred)
         IN /\ Question(p) /\ Permitted(p, t)
            /\ p.service = q.service /\ p.preferred = q.preferred /\ p.step = 1 /\ p.limit = 64
            /\ p.range = Span(t - 1, t + q.service.duration + 1)
            /\ p.range.start = t - 1 /\ p.range.end = t + q.service.duration + 1
<1> DEFINE p == Narrow(q.service, t, q.preferred)
           d == q.service.duration
<1>1. /\ p.service = q.service /\ p.preferred = q.preferred /\ p.step = 1 /\ p.limit = 64
      /\ p.range = Span(t - 1, t + d + 1)
  BY DEF Narrow
<1>2. p.range.start = t - 1 /\ p.range.end = t + d + 1
  BY <1>1 DEF Span
<1>3. q.service \in Service
  BY DEF Question
<1>4. d \in Int /\ d < MaxQuery /\ MaxQuery \in Int
  BY <1>3, ServiceFacts
<1> HIDE DEF p, d
<1>5. Question(p)
  BY <1>1, <1>2, <1>4 DEF Question
<1>6. t >= now + q.service.notice /\ t + d <= now + q.service.horizon
  BY DEF Permitted, d
<1>7. /\ t >= t - 1 /\ t + d <= t + d + 1 /\ t + d <= t - 1 + MaxQuery
  BY <1>4
<1>8. Permitted(p, t)
  BY <1>1, <1>2, <1>6, <1>7 DEF Permitted, d
<1>9. QED BY <1>1, <1>2, <1>5, <1>8 DEF p, d

\* Who is free is free for both questions.
LEMMA SameFree ==
  ASSUME World, PlainHours, SteadyDays,
         NEW q, Question(q), NEW p, Question(p), p.service = q.service,
         NEW wide, Given(wide), NEW narrow, Given(narrow), NEW t \in Int,
         \A u \in Minutes(ReservationWindow(q.service, t)) :
           /\ OpenIn(q, u) /\ OpenIn(p, u)
           /\ \A o : Blocked(o, u, wide.blocks) <=> Blocked(o, u, narrow.blocks)
           /\ \A r : Taken(r, u, wide.claims) <=> Taken(r, u, narrow.claims),
         NEW r \in Resource, Zone[r] = Zone[Branch]
  PROVE  r \in FreeAt(q, wide, t) <=> r \in FreeAt(p, narrow, t)
<1> DEFINE w == ReservationWindow(q.service, t)
<1>1. ResourceFree(r, w, wide, AllWindows(q, wide)[r])
        <=> \A u \in Minutes(w) : FreeIn(q, r, u, wide.blocks, wide.claims)
  BY ResourceIsFree
<1>2. ResourceFree(r, w, narrow, AllWindows(p, narrow)[r])
        <=> \A u \in Minutes(w) : FreeIn(p, r, u, narrow.blocks, narrow.claims)
  <2>1. w = ReservationWindow(p.service, t)
    OBVIOUS
  <2> HIDE DEF w
  <2>2. QED BY <2>1, ResourceIsFree
<1>3. ASSUME NEW u \in Minutes(w)
      PROVE  FreeIn(q, r, u, wide.blocks, wide.claims)
               <=> FreeIn(p, r, u, narrow.blocks, narrow.claims)
  <2>1. AtWorkIn(q, r, u) <=> AtWorkIn(p, r, u)
    BY <1>3 DEF AtWorkIn, OpenIn
  <2>2. QED BY <1>3, <2>1 DEF FreeIn
<1>4. /\ r \in FreeAt(q, wide, t)
           <=> r \in active /\ ResourceFree(r, w, wide, AllWindows(q, wide)[r])
      /\ r \in FreeAt(p, narrow, t)
           <=> r \in active /\ ResourceFree(r, w, narrow, AllWindows(p, narrow)[r])
  BY DEF FreeAt, FreeResources, Given
<1> HIDE DEF w
<1>5. QED BY <1>1, <1>2, <1>3, <1>4

\* A slot of a search is a slot of the narrow question about its start.
LEMMA FoundAgain ==
  ASSUME World, PlainHours, SteadyDays, NEW q, Question(q),
         SameZone(q.service), q.service.before = 0, q.service.after = 0,
         NEW s \in AllSlots(q, Loaded(q.range))
  PROVE  LET p == Narrow(q.service, s.starts_at, q.preferred)
         IN s \in AllSlots(p, Loaded(p.range))
<1> DEFINE t == s.starts_at
           d == q.service.duration
           p == Narrow(q.service, t, q.preferred)
           wide == Loaded(q.range)
           narrow == Loaded(p.range)
           w == ReservationWindow(q.service, t)
<1>1. Given(wide) /\ Given(narrow)
  BY DEF Given, Loaded
<1>2. /\ s = [ starts_at |-> t, team |-> s.team ]
      /\ StartsAt(q, wide, t) /\ s.team \in TeamsAt(q, wide, t)
  BY SlotsAre
<1>3. q.service \in Service /\ d \in Int /\ d > 0
  BY ServiceFacts DEF Question
<1> HIDE DEF wide, narrow, t
<1>4. /\ t \in Int /\ Permitted(q, t)
      /\ \A u \in Minutes(Appointment(q.service, t)) : OpenIn(q, u)
      /\ \A u \in Minutes(w) : ~Blocked(Branch, u, wide.blocks)
  BY <1>1, <1>2, StartFacts
<1>5. /\ Question(p) /\ Permitted(p, t)
      /\ p.service = q.service /\ p.preferred = q.preferred /\ p.step = 1
      /\ p.range.start = t - 1 /\ p.range.end = t + d + 1
  BY <1>4, NarrowPermits
<1> HIDE DEF p, d
<1>6. /\ Earliest(p) \in Int /\ Latest(p) \in Int
      /\ t >= Earliest(p) /\ t + d <= Latest(p)
  BY <1>4, <1>5, QueryFacts DEF d
<1>7. /\ \A u \in Int : u \in Minutes(w) <=> t <= u /\ u < t + d
      /\ Minutes(w) \subseteq Int
      /\ \A u \in Minutes(w) : u \in Minutes(Appointment(q.service, t))
  <2>1. /\ \A u \in Int : u \in Minutes(w)
                 <=> t - q.service.before <= u /\ u < t + d + q.service.after
        /\ \A u \in Int : u \in Minutes(Appointment(q.service, t)) <=> t <= u /\ u < t + d
        /\ Minutes(w) \subseteq Int
    BY <1>3, <1>4, WindowOf DEF d
  <2>2. t - 0 = t /\ t + d + 0 = t + d
    BY <1>3, <1>4
  <2> HIDE DEF w
  <2>3. \A u \in Int : u \in Minutes(w) <=> t <= u /\ u < t + d
    BY <2>1, <2>2
  <2>4. QED BY <2>1, <2>3
<1> HIDE DEF w
<1>8. ASSUME NEW u \in Minutes(w)
      PROVE  /\ OpenIn(q, u) /\ OpenIn(p, u)
             /\ \A o : Blocked(o, u, wide.blocks) <=> Blocked(o, u, narrow.blocks)
             /\ \A r : Taken(r, u, wide.claims) <=> Taken(r, u, narrow.claims)
  <2>1. u \in Int /\ t <= u /\ u < t + d
    BY <1>7
  <2>2. OpenIn(q, u)
    BY <1>4, <1>7
  <2>3. Earliest(p) <= u /\ u <= Latest(p)
    BY <2>1, <1>3, <1>4, <1>6
  <2>4. OpenIn(p, u)
    BY <2>1, <2>2, <2>3, <1>5, DaysOfQuery DEF OpenIn
  <2>5. /\ q.range.start \in Int /\ q.range.end \in Int
        /\ q.range.start <= u /\ u < q.range.end
    <3>1. t >= q.range.start /\ t + d <= q.range.end
      BY <1>4 DEF Permitted, d
    <3>2. q.range.start \in Int /\ q.range.end \in Int
      BY DEF Question
    <3>3. QED BY <3>1, <3>2, <2>1, <1>3, <1>4
  <2>6. /\ p.range.start \in Int /\ p.range.end \in Int
        /\ p.range.start <= u /\ u < p.range.end
    BY <2>1, <1>3, <1>4, <1>5
  <2>7. /\ \A o : Blocked(o, u, wide.blocks) <=> Blocked(o, u, blocks)
        /\ \A r : Taken(r, u, wide.claims) <=> Taken(r, u, { c \in claims : Live(c) })
    BY <2>1, <2>5, LoadedIsEnough DEF wide
  <2>8. /\ \A o : Blocked(o, u, narrow.blocks) <=> Blocked(o, u, blocks)
        /\ \A r : Taken(r, u, narrow.claims) <=> Taken(r, u, { c \in claims : Live(c) })
    BY <2>1, <2>6, LoadedIsEnough DEF narrow
  <2>9. QED BY <2>2, <2>4, <2>7, <2>8
<1>9. StartsAt(p, narrow, t)
  <2> DEFINE e == t + d
  <2>1. e \in Int /\ t < e
    BY <1>3, <1>4
  <2>2. \A u \in Int : t <= u /\ u < e => OpenIn(p, u)
    BY <1>7, <1>8
  <2> HIDE DEF e
  <2>3. Reaches(LocationWindows(p, narrow), t, e)
    BY <1>1, <1>4, <1>5, <2>1, <2>2, LocationFacts
  <2>4. PICK v \in LocationWindows(p, narrow) : v.start <= t /\ e <= v.end
    BY <2>3 DEF Reaches
  <2>5. v.start \in Int /\ v.end \in Int
    BY <1>1, <1>5, LocationFacts DEF Windows
  <2>6. (t - v.start) % 1 = 0
    <3> DEFINE x == t - v.start
    <3>1. x \in Int
      BY <1>4, <2>5
    <3> HIDE DEF x
    <3>2. x % 1 = 0
      BY <3>1
    <3>3. QED BY <3>2 DEF x
  <2>7. t \in Grid(v, Earliest(p), Latest(p), p.service, p.step)
    <3>1. t \in Grid(v, Earliest(p), Latest(p), q.service, 1)
      BY <1>3, <1>4, <1>6, <2>4, <2>5, <2>6, GridFacts DEF e, d
    <3>2. QED BY <3>1, <1>5
  <2>8. \A b \in Owned(narrow.blocks, Branch) : ~Overlaps(b, ReservationWindow(p.service, t))
    <3>1. \A u \in Minutes(w) : ~Blocked(Branch, u, narrow.blocks)
      BY <1>4, <1>8
    <3>2. narrow.blocks \subseteq Block
      BY <1>1 DEF World, Given
    <3>3. \A b \in Owned(narrow.blocks, Branch) : ~Overlaps(b, w)
      BY <1>3, <1>4, <3>1, <3>2, ClearOfBlocks DEF w
    <3>4. QED BY <3>3, <1>5 DEF w
  <2>9. QED BY <2>7, <2>8 DEF StartsAt
<1>10. \A n \in Roles(q.service, active) : \A r \in ToSet(q.service.candidates[n]) :
         r \in FreeAt(q, wide, t) <=> r \in FreeAt(p, narrow, t)
  <2>1. SUFFICES ASSUME NEW n \in Roles(q.service, active),
                        NEW r \in ToSet(q.service.candidates[n])
                 PROVE  r \in FreeAt(q, wide, t) <=> r \in FreeAt(p, narrow, t)
    OBVIOUS
  <2>2. n \in DOMAIN q.service.candidates /\ r \in Resource
    BY <1>3, RoleFacts
  <2>3. Zone[r] = Zone[Branch]
    BY <2>2 DEF SameZone
  <2>4. QED BY <1>1, <1>4, <1>5, <1>8, <2>2, <2>3, SameFree DEF w
<1>11. s.team \in TeamsAt(p, narrow, t)
  <2>1. wide.active = active /\ narrow.active = active
    BY <1>1 DEF Given
  <2>2. s.team \in Picks(q.service, active, q.preferred, FreeAt(q, wide, t))
    BY <1>2, <2>1, TeamsArePicked
  <2>3. s.team \in Picks(q.service, active, q.preferred, FreeAt(p, narrow, t))
    BY <1>3, <1>10, <2>2, SamePick
  <2>4. QED BY <1>5, <2>1, <2>3, TeamsArePicked
<1>12. s \in AllSlots(p, narrow)
  BY <1>2, <1>9, <1>11, SlotsAre
<1>13. QED BY <1>12 DEF p, narrow, t

\* Of one start there is one slot.
LEMMA OneSlot ==
  ASSUME NEW q, Question(q), NEW inputs,
         NEW s \in AllSlots(q, inputs), NEW v \in AllSlots(q, inputs), s.starts_at = v.starts_at
  PROVE  s = v
<1> DEFINE t == s.starts_at
<1>1. /\ s = [ starts_at |-> t, team |-> s.team ] /\ v = [ starts_at |-> t, team |-> v.team ]
      /\ s.team \in TeamsAt(q, inputs, t) /\ v.team \in TeamsAt(q, inputs, t)
  BY SlotsAre
<1>2. q.service \in Service
  BY DEF Question
<1>3. s.team = v.team
  BY <1>1, <1>2, TeamsArePicked, OnePick
<1>4. QED BY <1>1, <1>3

\* The narrow question finds one slot at most before its start, and so is not cut short.
LEMMA FewBefore ==
  ASSUME World, PlainHours, NEW q, Question(q), NEW t \in Int, Permitted(q, t),
         NEW p, p = Narrow(q.service, t, q.preferred), NEW inputs, Given(inputs)
  PROVE  Cardinality({ u \in AllSlots(p, inputs) : u.starts_at < t }) < 64
<1> DEFINE E == { u \in AllSlots(p, inputs) : u.starts_at < t }
<1>1. Question(p) /\ p.range.start = t - 1
  BY NarrowPermits
<1>2. \A u \in E : u.starts_at = t - 1
  <2>1. SUFFICES ASSUME NEW u \in E  PROVE u.starts_at = t - 1
    OBVIOUS
  <2>2. StartsAt(p, inputs, u.starts_at) /\ u.starts_at < t
    BY SlotsAre
  <2>3. u.starts_at \in Int /\ Permitted(p, u.starts_at)
    BY <1>1, <2>2, StartFacts
  <2>4. u.starts_at >= t - 1
    BY <1>1, <2>3 DEF Permitted
  <2>5. QED BY <2>2, <2>3, <2>4
<1>3. CASE E = {}
  <2>1. Cardinality(E) = 0
    BY <1>3, FS_EmptySet
  <2>2. QED BY <2>1
<1>4. CASE E # {}
  <2>1. PICK x \in E : TRUE
    BY <1>4
  <2>2. \A u \in E : u = x
    BY <1>1, <1>2, <2>1, OneSlot
  <2> HIDE DEF E
  <2>3. E = { x }
    BY <2>2
  <2>4. Cardinality(E) = 1
    BY <2>3, FS_Singleton
  <2>5. QED BY <2>4 DEF E
<1>5. QED BY <1>3, <1>4

LEMMA HeldAgain ==
  ASSUME World, PlainHours, SteadyDays, NEW q \in Request,
         SameZone(q.service), q.service.before = 0, q.service.after = 0,
         NEW s \in FindAvailability(q)
  PROVE  ResolveSlot(q.service, s.starts_at, q.preferred) = { s } /\ Unclaimed(q.service, s)
<1> DEFINE t == s.starts_at
           p == Narrow(q.service, t, q.preferred)
           narrow == Loaded(p.range)
<1>1. Question(q) /\ q.service \in Service
  BY RequestsAsk DEF Question
<1>2. s \in AllSlots(q, Loaded(q.range))
  BY DEF FindAvailability, ComputeSlots
<1>3. Given(Loaded(q.range)) /\ Given(narrow)
  BY DEF Given, Loaded
<1>4. t \in Int /\ Permitted(q, t)
  <2>1. StartsAt(q, Loaded(q.range), t)
    BY <1>2, SlotsAre
  <2> HIDE DEF t
  <2>2. QED BY <1>1, <1>3, <2>1, StartFacts
<1>5. s \in AllSlots(p, narrow)
  BY <1>1, <1>2, FoundAgain
<1>6. /\ Question(p) /\ p.limit = 64 /\ p.service = q.service
      /\ p.range = Span(t - 1, t + q.service.duration + 1)
      /\ p.range.start = t - 1 /\ p.range.end = t + q.service.duration + 1
  <2> HIDE DEF t
  <2> QED BY <1>1, <1>4, NarrowPermits
<1>7. ResolveSlot(q.service, t, q.preferred)
        = { x \in ComputeSlots(p, narrow) : x.starts_at = t }
  <2>1. ResolveSlot(q.service, t, q.preferred)
          = { x \in ComputeSlots(p, Loaded(Span(t - 1, t + q.service.duration + 1))) :
                x.starts_at = t }
    BY DEF ResolveSlot, Narrow
  <2>2. QED BY <2>1, <1>6
<1>8. ResolveSlot(q.service, t, q.preferred) = { s }
  <2>1. Cardinality({ u \in AllSlots(p, narrow) : u.starts_at < t }) < 64
    <3> HIDE DEF t, narrow
    <3> QED BY <1>1, <1>3, <1>4, FewBefore
  <2>2. s \in ComputeSlots(p, narrow)
    <3> HIDE DEF p, narrow
    <3> QED BY <1>5, <1>6, <2>1 DEF ComputeSlots
  <2>3. ASSUME NEW x \in ComputeSlots(p, narrow), x.starts_at = t  PROVE x = s
    <3>1. x \in AllSlots(p, narrow)
      BY DEF ComputeSlots
    <3> HIDE DEF p, narrow
    <3>2. QED BY <1>5, <1>6, <2>3, <3>1, OneSlot
  <2> HIDE DEF p, narrow
  <2>4. QED BY <1>7, <2>2, <2>3
<1>9. Unclaimed(q.service, s)
  <2> DEFINE L == { c \in claims : Live(c) }
             w == ReservationWindow(q.service, t)
  <2>1. s.team \in TeamsAt(p, narrow, t)
    BY <1>5, SlotsAre
  <2>2. ASSUME NEW n \in DOMAIN s.team
        PROVE  \A u \in Minutes(w) : ~Taken(s.team[n], u, L)
    <3>1. ASSUME NEW u \in Minutes(w)  PROVE ~Taken(s.team[n], u, L)
      <4>1. FreeIn(p, s.team[n], u, narrow.blocks, narrow.claims)
        <5> HIDE DEF p, narrow, t
        <5>1. u \in Minutes(ReservationWindow(p.service, t))
          BY <3>1, <1>6
        <5>2. QED BY <1>3, <1>4, <1>6, <2>1, <5>1, TeamFacts
      <4>2. /\ u \in Int /\ p.range.start <= u /\ u < p.range.end
            /\ p.range.start \in Int /\ p.range.end \in Int
        <5>1. u \in Int /\ t - q.service.before <= u
                        /\ u < t + q.service.duration + q.service.after
          <6> HIDE DEF t
          <6> QED BY <1>1, <1>4, <3>1, WindowOf
        <5>2. q.service.duration \in Int
          BY <1>1, ServiceFacts
        <5> HIDE DEF p, t
        <5>3. QED BY <5>1, <5>2, <1>4, <1>6
      <4>3. ~Taken(s.team[n], u, narrow.claims)
        BY <4>1 DEF FreeIn
      <4> HIDE DEF p, w
      <4>4. QED BY <4>2, <4>3, LoadedIsEnough
    <3>2. QED BY <3>1
  <2>3. \A c \in L : c.service \in Service /\ c.starts_at \in Int
    BY DEF World
  <2>4. SUFFICES ASSUME NEW c \in L, NEW r \in ToSet(c.team) \cap ToSet(s.team)
                 PROVE  ~Overlaps(ReservationWindow(c.service, c.starts_at), w)
    BY DEF Unclaimed
  <2>5. PICK n \in DOMAIN s.team : r = s.team[n]
    BY DEF ToSet
  <2>6. \A u \in Minutes(w) : ~Taken(r, u, L)
    BY <2>2, <2>5
  <2> HIDE DEF L, p, narrow, t
  <2>7. \A d \in L : r \in ToSet(d.team) => ~Overlaps(ReservationWindow(d.service, d.starts_at), w)
    BY <1>1, <1>4, <2>3, <2>6, ClearOfClaims
  <2>8. QED BY <2>4, <2>7
<1>10. QED BY <1>8, <1>9

\* With clocks that keep their days and hours that are plain: whatever slot a search
\* offers of a service without buffers whose candidates work in the branch's zone, the
\* narrow question that a hold asks finds that very slot with that very team, and no
\* claim stands against it; no list is cut short and no rule, block or claim that one
\* of the two questions looks at is one the other leaves out.
THEOREM OfferedHeld ==
  ASSUME PlainHours, SteadyDays
  PROVE  Spec => []OfferedIsHeld
<1>1. ASSUME Inv  PROVE OfferedIsHeld
  <2>1. World
    BY <1>1, InvIsWorld
  <2>2. QED BY <2>1, HeldAgain DEF OfferedIsHeld
<1>2. Inv => OfferedIsHeld
  BY <1>1
<1>3. QED BY <1>2, InvAlways, PTL

-----------------------------------------------------------------------------
(* Rules that begin with a day. *)

\* The minute that the engine takes for the first of a day comes first: the only
\* midnight a steady clock skips is the first reading it does.
LEMMA DayBeginsThere ==
  ASSUME PlainHours, SteadyDays, NEW rule \in Rule, NEW t \in Int
  PROVE  LET z == Zone[rule.owner] IN Instant(z, LocalDay(z, t), 0) <= t
<1> DEFINE z == Zone[rule.owner]
           b == z.before
           a == z.after
           c == z.change
           D == DayLength
           day == LocalDay(z, t)
           base == day * D
           u == Instant(z, day, 0)
           m == Reading(z, t) % D
           last == c - 1 + b
           first == c + a
<1>1. rule.owner \in Owner /\ D \in Nat \ {0} /\ D \in Int /\ D > 0
  BY ConstantAssumption
<1>2. a \in Int /\ b \in Int /\ c \in Int /\ day \in Int
  BY <1>1, ZoneFacts, ClockFacts
<1>3. base \in Int /\ m \in Int /\ 0 <= m /\ m < D /\ Reading(z, t) = base + m
  <2>1. Reading(z, t) \in Int /\ day = Reading(z, t) \div D
    BY <1>1, ClockFacts
  <2>2. day * D \in Int
    BY <1>1, <1>2
  <2> DEFINE y == Reading(z, t)
  <2>3. y \in Int /\ day = y \div D
    BY <2>1
  <2> HIDE DEF y, day, D
  <2>4. y % D \in Int /\ 0 <= y % D /\ y % D < D /\ y = ((y \div D) * D) + (y % D)
    BY <2>3, DayAndMinute DEF D
  <2>5. QED BY <2>2, <2>3, <2>4 DEF y
<1>4. u = IF base - b < c \/ base - a < c THEN base - b ELSE base - a
  <2>1. base + 0 = base
    BY <1>3
  <2> HIDE DEF base
  <2>2. u = IF (base + 0) - b < c \/ (base + 0) - a < c THEN (base + 0) - b ELSE (base + 0) - a
    BY DEF Instant, base
  <2>3. QED BY <2>1, <2>2
<1>5. base + m = IF t < c THEN t + b ELSE t + a
  BY <1>3 DEF Reading
<1>6. a - b < D
  BY JumpIsShort
<1>7. last \div D = first \div D \/ (last + 1) % D = 0
  BY <1>1 DEF SteadyDays
<1>8. last \in Int /\ first \in Int
  BY <1>2
<1>9. \A x \in Int : /\ base <= x => day <= x \div D
                     /\ x < base => x \div D < day
  <2>1. SUFFICES ASSUME NEW x \in Int
                 PROVE  (base <= x => day <= x \div D) /\ (x < base => x \div D < day)
    OBVIOUS
  <2> DEFINE k == x \div D
             n == x % D
             j == k + 1
  <2>2. k \in Int /\ j \in Int /\ n \in Int /\ 0 <= n /\ n < D /\ x = (k * D) + n
    BY DayAndMinute
  <2>3. k < day => (k * D) + D <= day * D
    BY <2>2, <1>2, LaterDay
  <2>4. day < k => (day * D) + D <= k * D
    BY <2>2, <1>2, LaterDay
  <2>5. k * D \in Int
    BY <1>1, <2>2
  <2> HIDE DEF k, n, j, day, D
  <2>6. QED BY <1>1, <1>2, <1>3, <2>2, <2>3, <2>4, <2>5 DEF base, k
<1>10. ASSUME NEW x \in Int, base <= x, x < base + D, x % D = 0  PROVE x = base
  <2> DEFINE n == x - base
  <2>1. n \in Int /\ 0 <= n /\ n < D /\ x = base + n
    <3> HIDE DEF base, D
    <3> QED BY <1>1, <1>3, <1>10
  <2> HIDE DEF n
  <2>2. x = (day * D) + n
    BY <2>1
  <2> HIDE DEF D, day
  <2>3. x % D = n
    BY <1>2, <1>10, <2>1, <2>2, OnlyDay DEF D
  <2>4. n = 0
    BY <1>10, <2>3
  <2> HIDE DEF base
  <2>5. QED BY <1>3, <2>1, <2>4
<1>11. SUFFICES u <= t
  OBVIOUS
<1> HIDE DEF m, u, base, day, a, b, c, D, z
<1>12. CASE base - b < c
  BY <1>12, <1>2, <1>3, <1>4, <1>5
<1>13. CASE c <= base - b /\ c <= base - a
  BY <1>13, <1>2, <1>3, <1>4, <1>5
<1>14. CASE c <= base - b /\ base - a < c
  <2>1. last < base /\ base <= first
    BY <1>14, <1>2, <1>3
  <2>2. last \div D < day /\ day <= first \div D
    BY <2>1, <1>8, <1>9
  <2>3. last \div D \in Int /\ first \div D \in Int
    BY <1>8, DayAndMinute DEF D
  <2>4. (last + 1) % D = 0
    <3> HIDE DEF last, first
    <3> QED BY <2>2, <2>3, <1>2, <1>7
  <2>5. last + 1 <= base /\ base < last + 1 + D
    BY <1>14, <1>1, <1>2, <1>3, <1>6
  <2>6. last + 1 = base
    <3> DEFINE x == last + 1
               k == base - x
    <3>1. x \in Int /\ k \in Int /\ x % D = 0 /\ x <= base /\ base < x + D
      BY <1>8, <1>3, <2>4, <2>5
    <3> HIDE DEF x, k
    <3>2. x = ((x \div D) * D) + (x % D) /\ x \div D \in Int
      BY <3>1, DayAndMinute DEF D
    <3>3. (x \div D) * D = x /\ x \div D <= day
      <4>1. (x \div D) * D \in Int
        BY <1>1, <3>2
      <4>2. (x \div D) * D = x
        BY <3>1, <3>2, <4>1
      <4>3. base \div D = day
        <5>1. base = (day * D) + 0
          BY <1>3 DEF base
        <5>2. QED BY <5>1, <1>1, <1>2, <1>3, OnlyDay DEF D
      <4>4. x \div D <= base \div D
        BY <1>3, <3>1, DaysAreOrdered DEF D
      <4>5. QED BY <4>2, <4>3, <4>4
    <3>4. ~(x \div D < day)
      <4>1. SUFFICES ASSUME x \div D < day  PROVE FALSE
        OBVIOUS
      <4>2. ((x \div D) * D) + D <= day * D
        BY <4>1, <3>2, <1>2, LaterDay DEF D
      <4>3. x + D <= base
        BY <4>2, <3>3 DEF base
      <4>4. QED BY <4>3, <3>1, <1>1, <1>3
    <3>5. x \div D = day
      BY <1>2, <3>2, <3>3, <3>4
    <3>6. x = base
      BY <3>3, <3>5 DEF base
    <3>7. QED BY <3>6 DEF x
  <2>7. base = c + b
    BY <2>6, <1>2
  <2>8. QED BY <2>7, <1>14, <1>2, <1>3, <1>4, <1>5
<1>15. QED BY <1>2, <1>3, <1>12, <1>13, <1>14

\* A rule that begins with a day is applied to the minutes that it opens: the first of
\* the day is before any minute at which the rule is in force, and not before its begin.
LEMMA OpenedIsApplied ==
  ASSUME PlainHours, SteadyDays, NEW rule \in Rule,
         rule.from # None => LocalDay(Zone[rule.owner], rule.from)
                               # LocalDay(Zone[rule.owner], rule.from - 1),
         NEW t \in Int, RuleOpens(rule, Zone[rule.owner], t)
  PROVE  RuleIsApplied(rule, Zone[rule.owner], t)
<1> DEFINE z == Zone[rule.owner]
           day == LocalDay(z, t)
           u == Instant(z, day, 0)
           f == rule.from
<1>1. rule.owner \in Owner /\ DayLength \in Nat
  BY ConstantAssumption
<1>2. day = Reading(z, t) \div DayLength
  BY <1>1, ClockFacts
<1>3. PICK v \in t - 2 * DayLength .. t + 2 * DayLength :
        LocalDay(z, v) = day /\ InForce(rule, v)
  BY DEF RuleOpens
<1>4. u \in t - 2 * DayLength .. t + 2 * DayLength /\ LocalDay(z, u) = day
  BY DayHasIt
<1>5. u \in Int /\ v \in Int
  <2> DEFINE i == t - 2 * DayLength
             j == t + 2 * DayLength
  <2>1. i \in Int /\ j \in Int /\ u \in i .. j /\ v \in i .. j
    BY <1>1, <1>4
  <2> HIDE DEF i, j, u
  <2>2. QED BY <2>1
<1>6. u <= v
  BY <1>3, <1>5, DayBeginsThere
<1>7. /\ rule.weekday = day % WeekLength
      /\ rule.start_time <= Reading(z, t) % DayLength
      /\ Reading(z, t) % DayLength < rule.end_time
  BY DEF RuleOpens
<1> HIDE DEF u
<1>8. ASSUME rule.until # None  PROVE u < rule.until
  <2>1. v < rule.until /\ rule.until \in Int
    BY <1>3, <1>8, ConstantAssumption DEF InForce
  <2>2. QED BY <1>5, <1>6, <2>1
<1>9. ASSUME f # None  PROVE u >= f
  <2>1. f <= v /\ f \in Int /\ f - 1 \in Int
    BY <1>3, <1>9, ConstantAssumption DEF InForce
  <2>2. LocalDay(z, f) # LocalDay(z, f - 1)
    BY <1>9
  <2> DEFINE g == f - 1
  <2> HIDE DEF g, f
  <2>3. SUFFICES ASSUME u < f  PROVE FALSE
    BY <1>5, <2>1
  <2>4. u <= g /\ g <= f /\ g \in Int
    BY <1>5, <2>1, <2>3 DEF g
  <2>5. LocalDay(z, u) <= LocalDay(z, g) /\ LocalDay(z, g) <= LocalDay(z, f)
        /\ LocalDay(z, f) <= LocalDay(z, v)
    <3> HIDE DEF z, day
    <3>1. LocalDay(Zone[rule.owner], u) <= LocalDay(Zone[rule.owner], g)
      BY <1>1, <1>5, <2>4, DaysGoOn
    <3>2. LocalDay(Zone[rule.owner], g) <= LocalDay(Zone[rule.owner], f)
      BY <1>1, <2>1, <2>4, DaysGoOn
    <3>3. LocalDay(Zone[rule.owner], f) <= LocalDay(Zone[rule.owner], v)
      BY <1>1, <1>5, <2>1, DaysGoOn
    <3>4. QED BY <3>1, <3>2, <3>3 DEF z
  <2>6. LocalDay(z, g) \in Int /\ LocalDay(z, f) \in Int /\ day \in Int
    BY <1>1, <2>1, <2>4, ClockFacts
  <2> HIDE DEF z, day
  <2>7. QED BY <1>3, <1>4, <2>2, <2>5, <2>6 DEF g
<1>10. RuleAppliesOn(rule, day, z)
  BY <1>7, <1>8, <1>9 DEF RuleAppliesOn, u
<1>11. QED BY <1>2, <1>7, <1>10 DEF RuleIsApplied

LEMMA WholeDaysAgree ==
  ASSUME World, PlainHours, SteadyDays, NEW owners, WholeDays(owners),
         NEW o \in owners, NEW t \in Int
  PROVE  EngineOpens(o, t) <=> Opens(o, t)
<1>1. EngineOpens(o, t) => Opens(o, t)
  BY EngineIsRight
<1>2. ASSUME Opens(o, t)  PROVE EngineOpens(o, t)
  <2>1. PICK rule \in Owned(rules, o) : RuleOpens(rule, Zone[o], t)
    BY <1>2 DEF Opens
  <2>2. rule \in rules /\ rule \in Rule /\ rule.owner = o
    BY DEF Owned, World
  <2>3. rule.from # None => LocalDay(Zone[rule.owner], rule.from)
                              # LocalDay(Zone[rule.owner], rule.from - 1)
    BY <2>2 DEF WholeDays
  <2>4. RuleIsApplied(rule, Zone[o], t)
    BY <2>1, <2>2, <2>3, OpenedIsApplied
  <2>5. QED BY <2>4 DEF EngineOpens, OpenAt
<1>3. QED BY <1>1, <1>2

\* Then the grid of the branch is the engine's, and the minutes somebody serves too.
LEMMA GridsAgree ==
  ASSUME World, PlainHours, SteadyDays, WholeDays({ Branch }), NEW t \in Int, NEW step
  PROVE  EngineOnGrid(t, step) <=> OnGrid(t, step)
<1> DEFINE f == t - 2 * DayLength
<1>1. f \in Int
  BY ConstantAssumption
<1>2. \A u \in Int : EngineOpens(Branch, u) <=> Opens(Branch, u)
  BY WholeDaysAgree
<1>3. EngineOnGrid(t, step)
        <=> \E opening \in f .. t :
              /\ (t - opening) % step = 0
              /\ ~EngineOpens(Branch, opening - 1)
              /\ \A u \in opening .. t : EngineOpens(Branch, u)
  BY DEF EngineOnGrid
<1>4. OnGrid(t, step)
        <=> \E opening \in f .. t :
              /\ (t - opening) % step = 0
              /\ ~Opens(Branch, opening - 1) /\ \A u \in opening .. t : Opens(Branch, u)
  BY DEF OnGrid
<1> HIDE DEF f
<1>5. ASSUME NEW opening \in f .. t
      PROVE  /\ EngineOpens(Branch, opening - 1) <=> Opens(Branch, opening - 1)
             /\ \A u \in opening .. t : EngineOpens(Branch, u) <=> Opens(Branch, u)
  <2>1. opening \in Int /\ opening - 1 \in Int /\ \A u \in opening .. t : u \in Int
    BY <1>1
  <2>2. QED BY <1>2, <2>1
<1>6. QED BY <1>3, <1>4, <1>5

-----------------------------------------------------------------------------
(* What a search returns. *)

\* After an open minute it is still the same day: no hours go to the end of one.
LEMMA OpenMinuteIsNotLast ==
  ASSUME World, SteadyDays, NEW u \in Int, EngineOpens(Branch, u)
  PROVE  LocalDay(Zone[Branch], u + 1) = LocalDay(Zone[Branch], u)
<1> DEFINE b == Zone[Branch].before
           a == Zone[Branch].after
           c == Zone[Branch].change
           D == DayLength
           x == Reading(Zone[Branch], u)
           v == u + 1
           y == Reading(Zone[Branch], v)
<1>1. Branch \in Owner /\ b \in Int /\ a \in Int /\ c \in Int /\ v \in Int /\ D \in Nat \ {0}
  BY ZoneFacts, ConstantAssumption DEF Owner
<1>2. x \in Int /\ LocalDay(Zone[Branch], u) = x \div D
  BY <1>1, ClockFacts
<1>3. y \in Int /\ LocalDay(Zone[Branch], v) = y \div D
  <2> HIDE DEF v
  <2> QED BY <1>1, ClockFacts
<1>4. x = IF u < c THEN u + b ELSE u + a
  BY DEF Reading
<1>5. y = IF v < c THEN v + b ELSE v + a
  BY DEF Reading
<1>6. PICK rule \in rules : rule \in Rule /\ x % D < rule.end_time
  BY DEF EngineOpens, OpenAt, RuleIsApplied, Owned, World
<1>7. (x % D) + 1 < D /\ x % D \in Int /\ 0 <= x % D
  <2>1. rule.end_time \in Nat /\ rule.end_time < D
    BY <1>6, ConstantAssumption
  <2>2. x % D \in Int /\ 0 <= x % D
    <3> HIDE DEF x
    <3> QED BY <1>2, DayAndMinute
  <2> DEFINE m == x % D
  <2>3. m \in Int /\ 0 <= m /\ m < rule.end_time
    BY <1>6, <2>2
  <2> HIDE DEF m
  <2>4. m + 1 < D
    BY <1>1, <2>1, <2>3
  <2>5. QED BY <2>2, <2>4 DEF m
<1>8. (x + 1) \div D = x \div D /\ (x + 1) % D # 0
  <2> DEFINE k == x \div D
             m == x % D
             n == m + 1
             z == x + 1
  <2> HIDE DEF x
  <2>1. k \in Int /\ x = (k * D) + m
    BY <1>2, DayAndMinute
  <2>2. n \in Int /\ 0 <= n /\ n < D /\ n # 0 /\ z \in Int
    BY <1>2, <1>7
  <2>3. z = (k * D) + n
    <3>1. k * D \in Int /\ m \in Int
      BY <1>1, <1>7, <2>1
    <3> HIDE DEF k, m
    <3>2. QED BY <2>1, <3>1
  <2> HIDE DEF z, n, k
  <2>4. z \div D = k /\ z % D = n
    BY <2>1, <2>2, <2>3, OnlyDay
  <2>5. QED BY <2>2, <2>4 DEF z, k
<1>9. \/ (c - 1 + b) \div D = (c + a) \div D
      \/ (c - 1 + b + 1) % D = 0
  BY <1>1 DEF SteadyDays
<1>10. y \div D = x \div D
  <2> HIDE DEF a, b, c, D, x, y
  <2>1. CASE v < c
    <3>1. y = x + 1
      BY <2>1, <1>1, <1>4, <1>5
    <3>2. QED BY <3>1, <1>8
  <2>2. CASE c <= u
    <3>1. y = x + 1
      BY <2>2, <1>1, <1>4, <1>5
    <3>2. QED BY <3>1, <1>8
  <2>3. CASE u < c /\ c <= v
    <3>1. u = c - 1 /\ v = c
      BY <2>3, <1>1
    <3>2. x = c - 1 + b /\ y = c + a
      BY <3>1, <1>1, <1>4, <1>5
    <3>3. QED BY <3>2, <1>8, <1>9
  <2>4. QED BY <2>1, <2>2, <2>3, <1>1
<1>11. QED BY <1>2, <1>3, <1>10

\* A stretch of open minutes is of one day.
LEMMA OpenStretch ==
  ASSUME World, SteadyDays, NEW a \in Int, NEW b \in Int,
         \A u \in Int : a <= u /\ u < b => EngineOpens(Branch, u)
  PROVE  \A u \in Int : a <= u /\ u <= b
            => LocalDay(Zone[Branch], u) = LocalDay(Zone[Branch], a)
<1> DEFINE day(u) == LocalDay(Zone[Branch], u)
           Other == { u \in a .. b : day(u) # day(a) }
<1>1. SUFFICES ASSUME Other # {}  PROVE FALSE
  OBVIOUS
<1>2. Other \in SUBSET Int /\ IsFiniteSet(Other)
  <2>1. Other \in SUBSET (a .. b) /\ IsFiniteSet(a .. b) /\ \A u \in Other : u \in Int
    BY FS_Interval
  <2> HIDE DEF Other
  <2>2. IsFiniteSet(Other)
    BY <2>1, FS_Subset
  <2>3. QED BY <2>1, <2>2
<1>3. PICK u \in Other : \A v \in Other : u <= v
  <2> HIDE DEF Other
  <2> QED BY <1>1, <1>2, HasLeast
<1>4. u \in Int /\ a <= u /\ u <= b /\ day(u) # day(a)
  OBVIOUS
<1>5. a < u
  BY <1>4
<1> DEFINE v == u - 1
<1>6. v \in Int /\ a <= v /\ v < b /\ v + 1 = u /\ v < u
  BY <1>4, <1>5
<1> HIDE DEF v
<1>7. day(v) = day(a)
  <2>1. v \in a .. b /\ v \notin Other
    BY <1>3, <1>4, <1>6
  <2>2. QED BY <2>1
<1>8. day(v + 1) = day(v)
  BY <1>6, OpenMinuteIsNotLast
<1>9. QED BY <1>4, <1>6, <1>7, <1>8

\* The longest day has less than twice the minutes of a day.
LEMMA OneDayIsShort ==
  ASSUME NEW o \in Owner, NEW s \in Int, NEW t \in Int, s <= t,
         \A u \in Int : s <= u /\ u <= t => LocalDay(Zone[o], u) = LocalDay(Zone[o], s)
  PROVE  t - 2 * DayLength <= s
<1> DEFINE b == Zone[o].before
           a == Zone[o].after
           c == Zone[o].change
           D == DayLength
<1>1. b \in Int /\ a \in Int /\ c \in Int /\ D \in Nat \ {0}
  BY ZoneFacts, ConstantAssumption
<1>2. ASSUME NEW x \in Int, NEW y \in Int, x \div D = y \div D  PROVE y - x < D
  <2> DEFINE k == x \div D
             m == x % D
             n == y % D
  <2>1. /\ k \in Int /\ m \in Int /\ n \in Int /\ 0 <= m /\ n < D
        /\ x = (k * D) + m /\ y = (k * D) + n
    BY <1>2, DayAndMinute
  <2>2. k * D \in Int
    BY <1>1, <2>1
  <2> HIDE DEF k, m, n, D
  <2>3. QED BY <2>1, <2>2, <1>1
<1>3. \A u \in Int : LocalDay(Zone[o], u) = (IF u < c THEN u + b ELSE u + a) \div D
  BY DEF LocalDay
<1>4. ASSUME NEW u \in Int, NEW v \in Int, s <= u, u <= v, v <= t, v < c \/ c <= u
      PROVE  v - u < D
  <2>1. LocalDay(Zone[o], u) = LocalDay(Zone[o], v)
    <3>1. LocalDay(Zone[o], u) = LocalDay(Zone[o], s)
      BY <1>4
    <3>2. LocalDay(Zone[o], v) = LocalDay(Zone[o], s)
      BY <1>4
    <3>3. QED BY <3>1, <3>2
  <2> HIDE DEF a, b, c, D
  <2>2. CASE v < c
    <3>1. u + b \in Int /\ v + b \in Int /\ u < c
      BY <2>2, <1>1, <1>4
    <3>2. (u + b) \div D = (v + b) \div D
      BY <1>3, <2>1, <2>2, <3>1
    <3>3. (v + b) - (u + b) < D
      BY <1>2, <3>1, <3>2
    <3>4. QED BY <3>3, <1>1
  <2>3. CASE c <= u
    <3>1. u + a \in Int /\ v + a \in Int /\ ~(u < c) /\ ~(v < c)
      BY <2>3, <1>1, <1>4
    <3>2. (u + a) \div D = (v + a) \div D
      BY <1>3, <2>1, <3>1
    <3>3. (v + a) - (u + a) < D
      BY <1>2, <3>1, <3>2
    <3>4. QED BY <3>3, <1>1
  <2>4. QED BY <1>4, <2>2, <2>3
<1> HIDE DEF a, b, c, D
<1>5. CASE t < c \/ c <= s
  <2>1. t - s < D
    BY <1>4, <1>5
  <2>2. QED BY <2>1, <1>1 DEF D
<1>6. CASE s < c /\ c <= t
  <2> DEFINE e == c - 1
  <2>1. e \in Int /\ s <= e /\ e <= t /\ e < c
    BY <1>1, <1>6
  <2>2. e - s < D
    BY <1>4, <2>1
  <2>3. t - c < D
    BY <1>1, <1>4, <1>6
  <2>4. QED BY <2>2, <2>3, <1>1 DEF D
<1>7. QED BY <1>1, <1>5, <1>6

\* Before a window the branch is closed: an open minute there would be of the same
\* day, and so in a window that touches this one.
LEMMA ClosedBefore ==
  ASSUME World, PlainHours, SteadyDays, NEW q, Question(q), NEW inputs, Given(inputs),
         NEW w \in LocationWindows(q, inputs)
  PROVE  ~EngineOpens(Branch, w.start - 1)
<1> DEFINE d == LocalDay(Zone[Branch], Earliest(q))
           e == LocalDay(Zone[Branch], Latest(q))
           owned == Owned(rules, Branch)
           S == RuleWindows(owned, d .. e, Zone[Branch])
           v == w.start - 1
<1>1. d \in Int /\ e \in Int /\ Days(q) = d .. e /\ Branch \in Owner
  BY DaysAreNumbers DEF Days, Owner
<1>2. Hours(owned, Branch)
  <2>1. owned \subseteq { rule \in Rule : rule.owner = Branch }
    BY DEF World, Owned
  <2>2. owned \in SUBSET rules
    BY DEF Owned
  <2> HIDE DEF owned
  <2>3. IsFiniteSet(owned)
    BY <2>2, FS_Subset DEF World
  <2>4. QED BY <2>1, <2>3 DEF Hours
<1>3. w \in Merge(S)
  BY <1>1, LocationFacts DEF WindowsFor
<1> HIDE DEF d, e, owned
<1>4. Spans(S)
  BY <1>1, <1>2, RuleWindowsAreSpans
<1>5. \A t \in Int : In(S, t) <=> OpenAt(owned, Branch, t) /\ LocalDay(Zone[Branch], t) \in d .. e
  <2> DEFINE days == d .. e
  <2>1. days \subseteq Int
    OBVIOUS
  <2> HIDE DEF days
  <2>2. \A t \in Int : In(RuleWindows(owned, days, Zone[Branch]), t)
                          <=> OpenAt(owned, Branch, t) /\ LocalDay(Zone[Branch], t) \in days
    BY <1>1, <1>2, <2>1, RuleWindowsMinutes
  <2>3. QED BY <2>2 DEF days
<1> HIDE DEF S
<1>6. /\ w.start \in Int /\ w.start \in Openings(S)
      /\ \E i \in S : i.start = w.start
  BY <1>3, <1>4, WindowFacts
<1>7. In(S, w.start)
  <2>1. PICK i \in S : i.start = w.start
    BY <1>6
  <2>2. i.start <= w.start /\ w.start < i.end
    BY <2>1, <1>4, <1>6 DEF Spans
  <2>3. QED BY <2>2 DEF In
<1>8. LocalDay(Zone[Branch], w.start) \in d .. e
  BY <1>5, <1>6, <1>7
<1>9. v \in Int /\ v + 1 = w.start /\ v < w.start
  BY <1>6
<1>10. SUFFICES ASSUME EngineOpens(Branch, v)  PROVE FALSE
  OBVIOUS
<1> HIDE DEF v
<1>11. LocalDay(Zone[Branch], v) = LocalDay(Zone[Branch], w.start)
  BY <1>9, <1>10, OpenMinuteIsNotLast
<1>12. OpenAt(owned, Branch, v)
  BY <1>10 DEF EngineOpens, OpenAt, owned
<1>13. PICK j \in S : j.start <= v /\ v < j.end
  BY <1>5, <1>8, <1>9, <1>11, <1>12 DEF In
<1>14. j.start \in Int /\ j.end \in Int /\ j.start < w.start /\ w.start <= j.end
  BY <1>4, <1>6, <1>9, <1>13 DEF Spans
<1>15. \A k \in S : k.start < w.start => k.end < w.start
  BY <1>4, <1>6, GroupFacts
<1>16. QED BY <1>6, <1>14, <1>15

\* What a search returns is right.
LEMMA FoundIsRight ==
  ASSUME World, PlainHours, SteadyDays, NEW q, Question(q), NEW inputs, Given(inputs),
         NEW s \in AllSlots(q, inputs)
  PROVE  /\ Permitted(q, s.starts_at) /\ EngineOnGrid(s.starts_at, q.step)
         /\ EngineOpenFor(Appointment(q.service, s.starts_at))
         /\ s.team \in Teams(q.service, active, q.preferred)
         /\ EngineServes(s.team, ReservationWindow(q.service, s.starts_at), inputs.blocks, inputs.claims)
<1> DEFINE t == s.starts_at
           d == q.service.duration
<1>1. StartsAt(q, inputs, t) /\ s.team \in TeamsAt(q, inputs, t)
  BY SlotsAre
<1> HIDE DEF t
<1>2. /\ t \in Int /\ Permitted(q, t)
      /\ \A u \in Minutes(Appointment(q.service, t)) : OpenIn(q, u)
      /\ \A u \in Minutes(ReservationWindow(q.service, t)) : ~Blocked(Branch, u, inputs.blocks)
  BY <1>1, StartFacts
<1>3. /\ s.team \in Teams(q.service, active, q.preferred)
      /\ \A n \in DOMAIN s.team : \A u \in Minutes(ReservationWindow(q.service, t)) :
           FreeIn(q, s.team[n], u, inputs.blocks, inputs.claims)
  BY <1>1, <1>2, TeamFacts
<1>4. EngineOpenFor(Appointment(q.service, t))
  BY <1>2 DEF EngineOpenFor, OpenIn
<1>5. EngineServes(s.team, ReservationWindow(q.service, t), inputs.blocks, inputs.claims)
  <2> DEFINE w == ReservationWindow(q.service, t)
  <2> HIDE DEF w
  <2>1. ASSUME NEW u \in Minutes(w), NEW n \in DOMAIN s.team
        PROVE  /\ EngineWorks(s.team[n], u) /\ ~Blocked(s.team[n], u, inputs.blocks)
               /\ ~Taken(s.team[n], u, inputs.claims)
    <3>1. FreeIn(q, s.team[n], u, inputs.blocks, inputs.claims)
      BY <1>3, <2>1 DEF w
    <3>2. QED BY <3>1 DEF FreeIn, AtWorkIn, OpenIn, EngineWorks
  <2>2. QED BY <2>1, <1>2 DEF EngineServes, w
<1>6. EngineOnGrid(t, q.step)
  <2>1. PICK v \in LocationWindows(q, inputs) :
          t \in Grid(v, Earliest(q), Latest(q), q.service, q.step)
    BY <1>1 DEF StartsAt
  <2>2. v.start \in Int /\ v.end \in Int /\ q.service \in Service /\ d \in Int /\ d > 0
    BY LocationFacts, ServiceFacts DEF Windows, Question
  <2>3. v.start <= t /\ t + d <= v.end /\ (t - v.start) % q.step = 0
    BY <2>1, <2>2, QueryFacts, GridFacts
  <2> DEFINE o == v.start
             e == t + 1
  <2>4. o \in Int /\ e \in Int /\ o < e /\ o <= t
    BY <1>2, <2>2, <2>3
  <2>5. \A u \in Int : o <= u /\ u < e => EngineOpens(Branch, u)
    <3>1. Reaches(LocationWindows(q, inputs), o, e)
      <4>1. o <= o /\ e <= v.end
        BY <1>2, <2>2, <2>3
      <4> HIDE DEF o, e
      <4>2. QED BY <4>1 DEF Reaches, o
    <3> HIDE DEF o, e
    <3>2. \A u \in Int : o <= u /\ u < e => OpenIn(q, u)
      BY <2>4, <3>1, LocationFacts
    <3>3. QED BY <3>2 DEF OpenIn
  <2>6. ~EngineOpens(Branch, o - 1)
    BY ClosedBefore
  <2>7. t - 2 * DayLength <= o
    <3>1. Branch \in Owner
      BY DEF Owner
    <3>2. \A u \in Int : o <= u /\ u <= e
            => LocalDay(Zone[Branch], u) = LocalDay(Zone[Branch], o)
      <4> HIDE DEF o, e
      <4> QED BY <2>4, <2>5, OpenStretch
    <3>3. \A u \in Int : o <= u /\ u <= t
            => LocalDay(Zone[Branch], u) = LocalDay(Zone[Branch], o)
      <4>1. \A u \in Int : u <= t => u <= e
        BY <1>2
      <4> HIDE DEF o, e
      <4>2. QED BY <3>2, <4>1
    <3> HIDE DEF o
    <3>4. QED BY <1>2, <2>4, <3>1, <3>3, OneDayIsShort
  <2>8. o \in t - 2 * DayLength .. t
    <3> DEFINE f == t - 2 * DayLength
    <3>1. f \in Int
      BY <1>2, ConstantAssumption
    <3> HIDE DEF f, o
    <3>2. o \in f .. t
      BY <1>2, <2>4, <2>7, <3>1 DEF f
    <3>3. QED BY <3>2 DEF f
  <2>9. \A u \in o .. t : EngineOpens(Branch, u)
    BY <1>2, <2>4, <2>5
  <2>10. (t - o) % q.step = 0
    BY <2>3
  <2> HIDE DEF o
  <2>11. QED BY <2>6, <2>8, <2>9, <2>10 DEF EngineOnGrid
<1>7. QED BY <1>2, <1>3, <1>4, <1>5, <1>6 DEF t

\* The engine starts where the grid of the opening hours does.
LEMMA GridIsFound ==
  ASSUME World, PlainHours, SteadyDays, NEW q, Question(q), NEW inputs, Given(inputs),
         NEW t \in Int, Permitted(q, t), EngineOnGrid(t, q.step), EngineOpenFor(Appointment(q.service, t))
  PROVE  /\ \A u \in Minutes(Appointment(q.service, t)) : OpenIn(q, u)
         /\ \E w \in LocationWindows(q, inputs) :
              t \in Grid(w, Earliest(q), Latest(q), q.service, q.step)
<1> DEFINE d == q.service.duration
           e == t + d
<1>1. q.service \in Service /\ d \in Int /\ d > 0
  BY ServiceFacts DEF Question
<1>2. e \in Int /\ t < e
  BY <1>1
<1>3. Earliest(q) \in Int /\ Latest(q) \in Int /\ Earliest(q) <= t /\ e <= Latest(q)
  BY QueryFacts
<1>4. \A u \in Int : u \in Minutes(Appointment(q.service, t)) <=> t <= u /\ u < e
  BY <1>1, WindowOf
<1>5. Minutes(Appointment(q.service, t)) \subseteq Int
  BY <1>1, WindowOf
<1> HIDE DEF e, d
<1>6. \A u \in Int : t <= u /\ u < e => OpenIn(q, u)
  <2>1. SUFFICES ASSUME NEW u \in Int, t <= u, u < e  PROVE OpenIn(q, u)
    OBVIOUS
  <2>2. EngineOpens(Branch, u)
    BY <1>4, <2>1 DEF EngineOpenFor
  <2>3. Earliest(q) <= u /\ u <= Latest(q)
    BY <1>2, <1>3, <2>1
  <2>4. QED BY <2>2, <2>3, DaysOfQuery DEF OpenIn
<1>7. PICK v \in LocationWindows(q, inputs) : v.start <= t /\ e <= v.end
  <2>1. Reaches(LocationWindows(q, inputs), t, e)
    BY <1>2, <1>6, LocationFacts
  <2>2. QED BY <2>1 DEF Reaches
<1>8. v.start \in Int /\ v.end \in Int
  BY LocationFacts DEF Windows
<1>9. PICK opening \in t - 2 * DayLength .. t :
        /\ (t - opening) % q.step = 0
        /\ ~EngineOpens(Branch, opening - 1) /\ \A u \in opening .. t : EngineOpens(Branch, u)
  BY DEF EngineOnGrid
<1>10. opening \in Int /\ opening <= t
  <2> DEFINE f == t - 2 * DayLength
  <2>1. f \in Int /\ opening \in f .. t
    BY ConstantAssumption
  <2> HIDE DEF f
  <2>2. QED BY <2>1
<1>11. v.start = opening
  <2> DEFINE o == v.start
             g == t + 1
  <2>1. o \in Int /\ g \in Int /\ o < g
    BY <1>7, <1>8
  <2>2. \A u \in Int : o <= u /\ u < g => EngineOpens(Branch, u)
    <3>1. Reaches(LocationWindows(q, inputs), o, g)
      <4>1. o <= o /\ g <= v.end
        BY <1>2, <1>7, <1>8
      <4> HIDE DEF o, g
      <4>2. QED BY <4>1 DEF Reaches, o
    <3> HIDE DEF o, g
    <3>2. \A u \in Int : o <= u /\ u < g => OpenIn(q, u)
      BY <2>1, <3>1, LocationFacts
    <3>3. QED BY <3>2 DEF OpenIn
  <2>3. ~EngineOpens(Branch, o - 1)
    BY ClosedBefore
  <2> HIDE DEF o
  <2>4. CASE o < opening
    <3> DEFINE x == opening - 1
    <3>1. x \in Int /\ o <= x /\ x < g
      BY <1>10, <2>1, <2>4
    <3>2. ~EngineOpens(Branch, x)
      BY <1>9
    <3> HIDE DEF x, g
    <3>3. QED BY <2>2, <3>1, <3>2
  <2>5. CASE opening < o
    <3>1. o - 1 \in opening .. t
      BY <1>10, <2>1, <2>5
    <3>2. QED BY <1>9, <2>3, <3>1
  <2>6. QED BY <1>10, <2>1, <2>4, <2>5 DEF o
<1>12. t \in Grid(v, Earliest(q), Latest(q), q.service, q.step)
  BY <1>1, <1>3, <1>7, <1>8, <1>9, <1>11, GridFacts DEF e, d
<1>13. \A u \in Minutes(Appointment(q.service, t)) : OpenIn(q, u)
  BY <1>4, <1>5, <1>6
<1>14. QED BY <1>12, <1>13

\* Who works throughout the window of a start is at work for the engine too: the
\* window is of the day of its start, buffers included.
LEMMA WindowIsOneDay ==
  ASSUME World, SteadyDays, NEW q, Question(q), NEW t \in Int,
         \A u \in Minutes(Appointment(q.service, t)) : OpenIn(q, u),
         \A u \in Minutes(ReservationWindow(q.service, t)) : EngineOpens(Branch, u)
  PROVE  \A u \in Minutes(ReservationWindow(q.service, t)) : OpenIn(q, u)
<1> DEFINE a == t - q.service.before
           b == t + q.service.duration + q.service.after
           w == ReservationWindow(q.service, t)
<1>1. q.service \in Service
  BY DEF Question
<1>2. /\ \A u \in Int : u \in Minutes(w) <=> a <= u /\ u < b
      /\ Minutes(w) \subseteq Int /\ t \in Minutes(Appointment(q.service, t))
      /\ t \in Minutes(w)
  BY <1>1, WindowOf
<1>3. a \in Int /\ b \in Int
  BY <1>1, ServiceFacts
<1> HIDE DEF a, b, w
<1>4. \A u \in Int : a <= u /\ u < b => EngineOpens(Branch, u)
  BY <1>2 DEF w
<1>5. \A u \in Int : a <= u /\ u <= b => LocalDay(Zone[Branch], u) = LocalDay(Zone[Branch], a)
  BY <1>3, <1>4, OpenStretch
<1>6. \A u \in Minutes(w) : LocalDay(Zone[Branch], u) = LocalDay(Zone[Branch], a)
  <2>1. SUFFICES ASSUME NEW u \in Minutes(w)
                 PROVE  LocalDay(Zone[Branch], u) = LocalDay(Zone[Branch], a)
    OBVIOUS
  <2>2. u \in Int /\ a <= u /\ u < b
    BY <1>2
  <2>3. u <= b
    BY <1>3, <2>2
  <2>4. QED BY <1>5, <2>2, <2>3
<1>7. LocalDay(Zone[Branch], t) \in Days(q)
  BY <1>2 DEF OpenIn
<1>8. ASSUME NEW u \in Minutes(w)  PROVE OpenIn(q, u)
  <2>1. LocalDay(Zone[Branch], u) = LocalDay(Zone[Branch], t)
    BY <1>2, <1>6
  <2>2. EngineOpens(Branch, u)
    BY DEF w
  <2>3. QED BY <1>7, <2>1, <2>2 DEF OpenIn
<1>9. QED BY <1>8 DEF w

\* A start that can be served is found.
LEMMA RightIsFound ==
  ASSUME World, PlainHours, SteadyDays, NEW q, Question(q), NEW inputs, Given(inputs),
         SameZone(q.service), OneRoleEach(q.service),
         NEW t \in Int, Permitted(q, t), EngineOnGrid(t, q.step), EngineOpenFor(Appointment(q.service, t)),
         NEW team \in Teams(q.service, active, q.preferred),
         EngineServes(team, ReservationWindow(q.service, t), inputs.blocks, inputs.claims)
  PROVE  \E s \in AllSlots(q, inputs) : s.starts_at = t
<1> DEFINE w == ReservationWindow(q.service, t)
           D == Roles(q.service, active)
<1>1. q.service \in Service /\ inputs.active = active /\ active \subseteq Resource
      /\ inputs.blocks \subseteq Block
  BY DEF Question, Given, World
<1>2. /\ \A u \in Minutes(Appointment(q.service, t)) : OpenIn(q, u)
      /\ \E v \in LocationWindows(q, inputs) :
           t \in Grid(v, Earliest(q), Latest(q), q.service, q.step)
  BY GridIsFound
<1>3. StartsAt(q, inputs, t)
  <2>1. \A u \in Minutes(w) : ~Blocked(Branch, u, inputs.blocks)
    BY DEF EngineServes
  <2>2. \A b \in Owned(inputs.blocks, Branch) : ~Overlaps(b, w)
    BY <1>1, <2>1, ClearOfBlocks
  <2> HIDE DEF w
  <2>3. QED BY <1>2, <2>2 DEF StartsAt, w
<1>4. /\ DOMAIN team = D /\ \A n \in D : team[n] \in active
      /\ \A n \in D : team[n] \in ToSet(q.service.candidates[n])
  BY DEF Teams
<1>5. ASSUME NEW n \in D  PROVE team[n] \in FreeAt(q, inputs, t)
  <2> DEFINE r == team[n]
  <2>1. r \in Resource /\ r \in active
    BY <1>1, <1>4
  <2>2. Zone[r] = Zone[Branch]
    <3>1. n \in DOMAIN q.service.candidates /\ r \in ToSet(q.service.candidates[n])
      BY <1>1, <1>4, RoleFacts
    <3> HIDE DEF r
    <3>2. QED BY <3>1 DEF SameZone
  <2>3. \A u \in Minutes(w) :
          EngineWorks(r, u) /\ ~Blocked(r, u, inputs.blocks) /\ ~Taken(r, u, inputs.claims)
    BY <1>4 DEF EngineServes
  <2> HIDE DEF r
  <2>4. \A u \in Minutes(w) : OpenIn(q, u)
    <3>1. \A u \in Minutes(w) : EngineOpens(Branch, u)
      BY <2>3 DEF EngineWorks
    <3>2. QED BY <1>2, <3>1, WindowIsOneDay
  <2>5. \A u \in Minutes(w) : FreeIn(q, r, u, inputs.blocks, inputs.claims)
    BY <2>2, <2>3, <2>4 DEF FreeIn, AtWorkIn, OpenIn, EngineWorks
  <2>6. ResourceFree(r, w, inputs, AllWindows(q, inputs)[r])
    BY <2>1, <2>5, ResourceIsFree
  <2>7. r \in FreeAt(q, inputs, t)
    BY <1>1, <2>1, <2>6 DEF FreeAt, FreeResources
  <2>8. QED BY <2>7 DEF r
<1>6. FreeAt(q, inputs, t) \subseteq active
  BY <1>1 DEF FreeAt, FreeResources
<1>7. Picks(q.service, active, q.preferred, FreeAt(q, inputs, t)) # {}
  BY <1>1, <1>4, <1>5, <1>6, SomePick
<1>8. PICK x \in TeamsAt(q, inputs, t) : TRUE
  BY <1>1, <1>7, TeamsArePicked
<1> DEFINE s == [ starts_at |-> t, team |-> x ]
<1>9. s \in AllSlots(q, inputs) /\ s.starts_at = t
  BY <1>3, <1>8, SlotsAre
<1>10. QED BY <1>9

\* The limit is not reached, so nothing was cut off: of what was, the slot that starts
\* first has as many before it as the limit allows, and those were all returned.
LEMMA NothingCut ==
  ASSUME World, PlainHours, NEW q, Question(q), NEW inputs, Given(inputs),
         Cardinality(ComputeSlots(q, inputs)) < q.limit, NEW s \in AllSlots(q, inputs)
  PROVE  s \in ComputeSlots(q, inputs)
<1> DEFINE A == AllSlots(q, inputs)
           F == ComputeSlots(q, inputs)
           Cut == A \ F
           Starts == { x.starts_at : x \in Cut }
           f == [ x \in A |-> x.starts_at ]
           e == Earliest(q)
           l == Latest(q)
<1>1. e \in Int /\ l \in Int /\ q.service \in Service /\ q.limit \in Nat
  BY QueryFacts DEF Question
<1>2. ASSUME NEW x \in A  PROVE x.starts_at \in e .. l
  <2>1. StartsAt(q, inputs, x.starts_at)
    BY SlotsAre
  <2> DEFINE t == x.starts_at
  <2> HIDE DEF t
  <2>2. t \in Int /\ Permitted(q, t)
    BY <2>1, StartFacts DEF t
  <2>3. t >= e /\ t + q.service.duration <= l
    BY <2>2, QueryFacts
  <2>4. t \in e .. l
    <3>1. q.service.duration \in Int /\ q.service.duration > 0
      BY <1>1, ServiceFacts
    <3> HIDE DEF e, l
    <3>2. QED BY <1>1, <2>2, <2>3, <3>1
  <2>5. QED BY <2>4 DEF t
<1>3. F = { x \in A : Cardinality({ u \in A : u.starts_at < x.starts_at }) < q.limit }
  BY DEF ComputeSlots
<1> HIDE DEF A, F, e, l
<1>4. IsFiniteSet(A)
  <2>1. f \in [ A -> e .. l ]
    BY <1>2
  <2>2. \A x, y \in A : f[x] = f[y] => x = y
    BY OneSlot DEF A
  <2>3. f \in Injection(A, e .. l)
    <3> HIDE DEF f
    <3> QED BY <2>1, <2>2 DEF Injection, IsInjective
  <2>4. IsFiniteSet(e .. l)
    BY <1>1, FS_Interval
  <2> HIDE DEF f
  <2>5. QED BY <2>3, <2>4, FS_Injection
<1>5. F \in SUBSET A /\ IsFiniteSet(F)
  BY <1>3, <1>4, FS_Subset
<1>6. SUFFICES ASSUME Cut # {}  PROVE FALSE
  BY DEF A, F
<1>7. Starts \in SUBSET Int /\ IsFiniteSet(Starts) /\ Starts # {}
  <2> DEFINE g == [ x \in Cut |-> x.starts_at ]
  <2>1. g \in Surjection(Cut, Starts)
    BY DEF Surjection
  <2>2. Cut \in SUBSET A
    OBVIOUS
  <2>3. Starts \in SUBSET Int
    BY <1>1, <1>2
  <2>4. Starts # {}
    BY <1>6
  <2> HIDE DEF g, Starts, Cut
  <2>5. IsFiniteSet(Cut)
    BY <1>4, <2>2, FS_Subset
  <2>6. IsFiniteSet(Starts)
    BY <2>1, <2>5, FS_Surjection
  <2>7. QED BY <2>3, <2>4, <2>6
<1>8. PICK m \in Starts : \A y \in Starts : m <= y
  <2> HIDE DEF Starts
  <2> QED BY <1>7, HasLeast
<1>9. PICK x \in Cut : x.starts_at = m
  BY <1>8
<1> DEFINE Before == { u \in A : u.starts_at < x.starts_at }
<1>10. Before \in SUBSET F
  <2>1. SUFFICES ASSUME NEW u \in Before  PROVE u \in F
    OBVIOUS
  <2>2. CASE u \in Cut
    <3>1. u.starts_at \in Starts
      BY <2>2
    <3>2. m <= u.starts_at /\ u.starts_at < m
      BY <1>8, <1>9, <3>1
    <3>3. m \in Int /\ u.starts_at \in Int
      BY <1>7, <3>1
    <3>4. QED BY <3>2, <3>3
  <2>3. QED BY <2>2
<1> HIDE DEF Before
<1>11. Cardinality(Before) <= Cardinality(F) /\ IsFiniteSet(Before)
  BY <1>5, <1>10, FS_Subset
<1>12. Cardinality(Before) \in Nat /\ Cardinality(F) \in Nat
  BY <1>5, <1>11, FS_CardinalityType
<1>13. Cardinality(Before) < q.limit
  <2>1. Cardinality(F) < q.limit
    BY DEF F
  <2>2. QED BY <1>1, <1>11, <1>12, <2>1
<1>14. x \in F
  BY <1>3, <1>9, <1>13 DEF Before
<1>15. QED BY <1>9, <1>14

\* With clocks that keep their days and hours that are plain: a search returns only
\* starts that are permitted, open, and served by a team of distinct candidates who work
\* and are free throughout the window, buffers included, on the grid of the opening hours
\* if the rules of the branch begin with a day.  If those of all who are asked do, it
\* returns, unless it was cut short, every such start of a service whose candidates work
\* in the branch's zone and fit one role each, and each of whose roles has somebody.
THEOREM OfferedIsRight ==
  ASSUME PlainHours, SteadyDays
  PROVE  Spec => []OfferedRight
<1>1. ASSUME Inv  PROVE OfferedRight
  <2>1. World
    BY <1>1, InvIsWorld
  <2>2. SUFFICES ASSUME NEW q \in Request
        PROVE  LET found == FindAvailability(q)
                   inputs == Loaded(q.range)
                   teams == Teams(q.service, active, q.preferred)
                   Allowed(t) == Permitted(q, t) /\ OpenFor(Appointment(q.service, t))
                   Served(t, team) ==
                     Serves(team, ReservationWindow(q.service, t), inputs.blocks, inputs.claims)
               IN /\ \A s \in found :
                       /\ Allowed(s.starts_at) /\ s.team \in teams /\ Served(s.starts_at, s.team)
                       /\ WholeDays({ Branch }) => OnGrid(s.starts_at, q.step)
                  /\ /\ WholeDays({ Branch } \cup Staff(q.service)) /\ SameZone(q.service)
                     /\ OneRoleEach(q.service) /\ Staffed(q.service)
                     /\ Cardinality(found) < q.limit
                     => \A t \in (q.range.start .. q.range.end - 1)
                                    \ { s.starts_at : s \in found } :
                          ~ /\ Allowed(t) /\ OnGrid(t, q.step)
                            /\ \E team \in teams : Served(t, team)
    BY DEF OfferedRight
  <2> DEFINE inputs == Loaded(q.range)
             found == FindAvailability(q)
  <2>3. Question(q) /\ Given(inputs)
    BY RequestsAsk DEF Given, Loaded
  <2>4. found = ComputeSlots(q, inputs) /\ \A s \in found : s \in AllSlots(q, inputs)
    BY DEF FindAvailability, ComputeSlots
  <2> HIDE DEF inputs, found
  <2>5. ASSUME NEW s \in found
        PROVE  /\ Permitted(q, s.starts_at) /\ OpenFor(Appointment(q.service, s.starts_at))
               /\ WholeDays({ Branch }) => OnGrid(s.starts_at, q.step)
               /\ s.team \in Teams(q.service, active, q.preferred)
               /\ Serves(s.team, ReservationWindow(q.service, s.starts_at),
                         inputs.blocks, inputs.claims)
    <3> DEFINE t == s.starts_at
    <3>1. /\ Permitted(q, t) /\ EngineOnGrid(t, q.step)
          /\ EngineOpenFor(Appointment(q.service, t))
          /\ s.team \in Teams(q.service, active, q.preferred)
          /\ EngineServes(s.team, ReservationWindow(q.service, t), inputs.blocks, inputs.claims)
      BY <2>1, <2>3, <2>4, FoundIsRight
    <3>2. t \in Int
      <4>1. StartsAt(q, inputs, t)
        BY <2>1, <2>3, <2>4, SlotsAre
      <4> HIDE DEF t
      <4>2. QED BY <2>1, <2>3, <4>1, StartFacts
    <3> HIDE DEF t
    <3>3. /\ Minutes(Appointment(q.service, t)) \subseteq Int
          /\ Minutes(ReservationWindow(q.service, t)) \subseteq Int
      BY <2>3, <3>2, WindowOf DEF Question
    <3>4. OpenFor(Appointment(q.service, t))
      BY <2>1, <3>1, <3>3, EngineIsRight DEF EngineOpenFor, OpenFor
    <3>5. Serves(s.team, ReservationWindow(q.service, t), inputs.blocks, inputs.claims)
      BY <2>1, <3>1, <3>3, EngineIsRight DEF EngineServes, Serves
    <3>6. WholeDays({ Branch }) => OnGrid(t, q.step)
      BY <2>1, <3>1, <3>2, GridsAgree
    <3>7. QED BY <3>1, <3>4, <3>5, <3>6 DEF t
  <2>6. ASSUME WholeDays({ Branch } \cup Staff(q.service)), SameZone(q.service),
               OneRoleEach(q.service), Cardinality(found) < q.limit,
               NEW t \in q.range.start .. q.range.end - 1,
               Permitted(q, t), OnGrid(t, q.step), OpenFor(Appointment(q.service, t)),
               NEW team \in Teams(q.service, active, q.preferred),
               Serves(team, ReservationWindow(q.service, t), inputs.blocks, inputs.claims)
        PROVE  \E s \in found : s.starts_at = t
    <3> DEFINE window == ReservationWindow(q.service, t)
               visit == Appointment(q.service, t)
    <3>1. t \in Int
      BY <2>3 DEF Question
    <3>2. Minutes(visit) \subseteq Int /\ Minutes(window) \subseteq Int
      BY <2>3, <3>1, WindowOf DEF Question
    <3>3. WholeDays({ Branch })
      BY <2>6 DEF WholeDays
    <3>4. \A o \in { Branch } \cup Staff(q.service) : \A u \in Int :
            EngineOpens(o, u) <=> Opens(o, u)
      BY <2>1, <2>6, WholeDaysAgree
    <3> HIDE DEF window, visit
    <3>5. EngineOpenFor(visit)
      BY <2>6, <3>2, <3>4 DEF OpenFor, EngineOpenFor, visit
    <3>6. \A n \in DOMAIN team : team[n] \in Staff(q.service)
      <4>1. SUFFICES ASSUME NEW n \in DOMAIN team  PROVE team[n] \in Staff(q.service)
        OBVIOUS
      <4>2. n \in Roles(q.service, active) /\ team[n] \in ToSet(q.service.candidates[n])
        BY DEF Teams
      <4>3. n \in DOMAIN q.service.candidates
        BY <4>2 DEF Roles
      <4>4. QED BY <4>2, <4>3 DEF Staff
    <3>7. \A n \in DOMAIN team : \A u \in Int : Works(team[n], u) => EngineWorks(team[n], u)
      BY <3>4, <3>6 DEF Works, EngineWorks
    <3>8. EngineServes(team, window, inputs.blocks, inputs.claims)
      BY <2>6, <3>2, <3>7 DEF Serves, EngineServes, window
    <3>9. EngineOnGrid(t, q.step)
      BY <2>1, <2>6, <3>1, <3>3, GridsAgree
    <3>10. PICK s \in AllSlots(q, inputs) : s.starts_at = t
      BY <2>1, <2>3, <2>6, <3>1, <3>5, <3>8, <3>9, RightIsFound DEF visit, window
    <3>11. s \in found
      BY <2>1, <2>3, <2>4, <2>6, NothingCut
    <3>12. QED BY <3>10, <3>11
  <2>7. ASSUME WholeDays({ Branch } \cup Staff(q.service)), SameZone(q.service),
               OneRoleEach(q.service), Cardinality(found) < q.limit,
               NEW t \in (q.range.start .. q.range.end - 1) \ { s.starts_at : s \in found },
               Permitted(q, t), OnGrid(t, q.step), OpenFor(Appointment(q.service, t)),
               NEW team \in Teams(q.service, active, q.preferred),
               Serves(team, ReservationWindow(q.service, t), inputs.blocks, inputs.claims)
        PROVE  FALSE
    <3>1. t \in q.range.start .. q.range.end - 1 /\ ~ \E s \in found : s.starts_at = t
      BY <2>7
    <3>2. QED BY <2>6, <2>7, <3>1
  <2>8. QED BY <2>5, <2>7 DEF inputs, found
<1>2. Inv => OfferedRight
  BY <1>1
<1>3. QED BY <1>2, InvAlways, PTL

=============================================================================
