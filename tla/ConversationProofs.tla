------------------------- MODULE ConversationProofs -------------------------
(***************************************************************************)
(* What is true of a conversation for any number of runs, workers, events, *)
(* turns and folds: nothing a run did is forgotten, a result follows its   *)
(* call into every request, folds go forward and stay few, questions stay, *)
(* turns are counted, and what is discarded was behind a fold.             *)
(*                                                                         *)
(* The order of the module: positions in order and what a replayed log     *)
(* shows; Base, kept by every step; Structure, who works and who waits;    *)
(* the log against what the store promises of it; Budget, the turns;       *)
(* Folding, how folds succeed each other; Remembered, what a request still *)
(* tells; Owes and Together, calls with their results.                     *)
(***************************************************************************)
EXTENDS Conversation, FiniteSetTheorems, FunctionTheorems, WellFoundedInduction, TLAPS

\* The positions of a log are numbers, and there is no endless way down among them
\* (events.go, Append).
LEMMA LessIsWellFounded == IsWellFoundedOn({p \in Nat \X Nat : p[1] < p[2]}, Nat)
BY NatLessThanWellFounded DEF OpToRel

\* The least position of several is one of them and none is before it: the first deed of
\* a run, by which its question is placed (conversation.go, apply).
LEMMA MinIsLeast ==
  ASSUME NEW S \in SUBSET Nat, S # {}
  PROVE  Min(S) \in S /\ \A y \in S : Min(S) <= y
<1> DEFINE R == {p \in Nat \X Nat : p[1] < p[2]}
<1>1. IsWellFoundedOn(R, Nat)
  BY LessIsWellFounded
<1>2. PICK x \in S : \A y \in S : ~ (<<y, x>> \in R)
  <2> HIDE DEF R
  <2> QED BY <1>1, WFMin
<1>3. \A y \in S : x <= y
  <2> SUFFICES ASSUME NEW y \in S, y < x PROVE FALSE
    OBVIOUS
  <2>1. <<y, x>> \in R
    OBVIOUS
  <2> QED BY <1>2, <2>1
<1> QED BY <1>3 DEF Min

\* The greatest position of several is one of them and none is after it: the last fold
\* that stands, and the next position of a log (conversation.go, foldsIn).
LEMMA MaxIsMost ==
  ASSUME NEW N \in Nat, NEW S \in SUBSET (0 .. N), S # {}
  PROVE  Max(S) \in S /\ \A y \in S : y <= Max(S)
<1> DEFINE T == {N - y : y \in S}
<1>1. T \in SUBSET Nat /\ T # {}
  <2>1. \A y \in S : N - y \in Nat
    OBVIOUS
  <2> QED BY <2>1
<1>2. Min(T) \in T /\ \A t \in T : Min(T) <= t
  <2> HIDE DEF T
  <2> QED BY <1>1, MinIsLeast
<1>3. PICK x \in S : Min(T) = N - x
  BY <1>2
<1>4. \A y \in S : x >= y
  <2> SUFFICES ASSUME NEW y \in S PROVE x >= y
    OBVIOUS
  <2>1. N - x <= N - y
    BY <1>2, <1>3
  <2> QED BY <2>1
<1>5. \E z \in S : \A y \in S : z >= y
  BY <1>4
<1>6. Max(S) \in S /\ \A y \in S : Max(S) >= y
  BY <1>5 DEF Max
<1> QED BY <1>6

\* Each member of a set has a place of its own.
HasPlaces(S, place) ==
  /\ \A p \in S : place[p] \in Int
  /\ \A p, q \in S : place[p] = place[q] => p = q

\* What stands at each rank of a set whose members have places of their own: each
\* member once, in the order of the places (conversation.go, apply).
LEMMA InOrderProperties ==
  ASSUME NEW S, IsFiniteSet(S), NEW place, HasPlaces(S, place),
         NEW s, s = InOrder(S, place)
  PROVE  /\ Len(s) \in Nat /\ Len(s) = Cardinality(S) /\ DOMAIN s = 1 .. Len(s)
         /\ s \in Seq(S) /\ \A i \in 1 .. Len(s) : s[i] \in S
         /\ \A p \in S : \E i \in 1 .. Len(s) : s[i] = p
         /\ \A i, j \in 1 .. Len(s) : i < j <=> place[s[i]] < place[s[j]]
<1> DEFINE n == Cardinality(S)
           Before(p) == {q \in S : place[q] < place[p]}
           rank == [p \in S |-> Cardinality(Before(p))]
<1> USE DEF HasPlaces
<1>1. n \in Nat
  BY FS_CardinalityType
<1>2. \A p \in S : IsFiniteSet(Before(p)) /\ Cardinality(Before(p)) \in Nat
  <2> SUFFICES ASSUME NEW p \in S PROVE IsFiniteSet(Before(p)) /\ Cardinality(Before(p)) \in Nat
    OBVIOUS
  <2>1. Before(p) \in SUBSET S
    OBVIOUS
  <2>2. IsFiniteSet(Before(p))
    <3> HIDE DEF Before
    <3> QED BY <2>1, FS_Subset
  <2> QED BY <2>2, FS_CardinalityType
<1>3. \A p, q \in S : place[p] < place[q] => Cardinality(Before(p)) < Cardinality(Before(q))
  <2> SUFFICES ASSUME NEW p \in S, NEW q \in S, place[p] < place[q]
               PROVE  Cardinality(Before(p)) < Cardinality(Before(q))
    OBVIOUS
  <2>1. Before(p) \in SUBSET Before(q) /\ p \in Before(q) /\ p \notin Before(p)
    OBVIOUS
  <2>2. /\ Cardinality(Before(p)) <= Cardinality(Before(q))
        /\ Cardinality(Before(p)) # Cardinality(Before(q))
    <3> HIDE DEF Before
    <3> QED BY <1>2, <2>1, FS_Subset
  <2> QED BY <1>2, <2>2
<1>4. \A p \in S : Cardinality(Before(p)) \in 0 .. n - 1
  <2> SUFFICES ASSUME NEW p \in S PROVE Cardinality(Before(p)) \in 0 .. n - 1
    OBVIOUS
  <2>1. Before(p) \in SUBSET S /\ p \notin Before(p)
    OBVIOUS
  <2>2. Cardinality(Before(p)) <= n /\ Cardinality(Before(p)) # n
    <3> HIDE DEF Before
    <3> QED BY <2>1, FS_Subset
  <2> QED BY <1>1, <1>2, <2>2
<1> HIDE DEF Before
<1>5. \A p, q \in S : Cardinality(Before(p)) = Cardinality(Before(q)) => p = q
  <2> SUFFICES ASSUME NEW p \in S, NEW q \in S, p # q
               PROVE  Cardinality(Before(p)) # Cardinality(Before(q))
    OBVIOUS
  <2>1. place[p] < place[q] \/ place[q] < place[p]
    OBVIOUS
  <2> QED BY <1>2, <1>3, <2>1
<1>6. \A k \in 0 .. n - 1 : \E p \in S : Cardinality(Before(p)) = k
  <2>1. rank \in [S -> 0 .. n - 1]
    BY <1>4
  <2>2. rank \in Injection(S, 0 .. n - 1)
    BY <2>1, <1>5, Fun_IsInj
  <2>3. IsFiniteSet(0 .. n - 1) /\ Cardinality(0 .. n - 1) = n
    BY <1>1, FS_Interval
  <2> HIDE DEF rank, n
  <2>4. rank \in Surjection(S, 0 .. n - 1)
    BY <2>2, <2>3, FS_Injection DEF n
  <2>5. \A k \in 0 .. n - 1 : \E p \in S : rank[p] = k
    BY <2>4, Fun_SurjectionProperties
  <2> QED BY <2>5 DEF rank
<1>7. s = [i \in 1 .. n |-> CHOOSE p \in S : Cardinality(Before(p)) = i - 1]
  BY DEF InOrder, Before
<1>8. \A i \in 1 .. n : s[i] \in S /\ Cardinality(Before(s[i])) = i - 1
  <2> SUFFICES ASSUME NEW i \in 1 .. n
               PROVE  s[i] \in S /\ Cardinality(Before(s[i])) = i - 1
    OBVIOUS
  <2>1. i - 1 \in 0 .. n - 1
    BY <1>1
  <2>2. \E p \in S : Cardinality(Before(p)) = i - 1
    BY <1>6, <2>1
  <2> QED BY <1>7, <2>2
<1>9. \A p \in S : \E i \in 1 .. n : s[i] = p
  <2> SUFFICES ASSUME NEW p \in S PROVE \E i \in 1 .. n : s[i] = p
    OBVIOUS
  <2> DEFINE i == Cardinality(Before(p)) + 1
  <2>1. i \in 1 .. n /\ Cardinality(Before(p)) = i - 1
    BY <1>1, <1>4
  <2>2. s[i] = p
    BY <1>5, <1>8, <2>1
  <2> QED BY <2>1, <2>2
<1>10. \A i, j \in 1 .. n : i < j <=> place[s[i]] < place[s[j]]
  <2> SUFFICES ASSUME NEW i \in 1 .. n, NEW j \in 1 .. n
               PROVE  i < j <=> place[s[i]] < place[s[j]]
    OBVIOUS
  <2>1. /\ s[i] \in S /\ Cardinality(Before(s[i])) = i - 1
        /\ s[j] \in S /\ Cardinality(Before(s[j])) = j - 1
    BY <1>8
  <2>2. ASSUME place[s[i]] < place[s[j]] PROVE i < j
    <3>1. i - 1 < j - 1
      BY <1>3, <2>1, <2>2
    <3> QED BY <3>1, <1>1
  <2>3. ASSUME i < j PROVE place[s[i]] < place[s[j]]
    <3>1. ~ (j < i) /\ i # j
      BY <2>3, <1>1
    <3>2. ~ (place[s[j]] < place[s[i]])
      <4> SUFFICES ASSUME place[s[j]] < place[s[i]] PROVE FALSE
        OBVIOUS
      <4>1. j - 1 < i - 1
        BY <1>3, <2>1
      <4> QED BY <4>1, <2>3, <1>1
    <3>3. place[s[i]] # place[s[j]]
      <4> SUFFICES ASSUME s[i] = s[j] PROVE FALSE
        BY <2>1
      <4> QED BY <2>1, <3>1, <1>1
    <3> QED BY <2>1, <3>2, <3>3
  <2> QED BY <2>2, <2>3
<1>11. DOMAIN s = 1 .. n
  BY <1>7
<1>12. s \in Seq(S) /\ Len(s) = n
  <2>1. s \in [1 .. n -> S]
    BY <1>7, <1>8
  <2> HIDE DEF n
  <2> QED BY <1>1, <2>1
<1> QED BY <1>1, <1>8, <1>9, <1>10, <1>11, <1>12

\* Positions in order: each of them once, the smaller first (conversation.go, foldsIn).
LEMMA AscendingProperties ==
  ASSUME NEW S, IsFiniteSet(S), S \subseteq Int, NEW s, s = Ascending(S)
  PROVE  /\ Len(s) \in Nat /\ Len(s) = Cardinality(S) /\ DOMAIN s = 1 .. Len(s)
         /\ s \in Seq(S) /\ \A i \in 1 .. Len(s) : s[i] \in S
         /\ \A p \in S : \E i \in 1 .. Len(s) : s[i] = p
         /\ \A i, j \in 1 .. Len(s) : i < j <=> s[i] < s[j]
<1> DEFINE place == [p \in S |-> p]
<1>1. \A p \in S : place[p] \in Int /\ place[p] = p
  OBVIOUS
<1>2. s = InOrder(S, place)
  BY DEF Ascending
<1>4. HasPlaces(S, place)
  BY <1>1 DEF HasPlaces
<1> HIDE DEF place
<1>3. /\ Len(s) \in Nat /\ Len(s) = Cardinality(S) /\ DOMAIN s = 1 .. Len(s)
      /\ s \in Seq(S) /\ \A i \in 1 .. Len(s) : s[i] \in S
      /\ \A p \in S : \E i \in 1 .. Len(s) : s[i] = p
      /\ \A i, j \in 1 .. Len(s) : i < j <=> place[s[i]] < place[s[j]]
  BY <1>2, <1>4, InOrderProperties
<1>6. \A i \in 1 .. Len(s) : place[s[i]] = s[i]
  BY <1>1, <1>3
<1> QED BY <1>3, <1>6

\* What the lemmas about replaying a log ask of it: finitely many positions, folds that
\* cover a range behind them, and one question for each run, its first event.
LogFine(l) ==
  /\ \E n \in Nat : DOMAIN l \subseteq 1 .. n
  /\ \A p \in DOMAIN l :
       l[p].from \in Nat /\ l[p].through \in Nat /\ l[p].tells \in SUBSET Nat
  /\ \A p \in FoldsOf(l) : l[p].from \in 1 .. l[p].through /\ l[p].through < p
  /\ \A p, q \in DOMAIN l : (l[p].kind = "user" /\ l[q].run = l[p].run) => p <= q

\* Positions are numbers, the last one kept included (events.go, Append).
LEMMA Positions ==
  ASSUME NEW l, LogFine(l)
  PROVE  /\ IsFiniteSet(DOMAIN l) /\ DOMAIN l \subseteq Nat \ {0}
         /\ NextSeq(l) \in Nat /\ \A p \in DOMAIN l : p < NextSeq(l)
<1>1. PICK n \in Nat : DOMAIN l \subseteq 1 .. n
  BY DEF LogFine
<1>2. IsFiniteSet(DOMAIN l)
  <2>1. IsFiniteSet(1 .. n)
    BY <1>1, FS_Interval
  <2> QED BY <1>1, <2>1, FS_Subset
<1> DEFINE kept == DOMAIN l \cup {0}
<1>3. kept \in SUBSET (0 .. n) /\ kept # {}
  BY <1>1
<1>4. Max(kept) \in kept /\ \A p \in kept : p <= Max(kept)
  <2> HIDE DEF kept
  <2> QED BY <1>1, <1>3, MaxIsMost
<1> QED BY <1>1, <1>2, <1>3, <1>4 DEF NextSeq

\* Any set of positions has a least and a greatest member.
LEMMA Extremes ==
  ASSUME NEW l, LogFine(l), NEW S \in SUBSET DOMAIN l
  PROVE  /\ IsFiniteSet(S) /\ Cardinality(S) \in Nat
         /\ S # {} => Max(S) \in S /\ \A p \in S : p <= Max(S)
         /\ S # {} => Min(S) \in S /\ \A p \in S : Min(S) <= p
<1>1. PICK n \in Nat : DOMAIN l \subseteq 1 .. n
  BY DEF LogFine
<1>2. IsFiniteSet(S) /\ Cardinality(S) \in Nat
  BY Positions, FS_Subset, FS_CardinalityType
<1>3. S \in SUBSET (0 .. n) /\ S \in SUBSET Nat
  BY <1>1
<1> QED BY <1>1, <1>2, <1>3, MaxIsMost, MinIsLeast

\* The last fold a run may see always stands, and what the folds reach is what it
\* reaches (conversation.go, foldsIn).
LEMMA ReachIsOfTheLastFold ==
  ASSUME NEW l, LogFine(l), NEW run, NEW folds, folds = VisibleTo(l, run) \cap FoldsOf(l)
  PROVE  /\ Standing(l, run) \in SUBSET folds /\ folds \in SUBSET DOMAIN l
         /\ folds = {} => Standing(l, run) = {} /\ Reach(l, run) = 0
         /\ folds # {} => /\ Max(folds) \in Standing(l, run)
                          /\ Reach(l, run) = l[Max(folds)].through
                          /\ \A f \in folds : f <= Max(folds)
         /\ Reach(l, run) \in Nat
<1> DEFINE standing == Standing(l, run)
<1>1. standing \in SUBSET folds /\ folds \in SUBSET DOMAIN l
  BY DEF Standing, FoldsOf
<1>2. CASE folds = {}
  BY <1>1, <1>2 DEF Reach
<1>3. CASE folds # {}
  <2>1. Max(folds) \in folds /\ \A f \in folds : f <= Max(folds) /\ f \in Nat
    BY <1>1, <1>3, Extremes, Positions
  <2>2. Max(folds) \in standing
    BY <2>1 DEF Standing
  <2>3. Max(standing) \in standing /\ \A f \in standing : f <= Max(standing)
    <3> HIDE DEF standing
    <3> QED BY <1>1, <2>2, Extremes
  <2>4. Max(standing) = Max(folds)
    BY <1>1, <2>1, <2>2, <2>3
  <2>5. l[Max(folds)].through \in Nat
    BY <1>1, <2>1 DEF LogFine
  <2> QED BY <1>1, <1>3, <2>1, <2>2, <2>4, <2>5 DEF Reach
<1> QED BY <1>2, <1>3

\* What is replayed is among the positions kept, and beyond what the folds reach.
LEMMA ReplayedIsKept ==
  ASSUME NEW l, LogFine(l), NEW run
  PROVE  /\ Shown(l, run) \in SUBSET Replayed(l, run) /\ Replayed(l, run) \in SUBSET DOMAIN l
         /\ \A p \in Replayed(l, run) : p > Reach(l, run) /\ p \notin FoldsOf(l)
BY DEF Shown, Replayed, VisibleTo

\* The place of every event that is replayed.
Places(l, run) ==
  [p \in Replayed(l, run) |-> Place(l, run, p, Replayed(l, run))]

\* Where each event stands among those replayed: an event of the run's own doing at
\* its position, a question just before the first deed of its run, or at the end
\* (conversation.go, apply and release).
LEMMA PlaceOf ==
  ASSUME NEW l, LogFine(l), NEW run, NEW events, events = Replayed(l, run),
         NEW p \in events, NEW place, place = Places(l, run),
         NEW deeds, deeds = {q \in events : l[q].run = l[p].run /\ l[q].kind # "user"}
  PROVE  /\ place[p] \in Int /\ place[p] >= 2 * p
         /\ l[p].kind # "user" => place[p] = 2 * p
         /\ (l[p].kind = "user" /\ deeds = {}) => place[p] = 2 * NextSeq(l)
         /\ (l[p].kind = "user" /\ deeds # {}) =>
              /\ Min(deeds) \in deeds /\ Min(deeds) \in Nat /\ place[p] = 2 * Min(deeds) - 1
              /\ \A d \in deeds : Min(deeds) <= d
<1>1. events \in SUBSET DOMAIN l /\ p \in DOMAIN l /\ deeds \in SUBSET DOMAIN l
  BY ReplayedIsKept
<1>2. p \in Nat /\ NextSeq(l) \in Nat /\ p < NextSeq(l)
  BY <1>1, Positions
<1>3. place[p] = Place(l, run, p, events)
  BY DEF Places
<1>4. CASE l[p].kind # "user"
  BY <1>2, <1>3, <1>4 DEF Place
<1>5. CASE l[p].kind = "user" /\ deeds = {}
  <2>1. place[p] = 2 * NextSeq(l)
    BY <1>3, <1>5 DEF Place
  <2> QED BY <1>2, <1>5, <2>1
<1>6. CASE l[p].kind = "user" /\ deeds # {}
  <2>1. Min(deeds) \in deeds /\ \A d \in deeds : Min(deeds) <= d
    BY <1>1, <1>6, Extremes
  <2>2. p <= Min(deeds) /\ p # Min(deeds)
    BY <1>1, <1>6, <2>1 DEF LogFine
  <2>3. Min(deeds) \in Nat
    BY <1>1, <2>1, Positions
  <2>4. place[p] = 2 * Min(deeds) - 1
    BY <1>3, <1>6 DEF Place
  <2> QED BY <1>2, <1>6, <2>1, <2>2, <2>3, <2>4
<1> QED BY <1>4, <1>5, <1>6

\* No two of the events shown have one place.
LEMMA PlacesDiffer ==
  ASSUME NEW l, LogFine(l), NEW run
  PROVE  /\ \A p \in Shown(l, run) : Places(l, run)[p] \in Int
         /\ \A p, q \in Shown(l, run) : Places(l, run)[p] = Places(l, run)[q] => p = q
<1> DEFINE place == Places(l, run)
           events == Replayed(l, run)
           Deeds(p) == {q \in events : l[q].run = l[p].run /\ l[q].kind # "user"}
<1>1. \A p \in Shown(l, run) : p \in events /\ p \in DOMAIN l /\ p \in Nat /\ p < NextSeq(l)
  BY ReplayedIsKept, Positions
<1>2. NextSeq(l) \in Nat
  BY Positions
<1>3. \A p \in Shown(l, run) : l[p].kind = "user" => Deeds(p) # {} \/ l[p].run = run
  BY DEF Shown, Dropped
<1>4. \A p \in Shown(l, run) :
        /\ place[p] \in Int
        /\ l[p].kind # "user" => place[p] = 2 * p
        /\ (l[p].kind = "user" /\ Deeds(p) = {}) => place[p] = 2 * NextSeq(l)
        /\ (l[p].kind = "user" /\ Deeds(p) # {}) =>
             /\ Min(Deeds(p)) \in Deeds(p) /\ Min(Deeds(p)) \in Nat
             /\ place[p] = 2 * Min(Deeds(p)) - 1
  <2> SUFFICES ASSUME NEW p \in Shown(l, run)
               PROVE  /\ place[p] \in Int
                      /\ l[p].kind # "user" => place[p] = 2 * p
                      /\ (l[p].kind = "user" /\ Deeds(p) = {}) => place[p] = 2 * NextSeq(l)
                      /\ (l[p].kind = "user" /\ Deeds(p) # {}) =>
                           /\ Min(Deeds(p)) \in Deeds(p) /\ Min(Deeds(p)) \in Nat
                           /\ place[p] = 2 * Min(Deeds(p)) - 1
    OBVIOUS
  <2> DEFINE deeds == Deeds(p)
  <2>1. p \in events
    BY <1>1
  <2>2. deeds = {q \in events : l[q].run = l[p].run /\ l[q].kind # "user"}
    OBVIOUS
  <2> HIDE DEF deeds, events, place
  <2>3. /\ place[p] \in Int /\ place[p] >= 2 * p
        /\ l[p].kind # "user" => place[p] = 2 * p
        /\ (l[p].kind = "user" /\ deeds = {}) => place[p] = 2 * NextSeq(l)
        /\ (l[p].kind = "user" /\ deeds # {}) =>
             /\ Min(deeds) \in deeds /\ Min(deeds) \in Nat /\ place[p] = 2 * Min(deeds) - 1
             /\ \A d \in deeds : Min(deeds) <= d
    BY <2>1, <2>2, PlaceOf DEF events, place
  <2> QED BY <2>3 DEF deeds
<1>5. ASSUME NEW p \in Shown(l, run), NEW q \in Shown(l, run), place[p] = place[q]
      PROVE  p = q
  <2>1. \A a, b \in Shown(l, run) : (l[a].kind = "user" /\ l[b].kind = "user" /\ l[a].run = l[b].run) => a = b
    BY <1>1 DEF LogFine
  <2>2. CASE l[p].kind # "user" /\ l[q].kind # "user"
    <3>1. place[p] = 2 * p /\ place[q] = 2 * q
      BY <1>4, <2>2
    <3>2. p \in Nat /\ q \in Nat
      BY <1>1
    <3>3. 2 * p = 2 * q
      BY <1>5, <3>1
    <3> QED BY <3>2, <3>3
  <2>3. CASE l[p].kind = "user" /\ l[q].kind # "user"
    <3>1. place[q] = 2 * q /\ q \in Nat /\ q < NextSeq(l)
      BY <1>1, <1>4, <2>3
    <3>2. CASE Deeds(p) = {}
      <4>1. place[p] = 2 * NextSeq(l)
        BY <1>4, <2>3, <3>2
      <4> QED BY <3>1, <4>1, <1>2, <1>5
    <3>3. CASE Deeds(p) # {}
      <4>1. place[p] = 2 * Min(Deeds(p)) - 1 /\ Min(Deeds(p)) \in Nat
        BY <1>4, <2>3, <3>3
      <4> HIDE DEF Deeds, place
      <4> QED BY <3>1, <4>1, <1>5
    <3> QED BY <3>2, <3>3
  <2>4. CASE l[q].kind = "user" /\ l[p].kind # "user"
    <3>1. place[p] = 2 * p /\ p \in Nat /\ p < NextSeq(l)
      BY <1>1, <1>4, <2>4
    <3>2. CASE Deeds(q) = {}
      <4>1. place[q] = 2 * NextSeq(l)
        BY <1>4, <2>4, <3>2
      <4> QED BY <3>1, <4>1, <1>2, <1>5
    <3>3. CASE Deeds(q) # {}
      <4>1. place[q] = 2 * Min(Deeds(q)) - 1 /\ Min(Deeds(q)) \in Nat
        BY <1>4, <2>4, <3>3
      <4> HIDE DEF Deeds, place
      <4> QED BY <3>1, <4>1, <1>5
    <3> QED BY <3>2, <3>3
  <2>5. CASE l[p].kind = "user" /\ l[q].kind = "user"
    <3>1. CASE Deeds(p) = {} /\ Deeds(q) = {}
      BY <1>3, <2>1, <2>5, <3>1
    <3>2. CASE Deeds(p) # {} /\ Deeds(q) # {}
      <4>1. Min(Deeds(p)) \in Deeds(p) /\ Min(Deeds(q)) \in Deeds(q) /\ Min(Deeds(p)) = Min(Deeds(q))
        <5>1. /\ Min(Deeds(p)) \in Deeds(p) /\ Min(Deeds(p)) \in Nat
              /\ place[p] = 2 * Min(Deeds(p)) - 1
          BY <1>4, <2>5, <3>2
        <5>2. /\ Min(Deeds(q)) \in Deeds(q) /\ Min(Deeds(q)) \in Nat
              /\ place[q] = 2 * Min(Deeds(q)) - 1
          BY <1>4, <2>5, <3>2
        <5> HIDE DEF Deeds, place
        <5> QED BY <5>1, <5>2, <1>5
      <4>2. l[p].run = l[q].run
        BY <4>1
      <4> QED BY <2>1, <2>5, <4>2
    <3>3. ASSUME NEW a \in Shown(l, run), NEW b \in Shown(l, run), l[a].kind = "user", l[b].kind = "user",
                 Deeds(a) = {}, Deeds(b) # {}, place[a] = place[b]
          PROVE  FALSE
      <4>1. place[a] = 2 * NextSeq(l)
        BY <1>4, <3>3
      <4>2. place[b] = 2 * Min(Deeds(b)) - 1 /\ Min(Deeds(b)) \in Nat
        BY <1>4, <3>3
      <4> HIDE DEF Deeds, place
      <4> QED BY <4>1, <4>2, <1>2, <3>3
    <3> QED BY <1>5, <2>5, <3>1, <3>2, <3>3
  <2> QED BY <2>2, <2>3, <2>4, <2>5
<1> QED BY <1>4, <1>5

\* The script holds every event shown once, in the order of their places.
LEMMA ScriptProperties ==
  ASSUME NEW l, LogFine(l), NEW run, NEW s, s = Script(l, run),
         NEW place, place = Places(l, run)
  PROVE  /\ Len(s) \in Nat /\ DOMAIN s = 1 .. Len(s) /\ s \in Seq(Shown(l, run))
         /\ \A i \in 1 .. Len(s) : s[i] \in Shown(l, run)
         /\ \A p \in Shown(l, run) : place[p] \in Int /\ \E i \in 1 .. Len(s) : s[i] = p
         /\ \A i, j \in 1 .. Len(s) : i < j <=> place[s[i]] < place[s[j]]
<1> DEFINE shown == Shown(l, run)
<1>1. IsFiniteSet(shown)
  BY ReplayedIsKept, Extremes
<1>2. s = InOrder(shown, place)
  BY DEF Script, Places
<1>3. \A p \in shown : place[p] \in Int
  BY PlacesDiffer
<1>4. HasPlaces(shown, place)
  BY PlacesDiffer DEF HasPlaces
<1> HIDE DEF shown
<1>5. /\ Len(s) \in Nat /\ DOMAIN s = 1 .. Len(s) /\ s \in Seq(shown)
      /\ \A i \in 1 .. Len(s) : s[i] \in shown
      /\ \A p \in shown : \E i \in 1 .. Len(s) : s[i] = p
      /\ \A i, j \in 1 .. Len(s) : i < j <=> place[s[i]] < place[s[j]]
  BY <1>1, <1>2, <1>4, InOrderProperties
<1> QED BY <1>3, <1>5 DEF shown

\* The folds that stand, oldest first.
LEMMA FoldsInOrder ==
  ASSUME NEW l, LogFine(l), NEW run, NEW folds, folds = Ascending(Standing(l, run))
  PROVE  /\ Len(folds) \in Nat /\ Len(folds) = Cardinality(Standing(l, run))
         /\ DOMAIN folds = 1 .. Len(folds)
         /\ \A i \in 1 .. Len(folds) : folds[i] \in Standing(l, run)
         /\ \A f \in Standing(l, run) : \E i \in 1 .. Len(folds) : folds[i] = f
         /\ \A i, j \in 1 .. Len(folds) : i < j <=> folds[i] < folds[j]
<1> DEFINE S == Standing(l, run)
<1>1. IsFiniteSet(S) /\ S \subseteq Int /\ folds = Ascending(S)
  <2>1. S \in SUBSET DOMAIN l
    BY ReachIsOfTheLastFold
  <2> QED BY <2>1, Extremes, Positions
<1> HIDE DEF S
<1>2. /\ Len(folds) \in Nat /\ Len(folds) = Cardinality(S) /\ DOMAIN folds = 1 .. Len(folds)
      /\ \A i \in 1 .. Len(folds) : folds[i] \in S
      /\ \A f \in S : \E i \in 1 .. Len(folds) : folds[i] = f
      /\ \A i, j \in 1 .. Len(folds) : i < j <=> folds[i] < folds[j]
  BY <1>1, AscendingProperties
<1> QED BY <1>2 DEF S

\* The places where messages end, in order.
LEMMA EndsInOrder ==
  ASSUME NEW l, LogFine(l), NEW run, NEW s, s = Script(l, run),
         NEW ends, ends = Ascending(Ends(l, s))
  PROVE  /\ Len(ends) \in Nat /\ DOMAIN ends = 1 .. Len(ends)
         /\ \A k \in 1 .. Len(ends) : ends[k] \in Ends(l, s) /\ ends[k] \in 1 .. Len(s)
         /\ \A e \in Ends(l, s) : \E k \in 1 .. Len(ends) : ends[k] = e
         /\ \A j, k \in 1 .. Len(ends) : j < k <=> ends[j] < ends[k]
<1> DEFINE E == Ends(l, s)
<1>1. IsFiniteSet(E) /\ E \subseteq 1 .. Len(s) /\ E \subseteq Int /\ ends = Ascending(E)
  <2>1. Len(s) \in Nat /\ DOMAIN s = 1 .. Len(s)
    BY ScriptProperties
  <2>2. IsFiniteSet(1 .. Len(s)) /\ Ends(l, s) \in SUBSET (1 .. Len(s))
    BY <2>1, FS_Interval DEF Ends
  <2> QED BY <2>1, <2>2, FS_Subset
<1> HIDE DEF E
<1>2. /\ Len(ends) \in Nat /\ DOMAIN ends = 1 .. Len(ends)
      /\ \A k \in 1 .. Len(ends) : ends[k] \in E
      /\ \A e \in E : \E k \in 1 .. Len(ends) : ends[k] = e
      /\ \A j, k \in 1 .. Len(ends) : j < k <=> ends[j] < ends[k]
  BY <1>1, AscendingProperties
<1> QED BY <1>1, <1>2 DEF E

\* Where the k-th piece of the script begins: after the end before it.
First(ends, k) == IF k = 1 THEN 1 ELSE ends[k - 1] + 1

\* The message that ends at the k-th end.
Piece(l, s, ends, k) ==
  [role |-> Role(l, s[ends[k]]), from |-> 0, last |-> s[ends[k]],
   parts |-> {s[i] : i \in First(ends, k) .. ends[k]}]

\* The messages are the folds that stand and then the pieces the script falls into.
LEMMA MessagesAre ==
  ASSUME NEW l, LogFine(l), NEW run, NEW s, s = Script(l, run),
         NEW folds, folds = Ascending(Standing(l, run)),
         NEW ends, ends = Ascending(Ends(l, s)), NEW m, m = Conversation(l, run)
  PROVE  /\ Len(m) = Len(folds) + Len(ends) /\ DOMAIN m = 1 .. Len(m)
         /\ \A i \in 1 .. Len(folds) : m[i] = FoldMessage(l, folds[i])
         /\ \A k \in 1 .. Len(ends) :
              m[Len(folds) + k] = Piece(l, s, ends, k)
<1>3. Len(folds) \in Nat /\ DOMAIN folds = 1 .. Len(folds)
  BY FoldsInOrder
<1>4. Len(ends) \in Nat /\ DOMAIN ends = 1 .. Len(ends)
  BY EndsInOrder
<1> DEFINE V(k) == Piece(l, s, ends, k)
           a == [i \in DOMAIN folds |-> FoldMessage(l, folds[i])]
           b == [k \in DOMAIN ends |-> V(k)]
           A == {FoldMessage(l, folds[i]) : i \in DOMAIN folds}
           B == {V(k) : k \in DOMAIN ends}
<1>5. m = a \o b
  BY DEF Conversation, Piece, First
<1>6. a \in [1 .. Len(folds) -> A] /\ DOMAIN a = 1 .. Len(folds)
      /\ \A i \in 1 .. Len(folds) : a[i] = FoldMessage(l, folds[i])
  <2> HIDE DEF V
  <2> QED BY <1>3
<1>7. b \in [1 .. Len(ends) -> B] /\ DOMAIN b = 1 .. Len(ends)
      /\ \A k \in 1 .. Len(ends) : b[k] = V(k)
  <2> HIDE DEF V
  <2> QED BY <1>4
<1> HIDE DEF a, b, A, B, V
<1>8. /\ Len(m) = Len(folds) + Len(ends) /\ DOMAIN m = 1 .. Len(folds) + Len(ends)
      /\ \A i \in 1 .. Len(folds) : m[i] = a[i]
      /\ \A k \in 1 .. Len(ends) : m[Len(folds) + k] = b[k]
  <2>1. a \in Seq(A \cup B) /\ Len(a) = Len(folds)
    BY <1>3, <1>6
  <2>2. b \in Seq(A \cup B) /\ Len(b) = Len(ends)
    BY <1>4, <1>7
  <2> DEFINE T == A \cup B
  <2>3. a \in Seq(T) /\ b \in Seq(T)
    BY <2>1, <2>2
  <2> HIDE DEF T
  <2>4. Len(a \o b) = Len(a) + Len(b) /\ DOMAIN (a \o b) = 1 .. Len(a) + Len(b)
    BY <2>3
  <2>5. \A i \in 1 .. Len(a) : (a \o b)[i] = a[i]
    BY <2>3
  <2>6. \A k \in 1 .. Len(b) : (a \o b)[Len(a) + k] = b[k]
    BY <2>3
  <2> QED BY <1>5, <2>1, <2>2, <2>4, <2>5, <2>6
<1>9. \A k \in 1 .. Len(ends) : m[Len(folds) + k] = V(k)
  BY <1>7, <1>8
<1>10. \A i \in 1 .. Len(folds) : m[i] = FoldMessage(l, folds[i])
  BY <1>6, <1>8
<1>11. DOMAIN m = 1 .. Len(m)
  BY <1>8
<1> USE DEF V
<1> QED BY <1>8, <1>9, <1>10, <1>11

\* Every place of the script lies in the message that ends at the next end.
LEMMA InAMessage ==
  ASSUME NEW l, LogFine(l), NEW run, NEW s, s = Script(l, run),
         NEW ends, ends = Ascending(Ends(l, s)), NEW i \in 1 .. Len(s)
  PROVE  \E k \in 1 .. Len(ends) :
           /\ i <= ends[k] /\ (k = 1 \/ ends[k - 1] < i)
           /\ \A j \in i .. ends[k] - 1 : j \notin Ends(l, s)
<1>1. Len(s) \in Nat /\ DOMAIN s = 1 .. Len(s)
  BY ScriptProperties
<1>2. /\ Len(ends) \in Nat /\ \A k \in 1 .. Len(ends) : ends[k] \in Ends(l, s)
      /\ \A e \in Ends(l, s) : \E k \in 1 .. Len(ends) : ends[k] = e
      /\ \A j, k \in 1 .. Len(ends) : j < k <=> ends[j] < ends[k]
  BY EndsInOrder
<1> DEFINE S == {e \in Ends(l, s) : e >= i}
<1>3. S \in SUBSET Nat /\ Len(s) \in S
  BY <1>1 DEF Ends
<1>4. Min(S) \in S /\ \A e \in S : Min(S) <= e
  <2> HIDE DEF S
  <2> QED BY <1>3, MinIsLeast
<1>5. PICK k \in 1 .. Len(ends) : ends[k] = Min(S)
  BY <1>2, <1>4
<1>6. ends[k] \in Nat /\ i <= ends[k]
  BY <1>3, <1>4, <1>5
<1>7. ASSUME k # 1 PROVE ends[k - 1] < i
  <2>1. k - 1 \in 1 .. Len(ends) /\ k - 1 < k
    BY <1>2, <1>7
  <2>2. PICK c \in 1 .. Len(ends) : c = k - 1
    BY <2>1
  <2>3. ends[c] \in Ends(l, s) /\ ends[c] < ends[k]
    BY <1>2, <2>1, <2>2
  <2>4. ends[c] \in Nat
    BY <1>1, <2>3 DEF Ends
  <2>5. ends[c] \notin S
    <3> HIDE DEF S
    <3> QED BY <1>4, <1>5, <1>6, <2>3, <2>4
  <2>6. ends[c] < i
    BY <2>3, <2>4, <2>5
  <2> QED BY <2>2, <2>6
<1>8. \A j \in i .. ends[k] - 1 : j \notin Ends(l, s)
  <2> SUFFICES ASSUME NEW j \in i .. ends[k] - 1, j \in Ends(l, s) PROVE FALSE
    OBVIOUS
  <2>1. j \in S /\ j < ends[k]
    BY <1>6
  <2> QED BY <1>4, <1>5, <1>6, <2>1
<1> QED BY <1>6, <1>7, <1>8

\* What a request is made of: the folds that stand, the oldest of which starts first,
\* and then messages that hold every event shown in the order of the places.
Shaped(l, run, m, h) ==
  /\ h \in Nat /\ Len(m) \in Nat /\ DOMAIN m = 1 .. Len(m) /\ h <= Len(m)
  /\ \A i \in 1 .. h : \E f \in Standing(l, run) : m[i] = FoldMessage(l, f)
  /\ \A f \in Standing(l, run) : \E i \in 1 .. h : m[i] = FoldMessage(l, f)
  /\ \A f \in Standing(l, run) : m[1].from <= l[f].from
  /\ \A i \in h + 1 .. Len(m) :
       /\ m[i].role = Role(l, m[i].last) /\ m[i].from = 0
       /\ m[i].last \in m[i].parts /\ m[i].parts \subseteq Shown(l, run)
  /\ \A i \in h + 1 .. Len(m) : \A p \in Shown(l, run) :
       (\E j \in h + 1 .. i : p \in m[j].parts) <=> Places(l, run)[p] <= Places(l, run)[m[i].last]
  /\ \A p \in Shown(l, run) : \E j \in h + 1 .. Len(m) : p \in m[j].parts

\* Every request has that shape (conversation.go, apply).
LEMMA ConversationShape ==
  ASSUME NEW l, LogFine(l), NEW run
  PROVE  Shaped(l, run, Conversation(l, run), Cardinality(Standing(l, run)))
<1> DEFINE m == Conversation(l, run)
           h == Cardinality(Standing(l, run))
           place == Places(l, run)
<1> DEFINE s == Script(l, run)
           folds == Ascending(Standing(l, run))
           ends == Ascending(Ends(l, s))
<1>0. /\ s = Script(l, run) /\ folds = Ascending(Standing(l, run)) /\ ends = Ascending(Ends(l, s))
      /\ m = Conversation(l, run) /\ h = Cardinality(Standing(l, run)) /\ place = Places(l, run)
  OBVIOUS
<1> HIDE DEF s, folds, ends, m, h, place
<1>1. /\ Len(folds) \in Nat /\ Len(folds) = h /\ Len(ends) \in Nat
      /\ Len(m) = Len(folds) + Len(ends) /\ DOMAIN m = 1 .. Len(m)
      /\ \A i \in 1 .. Len(folds) : m[i] = FoldMessage(l, folds[i])
      /\ \A i \in 1 .. Len(folds) : folds[i] \in Standing(l, run)
      /\ \A f \in Standing(l, run) : \E i \in 1 .. Len(folds) : folds[i] = f
      /\ \A i, j \in 1 .. Len(folds) : i < j <=> folds[i] < folds[j]
  <2>1. /\ Len(folds) \in Nat /\ Len(folds) = h
        /\ \A i \in 1 .. Len(folds) : folds[i] \in Standing(l, run)
        /\ \A f \in Standing(l, run) : \E i \in 1 .. Len(folds) : folds[i] = f
        /\ \A i, j \in 1 .. Len(folds) : i < j <=> folds[i] < folds[j]
    BY <1>0, FoldsInOrder
  <2>2. Len(ends) \in Nat
    BY <1>0, EndsInOrder
  <2>3. /\ Len(m) = Len(folds) + Len(ends) /\ DOMAIN m = 1 .. Len(m)
        /\ \A i \in 1 .. Len(folds) : m[i] = FoldMessage(l, folds[i])
    BY <1>0, MessagesAre
  <2> QED BY <2>1, <2>2, <2>3
<1>2. /\ \A k \in 1 .. Len(ends) : ends[k] \in Ends(l, s) /\ ends[k] \in 1 .. Len(s)
      /\ \A e \in Ends(l, s) : \E k \in 1 .. Len(ends) : ends[k] = e
      /\ \A j, k \in 1 .. Len(ends) : j < k <=> ends[j] < ends[k]
  BY <1>0, EndsInOrder
<1>3. \A k \in 1 .. Len(ends) : m[h + k] = Piece(l, s, ends, k)
  <2>1. \A k \in 1 .. Len(ends) : m[Len(folds) + k] = Piece(l, s, ends, k)
    BY <1>0, MessagesAre
  <2> QED BY <1>1, <2>1
<1>4. /\ Len(s) \in Nat /\ DOMAIN s = 1 .. Len(s)
      /\ \A i \in 1 .. Len(s) : s[i] \in Shown(l, run)
      /\ \A p \in Shown(l, run) : place[p] \in Int /\ \E i \in 1 .. Len(s) : s[i] = p
      /\ \A i, j \in 1 .. Len(s) : i < j <=> place[s[i]] < place[s[j]]
  <2>2. /\ Len(s) \in Nat /\ DOMAIN s = 1 .. Len(s) /\ s \in Seq(Shown(l, run))
        /\ \A i \in 1 .. Len(s) : s[i] \in Shown(l, run)
        /\ \A p \in Shown(l, run) : place[p] \in Int /\ \E i \in 1 .. Len(s) : s[i] = p
        /\ \A i, j \in 1 .. Len(s) : i < j <=> place[s[i]] < place[s[j]]
    BY <1>0, ScriptProperties
  <2> QED BY <2>2
<1>5. \A i \in 1 .. Len(s) : \E k \in 1 .. Len(ends) : i <= ends[k] /\ (k = 1 \/ ends[k - 1] < i)
  BY <1>0, InAMessage
<1>6. \A k \in 1 .. Len(ends) : ends[k] \in 1 .. Len(s)
  BY <1>2
<1>7. \A k \in 1 .. Len(ends) : First(ends, k) \in Nat /\ 1 <= First(ends, k) /\ First(ends, k) <= ends[k]
  <2> SUFFICES ASSUME NEW k \in 1 .. Len(ends)
               PROVE  First(ends, k) \in Nat /\ 1 <= First(ends, k) /\ First(ends, k) <= ends[k]
    OBVIOUS
  <2>1. CASE k = 1
    BY <1>6, <2>1 DEF First
  <2>2. CASE k # 1
    <3>1. PICK c \in 1 .. Len(ends) : c = k - 1
      BY <1>1, <2>2
    <3>2. ends[c] < ends[k]
      BY <1>2, <3>1
    <3>3. First(ends, k) = ends[c] + 1
      BY <2>2, <3>1 DEF First
    <3>4. ends[c] \in Nat /\ ends[k] \in Nat
      BY <1>4, <1>6
    <3> QED BY <3>2, <3>3, <3>4
  <2> QED BY <2>1, <2>2
<1>8. \A i \in 1 .. Len(s) : \E k \in 1 .. Len(ends) : i \in First(ends, k) .. ends[k]
  <2> SUFFICES ASSUME NEW i \in 1 .. Len(s)
               PROVE  \E k \in 1 .. Len(ends) : i \in First(ends, k) .. ends[k]
    OBVIOUS
  <2>1. PICK k \in 1 .. Len(ends) : i <= ends[k] /\ (k = 1 \/ ends[k - 1] < i)
    BY <1>5
  <2>2. CASE k = 1
    BY <1>6, <2>1, <2>2 DEF First
  <2>3. CASE k # 1
    <3>1. PICK c \in 1 .. Len(ends) : c = k - 1
      BY <1>1, <2>3
    <3>2. First(ends, k) = ends[c] + 1 /\ ends[c] < i
      BY <2>1, <2>3, <3>1 DEF First
    <3>3. ends[c] \in Nat /\ ends[k] \in Nat
      BY <1>4, <1>6
    <3> QED BY <2>1, <3>2, <3>3
  <2> QED BY <2>2, <2>3
<1>9. \A i \in 1 .. h : \E f \in Standing(l, run) : m[i] = FoldMessage(l, f)
  BY <1>1
<1>10. \A f \in Standing(l, run) : \E i \in 1 .. h : m[i] = FoldMessage(l, f)
  BY <1>1
<1>11. ASSUME NEW f \in Standing(l, run) PROVE m[1].from <= l[f].from
  <2>1. PICK i \in 1 .. Len(folds) : folds[i] = f
    BY <1>1
  <2>2. 1 \in 1 .. Len(folds) /\ m[1].from = l[folds[1]].from /\ folds[1] \in Standing(l, run)
    <3>1. 1 \in 1 .. Len(folds)
      BY <1>1, <2>1
    <3>2. m[1] = FoldMessage(l, folds[1]) /\ folds[1] \in Standing(l, run)
      BY <1>1, <3>1
    <3>3. m[1].from = l[folds[1]].from
      BY <3>2 DEF FoldMessage
    <3> QED BY <3>1, <3>2, <3>3
  <2>3. \A g \in Standing(l, run) : l[g].from \in Nat
    BY ReachIsOfTheLastFold DEF LogFine
  <2>4. CASE i = 1
    BY <2>1, <2>2, <2>3, <2>4
  <2>5. CASE i # 1
    <3>1. folds[1] < f
      BY <1>1, <2>1, <2>2, <2>5
    <3>2. l[folds[1]].from < l[f].from
      BY <2>2, <3>1, ReachIsOfTheLastFold, Positions DEF Standing
    <3> QED BY <2>2, <2>3, <3>2
  <2> QED BY <2>4, <2>5
<1>12. \A i \in h + 1 .. Len(m) : i - h \in 1 .. Len(ends) /\ i = h + (i - h)
  BY <1>1
<1>13. \A k \in 1 .. Len(ends) :
         /\ m[h + k].role = Role(l, m[h + k].last) /\ m[h + k].from = 0
         /\ m[h + k].last = s[ends[k]]
         /\ m[h + k].parts = {s[i] : i \in First(ends, k) .. ends[k]}
  <2> SUFFICES ASSUME NEW k \in 1 .. Len(ends)
               PROVE  /\ m[h + k].role = Role(l, m[h + k].last) /\ m[h + k].from = 0
                      /\ m[h + k].last = s[ends[k]]
                      /\ m[h + k].parts = {s[i] : i \in First(ends, k) .. ends[k]}
    OBVIOUS
  <2> DEFINE parts == {s[i] : i \in First(ends, k) .. ends[k]}
  <2>1. m[h + k] = [role |-> Role(l, s[ends[k]]), from |-> 0, last |-> s[ends[k]], parts |-> parts]
    BY <1>3 DEF Piece
  <2> HIDE DEF parts
  <2>2. /\ m[h + k].role = Role(l, m[h + k].last) /\ m[h + k].from = 0
        /\ m[h + k].last = s[ends[k]] /\ m[h + k].parts = parts
    BY <2>1
  <2> QED BY <2>2 DEF parts
<1>14. \A k \in 1 .. Len(ends) :
         m[h + k].last \in m[h + k].parts /\ m[h + k].parts \subseteq Shown(l, run)
  <2> SUFFICES ASSUME NEW k \in 1 .. Len(ends)
               PROVE  m[h + k].last \in m[h + k].parts /\ m[h + k].parts \subseteq Shown(l, run)
    OBVIOUS
  <2>1. First(ends, k) .. ends[k] \subseteq 1 .. Len(s) /\ ends[k] \in First(ends, k) .. ends[k]
    BY <1>4, <1>6, <1>7
  <2>2. m[h + k].last = s[ends[k]] /\ m[h + k].parts = {s[i] : i \in First(ends, k) .. ends[k]}
    BY <1>13
  <2>3. m[h + k].parts \subseteq Shown(l, run)
    BY <1>4, <2>1, <2>2
  <2> QED BY <2>1, <2>2, <2>3
<1>15. \A p \in Shown(l, run) : \E k \in 1 .. Len(ends) : p \in m[h + k].parts
  <2> QED BY <1>4, <1>8, <1>13
<1>16. ASSUME NEW k \in 1 .. Len(ends), NEW p \in Shown(l, run)
       PROVE  (\E j \in 1 .. k : p \in m[h + j].parts) <=> place[p] <= place[m[h + k].last]
  <2>1. PICK i \in 1 .. Len(s) : s[i] = p
    BY <1>4
  <2>2. m[h + k].last = s[ends[k]] /\ ends[k] \in 1 .. Len(s)
    BY <1>6, <1>13
  <2>3. place[p] <= place[m[h + k].last] <=> i <= ends[k]
    <3>1. place[s[i]] \in Int /\ place[s[ends[k]]] \in Int
      BY <1>4, <2>1, <2>2
    <3>2. ends[k] < i <=> place[s[ends[k]]] < place[s[i]]
      BY <1>4, <2>1, <2>2
    <3> QED BY <1>4, <2>1, <2>2, <3>1, <3>2
  <2>4. ASSUME NEW j \in 1 .. k, p \in m[h + j].parts PROVE i <= ends[k]
    <3>1. j \in 1 .. Len(ends)
      BY <1>1
    <3>2. PICK x \in First(ends, j) .. ends[j] : p = s[x]
      <4> QED BY <1>13, <2>4, <3>1
    <3>3. x \in 1 .. Len(s) /\ x <= ends[j]
      BY <1>4, <1>6, <1>7, <3>1
    <3>4. x = i
      <4>1. place[s[x]] = place[s[i]] /\ place[s[i]] \in Int
        BY <1>4, <2>1, <3>2
      <4>2. ~ (x < i) /\ ~ (i < x)
        BY <1>4, <3>3, <4>1
      <4> QED BY <1>4, <3>3, <4>2
    <3>5. ends[j] <= ends[k]
      <4>1. j = k \/ j < k
        BY <1>1
      <4> QED BY <1>2, <1>6, <3>1, <4>1
    <3> QED BY <1>4, <1>6, <3>1, <3>3, <3>4, <3>5
  <2>5. ASSUME i <= ends[k] PROVE \E j \in 1 .. k : p \in m[h + j].parts
    <3>1. PICK j \in 1 .. Len(ends) : i \in First(ends, j) .. ends[j]
      BY <1>8
    <3>2. p \in m[h + j].parts
      <4> QED BY <1>13, <2>1, <3>1
    <3>3. j <= k
      <4> SUFFICES ASSUME k < j PROVE FALSE
        BY <1>1
      <4>1. j # 1
        BY <1>1
      <4>2. PICK c \in 1 .. Len(ends) : c = j - 1 /\ k <= c
        BY <1>1, <4>1
      <4>3. ends[k] <= ends[c] /\ ends[c] \in Nat /\ ends[k] \in Nat
        <5>1. k = c \/ k < c
          BY <4>2
        <5> QED BY <1>2, <1>4, <1>6, <4>2, <5>1
      <4>4. First(ends, j) = ends[c] + 1
        BY <4>1, <4>2 DEF First
      <4>5. First(ends, j) <= i
        BY <1>4, <1>6, <1>7, <3>1
      <4> QED BY <1>4, <2>5, <4>3, <4>4, <4>5
    <3> QED BY <1>1, <3>2, <3>3
  <2> QED BY <2>3, <2>4, <2>5
<1>17. ASSUME NEW i \in h + 1 .. Len(m), NEW p \in Shown(l, run)
       PROVE  (\E j \in h + 1 .. i : p \in m[j].parts) <=> place[p] <= place[m[i].last]
  <2>1. i - h \in 1 .. Len(ends) /\ i = h + (i - h)
    BY <1>12
  <2>2. (\E j \in 1 .. i - h : p \in m[h + j].parts) <=> place[p] <= place[m[i].last]
    BY <1>16, <2>1
  <2>3. (\E j \in 1 .. i - h : p \in m[h + j].parts) <=> (\E j \in h + 1 .. i : p \in m[j].parts)
    <3>1. ASSUME NEW j \in 1 .. i - h PROVE h + j \in h + 1 .. i
      BY <1>1, <2>1
    <3>2. ASSUME NEW j \in h + 1 .. i PROVE j - h \in 1 .. i - h /\ h + (j - h) = j
      BY <1>1, <2>1
    <3> QED BY <3>1, <3>2
  <2> QED BY <2>2, <2>3
<1>18. \A i \in h + 1 .. Len(m) :
         /\ m[i].role = Role(l, m[i].last) /\ m[i].from = 0
         /\ m[i].last \in m[i].parts /\ m[i].parts \subseteq Shown(l, run)
  BY <1>12, <1>13, <1>14
<1>19. ASSUME NEW p \in Shown(l, run) PROVE \E j \in h + 1 .. Len(m) : p \in m[j].parts
  <2>1. PICK k \in 1 .. Len(ends) : p \in m[h + k].parts
    BY <1>15
  <2>2. h + k \in h + 1 .. Len(m)
    BY <1>1
  <2> QED BY <2>1, <2>2
<1> QED BY <1>1, <1>9, <1>10, <1>11, <1>17, <1>18, <1>19 DEF Shaped, m, h, place

\* The folds in front of a request are those that stand (compaction.go, foldHead).
LEMMA FoldHeadIs ==
  ASSUME NEW l, LogFine(l), NEW run, NEW m, m = Conversation(l, run)
  PROVE  FoldHead(m) = Cardinality(Standing(l, run))
<1> DEFINE h == Cardinality(Standing(l, run))
           place == Places(l, run)
<1>1. /\ h \in Nat /\ Len(m) \in Nat /\ DOMAIN m = 1 .. Len(m) /\ h <= Len(m)
      /\ \A i \in 1 .. h : \E f \in Standing(l, run) : m[i] = FoldMessage(l, f)
      /\ \A i \in h + 1 .. Len(m) : m[i].role = Role(l, m[i].last)
  BY ConversationShape DEF Shaped
<1> HIDE DEF h
<1>2. ASSUME NEW i \in 1 .. h PROVE m[i].role = "fold"
  <2>1. PICK f \in Standing(l, run) : m[i] = FoldMessage(l, f)
    BY <1>1
  <2> QED BY <2>1 DEF FoldMessage
<1>3. \A i \in h + 1 .. Len(m) : m[i].role # "fold"
  BY <1>1 DEF Role
<1>4. {i \in DOMAIN m : m[i].role = "fold"} = 1 .. h
  BY <1>1, <1>2, <1>3
<1>5. Cardinality(1 .. h) = h
  BY <1>1, FS_Interval
<1> QED BY <1>4, <1>5 DEF FoldHead, h

\* What a request tells the model: what the folds that stand say, and every event shown.
LEMMA ToldIs ==
  ASSUME NEW l, LogFine(l), NEW run
  PROVE  /\ \A f \in Standing(l, run) : l[f].tells \subseteq Told(Conversation(l, run))
         /\ Shown(l, run) \subseteq Told(Conversation(l, run))
<1> DEFINE m == Conversation(l, run)
           h == Cardinality(Standing(l, run))
<1>1. /\ h \in Nat /\ Len(m) \in Nat /\ DOMAIN m = 1 .. Len(m) /\ h <= Len(m)
      /\ \A f \in Standing(l, run) : \E i \in 1 .. h : m[i] = FoldMessage(l, f)
      /\ \A p \in Shown(l, run) : \E j \in h + 1 .. Len(m) : p \in m[j].parts
  BY ConversationShape DEF Shaped
<1> HIDE DEF m, h
<1>2. ASSUME NEW f \in Standing(l, run) PROVE l[f].tells \subseteq Told(m)
  <2>1. PICK i \in 1 .. h : m[i] = FoldMessage(l, f)
    BY <1>1
  <2>2. m[i].parts = l[f].tells /\ i \in DOMAIN m
    BY <1>1, <2>1 DEF FoldMessage
  <2> QED BY <2>2 DEF Told
<1>3. ASSUME NEW p \in Shown(l, run) PROVE p \in Told(m)
  <2>1. PICK j \in h + 1 .. Len(m) : p \in m[j].parts
    BY <1>1
  <2>2. j \in DOMAIN m
    BY <1>1
  <2> QED BY <2>1, <2>2 DEF Told
<1> QED BY <1>2, <1>3 DEF m

\* A cut leaves something behind it, and what it leaves does not begin with a result
\* (compaction.go, chooseCut).
LEMMA CutsAre ==
  ASSUME NEW m, Len(m) \in Nat, NEW c \in Cuts(m)
  PROVE  c \in 0 .. Len(m) - 1 /\ (c = 0 \/ ~ IsTool(m, c + 1))
<1> DEFINE n == Len(m)
           B == {d \in 0 .. n - 1 : d = 0 \/ ~IsTool(m, d + 1)}
           F(b) == {d \in b .. n : d = n \/ ~IsTool(m, d + 1)}
<1>1. PICK b \in 1 .. n : c = IF Forward(m, b) < n THEN Forward(m, b) ELSE Max(B)
  BY DEF Cuts
<1>2. Forward(m, b) \in F(b)
  <2>1. F(b) \in SUBSET Nat /\ n \in F(b)
    BY <1>1
  <2> HIDE DEF F, n
  <2>2. Min(F(b)) \in F(b)
    BY <2>1, MinIsLeast
  <2> QED BY <2>2 DEF F, Forward, n
<1>3. Max(B) \in B
  <2>1. B \in SUBSET (0 .. n) /\ 0 \in B
    BY <1>1
  <2> HIDE DEF B
  <2> QED BY <2>1, MaxIsMost
<1>4. CASE Forward(m, b) < n
  BY <1>1, <1>2, <1>4
<1>5. CASE ~ (Forward(m, b) < n)
  BY <1>1, <1>3, <1>5
<1> QED BY <1>4, <1>5

\* What a compaction hands to its fold: the range, and what the summary tells.
FoldPlans == [from : Nat, through : Nat, tells : SUBSET Nat]

\* What one compaction may do: its fold reaches beyond those that stand and covers the
\* log from where they end, or from where the first of them starts once they are
\* condensed; it tells all it was written from; and what is left of the request does
\* not begin with a result (compaction.go, planCompaction).
LEMMA PlanShape ==
  ASSUME NEW l, LogFine(l), NEW run, NEW chosen \in Plans(l, run),
         NEW standing, standing = Standing(l, run), NEW place, place = Places(l, run),
         NEW m, m = Conversation(l, run), NEW h, h = Cardinality(standing)
  PROVE  /\ chosen.through \in Shown(l, run) /\ chosen.through > Reach(l, run)
         /\ chosen.from \in 1 .. chosen.through
         /\ h < MaxFoldsInHead => chosen.from = Reach(l, run) + 1
         /\ h >= MaxFoldsInHead =>
              \A f \in standing : chosen.from <= l[f].from /\ l[f].tells \subseteq chosen.tells
         /\ \A p \in Shown(l, run) : place[p] <= place[chosen.through] => p \in chosen.tells
         /\ chosen \in FoldPlans
         /\ \E c \in h + 1 .. Len(m) - 1 : chosen.through = m[c].last /\ m[c + 1].role # "tool"
<1>1. PICK c \in Cuts(m) : /\ WorthFolding(l, run, m, c)
                           /\ chosen = [from    |-> From(l, run, m),
                                        through |-> m[c].last,
                                        tells   |-> UNION {m[i].parts : i \in FirstTold(m) .. c}]
  BY DEF Plans, PlansFor
<1>2. /\ h \in Nat /\ Len(m) \in Nat /\ DOMAIN m = 1 .. Len(m) /\ h <= Len(m)
      /\ \A i \in 1 .. h : \E f \in standing : m[i] = FoldMessage(l, f)
      /\ \A f \in standing : \E i \in 1 .. h : m[i] = FoldMessage(l, f)
      /\ \A f \in standing : m[1].from <= l[f].from
      /\ \A i \in h + 1 .. Len(m) :
           m[i].last \in m[i].parts /\ m[i].parts \subseteq Shown(l, run)
      /\ \A i \in h + 1 .. Len(m) : \A p \in Shown(l, run) :
           (\E j \in h + 1 .. i : p \in m[j].parts) <=> place[p] <= place[m[i].last]
  <2>1. Shaped(l, run, m, h)
    BY ConversationShape
  <2> QED BY <2>1 DEF Shaped
<1>3. FoldHead(m) = h
  BY FoldHeadIs
<1>4. c \in h + 1 .. Len(m) - 1 /\ ~ IsTool(m, c + 1) /\ c \in Nat
  <2>1. c \in 0 .. Len(m) - 1 /\ (c = 0 \/ ~ IsTool(m, c + 1)) /\ c > h
    BY <1>1, <1>2, <1>3, CutsAre DEF WorthFolding
  <2> QED BY <1>2, <2>1
<1>5. /\ chosen.through = m[c].last /\ chosen.from = From(l, run, m)
      /\ chosen.tells = UNION {m[i].parts : i \in FirstTold(m) .. c}
  BY <1>1
<1>6. chosen.through \in Shown(l, run) /\ chosen.through > Reach(l, run)
  BY <1>1, <1>2, <1>4, <1>5 DEF WorthFolding
<1>7. /\ standing \in SUBSET DOMAIN l /\ standing \in SUBSET FoldsOf(l)
      /\ Reach(l, run) \in Nat /\ chosen.through \in Nat
      /\ standing # {} => \E f \in standing : Reach(l, run) = l[f].through
  <2> DEFINE folds == VisibleTo(l, run) \cap FoldsOf(l)
  <2>1. /\ standing \in SUBSET folds /\ folds \in SUBSET DOMAIN l
        /\ folds # {} => Max(folds) \in standing /\ Reach(l, run) = l[Max(folds)].through
        /\ Reach(l, run) \in Nat
    BY ReachIsOfTheLastFold
  <2>2. chosen.through \in Nat
    BY <1>6, ReplayedIsKept, Positions
  <2>3. folds \in SUBSET FoldsOf(l)
    OBVIOUS
  <2> HIDE DEF folds
  <2> QED BY <2>1, <2>2, <2>3
<1>8. MaxFoldsInHead \in Nat \ {0}
  BY ReplayAssumption DEF ReplayAssumption
<1>9. ASSUME h < MaxFoldsInHead PROVE From(l, run, m) = Reach(l, run) + 1
  BY <1>2, <1>3, <1>8, <1>9 DEF From, Condenses
<1>10. ASSUME h >= MaxFoldsInHead
       PROVE  From(l, run, m) = m[1].from /\ FirstTold(m) = 1 /\ h >= 1
  BY <1>2, <1>3, <1>8, <1>10 DEF From, Condenses, FirstTold
<1>11. FirstTold(m) \in 1 .. h + 1
  BY <1>2, <1>3, <1>8 DEF Condenses, FirstTold
<1>12. chosen.from \in 1 .. chosen.through
  <2>1. CASE h < MaxFoldsInHead
    BY <1>5, <1>6, <1>7, <1>9, <2>1
  <2>2. CASE ~ (h < MaxFoldsInHead)
    <3>1. h >= MaxFoldsInHead
      BY <1>2, <1>8, <2>2
    <3>2. PICK g \in standing : m[1] = FoldMessage(l, g)
      BY <1>2, <1>10, <3>1
    <3>3. chosen.from = l[g].from
      BY <1>5, <1>10, <3>1, <3>2 DEF FoldMessage
    <3>4. PICK f \in standing : Reach(l, run) = l[f].through
      BY <1>7, <3>2
    <3>5. l[g].from <= l[f].from
      BY <1>2, <1>5, <1>10, <3>1, <3>3
    <3>6. l[g].from \in Nat /\ l[g].from >= 1 /\ l[f].from \in 1 .. l[f].through
      BY <1>7, <3>2, <3>4 DEF LogFine
    <3> QED BY <1>6, <1>7, <3>3, <3>4, <3>5, <3>6
  <2> QED BY <2>1, <2>2
<1>13. ASSUME h >= MaxFoldsInHead, NEW f \in standing
       PROVE  chosen.from <= l[f].from /\ l[f].tells \subseteq chosen.tells
  <2>1. chosen.from <= l[f].from
    BY <1>2, <1>5, <1>10, <1>13
  <2>2. PICK i \in 1 .. h : m[i] = FoldMessage(l, f)
    BY <1>2
  <2>3. m[i].parts = l[f].tells /\ i \in FirstTold(m) .. c
    BY <1>2, <1>4, <1>10, <1>13, <2>2 DEF FoldMessage
  <2> QED BY <1>5, <2>1, <2>3
<1>14. ASSUME NEW p \in Shown(l, run), place[p] <= place[chosen.through]
       PROVE  p \in chosen.tells
  <2>1. PICK j \in h + 1 .. c : p \in m[j].parts
    <3>1. c \in h + 1 .. Len(m)
      BY <1>2, <1>4
    <3> QED BY <1>2, <1>5, <1>14, <3>1
  <2>2. j \in FirstTold(m) .. c
    BY <1>2, <1>4, <1>11
  <2> QED BY <1>5, <2>1, <2>2
<1>15. m[c + 1].role # "tool"
  BY <1>4 DEF IsTool
<1>16. chosen \in FoldPlans
  <2>1. ASSUME NEW i \in FirstTold(m) .. c PROVE m[i].parts \subseteq Nat
    <3>1. i \in 1 .. h \/ i \in h + 1 .. Len(m)
      BY <1>2, <1>4, <1>11
    <3>2. ASSUME i \in 1 .. h PROVE m[i].parts \subseteq Nat
      <4>1. PICK f \in standing : m[i] = FoldMessage(l, f)
        BY <1>2, <3>2
      <4>2. m[i].parts = l[f].tells /\ f \in DOMAIN l
        BY <1>7, <4>1 DEF FoldMessage
      <4> QED BY <4>2 DEF LogFine
    <3>3. ASSUME i \in h + 1 .. Len(m) PROVE m[i].parts \subseteq Nat
      <4>1. m[i].parts \subseteq Shown(l, run)
        BY <1>2, <3>3
      <4> QED BY <4>1, ReplayedIsKept, Positions
    <3> QED BY <3>1, <3>2, <3>3
  <2>2. chosen.tells \subseteq Nat
    BY <1>5, <2>1
  <2>3. chosen.from \in Nat
    BY <1>7, <1>12
  <2> DEFINE told == UNION {m[i].parts : i \in FirstTold(m) .. c}
  <2>4. chosen = [from |-> From(l, run, m), through |-> m[c].last, tells |-> told]
    BY <1>1
  <2> HIDE DEF told
  <2>5. chosen = [from |-> chosen.from, through |-> chosen.through, tells |-> chosen.tells]
    BY <2>4
  <2> QED BY <1>7, <2>2, <2>3, <2>5 DEF FoldPlans
<1> QED BY <1>4, <1>5, <1>6, <1>9, <1>12, <1>13, <1>14, <1>15, <1>16

\* What every event of a session is.
Events ==
  [kind : Kinds, run : Runs, call : Nat, from : Nat, through : Nat, tells : SUBSET Nat]

\* The types of the state, with the bound on the history.
Typed ==
  /\ history \in Seq(Events) /\ Len(history) <= MaxEvents
  /\ line \in Seq(Mains)
  /\ at \in [Runs -> Idle \cup Working]
  /\ plan \in [Runs -> FoldPlans]
  /\ cut \in [Runs -> Nat] /\ doing \in [Runs -> Nat]
  /\ child \in [Runs -> Workers \cup {NoRun}]
  /\ decided \subseteq DOMAIN history
  /\ fresh \in [Runs -> BOOLEAN] /\ spent \in [Runs -> Nat]

\* The log is what is left of the history, its last event included.
LogStands ==
  /\ DOMAIN log \subseteq DOMAIN history
  /\ \A p \in DOMAIN log : log[p] = history[p]
  /\ Len(history) > 0 => Len(history) \in DOMAIN log

\* An event points back only.
PointsBack(event, p) ==
  /\ event.call < p /\ event.through < p
  /\ event.kind = "fold" => event.from \in 1 .. event.through

\* So does every event of the history.
EventsStand == \A p \in DOMAIN history : PointsBack(history[p], p)

\* A run that was not sent is not in the history, and its question comes first.
Spoken ==
  /\ \A p \in DOMAIN history : at[history[p].run] # "unsent"
  /\ \A p, q \in DOMAIN history :
       (history[p].kind = "user" /\ history[q].run = history[p].run) => p <= q

\* A fold about to be recorded covers a range of the history.
PlansFit ==
  \A r \in Runs : at[r] = "folding" =>
    plan[r].from \in 1 .. plan[r].through /\ plan[r].through <= Len(history)

\* A parked run, and one that waits for its worker, has the call it does that for.
Owed == \A r \in Runs : at[r] \in {"parked", "delegating"} => doing[r] \in DOMAIN history

\* A run about to discard has a fold for it, and what is gone still has its fold.
Covered ==
  /\ \A r \in Runs : cut[r] > 0 =>
       \E f \in FoldsOf(log) : cut[r] < f /\ cut[r] <= log[f].through
  /\ \A p \in DOMAIN history : p \notin DOMAIN log =>
       \E f \in FoldsOf(log) : p <= log[f].through

\* What is true of every conversation, whatever its runs do, and all the rest builds on.
Base == Typed /\ LogStands /\ EventsStand /\ Spoken /\ PlansFit /\ Owed /\ Covered
------------------------------------------------------------------------------
\* What is in the history are events.
LEMMA EventParts ==
  ASSUME Typed
  PROVE  /\ history \in Seq(Events) /\ Len(history) \in Nat
         /\ DOMAIN history = 1 .. Len(history)
         /\ \A p \in DOMAIN history :
              /\ history[p] \in Events
              /\ history[p].kind \in Kinds /\ history[p].run \in Runs
              /\ history[p].call \in Nat /\ history[p].from \in Nat
              /\ history[p].through \in Nat /\ history[p].tells \in SUBSET Nat
<1>1. /\ history \in Seq(Events) /\ Len(history) \in Nat /\ DOMAIN history = 1 .. Len(history)
      /\ \A p \in DOMAIN history : history[p] \in Events
  BY DEF Typed
<1> QED BY <1>1 DEF Events

\* The lemmas on reading a log apply to every log a session comes to.
LEMMA BaseLogFine == Base => LogFine(log)
<1> SUFFICES ASSUME Base PROVE LogFine(log)
  OBVIOUS
<1>1. /\ history \in Seq(Events) /\ DOMAIN history = 1 .. Len(history) /\ Len(history) \in Nat
      /\ \A p \in DOMAIN history : history[p] \in Events
  BY DEF Base, Typed
<1>2. DOMAIN log \subseteq DOMAIN history /\ \A p \in DOMAIN log : log[p] = history[p]
  BY DEF Base, LogStands
<1>3. \A p \in DOMAIN log : log[p] \in Events
  BY <1>1, <1>2
<1>4. \A p \in DOMAIN log :
        log[p].from \in Nat /\ log[p].through \in Nat /\ log[p].tells \in SUBSET Nat
  BY <1>3 DEF Events
<1>5. \A p \in DOMAIN log : PointsBack(log[p], p)
  BY <1>2 DEF Base, EventsStand
<1>6. \A p, q \in DOMAIN log : (log[p].kind = "user" /\ log[q].run = log[p].run) => p <= q
  BY <1>2 DEF Base, Spoken
<1> QED BY <1>1, <1>2, <1>4, <1>5, <1>6 DEF LogFine, PointsBack, FoldsOf

\* The position the store computes is one beyond all it ever gave out (events.go,
\* Append).
LEMMA BaseNextSeq == Base => NextSeq(log) = Len(history) + 1
<1> SUFFICES ASSUME Base PROVE NextSeq(log) = Len(history) + 1
  OBVIOUS
<1> DEFINE kept == DOMAIN log \cup {0}
           n == Len(history)
<1>1. n \in Nat /\ DOMAIN history = 1 .. n
  BY DEF Base, Typed
<1>2. kept \in SUBSET (0 .. n) /\ kept # {} /\ n \in kept
  BY <1>1 DEF Base, LogStands
<1>3. Max(kept) \in kept /\ \A p \in kept : p <= Max(kept)
  <2> HIDE DEF kept, n
  <2> QED BY <1>1, <1>2, MaxIsMost
<1>4. Max(kept) \in 0 .. n /\ n <= Max(kept)
  <2> HIDE DEF kept, n
  <2> QED BY <1>2, <1>3
<1>5. Max(kept) = n
  <2> HIDE DEF kept, n
  <2> QED BY <1>1, <1>4
<1> QED BY <1>1, <1>5 DEF NextSeq

\* What appending an event comes to: it takes the next position, and everything else
\* stays where it is (events.go, Append).
Grown(n, event) ==
  /\ n = Len(history) + 1 /\ n \in Nat /\ n <= MaxEvents
  /\ history' \in Seq(Events) /\ Len(history') = n
  /\ DOMAIN history = 1 .. n - 1 /\ DOMAIN history' = 1 .. n
  /\ \A p \in 1 .. n - 1 : history'[p] = history[p]
  /\ history'[n] = event
  /\ DOMAIN log' = DOMAIN log \cup {n} /\ log'[n] = event
  /\ DOMAIN log \subseteq 1 .. n - 1
  /\ \A p \in DOMAIN log : log'[p] = log[p]

\* Recording an event makes the history and the log one event longer and changes nothing
\* else of them (events.go, Append).
LEMMA RecordGrows ==
  ASSUME Base, NEW event \in Events, Record(event)
  PROVE  Grown(Len(history) + 1, event)
<1> DEFINE n == Len(history) + 1
<1>1. history \in Seq(Events) /\ Len(history) \in Nat /\ DOMAIN history = 1 .. Len(history)
  BY DEF Base, Typed
<1>2. NextSeq(log) = n
  BY BaseNextSeq
<1>3. DOMAIN log \subseteq 1 .. Len(history)
  BY <1>1 DEF Base, LogStands
<1>4. log' = [p \in DOMAIN log \cup {n} |-> IF p \in DOMAIN log THEN log[p] ELSE event]
  BY <1>2 DEF Record, Appended
<1>5. n \notin DOMAIN log
  BY <1>1, <1>3
<1>6. /\ DOMAIN log' = DOMAIN log \cup {n} /\ log'[n] = event
      /\ \A p \in DOMAIN log : log'[p] = log[p]
  BY <1>4, <1>5
<1>7. history' = Append(history, event)
  BY DEF Record
<1>8. /\ history' \in Seq(Events) /\ Len(history') = n /\ DOMAIN history' = 1 .. n
      /\ \A p \in 1 .. Len(history) : history'[p] = history[p]
      /\ history'[n] = event
  BY <1>1, <1>7
<1>9. n <= MaxEvents
  BY <1>1, ConversationAssumption DEF Record, ConversationAssumption
<1>10. n \in Nat /\ n - 1 = Len(history)
  BY <1>1
<1> HIDE DEF n
<1>11. n = Len(history) + 1 /\ DOMAIN history = 1 .. n - 1 /\ DOMAIN log \subseteq 1 .. n - 1
       /\ \A p \in 1 .. n - 1 : history'[p] = history[p]
  BY <1>1, <1>3, <1>8, <1>10 DEF n
<1>12. Grown(n, event)
  BY <1>6, <1>8, <1>9, <1>10, <1>11 DEF Grown
<1> QED BY <1>12 DEF n

\* The events the runtime records are events.
LEMMA PlainIsEvent ==
  ASSUME NEW kind \in Kinds, NEW r \in Runs, NEW call \in Nat
  PROVE  /\ Plain(kind, r, call) \in Events
         /\ Plain(kind, r, call).kind = kind /\ Plain(kind, r, call).run = r
         /\ Plain(kind, r, call).call = call /\ Plain(kind, r, call).through = 0
BY DEF Plain, Events

\* What no step but those of a compaction changes of the runs: none is sent twice, none
\* begins to fold, and what is owed is known.
Steady ==
  \A r \in Runs :
    /\ at'[r] = "unsent" => at[r] = "unsent"
    /\ at'[r] = "folding" => at[r] = "folding" /\ plan'[r] = plan[r]
    /\ at'[r] \in {"parked", "delegating"} =>
         \/ at[r] \in {"parked", "delegating"} /\ doing'[r] = doing[r]
         \/ doing'[r] \in DOMAIN history
    /\ cut'[r] \in {cut[r], 0}

\* Appending an event keeps what the log and its history are to each other.
LEMMA GrownKeepsBase ==
  ASSUME Base, Typed', NEW event \in Events, NEW n, Grown(n, event), PointsBack(event, n), Steady,
         at'[event.run] # "unsent",
         event.kind = "user" => at[event.run] = "unsent"
  PROVE  Base'
<1>1. /\ n = Len(history) + 1 /\ n \in Nat /\ Len(history') = n
      /\ DOMAIN history = 1 .. n - 1 /\ DOMAIN history' = 1 .. n
      /\ \A p \in 1 .. n - 1 : history'[p] = history[p]
      /\ history'[n] = event
      /\ DOMAIN log' = DOMAIN log \cup {n} /\ log'[n] = event
      /\ DOMAIN log \subseteq 1 .. n - 1
      /\ \A p \in DOMAIN log : log'[p] = log[p]
  BY DEF Grown
<1>2. LogStands'
  BY <1>1 DEF Base, LogStands
<1>3. EventsStand'
  <2> SUFFICES ASSUME NEW p \in 1 .. n PROVE PointsBack(history'[p], p)
    BY <1>1 DEF EventsStand, PointsBack
  <2>1. p = n \/ p \in 1 .. n - 1
    BY <1>1
  <2> QED BY <1>1, <2>1 DEF Base, EventsStand
<1>4. Spoken'
  <2>0. \A p \in 1 .. n - 1 : history[p].run \in Runs
    BY <1>1, EventParts DEF Base
  <2>1. ASSUME NEW p \in 1 .. n PROVE at'[history'[p].run] # "unsent"
    <3>1. CASE p = n
      BY <1>1, <3>1
    <3>2. CASE p \in 1 .. n - 1
      BY <1>1, <2>0, <3>2 DEF Base, Spoken, Steady
    <3> QED BY <1>1, <3>1, <3>2
  <2>2. ASSUME NEW p \in 1 .. n, NEW q \in 1 .. n,
               history'[p].kind = "user", history'[q].run = history'[p].run
        PROVE  p <= q
    <3>1. CASE p \in 1 .. n - 1 /\ q \in 1 .. n - 1
      BY <1>1, <2>2, <3>1 DEF Base, Spoken
    <3>2. CASE q = n
      BY <1>1, <3>2
    <3>3. CASE p = n /\ q \in 1 .. n - 1
      BY <1>1, <2>2, <3>3 DEF Base, Spoken
    <3> QED BY <1>1, <3>1, <3>2, <3>3
  <2> QED BY <1>1, <2>1, <2>2 DEF Spoken
<1>5. PlansFit'
  BY <1>1 DEF Base, PlansFit, Steady, Typed, FoldPlans
<1>6. Owed'
  BY <1>1 DEF Base, Owed, Steady
<1>7. \A f \in FoldsOf(log) : f \in FoldsOf(log') /\ log'[f] = log[f]
  BY <1>1 DEF FoldsOf
<1>8. Covered'
  <2>1. ASSUME NEW r \in Runs, cut'[r] > 0
        PROVE  \E f \in FoldsOf(log') : cut'[r] < f /\ cut'[r] <= log'[f].through
    BY <1>7, <2>1 DEF Base, Covered, Steady
  <2>2. ASSUME NEW p \in 1 .. n, p \notin DOMAIN log'
        PROVE  \E f \in FoldsOf(log') : p <= log'[f].through
    BY <1>1, <1>7, <2>2 DEF Base, Covered
  <2> QED BY <1>1, <2>1, <2>2 DEF Covered, FoldsOf
<1> QED BY <1>2, <1>3, <1>4, <1>5, <1>6, <1>8 DEF Base

\* A step that leaves the log alone keeps it too.
LEMMA QuietKeepsBase ==
  ASSUME Base, Typed', UNCHANGED <<log, history>>, Steady
  PROVE  Base'
<1>1. LogStands' /\ EventsStand'
  BY DEF Base, LogStands, EventsStand, PointsBack
<1>2. Spoken'
  <2>1. \A p \in DOMAIN history : history[p].run \in Runs
    BY EventParts DEF Base
  <2> QED BY <2>1 DEF Base, Spoken, Steady
<1>3. PlansFit' /\ Owed'
  BY DEF Base, PlansFit, Owed, Steady
<1>4. Covered'
  BY DEF Base, Covered, Steady, FoldsOf
<1> QED BY <1>1, <1>2, <1>3, <1>4 DEF Base
------------------------------------------------------------------------------
\* A sequence without the element at one place.
LEMMA RemoveAtParts ==
  ASSUME NEW S, NEW q \in Seq(S), NEW k \in 1 .. Len(q)
  PROVE  /\ RemoveAt(q, k) \in Seq(S) /\ Len(RemoveAt(q, k)) = Len(q) - 1
         /\ \A i \in 1 .. Len(q) - 1 : RemoveAt(q, k)[i] = IF i < k THEN q[i] ELSE q[i + 1]
<1> DEFINE a == SubSeq(q, 1, k - 1)
           b == SubSeq(q, k + 1, Len(q))
<1>1. a \in Seq(S) /\ Len(a) = k - 1 /\ \A i \in 1 .. k - 1 : a[i] = q[i]
  OBVIOUS
<1>2. b \in Seq(S) /\ Len(b) = Len(q) - k /\ \A i \in 1 .. Len(q) - k : b[i] = q[k + i]
  OBVIOUS
<1>3. RemoveAt(q, k) = a \o b
  BY DEF RemoveAt
<1> HIDE DEF a, b
<1>4. a \o b \in Seq(S) /\ Len(a \o b) = Len(q) - 1
  <2>0. a \in Seq(S) /\ b \in Seq(S)
    BY <1>1, <1>2
  <2>1. a \o b \in Seq(S) /\ Len(a \o b) = Len(a) + Len(b)
    BY <2>0
  <2>2. Len(q) \in Nat /\ k \in Nat /\ Len(a) = k - 1 /\ Len(b) = Len(q) - k
    BY <1>1, <1>2
  <2> QED BY <2>1, <2>2
<1>5. \A i \in 1 .. Len(q) - 1 : (a \o b)[i] = IF i < k THEN q[i] ELSE q[i + 1]
  BY <1>1, <1>2
<1> QED BY <1>3, <1>4, <1>5

\* The queue loses the one run taken out of it and no other (runtime.go, dequeue).
LEMMA TakenOutType ==
  ASSUME Typed, NEW r
  PROVE  TakenOut(r) \in Seq(Mains)
<1>1. line \in Seq(Mains) /\ DOMAIN line = 1 .. Len(line) /\ Len(line) \in Nat
  BY DEF Typed
<1>2. CASE \E i \in DOMAIN line : line[i] = r
  <2> DEFINE k == CHOOSE j \in DOMAIN line : line[j] = r
  <2>1. k \in 1 .. Len(line)
    BY <1>1, <1>2
  <2>2. TakenOut(r) = RemoveAt(line, k)
    BY <1>2 DEF TakenOut
  <2> HIDE DEF k
  <2> QED BY <1>1, <2>1, <2>2, RemoveAtParts
<1>3. CASE ~ \E i \in DOMAIN line : line[i] = r
  BY <1>1, <1>3 DEF TakenOut
<1> QED BY <1>2, <1>3

\* A plan that was dropped is a plan.
LEMMA NoPlanIsPlan == NoPlan \in FoldPlans
BY DEF NoPlan, FoldPlans

\* A conversation in which nothing was said yet has the base.
LEMMA InitBase == Init => Base
<1> SUFFICES ASSUME Init PROVE Base
  OBVIOUS
<1>1. Typed
  BY NoPlanIsPlan, ConversationAssumption DEF Init, Typed, Idle, ConversationAssumption
<1>2. DOMAIN log = {} /\ DOMAIN history = {} /\ Len(history) = 0
  BY DEF Init, EmptyLog
<1> QED BY <1>1, <1>2 DEF Init, Base, LogStands, EventsStand, Spoken, PlansFit, Owed, Covered, FoldsOf

\* The call a run owes next is in its log.
LEMMA PendingIsKept ==
  ASSUME Base, NEW r \in Runs, NEW p, Pending(r, p)
  PROVE  /\ p \in DOMAIN log /\ p \in DOMAIN history /\ p \in Nat
         /\ p < Len(history) + 1 /\ at[r] = "top"
BY EventParts DEF Base, LogStands, Pending, Outstanding

\* A message sent keeps the base (runtime.go, SendTurnTo).
LEMMA SendKeepsBase ==
  ASSUME Base, NEW r \in Runs, Send(r)
  PROVE  Base'
<1> DEFINE event == Plain("user", r, 0)
           n == Len(history) + 1
<1>1. event \in Events /\ event.kind = "user" /\ event.run = r
      /\ event.call = 0 /\ event.through = 0
  BY PlainIsEvent DEF Kinds
<1> HIDE DEF event
<1>2. Grown(n, event)
  BY <1>1, RecordGrows DEF Send, event
<1>3. PointsBack(event, n)
  BY <1>1, <1>2 DEF Grown, PointsBack
<1>4. /\ at[r] = "unsent" /\ r \in Mains
      /\ \E there \in {"waiting", "top"} : at' = [at EXCEPT ![r] = there]
      /\ line' \in {line, Append(line, r)}
      /\ UNCHANGED <<plan, cut, doing, child, decided, fresh, spent>>
  BY DEF Send, Goto
<1>5. at \in [Runs -> Idle \cup Working] /\ at' \in [Runs -> Idle \cup Working]
  BY <1>4 DEF Base, Typed, Idle, Working
<1>6. Typed'
  <2>1. line \in Seq(Mains)
    BY DEF Base, Typed
  <2>2. line' \in Seq(Mains)
    BY <1>4, <2>1
  <2>3. history' \in Seq(Events) /\ Len(history') <= MaxEvents
        /\ DOMAIN history \subseteq DOMAIN history'
    BY <1>2 DEF Grown
  <2> QED BY <1>4, <1>5, <2>2, <2>3 DEF Base, Typed
<1>7. Steady
  BY <1>4, <1>5 DEF Steady
<1>8. at'[r] # "unsent"
  BY <1>4, <1>5
<1> HIDE DEF n
<1> QED BY <1>1, <1>2, <1>3, <1>4, <1>6, <1>7, <1>8, GrownKeepsBase

\* The next run in line that takes the turn keeps the base (runtime.go, execute).
LEMMA StartNextKeepsBase ==
  ASSUME Base, StartNext
  PROVE  Base'
<1>1. line \in Seq(Mains) /\ line # <<>>
  BY DEF Base, Typed, StartNext
<1>2. Head(line) \in Mains /\ Tail(line) \in Seq(Mains)
  BY <1>1
<1>3. PICK r \in Runs : r = Head(line)
  BY <1>2 DEF Runs
<1>4. at' = [at EXCEPT ![r] = "top"] /\ line' = Tail(line)
      /\ UNCHANGED <<log, history, plan, cut, doing, child, decided, fresh, spent>>
  BY <1>3 DEF StartNext, Goto, Unrecorded
<1>5. at \in [Runs -> Idle \cup Working] /\ at' \in [Runs -> Idle \cup Working]
  BY <1>4 DEF Base, Typed, Working
<1>6. Typed'
  BY <1>2, <1>4, <1>5 DEF Base, Typed
<1>7. Steady
  BY <1>4, <1>5 DEF Steady
<1> QED BY <1>4, <1>6, <1>7, QuietKeepsBase

\* A run that is cut short keeps the base (runtime.go, execute).
LEMMA CutShortKeepsBase ==
  ASSUME Base, NEW r \in Runs, CutShort(r)
  PROVE  Base'
<1> DEFINE event == Plain("ended", r, 0)
           n == Len(history) + 1
<1>1. event \in Events /\ event.kind = "ended" /\ event.run = r
      /\ event.call = 0 /\ event.through = 0
  BY PlainIsEvent DEF Kinds
<1> HIDE DEF event
<1>2. Grown(n, event)
  BY <1>1, RecordGrows DEF CutShort, event
<1>3. PointsBack(event, n)
  BY <1>1, <1>2 DEF Grown, PointsBack
<1>4. /\ at' = [at EXCEPT ![r] = "over"]
      /\ line' = TakenOut(r) /\ plan' = [plan EXCEPT ![r] = NoPlan]
      /\ cut' = [cut EXCEPT ![r] = 0]
      /\ UNCHANGED <<doing, child, decided, fresh, spent>>
  BY DEF CutShort, Goto
<1>5. at \in [Runs -> Idle \cup Working] /\ at' \in [Runs -> Idle \cup Working]
      /\ cut \in [Runs -> Nat]
  BY <1>4 DEF Base, Typed, Idle
<1>6. Typed'
  <2>1. line' \in Seq(Mains)
    BY <1>4, TakenOutType DEF Base
  <2>2. plan' \in [Runs -> FoldPlans]
    BY <1>4, NoPlanIsPlan DEF Base, Typed
  <2>3. cut' \in [Runs -> Nat]
    BY <1>4, <1>5
  <2> QED BY <1>2, <1>4, <1>5, <2>1, <2>2, <2>3 DEF Base, Typed, Grown
<1>7. Steady
  <2>1. plan \in [Runs -> FoldPlans]
    BY DEF Base, Typed
  <2> QED BY <1>4, <1>5, <2>1 DEF Steady
<1>8. at'[r] # "unsent"
  BY <1>4, <1>5
<1> HIDE DEF n
<1> QED BY <1>1, <1>2, <1>3, <1>4, <1>6, <1>7, <1>8, GrownKeepsBase

\* A tool call that is run keeps the base (runtime.go, execute).
LEMMA RunToolKeepsBase ==
  ASSUME Base, NEW r \in Runs, NEW p, RunTool(r, p)
  PROVE  Base'
<1> DEFINE event == Plain("result", r, p)
           n == Len(history) + 1
<1>0. p \in Nat /\ p < n /\ at[r] = "top"
  BY PendingIsKept DEF RunTool
<1>1. event \in Events /\ event.kind = "result" /\ event.run = r
      /\ event.call = p /\ event.through = 0
  BY <1>0, PlainIsEvent DEF Kinds
<1> HIDE DEF event
<1>2. Grown(n, event)
  BY <1>1, RecordGrows DEF RunTool, event
<1>3. PointsBack(event, n)
  BY <1>0, <1>1, <1>2 DEF Grown, PointsBack
<1>4. UNCHANGED <<at, line, plan, cut, doing, child, decided, fresh, spent>>
  BY DEF RunTool, SameWork
<1>6. Typed'
  BY <1>2, <1>4 DEF Base, Typed, Grown
<1>7. Steady
  BY <1>4 DEF Steady
<1>8. at'[r] # "unsent"
  BY <1>0, <1>4
<1> HIDE DEF n
<1> QED BY <1>1, <1>2, <1>3, <1>6, <1>7, <1>8, GrownKeepsBase

\* A run that parks for a decision keeps the base (runtime.go, execute).
LEMMA ParkKeepsBase ==
  ASSUME Base, NEW r \in Runs, NEW p, Park(r, p)
  PROVE  Base'
<1>1. p \in Nat /\ p \in DOMAIN history
  BY PendingIsKept DEF Park
<1>2. /\ at' = [at EXCEPT ![r] = "parked"] /\ doing' = [doing EXCEPT ![r] = p]
      /\ UNCHANGED <<log, history, line, plan, cut, child, decided, fresh, spent>>
  BY DEF Park, Goto, Unrecorded
<1>3. at \in [Runs -> Idle \cup Working] /\ at' \in [Runs -> Idle \cup Working]
      /\ doing \in [Runs -> Nat] /\ doing' \in [Runs -> Nat]
  BY <1>1, <1>2 DEF Base, Typed, Idle
<1>4. Typed'
  BY <1>2, <1>3 DEF Base, Typed
<1>5. Steady
  BY <1>1, <1>2, <1>3 DEF Steady
<1> QED BY <1>2, <1>4, <1>5, QuietKeepsBase

\* A decision keeps the base (approval.go, resume).
LEMMA DecideKeepsBase ==
  ASSUME Base, NEW r \in Runs, Decide(r)
  PROVE  Base'
<1>1. doing[r] \in DOMAIN history /\ at[r] = "parked"
  BY DEF Decide, Base, Owed
<1>2. /\ at' = [at EXCEPT ![r] = "top"] /\ decided' = decided \cup {doing[r]}
      /\ UNCHANGED <<log, history, line, plan, cut, doing, child, fresh, spent>>
  BY DEF Decide, Goto, Unrecorded
<1>3. at \in [Runs -> Idle \cup Working] /\ at' \in [Runs -> Idle \cup Working]
  BY <1>2 DEF Base, Typed, Working
<1>4. Typed'
  BY <1>1, <1>2, <1>3 DEF Base, Typed
<1>5. Steady
  BY <1>2, <1>3 DEF Steady
<1> QED BY <1>2, <1>4, <1>5, QuietKeepsBase

\* A worker that is sent its question keeps the base (investigate.go, Investigate).
LEMMA DelegateKeepsBase ==
  ASSUME Base, NEW r \in Runs, NEW p, NEW w \in Workers, Delegate(r, p, w)
  PROVE  Base'
<1> DEFINE event == Plain("user", w, 0)
           n == Len(history) + 1
<1>0. p \in Nat /\ p \in DOMAIN history /\ at[r] = "top" /\ r \in Mains /\ at[w] = "unsent" /\ w \in Runs
  BY PendingIsKept DEF Delegate, Runs
<1>1. event \in Events /\ event.kind = "user" /\ event.run = w
      /\ event.call = 0 /\ event.through = 0
  BY <1>0, PlainIsEvent DEF Kinds
<1> HIDE DEF event
<1>2. Grown(n, event)
  BY <1>1, RecordGrows DEF Delegate, event
<1>3. PointsBack(event, n)
  BY <1>1, <1>2 DEF Grown, PointsBack
<1>4. /\ at' = [at EXCEPT ![r] = "delegating", ![w] = "top"]
      /\ doing' = [doing EXCEPT ![r] = p] /\ child' = [child EXCEPT ![r] = w]
      /\ UNCHANGED <<line, plan, cut, decided, fresh, spent>>
  BY DEF Delegate
<1>5. at \in [Runs -> Idle \cup Working] /\ at' \in [Runs -> Idle \cup Working]
      /\ doing \in [Runs -> Nat] /\ doing' \in [Runs -> Nat]
      /\ child' \in [Runs -> Workers \cup {NoRun}]
  BY <1>0, <1>4 DEF Base, Typed, Working
<1>6. Typed'
  <2>1. history' \in Seq(Events) /\ Len(history') <= MaxEvents
        /\ DOMAIN history \subseteq DOMAIN history'
    BY <1>2 DEF Grown
  <2> QED BY <1>4, <1>5, <2>1 DEF Base, Typed
<1>7. Steady
  BY <1>0, <1>4, <1>5 DEF Steady
<1>8. at'[w] # "unsent"
  BY <1>0, <1>4, <1>5
<1> HIDE DEF n
<1> QED BY <1>0, <1>1, <1>2, <1>3, <1>6, <1>7, <1>8, GrownKeepsBase

\* A worker's answer, recorded as the result of the call, keeps the base (investigate.go).
LEMMA TakeAnswerKeepsBase ==
  ASSUME Base, NEW r \in Runs, TakeAnswer(r)
  PROVE  Base'
<1> DEFINE event == Plain("result", r, doing[r])
           n == Len(history) + 1
<1>0. doing[r] \in Nat /\ doing[r] < n /\ at[r] = "delegating"
  BY EventParts DEF TakeAnswer, Base, Owed
<1>1. event \in Events /\ event.kind = "result" /\ event.run = r
      /\ event.call = doing[r] /\ event.through = 0
  BY <1>0, PlainIsEvent DEF Kinds
<1> HIDE DEF event
<1>2. Grown(n, event)
  BY <1>1, RecordGrows DEF TakeAnswer, event
<1>3. PointsBack(event, n)
  BY <1>0, <1>1, <1>2 DEF Grown, PointsBack
<1>4. /\ at' = [at EXCEPT ![r] = "top"]
      /\ UNCHANGED <<line, plan, cut, doing, child, decided, fresh, spent>>
  BY DEF TakeAnswer, Goto, SameWork
<1>5. at \in [Runs -> Idle \cup Working] /\ at' \in [Runs -> Idle \cup Working]
  BY <1>4 DEF Base, Typed, Working
<1>6. Typed'
  <2>1. history' \in Seq(Events) /\ Len(history') <= MaxEvents
        /\ DOMAIN history \subseteq DOMAIN history'
    BY <1>2 DEF Grown
  <2> QED BY <1>4, <1>5, <2>1 DEF Base, Typed
<1>7. Steady
  BY <1>4, <1>5 DEF Steady
<1>8. at'[r] # "unsent"
  BY <1>4, <1>5
<1> HIDE DEF n
<1> QED BY <1>1, <1>2, <1>3, <1>6, <1>7, <1>8, GrownKeepsBase

\* A run that has no turn left keeps the base (runtime.go, execute).
LEMMA OutOfTurnsKeepsBase ==
  ASSUME Base, NEW r \in Runs, OutOfTurns(r)
  PROVE  Base'
<1>2. /\ at' = [at EXCEPT ![r] = "ending"]
      /\ UNCHANGED <<log, history, line, plan, cut, doing, child, decided, fresh, spent>>
  BY DEF OutOfTurns, Goto, Unrecorded, SameWork
<1>3. at \in [Runs -> Idle \cup Working] /\ at' \in [Runs -> Idle \cup Working]
  BY <1>2 DEF Base, Typed, Working
<1>4. Typed'
  BY <1>2, <1>3 DEF Base, Typed
<1>5. Steady
  BY <1>2, <1>3 DEF Steady
<1> QED BY <1>2, <1>4, <1>5, QuietKeepsBase

\* A fold is chosen from what the run may read, so it ends before the next position
\* (compaction.go, planCompaction).
LEMMA ChosenFits ==
  ASSUME Base, NEW r \in Runs, NEW chosen \in Plans(log, r)
  PROVE  /\ chosen \in FoldPlans /\ chosen.from \in 1 .. chosen.through
         /\ chosen.through \in DOMAIN log /\ chosen.through <= Len(history)
<1>1. LogFine(log)
  BY BaseLogFine
<1>2. /\ chosen.through \in Shown(log, r) /\ chosen \in FoldPlans
      /\ chosen.from \in 1 .. chosen.through
  BY <1>1, PlanShape
<1>3. chosen.through \in DOMAIN log
  BY <1>1, <1>2, ReplayedIsKept
<1> QED BY <1>2, <1>3, EventParts DEF Base, LogStands

\* A fold that is planned keeps the base (compaction.go, planCompaction).
LEMMA PlanFoldKeepsBase ==
  ASSUME Base, NEW r \in Runs, PlanFold(r)
  PROVE  Base'
<1>1. /\ UNCHANGED <<log, history, line, cut, doing, child, decided, spent>>
      /\ fresh' = [fresh EXCEPT ![r] = (Turns(log, r) = 0)] /\ at[r] = "top"
  BY DEF PlanFold, Unrecorded, AtModel
<1>2. CASE \E chosen \in Plans(log, r) : plan' = [plan EXCEPT ![r] = chosen]
  <2>1. PICK chosen \in Plans(log, r) : plan' = [plan EXCEPT ![r] = chosen]
    BY <1>2
  <2>2. /\ chosen \in FoldPlans /\ chosen.from \in 1 .. chosen.through
        /\ chosen.through <= Len(history)
    BY ChosenFits
  <2>3. \E there \in {"folding", "building"} : at' = [at EXCEPT ![r] = there]
    BY DEF PlanFold, Goto
  <2>4. at \in [Runs -> Idle \cup Working] /\ at' \in [Runs -> Idle \cup Working]
    BY <2>3 DEF Base, Typed, Working
  <2>5. plan \in [Runs -> FoldPlans] /\ plan' \in [Runs -> FoldPlans]
    BY <2>1, <2>2 DEF Base, Typed
  <2>6. Typed'
    BY <1>1, <2>4, <2>5 DEF Base, Typed
  <2>7. LogStands' /\ EventsStand'
    BY <1>1 DEF Base, LogStands, EventsStand, PointsBack
  <2>8. Spoken'
    <3>1. \A p \in DOMAIN history : history[p].run \in Runs
      BY EventParts DEF Base
    <3> QED BY <1>1, <2>3, <2>4, <3>1 DEF Base, Spoken
  <2>9. PlansFit'
    <3> SUFFICES ASSUME NEW q \in Runs, at'[q] = "folding"
                 PROVE plan'[q].from \in 1 .. plan'[q].through /\ plan'[q].through <= Len(history)
      BY <1>1 DEF PlansFit
    <3>1. CASE q = r
      BY <2>1, <2>2, <2>5, <3>1
    <3>2. CASE q # r
      BY <2>1, <2>3, <2>4, <2>5, <3>2 DEF Base, PlansFit
    <3> QED BY <3>1, <3>2
  <2>10. Owed'
    BY <1>1, <2>3, <2>4 DEF Base, Owed
  <2>11. Covered'
    BY <1>1 DEF Base, Covered, FoldsOf
  <2> QED BY <2>6, <2>7, <2>8, <2>9, <2>10, <2>11 DEF Base
<1>3. CASE at' = [at EXCEPT ![r] = "building"] /\ UNCHANGED plan
  <2>1. at \in [Runs -> Idle \cup Working] /\ at' \in [Runs -> Idle \cup Working]
    BY <1>3 DEF Base, Typed, Working
  <2>2. Typed'
    BY <1>1, <1>3, <2>1 DEF Base, Typed
  <2>3. Steady
    BY <1>1, <1>3, <2>1 DEF Steady
  <2> QED BY <1>1, <2>2, <2>3, QuietKeepsBase
<1> QED BY <1>2, <1>3 DEF PlanFold, Goto

\* The fold a run records: what was planned, and nothing more.
FoldOf(r, a, b, c) ==
  [Plain("fold", r, 0) EXCEPT !.from = a, !.through = b, !.tells = c]

\* The fold that run r is about to record.
TheFold(r) == FoldOf(r, plan[r].from, plan[r].through, plan[r].tells)

\* A fold is an event with a range and a summary (compaction.go, compactIfNeeded).
LEMMA FoldFields ==
  ASSUME NEW r \in Runs, NEW a \in Nat, NEW b \in Nat, NEW c \in SUBSET Nat, NEW fold,
         fold = FoldOf(r, a, b, c)
  PROVE  /\ fold \in Events /\ fold.kind = "fold" /\ fold.run = r /\ fold.call = 0
         /\ fold.from = a /\ fold.through = b /\ fold.tells = c
<1> USE DEF FoldOf
<1>1. fold \in Events
  BY DEF Plain, Events, Kinds
<1>2. /\ fold.kind = "fold" /\ fold.run = r /\ fold.call = 0
      /\ fold.from = a /\ fold.through = b /\ fold.tells = c
  BY DEF Plain
<1> QED BY <1>1, <1>2

\* What a run planned makes a fold (compaction.go, compactIfNeeded).
LEMMA FoldIsEvent ==
  ASSUME Typed, NEW r \in Runs
  PROVE  /\ TheFold(r) \in Events /\ TheFold(r).kind = "fold" /\ TheFold(r).run = r
         /\ TheFold(r).call = 0 /\ TheFold(r).from = plan[r].from
         /\ TheFold(r).through = plan[r].through /\ TheFold(r).tells = plan[r].tells
<1>1. plan[r] \in FoldPlans
  BY DEF Typed
<1>2. plan[r].from \in Nat /\ plan[r].through \in Nat /\ plan[r].tells \in SUBSET Nat
  BY <1>1 DEF FoldPlans
<1> DEFINE a == plan[r].from
           b == plan[r].through
           c == plan[r].tells
           fold == TheFold(r)
<1>3. fold = FoldOf(r, a, b, c)
  BY DEF TheFold
<1>4. a \in Nat /\ b \in Nat /\ c \in SUBSET Nat
  BY <1>2
<1> HIDE DEF a, b, c, fold
<1>5. /\ fold \in Events /\ fold.kind = "fold" /\ fold.run = r /\ fold.call = 0
      /\ fold.from = a /\ fold.through = b /\ fold.tells = c
  BY <1>3, <1>4, FoldFields
<1> QED BY <1>5 DEF a, b, c, fold

\* A fold that is recorded keeps the base (compaction.go, compactIfNeeded).
LEMMA AppendFoldKeepsBase ==
  ASSUME Base, NEW r \in Runs, AppendFold(r)
  PROVE  Base'
<1> DEFINE event == TheFold(r)
           n == Len(history) + 1
<1>1. /\ event \in Events /\ event.kind = "fold" /\ event.run = r
      /\ event.call = 0 /\ event.from = plan[r].from /\ event.through = plan[r].through
  BY FoldIsEvent DEF Base
<1> HIDE DEF event
<1>2. Grown(n, event)
  BY <1>1, RecordGrows DEF AppendFold, event, TheFold, FoldOf
<1>3. PointsBack(event, n)
  <2>1. plan[r].from \in 1 .. plan[r].through /\ plan[r].through <= Len(history)
    BY DEF AppendFold, Base, PlansFit
  <2>2. plan[r].through \in Nat
    BY DEF Base, Typed, FoldPlans
  <2> QED BY <1>1, <1>2, <2>1, <2>2 DEF Grown, PointsBack
<1>4. /\ at[r] = "folding" /\ at' = [at EXCEPT ![r] = "pruning"]
      /\ plan' = [plan EXCEPT ![r] = NoPlan]
      /\ UNCHANGED <<line, cut, doing, child, decided, fresh, spent>>
  BY DEF AppendFold, Goto
<1>5. at \in [Runs -> Idle \cup Working] /\ at' \in [Runs -> Idle \cup Working]
      /\ plan \in [Runs -> FoldPlans] /\ plan' \in [Runs -> FoldPlans]
  BY <1>4, NoPlanIsPlan DEF Base, Typed, Working
<1>6. Typed'
  BY <1>2, <1>4, <1>5 DEF Base, Typed, Grown
<1>7. Steady
  BY <1>4, <1>5 DEF Steady
<1>8. at'[r] # "unsent"
  BY <1>4, <1>5
<1> HIDE DEF n
<1> QED BY <1>1, <1>2, <1>3, <1>6, <1>7, <1>8, GrownKeepsBase

\* A cut lies behind the last fold and within what it reaches (retention.go, safeCut).
LEMMA CutsAreSafe ==
  ASSUME Base, NEW c \in SafeCuts(log, KeepAfterFold)
  PROVE  /\ c \in Nat \ {0} /\ FoldsOf(log) # {}
         /\ Max(FoldsOf(log)) \in FoldsOf(log)
         /\ c < Max(FoldsOf(log)) /\ c <= log[Max(FoldsOf(log))].through
<1> DEFINE last == Max(FoldsOf(log))
<1>0. LogFine(log)
  BY BaseLogFine
<1>1. FoldsOf(log) # {} /\ FoldsOf(log) \in SUBSET DOMAIN log
  BY DEF SafeCuts, FoldsOf
<1>2. last \in FoldsOf(log)
  BY <1>0, <1>1, Extremes
<1>3. last \in Nat /\ log[last].through \in Nat \ {0}
  BY <1>0, <1>1, <1>2, Positions DEF LogFine
<1>4. PICK p \in DOMAIN log : p < last /\ c = Min({p, log[last].through})
  BY <1>1 DEF SafeCuts
<1>5. p \in Nat \ {0}
  BY <1>0, Positions
<1>6. c \in {p, log[last].through} /\ c <= p /\ c <= log[last].through
  <2>1. {p, log[last].through} \in SUBSET Nat /\ {p, log[last].through} # {}
    BY <1>3, <1>5
  <2> QED BY <1>4, <2>1, MinIsLeast
<1> QED BY <1>1, <1>2, <1>3, <1>4, <1>5, <1>6

\* Choosing how far to discard keeps the base: there is a fold for all of it
\* (retention.go, PruneSession).
LEMMA ChooseCutKeepsBase ==
  ASSUME Base, NEW r \in Runs, ChooseCut(r)
  PROVE  Base'
<1>1. /\ UNCHANGED <<log, history, line, plan, doing, child, decided, fresh, spent>>
      /\ \E there \in {"building", "discarding"} : at' = [at EXCEPT ![r] = there]
  BY DEF ChooseCut, Goto, Unrecorded
<1>2. at \in [Runs -> Idle \cup Working] /\ at' \in [Runs -> Idle \cup Working]
  BY <1>1 DEF Base, Typed, Working
<1>3. CASE UNCHANGED cut
  <2>1. Typed'
    BY <1>1, <1>2, <1>3 DEF Base, Typed
  <2>2. Steady
    BY <1>1, <1>2, <1>3 DEF Steady
  <2> QED BY <1>1, <2>1, <2>2, QuietKeepsBase
<1>4. CASE \E c \in SafeCuts(log, KeepAfterFold) : cut' = [cut EXCEPT ![r] = c]
  <2>1. PICK c \in SafeCuts(log, KeepAfterFold) : cut' = [cut EXCEPT ![r] = c]
    BY <1>4
  <2>2. PICK f \in FoldsOf(log) : c \in Nat /\ c < f /\ c <= log[f].through
    BY CutsAreSafe
  <2>3. cut \in [Runs -> Nat] /\ cut' \in [Runs -> Nat]
    BY <2>1, <2>2 DEF Base, Typed
  <2>4. Typed'
    BY <1>1, <1>2, <2>3 DEF Base, Typed
  <2>5. LogStands' /\ EventsStand'
    BY <1>1 DEF Base, LogStands, EventsStand, PointsBack
  <2>6. Spoken'
    <3>1. \A p \in DOMAIN history : history[p].run \in Runs
      BY EventParts DEF Base
    <3> QED BY <1>1, <1>2, <3>1 DEF Base, Spoken
  <2>7. PlansFit' /\ Owed'
    BY <1>1, <1>2 DEF Base, PlansFit, Owed
  <2>8. Covered'
    BY <1>1, <2>1, <2>2, <2>3 DEF Base, Covered, FoldsOf
  <2> QED BY <2>4, <2>5, <2>6, <2>7, <2>8 DEF Base
<1> QED BY <1>3, <1>4 DEF ChooseCut

\* What discarding leaves: every fold, and everything above the cut (events.go,
\* PruneEvents).
LEMMA PruneLeaves ==
  ASSUME Base, NEW r \in Runs, Prune(r)
  PROVE  /\ DOMAIN log' \subseteq DOMAIN log /\ \A p \in DOMAIN log' : log'[p] = log[p]
         /\ \A p \in DOMAIN log : p \in DOMAIN log' <=> (p > cut[r] \/ p \in FoldsOf(log))
         /\ FoldsOf(log') = FoldsOf(log)
         /\ at[r] = "discarding" /\ at' = [at EXCEPT ![r] = "building"]
         /\ cut' = [cut EXCEPT ![r] = 0]
         /\ UNCHANGED <<history, line, plan, doing, child, decided, fresh, spent>>
<1> DEFINE S == {p \in DOMAIN log : p > cut[r] \/ log[p].kind = "fold"}
<1>1. log' = [p \in S |-> log[p]]
  BY DEF Prune, Pruned, Restrict
<1>2. DOMAIN log' = S /\ \A p \in S : log'[p] = log[p]
  BY <1>1
<1> QED BY <1>2 DEF Prune, Goto, FoldsOf

\* Discarding keeps the base: what goes has a fold that stays (events.go, PruneEvents).
LEMMA PruneKeepsBase ==
  ASSUME Base, NEW r \in Runs, Prune(r)
  PROVE  Base'
<1>1. /\ DOMAIN log' \subseteq DOMAIN log /\ \A p \in DOMAIN log' : log'[p] = log[p]
      /\ \A p \in DOMAIN log : p \in DOMAIN log' <=> (p > cut[r] \/ p \in FoldsOf(log))
      /\ FoldsOf(log') = FoldsOf(log)
      /\ at[r] = "discarding" /\ at' = [at EXCEPT ![r] = "building"]
      /\ cut' = [cut EXCEPT ![r] = 0]
      /\ UNCHANGED <<history, line, plan, doing, child, decided, fresh, spent>>
  BY PruneLeaves
<1>2. at \in [Runs -> Idle \cup Working] /\ at' \in [Runs -> Idle \cup Working]
      /\ cut \in [Runs -> Nat] /\ cut' \in [Runs -> Nat]
  BY <1>1 DEF Base, Typed, Working
<1>3. Typed'
  BY <1>1, <1>2 DEF Base, Typed
<1>4. \A f \in FoldsOf(log) : f \in FoldsOf(log') /\ log'[f] = log[f] /\ f \in DOMAIN log
  BY <1>1 DEF FoldsOf
<1>5. \A p \in DOMAIN log : p \notin DOMAIN log' =>
        \E f \in FoldsOf(log) : p < f /\ p <= log[f].through
  <2> SUFFICES ASSUME NEW p \in DOMAIN log, p \notin DOMAIN log'
               PROVE  \E f \in FoldsOf(log) : p < f /\ p <= log[f].through
    OBVIOUS
  <2>1. p \in Nat \ {0} /\ p <= cut[r] /\ cut[r] \in Nat
    BY <1>1, <1>2, BaseLogFine, Positions
  <2>2. PICK f \in FoldsOf(log) : cut[r] < f /\ cut[r] <= log[f].through
    BY <2>1 DEF Base, Covered
  <2>3. f \in Nat /\ log[f].through \in Nat
    BY <1>4, BaseLogFine, Positions DEF LogFine
  <2> QED BY <2>1, <2>2, <2>3
<1>6. LogStands'
  <2>1. DOMAIN log' \subseteq DOMAIN history' /\ \A p \in DOMAIN log' : log'[p] = history'[p]
    BY <1>1 DEF Base, LogStands
  <2>2. ASSUME Len(history) > 0, Len(history) \notin DOMAIN log' PROVE FALSE
    <3>1. PICK f \in FoldsOf(log) : Len(history) < f
      BY <1>5, <2>2 DEF Base, LogStands
    <3> QED BY <1>4, <3>1, EventParts DEF Base, LogStands
  <2> QED BY <1>1, <2>1, <2>2 DEF LogStands
<1>7. EventsStand'
  BY <1>1 DEF Base, EventsStand, PointsBack
<1>8. Spoken'
  <2>1. \A p \in DOMAIN history : history[p].run \in Runs
    BY EventParts DEF Base
  <2> QED BY <1>1, <1>2, <2>1 DEF Base, Spoken
<1>9. PlansFit' /\ Owed'
  BY <1>1, <1>2 DEF Base, PlansFit, Owed
<1>10. Covered'
  <2>1. ASSUME NEW q \in Runs, cut'[q] > 0
        PROVE  \E f \in FoldsOf(log') : cut'[q] < f /\ cut'[q] <= log'[f].through
    BY <1>1, <1>2, <1>4, <2>1 DEF Base, Covered
  <2>2. ASSUME NEW p \in DOMAIN history, p \notin DOMAIN log'
        PROVE  \E f \in FoldsOf(log') : p <= log'[f].through
    <3>1. \E f \in FoldsOf(log) : p <= log[f].through
      BY <1>5, <2>2 DEF Base, Covered
    <3> QED BY <1>4, <3>1
  <2> QED BY <1>1, <2>1, <2>2 DEF Covered
<1> QED BY <1>3, <1>6, <1>7, <1>8, <1>9, <1>10 DEF Base

\* A request that is built keeps the base (runtime.go, execute).
LEMMA BuildRequestKeepsBase ==
  ASSUME Base, NEW r \in Runs, BuildRequest(r)
  PROVE  Base'
<1> DEFINE event == Plain("running", r, 0)
           n == Len(history) + 1
<1>1. event \in Events /\ event.kind = "running" /\ event.run = r
      /\ event.call = 0 /\ event.through = 0
  BY PlainIsEvent DEF Kinds
<1> HIDE DEF event
<1>4. /\ at' = [at EXCEPT ![r] = "asking"] /\ at[r] = "building"
      /\ UNCHANGED <<line, plan, cut, doing, child, decided, fresh, spent>>
  BY DEF BuildRequest, Goto, SameWork
<1>5. at \in [Runs -> Idle \cup Working] /\ at' \in [Runs -> Idle \cup Working]
  BY <1>4 DEF Base, Typed, Working
<1>7. Steady
  BY <1>4, <1>5 DEF Steady
<1>8. CASE fresh[r]
  <2>2. Grown(n, event)
    BY <1>1, <1>8, RecordGrows DEF BuildRequest, event
  <2>3. PointsBack(event, n)
    BY <1>1, <2>2 DEF Grown, PointsBack
  <2>6. Typed'
    BY <1>4, <1>5, <2>2 DEF Base, Typed, Grown
  <2>8. at'[r] # "unsent"
    BY <1>4, <1>5
  <2> HIDE DEF n
  <2> QED BY <1>1, <1>7, <2>2, <2>3, <2>6, <2>8, GrownKeepsBase
<1>9. CASE ~ fresh[r]
  <2>1. UNCHANGED <<log, history>>
    BY <1>9 DEF BuildRequest, Unrecorded
  <2>2. Typed'
    BY <1>4, <1>5, <2>1 DEF Base, Typed
  <2> QED BY <1>7, <2>1, <2>2, QuietKeepsBase
<1> QED BY <1>8, <1>9

\* A model turn that asks for a tool keeps the base (runtime.go, execute).
LEMMA AskForToolKeepsBase ==
  ASSUME Base, NEW r \in Runs, AskForTool(r)
  PROVE  Base'
<1> DEFINE event == Plain("call", r, 0)
           n == Len(history) + 1
<1>1. event \in Events /\ event.kind = "call" /\ event.run = r
      /\ event.call = 0 /\ event.through = 0
  BY PlainIsEvent DEF Kinds
<1> HIDE DEF event
<1>2. Grown(n, event)
  BY <1>1, RecordGrows DEF AskForTool, event
<1>3. PointsBack(event, n)
  BY <1>1, <1>2 DEF Grown, PointsBack
<1>4. /\ at' = [at EXCEPT ![r] = "called"]
      /\ UNCHANGED <<line, plan, cut, doing, child, decided, fresh, spent>>
  BY DEF AskForTool, Goto, SameWork
<1>5. at \in [Runs -> Idle \cup Working] /\ at' \in [Runs -> Idle \cup Working]
  BY <1>4 DEF Base, Typed, Working
<1>6. Typed'
  BY <1>2, <1>4, <1>5 DEF Base, Typed, Grown
<1>7. Steady
  BY <1>4, <1>5 DEF Steady
<1>8. at'[r] # "unsent"
  BY <1>4, <1>5
<1> HIDE DEF n
<1> QED BY <1>1, <1>2, <1>3, <1>6, <1>7, <1>8, GrownKeepsBase

\* A model turn that is complete keeps the base (runtime.go, execute).
LEMMA CompleteTurnKeepsBase ==
  ASSUME Base, NEW r \in Runs, CompleteTurn(r)
  PROVE  Base'
<1> DEFINE event == Plain("said", r, 0)
           n == Len(history) + 1
<1>1. event \in Events /\ event.kind = "said" /\ event.run = r
      /\ event.call = 0 /\ event.through = 0
  BY PlainIsEvent DEF Kinds
<1> HIDE DEF event
<1>2. Grown(n, event)
  BY <1>1, RecordGrows DEF CompleteTurn, event
<1>3. PointsBack(event, n)
  BY <1>1, <1>2 DEF Grown, PointsBack
<1>4. /\ \E there \in {"top", "ending"} : at' = [at EXCEPT ![r] = there]
      /\ spent' = [spent EXCEPT ![r] = spent[r] + 1]
      /\ UNCHANGED <<line, plan, cut, doing, child, decided, fresh>>
  BY DEF CompleteTurn, Goto
<1>5. at \in [Runs -> Idle \cup Working] /\ at' \in [Runs -> Idle \cup Working]
  BY <1>4 DEF Base, Typed, Working
<1>6. Typed'
  <2>1. spent' \in [Runs -> Nat]
    BY <1>4 DEF Base, Typed
  <2> QED BY <1>2, <1>4, <1>5, <2>1 DEF Base, Typed, Grown
<1>7. Steady
  BY <1>4, <1>5 DEF Steady
<1>8. at'[r] # "unsent"
  BY <1>4, <1>5
<1> HIDE DEF n
<1> QED BY <1>1, <1>2, <1>3, <1>6, <1>7, <1>8, GrownKeepsBase

\* A run that ends keeps the base (runtime.go, execute).
LEMMA FinishKeepsBase ==
  ASSUME Base, NEW r \in Runs, Finish(r)
  PROVE  Base'
<1> DEFINE event == Plain("ended", r, 0)
           n == Len(history) + 1
<1>1. event \in Events /\ event.kind = "ended" /\ event.run = r
      /\ event.call = 0 /\ event.through = 0
  BY PlainIsEvent DEF Kinds
<1> HIDE DEF event
<1>2. Grown(n, event)
  BY <1>1, RecordGrows DEF Finish, event
<1>3. PointsBack(event, n)
  BY <1>1, <1>2 DEF Grown, PointsBack
<1>4. /\ at' = [at EXCEPT ![r] = "over"]
      /\ UNCHANGED <<line, plan, cut, doing, child, decided, fresh, spent>>
  BY DEF Finish, Goto, SameWork
<1>5. at \in [Runs -> Idle \cup Working] /\ at' \in [Runs -> Idle \cup Working]
  BY <1>4 DEF Base, Typed, Idle
<1>6. Typed'
  BY <1>2, <1>4, <1>5 DEF Base, Typed, Grown
<1>7. Steady
  BY <1>4, <1>5 DEF Steady
<1>8. at'[r] # "unsent"
  BY <1>4, <1>5
<1> HIDE DEF n
<1> QED BY <1>1, <1>2, <1>3, <1>6, <1>7, <1>8, GrownKeepsBase

\* Every step of the conversation keeps the base (runtime.go, execute).
LEMMA NextKeepsBase == Base /\ [Next]_vars => Base'
<1> SUFFICES ASSUME Base, [Next]_vars PROVE Base'
  OBVIOUS
<1>1. CASE StartNext
  BY <1>1, StartNextKeepsBase
<1>2. CASE \E r \in Runs : Send(r)
  BY <1>2, SendKeepsBase
<1>3. CASE \E r \in Runs : CutShort(r)
  BY <1>3, CutShortKeepsBase
<1>4. CASE \E r \in Runs : Loop(r)
  <2>1. PICK r \in Runs : Loop(r)
    BY <1>4
  <2>2. CASE Settle(r)
    <3>1. PICK p \in DOMAIN log :
            RunTool(r, p) \/ Park(r, p) \/ \E w \in Workers : Delegate(r, p, w)
      BY <2>2 DEF Settle
    <3> QED BY <3>1, RunToolKeepsBase, ParkKeepsBase, DelegateKeepsBase
  <2>3. CASE Compact(r)
    BY <2>3, PlanFoldKeepsBase, AppendFoldKeepsBase, ChooseCutKeepsBase, PruneKeepsBase DEF Compact
  <2>4. CASE Decide(r) \/ TakeAnswer(r) \/ OutOfTurns(r)
    BY <2>4, DecideKeepsBase, TakeAnswerKeepsBase, OutOfTurnsKeepsBase
  <2>5. CASE BuildRequest(r) \/ AskForTool(r) \/ CompleteTurn(r) \/ Finish(r)
    BY <2>5, BuildRequestKeepsBase, AskForToolKeepsBase, CompleteTurnKeepsBase, FinishKeepsBase
  <2> QED BY <2>1, <2>2, <2>3, <2>4, <2>5 DEF Loop
<1>5. CASE UNCHANGED vars
  <2>1. UNCHANGED <<log, history, line, at, plan, cut, doing, child, decided, fresh, spent>>
    BY <1>5 DEF vars
  <2>2. Typed'
    BY <2>1 DEF Base, Typed
  <2>3. Steady
    BY <2>1 DEF Steady
  <2> QED BY <2>1, <2>2, <2>3, QuietKeepsBase
<1> QED BY <1>1, <1>2, <1>3, <1>4, <1>5 DEF Next

\* The base holds of every conversation.
THEOREM BaseHolds == Spec => []Base
<1> QED BY InitBase, NextKeepsBase, PTL DEF Spec

\* Everything is what it is declared to be: events kept are events appended, a call
\* comes before its answer, a fold covers what came before it (events.go, Append).
THEOREM ConversationTyped == Spec => []TypeOK
<1>1. Base => TypeOK
  <2> SUFFICES ASSUME Base PROVE TypeOK
    OBVIOUS
  <2>1. \A p \in DOMAIN log : p \in DOMAIN history /\ log[p] = history[p] /\ p \in Nat
    BY EventParts DEF Base, LogStands
  <2>2. \A p \in DOMAIN log :
          /\ log[p].kind \in Kinds /\ log[p].run \in Runs /\ log[p].call \in Nat
          /\ PointsBack(log[p], p)
    BY <2>1, EventParts DEF Base, EventsStand
  <2>3. \A p \in DOMAIN log : log[p].call \in 0 .. p - 1
    BY <2>1, <2>2 DEF PointsBack
  <2>4. Range(line) \subseteq Mains
    BY DEF Base, Typed, Range
  <2> QED BY <2>1, <2>2, <2>3, <2>4 DEF TypeOK, Base, Typed, LogStands, PointsBack
<1> QED BY BaseHolds, <1>1, PTL

\* A position names one event for the life of its session, however much of the log has
\* been discarded (events.go, Append).
THEOREM PositionsHold == Spec => []PositionsStand
<1>1. Base => PositionsStand
  BY BaseNextSeq DEF PositionsStand
<1> QED BY BaseHolds, <1>1, PTL
------------------------------------------------------------------------------
\* The event a step recorded.
Says(n, kind, r, call) ==
  /\ Grown(n, history'[n]) /\ history'[n] \in Events
  /\ history'[n].kind = kind /\ history'[n].run = r /\ history'[n].call = call

\* What each step records (events.go, Append).
LEMMA PlainSaid ==
  ASSUME Base, NEW kind \in Kinds, NEW r \in Runs, NEW call \in Nat, Record(Plain(kind, r, call))
  PROVE  Says(Len(history) + 1, kind, r, call)
<1> DEFINE event == Plain(kind, r, call)
           n == Len(history) + 1
<1>1. event \in Events /\ event.kind = kind /\ event.run = r
      /\ event.call = call
  BY PlainIsEvent
<1> HIDE DEF event
<1>2. Grown(n, event)
  BY <1>1, RecordGrows DEF event
<1>3. history'[n] = event
  BY <1>2 DEF Grown
<1> QED BY <1>1, <1>2, <1>3 DEF Says

\* Which step records what, and of which run.
LEMMA StepsSay ==
  ASSUME Base, NEW r \in Runs, NEW n, n = Len(history) + 1
  PROVE  /\ Send(r) => Says(n, "user", r, 0)
         /\ CutShort(r) => Says(n, "ended", r, 0)
         /\ Finish(r) => Says(n, "ended", r, 0)
         /\ \A p : RunTool(r, p) => Says(n, "result", r, p)
         /\ \A p : \A w \in Workers : Delegate(r, p, w) => Says(n, "user", w, 0)
         /\ TakeAnswer(r) => Says(n, "result", r, doing[r])
         /\ (BuildRequest(r) /\ fresh[r]) => Says(n, "running", r, 0)
         /\ AskForTool(r) => Says(n, "call", r, 0)
         /\ CompleteTurn(r) => Says(n, "said", r, 0)
         /\ AppendFold(r) => /\ Says(n, "fold", r, 0)
                             /\ history'[n].from = plan[r].from
                             /\ history'[n].through = plan[r].through
                             /\ history'[n].tells = plan[r].tells
<1>0. /\ "user" \in Kinds /\ "ended" \in Kinds /\ "result" \in Kinds /\ "running" \in Kinds
      /\ "call" \in Kinds /\ "said" \in Kinds
  BY DEF Kinds
<1>1. Send(r) => Says(n, "user", r, 0)
  BY <1>0, PlainSaid DEF Send
<1>2. (CutShort(r) => Says(n, "ended", r, 0)) /\ (Finish(r) => Says(n, "ended", r, 0))
  BY <1>0, PlainSaid DEF CutShort, Finish
<1>3. ASSUME NEW p, RunTool(r, p) PROVE Says(n, "result", r, p)
  <2>1. p \in Nat
    BY <1>3, PendingIsKept DEF RunTool
  <2> QED BY <1>0, <1>3, <2>1, PlainSaid DEF RunTool
<1>4. ASSUME NEW p, NEW w \in Workers, Delegate(r, p, w) PROVE Says(n, "user", w, 0)
  <2>1. w \in Runs
    BY DEF Runs
  <2> QED BY <1>0, <1>4, <2>1, PlainSaid DEF Delegate
<1>5. TakeAnswer(r) => Says(n, "result", r, doing[r])
  <2>1. doing[r] \in Nat
    BY DEF Base, Typed
  <2> QED BY <1>0, <2>1, PlainSaid DEF TakeAnswer
<1>6. (BuildRequest(r) /\ fresh[r]) => Says(n, "running", r, 0)
  BY <1>0, PlainSaid DEF BuildRequest
<1>7. (AskForTool(r) => Says(n, "call", r, 0)) /\ (CompleteTurn(r) => Says(n, "said", r, 0))
  BY <1>0, PlainSaid DEF AskForTool, CompleteTurn
<1>8. ASSUME AppendFold(r)
      PROVE  /\ Says(n, "fold", r, 0)
             /\ history'[n].from = plan[r].from
             /\ history'[n].through = plan[r].through
             /\ history'[n].tells = plan[r].tells
  <2> DEFINE event == TheFold(r)
  <2>1. /\ event \in Events /\ event.kind = "fold" /\ event.run = r
        /\ event.call = 0 /\ event.from = plan[r].from /\ event.through = plan[r].through
        /\ event.tells = plan[r].tells
    BY FoldIsEvent DEF Base
  <2> HIDE DEF event
  <2>2. Grown(n, event)
    BY <1>8, <2>1, RecordGrows DEF AppendFold, event, TheFold, FoldOf
  <2>3. history'[n] = event
    BY <2>2 DEF Grown
  <2> QED BY <2>1, <2>2, <2>3 DEF Says
<1> QED BY <1>1, <1>2, <1>3, <1>4, <1>5, <1>6, <1>7, <1>8
------------------------------------------------------------------------------
\* The queue holds each waiting run once; a run that was sent has its question; one
\* whose end is recorded is over; one run of the conversation works at a time, as long
\* as none was continued; and a worker works while its parent waits for it.
Lines ==
  /\ \A i \in DOMAIN line : at[line[i]] = "waiting"
  /\ \A i, j \in DOMAIN line : line[i] = line[j] => i = j

\* A run that was sent has its question in the history.
Asked == \A r \in Runs : at[r] # "unsent" => \E p \in DOMAIN history : Question(p, r)

\* A run whose end is in the history is over.
Ended == \A p \in DOMAIN history : history[p].kind = "ended" => at[history[p].run] = "over"

\* One run of the conversation works at a time, as long as none was continued.
OneTurn ==
  NoneContinued =>
    \A r, s \in Mains : (at[r] \in Working /\ at[s] \in Working) => r = s

\* A worker is sent, works and is over, and it works only while a run waits for it.
WorkersWork ==
  \A w \in Workers :
    /\ at[w] \in {"unsent", "over"} \cup (Working \ {"delegating"})
    /\ at[w] \in Working => \E r \in Mains : at[r] = "delegating" /\ child[r] = w

\* Who works, who waits, and what of it the history shows.
Structure == Lines /\ Asked /\ Ended /\ OneTurn /\ WorkersWork

\* The runs of the conversation and the workers are told apart.
LEMMA StructureTypes ==
  ASSUME Base
  PROVE  /\ at \in [Runs -> Idle \cup Working]
         /\ child \in [Runs -> Workers \cup {NoRun}]
         /\ line \in Seq(Mains) /\ DOMAIN line = 1 .. Len(line) /\ Len(line) \in Nat
         /\ \A i \in DOMAIN line : line[i] \in Mains
         /\ Mains \subseteq Runs /\ Workers \subseteq Runs
         /\ \A r \in Runs : (r \in Mains <=> r \notin Workers) /\ r # NoRun
         /\ \A p \in DOMAIN history : history[p].run \in Runs
BY EventParts, ConversationAssumption DEF Base, Typed, Runs, ConversationAssumption

\* What the history says of questions and ends stands as it grows.
LEMMA HistoryKeepsAsked ==
  ASSUME Base, Structure, UNCHANGED history \/ \E n : Grown(n, history'[n])
  PROVE  /\ \A r \in Runs : at[r] # "unsent" =>
              \E p \in DOMAIN history' : history'[p].kind = "user" /\ history'[p].run = r
         /\ \A p \in DOMAIN history : history'[p] = history[p] /\ p \in DOMAIN history'
<1>1. \A p \in DOMAIN history : history'[p] = history[p] /\ p \in DOMAIN history'
  <2>1. ASSUME NEW n, Grown(n, history'[n]), NEW p \in DOMAIN history
        PROVE  history'[p] = history[p] /\ p \in DOMAIN history'
    BY <2>1 DEF Grown
  <2> QED BY <2>1
<1> QED BY <1>1 DEF Structure, Asked, Question

\* Steps of a run at work that neither ask, end, park nor delegate keep the structure
\* (runtime.go, execute).
LEMMA InnerKeepsStructure ==
  ASSUME Base, Structure, NEW r \in Runs,
         at[r] \in Working \ {"delegating"},
         \E there \in Working \ {"delegating"} : at' = [at EXCEPT ![r] = there],
         UNCHANGED <<line, child, decided>>,
         \/ UNCHANGED history
         \/ \E n : \E kind \in Kinds \ {"user", "ended"} : \E call : Says(n, kind, r, call)
  PROVE  Structure'
<1>1. PICK there \in Working \ {"delegating"} : at' = [at EXCEPT ![r] = there]
  OBVIOUS
<1>2. at \in [Runs -> Idle \cup Working] /\ Mains \subseteq Runs /\ Workers \subseteq Runs
      /\ \A p \in DOMAIN history : history[p].run \in Runs
      /\ \A i \in DOMAIN line : line[i] \in Mains
  BY StructureTypes
<1>3. UNCHANGED history \/ \E n : Grown(n, history'[n])
  BY DEF Says
<1>4. \A s \in Runs : /\ s # r => at'[s] = at[s]
                      /\ at'[r] = there
  BY <1>1, <1>2
<1>5. Lines'
  BY <1>2, <1>4 DEF Structure, Lines, Working
<1>6. Asked'
  <2> SUFFICES ASSUME NEW s \in Runs, at'[s] # "unsent"
               PROVE \E p \in DOMAIN history' : Question(p, s)'
    BY DEF Asked
  <2>1. at[s] # "unsent"
    BY <1>4 DEF Working
  <2> QED BY <1>3, <2>1, HistoryKeepsAsked DEF Question
<1>7. Ended'
  <2> SUFFICES ASSUME NEW p \in DOMAIN history', history'[p].kind = "ended"
               PROVE  at'[history'[p].run] = "over"
    BY DEF Ended
  <2>1. p \in DOMAIN history /\ history'[p] = history[p]
    <3>1. CASE UNCHANGED history
      BY <3>1
    <3>2. CASE \E n : \E kind \in Kinds \ {"user", "ended"} : \E call : Says(n, kind, r, call)
      <4>1. PICK n : Grown(n, history'[n]) /\ history'[n].kind # "ended"
        BY <3>2 DEF Says
      <4>2. p # n
        BY <4>1
      <4> QED BY <4>1, <4>2 DEF Grown
    <3> QED BY <3>1, <3>2
  <2>2. at[history[p].run] = "over"
    BY <2>1 DEF Structure, Ended
  <2>3. history[p].run # r
    BY <2>2 DEF Working
  <2> QED BY <1>2, <1>4, <2>1, <2>2, <2>3
<1>8. OneTurn'
  <2>1. \A s \in Mains : at'[s] \in Working => at[s] \in Working
    BY <1>2, <1>4
  <2> QED BY <2>1 DEF Structure, OneTurn, NoneContinued
<1>9. WorkersWork'
  <2> SUFFICES ASSUME NEW w \in Workers
               PROVE  /\ at'[w] \in {"unsent", "over"} \cup (Working \ {"delegating"})
                      /\ at'[w] \in Working => \E s \in Mains : at'[s] = "delegating" /\ child'[s] = w
    BY DEF WorkersWork
  <2>1. at'[w] \in {"unsent", "over"} \cup (Working \ {"delegating"})
    BY <1>2, <1>4 DEF Structure, WorkersWork
  <2>2. ASSUME at'[w] \in Working PROVE \E s \in Mains : at'[s] = "delegating" /\ child'[s] = w
    <3>1. at[w] \in Working
      BY <1>2, <1>4, <2>2
    <3>2. PICK s \in Mains : at[s] = "delegating" /\ child[s] = w
      BY <3>1 DEF Structure, WorkersWork
    <3>3. s # r
      BY <3>2
    <3> QED BY <1>2, <1>4, <3>2, <3>3
  <2> QED BY <2>1, <2>2
<1> QED BY <1>5, <1>6, <1>7, <1>8, <1>9 DEF Structure

\* What a run does in its own turn keeps the structure (runtime.go, execute).
LEMMA InnerSteps ==
  ASSUME Base, Structure, NEW r \in Runs,
         \/ \E p : RunTool(r, p)
         \/ OutOfTurns(r) \/ Compact(r)
         \/ BuildRequest(r) \/ AskForTool(r) \/ CompleteTurn(r)
  PROVE  Structure'
<1> DEFINE n == Len(history) + 1
           Quiet == UNCHANGED history
           Spoke == \E m : \E kind \in Kinds \ {"user", "ended"} : \E call : Says(m, kind, r, call)
           Moved == /\ at[r] \in Working \ {"delegating"}
                    /\ \E there \in Working \ {"delegating"} : at' = [at EXCEPT ![r] = there]
                    /\ UNCHANGED <<line, child, decided>>
<1>0. at \in [Runs -> Idle \cup Working]
  BY StructureTypes
<1>1. ASSUME NEW kind \in Kinds \ {"user", "ended"}, NEW call, Says(n, kind, r, call) PROVE Spoke
  BY <1>1
<1>2. {"result", "running", "call", "said", "fold"} \subseteq Kinds \ {"user", "ended"}
  BY DEF Kinds
<1>3. ASSUME NEW p, RunTool(r, p) PROVE Moved /\ Spoke
  <2>1. at' = [at EXCEPT ![r] = "top"] /\ at[r] = "top"
    BY <1>0, <1>3 DEF RunTool, Pending
  <2>2. Moved
    BY <1>3, <2>1 DEF RunTool, SameWork, Working
  <2>3. Says(n, "result", r, p)
    BY <1>3, StepsSay
  <2> QED BY <1>1, <1>2, <2>2, <2>3
<1>4. ASSUME OutOfTurns(r) PROVE Moved /\ Quiet
  BY <1>4 DEF OutOfTurns, AtModel, Goto, SameWork, Unrecorded, Working
<1>5. ASSUME PlanFold(r) PROVE Moved /\ Quiet
  BY <1>5 DEF PlanFold, AtModel, Goto, Unrecorded, Working
<1>6. ASSUME AppendFold(r) PROVE Moved /\ Spoke
  <2>1. Says(n, "fold", r, 0)
    BY <1>6, StepsSay
  <2> QED BY <1>1, <1>2, <1>6, <2>1 DEF AppendFold, Goto, Working
<1>7. ASSUME ChooseCut(r) PROVE Moved /\ Quiet
  BY <1>7 DEF ChooseCut, Goto, Unrecorded, Working
<1>8. ASSUME Prune(r) PROVE Moved /\ Quiet
  BY <1>8 DEF Prune, Goto, Working
<1>9. ASSUME BuildRequest(r) PROVE Moved /\ (Quiet \/ Spoke)
  <2>1. Moved
    BY <1>9 DEF BuildRequest, Goto, SameWork, Working
  <2>2. fresh[r] => Says(n, "running", r, 0)
    BY <1>9, StepsSay
  <2> QED BY <1>1, <1>2, <1>9, <2>1, <2>2 DEF BuildRequest, Unrecorded
<1>10. ASSUME AskForTool(r) PROVE Moved /\ Spoke
  <2>1. Says(n, "call", r, 0)
    BY <1>10, StepsSay
  <2> QED BY <1>1, <1>2, <1>10, <2>1 DEF AskForTool, Goto, SameWork, Working
<1>11. ASSUME CompleteTurn(r) PROVE Moved /\ Spoke
  <2>1. Says(n, "said", r, 0)
    BY <1>11, StepsSay
  <2> QED BY <1>1, <1>2, <1>11, <2>1 DEF CompleteTurn, Goto, Working
<1>12. Moved /\ (Quiet \/ Spoke)
  <2> HIDE DEF Moved, Quiet, Spoke
  <2> QED BY <1>3, <1>4, <1>5, <1>6, <1>7, <1>8, <1>9, <1>10, <1>11 DEF Compact
<1> QED BY <1>12, InnerKeepsStructure

\* A run whose step leaves the log alone and takes it somewhere else (runtime.go).
LEMMA StartNextKeepsStructure ==
  ASSUME Base, Structure, StartNext
  PROVE  Structure'
<1> DEFINE r == Head(line)
<1>1. /\ at \in [Runs -> Idle \cup Working] /\ line \in Seq(Mains) /\ Len(line) \in Nat
      /\ DOMAIN line = 1 .. Len(line) /\ \A i \in DOMAIN line : line[i] \in Mains
      /\ Mains \subseteq Runs /\ Workers \subseteq Runs
      /\ \A s \in Runs : s \in Mains <=> s \notin Workers
      /\ \A p \in DOMAIN history : history[p].run \in Runs
  BY StructureTypes
<1>2. /\ line # <<>> /\ ~ TurnTaken /\ at' = [at EXCEPT ![r] = "top"] /\ line' = Tail(line)
      /\ UNCHANGED <<log, history, child, decided>>
  BY DEF StartNext, Goto, Unrecorded
<1>3. /\ Len(line) \in Nat \ {0} /\ r = line[1] /\ r \in Mains
      /\ DOMAIN line' = 1 .. Len(line) - 1 /\ \A i \in 1 .. Len(line) - 1 : line'[i] = line[i + 1]
  BY <1>1, <1>2
<1> HIDE DEF r
<1>4. at[r] = "waiting"
  BY <1>1, <1>3 DEF Structure, Lines
<1>5. Lines'
  <2>1. \A i \in 1 .. Len(line) - 1 : i + 1 \in 1 .. Len(line) /\ line[i + 1] # line[1]
    <3> SUFFICES ASSUME NEW i \in 1 .. Len(line) - 1
                 PROVE  i + 1 \in 1 .. Len(line) /\ line[i + 1] # line[1]
      OBVIOUS
    <3>1. i + 1 \in 1 .. Len(line) /\ 1 \in 1 .. Len(line) /\ i + 1 # 1
      BY <1>3
    <3> QED BY <1>1, <3>1 DEF Structure, Lines
  <2>2. ASSUME NEW i \in 1 .. Len(line) - 1 PROVE at'[line'[i]] = "waiting"
    BY <1>1, <1>2, <1>3, <2>1 DEF Structure, Lines
  <2>3. ASSUME NEW i \in 1 .. Len(line) - 1, NEW j \in 1 .. Len(line) - 1, line'[i] = line'[j]
        PROVE  i = j
    <3>1. i + 1 \in DOMAIN line /\ j + 1 \in DOMAIN line /\ line[i + 1] = line[j + 1]
      BY <1>1, <1>3, <2>1, <2>3
    <3>2. i + 1 = j + 1
      BY <3>1 DEF Structure, Lines
    <3> QED BY <3>2
  <2> QED BY <1>3, <2>2, <2>3 DEF Lines
<1>6. Asked'
  BY <1>1, <1>2, <1>3, <1>4 DEF Structure, Asked, Question
<1>7. Ended'
  BY <1>1, <1>2, <1>4 DEF Structure, Ended
<1>8. OneTurn'
  BY <1>1, <1>2, <1>3 DEF OneTurn, TurnTaken, Continued, NoneContinued
<1>9. WorkersWork'
  <2>1. \A w \in Workers : at'[w] = at[w]
    BY <1>1, <1>2, <1>3
  <2>2. \A s \in Mains : at[s] = "delegating" => at'[s] = "delegating"
    BY <1>1, <1>2, <1>3, <1>4
  <2> QED BY <1>2, <2>1, <2>2 DEF Structure, WorkersWork
<1> QED BY <1>5, <1>6, <1>7, <1>8, <1>9 DEF Structure

\* A message sent keeps the structure (runtime.go, SendTurnTo).
LEMMA SendKeepsStructure ==
  ASSUME Base, Structure, NEW r \in Runs, Send(r)
  PROVE  Structure'
<1> DEFINE n == Len(history) + 1
<1>1. /\ at \in [Runs -> Idle \cup Working] /\ line \in Seq(Mains) /\ Len(line) \in Nat
      /\ DOMAIN line = 1 .. Len(line) /\ \A i \in DOMAIN line : line[i] \in Mains
      /\ Mains \subseteq Runs /\ Workers \subseteq Runs
      /\ \A s \in Runs : s \in Mains <=> s \notin Workers
      /\ \A p \in DOMAIN history : history[p].run \in Runs
  BY StructureTypes
<1>2. /\ r \in Mains /\ at[r] = "unsent" /\ UNCHANGED <<child, decided>>
      /\ IF TurnTaken THEN at' = [at EXCEPT ![r] = "waiting"] /\ line' = Append(line, r)
                      ELSE at' = [at EXCEPT ![r] = "top"] /\ UNCHANGED line
  BY DEF Send, Goto
<1>3. Says(n, "user", r, 0)
  BY StepsSay
<1>4. /\ n \in DOMAIN history' /\ history'[n].kind = "user" /\ history'[n].run = r
      /\ \A p \in DOMAIN history' : p = n \/ (p \in DOMAIN history /\ history'[p] = history[p])
      /\ \A p \in DOMAIN history : history'[p] = history[p] /\ p \in DOMAIN history'
  BY <1>3 DEF Says, Grown
<1>5. \A s \in Runs : s # r => at'[s] = at[s]
  BY <1>1, <1>2
<1>6. \A i \in DOMAIN line : line[i] # r
  BY <1>2 DEF Structure, Lines
<1>7. Lines'
  <2>1. CASE TurnTaken
    <3>1. /\ DOMAIN line' = 1 .. Len(line) + 1 /\ line'[Len(line) + 1] = r
          /\ \A i \in 1 .. Len(line) : line'[i] = line[i]
      BY <1>1, <1>2, <2>1
    <3>2. ASSUME NEW i \in 1 .. Len(line) + 1 PROVE at'[line'[i]] = "waiting"
      <4>1. CASE i = Len(line) + 1
        BY <1>1, <1>2, <2>1, <3>1, <4>1
      <4>2. CASE i \in 1 .. Len(line)
        BY <1>1, <1>5, <1>6, <3>1, <4>2 DEF Structure, Lines
      <4> QED BY <1>1, <4>1, <4>2
    <3>3. ASSUME NEW i \in 1 .. Len(line) + 1, NEW j \in 1 .. Len(line) + 1, line'[i] = line'[j]
          PROVE  i = j
      <4>1. CASE i \in 1 .. Len(line) /\ j \in 1 .. Len(line)
        <5>1. line[i] = line[j] /\ i \in DOMAIN line /\ j \in DOMAIN line
          BY <1>1, <3>1, <3>3, <4>1
        <5> QED BY <5>1 DEF Structure, Lines
      <4>2. CASE i = Len(line) + 1 /\ j \in 1 .. Len(line)
        BY <1>1, <1>6, <3>1, <3>3, <4>2
      <4>3. CASE j = Len(line) + 1 /\ i \in 1 .. Len(line)
        BY <1>1, <1>6, <3>1, <3>3, <4>3
      <4> QED BY <1>1, <4>1, <4>2, <4>3
    <3> QED BY <3>1, <3>2, <3>3 DEF Lines
  <2>2. CASE ~ TurnTaken
    BY <1>1, <1>2, <1>5, <1>6, <2>2 DEF Structure, Lines
  <2> QED BY <2>1, <2>2
<1>8. Asked'
  <2> SUFFICES ASSUME NEW s \in Runs, at'[s] # "unsent"
               PROVE \E p \in DOMAIN history' : Question(p, s)'
    BY DEF Asked
  <2>1. CASE s = r
    BY <1>4, <2>1 DEF Question
  <2>2. CASE s # r
    <3>1. PICK p \in DOMAIN history : Question(p, s)
      BY <1>5, <2>2 DEF Structure, Asked
    <3> QED BY <1>4, <3>1 DEF Question
  <2> QED BY <2>1, <2>2
<1>9. Ended'
  <2> SUFFICES ASSUME NEW p \in DOMAIN history', history'[p].kind = "ended"
               PROVE  at'[history'[p].run] = "over"
    BY DEF Ended
  <2>1. p \in DOMAIN history /\ history'[p] = history[p]
    BY <1>4
  <2>2. at[history[p].run] = "over"
    BY <2>1 DEF Structure, Ended
  <2> QED BY <1>1, <1>2, <1>5, <2>1, <2>2
<1>10. OneTurn'
  BY <1>1, <1>2, <1>5 DEF Structure, OneTurn, TurnTaken, Continued, NoneContinued, Working
<1>11. WorkersWork'
  BY <1>1, <1>2, <1>5 DEF Structure, WorkersWork
<1> QED BY <1>7, <1>8, <1>9, <1>10, <1>11 DEF Structure

\* What is left of the queue once a run is taken out of it.
LEMMA TakenOutLines ==
  ASSUME Base, Structure, NEW r, NEW rest, rest = TakenOut(r)
  PROVE  /\ \A i \in DOMAIN rest : rest[i] # r /\ at[rest[i]] = "waiting" /\ rest[i] \in Mains
         /\ \A i, j \in DOMAIN rest : rest[i] = rest[j] => i = j
<1>1. line \in Seq(Mains) /\ DOMAIN line = 1 .. Len(line) /\ Len(line) \in Nat
  BY StructureTypes
<1>2. /\ \A i \in DOMAIN line : at[line[i]] = "waiting" /\ line[i] \in Mains
      /\ \A i, j \in DOMAIN line : line[i] = line[j] => i = j
  BY StructureTypes DEF Structure, Lines
<1>3. CASE \E i \in DOMAIN line : line[i] = r
  <2> DEFINE k == CHOOSE j \in DOMAIN line : line[j] = r
             Old(i) == IF i < k THEN i ELSE i + 1
  <2>1. k \in 1 .. Len(line) /\ line[k] = r
    BY <1>1, <1>3
  <2>2. rest = RemoveAt(line, k)
    BY <1>3 DEF TakenOut
  <2> HIDE DEF k
  <2>3. rest \in Seq(Mains) /\ Len(rest) = Len(line) - 1
    BY <1>1, <2>1, <2>2, RemoveAtParts
  <2>6. DOMAIN rest = 1 .. Len(line) - 1
    BY <2>3
  <2>7. \A i \in 1 .. Len(line) - 1 : rest[i] = line[Old(i)]
    BY <1>1, <2>1, <2>2, RemoveAtParts
  <2>8. \A i \in 1 .. Len(line) - 1 : Old(i) \in DOMAIN line /\ Old(i) # k
    BY <1>1, <2>1
  <2>9. \A i, j \in 1 .. Len(line) - 1 : Old(i) = Old(j) => i = j
    BY <1>1, <2>1
  <2>10. k \in DOMAIN line
    BY <1>1, <2>1
  <2> HIDE DEF Old
  <2>11. \A i \in DOMAIN rest : rest[i] # r /\ at[rest[i]] = "waiting" /\ rest[i] \in Mains
    BY <1>2, <2>1, <2>6, <2>7, <2>8, <2>10
  <2>12. \A i, j \in DOMAIN rest : rest[i] = rest[j] => i = j
    BY <1>2, <2>6, <2>7, <2>8, <2>9
  <2> QED BY <2>11, <2>12
<1>4. CASE ~ \E i \in DOMAIN line : line[i] = r
  BY <1>2, <1>4 DEF TakenOut
<1> QED BY <1>3, <1>4

\* A run's end, from inside or from outside.
LEMMA EndKeepsStructure ==
  ASSUME Base, Structure, NEW r \in Runs, at[r] # "unsent",
         at[r] = "delegating" => at[child[r]] = "over",
         at' = [at EXCEPT ![r] = "over"], UNCHANGED <<child, decided>>,
         Says(Len(history) + 1, "ended", r, 0),
         line' = TakenOut(r) \/ (UNCHANGED line /\ at[r] # "waiting")
  PROVE  Structure'
<1> DEFINE n == Len(history) + 1
<1>1. /\ at \in [Runs -> Idle \cup Working]
      /\ \A i \in DOMAIN line : line[i] \in Mains
      /\ Mains \subseteq Runs /\ Workers \subseteq Runs
      /\ \A p \in DOMAIN history : history[p].run \in Runs
  BY StructureTypes
<1>4. /\ n \in DOMAIN history' /\ history'[n].kind = "ended" /\ history'[n].run = r
      /\ \A p \in DOMAIN history' : p = n \/ (p \in DOMAIN history /\ history'[p] = history[p])
      /\ \A p \in DOMAIN history : history'[p] = history[p] /\ p \in DOMAIN history'
  BY DEF Says, Grown
<1>5. \A s \in Runs : s # r => at'[s] = at[s]
  BY <1>1
<1>6. Lines'
  <2>1. CASE line' = TakenOut(r)
    BY <1>1, <1>5, <2>1, TakenOutLines DEF Lines
  <2>2. CASE UNCHANGED line /\ at[r] # "waiting"
    <3>1. \A i \in DOMAIN line : line[i] # r /\ at[line[i]] = "waiting"
      BY <2>2 DEF Structure, Lines
    <3> QED BY <1>1, <1>5, <2>2, <3>1 DEF Structure, Lines
  <2> QED BY <2>1, <2>2
<1>7. Asked'
  <2> SUFFICES ASSUME NEW s \in Runs, at'[s] # "unsent"
               PROVE \E p \in DOMAIN history' : Question(p, s)'
    BY DEF Asked
  <2>1. at[s] # "unsent"
    BY <1>5
  <2>2. PICK p \in DOMAIN history : Question(p, s)
    BY <2>1 DEF Structure, Asked
  <2> QED BY <1>4, <2>2 DEF Question
<1>8. Ended'
  <2> SUFFICES ASSUME NEW p \in DOMAIN history', history'[p].kind = "ended"
               PROVE  at'[history'[p].run] = "over"
    BY DEF Ended
  <2>1. CASE p = n
    BY <1>1, <1>4, <2>1
  <2>2. CASE p # n
    <3>1. p \in DOMAIN history /\ history'[p] = history[p]
      BY <1>4, <2>2
    <3>2. at[history[p].run] = "over"
      BY <3>1 DEF Structure, Ended
    <3> QED BY <1>1, <1>5, <3>1, <3>2
  <2> QED BY <2>1, <2>2
<1>9. OneTurn'
  <2>1. \A s \in Mains : at'[s] \in Working => at[s] \in Working
    BY <1>1 DEF Working
  <2> QED BY <2>1 DEF Structure, OneTurn, NoneContinued
<1>10. WorkersWork'
  <2> SUFFICES ASSUME NEW w \in Workers
               PROVE  /\ at'[w] \in {"unsent", "over"} \cup (Working \ {"delegating"})
                      /\ at'[w] \in Working => \E s \in Mains : at'[s] = "delegating" /\ child'[s] = w
    BY DEF WorkersWork
  <2>1. at'[w] \in {"unsent", "over"} \cup (Working \ {"delegating"})
    BY <1>1, <1>5 DEF Structure, WorkersWork
  <2>2. ASSUME at'[w] \in Working PROVE \E s \in Mains : at'[s] = "delegating" /\ child'[s] = w
    <3>1. at[w] \in Working
      BY <1>1, <2>2 DEF Working
    <3>2. PICK s \in Mains : at[s] = "delegating" /\ child[s] = w
      BY <3>1 DEF Structure, WorkersWork
    <3>3. s # r
      BY <3>1, <3>2 DEF Working
    <3> QED BY <1>1, <1>5, <3>2, <3>3
  <2> QED BY <2>1, <2>2
<1> QED BY <1>6, <1>7, <1>8, <1>9, <1>10 DEF Structure

\* A run that waits for a person, or goes on after one decided (runtime.go, execute).
LEMMA ParkKeepsStructure ==
  ASSUME Base, Structure, NEW r \in Runs, NEW p, Park(r, p)
  PROVE  Structure'
<1>1. /\ at \in [Runs -> Idle \cup Working]
      /\ \A i \in DOMAIN line : line[i] \in Mains
      /\ Mains \subseteq Runs /\ Workers \subseteq Runs
      /\ \A s \in Runs : s \in Mains <=> s \notin Workers
      /\ \A q \in DOMAIN history : history[q].run \in Runs
  BY StructureTypes
<1>2. /\ r \in Mains /\ at[r] = "top" /\ at' = [at EXCEPT ![r] = "parked"]
      /\ UNCHANGED <<history, line, child, decided>>
  BY DEF Park, Pending, Goto, Unrecorded
<1>3. at'[r] = "parked" /\ \A s \in Runs : s # r => at'[s] = at[s]
  BY <1>1, <1>2
<1>4. Lines'
  BY <1>1, <1>2, <1>3 DEF Structure, Lines
<1>5. Asked'
  BY <1>1, <1>2, <1>3 DEF Structure, Asked, Question
<1>6. Ended'
  BY <1>1, <1>2, <1>3 DEF Structure, Ended
<1>7. OneTurn'
  <2>1. \A s \in Mains : at'[s] \in Working => at[s] \in Working
    BY <1>1, <1>3 DEF Working
  <2> QED BY <1>2, <2>1 DEF Structure, OneTurn, NoneContinued
<1>8. WorkersWork'
  BY <1>1, <1>2, <1>3 DEF Structure, WorkersWork
<1> QED BY <1>4, <1>5, <1>6, <1>7, <1>8 DEF Structure

\* A decision keeps the structure (approval.go, resume).
LEMMA DecideKeepsStructure ==
  ASSUME Base, Structure, NEW r \in Runs, Decide(r)
  PROVE  Structure'
<1>1. /\ at \in [Runs -> Idle \cup Working]
      /\ \A i \in DOMAIN line : line[i] \in Mains
      /\ Mains \subseteq Runs /\ Workers \subseteq Runs
      /\ \A s \in Runs : s \in Mains <=> s \notin Workers
      /\ \A q \in DOMAIN history : history[q].run \in Runs
  BY StructureTypes
<1>2. /\ at[r] = "parked" /\ at' = [at EXCEPT ![r] = "top"]
      /\ decided' = decided \cup {doing[r]} /\ UNCHANGED <<history, line, child>>
  BY DEF Decide, Goto, Unrecorded
<1>3. at'[r] = "top" /\ \A s \in Runs : s # r => at'[s] = at[s]
  BY <1>1, <1>2
<1>4. Lines'
  BY <1>1, <1>2, <1>3 DEF Structure, Lines
<1>5. Asked'
  BY <1>1, <1>2, <1>3 DEF Structure, Asked, Question
<1>6. Ended'
  BY <1>1, <1>2, <1>3 DEF Structure, Ended
<1>7. OneTurn'
  BY <1>2 DEF OneTurn, NoneContinued
<1>8. WorkersWork'
  <2>1. r \notin Workers
    BY <1>2 DEF Structure, WorkersWork, Working
  <2> QED BY <1>1, <1>2, <1>3, <2>1 DEF Structure, WorkersWork
<1> QED BY <1>4, <1>5, <1>6, <1>7, <1>8 DEF Structure

\* A worker's answer that is taken keeps the structure (investigate.go).
LEMMA TakeAnswerKeepsStructure ==
  ASSUME Base, Structure, NEW r \in Runs, TakeAnswer(r)
  PROVE  Structure'
<1> DEFINE n == Len(history) + 1
<1>1. /\ at \in [Runs -> Idle \cup Working]
      /\ \A i \in DOMAIN line : line[i] \in Mains
      /\ Mains \subseteq Runs /\ Workers \subseteq Runs
      /\ \A s \in Runs : s \in Mains <=> s \notin Workers
      /\ \A q \in DOMAIN history : history[q].run \in Runs
  BY StructureTypes
<1>2. /\ at[r] = "delegating" /\ at[child[r]] = "over" /\ at' = [at EXCEPT ![r] = "top"]
      /\ UNCHANGED <<line, child, decided>>
  BY DEF TakeAnswer, Goto, SameWork
<1>3. at'[r] = "top" /\ \A s \in Runs : s # r => at'[s] = at[s]
  BY <1>1, <1>2
<1>4. /\ n \in DOMAIN history' /\ history'[n].kind = "result"
      /\ \A p \in DOMAIN history' : p = n \/ (p \in DOMAIN history /\ history'[p] = history[p])
      /\ \A p \in DOMAIN history : history'[p] = history[p] /\ p \in DOMAIN history'
  <2>1. Says(n, "result", r, doing[r])
    BY StepsSay
  <2> QED BY <2>1 DEF Says, Grown
<1>5. Lines'
  BY <1>1, <1>2, <1>3 DEF Structure, Lines
<1>6. Asked'
  <2> SUFFICES ASSUME NEW s \in Runs, at'[s] # "unsent"
               PROVE \E p \in DOMAIN history' : Question(p, s)'
    BY DEF Asked
  <2>1. at[s] # "unsent"
    BY <1>2, <1>3
  <2>2. PICK p \in DOMAIN history : Question(p, s)
    BY <2>1 DEF Structure, Asked
  <2> QED BY <1>4, <2>2 DEF Question
<1>7. Ended'
  <2> SUFFICES ASSUME NEW p \in DOMAIN history', history'[p].kind = "ended"
               PROVE  at'[history'[p].run] = "over"
    BY DEF Ended
  <2>1. p \in DOMAIN history /\ history'[p] = history[p]
    BY <1>4
  <2>2. at[history[p].run] = "over"
    BY <2>1 DEF Structure, Ended
  <2> QED BY <1>1, <1>2, <1>3, <2>1, <2>2
<1>8. OneTurn'
  <2>1. \A s \in Mains : at'[s] \in Working => at[s] \in Working
    BY <1>1, <1>2, <1>3 DEF Working
  <2> QED BY <1>2, <2>1 DEF Structure, OneTurn, NoneContinued
<1>9. WorkersWork'
  <2> SUFFICES ASSUME NEW w \in Workers
               PROVE  /\ at'[w] \in {"unsent", "over"} \cup (Working \ {"delegating"})
                      /\ at'[w] \in Working => \E s \in Mains : at'[s] = "delegating" /\ child'[s] = w
    BY DEF WorkersWork
  <2>1. w # r /\ at'[w] = at[w]
    BY <1>1, <1>2, <1>3 DEF Structure, WorkersWork
  <2>2. ASSUME at'[w] \in Working PROVE \E s \in Mains : at'[s] = "delegating" /\ child'[s] = w
    <3>1. PICK s \in Mains : at[s] = "delegating" /\ child[s] = w
      BY <2>1, <2>2 DEF Structure, WorkersWork
    <3>2. s # r
      BY <1>2, <2>1, <2>2, <3>1 DEF Working
    <3> QED BY <1>1, <1>2, <1>3, <3>1, <3>2
  <2> QED BY <2>1, <2>2 DEF Structure, WorkersWork
<1> QED BY <1>5, <1>6, <1>7, <1>8, <1>9 DEF Structure

\* A worker that is sent keeps the structure (investigate.go, Investigate).
LEMMA DelegateKeepsStructure ==
  ASSUME Base, Structure, NEW r \in Runs, NEW p, NEW w \in Workers, Delegate(r, p, w)
  PROVE  Structure'
<1> DEFINE n == Len(history) + 1
<1>1. /\ at \in [Runs -> Idle \cup Working] /\ child \in [Runs -> Workers \cup {NoRun}]
      /\ \A i \in DOMAIN line : line[i] \in Mains
      /\ Mains \subseteq Runs /\ Workers \subseteq Runs
      /\ \A s \in Runs : s \in Mains <=> s \notin Workers
      /\ \A q \in DOMAIN history : history[q].run \in Runs
  BY StructureTypes
<1>2. /\ r \in Mains /\ at[r] = "top" /\ at[w] = "unsent"
      /\ at' = [at EXCEPT ![r] = "delegating", ![w] = "top"]
      /\ child' = [child EXCEPT ![r] = w]
      /\ UNCHANGED <<line, decided>>
  BY DEF Delegate, Pending
<1>3. /\ at'[r] = "delegating" /\ at'[w] = "top" /\ child'[r] = w /\ r # w
      /\ \A s \in Runs : (s # r /\ s # w) => at'[s] = at[s]
      /\ \A s \in Runs : s # r => child'[s] = child[s]
  BY <1>1, <1>2
<1>4. /\ n \in DOMAIN history' /\ history'[n].kind = "user" /\ history'[n].run = w
      /\ \A q \in DOMAIN history' : q = n \/ (q \in DOMAIN history /\ history'[q] = history[q])
      /\ \A q \in DOMAIN history : history'[q] = history[q] /\ q \in DOMAIN history'
  <2>1. Says(n, "user", w, 0)
    BY StepsSay
  <2> QED BY <2>1 DEF Says, Grown
<1>5. Lines'
  <2>1. \A i \in DOMAIN line : line[i] # r /\ line[i] # w
    BY <1>2 DEF Structure, Lines
  <2> QED BY <1>1, <1>2, <1>3, <2>1 DEF Structure, Lines
<1>6. Asked'
  <2> SUFFICES ASSUME NEW s \in Runs, at'[s] # "unsent"
               PROVE \E q \in DOMAIN history' : Question(q, s)'
    BY DEF Asked
  <2>1. CASE s = w
    BY <1>4, <2>1 DEF Question
  <2>2. CASE s # w
    <3>1. PICK q \in DOMAIN history : Question(q, s)
      BY <1>2, <1>3, <2>2 DEF Structure, Asked
    <3> QED BY <1>4, <3>1 DEF Question
  <2> QED BY <2>1, <2>2
<1>7. Ended'
  <2> SUFFICES ASSUME NEW q \in DOMAIN history', history'[q].kind = "ended"
               PROVE  at'[history'[q].run] = "over"
    BY DEF Ended
  <2>1. q \in DOMAIN history /\ history'[q] = history[q]
    BY <1>4
  <2>2. at[history[q].run] = "over"
    BY <2>1 DEF Structure, Ended
  <2> QED BY <1>1, <1>2, <1>3, <2>1, <2>2
<1>8. OneTurn'
  <2>1. \A s \in Mains : at'[s] \in Working => at[s] \in Working
    BY <1>1, <1>2, <1>3 DEF Working
  <2> QED BY <1>2, <2>1 DEF Structure, OneTurn, NoneContinued
<1>9. WorkersWork'
  <2> SUFFICES ASSUME NEW v \in Workers
               PROVE  /\ at'[v] \in {"unsent", "over"} \cup (Working \ {"delegating"})
                      /\ at'[v] \in Working => \E s \in Mains : at'[s] = "delegating" /\ child'[s] = v
    BY DEF WorkersWork
  <2>1. CASE v = w
    BY <1>2, <1>3, <2>1 DEF Working
  <2>2. CASE v # w
    <3>1. at'[v] = at[v]
      BY <1>1, <1>2, <1>3, <2>2
    <3>2. ASSUME at'[v] \in Working PROVE \E s \in Mains : at'[s] = "delegating" /\ child'[s] = v
      <4>1. PICK s \in Mains : at[s] = "delegating" /\ child[s] = v
        BY <3>1, <3>2 DEF Structure, WorkersWork
      <4>2. s # r /\ s # w
        BY <1>1, <1>2, <4>1
      <4> QED BY <1>1, <1>3, <4>1, <4>2
    <3> QED BY <3>1, <3>2 DEF Structure, WorkersWork
  <2> QED BY <2>1, <2>2
<1> QED BY <1>5, <1>6, <1>7, <1>8, <1>9 DEF Structure

\* Every step keeps the structure.
LEMMA NextKeepsStructure == Base /\ Structure /\ [Next]_vars => Structure'
<1> SUFFICES ASSUME Base, Structure, [Next]_vars PROVE Structure'
  OBVIOUS
<1>1. CASE StartNext
  BY <1>1, StartNextKeepsStructure
<1>2. CASE \E r \in Runs : Send(r)
  BY <1>2, SendKeepsStructure
<1>3. ASSUME NEW r \in Runs, CutShort(r) PROVE Structure'
  <2>1. /\ at[r] # "unsent" /\ (at[r] = "delegating" => at[child[r]] = "over")
        /\ at' = [at EXCEPT ![r] = "over"] /\ UNCHANGED <<child, decided>>
        /\ line' = TakenOut(r)
    BY <1>3 DEF CutShort, Goto, Working
  <2>2. Says(Len(history) + 1, "ended", r, 0)
    BY <1>3, StepsSay
  <2> QED BY <2>1, <2>2, EndKeepsStructure
<1>4. ASSUME NEW r \in Runs, Loop(r) PROVE Structure'
  <2>2. CASE Settle(r)
    <3>1. PICK p \in DOMAIN log :
            RunTool(r, p) \/ Park(r, p) \/ \E w \in Workers : Delegate(r, p, w)
      BY <2>2 DEF Settle
    <3> QED BY <3>1, InnerSteps, ParkKeepsStructure, DelegateKeepsStructure
  <2>3. CASE Compact(r) \/ OutOfTurns(r) \/ BuildRequest(r) \/ AskForTool(r) \/ CompleteTurn(r)
    BY <2>3, InnerSteps
  <2>4. CASE Decide(r) \/ TakeAnswer(r)
    BY <2>4, DecideKeepsStructure, TakeAnswerKeepsStructure
  <2>5. CASE Finish(r)
    <3>1. /\ at[r] = "ending" /\ at' = [at EXCEPT ![r] = "over"]
          /\ UNCHANGED <<line, child, decided>>
      BY <2>5 DEF Finish, Goto, SameWork
    <3>2. Says(Len(history) + 1, "ended", r, 0)
      BY <2>5, StepsSay
    <3>3. at[r] # "unsent" /\ at[r] # "delegating" /\ at[r] # "waiting"
      BY <3>1
    <3> QED BY <3>1, <3>2, <3>3, EndKeepsStructure
  <2> QED BY <1>4, <2>2, <2>3, <2>4, <2>5 DEF Loop
<1>5. CASE UNCHANGED vars
  BY <1>5 DEF vars, Structure, Lines, Asked, Question, Ended, OneTurn, NoneContinued, WorkersWork
<1> QED BY <1>1, <1>2, <1>3, <1>4, <1>5 DEF Next

\* Nobody works in a conversation in which nothing was said yet.
LEMMA InitStructure == Init => Structure
<1> SUFFICES ASSUME Init PROVE Structure
  OBVIOUS
<1>1. /\ DOMAIN history = {} /\ DOMAIN line = {} /\ at = [r \in Runs |-> "unsent"]
      /\ Mains \subseteq Runs /\ Workers \subseteq Runs
  BY DEF Init, Runs
<1> QED BY <1>1 DEF Structure, Lines, Asked, Ended, OneTurn, WorkersWork, Working

\* One run of the conversation at a time, and a worker only for the run that waits for
\* it, in every behaviour (runtime.go, runTools; investigate.go).
THEOREM StructureHolds == Spec => []Structure
BY InitStructure, BaseHolds, NextKeepsStructure, PTL DEF Spec

\* Whenever a request is built, what the run was asked is in it, or a fold reaches past
\* it (conversation.go, finish).
THEOREM QuestionsStay == Spec => []QuestionsAreAsked
<1>1. Base /\ Structure => QuestionsAreAsked
  <2> SUFFICES ASSUME Base, Structure, NEW r \in Mains, at[r] = "building"
               PROVE  \E p \in DOMAIN history :
                        /\ Question(p, r)
                        /\ p \in Known(r) \/ \E f \in FoldsOf(log) : p <= log[f].through
    BY DEF QuestionsAreAsked
  <2> DEFINE folds == VisibleTo(log, r) \cap FoldsOf(log)
  <2>0. LogFine(log) /\ r \in Runs /\ r \notin Workers
    BY BaseLogFine, StructureTypes
  <2>1. PICK p \in DOMAIN history : Question(p, r)
    BY <2>0 DEF Structure, Asked
  <2>2. CASE p \notin DOMAIN log
    BY <2>1, <2>2 DEF Base, Covered
  <2>3. CASE p \in DOMAIN log /\ p <= Reach(log, r)
    <3>1. folds # {}
      <4> SUFFICES ASSUME folds = {} PROVE FALSE
        OBVIOUS
      <4>1. Reach(log, r) = 0
        BY <2>0, ReachIsOfTheLastFold
      <4> QED BY <2>0, <2>3, <4>1, Positions
    <3>2. Reach(log, r) = log[Max(folds)].through /\ Max(folds) \in folds
      BY <2>0, <3>1, ReachIsOfTheLastFold
    <3> QED BY <2>1, <2>3, <3>2
  <2>4. CASE p \in DOMAIN log /\ p > Reach(log, r)
    <3>1. log[p].kind = "user" /\ log[p].run = r
      BY <2>1, <2>4 DEF Base, LogStands, Question
    <3>2. p \in Replayed(log, r)
      BY <2>0, <2>4, <3>1 DEF Replayed, VisibleTo, FoldsOf
    <3>3. ~ Dropped(log, r, p, Replayed(log, r))
      <4> DEFINE events == Replayed(log, r)
                 deeds == {q \in events : log[q].run = log[p].run /\ log[q].kind # "user"}
      <4>1. events \in SUBSET DOMAIN log
        BY <2>0, ReplayedIsKept
      <4>0. events = Replayed(log, r)
        OBVIOUS
      <4> HIDE DEF events
      <4>2. CASE deeds = {}
        BY <3>1, <4>0, <4>2 DEF Dropped
      <4>3. CASE deeds # {}
        <5>1. deeds \in SUBSET DOMAIN log
          BY <4>1
        <5>2. Min(deeds) \in deeds
          <6> HIDE DEF deeds
          <6> QED BY <2>0, <4>3, <5>1, Extremes
        <5>3. Min(deeds) \in DOMAIN log /\ log[Min(deeds)].run = r
          BY <3>1, <5>1, <5>2
        <5>4. log[Min(deeds)].kind # "ended"
          <6> HIDE DEF deeds
          <6> QED BY <5>3 DEF Base, LogStands, Structure, Ended
        <5> QED BY <3>1, <4>0, <4>3, <5>4 DEF Dropped
      <4> QED BY <4>2, <4>3
    <3>4. p \in Shown(log, r)
      BY <3>1, <3>2, <3>3 DEF Shown
    <3>5. p \in Told(Conversation(log, r))
      BY <2>0, <3>4, ToldIs
    <3> QED BY <2>1, <3>5 DEF Known
  <2>5. p \in DOMAIN log => p <= Reach(log, r) \/ p > Reach(log, r)
    <3>1. Reach(log, r) \in Nat
      BY <2>0, ReachIsOfTheLastFold
    <3>2. p \in DOMAIN log => p \in Nat
      BY <2>0, Positions
    <3> QED BY <3>1, <3>2
  <2> QED BY <2>2, <2>3, <2>4, <2>5
<1> QED BY BaseHolds, StructureHolds, <1>1, PTL

\* The steps that record an event, as steps of the log alone.
LEMMA SaysIsAppend ==
  ASSUME Base, Base', NEW q \in Runs, NEW r, NEW kind, NEW call,
         Says(Len(history) + 1, kind, r, call),
         cut' \in {cut, [cut EXCEPT ![q] = 0]}
  PROVE  Kept!AppendNext
<1> DEFINE n == Len(history) + 1
<1>1. /\ Len(history) \in Nat /\ Len(history') = Len(history) + 1
      /\ DOMAIN log' = DOMAIN log \cup {Len(history')}
      /\ \A p \in DOMAIN log : log'[p] = log[p]
      /\ log'[Len(history')] = history'[Len(history')]
      /\ Len(history') \in DOMAIN history'
  BY DEF Says, Grown, Base, Typed
<1>2. history'[Len(history')].through \in 0 .. Len(history)
  <2>1. Typed'
    BY DEF Base
  <2>2. history'[Len(history')].through \in Nat
    <3>1. history' \in Seq(Events)
      BY <2>1 DEF Typed
    <3>2. history'[Len(history')] \in Events
      BY <1>1, <3>1
    <3> QED BY <3>2 DEF Events
  <2>3. history'[Len(history')].through < Len(history')
    BY <1>1 DEF Base, EventsStand, PointsBack
  <2> QED BY <1>1, <2>2, <2>3
<1> QED BY <1>1, <1>2 DEF Kept!AppendNext

\* Every step of a run is a step of the log it shares, or leaves that alone: an append,
\* a choice of how much to discard, or a discard (retention.go, PruneSession; events.go).
LEMMA StepIsKept ==
  Base /\ Base' /\ [Next]_vars => [Kept!RetentionNext]_(Kept!retention)
<1> SUFFICES ASSUME Base, Base', [Next]_vars PROVE [Kept!RetentionNext]_(Kept!retention)
  OBVIOUS
<1> DEFINE n == Len(history) + 1
           Quiet == UNCHANGED <<log, history, cut>>
           Appends == Kept!AppendNext
<1>1. Quiet => [Kept!RetentionNext]_(Kept!retention)
  BY DEF Kept!retention
<1>2. Appends => [Kept!RetentionNext]_(Kept!retention)
  BY DEF Kept!RetentionNext
<1>3. ASSUME NEW r \in Runs, NEW q, NEW kind, NEW call, Says(n, kind, q, call), UNCHANGED cut
      PROVE  Appends
  BY <1>3, SaysIsAppend
<1>4. ASSUME StartNext PROVE Quiet
  BY <1>4 DEF StartNext, Unrecorded
<1>5. ASSUME NEW r \in Runs, Send(r) PROVE Appends
  <2>1. Says(n, "user", r, 0) /\ UNCHANGED cut
    BY <1>5, StepsSay DEF Send
  <2> QED BY <1>3, <2>1
<1>6. ASSUME NEW r \in Runs, CutShort(r) PROVE Appends
  <2>1. Says(n, "ended", r, 0) /\ cut' = [cut EXCEPT ![r] = 0]
    BY <1>6, StepsSay DEF CutShort
  <2> QED BY <2>1, SaysIsAppend
<1>7. ASSUME NEW r \in Runs, NEW p, RunTool(r, p) PROVE Appends
  <2>1. Says(n, "result", r, p) /\ UNCHANGED cut
    BY <1>7, StepsSay DEF RunTool, SameWork
  <2> QED BY <1>3, <2>1
<1>8. ASSUME NEW r \in Runs, NEW p, Park(r, p) PROVE Quiet
  BY <1>8 DEF Park, Unrecorded
<1>9. ASSUME NEW r \in Runs, NEW p, NEW w \in Workers, Delegate(r, p, w) PROVE Appends
  <2>1. Says(n, "user", w, 0) /\ UNCHANGED cut
    BY <1>9, StepsSay DEF Delegate
  <2> QED BY <1>3, <2>1
<1>10. ASSUME NEW r \in Runs, Decide(r) \/ OutOfTurns(r) \/ PlanFold(r) PROVE Quiet
  BY <1>10 DEF Decide, OutOfTurns, PlanFold, Unrecorded, SameWork
<1>11. ASSUME NEW r \in Runs, TakeAnswer(r) PROVE Appends
  <2>1. Says(n, "result", r, doing[r]) /\ UNCHANGED cut
    BY <1>11, StepsSay DEF TakeAnswer, SameWork
  <2> QED BY <1>3, <2>1
<1>12. ASSUME NEW r \in Runs, AppendFold(r) PROVE Appends
  <2>1. Says(n, "fold", r, 0) /\ UNCHANGED cut
    BY <1>12, StepsSay DEF AppendFold
  <2> QED BY <1>3, <2>1
<1>13. ASSUME NEW r \in Runs, ChooseCut(r) PROVE Quiet \/ Kept!DecideCut(r)
  <2>1. UNCHANGED <<log, history>>
    BY <1>13 DEF ChooseCut, Unrecorded
  <2>2. CASE UNCHANGED cut
    BY <2>1, <2>2
  <2>3. CASE \E c \in SafeCuts(log, KeepAfterFold) : cut' = [cut EXCEPT ![r] = c]
    <3>1. PICK c \in SafeCuts(log, KeepAfterFold) : cut' = [cut EXCEPT ![r] = c]
      BY <2>3
    <3> DEFINE fold == Max(FoldsOf(log))
    <3>2. c \in Nat \ {0} /\ fold \in FoldsOf(log) /\ c < fold /\ c <= log[fold].through
      BY CutsAreSafe
    <3>3. log[fold].through \in Nat
      BY <3>2, BaseLogFine DEF LogFine, FoldsOf
    <3>4. c \in 1 .. log[fold].through
      BY <3>2, <3>3
    <3> HIDE DEF fold
    <3>5. fold \in Kept!FoldsOf(log)
      BY <3>2 DEF Kept!FoldsOf, FoldsOf
    <3> QED BY <2>1, <3>1, <3>2, <3>4, <3>5 DEF Kept!DecideCut
  <2> QED BY <1>13, <2>2, <2>3 DEF ChooseCut
<1>14. ASSUME NEW r \in Runs, Prune(r) PROVE Kept!Discard(r)
  <2>1. /\ DOMAIN log' \subseteq DOMAIN log /\ \A p \in DOMAIN log' : log'[p] = log[p]
        /\ \A p \in DOMAIN log : p \in DOMAIN log' <=> (p > cut[r] \/ p \in FoldsOf(log))
        /\ cut' = [cut EXCEPT ![r] = 0] /\ UNCHANGED history
    BY <1>14, PruneLeaves
  <2>2. cut[r] \in Nat /\ \A p \in DOMAIN log : p \in Nat
    BY BaseLogFine, Positions DEF Base, Typed
  <2>3. \A p \in DOMAIN log \ DOMAIN log' : p <= cut[r] /\ p \notin FoldsOf(log)
    BY <2>1, <2>2
  <2> QED BY <2>1, <2>3 DEF Kept!Discard, Kept!FoldsOf, FoldsOf
<1>15. ASSUME NEW r \in Runs, BuildRequest(r) PROVE Quiet \/ Appends
  <2>1. UNCHANGED cut
    BY <1>15 DEF BuildRequest, SameWork
  <2>2. CASE fresh[r]
    <3>1. Says(n, "running", r, 0)
      BY <1>15, <2>2, StepsSay
    <3> QED BY <1>3, <2>1, <3>1
  <2>3. CASE ~ fresh[r]
    BY <1>15, <2>1, <2>3 DEF BuildRequest, Unrecorded
  <2> QED BY <2>2, <2>3
<1>16. ASSUME NEW r \in Runs, AskForTool(r) PROVE Appends
  <2>1. Says(n, "call", r, 0) /\ UNCHANGED cut
    BY <1>16, StepsSay DEF AskForTool, SameWork
  <2> QED BY <1>3, <2>1
<1>17. ASSUME NEW r \in Runs, CompleteTurn(r) PROVE Appends
  <2>1. Says(n, "said", r, 0) /\ UNCHANGED cut
    BY <1>17, StepsSay DEF CompleteTurn
  <2> QED BY <1>3, <2>1
<1>18. ASSUME NEW r \in Runs, Finish(r) PROVE Appends
  <2>1. Says(n, "ended", r, 0) /\ UNCHANGED cut
    BY <1>18, StepsSay DEF Finish, SameWork
  <2> QED BY <1>3, <2>1
<1>19. ASSUME UNCHANGED vars PROVE Quiet
  BY <1>19 DEF vars
<1> HIDE DEF Quiet, Appends
<1>20. ASSUME NEW r \in Runs, Loop(r)
       PROVE  Quiet \/ Appends \/ Kept!DecideCut(r) \/ Kept!Discard(r)
  <2>1. CASE Settle(r)
    <3>1. PICK p \in DOMAIN log :
            RunTool(r, p) \/ Park(r, p) \/ \E w \in Workers : Delegate(r, p, w)
      BY <2>1 DEF Settle
    <3> QED BY <3>1, <1>7, <1>8, <1>9
  <2>2. CASE Compact(r)
    BY <2>2, <1>10, <1>12, <1>13, <1>14 DEF Compact
  <2>3. CASE ~ Settle(r) /\ ~ Compact(r)
    BY <1>20, <2>3, <1>10, <1>11, <1>15, <1>16, <1>17, <1>18 DEF Loop
  <2> QED BY <2>1, <2>2, <2>3
<1>21. \A r \in Runs : Kept!DecideCut(r) \/ Kept!Discard(r) => Kept!RetentionNext
  BY DEF Kept!RetentionNext
<1> QED BY <1>1, <1>2, <1>4, <1>5, <1>6, <1>19, <1>20, <1>21 DEF Next

\* The conversation, its folds, its workers and its pruning keep the promise the store
\* makes of a session's log (retention.go; events.go).
THEOREM ConversationKeepsItsLog == Spec => LogIsKept
<1>1. Init => Kept!RetentionInit
  BY DEF Init, Kept!RetentionInit, EmptyLog, Kept!EmptyLog, Plain, Kept!Plain
<1> QED BY <1>1, BaseHolds, StepIsKept, PTL DEF Spec, LogIsKept, Kept!RetentionSpec
------------------------------------------------------------------------------
\* The model turns a run has on record.
SaidIn(l, r) == {p \in DOMAIN l : l[p].kind = "said" /\ l[p].run = r}

\* Where a run stands between the budget check and the end of the turn it allowed.
Allowed == {"folding", "pruning", "discarding", "building", "asking", "called"}

\* A run that is past the budget check has a turn left, no run has more turns on record
\* than it is allowed, and every turn it had is in the history.
Budget ==
  \A r \in Runs :
    /\ Turns(log, r) <= MaxTurns
    /\ at[r] \in Allowed => Turns(log, r) < MaxTurns
    /\ spent[r] = Cardinality(SaidIn(history, r))

\* The turns a run is charged for are those its log still shows (conversation.go, modelTurns).
LEMMA SaidCounts ==
  ASSUME Base, NEW r
  PROVE  /\ IsFiniteSet(SaidIn(log, r)) /\ IsFiniteSet(SaidIn(history, r))
         /\ Turns(log, r) = Cardinality(SaidIn(log, r)) /\ Turns(log, r) \in Nat
         /\ SaidIn(log, r) \subseteq SaidIn(history, r)
         /\ MaxTurns \in Nat
<1>0. DOMAIN history = 1 .. Len(history) /\ Len(history) \in Nat
  BY EventParts DEF Base
<1>1. IsFiniteSet(DOMAIN history) /\ SaidIn(history, r) \subseteq DOMAIN history
  BY <1>0, FS_Interval DEF SaidIn
<1>2. SaidIn(log, r) \subseteq SaidIn(history, r)
  BY DEF SaidIn, Base, LogStands
<1>3. IsFiniteSet(SaidIn(log, r)) /\ IsFiniteSet(SaidIn(history, r))
  BY <1>1, <1>2, FS_Subset
<1> QED BY <1>2, <1>3, FS_CardinalityType, ConversationAssumption
        DEF Turns, SaidIn, ConversationAssumption

\* Steps that complete no model turn leave the count alone, or take from it.
LEMMA QuietKeepsBudget ==
  ASSUME Base, Base', Budget, UNCHANGED spent,
         \A r \in Runs : /\ SaidIn(history', r) = SaidIn(history, r)
                         /\ SaidIn(log', r) \subseteq SaidIn(log, r)
                         /\ at'[r] \in Allowed => at[r] \in Allowed \/ Turns(log, r) < MaxTurns
  PROVE  Budget'
<1> SUFFICES ASSUME NEW r \in Runs
             PROVE  /\ Turns(log', r) <= MaxTurns
                    /\ at'[r] \in Allowed => Turns(log', r) < MaxTurns
                    /\ spent'[r] = Cardinality(SaidIn(history', r))
  BY DEF Budget
<1>1. /\ IsFiniteSet(SaidIn(log, r)) /\ MaxTurns \in Nat
      /\ Turns(log, r) = Cardinality(SaidIn(log, r)) /\ Turns(log, r) \in Nat
  BY SaidCounts
<1>2. Turns(log', r) = Cardinality(SaidIn(log', r))
  BY DEF Turns, SaidIn
<1>3. Turns(log', r) <= Turns(log, r) /\ Turns(log', r) \in Nat
  BY <1>1, <1>2, FS_Subset, FS_CardinalityType
<1> QED BY <1>1, <1>3 DEF Budget

\* An event that is no reply is no turn (conversation.go, modelTurns).
LEMMA OtherKinds ==
  ASSUME Base, NEW n, NEW kind, kind # "said", NEW r, NEW call, Says(n, kind, r, call), NEW s
  PROVE  SaidIn(history', s) = SaidIn(history, s) /\ SaidIn(log', s) = SaidIn(log, s)
<1>1. /\ n \in Nat /\ DOMAIN history = 1 .. n - 1 /\ DOMAIN history' = 1 .. n
      /\ \A p \in 1 .. n - 1 : history'[p] = history[p]
      /\ DOMAIN log' = DOMAIN log \cup {n} /\ DOMAIN log \subseteq 1 .. n - 1
      /\ \A p \in DOMAIN log : log'[p] = log[p]
      /\ history'[n].kind # "said" /\ log'[n].kind # "said"
  BY DEF Says, Grown
<1>2. SaidIn(log', s) = SaidIn(log, s)
  BY <1>1 DEF SaidIn
<1>3. \A p \in 1 .. n : p = n \/ p \in 1 .. n - 1
  BY <1>1
<1>4. \A p \in 1 .. n - 1 : p \in 1 .. n
  BY <1>1
<1>5. SaidIn(history', s) = SaidIn(history, s)
  BY <1>1, <1>3, <1>4 DEF SaidIn
<1> QED BY <1>2, <1>5

\* A turn that is complete is one more of a run that was allowed it (runtime.go, execute).
LEMMA CompleteTurnKeepsBudget ==
  ASSUME Base, Budget, NEW r \in Runs, CompleteTurn(r)
  PROVE  Budget'
<1> DEFINE n == Len(history) + 1
<1>1. /\ n \in Nat \ {0} /\ DOMAIN history = 1 .. n - 1 /\ DOMAIN history' = 1 .. n
      /\ \A p \in 1 .. n - 1 : history'[p] = history[p]
      /\ DOMAIN log' = DOMAIN log \cup {n} /\ DOMAIN log \subseteq 1 .. n - 1
      /\ \A p \in DOMAIN log : log'[p] = log[p]
      /\ history'[n].kind = "said" /\ history'[n].run = r /\ log'[n] = history'[n]
  <2>1. Says(n, "said", r, 0)
    BY StepsSay
  <2>2. Len(history) \in Nat
    BY EventParts DEF Base
  <2> QED BY <2>1, <2>2 DEF Says, Grown
<1> HIDE DEF n
<1>2. /\ at[r] \in Allowed /\ spent' = [spent EXCEPT ![r] = spent[r] + 1]
      /\ \E there \in {"top", "ending"} : at' = [at EXCEPT ![r] = there]
  BY DEF CompleteTurn, Goto, Allowed
<1>3. at \in [Runs -> Idle \cup Working] /\ spent \in [Runs -> Nat]
  BY DEF Base, Typed
<1>4. /\ \A p \in 1 .. n : p = n \/ p \in 1 .. n - 1
      /\ n \in 1 .. n /\ \A p \in 1 .. n - 1 : p \in 1 .. n
  BY <1>1
<1>5. n \notin 1 .. n - 1
  BY <1>1
<1>6. \A s : s # r => /\ SaidIn(history', s) = SaidIn(history, s)
                      /\ SaidIn(log', s) = SaidIn(log, s)
  BY <1>1, <1>4 DEF SaidIn
<1>7. SaidIn(history', r) = SaidIn(history, r) \cup {n} /\ n \notin SaidIn(history, r)
  BY <1>1, <1>4, <1>5 DEF SaidIn
<1>8. SaidIn(log', r) = SaidIn(log, r) \cup {n} /\ n \notin SaidIn(log, r)
  BY <1>1, <1>5 DEF SaidIn
<1> SUFFICES ASSUME NEW s \in Runs
             PROVE  /\ Turns(log', s) <= MaxTurns
                    /\ at'[s] \in Allowed => Turns(log', s) < MaxTurns
                    /\ spent'[s] = Cardinality(SaidIn(history', s))
  BY DEF Budget
<1>9. /\ IsFiniteSet(SaidIn(log, s)) /\ MaxTurns \in Nat /\ IsFiniteSet(SaidIn(history, s))
      /\ Turns(log, s) = Cardinality(SaidIn(log, s)) /\ Turns(log, s) \in Nat
  BY SaidCounts
<1>10. Turns(log', s) = Cardinality(SaidIn(log', s))
  BY DEF Turns, SaidIn
<1>11. CASE s = r
  <2>1. Turns(log', r) = Turns(log, r) + 1
    BY <1>8, <1>9, <1>10, <1>11, FS_AddElement
  <2>2. Cardinality(SaidIn(history', r)) = Cardinality(SaidIn(history, r)) + 1
    BY <1>7, <1>9, <1>11, FS_AddElement
  <2>3. Turns(log, r) < MaxTurns /\ spent[r] = Cardinality(SaidIn(history, r))
    BY <1>2 DEF Budget
  <2>4. at'[r] \notin Allowed
    BY <1>2, <1>3 DEF Allowed
  <2> QED BY <1>2, <1>3, <1>9, <1>11, <2>1, <2>2, <2>3, <2>4
<1>12. CASE s # r
  BY <1>2, <1>3, <1>6, <1>9, <1>10, <1>12 DEF Budget
<1> QED BY <1>11, <1>12

\* Every step keeps the count of turns.
LEMMA NextKeepsBudget == Base /\ Base' /\ Budget /\ [Next]_vars => Budget'
<1> SUFFICES ASSUME Base, Base', Budget, [Next]_vars PROVE Budget'
  OBVIOUS
<1> DEFINE n == Len(history) + 1
           Same == /\ UNCHANGED spent
                   /\ \A s \in Runs : at'[s] \in Allowed => at[s] \in Allowed \/ Turns(log, s) < MaxTurns
           Quiet == UNCHANGED <<log, history>>
           Other == \A s \in Runs : /\ SaidIn(history', s) = SaidIn(history, s)
                                    /\ SaidIn(log', s) \subseteq SaidIn(log, s)
<1>0. at \in [Runs -> Idle \cup Working] /\ Mains \subseteq Runs /\ Workers \subseteq Runs
      /\ line \in Seq(Mains)
  BY DEF Base, Typed, Runs
<1>1. Same /\ Quiet => Budget'
  BY QuietKeepsBudget
<1>2. Same /\ Other => Budget'
  BY QuietKeepsBudget
<1>3. ASSUME NEW kind, kind # "said", NEW q, NEW call, Says(n, kind, q, call) PROVE Other
  BY <1>3, OtherKinds
<1>4. ASSUME StartNext PROVE Same /\ Quiet
  BY <1>0, <1>4 DEF StartNext, Goto, Unrecorded, Allowed
<1>5. ASSUME NEW r \in Runs, Send(r) PROVE Same /\ Other
  <2>1. Says(n, "user", r, 0)
    BY <1>5, StepsSay
  <2>2. Same
    BY <1>0, <1>5 DEF Send, Goto, Allowed
  <2> QED BY <1>3, <2>1, <2>2
<1>6. ASSUME NEW r \in Runs, CutShort(r) \/ Finish(r) PROVE Same /\ Other
  <2>1. Says(n, "ended", r, 0)
    BY <1>6, StepsSay
  <2>2. Same
    BY <1>0, <1>6 DEF CutShort, Finish, Goto, SameWork, Allowed
  <2> QED BY <1>3, <2>1, <2>2
<1>7. ASSUME NEW r \in Runs, NEW p, RunTool(r, p) PROVE Same /\ Other
  <2>1. Says(n, "result", r, p)
    BY <1>7, StepsSay
  <2>2. Same
    BY <1>7 DEF RunTool, SameWork
  <2> QED BY <1>3, <2>1, <2>2
<1>8. ASSUME NEW r \in Runs, NEW p, Park(r, p) PROVE Same /\ Quiet
  BY <1>0, <1>8 DEF Park, Goto, Unrecorded, Allowed
<1>9. ASSUME NEW r \in Runs, NEW p, NEW w \in Workers, Delegate(r, p, w) PROVE Same /\ Other
  <2>1. Says(n, "user", w, 0)
    BY <1>9, StepsSay
  <2>2. Same
    BY <1>0, <1>9 DEF Delegate, Allowed
  <2> QED BY <1>3, <2>1, <2>2
<1>10. ASSUME NEW r \in Runs, Decide(r) \/ OutOfTurns(r) PROVE Same /\ Quiet
  BY <1>0, <1>10 DEF Decide, OutOfTurns, Goto, Unrecorded, SameWork, Allowed
<1>11. ASSUME NEW r \in Runs, TakeAnswer(r) PROVE Same /\ Other
  <2>1. Says(n, "result", r, doing[r])
    BY <1>11, StepsSay
  <2>2. Same
    BY <1>0, <1>11 DEF TakeAnswer, Goto, SameWork, Allowed
  <2> QED BY <1>3, <2>1, <2>2
<1>12. ASSUME NEW r \in Runs, PlanFold(r) PROVE Same /\ Quiet
  <2>1. Turns(log, r) < MaxTurns
    BY <1>12, SaidCounts DEF PlanFold, Exhausted
  <2>2. \A s \in Runs : s # r => at'[s] = at[s]
    BY <1>0, <1>12 DEF PlanFold, Goto
  <2> QED BY <1>12, <2>1, <2>2 DEF PlanFold, Unrecorded
<1>13. ASSUME NEW r \in Runs, AppendFold(r) PROVE Same /\ Other
  <2>1. Says(n, "fold", r, 0)
    BY <1>13, StepsSay
  <2>2. Same
    BY <1>0, <1>13 DEF AppendFold, Goto, Allowed
  <2> QED BY <1>3, <2>1, <2>2
<1>14. ASSUME NEW r \in Runs, ChooseCut(r) PROVE Same /\ Quiet
  BY <1>0, <1>14 DEF ChooseCut, Goto, Unrecorded, Allowed
<1>15. ASSUME NEW r \in Runs, Prune(r) PROVE Same /\ Other
  <2>1. /\ DOMAIN log' \subseteq DOMAIN log /\ \A p \in DOMAIN log' : log'[p] = log[p]
        /\ UNCHANGED history
    BY <1>15, PruneLeaves
  <2>2. Same
    BY <1>0, <1>15 DEF Prune, Goto, Allowed
  <2> QED BY <2>1, <2>2 DEF SaidIn
<1>16. ASSUME NEW r \in Runs, BuildRequest(r) PROVE Same /\ (Quiet \/ Other)
  <2>1. Same
    BY <1>0, <1>16 DEF BuildRequest, Goto, SameWork, Allowed
  <2>2. CASE fresh[r]
    <3>1. Says(n, "running", r, 0)
      BY <1>16, <2>2, StepsSay
    <3> QED BY <1>3, <2>1, <3>1
  <2>3. CASE ~ fresh[r]
    BY <1>16, <2>1, <2>3 DEF BuildRequest, Unrecorded
  <2> QED BY <2>2, <2>3
<1>17. ASSUME NEW r \in Runs, AskForTool(r) PROVE Same /\ Other
  <2>1. Says(n, "call", r, 0)
    BY <1>17, StepsSay
  <2>2. Same
    BY <1>0, <1>17 DEF AskForTool, Goto, SameWork, Allowed
  <2> QED BY <1>3, <2>1, <2>2
<1>18. ASSUME UNCHANGED vars PROVE Same /\ Quiet
  BY <1>18 DEF vars
<1> HIDE DEF Same, Quiet, Other
<1>20. ASSUME NEW r \in Runs, Loop(r) PROVE Budget'
  <2>1. CASE Settle(r)
    <3>1. PICK p \in DOMAIN log :
            RunTool(r, p) \/ Park(r, p) \/ \E w \in Workers : Delegate(r, p, w)
      BY <2>1 DEF Settle
    <3> QED BY <3>1, <1>1, <1>2, <1>7, <1>8, <1>9
  <2>2. CASE Compact(r)
    BY <2>2, <1>1, <1>2, <1>12, <1>13, <1>14, <1>15 DEF Compact
  <2>3. CASE CompleteTurn(r)
    BY <2>3, CompleteTurnKeepsBudget
  <2>4. CASE Decide(r) \/ OutOfTurns(r) \/ TakeAnswer(r) \/ BuildRequest(r) \/ AskForTool(r) \/ Finish(r)
    BY <2>4, <1>1, <1>2, <1>6, <1>10, <1>11, <1>16, <1>17
  <2> QED BY <1>20, <2>1, <2>2, <2>3, <2>4 DEF Loop
<1> QED BY <1>1, <1>2, <1>4, <1>5, <1>6, <1>18, <1>20 DEF Next

\* No run has had a turn before it was sent.
LEMMA InitBudget == Init => Budget
<1> SUFFICES ASSUME Init, NEW r \in Runs
             PROVE  /\ Turns(log, r) <= MaxTurns
                    /\ at[r] \in Allowed => Turns(log, r) < MaxTurns
                    /\ spent[r] = Cardinality(SaidIn(history, r))
  BY DEF Budget
<1>1. SaidIn(log, r) = {} /\ SaidIn(history, r) = {} /\ spent[r] = 0 /\ at[r] = "unsent"
  BY DEF Init, EmptyLog, SaidIn
<1>2. Turns(log, r) = Cardinality(SaidIn(log, r))
  BY DEF Turns, SaidIn
<1>3. MaxTurns \in Nat
  BY ConversationAssumption DEF ConversationAssumption
<1> QED BY <1>1, <1>2, <1>3, FS_EmptySet DEF Allowed

\* No run has more turns on record than it is allowed, and every turn it had is in the
\* history (runtime.go, execute).
THEOREM BudgetHolds == Spec => []Budget
BY InitBudget, BaseHolds, NextKeepsBudget, PTL DEF Spec

\* The model turns a run has beyond its allowance are turns whose record was discarded
\* (runtime.go, execute; conversation.go, modelTurns).
THEOREM TurnsAreCounted == Spec => []OnlyDiscardedTurnsAreFree
<1>1. Base /\ Budget => OnlyDiscardedTurnsAreFree
  <2> SUFFICES ASSUME Base, Budget, NEW r \in Runs
               PROVE  spent[r] <= MaxTurns + Cardinality({p \in DOMAIN history \ DOMAIN log :
                                          history[p].kind = "said" /\ history[p].run = r})
    BY DEF OnlyDiscardedTurnsAreFree
  <2> DEFINE gone == {p \in DOMAIN history \ DOMAIN log :
                        history[p].kind = "said" /\ history[p].run = r}
             kept == SaidIn(log, r)
             all == SaidIn(history, r)
  <2>1. /\ IsFiniteSet(kept) /\ IsFiniteSet(all) /\ kept \subseteq all /\ MaxTurns \in Nat
        /\ Turns(log, r) = Cardinality(kept) /\ Turns(log, r) \in Nat
    BY SaidCounts
  <2>2. all = kept \cup gone /\ kept \cap gone = {} /\ gone \subseteq all
    BY DEF SaidIn, Base, LogStands
  <2> HIDE DEF gone, kept, all
  <2>3. IsFiniteSet(gone) /\ Cardinality(gone) \in Nat
    BY <2>1, <2>2, FS_Subset, FS_CardinalityType
  <2>4. Cardinality(all) = Cardinality(kept) + Cardinality(gone)
    <3>1. Cardinality(all) = Cardinality(kept) + Cardinality(gone) - Cardinality(kept \cap gone)
      BY <2>1, <2>2, <2>3, FS_Union
    <3>2. Cardinality(kept \cap gone) = 0
      BY <2>2, FS_EmptySet
    <3> QED BY <2>1, <2>3, <3>1, <3>2
  <2>5. Cardinality(kept) <= MaxTurns /\ spent[r] = Cardinality(all)
    BY <2>1 DEF Budget, all
  <2> QED BY <2>1, <2>3, <2>4, <2>5 DEF gone
<1> QED BY BaseHolds, BudgetHolds, <1>1, PTL

\* Two logs with the same folds have the same folds standing (conversation.go,
\* standingFolds).
LEMMA SameFoldsStand ==
  ASSUME NEW l, LogFine(l), NEW k, FoldsOf(k) = FoldsOf(l),
         \A f \in FoldsOf(l) : k[f] = l[f], NEW run
  PROVE  /\ VisibleTo(k, run) \cap FoldsOf(k) = VisibleTo(l, run) \cap FoldsOf(l)
         /\ Standing(k, run) = Standing(l, run) /\ Reach(k, run) = Reach(l, run)
<1>1. VisibleTo(k, run) \cap FoldsOf(k) = VisibleTo(l, run) \cap FoldsOf(l)
  <2>1. \A f \in FoldsOf(l) : f \in DOMAIN l /\ f \in DOMAIN k
    BY DEF FoldsOf
  <2> HIDE DEF FoldsOf
  <2> QED BY <2>1 DEF VisibleTo
<1>2. Standing(k, run) = Standing(l, run)
  <2> DEFINE folds == VisibleTo(l, run) \cap FoldsOf(l)
  <2>1. \A f \in folds : k[f] = l[f]
    OBVIOUS
  <2>2. Standing(k, run) = {f \in folds : \A g \in folds : g > f => k[f].from < k[g].from}
    BY <1>1 DEF Standing
  <2>3. Standing(l, run) = {f \in folds : \A g \in folds : g > f => l[f].from < l[g].from}
    BY DEF Standing
  <2> HIDE DEF folds
  <2> QED BY <2>1, <2>2, <2>3
<1>3. Reach(k, run) = Reach(l, run)
  <2> DEFINE S == Standing(l, run)
  <2>1. S \subseteq FoldsOf(l) /\ S \in SUBSET DOMAIN l
    BY DEF Standing, FoldsOf
  <2>2. S = Standing(l, run) /\ S = Standing(k, run)
    BY <1>2
  <2> HIDE DEF S
  <2>3. CASE S = {}
    BY <2>2, <2>3 DEF Reach
  <2>4. CASE S # {}
    <3>1. Max(S) \in S
      BY <2>1, <2>4, Extremes
    <3>2. k[Max(S)] = l[Max(S)]
      BY <2>1, <3>1
    <3> QED BY <2>2, <3>2 DEF Reach
  <2> QED BY <2>3, <2>4
<1> QED BY <1>1, <1>2, <1>3

\* A fold recorded last stands, covers what stood from where it starts, and reaches as
\* far as it says, for every run that may see it (conversation.go, foldsIn).
LEMMA NewFoldStands ==
  ASSUME NEW l, LogFine(l), NEW k, LogFine(k), NEW n, n \notin DOMAIN l,
         \A p \in DOMAIN l : p < n,
         DOMAIN k = DOMAIN l \cup {n}, \A p \in DOMAIN l : k[p] = l[p],
         k[n].kind = "fold", NEW run, n \in VisibleTo(k, run)
  PROVE  /\ Standing(k, run) = {f \in Standing(l, run) : l[f].from < k[n].from} \cup {n}
         /\ Reach(k, run) = k[n].through
         /\ VisibleTo(k, run) \cap FoldsOf(k) = (VisibleTo(l, run) \cap FoldsOf(l)) \cup {n}
<1> DEFINE old == VisibleTo(l, run) \cap FoldsOf(l)
           new == VisibleTo(k, run) \cap FoldsOf(k)
<1>1. new = old \cup {n}
  BY DEF VisibleTo, FoldsOf
<1>2. \A f \in old : f \in DOMAIN l /\ k[f] = l[f] /\ f < n /\ f \in Int
  BY Positions DEF FoldsOf
<1>3. n \in Int /\ \A f \in new : f \in DOMAIN k
  BY Positions DEF FoldsOf
<1>4. Standing(l, run) = {f \in old : \A g \in old : g > f => l[f].from < l[g].from}
  BY DEF Standing
<1>5. Standing(k, run) = {f \in new : \A g \in new : g > f => k[f].from < k[g].from}
  BY DEF Standing
<1>6. \A f \in new : k[f].from \in Nat
  BY <1>3 DEF LogFine
<1>0. new = VisibleTo(k, run) \cap FoldsOf(k) /\ old = VisibleTo(l, run) \cap FoldsOf(l)
  OBVIOUS
<1> HIDE DEF old, new
<1>7. n \in Standing(k, run)
  BY <1>1, <1>2, <1>3, <1>5
<1>8. ASSUME NEW f \in old
      PROVE  f \in Standing(k, run) <=> f \in Standing(l, run) /\ l[f].from < k[n].from
  BY <1>1, <1>2, <1>3, <1>4, <1>5
<1>9. Standing(k, run) \subseteq old \cup {n} /\ Standing(l, run) \subseteq old /\ n \notin old
  BY <1>1, <1>2, <1>4, <1>5
<1>10. Standing(k, run) = {f \in Standing(l, run) : l[f].from < k[n].from} \cup {n}
  BY <1>7, <1>8, <1>9
<1>11. Reach(k, run) = k[n].through
  <2>1. new # {} /\ n \in new
    BY <1>1
  <2>2. Reach(k, run) = k[Max(new)].through /\ Max(new) \in Standing(k, run)
        /\ \A f \in new : f <= Max(new)
    BY <1>0, <2>1, ReachIsOfTheLastFold
  <2>3. Max(new) = n
    <3>1. Max(new) \in old \cup {n} /\ n <= Max(new)
      BY <1>9, <2>1, <2>2
    <3>2. Max(new) \in old => Max(new) < n /\ Max(new) \in Int
      BY <1>2
    <3> QED BY <1>3, <3>1, <3>2
  <2> QED BY <2>2, <2>3
<1> QED BY <1>0, <1>1, <1>10, <1>11

\* As long as no parked run was continued, a run that is about to record a fold still
\* starts where the folds end, or before all of them, and reaches further; what the last
\* fold reaches is what any fold reaches; only so many stand; and a run of the
\* conversation that is about to discard does so behind its own fold, the last.
PlansStand ==
  \A r \in Runs : at[r] = "folding" =>
    /\ plan[r].through > Reach(log, r)
    /\ IF Cardinality(Standing(log, r)) < MaxFoldsInHead THEN plan[r].from = Reach(log, r) + 1
       ELSE \A f \in Standing(log, r) : plan[r].from <= log[f].from

\* No fold a run sees reaches beyond the last one that stands.
ReachIsFarthest ==
  \A r \in Runs : \A f \in VisibleTo(log, r) \cap FoldsOf(log) : log[f].through <= Reach(log, r)

\* A run of the conversation that is about to discard does so behind its own fold.
LastFoldIsOwn ==
  \A r \in Mains : at[r] \in {"pruning", "discarding"} =>
    /\ FoldsOf(log) # {} /\ log[Max(FoldsOf(log))].run = r
    /\ cut[r] <= log[Max(FoldsOf(log))].through

\* Only a run that is about to discard has chosen how far.
CutsIdle == \A r \in Runs : at[r] # "discarding" => cut[r] = 0

\* What folds need of each other, as long as no parked run was continued.
Folding ==
  CutsIdle /\ (NoneContinued => PlansStand /\ ReachIsFarthest /\ FewFolds /\ LastFoldIsOwn)

\* Steps that record no fold, plan none and choose no cut.
Calm ==
  /\ FoldsOf(log') = FoldsOf(log) /\ \A f \in FoldsOf(log) : log'[f] = log[f]
  /\ \A r \in Runs :
       /\ at'[r] = "folding" => at[r] = "folding" /\ plan'[r] = plan[r]
       /\ at'[r] \in {"pruning", "discarding"} => at'[r] = at[r] /\ cut'[r] = cut[r]
       /\ at'[r] \notin {"pruning", "discarding"} => cut'[r] = 0 \/ (cut'[r] = cut[r] /\ at[r] # "discarding")
  /\ decided \subseteq decided'

\* A step that has nothing to do with folds keeps what they need of each other.
LEMMA CalmKeepsFolding ==
  ASSUME Base, Folding, Calm
  PROVE  Folding'
<1>1. LogFine(log)
  BY BaseLogFine
<1>2. \A r \in Runs : Standing(log', r) = Standing(log, r) /\ Reach(log', r) = Reach(log, r)
                      /\ VisibleTo(log', r) \cap FoldsOf(log') = VisibleTo(log, r) \cap FoldsOf(log)
  BY <1>1, SameFoldsStand DEF Calm
<1>3. \A r \in Runs : Standing(log, r) \subseteq FoldsOf(log)
  BY DEF Standing
<1>4. CutsIdle'
  BY DEF Calm, Folding, CutsIdle
<1> SUFFICES ASSUME NoneContinued'
             PROVE (PlansStand /\ ReachIsFarthest /\ FewFolds /\ LastFoldIsOwn)'
  BY <1>4 DEF Folding
<1>5. NoneContinued /\ PlansStand /\ ReachIsFarthest /\ FewFolds /\ LastFoldIsOwn
  BY DEF Calm, NoneContinued, Folding
<1>6. PlansStand'
  <2> SUFFICES ASSUME NEW r \in Runs, at'[r] = "folding"
               PROVE  /\ plan'[r].through > Reach(log', r)
                      /\ IF Cardinality(Standing(log', r)) < MaxFoldsInHead
                         THEN plan'[r].from = Reach(log', r) + 1
                         ELSE \A f \in Standing(log', r) : plan'[r].from <= log'[f].from
    BY DEF PlansStand
  <2>1. at[r] = "folding" /\ plan'[r] = plan[r]
    BY DEF Calm
  <2>2. \A f \in Standing(log, r) : log'[f] = log[f]
    BY <1>3 DEF Calm
  <2> QED BY <1>2, <1>5, <2>1, <2>2 DEF PlansStand
<1>7. ReachIsFarthest'
  BY <1>2, <1>5 DEF ReachIsFarthest, Calm
<1>8. FewFolds'
  <2>1. \A r \in Runs : Cardinality(Standing(log, r)) <= MaxFoldsInHead
    BY <1>5 DEF FewFolds
  <2> QED BY <1>2, <2>1 DEF FewFolds
<1>9. LastFoldIsOwn'
  <2> SUFFICES ASSUME NEW r \in Mains, at'[r] \in {"pruning", "discarding"}
               PROVE  /\ FoldsOf(log') # {} /\ log'[Max(FoldsOf(log'))].run = r
                      /\ cut'[r] <= log'[Max(FoldsOf(log'))].through
    BY DEF LastFoldIsOwn
  <2>1. at[r] \in {"pruning", "discarding"} /\ cut'[r] = cut[r]
    BY DEF Calm, Runs
  <2>2. /\ FoldsOf(log) # {} /\ log[Max(FoldsOf(log))].run = r
        /\ cut[r] <= log[Max(FoldsOf(log))].through
    BY <1>5, <2>1 DEF LastFoldIsOwn
  <2>3. Max(FoldsOf(log)) \in FoldsOf(log)
    <3>1. FoldsOf(log) \in SUBSET DOMAIN log
      BY DEF FoldsOf
    <3> QED BY <1>1, <2>2, <3>1, Extremes
  <2> QED BY <2>1, <2>2, <2>3 DEF Calm
<1> QED BY <1>6, <1>7, <1>8, <1>9

\* Which steps are calm.
LEMMA SaysOtherKeepsFolds ==
  ASSUME Base, NEW n, NEW kind, kind # "fold", NEW r, NEW call, Says(n, kind, r, call)
  PROVE  FoldsOf(log') = FoldsOf(log) /\ \A f \in FoldsOf(log) : log'[f] = log[f]
BY DEF Says, Grown, FoldsOf

\* Every step that has to do with folds plans one, records one or chooses a cut.
LEMMA CalmSteps ==
  ASSUME Base, Structure, Folding, [Next]_vars
  PROVE  \/ Calm
         \/ \E r \in Runs : PlanFold(r) \/ AppendFold(r) \/ ChooseCut(r)
<1> DEFINE n == Len(history) + 1
           Same == FoldsOf(log') = FoldsOf(log) /\ \A f \in FoldsOf(log) : log'[f] = log[f]
           Rest == /\ \A r \in Runs :
                       /\ at'[r] = "folding" => at[r] = "folding" /\ plan'[r] = plan[r]
                       /\ at'[r] \in {"pruning", "discarding"} => at'[r] = at[r] /\ cut'[r] = cut[r]
                       /\ at'[r] \notin {"pruning", "discarding"} =>
                            cut'[r] = 0 \/ (cut'[r] = cut[r] /\ at[r] # "discarding")
                   /\ decided \subseteq decided'
<1>0. /\ at \in [Runs -> Idle \cup Working] /\ plan \in [Runs -> FoldPlans] /\ cut \in [Runs -> Nat]
      /\ Mains \subseteq Runs /\ Workers \subseteq Runs
      /\ \A r \in Runs : at[r] # "discarding" => cut[r] = 0
  BY DEF Base, Typed, Runs, Folding, CutsIdle
<1>1. Same /\ Rest => Calm
  BY DEF Calm
<1>2. ASSUME NEW kind, kind # "fold", NEW r, NEW call, Says(n, kind, r, call) PROVE Same
  BY <1>2, SaysOtherKeepsFolds
<1>3. UNCHANGED <<log, history>> => Same
  OBVIOUS
<1>4. ASSUME StartNext PROVE Same /\ Rest
  <2>1. line # <<>> /\ line \in Seq(Mains)
    BY <1>4 DEF StartNext, Base, Typed
  <2>2. Head(line) \in Mains /\ at[Head(line)] = "waiting"
    <3>1. Head(line) = line[1] /\ 1 \in DOMAIN line /\ line[1] \in Mains
      BY <2>1
    <3> QED BY <3>1 DEF Structure, Lines
  <2>3. at' = [at EXCEPT ![Head(line)] = "top"] /\ UNCHANGED <<log, history, plan, cut, decided>>
    BY <1>4 DEF StartNext, Goto, Unrecorded
  <2> QED BY <1>0, <1>3, <2>2, <2>3
<1>5. ASSUME NEW r \in Runs, Send(r) PROVE Same /\ Rest
  <2>1. Says(n, "user", r, 0)
    BY <1>5, StepsSay
  <2>2. Rest
    BY <1>0, <1>5 DEF Send, Goto
  <2> QED BY <1>2, <2>1, <2>2
<1>6. ASSUME NEW r \in Runs, CutShort(r) PROVE Same /\ Rest
  <2>1. Says(n, "ended", r, 0)
    BY <1>6, StepsSay
  <2>2. Rest
    BY <1>0, <1>6 DEF CutShort, Goto
  <2> QED BY <1>2, <2>1, <2>2
<1>7. ASSUME NEW r \in Runs, NEW p, RunTool(r, p) PROVE Same /\ Rest
  <2>1. Says(n, "result", r, p)
    BY <1>7, StepsSay
  <2>2. Rest
    BY <1>0, <1>7 DEF RunTool, SameWork
  <2> QED BY <1>2, <2>1, <2>2
<1>8. ASSUME NEW r \in Runs, NEW p, Park(r, p) PROVE Same /\ Rest
  BY <1>0, <1>3, <1>8 DEF Park, Pending, Goto, Unrecorded
<1>9. ASSUME NEW r \in Runs, NEW p, NEW w \in Workers, Delegate(r, p, w) PROVE Same /\ Rest
  <2>1. Says(n, "user", w, 0)
    BY <1>9, StepsSay
  <2>2. Rest
    <3>1. /\ UNCHANGED <<plan, cut, decided>> /\ at' = [at EXCEPT ![r] = "delegating", ![w] = "top"]
          /\ at[r] = "top" /\ at[w] = "unsent"
      BY <1>9 DEF Delegate, Pending
    <3> QED BY <1>0, <3>1
  <2> QED BY <1>2, <2>1, <2>2
<1>10. ASSUME NEW r \in Runs, Decide(r) \/ OutOfTurns(r) PROVE Same /\ Rest
  BY <1>0, <1>3, <1>10 DEF Decide, OutOfTurns, AtModel, Goto, Unrecorded, SameWork
<1>11. ASSUME NEW r \in Runs, TakeAnswer(r) PROVE Same /\ Rest
  <2>1. Says(n, "result", r, doing[r])
    BY <1>11, StepsSay
  <2>2. Rest
    BY <1>0, <1>11 DEF TakeAnswer, Goto, SameWork
  <2> QED BY <1>2, <2>1, <2>2
<1>12. ASSUME NEW r \in Runs, Prune(r) PROVE Same /\ Rest
  <2>1. /\ FoldsOf(log') = FoldsOf(log) /\ \A p \in DOMAIN log' : log'[p] = log[p]
        /\ at' = [at EXCEPT ![r] = "building"] /\ cut' = [cut EXCEPT ![r] = 0]
        /\ UNCHANGED <<history, plan, decided>>
    BY <1>12, PruneLeaves
  <2>2. \A f \in FoldsOf(log') : f \in DOMAIN log'
    BY DEF FoldsOf
  <2>3. Rest
    BY <1>0, <2>1
  <2> QED BY <2>1, <2>2, <2>3
<1>13. ASSUME NEW r \in Runs, BuildRequest(r) PROVE Same /\ Rest
  <2>1. Rest
    BY <1>0, <1>13 DEF BuildRequest, Goto, SameWork
  <2>2. CASE fresh[r]
    <3>1. Says(n, "running", r, 0)
      BY <1>13, <2>2, StepsSay
    <3> QED BY <1>2, <2>1, <3>1
  <2>3. CASE ~ fresh[r]
    BY <1>3, <1>13, <2>1, <2>3 DEF BuildRequest, Unrecorded
  <2> QED BY <2>2, <2>3
<1>14. ASSUME NEW r \in Runs, AskForTool(r) PROVE Same /\ Rest
  <2>1. Says(n, "call", r, 0)
    BY <1>14, StepsSay
  <2>2. Rest
    BY <1>0, <1>14 DEF AskForTool, Goto, SameWork
  <2> QED BY <1>2, <2>1, <2>2
<1>15. ASSUME NEW r \in Runs, CompleteTurn(r) PROVE Same /\ Rest
  <2>1. Says(n, "said", r, 0)
    BY <1>15, StepsSay
  <2>2. Rest
    BY <1>0, <1>15 DEF CompleteTurn, Goto
  <2> QED BY <1>2, <2>1, <2>2
<1>16. ASSUME NEW r \in Runs, Finish(r) PROVE Same /\ Rest
  <2>1. Says(n, "ended", r, 0)
    BY <1>16, StepsSay
  <2>2. Rest
    BY <1>0, <1>16 DEF Finish, Goto, SameWork
  <2> QED BY <1>2, <2>1, <2>2
<1>17. ASSUME UNCHANGED vars PROVE Same /\ Rest
  BY <1>0, <1>17 DEF vars
<1> HIDE DEF Same, Rest
<1>18. ASSUME NEW r \in Runs, Loop(r)
       PROVE  Calm \/ PlanFold(r) \/ AppendFold(r) \/ ChooseCut(r)
  <2>1. CASE Settle(r)
    <3>1. PICK p \in DOMAIN log :
            RunTool(r, p) \/ Park(r, p) \/ \E w \in Workers : Delegate(r, p, w)
      BY <2>1 DEF Settle
    <3> QED BY <3>1, <1>1, <1>7, <1>8, <1>9
  <2>2. CASE Compact(r)
    BY <2>2, <1>1, <1>12 DEF Compact
  <2>3. CASE ~ Settle(r) /\ ~ Compact(r)
    BY <1>18, <2>3, <1>1, <1>10, <1>11, <1>13, <1>14, <1>15, <1>16 DEF Loop
  <2> QED BY <2>1, <2>2, <2>3
<1> QED BY <1>1, <1>4, <1>5, <1>6, <1>17, <1>18 DEF Next

\* A plan starts where the folds end, or before all of them once they are condensed
\* (compaction.go, planCompaction).
LEMMA PlanFoldKeepsFolding ==
  ASSUME Base, Folding, NEW r \in Runs, PlanFold(r)
  PROVE  Folding'
<1>0. LogFine(log) /\ at \in [Runs -> Idle \cup Working] /\ plan \in [Runs -> FoldPlans]
      /\ Mains \subseteq Runs
  BY BaseLogFine DEF Base, Typed, Runs
<1>1. /\ UNCHANGED <<log, cut, decided>> /\ at[r] = "top"
      /\ \E there \in {"folding", "building"} : at' = [at EXCEPT ![r] = there]
  BY DEF PlanFold, AtModel, Goto, Unrecorded
<1>2. CutsIdle'
  BY <1>0, <1>1 DEF Folding, CutsIdle
<1> SUFFICES ASSUME NoneContinued'
             PROVE (PlansStand /\ ReachIsFarthest /\ FewFolds /\ LastFoldIsOwn)'
  BY <1>2 DEF Folding
<1>3. NoneContinued /\ PlansStand /\ ReachIsFarthest /\ FewFolds /\ LastFoldIsOwn
  BY <1>1 DEF NoneContinued, Folding
<1>4. (ReachIsFarthest /\ FewFolds)'
  BY <1>1, <1>3 DEF ReachIsFarthest, FewFolds, NoneContinued
<1>5. LastFoldIsOwn'
  BY <1>0, <1>1, <1>3 DEF LastFoldIsOwn
<1>6. PlansStand'
  <2> SUFFICES ASSUME NEW q \in Runs, at'[q] = "folding"
               PROVE  /\ plan'[q].through > Reach(log, q)
                      /\ IF Cardinality(Standing(log, q)) < MaxFoldsInHead
                         THEN plan'[q].from = Reach(log, q) + 1
                         ELSE \A f \in Standing(log, q) : plan'[q].from <= log[f].from
    BY <1>1 DEF PlansStand
  <2>1. CASE q = r
    <3>1. PICK chosen \in Plans(log, r) : plan' = [plan EXCEPT ![r] = chosen]
      BY <1>0, <1>1, <2>1 DEF PlanFold, Goto
    <3> DEFINE h == Cardinality(Standing(log, r))
    <3>2. /\ chosen.through > Reach(log, r)
          /\ h < MaxFoldsInHead => chosen.from = Reach(log, r) + 1
          /\ h >= MaxFoldsInHead => \A f \in Standing(log, r) : chosen.from <= log[f].from
      BY <1>0, PlanShape
    <3>3. h \in Nat /\ MaxFoldsInHead \in Nat
      <4>1. Standing(log, r) \in SUBSET DOMAIN log
        BY DEF Standing, FoldsOf
      <4> QED BY <1>0, <4>1, Extremes, ReplayAssumption DEF ReplayAssumption
    <3>4. plan'[q] = chosen
      BY <1>0, <2>1, <3>1
    <3> QED BY <2>1, <3>2, <3>3, <3>4
  <2>2. CASE q # r
    <3>1. at[q] = "folding" /\ plan'[q] = plan[q]
      BY <1>0, <1>1, <2>2 DEF PlanFold
    <3> QED BY <1>3, <3>1 DEF PlansStand
  <2> QED BY <2>1, <2>2
<1> QED BY <1>4, <1>5, <1>6

\* A cut is chosen behind the fold that was just recorded (retention.go, PruneSession).
LEMMA ChooseCutKeepsFolding ==
  ASSUME Base, Folding, NEW r \in Runs, ChooseCut(r)
  PROVE  Folding'
<1>0. LogFine(log) /\ at \in [Runs -> Idle \cup Working] /\ cut \in [Runs -> Nat]
      /\ Mains \subseteq Runs
  BY BaseLogFine DEF Base, Typed, Runs
<1>1. /\ UNCHANGED <<log, plan, decided>> /\ at[r] = "pruning"
      /\ \/ at' = [at EXCEPT ![r] = "building"] /\ UNCHANGED cut
         \/ /\ at' = [at EXCEPT ![r] = "discarding"]
            /\ \E c \in SafeCuts(log, KeepAfterFold) : cut' = [cut EXCEPT ![r] = c]
  BY DEF ChooseCut, Goto, Unrecorded
<1>2. CutsIdle'
  BY <1>0, <1>1 DEF Folding, CutsIdle
<1> SUFFICES ASSUME NoneContinued'
             PROVE (PlansStand /\ ReachIsFarthest /\ FewFolds /\ LastFoldIsOwn)'
  BY <1>2 DEF Folding
<1>3. NoneContinued /\ PlansStand /\ ReachIsFarthest /\ FewFolds /\ LastFoldIsOwn
  BY <1>1 DEF NoneContinued, Folding
<1>4. (ReachIsFarthest /\ FewFolds)'
  BY <1>1, <1>3 DEF ReachIsFarthest, FewFolds, NoneContinued
<1>5. PlansStand'
  BY <1>0, <1>1, <1>3 DEF PlansStand
<1>6. LastFoldIsOwn'
  <2> SUFFICES ASSUME NEW q \in Mains, at'[q] \in {"pruning", "discarding"}
               PROVE  /\ FoldsOf(log) # {} /\ log[Max(FoldsOf(log))].run = q
                      /\ cut'[q] <= log[Max(FoldsOf(log))].through
    BY <1>1 DEF LastFoldIsOwn
  <2>1. at[q] \in {"pruning", "discarding"}
    BY <1>0, <1>1
  <2>2. /\ FoldsOf(log) # {} /\ log[Max(FoldsOf(log))].run = q
        /\ cut[q] <= log[Max(FoldsOf(log))].through
    BY <1>3, <2>1 DEF LastFoldIsOwn
  <2>3. CASE cut'[q] = cut[q]
    BY <2>2, <2>3
  <2>4. CASE cut'[q] # cut[q]
    <3>1. PICK c \in SafeCuts(log, KeepAfterFold) : cut' = [cut EXCEPT ![r] = c]
      BY <1>1, <2>4
    <3>2. cut'[q] = c
      BY <1>0, <2>4, <3>1
    <3> QED BY <2>2, <3>2, CutsAreSafe
  <2> QED BY <2>3, <2>4
<1> QED BY <1>4, <1>5, <1>6

\* Who sees the folds of a run: the runs of the conversation see each other's, and a
\* worker its own (conversation.go, eventsVisibleTo).
LEMMA WhoSees ==
  ASSUME Base, NEW l, NEW r \in Runs, NEW s \in Runs, NEW n \in DOMAIN l, l[n].run = r
  PROVE  /\ n \in VisibleTo(l, s) <=> (r \in Mains /\ s \in Mains) \/ r = s
         /\ (r \in Mains /\ s \in Mains) => \A k : VisibleTo(k, s) = VisibleTo(k, r)
BY StructureTypes DEF VisibleTo

\* Runs that see the same events see the same folds stand (conversation.go, eventsVisibleTo).
LEMMA SameSight ==
  ASSUME NEW l, NEW r, NEW s, VisibleTo(l, s) = VisibleTo(l, r)
  PROVE  Standing(l, s) = Standing(l, r) /\ Reach(l, s) = Reach(l, r)
BY DEF Standing, Reach

\* The log a step leaves is as fine as the one before it.
LEMMA NextLogFine == Base' => LogFine(log')
<1>1. (Base => LogFine(log))'
  BY BaseLogFine, PTL
<1> QED BY <1>1 DEF LogFine, FoldsOf

\* A fold recorded as planned reaches further than any, and joins the few that stand or
\* takes the place of all of them, for every run that sees it (compaction.go,
\* planCompaction).
LEMMA AppendFoldAdvances ==
  ASSUME Base, Base', Folding, NoneContinued, NEW r \in Runs, AppendFold(r),
         NEW n, n = Len(history) + 1, NEW s \in Runs, n \in VisibleTo(log', s)
  PROVE  /\ Reach(log', s) = plan[r].through /\ Reach(log', s) > Reach(log, s)
         /\ Standing(log', s) = {f \in Standing(log, s) : log[f].from < plan[r].from} \cup {n}
         /\ VisibleTo(log', s) \cap FoldsOf(log') = (VisibleTo(log, s) \cap FoldsOf(log)) \cup {n}
         /\ Cardinality(Standing(log', s)) <= MaxFoldsInHead
<1>0. LogFine(log) /\ LogFine(log')
  BY NextLogFine, BaseLogFine
<1>1. /\ n \in Nat /\ n \notin DOMAIN log /\ \A p \in DOMAIN log : p < n
      /\ DOMAIN log' = DOMAIN log \cup {n} /\ \A p \in DOMAIN log : log'[p] = log[p]
      /\ log'[n].kind = "fold" /\ log'[n].run = r
      /\ log'[n].from = plan[r].from /\ log'[n].through = plan[r].through
  <2>1. Says(n, "fold", r, 0) /\ history'[n].from = plan[r].from /\ history'[n].through = plan[r].through
    BY StepsSay
  <2>2. log'[n] = history'[n]
    BY <2>1 DEF Says, Grown
  <2>3. /\ n \in Nat /\ DOMAIN log \subseteq 1 .. n - 1
        /\ DOMAIN log' = DOMAIN log \cup {n} /\ \A p \in DOMAIN log : log'[p] = log[p]
    BY <2>1 DEF Says, Grown
  <2>4. n \notin DOMAIN log /\ \A p \in DOMAIN log : p < n
    BY <2>3
  <2> QED BY <2>1, <2>2, <2>3, <2>4 DEF Says
<1>2. (r \in Mains /\ s \in Mains) \/ r = s
  BY <1>1, WhoSees
<1>3. VisibleTo(log, s) = VisibleTo(log, r)
  BY <1>1, <1>2, WhoSees
<1>4. /\ Standing(log', s) = {f \in Standing(log, s) : log[f].from < plan[r].from} \cup {n}
      /\ Reach(log', s) = plan[r].through
      /\ VisibleTo(log', s) \cap FoldsOf(log') = (VisibleTo(log, s) \cap FoldsOf(log)) \cup {n}
  BY <1>0, <1>1, NewFoldStands
<1>5. /\ plan[r].through > Reach(log, r)
      /\ IF Cardinality(Standing(log, r)) < MaxFoldsInHead THEN plan[r].from = Reach(log, r) + 1
         ELSE \A f \in Standing(log, r) : plan[r].from <= log[f].from
  BY DEF Folding, PlansStand, AppendFold
<1>6. Standing(log, s) = Standing(log, r) /\ Reach(log, s) = Reach(log, r)
  BY <1>3, SameSight
<1>7. Cardinality(Standing(log', s)) <= MaxFoldsInHead
  <2> DEFINE old == Standing(log, s)
             left == {f \in old : log[f].from < plan[r].from}
  <2>1. IsFiniteSet(old) /\ Cardinality(old) \in Nat /\ old \in SUBSET DOMAIN log
    <3>1. old \in SUBSET DOMAIN log
      BY DEF Standing, FoldsOf
    <3> QED BY <1>0, <3>1, Extremes
  <2>2. left \in SUBSET old
    OBVIOUS
  <2>3. MaxFoldsInHead \in Nat \ {0}
    BY ReplayAssumption DEF ReplayAssumption
  <2>4. plan[r].from \in Nat /\ \A f \in old : log[f].from \in Nat
    BY <1>0, <2>1 DEF LogFine, Base, Typed, FoldPlans
  <2>5. Standing(log', s) = left \cup {n}
    BY <1>4
  <2>6. Cardinality(old) >= MaxFoldsInHead => left = {}
    BY <1>5, <1>6, <2>1, <2>3, <2>4
  <2> HIDE DEF left, old
  <2>7. IsFiniteSet(left) /\ Cardinality(left) <= Cardinality(old) /\ Cardinality(left) \in Nat
    BY <2>1, <2>2, FS_Subset, FS_CardinalityType
  <2>8. Cardinality(left \cup {n}) <= Cardinality(left) + 1
    <3>1. Cardinality(left \cup {n}) =
            IF n \in left THEN Cardinality(left) ELSE Cardinality(left) + 1
      BY <2>7, FS_AddElement
    <3> QED BY <2>7, <3>1
  <2>9. CASE left = {}
    <3>1. Cardinality(left) = 0
      BY <2>9, FS_EmptySet
    <3>2. IsFiniteSet(left \cup {n}) /\ Cardinality(left \cup {n}) \in Nat
      BY <2>7, FS_AddElement, FS_CardinalityType
    <3> QED BY <2>3, <2>5, <2>8, <3>1, <3>2
  <2>10. CASE Cardinality(old) < MaxFoldsInHead
    <3>2. IsFiniteSet(left \cup {n}) /\ Cardinality(left \cup {n}) \in Nat
      BY <2>7, FS_AddElement, FS_CardinalityType
    <3> QED BY <2>1, <2>3, <2>5, <2>7, <2>8, <2>10, <3>2
  <2> QED BY <2>1, <2>3, <2>6, <2>9, <2>10
<1> QED BY <1>4, <1>5, <1>6, <1>7

\* For a run that does not see a fold nothing changes.
LEMMA UnseenFold ==
  ASSUME NEW l, LogFine(l), NEW k, LogFine(k), NEW n, n \notin DOMAIN l,
         DOMAIN k = DOMAIN l \cup {n}, \A p \in DOMAIN l : k[p] = l[p],
         NEW run, n \notin VisibleTo(k, run)
  PROVE  /\ Standing(k, run) = Standing(l, run) /\ Reach(k, run) = Reach(l, run)
         /\ VisibleTo(k, run) \cap FoldsOf(k) = VisibleTo(l, run) \cap FoldsOf(l)
<1> DEFINE folds == VisibleTo(l, run) \cap FoldsOf(l)
<1>1. VisibleTo(k, run) \cap FoldsOf(k) = folds
  BY DEF VisibleTo, FoldsOf
<1>2. \A f \in folds : k[f] = l[f] /\ f \in DOMAIN l
  BY DEF FoldsOf
<1>3. /\ Standing(k, run) = {f \in folds : \A g \in folds : g > f => k[f].from < k[g].from}
      /\ Standing(l, run) = {f \in folds : \A g \in folds : g > f => l[f].from < l[g].from}
  BY <1>1 DEF Standing
<1>4. Standing(k, run) = Standing(l, run)
  <2> HIDE DEF folds
  <2> QED BY <1>2, <1>3
<1>5. Reach(k, run) = Reach(l, run)
  <2> DEFINE S == Standing(l, run)
  <2>1. S \in SUBSET DOMAIN l
    BY DEF Standing, FoldsOf
  <2>2. S = Standing(l, run) /\ S = Standing(k, run)
    BY <1>4
  <2> HIDE DEF S
  <2>3. CASE S = {}
    BY <2>2, <2>3 DEF Reach
  <2>4. CASE S # {}
    <3>1. Max(S) \in S
      BY <2>1, <2>4, Extremes
    <3> QED BY <2>1, <2>2, <3>1 DEF Reach
  <2> QED BY <2>3, <2>4
<1> QED BY <1>1, <1>4, <1>5

\* While a run of the conversation is at work on a compaction no other run records a
\* fold it could see, as long as none was continued (runtime.go; investigate.go).
LEMMA NoOtherFolds ==
  ASSUME Base, Structure, NoneContinued, NEW r \in Runs, at[r] = "folding",
         NEW q \in Runs, q # r, at[q] \in {"folding", "pruning", "discarding"}
  PROVE  ~ (q \in Mains)  \/ (r \notin Mains /\ at[q] = "folding")
<1> SUFFICES ASSUME q \in Mains, r \in Mains \/ at[q] # "folding" PROVE FALSE
  OBVIOUS
<1>1. at[r] \in Working /\ at[q] \in Working
  BY DEF Working
<1>2. CASE r \in Mains
  BY <1>1, <1>2 DEF Structure, OneTurn
<1>3. CASE r \in Workers
  <2>1. PICK m \in Mains : at[m] = "delegating" /\ child[m] = r
    BY <1>1, <1>3 DEF Structure, WorkersWork
  <2>2. m = q
    BY <1>1, <2>1 DEF Structure, OneTurn, Working
  <2> QED BY <2>1, <2>2
<1> QED BY <1>2, <1>3 DEF Runs

\* A fold recorded as planned is the farthest, and leaves at most as many as the limit
\* (compaction.go, compactIfNeeded; conversation.go, foldsIn).
LEMMA AppendFoldKeepsFolding ==
  ASSUME Base, Base', Structure, Folding, NEW r \in Runs, AppendFold(r)
  PROVE  Folding'
<1> DEFINE n == Len(history) + 1
<1>0. LogFine(log) /\ LogFine(log') /\ at \in [Runs -> Idle \cup Working]
      /\ plan \in [Runs -> FoldPlans] /\ Mains \subseteq Runs
  BY BaseLogFine, NextLogFine DEF Base, Typed, Runs
<1>1. /\ n \in Nat /\ n \notin DOMAIN log /\ \A p \in DOMAIN log : p < n
      /\ DOMAIN log' = DOMAIN log \cup {n} /\ \A p \in DOMAIN log : log'[p] = log[p]
      /\ log'[n].kind = "fold" /\ log'[n].run = r /\ log'[n].through = plan[r].through
  <2>1. Says(n, "fold", r, 0) /\ history'[n].through = plan[r].through
    BY StepsSay
  <2>2. /\ n \in Nat /\ DOMAIN log \subseteq 1 .. n - 1 /\ log'[n] = history'[n]
        /\ DOMAIN log' = DOMAIN log \cup {n} /\ \A p \in DOMAIN log : log'[p] = log[p]
    BY <2>1 DEF Says, Grown
  <2>3. n \notin DOMAIN log /\ \A p \in DOMAIN log : p < n
    BY <2>2
  <2> QED BY <2>1, <2>2, <2>3 DEF Says
<1>2. /\ at[r] = "folding" /\ at' = [at EXCEPT ![r] = "pruning"]
      /\ plan' = [plan EXCEPT ![r] = NoPlan] /\ UNCHANGED <<cut, decided>>
  BY DEF AppendFold, Goto
<1>3. CutsIdle'
  BY <1>0, <1>2 DEF Folding, CutsIdle
<1> SUFFICES ASSUME NoneContinued'
             PROVE (PlansStand /\ ReachIsFarthest /\ FewFolds /\ LastFoldIsOwn)'
  BY <1>3 DEF Folding
<1>4. NoneContinued /\ PlansStand /\ ReachIsFarthest /\ FewFolds /\ LastFoldIsOwn /\ CutsIdle
  BY <1>2 DEF NoneContinued, Folding
<1> HIDE DEF n
<1>5. ASSUME NEW s \in Runs, n \in VisibleTo(log', s)
      PROVE  /\ Reach(log', s) = plan[r].through /\ Reach(log', s) > Reach(log, s)
             /\ VisibleTo(log', s) \cap FoldsOf(log') = (VisibleTo(log, s) \cap FoldsOf(log)) \cup {n}
             /\ Cardinality(Standing(log', s)) <= MaxFoldsInHead
  BY <1>4, <1>5, AppendFoldAdvances DEF n
<1>6. ASSUME NEW s \in Runs, n \notin VisibleTo(log', s)
      PROVE  /\ Standing(log', s) = Standing(log, s) /\ Reach(log', s) = Reach(log, s)
             /\ VisibleTo(log', s) \cap FoldsOf(log') = VisibleTo(log, s) \cap FoldsOf(log)
  BY <1>0, <1>1, <1>6, UnseenFold
<1>7. PlansStand'
  <2> SUFFICES ASSUME NEW q \in Runs, at'[q] = "folding"
               PROVE  /\ plan'[q].through > Reach(log', q)
                      /\ IF Cardinality(Standing(log', q)) < MaxFoldsInHead
                         THEN plan'[q].from = Reach(log', q) + 1
                         ELSE \A f \in Standing(log', q) : plan'[q].from <= log'[f].from
    BY DEF PlansStand
  <2>1. q # r /\ at[q] = "folding" /\ plan'[q] = plan[q]
    BY <1>0, <1>2
  <2>2. n \notin VisibleTo(log', q)
    <3> SUFFICES ASSUME n \in VisibleTo(log', q) PROVE FALSE
      OBVIOUS
    <3>1. r \in Mains /\ q \in Mains
      BY <1>1, <2>1, WhoSees
    <3> QED BY <1>2, <1>4, <2>1, <3>1, NoOtherFolds
  <2>3. Standing(log', q) = Standing(log, q) /\ Reach(log', q) = Reach(log, q)
    BY <1>6, <2>2
  <2>4. \A f \in Standing(log, q) : f \in DOMAIN log
    BY DEF Standing, FoldsOf
  <2> QED BY <1>1, <1>4, <2>1, <2>3, <2>4 DEF PlansStand
<1>8. ReachIsFarthest'
  <2> SUFFICES ASSUME NEW s \in Runs, NEW f \in VisibleTo(log', s) \cap FoldsOf(log')
               PROVE  log'[f].through <= Reach(log', s)
    BY DEF ReachIsFarthest
  <2>1. CASE n \in VisibleTo(log', s)
    <3>1. CASE f = n
      <4>1. plan[r].through \in Nat
        BY <1>0 DEF FoldPlans
      <4> QED BY <1>1, <1>5, <2>1, <3>1, <4>1
    <3>2. CASE f # n
      <4>1. f \in VisibleTo(log, s) \cap FoldsOf(log) /\ f \in DOMAIN log
        BY <1>5, <2>1, <3>2 DEF FoldsOf
      <4>2. log[f].through <= Reach(log, s) /\ log'[f] = log[f]
        BY <1>1, <1>4, <4>1 DEF ReachIsFarthest
      <4>3. Reach(log', s) > Reach(log, s)
        BY <1>5, <2>1
      <4>4. log[f].through \in Nat /\ Reach(log, s) \in Nat /\ Reach(log', s) \in Nat
        BY <1>0, <4>1, ReachIsOfTheLastFold DEF LogFine
      <4> QED BY <4>2, <4>3, <4>4
    <3> QED BY <3>1, <3>2
  <2>2. CASE n \notin VisibleTo(log', s)
    <3>1. f \in VisibleTo(log, s) \cap FoldsOf(log) /\ f \in DOMAIN log
      BY <1>6, <2>2 DEF FoldsOf
    <3> QED BY <1>1, <1>4, <1>6, <2>2, <3>1 DEF ReachIsFarthest
  <2> QED BY <2>1, <2>2
<1>9. FewFolds'
  <2> SUFFICES ASSUME NEW s \in Runs PROVE Cardinality(Standing(log', s)) <= MaxFoldsInHead
    BY DEF FewFolds
  <2>1. Cardinality(Standing(log, s)) <= MaxFoldsInHead
    BY <1>4 DEF FewFolds
  <2> QED BY <1>5, <1>6, <2>1
<1>10. LastFoldIsOwn'
  <2> SUFFICES ASSUME NEW q \in Mains, at'[q] \in {"pruning", "discarding"}
               PROVE  /\ FoldsOf(log') # {} /\ log'[Max(FoldsOf(log'))].run = q
                      /\ cut'[q] <= log'[Max(FoldsOf(log'))].through
    BY DEF LastFoldIsOwn
  <2>1. q = r
    <3> SUFFICES ASSUME q # r PROVE FALSE
      OBVIOUS
    <3>1. at[q] \in {"pruning", "discarding"}
      BY <1>0, <1>2
    <3> QED BY <1>0, <1>2, <1>4, <3>1, NoOtherFolds
  <2>2. n \in FoldsOf(log') /\ FoldsOf(log') \in SUBSET DOMAIN log'
    BY <1>1 DEF FoldsOf
  <2>3. Max(FoldsOf(log')) = n
    <3>1. Max(FoldsOf(log')) \in FoldsOf(log') /\ n <= Max(FoldsOf(log'))
      BY <1>0, <2>2, Extremes
    <3>2. Max(FoldsOf(log')) \in DOMAIN log \cup {n}
      BY <1>1, <2>2, <3>1
    <3>3. Max(FoldsOf(log')) \in DOMAIN log => Max(FoldsOf(log')) < n /\ Max(FoldsOf(log')) \in Nat
      BY <1>0, <1>1, Positions
    <3> QED BY <1>1, <3>1, <3>2, <3>3
  <2>4. cut'[q] = 0 /\ plan[r].through \in Nat
    BY <1>0, <1>2, <1>4, <2>1 DEF CutsIdle, FoldPlans
  <2> QED BY <1>1, <2>1, <2>2, <2>3, <2>4
<1> QED BY <1>7, <1>8, <1>9, <1>10

\* Every step keeps what folds need of each other.
LEMMA NextKeepsFolding == Base /\ Base' /\ Structure /\ Folding /\ [Next]_vars => Folding'
BY CalmSteps, CalmKeepsFolding, PlanFoldKeepsFolding, AppendFoldKeepsFolding,
   ChooseCutKeepsFolding

\* There is no fold in a conversation in which nothing was said yet.
LEMMA InitFolding == Init => Folding
<1> SUFFICES ASSUME Init PROVE Folding
  OBVIOUS
<1>1. /\ \A r \in Runs : at[r] = "unsent" /\ cut[r] = 0
      /\ Mains \subseteq Runs
  BY DEF Init, Runs
<1>2. \A r \in Runs : Standing(log, r) = {} /\ VisibleTo(log, r) \cap FoldsOf(log) = {}
  BY DEF Init, EmptyLog, Standing, FoldsOf
<1>3. FewFolds
  BY <1>2, FS_EmptySet, ReplayAssumption DEF FewFolds, ReplayAssumption
<1>4. PlansStand /\ LastFoldIsOwn /\ CutsIdle
  BY <1>1 DEF PlansStand, LastFoldIsOwn, CutsIdle
<1>5. ReachIsFarthest
  BY <1>2 DEF ReachIsFarthest
<1> QED BY <1>3, <1>4, <1>5 DEF Folding

\* Folds succeed each other in every behaviour in which no parked run was continued
\* (compaction.go).
THEOREM FoldingHolds == Spec => []Folding
BY InitFolding, BaseHolds, StructureHolds, NextKeepsFolding, PTL DEF Spec

\* Only so many folds stand in front of any request, however long the session, as long
\* as no parked run was continued (compaction.go, maxFoldsInHead).
THEOREM FoldsStayFew == Spec => []FewFolds
<1>1. Folding => FewFolds
  BY DEF Folding, FewFolds
<1> QED BY FoldingHolds, <1>1, PTL

\* A compaction always advances (compaction.go, planCompaction).
THEOREM FoldsGoForward == Spec => FoldsAdvance
<1>1. Base /\ Base' /\ Folding /\ [Next]_vars =>
        [\A r \in Runs : (AppendFold(r) /\ NoneContinued) =>
           Reach(log', r) > Reach(log, r)]_vars
  <2> SUFFICES ASSUME Base, Base', Folding, NEW r \in Runs, AppendFold(r), NoneContinued
               PROVE  Reach(log', r) > Reach(log, r)
    OBVIOUS
  <2>1. Len(history) + 1 \in VisibleTo(log', r)
    <3>1. Says(Len(history) + 1, "fold", r, 0)
      BY StepsSay
    <3>2. Len(history) + 1 \in DOMAIN log' /\ log'[Len(history) + 1].run = r
      BY <3>1 DEF Says, Grown
    <3> QED BY <3>2, StructureTypes DEF VisibleTo
  <2> QED BY <2>1, AppendFoldAdvances
<1> QED BY <1>1, BaseHolds, FoldingHolds, PTL DEF Spec, FoldsAdvance

\* The messages depend on the events replayed, the folds that stand and the position the
\* next event will have, and on nothing else of the log (conversation.go, apply).
LEMMA SameConversation ==
  ASSUME NEW l, LogFine(l), NEW k, NEW run, NEW events, events = Replayed(l, run),
         Replayed(k, run) = events, \A p \in events : k[p] = l[p],
         Standing(k, run) = Standing(l, run), \A f \in Standing(l, run) : k[f] = l[f],
         NextSeq(k) = NextSeq(l)
  PROVE  Conversation(k, run) = Conversation(l, run)
<1> DEFINE Deeds(log_, p) == {q \in events : log_[q].run = log_[p].run /\ log_[q].kind # "user"}
<1>1. ASSUME NEW p \in events
      PROVE  /\ Deeds(k, p) = Deeds(l, p) /\ k[p] = l[p]
             /\ Deeds(l, p) # {} => k[Min(Deeds(l, p))] = l[Min(Deeds(l, p))]
  <2>1. Deeds(k, p) = Deeds(l, p) /\ k[p] = l[p]
    OBVIOUS
  <2> DEFINE deeds == Deeds(l, p)
  <2>2. deeds \in SUBSET DOMAIN l /\ deeds \subseteq events
    BY ReplayedIsKept
  <2>3. deeds # {} => Min(deeds) \in deeds
    <3> HIDE DEF deeds
    <3> QED BY <2>2, Extremes
  <2> QED BY <2>1, <2>2, <2>3
<1>2. \A p \in events : Place(k, run, p, events) = Place(l, run, p, events)
  BY <1>1 DEF Place
<1>3. \A p \in events : Dropped(k, run, p, events) <=> Dropped(l, run, p, events)
  BY <1>1 DEF Dropped
<1>4. Shown(k, run) = Shown(l, run) /\ Shown(l, run) \subseteq events
  <2>1. /\ Shown(k, run) = {p \in events : k[p].kind \notin {"running", "ended"}
                                          /\ ~Dropped(k, run, p, events)}
        /\ Shown(l, run) = {p \in events : l[p].kind \notin {"running", "ended"}
                                          /\ ~Dropped(l, run, p, events)}
    BY DEF Shown
  <2> QED BY <1>3, <2>1
<1> DEFINE s == Script(l, run)
<1>5. Script(k, run) = s
  <2>1. [p \in events |-> Place(k, run, p, events)] = [p \in events |-> Place(l, run, p, events)]
    BY <1>2
  <2> QED BY <1>4, <2>1 DEF Script
<1>6. DOMAIN s = 1 .. Len(s) /\ Len(s) \in Nat /\ \A i \in 1 .. Len(s) : k[s[i]] = l[s[i]]
  BY <1>4, ScriptProperties
<1>0. s = Script(l, run)
  OBVIOUS
<1> HIDE DEF s
<1>7. Ends(k, s) = Ends(l, s)
  BY <1>6 DEF Ends, SameMessage
<1> DEFINE folds == Ascending(Standing(l, run))
           ends == Ascending(Ends(l, s))
           V(log_, i) == [role |-> Role(log_, s[ends[i]]), from |-> 0, last |-> s[ends[i]],
                     parts |-> {s[j] : j \in (IF i = 1 THEN 1 ELSE ends[i - 1] + 1) .. ends[i]}]
           a(log_) == [i \in DOMAIN folds |-> FoldMessage(log_, folds[i])]
           b(log_) == [i \in DOMAIN ends |-> V(log_, i)]
<1>8. a(k) = a(l)
  <2>1. \A i \in DOMAIN folds : folds[i] \in Standing(l, run)
    BY FoldsInOrder
  <2>2. folds = Ascending(Standing(l, run))
    OBVIOUS
  <2> HIDE DEF folds
  <2> QED BY <2>1 DEF FoldMessage
<1>9. b(k) = b(l)
  <2>1. \A i \in DOMAIN ends : ends[i] \in 1 .. Len(s)
    BY <1>0, EndsInOrder
  <2> HIDE DEF ends
  <2>2. \A i \in DOMAIN ends : Role(k, s[ends[i]]) = Role(l, s[ends[i]])
    BY <1>6, <2>1 DEF Role
  <2>3. \A i \in DOMAIN ends : V(k, i) = V(l, i)
    BY <2>2
  <2> HIDE DEF V
  <2> QED BY <2>3
<1>10. Conversation(l, run) = a(l) \o b(l)
  BY <1>0 DEF Conversation
<1>11. Conversation(k, run) = a(k) \o b(k)
  BY <1>5, <1>7 DEF Conversation
<1> HIDE DEF a, b
<1> QED BY <1>8, <1>9, <1>10, <1>11

\* What a run discards lies within what every run of the conversation has condensed, so
\* that the messages of none of them change (retention.go, PruneSession).
THEOREM PruningIsInvisible == Spec => PruneIsInvisible
<1>1. Base /\ Base' /\ Folding /\ [Next]_vars =>
        [\A pruner \in Mains : (Prune(pruner) /\ NoneContinued) =>
           \A r \in Mains : Conversation(log', r) = Conversation(log, r)]_vars
  <2> SUFFICES ASSUME Base, Base', Folding, NEW pruner \in Mains, Prune(pruner), NoneContinued,
                      NEW r \in Mains
               PROVE  Conversation(log', r) = Conversation(log, r)
    OBVIOUS
  <2>1. pruner \in Runs /\ r \in Runs /\ r \notin Workers /\ pruner \notin Workers
    BY StructureTypes DEF Runs
  <2>2. /\ FoldsOf(log') = FoldsOf(log) /\ \A p \in DOMAIN log' : log'[p] = log[p]
        /\ DOMAIN log' \subseteq DOMAIN log
        /\ \A p \in DOMAIN log : p \in DOMAIN log' <=> (p > cut[pruner] \/ p \in FoldsOf(log))
        /\ UNCHANGED history /\ at[pruner] = "discarding"
    BY <2>1, PruneLeaves DEF Prune
  <2>3. LogFine(log) /\ (LogFine(log))' /\ cut[pruner] \in Nat
    BY <2>1, BaseLogFine, NextLogFine DEF Base, Typed
  <2>4. \A f \in FoldsOf(log) : log'[f] = log[f]
    <3>1. \A f \in FoldsOf(log') : f \in DOMAIN log'
      BY DEF FoldsOf
    <3> QED BY <2>2, <3>1
  <2>5. Standing(log', r) = Standing(log, r) /\ Reach(log', r) = Reach(log, r)
    BY <2>2, <2>3, <2>4, SameFoldsStand
  <2>6. cut[pruner] <= Reach(log, r)
    <3> DEFINE last == Max(FoldsOf(log))
    <3>1. FoldsOf(log) # {} /\ log[last].run = pruner /\ cut[pruner] <= log[last].through
      BY <2>2 DEF Folding, LastFoldIsOwn
    <3>2. last \in FoldsOf(log) /\ last \in DOMAIN log
      <4>1. FoldsOf(log) \in SUBSET DOMAIN log
        BY DEF FoldsOf
      <4> QED BY <2>3, <3>1, <4>1, Extremes
    <3>3. last \in VisibleTo(log, r)
      BY <2>1, <3>1, <3>2 DEF VisibleTo
    <3>4. log[last].through <= Reach(log, r) /\ log[last].through \in Nat
      BY <2>1, <2>3, <3>2, <3>3 DEF Folding, ReachIsFarthest, LogFine
    <3>5. Reach(log, r) \in Nat
      BY <2>3, ReachIsOfTheLastFold
    <3> HIDE DEF last
    <3> QED BY <2>3, <3>1, <3>4, <3>5
  <2>7. \A p \in DOMAIN log : p \in Nat
    BY <2>3, Positions
  <2>8. Reach(log, r) \in Nat
    BY <2>3, ReachIsOfTheLastFold
  <2>9. Replayed(log', r) = Replayed(log, r)
    <3>1. Replayed(log, r) =
            {p \in DOMAIN log : log[p].run \notin Workers /\ p \notin FoldsOf(log) /\ p > Reach(log, r)}
      BY <2>1 DEF Replayed, VisibleTo
    <3>2. Replayed(log', r) =
            {p \in DOMAIN log' : log'[p].run \notin Workers /\ p \notin FoldsOf(log)
                                 /\ p > Reach(log, r)}
      BY <2>1, <2>2, <2>5 DEF Replayed, VisibleTo
    <3>3. \A p \in DOMAIN log : p > Reach(log, r) => p \in DOMAIN log'
      BY <2>2, <2>3, <2>6, <2>7, <2>8
    <3> QED BY <2>2, <3>1, <3>2, <3>3
  <2>10. \A p \in Replayed(log, r) : log'[p] = log[p]
    <3>1. \A p \in Replayed(log', r) : p \in DOMAIN log'
      BY DEF Replayed, VisibleTo
    <3> QED BY <2>2, <2>9, <3>1
  <2>11. \A f \in Standing(log, r) : log'[f] = log[f]
    BY <2>4 DEF Standing
  <2>12. NextSeq(log') = NextSeq(log)
    <3>1. NextSeq(log) = Len(history) + 1
      BY BaseNextSeq
    <3>2. (Base => NextSeq(log) = Len(history) + 1)'
      BY BaseNextSeq, PTL
    <3> QED BY <2>2, <3>1, <3>2
  <2> QED BY <2>3, <2>5, <2>9, <2>10, <2>11, <2>12, SameConversation
<1> QED BY <1>1, BaseHolds, FoldingHolds, PTL DEF Spec, PruneIsInvisible

\* A step appends one event, or discards behind a fold, or leaves the log alone
\* (events.go, Append; retention.go, PruneSession).
LEMMA HistoryExtends ==
  ASSUME Base, [Next]_vars, NEW n, n = Len(history) + 1
  PROVE  \/ UNCHANGED <<log, history>>
         \/ UNCHANGED history /\ \E r \in Runs : Prune(r)
         \/ Grown(n, history'[n])
<1> DEFINE Goal == \/ UNCHANGED <<log, history>>
                   \/ UNCHANGED history /\ \E r \in Runs : Prune(r)
                   \/ Grown(n, history'[n])
<1>1. ASSUME NEW kind, NEW r, NEW call, Says(n, kind, r, call) PROVE Goal
  BY <1>1 DEF Says
<1>2. ASSUME StartNext PROVE Goal
  BY <1>2 DEF StartNext, Unrecorded
<1>3. ASSUME NEW r \in Runs, Send(r) \/ CutShort(r) \/ TakeAnswer(r) \/ AskForTool(r)
                             \/ CompleteTurn(r) \/ Finish(r) \/ AppendFold(r)
      PROVE  Goal
  <2> HIDE DEF Goal
  <2>1. CASE Send(r)
    BY <1>1, <2>1, StepsSay
  <2>2. CASE CutShort(r) \/ Finish(r)
    BY <1>1, <2>2, StepsSay
  <2>3. CASE TakeAnswer(r)
    BY <1>1, <2>3, StepsSay
  <2>4. CASE AskForTool(r) \/ CompleteTurn(r)
    BY <1>1, <2>4, StepsSay
  <2>5. CASE AppendFold(r)
    BY <1>1, <2>5, StepsSay
  <2> QED BY <1>3, <2>1, <2>2, <2>3, <2>4, <2>5
<1>4. ASSUME NEW r \in Runs, NEW p, RunTool(r, p) PROVE Goal
  <2> HIDE DEF Goal
  <2> QED BY <1>1, <1>4, StepsSay
<1>5. ASSUME NEW r \in Runs, NEW p, NEW w \in Workers, Delegate(r, p, w) PROVE Goal
  <2> HIDE DEF Goal
  <2> QED BY <1>1, <1>5, StepsSay
<1>6. ASSUME NEW r \in Runs, BuildRequest(r) PROVE Goal
  <2>1. CASE fresh[r]
    <3>1. Says(n, "running", r, 0)
      BY <1>6, <2>1, StepsSay
    <3> HIDE DEF Goal
    <3> QED BY <1>1, <3>1
  <2>2. CASE ~ fresh[r]
    BY <1>6, <2>2 DEF BuildRequest, Unrecorded
  <2> QED BY <2>1, <2>2
<1>7. ASSUME NEW r \in Runs, NEW p, Park(r, p) PROVE Goal
  BY <1>7 DEF Park, Unrecorded
<1>8. ASSUME NEW r \in Runs, Decide(r) \/ OutOfTurns(r) \/ PlanFold(r) \/ ChooseCut(r) PROVE Goal
  BY <1>8 DEF Decide, OutOfTurns, PlanFold, ChooseCut, Unrecorded
<1>9. ASSUME NEW r \in Runs, Prune(r) PROVE Goal
  BY <1>9 DEF Prune
<1>10. ASSUME UNCHANGED vars PROVE Goal
  BY <1>10 DEF vars
<1>0. Goal => \/ UNCHANGED <<log, history>>
              \/ UNCHANGED history /\ \E r \in Runs : Prune(r)
              \/ Grown(n, history'[n])
  OBVIOUS
<1> HIDE DEF Goal
<1>11. ASSUME NEW r \in Runs, Loop(r) PROVE Goal
  <2>1. CASE Settle(r)
    <3>1. PICK p \in DOMAIN log :
            RunTool(r, p) \/ Park(r, p) \/ \E w \in Workers : Delegate(r, p, w)
      BY <2>1 DEF Settle
    <3> QED BY <3>1, <1>4, <1>5, <1>7
  <2>2. CASE Compact(r)
    BY <2>2, <1>3, <1>8, <1>9 DEF Compact
  <2>3. CASE ~ Settle(r) /\ ~ Compact(r)
    BY <1>11, <2>3, <1>3, <1>6, <1>8 DEF Loop
  <2> QED BY <2>1, <2>2, <2>3
<1> QED BY <1>0, <1>2, <1>3, <1>10, <1>11 DEF Next

\* The history only grows.
LEMMA HistoryStands ==
  ASSUME Base, [Next]_vars, NEW p \in DOMAIN history
  PROVE  p \in DOMAIN history' /\ history'[p] = history[p]
<1>1. CASE UNCHANGED history
  BY <1>1
<1>2. CASE Grown(Len(history) + 1, history'[Len(history) + 1])
  <2> DEFINE n == Len(history) + 1
  <2>1. /\ DOMAIN history = 1 .. n - 1 /\ DOMAIN history' = 1 .. n /\ n \in Nat
        /\ \A q \in 1 .. n - 1 : history'[q] = history[q]
    BY <1>2 DEF Grown
  <2> HIDE DEF n
  <2> QED BY <2>1
<1> QED BY <1>1, <1>2, HistoryExtends

\* A decision stands, and a worker that was sent stays sent, so that runs which go one by
\* one have always done so (approval.go, resume; investigate.go).
LEMMA DecisionsStand == ASSUME Base, Structure, Folding, [Next]_vars
                        PROVE decided \subseteq decided'
<1>1. ASSUME NEW r \in Runs, PlanFold(r) \/ AppendFold(r) \/ ChooseCut(r) PROVE UNCHANGED decided
  BY <1>1 DEF PlanFold, AppendFold, ChooseCut
<1> QED BY <1>1, CalmSteps DEF Calm

\* Runs that go one by one after a step did so before it.
LEMMA StillOneByOne ==
  ASSUME Base, Base', Structure, Folding, [Next]_vars, OneByOne'
  PROVE  OneByOne
<1>1. NoneContinued
  BY DecisionsStand DEF OneByOne, NoneContinued
<1>2. ASSUME NEW w \in Workers, at[w] # "unsent" PROVE FALSE
  <2>0. w \in Runs
    BY DEF Runs
  <2>1. PICK p \in DOMAIN history : history[p].run = w
    BY <1>2, <2>0 DEF Structure, Asked, Question
  <2>2. p \in DOMAIN history' /\ history'[p].run = w
    BY <2>1, HistoryStands
  <2>3. at'[w] # "unsent"
    BY <2>2 DEF Base, Spoken
  <2> QED BY <2>3 DEF OneByOne
<1> QED BY <1>1, <1>2 DEF OneByOne

\* While the runs go one by one every event is of the conversation, and every run of the
\* conversation sees all of them.
LEMMA AllSeen ==
  ASSUME Base, OneByOne
  PROVE  /\ \A p \in DOMAIN history : history[p].run \in Mains
         /\ \A r \in Mains : VisibleTo(log, r) = DOMAIN log
<1>1. \A p \in DOMAIN history : history[p].run \in Mains
  <2>1. \A p \in DOMAIN history : history[p].run \in Runs /\ at[history[p].run] # "unsent"
    BY EventParts DEF Base, Spoken
  <2> QED BY <2>1 DEF OneByOne, Runs
<1>2. \A p \in DOMAIN log : log[p].run \in Mains
  BY <1>1 DEF Base, LogStands
<1> QED BY <1>1, <1>2, StructureTypes DEF VisibleTo

\* Every run of the conversation sees the whole log.
Seen == \A r \in Mains : VisibleTo(log, r) = DOMAIN log

\* While the runs go one by one, nothing is a worker's (conversation.go, eventsVisibleTo).
LEMMA AllAreSeen == Base /\ OneByOne => Seen
BY AllSeen DEF Seen

\* The same, of the log a step leaves.
LEMMA AllSeenNext ==
  ASSUME Base', OneByOne', NEW r \in Mains
  PROVE  VisibleTo(log', r) = DOMAIN log'
<1>1. (Base /\ OneByOne => Seen)'
  BY AllAreSeen, PTL
<1> QED BY <1>1 DEF Seen, VisibleTo

\* What was discarded lies within the reach of the folds.
LEMMA GoneIsReached ==
  ASSUME Base, Folding, OneByOne, NEW r \in Mains, NEW p \in DOMAIN history
  PROVE  p \in DOMAIN log \/ p <= Reach(log, r)
<1> SUFFICES ASSUME p \notin DOMAIN log PROVE p <= Reach(log, r)
  OBVIOUS
<1>1. PICK f \in FoldsOf(log) : p <= log[f].through
  BY DEF Base, Covered
<1>2. f \in VisibleTo(log, r) \cap FoldsOf(log) /\ f \in DOMAIN log
  BY AllSeen DEF FoldsOf
<1>3. log[f].through <= Reach(log, r)
  BY <1>2, StructureTypes DEF Folding, OneByOne, ReachIsFarthest
<1>4. p \in Nat /\ log[f].through \in Nat /\ Reach(log, r) \in Nat
  <2>1. LogFine(log) /\ DOMAIN history = 1 .. Len(history) /\ Len(history) \in Nat
    BY BaseLogFine, EventParts DEF Base
  <2>2. Reach(log, r) \in Nat
    BY <2>1, ReachIsOfTheLastFold
  <2> QED BY <1>2, <2>1, <2>2 DEF LogFine
<1> QED BY <1>1, <1>3, <1>4
------------------------------------------------------------------------------
\* The events that are what a run did: its calls, their results and its replies.
Work == {p \in DOMAIN history : history[p].kind \in {"call", "said", "result"}}

\* While the runs go one by one, each such event is still replayed, or a fold that stands
\* tells it; and a fold about to be recorded tells all of it that it will cover, or
\* leaves standing the fold that does.
WorkTold ==
  \A r \in Mains : \A p \in Work :
    \/ p \in DOMAIN log /\ p > Reach(log, r)
    \/ \E f \in Standing(log, r) : p \in log[f].tells

\* The same, of the log the planned fold is about to leave.
PlanTells ==
  \A r \in Mains : at[r] = "folding" =>
    \A p \in Work :
      \/ p > plan[r].through
      \/ p \in plan[r].tells
      \/ \E f \in Standing(log, r) : p \in log[f].tells /\ log[f].from < plan[r].from

\* Nothing is lost between a plan, its fold and the next plan.
Remembered == OneByOne => WorkTold /\ PlanTells

\* The work in a history one event longer.
LEMMA MoreWork ==
  ASSUME Base, [Next]_vars, NEW p \in Work'
  PROVE  p \in Work \/ (p = Len(history) + 1 /\ p \in DOMAIN log' /\ p \in Nat)
<1>1. p \in DOMAIN history' /\ history'[p].kind \in {"call", "said", "result"}
  BY DEF Work
<1>2. CASE UNCHANGED history
  BY <1>1, <1>2 DEF Work
<1>3. CASE Grown(Len(history) + 1, history'[Len(history) + 1])
  BY <1>1, <1>3 DEF Work, Grown
<1> QED BY <1>2, <1>3, HistoryExtends

\* What the folds reach ends before the next event.
LEMMA ReachIsBehind ==
  ASSUME Base, NEW r
  PROVE  Reach(log, r) \in Nat /\ Reach(log, r) <= Len(history) /\ Len(history) \in Nat
<1>1. LogFine(log) /\ Len(history) \in Nat /\ DOMAIN history = 1 .. Len(history)
  BY BaseLogFine, EventParts DEF Base
<1> DEFINE folds == VisibleTo(log, r) \cap FoldsOf(log)
<1>2. CASE folds = {}
  <2>1. Reach(log, r) = 0
    BY <1>1, <1>2, ReachIsOfTheLastFold
  <2> QED BY <1>1, <2>1
<1>3. CASE folds # {}
  <2>1. /\ Max(folds) \in Standing(log, r) /\ Reach(log, r) = log[Max(folds)].through
        /\ Reach(log, r) \in Nat
    BY <1>1, <1>3, ReachIsOfTheLastFold
  <2>2. Max(folds) \in FoldsOf(log) /\ Max(folds) \in 1 .. Len(history)
    BY <1>1, <2>1 DEF Standing, FoldsOf, Base, LogStands
  <2>3. log[Max(folds)].through < Max(folds)
    BY <1>1, <2>2 DEF LogFine
  <2> HIDE DEF folds
  <2> QED BY <1>1, <2>1, <2>2, <2>3
<1> QED BY <1>2, <1>3

\* A step that has nothing to do with folds loses nothing.
LEMMA CalmKeepsRemembered ==
  ASSUME Base, Base', Structure, Folding, Remembered, [Next]_vars, Calm
  PROVE  Remembered'
<1> SUFFICES ASSUME OneByOne' PROVE (WorkTold /\ PlanTells)'
  BY DEF Remembered
<1>0. OneByOne /\ WorkTold /\ PlanTells /\ Mains \subseteq Runs
  BY StillOneByOne, StructureTypes DEF Remembered
<1>1. LogFine(log)
  BY BaseLogFine
<1>2. \A r \in Mains : Standing(log', r) = Standing(log, r) /\ Reach(log', r) = Reach(log, r)
  BY <1>1, SameFoldsStand DEF Calm
<1>3. \A r \in Mains : \A f \in Standing(log, r) : log'[f] = log[f]
  BY DEF Standing, Calm
<1>4. ASSUME NEW r \in Mains, NEW p \in Work, p \in DOMAIN log, p > Reach(log, r)
      PROVE  p \in DOMAIN log'
  <2>1. CASE UNCHANGED <<log, history>>
    BY <1>4, <2>1
  <2>2. CASE Grown(Len(history) + 1, history'[Len(history) + 1])
    BY <1>4, <2>2 DEF Grown
  <2>3. ASSUME NEW q \in Runs, Prune(q) PROVE p \in DOMAIN log'
    <3>1. /\ at[q] = "discarding"
          /\ \A s \in DOMAIN log : s \in DOMAIN log' <=> (s > cut[q] \/ s \in FoldsOf(log))
      BY <2>3, PruneLeaves
    <3>2. q \in Mains
      BY <3>1, <1>0 DEF OneByOne, Runs
    <3> DEFINE last == Max(FoldsOf(log))
    <3>3. FoldsOf(log) # {} /\ cut[q] <= log[last].through
      BY <1>0, <3>1, <3>2 DEF Folding, LastFoldIsOwn, OneByOne
    <3>4. last \in FoldsOf(log) /\ last \in DOMAIN log
      <4>1. FoldsOf(log) \in SUBSET DOMAIN log
        BY DEF FoldsOf
      <4> QED BY <1>1, <3>3, <4>1, Extremes
    <3>5. log[last].through <= Reach(log, r) /\ log[last].through \in Nat
      BY <1>0, <1>1, <3>4, AllSeen DEF Folding, ReachIsFarthest, OneByOne, LogFine
    <3>6. Reach(log, r) \in Nat /\ cut[q] \in Nat /\ p \in Nat
      BY <1>1, <1>4, ReachIsBehind, Positions DEF Base, Typed
    <3> HIDE DEF last
    <3> QED BY <1>4, <3>1, <3>3, <3>5, <3>6
  <2> QED BY <2>1, <2>2, <2>3, HistoryExtends
<1>5. WorkTold'
  <2> SUFFICES ASSUME NEW r \in Mains, NEW p \in Work'
               PROVE  \/ p \in DOMAIN log' /\ p > Reach(log', r)
                      \/ \E f \in Standing(log', r) : p \in log'[f].tells
    BY DEF WorkTold
  <2>1. CASE p \in Work
    BY <1>0, <1>2, <1>3, <1>4, <2>1 DEF WorkTold
  <2>2. CASE p = Len(history) + 1 /\ p \in DOMAIN log'
    <3>1. Reach(log, r) \in Nat /\ Reach(log, r) <= Len(history) /\ Len(history) \in Nat
      BY ReachIsBehind
    <3> QED BY <1>2, <2>2, <3>1
  <2> QED BY <2>1, <2>2, MoreWork
<1>6. PlanTells'
  <2> SUFFICES ASSUME NEW r \in Mains, at'[r] = "folding", NEW p \in Work'
               PROVE  \/ p > plan'[r].through
                      \/ p \in plan'[r].tells
                      \/ \E f \in Standing(log', r) : p \in log'[f].tells /\ log'[f].from < plan'[r].from
    BY DEF PlanTells
  <2>0. at[r] = "folding" /\ plan'[r] = plan[r]
    BY <1>0 DEF Calm
  <2>1. CASE p \in Work
    BY <1>0, <1>2, <1>3, <2>0, <2>1 DEF PlanTells
  <2>2. CASE p = Len(history) + 1
    <3>1. plan[r].through <= Len(history) /\ plan[r].through \in Nat /\ Len(history) \in Nat
      BY <1>0, <2>0, EventParts DEF Base, PlansFit, Typed, FoldPlans
    <3> QED BY <2>0, <2>2, <3>1
  <2> QED BY <2>1, <2>2, MoreWork
<1> QED BY <1>5, <1>6

\* Work that is still replayed is shown at its own position.
LEMMA WorkIsShown ==
  ASSUME Base, OneByOne, NEW r \in Mains, NEW p \in Work, p \in DOMAIN log, p > Reach(log, r)
  PROVE  p \in Shown(log, r) /\ Places(log, r)[p] = 2 * p
<1>1. log[p].kind \in {"call", "said", "result"}
  BY DEF Work, Base, LogStands
<1>2. p \in Replayed(log, r) /\ p \notin FoldsOf(log)
  BY <1>1, AllSeen DEF Replayed, FoldsOf
<1>3. p \in Shown(log, r)
  BY <1>1, <1>2 DEF Shown, Dropped
<1>4. Places(log, r)[p] = Place(log, r, p, Replayed(log, r))
  BY <1>2 DEF Places
<1> QED BY <1>1, <1>3, <1>4 DEF Place

\* A fold is written from all the work it covers, that of the folds it takes the place of
\* included (compaction.go, planCompaction).
LEMMA PlanFoldKeepsRemembered ==
  ASSUME Base, Base', Structure, Folding, Remembered, [Next]_vars, NEW r \in Runs, PlanFold(r)
  PROVE  Remembered'
<1> SUFFICES ASSUME OneByOne' PROVE (WorkTold /\ PlanTells)'
  BY DEF Remembered
<1>0. /\ OneByOne /\ WorkTold /\ PlanTells /\ Mains \subseteq Runs
      /\ at \in [Runs -> Idle \cup Working] /\ plan \in [Runs -> FoldPlans]
      /\ LogFine(log)
  BY StillOneByOne, StructureTypes, BaseLogFine DEF Remembered, Base, Typed
<1>1. /\ UNCHANGED <<log, history>> /\ at[r] = "top"
      /\ \E there \in {"folding", "building"} : at' = [at EXCEPT ![r] = there]
  BY DEF PlanFold, AtModel, Goto, Unrecorded
<1>2. Work' = Work
  BY <1>1 DEF Work
<1>3. WorkTold'
  BY <1>0, <1>1, <1>2 DEF WorkTold
<1>4. PlanTells'
  <2> SUFFICES ASSUME NEW q \in Mains, at'[q] = "folding", NEW p \in Work
               PROVE  \/ p > plan'[q].through
                      \/ p \in plan'[q].tells
                      \/ \E f \in Standing(log, q) : p \in log[f].tells /\ log[f].from < plan'[q].from
    BY <1>1, <1>2 DEF PlanTells
  <2>1. CASE q # r
    <3>1. at[q] = "folding" /\ plan'[q] = plan[q]
      BY <1>0, <1>1, <2>1 DEF PlanFold
    <3> QED BY <1>0, <3>1 DEF PlanTells
  <2>2. CASE q = r
    <3>1. PICK chosen \in Plans(log, r) : plan' = [plan EXCEPT ![r] = chosen]
      BY <1>0, <1>1, <2>2 DEF PlanFold, Goto
    <3> DEFINE h == Cardinality(Standing(log, r))
               place == Places(log, r)
    <3>2. /\ chosen.through \in Shown(log, r) /\ chosen.through > Reach(log, r)
          /\ h < MaxFoldsInHead => chosen.from = Reach(log, r) + 1
          /\ h >= MaxFoldsInHead =>
               \A f \in Standing(log, r) : chosen.from <= log[f].from /\ log[f].tells \subseteq chosen.tells
          /\ \A s \in Shown(log, r) : place[s] <= place[chosen.through] => s \in chosen.tells
          /\ chosen \in FoldPlans
      BY <1>0, PlanShape
    <3>3. plan'[q] = chosen
      BY <1>0, <2>2, <3>1
    <3>4. p \in Nat /\ chosen.through \in Nat /\ Reach(log, r) \in Nat
      <4>1. DOMAIN history = 1 .. Len(history) /\ Len(history) \in Nat
        BY EventParts DEF Base
      <4>2. Reach(log, r) \in Nat
        BY ReachIsBehind
      <4> QED BY <3>2, <4>1, <4>2 DEF Work, FoldPlans
    <3>5. CASE p > chosen.through
      BY <3>3, <3>5
    <3>6. CASE p <= chosen.through /\ p \in DOMAIN log /\ p > Reach(log, r)
      <4>1. p \in Shown(log, r) /\ place[p] = 2 * p
        BY <1>0, <2>2, <3>6, WorkIsShown
      <4>2. place[chosen.through] \in Int /\ place[chosen.through] >= 2 * chosen.through
        <5>1. chosen.through \in Replayed(log, r)
          BY <3>2 DEF Shown
        <5> QED BY <1>0, <5>1, PlaceOf
      <4>3. place[p] <= place[chosen.through]
        <5> HIDE DEF place
        <5> QED BY <3>4, <3>6, <4>1, <4>2
      <4> QED BY <3>2, <3>3, <4>1, <4>3
    <3>7. CASE ~ (p \in DOMAIN log /\ p > Reach(log, r))
      <4>1. PICK f \in Standing(log, r) : p \in log[f].tells
        BY <1>0, <2>2, <3>7 DEF WorkTold
      <4>2. CASE h >= MaxFoldsInHead
        BY <3>2, <3>3, <4>1, <4>2
      <4>3. CASE h < MaxFoldsInHead
        <5>1. f \in VisibleTo(log, r) \cap FoldsOf(log) /\ f \in FoldsOf(log) /\ f \in DOMAIN log
          BY DEF Standing, FoldsOf
        <5>2. log[f].through <= Reach(log, r)
          BY <1>0, <5>1 DEF Folding, OneByOne, ReachIsFarthest
        <5>3. log[f].from \in 1 .. log[f].through /\ log[f].through \in Nat
          BY <1>0, <5>1 DEF LogFine
        <5>4. chosen.from = Reach(log, r) + 1
          BY <3>2, <4>3
        <5>5. log[f].from < chosen.from
          BY <3>4, <5>2, <5>3, <5>4
        <5> QED BY <2>2, <3>3, <4>1, <5>5
      <4>4. h \in Nat /\ MaxFoldsInHead \in Nat
        <5>1. Standing(log, r) \in SUBSET DOMAIN log
          BY DEF Standing, FoldsOf
        <5> QED BY <1>0, <5>1, Extremes, ReplayAssumption DEF ReplayAssumption
      <4> QED BY <4>2, <4>3, <4>4
    <3> QED BY <3>4, <3>5, <3>6, <3>7
  <2> QED BY <2>1, <2>2
<1> QED BY <1>3, <1>4

\* Once recorded, the fold stands in the place of what it was written from
\* (compaction.go, compactIfNeeded; conversation.go, foldsIn).
LEMMA AppendFoldKeepsRemembered ==
  ASSUME Base, Base', Structure, Folding, Remembered, [Next]_vars, NEW r \in Runs, AppendFold(r)
  PROVE  Remembered'
<1> DEFINE n == Len(history) + 1
<1> SUFFICES ASSUME OneByOne' PROVE (WorkTold /\ PlanTells)'
  BY DEF Remembered
<1>0. /\ OneByOne /\ NoneContinued /\ WorkTold /\ PlanTells /\ Mains \subseteq Runs
      /\ at \in [Runs -> Idle \cup Working]
  BY StillOneByOne, StructureTypes DEF Remembered, OneByOne
<1>1. at[r] = "folding" /\ at' = [at EXCEPT ![r] = "pruning"]
  BY DEF AppendFold, Goto
<1>2. r \in Mains
  BY <1>0, <1>1 DEF OneByOne, Runs
<1>3. /\ DOMAIN log' = DOMAIN log \cup {n} /\ \A p \in DOMAIN log : log'[p] = log[p]
      /\ n \notin DOMAIN log /\ n \in Nat
      /\ log'[n].kind = "fold" /\ log'[n].tells = plan[r].tells /\ history'[n].kind = "fold"
  <2>1. Says(n, "fold", r, 0) /\ history'[n].tells = plan[r].tells
    BY StepsSay
  <2>2. /\ n \in Nat /\ DOMAIN log \subseteq 1 .. n - 1 /\ log'[n] = history'[n]
        /\ DOMAIN log' = DOMAIN log \cup {n} /\ \A p \in DOMAIN log : log'[p] = log[p]
    BY <2>1 DEF Says, Grown
  <2>3. n \notin DOMAIN log
    BY <2>2
  <2> QED BY <2>1, <2>2, <2>3 DEF Says
<1>0a. n = Len(history) + 1
  OBVIOUS
<1> HIDE DEF n
<1>4. ASSUME NEW p \in Work' PROVE p \in Work
  <2>1. p # n
    BY <1>3 DEF Work
  <2> QED BY <1>0a, <2>1, MoreWork
<1>5. WorkTold'
  <2> SUFFICES ASSUME NEW q \in Mains, NEW p \in Work'
               PROVE  \/ p \in DOMAIN log' /\ p > Reach(log', q)
                      \/ \E f \in Standing(log', q) : p \in log'[f].tells
    BY DEF WorkTold
  <2>1. n \in VisibleTo(log', q)
    <3>1. VisibleTo(log', q) = DOMAIN log'
      BY AllSeenNext
    <3> QED BY <1>3, <3>1
  <2>2. /\ Reach(log', q) = plan[r].through
        /\ Standing(log', q) = {f \in Standing(log, q) : log[f].from < plan[r].from} \cup {n}
    BY <1>0, <1>0a, <2>1, AppendFoldAdvances
  <2>3. plan[r].through > Reach(log, r) /\ plan[r].through \in Nat
    <3>1. plan \in [Runs -> FoldPlans]
      BY DEF Base, Typed
    <3> QED BY <1>0, <1>1, <3>1 DEF Folding, PlansStand, FoldPlans
  <2>4. Standing(log, q) = Standing(log, r)
    BY <1>0, <1>2, AllSeen, SameSight
  <2>5. p \in Work
    BY <1>4
  <2>6. \/ p > plan[r].through
        \/ p \in plan[r].tells
        \/ \E f \in Standing(log, r) : p \in log[f].tells /\ log[f].from < plan[r].from
    BY <1>0, <1>1, <1>2, <2>5 DEF PlanTells
  <2>7. CASE p > plan[r].through
    <3>1. p \in Nat /\ Reach(log, r) \in Nat /\ p \in DOMAIN history
      <4>1. DOMAIN history = 1 .. Len(history) /\ Len(history) \in Nat
        BY EventParts DEF Base
      <4>2. Reach(log, r) \in Nat
        BY ReachIsBehind
      <4> QED BY <2>5, <4>1, <4>2 DEF Work
    <3>2. p \in DOMAIN log \/ p <= Reach(log, r)
      BY <1>0, <1>2, <3>1, GoneIsReached
    <3>3. p \in DOMAIN log
      BY <2>3, <2>7, <3>1, <3>2
    <3> QED BY <1>3, <2>2, <2>7, <3>3
  <2>8. CASE p \in plan[r].tells
    BY <1>3, <2>2, <2>8
  <2>9. CASE \E f \in Standing(log, r) : p \in log[f].tells /\ log[f].from < plan[r].from
    <3>1. PICK f \in Standing(log, r) : p \in log[f].tells /\ log[f].from < plan[r].from
      BY <2>9
    <3>2. f \in DOMAIN log
      BY DEF Standing, FoldsOf
    <3> QED BY <1>3, <2>2, <2>4, <3>1, <3>2
  <2> QED BY <2>6, <2>7, <2>8, <2>9
<1>6. PlanTells'
  <2> SUFFICES ASSUME NEW q \in Mains, at'[q] = "folding" PROVE FALSE
    BY DEF PlanTells
  <2>1. at[q] = "folding" /\ q # r
    BY <1>0, <1>1
  <2> QED BY <1>0, <1>1, <1>2, <2>1 DEF Structure, OneTurn, Working
<1> QED BY <1>5, <1>6

\* Choosing a cut loses nothing (retention.go, PruneSession).
LEMMA ChooseCutKeepsRemembered ==
  ASSUME Base, Base', Structure, Folding, Remembered, [Next]_vars, NEW r \in Runs, ChooseCut(r)
  PROVE  Remembered'
<1> SUFFICES ASSUME OneByOne' PROVE (WorkTold /\ PlanTells)'
  BY DEF Remembered
<1>0. /\ OneByOne /\ WorkTold /\ PlanTells /\ Mains \subseteq Runs
      /\ at \in [Runs -> Idle \cup Working]
  BY StillOneByOne, StructureTypes DEF Remembered
<1>1. /\ UNCHANGED <<log, history, plan>>
      /\ \E there \in {"discarding", "building"} : at' = [at EXCEPT ![r] = there]
  BY DEF ChooseCut, Goto, Unrecorded
<1>2. Work' = Work
  BY <1>1 DEF Work
<1>3. WorkTold'
  BY <1>0, <1>1, <1>2 DEF WorkTold
<1>4. PlanTells'
  <2>1. \A q \in Mains : at'[q] = "folding" => at[q] = "folding"
    BY <1>0, <1>1
  <2> QED BY <1>0, <1>1, <1>2, <2>1 DEF PlanTells
<1> QED BY <1>3, <1>4

\* No step loses anything.
LEMMA NextKeepsRemembered ==
  Base /\ Base' /\ Structure /\ Folding /\ Remembered /\ [Next]_vars => Remembered'
BY CalmSteps, CalmKeepsRemembered, PlanFoldKeepsRemembered, AppendFoldKeepsRemembered,
   ChooseCutKeepsRemembered

\* There is nothing to lose in a conversation in which nothing was said yet.
LEMMA InitRemembered == Init => Remembered
BY DEF Init, Remembered, WorkTold, PlanTells, Work, Runs

\* While the runs go one by one, what they did is replayed or told by a fold that stands,
\* at every step of every compaction.
THEOREM RememberedHolds == Spec => []Remembered
BY InitRemembered, BaseHolds, StructureHolds, FoldingHolds, NextKeepsRemembered, PTL DEF Spec

\* The model forgets nothing a run of the conversation did, while the runs go one by one
\* (compaction.go; conversation.go, apply).
THEOREM WorkStaysKnown == Spec => []WorkIsRemembered
<1>1. Base /\ Remembered => WorkIsRemembered
  <2> SUFFICES ASSUME Base, Remembered, OneByOne, NEW r \in Mains, NEW p \in Work
               PROVE  p \in Known(r)
    BY DEF WorkIsRemembered, Work
  <2>1. Known(r) = Told(Conversation(log, r))
    BY DEF Known
  <2>2. CASE p \in DOMAIN log /\ p > Reach(log, r)
    <3>1. p \in Shown(log, r)
      BY <2>2, WorkIsShown
    <3> QED BY <2>1, <3>1, BaseLogFine, ToldIs
  <2>3. CASE \E f \in Standing(log, r) : p \in log[f].tells
    BY <2>1, <2>3, BaseLogFine, ToldIs
  <2> QED BY <2>2, <2>3 DEF Remembered, WorkTold
<1> QED BY <1>1, BaseHolds, RememberedHolds, PTL

\* How the script falls into messages: all that one holds has one role, they follow the
\* script, and one ends only where the next event does not belong to it.
Divided(l, run, m, h) ==
  /\ \A i \in h + 1 .. Len(m) : \A p \in m[i].parts : Role(l, p) = m[i].role
  /\ \A i, j \in h + 1 .. Len(m) :
       i < j => Places(l, run)[m[i].last] < Places(l, run)[m[j].last]
  /\ \A i \in h + 1 .. Len(m) : \A p \in Shown(l, run) :
       \/ Places(l, run)[p] <= Places(l, run)[m[i].last]
       \/ \E q \in Shown(l, run) : /\ Places(l, run)[m[i].last] < Places(l, run)[q]
                                   /\ Places(l, run)[q] < Places(l, run)[p]
       \/ ~ SameMessage(l, m[i].last, p)

\* A message holds a stretch of the script, all of one role, and ends where the next event
\* is of another message (conversation.go, apply).
LEMMA MessagesDivide ==
  ASSUME NEW l, LogFine(l), NEW run
  PROVE  Divided(l, run, Conversation(l, run), Cardinality(Standing(l, run)))
<1> DEFINE m == Conversation(l, run)
           h == Cardinality(Standing(l, run))
           place == Places(l, run)
           s == Script(l, run)
           folds == Ascending(Standing(l, run))
           ends == Ascending(Ends(l, s))
<1>0. /\ s = Script(l, run) /\ folds = Ascending(Standing(l, run)) /\ ends = Ascending(Ends(l, s))
      /\ m = Conversation(l, run) /\ h = Cardinality(Standing(l, run)) /\ place = Places(l, run)
  OBVIOUS
<1> HIDE DEF s, folds, ends, m, h, place
<1>1. /\ h \in Nat /\ Len(ends) \in Nat /\ Len(m) = h + Len(ends)
  <2>1. Len(folds) \in Nat /\ Len(folds) = h
    BY <1>0, FoldsInOrder
  <2>2. Len(ends) \in Nat
    BY <1>0, EndsInOrder
  <2>3. Len(m) = Len(folds) + Len(ends)
    BY <1>0, MessagesAre
  <2> QED BY <2>1, <2>2, <2>3
<1>2. /\ \A k \in 1 .. Len(ends) : ends[k] \in Ends(l, s) /\ ends[k] \in 1 .. Len(s)
      /\ \A e \in Ends(l, s) : \E k \in 1 .. Len(ends) : ends[k] = e
      /\ \A j, k \in 1 .. Len(ends) : j < k <=> ends[j] < ends[k]
  BY <1>0, EndsInOrder
<1>3. \A k \in 1 .. Len(ends) : m[h + k] = Piece(l, s, ends, k)
  <2>1. Len(folds) = h
    BY <1>0, FoldsInOrder
  <2>2. \A k \in 1 .. Len(ends) : m[Len(folds) + k] = Piece(l, s, ends, k)
    BY <1>0, MessagesAre
  <2> QED BY <2>1, <2>2
<1>4. /\ Len(s) \in Nat /\ DOMAIN s = 1 .. Len(s)
      /\ \A i \in 1 .. Len(s) : s[i] \in Shown(l, run)
      /\ \A p \in Shown(l, run) : place[p] \in Int /\ \E i \in 1 .. Len(s) : s[i] = p
      /\ \A i, j \in 1 .. Len(s) : i < j <=> place[s[i]] < place[s[j]]
  BY <1>0, ScriptProperties
<1>5. \A i \in h + 1 .. Len(m) : i - h \in 1 .. Len(ends) /\ i = h + (i - h)
  BY <1>1
<1>6. ASSUME NEW k \in 1 .. Len(ends)
      PROVE  /\ m[h + k].role = Role(l, s[ends[k]]) /\ m[h + k].last = s[ends[k]]
             /\ m[h + k].parts = {s[i] : i \in First(ends, k) .. ends[k]}
  <2> DEFINE parts == {s[i] : i \in First(ends, k) .. ends[k]}
  <2>1. m[h + k] = [role |-> Role(l, s[ends[k]]), from |-> 0, last |-> s[ends[k]], parts |-> parts]
    BY <1>3 DEF Piece
  <2> HIDE DEF parts
  <2>2. m[h + k].role = Role(l, s[ends[k]]) /\ m[h + k].last = s[ends[k]] /\ m[h + k].parts = parts
    BY <2>1
  <2> QED BY <2>2 DEF parts
<1>7. ASSUME NEW k \in 1 .. Len(ends), NEW i \in First(ends, k) .. ends[k], i < ends[k]
      PROVE  i \in 1 .. Len(s) - 1 /\ i \notin Ends(l, s)
  <2>1. ends[k] \in 1 .. Len(s)
    BY <1>2
  <2>2. ASSUME NEW j \in 1 .. Len(ends), ends[j] = i PROVE FALSE
    <3>1. j < k
      BY <1>2, <1>7, <2>2
    <3>2. PICK c \in 1 .. Len(ends) : c = k - 1 /\ j <= c /\ k # 1
      BY <1>1, <3>1
    <3>3. i >= ends[c] + 1
      BY <3>2 DEF First
    <3>4. ends[j] <= ends[c] /\ ends[c] \in Nat /\ ends[j] \in Nat
      <4>1. j = c \/ j < c
        BY <3>2
      <4>2. ends[c] \in 1 .. Len(s) /\ ends[j] \in 1 .. Len(s)
        BY <1>2
      <4> QED BY <1>2, <1>4, <4>1, <4>2
    <3> QED BY <2>2, <3>3, <3>4
  <2>3. i >= 1
    <3>1. CASE k = 1
      BY <3>1 DEF First
    <3>2. CASE k # 1
      <4>1. PICK c \in 1 .. Len(ends) : c = k - 1
        BY <1>1, <3>2
      <4>2. i >= ends[c] + 1 /\ ends[c] \in 1 .. Len(s)
        BY <1>2, <3>2, <4>1 DEF First
      <4> QED BY <4>2
    <3> QED BY <3>1, <3>2
  <2> QED BY <1>2, <1>4, <1>7, <2>1, <2>2, <2>3
<1>7a. ASSUME NEW i \in 1 .. Len(s) - 1, i \notin Ends(l, s)
       PROVE  SameMessage(l, s[i], s[i + 1])
  <2>1. Len(s) \in Nat
    BY <1>4
  <2>2. i \in 1 .. Len(s) /\ i # Len(s)
    BY <2>1
  <2>3. i \in DOMAIN s
    BY <1>4, <2>2
  <2> QED BY <1>7a, <2>2, <2>3 DEF Ends
<1>8. ASSUME NEW k \in 1 .. Len(ends), NEW i \in First(ends, k) .. ends[k]
      PROVE  Role(l, s[i]) = Role(l, s[ends[k]])
  <2> DEFINE other == {j \in 0 .. Len(s) : /\ j \in First(ends, k) .. ends[k]
                                           /\ Role(l, s[j]) # Role(l, s[ends[k]])}
  <2> SUFFICES ASSUME Role(l, s[i]) # Role(l, s[ends[k]]) PROVE FALSE
    OBVIOUS
  <2>1. ends[k] \in 1 .. Len(s)
    BY <1>2
  <2>2. i \in other
    <3>1. i < ends[k]
      BY <2>1
    <3> QED BY <1>7, <3>1
  <2>3. other \in SUBSET (0 .. Len(s)) /\ other # {}
    BY <2>2
  <2> DEFINE j == Max(other)
  <2>4. j \in other /\ \A c \in other : c <= j
    <3> HIDE DEF other
    <3> QED BY <1>4, <2>3, MaxIsMost
  <2> HIDE DEF j
  <2>5. j \in First(ends, k) .. ends[k] /\ j < ends[k] /\ Role(l, s[j]) # Role(l, s[ends[k]])
    BY <2>1, <2>4
  <2>6. j \in 1 .. Len(s) - 1 /\ j \notin Ends(l, s)
    BY <1>7, <2>5
  <2>7. SameMessage(l, s[j], s[j + 1])
    BY <2>6, <1>7a
  <2>8. Role(l, s[j + 1]) = Role(l, s[j])
    BY <2>7 DEF SameMessage, Role
  <2>9. j + 1 \in other
    <3>1. First(ends, k) \in Nat
      <4>1. CASE k = 1
        BY <4>1 DEF First
      <4>2. CASE k # 1
        <5>1. PICK c \in 1 .. Len(ends) : c = k - 1
          BY <1>1, <4>2
        <5>2. ends[c] \in 1 .. Len(s) /\ First(ends, k) = ends[c] + 1
          BY <1>2, <4>2, <5>1 DEF First
        <5> QED BY <5>2
      <4> QED BY <4>1, <4>2
    <3>2. j + 1 \in First(ends, k) .. ends[k] /\ j + 1 \in 0 .. Len(s)
      BY <1>4, <2>1, <2>5, <2>6, <3>1
    <3> QED BY <2>5, <2>8, <3>2
  <2>10. j + 1 <= j
    BY <2>4, <2>9
  <2> QED BY <2>6, <2>10
<1>9. \A i \in h + 1 .. Len(m) : \A p \in m[i].parts : Role(l, p) = m[i].role
  <2> SUFFICES ASSUME NEW i \in h + 1 .. Len(m), NEW p \in m[i].parts
               PROVE  Role(l, p) = m[i].role
    OBVIOUS
  <2>1. PICK k \in 1 .. Len(ends) : i = h + k
    BY <1>5
  <2>2. PICK j \in First(ends, k) .. ends[k] : p = s[j]
    BY <1>6, <2>1
  <2> QED BY <1>6, <1>8, <2>1, <2>2
<1>10. \A i, j \in h + 1 .. Len(m) : i < j => place[m[i].last] < place[m[j].last]
  <2> SUFFICES ASSUME NEW i \in h + 1 .. Len(m), NEW j \in h + 1 .. Len(m), i < j
               PROVE  place[m[i].last] < place[m[j].last]
    OBVIOUS
  <2>1. PICK b \in 1 .. Len(ends) : i = h + b
    BY <1>5
  <2>2. PICK c \in 1 .. Len(ends) : j = h + c
    BY <1>5
  <2>3. ends[b] < ends[c] /\ ends[b] \in 1 .. Len(s) /\ ends[c] \in 1 .. Len(s)
    <3>1. b < c
      BY <1>1, <2>1, <2>2
    <3> QED BY <1>2, <3>1
  <2>4. place[s[ends[b]]] < place[s[ends[c]]]
    BY <1>4, <2>3
  <2> QED BY <1>6, <2>1, <2>2, <2>4
<1>11. ASSUME NEW i \in h + 1 .. Len(m), NEW p \in Shown(l, run)
       PROVE  \/ place[p] <= place[m[i].last]
              \/ \E q \in Shown(l, run) : place[m[i].last] < place[q] /\ place[q] < place[p]
              \/ ~ SameMessage(l, m[i].last, p)
  <2>1. PICK k \in 1 .. Len(ends) : i = h + k
    BY <1>5
  <2>2. PICK j \in 1 .. Len(s) : s[j] = p
    BY <1>4
  <2>3. m[i].last = s[ends[k]] /\ ends[k] \in 1 .. Len(s) /\ ends[k] \in Ends(l, s)
    BY <1>2, <1>6, <2>1
  <2>4. CASE j <= ends[k]
    <3>1. ~ (place[s[ends[k]]] < place[s[j]])
      BY <1>4, <2>3, <2>4
    <3>2. place[s[ends[k]]] \in Int /\ place[s[j]] \in Int
      BY <1>4, <2>3
    <3> QED BY <2>2, <2>3, <3>1, <3>2
  <2>5. CASE j = ends[k] + 1
    <3>1. ends[k] # Len(s)
      BY <1>4, <2>5
    <3>2. ~ SameMessage(l, s[ends[k]], s[ends[k] + 1])
      BY <2>3, <3>1 DEF Ends
    <3> QED BY <2>2, <2>3, <2>5, <3>2
  <2>6. CASE j > ends[k] + 1
    <3>1. PICK e \in 1 .. Len(s) : e = ends[k] + 1
      BY <1>4, <2>3, <2>6
    <3>2. ends[k] < e /\ e < j
      BY <2>3, <2>6, <3>1
    <3> QED BY <1>4, <2>2, <2>3, <3>1, <3>2
  <2> QED BY <2>3, <2>4, <2>5, <2>6
<1> QED BY <1>9, <1>10, <1>11 DEF Divided, m, h, place

\* A run that waits for its worker has one, and it was sent (investigate.go, Investigate).
Delegated ==
  \A r \in Runs : at[r] = "delegating" => child[r] \in Workers /\ at[child[r]] # "unsent"

\* The last thing run r said stands at q.
LastOf(r, q) ==
  /\ q \in DOMAIN history /\ history[q].run = r
  /\ \A j \in DOMAIN history : j > q => history[j].run # r

\* Where a run stands from the time its calls are answered until it asks for another.
Clear == {"waiting", "folding", "pruning", "discarding", "building", "asking"}

\* What a run owes, as long as the runs stand side by side: nothing while it is about to
\* ask the model, and afterwards only the call its last turn asked for, which no fold
\* has come after.
Owing(r) ==
  /\ at[r] \in Clear => Outstanding(log, r) = {}
  /\ at[r] = "called" =>
       \A q \in Outstanding(log, r) : LastOf(r, q) /\ \A f \in FoldsOf(log) : f < q
  /\ at[r] = "top" =>
       \A q \in Outstanding(log, r) : /\ LastOf(r, q + 1) /\ history[q + 1].kind = "said"
                                      /\ \A f \in FoldsOf(log) : f < q

\* Runs owe their calls one at a time, as long as they stand side by side.
Owes == Delegated /\ (Orderly => \A r \in Mains : Owing(r))

\* Runs that stand side by side after a step did so before it.
LEMMA OrderlyBefore ==
  ASSUME Base, Base', Structure, Folding, [Next]_vars, Orderly'
  PROVE  Orderly
<1>1. OneByOne
  BY StillOneByOne DEF Orderly
<1>2. ASSUME NEW i \in DOMAIN history, NEW j \in DOMAIN history, NEW k \in DOMAIN history,
             i < j, j < k, history[i].run = history[k].run
      PROVE  history[j].run = history[i].run
  BY <1>2, HistoryStands DEF Orderly
<1> QED BY <1>1, <1>2 DEF Orderly

\* What a run owes once an event was recorded.
LEMMA OwedAfter ==
  ASSUME Base, NEW n, NEW kind, NEW r, NEW call, Says(n, kind, r, call), NEW s,
         NEW q \in Outstanding(log', s)
  PROVE  \/ q \in Outstanding(log, s) /\ (kind = "result" => q # call)
         \/ q = n /\ kind = "call" /\ s = r
<1>1. /\ DOMAIN log' = DOMAIN log \cup {n} /\ \A p \in DOMAIN log : log'[p] = log[p]
      /\ log'[n] = history'[n] /\ n \notin DOMAIN log /\ n \in DOMAIN log'
      /\ history'[n].kind = kind /\ history'[n].run = r /\ history'[n].call = call
  <2>1. /\ DOMAIN log' = DOMAIN log \cup {n} /\ \A p \in DOMAIN log : log'[p] = log[p]
        /\ log'[n] = history'[n] /\ DOMAIN log \subseteq 1 .. n - 1 /\ n \in Nat
    BY DEF Says, Grown
  <2>2. n \notin DOMAIN log
    BY <2>1
  <2> QED BY <2>1, <2>2 DEF Says
<1>2. /\ q \in DOMAIN log' /\ log'[q].kind = "call" /\ log'[q].run = s
      /\ \A p \in DOMAIN log' : log'[p].kind = "result" => log'[p].call # q
  BY DEF Outstanding
<1>3. CASE q = n
  BY <1>1, <1>2, <1>3
<1>4. CASE q # n
  <2>1. q \in DOMAIN log /\ log[q].kind = "call" /\ log[q].run = s
    BY <1>1, <1>2, <1>4
  <2>2. \A p \in DOMAIN log : log[p].kind = "result" => log[p].call # q
    BY <1>1, <1>2
  <2>3. kind = "result" => q # call
    BY <1>1, <1>2
  <2> QED BY <2>1, <2>2, <2>3 DEF Outstanding
<1> QED BY <1>3, <1>4

\* Discarding takes a call away with its result, or before it: nothing becomes owed
\* again (retention.go, safeCut).
LEMMA OwedAfterPrune ==
  ASSUME Base, NEW r \in Runs, Prune(r), NEW s
  PROVE  Outstanding(log', s) \subseteq Outstanding(log, s)
<1>1. /\ DOMAIN log' \subseteq DOMAIN log /\ \A p \in DOMAIN log' : log'[p] = log[p]
      /\ \A p \in DOMAIN log : p \in DOMAIN log' <=> (p > cut[r] \/ p \in FoldsOf(log))
      /\ cut[r] \in Nat
  BY PruneLeaves DEF Base, Typed
<1> SUFFICES ASSUME NEW q \in Outstanding(log', s) PROVE q \in Outstanding(log, s)
  OBVIOUS
<1>2. /\ q \in DOMAIN log /\ log[q].kind = "call" /\ log[q].run = s /\ q \in DOMAIN log'
      /\ \A p \in DOMAIN log' : log[p].kind = "result" => log[p].call # q
  BY <1>1 DEF Outstanding
<1>3. q > cut[r]
  BY <1>1, <1>2 DEF FoldsOf
<1>4. ASSUME NEW p \in DOMAIN log, log[p].kind = "result", log[p].call = q PROVE FALSE
  <2>1. log[p].call < p /\ p \in Nat
    BY BaseLogFine, Positions DEF Base, LogStands, EventsStand, PointsBack
  <2>2. p > cut[r]
    BY <1>1, <1>2, <1>3, <1>4, <2>1, BaseLogFine, Positions
  <2> QED BY <1>1, <1>2, <1>4, <2>2
<1> QED BY <1>2, <1>4 DEF Outstanding

\* In a session whose runs stand side by side, what a run says next stands right after
\* what it said last.
LEMMA NextToLast ==
  ASSUME Base, NEW n, NEW kind, NEW r, NEW call, Says(n, kind, r, call), Orderly',
         NEW q, LastOf(r, q)
  PROVE  n = q + 1
<1>1. /\ DOMAIN history = 1 .. n - 1 /\ DOMAIN history' = 1 .. n /\ n \in Nat
      /\ \A p \in 1 .. n - 1 : history'[p] = history[p]
      /\ history'[n].run = r
  BY DEF Says, Grown
<1>2. q \in 1 .. n - 1 /\ history[q].run = r /\ \A j \in 1 .. n - 1 : j > q => history[j].run # r
  BY <1>1 DEF LastOf
<1> SUFFICES ASSUME q + 1 # n PROVE FALSE
  OBVIOUS
<1>3. q + 1 \in 1 .. n - 1 /\ q < q + 1 /\ q + 1 < n /\ q \in 1 .. n /\ n \in 1 .. n /\ q + 1 \in 1 .. n
  BY <1>1, <1>2
<1>4. \A i, j, k \in 1 .. n :
        (i < j /\ j < k /\ history'[i].run = history'[k].run) => history'[j].run = history'[i].run
  BY <1>1 DEF Orderly
<1>5. history'[q].run = history'[n].run
  BY <1>1, <1>2
<1>6. history'[q + 1].run = history'[q].run
  BY <1>3, <1>4, <1>5
<1> QED BY <1>1, <1>2, <1>3, <1>6

\* What others record changes nothing of what a run owes, as long as it is no fold.
LEMMA OthersOwe ==
  ASSUME Base, NEW s, Owing(s), at'[s] = at[s],
         NEW n, NEW kind, NEW r, NEW call, Says(n, kind, r, call), r # s,
         kind = "fold" => at[s] \notin {"called", "top"}
  PROVE  Owing(s)'
<1>1. \A q \in Outstanding(log', s) : q \in Outstanding(log, s)
  BY OwedAfter
<1>2. /\ DOMAIN history = 1 .. n - 1 /\ DOMAIN history' = 1 .. n /\ n \in Nat
      /\ \A p \in 1 .. n - 1 : history'[p] = history[p]
      /\ history'[n].run = r
  BY DEF Says, Grown
<1>3. ASSUME NEW q, LastOf(s, q)
      PROVE  LastOf(s, q)' /\ history'[q].kind = history[q].kind
  <2>1. q \in 1 .. n - 1 /\ history[q].run = s /\ \A j \in 1 .. n - 1 : j > q => history[j].run # s
    BY <1>2, <1>3 DEF LastOf
  <2>2. q \in 1 .. n /\ history'[q].run = s /\ history'[q].kind = history[q].kind
    BY <1>2, <2>1
  <2>3. \A j \in 1 .. n : j > q => history'[j].run # s
    <3> SUFFICES ASSUME NEW j \in 1 .. n, j > q PROVE history'[j].run # s
      OBVIOUS
    <3>1. CASE j = n
      BY <1>2, <3>1
    <3>2. CASE j # n
      <4>1. j \in 1 .. n - 1
        BY <1>2, <3>2
      <4> QED BY <1>2, <2>1, <4>1
    <3> QED BY <3>1, <3>2
  <2> QED BY <1>2, <2>2, <2>3 DEF LastOf
<1>4. at[s] \in {"called", "top"} => FoldsOf(log') = FoldsOf(log)
  BY SaysOtherKeepsFolds
<1>5. at'[s] \in Clear => Outstanding(log', s) = {}
  BY <1>1 DEF Owing
<1>6. at'[s] = "called" =>
        \A q \in Outstanding(log', s) : LastOf(s, q)' /\ \A f \in FoldsOf(log') : f < q
  BY <1>1, <1>3, <1>4 DEF Owing
<1>7. at'[s] = "top" =>
        \A q \in Outstanding(log', s) : /\ LastOf(s, q + 1)' /\ history'[q + 1].kind = "said"
                                        /\ \A f \in FoldsOf(log') : f < q
  BY <1>1, <1>3, <1>4 DEF Owing
<1> QED BY <1>5, <1>6, <1>7 DEF Owing, LastOf, Outstanding, FoldsOf

\* A run that owes no call, or stands where nothing is claimed of it, is in order.
LEMMA OwingNothing ==
  ASSUME NEW s, Outstanding(log', s) = {} \/ at'[s] \notin Clear \cup {"called", "top"}
  PROVE  Owing(s)'
<1>1. \/ Outstanding(log', s) = {} \/ at'[s] \notin Clear \cup {"called", "top"}
  OBVIOUS
<1>2. at'[s] \in Clear => Outstanding(log', s) = {}
  BY <1>1
<1> QED BY <1>1, <1>2 DEF Owing, Outstanding

\* What a run owes does not change while neither its log nor its place does.
LEMMA OwingStill ==
  ASSUME NEW s, Owing(s), UNCHANGED <<log, history>>, at'[s] = at[s]
  PROVE  Owing(s)'
BY DEF Owing, LastOf, Outstanding, FoldsOf

\* The step of one run keeps what the others owe (runtime.go, execute).
LEMMA StepKeepsOthers ==
  ASSUME Base, NEW s, Owing(s), at'[s] = at[s],
         \/ UNCHANGED <<log, history>>
         \/ \E q \in Runs : Prune(q) /\ at[s] \notin {"called", "top"}
         \/ \E kind : \E r : \E call :
              /\ Says(Len(history) + 1, kind, r, call) /\ r # s
              /\ kind = "fold" => at[s] \notin {"called", "top"}
  PROVE  Owing(s)'
<1>1. CASE UNCHANGED <<log, history>>
  BY <1>1, OwingStill
<1>2. ASSUME NEW q \in Runs, Prune(q), at[s] \notin {"called", "top"} PROVE Owing(s)'
  <2>1. Outstanding(log', s) \subseteq Outstanding(log, s)
    BY <1>2, OwedAfterPrune
  <2>2. CASE at[s] \in Clear
    BY <2>1, <2>2, OwingNothing DEF Owing
  <2>3. CASE at[s] \notin Clear
    BY <1>2, <2>3, OwingNothing
  <2> QED BY <2>2, <2>3
<1>3. ASSUME NEW kind, NEW r, NEW call, Says(Len(history) + 1, kind, r, call), r # s,
             kind = "fold" => at[s] \notin {"called", "top"}
      PROVE  Owing(s)'
  BY <1>3, OthersOwe
<1> QED BY <1>1, <1>2, <1>3

\* A run of the conversation is at work alone, as long as the runs go one by one.
LEMMA Alone ==
  ASSUME Base, Structure, OneByOne, NEW r \in Runs, at[r] \in Working
  PROVE  r \in Mains /\ \A s \in Mains : s # r => at[s] \notin Working
<1>1. r \in Mains
  BY DEF OneByOne, Runs, Working
<1> QED BY <1>1 DEF OneByOne, Structure, OneTurn

\* A run that waits has a worker that was sent, after every step (investigate.go, Investigate).
LEMMA DelegatedStill ==
  ASSUME Base, Structure, Delegated, [Next]_vars
  PROVE  Delegated'
<1>0. /\ at \in [Runs -> Idle \cup Working] /\ child \in [Runs -> Workers \cup {NoRun}]
      /\ Mains \subseteq Runs /\ Workers \subseteq Runs
      /\ \A r \in Runs : at[r] = "delegating" => child[r] \in Runs
      /\ \A r \in Runs : r \in Mains <=> r \notin Workers
  BY StructureTypes DEF Delegated
<1>1. ASSUME NEW r \in Runs, UNCHANGED child,
             \E there \in (Idle \cup Working) \ {"unsent", "delegating"} : at' = [at EXCEPT ![r] = there]
      PROVE  Delegated'
  BY <1>0, <1>1 DEF Delegated
<1>2. ASSUME StartNext PROVE Delegated'
  <2>1. Head(line) \in Runs
    BY <1>2, StructureTypes DEF StartNext
  <2> QED BY <1>1, <1>2, <2>1 DEF StartNext, Goto, Working
<1>3. ASSUME NEW r \in Runs, NEW p, NEW w \in Workers, Delegate(r, p, w) PROVE Delegated'
  <2>1. /\ at' = [at EXCEPT ![r] = "delegating", ![w] = "top"] /\ r \in Mains /\ r # w
        /\ child' = [child EXCEPT ![r] = w]
    BY <1>0, <1>3 DEF Delegate
  <2>2. \A q \in Runs : at[q] # "unsent" => at'[q] # "unsent"
    BY <1>0, <2>1
  <2>3. at'[w] # "unsent" /\ child'[r] = w
    BY <1>0, <2>1
  <2>4. \A q \in Runs : (q # r /\ at'[q] = "delegating") => at[q] = "delegating" /\ child'[q] = child[q]
    BY <1>0, <2>1
  <2> QED BY <1>0, <2>2, <2>3, <2>4 DEF Delegated
<1>4. ASSUME NEW r \in Runs,
             \/ Send(r) \/ CutShort(r) \/ Decide(r) \/ TakeAnswer(r) \/ OutOfTurns(r)
             \/ AppendFold(r) \/ Prune(r) \/ BuildRequest(r) \/ AskForTool(r)
             \/ CompleteTurn(r) \/ Finish(r)
      PROVE  Delegated'
  <2>1. /\ UNCHANGED child
        /\ \E there \in {"waiting", "top", "over", "ending", "pruning", "building", "asking", "called"} :
             at' = [at EXCEPT ![r] = there]
    BY <1>4 DEF Send, CutShort, Decide, TakeAnswer, OutOfTurns, AppendFold, Prune, BuildRequest,
         AskForTool, CompleteTurn, Finish, Goto, SameWork
  <2>2. {"waiting", "top", "over", "ending", "pruning", "building", "asking", "called"}
          \subseteq (Idle \cup Working) \ {"unsent", "delegating"}
    BY DEF Idle, Working
  <2> QED BY <1>1, <2>1, <2>2
<1>5. ASSUME NEW r \in Runs, NEW p, RunTool(r, p) \/ Park(r, p) PROVE Delegated'
  <2>1. CASE RunTool(r, p)
    BY <2>1 DEF RunTool, SameWork, Delegated
  <2>2. CASE Park(r, p)
    BY <1>1, <2>2 DEF Park, Goto, Idle
  <2> QED BY <1>5, <2>1, <2>2
<1>6. ASSUME NEW r \in Runs, PlanFold(r) \/ ChooseCut(r) PROVE Delegated'
  <2>1. /\ UNCHANGED child
        /\ \E there \in {"folding", "building", "discarding"} : at' = [at EXCEPT ![r] = there]
    BY <1>6 DEF PlanFold, ChooseCut, Goto
  <2>2. {"folding", "building", "discarding"} \subseteq (Idle \cup Working) \ {"unsent", "delegating"}
    BY DEF Working
  <2> QED BY <1>1, <2>1, <2>2
<1>7. ASSUME UNCHANGED vars PROVE Delegated'
  BY <1>7 DEF vars, Delegated
<1>8. ASSUME NEW r \in Runs, Loop(r) PROVE Delegated'
  <2>1. CASE Settle(r)
    <3>1. PICK p \in DOMAIN log :
            RunTool(r, p) \/ Park(r, p) \/ \E w \in Workers : Delegate(r, p, w)
      BY <2>1 DEF Settle
    <3> QED BY <3>1, <1>3, <1>5
  <2>2. CASE Compact(r)
    BY <2>2, <1>4, <1>6 DEF Compact
  <2>3. CASE ~ Settle(r) /\ ~ Compact(r)
    BY <1>8, <2>3, <1>4 DEF Loop
  <2> QED BY <2>1, <2>2, <2>3
<1> QED BY <1>2, <1>4, <1>7, <1>8 DEF Next

\* A call is the last thing its run said, until its turn is complete.
LEMMA OwesItsCall ==
  ASSUME Base, NEW s, NEW n, Says(n, "call", s, 0), Outstanding(log, s) = {}, at'[s] = "called"
  PROVE  Owing(s)'
<1>1. \A q \in Outstanding(log', s) : q = n
  BY OwedAfter
<1>2. /\ DOMAIN history' = 1 .. n /\ n \in Nat /\ history'[n].run = s /\ n = Len(history) + 1
      /\ DOMAIN log \subseteq 1 .. n - 1
  BY DEF Says, Grown
<1>3. LastOf(s, n)'
  <2>1. n \in 1 .. n /\ \A j \in 1 .. n : ~ (j > n)
    BY <1>2
  <2> QED BY <1>2, <2>1 DEF LastOf
<1>4. \A f \in FoldsOf(log') : f < n
  <2>1. FoldsOf(log') = FoldsOf(log)
    BY SaysOtherKeepsFolds
  <2>2. \A f \in FoldsOf(log) : f \in 1 .. n - 1
    BY <1>2 DEF FoldsOf
  <2> QED BY <1>2, <2>1, <2>2
<1> QED BY <1>1, <1>3, <1>4 DEF Owing, LastOf, Outstanding, FoldsOf, Clear

\* Its turn complete, the reply stands right after the call.
LEMMA OwesItsTurn ==
  ASSUME Base, Orderly', NEW s, Owing(s), at[s] = "called", at'[s] = "top",
         NEW n, Says(n, "said", s, 0)
  PROVE  Owing(s)'
<1>1. \A q \in Outstanding(log', s) : q \in Outstanding(log, s)
  BY OwedAfter
<1>2. \A q \in Outstanding(log, s) : LastOf(s, q) /\ \A f \in FoldsOf(log) : f < q
  BY DEF Owing
<1>3. \A q \in Outstanding(log', s) : n = q + 1
  BY <1>1, <1>2, NextToLast
<1>4. /\ DOMAIN history' = 1 .. n /\ n \in Nat /\ history'[n].run = s /\ history'[n].kind = "said"
      /\ n = Len(history) + 1 /\ Len(history) \in Nat
  BY EventParts DEF Says, Grown, Base
<1>5. LastOf(s, n)'
  <2>0. n \in Nat \ {0}
    BY <1>4
  <2>1. n \in 1 .. n /\ \A j \in 1 .. n : ~ (j > n)
    BY <2>0
  <2> QED BY <1>4, <2>1 DEF LastOf
<1>6. FoldsOf(log') = FoldsOf(log)
  BY SaysOtherKeepsFolds
<1>7. \A q \in Outstanding(log', s) : /\ LastOf(s, q + 1)' /\ history'[q + 1].kind = "said"
                                       /\ \A f \in FoldsOf(log') : f < q
  <2> SUFFICES ASSUME NEW q \in Outstanding(log', s)
               PROVE  /\ LastOf(s, q + 1)' /\ history'[q + 1].kind = "said"
                      /\ \A f \in FoldsOf(log') : f < q
    OBVIOUS
  <2>1. n = q + 1
    BY <1>3
  <2>2. LastOf(s, q + 1)'
    BY <1>5, <2>1 DEF LastOf
  <2> QED BY <1>1, <1>2, <1>4, <1>6, <2>1, <2>2
<1> QED BY <1>7 DEF Owing, LastOf, Outstanding, FoldsOf, Clear

\* Every step keeps what is owed to the call last asked for (runtime.go, execute).
LEMMA NextKeepsOwes ==
  ASSUME Base, Base', Structure, Folding, Owes, [Next]_vars
  PROVE  Owes'
<1> DEFINE n == Len(history) + 1
<1>1. Delegated'
  BY DelegatedStill DEF Owes
<1> SUFFICES ASSUME Orderly', NEW s \in Mains PROVE Owing(s)'
  BY <1>1 DEF Owes, Orderly, OneByOne, NoneContinued
<1>2. /\ Orderly /\ OneByOne /\ (\A q \in Mains : Owing(q)) /\ Owing(s) /\ Delegated
      /\ OneByOne' /\ NoneContinued'
  BY OrderlyBefore DEF Owes, Orderly, OneByOne
<1>3. /\ at \in [Runs -> Idle \cup Working] /\ Mains \subseteq Runs /\ Workers \subseteq Runs
      /\ s \in Runs /\ line \in Seq(Mains)
  BY StructureTypes
<1>4. ASSUME NEW r \in Runs, at[r] \in Working
      PROVE  r \in Mains /\ Owing(r) /\ (s # r => at[s] \notin Working)
  BY <1>2, <1>4, Alone
<1>5. {"called", "top"} \subseteq Working
  BY DEF Working
<1>6. ASSUME StartNext PROVE Owing(s)'
  <2>1. line # <<>>
    BY <1>6 DEF StartNext
  <2>2. Head(line) \in Mains /\ at[Head(line)] = "waiting"
    <3>1. Head(line) = line[1] /\ 1 \in DOMAIN line /\ line[1] \in Mains
      BY <1>3, <2>1
    <3> QED BY <3>1 DEF Structure, Lines
  <2>3. at' = [at EXCEPT ![Head(line)] = "top"] /\ UNCHANGED <<log, history>>
    BY <1>6 DEF StartNext, Goto, Unrecorded
  <2>4. CASE s = Head(line)
    <3>1. Outstanding(log, s) = {}
      BY <1>2, <2>2, <2>4 DEF Owing, Clear
    <3>2. Outstanding(log', s) = {}
      BY <2>3, <3>1
    <3> QED BY <3>2, OwingNothing
  <2>5. CASE s # Head(line)
    <3>1. at'[s] = at[s]
      BY <1>3, <2>3, <2>5
    <3> QED BY <1>2, <2>3, <3>1, StepKeepsOthers
  <2> QED BY <2>4, <2>5
<1>7. ASSUME NEW r \in Runs, Send(r) PROVE Owing(s)'
  <2>1. /\ at[r] = "unsent" /\ \E there \in {"waiting", "top"} : at' = [at EXCEPT ![r] = there]
        /\ Says(n, "user", r, 0)
    BY <1>7, StepsSay DEF Send, Goto
  <2>2. CASE s = r
    <3>1. Outstanding(log, s) = {}
      BY <2>1, <2>2 DEF Outstanding, Base, Spoken, LogStands
    <3>2. Outstanding(log', s) = {}
      BY <2>1, <3>1, OwedAfter
    <3> QED BY <3>2, OwingNothing
  <2>3. CASE s # r
    <3>1. at'[s] = at[s]
      BY <1>3, <2>1, <2>3
    <3> QED BY <1>2, <2>1, <2>3, <3>1, StepKeepsOthers
  <2> QED BY <2>2, <2>3
<1>8. ASSUME NEW r \in Runs, CutShort(r) \/ Finish(r) PROVE Owing(s)'
  <2>1. at' = [at EXCEPT ![r] = "over"] /\ Says(n, "ended", r, 0)
    BY <1>8, StepsSay DEF CutShort, Finish, Goto
  <2>2. CASE s = r
    <3>1. at'[s] \notin Clear \cup {"called", "top"}
      BY <1>3, <2>1, <2>2 DEF Clear
    <3> QED BY <3>1, OwingNothing
  <2>3. CASE s # r
    <3>1. at'[s] = at[s]
      BY <1>3, <2>1, <2>3
    <3> QED BY <1>2, <2>1, <2>3, <3>1, StepKeepsOthers
  <2> QED BY <2>2, <2>3
<1>9. ASSUME NEW r \in Runs, NEW p, RunTool(r, p) PROVE Owing(s)'
  <2>1. Says(n, "result", r, p) /\ at[r] = "top" /\ UNCHANGED at /\ p \in Outstanding(log, r)
    BY <1>9, StepsSay DEF RunTool, Pending
  <2>2. CASE s = r
    <3>1. \A q \in Outstanding(log, r) : LastOf(r, q + 1) /\ q \in Nat
      <4>1. \A q \in Outstanding(log, r) : LastOf(r, q + 1)
        BY <1>2, <2>1, <2>2 DEF Owing
      <4>2. \A q \in Outstanding(log, r) : q \in Nat
        BY BaseLogFine, Positions DEF Outstanding
      <4> QED BY <4>1, <4>2
    <3>2. \A q \in Outstanding(log, r) : q = p
      <4> SUFFICES ASSUME NEW q \in Outstanding(log, r) PROVE q = p
        OBVIOUS
      <4>1. LastOf(r, q + 1) /\ LastOf(r, p + 1) /\ q \in Nat /\ p \in Nat
        BY <2>1, <3>1
      <4>2. ~ (q + 1 < p + 1) /\ ~ (p + 1 < q + 1)
        BY <4>1 DEF LastOf
      <4> QED BY <4>1, <4>2
    <3>3. Outstanding(log', s) = {}
      BY <2>1, <2>2, <3>2, OwedAfter
    <3> QED BY <3>3, OwingNothing
  <2>3. CASE s # r
    BY <1>2, <2>1, <2>3, StepKeepsOthers
  <2> QED BY <2>2, <2>3
<1>10. ASSUME NEW r \in Runs, (\E p : Park(r, p)) \/ OutOfTurns(r) PROVE Owing(s)'
  <2>1. /\ UNCHANGED <<log, history>>
        /\ \E there \in {"parked", "ending"} : at' = [at EXCEPT ![r] = there]
    BY <1>10 DEF Park, OutOfTurns, Goto, Unrecorded
  <2>2. CASE s = r
    <3>1. at'[s] \notin Clear \cup {"called", "top"}
      BY <1>3, <2>1, <2>2 DEF Clear
    <3> QED BY <3>1, OwingNothing
  <2>3. CASE s # r
    <3>1. at'[s] = at[s]
      BY <1>3, <2>1, <2>3
    <3> QED BY <1>2, <2>1, <2>3, <3>1, StepKeepsOthers
  <2> QED BY <2>2, <2>3
<1>11. ASSUME NEW r \in Runs, Decide(r) PROVE FALSE
  BY <1>2, <1>11 DEF Decide, NoneContinued
<1>12. ASSUME NEW r \in Runs, NEW p, NEW w \in Workers, Delegate(r, p, w) PROVE FALSE
  <2>1. at'[w] = "top"
    BY <1>3, <1>12 DEF Delegate
  <2> QED BY <1>2, <2>1 DEF OneByOne
<1>13. ASSUME NEW r \in Runs, TakeAnswer(r) PROVE FALSE
  BY <1>2, <1>13 DEF TakeAnswer, Delegated, OneByOne
<1>14. ASSUME NEW r \in Runs, PlanFold(r) \/ ChooseCut(r) PROVE Owing(s)'
  <2>1. /\ UNCHANGED <<log, history>> /\ at[r] \in {"top", "pruning"}
        /\ at[r] = "top" => Outstanding(log, r) = {}
        /\ \E there \in {"folding", "building", "discarding"} : at' = [at EXCEPT ![r] = there]
    BY <1>14 DEF PlanFold, ChooseCut, AtModel, Goto, Unrecorded
  <2>2. CASE s = r
    <3>1. Outstanding(log, s) = {}
      BY <1>2, <2>1, <2>2 DEF Owing, Clear
    <3>2. Outstanding(log', s) = {}
      BY <2>1, <3>1
    <3> QED BY <3>2, OwingNothing
  <2>3. CASE s # r
    <3>1. at'[s] = at[s]
      BY <1>3, <2>1, <2>3
    <3> QED BY <1>2, <2>1, <2>3, <3>1, StepKeepsOthers
  <2> QED BY <2>2, <2>3
<1>15. ASSUME NEW r \in Runs, AppendFold(r) PROVE Owing(s)'
  <2>1. Says(n, "fold", r, 0) /\ at[r] = "folding" /\ at' = [at EXCEPT ![r] = "pruning"]
    BY <1>15, StepsSay DEF AppendFold, Goto
  <2>2. at[r] \in Working
    BY <2>1 DEF Working
  <2>3. CASE s = r
    <3>1. Outstanding(log, s) = {}
      BY <1>2, <2>1, <2>3 DEF Owing, Clear
    <3>2. Outstanding(log', s) = {}
      BY <2>1, <3>1, OwedAfter
    <3> QED BY <3>2, OwingNothing
  <2>4. CASE s # r
    <3>1. at'[s] = at[s]
      BY <1>3, <2>1, <2>4
    <3>2. at[s] \notin {"called", "top"}
      BY <1>4, <1>5, <2>2, <2>4
    <3> QED BY <1>2, <2>1, <2>4, <3>1, <3>2, StepKeepsOthers
  <2> QED BY <2>3, <2>4
<1>16. ASSUME NEW r \in Runs, Prune(r) PROVE Owing(s)'
  <2>1. at[r] = "discarding" /\ at' = [at EXCEPT ![r] = "building"]
    BY <1>16, PruneLeaves
  <2>2. at[r] \in Working
    BY <2>1 DEF Working
  <2>3. CASE s = r
    <3>1. Outstanding(log, s) = {}
      BY <1>2, <2>1, <2>3 DEF Owing, Clear
    <3>2. Outstanding(log', s) = {}
      BY <1>16, <3>1, OwedAfterPrune
    <3> QED BY <3>2, OwingNothing
  <2>4. CASE s # r
    <3>1. at'[s] = at[s]
      BY <1>3, <2>1, <2>4
    <3>2. at[s] \notin {"called", "top"}
      BY <1>4, <1>5, <2>2, <2>4
    <3> QED BY <1>2, <1>16, <3>1, <3>2, StepKeepsOthers
  <2> QED BY <2>3, <2>4
<1>17. ASSUME NEW r \in Runs, BuildRequest(r) PROVE Owing(s)'
  <2>1. /\ at[r] = "building" /\ at' = [at EXCEPT ![r] = "asking"]
        /\ Says(n, "running", r, 0) \/ UNCHANGED <<log, history>>
    BY <1>17, StepsSay DEF BuildRequest, Goto, Unrecorded
  <2>2. CASE s = r
    <3>1. Outstanding(log, s) = {}
      BY <1>2, <2>1, <2>2 DEF Owing, Clear
    <3>2. Outstanding(log', s) = {}
      BY <2>1, <3>1, OwedAfter
    <3> QED BY <3>2, OwingNothing
  <2>3. CASE s # r
    <3>1. at'[s] = at[s]
      BY <1>3, <2>1, <2>3
    <3> QED BY <1>2, <2>1, <2>3, <3>1, StepKeepsOthers
  <2> QED BY <2>2, <2>3
<1>18. ASSUME NEW r \in Runs, AskForTool(r) PROVE Owing(s)'
  <2>1. at[r] = "asking" /\ at' = [at EXCEPT ![r] = "called"] /\ Says(n, "call", r, 0)
    BY <1>18, StepsSay DEF AskForTool, Goto
  <2>2. CASE s = r
    <3>1. Outstanding(log, s) = {}
      BY <1>2, <2>1, <2>2 DEF Owing, Clear
    <3>2. at'[s] = "called"
      BY <1>3, <2>1, <2>2
    <3> QED BY <2>1, <2>2, <3>1, <3>2, OwesItsCall
  <2>3. CASE s # r
    <3>1. at'[s] = at[s]
      BY <1>3, <2>1, <2>3
    <3> QED BY <1>2, <2>1, <2>3, <3>1, StepKeepsOthers
  <2> QED BY <2>2, <2>3
<1>19. ASSUME NEW r \in Runs, CompleteTurn(r) PROVE Owing(s)'
  <2>1. /\ at[r] \in {"asking", "called"} /\ Says(n, "said", r, 0)
        /\ at' = [at EXCEPT ![r] = IF at[r] = "called" THEN "top" ELSE "ending"]
    BY <1>19, StepsSay DEF CompleteTurn, Goto
  <2>2. CASE s = r /\ at[r] = "called"
    <3>1. at'[s] = "top"
      BY <1>3, <2>1, <2>2
    <3> QED BY <1>2, <2>1, <2>2, <3>1, OwesItsTurn
  <2>3. CASE s = r /\ at[r] = "asking"
    <3>1. at'[s] \notin Clear \cup {"called", "top"}
      BY <1>3, <2>1, <2>3 DEF Clear
    <3> QED BY <3>1, OwingNothing
  <2>4. CASE s # r
    <3>1. at'[s] = at[s]
      BY <1>3, <2>1, <2>4
    <3> QED BY <1>2, <2>1, <2>4, <3>1, StepKeepsOthers
  <2> QED BY <2>1, <2>2, <2>3, <2>4
<1>20. ASSUME UNCHANGED vars PROVE Owing(s)'
  BY <1>2, <1>20, StepKeepsOthers DEF vars
<1>21. ASSUME NEW r \in Runs, Loop(r) PROVE Owing(s)'
  <2>1. CASE Settle(r)
    <3>1. PICK p \in DOMAIN log :
            RunTool(r, p) \/ Park(r, p) \/ \E w \in Workers : Delegate(r, p, w)
      BY <2>1 DEF Settle
    <3> QED BY <3>1, <1>9, <1>10, <1>12
  <2>2. CASE Compact(r)
    BY <2>2, <1>14, <1>15, <1>16 DEF Compact
  <2>3. CASE ~ Settle(r) /\ ~ Compact(r)
    BY <1>21, <2>3, <1>8, <1>10, <1>11, <1>13, <1>17, <1>18, <1>19 DEF Loop
  <2> QED BY <2>1, <2>2, <2>3
<1> QED BY <1>6, <1>7, <1>8, <1>20, <1>21 DEF Next

\* As long as the runs stand side by side, a result comes right after the reply its call
\* ended, and no fold ends between them.
ResultsFollow ==
  \A p \in DOMAIN history : history[p].kind = "result" =>
    /\ p - 2 \in DOMAIN history /\ history[p].call = p - 2
    /\ history[p - 2].kind = "call" /\ history[p - 1].kind = "said"
    /\ history[p - 2].run = history[p].run /\ history[p - 1].run = history[p].run

\* No fold that stands, and none about to be recorded, ends at a call or at its reply when
\* the result is already there (compaction.go, chooseCut).
FoldsApart ==
  \A p \in DOMAIN history : history[p].kind = "result" =>
    \A r \in Mains :
      /\ Reach(log, r) # p - 2 /\ Reach(log, r) # p - 1
      /\ at[r] = "folding" => plan[r].through # p - 2 /\ plan[r].through # p - 1

\* A call, the reply it ended and its result are kept or folded together, as long as the
\* runs stand side by side.
Together == Orderly => ResultsFollow /\ FoldsApart

\* Where results come from (runtime.go, runTools; investigate.go).
LEMMA NewResults ==
  ASSUME Base, [Next]_vars, NEW p \in DOMAIN history', history'[p].kind = "result"
  PROVE  \/ p \in DOMAIN history /\ history[p].kind = "result"
         \/ /\ p = Len(history) + 1
            /\ \E r \in Runs : (\E q : RunTool(r, q)) \/ TakeAnswer(r)
<1> DEFINE n == Len(history) + 1
           Old == p \in DOMAIN history /\ history[p].kind = "result"
           New == p = Len(history) + 1
<1>1. ASSUME NEW kind, NEW r, NEW call, Says(n, kind, r, call)
      PROVE  Old \/ (New /\ kind = "result")
  <2>1. /\ DOMAIN history' = 1 .. n /\ n \in Nat /\ DOMAIN history = 1 .. n - 1
        /\ \A q \in 1 .. n - 1 : history'[q] = history[q]
        /\ history'[n].kind = kind
    BY <1>1 DEF Says, Grown
  <2>2. CASE p = n
    BY <2>1, <2>2
  <2>3. CASE p # n
    <3>1. p \in 1 .. n - 1
      BY <2>1, <2>3
    <3> QED BY <2>1, <3>1
  <2> QED BY <2>2, <2>3
<1>2. ASSUME UNCHANGED history PROVE Old
  BY <1>2
<1> DEFINE Made == \E r \in Runs : (\E q : RunTool(r, q)) \/ TakeAnswer(r)
<1>0. (Old \/ (New /\ Made)) => \/ p \in DOMAIN history /\ history[p].kind = "result"
                               \/ /\ p = Len(history) + 1
                                  /\ \E r \in Runs : (\E q : RunTool(r, q)) \/ TakeAnswer(r)
  OBVIOUS
<1>3. ASSUME NEW r \in Runs, (\E q : RunTool(r, q)) \/ TakeAnswer(r) PROVE Old \/ (New /\ Made)
  <2>1. \E call : Says(n, "result", r, call)
    BY <1>3, StepsSay
  <2>2. Old \/ New
    BY <1>1, <2>1
  <2> QED BY <1>3, <2>2
<1> HIDE DEF Old, New, Made
<1>4. ASSUME NEW r \in Runs, Send(r) \/ CutShort(r) \/ Finish(r) \/ AskForTool(r)
                             \/ CompleteTurn(r) \/ AppendFold(r)
      PROVE  Old
  <2>1. CASE Send(r)
    BY <1>1, <2>1, StepsSay
  <2>2. CASE CutShort(r) \/ Finish(r)
    BY <1>1, <2>2, StepsSay
  <2>3. CASE AskForTool(r) \/ CompleteTurn(r)
    BY <1>1, <2>3, StepsSay
  <2>4. CASE AppendFold(r)
    BY <1>1, <2>4, StepsSay
  <2> QED BY <1>4, <2>1, <2>2, <2>3, <2>4
<1>5. ASSUME NEW r \in Runs, NEW q, NEW w \in Workers, Delegate(r, q, w) PROVE Old
  <2>1. Says(n, "user", w, 0)
    BY <1>5, StepsSay
  <2> QED BY <1>1, <2>1
<1>6. ASSUME NEW r \in Runs, BuildRequest(r) PROVE Old
  <2>1. CASE fresh[r]
    <3>1. Says(n, "running", r, 0)
      BY <1>6, <2>1, StepsSay
    <3> QED BY <1>1, <3>1
  <2>2. CASE ~ fresh[r]
    BY <1>2, <1>6, <2>2 DEF BuildRequest, Unrecorded
  <2> QED BY <2>1, <2>2
<1>7. ASSUME NEW r \in Runs, \/ (\E q : Park(r, q)) \/ Decide(r) \/ OutOfTurns(r) \/ PlanFold(r)
                             \/ ChooseCut(r) \/ Prune(r)
      PROVE  Old
  BY <1>2, <1>7 DEF Park, Decide, OutOfTurns, PlanFold, ChooseCut, Prune, Unrecorded
<1>8. ASSUME StartNext \/ UNCHANGED vars PROVE Old
  BY <1>2, <1>8 DEF StartNext, Unrecorded, vars
<1>9. ASSUME NEW r \in Runs, Loop(r) PROVE Old \/ (New /\ Made)
  <2>1. CASE Settle(r)
    <3>1. PICK q \in DOMAIN log :
            RunTool(r, q) \/ Park(r, q) \/ \E w \in Workers : Delegate(r, q, w)
      BY <2>1 DEF Settle
    <3> QED BY <3>1, <1>3, <1>5, <1>7
  <2>2. CASE Compact(r)
    BY <2>2, <1>4, <1>7 DEF Compact
  <2>3. CASE ~ Settle(r) /\ ~ Compact(r)
    BY <1>9, <2>3, <1>3, <1>4, <1>6, <1>7 DEF Loop
  <2> QED BY <2>1, <2>2, <2>3
<1>10. Old \/ (New /\ Made)
  BY <1>4, <1>8, <1>9 DEF Next
<1> QED BY <1>0, <1>10

\* Nothing is shown between two events of one run that follow each other in the log.
LEMMA NothingBetween ==
  ASSUME Base, OneByOne, NEW r \in Mains, NEW p \in Work, p + 1 \in Work,
         p \in DOMAIN log, p + 1 \in DOMAIN log, p > Reach(log, r), log[p + 1].run = log[p].run,
         NEW place, place = Places(log, r)
  PROVE  /\ p \in Shown(log, r) /\ p + 1 \in Shown(log, r)
         /\ place[p] = 2 * p /\ place[p + 1] = 2 * (p + 1)
         /\ \A q \in Shown(log, r) : ~ (place[p] < place[q] /\ place[q] < place[p + 1])
<1>1. p \in Nat /\ LogFine(log) /\ Reach(log, r) \in Nat
  BY BaseLogFine, Positions, ReachIsBehind
<1>2. p \in Shown(log, r) /\ place[p] = 2 * p
  BY WorkIsShown
<1>3. p + 1 \in Shown(log, r) /\ place[p + 1] = 2 * (p + 1)
  BY <1>1, WorkIsShown
<1>4. ASSUME NEW q \in Shown(log, r), place[p] < place[q], place[q] < place[p + 1] PROVE FALSE
  <2> DEFINE events == Replayed(log, r)
             deeds == {d \in events : log[d].run = log[q].run /\ log[d].kind # "user"}
  <2>1. q \in events /\ p \in events /\ q \in Nat /\ NextSeq(log) \in Nat
    BY <1>1, <1>2, ReplayedIsKept, Positions
  <2>2. /\ place[q] \in Int
        /\ log[q].kind # "user" => place[q] = 2 * q
        /\ (log[q].kind = "user" /\ deeds = {}) => place[q] = 2 * NextSeq(log)
        /\ (log[q].kind = "user" /\ deeds # {}) =>
             /\ Min(deeds) \in deeds /\ Min(deeds) \in Nat /\ place[q] = 2 * Min(deeds) - 1
             /\ \A d \in deeds : Min(deeds) <= d
    <3>1. /\ events = Replayed(log, r)
          /\ deeds = {d \in events : log[d].run = log[q].run /\ log[d].kind # "user"}
      OBVIOUS
    <3> HIDE DEF events, deeds
    <3> QED BY <1>1, <2>1, <3>1, PlaceOf
  <2>3. place[q] = 2 * p + 1
    BY <1>1, <1>2, <1>3, <1>4, <2>2
  <2>4. log[q].kind = "user" /\ deeds # {}
    <3> HIDE DEF deeds
    <3> QED BY <1>1, <2>1, <2>2, <2>3
  <2>5. Min(deeds) = p + 1 /\ Min(deeds) \in deeds
    <3> HIDE DEF deeds
    <3> QED BY <1>1, <2>2, <2>3, <2>4
  <2>6. log[p].run = log[q].run
    <3>1. log[Min(deeds)].run = log[q].run
      BY <2>5
    <3> QED BY <2>5, <3>1
  <2>7. log[p].kind # "user"
    BY DEF Work, Base, LogStands
  <2>8. p \in deeds
    BY <2>1, <2>6, <2>7
  <2>9. Min(deeds) <= p
    <3> HIDE DEF deeds
    <3> QED BY <2>2, <2>4, <2>8
  <2> HIDE DEF deeds
  <2> QED BY <1>1, <2>5, <2>9
<1> QED BY <1>2, <1>3, <1>4

\* A fold is never planned to end between a call and its result: what is left of a
\* request does not begin with a result, and a call stays with its reply
\* (compaction.go, chooseCut).
LEMMA PlanKeepsTogether ==
  ASSUME Base, Folding, OneByOne, ResultsFollow, NEW r \in Mains, NEW chosen \in Plans(log, r),
         NEW p \in DOMAIN history, history[p].kind = "result"
  PROVE  chosen.through # p - 2 /\ chosen.through # p - 1
<1> DEFINE t == chosen.through
           m == Conversation(log, r)
           place == Places(log, r)
           h == Cardinality(Standing(log, r))
<1>0. /\ m = Conversation(log, r) /\ place = Places(log, r) /\ h = Cardinality(Standing(log, r))
      /\ LogFine(log)
  BY BaseLogFine
<1>1. t \in Shown(log, r) /\ t > Reach(log, r) /\ chosen \in FoldPlans
  BY <1>0, PlanShape
<1>2. PICK c \in h + 1 .. Len(m) - 1 : t = m[c].last /\ m[c + 1].role # "tool"
  BY <1>0, PlanShape
<1>3. Shaped(log, r, m, h)
  BY <1>0, ConversationShape
<1>4. Divided(log, r, m, h)
  BY <1>0, MessagesDivide
<1> HIDE DEF m, place, h
<1>5. /\ p - 2 \in DOMAIN history /\ p - 1 \in DOMAIN history /\ p \in Nat /\ p - 2 \in Nat
      /\ history[p - 2].kind = "call" /\ history[p - 1].kind = "said"
      /\ history[p - 2].run = history[p].run /\ history[p - 1].run = history[p].run
  <2>1. /\ p - 2 \in DOMAIN history
        /\ history[p - 2].kind = "call" /\ history[p - 1].kind = "said"
        /\ history[p - 2].run = history[p].run /\ history[p - 1].run = history[p].run
    BY DEF ResultsFollow
  <2>2. DOMAIN history = 1 .. Len(history) /\ Len(history) \in Nat
    BY EventParts DEF Base
  <2> QED BY <2>1, <2>2
<1>6. p - 2 \in Work /\ p - 1 \in Work /\ p \in Work
  BY <1>5 DEF Work
<1>7. ASSUME NEW q \in DOMAIN history, q > t PROVE q \in DOMAIN log /\ q > Reach(log, r)
  <2>1. q \in DOMAIN log \/ q <= Reach(log, r)
    BY GoneIsReached
  <2>2. Reach(log, r) \in Nat /\ t \in Nat /\ q \in Nat
    <3>1. DOMAIN history = 1 .. Len(history) /\ Len(history) \in Nat
      BY EventParts DEF Base
    <3> QED BY <1>1, <3>1, ReachIsBehind DEF FoldPlans
  <2> QED BY <1>1, <1>7, <2>1, <2>2
<1>8. t \in DOMAIN log /\ t \in Nat /\ t > Reach(log, r)
  BY <1>0, <1>1, ReplayedIsKept DEF FoldPlans
<1>9. ASSUME NEW q \in DOMAIN log PROVE log[q] = history[q]
  BY DEF Base, LogStands
<1>10. h \in Nat /\ Len(m) \in Nat
  BY <1>3 DEF Shaped
<1> HIDE DEF t
<1>11. ASSUME t = p - 2 PROVE FALSE
  <2>1. PICK q : q = p - 1
    OBVIOUS
  <2>2. q = t + 1 /\ q > t /\ q \in DOMAIN history
    BY <1>5, <1>11, <2>1
  <2>3. q \in DOMAIN log
    BY <1>7, <2>2
  <2>4. t \in Work /\ t + 1 \in Work /\ log[t + 1].run = log[t].run
    BY <1>5, <1>6, <1>8, <1>9, <1>11, <2>1, <2>2, <2>3
  <2>5. /\ t + 1 \in Shown(log, r) /\ place[t] = 2 * t /\ place[t + 1] = 2 * (t + 1)
        /\ \A x \in Shown(log, r) : ~ (place[t] < place[x] /\ place[x] < place[t + 1])
    BY <1>0, <1>8, <2>2, <2>3, <2>4, NothingBetween
  <2>6. ~ (place[t + 1] <= place[t])
    BY <1>8, <2>5
  <2>7. c \in h + 1 .. Len(m)
    BY <1>10
  <2>8. ~ SameMessage(log, t, t + 1)
    BY <1>0, <1>2, <1>4, <2>5, <2>6, <2>7 DEF Divided
  <2>9. log[t].kind = "call" /\ log[t + 1].kind = "said"
    BY <1>5, <1>8, <1>9, <1>11, <2>1, <2>2, <2>3
  <2> QED BY <2>8, <2>9 DEF SameMessage
<1>12. ASSUME t = p - 1 PROVE FALSE
  <2>1. p = t + 1 /\ p > t
    BY <1>5, <1>12
  <2>2. p \in DOMAIN log
    BY <1>7, <2>1
  <2>3. t \in Work /\ t + 1 \in Work /\ log[t + 1].run = log[t].run
    BY <1>5, <1>6, <1>8, <1>9, <1>12, <2>1, <2>2
  <2>4. /\ p \in Shown(log, r) /\ place[t] = 2 * t /\ place[p] = 2 * p
        /\ \A x \in Shown(log, r) : ~ (place[t] < place[x] /\ place[x] < place[p])
    BY <1>0, <1>8, <2>1, <2>2, <2>3, NothingBetween
  <2>5. c \in h + 1 .. Len(m) /\ c + 1 \in h + 1 .. Len(m) /\ c < c + 1
    BY <1>10
  <2>6. m[c + 1].last \in Shown(log, r) /\ place[t] < place[m[c + 1].last]
    <3>1. m[c + 1].last \in Shown(log, r)
      BY <1>3, <2>5 DEF Shaped
    <3>2. place[m[c].last] < place[m[c + 1].last]
      BY <1>0, <1>4, <2>5 DEF Divided
    <3> QED BY <1>2, <3>1, <3>2
  <2>7. place[p] <= place[m[c + 1].last]
    <3>1. place[m[c + 1].last] \in Int
      BY <1>0, <2>6, PlacesDiffer
    <3> QED BY <1>5, <2>4, <2>6, <3>1
  <2>8. PICK j \in h + 1 .. c + 1 : p \in m[j].parts
    BY <1>0, <1>3, <2>4, <2>5, <2>7 DEF Shaped
  <2>9. j = c + 1
    <3> SUFFICES ASSUME j # c + 1 PROVE FALSE
      OBVIOUS
    <3>1. j \in h + 1 .. c
      BY <1>10
    <3>2. place[p] <= place[m[c].last]
      BY <1>0, <1>3, <2>4, <2>5, <2>8, <3>1 DEF Shaped
    <3> QED BY <1>2, <1>5, <1>8, <2>1, <2>4, <3>2
  <2>10. Role(log, p) = m[c + 1].role
    BY <1>4, <2>5, <2>8, <2>9 DEF Divided
  <2>11. log[p].kind = "result"
    BY <1>9, <2>2
  <2> QED BY <1>2, <2>10, <2>11 DEF Role
<1> QED BY <1>11, <1>12 DEF t

\* A result recorded stands right after the reply its call ended, beyond every fold
\* (runtime.go, execute).
LEMMA ResultIsPlaced ==
  ASSUME Base, Structure, Owes, Orderly, Orderly', NEW r \in Runs, NEW q, RunTool(r, q),
         NEW n, n = Len(history) + 1
  PROVE  /\ r \in Mains /\ n = q + 2 /\ q \in DOMAIN history /\ q \in Nat
         /\ history'[n].call = q /\ history'[n].run = r
         /\ history[q].kind = "call" /\ history[q].run = r
         /\ history[q + 1].kind = "said" /\ history[q + 1].run = r
         /\ \A f \in FoldsOf(log) : f < q
<1>1. Says(n, "result", r, q) /\ at[r] = "top" /\ q \in Outstanding(log, r)
  BY StepsSay DEF RunTool, Pending
<1>2. r \in Mains
  BY <1>1, Alone DEF Working, Orderly
<1>3. LastOf(r, q + 1) /\ history[q + 1].kind = "said" /\ \A f \in FoldsOf(log) : f < q
  BY <1>1, <1>2 DEF Owes, Owing
<1>4. n = q + 1 + 1
  BY <1>1, <1>3, NextToLast
<1>5. q \in DOMAIN log /\ q \in Nat /\ log[q].kind = "call" /\ log[q].run = r
  BY <1>1, BaseLogFine, Positions DEF Outstanding
<1>6. q \in DOMAIN history /\ history[q] = log[q]
  BY <1>5 DEF Base, LogStands
<1> QED BY <1>1, <1>2, <1>3, <1>4, <1>5, <1>6 DEF Says, LastOf

\* A fold that ends before a position reaches no further.
LEMMA ReachBefore ==
  ASSUME Base, NEW r, NEW q \in Nat \ {0}, \A f \in FoldsOf(log) : f < q
  PROVE  Reach(log, r) < q
<1>1. LogFine(log)
  BY BaseLogFine
<1> DEFINE folds == VisibleTo(log, r) \cap FoldsOf(log)
<1>2. CASE folds = {}
  <2>1. Reach(log, r) = 0
    BY <1>1, <1>2, ReachIsOfTheLastFold
  <2> QED BY <2>1
<1>3. CASE folds # {}
  <2>1. /\ Max(folds) \in Standing(log, r) /\ Reach(log, r) = log[Max(folds)].through
        /\ Reach(log, r) \in Nat
    BY <1>1, <1>3, ReachIsOfTheLastFold
  <2>2. Max(folds) \in FoldsOf(log) /\ Max(folds) \in Nat
    <3>1. Max(folds) \in FoldsOf(log)
      BY <2>1 DEF Standing
    <3> QED BY <1>1, <3>1, Positions DEF FoldsOf
  <2>3. log[Max(folds)].through < Max(folds) /\ Max(folds) < q
    BY <1>1, <2>2 DEF LogFine
  <2> HIDE DEF folds
  <2> QED BY <2>1, <2>2, <2>3
<1> QED BY <1>2, <1>3

\* Every step keeps calls, replies and results together.
LEMMA NextKeepsTogether ==
  ASSUME Base, Base', Structure, Folding, Owes, Together, [Next]_vars
  PROVE  Together'
<1> DEFINE n == Len(history) + 1
<1> SUFFICES ASSUME Orderly' PROVE (ResultsFollow /\ FoldsApart)'
  BY DEF Together
<1>0. /\ Orderly /\ OneByOne /\ OneByOne' /\ ResultsFollow /\ FoldsApart /\ NoneContinued
      /\ Mains \subseteq Runs /\ at \in [Runs -> Idle \cup Working]
      /\ DOMAIN history = 1 .. n - 1 /\ n \in Nat \ {0}
  BY OrderlyBefore, StructureTypes, EventParts DEF Together, Orderly, OneByOne, Base
<1>1. LogFine(log)
  BY BaseLogFine
<1>2. ASSUME NEW p \in DOMAIN history', history'[p].kind = "result"
      PROVE  \/ p \in DOMAIN history /\ history[p].kind = "result"
             \/ p = n /\ \E r \in Runs : \E q : RunTool(r, q)
  <2>1. ASSUME NEW r \in Runs, TakeAnswer(r) PROVE FALSE
    BY <1>0, <2>1 DEF TakeAnswer, Owes, Delegated, OneByOne
  <2> QED BY <1>2, <2>1, NewResults
<1>3. ResultsFollow'
  <2> SUFFICES ASSUME NEW p \in DOMAIN history', history'[p].kind = "result"
               PROVE  /\ p - 2 \in DOMAIN history' /\ history'[p].call = p - 2
                      /\ history'[p - 2].kind = "call" /\ history'[p - 1].kind = "said"
                      /\ history'[p - 2].run = history'[p].run
                      /\ history'[p - 1].run = history'[p].run
    BY DEF ResultsFollow
  <2>1. CASE p \in DOMAIN history /\ history[p].kind = "result"
    <3>1. /\ p - 2 \in DOMAIN history /\ history[p].call = p - 2
          /\ history[p - 2].kind = "call" /\ history[p - 1].kind = "said"
          /\ history[p - 2].run = history[p].run /\ history[p - 1].run = history[p].run
      BY <1>0, <2>1 DEF ResultsFollow
    <3>2. p - 1 \in DOMAIN history
      BY <1>0, <2>1, <3>1
    <3> QED BY <2>1, <3>1, <3>2, HistoryStands
  <2>2. CASE p = n /\ \E r \in Runs : \E q : RunTool(r, q)
    <3>1. PICK r \in Runs : \E q : RunTool(r, q)
      BY <2>2
    <3>2. PICK q : RunTool(r, q)
      BY <3>1
    <3>3. /\ n = q + 2 /\ q \in DOMAIN history /\ q \in Nat
          /\ history'[n].call = q /\ history'[n].run = r
          /\ history[q].kind = "call" /\ history[q].run = r
          /\ history[q + 1].kind = "said" /\ history[q + 1].run = r
      BY <1>0, <3>2, ResultIsPlaced
    <3>4. p - 2 = q /\ p - 1 = q + 1 /\ q + 1 \in DOMAIN history
      BY <1>0, <2>2, <3>3
    <3> QED BY <2>2, <3>3, <3>4, HistoryStands
  <2> QED BY <1>2, <2>1, <2>2
<1>4. CASE Calm
  <2>1. \A r \in Mains : Reach(log', r) = Reach(log, r)
    BY <1>1, <1>4, SameFoldsStand DEF Calm
  <2>2. \A r \in Mains : at'[r] = "folding" => at[r] = "folding" /\ plan'[r] = plan[r]
    BY <1>0, <1>4 DEF Calm
  <2> SUFFICES ASSUME NEW p \in DOMAIN history', history'[p].kind = "result", NEW r \in Mains
               PROVE  /\ Reach(log', r) # p - 2 /\ Reach(log', r) # p - 1
                      /\ at'[r] = "folding" => plan'[r].through # p - 2 /\ plan'[r].through # p - 1
    BY <1>3 DEF FoldsApart
  <2>3. CASE p \in DOMAIN history /\ history[p].kind = "result"
    BY <1>0, <2>1, <2>2, <2>3 DEF FoldsApart
  <2>4. CASE p = n /\ \E s \in Runs : \E q : RunTool(s, q)
    <3>1. PICK s \in Runs : \E q : RunTool(s, q)
      BY <2>4
    <3>2. PICK q : RunTool(s, q)
      BY <3>1
    <3>3. s \in Mains /\ n = q + 2 /\ q \in DOMAIN history /\ \A f \in FoldsOf(log) : f < q
      BY <1>0, <3>2, ResultIsPlaced
    <3>4. q \in Nat \ {0}
      BY <1>0, <3>3
    <3>5. Reach(log, r) < q /\ Reach(log, r) \in Nat
      BY <3>3, <3>4, ReachBefore, ReachIsBehind
    <3>6. Reach(log', r) # p - 2 /\ Reach(log', r) # p - 1
      BY <2>1, <2>4, <3>3, <3>4, <3>5
    <3>7. at'[r] # "folding"
      <4> SUFFICES ASSUME at'[r] = "folding" PROVE FALSE
        OBVIOUS
      <4>1. at[r] = "folding" /\ at[s] = "top"
        BY <2>2, <3>2 DEF RunTool, Pending
      <4>2. r = s
        BY <1>0, <3>3, <4>1 DEF Structure, OneTurn, Working
      <4> QED BY <4>1, <4>2
    <3> QED BY <3>6, <3>7
  <2> QED BY <1>2, <2>3, <2>4
<1>5. ASSUME NEW r \in Runs, AppendFold(r) \/ PlanFold(r) \/ ChooseCut(r), NEW p \in DOMAIN history',
             history'[p].kind = "result"
      PROVE  p \in DOMAIN history /\ history[p].kind = "result"
  <2> SUFFICES ASSUME p = n PROVE FALSE
    BY <1>2, <1>5
  <2>1. CASE AppendFold(r)
    <3>1. Says(n, "fold", r, 0)
      BY <2>1, StepsSay
    <3> QED BY <1>5, <3>1 DEF Says
  <2>2. CASE PlanFold(r) \/ ChooseCut(r)
    <3>1. UNCHANGED history
      BY <2>2 DEF PlanFold, ChooseCut, Unrecorded
    <3> QED BY <1>0, <3>1
  <2> QED BY <1>5, <2>1, <2>2
<1>6. ASSUME NEW r \in Runs, PlanFold(r) PROVE FoldsApart'
  <2>1. /\ UNCHANGED <<log, history>> /\ at[r] = "top"
        /\ \E there \in {"folding", "building"} : at' = [at EXCEPT ![r] = there]
    BY <1>6 DEF PlanFold, AtModel, Goto, Unrecorded
  <2>2. r \in Mains
    BY <1>0, <2>1, Alone DEF Working
  <2> SUFFICES ASSUME NEW p \in DOMAIN history, history[p].kind = "result", NEW s \in Mains
               PROVE  /\ Reach(log, s) # p - 2 /\ Reach(log, s) # p - 1
                      /\ at'[s] = "folding" => plan'[s].through # p - 2 /\ plan'[s].through # p - 1
    BY <2>1 DEF FoldsApart
  <2>3. CASE s # r
    <3>1. at'[s] = "folding" => at[s] = "folding" /\ plan'[s] = plan[s]
      <4>1. plan \in [Runs -> FoldPlans] /\ s \in Runs
        BY <1>0 DEF Base, Typed
      <4> QED BY <1>0, <1>6, <2>1, <2>3, <4>1 DEF PlanFold
    <3> QED BY <1>0, <3>1 DEF FoldsApart
  <2>4. CASE s = r
    <3>1. Reach(log, s) # p - 2 /\ Reach(log, s) # p - 1
      BY <1>0 DEF FoldsApart
    <3>2. ASSUME at'[s] = "folding" PROVE plan'[s].through # p - 2 /\ plan'[s].through # p - 1
      <4>1. PICK chosen \in Plans(log, r) : plan' = [plan EXCEPT ![r] = chosen]
        BY <1>0, <1>6, <2>1, <2>4, <3>2 DEF PlanFold, Goto
      <4>2. chosen.through # p - 2 /\ chosen.through # p - 1
        BY <1>0, <2>2, PlanKeepsTogether
      <4>3. plan'[s] = chosen
        BY <1>0, <2>4, <4>1 DEF Base, Typed
      <4> QED BY <4>2, <4>3
    <3> QED BY <3>1, <3>2
  <2> QED BY <2>3, <2>4
<1>7. ASSUME NEW r \in Runs, ChooseCut(r) PROVE FoldsApart'
  <2>1. /\ UNCHANGED <<log, history, plan>>
        /\ \E there \in {"discarding", "building"} : at' = [at EXCEPT ![r] = there]
    BY <1>7 DEF ChooseCut, Goto, Unrecorded
  <2>2. \A s \in Mains : at'[s] = "folding" => at[s] = "folding"
    BY <1>0, <2>1
  <2> QED BY <1>0, <2>1, <2>2 DEF FoldsApart
<1>8. ASSUME NEW r \in Runs, AppendFold(r) PROVE FoldsApart'
  <2>1. at[r] = "folding" /\ at' = [at EXCEPT ![r] = "pruning"]
    BY <1>8 DEF AppendFold, Goto
  <2>2. r \in Mains /\ \A s \in Mains : s # r => at[s] # "folding"
    BY <1>0, <2>1, Alone DEF Working
  <2>3. \A s \in Mains : at'[s] # "folding"
    BY <1>0, <2>1, <2>2
  <2>4. ASSUME NEW s \in Mains PROVE Reach(log', s) = plan[r].through
    <3>1. VisibleTo(log', s) = DOMAIN log'
      BY <1>0, AllSeenNext
    <3>2. Says(n, "fold", r, 0)
      BY <1>8, StepsSay
    <3>3. n \in VisibleTo(log', s)
      BY <3>1, <3>2 DEF Says, Grown
    <3> QED BY <1>0, <1>8, <3>3, AppendFoldAdvances
  <2> SUFFICES ASSUME NEW p \in DOMAIN history', history'[p].kind = "result", NEW s \in Mains
               PROVE  Reach(log', s) # p - 2 /\ Reach(log', s) # p - 1
    BY <2>3 DEF FoldsApart
  <2>5. p \in DOMAIN history /\ history[p].kind = "result"
    BY <1>5, <1>8
  <2> QED BY <1>0, <2>1, <2>2, <2>4, <2>5 DEF FoldsApart
<1>9. FoldsApart'
  BY <1>4, <1>6, <1>7, <1>8, CalmSteps DEF FoldsApart
<1> QED BY <1>3, <1>9

\* Every step keeps what runs owe, and calls with their results.
LEMMA OwesAndTogetherNext ==
  Base /\ Base' /\ Structure /\ Folding /\ Owes /\ Together /\ [Next]_vars => (Owes /\ Together)'
BY NextKeepsOwes, NextKeepsTogether

\* Nothing is owed in a conversation in which nothing was said yet.
LEMMA InitOwes == Init => Owes /\ Together
<1> SUFFICES ASSUME Init PROVE Owes /\ Together
  OBVIOUS
<1>1. /\ \A r \in Runs : at[r] = "unsent" /\ Outstanding(log, r) = {}
      /\ DOMAIN history = {} /\ Mains \subseteq Runs
  BY DEF Init, EmptyLog, Outstanding, Runs
<1> QED BY <1>1 DEF Owes, Delegated, Owing, Clear, Together, ResultsFollow, FoldsApart

\* What runs owe, and where results stand, holds of every conversation whose runs stand
\* side by side.
THEOREM ResultsStand == Spec => [](Owes /\ Together)
BY InitOwes, BaseHolds, StructureHolds, FoldingHolds, OwesAndTogetherNext, PTL DEF Spec

\* No request carries a tool result without its call in front of it, in a session whose
\* runs stand side by side (compaction.go, chooseCut).
THEOREM CallsComeFirst == Spec => []ResultsFollowCalls
<1>1. Base /\ Folding /\ Together => ResultsFollowCalls
  <2> SUFFICES ASSUME Base, Folding, Together, Orderly, NEW r \in Mains,
                      NEW m, m = Conversation(log, r),
                      NEW i \in DOMAIN m, m[i].role = "tool", NEW p \in m[i].parts
               PROVE  \E j \in 1 .. i - 1 : m[j].role = "assistant" /\ log[p].call \in m[j].parts
    BY DEF ResultsFollowCalls
  <2> DEFINE h == Cardinality(Standing(log, r))
             place == Places(log, r)
  <2>0. LogFine(log) /\ OneByOne /\ ResultsFollow /\ FoldsApart
    BY BaseLogFine DEF Orderly, Together
  <2>1. Shaped(log, r, m, h)
    BY <2>0, ConversationShape
  <2>2. Divided(log, r, m, h)
    BY <2>0, MessagesDivide
  <2>3. place = Places(log, r)
    OBVIOUS
  <2> HIDE DEF h, place
  <2>4. h \in Nat /\ Len(m) \in Nat /\ DOMAIN m = 1 .. Len(m)
    BY <2>1 DEF Shaped
  <2>5. i \in h + 1 .. Len(m)
    <3> SUFFICES ASSUME i \in 1 .. h PROVE FALSE
      BY <2>4
    <3>1. \E f \in Standing(log, r) : m[i] = FoldMessage(log, f)
      BY <2>1 DEF Shaped
    <3> QED BY <3>1 DEF FoldMessage
  <2>6. p \in Shown(log, r) /\ Role(log, p) = "tool"
    BY <2>1, <2>2, <2>5 DEF Shaped, Divided
  <2>7. log[p].kind = "result" /\ p \in DOMAIN log /\ p \in DOMAIN history /\ log[p] = history[p]
        /\ p > Reach(log, r)
    <3>1. p \in DOMAIN log /\ p > Reach(log, r)
      BY <2>0, <2>6, ReplayedIsKept
    <3> QED BY <2>6, <3>1 DEF Role, Base, LogStands
  <2>8. /\ p - 2 \in DOMAIN history /\ history[p].call = p - 2 /\ history[p - 2].kind = "call"
        /\ p \in Nat /\ p - 2 \in Nat /\ Reach(log, r) # p - 2 /\ Reach(log, r) # p - 1
    <3>1. DOMAIN history = 1 .. Len(history) /\ Len(history) \in Nat
      BY EventParts DEF Base
    <3>2. /\ p - 2 \in DOMAIN history /\ history[p].call = p - 2 /\ history[p - 2].kind = "call"
          /\ Reach(log, r) # p - 2 /\ Reach(log, r) # p - 1
      BY <2>0, <2>7 DEF ResultsFollow, FoldsApart
    <3> QED BY <2>7, <3>1, <3>2
  <2>9. p - 2 > Reach(log, r) /\ p - 2 \in DOMAIN log
    <3>1. Reach(log, r) \in Nat
      BY ReachIsBehind
    <3>2. p - 2 > Reach(log, r)
      BY <2>7, <2>8, <3>1
    <3> QED BY <2>0, <2>8, <3>1, <3>2, GoneIsReached
  <2>10. p - 2 \in Work /\ p \in Work
    BY <2>7, <2>8 DEF Work
  <2>11. p - 2 \in Shown(log, r) /\ place[p - 2] = 2 * (p - 2) /\ place[p] = 2 * p
    BY <2>0, <2>3, <2>7, <2>9, <2>10, WorkIsShown
  <2>12. place[p] <= place[m[i].last]
    <3>1. \E j \in h + 1 .. i : p \in m[j].parts
      BY <2>4, <2>5
    <3> QED BY <2>1, <2>3, <2>5, <2>6, <3>1 DEF Shaped
  <2>13. place[p - 2] <= place[m[i].last]
    <3>1. m[i].last \in Shown(log, r)
      BY <2>1, <2>5 DEF Shaped
    <3>2. place[m[i].last] \in Int
      BY <2>0, <2>3, <3>1, PlacesDiffer
    <3> QED BY <2>8, <2>11, <2>12, <3>2
  <2>14. PICK j \in h + 1 .. i : p - 2 \in m[j].parts
    BY <2>1, <2>3, <2>5, <2>11, <2>13 DEF Shaped
  <2>15. j \in h + 1 .. Len(m)
    BY <2>4, <2>5
  <2>16. log[p - 2].kind = "call"
    BY <2>8, <2>9 DEF Base, LogStands
  <2>17. m[j].role = "assistant"
    BY <2>2, <2>14, <2>15, <2>16 DEF Divided, Role
  <2>18. j \in 1 .. i - 1
    BY <2>4, <2>5, <2>17
  <2> QED BY <2>7, <2>8, <2>14, <2>17, <2>18
<1> QED BY <1>1, BaseHolds, FoldingHolds, ResultsStand, PTL

=============================================================================
