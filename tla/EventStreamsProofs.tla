------------------------- MODULE EventStreamsProofs -------------------------
(***************************************************************************)
(* Proofs about EventStreams, for any sessions, clients, batches, events   *)
(* and lost connections. The log comes first: its two positions stand, its *)
(* last row is kept and what is gone lies below the watermark. On it rest  *)
(* the wake-ups, and on both that a console misses nothing.                *)
(***************************************************************************)
EXTENDS EventStreams, FiniteSetTheorems, WellFoundedInduction, SequenceTheorems, TLAPS

\* A stream that ends early has something left to resume from.
Frames ==
  {f \in [kind : {"hello", "event", "resync"}, at : Nat] : f.kind = "resync" => f.at # 0}
Entries == [session : Sessions, seq : Nat \ {0}]

\* A row keeps its types, and comes no later in its session than in the whole log.
RowsTyped ==
  /\ DOMAIN log = Sessions /\ watermark \in Nat /\ history \in Seq(Entries)
  /\ \A s \in Sessions : \A q \in DOMAIN log[s] :
       /\ q \in Nat \ {0} /\ log[s][q].kind \in {"plain", "fold"}
       /\ log[s][q].through \in Nat /\ log[s][q].global \in Nat \ {0}
       /\ q <= log[s][q].global

Stands(p) == \E s \in Sessions : \E q \in DOMAIN log[s] : log[s][q].global = p

\* The last event is never discarded, so reading back the last position finds it.
LastIsKept == history # <<>> => Stands(Len(history))

\* What is gone lies below the watermark.
GoneIsMarked == \A p \in DOMAIN history : Stands(p) \/ p <= watermark

LogInv == RowsTyped /\ RowsStand /\ LastIsKept /\ GoneIsMarked
------------------------------------------------------------------------------
(* Numbers and sets.                                                        *)

LEMMA BoundTypes ==
  /\ Consoles \cap Followers = {} /\ Follows \in [Followers -> Sessions]
  /\ TailLength \in Nat /\ BatchSize \in Nat \ {0} /\ MaxEvents \in Nat /\ MaxBreaks \in Nat
BY StreamsAssumption DEF StreamsAssumption

LEMMA LessIsWellFounded == IsWellFoundedOn({p \in Nat \X Nat : p[1] < p[2]}, Nat)
BY NatLessThanWellFounded DEF OpToRel

LEMMA MinIsLeast ==
  ASSUME NEW S \in SUBSET Nat, S # {}
  PROVE  Min(S) \in S /\ \A y \in S : Min(S) <= y
<1> DEFINE R == {p \in Nat \X Nat : p[1] < p[2]}
<1>1. IsWellFoundedOn(R, Nat)
  BY LessIsWellFounded
<1>2. PICK x \in S : \A y \in S : ~ (<<y, x>> \in R)
  <2> HIDE DEF R
  <2> QED BY <1>1, WFMin
<1>3. \A y \in S : x <= y
  <2> SUFFICES ASSUME NEW y \in S, y < x PROVE FALSE
    OBVIOUS
  <2>1. <<y, x>> \in R
    OBVIOUS
  <2> QED BY <1>2, <2>1
<1> QED BY <1>3 DEF Min

LEMMA MaxIsMost ==
  ASSUME NEW N \in Nat, NEW S \in SUBSET (0 .. N), S # {}
  PROVE  Max(S) \in S /\ \A y \in S : y <= Max(S)
<1> DEFINE T == {N - y : y \in S}
<1>1. T \in SUBSET Nat /\ T # {}
  <2>1. \A y \in S : N - y \in Nat
    OBVIOUS
  <2> QED BY <2>1
<1>2. Min(T) \in T /\ \A t \in T : Min(T) <= t
  <2> HIDE DEF T
  <2> QED BY <1>1, MinIsLeast
<1>3. PICK x \in S : Min(T) = N - x
  BY <1>2
<1>4. \A y \in S : x >= y
  <2> SUFFICES ASSUME NEW y \in S PROVE x >= y
    OBVIOUS
  <2>1. N - x <= N - y
    BY <1>2, <1>3
  <2> QED BY <2>1
<1>5. \E z \in S : \A y \in S : z >= y
  BY <1>4
<1>6. Max(S) \in S /\ \A y \in S : Max(S) >= y
  BY <1>5 DEF Max
<1> QED BY <1>6

LEMMA MaxOfTwo ==
  ASSUME NEW a \in Nat, NEW b \in Nat
  PROVE  Max({a, b}) \in Nat /\ a <= Max({a, b}) /\ b <= Max({a, b})
<1>1. \E z \in {a, b} : \A y \in {a, b} : z >= y
  BY a >= b \/ b >= a
<1>2. Max({a, b}) \in {a, b} /\ \A y \in {a, b} : Max({a, b}) >= y
  BY <1>1 DEF Max
<1> QED BY <1>2

LEMMA MinOfTwo ==
  ASSUME NEW a \in Nat, NEW b \in Nat
  PROVE  Min({a, b}) \in Nat /\ Min({a, b}) <= a
<1>1. \E z \in {a, b} : \A y \in {a, b} : z <= y
  BY a <= b \/ b <= a
<1>2. Min({a, b}) \in {a, b} /\ \A y \in {a, b} : Min({a, b}) <= y
  BY <1>1 DEF Min
<1> QED BY <1>2
------------------------------------------------------------------------------
(* The log.                                                                 *)

LEMMA KeptStand ==
  /\ \A p : p \in AllKept <=> Stands(p)
  /\ \A p : p \in AllKept' <=> Stands(p)'
BY DEF AllKept, Stands

LEMMA LogTypes ==
  ASSUME LogInv
  PROVE  /\ Len(history) \in Nat /\ DOMAIN history = 1 .. Len(history)
         /\ history = <<>> <=> Len(history) = 0
         /\ \A s \in Sessions : \A q \in DOMAIN log[s] :
              /\ q \in 1 .. Len(history) /\ log[s][q].global \in 1 .. Len(history)
              /\ log[s][q].through \in Nat
         /\ AllKept \subseteq 1 .. Len(history)
         /\ \A s \in Sessions : DOMAIN log[s] \subseteq 1 .. Len(history)
<1>1. history \in Seq(Entries)
  BY DEF LogInv, RowsTyped
<1>2. Len(history) \in Nat /\ DOMAIN history = 1 .. Len(history)
  BY <1>1, LenProperties
<1>3. history = <<>> <=> Len(history) = 0
  BY <1>1, EmptySeq
<1>4. \A s \in Sessions : \A q \in DOMAIN log[s] :
        /\ q \in 1 .. Len(history) /\ log[s][q].global \in 1 .. Len(history)
        /\ log[s][q].through \in Nat
  <2> SUFFICES ASSUME NEW s \in Sessions, NEW q \in DOMAIN log[s]
               PROVE  /\ q \in 1 .. Len(history) /\ log[s][q].global \in 1 .. Len(history)
                      /\ log[s][q].through \in Nat
    OBVIOUS
  <2>1. log[s][q].global \in 1 .. Len(history)
    BY <1>2 DEF LogInv, RowsStand
  <2>2. q \in Nat \ {0} /\ q <= log[s][q].global /\ log[s][q].through \in Nat
    BY DEF LogInv, RowsTyped
  <2> QED BY <1>2, <2>1, <2>2
<1>5. AllKept \subseteq 1 .. Len(history)
  BY <1>4, KeptStand DEF Stands
<1> QED BY <1>2, <1>3, <1>4, <1>5

\* The next place in the whole log is the one after the last event ever appended.
LEMMA HeadIsLast ==
  ASSUME LogInv
  PROVE  LogHead = Len(history) /\ NextGlobal = Len(history) + 1
<1> DEFINE S == {0} \cup AllKept
<1>1. Len(history) \in Nat /\ S \in SUBSET (0 .. Len(history)) /\ S # {}
  BY LogTypes
<1>2. Max(S) \in S /\ \A y \in S : y <= Max(S)
  <2> HIDE DEF S
  <2> QED BY <1>1, MaxIsMost
<1>3. Len(history) \in S
  <2>1. CASE history = <<>>
    BY <2>1, LogTypes
  <2>2. CASE history # <<>>
    BY <2>2, KeptStand DEF LogInv, LastIsKept
  <2> QED BY <2>1, <2>2
<1>4. Max(S) = Len(history)
  <2>1. Max(S) \in 0 .. Len(history) /\ Len(history) <= Max(S)
    <3> HIDE DEF S
    <3> QED BY <1>1, <1>2, <1>3
  <2> QED BY <1>1, <2>1
<1> QED BY <1>4 DEF LogHead, NextGlobal

\* The next place in a session comes after every row that is left of it.
LEMMA NextSeqFollows ==
  ASSUME LogInv, NEW s \in Sessions
  PROVE  /\ NextSeq(log[s]) \in 1 .. (Len(history) + 1)
         /\ \A q \in DOMAIN log[s] : q < NextSeq(log[s])
<1> DEFINE S == DOMAIN log[s] \cup {0}
<1>1. Len(history) \in Nat /\ S \in SUBSET (0 .. Len(history)) /\ S # {}
  BY LogTypes
<1>2. Max(S) \in S /\ \A y \in S : y <= Max(S)
  <2> HIDE DEF S
  <2> QED BY <1>1, MaxIsMost
<1>3. Max(S) \in 0 .. Len(history)
  BY <1>1, <1>2
<1>4. NextSeq(log[s]) = 1 + Max(S)
  BY DEF NextSeq
<1>5. \A q \in DOMAIN log[s] : q \in Nat /\ q <= Max(S)
  <2>1. \A q \in DOMAIN log[s] : q \in Nat /\ q \in S
    BY LogTypes
  <2> QED BY <1>2, <2>1
<1> HIDE DEF S
<1> QED BY <1>1, <1>3, <1>4, <1>5

LEMMA AppendLog ==
  ASSUME LogInv, NEW s \in Sessions, NEW kind \in {"plain", "fold"}, NEW through \in Nat,
         AppendEvent(s, kind, through)
  PROVE  /\ LogInv'
         /\ Len(history') = Len(history) + 1
         /\ \A p \in 1 .. Len(history) : history'[p] = history[p]
         /\ \A p : Stands(p)' <=> Stands(p) \/ p = Len(history) + 1
         /\ \A t \in Sessions : t # s => log'[t] = log[t]
<1> DEFINE n == NextSeq(log[s])
           g == Len(history) + 1
           row == Row(kind, through, g)
<1>1. Len(history) \in Nat /\ DOMAIN history = 1 .. Len(history) /\ NextGlobal = g
  BY LogTypes, HeadIsLast
<1>2. n \in Nat \ {0} /\ n <= g /\ \A q \in DOMAIN log[s] : q < n
  BY <1>1, NextSeqFollows
<1>3. /\ history' = Append(history, [session |-> s, seq |-> n])
      /\ log' = [log EXCEPT ![s] = Appended(log[s], row)] /\ watermark' = watermark
  BY <1>1 DEF AppendEvent
<1>4. history \in Seq(Entries) /\ [session |-> s, seq |-> n] \in Entries
  BY <1>2 DEF LogInv, RowsTyped, Entries
<1>5. /\ history' \in Seq(Entries) /\ Len(history') = g
      /\ \A p \in 1 .. Len(history) : history'[p] = history[p]
      /\ history'[g] = [session |-> s, seq |-> n]
  <2> HIDE DEF n
  <2> QED BY <1>3, <1>4, AppendProperties
<1>6. DOMAIN history' = 1 .. g
  BY <1>5, LenProperties
<1>7. DOMAIN log' = Sessions /\ \A t \in Sessions : t # s => log'[t] = log[t]
  BY <1>3 DEF LogInv, RowsTyped
<1>8. /\ DOMAIN log'[s] = DOMAIN log[s] \cup {n}
      /\ \A q \in DOMAIN log[s] : log'[s][q] = log[s][q]
      /\ log'[s][n] = row
  <2>1. log'[s] = Appended(log[s], row)
    BY <1>3 DEF LogInv, RowsTyped
  <2>2. n \notin DOMAIN log[s]
    BY <1>2
  <2> QED BY <2>1, <2>2 DEF Appended
<1>9. row.kind = kind /\ row.through = through /\ row.global = g
  BY DEF Row
<1> HIDE DEF n, g, row
<1>10. g \in Nat \ {0} /\ g > Len(history) /\ g = Len(history) + 1
  BY <1>1 DEF g
<1>11. RowsTyped'
  <2>1. \A t \in Sessions : \A q \in DOMAIN log'[t] :
          /\ q \in Nat \ {0} /\ log'[t][q].kind \in {"plain", "fold"}
          /\ log'[t][q].through \in Nat /\ log'[t][q].global \in Nat \ {0}
          /\ q <= log'[t][q].global
    <3> SUFFICES ASSUME NEW t \in Sessions, NEW q \in DOMAIN log'[t]
                 PROVE  /\ q \in Nat \ {0} /\ log'[t][q].kind \in {"plain", "fold"}
                        /\ log'[t][q].through \in Nat /\ log'[t][q].global \in Nat \ {0}
                        /\ q <= log'[t][q].global
      OBVIOUS
    <3>1. CASE t = s /\ q = n
      BY <1>2, <1>8, <1>9, <1>10, <3>1
    <3>2. CASE q \in DOMAIN log[t] /\ log'[t][q] = log[t][q]
      BY <3>2 DEF LogInv, RowsTyped
    <3> QED BY <1>7, <1>8, <3>1, <3>2
  <2> QED BY <1>3, <1>5, <1>7, <2>1 DEF LogInv, RowsTyped
<1>12. RowsStand'
  <2> SUFFICES ASSUME NEW t \in Sessions, NEW q \in DOMAIN log'[t]
               PROVE  /\ log'[t][q].global \in DOMAIN history'
                      /\ history'[log'[t][q].global] = [session |-> t, seq |-> q]
                      /\ \A p \in DOMAIN log'[t] : p < q => log'[t][p].global < log'[t][q].global
    BY DEF RowsStand
  <2>1. CASE t = s /\ q = n
    <3>1. log'[t][q].global = g
      BY <1>8, <1>9, <2>1
    <3>2. \A p \in DOMAIN log'[t] : p < q => log'[t][p].global < g
      <4> SUFFICES ASSUME NEW p \in DOMAIN log'[t], p < q PROVE log'[t][p].global < g
        OBVIOUS
      <4>1. p \in DOMAIN log[s] /\ log'[t][p] = log[s][p]
        BY <1>2, <1>8, <2>1
      <4> QED BY <1>1, <1>10, <4>1, LogTypes
    <3> QED BY <1>5, <1>6, <1>10, <2>1, <3>1, <3>2
  <2>2. CASE q \in DOMAIN log[t] /\ ~ (t = s /\ q = n)
    <3>1. log'[t][q] = log[t][q] /\ log[t][q].global \in 1 .. Len(history)
      BY <1>7, <1>8, <2>2, LogTypes
    <3>2. \A p \in DOMAIN log'[t] : p < q => p \in DOMAIN log[t] /\ log'[t][p] = log[t][p]
      <4> SUFFICES ASSUME NEW p \in DOMAIN log'[t], p < q, t = s
                   PROVE  p \in DOMAIN log[t] /\ log'[t][p] = log[t][p]
        BY <1>7
      <4>1. q < n /\ q \in Nat
        BY <1>2, <2>2, LogTypes
      <4>2. p # n
        BY <1>2, <4>1
      <4> QED BY <1>8, <4>2
    <3> QED BY <1>1, <1>5, <1>6, <1>10, <2>2, <3>1, <3>2 DEF LogInv, RowsStand
  <2> QED BY <1>7, <1>8, <2>1, <2>2
<1>13. \A p : Stands(p)' <=> Stands(p) \/ p = g
  <2>1. ASSUME NEW p, Stands(p) PROVE Stands(p)'
    <3>1. PICK t \in Sessions : \E q \in DOMAIN log[t] : log[t][q].global = p
      BY <2>1 DEF Stands
    <3>2. PICK q \in DOMAIN log[t] : log[t][q].global = p
      BY <3>1
    <3>3. q \in DOMAIN log'[t] /\ log'[t][q] = log[t][q]
      BY <1>7, <1>8
    <3> QED BY <3>2, <3>3 DEF Stands
  <2>2. ASSUME NEW p, p = g PROVE Stands(p)'
    <3>1. n \in DOMAIN log'[s] /\ log'[s][n].global = p
      BY <1>8, <1>9, <2>2
    <3> QED BY <3>1 DEF Stands
  <2>3. ASSUME NEW p, Stands(p)' PROVE Stands(p) \/ p = g
    <3>1. PICK t \in Sessions : \E q \in DOMAIN log'[t] : log'[t][q].global = p
      BY <2>3 DEF Stands
    <3>2. PICK q \in DOMAIN log'[t] : log'[t][q].global = p
      BY <3>1
    <3>3. (q \in DOMAIN log[t] /\ log'[t][q] = log[t][q]) \/ log'[t][q].global = g
      BY <1>7, <1>8, <1>9
    <3> QED BY <3>2, <3>3 DEF Stands
  <2> QED BY <2>1, <2>2, <2>3
<1>14. LastIsKept'
  BY <1>5, <1>13 DEF LastIsKept
<1>15. GoneIsMarked'
  BY <1>1, <1>3, <1>6, <1>10, <1>13 DEF LogInv, GoneIsMarked
<1> QED BY <1>5, <1>7, <1>10, <1>11, <1>12, <1>13, <1>14, <1>15 DEF LogInv

\* A cut lies before a row that stays.
LEMMA CutsAreSafe ==
  ASSUME LogInv, NEW s \in Sessions, NEW c \in SafeCuts(log[s], KeepAfterFold)
  PROVE  c \in Nat /\ \E last \in DOMAIN log[s] : c < last
<1> DEFINE folds == FoldsOf(log[s])
           last == Max(folds)
<1>1. folds # {} /\ c \in {Min({p, log[s][last].through}) :
                            p \in {q \in DOMAIN log[s] :
                                     /\ q < last
                                     /\ Cardinality({b \in DOMAIN log[s] : q < b /\ b < last})
                                          = KeepAfterFold}}
  BY DEF SafeCuts
<1>2. last \in folds /\ folds \subseteq DOMAIN log[s]
  <2>1. folds \in SUBSET (0 .. Len(history)) /\ folds \subseteq DOMAIN log[s]
    BY LogTypes DEF FoldsOf
  <2>2. Len(history) \in Nat
    BY LogTypes
  <2> HIDE DEF folds
  <2> QED BY <1>1, <2>1, <2>2, MaxIsMost
<1> HIDE DEF folds, last
<1>3. last \in Nat /\ log[s][last].through \in Nat
  BY <1>2, LogTypes
<1>4. PICK p \in DOMAIN log[s] : p < last /\ c = Min({p, log[s][last].through})
  BY <1>1
<1>5. p \in Nat
  BY LogTypes
<1>6. c \in Nat /\ c <= p
  BY <1>3, <1>4, <1>5, MinOfTwo
<1> QED BY <1>2, <1>3, <1>4, <1>5, <1>6

LEMMA PruneLog ==
  ASSUME LogInv, NEW s \in Sessions, Prune(s)
  PROVE  LogInv' /\ \A p : Stands(p)' => Stands(p)
<1>1. PICK c \in SafeCuts(log[s], KeepAfterFold) :
        /\ log' = [log EXCEPT ![s] = Pruned(log[s], c)]
        /\ watermark' = Max({watermark, Highest(log[s], c)})
  BY DEF Prune
<1>2. c \in Nat /\ \E last \in DOMAIN log[s] : c < last
  BY CutsAreSafe
<1>3. history' = history
  BY DEF Prune
<1>4. Len(history) \in Nat /\ DOMAIN history = 1 .. Len(history)
  BY LogTypes
<1>5. DOMAIN log' = Sessions /\ \A t \in Sessions : t # s => log'[t] = log[t]
  BY <1>1 DEF LogInv, RowsTyped
<1>6. log'[s] = Pruned(log[s], c)
  BY <1>1 DEF LogInv, RowsTyped
<1>7. \A t \in Sessions : \A q \in DOMAIN log'[t] : q \in DOMAIN log[t] /\ log'[t][q] = log[t][q]
  BY <1>5, <1>6 DEF Pruned, Restrict
<1>8. \A t \in Sessions : \A q \in DOMAIN log[t] :
        q \in DOMAIN log'[t] \/ (t = s /\ ~ (q > c))
  BY <1>5, <1>6 DEF Pruned, Restrict
\* Everything that goes had a place no higher than the watermark will be.
<1>9. /\ watermark' \in Nat /\ watermark <= watermark'
      /\ \A q \in DOMAIN log[s] : q <= c => log[s][q].global <= watermark'
  <2> DEFINE S == {0} \cup {log[s][q].global : q \in {p \in DOMAIN log[s] : p <= c}}
  <2>1. S \in SUBSET (0 .. Len(history)) /\ S # {}
    <3>1. \A q \in DOMAIN log[s] : log[s][q].global \in 0 .. Len(history)
      BY <1>4, LogTypes
    <3> QED BY <1>4, <3>1
  <2>2. Max(S) \in S /\ \A y \in S : y <= Max(S)
    <3> HIDE DEF S
    <3> QED BY <1>4, <2>1, MaxIsMost
  <2>3. Max(S) \in Nat
    <3> HIDE DEF S
    <3>1. Max(S) \in 0 .. Len(history)
      BY <2>1, <2>2
    <3> QED BY <1>4, <3>1
  <2>4. \A q \in DOMAIN log[s] : q <= c => log[s][q].global <= Max(S) /\ log[s][q].global \in Nat
    <3>1. \A q \in DOMAIN log[s] : q <= c => log[s][q].global \in S
      OBVIOUS
    <3> HIDE DEF S
    <3> QED BY <1>4, <2>2, <3>1, LogTypes
  <2>5. watermark' = Max({watermark, Max(S)}) /\ watermark \in Nat
    BY <1>1 DEF Highest, LogInv, RowsTyped
  <2> HIDE DEF S
  <2>6. watermark' \in Nat /\ watermark <= watermark' /\ Max(S) <= watermark'
    BY <2>3, <2>5, MaxOfTwo
  <2>7. \A q \in DOMAIN log[s] : q <= c => log[s][q].global <= watermark'
    BY <2>3, <2>4, <2>6
  <2> QED BY <2>6, <2>7
<1>10. RowsTyped'
  <2>1. \A t \in Sessions : \A q \in DOMAIN log'[t] :
          /\ q \in Nat \ {0} /\ log'[t][q].kind \in {"plain", "fold"}
          /\ log'[t][q].through \in Nat /\ log'[t][q].global \in Nat \ {0}
          /\ q <= log'[t][q].global
    BY <1>7 DEF LogInv, RowsTyped
  <2> QED BY <1>3, <1>5, <1>9, <2>1 DEF LogInv, RowsTyped
<1>11. RowsStand'
  <2> SUFFICES ASSUME NEW t \in Sessions, NEW q \in DOMAIN log'[t]
               PROVE  /\ log'[t][q].global \in DOMAIN history'
                      /\ history'[log'[t][q].global] = [session |-> t, seq |-> q]
                      /\ \A p \in DOMAIN log'[t] : p < q => log'[t][p].global < log'[t][q].global
    BY DEF RowsStand
  <2>1. q \in DOMAIN log[t] /\ log'[t][q] = log[t][q]
    BY <1>7
  <2>2. \A p \in DOMAIN log'[t] : p < q => log'[t][p].global < log'[t][q].global
    BY <1>7, <2>1 DEF LogInv, RowsStand
  <2> QED BY <1>3, <2>1, <2>2 DEF LogInv, RowsStand
<1>12. \A p : Stands(p)' => Stands(p)
  BY <1>7 DEF Stands
<1>13. LastIsKept'
  <2> SUFFICES ASSUME history # <<>> PROVE \A p : p = Len(history) => Stands(p)'
    BY <1>3 DEF LastIsKept
  <2>1. PICK t \in Sessions : \E q \in DOMAIN log[t] : log[t][q].global = Len(history)
    BY DEF LogInv, LastIsKept, Stands
  <2>2. PICK q \in DOMAIN log[t] : log[t][q].global = Len(history)
    BY <2>1
  <2>3. q \in DOMAIN log'[t]
    <3> SUFFICES ASSUME q \notin DOMAIN log'[t] PROVE FALSE
      OBVIOUS
    <3>1. t = s /\ ~ (q > c) /\ q \in Nat
      BY <1>8, LogTypes
    <3>2. PICK last \in DOMAIN log[s] : c < last
      BY <1>2
    <3>3. q < last
      BY <1>2, <3>1, <3>2, LogTypes
    <3>4. log[s][q].global < log[s][last].global
      BY <3>1, <3>3 DEF LogInv, RowsStand
    <3>5. log[s][last].global \in 1 .. Len(history)
      BY LogTypes
    <3> QED BY <1>4, <2>2, <3>1, <3>4, <3>5
  <2> QED BY <1>7, <2>2, <2>3 DEF Stands
<1>14. GoneIsMarked'
  <2> SUFFICES ASSUME NEW p \in DOMAIN history, ~ (p <= watermark') PROVE Stands(p)'
    BY <1>3 DEF GoneIsMarked
  <2>1. p \in Nat /\ ~ (p <= watermark)
    BY <1>4, <1>9 DEF LogInv, RowsTyped
  <2>2. PICK t \in Sessions : \E q \in DOMAIN log[t] : log[t][q].global = p
    BY <2>1 DEF LogInv, GoneIsMarked, Stands
  <2>3. PICK q \in DOMAIN log[t] : log[t][q].global = p
    BY <2>2
  <2>4. q \in DOMAIN log'[t]
    <3> SUFFICES ASSUME t = s, ~ (q > c) PROVE FALSE
      BY <1>8
    <3>1. q <= c
      BY <1>2, LogTypes
    <3> QED BY <1>9, <2>3, <3>1
  <2> QED BY <1>7, <2>3, <2>4 DEF Stands
<1> QED BY <1>10, <1>11, <1>12, <1>13, <1>14 DEF LogInv

LEMMA LogStutters ==
  ASSUME LogInv, UNCHANGED logVars
  PROVE  LogInv' /\ \A p : Stands(p)' <=> Stands(p)
BY DEF logVars, LogInv, RowsTyped, RowsStand, LastIsKept, GoneIsMarked, Stands
------------------------------------------------------------------------------
(* The streams and the wake-ups.                                            *)

StreamTyped ==
  /\ unpublished \in [Sessions -> Nat] /\ waking \in [Watchers -> Nat]
  /\ armed \subseteq Watchers /\ attached \subseteq Consoles
  /\ floor \in [Watchers -> Nat] /\ overtaken \in [Watchers -> SUBSET Nat]
  /\ stage \in [Watchers -> Stages] /\ cursor \in [Watchers -> Nat]
  /\ batch \in [Watchers -> SUBSET Nat] /\ wire \in [Watchers -> Seq(Frames)]
  /\ mark \in [Watchers -> Nat] /\ shown \in [Watchers -> Seq(Nat)]
  /\ excused \in [Watchers -> SUBSET Nat] /\ breaks \in 0 .. MaxBreaks

\* A signal goes to a stream there is, and only one that reads has rows to send.
StreamsAgree ==
  \A w \in Watchers :
    /\ w \in armed \/ waking[w] > 0 => stage[w] # "away"
    /\ batch[w] # {} => stage[w] = "reading"

StreamInv == StreamTyped /\ StreamsAgree /\ NoWakeupLost

Told(w) == w \in armed \/ waking[w] > 0 \/ \E s \in Sessions : Concerns(w, s) /\ unpublished[s] > 0

LEMMA WakeupsToldOf ==
  /\ NoWakeupLost <=>
       \A w \in Watchers : stage[w] \in {"drained", "asleep"} /\ Unread(w) # {} => Told(w)
  /\ NoWakeupLost' <=>
       \A w \in Watchers : stage'[w] \in {"drained", "asleep"} /\ Unread(w)' # {} => Told(w)'
BY DEF NoWakeupLost, Told

LEMMA SomebodyWatches ==
  /\ \A w \in Consoles : w \in Watchers /\ w \notin Followers
  /\ \A w \in Watchers : w \notin Consoles => w \in Followers /\ Follows[w] \in Sessions
BY BoundTypes DEF Watchers

LEMMA KeptTypes ==
  ASSUME LogInv, NEW w \in Watchers
  PROVE  /\ Kept(w) \subseteq 1 .. Len(history) /\ Len(history) \in Nat
         /\ Gone(w) \subseteq Nat /\ Unread(w) \subseteq Nat
<1>1. Kept(w) \subseteq 1 .. Len(history) /\ Len(history) \in Nat
  BY LogTypes, SomebodyWatches DEF Kept
<1>2. Gone(w) \subseteq Nat
  <2>1. \A p \in DOMAIN history : p \in Nat /\ history[p].seq \in Nat
    <3>1. DOMAIN history = 1 .. Len(history) /\ history \in Seq(Entries)
      BY LogTypes DEF LogInv, RowsTyped
    <3>2. \A p \in 1 .. Len(history) : history[p] \in Entries
      BY <3>1, ElementOfSeq
    <3> QED BY <1>1, <3>1, <3>2 DEF Entries
  <2> QED BY <2>1 DEF Gone
<1> QED BY <1>1, <1>2 DEF Unread

\* A frame that is sent.
LEMMA SendTypes ==
  ASSUME StreamTyped, NEW w \in Watchers, NEW frame \in Frames, Send(w, frame)
  PROVE  /\ wire' \in [Watchers -> Seq(Frames)]
         /\ \A v \in Watchers : v # w => wire'[v] = wire[v]
         /\ Len(wire[w]) \in Nat /\ DOMAIN wire[w] = 1 .. Len(wire[w])
         /\ DOMAIN wire'[w] = 1 .. (Len(wire[w]) + 1) /\ wire'[w] # <<>>
         /\ \A k \in 1 .. Len(wire[w]) : wire'[w][k] = wire[w][k]
         /\ wire'[w][Len(wire[w]) + 1] = frame
<1>1. wire[w] \in Seq(Frames) /\ wire' = [wire EXCEPT ![w] = Append(wire[w], frame)]
  BY DEF StreamTyped, Send
<1>2. /\ Append(wire[w], frame) \in Seq(Frames) /\ Append(wire[w], frame) # <<>>
      /\ Len(Append(wire[w], frame)) = Len(wire[w]) + 1
      /\ \A k \in 1 .. Len(wire[w]) : Append(wire[w], frame)[k] = wire[w][k]
      /\ Append(wire[w], frame)[Len(wire[w]) + 1] = frame
  BY <1>1, AppendProperties
<1>3. Len(wire[w]) \in Nat /\ DOMAIN wire[w] = 1 .. Len(wire[w])
  BY <1>1, LenProperties
<1>4. DOMAIN Append(wire[w], frame) = 1 .. (Len(wire[w]) + 1)
  BY <1>2, LenProperties
<1>5. /\ wire' \in [Watchers -> Seq(Frames)] /\ wire'[w] = Append(wire[w], frame)
      /\ \A v \in Watchers : v # w => wire'[v] = wire[v]
  BY <1>1, <1>2 DEF StreamTyped
<1> QED BY <1>2, <1>3, <1>4, <1>5

\* A frame that is received.
LEMMA ReceiveTypes ==
  ASSUME StreamTyped, NEW w \in Watchers, wire[w] # <<>>, wire' = [wire EXCEPT ![w] = Tail(wire[w])]
  PROVE  /\ wire' \in [Watchers -> Seq(Frames)]
         /\ \A v \in Watchers : v # w => wire'[v] = wire[v]
         /\ Len(wire[w]) \in Nat \ {0} /\ DOMAIN wire[w] = 1 .. Len(wire[w])
         /\ DOMAIN wire'[w] = 1 .. (Len(wire[w]) - 1)
         /\ \A k \in DOMAIN wire'[w] : wire'[w][k] = wire[w][k + 1]
         /\ Head(wire[w]) = wire[w][1] /\ Head(wire[w]) \in Frames
<1>1. wire[w] \in Seq(Frames)
  BY DEF StreamTyped
<1>2. /\ Head(wire[w]) \in Frames /\ Tail(wire[w]) \in Seq(Frames)
      /\ Len(Tail(wire[w])) = Len(wire[w]) - 1
      /\ \A k \in 1 .. Len(Tail(wire[w])) : Tail(wire[w])[k] = wire[w][k + 1]
  BY <1>1, HeadTailProperties
<1>3. Len(wire[w]) \in Nat \ {0} /\ DOMAIN wire[w] = 1 .. Len(wire[w]) /\ Head(wire[w]) = wire[w][1]
  BY <1>1, LenProperties, EmptySeq
<1>4. DOMAIN Tail(wire[w]) = 1 .. (Len(wire[w]) - 1)
  BY <1>2, LenProperties
<1>5. /\ wire' \in [Watchers -> Seq(Frames)] /\ wire'[w] = Tail(wire[w])
      /\ \A v \in Watchers : v # w => wire'[v] = wire[v]
  BY <1>1, <1>2 DEF StreamTyped
<1> QED BY <1>2, <1>3, <1>4, <1>5

\* A stream that is gone.
LEMMA DroppedTypes ==
  ASSUME StreamTyped, NEW W \in SUBSET Watchers, Dropped(W)
  PROVE  /\ stage' \in [Watchers -> Stages] /\ batch' \in [Watchers -> SUBSET Nat]
         /\ wire' \in [Watchers -> Seq(Frames)] /\ waking' \in [Watchers -> Nat]
         /\ armed' \subseteq Watchers /\ floor' \in [Watchers -> Nat]
         /\ \A w \in W : /\ stage'[w] = "away" /\ batch'[w] = {} /\ wire'[w] = <<>>
                         /\ waking'[w] = 0 /\ w \notin armed'
         /\ \A w \in Watchers \ W :
              /\ stage'[w] = stage[w] /\ batch'[w] = batch[w] /\ wire'[w] = wire[w]
              /\ waking'[w] = waking[w] /\ (w \in armed' <=> w \in armed)
              /\ floor'[w] = floor[w]
         /\ log' = log /\ watermark' = watermark /\ history' = history /\ cursor' = cursor
         /\ mark' = mark /\ attached' = attached /\ shown' = shown /\ excused' = excused
         /\ overtaken' = overtaken
<1>1. <<>> \in Seq(Frames)
  BY EmptySeq
<1> QED BY <1>1 DEF StreamTyped, Dropped, logVars, clientVars, Stages

\* Appending: everybody it concerns will be told.
LEMMA AppendStreams ==
  ASSUME LogInv, StreamInv, NEW s \in Sessions, NEW kind \in {"plain", "fold"}, NEW through \in Nat,
         AppendEvent(s, kind, through)
  PROVE  StreamInv'
<1>1. /\ unpublished' = [unpublished EXCEPT ![s] = @ + 1] /\ UNCHANGED <<waking, armed>>
      /\ UNCHANGED streamVars /\ UNCHANGED clientVars /\ UNCHANGED <<overtaken, breaks>>
  BY DEF AppendEvent
<1>2. StreamTyped' /\ StreamsAgree'
  BY <1>1 DEF StreamInv, StreamTyped, StreamsAgree, streamVars, clientVars
<1>3. unpublished'[s] > 0 /\ \A t \in Sessions : unpublished[t] > 0 => unpublished'[t] > 0
  BY <1>1 DEF StreamInv, StreamTyped
<1>4. \A t \in Sessions : t # s => log'[t] = log[t]
  BY AppendLog
<1>5. NoWakeupLost'
  <2> SUFFICES ASSUME NEW w \in Watchers, stage'[w] \in {"drained", "asleep"}, Unread(w)' # {}
               PROVE  Told(w)'
    BY WakeupsToldOf
  <2>1. CASE Concerns(w, s)
    BY <1>3, <2>1 DEF Told, Concerns
  <2>2. CASE ~ Concerns(w, s)
    <3>1. w \notin Consoles /\ Follows[w] # s /\ Follows[w] \in Sessions
      BY <2>2, SomebodyWatches DEF Concerns
    <3>2. Unread(w)' = Unread(w)
      BY <1>1, <1>4, <3>1 DEF Unread, Kept, streamVars
    <3>3. Told(w)
      BY <1>1, <3>2, WakeupsToldOf DEF StreamInv, streamVars
    <3> QED BY <1>1, <1>3, <3>3 DEF Told, Concerns
  <2> QED BY <2>1, <2>2
<1> QED BY <1>2, <1>5 DEF StreamInv

LEMMA PruneStreams ==
  ASSUME LogInv, StreamInv, NEW s \in Sessions, Prune(s)
  PROVE  StreamInv'
<1>1. /\ UNCHANGED hubVars /\ UNCHANGED streamVars /\ UNCHANGED clientVars /\ breaks' = breaks
  BY DEF Prune
<1>0. overtaken' \in [Watchers -> SUBSET Nat]
  <2>1. \A w \in Watchers : Kept(w) \subseteq Nat /\ overtaken[w] \subseteq Nat
    BY KeptTypes DEF StreamInv, StreamTyped
  <2> HIDE DEF Kept
  <2>2. overtaken' = [w \in Watchers |->
          IF PastTelling(w)
            THEN overtaken[w] \cup {p \in (Kept(w) \ Kept(w)') \ batch[w] : p > cursor[w]}
            ELSE overtaken[w]]
    BY DEF Prune
  <2>3. \A w \in Watchers : overtaken'[w] \in SUBSET Nat
    BY <2>1, <2>2
  <2> QED BY <2>2, <2>3
<1>2. StreamTyped' /\ StreamsAgree'
  BY <1>0, <1>1 DEF StreamInv, StreamTyped, StreamsAgree, hubVars, streamVars, clientVars
<1>3. \A t \in Sessions : DOMAIN log'[t] \subseteq DOMAIN log[t]
  BY DEF Prune, Pruned, Restrict, LogInv, RowsTyped
<1>4. \A w \in Watchers : Unread(w)' \subseteq Unread(w)
  <2> SUFFICES ASSUME NEW w \in Watchers PROVE Kept(w)' \subseteq Kept(w)
    BY <1>1 DEF Unread, streamVars
  <2>1. CASE w \in Consoles
    BY <2>1, PruneLog, KeptStand DEF Kept
  <2>2. CASE w \notin Consoles
    BY <1>3, <2>2, SomebodyWatches DEF Kept
  <2> QED BY <2>1, <2>2
<1>5. \A w \in Watchers : Told(w)' <=> Told(w)
  BY <1>1 DEF Told, Concerns, hubVars
<1>6. NoWakeupLost'
  BY <1>1, <1>4, <1>5, WakeupsToldOf DEF StreamInv, streamVars
<1> QED BY <1>2, <1>6 DEF StreamInv

\* Publishing: who was to be told is told.
LEMMA PublishStreams ==
  ASSUME StreamInv, NEW s \in Sessions, Publish(s)
  PROVE  StreamInv'
<1>1. /\ unpublished[s] > 0 /\ unpublished' = [unpublished EXCEPT ![s] = @ - 1]
      /\ waking' = [w \in Watchers |-> IF w \in Heard(s) THEN waking[w] + 1 ELSE waking[w]]
      /\ UNCHANGED logVars /\ UNCHANGED streamVars /\ UNCHANGED clientVars
      /\ UNCHANGED <<armed, overtaken, breaks>>
  BY DEF Publish
<1>2. StreamTyped'
  BY <1>1 DEF StreamInv, StreamTyped, streamVars, clientVars
<1>3. \A w \in Heard(s) : w \in Watchers /\ stage[w] # "away"
  BY DEF Heard, Subscribed
<1>4. StreamsAgree'
  BY <1>1, <1>3 DEF StreamInv, StreamTyped, StreamsAgree, streamVars
<1>5. NoWakeupLost'
  <2> SUFFICES ASSUME NEW w \in Watchers, stage[w] \in {"drained", "asleep"}, Unread(w) # {}
               PROVE  Told(w)'
    BY <1>1, WakeupsToldOf DEF Unread, Kept, AllKept, streamVars, logVars
  <2>1. CASE Concerns(w, s)
    <3>1. w \in Heard(s)
      BY <2>1 DEF Heard, Subscribed
    <3>2. waking'[w] > 0
      BY <1>1, <3>1 DEF StreamInv, StreamTyped
    <3> QED BY <3>2 DEF Told
  <2>2. CASE ~ Concerns(w, s)
    <3>1. Told(w)
      BY WakeupsToldOf DEF StreamInv
    <3>2. w \in armed => w \in armed'
      BY <1>1
    <3>3. waking[w] > 0 => waking'[w] > 0
      BY <1>1 DEF StreamInv, StreamTyped
    <3>4. \A t \in Sessions : t # s => unpublished'[t] = unpublished[t]
      BY <1>1 DEF StreamInv, StreamTyped
    <3> QED BY <2>2, <3>1, <3>2, <3>3, <3>4 DEF Told, Concerns
  <2> QED BY <2>1, <2>2
<1> QED BY <1>2, <1>4, <1>5 DEF StreamInv

LEMMA SignalStreams ==
  ASSUME StreamInv, NEW w \in Watchers, Signal(w)
  PROVE  StreamInv'
<1>1. /\ waking[w] > 0 /\ waking' = [waking EXCEPT ![w] = @ - 1] /\ armed' = armed \cup {w}
      /\ UNCHANGED logVars /\ UNCHANGED streamVars /\ UNCHANGED clientVars
      /\ UNCHANGED <<unpublished, overtaken, breaks>>
  BY DEF Signal
<1>2. StreamTyped'
  BY <1>1 DEF StreamInv, StreamTyped, streamVars, clientVars
<1>3. StreamsAgree'
  BY <1>1 DEF StreamInv, StreamTyped, StreamsAgree, streamVars
<1>4. \A v \in Watchers : Told(v) => Told(v)'
  BY <1>1 DEF StreamInv, StreamTyped, Told, Concerns
<1>5. NoWakeupLost'
  BY <1>1, <1>4, WakeupsToldOf DEF StreamInv, Unread, Kept, AllKept, streamVars, logVars
<1> QED BY <1>2, <1>3, <1>5 DEF StreamInv

\* A step of one stream, which the others do not notice.
LEMMA OthersAreTold ==
  ASSUME StreamInv, NEW w \in Watchers, UNCHANGED logVars,
         \A v \in Watchers : v # w =>
           stage'[v] = stage[v] /\ cursor'[v] = cursor[v] /\ (Told(v) => Told(v)'),
         stage'[w] \in {"drained", "asleep"} => Unread(w)' = {} \/ Told(w)'
  PROVE  NoWakeupLost'
<1> SUFFICES ASSUME NEW v \in Watchers, stage'[v] \in {"drained", "asleep"}, Unread(v)' # {}
             PROVE  Told(v)'
  BY WakeupsToldOf
<1>1. CASE v = w
  BY <1>1
<1>2. CASE v # w
  <2>1. Unread(v)' = Unread(v)
    BY <1>2 DEF Unread, Kept, AllKept, logVars
  <2> QED BY <1>2, <2>1, WakeupsToldOf DEF StreamInv
<1> QED BY <1>1, <1>2

LEMMA JoinStreams ==
  ASSUME StreamInv, NEW w \in Watchers, Join(w)
  PROVE  StreamInv'
<1>1. /\ stage' = [stage EXCEPT ![w] = "joined"] /\ cursor' = [cursor EXCEPT ![w] = mark[w]]
      /\ armed' = armed \cup {w} /\ UNCHANGED logVars /\ UNCHANGED clientVars
      /\ UNCHANGED <<unpublished, waking, floor, batch, wire, overtaken, breaks>>
      /\ stage[w] = "away"
  BY DEF Join
<1>2. StreamTyped' /\ StreamsAgree'
  BY <1>1 DEF StreamInv, StreamTyped, StreamsAgree, Stages, clientVars
<1>3. \A v \in Watchers : Told(v) => Told(v)'
  BY <1>1 DEF Told, Concerns
<1>4. /\ stage'[w] = "joined"
      /\ \A v \in Watchers : v # w => stage'[v] = stage[v] /\ cursor'[v] = cursor[v]
  BY <1>1 DEF StreamInv, StreamTyped
<1>5. NoWakeupLost'
  BY <1>1, <1>3, <1>4, OthersAreTold
<1> QED BY <1>2, <1>5 DEF StreamInv

LEMMA HelloTypes ==
  ASSUME LogInv, StreamTyped, NEW w \in Watchers
  PROVE  /\ Frame("hello", LogHead) \in Frames
         /\ Behind(w) => Frame("resync", OldestTold(w)) \in Frames
<1>1. LogHead \in Nat
  BY HeadIsLast, LogTypes
<1>2. OldestTold(w) \in Nat /\ (Behind(w) => OldestTold(w) # 0)
  <2>1. CASE w \in Consoles
    BY <2>1 DEF OldestTold, StreamTyped
  <2>2. CASE w \notin Consoles
    <3>1. DOMAIN log[Follows[w]] \in SUBSET Nat
      BY <2>2, LogTypes, SomebodyWatches
    <3>2. OldestTold(w) \in Nat
      BY <2>2, <3>1, MinIsLeast DEF OldestTold, Oldest
    <3>3. Behind(w) => Oldest(Follows[w]) > 0
      BY <2>2 DEF Behind
    <3> QED BY <2>2, <3>2, <3>3 DEF OldestTold
  <2> QED BY <2>1, <2>2
<1> QED BY <1>1, <1>2 DEF Frame, Frames

\* The handler greets, ends the stream, or starts to read.
LEMMA OpenStreams ==
  ASSUME LogInv, StreamInv, NEW w \in Watchers, Greet(w) \/ Resync(w) \/ Resume(w)
  PROVE  StreamInv'
<1>1. /\ UNCHANGED logVars /\ UNCHANGED hubVars /\ UNCHANGED <<cursor, batch, overtaken, breaks>>
      /\ UNCHANGED <<mark, attached, shown>> /\ stage[w] \in {"joined", "greeted"}
      /\ \E new \in {"greeted", "over", "reading"} : stage' = [stage EXCEPT ![w] = new]
  BY DEF Greet, Resync, Resume, clientVars
<1>2. PICK new \in {"greeted", "over", "reading"} : stage' = [stage EXCEPT ![w] = new]
  BY <1>1
<1>3. wire' \in [Watchers -> Seq(Frames)]
  BY HelloTypes, SendTypes DEF Greet, Resync, Resume, StreamInv, StreamTyped
<1>9. floor' \in [Watchers -> Nat]
  BY DEF Greet, Resync, Resume, LogInv, RowsTyped, StreamInv, StreamTyped
<1>4. excused' \in [Watchers -> SUBSET Nat]
  BY KeptTypes DEF Greet, Resync, Resume, clientVars, StreamInv, StreamTyped
<1>5. StreamTyped' /\ StreamsAgree'
  BY <1>1, <1>2, <1>3, <1>4, <1>9 DEF StreamInv, StreamTyped, StreamsAgree, Stages, hubVars
<1>6. \A v \in Watchers : Told(v) => Told(v)'
  BY <1>1 DEF Told, Concerns, hubVars
<1>7. /\ stage'[w] = new
      /\ \A v \in Watchers : v # w => stage'[v] = stage[v] /\ cursor'[v] = cursor[v]
  BY <1>1, <1>2 DEF StreamInv, StreamTyped
<1>8. NoWakeupLost'
  BY <1>1, <1>6, <1>7, OthersAreTold
<1> QED BY <1>5, <1>8 DEF StreamInv

LEMMA ReadStreams ==
  ASSUME LogInv, StreamInv, NEW w \in Watchers, ReadBatch(w)
  PROVE  StreamInv'
<1> DEFINE new == {p \in Unread(w) : Cardinality({q \in Unread(w) : q <= p}) <= BatchSize}
<1>1. /\ UNCHANGED logVars /\ UNCHANGED hubVars
      /\ UNCHANGED <<stage, cursor, floor, wire, overtaken, breaks>>
      /\ UNCHANGED clientVars /\ stage[w] = "reading" /\ batch' = [batch EXCEPT ![w] = new]
  BY DEF ReadBatch
<1>2. new \in SUBSET Nat
  BY KeptTypes
<1> HIDE DEF new
<1>3. StreamTyped' /\ StreamsAgree'
  BY <1>1, <1>2 DEF StreamInv, StreamTyped, StreamsAgree, hubVars, clientVars
<1>4. \A v \in Watchers : Told(v) => Told(v)'
  BY <1>1 DEF Told, Concerns, hubVars
<1>5. NoWakeupLost'
  BY <1>1, <1>4, OthersAreTold
<1> QED BY <1>3, <1>5 DEF StreamInv

LEMMA BatchTypes ==
  ASSUME StreamTyped, NEW w \in Watchers, batch[w] # {}
  PROVE  /\ Min(batch[w]) \in batch[w] /\ Min(batch[w]) \in Nat
         /\ \A p \in batch[w] : p \in Nat /\ Min(batch[w]) <= p
         /\ Frame("event", Min(batch[w])) \in Frames
<1>1. batch[w] \in SUBSET Nat
  BY DEF StreamTyped
<1>2. Min(batch[w]) \in batch[w] /\ \A p \in batch[w] : Min(batch[w]) <= p
  BY <1>1, MinIsLeast
<1> QED BY <1>1, <1>2 DEF Frame, Frames

LEMMA SendStreams ==
  ASSUME StreamInv, NEW w \in Watchers, SendNext(w)
  PROVE  StreamInv'
<1> DEFINE next == Min(batch[w])
<1> StreamTyped
  BY DEF StreamInv
<1>1. /\ UNCHANGED logVars /\ UNCHANGED hubVars /\ UNCHANGED <<stage, floor, overtaken, breaks>>
      /\ UNCHANGED clientVars /\ batch[w] # {} /\ Send(w, Frame("event", next))
      /\ cursor' = [cursor EXCEPT ![w] = next] /\ batch' = [batch EXCEPT ![w] = @ \ {next}]
  BY DEF SendNext
<1>2. stage[w] = "reading"
  BY <1>1 DEF StreamInv, StreamsAgree
<1>3. next \in Nat /\ Frame("event", next) \in Frames
  BY <1>1, BatchTypes
<1> HIDE DEF next
<1>4. wire' \in [Watchers -> Seq(Frames)]
  BY <1>1, <1>3, SendTypes
<1>5. StreamTyped' /\ StreamsAgree'
  BY <1>1, <1>2, <1>3, <1>4 DEF StreamInv, StreamTyped, StreamsAgree, hubVars, clientVars
<1>6. \A v \in Watchers : Told(v) => Told(v)'
  BY <1>1 DEF Told, Concerns, hubVars
<1>7. \A v \in Watchers : v # w => cursor'[v] = cursor[v]
  BY <1>1 DEF StreamTyped
<1>8. NoWakeupLost'
  BY <1>1, <1>2, <1>6, <1>7, OthersAreTold
<1> QED BY <1>5, <1>8 DEF StreamInv

\* A stream goes to sleep only with nothing to read, and stays asleep until it is told.
LEMMA RestStreams ==
  ASSUME StreamInv, NEW w \in Watchers, Rest(w) \/ Wait(w) \/ Wake(w)
  PROVE  StreamInv'
<1>1. /\ UNCHANGED logVars /\ UNCHANGED clientVars
      /\ UNCHANGED <<unpublished, waking, cursor, floor, batch, wire, overtaken, breaks>>
  BY DEF Rest, Wait, Wake, hubVars
<1>2. CASE Rest(w)
  <2>1. /\ stage' = [stage EXCEPT ![w] = "drained"] /\ armed' = armed /\ batch[w] = {}
        /\ Unread(w) = {}
    BY <1>2 DEF Rest, hubVars
  <2>2. StreamTyped' /\ StreamsAgree'
    BY <1>1, <2>1 DEF StreamInv, StreamTyped, StreamsAgree, Stages, clientVars
  <2>3. \A v \in Watchers : Told(v) => Told(v)'
    BY <1>1, <2>1 DEF Told, Concerns
  <2>4. Unread(w)' = {}
    BY <1>1, <2>1 DEF Unread, Kept, AllKept, logVars
  <2>5. \A v \in Watchers : v # w => stage'[v] = stage[v] /\ cursor'[v] = cursor[v]
    BY <1>1, <2>1 DEF StreamInv, StreamTyped
  <2>6. NoWakeupLost'
    BY <1>1, <2>3, <2>4, <2>5, OthersAreTold
  <2> QED BY <2>2, <2>6 DEF StreamInv
<1>3. CASE Wait(w)
  <2>1. stage' = [stage EXCEPT ![w] = "asleep"] /\ armed' = armed /\ stage[w] = "drained"
    BY <1>3 DEF Wait, hubVars
  <2>2. StreamTyped' /\ StreamsAgree'
    BY <1>1, <2>1 DEF StreamInv, StreamTyped, StreamsAgree, Stages, clientVars
  <2>3. \A v \in Watchers : Told(v) => Told(v)'
    BY <1>1, <2>1 DEF Told, Concerns
  <2>4. Unread(w)' = Unread(w)
    BY <1>1 DEF Unread, Kept, AllKept, logVars
  <2>5. \A v \in Watchers : v # w => stage'[v] = stage[v] /\ cursor'[v] = cursor[v]
    BY <1>1, <2>1 DEF StreamInv, StreamTyped
  <2>6. Unread(w) = {} \/ Told(w)
    BY <2>1, WakeupsToldOf DEF StreamInv
  <2>7. NoWakeupLost'
    BY <1>1, <2>3, <2>4, <2>5, <2>6, OthersAreTold
  <2> QED BY <2>2, <2>7 DEF StreamInv
<1>4. CASE Wake(w)
  <2>1. /\ stage' = [stage EXCEPT ![w] = "reading"] /\ armed' = armed \ {w}
        /\ stage[w] = "asleep"
    BY <1>4 DEF Wake
  <2>2. StreamTyped' /\ StreamsAgree'
    BY <1>1, <2>1 DEF StreamInv, StreamTyped, StreamsAgree, Stages, clientVars
  <2>3. \A v \in Watchers : v # w => (Told(v) => Told(v)')
    BY <1>1, <2>1 DEF Told, Concerns
  <2>4. /\ stage'[w] = "reading"
        /\ \A v \in Watchers : v # w => stage'[v] = stage[v] /\ cursor'[v] = cursor[v]
    BY <1>1, <2>1 DEF StreamInv, StreamTyped
  <2>5. NoWakeupLost'
    BY <1>1, <2>3, <2>4, OthersAreTold
  <2> QED BY <2>2, <2>5 DEF StreamInv
<1> QED BY <1>2, <1>3, <1>4

LEMMA HearTypes ==
  ASSUME StreamTyped, NEW w \in Watchers, NEW at \in Nat,
         \/ HearHello(w, at) \/ HearEvent(w, at)
         \/ at # 0 /\ HearResync(w, at)
  PROVE  /\ mark' \in [Watchers -> Nat] /\ attached' \subseteq Consoles
         /\ shown' \in [Watchers -> Seq(Nat)] /\ excused' \in [Watchers -> SUBSET Nat]
<1>1. CASE HearHello(w, at)
  <2>1. AttachFrom(at) \in Nat
    <3>1. at - TailLength \in Int
      BY BoundTypes
    <3>2. \E z \in {0, at - TailLength} : \A y \in {0, at - TailLength} : z >= y
      BY <3>1, 0 >= at - TailLength \/ at - TailLength >= 0
    <3>3. Max({0, at - TailLength}) \in {0, at - TailLength} /\ Max({0, at - TailLength}) >= 0
      BY <3>2 DEF Max
    <3> QED BY <3>1, <3>3 DEF AttachFrom
  <2>2. 1 .. AttachFrom(at) \in SUBSET Nat
    BY <2>1
  <2>3. CASE w \in Consoles \ attached
    <3>1. /\ mark' = [mark EXCEPT ![w] = AttachFrom(at)] /\ attached' = attached \cup {w}
          /\ excused' = [excused EXCEPT ![w] = @ \cup 1 .. AttachFrom(at)] /\ shown' = shown
      BY <1>1, <2>3 DEF HearHello
    <3> QED BY <2>1, <2>2, <2>3, <3>1 DEF StreamTyped
  <2>4. CASE w \notin Consoles \ attached
    BY <1>1, <2>4 DEF HearHello, StreamTyped
  <2> QED BY <2>3, <2>4
<1>2. CASE HearEvent(w, at)
  <2>1. Append(shown[w], at) \in Seq(Nat)
    BY AppendProperties DEF StreamTyped
  <2> QED BY <1>2, <2>1 DEF HearEvent, StreamTyped
<1>3. CASE at # 0 /\ HearResync(w, at)
  <2>1. at - 1 \in Nat /\ 1 .. at - 1 \in SUBSET Nat
    BY <1>3
  <2>2. CASE w \in Consoles
    <3>1. /\ mark' = [mark EXCEPT ![w] = at - 1]
          /\ excused' = [excused EXCEPT ![w] = @ \cup 1 .. at - 1]
      BY <1>3, <2>2 DEF HearResync
    <3>2. mark' \in [Watchers -> Nat]
      BY <2>1, <3>1 DEF StreamTyped
    <3>3. excused' \in [Watchers -> SUBSET Nat]
      BY <2>1, <3>1 DEF StreamTyped
    <3>4. attached' = attached /\ shown' = shown
      BY <1>3 DEF HearResync
    <3> QED BY <3>2, <3>3, <3>4 DEF StreamTyped
  <2>3. CASE w \notin Consoles
    BY <1>3, <2>3 DEF HearResync, StreamTyped
  <2> QED BY <2>2, <2>3
<1> QED BY <1>1, <1>2, <1>3

\* What the client has received is one of three.
LEMMA HearsOne ==
  ASSUME StreamTyped, NEW w \in Watchers, Receive(w)
  PROVE  /\ wire[w] # <<>> /\ wire' = [wire EXCEPT ![w] = Tail(wire[w])]
         /\ Head(wire[w]) \in Frames /\ Head(wire[w]).at \in Nat
         /\ \/ Head(wire[w]).kind = "hello" /\ HearHello(w, Head(wire[w]).at)
            \/ Head(wire[w]).kind = "event" /\ HearEvent(w, Head(wire[w]).at)
            \/ /\ Head(wire[w]).kind = "resync" /\ Head(wire[w]).at # 0
               /\ HearResync(w, Head(wire[w]).at)
         /\ UNCHANGED logVars /\ UNCHANGED hubVars
         /\ UNCHANGED <<stage, cursor, floor, batch, overtaken, breaks>>
<1>1. wire[w] # <<>> /\ wire' = [wire EXCEPT ![w] = Tail(wire[w])]
  BY DEF Receive
<1>2. Head(wire[w]) \in Frames
  BY <1>1, ReceiveTypes
<1>3. Head(wire[w]).at \in Nat /\ (Head(wire[w]).kind = "resync" => Head(wire[w]).at # 0)
  BY <1>2 DEF Frames
<1> QED BY <1>1, <1>2, <1>3 DEF Receive

LEMMA ReceiveStreams ==
  ASSUME StreamInv, NEW w \in Watchers, Receive(w)
  PROVE  StreamInv'
<1> StreamTyped
  BY DEF StreamInv
<1>1. /\ UNCHANGED logVars /\ UNCHANGED hubVars
      /\ UNCHANGED <<stage, cursor, floor, batch, overtaken, breaks>>
  BY HearsOne
<1>2. wire' \in [Watchers -> Seq(Frames)]
  BY HearsOne, ReceiveTypes
<1>3. /\ mark' \in [Watchers -> Nat] /\ attached' \subseteq Consoles
      /\ shown' \in [Watchers -> Seq(Nat)] /\ excused' \in [Watchers -> SUBSET Nat]
  BY HearsOne, HearTypes
<1>4. StreamTyped' /\ StreamsAgree'
  BY <1>1, <1>2, <1>3 DEF StreamInv, StreamTyped, StreamsAgree, hubVars
<1>5. \A v \in Watchers : Told(v) => Told(v)'
  BY <1>1 DEF Told, Concerns, hubVars
<1>6. NoWakeupLost'
  BY <1>1, <1>5, WakeupsToldOf DEF StreamInv, Unread, Kept, AllKept, logVars
<1> QED BY <1>4, <1>6 DEF StreamInv

\* What ends a stream, or all of them.
Ends(W) ==
  /\ W \in SUBSET Watchers /\ Dropped(W) /\ breaks' \in 0 .. MaxBreaks
  /\ unpublished' = unpublished \/ (W = Watchers /\ unpublished' = [s \in Sessions |-> 0])

LEMMA EndsOnce ==
  /\ \A w \in Watchers : StreamTyped /\ (End(w) \/ Break(w)) => Ends({w})
  /\ StreamTyped /\ Crash => Ends(Watchers)
<1>1. StreamTyped /\ breaks < MaxBreaks => breaks + 1 \in 0 .. MaxBreaks
  BY BoundTypes DEF StreamTyped
<1> QED BY <1>1 DEF Ends, End, Break, Crash, StreamTyped

LEMMA EndStreams ==
  ASSUME StreamInv, NEW W \in SUBSET Watchers, Ends(W)
  PROVE  StreamInv'
<1> StreamTyped
  BY DEF StreamInv
<1>1. Dropped(W) /\ breaks' \in 0 .. MaxBreaks
  BY DEF Ends
<1>2. unpublished' = unpublished \/ (W = Watchers /\ unpublished' = [s \in Sessions |-> 0])
  BY DEF Ends
<1>3. unpublished' \in [Sessions -> Nat]
  BY <1>2 DEF StreamTyped
<1>4. StreamTyped'
  <2>1. /\ stage' \in [Watchers -> Stages] /\ batch' \in [Watchers -> SUBSET Nat]
        /\ wire' \in [Watchers -> Seq(Frames)] /\ waking' \in [Watchers -> Nat]
        /\ armed' \subseteq Watchers /\ floor' \in [Watchers -> Nat]
    BY <1>1, DroppedTypes
  <2>2. /\ cursor' = cursor /\ mark' = mark /\ attached' = attached /\ shown' = shown
        /\ excused' = excused /\ overtaken' = overtaken
    BY <1>1, DroppedTypes
  <2> HIDE <1>2
  <2> QED BY <1>1, <1>3, <2>1, <2>2 DEF StreamTyped
<1>5. \A w \in Watchers \ W :
        /\ stage'[w] = stage[w] /\ batch'[w] = batch[w] /\ waking'[w] = waking[w]
        /\ (w \in armed' <=> w \in armed)
  BY <1>1, DroppedTypes
<1>6. \A w \in W : /\ stage'[w] = "away" /\ batch'[w] = {} /\ waking'[w] = 0 /\ w \notin armed'
  BY <1>1, DroppedTypes
<1>7. StreamsAgree'
  BY <1>5, <1>6 DEF StreamInv, StreamsAgree
<1>8. NoWakeupLost'
  <2> SUFFICES ASSUME NEW w \in Watchers, stage'[w] \in {"drained", "asleep"}, Unread(w)' # {}
               PROVE  Told(w)'
    BY WakeupsToldOf
  <2>1. w \notin W /\ unpublished' = unpublished
    BY <1>2, <1>6
  <2>2. log' = log /\ cursor' = cursor
    BY <1>1, DroppedTypes
  <2>3. Unread(w)' = Unread(w)
    BY <2>2 DEF Unread, Kept, AllKept
  <2>4. Told(w)
    BY <1>5, <2>1, <2>3, WakeupsToldOf DEF StreamInv
  <2> QED BY <1>5, <2>1, <2>4 DEF Told, Concerns
<1> QED BY <1>4, <1>7, <1>8 DEF StreamInv
------------------------------------------------------------------------------
(* What a console is shown.                                                 *)

Unopened == {"away", "joined"}
Reading == {"reading", "drained", "asleep"}

\* Frames arrive in order: the hello first, the events by position, the resync last.
FramesInOrder(w) ==
  /\ \A k \in DOMAIN wire[w] :
       /\ wire[w][k].kind = "event" => wire[w][k].at <= cursor[w]
       /\ wire[w][k].kind = "resync" => stage[w] = "over" /\ cursor[w] < wire[w][k].at
       /\ wire[w][k].kind = "hello" => k = 1
  /\ \A k, l \in DOMAIN wire[w] :
       k < l /\ wire[w][k].kind = "event" /\ wire[w][l].kind = "event" =>
         wire[w][k].at < wire[w][l].at
  /\ stage[w] \in Unopened => wire[w] = <<>>
  /\ w \notin attached =>
       /\ mark[w] = 0
       /\ stage[w] \notin Unopened => wire[w] # <<>> /\ wire[w][1].kind = "hello"

\* A batch is what comes next: no row that is kept lies between the cursor and its end.
BatchIsNext(w) ==
  \A p \in batch[w] :
    /\ p > cursor[w] /\ p \in DOMAIN history
    /\ \A q \in DOMAIN history : q > cursor[w] /\ q < p /\ Stands(q) => q \in batch[w]

OnTheWire(w, p) == \E k \in DOMAIN wire[w] : wire[w][k].kind = "event" /\ wire[w][k].at = p

\* Up to its mark the console was shown everything or told that it was not; up to the
\* cursor the rest is on the wire; and what it will not find beyond, it knows of.
Accounted(w) ==
  /\ MissesNothing(w)
  /\ stage[w] # "away" =>
       \A p \in Nat \ {0} : p <= cursor[w] => p <= mark[w] \/ p \in Unshown(w) \/ OnTheWire(w, p)
  /\ PastTelling(w) =>
       \A p \in DOMAIN history :
         p > cursor[w] /\ ~ Stands(p) /\ p \notin batch[w] => p \in Unshown(w) \/ p <= mark[w]

ConsoleInv(w) == FramesInOrder(w) /\ BatchIsNext(w) /\ Accounted(w)

ConsolesInv == \A w \in Consoles : ConsoleInv(w)

Untouched(w) ==
  /\ stage'[w] = stage[w] /\ cursor'[w] = cursor[w] /\ floor'[w] = floor[w]
  /\ batch'[w] = batch[w] /\ wire'[w] = wire[w] /\ mark'[w] = mark[w] /\ shown'[w] = shown[w]
  /\ excused'[w] = excused[w] /\ (w \in attached' <=> w \in attached)

LEMMA ConsoleStays ==
  ASSUME NEW w \in Consoles, ConsoleInv(w), Untouched(w), history' = history,
         \A p : Stands(p)' <=> Stands(p), overtaken[w] \subseteq overtaken'[w]
  PROVE  ConsoleInv(w)'
<1>1. FramesInOrder(w)'
  BY DEF ConsoleInv, FramesInOrder, Untouched
<1>2. BatchIsNext(w)'
  BY DEF ConsoleInv, BatchIsNext, Untouched
<1>3. Accounted(w)'
  <2> Accounted(w)
    BY DEF ConsoleInv
  <2>1. MissesNothing(w)'
    BY DEF Accounted, MissesNothing, Unshown, Untouched
  <2>2. \A p : OnTheWire(w, p)' <=> OnTheWire(w, p)
    BY DEF OnTheWire, Untouched
  <2> QED BY <2>1, <2>2 DEF Accounted, Unshown, PastTelling, Untouched
<1> QED BY <1>1, <1>2, <1>3 DEF ConsoleInv

LEMMA AppendConsoles ==
  ASSUME LogInv, StreamInv, ConsolesInv, NEW s \in Sessions, NEW kind \in {"plain", "fold"},
         NEW through \in Nat, AppendEvent(s, kind, through)
  PROVE  ConsolesInv'
<1> SUFFICES ASSUME NEW w \in Consoles PROVE ConsoleInv(w)'
  BY DEF ConsolesInv
<1>1. Untouched(w) /\ overtaken' = overtaken
  BY DEF AppendEvent, Untouched, streamVars, clientVars
<1>2. ConsoleInv(w)
  BY DEF ConsolesInv
<1>3. /\ Len(history) \in Nat /\ DOMAIN history = 1 .. Len(history)
      /\ DOMAIN history' = 1 .. (Len(history) + 1)
  BY AppendLog, LogTypes, LenProperties DEF LogInv, RowsTyped
<1>4. \A p : Stands(p)' <=> Stands(p) \/ p = Len(history) + 1
  BY AppendLog
<1>5. \A p \in DOMAIN history' : p \in DOMAIN history \/ p = Len(history) + 1
  BY <1>3
<1>6. FramesInOrder(w)'
  BY <1>1, <1>2 DEF ConsoleInv, FramesInOrder, Untouched
<1>7. BatchIsNext(w)'
  <2> SUFFICES ASSUME NEW p \in batch[w]
               PROVE  /\ p > cursor[w] /\ p \in DOMAIN history'
                      /\ \A q \in DOMAIN history' :
                           q > cursor[w] /\ q < p /\ Stands(q)' => q \in batch[w]
    BY <1>1 DEF BatchIsNext, Untouched
  <2>1. /\ p > cursor[w] /\ p \in DOMAIN history
        /\ \A q \in DOMAIN history : q > cursor[w] /\ q < p /\ Stands(q) => q \in batch[w]
    BY <1>2 DEF ConsoleInv, BatchIsNext
  <2>2. p \in Nat /\ p < Len(history) + 1 /\ p \in DOMAIN history'
    BY <1>3, <2>1
  <2>3. \A q \in DOMAIN history' : q < p => q \in DOMAIN history /\ (Stands(q)' <=> Stands(q))
    <3> SUFFICES ASSUME NEW q \in DOMAIN history', q < p
                 PROVE  q \in DOMAIN history /\ (Stands(q)' <=> Stands(q))
      OBVIOUS
    <3>1. q # Len(history) + 1
      BY <1>3, <2>2
    <3> QED BY <1>4, <1>5, <3>1
  <2> QED BY <2>1, <2>2, <2>3
<1>8. Accounted(w)'
  <2> Accounted(w)
    BY <1>2 DEF ConsoleInv
  <2>1. MissesNothing(w)'
    BY <1>1 DEF Accounted, MissesNothing, Unshown, Untouched
  <2>2. \A p : OnTheWire(w, p)' <=> OnTheWire(w, p)
    BY <1>1 DEF OnTheWire, Untouched
  <2>3. \A p \in DOMAIN history' : ~ Stands(p)' => p \in DOMAIN history /\ ~ Stands(p)
    BY <1>4, <1>5
  <2> QED BY <1>1, <2>1, <2>2, <2>3 DEF Accounted, Unshown, PastTelling, Untouched
<1> QED BY <1>6, <1>7, <1>8 DEF ConsoleInv

\* What a prune takes from ahead of an open stream is counted against it.
LEMMA PruneConsoles ==
  ASSUME LogInv, StreamInv, ConsolesInv, NEW s \in Sessions, Prune(s)
  PROVE  ConsolesInv'
<1> SUFFICES ASSUME NEW w \in Consoles PROVE ConsoleInv(w)'
  BY DEF ConsolesInv
<1>1. /\ Untouched(w) /\ history' = history
      /\ overtaken'[w] = IF PastTelling(w)
           THEN overtaken[w] \cup {p \in (Kept(w) \ Kept(w)') \ batch[w] : p > cursor[w]}
           ELSE overtaken[w]
  BY SomebodyWatches DEF Prune, Untouched, streamVars, clientVars
<1>2. ConsoleInv(w)
  BY DEF ConsolesInv
<1>3. \A p : Stands(p)' => Stands(p)
  BY PruneLog
<1>4. FramesInOrder(w)' /\ BatchIsNext(w)'
  BY <1>1, <1>2, <1>3 DEF ConsoleInv, FramesInOrder, BatchIsNext, Untouched
<1>5. Accounted(w)'
  <2>1. Accounted(w)
    BY <1>2 DEF ConsoleInv
  <2>2. Unshown(w) \subseteq Unshown(w)'
    BY <1>1 DEF Unshown, Untouched
  <2>3. MissesNothing(w)'
    BY <1>1, <2>1, <2>2 DEF Accounted, MissesNothing, Untouched
  <2>4. \A p : OnTheWire(w, p)' <=> OnTheWire(w, p)
    BY <1>1 DEF OnTheWire, Untouched
  <2>5. PastTelling(w)' <=> PastTelling(w)
    BY <1>1 DEF PastTelling, Untouched
  <2>6. PastTelling(w) =>
          \A p : Stands(p) /\ ~ Stands(p)' /\ p > cursor[w] => p \in batch[w] \/ p \in Unshown(w)'
    <3> SUFFICES ASSUME PastTelling(w), NEW p, Stands(p), ~ Stands(p)', p > cursor[w],
                        p \notin batch[w]
                 PROVE  p \in overtaken'[w]
      BY DEF Unshown
    <3>1. p \in (Kept(w) \ Kept(w)') \ batch[w]
      BY KeptStand DEF Kept
    <3> QED BY <1>1, <3>1
  <2>7. \A p \in Nat \ {0} : p <= cursor'[w] =>
          p <= mark'[w] \/ p \in Unshown(w)' \/ OnTheWire(w, p)' \/ stage'[w] = "away"
    BY <1>1, <2>1, <2>2, <2>4 DEF Accounted, Untouched
  <2>8. PastTelling(w)' =>
          \A p \in DOMAIN history' : p > cursor'[w] /\ ~ Stands(p)' /\ p \notin batch'[w] =>
            p \in Unshown(w)' \/ p <= mark'[w]
    BY <1>1, <2>1, <2>2, <2>5, <2>6 DEF Accounted, Untouched
  <2> QED BY <2>3, <2>7, <2>8 DEF Accounted
<1> QED BY <1>4, <1>5 DEF ConsoleInv

\* A step of one stream is looked at on its own.
LEMMA LocalConsoles ==
  ASSUME ConsolesInv, NEW w \in Watchers, UNCHANGED logVars, overtaken' = overtaken,
         \A v \in Consoles : v # w => Untouched(v),
         w \in Consoles => ConsoleInv(w)'
  PROVE  ConsolesInv'
<1>1. \A p : Stands(p)' <=> Stands(p)
  BY DEF Stands, logVars
<1>2. history' = history
  BY DEF logVars
<1>3. \A v \in Consoles : v # w => ConsoleInv(v)'
  BY <1>1, <1>2, ConsoleStays DEF ConsolesInv
<1> QED BY <1>3 DEF ConsolesInv

LEMMA SameLog ==
  ASSUME UNCHANGED logVars
  PROVE  /\ \A p : Stands(p)' <=> Stands(p)
         /\ history' = history /\ watermark' = watermark
BY DEF Stands, logVars

LEMMA JoinConsoles ==
  ASSUME StreamInv, ConsolesInv, NEW w \in Watchers, Join(w)
  PROVE  ConsolesInv'
<1>1. /\ UNCHANGED logVars /\ overtaken' = overtaken /\ wire' = wire /\ batch' = batch
      /\ floor' = floor /\ stage[w] = "away" /\ stage'[w] = "joined" /\ cursor'[w] = mark[w]
      /\ mark' = mark /\ attached' = attached /\ shown' = shown /\ excused' = excused
      /\ \A v \in Watchers : v # w => stage'[v] = stage[v] /\ cursor'[v] = cursor[v]
  BY DEF Join, StreamInv, StreamTyped, clientVars
<1>2. \A v \in Consoles : v # w => Untouched(v)
  BY <1>1, SomebodyWatches DEF Untouched
<1>3. ASSUME w \in Consoles PROVE ConsoleInv(w)'
  <2>1. ConsoleInv(w)
    BY <1>3 DEF ConsolesInv
  <2>2. wire[w] = <<>> /\ batch[w] = {}
    BY <1>1, <2>1 DEF ConsoleInv, FramesInOrder, Unopened, StreamInv, StreamsAgree
  <2>3. FramesInOrder(w)' /\ BatchIsNext(w)'
    BY <1>1, <2>1, <2>2 DEF ConsoleInv, FramesInOrder, BatchIsNext, Unopened
  <2>4. Accounted(w)'
    BY <1>1, <2>1 DEF ConsoleInv, Accounted, MissesNothing, Unshown, PastTelling
  <2> QED BY <1>1, <2>3, <2>4 DEF ConsoleInv
<1> QED BY <1>1, <1>2, <1>3, LocalConsoles

LEMMA GreetConsoles ==
  ASSUME LogInv, StreamInv, ConsolesInv, NEW w \in Watchers, Greet(w)
  PROVE  ConsolesInv'
<1> DEFINE frame == Frame("hello", LogHead)
<1>1. /\ UNCHANGED logVars /\ overtaken' = overtaken /\ batch' = batch /\ cursor' = cursor
      /\ stage[w] = "joined" /\ stage'[w] = "greeted"
      /\ mark' = mark /\ attached' = attached /\ shown' = shown /\ excused' = excused
      /\ \A v \in Watchers : v # w => stage'[v] = stage[v] /\ floor'[v] = floor[v]
      /\ w \in Consoles => floor'[w] = watermark
  BY DEF Greet, StreamInv, StreamTyped, clientVars
<1>2. frame \in Frames /\ frame.kind = "hello" /\ Send(w, frame)
  BY HelloTypes DEF Greet, Frame, StreamInv
<1> HIDE DEF frame
<1>3. /\ \A v \in Watchers : v # w => wire'[v] = wire[v]
      /\ DOMAIN wire'[w] = 1 .. (Len(wire[w]) + 1) /\ wire'[w] # <<>>
      /\ wire'[w][Len(wire[w]) + 1] = frame
  BY <1>2, SendTypes DEF StreamInv
<1>4. \A v \in Consoles : v # w => Untouched(v)
  BY <1>1, <1>3, SomebodyWatches DEF Untouched
<1>5. ASSUME w \in Consoles PROVE ConsoleInv(w)'
  <2>1. ConsoleInv(w)
    BY <1>5 DEF ConsolesInv
  <2>2. wire[w] = <<>> /\ batch[w] = {}
    BY <1>1, <2>1 DEF ConsoleInv, FramesInOrder, Unopened, StreamInv, StreamsAgree
  <2>3. \A k \in DOMAIN wire'[w] : k = 1 /\ wire'[w][k].kind = "hello"
    BY <1>2, <1>3, <2>2
  <2>4. wire'[w][1].kind = "hello"
    BY <1>2, <1>3, <2>2
  <2>5. FramesInOrder(w)' /\ BatchIsNext(w)'
    BY <1>1, <1>3, <2>1, <2>2, <2>3, <2>4 DEF ConsoleInv, FramesInOrder, BatchIsNext, Unopened
  <2>6. \A p : ~ OnTheWire(w, p)
    BY <2>2 DEF OnTheWire
  <2>7. Accounted(w)'
    <3>1. Accounted(w)
      BY <2>1 DEF ConsoleInv
    <3>2. Unshown(w)' = Unshown(w)
      BY <1>1 DEF Unshown
    <3>3. MissesNothing(w)'
      BY <1>1, <3>1, <3>2 DEF Accounted, MissesNothing
    <3>4. \A p \in Nat \ {0} : p <= cursor[w] => p <= mark[w] \/ p \in Unshown(w)
      BY <1>1, <2>6, <3>1 DEF Accounted
    <3>5. PastTelling(w)' => \A p \in DOMAIN history : p > cursor[w] => Stands(p)
      <4> SUFFICES ASSUME PastTelling(w)', NEW p \in DOMAIN history, p > cursor[w]
                   PROVE  Stands(p)
        OBVIOUS
      <4>1. cursor[w] >= watermark
        BY <1>1, <1>5 DEF PastTelling
      <4>2. p \in Nat /\ watermark \in Nat /\ cursor[w] \in Nat
        BY LogTypes DEF LogInv, RowsTyped, StreamInv, StreamTyped
      <4>3. Stands(p) \/ p <= watermark
        BY DEF LogInv, GoneIsMarked
      <4> QED BY <4>1, <4>2, <4>3
    <3>6. \A p : Stands(p)' <=> Stands(p)
      BY <1>1, SameLog
    <3>7. history' = history
      BY <1>1, SameLog
    <3> QED BY <1>1, <3>2, <3>3, <3>4, <3>5, <3>6, <3>7 DEF Accounted
  <2> QED BY <1>1, <2>5, <2>7 DEF ConsoleInv
<1> QED BY <1>1, <1>4, <1>5, LocalConsoles

LEMMA ResyncConsoles ==
  ASSUME LogInv, StreamInv, ConsolesInv, NEW w \in Watchers, Resync(w)
  PROVE  ConsolesInv'
<1> DEFINE frame == Frame("resync", OldestTold(w))
<1>1. /\ UNCHANGED logVars /\ overtaken' = overtaken /\ batch' = batch /\ cursor' = cursor
      /\ floor' = floor
      /\ stage[w] = "greeted" /\ stage'[w] = "over" /\ Behind(w)
      /\ mark' = mark /\ attached' = attached /\ shown' = shown /\ excused' = excused
      /\ \A v \in Watchers : v # w => stage'[v] = stage[v]
  BY DEF Resync, StreamInv, StreamTyped, clientVars
<1>2. /\ frame \in Frames /\ frame.kind = "resync" /\ Send(w, frame)
      /\ w \in Consoles => frame.at = floor[w] + 1
  BY <1>1, HelloTypes DEF Resync, Frame, OldestTold, StreamInv
<1> HIDE DEF frame
<1>3. /\ \A v \in Watchers : v # w => wire'[v] = wire[v]
      /\ Len(wire[w]) \in Nat /\ DOMAIN wire[w] = 1 .. Len(wire[w])
      /\ DOMAIN wire'[w] = 1 .. (Len(wire[w]) + 1) /\ wire'[w] # <<>>
      /\ \A k \in 1 .. Len(wire[w]) : wire'[w][k] = wire[w][k]
      /\ wire'[w][Len(wire[w]) + 1] = frame
  BY <1>2, SendTypes DEF StreamInv
<1>4. \A v \in Consoles : v # w => Untouched(v)
  BY <1>1, <1>3, SomebodyWatches DEF Untouched
<1>5. ASSUME w \in Consoles PROVE ConsoleInv(w)'
  <2>1. ConsoleInv(w)
    BY <1>5 DEF ConsolesInv
  <2>2. batch[w] = {}
    BY <1>1 DEF StreamInv, StreamsAgree
  <2>3. cursor[w] < frame.at
    <3>1. cursor[w] < floor[w] /\ floor[w] \in Nat /\ cursor[w] \in Nat
      BY <1>1, <1>5 DEF Behind, StreamInv, StreamTyped
    <3> QED BY <1>2, <1>5, <3>1
  <2>4. \A k \in DOMAIN wire'[w] :
          (k \in DOMAIN wire[w] /\ wire'[w][k] = wire[w][k]) \/ wire'[w][k] = frame
    BY <1>3
  <2>5. \A k \in DOMAIN wire'[w] :
          /\ wire'[w][k].kind = "event" => wire'[w][k].at <= cursor[w] /\ k \in DOMAIN wire[w]
                                             /\ wire'[w][k] = wire[w][k]
          /\ wire'[w][k].kind = "resync" => cursor[w] < wire'[w][k].at
          /\ wire'[w][k].kind = "hello" => k = 1
    BY <1>2, <2>1, <2>3, <2>4 DEF ConsoleInv, FramesInOrder
  <2>6. \A k, l \in DOMAIN wire'[w] :
          k < l /\ wire'[w][k].kind = "event" /\ wire'[w][l].kind = "event" =>
            wire'[w][k].at < wire'[w][l].at
    BY <2>1, <2>5 DEF ConsoleInv, FramesInOrder
  <2>7. w \notin attached => mark[w] = 0 /\ wire'[w][1].kind = "hello"
    <3>1. w \notin attached => mark[w] = 0 /\ wire[w] # <<>> /\ wire[w][1].kind = "hello"
      BY <1>1, <2>1 DEF ConsoleInv, FramesInOrder, Unopened
    <3>2. wire[w] # <<>> => 1 \in 1 .. Len(wire[w])
      BY <1>3, LenProperties, EmptySeq DEF StreamInv, StreamTyped
    <3> QED BY <1>3, <3>1, <3>2
  <2>8. FramesInOrder(w)' /\ BatchIsNext(w)'
    BY <1>1, <1>3, <2>2, <2>5, <2>6, <2>7 DEF FramesInOrder, BatchIsNext, Unopened
  <2>9. \A p : OnTheWire(w, p) => OnTheWire(w, p)'
    BY <1>3 DEF OnTheWire
  <2>10. Accounted(w)'
    BY <1>1, <2>1, <2>9 DEF ConsoleInv, Accounted, MissesNothing, Unshown, PastTelling
  <2> QED BY <1>1, <2>8, <2>10 DEF ConsoleInv
<1> QED BY <1>1, <1>4, <1>5, LocalConsoles

\* A console that resumes has lost nothing since the watermark was read that is not
\* counted; one that starts from nothing takes what is left.
LEMMA ResumeConsoles ==
  ASSUME LogInv, StreamInv, ConsolesInv, NEW w \in Watchers, Resume(w)
  PROVE  ConsolesInv'
<1>1. /\ UNCHANGED logVars /\ overtaken' = overtaken /\ batch' = batch /\ cursor' = cursor
      /\ floor' = floor
      /\ stage[w] = "greeted" /\ stage'[w] = "reading" /\ ~ Behind(w) /\ wire' = wire
      /\ mark' = mark /\ attached' = attached /\ shown' = shown
      /\ excused'[w] = IF cursor[w] = 0 THEN excused[w] \cup Gone(w) ELSE excused[w]
      /\ \A v \in Watchers : v # w => stage'[v] = stage[v] /\ excused'[v] = excused[v]
  BY DEF Resume, StreamInv, StreamTyped
<1>2. \A v \in Consoles : v # w => Untouched(v)
  BY <1>1, SomebodyWatches DEF Untouched
<1>3. ASSUME w \in Consoles PROVE ConsoleInv(w)'
  <2>1. ConsoleInv(w)
    BY <1>3 DEF ConsolesInv
  <2>2. batch[w] = {}
    BY <1>1 DEF StreamInv, StreamsAgree
  <2>3. FramesInOrder(w)' /\ BatchIsNext(w)'
    BY <1>1, <2>1, <2>2 DEF ConsoleInv, FramesInOrder, BatchIsNext, Unopened
  <2>4. Accounted(w)'
    <3>1. Accounted(w)
      BY <2>1 DEF ConsoleInv
    <3>2. Unshown(w) \subseteq Unshown(w)'
      BY <1>1 DEF Unshown
    <3>3. MissesNothing(w)'
      BY <1>1, <3>1, <3>2 DEF Accounted, MissesNothing
    <3>4. \A p : OnTheWire(w, p)' <=> OnTheWire(w, p)
      BY <1>1 DEF OnTheWire
    <3>5. \A p \in DOMAIN history :
            p > cursor[w] /\ ~ Stands(p) => p \in Unshown(w)' \/ p <= mark[w]
      <4> SUFFICES ASSUME NEW p \in DOMAIN history, p > cursor[w], ~ Stands(p)
                   PROVE  p \in Unshown(w)' \/ p <= mark[w]
        OBVIOUS
      <4>1. floor[w] \in Nat /\ cursor[w] \in Nat
        BY DEF StreamInv, StreamTyped
      <4>2. CASE cursor[w] = 0
        <5>1. p \in Gone(w)
          BY <1>3, KeptStand DEF Gone, Kept
        <5> QED BY <1>1, <4>2, <5>1 DEF Unshown
      <4>3. CASE cursor[w] # 0
        <5>1. PastTelling(w)
          BY <1>1, <1>3, <4>1, <4>3 DEF Behind, PastTelling
        <5> QED BY <2>2, <3>1, <3>2, <5>1 DEF Accounted
      <4> QED BY <4>2, <4>3
    <3>6. \A p : Stands(p)' <=> Stands(p)
      BY <1>1, SameLog
    <3>7. DOMAIN history' = DOMAIN history
      BY <1>1, SameLog
    <3> QED BY <1>1, <3>1, <3>2, <3>3, <3>4, <3>5, <3>6, <3>7 DEF Accounted
  <2> QED BY <1>1, <2>3, <2>4 DEF ConsoleInv
<1> QED BY <1>1, <1>2, <1>3, LocalConsoles

\* The rows of a batch are the first there are after the cursor.
LEMMA BatchIsPrefix ==
  ASSUME NEW N \in Nat, NEW S \in SUBSET (1 .. N), NEW p \in S, NEW q \in S, q < p,
         Cardinality({r \in S : r <= p}) <= BatchSize
  PROVE  Cardinality({r \in S : r <= q}) <= BatchSize
<1> DEFINE P == {r \in S : r <= p}
           Q == {r \in S : r <= q}
<1>1. IsFiniteSet(1 .. N)
  BY FS_Interval
<1>2. P \in SUBSET (1 .. N)
  OBVIOUS
<1>3. IsFiniteSet(P)
  <2> HIDE DEF P
  <2> QED BY <1>1, <1>2, FS_Subset
<1>4. Q \in SUBSET P
  <2> SUFFICES ASSUME NEW r \in S, r <= q PROVE r <= p
    OBVIOUS
  <2>1. r \in Nat /\ p \in Nat /\ q \in Nat
    OBVIOUS
  <2> QED BY <2>1
<1>5. Cardinality(Q) <= Cardinality(P) /\ Cardinality(Q) \in Nat /\ Cardinality(P) \in Nat
  <2> HIDE DEF P, Q
  <2>1. IsFiniteSet(Q) /\ Cardinality(Q) <= Cardinality(P)
    BY <1>3, <1>4, FS_Subset
  <2> QED BY <1>3, <2>1, FS_CardinalityType
<1>6. Cardinality(P) <= BatchSize
  OBVIOUS
<1>7. Cardinality(Q) <= BatchSize
  <2> HIDE DEF P, Q
  <2> QED BY <1>5, <1>6, BoundTypes
<1> QED BY <1>7

LEMMA ReadConsoles ==
  ASSUME LogInv, StreamInv, ConsolesInv, NEW w \in Watchers, ReadBatch(w)
  PROVE  ConsolesInv'
<1>1. /\ UNCHANGED logVars /\ overtaken' = overtaken /\ cursor' = cursor /\ wire' = wire
      /\ stage' = stage /\ floor' = floor /\ stage[w] = "reading" /\ batch[w] = {}
      /\ mark' = mark /\ attached' = attached /\ shown' = shown /\ excused' = excused
      /\ batch'[w] = {p \in Unread(w) : Cardinality({q \in Unread(w) : q <= p}) <= BatchSize}
      /\ \A v \in Watchers : v # w => batch'[v] = batch[v]
  BY DEF ReadBatch, StreamInv, StreamTyped, clientVars
<1>2. \A v \in Consoles : v # w => Untouched(v)
  BY <1>1, SomebodyWatches DEF Untouched
<1>3. ASSUME w \in Consoles PROVE ConsoleInv(w)'
  <2>1. ConsoleInv(w)
    BY <1>3 DEF ConsolesInv
  <2>2. FramesInOrder(w)'
    BY <1>1, <2>1 DEF ConsoleInv, FramesInOrder
  <2>3. /\ Len(history) \in Nat /\ DOMAIN history = 1 .. Len(history)
        /\ Unread(w) \in SUBSET (1 .. Len(history))
    BY KeptTypes, LogTypes DEF Unread
  <2>4. \A p \in DOMAIN history : p > cursor[w] /\ Stands(p) => p \in Unread(w)
    BY <1>3, KeptStand DEF Unread, Kept
  <2>5. \A p : Stands(p)' <=> Stands(p)
    BY <1>1, SameLog
  <2>6. history' = history
    BY <1>1, SameLog
  <2>7. BatchIsNext(w)'
    <3> SUFFICES ASSUME NEW p \in batch'[w]
                 PROVE  /\ p > cursor[w] /\ p \in DOMAIN history
                        /\ \A q \in DOMAIN history :
                             q > cursor[w] /\ q < p /\ Stands(q) => q \in batch'[w]
      BY <1>1, <2>5, <2>6 DEF BatchIsNext
    <3>1. p \in Unread(w) /\ Cardinality({r \in Unread(w) : r <= p}) <= BatchSize
      BY <1>1
    <3>2. p > cursor[w] /\ p \in DOMAIN history
      BY <2>3, <3>1 DEF Unread
    <3>3. ASSUME NEW q \in DOMAIN history, q > cursor[w], q < p, Stands(q)
          PROVE  q \in batch'[w]
      <4>1. q \in Unread(w)
        BY <2>4, <3>3
      <4>2. Cardinality({r \in Unread(w) : r <= q}) <= BatchSize
        BY <2>3, <3>1, <3>3, <4>1, BatchIsPrefix
      <4> QED BY <1>1, <4>1, <4>2
    <3> QED BY <3>2, <3>3
  <2>8. Accounted(w)'
    <3>1. Accounted(w)
      BY <2>1 DEF ConsoleInv
    <3>2. MissesNothing(w)'
      BY <1>1, <3>1 DEF Accounted, MissesNothing, Unshown
    <3>3. \A p : OnTheWire(w, p)' <=> OnTheWire(w, p)
      BY <1>1 DEF OnTheWire
    <3> QED BY <1>1, <2>5, <2>6, <3>1, <3>2, <3>3 DEF Accounted, Unshown, PastTelling
  <2> QED BY <1>1, <2>2, <2>7, <2>8 DEF ConsoleInv
<1> QED BY <1>1, <1>2, <1>3, LocalConsoles

LEMMA SendConsoles ==
  ASSUME LogInv, StreamInv, ConsolesInv, NEW w \in Watchers, SendNext(w)
  PROVE  ConsolesInv'
<1> PICK next : next = Min(batch[w])
  OBVIOUS
<1> PICK frame : frame = Frame("event", next)
  OBVIOUS
<1>1. /\ UNCHANGED logVars /\ overtaken' = overtaken /\ stage' = stage /\ batch[w] # {}
      /\ floor' = floor
      /\ mark' = mark /\ attached' = attached /\ shown' = shown /\ excused' = excused
      /\ cursor'[w] = next /\ batch'[w] = batch[w] \ {next} /\ Send(w, frame)
      /\ \A v \in Watchers : v # w => batch'[v] = batch[v] /\ cursor'[v] = cursor[v]
  BY DEF SendNext, StreamInv, StreamTyped, clientVars
<1>2. /\ next \in batch[w] /\ next \in Nat /\ frame \in Frames
      /\ \A p \in batch[w] : p \in Nat /\ next <= p
      /\ frame.kind = "event" /\ frame.at = next
  BY <1>1, BatchTypes DEF StreamInv, Frame
<1>3. stage[w] = "reading"
  BY <1>1 DEF StreamInv, StreamsAgree
<1>4. /\ \A v \in Watchers : v # w => wire'[v] = wire[v]
      /\ Len(wire[w]) \in Nat /\ DOMAIN wire[w] = 1 .. Len(wire[w])
      /\ DOMAIN wire'[w] = 1 .. (Len(wire[w]) + 1) /\ wire'[w] # <<>>
      /\ \A k \in 1 .. Len(wire[w]) : wire'[w][k] = wire[w][k]
      /\ wire'[w][Len(wire[w]) + 1] = frame
  BY <1>1, <1>2, SendTypes DEF StreamInv
<1>5. \A v \in Consoles : v # w => Untouched(v)
  BY <1>1, <1>4, SomebodyWatches DEF Untouched
<1>6. ASSUME w \in Consoles PROVE ConsoleInv(w)'
  <2>1. ConsoleInv(w)
    BY <1>6 DEF ConsolesInv
  <2>2. /\ cursor[w] \in Nat /\ cursor[w] < next /\ next \in DOMAIN history
        /\ \A q \in DOMAIN history : q > cursor[w] /\ q < next /\ Stands(q) => q \in batch[w]
    BY <1>2, <2>1 DEF ConsoleInv, BatchIsNext, StreamInv, StreamTyped
  <2>3. DOMAIN history = 1 .. Len(history) /\ Len(history) \in Nat
    BY LogTypes
  <2>4. \A p : Stands(p)' <=> Stands(p)
    BY <1>1, SameLog
  <2>5. history' = history
    BY <1>1, SameLog
  <2>6. \A k \in DOMAIN wire[w] : wire[w][k].at \in Nat /\ wire[w][k].kind # "resync"
    <3>1. \A k \in 1 .. Len(wire[w]) : wire[w][k] \in Frames
      BY ElementOfSeq DEF StreamInv, StreamTyped
    <3> QED BY <1>3, <1>4, <2>1, <3>1 DEF ConsoleInv, FramesInOrder, Frames
  <2>7. \A k \in DOMAIN wire'[w] :
          \/ k \in DOMAIN wire[w] /\ wire'[w][k] = wire[w][k]
          \/ k = Len(wire[w]) + 1 /\ wire'[w][k] = frame
    BY <1>4
  <2>8. \A k \in DOMAIN wire'[w] :
          /\ wire'[w][k].kind = "event" => wire'[w][k].at <= next
          /\ wire'[w][k].kind # "resync"
          /\ wire'[w][k].kind = "hello" => k = 1
    <3> SUFFICES ASSUME NEW k \in DOMAIN wire'[w]
                 PROVE  /\ wire'[w][k].kind = "event" => wire'[w][k].at <= next
                        /\ wire'[w][k].kind # "resync"
                        /\ wire'[w][k].kind = "hello" => k = 1
      OBVIOUS
    <3>1. CASE k \in DOMAIN wire[w] /\ wire'[w][k] = wire[w][k]
      BY <1>2, <2>1, <2>2, <2>6, <3>1 DEF ConsoleInv, FramesInOrder
    <3>2. CASE wire'[w][k] = frame
      BY <1>2, <3>2
    <3> QED BY <2>7, <3>1, <3>2
  <2>9. \A k, l \in DOMAIN wire'[w] :
          k < l /\ wire'[w][k].kind = "event" /\ wire'[w][l].kind = "event" =>
            wire'[w][k].at < wire'[w][l].at
    <3> SUFFICES ASSUME NEW k \in DOMAIN wire'[w], NEW l \in DOMAIN wire'[w], k < l,
                        wire'[w][k].kind = "event", wire'[w][l].kind = "event"
                 PROVE  wire'[w][k].at < wire'[w][l].at
      OBVIOUS
    <3>1. k \in DOMAIN wire[w] /\ wire'[w][k] = wire[w][k]
      BY <1>4
    <3>2. CASE l \in DOMAIN wire[w] /\ wire'[w][l] = wire[w][l]
      BY <2>1, <3>1, <3>2 DEF ConsoleInv, FramesInOrder
    <3>3. CASE wire'[w][l] = frame
      BY <1>2, <2>1, <2>2, <2>6, <3>1, <3>3 DEF ConsoleInv, FramesInOrder
    <3> QED BY <2>7, <3>2, <3>3
  <2>10. w \notin attached => mark[w] = 0 /\ wire'[w][1].kind = "hello"
    <3>1. w \notin attached => mark[w] = 0 /\ wire[w] # <<>> /\ wire[w][1].kind = "hello"
      BY <1>3, <2>1 DEF ConsoleInv, FramesInOrder, Unopened
    <3>2. wire[w] # <<>> => 1 \in 1 .. Len(wire[w])
      BY <1>4, LenProperties, EmptySeq DEF StreamInv, StreamTyped
    <3> QED BY <1>4, <3>1, <3>2
  <2>11. FramesInOrder(w)'
    BY <1>1, <1>3, <1>4, <2>8, <2>9, <2>10 DEF FramesInOrder, Unopened
  <2>12. BatchIsNext(w)'
    <3> SUFFICES ASSUME NEW p \in batch[w], p # next
                 PROVE  /\ p > next /\ p \in DOMAIN history
                        /\ \A q \in DOMAIN history :
                             q > next /\ q < p /\ Stands(q) => q \in batch[w] \ {next}
      BY <1>1, <2>4, <2>5 DEF BatchIsNext
    <3>1. p > next
      BY <1>2
    <3>2. /\ p \in DOMAIN history
          /\ \A q \in DOMAIN history : q > cursor[w] /\ q < p /\ Stands(q) => q \in batch[w]
      BY <2>1 DEF ConsoleInv, BatchIsNext
    <3>3. \A q \in DOMAIN history : q > next => q > cursor[w] /\ q # next
      BY <1>2, <2>2, <2>3
    <3> QED BY <3>1, <3>2, <3>3
  <2>13. Accounted(w)'
    <3>1. Accounted(w)
      BY <2>1 DEF ConsoleInv
    <3>2. MissesNothing(w)'
      BY <1>1, <3>1 DEF Accounted, MissesNothing, Unshown
    <3>3. \A p : OnTheWire(w, p) => OnTheWire(w, p)'
      BY <1>4 DEF OnTheWire
    <3>4. \A p : p = next => OnTheWire(w, p)'
      <4>1. Len(wire[w]) + 1 \in DOMAIN wire'[w]
        BY <1>4
      <4> QED BY <1>2, <1>4, <4>1 DEF OnTheWire
    <3>5. \A p \in DOMAIN history : p > cursor[w] /\ ~ Stands(p) /\ p \notin batch[w] =>
            p \in Unshown(w) \/ p <= mark[w]
      BY <1>3, <3>1 DEF Accounted, PastTelling
    <3>6. ASSUME NEW p \in Nat \ {0}, p <= next
          PROVE  p <= mark[w] \/ p \in Unshown(w) \/ OnTheWire(w, p)'
      <4>1. CASE p <= cursor[w]
        BY <1>3, <3>1, <3>3, <4>1 DEF Accounted
      <4>2. CASE p = next
        BY <3>4, <4>2
      <4>3. CASE p > cursor[w] /\ p < next
        <5>1. p \in DOMAIN history /\ p \notin batch[w]
          BY <1>2, <2>2, <2>3, <4>3
        <5>2. ~ Stands(p)
          BY <2>2, <4>3, <5>1
        <5> QED BY <3>5, <4>3, <5>1, <5>2
      <4> QED BY <1>2, <2>2, <3>6, <4>1, <4>2, <4>3
    <3>7. \A p \in DOMAIN history : p > next /\ ~ Stands(p) /\ p \notin batch[w] \ {next} =>
            p \in Unshown(w) \/ p <= mark[w]
      <4>1. \A p \in DOMAIN history : p > next => p > cursor[w] /\ p # next
        BY <1>2, <2>2, <2>3
      <4> QED BY <3>5, <4>1
    <3> QED BY <1>1, <2>4, <2>5, <3>2, <3>6, <3>7 DEF Accounted, Unshown
  <2> QED BY <1>1, <2>11, <2>12, <2>13 DEF ConsoleInv
<1> QED BY <1>1, <1>5, <1>6, LocalConsoles

LEMMA RestConsoles ==
  ASSUME StreamInv, ConsolesInv, NEW w \in Watchers, Rest(w) \/ Wait(w) \/ Wake(w)
  PROVE  ConsolesInv'
<1>1. /\ UNCHANGED logVars /\ overtaken' = overtaken /\ batch' = batch /\ cursor' = cursor
      /\ floor' = floor
      /\ wire' = wire /\ stage[w] \in Reading /\ stage'[w] \in Reading
      /\ mark' = mark /\ attached' = attached /\ shown' = shown /\ excused' = excused
      /\ \A v \in Watchers : v # w => stage'[v] = stage[v]
  BY DEF Rest, Wait, Wake, StreamInv, StreamTyped, clientVars, Reading
<1>2. \A v \in Consoles : v # w => Untouched(v)
  BY <1>1, SomebodyWatches DEF Untouched
<1>3. ASSUME w \in Consoles PROVE ConsoleInv(w)'
  <2>1. ConsoleInv(w)
    BY <1>3 DEF ConsolesInv
  <2>2. \A p : Stands(p)' <=> Stands(p)
    BY <1>1, SameLog
  <2>3. history' = history
    BY <1>1, SameLog
  <2>4. FramesInOrder(w)'
    BY <1>1, <2>1 DEF ConsoleInv, FramesInOrder, Unopened, Reading
  <2>5. BatchIsNext(w)'
    BY <1>1, <2>1, <2>2, <2>3 DEF ConsoleInv, BatchIsNext
  <2>6. Accounted(w)'
    <3>1. Accounted(w)
      BY <2>1 DEF ConsoleInv
    <3>2. MissesNothing(w)'
      BY <1>1, <3>1 DEF Accounted, MissesNothing, Unshown
    <3>3. \A p : OnTheWire(w, p)' <=> OnTheWire(w, p)
      BY <1>1 DEF OnTheWire
    <3>4. stage[w] # "away"
      BY <1>1 DEF Reading
    <3> QED BY <1>1, <2>2, <2>3, <3>1, <3>2, <3>3, <3>4 DEF Accounted, Unshown, PastTelling, Reading
  <2> QED BY <1>1, <2>4, <2>5, <2>6 DEF ConsoleInv
<1> QED BY <1>1, <1>2, <1>3, LocalConsoles

LEMMA EndConsoles ==
  ASSUME StreamInv, ConsolesInv, NEW W \in SUBSET Watchers, Ends(W)
  PROVE  ConsolesInv'
<1>1. Dropped(W) /\ StreamTyped
  BY DEF Ends, StreamInv
<1>2. /\ log' = log /\ history' = history /\ cursor' = cursor /\ mark' = mark
      /\ attached' = attached /\ shown' = shown /\ excused' = excused /\ overtaken' = overtaken
  BY <1>1, DroppedTypes
<1>3. \A p : Stands(p)' <=> Stands(p)
  BY <1>2 DEF Stands
<1> SUFFICES ASSUME NEW w \in Consoles PROVE ConsoleInv(w)'
  BY DEF ConsolesInv
<1>4. ConsoleInv(w)
  BY DEF ConsolesInv
<1>5. CASE w \in W
  <2>1. stage'[w] = "away" /\ batch'[w] = {} /\ wire'[w] = <<>>
    BY <1>1, <1>5, DroppedTypes
  <2>2. FramesInOrder(w)' /\ BatchIsNext(w)'
    BY <1>2, <1>4, <2>1 DEF ConsoleInv, FramesInOrder, BatchIsNext, Unopened
  <2>3. Accounted(w)'
    BY <1>2, <1>4, <2>1 DEF ConsoleInv, Accounted, MissesNothing, Unshown, PastTelling
  <2> QED BY <1>2, <2>2, <2>3 DEF ConsoleInv
<1>6. CASE w \notin W
  <2>1. Untouched(w)
    BY <1>1, <1>2, <1>6, DroppedTypes, SomebodyWatches DEF Untouched
  <2> QED BY <1>2, <1>3, <1>4, <2>1, ConsoleStays
<1> QED BY <1>5, <1>6

\* What a console hears moves its mark over what it was shown or told of.
LEMMA ReceiveConsoles ==
  ASSUME LogInv, StreamInv, ConsolesInv, NEW w \in Watchers, Receive(w)
  PROVE  ConsolesInv'
<1> StreamTyped
  BY DEF StreamInv
<1>1. /\ UNCHANGED logVars /\ overtaken' = overtaken /\ stage' = stage /\ batch' = batch
      /\ cursor' = cursor /\ floor' = floor /\ wire[w] # <<>>
  BY HearsOne
<1>2. /\ \A v \in Watchers : v # w => wire'[v] = wire[v]
      /\ Len(wire[w]) \in Nat \ {0} /\ DOMAIN wire[w] = 1 .. Len(wire[w])
      /\ DOMAIN wire'[w] = 1 .. (Len(wire[w]) - 1)
      /\ \A k \in DOMAIN wire'[w] : wire'[w][k] = wire[w][k + 1]
      /\ Head(wire[w]) = wire[w][1] /\ Head(wire[w]) \in Frames
  BY HearsOne, ReceiveTypes
<1> PICK frame : frame = wire[w][1]
  OBVIOUS
<1> PICK at : at = frame.at
  OBVIOUS
<1>3. /\ at \in Nat
      /\ \/ frame.kind = "hello" /\ HearHello(w, at)
         \/ frame.kind = "event" /\ HearEvent(w, at)
         \/ frame.kind = "resync" /\ at # 0 /\ HearResync(w, at)
  BY <1>2, HearsOne
<1>4. /\ mark \in [Watchers -> Nat] /\ shown \in [Watchers -> Seq(Nat)]
      /\ excused \in [Watchers -> SUBSET Nat]
  BY DEF StreamTyped
<1>5. \A v \in Consoles : v # w => Untouched(v)
  <2> SUFFICES ASSUME NEW v \in Consoles, v # w
               PROVE  /\ mark'[v] = mark[v] /\ shown'[v] = shown[v] /\ excused'[v] = excused[v]
                      /\ (v \in attached' <=> v \in attached)
    BY <1>1, <1>2, SomebodyWatches DEF Untouched
  <2>1. v \in Watchers
    BY SomebodyWatches
  <2> QED BY <1>3, <1>4, <2>1 DEF HearHello, HearEvent, HearResync
<1>6. ASSUME w \in Consoles PROVE ConsoleInv(w)'
  <2>1. ConsoleInv(w)
    BY <1>6 DEF ConsolesInv
  <2>2. stage[w] \notin Unopened
    BY <1>1, <2>1 DEF ConsoleInv, FramesInOrder
  <2>3. 1 \in DOMAIN wire[w] /\ \A k \in DOMAIN wire'[w] : k + 1 \in DOMAIN wire[w] /\ 1 < k + 1
    BY <1>2
  <2>4. w \notin attached => mark[w] = 0 /\ frame.kind = "hello"
    BY <2>1, <2>2 DEF ConsoleInv, FramesInOrder
  <2>5. \A p : Stands(p)' <=> Stands(p)
    BY <1>1, SameLog
  <2>6. history' = history
    BY <1>1, SameLog
  <2>7. w \in attached'
    BY <1>3, <1>6, <2>4 DEF HearHello, HearEvent, HearResync
  \* The rest of the frames.
  <2>8. \A k \in DOMAIN wire'[w] :
          /\ wire'[w][k].kind = "event" => wire'[w][k].at <= cursor[w]
          /\ wire'[w][k].kind = "resync" => stage[w] = "over" /\ cursor[w] < wire'[w][k].at
          /\ wire'[w][k].kind = "hello" => k = 1
    <3> SUFFICES ASSUME NEW k \in DOMAIN wire'[w]
                 PROVE  /\ wire'[w][k].kind = "event" => wire'[w][k].at <= cursor[w]
                        /\ wire'[w][k].kind = "resync" =>
                             stage[w] = "over" /\ cursor[w] < wire'[w][k].at
                        /\ wire'[w][k].kind # "hello"
      OBVIOUS
    <3>1. k + 1 \in DOMAIN wire[w] /\ k + 1 # 1 /\ wire'[w][k] = wire[w][k + 1]
      BY <1>2, <2>3
    <3> QED BY <2>1, <3>1 DEF ConsoleInv, FramesInOrder
  <2>9. \A k, l \in DOMAIN wire'[w] :
          k < l /\ wire'[w][k].kind = "event" /\ wire'[w][l].kind = "event" =>
            wire'[w][k].at < wire'[w][l].at
    <3> SUFFICES ASSUME NEW k \in DOMAIN wire'[w], NEW l \in DOMAIN wire'[w], k < l,
                        wire'[w][k].kind = "event", wire'[w][l].kind = "event"
                 PROVE  wire'[w][k].at < wire'[w][l].at
      OBVIOUS
    <3>1. /\ k + 1 \in DOMAIN wire[w] /\ wire'[w][k] = wire[w][k + 1]
          /\ l + 1 \in DOMAIN wire[w] /\ wire'[w][l] = wire[w][l + 1]
          /\ k + 1 < l + 1
      BY <1>2, <2>3
    <3> HIDE <2>3
    <3> QED BY <2>1, <3>1 DEF ConsoleInv, FramesInOrder
  <2>10. FramesInOrder(w)'
    BY <1>1, <2>2, <2>7, <2>8, <2>9 DEF FramesInOrder
  <2>11. BatchIsNext(w)'
    BY <1>1, <2>1, <2>5, <2>6 DEF ConsoleInv, BatchIsNext
  <2>12. \A p : OnTheWire(w, p) => OnTheWire(w, p)' \/ (frame.kind = "event" /\ p = at)
    <3> SUFFICES ASSUME NEW p, OnTheWire(w, p), ~ (frame.kind = "event" /\ p = at)
                 PROVE  OnTheWire(w, p)'
      OBVIOUS
    <3>1. PICK k \in DOMAIN wire[w] : wire[w][k].kind = "event" /\ wire[w][k].at = p
      BY DEF OnTheWire
    <3>2. k # 1
      BY <3>1
    <3>3. k - 1 \in DOMAIN wire'[w] /\ (k - 1) + 1 = k
      BY <1>2, <3>1, <3>2
    <3>4. wire'[w][k - 1] = wire[w][k]
      BY <1>2, <3>3
    <3> QED BY <3>1, <3>3, <3>4 DEF OnTheWire
  <2>13. Accounted(w)'
    <3>1. Accounted(w)
      BY <2>1 DEF ConsoleInv
    <3>2. stage[w] # "away"
      BY <2>2 DEF Unopened
    <3>3. \A p \in 1 .. mark[w] : p \in Unshown(w) \/ \E i \in DOMAIN shown[w] : shown[w][i] = p
      BY <3>1 DEF Accounted, MissesNothing
    <3>4. \A p \in Nat \ {0} : p <= cursor[w] =>
            p <= mark[w] \/ p \in Unshown(w) \/ OnTheWire(w, p)
      BY <3>1, <3>2 DEF Accounted
    <3>5. PastTelling(w) =>
            \A p \in DOMAIN history :
              p > cursor[w] /\ ~ Stands(p) /\ p \notin batch[w] => p \in Unshown(w) \/ p <= mark[w]
      BY <3>1 DEF Accounted
    <3>13. PastTelling(w)' <=> PastTelling(w)
      BY <1>1 DEF PastTelling
    <3>6. DOMAIN history \subseteq Nat /\ mark[w] \in Nat
      BY <1>4, LogTypes
    \* Nothing heard of.
    <3>7. CASE mark' = mark /\ excused' = excused /\ shown' = shown
               /\ (frame.kind = "event" => at <= mark[w])
      <4>1. MissesNothing(w)'
        BY <1>1, <3>3, <3>7 DEF MissesNothing, Unshown
      <4>2. \A p \in Nat \ {0} : p <= cursor[w] =>
              p <= mark[w] \/ p \in Unshown(w) \/ OnTheWire(w, p)'
        BY <2>12, <3>4, <3>7
      <4>3. Unshown(w)' = Unshown(w)
        BY <1>1, <3>7 DEF Unshown
      <4> QED BY <1>1, <2>5, <2>6, <3>5, <3>7, <3>13, <4>1, <4>2, <4>3 DEF Accounted
    \* The first hello: everything before its place is given up.
    <3>8. CASE frame.kind = "hello" /\ w \notin attached
      <4> PICK new : new = AttachFrom(at)
        OBVIOUS
      <4>1. /\ mark'[w] = new /\ excused'[w] = excused[w] \cup 1 .. new /\ shown' = shown
            /\ mark' \in [Watchers -> Nat]
        BY <1>3, <1>4, <1>6, <3>8, HearTypes DEF HearHello
      <4>2. mark[w] = 0 /\ new \in Nat
        BY <2>4, <3>8, <4>1
      <4>3. MissesNothing(w)' /\ Unshown(w) \subseteq Unshown(w)'
        BY <1>1, <4>1 DEF MissesNothing, Unshown
      <4>4. \A p \in Nat \ {0} : p <= cursor[w] => p \in Unshown(w) \/ OnTheWire(w, p)'
        BY <2>12, <3>4, <3>8, <4>2
      <4>5. PastTelling(w) =>
              \A p \in DOMAIN history :
                p > cursor[w] /\ ~ Stands(p) /\ p \notin batch[w] => p \in Unshown(w) \/ p <= new
        BY <3>5, <3>6, <4>2
      <4> QED BY <1>1, <2>5, <2>6, <3>13, <4>1, <4>3, <4>4, <4>5 DEF Accounted
    \* The next event: all before it was accounted for.
    <3>9. CASE frame.kind = "event" /\ ~ (at <= mark[w])
      <4>1. /\ mark'[w] = at /\ excused' = excused /\ shown'[w] = Append(shown[w], at)
        BY <1>3, <1>4, <3>9 DEF HearEvent
      <4>2. /\ DOMAIN shown[w] = 1 .. Len(shown[w]) /\ Len(shown[w]) \in Nat
            /\ DOMAIN shown'[w] = 1 .. (Len(shown[w]) + 1)
            /\ \A i \in 1 .. Len(shown[w]) : shown'[w][i] = shown[w][i]
            /\ shown'[w][Len(shown[w]) + 1] = at
        <5>1. shown[w] \in Seq(Nat) /\ at \in Nat
          BY <1>3, <1>4
        <5> QED BY <4>1, <5>1, AppendProperties, LenProperties
      <4>3. \A p : OnTheWire(w, p) => ~ (p < at)
        <5> SUFFICES ASSUME NEW p, OnTheWire(w, p), p < at PROVE FALSE
          OBVIOUS
        <5>1. PICK k \in DOMAIN wire[w] : wire[w][k].kind = "event" /\ wire[w][k].at = p
          BY DEF OnTheWire
        <5>2. wire[w][k] \in Frames
          BY <1>2, <5>1, ElementOfSeq DEF StreamTyped
        <5>3. p \in Nat
          BY <5>1, <5>2 DEF Frames
        <5>4. k # 1
          BY <1>3, <5>1, <5>3
        <5>5. 1 < k
          BY <1>2, <5>4
        <5>6. at < p
          BY <2>1, <2>3, <3>9, <5>1, <5>5 DEF ConsoleInv, FramesInOrder
        <5> QED BY <1>3, <5>3, <5>6
      <4>4. at <= cursor[w] /\ cursor[w] \in Nat
        BY <2>1, <2>3, <3>9 DEF ConsoleInv, FramesInOrder, StreamTyped
      <4>5. \A p \in 1 .. at : p \in Unshown(w) \/ \E i \in DOMAIN shown'[w] : shown'[w][i] = p
        <5> SUFFICES ASSUME NEW p \in 1 .. at, p \notin Unshown(w)
                     PROVE  \E i \in DOMAIN shown'[w] : shown'[w][i] = p
          OBVIOUS
        <5>1. CASE p <= mark[w]
          <6>1. PICK i \in DOMAIN shown[w] : shown[w][i] = p
            BY <1>3, <3>3, <3>6, <5>1
          <6> QED BY <4>2, <6>1
        <5>2. CASE p = at
          <6>1. Len(shown[w]) + 1 \in DOMAIN shown'[w]
            BY <4>2
          <6> QED BY <4>2, <5>2, <6>1
        <5>3. CASE ~ (p <= mark[w]) /\ p # at
          <6>1. p \in Nat \ {0} /\ p < at /\ p <= cursor[w]
            BY <1>3, <4>4, <5>3
          <6>2. OnTheWire(w, p)
            BY <3>4, <5>3, <6>1
          <6> QED BY <4>3, <6>1, <6>2
        <5> QED BY <5>1, <5>2, <5>3
      <4>6. MissesNothing(w)' /\ Unshown(w)' = Unshown(w)
        BY <1>1, <4>1, <4>5 DEF MissesNothing, Unshown
      <4>7. mark[w] < at
        BY <1>3, <3>6, <3>9
      <4>8. \A p \in Nat \ {0} : p <= cursor[w] =>
              p <= at \/ p \in Unshown(w) \/ OnTheWire(w, p)'
        <5> SUFFICES ASSUME NEW p \in Nat \ {0}, p <= cursor[w], ~ (p <= at), p \notin Unshown(w)
                     PROVE  OnTheWire(w, p)'
          OBVIOUS
        <5>1. ~ (p <= mark[w]) /\ p # at
          BY <1>3, <3>6, <4>7
        <5> QED BY <2>12, <3>4, <5>1
      <4>9. PastTelling(w) =>
              \A p \in DOMAIN history :
                p > cursor[w] /\ ~ Stands(p) /\ p \notin batch[w] => p \in Unshown(w) \/ p <= at
        <5>1. \A p \in DOMAIN history : p <= mark[w] => p <= at
          BY <1>3, <3>6, <4>7
        <5> QED BY <3>5, <5>1
      <4> QED BY <1>1, <2>5, <2>6, <3>13, <4>1, <4>6, <4>8, <4>9 DEF Accounted
    \* The resync: everything before what is kept is given up.
    <3>10. CASE frame.kind = "resync"
      <4>1. /\ mark'[w] = at - 1 /\ excused'[w] = excused[w] \cup 1 .. at - 1 /\ shown' = shown
        BY <1>3, <1>4, <1>6, <3>10 DEF HearResync
      <4>2. stage[w] = "over" /\ cursor[w] < at /\ cursor[w] \in Nat
        BY <2>1, <2>3, <3>10 DEF ConsoleInv, FramesInOrder, StreamTyped
      <4>3. MissesNothing(w)' /\ ~ PastTelling(w)'
        BY <1>1, <4>1, <4>2 DEF MissesNothing, Unshown, PastTelling
      <4>4. \A p \in Nat \ {0} : p <= cursor[w] => p <= at - 1
        BY <1>3, <4>2
      <4> QED BY <1>1, <4>1, <4>2, <4>3, <4>4 DEF Accounted
    <3>11. frame.kind = "hello" /\ w \in attached =>
             mark' = mark /\ excused' = excused /\ shown' = shown
      BY <1>3 DEF HearHello
    <3>12. frame.kind = "event" /\ at <= mark[w] =>
             mark' = mark /\ excused' = excused /\ shown' = shown
      BY <1>3, <1>6 DEF HearEvent
    <3> QED BY <1>3, <3>7, <3>8, <3>9, <3>10, <3>11, <3>12
  <2> QED BY <1>1, <2>10, <2>11, <2>13 DEF ConsoleInv
<1> QED BY <1>1, <1>5, <1>6, LocalConsoles
------------------------------------------------------------------------------
(* All of it.                                                               *)

StreamsInv == LogInv /\ StreamInv /\ ConsolesInv

LEMMA InitHolds == Init => StreamsInv
<1> SUFFICES ASSUME Init PROVE StreamsInv
  OBVIOUS
<1>1. /\ log = [s \in Sessions |-> EmptyLog] /\ watermark = 0 /\ history = <<>>
      /\ \A s \in Sessions : DOMAIN log[s] = {}
  BY DEF Init, EmptyLog
<1>2. history \in Seq(Entries) /\ <<>> \in Seq(Frames) /\ <<>> \in Seq(Nat)
  BY <1>1, EmptySeq
<1>3. LogInv
  <2>1. RowsTyped /\ RowsStand
    BY <1>1, <1>2 DEF RowsTyped, RowsStand
  <2>2. LastIsKept /\ GoneIsMarked
    BY <1>1 DEF LastIsKept, GoneIsMarked
  <2> QED BY <2>1, <2>2 DEF LogInv
<1>4. StreamTyped
  BY <1>2, BoundTypes DEF Init, StreamTyped, Stages
<1>5. StreamsAgree /\ NoWakeupLost
  BY DEF Init, StreamsAgree, NoWakeupLost
<1>6. ConsolesInv
  <2> SUFFICES ASSUME NEW w \in Consoles PROVE ConsoleInv(w)
    BY DEF ConsolesInv
  <2>1. /\ stage[w] = "away" /\ batch[w] = {} /\ wire[w] = <<>> /\ mark[w] = 0
    BY SomebodyWatches DEF Init
  <2>2. FramesInOrder(w) /\ BatchIsNext(w)
    BY <2>1 DEF FramesInOrder, BatchIsNext, Unopened
  <2>3. Accounted(w)
    BY <2>1 DEF Accounted, MissesNothing, PastTelling
  <2> QED BY <2>2, <2>3 DEF ConsoleInv
<1> QED BY <1>3, <1>4, <1>5, <1>6 DEF StreamsInv, StreamInv

\* A step that leaves the log alone leaves its invariant alone.
LEMMA LogKeeps ==
  ASSUME StreamsInv, [Next]_vars
  PROVE  LogInv'
<1> LogInv
  BY DEF StreamsInv
<1>1. CASE \E s \in Sessions : AppendPlain(s) \/ AppendFold(s)
  <2>1. PICK s \in Sessions : AppendPlain(s) \/ AppendFold(s)
    BY <1>1
  <2>2. \E kind \in {"plain", "fold"} : \E through \in Nat : AppendEvent(s, kind, through)
    BY <2>1, LogTypes DEF AppendPlain, AppendFold
  <2> QED BY <2>2, AppendLog
<1>2. CASE \E s \in Sessions : Prune(s)
  BY <1>2, PruneLog
<1>3. CASE UNCHANGED logVars
  BY <1>3, LogStutters
<1>4. CASE \E s \in Sessions : Publish(s)
  BY <1>3, <1>4 DEF Publish
<1>5. CASE \E w \in Watchers : Signal(w) \/ Join(w) \/ Stream(w) \/ Receive(w) \/ End(w) \/ Break(w)
  BY <1>3, <1>5 DEF Signal, Join, Stream, Greet, Resync, Resume, ReadBatch, SendNext, Rest, Wait,
       Wake, Receive, End, Break, Dropped
<1>6. CASE Crash
  BY <1>3, <1>6 DEF Crash, Dropped
<1>7. CASE UNCHANGED vars
  BY <1>3, <1>7 DEF vars
<1> QED BY <1>1, <1>2, <1>4, <1>5, <1>6, <1>7 DEF Next

LEMMA NextKeeps == StreamsInv /\ [Next]_vars => StreamsInv'
<1> SUFFICES ASSUME StreamsInv, [Next]_vars PROVE StreamInv' /\ ConsolesInv'
  BY LogKeeps DEF StreamsInv
<1> LogInv /\ StreamInv /\ ConsolesInv
  BY DEF StreamsInv
<1> StreamTyped
  BY DEF StreamInv
<1>1. CASE \E s \in Sessions : AppendPlain(s) \/ AppendFold(s)
  <2>1. PICK s \in Sessions : AppendPlain(s) \/ AppendFold(s)
    BY <1>1
  <2>2. \E kind \in {"plain", "fold"} : \E through \in Nat : AppendEvent(s, kind, through)
    BY <2>1, LogTypes DEF AppendPlain, AppendFold
  <2> QED BY <2>2, AppendStreams, AppendConsoles
<1>2. CASE \E s \in Sessions : Prune(s)
  BY <1>2, PruneStreams, PruneConsoles
<1>3. ASSUME UNCHANGED logVars, UNCHANGED streamVars, UNCHANGED clientVars, overtaken' = overtaken
      PROVE  ConsolesInv'
  <2>1. \A w \in Consoles : Untouched(w)
    BY <1>3 DEF Untouched, streamVars, clientVars
  <2>2. history' = history /\ \A p : Stands(p)' <=> Stands(p)
    BY <1>3, SameLog
  <2> QED BY <1>3, <2>1, <2>2, ConsoleStays DEF ConsolesInv
<1>4. CASE \E s \in Sessions : Publish(s)
  BY <1>3, <1>4, PublishStreams DEF Publish
<1>5. CASE \E w \in Watchers : Signal(w)
  BY <1>3, <1>5, SignalStreams DEF Signal
<1>6. CASE \E w \in Watchers : Join(w)
  BY <1>6, JoinStreams, JoinConsoles
<1>7. ASSUME NEW w \in Watchers, Stream(w)
      PROVE  StreamInv' /\ ConsolesInv'
  <2>1. CASE Greet(w) \/ Resync(w) \/ Resume(w)
    BY <2>1, OpenStreams, GreetConsoles, ResyncConsoles, ResumeConsoles
  <2>2. CASE ReadBatch(w)
    BY <2>2, ReadStreams, ReadConsoles
  <2>3. CASE SendNext(w)
    BY <2>3, SendStreams, SendConsoles
  <2>4. CASE Rest(w) \/ Wait(w) \/ Wake(w)
    BY <2>4, RestStreams, RestConsoles
  <2> QED BY <1>7, <2>1, <2>2, <2>3, <2>4 DEF Stream
<1>8. CASE \E w \in Watchers : Receive(w)
  BY <1>8, ReceiveStreams, ReceiveConsoles
<1>9. CASE \E w \in Watchers : End(w) \/ Break(w)
  <2>1. PICK w \in Watchers : End(w) \/ Break(w)
    BY <1>9
  <2>2. Ends({w}) /\ {w} \in SUBSET Watchers
    BY <2>1, EndsOnce
  <2> QED BY <2>2, EndStreams, EndConsoles
<1>10. CASE Crash
  <2>1. Ends(Watchers) /\ Watchers \in SUBSET Watchers
    BY <1>10, EndsOnce
  <2> QED BY <2>1, EndStreams, EndConsoles
<1>11. CASE UNCHANGED vars
  <2>1. ConsolesInv'
    BY <1>3, <1>11 DEF vars
  <2>2. StreamTyped' /\ StreamsAgree'
    BY <1>11 DEF StreamInv, StreamTyped, StreamsAgree, vars, hubVars, streamVars, clientVars
  <2>3. NoWakeupLost'
    BY <1>11 DEF StreamInv, NoWakeupLost, Unread, Kept, AllKept, Concerns, vars, logVars, hubVars,
         streamVars
  <2> QED BY <2>1, <2>2, <2>3 DEF StreamInv
<1> QED BY <1>1, <1>2, <1>4, <1>5, <1>6, <1>7, <1>8, <1>9, <1>10, <1>11 DEF Next

\* The invariant behind the streams holds in every reachable state, for any sessions,
\* clients, batches, events and lost connections.
THEOREM StreamsInvariant == Spec => []StreamsInv
<1>1. Init => StreamsInv
  BY InitHolds
<1>2. StreamsInv /\ [Next]_vars => StreamsInv'
  BY NextKeeps
<1> QED BY <1>1, <1>2, PTL DEF Spec

\* A sequence of members of a set is one of members of any wider set.
LEMMA WiderSequences ==
  ASSUME NEW S, NEW T, S \subseteq T
  PROVE  Seq(S) \subseteq Seq(T)
<1> SUFFICES ASSUME NEW q \in Seq(S) PROVE q \in Seq(T)
  OBVIOUS
<1>1. Len(q) \in Nat /\ q \in [1 .. Len(q) -> S]
  BY LenProperties
<1>2. q \in [1 .. Len(q) -> T]
  BY <1>1
<1> QED BY <1>1, <1>2, SeqDef

\* Every variable of EventStreams keeps its type.
THEOREM TypeCorrect == Spec => []TypeOK
<1>1. StreamsInv => TypeOK
  <2> SUFFICES ASSUME StreamsInv PROVE TypeOK
    OBVIOUS
  <2>1. RowsTyped /\ StreamTyped /\ StreamsAgree
    BY DEF StreamsInv, LogInv, StreamInv
  <2>2. wire \in [Watchers -> Seq([kind : {"hello", "event", "resync"}, at : Nat])]
    <3>1. \A w \in Watchers : wire[w] \in Seq([kind : {"hello", "event", "resync"}, at : Nat])
      <4>1. \A w \in Watchers : wire[w] \in Seq(Frames)
        BY <2>1 DEF StreamTyped
      <4>2. Frames \subseteq [kind : {"hello", "event", "resync"}, at : Nat]
        BY DEF Frames
      <4> QED BY <4>1, <4>2, WiderSequences
    <3> QED BY <2>1, <3>1 DEF StreamTyped
  <2>3. armed \subseteq Subscribed
    BY <2>1 DEF StreamTyped, StreamsAgree, Subscribed
  <2>4. \A s \in Sessions : \A q \in DOMAIN log[s] :
          q \in Nat \ {0} /\ log[s][q].kind \in {"plain", "fold"} /\ log[s][q].global \in Nat \ {0}
    BY <2>1 DEF RowsTyped
  <2>5. DOMAIN log = Sessions /\ watermark \in Nat /\ history \in Seq(Entries)
    BY <2>1 DEF RowsTyped
  <2> QED BY <2>1, <2>2, <2>3, <2>4, <2>5 DEF TypeOK, StreamTyped, Entries
<1> QED BY <1>1, StreamsInvariant, PTL

\* Every row stands where its append put it, in its session and in the whole log
\* (events.go:45-48, Append).
THEOREM RowsHold == Spec => []RowsStand
<1>1. StreamsInv => RowsStand
  BY DEF StreamsInv, LogInv
<1> QED BY <1>1, StreamsInvariant, PTL

\* No stream sleeps with something to read and nobody to wake it
\* (server.go:395-396, hub.go:77-79).
THEOREM WakeupsHold == Spec => []NoWakeupLost
<1>1. StreamsInv => NoWakeupLost
  BY DEF StreamsInv, StreamInv
<1> QED BY <1>1, StreamsInvariant, PTL

\* A console was shown everything up to its cursor, or told that it was not, but for what
\* was discarded ahead of it once its handler had read the watermark (server.go:501, 526).
THEOREM ConsolesHold == Spec => []ConsolesMissNothing
<1>1. StreamsInv => ConsolesMissNothing
  BY SomebodyWatches DEF StreamsInv, ConsolesInv, ConsoleInv, Accounted, ConsolesMissNothing
<1> QED BY <1>1, StreamsInvariant, PTL
=============================================================================
