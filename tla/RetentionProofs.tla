--------------------------- MODULE RetentionProofs ---------------------------
(***************************************************************************)
(* What Retention promises holds for any number of runs that discard, and  *)
(* for logs of any length.                                                 *)
(***************************************************************************)
EXTENDS Retention, TLAPS

LogOK ==
  /\ given \in Nat
  /\ DOMAIN log \subseteq 1 .. given
  /\ \A p \in DOMAIN log : log[p].through \in 0 .. p - 1

\* The last event ever recorded is still there, so MAX(seq) counts them all.
LastStays == given > 0 => given \in DOMAIN log

\* A run that is about to discard has a fold for it, and the fold stays meanwhile.
CutsAreCovered ==
  /\ cut \in [Pruners -> Nat]
  /\ \A r \in Pruners : cut[r] > 0 =>
       \E fold \in FoldsOf(log) : cut[r] < fold /\ cut[r] <= log[fold].through

RetentionInv == LogOK /\ LastStays /\ CutsAreCovered /\ GoneIsCovered
------------------------------------------------------------------------------
\* No fold is lost by an append, and each keeps its position and its reach (events.go,
\* Append).
LEMMA AppendKeepsFolds ==
  ASSUME LogOK, AppendNext
  PROVE  \A f \in FoldsOf(log) : f \in FoldsOf(log)' /\ log'[f] = log[f]
BY DEF AppendNext, FoldsOf

\* No fold is lost by discarding either (events.go, PruneEvents).
LEMMA DiscardKeepsFolds ==
  ASSUME NEW r \in Pruners, Discard(r)
  PROVE  \A f \in FoldsOf(log) : f \in FoldsOf(log)' /\ log'[f] = log[f]
BY DEF Discard, FoldsOf

\* The empty log satisfies the invariant.
LEMMA RetentionInvInit == RetentionInit => RetentionInv
BY DEF RetentionInit, RetentionInv, LogOK, LastStays, CutsAreCovered, GoneIsCovered,
       EmptyLog, FoldsOf

\* Appending keeps the invariant.
LEMMA AppendKeepsInv == RetentionInv /\ AppendNext => RetentionInv'
<1> SUFFICES ASSUME RetentionInv, AppendNext PROVE RetentionInv'
  OBVIOUS
<1> USE DEF RetentionInv
<1>1. \A f \in FoldsOf(log) : f \in FoldsOf(log)' /\ log'[f] = log[f]
  BY AppendKeepsFolds
<1>2. LogOK'
  BY DEF AppendNext, LogOK
<1>3. LastStays'
  BY DEF AppendNext, LastStays
<1>4. CutsAreCovered'
  <2>1. PICK q \in Pruners : cut' \in {cut, [cut EXCEPT ![q] = 0]}
    BY DEF AppendNext
  <2>2. cut' \in [Pruners -> Nat]
    BY <2>1 DEF CutsAreCovered
  <2>3. ASSUME NEW r \in Pruners, cut'[r] > 0 PROVE cut'[r] = cut[r]
    BY <2>1, <2>3 DEF CutsAreCovered
  <2> QED
    BY <1>1, <2>2, <2>3 DEF CutsAreCovered
<1>5. GoneIsCovered'
  BY <1>1 DEF AppendNext, GoneIsCovered, LogOK
<1> QED
  BY <1>2, <1>3, <1>4, <1>5

\* Deciding how far to discard keeps the invariant.
LEMMA DecideKeepsInv ==
  ASSUME NEW r \in Pruners
  PROVE  RetentionInv /\ DecideCut(r) => RetentionInv'
<1> SUFFICES ASSUME RetentionInv, DecideCut(r) PROVE RetentionInv'
  OBVIOUS
<1>1. PICK fold \in FoldsOf(log) : \E c \in 1 .. log[fold].through :
        c < fold /\ cut' = [cut EXCEPT ![r] = c]
  BY DEF DecideCut
<1>2. UNCHANGED <<log, given>>
  BY DEF DecideCut
<1>3. CutsAreCovered'
  <2>1. PICK c \in 1 .. log[fold].through : c < fold /\ cut' = [cut EXCEPT ![r] = c]
    BY <1>1
  <2>2. log[fold].through \in Nat
    BY DEF RetentionInv, LogOK, FoldsOf
  <2> QED
    BY <1>2, <2>1, <2>2 DEF RetentionInv, CutsAreCovered, FoldsOf
<1> QED
  BY <1>2, <1>3 DEF RetentionInv, LogOK, LastStays, GoneIsCovered, FoldsOf

\* Discarding keeps the invariant: what goes lies below a fold, which is not the last
\* event's position or is itself kept.
LEMMA DiscardKeepsInv ==
  ASSUME NEW r \in Pruners
  PROVE  RetentionInv /\ Discard(r) => RetentionInv'
<1> SUFFICES ASSUME RetentionInv, Discard(r) PROVE RetentionInv'
  OBVIOUS
<1> USE DEF RetentionInv
<1>1. \A f \in FoldsOf(log) : f \in FoldsOf(log)' /\ log'[f] = log[f]
  BY DiscardKeepsFolds
<1>2. \A p \in DOMAIN log : p \notin DOMAIN log' =>
        \E f \in FoldsOf(log) : p < f /\ p <= log[f].through
  <2> SUFFICES ASSUME NEW p \in DOMAIN log, p \notin DOMAIN log'
               PROVE  \E f \in FoldsOf(log) : p < f /\ p <= log[f].through
    OBVIOUS
  <2>1. p \in Nat \ {0} /\ p <= cut[r] /\ cut[r] \in Nat
    BY DEF Discard, LogOK, CutsAreCovered
  <2>2. PICK f \in FoldsOf(log) : cut[r] < f /\ cut[r] <= log[f].through
    BY <2>1 DEF CutsAreCovered
  <2>3. f \in Nat /\ log[f].through \in Nat
    BY DEF FoldsOf, LogOK
  <2> QED
    BY <2>1, <2>2, <2>3
<1>3. LogOK'
  BY DEF Discard, LogOK
<1>4. LastStays'
  BY <1>2 DEF Discard, LastStays, LogOK, FoldsOf
<1>5. CutsAreCovered'
  BY <1>1 DEF Discard, CutsAreCovered
<1>6. GoneIsCovered'
  <2> SUFFICES ASSUME NEW p \in 1 .. given, p \notin DOMAIN log'
               PROVE  \E f \in FoldsOf(log)' : p <= log'[f].through
    BY DEF Discard, GoneIsCovered
  <2>1. \E f \in FoldsOf(log) : p <= log[f].through
    BY <1>2 DEF GoneIsCovered
  <2> QED
    BY <1>1, <2>1
<1> QED
  BY <1>3, <1>4, <1>5, <1>6

\* The invariant holds in every reachable state.
THEOREM RetentionHolds == RetentionSpec => []RetentionInv
<1>1. RetentionInv /\ [RetentionNext]_retention => RetentionInv'
  <2> SUFFICES ASSUME RetentionInv, [RetentionNext]_retention PROVE RetentionInv'
    OBVIOUS
  <2>1. CASE AppendNext
    BY <2>1, AppendKeepsInv
  <2>2. CASE \E r \in Pruners : DecideCut(r)
    BY <2>2, DecideKeepsInv
  <2>3. CASE \E r \in Pruners : Discard(r)
    BY <2>3, DiscardKeepsInv
  <2>4. CASE UNCHANGED retention
    BY <2>4 DEF retention, RetentionInv, LogOK, LastStays, CutsAreCovered, GoneIsCovered,
                FoldsOf
  <2> QED
    BY <2>1, <2>2, <2>3, <2>4 DEF RetentionNext
<1> QED
  BY RetentionInvInit, <1>1, PTL DEF RetentionSpec

\* What is gone from a log is always within the reach of a fold still there
\* (retention.go, safeCut).
THEOREM GoneStaysCovered == RetentionSpec => []GoneIsCovered
<1>1. RetentionInv => GoneIsCovered
  BY DEF RetentionInv
<1> QED
  BY RetentionHolds, <1>1, PTL

\* MAX(seq) + 1 is a position never given out, however much has been discarded
\* (events.go, Append).
THEOREM PositionsAreFresh == RetentionSpec => []NextIsFresh
<1>1. RetentionInv => NextIsFresh
  <2> SUFFICES ASSUME RetentionInv PROVE NextSeq(log) = given + 1
    BY DEF NextIsFresh
  <2> DEFINE kept == DOMAIN log \cup {0}
  <2>1. given \in kept /\ \A p \in kept : p \in Nat /\ given >= p
    BY DEF RetentionInv, LogOK, LastStays
  <2>2. Max(kept) \in kept /\ \A p \in kept : Max(kept) >= p
    BY <2>1 DEF Max
  <2>3. Max(kept) = given
    BY <2>1, <2>2
  <2> QED
    BY <2>3 DEF NextSeq, RetentionInv, LogOK
<1> QED
  BY RetentionHolds, <1>1, PTL
=============================================================================
