------------------------------ MODULE EventLog ------------------------------
(***************************************************************************)
(* One session's log as the store keeps it, and what the runtime may       *)
(* discard of it. A log is a function from the positions still kept to     *)
(* the events there: positions are what (session_id, seq) is the key of.   *)
(***************************************************************************)
EXTENDS Integers, FiniteSets, FiniteSetsExt, Functions

Plain(kind, run, call) ==
  [kind |-> kind, run |-> run, call |-> call, from |-> 0, through |-> 0, tells |-> {}]

EmptyLog == [p \in {} |-> Plain("none", "none", 0)]

NextSeq_Count(log) == 1 + Cardinality(DOMAIN log)  \* mutant: COUNT for MAX

\* The position after the last one kept. It is read back from the rows, so it
\* moves on only as long as the last row is never discarded.
NextSeq(log) == 1 + Max(DOMAIN log \cup {0})

Appended(log, event) ==
  [p \in DOMAIN log \cup {NextSeq(log)} |->
     IF p \in DOMAIN log THEN log[p] ELSE event]

FoldsOf(log) == {p \in DOMAIN log : log[p].kind = "fold"}

SafeCuts_PastReach(log, keep) ==  \* mutant: what the fold does not reach may go too
  {p \in DOMAIN log : \E last \in FoldsOf(log) :
     /\ last = Max(FoldsOf(log)) /\ p < last
     /\ Cardinality({b \in DOMAIN log : p < b /\ b < last}) = keep}

\* The highest position that may be discarded, or none: the event "keep" events
\* before the last fold, and never past what that fold reaches.
SafeCuts(log, keep) ==
  IF FoldsOf(log) = {} THEN {}
  ELSE LET last == Max(FoldsOf(log)) IN
       {Min({p, log[last].through}) :
          p \in {q \in DOMAIN log :
                   /\ q < last
                   /\ Cardinality({b \in DOMAIN log : q < b /\ b < last}) = keep}}

Pruned_FoldsToo(log, cut) ==  \* mutant: folds go with the rest
  Restrict(log, {p \in DOMAIN log : p > cut})

\* What PruneEvents leaves: everything above the cut, and every fold.
Pruned(log, cut) ==
  Restrict(log, {p \in DOMAIN log : p > cut \/ log[p].kind = "fold"})
=============================================================================
