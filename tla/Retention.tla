------------------------------ MODULE Retention ------------------------------
(***************************************************************************)
(* What the store and the runtime promise of a session's log: a position   *)
(* is given to one event only, an event kept never changes, and one is     *)
(* discarded only when it lies behind a fold and within what that fold     *)
(* reaches. Folds stay for good.                                           *)
(***************************************************************************)
EXTENDS EventLog

CONSTANT Pruners   \* the runs that may discard behind the folds

VARIABLES
  log,      \* the events kept, by position
  given,    \* how many positions have been given out
  cut       \* how far each run has decided to discard, or 0

retention == <<log, given, cut>>

RetentionInit ==
  /\ log = EmptyLog /\ given = 0
  /\ cut = [r \in Pruners |-> 0]

\* An event takes the next position, and a fold covers only what came before it.
\* The run that records its own end gives up what it meant to discard.
AppendNext ==
  /\ given' = given + 1
  /\ DOMAIN log' = DOMAIN log \cup {given'}
  /\ \A p \in DOMAIN log : log'[p] = log[p]
  /\ log'[given'].through \in 0 .. given
  /\ \E r \in Pruners : cut' \in {cut, [cut EXCEPT ![r] = 0]}

DecideCut(r) ==
  /\ \E fold \in FoldsOf(log) : \E c \in 1 .. log[fold].through :
       c < fold /\ cut' = [cut EXCEPT ![r] = c]
  /\ UNCHANGED <<log, given>>

Discard(r) ==
  /\ DOMAIN log' \subseteq DOMAIN log
  /\ \A p \in DOMAIN log' : log'[p] = log[p]
  /\ \A p \in DOMAIN log \ DOMAIN log' : p <= cut[r] /\ p \notin FoldsOf(log)
  /\ cut' = [cut EXCEPT ![r] = 0]
  /\ UNCHANGED given

RetentionNext == AppendNext \/ \E r \in Pruners : DecideCut(r) \/ Discard(r)

RetentionSpec == RetentionInit /\ [][RetentionNext]_retention
------------------------------------------------------------------------------
\* The position the store computes from the rows it still has is one it has never
\* given out (events.go, Append).
NextIsFresh == NextSeq(log) = given + 1

\* What is gone lies within the reach of a fold that is still there
\* (retention.go, safeCut; events.go, PruneEvents).
GoneIsCovered ==
  \A p \in 1 .. given :
    p \in DOMAIN log \/ \E fold \in FoldsOf(log) : p <= log[fold].through
=============================================================================
