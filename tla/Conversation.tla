---------------------------- MODULE Conversation ----------------------------
(***************************************************************************)
(* What the model is shown of a session, and what is thrown away behind    *)
(* it: the conversation rebuilt from the log on every request              *)
(* (runtime/conversation.go), the folds that condense its older part       *)
(* (runtime/compaction.go) and the pruning of what a fold stands for       *)
(* (runtime/retention.go), while runs queue, park, delegate and are cut    *)
(* short.                                                                  *)
(***************************************************************************)
EXTENDS Replay

CONSTANTS
  Mains,            \* the runs people start
  NoRun,
  MaxTurns,         \* Options.MaxIterations: model turns one run is allowed
  KeepAfterFold,    \* Options.KeepAfterFold: events before a fold kept anyway
  MaxEvents,        \* bound: the events one session may come to
  Overlapping,      \* TRUE: messages may arrive while a run is at work
  Interrupts,       \* TRUE: a run may be cut short, by a person or by a crash
  Parks             \* TRUE: a call may have to wait for a person

ASSUME ConversationAssumption ==
  /\ Mains \cap Workers = {} /\ NoRun \notin Mains \cup Workers
  /\ MaxTurns \in Nat \ {0}
  /\ KeepAfterFold \in Nat /\ MaxEvents \in Nat
  /\ Overlapping \in BOOLEAN /\ Interrupts \in BOOLEAN /\ Parks \in BOOLEAN

Runs == Mains \cup Workers

VARIABLES
  log,       \* the session's events, by position
  history,   \* every event ever appended; the program keeps no such thing
  line,      \* the runs that wait for the turn
  at,        \* where the goroutine of each run is
  plan,      \* the fold a run is about to record
  cut,       \* how far a run is about to prune
  doing,     \* the call a run is settling, by its position
  child,     \* the worker a run is waiting for
  decided,   \* the calls a person has decided
  fresh,     \* whether a run had no model turn yet when it last counted them
  spent      \* how many model turns each run has really had

vars == <<log, history, line, at, plan, cut, doing, child, decided, fresh, spent>>

Idle == {"unsent", "waiting", "parked", "over"}
Working == {"top", "delegating", "folding", "pruning", "discarding",
            "building", "asking", "called", "ending"}

NoPlan == [from |-> 0, through |-> 0, tells |-> {}]
------------------------------------------------------------------------------
Init ==
  /\ log = EmptyLog /\ history = <<>> /\ line = <<>>
  /\ at = [r \in Runs |-> "unsent"]
  /\ plan = [r \in Runs |-> NoPlan] /\ cut = [r \in Runs |-> 0]
  /\ doing = [r \in Runs |-> 0] /\ child = [r \in Runs |-> NoRun]
  /\ decided = {}
  /\ fresh = [r \in Runs |-> TRUE] /\ spent = [r \in Runs |-> 0]

Record(event) ==
  /\ Len(history) < MaxEvents
  /\ log' = Appended(log, event)
  /\ history' = Append(history, event)

Goto(r, there) == at' = [at EXCEPT ![r] = there]

Unrecorded == UNCHANGED <<log, history>>
SameWork == UNCHANGED <<line, plan, cut, doing, child, decided, fresh, spent>>

\* A run continued by a decision is driven without having the turn.
Continued(r) == \E p \in decided : history[p].run = r

TurnTaken == \E r \in Mains : at[r] \in Working /\ ~Continued(r)

\* SendTurn: the message is in the log the moment it arrives, and its run starts
\* if no other is at work.
Send(r) ==
  /\ r \in Mains /\ at[r] = "unsent"
  /\ TurnTaken => Overlapping
  /\ Record(Plain("user", r, 0))
  /\ IF TurnTaken THEN Goto(r, "waiting") /\ line' = Append(line, r)
                  ELSE Goto(r, "top") /\ UNCHANGED line
  /\ UNCHANGED <<plan, cut, doing, child, decided, fresh, spent>>

StartNext ==
  /\ line # <<>> /\ ~TurnTaken
  /\ Goto(Head(line), "top") /\ line' = Tail(line)
  /\ Unrecorded /\ UNCHANGED <<plan, cut, doing, child, decided, fresh, spent>>

TakenOut(r) ==
  IF \E i \in DOMAIN line : line[i] = r
  THEN RemoveAt(line, CHOOSE i \in DOMAIN line : line[i] = r) ELSE line

\* A run is ended from outside: taken out of the line, or cut short at any point
\* of its work, a worker before the run that waits for it. Nothing completes what
\* it had asked for.
CutShort(r) ==
  /\ Interrupts
  /\ at[r] \in {"waiting", "parked"} \cup (Working \ {"ending"})
  /\ at[r] = "delegating" => at[child[r]] = "over"
  /\ Record(Plain("ended", r, 0))
  /\ Goto(r, "over") /\ line' = TakenOut(r)
  /\ plan' = [plan EXCEPT ![r] = NoPlan] /\ cut' = [cut EXCEPT ![r] = 0]
  /\ UNCHANGED <<doing, child, decided, fresh, spent>>

\* The calls a run still owes a result are settled first, from the log, so that
\* a run that was resumed does the same as one that never stopped.
Pending(r, p) ==
  /\ at[r] = "top"
  /\ p \in Outstanding(log, r) /\ \A q \in Outstanding(log, r) : p <= q

RunTool(r, p) ==
  /\ Pending(r, p)
  /\ Record(Plain("result", r, p))
  /\ UNCHANGED at /\ SameWork

Park(r, p) ==
  /\ Parks /\ r \in Mains /\ Pending(r, p) /\ p \notin decided
  /\ Goto(r, "parked") /\ doing' = [doing EXCEPT ![r] = p]
  /\ Unrecorded /\ UNCHANGED <<line, plan, cut, child, decided, fresh, spent>>

\* A person decides: the run goes on from its log, whoever has the turn.
Decide(r) ==
  /\ at[r] = "parked"
  /\ decided' = decided \cup {doing[r]}
  /\ Goto(r, "top")
  /\ Unrecorded /\ UNCHANGED <<line, plan, cut, doing, child, fresh, spent>>

\* Investigate: the search is a run of its own, in the same log, and the run that
\* asked waits for it. A worker may not delegate in turn.
Delegate(r, p, w) ==
  /\ r \in Mains /\ Pending(r, p) /\ at[w] = "unsent"
  /\ Record(Plain("user", w, 0))
  /\ at' = [at EXCEPT ![r] = "delegating", ![w] = "top"]
  /\ doing' = [doing EXCEPT ![r] = p] /\ child' = [child EXCEPT ![r] = w]
  /\ UNCHANGED <<line, plan, cut, decided, fresh, spent>>

TakeAnswer(r) ==
  /\ at[r] = "delegating" /\ at[child[r]] = "over"
  /\ Record(Plain("result", r, doing[r]))
  /\ Goto(r, "top") /\ SameWork

Exhausted_Late(r) ==  \* mutant: one turn too many
  Turns(log, r) > MaxTurns

\* The budget counts the model turns the log shows.
Exhausted(r) == Turns(log, r) >= MaxTurns

AtModel(r) == at[r] = "top" /\ Outstanding(log, r) = {}

OutOfTurns(r) ==
  /\ AtModel(r) /\ Exhausted(r)
  /\ Goto(r, "ending") /\ Unrecorded /\ SameWork

\* compactIfNeeded, up to the request for a summary; the request may be small
\* enough, the history impossible to cut, or the summary refused.
PlanFold(r) ==
  /\ AtModel(r) /\ ~Exhausted(r)
  /\ \/ /\ \E chosen \in Plans(log, r) : plan' = [plan EXCEPT ![r] = chosen]
        /\ Goto(r, "folding")
     \/ Goto(r, "building") /\ UNCHANGED plan
  /\ fresh' = [fresh EXCEPT ![r] = (Turns(log, r) = 0)]
  /\ Unrecorded /\ UNCHANGED <<line, cut, doing, child, decided, spent>>

AppendFold(r) ==
  /\ at[r] = "folding"
  /\ Record([Plain("fold", r, 0) EXCEPT !.from = plan[r].from,
               !.through = plan[r].through, !.tells = plan[r].tells])
  /\ Goto(r, "pruning")
  /\ plan' = [plan EXCEPT ![r] = NoPlan]
  /\ UNCHANGED <<line, cut, doing, child, decided, fresh, spent>>

\* PruneSession reads the log, chooses the cut, and asks the store to discard.
ChooseCut(r) ==
  /\ at[r] = "pruning"
  /\ IF SafeCuts(log, KeepAfterFold) = {}
     THEN Goto(r, "building") /\ UNCHANGED cut
     ELSE /\ \E c \in SafeCuts(log, KeepAfterFold) : cut' = [cut EXCEPT ![r] = c]
          /\ Goto(r, "discarding")
  /\ Unrecorded /\ UNCHANGED <<line, plan, doing, child, decided, fresh, spent>>

Prune(r) ==
  /\ at[r] = "discarding"
  /\ log' = Pruned(log, cut[r])
  /\ cut' = [cut EXCEPT ![r] = 0]
  /\ Goto(r, "building")
  /\ UNCHANGED <<history, line, plan, doing, child, decided, fresh, spent>>

\* The request is built from the log, and only then is the run recorded as running.
BuildRequest(r) ==
  /\ at[r] = "building"
  /\ IF fresh[r] THEN Record(Plain("running", r, 0)) ELSE Unrecorded
  /\ Goto(r, "asking") /\ SameWork

\* One model turn: it asks for a tool and is then complete, or it answers.
AskForTool(r) ==
  /\ at[r] = "asking"
  /\ Record(Plain("call", r, 0))
  /\ Goto(r, "called") /\ SameWork

CompleteTurn(r) ==
  /\ at[r] \in {"asking", "called"}
  /\ Record(Plain("said", r, 0))
  /\ Goto(r, IF at[r] = "called" THEN "top" ELSE "ending")
  /\ spent' = [spent EXCEPT ![r] = @ + 1]
  /\ UNCHANGED <<line, plan, cut, doing, child, decided, fresh>>

Finish(r) ==
  /\ at[r] = "ending"
  /\ Record(Plain("ended", r, 0))
  /\ Goto(r, "over") /\ SameWork

Settle(r) ==
  \E p \in DOMAIN log :
    \/ RunTool(r, p) \/ Park(r, p)
    \/ \E w \in Workers : Delegate(r, p, w)

Compact(r) == PlanFold(r) \/ AppendFold(r) \/ ChooseCut(r) \/ Prune(r)

Loop(r) ==
  \/ Settle(r) \/ Decide(r) \/ TakeAnswer(r)
  \/ OutOfTurns(r) \/ Compact(r)
  \/ BuildRequest(r) \/ AskForTool(r) \/ CompleteTurn(r) \/ Finish(r)

Next ==
  \/ StartNext
  \/ \E r \in Runs : Send(r) \/ CutShort(r) \/ Loop(r)

Spec == Init /\ [][Next]_vars
------------------------------------------------------------------------------
\* What is promised

Told(messages) == UNION {messages[i].parts : i \in DOMAIN messages}

Known(run) == UNION {Told(messages) : messages \in {Conversation(log, run)}}

Kinds == {"user", "running", "call", "said", "result", "ended", "fold"}

\* Every event kept is one that was appended, a call answered comes before its
\* answer, and a fold covers a range that ends before the fold itself.
TypeOK ==
  /\ Len(history) <= MaxEvents
  /\ DOMAIN log \subseteq DOMAIN history
  /\ \A p \in DOMAIN log :
       /\ log[p].kind \in Kinds /\ log[p].run \in Runs
       /\ log[p].call \in 0 .. p - 1
       /\ log[p].kind = "fold" => log[p].through < p /\ log[p].from \in 1 .. log[p].through
  /\ at \in [Runs -> Idle \cup Working]
  /\ Range(line) \subseteq Mains
  /\ cut \in [Runs -> Nat] /\ doing \in [Runs -> Nat] /\ spent \in [Runs -> Nat]
  /\ child \in [Runs -> Workers \cup {NoRun}]
  /\ decided \subseteq DOMAIN history
  /\ fresh \in [Runs -> BOOLEAN]

\* A position names one event for the life of its session: the next one is always
\* beyond every position ever given out, although the store computes it from the
\* rows that survive pruning (events.go, Append).
PositionsStand == NextSeq(log) = Len(history) + 1

\* Runs of one session mix in its log in three ways: a run continued by a decision
\* works beside the one that has the turn, a worker records its search while its
\* parent waits, and a message arrives while another run is at work.
\* NoneContinued leaves out the first, OneByOne the first two, Orderly all three.
NoneContinued == decided = {}

OneByOne == NoneContinued /\ \A w \in Workers : at[w] = "unsent"

Orderly ==
  /\ OneByOne
  /\ \A i, j, k \in DOMAIN history :
       (i < j /\ j < k /\ history[i].run = history[k].run) => history[j].run = history[i].run

\* The log is kept as Retention promises: every run's steps are steps of it or leave
\* the log alone (retention.go, PruneSession; events.go).
Kept == INSTANCE Retention WITH Pruners <- Runs, given <- Len(history)

LogIsKept == Kept!RetentionSpec

\* What a conversation discards behind its own fold changes nothing the model is
\* shown: the next request of every run is what it would have been, as long as no
\* parked run was continued (retention.go, PruneSession).
PruneIsInvisible ==
  [][\A pruner \in Mains : (Prune(pruner) /\ NoneContinued) =>
       \A r \in Mains : Conversation(log', r) = Conversation(log, r)]_vars

\* The model forgets nothing a run of the conversation did, while the runs go one
\* by one: every call, result and reply is in its messages or in a summary among
\* them (compaction.go).
WorkIsRemembered ==
  OneByOne =>
    \A r \in Mains :
      {p \in DOMAIN history : history[p].kind \in {"call", "said", "result"}}
        \subseteq Known(r)

\* No request carries a tool result without its call in front of it, in a session
\* whose runs stand side by side (compaction.go, chooseCut).
ResultsFollowCalls ==
  Orderly =>
    \A r \in Mains : \A messages \in {Conversation(log, r)} :
      \A i \in DOMAIN messages : messages[i].role = "tool" =>
        \A p \in messages[i].parts :
          \E j \in 1 .. i - 1 :
            messages[j].role = "assistant" /\ log[p].call \in messages[j].parts

\* A compaction always advances: what the folds reach rises with every fold
\* recorded, as long as no parked run was continued (compaction.go, planCompaction).
FoldsAdvance ==
  [][\A r \in Runs : (AppendFold(r) /\ NoneContinued) =>
       Reach(log', r) > Reach(log, r)]_vars

\* However long the session, only so many folds stand in front of it, as long as no
\* parked run was continued: two runs that fold at once each count the folds before
\* the other records its own (compaction.go, maxFoldsInHead and planCompaction).
FewFolds ==
  NoneContinued =>
    \A r \in Runs : Cardinality(Standing(log, r)) <= MaxFoldsInHead

Question(p, r) == history[p].kind = "user" /\ history[p].run = r

\* Whenever a request is built, it holds what its run was asked (conversation.go, finish).
TurnReachesTheModel ==
  \A r \in Mains : at[r] = "building" => \E p \in Known(r) : Question(p, r)

\* The same, or a summary of it; except where a fold reaches past the question, which
\* a message that waited stands behind (conversation.go, finish).
QuestionsAreAsked ==
  \A r \in Mains : at[r] = "building" =>
    \E p \in DOMAIN history :
      /\ Question(p, r)
      /\ \/ p \in Known(r)
         \/ \E f \in FoldsOf(log) : p <= log[f].through

\* The turns a run has had beyond its allowance are turns whose record was discarded
\* (runtime.go, execute; conversation.go, modelTurns).
OnlyDiscardedTurnsAreFree ==
  \A r \in Runs :
    spent[r] <= MaxTurns + Cardinality({p \in DOMAIN history \ DOMAIN log :
                                          history[p].kind = "said" /\ history[p].run = r})
=============================================================================
