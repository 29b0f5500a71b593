------------------------------- MODULE Replay -------------------------------
(***************************************************************************)
(* The conversation rebuilt from the log on every request                  *)
(* (runtime/conversation.go), and the choice of what to condense of it     *)
(* (runtime/compaction.go).                                                *)
(*                                                                         *)
(* The text of an event is its position, and the text of a summary is the  *)
(* set of positions it was written from: what the model is told is then a  *)
(* set of positions.                                                       *)
(***************************************************************************)
EXTENDS EventLog, Sequences, SequencesExt

CONSTANTS
  Workers,          \* the delegated searches
  MaxFoldsInHead    \* how many folds may stand in front of the conversation

ASSUME ReplayAssumption == MaxFoldsInHead \in Nat \ {0}
------------------------------------------------------------------------------
\* Reading the log

\* What a run may read: a worker its own events, everybody else all but the
\* workers'.
VisibleTo(log, run) ==
  {p \in DOMAIN log : IF run \in Workers THEN log[p].run = run
                                         ELSE log[p].run \notin Workers}

\* The members of a set, each at its rank.
InOrder(members, place) ==
  [i \in 1 .. Cardinality(members) |->
     CHOOSE p \in members : Cardinality({q \in members : place[q] < place[p]}) = i - 1]

Ascending(positions) == InOrder(positions, [p \in positions |-> p])

\* A fold stands until a later one starts at or before its own start.
Standing(log, run) ==
  LET folds == VisibleTo(log, run) \cap FoldsOf(log)
  IN {f \in folds : \A g \in folds : g > f => log[f].from < log[g].from}

Reach(log, run) ==
  LET standing == Standing(log, run)
  IN IF standing = {} THEN 0 ELSE log[Max(standing)].through

\* The events replayed as they were.
Replayed(log, run) == {p \in VisibleTo(log, run) \ FoldsOf(log) : p > Reach(log, run)}

\* A question is held until its run does something, and stands there. A run that
\* ends first never asked it; the run the conversation is for asks it now.
Place(log, run, p, events) ==
  LET deeds == {q \in events : log[q].run = log[p].run /\ log[q].kind # "user"}
  IN IF log[p].kind # "user" THEN 2 * p
     ELSE IF deeds # {} THEN 2 * Min(deeds) - 1
     ELSE 2 * NextSeq(log)

Dropped_Waiting(log, run, p, events) ==  \* mutant: the run it is for has not begun either
  /\ log[p].kind = "user"
  /\ LET deeds == {q \in events : log[q].run = log[p].run /\ log[q].kind # "user"}
     IN deeds = {} \/ log[Min(deeds)].kind = "ended"

Dropped(log, run, p, events) ==
  /\ log[p].kind = "user"
  /\ LET deeds == {q \in events : log[q].run = log[p].run /\ log[q].kind # "user"}
     IN IF deeds = {} THEN log[p].run # run ELSE log[Min(deeds)].kind = "ended"

Shown(log, run) ==
  LET events == Replayed(log, run)
  IN {p \in events : log[p].kind \notin {"running", "ended"} /\ ~Dropped(log, run, p, events)}

\* The events that say something, in the order the model reads them.
Script(log, run) ==
  LET events == Replayed(log, run)
  IN InOrder(Shown(log, run), [p \in events |-> Place(log, run, p, events)])

\* Calls belong to the reply they end in, and results stand together.
SameMessage(log, p, q) ==
  \/ log[p].kind = "call" /\ log[q].kind \in {"call", "said"}
  \/ log[p].kind = "result" /\ log[q].kind = "result"

Role(log, p) == CASE log[p].kind = "user" -> "user"
                  [] log[p].kind = "result" -> "tool"
                  [] OTHER -> "assistant"

FoldMessage(log, f) ==
  [role |-> "fold", from |-> log[f].from, last |-> log[f].through, parts |-> log[f].tells]

\* Where in the script a message ends.
Ends(log, script) ==
  {i \in DOMAIN script : i = Len(script) \/ ~SameMessage(log, script[i], script[i + 1])}

\* The messages a run's next request would carry: every fold that stands, and then
\* the events after the last of them.
Conversation(log, run) ==
  LET script == Script(log, run)
      folds == Ascending(Standing(log, run))
      ends == Ascending(Ends(log, script))
      Verbatim(k) ==
        [role |-> Role(log, script[ends[k]]), from |-> 0, last |-> script[ends[k]],
         parts |-> {script[i] : i \in (IF k = 1 THEN 1 ELSE ends[k - 1] + 1) .. ends[k]}]
  IN [i \in DOMAIN folds |-> FoldMessage(log, folds[i])] \o [k \in DOMAIN ends |-> Verbatim(k)]

Outstanding(log, run) ==
  {p \in DOMAIN log : /\ log[p].kind = "call" /\ log[p].run = run
                      /\ \A q \in DOMAIN log : log[q].kind = "result" => log[q].call # p}

Turns(log, run) == Cardinality({p \in DOMAIN log : log[p].kind = "said" /\ log[p].run = run})
------------------------------------------------------------------------------
\* Choosing what to fold

IsTool(messages, i) == messages[i].role = "tool"

Forward_Anywhere(messages, c) == c  \* mutant: the tail may begin with a tool result

\* The cut moves past results whose call it would fold.
Forward(messages, c) ==
  Min({d \in c .. Len(messages) : d = Len(messages) \/ ~IsTool(messages, d + 1)})

\* Walking back from the end keeps a tail of any length, since messages may have
\* any size; where nothing would be kept, the last turn is.
Cuts(messages) ==
  LET n == Len(messages)
      back == Max({d \in 0 .. n - 1 : d = 0 \/ ~IsTool(messages, d + 1)})
  IN {IF Forward(messages, c) < n THEN Forward(messages, c) ELSE back : c \in 1 .. n}

FoldHead(messages) == Cardinality({i \in DOMAIN messages : messages[i].role = "fold"})

Condenses_Late(messages) ==  \* mutant: one fold too many
  FoldHead(messages) > MaxFoldsInHead

\* Once the folds have piled up, all of them are folded with what comes after.
Condenses(messages) == FoldHead(messages) >= MaxFoldsInHead

FirstTold_NoFolds(messages) ==  \* mutant: what the condensed folds said is left out
  FoldHead(messages) + 1

\* Otherwise a summary is written from events, and never from a summary.
FirstTold(messages) == IF Condenses(messages) THEN 1 ELSE FoldHead(messages) + 1

WorthFolding_Again(log, run, messages, c) ==  \* mutant: a fold may be all there is to fold
  c > 0

WorthFolding(log, run, messages, c) ==
  c > FoldHead(messages) /\ messages[c].last > Reach(log, run)

From_First(log, run, messages) ==  \* mutant: a fold starts where the first message does
  messages[1].from

From(log, run, messages) ==
  IF Condenses(messages) THEN messages[1].from ELSE Reach(log, run) + 1

\* What one compaction might do, given the request it measured.
PlansFor(log, run, messages) ==
  {[from    |-> From(log, run, messages),
    through |-> messages[c].last,
    tells   |-> UNION {messages[i].parts : i \in FirstTold(messages) .. c}] :
   c \in {d \in Cuts(messages) : WorthFolding(log, run, messages, d)}}

Plans(log, run) ==
  UNION {PlansFor(log, run, messages) : messages \in {Conversation(log, run)}}
=============================================================================
