---------------------------- MODULE RunLifecycle ----------------------------
(***************************************************************************)
(* The runtime of the daemon (src/core/internal/runtime): how a turn sent  *)
(* to a session becomes a run, waits its turn, is driven through the agent *)
(* loop, stops for a person, is interrupted, and what is left of it when   *)
(* the process dies and another one starts.                                *)
(*                                                                         *)
(* Three kinds of actor interleave: the goroutine that drives a run (a     *)
(* driver), the requests of clients (a sender, a decider, an interrupter), *)
(* and the process itself, which may stop or be killed at any moment.      *)
(* Every write to the store, and every critical section of the runtime's   *)
(* mutex, is a step of its own.                                            *)
(*                                                                         *)
(* What survives the process is in the variables of "durable"; everything  *)
(* else is memory and is lost with it.                                     *)
(***************************************************************************)
EXTENDS Integers, Sequences, FiniteSets, SequencesExt

CONSTANTS
  Runs,           \* the runs clients may start
  Sessions,       \* the conversations they belong to
  SessionOf,      \* which conversation each run belongs to
  MaxTurns,       \* Options.MaxIterations: model turns one run is allowed
  MaxBatch,       \* bound: the calls one model turn may ask for
  MaxCalls,       \* bound: the calls one run may ask for
  MaxStops,       \* bound: how often the process stops or dies
  Outcomes,       \* what settling an undecided call may come to
  Interruptible,  \* the runs somebody may interrupt
  EagerPeople,    \* TRUE: a decision may arrive before its run has parked
  Vanishing       \* the clients that may go away in the middle of their request

ASSUME LifecycleAssumption ==
  /\ SessionOf \in [Runs -> Sessions]
  /\ MaxTurns \in Nat \ {0}
  /\ MaxBatch \in Nat /\ MaxCalls \in Nat /\ MaxStops \in Nat
  /\ Outcomes \subseteq {"allow", "deny", "approval", "question"}
  /\ Interruptible \subseteq Runs
  /\ EagerPeople \in BOOLEAN /\ Vanishing \subseteq {"sender", "decider", "interrupter"}

Calls == 1 .. MaxCalls

\* A run is driven by one goroutine at a time and by a new one after every
\* pause, so the generations tell the activeRun records of one run apart.
Generations == 1 .. (MaxCalls + 1)
Drivers == Runs \X Generations
RunOf(d) == d[1]
GenOf(d) == d[2]
NoDriver == 0

Terminal == {"completed", "cancelled", "failed"}
Paused == {"awaiting_approval", "awaiting_input"}
Statuses == {"queued", "running"} \cup Paused \cup Terminal
NoRow == "none"

PendingAsk == {"approval", "question"}
SettledAsk == {"allowed", "denied", "answered"}
NoAsk == "none"

\* What a person's reply to each kind of prompt leaves in the store.
Replies(kind) == IF kind = "approval" THEN {"allowed", "denied"} ELSE {"answered"}
PauseFor(kind) == IF kind = "approval" THEN "awaiting_approval" ELSE "awaiting_input"

\* Where a driver is. The two pairs of writing places differ in the context
\* the write is made with: the run's own, which an interruption kills, or one
\* that outlives it (context.WithoutCancel).
Unborn == {"none", "queued"}
Writing == {"row", "event", "lastrow", "lastevent"}
Driving == {"waiting", "loop", "generate", "exec", "record", "prompt", "release"} \cup Writing
Places == Unborn \cup Driving \cup {"handon"}

SenderPlaces == {"idle", "accepted", "created", "spoken", "lining", "recorded",
                 "refused", "done"}
DeciderPlaces == {"idle", "decided", "checked", "done"}
InterrupterPlaces == {"idle", "found", "row", "event", "release", "done"}
Phases == {"up", "stopping", "draining", "down", "recovering"}
Serving == {"up", "stopping", "draining"}

VARIABLES
  row,        \* durable: the status column of each run
  told,       \* durable: the status in the run's last RunStateChanged event
  created,    \* durable: the runs in the order of their CreatedAt
  spoken,     \* durable: the messages in each session's log, by their run
  requested,  \* durable: how many calls the run's log asks for
  completed,  \* durable: how many of them have a result
  turns,      \* durable: model turns in the run's log
  ask,        \* durable: the approval or question of each call
  ran,        \* how often each call reached its tool
  active,     \* the generation tracked for each run, or NoDriver
  born,       \* how many generations of each run this process has made
  line,       \* r.queued: the drivers waiting in each session
  busy,       \* r.busy: the sessions with a run holding the turn
  at,         \* where each driver is
  writing,    \* the status each driver is writing
  owner,      \* activeRun.owner
  dead,       \* drivers whose own context was cancelled
  sender,     \* where the request that starts each run is
  decider,    \* where the request that answers each call is
  interrupter,\* where the request that interrupts each run is
  aim,        \* the generation that request read from r.active
  phase,      \* what the process is doing
  todo,       \* what RecoverOrphanedRuns has still to resolve
  stops       \* how often the process has been asked to stop or has died

durable == <<row, told, created, spoken, requested, completed, turns, ask>>
store == <<row, told>>
history == <<created, spoken, ran>>
loopData == <<requested, completed, turns>>
turnData == <<line, busy, owner>>
drive == <<at, writing, dead>>
clients == <<sender, decider, interrupter, aim>>
process == <<phase, todo, stops>>
vars == <<durable, ran, active, born, turnData, drive, clients, process>>

-----------------------------------------------------------------------------
SessionOfDriver(d) == SessionOf[RunOf(d)]
NextDriver(r) == <<r, born[r] + 1>>
CanBeBorn(r) == born[r] < MaxCalls + 1
Dead(d) == dead[d] \/ phase \in {"stopping", "draining"}
InLine(r) == \E i \in 1 .. Len(line[SessionOf[r]]) : RunOf(line[SessionOf[r]][i]) = r
PositionInLine(r) == CHOOSE i \in 1 .. Len(line[SessionOf[r]]) :
                       RunOf(line[SessionOf[r]][i]) = r
Outstanding(r) == completed[r] < requested[r]
NextCall(r) == completed[r] + 1
HasPendingAsk(r) == \E k \in Calls : ask[r][k] \in PendingAsk

Admitted_AtOnce(r) == TRUE  \* mutant: launch does not wait for the record

\* The admitted channel: open while the wait of the run is not on record.
Admitted(r) == sender[r] \notin {"lining", "recorded"}

Init ==
  /\ row = [r \in Runs |-> NoRow]
  /\ told = [r \in Runs |-> NoRow]
  /\ created = <<>>
  /\ spoken = [s \in Sessions |-> <<>>]
  /\ requested = [r \in Runs |-> 0]
  /\ completed = [r \in Runs |-> 0]
  /\ turns = [r \in Runs |-> 0]
  /\ ask = [r \in Runs |-> [k \in Calls |-> NoAsk]]
  /\ ran = [r \in Runs |-> [k \in Calls |-> 0]]
  /\ active = [r \in Runs |-> NoDriver]
  /\ born = [r \in Runs |-> 0]
  /\ line = [s \in Sessions |-> <<>>]
  /\ busy = {}
  /\ at = [d \in Drivers |-> "none"]
  /\ writing = [d \in Drivers |-> NoRow]
  /\ owner = [d \in Drivers |-> FALSE]
  /\ dead = [d \in Drivers |-> FALSE]
  /\ sender = [r \in Runs |-> "idle"]
  /\ decider = [r \in Runs |-> [k \in Calls |-> "idle"]]
  /\ interrupter = [r \in Runs |-> "idle"]
  /\ aim = [r \in Runs |-> NoDriver]
  /\ phase = "up"
  /\ todo = {}
  /\ stops = 0

\* releaseRun unregisters a driver only while it is still the one tracked.
Untrack(d) ==
  active' = [active EXCEPT ![RunOf(d)] = IF @ = GenOf(d) THEN NoDriver ELSE @]

-----------------------------------------------------------------------------
(***************************************************************************)
(* SendTurnTo: the row, then the message, then the line.                   *)
(***************************************************************************)
SendTurnTo(r) ==
  /\ sender[r] = "idle"
  /\ phase \in {"up", "stopping"}
  /\ sender' = [sender EXCEPT ![r] = "accepted"]
  /\ UNCHANGED <<durable, ran, active, born, turnData, drive, decider,
                 interrupter, aim, process>>

CreateRun(r) ==
  /\ sender[r] = "accepted"
  /\ row' = [row EXCEPT ![r] = "queued"]
  /\ created' = Append(created, r)
  /\ sender' = [sender EXCEPT ![r] = "created"]
  /\ UNCHANGED <<told, spoken, loopData, ask, ran, active, born, turnData,
                 drive, decider, interrupter, aim, process>>

AddUserMessage(r) ==
  /\ sender[r] = "created"
  /\ spoken' = [spoken EXCEPT ![SessionOf[r]] = Append(@, r)]
  /\ sender' = [sender EXCEPT ![r] = "spoken"]
  /\ UNCHANGED <<store, created, loopData, ask, ran, active, born, turnData,
                 drive, decider, interrupter, aim, process>>

\* Tracked from here on, in the line or out of it.
Track(r) ==
  /\ CanBeBorn(r)
  /\ born' = [born EXCEPT ![r] = @ + 1]
  /\ active' = [active EXCEPT ![r] = born[r] + 1]

JoinOrStart_AlwaysStarts(r) ==  \* mutant: nobody waits
  /\ Track(r)
  /\ owner' = [owner EXCEPT ![NextDriver(r)] = TRUE]
  /\ busy' = busy \cup {SessionOf[r]}
  /\ at' = [at EXCEPT ![NextDriver(r)] = "waiting"]
  /\ UNCHANGED line

\* The critical section of admit: one decision between waiting and starting.
JoinOrStart(r) ==
  LET d == NextDriver(r)
      s == SessionOf[r]
  IN  /\ Track(r)
      /\ owner' = [owner EXCEPT ![d] = TRUE]
      /\ IF s \in busy
         THEN /\ line' = [line EXCEPT ![s] = Append(@, d)]
              /\ at' = [at EXCEPT ![d] = "queued"]
              /\ UNCHANGED busy
         ELSE /\ busy' = busy \cup {s}
              /\ at' = [at EXCEPT ![d] = "waiting"]
              /\ UNCHANGED line

Admit(r) ==
  /\ sender[r] = "spoken"
  /\ JoinOrStart(r)
  /\ sender' = [sender EXCEPT ![r] = IF SessionOf[r] \in busy THEN "lining" ELSE "done"]
  /\ UNCHANGED <<durable, ran, writing, dead, decider, interrupter, aim, process>>

RecordWaiting(r) ==
  /\ sender[r] = "lining"
  /\ row' = [row EXCEPT ![r] = "queued"]
  /\ sender' = [sender EXCEPT ![r] = "recorded"]
  /\ UNCHANGED <<told, created, spoken, loopData, ask, ran, active, born, turnData,
                 drive, decider, interrupter, aim, process>>

AnnounceWaiting(r) ==
  /\ sender[r] = "recorded"
  /\ told' = [told EXCEPT ![r] = "queued"]
  /\ sender' = [sender EXCEPT ![r] = "done"]
  /\ UNCHANGED <<row, created, spoken, loopData, ask, ran, active, born, turnData,
                 drive, decider, interrupter, aim, process>>

\* dequeue: out of the line, and no longer the owner of a turn it never held.
LeaveLine(r) ==
  LET s == SessionOf[r]
      d == line[s][PositionInLine(r)]
  IN  /\ line' = [line EXCEPT ![s] = RemoveAt(@, PositionInLine(r))]
      /\ owner' = [owner EXCEPT ![d] = FALSE]
      /\ at' = [at EXCEPT ![d] = "none"]
      /\ dead' = [dead EXCEPT ![d] = TRUE]

\* The sender's context ends before its wait is recorded: admit takes the run
\* out of the line, if it is still there, and returns the error.
WaitNotRecorded(r) ==
  /\ "sender" \in Vanishing
  /\ sender[r] \in {"lining", "recorded"}
  /\ \/ /\ InLine(r)
        /\ LeaveLine(r)
        /\ Untrack(line[SessionOf[r]][PositionInLine(r)])
        /\ sender' = [sender EXCEPT ![r] = "refused"]
     \/ /\ ~InLine(r)
        /\ sender' = [sender EXCEPT ![r] = "done"]
        /\ UNCHANGED <<line, owner, at, dead, active>>
  /\ UNCHANGED <<durable, ran, born, busy, writing, decider, interrupter, aim, process>>

\* The same earlier on: the row is there, or not even that.
SendFails(r) ==
  /\ "sender" \in Vanishing
  /\ sender[r] \in {"accepted", "created"}
  /\ sender' = [sender EXCEPT ![r] = "done"]
  /\ UNCHANGED <<durable, ran, active, born, turnData, drive, decider,
                 interrupter, aim, process>>

Sender(r) ==
  \/ SendTurnTo(r) \/ CreateRun(r) \/ AddUserMessage(r) \/ Admit(r)
  \/ RecordWaiting(r) \/ AnnounceWaiting(r) \/ WaitNotRecorded(r) \/ SendFails(r)

-----------------------------------------------------------------------------
(***************************************************************************)
(* The goroutine that drives a run: launch, execute, runTools, finish.     *)
(***************************************************************************)
Goto(d, place) == at' = [at EXCEPT ![d] = place]

WriteNext(d, status, place) ==
  /\ Goto(d, place)
  /\ writing' = [writing EXCEPT ![d] = status]

\* finishFromError under a cancelled context.
Abandon(d) == WriteNext(d, "cancelled", "lastrow")

outsideLoop == <<durable, ran, active, born, turnData, dead, clients, process>>

\* launch: not before the run's wait is on record.
Begin(d) ==
  /\ at[d] = "waiting"
  /\ Admitted(RunOf(d))
  /\ IF Dead(d) THEN Abandon(d) ELSE Goto(d, "loop") /\ UNCHANGED writing
  /\ UNCHANGED outsideLoop

\* The head of the loop under a dead context: reading the log fails.
Stopped(d) ==
  /\ at[d] = "loop"
  /\ Dead(d)
  /\ Abandon(d)
  /\ UNCHANGED outsideLoop

AtCall(d) ==
  /\ at[d] = "loop"
  /\ ~Dead(d)
  /\ Outstanding(RunOf(d))

AskOf(d) == ask[RunOf(d)][NextCall(RunOf(d))]

SettleByRunning_AnyReply(d) ==  \* mutant: a settled approval is taken for a yes
  /\ AtCall(d)
  /\ AskOf(d) \in {"allowed", "denied"} \/ (AskOf(d) = NoAsk /\ "allow" \in Outcomes)
  /\ Goto(d, "exec")
  /\ UNCHANGED <<writing, outsideLoop>>

SettleByRunning(d) ==
  /\ AtCall(d)
  /\ \/ AskOf(d) = "allowed"
     \/ AskOf(d) = NoAsk /\ "allow" \in Outcomes
  /\ Goto(d, "exec")
  /\ UNCHANGED <<writing, outsideLoop>>

SettleWithoutRunning(d) ==
  /\ AtCall(d)
  /\ \/ AskOf(d) \in {"denied", "answered"}
     \/ AskOf(d) = NoAsk /\ "deny" \in Outcomes
  /\ Goto(d, "record")
  /\ UNCHANGED <<writing, outsideLoop>>

\* requestApproval and askQuestion put the prompt in the store; one that is
\* waiting there already is not asked twice.
Prompts(d) == IF AskOf(d) = NoAsk THEN PendingAsk \cap Outcomes
                                  ELSE PendingAsk \cap {AskOf(d)}
Ask(d) ==
  /\ AtCall(d)
  /\ \E kind \in Prompts(d) :
       /\ ask' = [ask EXCEPT ![RunOf(d)][NextCall(RunOf(d))] = kind]
       /\ WriteNext(d, PauseFor(kind), IF AskOf(d) = NoAsk THEN "prompt" ELSE "row")
  /\ UNCHANGED <<store, history, loopData, active, born, turnData, dead,
                 clients, process>>

\* The event that shows the prompt; then the run parks, and the calls after
\* this one stay outstanding.
Park(d) ==
  /\ at[d] = "prompt"
  /\ IF Dead(d) THEN Abandon(d) ELSE Goto(d, "row") /\ UNCHANGED writing
  /\ UNCHANGED outsideLoop

Execute(d) ==
  LET r == RunOf(d) IN
  /\ at[d] = "exec"
  /\ ran' = [ran EXCEPT ![r][NextCall(r)] = @ + 1]
  /\ Goto(d, "record")
  /\ UNCHANGED <<durable, active, born, turnData, writing, dead, clients, process>>

RecordResult(d) ==
  LET r == RunOf(d) IN
  /\ at[d] = "record"
  /\ IF Dead(d)
     THEN Abandon(d) /\ UNCHANGED completed
     ELSE /\ completed' = [completed EXCEPT ![r] = @ + 1]
          /\ Goto(d, "loop")
          /\ UNCHANGED writing
  /\ UNCHANGED <<store, history, requested, turns, ask, active, born,
                 turnData, dead, clients, process>>

\* Nothing outstanding: the turn budget, the first turn's Running, or a turn.
NextTurn(d) ==
  LET r == RunOf(d) IN
  /\ at[d] = "loop"
  /\ ~Dead(d)
  /\ ~Outstanding(r)
  /\ \/ turns[r] >= MaxTurns /\ WriteNext(d, "failed", "row")
     \/ turns[r] = 0 /\ WriteNext(d, "running", "row")
     \/ turns[r] \in 1 .. MaxTurns - 1 /\ Goto(d, "generate") /\ UNCHANGED writing
  /\ UNCHANGED outsideLoop

\* generateTurn: the model asks for some calls, or for none and is done.
Generate(d) ==
  LET r == RunOf(d) IN
  /\ at[d] = "generate"
  /\ ~Dead(d)
  /\ turns' = [turns EXCEPT ![r] = @ + 1]
  /\ \E n \in 0 .. MaxBatch :
       /\ requested[r] + n <= MaxCalls
       /\ requested' = [requested EXCEPT ![r] = @ + n]
       /\ IF n = 0 THEN WriteNext(d, "completed", "row")
                   ELSE Goto(d, "loop") /\ UNCHANGED writing
  /\ UNCHANGED <<store, history, completed, ask, active, born, turnData,
                 dead, clients, process>>

GenerateFails(d) ==
  /\ at[d] = "generate"
  /\ IF Dead(d) THEN Abandon(d) ELSE WriteNext(d, "failed", "lastrow")
  /\ UNCHANGED outsideLoop

\* transition under the run's own context. A write that fails because the run
\* was cancelled is only logged, except the one that says it is running.
WriteFailed(d) ==
  IF writing[d] = "running" THEN WriteNext(d, "failed", "lastrow")
                            ELSE Goto(d, "release") /\ UNCHANGED writing

WriteRow_Ignored(d) ==  \* mutant: the row's error is ignored, the event follows
  /\ at[d] = "row"
  /\ Goto(d, "event")
  /\ row' = IF Dead(d) \/ writing[d] = "completed" THEN row
            ELSE [row EXCEPT ![RunOf(d)] = writing[d]]
  /\ UNCHANGED <<told, history, loopData, ask, active, born, turnData, writing, dead,
                 clients, process>>

WriteRow(d) ==
  /\ at[d] = "row"
  /\ IF Dead(d)
     THEN WriteFailed(d) /\ UNCHANGED row
     ELSE /\ row' = [row EXCEPT ![RunOf(d)] = writing[d]]
          /\ Goto(d, "event")
          /\ UNCHANGED writing
  /\ UNCHANGED <<told, history, loopData, ask, active, born, turnData, dead,
                 clients, process>>

WriteEvent(d) ==
  /\ at[d] = "event"
  /\ IF Dead(d)
     THEN WriteFailed(d) /\ UNCHANGED told
     ELSE /\ told' = [told EXCEPT ![RunOf(d)] = writing[d]]
          /\ Goto(d, IF writing[d] = "running" THEN "generate" ELSE "release")
          /\ UNCHANGED writing
  /\ UNCHANGED <<row, history, loopData, ask, active, born, turnData, dead,
                 clients, process>>

WriteLastRow(d) ==
  /\ at[d] = "lastrow"
  /\ row' = [row EXCEPT ![RunOf(d)] = writing[d]]
  /\ Goto(d, "lastevent")
  /\ UNCHANGED <<told, history, loopData, ask, active, born, turnData,
                 writing, dead, clients, process>>

WriteLastEvent(d) ==
  /\ at[d] = "lastevent"
  /\ told' = [told EXCEPT ![RunOf(d)] = writing[d]]
  /\ Goto(d, "release")
  /\ UNCHANGED <<row, history, loopData, ask, active, born, turnData,
                 writing, dead, clients, process>>

Release_KeepsTurn(d) ==  \* mutant: next is never called
  /\ at[d] = "release"
  /\ Untrack(d)
  /\ Goto(d, "none")
  /\ UNCHANGED <<durable, ran, born, turnData, writing, dead, clients, process>>

\* releaseRun, first critical section: no longer tracked.
Release(d) ==
  /\ at[d] = "release"
  /\ Untrack(d)
  /\ Goto(d, IF owner[d] THEN "handon" ELSE "none")
  /\ UNCHANGED <<durable, ran, born, turnData, writing, dead, clients, process>>

HandOn_KeepsHead(d) ==  \* mutant: the run that starts is not taken off the line
  LET s == SessionOfDriver(d) IN
  /\ at[d] = "handon"
  /\ IF line[s] = <<>>
     THEN busy' = busy \ {s} /\ Goto(d, "none")
     ELSE /\ at' = [at EXCEPT ![d] = "none", ![Head(line[s])] = "waiting"]
          /\ UNCHANGED busy
  /\ UNCHANGED <<durable, ran, active, born, line, owner, writing, dead, clients, process>>

\* releaseRun, second critical section: next, and launch of what it returns.
HandOn(d) ==
  LET s == SessionOfDriver(d) IN
  /\ at[d] = "handon"
  /\ IF line[s] = <<>>
     THEN /\ busy' = busy \ {s}
          /\ Goto(d, "none")
          /\ UNCHANGED line
     ELSE /\ line' = [line EXCEPT ![s] = Tail(@)]
          /\ at' = [at EXCEPT ![d] = "none", ![Head(line[s])] = "waiting"]
          /\ UNCHANGED busy
  /\ UNCHANGED <<durable, ran, active, born, owner, writing, dead, clients, process>>

Driver(d) ==
  \/ Begin(d) \/ Stopped(d)
  \/ SettleByRunning(d) \/ SettleWithoutRunning(d) \/ Ask(d) \/ Park(d)
  \/ Execute(d) \/ RecordResult(d)
  \/ NextTurn(d) \/ Generate(d) \/ GenerateFails(d)
  \/ WriteRow(d) \/ WriteEvent(d) \/ WriteLastRow(d) \/ WriteLastEvent(d)
  \/ Release(d) \/ HandOn(d)

-----------------------------------------------------------------------------
(***************************************************************************)
(* DecideApproval and AnswerQuestion: settle in the store, then resume.    *)
(***************************************************************************)
Decide(r, k) ==
  /\ decider[r][k] = "idle"
  /\ phase \in Serving
  /\ ask[r][k] \in PendingAsk
  /\ EagerPeople \/ active[r] = NoDriver
  /\ \E reply \in Replies(ask[r][k]) : ask' = [ask EXCEPT ![r][k] = reply]
  /\ decider' = [decider EXCEPT ![r][k] = "decided"]
  /\ UNCHANGED <<store, history, loopData, active, born, turnData, drive,
                 sender, interrupter, aim, process>>

\* The decision is on record and the request is gone before resume.
DeciderVanishes(r, k) ==
  /\ "decider" \in Vanishing
  /\ decider[r][k] = "decided"
  /\ decider' = [decider EXCEPT ![r][k] = "done"]
  /\ UNCHANGED <<durable, ran, active, born, turnData, drive, sender,
                 interrupter, aim, process>>

CheckResume_Blind(r, k) ==  \* mutant: resume does not look at r.active
  /\ decider[r][k] = "decided"
  /\ decider' = [decider EXCEPT ![r][k] = "checked"]
  /\ UNCHANGED <<durable, ran, active, born, turnData, drive, sender,
                 interrupter, aim, process>>

\* resume, first critical section: refuse while draining, and leave a run
\* that is already moving alone.
CheckResume(r, k) ==
  /\ decider[r][k] = "decided"
  /\ decider' = [decider EXCEPT ![r][k] =
                   IF phase = "draining" \/ active[r] # NoDriver
                   THEN "done" ELSE "checked"]
  /\ UNCHANGED <<durable, ran, active, born, turnData, drive, sender,
                 interrupter, aim, process>>

Resume_Owning(r, k) ==  \* mutant: a resumed run releases a turn it never held
  /\ decider[r][k] = "checked"
  /\ decider' = [decider EXCEPT ![r][k] = "done"]
  /\ IF row[r] \in Terminal \/ HasPendingAsk(r)
     THEN UNCHANGED <<active, born, at, owner>>
     ELSE /\ Track(r)
          /\ at' = [at EXCEPT ![NextDriver(r)] = "loop"]
          /\ owner' = [owner EXCEPT ![NextDriver(r)] = TRUE]
  /\ UNCHANGED <<durable, ran, line, busy, writing, dead, sender,
                 interrupter, aim, process>>

Resume_NotPaused(r, k) ==  \* mutant: a paused run is taken for one that is over
  /\ row[r] \in Terminal \cup Paused
  /\ decider[r][k] = "checked"
  /\ decider' = [decider EXCEPT ![r][k] = "done"]
  /\ UNCHANGED <<durable, ran, active, born, turnData, drive, sender,
                 interrupter, aim, process>>

\* resume, after it: nothing for a run that is over or still waiting on
\* another prompt; otherwise a new driver, which does not own the turn.
Resume(r, k) ==
  /\ decider[r][k] = "checked"
  /\ decider' = [decider EXCEPT ![r][k] = "done"]
  /\ IF row[r] \in Terminal \/ HasPendingAsk(r)
     THEN UNCHANGED <<active, born, at, owner>>
     ELSE /\ Track(r)
          /\ at' = [at EXCEPT ![NextDriver(r)] = "loop"]
          /\ owner' = [owner EXCEPT ![NextDriver(r)] = FALSE]
  /\ UNCHANGED <<durable, ran, line, busy, writing, dead, sender,
                 interrupter, aim, process>>

Decider(r, k) ==
  Decide(r, k) \/ DeciderVanishes(r, k) \/ CheckResume(r, k) \/ Resume(r, k)

-----------------------------------------------------------------------------
(***************************************************************************)
(* InterruptRun.                                                           *)
(***************************************************************************)
\* A run that is over, or that nothing tracks, is only reported back.
InterruptRun(r) ==
  /\ r \in Interruptible
  /\ interrupter[r] = "idle"
  /\ phase \in Serving
  /\ row[r] \notin Terminal \cup {NoRow}
  /\ active[r] # NoDriver
  /\ aim' = [aim EXCEPT ![r] = active[r]]
  /\ interrupter' = [interrupter EXCEPT ![r] = "found"]
  /\ UNCHANGED <<durable, ran, active, born, turnData, drive, sender, decider, process>>

TakeOutOfLine_Stays(r) ==  \* mutant: finished by the request and left in line
  /\ interrupter[r] = "found"
  /\ InLine(r)
  /\ interrupter' = [interrupter EXCEPT ![r] = "row"]
  /\ UNCHANGED <<durable, ran, active, born, turnData, drive, sender, decider, aim, process>>

\* Still in line: taken out of it, and finished by this request.
TakeOutOfLine(r) ==
  /\ interrupter[r] = "found"
  /\ InLine(r)
  /\ LeaveLine(r)
  /\ interrupter' = [interrupter EXCEPT ![r] = "row"]
  /\ UNCHANGED <<durable, ran, active, born, busy, writing, sender, decider, aim, process>>

\* Not in line: told to stop, and left to write its own ending.
CancelDriver(r) ==
  /\ interrupter[r] = "found"
  /\ ~InLine(r)
  /\ dead' = [dead EXCEPT ![<<r, aim[r]>>] = TRUE]
  /\ interrupter' = [interrupter EXCEPT ![r] = "done"]
  /\ UNCHANGED <<durable, ran, active, born, turnData, at, writing, sender,
                 decider, aim, process>>

WriteInterruptedRow(r) ==
  /\ interrupter[r] = "row"
  /\ row' = [row EXCEPT ![r] = "cancelled"]
  /\ interrupter' = [interrupter EXCEPT ![r] = "event"]
  /\ UNCHANGED <<told, history, loopData, ask, active, born, turnData, drive,
                 sender, decider, aim, process>>

WriteInterruptedEvent(r) ==
  /\ interrupter[r] = "event"
  /\ told' = [told EXCEPT ![r] = "cancelled"]
  /\ interrupter' = [interrupter EXCEPT ![r] = "release"]
  /\ UNCHANGED <<row, history, loopData, ask, active, born, turnData, drive,
                 sender, decider, aim, process>>

\* finish is made with the context of the request: when the client has gone it
\* fails, which is only logged, and the run is released all the same.
InterruptNotRecorded(r) ==
  /\ "interrupter" \in Vanishing
  /\ interrupter[r] \in {"row", "event"}
  /\ interrupter' = [interrupter EXCEPT ![r] = "release"]
  /\ UNCHANGED <<durable, ran, active, born, turnData, drive, sender, decider, aim, process>>

ReleaseInterrupted(r) ==
  /\ interrupter[r] = "release"
  /\ Untrack(<<r, aim[r]>>)
  /\ interrupter' = [interrupter EXCEPT ![r] = "done"]
  /\ UNCHANGED <<durable, ran, born, turnData, drive, sender, decider, aim, process>>

Interrupter(r) ==
  \/ InterruptRun(r) \/ TakeOutOfLine(r) \/ CancelDriver(r)
  \/ WriteInterruptedRow(r) \/ WriteInterruptedEvent(r) \/ InterruptNotRecorded(r)
  \/ ReleaseInterrupted(r)

-----------------------------------------------------------------------------
(***************************************************************************)
(* The process: a signal, the drain, death, and the start of the next one. *)
(***************************************************************************)
\* A signal ends the context every run descends from.
Signal ==
  /\ phase = "up"
  /\ stops < MaxStops
  /\ phase' = "stopping"
  /\ stops' = stops + 1
  /\ UNCHANGED <<durable, ran, active, born, turnData, drive, clients, todo>>

Drain ==
  /\ phase = "stopping"
  /\ phase' = "draining"
  /\ UNCHANGED <<durable, ran, active, born, turnData, drive, clients, todo, stops>>

Gone(place) == IF place \in {"idle", "refused"} THEN place ELSE "done"

\* The end of the process: memory is lost, and the requests it was answering.
Vanish ==
  /\ phase' = "down"
  /\ todo' = {}
  /\ active' = [r \in Runs |-> NoDriver]
  /\ born' = [r \in Runs |-> 0]
  /\ line' = [s \in Sessions |-> <<>>]
  /\ busy' = {}
  /\ at' = [d \in Drivers |-> "none"]
  /\ writing' = [d \in Drivers |-> NoRow]
  /\ owner' = [d \in Drivers |-> FALSE]
  /\ dead' = [d \in Drivers |-> FALSE]
  /\ sender' = [r \in Runs |-> Gone(sender[r])]
  /\ decider' = [r \in Runs |-> [k \in Calls |-> Gone(decider[r][k])]]
  /\ interrupter' = [r \in Runs |-> Gone(interrupter[r])]
  /\ aim' = [r \in Runs |-> NoDriver]
  /\ UNCHANGED <<durable, ran>>

Crash ==
  /\ phase \in {"up", "recovering"}
  /\ stops < MaxStops
  /\ stops' = stops + 1
  /\ Vanish

\* After a signal the process ends when its runs have, or at a deadline, or
\* because it is killed first.
Exit ==
  /\ phase \in {"stopping", "draining"}
  /\ Vanish
  /\ UNCHANGED stops

StartRecovery_OnlyRunning ==  \* mutant: the runs that never started are passed over
  /\ phase = "down"
  /\ phase' = "recovering"
  /\ todo' = {r \in Runs : row[r] = "running"}
  /\ UNCHANGED <<durable, ran, active, born, turnData, drive, clients, stops>>

\* RecoverOrphanedRuns reads the unfinished runs once; a paused one is left
\* alone.
StartRecovery ==
  /\ phase = "down"
  /\ phase' = "recovering"
  /\ todo' = {r \in Runs : row[r] \in {"queued", "running"}}
  /\ UNCHANGED <<durable, ran, active, born, turnData, drive, clients, stops>>

EarlierWaiting(r) ==
  {q \in todo : /\ row[q] = "queued"
                /\ \E i, j \in DOMAIN created : i < j /\ created[i] = q /\ created[j] = r}

\* A run that never started goes back in line, oldest first.
Requeue(r) ==
  /\ phase = "recovering"
  /\ r \in todo
  /\ row[r] = "queued"
  /\ EarlierWaiting(r) = {}
  /\ JoinOrStart(r)
  /\ IF SessionOf[r] \in busy
     THEN told' = [told EXCEPT ![r] = "queued"]
     ELSE UNCHANGED told
  /\ todo' = todo \ {r}
  /\ UNCHANGED <<row, created, spoken, loopData, ask, ran, writing, dead, clients,
                 phase, stops>>

\* A run that was executing is failed: the row, then the event.
FailOrphanRow(r) ==
  /\ phase = "recovering"
  /\ r \in todo
  /\ row[r] = "running"
  /\ \A q \in todo : row[q] # "queued"
  /\ row' = [row EXCEPT ![r] = "failed"]
  /\ UNCHANGED <<told, created, spoken, loopData, ask, ran, active, born, turnData,
                 drive, clients, process>>

FailOrphanEvent(r) ==
  /\ phase = "recovering"
  /\ r \in todo
  /\ row[r] = "failed"
  /\ told' = [told EXCEPT ![r] = "failed"]
  /\ todo' = todo \ {r}
  /\ UNCHANGED <<row, created, spoken, loopData, ask, ran, active, born, turnData,
                 drive, clients, phase, stops>>

\* Only now does the daemon listen for requests.
Serve ==
  /\ phase = "recovering"
  /\ todo = {}
  /\ phase' = "up"
  /\ UNCHANGED <<durable, ran, active, born, turnData, drive, clients, todo, stops>>

Recovery ==
  \/ StartRecovery \/ Serve
  \/ \E r \in Runs : Requeue(r) \/ FailOrphanRow(r) \/ FailOrphanEvent(r)

Process == Signal \/ Drain \/ Crash \/ Exit \/ Recovery

-----------------------------------------------------------------------------
Next ==
  \/ \E r \in Runs : Sender(r) \/ Interrupter(r) \/ \E k \in Calls : Decider(r, k)
  \/ \E d \in Drivers : Driver(d)
  \/ Process

Spec == Init /\ [][Next]_vars

\* The Go scheduler runs every goroutine that can run, requests are answered,
\* a stopped daemon is started again. Whether a person ever sends, decides or
\* interrupts is up to them, and so is when a process dies.
Fairness ==
  /\ \A d \in Drivers : WF_vars(Driver(d))
  /\ \A r \in Runs :
       /\ WF_vars(CreateRun(r) \/ AddUserMessage(r) \/ Admit(r)
                  \/ RecordWaiting(r) \/ AnnounceWaiting(r))
       /\ WF_vars(TakeOutOfLine(r) \/ CancelDriver(r) \/ WriteInterruptedRow(r)
                  \/ WriteInterruptedEvent(r) \/ ReleaseInterrupted(r))
       /\ \A k \in Calls : WF_vars(CheckResume(r, k) \/ Resume(r, k))
  /\ WF_vars(Drain \/ Exit)
  /\ WF_vars(Recovery)

FairSpec == Spec /\ Fairness

-----------------------------------------------------------------------------
TypeOK ==
  /\ row \in [Runs -> Statuses \cup {NoRow}]
  /\ told \in [Runs -> Statuses \cup {NoRow}]
  /\ created \in Seq(Runs)
  /\ spoken \in [Sessions -> Seq(Runs)]
  /\ requested \in [Runs -> 0 .. MaxCalls]
  /\ completed \in [Runs -> Nat]
  /\ turns \in [Runs -> Nat]
  /\ ask \in [Runs -> [Calls -> PendingAsk \cup SettledAsk \cup {NoAsk}]]
  /\ ran \in [Runs -> [Calls -> Nat]]
  /\ active \in [Runs -> Generations \cup {NoDriver}]
  /\ born \in [Runs -> 0 .. MaxCalls + 1]
  /\ line \in [Sessions -> Seq(Drivers)]
  /\ busy \in SUBSET Sessions
  /\ at \in [Drivers -> Places]
  /\ writing \in [Drivers -> Statuses \cup {NoRow}]
  /\ owner \in [Drivers -> BOOLEAN]
  /\ dead \in [Drivers -> BOOLEAN]
  /\ sender \in [Runs -> SenderPlaces]
  /\ decider \in [Runs -> [Calls -> DeciderPlaces]]
  /\ interrupter \in [Runs -> InterrupterPlaces]
  /\ aim \in [Runs -> Generations \cup {NoDriver}]
  /\ phase \in Phases
  /\ todo \in SUBSET Runs
  /\ stops \in 0 .. MaxStops
-----------------------------------------------------------------------------
(***************************************************************************)
(* What the runtime keeps true.                                            *)
(***************************************************************************)
Holders(s) == {d \in Drivers : SessionOfDriver(d) = s /\ owner[d] /\ at[d] \notin Unborn}

\* releaseRun and next never lose a session's turn and never hand it to two:
\* a busy session has exactly one driver that will hand it on, an idle one
\* has none and nobody in line.
TurnHeldOnce ==
  \A s \in Sessions :
    /\ s \in busy <=> Holders(s) # {}
    /\ \A c, d \in Holders(s) : c = d
    /\ s \notin busy => line[s] = <<>>

\* Whoever is in line is tracked, alive for InterruptRun to find, waiting to
\* own the turn, and in line once.
LineIsTracked ==
  \A s \in Sessions : \A i \in 1 .. Len(line[s]) :
    LET d == line[s][i] IN
    /\ SessionOfDriver(d) = s
    /\ at[d] = "queued" /\ owner[d]
    /\ active[RunOf(d)] = GenOf(d)
    /\ \A j \in 1 .. Len(line[s]) : line[s][j] = d => j = i

\* What keeps the two true from step to step: a driver not made yet does
\* nothing; only an owner hands on; a run that was not admitted has no driver,
\* prompt or request against it; a restarted process has no request open and
\* no driver for what it has still to recover; and a request that is finishing
\* or resuming a run knows that the run is not in line.
UnbornDriversRest == \A d \in Drivers : GenOf(d) > born[RunOf(d)] => at[d] = "none"

OwnersHandOn == \A d \in Drivers : at[d] = "handon" => owner[d]

BeforeAdmit == {"idle", "accepted", "created", "spoken"}
UnadmittedRunsUntouched ==
  \A r \in Runs : sender[r] \in BeforeAdmit =>
    /\ born[r] = 0 /\ active[r] = NoDriver /\ interrupter[r] = "idle"
    /\ sender[r] \in {"idle", "accepted"} => row[r] = NoRow
    /\ \A k \in Calls : ask[r][k] = NoAsk /\ decider[r][k] = "idle"

QuietUntilServing ==
  /\ phase \in {"down", "recovering"} =>
       \A r \in Runs : /\ sender[r] \in {"idle", "refused", "done"}
                       /\ interrupter[r] \in {"idle", "done"}
                       /\ \A k \in Calls : decider[r][k] \in {"idle", "done"}
  /\ phase = "down" => \A r \in Runs : born[r] = 0
  /\ \A r \in todo : phase = "recovering" /\ born[r] = 0 /\ sender[r] # "idle"

LeftTheLine ==
  \A r \in Runs :
    \/ interrupter[r] \in {"row", "event", "release"}
    \/ \E k \in Calls : decider[r][k] = "checked"
    => ~InLine(r)

TurnInv ==
  /\ TypeOK /\ TurnHeldOnce /\ LineIsTracked
  /\ UnbornDriversRest /\ OwnersHandOn /\ UnadmittedRunsUntouched
  /\ QuietUntilServing /\ LeftTheLine

\* Two answers, an answer and a recovery, or a retry never set two goroutines
\* going on one run (approval.go, "only the first should start it moving").
OneDriverPerRun ==
  \A r \in Runs : \A g, h \in Generations :
    at[<<r, g>>] \in Driving /\ at[<<r, h>>] \in Driving => g = h

\* A call somebody was asked about reaches its tool only after a yes, and no
\* crash, resumption or restart makes it reach the tool twice.
ToolsRunOnceAndAllowed ==
  \A r \in Runs : \A k \in Calls :
    /\ ran[r][k] <= 1
    /\ ran[r][k] = 1 => ask[r][k] \in {NoAsk, "allowed"}

\* A row never leaves a state domain.IsTerminal calls final.
EndingStands == [][\A r \in Runs : row[r] \in Terminal => row'[r] = row[r]]_vars

\* transition: a client that sees the event and queries the run at once finds
\* the state the event announced.
RowBeforeEvent == [][\A r \in Runs : told'[r] # told[r] => told'[r] = row[r]]_vars

\* Every turn that is in the store ends, or waits for a person who can see the
\* prompt: nothing is left marked as moving with nobody to move it
\* (runtime.go:322-331, RecoverOrphanedRuns), as long as no client interrupts it.
Settled(r) == row[r] \in Terminal \/ (row[r] \in Paused /\ HasPendingAsk(r))
IsResolved(r) == (row[r] \notin Terminal \cup {NoRow}) ~> Settled(r)
NoRunStranded == \A r \in Runs \ Interruptible : IsResolved(r)

\* A person's answer is acted on: the call gets its result, or the run ends.
DecisionMovesRun ==
  \A r \in Runs : \A k \in Calls :
    (ask[r][k] \in SettledAsk) ~> (completed[r] >= k \/ row[r] \in Terminal)

\* Whoever waits in line gets its turn or leaves.
LineMoves == \A d \in Drivers : (at[d] = "queued") ~> (at[d] # "queued")

\* The line and its turn, seen as TurnTaking.
NoHolder == <<>>
HolderOf(s) == IF Holders(s) = {} THEN NoHolder ELSE CHOOSE d \in Holders(s) : TRUE
Turn == INSTANCE TurnTaking WITH
          Tickets <- Drivers,
          Nobody <- NoHolder,
          holder <- [s \in Sessions |-> HolderOf(s)],
          waiting <- line
TakesTurns == Turn!TurnSpec

-----------------------------------------------------------------------------
(***************************************************************************)
(* What the comments, tests and docs say and the code does not keep.       *)
(***************************************************************************)
\* runtime.go:762: however a run ends, an interruption included, the store has a
\* record of it.
InterruptedRunsEnd == \A r \in Interruptible : IsResolved(r)
=============================================================================
