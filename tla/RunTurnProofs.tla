---------------------------- MODULE RunTurnProofs ----------------------------
(***************************************************************************)
(* The types of the runtime's state, and a session's turn and its line:    *)
(* TurnInv is inductive, so the turn is held once and the line is tracked  *)
(* for any number of runs, sessions, calls and restarts.                   *)
(***************************************************************************)
EXTENDS RunLifecycle, TLAPS

USE LifecycleAssumption DEF LifecycleAssumption

LEMMA DriverParts ==
  ASSUME NEW d \in Drivers
  PROVE  /\ RunOf(d) \in Runs /\ GenOf(d) \in Generations
         /\ SessionOfDriver(d) \in Sessions
         /\ d = <<RunOf(d), GenOf(d)>>
  BY DEF Drivers, RunOf, GenOf, SessionOfDriver

LEMMA RemoveAtType ==
  ASSUME NEW S, NEW q \in Seq(S), NEW i \in 1 .. Len(q)
  PROVE  /\ RemoveAt(q, i) \in Seq(S)
         /\ Len(RemoveAt(q, i)) = Len(q) - 1
         /\ \A j \in 1 .. Len(q) - 1 :
              RemoveAt(q, i)[j] = IF j < i THEN q[j] ELSE q[j + 1]
  <1> DEFINE a == SubSeq(q, 1, i - 1)
             b == SubSeq(q, i + 1, Len(q))
  <1>1. a \in Seq(S) /\ Len(a) = i - 1 /\ \A j \in 1 .. i - 1 : a[j] = q[j]
    OBVIOUS
  <1>2. b \in Seq(S) /\ Len(b) = Len(q) - i /\ \A j \in 1 .. Len(q) - i : b[j] = q[i + j]
    OBVIOUS
  <1>3. RemoveAt(q, i) = a \o b
    BY DEF RemoveAt
  <1> HIDE DEF a, b
  <1>4. a \o b \in Seq(S) /\ Len(a \o b) = Len(q) - 1
    BY <1>1, <1>2
  <1>5. \A j \in 1 .. Len(q) - 1 : (a \o b)[j] = IF j < i THEN q[j] ELSE q[j + 1]
    BY <1>1, <1>2
  <1> QED BY <1>3, <1>4, <1>5

LEMMA NextDriverType ==
  ASSUME TypeOK, NEW r \in Runs, CanBeBorn(r)
  PROVE  /\ NextDriver(r) \in Drivers
         /\ RunOf(NextDriver(r)) = r
         /\ GenOf(NextDriver(r)) = born[r] + 1
  BY DEF TypeOK, CanBeBorn, NextDriver, Drivers, Generations, RunOf, GenOf

LEMMA InLineType ==
  ASSUME TypeOK, NEW r \in Runs, InLine(r)
  PROVE  LET p == PositionInLine(r)
             s == SessionOf[r]
         IN  /\ s \in Sessions
             /\ p \in 1 .. Len(line[s])
             /\ RunOf(line[s][p]) = r
             /\ line[s][p] \in Drivers
  <1>1. /\ SessionOf[r] \in Sessions
        /\ line[SessionOf[r]] \in Seq(Drivers)
    BY DEF TypeOK
  <1>2. /\ PositionInLine(r) \in 1 .. Len(line[SessionOf[r]])
        /\ RunOf(line[SessionOf[r]][PositionInLine(r)]) = r
    BY Zenon DEF InLine, PositionInLine
  <1>3. line[SessionOf[r]][PositionInLine(r)] \in Drivers
    BY <1>1, <1>2
  <1> QED BY <1>1, <1>2, <1>3

-----------------------------------------------------------------------------
(***************************************************************************)
(* Types.                                                                  *)
(***************************************************************************)
LEMMA LeaveLineType ==
  ASSUME TypeOK, NEW r \in Runs, InLine(r), LeaveLine(r)
  PROVE  /\ line' \in [Sessions -> Seq(Drivers)]
         /\ owner' \in [Drivers -> BOOLEAN]
         /\ at' \in [Drivers -> Places]
         /\ dead' \in [Drivers -> BOOLEAN]
  <1> DEFINE s == SessionOf[r]
             p == PositionInLine(r)
  <1>1. s \in Sessions /\ p \in 1 .. Len(line[s]) /\ line[s][p] \in Drivers
    BY InLineType
  <1>2. line[s] \in Seq(Drivers)
    BY <1>1 DEF TypeOK
  <1>3. RemoveAt(line[s], p) \in Seq(Drivers)
    BY <1>1, <1>2, RemoveAtType
  <1>4. line' = [line EXCEPT ![s] = RemoveAt(line[s], p)]
    BY DEF LeaveLine
  <1>5. line' \in [Sessions -> Seq(Drivers)]
    BY <1>1, <1>3, <1>4 DEF TypeOK
  <1>6. owner' \in [Drivers -> BOOLEAN]
    BY <1>1 DEF TypeOK, LeaveLine
  <1>7. at' \in [Drivers -> Places]
    BY <1>1 DEF TypeOK, LeaveLine, Places, Unborn
  <1>8. dead' \in [Drivers -> BOOLEAN]
    BY <1>1 DEF TypeOK, LeaveLine
  <1> QED BY <1>5, <1>6, <1>7, <1>8

LEMMA UntrackType ==
  ASSUME TypeOK, NEW d, Untrack(d)
  PROVE  active' \in [Runs -> Generations \cup {NoDriver}]
  BY DEF TypeOK, Untrack

LEMMA JoinOrStartType ==
  ASSUME TypeOK, NEW r \in Runs, JoinOrStart(r)
  PROVE  /\ active' \in [Runs -> Generations \cup {NoDriver}]
         /\ born' \in [Runs -> 0 .. MaxCalls + 1]
         /\ owner' \in [Drivers -> BOOLEAN]
         /\ line' \in [Sessions -> Seq(Drivers)]
         /\ busy' \in SUBSET Sessions
         /\ at' \in [Drivers -> Places]
  <1> DEFINE d == NextDriver(r)
             s == SessionOf[r]
  <1>1. d \in Drivers /\ CanBeBorn(r)
    BY NextDriverType DEF JoinOrStart, Track
  <1>2. s \in Sessions
    OBVIOUS
  <1>3. active' \in [Runs -> Generations \cup {NoDriver}] /\ born' \in [Runs -> 0 .. MaxCalls + 1]
    BY <1>1 DEF TypeOK, JoinOrStart, Track, CanBeBorn, Generations
  <1>4. owner' \in [Drivers -> BOOLEAN]
    BY <1>1 DEF TypeOK, JoinOrStart
  <1>5. at' \in [Drivers -> Places]
    BY <1>1 DEF TypeOK, JoinOrStart, Places, Unborn, Driving
  <1>6. busy' \in SUBSET Sessions
    BY <1>2 DEF TypeOK, JoinOrStart
  <1>7. line' \in [Sessions -> Seq(Drivers)]
    <2>1. Append(line[s], d) \in Seq(Drivers)
      BY <1>1, <1>2 DEF TypeOK
    <2> QED BY <1>2, <2>1 DEF TypeOK, JoinOrStart
  <1> QED BY <1>3, <1>4, <1>5, <1>6, <1>7

LEMMA SenderType ==
  ASSUME TypeOK, NEW r \in Runs, Sender(r)
  PROVE  TypeOK'
  <1> USE DEF TypeOK, SenderPlaces, durable, store, history, loopData, turnData, drive,
              clients, process
  <1>1. CASE SendTurnTo(r)
    BY <1>1 DEF SendTurnTo
  <1>2. CASE CreateRun(r)
    <2>1. created' \in Seq(Runs)
      BY <1>2 DEF CreateRun
    <2> QED BY <1>2, <2>1 DEF CreateRun, Statuses
  <1>3. CASE AddUserMessage(r)
    <2>1. spoken' = [spoken EXCEPT ![SessionOf[r]] = Append(spoken[SessionOf[r]], r)]
      BY <1>3 DEF AddUserMessage
    <2>2. SessionOf[r] \in Sessions /\ spoken[SessionOf[r]] \in Seq(Runs)
      OBVIOUS
    <2>3. Append(spoken[SessionOf[r]], r) \in Seq(Runs)
      BY <2>2
    <2>4. spoken' \in [Sessions -> Seq(Runs)]
      BY <2>1, <2>3
    <2> QED BY <1>3, <2>4 DEF AddUserMessage
  <1>4. CASE Admit(r)
    BY <1>4, JoinOrStartType DEF Admit
  <1>5. CASE RecordWaiting(r)
    BY <1>5 DEF RecordWaiting, Statuses
  <1>6. CASE AnnounceWaiting(r)
    BY <1>6 DEF AnnounceWaiting, Statuses
  <1>7. CASE WaitNotRecorded(r)
    <2>1. CASE InLine(r)
      <3>1. /\ LeaveLine(r)
            /\ Untrack(line[SessionOf[r]][PositionInLine(r)])
            /\ sender' = [sender EXCEPT ![r] = "refused"]
        BY <1>7, <2>1, Zenon DEF WaitNotRecorded
      <3>2. active' \in [Runs -> Generations \cup {NoDriver}]
        BY <3>1, UntrackType
      <3>3. /\ line' \in [Sessions -> Seq(Drivers)]
            /\ owner' \in [Drivers -> BOOLEAN]
            /\ at' \in [Drivers -> Places]
            /\ dead' \in [Drivers -> BOOLEAN]
        BY <2>1, <3>1, LeaveLineType
      <3>4. UNCHANGED <<durable, ran, born, busy, writing, decider, interrupter, aim, process>>
        BY <1>7 DEF WaitNotRecorded
      <3> QED BY <3>1, <3>2, <3>3, <3>4
    <2>2. CASE ~InLine(r)
      <3>1. /\ sender' = [sender EXCEPT ![r] = "done"]
            /\ UNCHANGED <<line, owner, at, dead, active>>
        BY <1>7, <2>2, Zenon DEF WaitNotRecorded
      <3>2. UNCHANGED <<durable, ran, born, busy, writing, decider, interrupter, aim, process>>
        BY <1>7 DEF WaitNotRecorded
      <3> QED BY <3>1, <3>2
    <2> QED BY <2>1, <2>2
  <1>8. CASE SendFails(r)
    BY <1>8 DEF SendFails
  <1> QED BY <1>1, <1>2, <1>3, <1>4, <1>5, <1>6, <1>7, <1>8 DEF Sender

\* A step that only moves a driver, sets what it will write, or writes it.
Moves(d) ==
  /\ \E p \in Places : Goto(d, p)
  /\ writing' = writing \/ \E s \in Statuses : writing' = [writing EXCEPT ![d] = s]
  /\ row' = row \/ row' = [row EXCEPT ![RunOf(d)] = writing[d]]
  /\ told' = told \/ told' = [told EXCEPT ![RunOf(d)] = writing[d]]
  /\ UNCHANGED <<history, loopData, ask, active, born, turnData, dead, clients, process>>

Moving(d) ==
  \/ Begin(d) \/ Stopped(d) \/ SettleByRunning(d) \/ SettleWithoutRunning(d) \/ Park(d)
  \/ NextTurn(d) \/ GenerateFails(d)
  \/ WriteRow(d) \/ WriteEvent(d) \/ WriteLastRow(d) \/ WriteLastEvent(d)

LEMMA MovingMoves ==
  ASSUME NEW d \in Drivers, Moving(d)
  PROVE  Moves(d)
  <1> USE DEF Moves, durable, store, history, loopData, outsideLoop, Goto, WriteNext, Abandon, WriteFailed,
              Places, Unborn, Driving, Writing, Statuses, Terminal, Paused
  <1>1. CASE Begin(d)
    BY <1>1 DEF Begin
  <1>2. CASE Stopped(d)
    BY <1>2 DEF Stopped
  <1>3. CASE SettleByRunning(d)
    BY <1>3 DEF SettleByRunning
  <1>4. CASE SettleWithoutRunning(d)
    BY <1>4 DEF SettleWithoutRunning
  <1>5. CASE Park(d)
    BY <1>5 DEF Park
  <1>6. CASE NextTurn(d)
    BY <1>6 DEF NextTurn
  <1>7. CASE GenerateFails(d)
    BY <1>7 DEF GenerateFails
  <1>8. CASE WriteRow(d)
    BY <1>8 DEF WriteRow
  <1>9. CASE WriteEvent(d)
    BY <1>9 DEF WriteEvent
  <1>10. CASE WriteLastRow(d)
    BY <1>10 DEF WriteLastRow
  <1>11. CASE WriteLastEvent(d)
    BY <1>11 DEF WriteLastEvent
  <1> QED BY <1>1, <1>2, <1>3, <1>4, <1>5, <1>6, <1>7, <1>8, <1>9, <1>10, <1>11 DEF Moving

LEMMA MoveType ==
  ASSUME TypeOK, NEW d \in Drivers, Moves(d)
  PROVE  TypeOK'
  <1>1. /\ row \in [Runs -> Statuses \cup {NoRow}] /\ told \in [Runs -> Statuses \cup {NoRow}]
        /\ at \in [Drivers -> Places] /\ writing \in [Drivers -> Statuses \cup {NoRow}]
    BY DEF TypeOK
  <1>2. at' \in [Drivers -> Places]
    BY <1>1 DEF Moves, Goto
  <1>3. writing' \in [Drivers -> Statuses \cup {NoRow}]
    BY <1>1 DEF Moves
  <1>4. row' \in [Runs -> Statuses \cup {NoRow}] /\ told' \in [Runs -> Statuses \cup {NoRow}]
    BY <1>1, DriverParts DEF Moves
  <1> QED BY <1>2, <1>3, <1>4 DEF Moves, TypeOK, history, loopData, turnData, clients, process

LEMMA DriverType ==
  ASSUME TypeOK, NEW d \in Drivers, Driver(d)
  PROVE  TypeOK'
  <1> USE DriverParts DEF TypeOK, durable, store, history, loopData, turnData, drive,
              clients, process, outsideLoop, Goto, WriteNext, Abandon, WriteFailed,
              Places, Unborn, Driving, Writing, Statuses, Terminal, Paused
  <1>1. CASE Moving(d)
    BY <1>1, MovingMoves, MoveType
  <1>2. CASE Ask(d)
    <2> DEFINE r == RunOf(d)
    <2>1. PICK kind \in Prompts(d) :
            /\ ask' = [ask EXCEPT ![r] = [ask[r] EXCEPT ![NextCall(r)] = kind]]
            /\ at' = [at EXCEPT ![d] = "prompt"] \/ at' = [at EXCEPT ![d] = "row"]
            /\ writing' = [writing EXCEPT ![d] = PauseFor(kind)]
      BY <1>2 DEF Ask
    <2>2. kind \in PendingAsk /\ PauseFor(kind) \in Statuses
      BY DEF Prompts, PendingAsk, PauseFor
    <2>3. [ask[r] EXCEPT ![NextCall(r)] = kind] \in [Calls -> PendingAsk \cup SettledAsk \cup {NoAsk}]
      BY <2>2
    <2>4. ask' \in [Runs -> [Calls -> PendingAsk \cup SettledAsk \cup {NoAsk}]]
      BY <2>1, <2>3
    <2>5. UNCHANGED <<store, history, loopData, active, born, turnData, dead, clients, process>>
      BY <1>2 DEF Ask
    <2> QED BY <2>1, <2>2, <2>4, <2>5
  <1>3. CASE Execute(d)
    <2> DEFINE r == RunOf(d)
               k == NextCall(r)
    <2>1. ran' = [ran EXCEPT ![r] = [ran[r] EXCEPT ![k] = ran[r][k] + 1]]
      BY <1>3 DEF Execute
    <2>2. [ran[r] EXCEPT ![k] = ran[r][k] + 1] \in [Calls -> Nat]
      <3>1. ran[r] \in [Calls -> Nat]
        OBVIOUS
      <3> HIDE DEF k
      <3>2. \A c \in Calls : [ran[r] EXCEPT ![k] = ran[r][k] + 1][c] \in Nat
        BY <3>1
      <3> QED BY <3>1, <3>2
    <2>3. ran' \in [Runs -> [Calls -> Nat]]
      BY <2>1, <2>2
    <2> QED BY <1>3, <2>3 DEF Execute
  <1>4. CASE RecordResult(d)
    <2>1. CASE Dead(d)
      BY <1>4, <2>1 DEF RecordResult
    <2>2. CASE ~Dead(d)
      <3>1. completed' \in [Runs -> Nat]
        <4>1. completed' = [completed EXCEPT ![RunOf(d)] = completed[RunOf(d)] + 1]
          BY <1>4, <2>2, Zenon DEF RecordResult
        <4>2. completed \in [Runs -> Nat] /\ completed[RunOf(d)] + 1 \in Nat
          OBVIOUS
        <4> QED BY <4>1, <4>2
      <3>2. at' = [at EXCEPT ![d] = "loop"] /\ UNCHANGED writing
        BY <1>4, <2>2 DEF RecordResult
      <3> QED BY <1>4, <3>1, <3>2 DEF RecordResult
    <2> QED BY <2>1, <2>2
  <1>5. CASE Generate(d)
    <2>1. PICK n \in 0 .. MaxBatch :
            /\ requested[RunOf(d)] + n <= MaxCalls
            /\ requested' = [requested EXCEPT ![RunOf(d)] = requested[RunOf(d)] + n]
            /\ IF n = 0 THEN WriteNext(d, "completed", "row")
                        ELSE Goto(d, "loop") /\ UNCHANGED writing
      BY <1>5 DEF Generate
    <2>2. requested' \in [Runs -> 0 .. MaxCalls]
      <3>1. requested[RunOf(d)] + n \in 0 .. MaxCalls
        BY <2>1
      <3> QED BY <2>1, <3>1
    <2>3. at' \in [Drivers -> Places] /\ writing' \in [Drivers -> Statuses \cup {NoRow}]
      BY <2>1
    <2>4. turns' \in [Runs -> Nat]
      BY <1>5 DEF Generate
    <2> QED BY <1>5, <2>2, <2>3, <2>4 DEF Generate
  <1>6. CASE Release(d)
    BY <1>6, UntrackType DEF Release
  <1>7. CASE HandOn(d)
    <2> DEFINE s == SessionOfDriver(d)
    <2>1. s \in Sessions /\ line[s] \in Seq(Drivers)
      OBVIOUS
    <2>2. CASE line[s] = <<>>
      BY <1>7, <2>1, <2>2 DEF HandOn
    <2>3. CASE line[s] # <<>>
      <3>1. Tail(line[s]) \in Seq(Drivers) /\ Head(line[s]) \in Drivers
        BY <2>1, <2>3
      <3>2. /\ line' = [line EXCEPT ![s] = Tail(line[s])]
            /\ at' = [at EXCEPT ![d] = "none", ![Head(line[s])] = "waiting"]
            /\ UNCHANGED busy
        BY <1>7, <2>3 DEF HandOn
      <3>3. line' \in [Sessions -> Seq(Drivers)] /\ at' \in [Drivers -> Places]
        BY <3>1, <3>2
      <3> QED BY <1>7, <3>2, <3>3 DEF HandOn
    <2> QED BY <2>2, <2>3
  <1> QED BY <1>1, <1>2, <1>3, <1>4, <1>5, <1>6, <1>7 DEF Driver, Moving

LEMMA DeciderType ==
  ASSUME TypeOK, NEW r \in Runs, NEW k \in Calls, Decider(r, k)
  PROVE  TypeOK'
  <1> USE DEF TypeOK, durable, store, history, loopData, turnData, drive,
              clients, process, DeciderPlaces
  <1>1. CASE Decide(r, k)
    BY <1>1 DEF Decide, Replies, SettledAsk
  <1>2. CASE DeciderVanishes(r, k)
    BY <1>2 DEF DeciderVanishes
  <1>3. CASE CheckResume(r, k)
    BY <1>3 DEF CheckResume
  <1>4. CASE Resume(r, k)
    <2>1. decider' \in [Runs -> [Calls -> DeciderPlaces]]
      BY <1>4 DEF Resume
    <2>2. CASE row[r] \in Terminal \/ HasPendingAsk(r)
      BY <1>4, <2>1, <2>2 DEF Resume
    <2>3. CASE ~(row[r] \in Terminal \/ HasPendingAsk(r))
      <3>1. /\ Track(r)
            /\ at' = [at EXCEPT ![NextDriver(r)] = "loop"]
            /\ owner' = [owner EXCEPT ![NextDriver(r)] = FALSE]
        BY <1>4, <2>3 DEF Resume
      <3>2. active' \in [Runs -> Generations \cup {NoDriver}] /\ born' \in [Runs -> 0 .. MaxCalls + 1]
        BY <3>1 DEF Track, CanBeBorn, Generations
      <3> QED BY <1>4, <2>1, <3>1, <3>2 DEF Resume, Places, Driving
    <2> QED BY <2>2, <2>3
  <1> QED BY <1>1, <1>2, <1>3, <1>4 DEF Decider

LEMMA InterrupterType ==
  ASSUME TypeOK, NEW r \in Runs, Interrupter(r)
  PROVE  TypeOK'
  <1> USE DEF TypeOK, durable, store, history, loopData, turnData, drive,
              clients, process, InterrupterPlaces
  <1>1. CASE InterruptRun(r)
    BY <1>1 DEF InterruptRun
  <1>2. CASE TakeOutOfLine(r)
    BY <1>2, LeaveLineType DEF TakeOutOfLine
  <1>3. CASE CancelDriver(r)
    BY <1>3 DEF CancelDriver
  <1>4. CASE WriteInterruptedRow(r)
    BY <1>4 DEF WriteInterruptedRow, Statuses, Terminal
  <1>5. CASE WriteInterruptedEvent(r)
    BY <1>5 DEF WriteInterruptedEvent, Statuses, Terminal
  <1>6. CASE ReleaseInterrupted(r)
    BY <1>6, UntrackType DEF ReleaseInterrupted
  <1>7. CASE InterruptNotRecorded(r)
    BY <1>7 DEF InterruptNotRecorded
  <1> QED BY <1>1, <1>2, <1>3, <1>4, <1>5, <1>6, <1>7 DEF Interrupter

LEMMA VanishType ==
  ASSUME TypeOK, Vanish, stops' \in 0 .. MaxStops
  PROVE  TypeOK'
  BY DEF TypeOK, Vanish, durable, Phases, Places, Unborn, Gone, SenderPlaces,
         DeciderPlaces, InterrupterPlaces

LEMMA ProcessType ==
  ASSUME TypeOK, Process
  PROVE  TypeOK'
  <1> USE DEF TypeOK, durable, store, history, loopData, turnData, drive,
              clients, process, Phases
  <1>1. CASE Signal
    BY <1>1 DEF Signal
  <1>2. CASE Drain
    BY <1>2 DEF Drain
  <1>3. CASE Crash
    <2>1. stops' \in 0 .. MaxStops /\ Vanish
      BY <1>3 DEF Crash
    <2> QED BY <2>1, VanishType
  <1>4. CASE Exit
    BY <1>4, VanishType DEF Exit
  <1>5. CASE StartRecovery
    BY <1>5 DEF StartRecovery
  <1>6. CASE Serve
    BY <1>6 DEF Serve
  <1>7. ASSUME NEW r \in Runs, Requeue(r)
        PROVE  TypeOK'
    BY <1>7, JoinOrStartType DEF Requeue, Statuses
  <1>8. ASSUME NEW r \in Runs, FailOrphanRow(r)
        PROVE  TypeOK'
    BY <1>8 DEF FailOrphanRow, Statuses, Terminal
  <1>9. ASSUME NEW r \in Runs, FailOrphanEvent(r)
        PROVE  TypeOK'
    BY <1>9 DEF FailOrphanEvent, Statuses, Terminal
  <1> QED BY <1>1, <1>2, <1>3, <1>4, <1>5, <1>6, <1>7, <1>8, <1>9 DEF Process, Recovery

LEMMA InitType == Init => TypeOK
  BY DEF Init, TypeOK, Calls, Generations, Places, Unborn, SenderPlaces, DeciderPlaces,
         InterrupterPlaces, Phases

LEMMA TypeStep == TypeOK /\ [Next]_vars => TypeOK'
  <1> SUFFICES ASSUME TypeOK, [Next]_vars PROVE TypeOK'
    OBVIOUS
  <1>1. CASE Next
    BY <1>1, SenderType, InterrupterType, DeciderType, DriverType, ProcessType DEF Next
  <1>2. CASE UNCHANGED vars
    BY <1>2 DEF TypeOK, vars, durable, turnData, drive, clients, process
  <1> QED BY <1>1, <1>2

\* Every variable of the runtime keeps its type, whatever clients, drivers and
\* the process do.
THEOREM TypeCorrect == Spec => []TypeOK
  BY InitType, TypeStep, PTL DEF Spec
------------------------------------------------------------------------------
(***************************************************************************)
(* The kinds of step, as far as the turn and the line are concerned.       *)
(***************************************************************************)
Holding(d) == owner[d] /\ at[d] \notin Unborn

SameTurn ==
  /\ UNCHANGED <<line, busy, owner, born>>
  /\ \A d \in Drivers :
       /\ at[d] = "queued" => at'[d] = "queued"
       /\ at[d] = "none" => at'[d] = "none"
       /\ owner[d] => (at[d] \in Unborn <=> at'[d] \in Unborn)
       /\ at'[d] = "handon" => owner[d] \/ at[d] = "handon"

\* No step but a departure untracks a driver that is in line.
KeepsTracked ==
  \A s \in Sessions : \A i \in 1 .. Len(line[s]) :
    active'[RunOf(line[s][i])] = active[RunOf(line[s][i])]

Departs(r) ==
  /\ InLine(r)
  /\ LeaveLine(r)
  /\ UNCHANGED <<busy, born>>
  /\ active' = active \/ Untrack(line[SessionOf[r]][PositionInLine(r)])

Resumes(r) ==
  /\ Track(r)
  /\ at' = [at EXCEPT ![NextDriver(r)] = "loop"]
  /\ owner' = [owner EXCEPT ![NextDriver(r)] = FALSE]
  /\ UNCHANGED <<line, busy>>
  /\ ~InLine(r)

Joins(r) == JoinOrStart(r) /\ ~InLine(r)

\* A driver that goes from one place of the loop to another.
MovesInside(d) ==
  /\ at[d] \in Driving
  /\ \E p \in Driving : at' = [at EXCEPT ![d] = p]
  /\ UNCHANGED <<active, born, line, busy, owner, dead, clients, process>>
  /\ \A r \in Runs : r # RunOf(d) => row'[r] = row[r] /\ ask'[r] = ask[r]

Inside(d) ==
  \/ Begin(d) \/ Stopped(d)
  \/ SettleByRunning(d) \/ SettleWithoutRunning(d) \/ Ask(d) \/ Park(d)
  \/ Execute(d) \/ RecordResult(d)
  \/ NextTurn(d) \/ Generate(d) \/ GenerateFails(d)
  \/ WriteRow(d) \/ WriteEvent(d) \/ WriteLastRow(d) \/ WriteLastEvent(d)

LEMMA InsideMoves ==
  ASSUME TypeOK, NEW d \in Drivers, Inside(d)
  PROVE  MovesInside(d)
  <1> USE DriverParts DEF TypeOK, MovesInside, durable, store, history, loopData, turnData,
              drive, clients, process, outsideLoop, Goto, WriteNext, Abandon, WriteFailed,
              Driving, Writing
  <1>1. CASE Begin(d)
    BY <1>1 DEF Begin
  <1>2. CASE Stopped(d)
    BY <1>2 DEF Stopped
  <1>3. CASE SettleByRunning(d)
    BY <1>3 DEF SettleByRunning, AtCall
  <1>4. CASE SettleWithoutRunning(d)
    BY <1>4 DEF SettleWithoutRunning, AtCall
  <1>5. CASE Ask(d)
    BY <1>5 DEF Ask, AtCall
  <1>6. CASE Park(d)
    BY <1>6 DEF Park
  <1>7. CASE Execute(d)
    BY <1>7 DEF Execute
  <1>8. CASE RecordResult(d)
    BY <1>8 DEF RecordResult
  <1>9. CASE NextTurn(d)
    BY <1>9 DEF NextTurn
  <1>10. CASE Generate(d)
    BY <1>10 DEF Generate
  <1>11. CASE GenerateFails(d)
    BY <1>11 DEF GenerateFails
  <1>12. CASE WriteRow(d)
    BY <1>12 DEF WriteRow
  <1>13. CASE WriteEvent(d)
    BY <1>13 DEF WriteEvent
  <1>14. CASE WriteLastRow(d)
    BY <1>14 DEF WriteLastRow
  <1>15. CASE WriteLastEvent(d)
    BY <1>15 DEF WriteLastEvent
  <1> QED BY <1>1, <1>2, <1>3, <1>4, <1>5, <1>6, <1>7, <1>8, <1>9, <1>10, <1>11, <1>12, <1>13, <1>14, <1>15 DEF Inside

LEMMA DriverInsideOrOut ==
  ASSUME NEW d \in Drivers, Driver(d)
  PROVE  Inside(d) \/ Release(d) \/ HandOn(d)
  BY DEF Driver, Inside

\* A driver in line is the one tracked, so untracking another leaves it be.
LEMMA UntrackAnother ==
  ASSUME TypeOK, LineIsTracked, NEW d \in Drivers, Untrack(d),
         \A s \in Sessions : \A i \in 1 .. Len(line[s]) : line[s][i] # d
  PROVE  KeepsTracked
  <1> SUFFICES ASSUME NEW s \in Sessions, NEW i \in 1 .. Len(line[s])
               PROVE  active'[RunOf(line[s][i])] = active[RunOf(line[s][i])]
    BY DEF KeepsTracked
  <1> DEFINE c == line[s][i]
  <1>1. c \in Drivers /\ c # d /\ active[RunOf(c)] = GenOf(c)
    BY DEF TypeOK, LineIsTracked
  <1>2. c = <<RunOf(c), GenOf(c)>> /\ d = <<RunOf(d), GenOf(d)>> /\ RunOf(c) \in Runs
    BY <1>1, DriverParts
  <1>3. RunOf(c) = RunOf(d) => active[RunOf(d)] # GenOf(d)
    BY <1>1, <1>2
  <1> HIDE DEF c
  <1>4. active'[RunOf(c)] = active[RunOf(c)]
    BY <1>2, <1>3 DEF Untrack, TypeOK
  <1> QED BY <1>4 DEF c

LEMMA StaysTracked ==
  ASSUME UNCHANGED active
  PROVE  KeepsTracked
  BY DEF KeepsTracked

LEMMA ReleaseKind ==
  ASSUME TurnInv, NEW d \in Drivers, Release(d)
  PROVE  SameTurn /\ KeepsTracked
  <1> USE DEF TurnInv
  <1>1. \A s \in Sessions : \A i \in 1 .. Len(line[s]) : line[s][i] # d
    BY DEF LineIsTracked, Release
  <1>2. KeepsTracked
    BY <1>1, UntrackAnother DEF Release
  <1>3. SameTurn
    BY DEF Release, Goto, SameTurn, TypeOK, Unborn, turnData
  <1> QED BY <1>2, <1>3

LEMMA DriverKind ==
  ASSUME TurnInv, NEW d \in Drivers, Driver(d)
  PROVE  (SameTurn /\ KeepsTracked) \/ HandOn(d)
  <1>1. CASE Inside(d)
    <2>1. MovesInside(d)
      BY <1>1, InsideMoves DEF TurnInv
    <2>2. KeepsTracked
      BY <2>1, StaysTracked DEF MovesInside
    <2>3. SameTurn
      BY <2>1 DEF MovesInside, SameTurn, TurnInv, TypeOK, Driving, Writing, Unborn
    <2> QED BY <2>2, <2>3
  <1> QED BY <1>1, ReleaseKind, DriverInsideOrOut

LEMMA IdleKind ==
  ASSUME UNCHANGED <<line, busy, owner, born, at, active>>
  PROVE  SameTurn /\ KeepsTracked
  BY DEF SameTurn, KeepsTracked

\* In line means tracked, so a run nothing tracks is not in line.
LEMMA TrackedInLine ==
  ASSUME TurnInv, NEW r \in Runs, InLine(r)
  PROVE  active[r] # NoDriver /\ born[r] # 0
  <1> DEFINE d == line[SessionOf[r]][PositionInLine(r)]
  <1>1. /\ SessionOf[r] \in Sessions
        /\ PositionInLine(r) \in 1 .. Len(line[SessionOf[r]])
        /\ d \in Drivers /\ RunOf(d) = r
    BY InLineType DEF TurnInv
  <1>2. at[d] = "queued" /\ active[RunOf(d)] = GenOf(d)
    BY <1>1 DEF TurnInv, LineIsTracked
  <1>3. GenOf(d) \in Generations
    BY <1>1, DriverParts
  <1> HIDE DEF d
  <1>4. ~(GenOf(d) > born[RunOf(d)])
    BY <1>1, <1>2 DEF TurnInv, UnbornDriversRest
  <1> QED BY <1>1, <1>2, <1>3, <1>4 DEF Generations, NoDriver, TurnInv, TypeOK

LEMMA SenderKind ==
  ASSUME TurnInv, NEW r \in Runs, Sender(r)
  PROVE  (SameTurn /\ KeepsTracked) \/ Joins(r) \/ Departs(r)
  <1> USE DEF durable, store, history, loopData, turnData, drive, clients, process
  <1>1. CASE SendTurnTo(r)
    BY <1>1, IdleKind DEF SendTurnTo
  <1>2. CASE CreateRun(r)
    BY <1>2, IdleKind DEF CreateRun
  <1>3. CASE AddUserMessage(r)
    BY <1>3, IdleKind DEF AddUserMessage
  <1>4. CASE Admit(r)
    <2>1. active[r] = NoDriver
      BY <1>4 DEF TurnInv, UnadmittedRunsUntouched, BeforeAdmit, Admit
    <2>2. ~InLine(r)
      BY <2>1, TrackedInLine
    <2> QED BY <1>4, <2>2 DEF Joins, Admit
  <1>5. CASE RecordWaiting(r)
    BY <1>5, IdleKind DEF RecordWaiting
  <1>6. CASE AnnounceWaiting(r)
    BY <1>6, IdleKind DEF AnnounceWaiting
  <1>7. CASE WaitNotRecorded(r)
    <2>1. CASE InLine(r)
      BY <1>7, <2>1, Zenon DEF WaitNotRecorded, Departs
    <2>2. CASE ~InLine(r)
      <3>1. UNCHANGED <<line, busy, owner, born, at, active>>
        BY <1>7, <2>2, Zenon DEF WaitNotRecorded
      <3> QED BY <3>1, IdleKind
    <2> QED BY <2>1, <2>2
  <1>8. CASE SendFails(r)
    BY <1>8, IdleKind DEF SendFails
  <1> QED BY <1>1, <1>2, <1>3, <1>4, <1>5, <1>6, <1>7, <1>8 DEF Sender

LEMMA DeciderKind ==
  ASSUME TurnInv, NEW r \in Runs, NEW k \in Calls, Decider(r, k)
  PROVE  (SameTurn /\ KeepsTracked) \/ Resumes(r)
  <1> USE DEF durable, store, history, loopData, turnData, drive, clients, process
  <1>1. CASE Decide(r, k)
    BY <1>1, IdleKind DEF Decide
  <1>2. CASE DeciderVanishes(r, k)
    BY <1>2, IdleKind DEF DeciderVanishes
  <1>3. CASE CheckResume(r, k)
    BY <1>3, IdleKind DEF CheckResume
  <1>4. CASE Resume(r, k)
    <2>1. CASE row[r] \in Terminal \/ HasPendingAsk(r)
      BY <1>4, <2>1, IdleKind DEF Resume
    <2>2. CASE ~(row[r] \in Terminal \/ HasPendingAsk(r))
      <3>1. ~InLine(r)
        BY <1>4 DEF Resume, TurnInv, LeftTheLine
      <3> QED BY <1>4, <2>2, <3>1 DEF Resume, Resumes
    <2> QED BY <2>1, <2>2
  <1> QED BY <1>1, <1>2, <1>3, <1>4 DEF Decider

LEMMA InterrupterKind ==
  ASSUME TurnInv, NEW r \in Runs, Interrupter(r)
  PROVE  (SameTurn /\ KeepsTracked) \/ Departs(r)
  <1> USE DEF durable, store, history, loopData, turnData, drive, clients, process
  <1>1. CASE InterruptRun(r)
    BY <1>1, IdleKind DEF InterruptRun
  <1>2. CASE TakeOutOfLine(r)
    BY <1>2 DEF TakeOutOfLine, Departs
  <1>3. CASE CancelDriver(r)
    BY <1>3, IdleKind DEF CancelDriver
  <1>4. CASE WriteInterruptedRow(r)
    BY <1>4, IdleKind DEF WriteInterruptedRow
  <1>5. CASE WriteInterruptedEvent(r)
    BY <1>5, IdleKind DEF WriteInterruptedEvent
  <1>6. CASE ReleaseInterrupted(r)
    <2>1. ~InLine(r)
      BY <1>6 DEF TurnInv, LeftTheLine, ReleaseInterrupted
    <2>2. UNCHANGED <<line, busy, owner, born, at>>
      BY <1>6 DEF ReleaseInterrupted
    <2>3. SameTurn
      BY <2>2 DEF SameTurn
    <2>4. KeepsTracked
      <3> SUFFICES ASSUME NEW s \in Sessions, NEW i \in 1 .. Len(line[s])
                   PROVE  active'[RunOf(line[s][i])] = active[RunOf(line[s][i])]
        BY DEF KeepsTracked
      <3>1. RunOf(line[s][i]) # r
        BY <2>1 DEF InLine, TurnInv, LineIsTracked, SessionOfDriver
      <3>2. Untrack(<<r, aim[r]>>) /\ RunOf(<<r, aim[r]>>) = r
        BY <1>6 DEF ReleaseInterrupted, RunOf
      <3>3. line[s][i] \in Drivers
        BY DEF TurnInv, TypeOK
      <3>4. RunOf(line[s][i]) \in Runs
        BY <3>3, DriverParts
      <3> QED BY <3>1, <3>2, <3>4 DEF Untrack, TurnInv, TypeOK
    <2> QED BY <2>3, <2>4
  <1>7. CASE InterruptNotRecorded(r)
    BY <1>7, IdleKind DEF InterruptNotRecorded
  <1> QED BY <1>1, <1>2, <1>3, <1>4, <1>5, <1>6, <1>7 DEF Interrupter

LEMMA ProcessKind ==
  ASSUME TurnInv, Process
  PROVE  \/ SameTurn /\ KeepsTracked
         \/ \E r \in Runs : Joins(r)
         \/ Vanish
  <1> USE DEF durable, store, history, loopData, turnData, drive, clients, process
  <1>1. CASE Signal
    BY <1>1, IdleKind DEF Signal
  <1>2. CASE Drain
    BY <1>2, IdleKind DEF Drain
  <1>3. CASE Crash \/ Exit
    BY <1>3 DEF Crash, Exit
  <1>4. CASE StartRecovery
    BY <1>4, IdleKind DEF StartRecovery
  <1>5. CASE Serve
    BY <1>5, IdleKind DEF Serve
  <1>6. ASSUME NEW r \in Runs, Requeue(r)
        PROVE  Joins(r)
    <2>1. born[r] = 0
      BY <1>6 DEF Requeue, TurnInv, QuietUntilServing
    <2> QED BY <1>6, <2>1, TrackedInLine DEF Requeue, Joins
  <1>7. ASSUME NEW r \in Runs, FailOrphanRow(r) \/ FailOrphanEvent(r)
        PROVE  SameTurn /\ KeepsTracked
    BY <1>7, IdleKind DEF FailOrphanRow, FailOrphanEvent
  <1> QED BY <1>1, <1>2, <1>3, <1>4, <1>5, <1>6, <1>7 DEF Process, Recovery

\* Every step is of one of six kinds.
LEMMA StepKinds ==
  ASSUME TurnInv, [Next]_vars
  PROVE  \/ SameTurn /\ KeepsTracked
         \/ \E r \in Runs : Joins(r) \/ Departs(r) \/ Resumes(r)
         \/ \E d \in Drivers : HandOn(d)
         \/ Vanish
  <1>1. CASE UNCHANGED vars
    BY <1>1, IdleKind DEF vars, turnData, drive
  <1>2. CASE Next
    BY <1>2, SenderKind, InterrupterKind, DeciderKind, DriverKind, ProcessKind DEF Next
  <1> QED BY <1>1, <1>2

-----------------------------------------------------------------------------
(***************************************************************************)
(* The turn, the line and the drivers not made yet, kind by kind.          *)
(***************************************************************************)
TurnParts == TurnHeldOnce /\ LineIsTracked /\ UnbornDriversRest /\ OwnersHandOn

LEMMA LineEntry ==
  ASSUME TypeOK, NEW s \in Sessions
  PROVE  /\ line[s] \in Seq(Drivers)
         /\ \A i \in 1 .. Len(line[s]) : line[s][i] \in Drivers
  BY DEF TypeOK

LEMMA AppendParts ==
  ASSUME NEW S, NEW q \in Seq(S), NEW e \in S
  PROVE  /\ Append(q, e) # <<>>
         /\ Len(Append(q, e)) = Len(q) + 1
         /\ Append(q, e)[Len(q) + 1] = e
         /\ \A i \in 1 .. Len(q) : Append(q, e)[i] = q[i]
  OBVIOUS

\* The types of the part of the state that the turn and the line are about.
LEMMA TurnTypes ==
  ASSUME TypeOK
  PROVE  /\ active \in [Runs -> Generations \cup {NoDriver}]
         /\ born \in [Runs -> 0 .. MaxCalls + 1]
         /\ line \in [Sessions -> Seq(Drivers)]
         /\ busy \in SUBSET Sessions
         /\ at \in [Drivers -> Places]
         /\ owner \in [Drivers -> BOOLEAN]
  BY DEF TypeOK

LEMMA SameTurnKeeps ==
  ASSUME TurnInv, TypeOK', SameTurn, KeepsTracked
  PROVE  TurnParts' /\ \A s \in Sessions : Holders(s)' = Holders(s)
  <1>inv. TypeOK /\ TurnHeldOnce /\ LineIsTracked /\ UnbornDriversRest /\ OwnersHandOn
    BY DEF TurnInv
  <1> USE <1>inv, TurnTypes DEF SameTurn
  <1>1. \A s \in Sessions : Holders(s)' = Holders(s)
    BY DEF Holders
  <1>2. TurnHeldOnce'
    BY <1>1 DEF TurnHeldOnce
  <1>3. LineIsTracked'
    BY DEF LineIsTracked, KeepsTracked
  <1>4. UnbornDriversRest'
    BY DEF UnbornDriversRest
  <1>5. OwnersHandOn'
    BY DEF OwnersHandOn
  <1> QED BY <1>1, <1>2, <1>3, <1>4, <1>5 DEF TurnParts

\* Who holds the turns depends on which drivers own one and have started.
LEMMA SameHolders ==
  ASSUME \A c \in Drivers : (owner'[c] /\ at'[c] \notin Unborn)
                              <=> (owner[c] /\ at[c] \notin Unborn)
  PROVE  \A t \in Sessions : Holders(t)' = Holders(t)
  BY DEF Holders

LEMMA SameHoldersHoldOnce ==
  ASSUME TurnHeldOnce, busy' = busy, \A t \in Sessions : Holders(t)' = Holders(t),
         \A t \in Sessions : t \notin busy => line'[t] = line[t]
  PROVE  TurnHeldOnce'
  BY DEF TurnHeldOnce

LEMMA JoinKeeps ==
  ASSUME TurnInv, TypeOK', NEW r \in Runs, Joins(r)
  PROVE  LET s == SessionOf[r]
             d == NextDriver(r)
         IN  /\ TurnParts'
             /\ \A q \in Runs : q # r /\ InLine(q)' => InLine(q)
             /\ d \in Drivers
             /\ s \in busy => /\ \A t \in Sessions : Holders(t)' = Holders(t)
                              /\ line' = [line EXCEPT ![s] = Append(line[s], d)]
             /\ s \notin busy => /\ Holders(s) = {} /\ Holders(s)' = {d}
                                 /\ \A t \in Sessions : t # s => Holders(t)' = Holders(t)
                                 /\ line' = line
  <1> DEFINE d == NextDriver(r)
             s == SessionOf[r]
  <1>inv. TypeOK /\ TurnHeldOnce /\ LineIsTracked /\ UnbornDriversRest /\ OwnersHandOn
    BY DEF TurnInv
  <1> USE <1>inv
  <1>1. /\ d \in Drivers /\ RunOf(d) = r /\ GenOf(d) = born[r] + 1
        /\ s \in Sessions /\ SessionOfDriver(d) = s
    BY NextDriverType DEF Joins, JoinOrStart, Track, SessionOfDriver
  <1>2. at[d] = "none"
    BY <1>1, TurnTypes DEF UnbornDriversRest
  <1>3. /\ owner' = [owner EXCEPT ![d] = TRUE]
        /\ active' = [active EXCEPT ![r] = born[r] + 1]
        /\ born' = [born EXCEPT ![r] = born[r] + 1]
    BY DEF Joins, JoinOrStart, Track
  <1>4. \A t \in Sessions : \A i \in 1 .. Len(line[t]) :
          /\ line[t][i] \in Drivers
          /\ line[t][i] # d
          /\ RunOf(line[t][i]) # r
    <2> SUFFICES ASSUME NEW t \in Sessions, NEW i \in 1 .. Len(line[t])
                 PROVE  /\ line[t][i] \in Drivers
                        /\ line[t][i] # d
                        /\ RunOf(line[t][i]) # r
      OBVIOUS
    <2>1. line[t][i] \in Drivers
      BY LineEntry
    <2>2. at[line[t][i]] = "queued" /\ SessionOfDriver(line[t][i]) = t
      BY DEF LineIsTracked
    <2>3. RunOf(line[t][i]) # r
      BY <2>2 DEF Joins, InLine, SessionOfDriver
    <2> QED BY <1>2, <2>1, <2>2, <2>3
  <1> HIDE DEF d
  <1>5. UnbornDriversRest' /\ OwnersHandOn'
    <2>1. \A c \in Drivers : c # d => at'[c] = at[c] /\ owner'[c] = owner[c]
      BY <1>1, <1>3, TurnTypes DEF Joins, JoinOrStart, d
    <2>2. at'[d] # "handon"
      BY <1>1, TurnTypes DEF Joins, JoinOrStart, d
    <2>3. UnbornDriversRest'
      <3> SUFFICES ASSUME NEW c \in Drivers, GenOf(c) > born'[RunOf(c)]
                   PROVE  at'[c] = "none"
        BY DEF UnbornDriversRest
      <3>1. RunOf(c) \in Runs /\ GenOf(c) \in Nat /\ born[RunOf(c)] \in Nat
        BY DriverParts, TurnTypes DEF Generations
      <3>2. GenOf(c) > born[RunOf(c)]
        BY <1>1, <1>3, <3>1, TurnTypes
      <3>3. c # d
        BY <1>1, <1>3, <3>1, TurnTypes
      <3> QED BY <2>1, <3>2, <3>3 DEF UnbornDriversRest
    <2> QED BY <2>1, <2>2, <2>3 DEF OwnersHandOn
  <1>6. CASE s \in busy
    <2>1. /\ line' = [line EXCEPT ![s] = Append(line[s], d)]
          /\ at' = [at EXCEPT ![d] = "queued"]
          /\ UNCHANGED busy
      BY <1>6 DEF Joins, JoinOrStart, d
    <2>2. \A t \in Sessions : Holders(t)' = Holders(t)
      <3>1. \A c \in Drivers : c # d => at'[c] = at[c] /\ owner'[c] = owner[c]
        BY <1>1, <1>3, <2>1, TurnTypes
      <3>2. at'[d] = "queued"
        BY <1>1, <2>1, TurnTypes
      <3> HIDE DEF s
      <3> QED BY <1>2, <3>1, <3>2, SameHolders DEF Unborn
    <2> HIDE DEF s
    <2>3. TurnHeldOnce'
      <3>1. \A t \in Sessions : t \notin busy => line'[t] = line[t]
        BY <1>1, <1>6, <2>1, TurnTypes
      <3> QED BY <2>1, <2>2, <3>1, SameHoldersHoldOnce
    <2>4. LineIsTracked'
      <3> SUFFICES ASSUME NEW t \in Sessions, NEW i \in 1 .. Len(line'[t])
                   PROVE  LET c == line'[t][i] IN
                          /\ SessionOfDriver(c) = t
                          /\ at'[c] = "queued" /\ owner'[c]
                          /\ active'[RunOf(c)] = GenOf(c)
                          /\ \A j \in 1 .. Len(line'[t]) : line'[t][j] = c => j = i
        BY DEF LineIsTracked
      <3>1. /\ line[t] \in Seq(Drivers)
            /\ t # s => line'[t] = line[t]
            /\ t = s => line'[t] = Append(line[t], d)
        BY <1>1, <2>1, LineEntry, TurnTypes
      <3>2. /\ t = s => Len(line'[t]) = Len(line[t]) + 1 /\ line'[t][Len(line[t]) + 1] = d
            /\ \A j \in 1 .. Len(line[t]) : line'[t][j] = line[t][j]
        BY <1>1, <3>1, AppendParts
      <3>3. CASE t = s /\ i = Len(line[s]) + 1
        <4>1. line'[t][i] = d
          BY <3>3, <3>2
        <4>2. at'[d] = "queued" /\ owner'[d] /\ active'[RunOf(d)] = GenOf(d)
          BY <1>1, <1>3, <2>1, TurnTypes
        <4>3. \A j \in 1 .. Len(line'[t]) : line'[t][j] = d => j = i
          BY <1>1, <1>4, <3>1, <3>2, <3>3
        <4> QED BY <1>1, <3>3, <4>1, <4>2, <4>3
      <3>4. CASE ~(t = s /\ i = Len(line[s]) + 1)
        <4>1. i \in 1 .. Len(line[t]) /\ line'[t][i] = line[t][i]
          BY <3>1, <3>4, <3>2
        <4> DEFINE c == line[t][i]
        <4>2. c \in Drivers /\ c # d /\ RunOf(c) # r /\ RunOf(c) \in Runs
          BY <1>4, <4>1, DriverParts
        <4>3. /\ SessionOfDriver(c) = t /\ at[c] = "queued" /\ owner[c]
              /\ active[RunOf(c)] = GenOf(c)
              /\ \A j \in 1 .. Len(line[t]) : line[t][j] = c => j = i
          BY <4>1 DEF LineIsTracked
        <4> HIDE DEF c
        <4>4. at'[c] = "queued" /\ owner'[c] /\ active'[RunOf(c)] = GenOf(c)
          BY <1>1, <1>3, <2>1, <4>2, <4>3, TurnTypes
        <4>5. \A j \in 1 .. Len(line'[t]) : line'[t][j] = c => j = i
          BY <3>1, <3>2, <4>2, <4>3
        <4> QED BY <4>1, <4>3, <4>4, <4>5 DEF c
      <3> QED BY <3>3, <3>4
    <2>5. \A q \in Runs : q # r /\ InLine(q)' => InLine(q)
      <3> SUFFICES ASSUME NEW q \in Runs, q # r, NEW i \in 1 .. Len(line'[SessionOf[q]]),
                          RunOf(line'[SessionOf[q]][i]) = q
                   PROVE  InLine(q)
        BY DEF InLine
      <3> DEFINE t == SessionOf[q]
      <3>1. /\ t \in Sessions /\ line[t] \in Seq(Drivers)
            /\ line'[t] = line[t] \/ line'[t] = Append(line[t], d)
        BY <1>1, <2>1, LineEntry, TurnTypes
      <3>2. i \in 1 .. Len(line[t]) /\ line'[t][i] = line[t][i]
        BY <1>1, <3>1, AppendParts
      <3> QED BY <3>2 DEF InLine
    <2> QED BY <1>1, <1>5, <1>6, <2>1, <2>2, <2>3, <2>4, <2>5 DEF TurnParts, d, s
  <1>7. CASE s \notin busy
    <2>1. /\ busy' = busy \cup {s}
          /\ at' = [at EXCEPT ![d] = "waiting"]
          /\ UNCHANGED line
      BY <1>7 DEF Joins, JoinOrStart, d
    <2>2. /\ Holders(s) = {} /\ Holders(s)' = {d}
          /\ \A t \in Sessions : t # s => Holders(t)' = Holders(t)
      <3>1. Holders(s) = {}
        BY <1>1, <1>7 DEF TurnHeldOnce
      <3>2. \A c \in Drivers : c # d => at'[c] = at[c] /\ owner'[c] = owner[c]
        BY <1>1, <1>3, <2>1, TurnTypes
      <3>3. at'[d] = "waiting" /\ owner'[d]
        BY <1>1, <1>3, <2>1, TurnTypes
      <3> HIDE DEF s
      <3>4. Holders(s)' = {d}
        BY <1>1, <3>1, <3>2, <3>3 DEF Holders, Unborn
      <3>5. \A t \in Sessions : t # s => Holders(t)' = Holders(t)
        BY <1>1, <3>2 DEF Holders, Unborn
      <3> QED BY <3>1, <3>4, <3>5
    <2> HIDE DEF s
    <2>3. TurnHeldOnce'
      <3> SUFFICES ASSUME NEW t \in Sessions
                   PROVE  /\ t \in busy' <=> Holders(t)' # {}
                          /\ \A b, c \in Holders(t)' : b = c
                          /\ t \notin busy' => line'[t] = <<>>
        BY DEF TurnHeldOnce
      <3>1. CASE t = s
        BY <1>1, <2>1, <2>2, <3>1
      <3>2. CASE t # s
        BY <1>1, <2>1, <2>2, <3>2 DEF TurnHeldOnce
      <3> QED BY <3>1, <3>2
    <2>4. LineIsTracked'
      <3> SUFFICES ASSUME NEW t \in Sessions, NEW i \in 1 .. Len(line[t])
                   PROVE  LET c == line[t][i] IN
                          /\ at'[c] = "queued" /\ owner'[c]
                          /\ active'[RunOf(c)] = active[RunOf(c)]
        BY <2>1 DEF LineIsTracked
      <3>1. line[t][i] \in Drivers /\ line[t][i] # d /\ RunOf(line[t][i]) # r
            /\ RunOf(line[t][i]) \in Runs
        BY <1>4, DriverParts
      <3>2. at[line[t][i]] = "queued" /\ owner[line[t][i]]
        BY DEF LineIsTracked
      <3> QED BY <1>1, <1>3, <2>1, <3>1, <3>2, TurnTypes
    <2>5. \A q \in Runs : InLine(q)' => InLine(q)
      BY <2>1 DEF InLine
    <2> QED BY <1>1, <1>5, <1>7, <2>1, <2>2, <2>3, <2>4, <2>5 DEF TurnParts, d, s
  <1> QED BY <1>6, <1>7

LEMMA DepartKeeps ==
  ASSUME TurnInv, TypeOK', NEW r \in Runs, Departs(r)
  PROVE  /\ TurnParts'
         /\ \A t \in Sessions : Holders(t)' = Holders(t)
         /\ ~InLine(r)'
         /\ \A q \in Runs : InLine(q)' => InLine(q)
  <1> DEFINE s == SessionOf[r]
             p == PositionInLine(r)
             d == line[s][p]
  <1>1. /\ s \in Sessions /\ p \in 1 .. Len(line[s])
        /\ d \in Drivers /\ RunOf(d) = r
    BY InLineType DEF Departs, TurnInv
  <1>2. at[d] = "queued" /\ owner[d] /\ active[r] = GenOf(d)
    BY <1>1 DEF TurnInv, LineIsTracked
  <1>3. /\ line' = [line EXCEPT ![s] = RemoveAt(line[s], p)]
        /\ owner' = [owner EXCEPT ![d] = FALSE]
        /\ at' = [at EXCEPT ![d] = "none"]
        /\ UNCHANGED <<busy, born>>
    BY DEF Departs, LeaveLine
  \* One driver of r in line, and it is d.
  <1>4. \A t \in Sessions : \A i \in 1 .. Len(line[t]) :
          RunOf(line[t][i]) = r => t = s /\ i = p
    <2> SUFFICES ASSUME NEW t \in Sessions, NEW i \in 1 .. Len(line[t]),
                        RunOf(line[t][i]) = r
                 PROVE  t = s /\ i = p
      OBVIOUS
    <2> DEFINE c == line[t][i]
    <2>1. c \in Drivers /\ active[r] = GenOf(c) /\ SessionOfDriver(c) = t
      BY LineEntry DEF TurnInv, LineIsTracked
    <2>2. c = <<RunOf(c), GenOf(c)>> /\ d = <<RunOf(d), GenOf(d)>>
      BY <1>1, <2>1, DriverParts
    <2>3. c = d
      BY <1>1, <1>2, <2>1, <2>2
    <2>4. t = s
      BY <2>1 DEF SessionOfDriver
    <2>5. i = p
      BY <1>1, <2>3, <2>4 DEF TurnInv, LineIsTracked
    <2> QED BY <2>4, <2>5
  <1> HIDE DEF d
  <1>5. \A c \in Drivers : c # d => at'[c] = at[c] /\ owner'[c] = owner[c]
    BY <1>1, <1>3, TurnTypes DEF TurnInv
  <1>6. at'[d] = "none" /\ owner'[d] = FALSE
    BY <1>1, <1>3, TurnTypes DEF TurnInv
  <1>7. \A t \in Sessions : Holders(t)' = Holders(t)
    BY <1>2, <1>5, <1>6, SameHolders DEF Unborn
  <1>8. UnbornDriversRest' /\ OwnersHandOn'
    BY <1>3, <1>5, <1>6 DEF TurnInv, UnbornDriversRest, OwnersHandOn
  <1>9. \A t \in Sessions :
          /\ line[t] \in Seq(Drivers)
          /\ t # s => line'[t] = line[t]
          /\ t = s => line'[t] = RemoveAt(line[t], p)
    BY <1>1, <1>3, LineEntry, TurnTypes DEF TurnInv
  <1>10. Len(line'[s]) = Len(line[s]) - 1
         /\ \A j \in 1 .. Len(line'[s]) : line'[s][j] = IF j < p THEN line[s][j] ELSE line[s][j + 1]
    <2> DEFINE q == line[s]
    <2>1. q \in Seq(Drivers) /\ p \in 1 .. Len(q) /\ line'[s] = RemoveAt(q, p)
      BY <1>1, <1>9
    <2> HIDE DEF q, p
    <2>2. /\ Len(RemoveAt(q, p)) = Len(q) - 1
          /\ \A j \in 1 .. Len(q) - 1 : RemoveAt(q, p)[j] = IF j < p THEN q[j] ELSE q[j + 1]
      BY <2>1, RemoveAtType, Zenon
    <2> QED BY <2>1, <2>2 DEF q
  \* What is in line afterwards was in line before, somewhere else than at p.
  <1> DEFINE was(t, j) == IF t = s /\ j >= p THEN j + 1 ELSE j
  <1>11. \A t \in Sessions : \A j \in 1 .. Len(line'[t]) :
           /\ was(t, j) \in 1 .. Len(line[t])
           /\ line'[t][j] = line[t][was(t, j)]
           /\ ~(t = s /\ was(t, j) = p)
    <2> SUFFICES ASSUME NEW t \in Sessions, NEW j \in 1 .. Len(line'[t])
                 PROVE  /\ was(t, j) \in 1 .. Len(line[t])
                        /\ line'[t][j] = line[t][was(t, j)]
                        /\ ~(t = s /\ was(t, j) = p)
      OBVIOUS
    <2>1. CASE t = s
      BY <1>1, <1>9, <1>10, <2>1
    <2>2. CASE t # s
      BY <1>9, <2>2
    <2> QED BY <2>1, <2>2
  <1>12. TurnHeldOnce'
    <2>1. line[s] # <<>> /\ TurnHeldOnce
      BY <1>1, <1>9 DEF TurnInv
    <2>2. s \in busy
      BY <1>1, <2>1 DEF TurnHeldOnce
    <2>3. \A t \in Sessions : t \notin busy => line'[t] = line[t]
      BY <1>9, <2>2
    <2> QED BY <1>3, <1>7, <2>1, <2>3, SameHoldersHoldOnce
  <1>13. LineIsTracked'
    <2> SUFFICES ASSUME NEW t \in Sessions, NEW i \in 1 .. Len(line'[t])
                 PROVE  LET c == line'[t][i] IN
                        /\ SessionOfDriver(c) = t
                        /\ at'[c] = "queued" /\ owner'[c]
                        /\ active'[RunOf(c)] = GenOf(c)
                        /\ \A j \in 1 .. Len(line'[t]) : line'[t][j] = c => j = i
      BY DEF LineIsTracked
    <2> DEFINE c == line'[t][i]
    <2>1. c = line[t][was(t, i)] /\ was(t, i) \in 1 .. Len(line[t])
      BY <1>11
    <2>2. /\ c \in Drivers /\ SessionOfDriver(c) = t /\ at[c] = "queued" /\ owner[c]
          /\ active[RunOf(c)] = GenOf(c)
          /\ \A j \in 1 .. Len(line[t]) : line[t][j] = c => j = was(t, i)
      <3>1. TypeOK /\ LineIsTracked
        BY DEF TurnInv
      <3>2. line[t][was(t, i)] \in Drivers
        BY <2>1, <3>1, LineEntry
      <3> HIDE DEF was
      <3> QED BY <2>1, <3>1, <3>2 DEF LineIsTracked
    <2>3. RunOf(c) # r
      BY <1>4, <1>11, <2>1
    <2>4. c # d
      BY <1>1, <2>3
    <2>5. active'[RunOf(c)] = active[RunOf(c)]
      <3>1. RunOf(c) \in Runs
        BY <2>2, DriverParts
      <3>2. active' = active \/ Untrack(d)
        BY DEF Departs, d
      <3> HIDE DEF c
      <3> QED BY <1>1, <2>3, <3>1, <3>2, TurnTypes DEF Untrack, TurnInv
    <2>6. \A j \in 1 .. Len(line'[t]) : line'[t][j] = c => j = i
      <3> SUFFICES ASSUME NEW j \in 1 .. Len(line'[t]), line'[t][j] = c
                   PROVE  j = i
        OBVIOUS
      <3>1. was(t, j) \in 1 .. Len(line[t]) /\ line[t][was(t, j)] = c
        BY <1>11
      <3>2. was(t, j) = was(t, i)
        BY <2>2, <3>1
      <3> QED BY <1>1, <1>9, <3>2
    <2> QED BY <1>5, <2>2, <2>4, <2>5, <2>6
  <1>14. ~InLine(r)'
    <2> SUFFICES ASSUME NEW i \in 1 .. Len(line'[s]), RunOf(line'[s][i]) = r
                 PROVE  FALSE
      BY DEF InLine
    <2> DEFINE j == was(s, i)
    <2>1. j \in 1 .. Len(line[s]) /\ line'[s][i] = line[s][j] /\ j # p
      <3> HIDE DEF was
      <3> QED BY <1>1, <1>11
    <2> HIDE DEF j
    <2> QED BY <1>1, <1>4, <2>1
  <1>15. \A q \in Runs : InLine(q)' => InLine(q)
    BY <1>11 DEF InLine
  <1> QED BY <1>7, <1>8, <1>12, <1>13, <1>14, <1>15 DEF TurnParts

LEMMA ResumeKeeps ==
  ASSUME TurnInv, TypeOK', NEW r \in Runs, Resumes(r)
  PROVE  TurnParts' /\ \A t \in Sessions : Holders(t)' = Holders(t)
  <1> DEFINE d == NextDriver(r)
  <1>1. /\ d \in Drivers /\ RunOf(d) = r /\ GenOf(d) = born[r] + 1
        /\ active' = [active EXCEPT ![r] = born[r] + 1]
        /\ born' = [born EXCEPT ![r] = born[r] + 1]
        /\ at' = [at EXCEPT ![d] = "loop"]
        /\ owner' = [owner EXCEPT ![d] = FALSE]
        /\ UNCHANGED <<line, busy>>
    BY NextDriverType DEF TurnInv, Resumes, Track
  <1> HIDE DEF d
  <1>2. at[d] = "none"
    BY <1>1, TurnTypes DEF TurnInv, UnbornDriversRest
  <1>3. \A c \in Drivers : c # d => at'[c] = at[c] /\ owner'[c] = owner[c]
    BY <1>1, TurnTypes DEF TurnInv
  <1>4. at'[d] = "loop" /\ owner'[d] = FALSE
    BY <1>1, TurnTypes DEF TurnInv
  <1>5. \A t \in Sessions : Holders(t)' = Holders(t)
    BY <1>2, <1>3, <1>4 DEF Holders, Unborn
  <1>6. TurnHeldOnce'
    BY <1>1, <1>5 DEF TurnInv, TurnHeldOnce
  <1>7. LineIsTracked'
    <2> SUFFICES ASSUME NEW t \in Sessions, NEW i \in 1 .. Len(line[t])
                 PROVE  LET c == line[t][i] IN
                        /\ at'[c] = "queued" /\ owner'[c]
                        /\ active'[RunOf(c)] = active[RunOf(c)]
      BY <1>1 DEF TurnInv, LineIsTracked
    <2> DEFINE c == line[t][i]
    <2>1. /\ c \in Drivers /\ RunOf(c) \in Runs
          /\ SessionOfDriver(c) = t /\ at[c] = "queued" /\ owner[c]
      BY LineEntry, DriverParts DEF TurnInv, LineIsTracked
    <2>2. RunOf(c) # r
      BY <2>1 DEF Resumes, InLine, SessionOfDriver
    <2> HIDE DEF c
    <2>3. at'[c] = "queued" /\ owner'[c] /\ active'[RunOf(c)] = active[RunOf(c)]
      BY <1>1, <1>3, <2>1, <2>2, TurnTypes DEF TurnInv
    <2> QED BY <2>3 DEF c
  <1>8. UnbornDriversRest'
    <2> SUFFICES ASSUME NEW c \in Drivers, GenOf(c) > born'[RunOf(c)]
                 PROVE  at'[c] = "none"
      BY DEF UnbornDriversRest
    <2>1. RunOf(c) \in Runs /\ GenOf(c) \in Nat /\ born[RunOf(c)] \in Nat
      BY DriverParts, TurnTypes DEF TurnInv, Generations
    <2>2. GenOf(c) > born[RunOf(c)]
      BY <1>1, <2>1, TurnTypes DEF TurnInv
    <2>3. c # d
      BY <1>1, <2>1, TurnTypes DEF TurnInv
    <2> QED BY <1>3, <2>2, <2>3 DEF TurnInv, UnbornDriversRest
  <1>9. OwnersHandOn'
    BY <1>3, <1>4 DEF TurnInv, OwnersHandOn
  <1> QED BY <1>5, <1>6, <1>7, <1>8, <1>9 DEF TurnParts

\* The turn passes from d to the head of the line, or to nobody.
LEMMA HandOnKeeps ==
  ASSUME TurnInv, TypeOK', NEW d \in Drivers, HandOn(d)
  PROVE  LET s == SessionOfDriver(d) IN
         /\ TurnParts'
         /\ Holders(s) = {d}
         /\ \A t \in Sessions : t # s => Holders(t)' = Holders(t)
         /\ line[s] = <<>> => line' = line /\ Holders(s)' = {}
         /\ line[s] # <<>> => Holders(s)' = {Head(line[s])}
         /\ \A q \in Runs : InLine(q)' => InLine(q)
  <1> DEFINE s == SessionOfDriver(d)
             h == Head(line[s])
  <1>1. /\ s \in Sessions /\ at[d] = "handon" /\ owner[d]
        /\ UNCHANGED <<active, born, owner>>
    BY DriverParts DEF HandOn, TurnInv, OwnersHandOn
  <1>2. Holders(s) = {d} /\ s \in busy
    <2>1. d \in Holders(s)
      BY <1>1 DEF Holders, Unborn
    <2> QED BY <1>1, <2>1 DEF TurnInv, TurnHeldOnce
  <1>3. line[s] \in Seq(Drivers)
    BY <1>1, LineEntry DEF TurnInv
  <1>4. CASE line[s] = <<>>
    <2>1. line' = line /\ busy' = busy \ {s} /\ at' = [at EXCEPT ![d] = "none"]
      BY <1>4 DEF HandOn, Goto
    <2>2. at'[d] = "none" /\ \A c \in Drivers : c # d => at'[c] = at[c]
      BY <2>1, TurnTypes DEF TurnInv
    <2>3. Holders(s)' = {} /\ \A t \in Sessions : t # s => Holders(t)' = Holders(t)
      BY <1>1, <1>2, <2>2 DEF Holders, Unborn
    <2> HIDE DEF s
    <2>4. TurnHeldOnce'
      BY <1>1, <1>4, <2>1, <2>3 DEF TurnInv, TurnHeldOnce
    <2>5. LineIsTracked'
      <3>1. \A t \in Sessions : \A i \in 1 .. Len(line[t]) : line[t][i] \in Drivers /\ line[t][i] # d
        BY <1>1, LineEntry DEF TurnInv, LineIsTracked
      <3> QED BY <1>1, <2>1, <2>2, <3>1 DEF TurnInv, LineIsTracked
    <2>6. UnbornDriversRest' /\ OwnersHandOn'
      BY <1>1, <2>2 DEF TurnInv, UnbornDriversRest, OwnersHandOn
    <2>7. \A q \in Runs : InLine(q)' => InLine(q)
      BY <2>1 DEF InLine
    <2> QED BY <1>2, <1>4, <2>1, <2>3, <2>4, <2>5, <2>6, <2>7 DEF TurnParts, s
  <1>5. CASE line[s] # <<>>
    <2>1. /\ line' = [line EXCEPT ![s] = Tail(line[s])]
          /\ at' = [at EXCEPT ![d] = "none", ![h] = "waiting"]
          /\ UNCHANGED busy
      BY <1>5 DEF HandOn
    <2>2. Len(line[s]) >= 1 /\ h = line[s][1] /\ h \in Drivers
      BY <1>3, <1>5
    <2>3. /\ at[h] = "queued" /\ owner[h] /\ SessionOfDriver(h) = s /\ h # d
          /\ \A j \in 1 .. Len(line[s]) : line[s][j] = h => j = 1
      BY <1>1, <2>2 DEF TurnInv, LineIsTracked
    <2> HIDE DEF h
    <2>4. /\ at'[d] = "none" /\ at'[h] = "waiting"
          /\ \A c \in Drivers : c # d /\ c # h => at'[c] = at[c]
      BY <2>1, <2>2, <2>3, TurnTypes DEF TurnInv
    <2>5. /\ Holders(s)' = {h}
          /\ \A t \in Sessions : t # s => Holders(t)' = Holders(t)
      <3>1. \A c \in Holders(s) : c = d
        BY <1>2
      <3> QED BY <1>1, <2>2, <2>3, <2>4, <3>1 DEF Holders, Unborn
    <2>6. \A t \in Sessions :
            /\ t # s => line'[t] = line[t]
            /\ t = s => line'[t] = Tail(line[t])
      BY <1>1, <2>1, TurnTypes DEF TurnInv
    <2> HIDE DEF s
    <2>7. TurnHeldOnce'
      <3> SUFFICES ASSUME NEW t \in Sessions
                   PROVE  /\ t \in busy' <=> Holders(t)' # {}
                          /\ \A b, c \in Holders(t)' : b = c
                          /\ t \notin busy' => line'[t] = <<>>
        BY DEF TurnHeldOnce
      <3>1. CASE t = s
        BY <1>2, <2>1, <2>5, <3>1
      <3>2. CASE t # s
        BY <2>1, <2>5, <2>6, <3>2 DEF TurnInv, TurnHeldOnce
      <3> QED BY <3>1, <3>2
    <2> DEFINE was(t, j) == IF t = s THEN j + 1 ELSE j
    <2>8. \A t \in Sessions : \A j \in 1 .. Len(line'[t]) :
            /\ was(t, j) \in 1 .. Len(line[t])
            /\ line'[t][j] = line[t][was(t, j)]
            /\ ~(t = s /\ was(t, j) = 1)
      <3> SUFFICES ASSUME NEW t \in Sessions, NEW j \in 1 .. Len(line'[t])
                   PROVE  /\ was(t, j) \in 1 .. Len(line[t])
                          /\ line'[t][j] = line[t][was(t, j)]
                          /\ ~(t = s /\ was(t, j) = 1)
        OBVIOUS
      <3>1. CASE t = s
        <4>1. Len(Tail(line[s])) = Len(line[s]) - 1
              /\ \A i \in 1 .. Len(line[s]) - 1 : Tail(line[s])[i] = line[s][i + 1]
          BY <1>3, <1>5
        <4>2. line'[t] = Tail(line[s]) /\ Len(line[s]) \in Nat
          BY <1>3, <2>6, <3>1
        <4>3. j \in 1 .. Len(line[s]) - 1
          BY <4>1, <4>2
        <4>4. line'[t][j] = line[s][j + 1] /\ j + 1 \in 1 .. Len(line[s])
          BY <4>1, <4>2, <4>3
        <4> QED BY <3>1, <4>3, <4>4
      <3>2. CASE t # s
        BY <2>6, <3>2
      <3> QED BY <3>1, <3>2
    <2>9. LineIsTracked'
      <3> SUFFICES ASSUME NEW t \in Sessions, NEW i \in 1 .. Len(line'[t])
                   PROVE  LET c == line'[t][i] IN
                          /\ SessionOfDriver(c) = t
                          /\ at'[c] = "queued" /\ owner'[c]
                          /\ active'[RunOf(c)] = GenOf(c)
                          /\ \A j \in 1 .. Len(line'[t]) : line'[t][j] = c => j = i
        BY DEF LineIsTracked
      <3> DEFINE c == line'[t][i]
      <3>1. c = line[t][was(t, i)] /\ was(t, i) \in 1 .. Len(line[t])
        BY <2>8
      <3>2. /\ c \in Drivers /\ SessionOfDriver(c) = t /\ at[c] = "queued" /\ owner[c]
            /\ active[RunOf(c)] = GenOf(c)
            /\ \A j \in 1 .. Len(line[t]) : line[t][j] = c => j = was(t, i)
        BY <3>1, LineEntry DEF TurnInv, LineIsTracked
      <3>3. c # d
        BY <1>1, <3>2
      <3>4. c # h
        <4>1. CASE t = s
          BY <2>3, <2>8, <3>1, <4>1
        <4>2. CASE t # s
          BY <2>3, <3>2, <4>2
        <4> QED BY <4>1, <4>2
      <3>5. \A j \in 1 .. Len(line'[t]) : line'[t][j] = c => j = i
        <4> SUFFICES ASSUME NEW j \in 1 .. Len(line'[t]), line'[t][j] = c
                     PROVE  j = i
          OBVIOUS
        <4>1. was(t, j) \in 1 .. Len(line[t]) /\ line[t][was(t, j)] = c
          BY <2>8
        <4>2. was(t, j) = was(t, i)
          BY <3>2, <4>1
        <4> QED BY <4>2
      <3> QED BY <1>1, <2>4, <3>2, <3>3, <3>4, <3>5
    <2>10. UnbornDriversRest' /\ OwnersHandOn'
      BY <1>1, <2>2, <2>3, <2>4 DEF TurnInv, UnbornDriversRest, OwnersHandOn
    <2>11. \A q \in Runs : InLine(q)' => InLine(q)
      BY <2>8 DEF InLine
    <2> QED BY <1>2, <1>5, <2>5, <2>7, <2>9, <2>10, <2>11 DEF TurnParts, s, h
  <1> QED BY <1>4, <1>5

LEMMA VanishKeeps ==
  ASSUME Vanish
  PROVE  /\ TurnParts'
         /\ \A s \in Sessions : Holders(s)' = {} /\ line'[s] = <<>>
  <1>1. \A d \in Drivers : at'[d] = "none"
    BY DEF Vanish
  <1>2. \A s \in Sessions : Holders(s)' = {} /\ line'[s] = <<>>
    BY <1>1 DEF Vanish, Holders, Unborn
  <1>3. busy' = {}
    BY DEF Vanish
  <1> QED BY <1>1, <1>2, <1>3 DEF TurnParts, TurnHeldOnce, LineIsTracked,
             UnbornDriversRest, OwnersHandOn

LEMMA TurnPartsStep ==
  ASSUME TurnInv, TypeOK', [Next]_vars
  PROVE  TurnParts'
  BY StepKinds, SameTurnKeeps, JoinKeeps, DepartKeeps, ResumeKeeps, HandOnKeeps, VanishKeeps

-----------------------------------------------------------------------------
(***************************************************************************)
(* The requests and the restart, actor by actor.                           *)
(***************************************************************************)
ClientParts == UnadmittedRunsUntouched /\ QuietUntilServing /\ LeftTheLine

\* A driver that does anything has been made, so its run was admitted.
LEMMA DriverWasMade ==
  ASSUME TurnInv, NEW d \in Drivers, at[d] # "none"
  PROVE  /\ born[RunOf(d)] # 0
         /\ sender[RunOf(d)] \notin BeforeAdmit
  <1>1. RunOf(d) \in Runs /\ GenOf(d) \in Nat /\ GenOf(d) > 0
    BY DriverParts DEF Generations
  <1>2. ~(GenOf(d) > born[RunOf(d)])
    BY DEF TurnInv, UnbornDriversRest
  <1>3. born[RunOf(d)] # 0
    BY <1>1, <1>2
  <1> QED BY <1>1, <1>3 DEF TurnInv, UnadmittedRunsUntouched

LEMMA UntrackForgets ==
  ASSUME TypeOK, NEW d, Untrack(d)
  PROVE  \A q \in Runs : active'[q] \in {active[q], NoDriver}
  BY DEF TypeOK, Untrack

\* The types of the part of the state that the requests are about.
LEMMA ClientTypes ==
  ASSUME TypeOK
  PROVE  /\ row \in [Runs -> Statuses \cup {NoRow}]
         /\ ask \in [Runs -> [Calls -> PendingAsk \cup SettledAsk \cup {NoAsk}]]
         /\ active \in [Runs -> Generations \cup {NoDriver}]
         /\ born \in [Runs -> 0 .. MaxCalls + 1]
         /\ sender \in [Runs -> SenderPlaces]
         /\ decider \in [Runs -> [Calls -> DeciderPlaces]]
         /\ interrupter \in [Runs -> InterrupterPlaces]
         /\ phase \in Phases /\ todo \in SUBSET Runs
  BY DEF TypeOK

\* A sender that goes from one place to another while nobody else moves.
SenderMoves(r, from, to) ==
  /\ sender[r] \in from /\ sender'[r] \in to
  /\ \A q \in Runs : q # r => sender'[q] = sender[q] /\ row'[q] = row[q]
  /\ \A q \in Runs : active[q] = NoDriver => active'[q] = NoDriver
  /\ UNCHANGED <<ask, born, decider, interrupter, phase, todo>>

LEMMA SenderMovesOnly ==
  ASSUME TypeOK, NEW r \in Runs, NEW place, sender' = [sender EXCEPT ![r] = place]
  PROVE  sender'[r] = place /\ \A q \in Runs : q # r => sender'[q] = sender[q]
  BY ClientTypes

LEMMA SenderMovesKeep ==
  ASSUME UnadmittedRunsUntouched, QuietUntilServing, LeftTheLine, NEW r \in Runs,
         NEW from, NEW to, SenderMoves(r, from, to),
         phase \notin {"down", "recovering"},
         "idle" \notin to,
         to \cap BeforeAdmit # {} => from \subseteq BeforeAdmit,
         to \cap {"accepted"} # {} => from = {"idle"} /\ row' = row,
         \A q \in Runs : InLine(q)' => InLine(q)
  PROVE  ClientParts'
  <1>1. UnadmittedRunsUntouched'
    <2> SUFFICES ASSUME NEW q \in Runs, sender'[q] \in BeforeAdmit
                 PROVE  /\ born'[q] = 0 /\ active'[q] = NoDriver /\ interrupter'[q] = "idle"
                        /\ sender'[q] \in {"idle", "accepted"} => row'[q] = NoRow
                        /\ \A k \in Calls : ask'[q][k] = NoAsk /\ decider'[q][k] = "idle"
      BY DEF UnadmittedRunsUntouched
    <2>1. sender[q] \in BeforeAdmit
      BY DEF SenderMoves
    <2>2. /\ born[q] = 0 /\ active[q] = NoDriver /\ interrupter[q] = "idle"
          /\ sender[q] \in {"idle", "accepted"} => row[q] = NoRow
          /\ \A k \in Calls : ask[q][k] = NoAsk /\ decider[q][k] = "idle"
      BY <2>1 DEF UnadmittedRunsUntouched
    <2>3. sender'[q] \in {"idle", "accepted"} => row'[q] = NoRow
      BY <2>2 DEF SenderMoves
    <2> QED BY <2>2, <2>3 DEF SenderMoves
  <1>2. QuietUntilServing'
    <2>1. \A q \in todo : FALSE
      BY DEF QuietUntilServing
    <2> QED BY <2>1 DEF SenderMoves, QuietUntilServing
  <1>3. LeftTheLine'
    BY DEF SenderMoves, LeftTheLine
  <1> QED BY <1>1, <1>2, <1>3 DEF ClientParts

LEMMA SenderClients ==
  ASSUME TurnInv, TypeOK', NEW r \in Runs, Sender(r)
  PROVE  ClientParts'
  <1>parts. TypeOK /\ UnadmittedRunsUntouched /\ QuietUntilServing /\ LeftTheLine
    BY DEF TurnInv
  \* A sender that is on its way, or may set out, finds the daemon serving.
  <1>serving. /\ sender[r] \notin {"idle", "refused", "done"} => phase \notin {"down", "recovering"}
              /\ phase \in {"up", "stopping"} => phase \notin {"down", "recovering"}
    BY <1>parts DEF QuietUntilServing
  <1>still. ASSUME line' = line
            PROVE  \A q \in Runs : InLine(q)' => InLine(q)
    BY <1>still DEF InLine
  <1>rows. ASSUME NEW status, row' = [row EXCEPT ![r] = status]
           PROVE  \A q \in Runs : q # r => row'[q] = row[q]
    BY <1>rows, <1>parts, ClientTypes
  <1> USE DEF durable, store, history, loopData, turnData, drive, clients, process
  <1>1. CASE SendTurnTo(r)
    <2>1. line' = line /\ row' = row /\ phase \in {"up", "stopping"}
      BY <1>1 DEF SendTurnTo
    <2>2. SenderMoves(r, {"idle"}, {"accepted"})
      BY <1>1, <1>parts, SenderMovesOnly DEF SendTurnTo, SenderMoves
    <2> QED BY <2>1, <2>2, <1>parts, <1>serving, <1>still, SenderMovesKeep DEF BeforeAdmit
  <1>2. CASE CreateRun(r)
    <2>1. line' = line /\ phase \notin {"down", "recovering"}
      BY <1>2, <1>serving DEF CreateRun
    <2>2. SenderMoves(r, {"accepted"}, {"created"})
      <3>1. /\ row' = [row EXCEPT ![r] = "queued"]
            /\ sender[r] = "accepted" /\ sender' = [sender EXCEPT ![r] = "created"]
            /\ UNCHANGED <<ask, active, born, decider, interrupter, phase, todo>>
        BY <1>2 DEF CreateRun
      <3>2. \A q \in Runs : q # r => row'[q] = row[q]
        BY <3>1, <1>rows
      <3>3. sender'[r] = "created" /\ \A q \in Runs : q # r => sender'[q] = sender[q]
        BY <3>1, <1>parts, SenderMovesOnly
      <3> QED BY <3>1, <3>2, <3>3 DEF SenderMoves
    <2> QED BY <2>1, <2>2, <1>parts, <1>still, SenderMovesKeep DEF BeforeAdmit
  <1>3. CASE AddUserMessage(r)
    <2>1. line' = line /\ phase \notin {"down", "recovering"}
      BY <1>3, <1>serving DEF AddUserMessage
    <2>2. SenderMoves(r, {"created"}, {"spoken"})
      BY <1>3, <1>parts, SenderMovesOnly DEF AddUserMessage, SenderMoves
    <2> QED BY <2>1, <2>2, <1>parts, <1>still, SenderMovesKeep DEF BeforeAdmit
  <1>4. CASE Admit(r)
    <2>1. /\ active' = [active EXCEPT ![r] = born[r] + 1]
          /\ born' = [born EXCEPT ![r] = born[r] + 1]
          /\ sender' = [sender EXCEPT ![r] = IF SessionOf[r] \in busy THEN "lining" ELSE "done"]
          /\ sender[r] = "spoken"
          /\ UNCHANGED <<row, ask, decider, interrupter, phase, todo>>
      BY <1>4 DEF Admit, JoinOrStart, Track
    <2>2. /\ sender'[r] \in {"lining", "done"}
          /\ \A q \in Runs : q # r => /\ sender'[q] = sender[q]
                                      /\ active'[q] = active[q] /\ born'[q] = born[q]
      BY <2>1, <1>parts, ClientTypes
    <2>3. /\ born[r] = 0 /\ interrupter[r] = "idle"
          /\ \A k \in Calls : decider[r][k] = "idle"
      BY <2>1, <1>parts DEF UnadmittedRunsUntouched, BeforeAdmit
    <2>4. UnadmittedRunsUntouched'
      BY <2>1, <2>2, <1>parts DEF UnadmittedRunsUntouched, BeforeAdmit
    <2>5. QuietUntilServing'
      <3>1. phase \notin {"down", "recovering"} /\ todo = {}
        BY <2>1, <1>serving, <1>parts DEF QuietUntilServing
      <3> QED BY <2>1, <3>1 DEF QuietUntilServing
    <2>6. \A q \in Runs : q # r /\ InLine(q)' => InLine(q)
      <3>1. Joins(r)
        BY <1>4, <2>3, TrackedInLine DEF Admit, Joins
      <3> QED BY <3>1, JoinKeeps
    <2>7. LeftTheLine'
      BY <2>1, <2>3, <2>6, <1>parts DEF LeftTheLine
    <2> QED BY <2>4, <2>5, <2>7 DEF ClientParts
  <1>5. CASE RecordWaiting(r)
    <2>1. line' = line /\ phase \notin {"down", "recovering"}
      BY <1>5, <1>serving DEF RecordWaiting
    <2>2. SenderMoves(r, {"lining"}, {"recorded"})
      <3>1. /\ row' = [row EXCEPT ![r] = "queued"]
            /\ sender[r] = "lining" /\ sender' = [sender EXCEPT ![r] = "recorded"]
            /\ UNCHANGED <<ask, active, born, decider, interrupter, phase, todo>>
        BY <1>5 DEF RecordWaiting
      <3>2. \A q \in Runs : q # r => row'[q] = row[q]
        BY <3>1, <1>rows
      <3>3. sender'[r] = "recorded" /\ \A q \in Runs : q # r => sender'[q] = sender[q]
        BY <3>1, <1>parts, SenderMovesOnly
      <3> QED BY <3>1, <3>2, <3>3 DEF SenderMoves
    <2> QED BY <2>1, <2>2, <1>parts, <1>still, SenderMovesKeep DEF BeforeAdmit
  <1>6. CASE AnnounceWaiting(r)
    <2>1. line' = line /\ phase \notin {"down", "recovering"}
      BY <1>6, <1>serving DEF AnnounceWaiting
    <2>2. SenderMoves(r, {"recorded"}, {"done"})
      BY <1>6, <1>parts, SenderMovesOnly DEF AnnounceWaiting, SenderMoves
    <2> QED BY <2>1, <2>2, <1>parts, <1>still, SenderMovesKeep DEF BeforeAdmit
  <1>7. CASE WaitNotRecorded(r)
    <2>1. /\ sender[r] \in {"lining", "recorded"}
          /\ \E place \in {"refused", "done"} : sender' = [sender EXCEPT ![r] = place]
          /\ UNCHANGED <<row, ask, born, decider, interrupter, phase, todo>>
      BY <1>7 DEF WaitNotRecorded
    <2>2. \A q \in Runs : active[q] = NoDriver => active'[q] = NoDriver
      <3>1. CASE InLine(r)
        <4>1. Untrack(line[SessionOf[r]][PositionInLine(r)])
          BY <1>7, <3>1, Zenon DEF WaitNotRecorded
        <4> QED BY <1>parts, <4>1, UntrackForgets
      <3>2. CASE ~InLine(r)
        BY <1>7, <3>2, Zenon DEF WaitNotRecorded
      <3> QED BY <3>1, <3>2
    <2>3. \A q \in Runs : InLine(q)' => InLine(q)
      <3>1. CASE InLine(r)
        <4>1. Departs(r)
          BY <1>7, <3>1, Zenon DEF WaitNotRecorded, Departs
        <4> QED BY <4>1, DepartKeeps
      <3>2. CASE ~InLine(r)
        BY <1>7, <3>2, <1>still, Zenon DEF WaitNotRecorded
      <3> QED BY <3>1, <3>2
    <2>4. SenderMoves(r, {"lining", "recorded"}, {"refused", "done"})
      BY <2>1, <2>2, <1>parts, SenderMovesOnly DEF SenderMoves
    <2> QED BY <2>1, <2>3, <2>4, <1>parts, <1>serving, SenderMovesKeep DEF BeforeAdmit
  <1>8. CASE SendFails(r)
    <2>1. line' = line /\ phase \notin {"down", "recovering"}
      BY <1>8, <1>serving DEF SendFails
    <2>2. SenderMoves(r, {"accepted", "created"}, {"done"})
      BY <1>8, <1>parts, SenderMovesOnly DEF SendFails, SenderMoves
    <2> QED BY <2>1, <2>2, <1>parts, <1>still, SenderMovesKeep DEF BeforeAdmit
  <1> QED BY <1>1, <1>2, <1>3, <1>4, <1>5, <1>6, <1>7, <1>8 DEF Sender

LEMMA DriverClients ==
  ASSUME TurnInv, TypeOK', NEW d \in Drivers, Driver(d)
  PROVE  ClientParts'
  <1>parts. TypeOK /\ UnadmittedRunsUntouched /\ QuietUntilServing /\ LeftTheLine
    BY DEF TurnInv
  <1> USE <1>parts, ClientTypes DEF ClientParts, UnadmittedRunsUntouched, QuietUntilServing,
              durable, store, history, loopData, turnData, drive, clients, process
  <1>1. CASE Inside(d)
    <2>1. MovesInside(d)
      BY <1>1, InsideMoves
    <2>2. sender[RunOf(d)] \notin BeforeAdmit
      BY <2>1, DriverWasMade DEF MovesInside, Driving, Writing
    <2>3. /\ UNCHANGED <<active, born, line, sender, decider, interrupter, phase, todo>>
          /\ \A r \in Runs : r # RunOf(d) => row'[r] = row[r] /\ ask'[r] = ask[r]
      BY <2>1 DEF MovesInside
    <2>4. UnadmittedRunsUntouched'
      <3> SUFFICES ASSUME NEW r \in Runs, sender[r] \in BeforeAdmit
                   PROVE  /\ row'[r] = row[r]
                          /\ \A k \in Calls : ask'[r][k] = ask[r][k]
        BY <2>3
      <3>1. r # RunOf(d)
        BY <2>2
      <3> QED BY <2>3, <3>1
    <2>5. QuietUntilServing' /\ LeftTheLine'
      BY <2>3 DEF LeftTheLine, InLine
    <2> QED BY <2>4, <2>5
  <1>2. CASE Release(d)
    BY <1>2 DEF Release, Untrack, LeftTheLine, InLine
  <1>3. CASE HandOn(d)
    <2>1. UNCHANGED <<row, ask, active, born, sender, decider, interrupter, phase, todo>>
      BY <1>3 DEF HandOn
    <2>2. UnadmittedRunsUntouched' /\ QuietUntilServing'
      BY <2>1
    <2>3. \A q \in Runs : InLine(q)' => InLine(q)
      BY <1>3, HandOnKeeps
    <2> QED BY <2>1, <2>2, <2>3 DEF LeftTheLine
  <1> QED BY <1>1, <1>2, <1>3, DriverInsideOrOut

\* A decider that moves, of a run that was admitted, while the daemon serves.
DeciderMoves(r, k) ==
  /\ \A q \in Runs : \A c \in Calls : q # r \/ c # k => decider'[q][c] = decider[q][c]
  /\ \A q \in Runs : q # r => /\ active'[q] = active[q] /\ born'[q] = born[q]
                              /\ \A c \in Calls : ask'[q][c] = ask[q][c]
  /\ UNCHANGED <<row, line, sender, interrupter, phase, todo>>

LEMMA DeciderMovesKeep ==
  ASSUME UnadmittedRunsUntouched, QuietUntilServing, LeftTheLine,
         NEW r \in Runs, NEW k \in Calls, DeciderMoves(r, k),
         sender[r] \notin BeforeAdmit, phase \notin {"down", "recovering"},
         decider'[r][k] = "checked" => ~InLine(r)
  PROVE  ClientParts'
  <1>1. UnadmittedRunsUntouched'
    BY DEF DeciderMoves, UnadmittedRunsUntouched
  <1>2. QuietUntilServing'
    <2>1. todo = {}
      BY DEF QuietUntilServing
    <2> QED BY <2>1 DEF DeciderMoves, QuietUntilServing
  <1>3. LeftTheLine'
    <2> SUFFICES ASSUME NEW q \in Runs,
                        \/ interrupter'[q] \in {"row", "event", "release"}
                        \/ \E c \in Calls : decider'[q][c] = "checked"
                 PROVE  ~InLine(q)
      <3>1. \A q \in Runs : InLine(q)' <=> InLine(q)
        BY DEF DeciderMoves, InLine
      <3> QED BY <3>1 DEF LeftTheLine
    <2>1. CASE interrupter'[q] \in {"row", "event", "release"}
      BY <2>1 DEF DeciderMoves, LeftTheLine
    <2>2. ASSUME NEW c \in Calls, decider'[q][c] = "checked"
          PROVE  ~InLine(q)
      <3>1. CASE q = r /\ c = k
        BY <2>2, <3>1
      <3>2. CASE q # r \/ c # k
        BY <2>2, <3>2 DEF DeciderMoves, LeftTheLine
      <3> QED BY <3>1, <3>2
    <2> QED BY <2>1, <2>2
  <1> QED BY <1>1, <1>2, <1>3 DEF ClientParts

DeciderGoes(r, k, place) == decider' = [decider EXCEPT ![r][k] = place]

LEMMA DeciderMovesOnly ==
  ASSUME TypeOK, NEW r \in Runs, NEW k \in Calls, NEW place, DeciderGoes(r, k, place)
  PROVE  /\ decider'[r][k] = place
         /\ \A q \in Runs : \A c \in Calls : q # r \/ c # k => decider'[q][c] = decider[q][c]
  <1>1. decider \in [Runs -> [Calls -> DeciderPlaces]]
    BY ClientTypes
  <1>2. decider' = [decider EXCEPT ![r] = [decider[r] EXCEPT ![k] = place]]
    BY DEF DeciderGoes
  <1>3. decider'[r] = [decider[r] EXCEPT ![k] = place] /\ decider[r] \in [Calls -> DeciderPlaces]
    BY <1>1, <1>2
  <1>4. \A q \in Runs : q # r => decider'[q] = decider[q]
    BY <1>1, <1>2
  <1> QED BY <1>3, <1>4

LEMMA DeciderClients ==
  ASSUME TurnInv, TypeOK', NEW r \in Runs, NEW k \in Calls, Decider(r, k)
  PROVE  ClientParts'
  <1>parts. TypeOK /\ UnadmittedRunsUntouched /\ QuietUntilServing /\ LeftTheLine
    BY DEF TurnInv
  \* Only an admitted run has a prompt or a decision, and only a serving daemon.
  <1>admitted. ask[r][k] # NoAsk \/ decider[r][k] # "idle" => sender[r] \notin BeforeAdmit
    BY <1>parts DEF UnadmittedRunsUntouched
  <1>serving. decider[r][k] \notin {"idle", "done"} => phase \notin {"down", "recovering"}
    BY <1>parts DEF QuietUntilServing
  <1> USE DEF durable, store, history, loopData, turnData, drive, clients, process
  <1>1. CASE Decide(r, k)
    <2>1. /\ ask[r][k] \in PendingAsk /\ phase \in Serving
          /\ DeciderGoes(r, k, "decided")
          /\ \E reply \in Replies(ask[r][k]) : ask' = [ask EXCEPT ![r][k] = reply]
          /\ UNCHANGED <<row, active, born, line, sender, interrupter, phase, todo>>
      BY <1>1 DEF Decide, DeciderGoes
    <2>2. sender[r] \notin BeforeAdmit /\ phase \notin {"down", "recovering"}
      BY <2>1, <1>admitted DEF PendingAsk, NoAsk, Serving
    <2>3. \A q \in Runs : q # r => ask'[q] = ask[q]
      BY <2>1, <1>parts, ClientTypes
    <2>4. /\ decider'[r][k] = "decided"
          /\ \A q \in Runs : \A c \in Calls : q # r \/ c # k => decider'[q][c] = decider[q][c]
      BY <2>1, <1>parts, DeciderMovesOnly
    <2>5. DeciderMoves(r, k)
      BY <2>1, <2>3, <2>4 DEF DeciderMoves
    <2> QED BY <2>2, <2>4, <2>5, <1>parts, DeciderMovesKeep
  <1>2. CASE DeciderVanishes(r, k)
    <2>1. /\ decider[r][k] = "decided" /\ DeciderGoes(r, k, "done")
          /\ UNCHANGED <<row, ask, active, born, line, sender, interrupter, phase, todo>>
      BY <1>2 DEF DeciderVanishes, DeciderGoes
    <2>2. /\ decider'[r][k] = "done"
          /\ \A q \in Runs : \A c \in Calls : q # r \/ c # k => decider'[q][c] = decider[q][c]
      BY <2>1, <1>parts, DeciderMovesOnly
    <2>3. DeciderMoves(r, k)
      BY <2>1, <2>2 DEF DeciderMoves
    <2> QED BY <2>1, <2>2, <2>3, <1>parts, <1>admitted, <1>serving, DeciderMovesKeep
  <1>3. CASE CheckResume(r, k)
    <2>1. /\ decider[r][k] = "decided"
          /\ UNCHANGED <<row, ask, active, born, line, sender, interrupter, phase, todo>>
      BY <1>3 DEF CheckResume, DeciderGoes
    <2>2. PICK place \in {"done", "checked"} :
            /\ DeciderGoes(r, k, place)
            /\ place = "checked" => active[r] = NoDriver
      BY <1>3 DEF CheckResume, DeciderGoes
    <2>3. /\ decider'[r][k] = place
          /\ \A q \in Runs : \A c \in Calls : q # r \/ c # k => decider'[q][c] = decider[q][c]
      BY <2>2, <1>parts, DeciderMovesOnly
    <2>4. active[r] # NoDriver \/ ~InLine(r)
      BY TrackedInLine
    <2>5. DeciderMoves(r, k)
      BY <2>1, <2>3 DEF DeciderMoves
    <2> QED BY <2>1, <2>2, <2>3, <2>4, <2>5, <1>parts, <1>admitted, <1>serving, DeciderMovesKeep
  <1>4. CASE Resume(r, k)
    <2>1. /\ decider[r][k] = "checked" /\ DeciderGoes(r, k, "done")
          /\ UNCHANGED <<row, ask, line, sender, interrupter, phase, todo>>
      BY <1>4 DEF Resume, DeciderGoes
    <2>2. \A q \in Runs : q # r => active'[q] = active[q] /\ born'[q] = born[q]
      BY <1>4, <1>parts, ClientTypes DEF Resume, Track
    <2>3. /\ decider'[r][k] = "done"
          /\ \A q \in Runs : \A c \in Calls : q # r \/ c # k => decider'[q][c] = decider[q][c]
      BY <2>1, <1>parts, DeciderMovesOnly
    <2>4. DeciderMoves(r, k)
      BY <2>1, <2>2, <2>3 DEF DeciderMoves
    <2> QED BY <2>1, <2>3, <2>4, <1>parts, <1>admitted, <1>serving, DeciderMovesKeep
  <1> QED BY <1>1, <1>2, <1>3, <1>4 DEF Decider

LEMMA InterrupterClients ==
  ASSUME TurnInv, TypeOK', NEW r \in Runs, Interrupter(r)
  PROVE  ClientParts'
  <1>parts. TypeOK /\ UnadmittedRunsUntouched /\ QuietUntilServing /\ LeftTheLine
    BY DEF TurnInv
  <1> USE <1>parts DEF ClientParts, UnadmittedRunsUntouched, QuietUntilServing,
              durable, store, history, loopData, turnData, drive, clients, process
  \* Only a run that is tracked is found, so none that was not admitted.
  <1>1. CASE InterruptRun(r)
    <2>1. /\ sender[r] \notin BeforeAdmit /\ phase \notin {"down", "recovering"}
          /\ interrupter'[r] = "found"
          /\ \A q \in Runs : q # r => interrupter'[q] = interrupter[q]
          /\ UNCHANGED <<row, ask, active, born, line, sender, decider, phase, todo>>
      BY <1>1 DEF InterruptRun, TypeOK, Serving
    <2>2. UnadmittedRunsUntouched' /\ QuietUntilServing'
      BY <2>1
    <2>3. LeftTheLine'
      BY <2>1 DEF LeftTheLine, InLine
    <2> QED BY <2>2, <2>3
  <1>2. CASE ~InterruptRun(r)
    <2>1. /\ interrupter[r] \in {"found", "row", "event", "release"}
          /\ interrupter'[r] # "idle"
          /\ \A q \in Runs : q # r => interrupter'[q] = interrupter[q]
          /\ UNCHANGED <<ask, born, sender, decider, phase, todo>>
          /\ \A q \in Runs : q # r => row'[q] = row[q]
      <3>1. /\ interrupter[r] \in {"found", "row", "event", "release"}
            /\ \E p \in {"row", "event", "release", "done"} :
                 interrupter' = [interrupter EXCEPT ![r] = p]
            /\ UNCHANGED <<ask, born, sender, decider, phase, todo>>
            /\ row' = row \/ row' = [row EXCEPT ![r] = "cancelled"]
        BY <1>2 DEF Interrupter, TakeOutOfLine, CancelDriver, WriteInterruptedRow,
           WriteInterruptedEvent, InterruptNotRecorded, ReleaseInterrupted
      <3>2. PICK p \in {"row", "event", "release", "done"} :
              interrupter' = [interrupter EXCEPT ![r] = p]
        BY <3>1
      <3>3. interrupter'[r] = p /\ \A q \in Runs : q # r => interrupter'[q] = interrupter[q]
        BY <3>2 DEF TypeOK
      <3>4. \A q \in Runs : q # r => row'[q] = row[q]
        <4>1. row \in [Runs -> Statuses \cup {NoRow}]
          BY DEF TypeOK
        <4>2. CASE row' = row
          BY <4>2
        <4>3. CASE row' = [row EXCEPT ![r] = "cancelled"]
          BY <4>1, <4>3
        <4> QED BY <3>1, <4>2, <4>3
      <3> QED BY <3>1, <3>2, <3>3, <3>4
    <2>2. sender[r] \notin BeforeAdmit /\ phase \notin {"down", "recovering"}
      BY <2>1
    <2>3. \A q \in Runs : active'[q] \in {active[q], NoDriver}
      BY <1>2, UntrackForgets DEF Interrupter, TakeOutOfLine, CancelDriver,
         WriteInterruptedRow, WriteInterruptedEvent, InterruptNotRecorded, ReleaseInterrupted
    <2>4. UnadmittedRunsUntouched' /\ QuietUntilServing'
      BY <2>1, <2>2, <2>3
    <2>5. CASE TakeOutOfLine(r)
      <3>1. Departs(r)
        BY <2>5 DEF TakeOutOfLine, Departs
      <3>2. ~InLine(r)' /\ \A q \in Runs : InLine(q)' => InLine(q)
        BY <3>1, DepartKeeps
      <3> QED BY <2>1, <2>4, <3>2 DEF LeftTheLine
    <2>6. CASE ~TakeOutOfLine(r)
      <3>1. line' = line
        BY <1>2, <2>6 DEF Interrupter, CancelDriver, WriteInterruptedRow,
           WriteInterruptedEvent, InterruptNotRecorded, ReleaseInterrupted
      <3>2. interrupter'[r] \in {"row", "event", "release"} =>
              interrupter[r] \in {"row", "event", "release"}
        BY <1>2, <2>6 DEF Interrupter, CancelDriver, WriteInterruptedRow,
           WriteInterruptedEvent, InterruptNotRecorded, ReleaseInterrupted, TypeOK
      <3> QED BY <2>1, <2>4, <3>1, <3>2 DEF LeftTheLine, InLine
    <2> QED BY <2>5, <2>6
  <1> QED BY <1>1, <1>2

LEMMA VanishClients ==
  ASSUME TurnInv, Vanish
  PROVE  ClientParts'
  <1>1. /\ \A r \in Runs : /\ sender'[r] = Gone(sender[r])
                           /\ interrupter'[r] = Gone(interrupter[r])
                           /\ born'[r] = 0 /\ active'[r] = NoDriver
                           /\ \A k \in Calls : decider'[r][k] = Gone(decider[r][k])
        /\ row' = row /\ ask' = ask /\ phase' = "down" /\ todo' = {}
    BY DEF Vanish, durable
  <1>2. \A r \in Runs : sender'[r] \in BeforeAdmit => sender[r] = "idle"
    BY <1>1 DEF Gone, BeforeAdmit
  <1>3. UnadmittedRunsUntouched'
    BY <1>1, <1>2 DEF TurnInv, UnadmittedRunsUntouched, Gone, BeforeAdmit
  <1>4. QuietUntilServing'
    <2>1. \A r \in Runs : interrupter'[r] # "refused"
      <3>1. \A r \in Runs : interrupter[r] \in InterrupterPlaces
        BY ClientTypes DEF TurnInv
      <3> QED BY <1>1, <3>1 DEF Gone, InterrupterPlaces
    <2>2. \A r \in Runs : \A k \in Calls : decider'[r][k] # "refused"
      <3>1. \A r \in Runs : \A k \in Calls : decider[r][k] \in DeciderPlaces
        BY ClientTypes DEF TurnInv
      <3> QED BY <1>1, <3>1 DEF Gone, DeciderPlaces
    <2> QED BY <1>1, <2>1, <2>2 DEF QuietUntilServing, Gone
  <1>5. LeftTheLine'
    <2>1. \A r \in Runs : ~InLine(r)'
      BY DEF Vanish, InLine
    <2> QED BY <2>1 DEF LeftTheLine
  <1> QED BY <1>3, <1>4, <1>5 DEF ClientParts

LEMMA ProcessClients ==
  ASSUME TurnInv, TypeOK', Process
  PROVE  ClientParts'
  <1>parts. TypeOK /\ UnadmittedRunsUntouched /\ QuietUntilServing /\ LeftTheLine
    BY DEF TurnInv
  <1> USE <1>parts DEF ClientParts, UnadmittedRunsUntouched, QuietUntilServing,
              durable, store, history, loopData, turnData, drive, clients, process
  <1>1. CASE Signal \/ Drain
    BY <1>1 DEF Signal, Drain, LeftTheLine, InLine
  <1>2. CASE Crash \/ Exit
    BY <1>2, VanishClients DEF Crash, Exit
  <1>3. CASE StartRecovery
    <2>1. /\ phase = "down" /\ phase' = "recovering"
          /\ \A r \in todo' : r \in Runs /\ row[r] # NoRow
          /\ UNCHANGED <<row, ask, active, born, line, sender, decider, interrupter>>
      BY <1>3 DEF StartRecovery, NoRow
    <2>2. UnadmittedRunsUntouched' /\ LeftTheLine'
      BY <2>1 DEF LeftTheLine, InLine
    <2>3. QuietUntilServing'
      BY <2>1 DEF BeforeAdmit
    <2> QED BY <2>2, <2>3
  <1>4. CASE Serve
    BY <1>4 DEF Serve, LeftTheLine, InLine
  <1>5. ASSUME NEW r \in Runs, Requeue(r)
        PROVE  ClientParts'
    <2>1. /\ phase = "recovering" /\ r \in todo /\ todo' = todo \ {r} /\ todo \subseteq Runs
          /\ UNCHANGED <<row, ask, sender, decider, interrupter, phase>>
          /\ \A q \in Runs : q # r => active'[q] = active[q] /\ born'[q] = born[q]
      BY <1>5 DEF Requeue, JoinOrStart, Track, TypeOK
    <2>2. born[r] = 0 /\ sender[r] \notin BeforeAdmit
      BY <2>1 DEF BeforeAdmit
    <2>3. UnadmittedRunsUntouched'
      BY <2>1, <2>2
    <2>4. QuietUntilServing'
      BY <2>1
    <2>5. \A q \in Runs : ~(interrupter'[q] \in {"row", "event", "release"}
                            \/ \E k \in Calls : decider'[q][k] = "checked")
      BY <2>1
    <2>6. LeftTheLine'
      BY <2>5 DEF LeftTheLine
    <2> QED BY <2>3, <2>4, <2>6
  <1>6. ASSUME NEW r \in Runs, FailOrphanRow(r)
        PROVE  ClientParts'
    <2>1. sender[r] \notin BeforeAdmit
      BY <1>6 DEF FailOrphanRow, BeforeAdmit
    <2>2. /\ UNCHANGED <<ask, active, born, line, sender, decider, interrupter, phase, todo>>
          /\ \A q \in Runs : q # r => row'[q] = row[q]
      BY <1>6 DEF FailOrphanRow
    <2> QED BY <2>1, <2>2 DEF LeftTheLine, InLine, BeforeAdmit
  <1>7. ASSUME NEW r \in Runs, FailOrphanEvent(r)
        PROVE  ClientParts'
    BY <1>7 DEF FailOrphanEvent, LeftTheLine, InLine
  <1> QED BY <1>1, <1>2, <1>3, <1>4, <1>5, <1>6, <1>7 DEF Process, Recovery

LEMMA ClientPartsStep ==
  ASSUME TurnInv, TypeOK', [Next]_vars
  PROVE  ClientParts'
  <1>1. CASE UNCHANGED vars
    BY <1>1 DEF TurnInv, ClientParts, UnadmittedRunsUntouched, QuietUntilServing,
       LeftTheLine, InLine, vars, durable, turnData, drive, clients, process
  <1>2. CASE Next
    BY <1>2, SenderClients, InterrupterClients, DeciderClients, DriverClients,
       ProcessClients DEF Next
  <1> QED BY <1>1, <1>2

-----------------------------------------------------------------------------
LEMMA TurnInit == Init => TurnInv
  <1> SUFFICES ASSUME Init PROVE TurnInv
    OBVIOUS
  <1>1. TypeOK
    BY InitType
  <1>2. TurnHeldOnce /\ LineIsTracked /\ UnbornDriversRest /\ OwnersHandOn
    BY DEF Init, TurnHeldOnce, Holders, LineIsTracked, UnbornDriversRest, OwnersHandOn, Unborn
  <1>3. UnadmittedRunsUntouched /\ QuietUntilServing /\ LeftTheLine
    BY DEF Init, UnadmittedRunsUntouched, QuietUntilServing, LeftTheLine
  <1> QED BY <1>1, <1>2, <1>3 DEF TurnInv

LEMMA TurnStep == TurnInv /\ [Next]_vars => TurnInv'
  <1> SUFFICES ASSUME TurnInv, [Next]_vars PROVE TurnInv'
    OBVIOUS
  <1>1. TypeOK'
    BY TypeStep DEF TurnInv
  <1> QED BY <1>1, TurnPartsStep, ClientPartsStep DEF TurnInv, TurnParts, ClientParts

\* The strengthening that makes the next two theorems go through.
THEOREM TurnInvariant == Spec => []TurnInv
  BY TurnInit, TurnStep, PTL DEF Spec

\* releaseRun and next neither lose a session's turn nor give it to two.
THEOREM TurnIsHeldOnce == Spec => []TurnHeldOnce
  <1>1. TurnInv => TurnHeldOnce
    BY DEF TurnInv
  <1> QED BY <1>1, TurnInvariant, PTL

\* Whoever is in line is tracked, queued, an owner-to-be, and there once.
THEOREM LineStaysTracked == Spec => []LineIsTracked
  <1>1. TurnInv => LineIsTracked
    BY DEF TurnInv
  <1> QED BY <1>1, TurnInvariant, PTL

-----------------------------------------------------------------------------
(***************************************************************************)
(* The runtime implements TurnTaking.                                      *)
(***************************************************************************)
holders == [s \in Sessions |-> HolderOf(s)]

LEMMA NoHolderIsNoDriver == NoHolder \notin Drivers
  BY DEF NoHolder, Drivers

LEMMA HolderOfNone ==
  ASSUME NEW s, Holders(s) = {}
  PROVE  HolderOf(s) = NoHolder
  BY DEF HolderOf

LEMMA HolderOfOne ==
  ASSUME NEW s, NEW d, Holders(s) = {d}
  PROVE  HolderOf(s) = d
  BY DEF HolderOf

LEMMA HolderOfSome ==
  ASSUME NEW s, Holders(s) # {}
  PROVE  HolderOf(s) # NoHolder
  <1>1. HolderOf(s) \in Holders(s)
    BY DEF HolderOf
  <1> QED BY <1>1, NoHolderIsNoDriver DEF Holders

LEMMA HolderOfNoneNext ==
  ASSUME NEW s, Holders(s)' = {}
  PROVE  HolderOf(s)' = NoHolder
  BY DEF HolderOf

LEMMA HolderOfOneNext ==
  ASSUME NEW s, NEW d, Holders(s)' = {d}
  PROVE  HolderOf(s)' = d
  BY DEF HolderOf

LEMMA SameHolder ==
  ASSUME NEW s, Holders(s)' = Holders(s)
  PROVE  HolderOf(s)' = HolderOf(s)
  BY DEF HolderOf

LEMMA TurnInitRefines == Init => Turn!TurnInit
  <1> SUFFICES ASSUME Init PROVE Turn!TurnInit
    OBVIOUS
  <1>1. \A s \in Sessions : HolderOf(s) = NoHolder
    BY HolderOfNone DEF Init, Holders
  <1> QED BY <1>1 DEF Turn!TurnInit, Init

LEMMA TurnStepRefines ==
  ASSUME TurnInv, TurnInv', [Next]_vars
  PROVE  [Turn!TurnNext]_(Turn!turnVars)
  <1> USE DEF holders
  <1>types. TypeOK /\ TypeOK'
    BY DEF TurnInv
  \* Nothing happens to the turn or the line.
  <1>same. ASSUME line' = line, \A t \in Sessions : Holders(t)' = Holders(t)
           PROVE  UNCHANGED Turn!turnVars
    BY <1>same, SameHolder DEF Turn!turnVars
  <1>1. CASE SameTurn /\ KeepsTracked
    BY <1>1, <1>types, <1>same, SameTurnKeeps DEF SameTurn
  <1>2. ASSUME NEW r \in Runs, Joins(r)
        PROVE  Turn!TurnNext
    <2> DEFINE s == SessionOf[r]
               d == NextDriver(r)
    <2>1. s \in Sessions /\ d \in Drivers
      BY <1>2, <1>types, JoinKeeps
    <2>2. CASE s \in busy
      <3>1. /\ \A t \in Sessions : Holders(t)' = Holders(t)
            /\ line' = [line EXCEPT ![s] = Append(line[s], d)]
        BY <1>2, <1>types, <2>2, JoinKeeps
      <3>2. HolderOf(s) # NoHolder
        BY <2>1, <2>2, HolderOfSome DEF TurnInv, TurnHeldOnce
      <3>3. holders' = holders
        BY <3>1, SameHolder
      <3>4. Turn!Queue(s, d)
        BY <2>1, <3>1, <3>2, <3>3 DEF Turn!Queue
      <3> QED BY <2>1, <3>4 DEF Turn!TurnNext
    <2>3. CASE s \notin busy
      <3>1. /\ Holders(s) = {} /\ Holders(s)' = {d}
            /\ \A t \in Sessions : t # s => Holders(t)' = Holders(t)
            /\ line' = line
        BY <1>2, <1>types, <2>3, JoinKeeps
      <3>2. HolderOf(s) = NoHolder /\ HolderOf(s)' = d
        BY <3>1, HolderOfNone, HolderOfOneNext
      <3>3. holders' = [holders EXCEPT ![s] = d]
        BY <2>1, <3>1, <3>2, SameHolder
      <3>4. Turn!Take(s, d)
        BY <2>1, <3>1, <3>2, <3>3 DEF Turn!Take
      <3> QED BY <2>1, <3>4 DEF Turn!TurnNext
    <2> QED BY <2>2, <2>3
  <1>3. ASSUME NEW r \in Runs, Departs(r)
        PROVE  Turn!TurnNext
    <2> DEFINE s == SessionOf[r]
               p == PositionInLine(r)
    <2>1. s \in Sessions /\ p \in 1 .. Len(line[s]) /\ line[s] \in Seq(Drivers)
      BY <1>3, <1>types, InLineType, LineEntry DEF Departs
    <2>2. \A t \in Sessions : Holders(t)' = Holders(t)
      BY <1>3, <1>types, DepartKeeps
    <2>3. line' = [line EXCEPT ![s] = RemoveAt(line[s], p)]
      BY <1>3 DEF Departs, LeaveLine
    <2>4. holders' = holders
      BY <2>2, SameHolder
    <2>5. p \in DOMAIN line[s]
      BY <2>1
    <2>6. Turn!Withdraw(s, p)
      BY <2>3, <2>4, <2>5 DEF Turn!Withdraw, Turn!RemoveAt, RemoveAt
    <2> QED BY <2>1, <2>5, <2>6 DEF Turn!TurnNext
  <1>4. ASSUME NEW r \in Runs, Resumes(r)
        PROVE  UNCHANGED Turn!turnVars
    BY <1>4, <1>types, <1>same, ResumeKeeps DEF Resumes
  <1>5. ASSUME NEW d \in Drivers, HandOn(d)
        PROVE  Turn!TurnNext
    <2> DEFINE s == SessionOfDriver(d)
               h == Head(line[s])
    <2>1. s \in Sessions
      BY DriverParts
    <2>2. /\ Holders(s) = {d}
          /\ \A t \in Sessions : t # s => Holders(t)' = Holders(t)
          /\ line[s] = <<>> => line' = line /\ Holders(s)' = {}
          /\ line[s] # <<>> => Holders(s)' = {h}
      BY <1>5, <1>types, HandOnKeeps
    <2>3. HolderOf(s) # NoHolder
      BY <2>2, HolderOfSome
    <2>4. CASE line[s] = <<>>
      <3>1. HolderOf(s)' = NoHolder
        BY <2>2, <2>4, HolderOfNoneNext
      <3>2. holders' = [holders EXCEPT ![s] = NoHolder]
        BY <2>1, <2>2, <3>1, SameHolder
      <3> QED BY <2>1, <2>2, <2>3, <2>4, <3>2 DEF Turn!TurnNext, Turn!HandOver
    <2>5. CASE line[s] # <<>>
      <3>1. HolderOf(s)' = h
        BY <2>2, <2>5, HolderOfOneNext
      <3>2. holders' = [holders EXCEPT ![s] = h]
        BY <2>1, <2>2, <3>1, SameHolder
      <3>3. line' = [line EXCEPT ![s] = Tail(line[s])]
        BY <1>5, <2>5 DEF HandOn
      <3> QED BY <2>1, <2>3, <2>5, <3>2, <3>3 DEF Turn!TurnNext, Turn!HandOver
    <2> QED BY <2>4, <2>5
  <1>6. CASE Vanish
    <2>1. \A s \in Sessions : HolderOf(s)' = NoHolder
      BY <1>6, VanishKeeps, HolderOfNoneNext
    <2>2. line' = [s \in Sessions |-> <<>>]
      BY <1>6 DEF Vanish
    <2>3. Turn!Restart
      BY <2>1, <2>2 DEF Turn!Restart
    <2> QED BY <2>3 DEF Turn!TurnNext
  <1> QED BY <1>1, <1>2, <1>3, <1>4, <1>5, <1>6, StepKinds

\* The line and its turn, with everything that surrounds them, implement the
\* abstract first-come turn for any number of runs, pauses and restarts.
THEOREM TurnRefinement == Spec => TakesTurns
  BY TurnInvariant, TurnInitRefines, TurnStepRefines, PTL DEF Spec, TakesTurns, Turn!TurnSpec
=============================================================================
