--------------------------- MODULE RunSafetyProofs ---------------------------
(***************************************************************************)
(* One goroutine per run, tools that run once and only with a yes, endings *)
(* that stand and rows that are written before they are announced, for any *)
(* number of runs, calls, answers and restarts.                            *)
(***************************************************************************)
EXTENDS RunTurnProofs

USE LifecycleAssumption DEF LifecycleAssumption

(***************************************************************************)
(* The invariant, run by run.                                              *)
(***************************************************************************)
Underway == {"queued", "waiting", "loop", "generate", "exec", "record"}
Tracked == Driving \cup {"queued"}
Early == BeforeAdmit \cup {"lining", "recorded"}
Open == {"decided", "checked"}

\* The goroutine of generation g goes on with the loop from where it is.
Goes(r, g) ==
  \/ at[<<r, g>>] \in Underway
  \/ at[<<r, g>>] \in {"row", "event"} /\ writing[<<r, g>>] = "running"

DriversAreTracked(r) ==
  /\ active[r] <= born[r]
  /\ \A g \in Generations : at[<<r, g>>] \in Tracked => active[r] = g

\* Only the call that comes next is asked about or answered, and by nobody while a
\* goroutine goes on; an answer that found the run idle finds it idle still.
OneAnswerOpen(r) ==
  /\ \A k \in Calls :
       /\ ask[r][k] \in PendingAsk \/ decider[r][k] \in Open => k = NextCall(r)
       /\ decider[r][k] = "checked" => active[r] = NoDriver
  /\ \A g \in Generations : Goes(r, g) =>
       \A k \in Calls : ask[r][k] \notin PendingAsk /\ decider[r][k] \notin Open

\* Before its wait is on record a run has done nothing, and a run that has done
\* something is not recorded as waiting.
WaitersUnstarted(r) ==
  /\ sender[r] \in Early =>
       /\ turns[r] = 0 /\ requested[r] = 0
       /\ \A k \in Calls : decider[r][k] = "idle"
       /\ \A g \in Generations : at[<<r, g>>] \in {"none", "queued", "waiting"}
  /\ requested[r] = 0 => \A k \in Calls : ask[r][k] = NoAsk /\ ran[r][k] = 0
  /\ turns[r] > 0 \/ requested[r] > 0 => row[r] \notin {"queued", NoRow}
  /\ \A g \in Generations :
       /\ at[<<r, g>>] = "generate" \/ (at[<<r, g>>] = "event" /\ writing[<<r, g>>] = "running")
          => row[r] \notin {"queued", NoRow}
       /\ at[<<r, g>>] \in Writing => writing[<<r, g>>] \notin {"queued", NoRow}
       /\ at[<<r, g>>] = "prompt" => writing[<<r, g>>] \notin {"queued", NoRow, "running"}

\* Who is taken out of the line is the driver the interrupter looked at.
AimsAtOne(r) ==
  /\ interrupter[r] \in {"found", "row", "event", "release"} => aim[r] \in 1 .. born[r]
  /\ interrupter[r] = "found" => \A g \in Generations : at[<<r, g>>] = "queued" => g = aim[r]
  /\ interrupter[r] \in {"row", "event", "release"} => at[<<r, aim[r]>>] = "none"

\* A call that ran has its result, or the goroutine that ran it is about to record it,
\* or nothing will move the run again.
RanIsKnown(r) ==
  /\ \A g \in Generations :
       /\ at[<<r, g>>] \in {"exec", "record"} => Outstanding(r)
       /\ at[<<r, g>>] = "exec" => ask[r][NextCall(r)] \in {NoAsk, "allowed"}
  /\ \A k \in Calls : ran[r][k] # 0 =>
       /\ ran[r][k] = 1 /\ ask[r][k] \in {NoAsk, "allowed"}
       /\ k > completed[r] =>
            /\ k = NextCall(r)
            /\ \A g \in Generations : Goes(r, g) => at[<<r, g>>] = "record"
            /\ \A l \in Calls : ask[r][l] \notin PendingAsk /\ decider[r][l] \notin Open

RunInv(r) ==
  /\ DriversAreTracked(r) /\ OneAnswerOpen(r) /\ WaitersUnstarted(r)
  /\ AimsAtOne(r) /\ RanIsKnown(r)
DriveInv == \A r \in Runs : RunInv(r)

\* Where a row has not been ended yet, and where it says what the driver wrote.
RowIsCurrent(r) ==
  /\ interrupter[r] = "idle"
  /\ sender[r] \in {"created", "spoken", "lining", "recorded"} => row[r] = "queued"
  /\ \A g \in Generations :
       /\ at[<<r, g>>] \in Underway \cup {"prompt", "row", "lastrow"} => row[r] \notin Terminal
       /\ at[<<r, g>>] \in {"event", "lastevent"} => row[r] = writing[<<r, g>>]
RowInv == \A r \in Runs : RowIsCurrent(r)

-----------------------------------------------------------------------------
(***************************************************************************)
(* What a step leaves alone of one run.                                    *)
(***************************************************************************)
SameDrivers(r) ==
  /\ active'[r] = active[r] /\ born'[r] = born[r]
  /\ \A g \in Generations : /\ at'[<<r, g>>] = at[<<r, g>>]
                            /\ writing'[<<r, g>>] = writing[<<r, g>>]
SameWork(r) ==
  /\ requested'[r] = requested[r] /\ completed'[r] = completed[r]
  /\ turns'[r] = turns[r] /\ ran'[r] = ran[r]
SameClients(r) ==
  /\ sender'[r] = sender[r] /\ decider'[r] = decider[r]
  /\ interrupter'[r] = interrupter[r] /\ aim'[r] = aim[r]
SameRun(r) ==
  SameDrivers(r) /\ SameWork(r) /\ SameClients(r) /\ row'[r] = row[r] /\ ask'[r] = ask[r]

\* A request moves on and leaves the drivers and what they did alone.
ClientMoves(r) ==
  /\ SameDrivers(r) /\ SameWork(r) /\ ask'[r] = ask[r] /\ aim'[r] = aim[r]
  /\ sender'[r] \in Early => sender[r] \in Early /\ decider'[r] = decider[r]
  /\ row'[r] = row[r] \/ sender[r] \in Early \/ row'[r] \notin {"queued", NoRow}
  /\ \A k \in Calls :
       /\ decider'[r][k] \in Open => decider[r][k] \in Open
       /\ decider'[r][k] = "checked" => decider[r][k] = "checked" \/ active[r] = NoDriver
  /\ interrupter'[r] = "found" => interrupter[r] = "found"
  /\ interrupter'[r] \in {"row", "event", "release"} =>
       interrupter[r] \in {"row", "event", "release"}

\* The types of one run's state.
LEMMA RunTypes ==
  ASSUME TypeOK, NEW r \in Runs
  PROVE  /\ requested[r] \in 0 .. MaxCalls /\ completed[r] \in Nat /\ turns[r] \in Nat
         /\ born[r] \in 0 .. MaxCalls + 1 /\ active[r] \in Generations \cup {NoDriver}
         /\ aim[r] \in Generations \cup {NoDriver}
         /\ \A k \in Calls : ran[r][k] \in Nat
         /\ \A g \in Generations : <<r, g>> \in Drivers /\ at[<<r, g>>] \in Places
  BY DEF TypeOK, Drivers

LEMMA ClientMovesKeep ==
  ASSUME TypeOK, NEW r \in Runs, RunInv(r), ClientMoves(r)
  PROVE  RunInv(r)'
<1> USE DEF RunInv, ClientMoves, SameDrivers, SameWork
<1>1. DriversAreTracked(r)'
  BY DEF DriversAreTracked
<1>2. OneAnswerOpen(r)'
  BY DEF OneAnswerOpen, Goes, NextCall
<1>3. WaitersUnstarted(r)'
  <2>1. sender[r] \in Early => row'[r] = row[r] \/ (turns[r] = 0 /\ requested[r] = 0
          /\ \A g \in Generations : at[<<r, g>>] \notin {"generate", "event"})
    BY DEF WaitersUnstarted
  <2> QED BY <2>1 DEF WaitersUnstarted
<1>4. AimsAtOne(r)'
  <2>1. interrupter[r] \in {"row", "event", "release"} => aim[r] \in Generations
    BY RunTypes DEF AimsAtOne, Generations
  <2> QED BY <2>1 DEF AimsAtOne
<1>5. RanIsKnown(r)'
  BY DEF RanIsKnown, Goes, NextCall, Outstanding
<1> QED BY <1>1, <1>2, <1>3, <1>4, <1>5

LEMMA SameRunMoves ==
  ASSUME NEW r \in Runs, SameRun(r)
  PROVE  ClientMoves(r)
  BY DEF SameRun, SameClients, ClientMoves

\* One goroutine drives a run: the others of its generations rest or hand on.
LEMMA OneDrives ==
  ASSUME NEW r \in Runs, RunInv(r), NEW g \in Generations, at[<<r, g>>] \in Tracked
  PROVE  \A h \in Generations \ {g} : at[<<r, h>>] \notin Tracked /\ ~ Goes(r, h)
<1>1. \A h \in Generations \ {g} : at[<<r, h>>] \notin Tracked
  BY DEF RunInv, DriversAreTracked
<1> QED BY <1>1 DEF Goes, Underway, Tracked, Driving, Writing

-----------------------------------------------------------------------------
(***************************************************************************)
(* The goroutine that drives a run.                                        *)
(***************************************************************************)
\* Nothing but the goroutine's own place, and what it has just written, changes.
OthersRest(r, g) ==
  \A h \in Generations \ {g} :
    at'[<<r, h>>] = at[<<r, h>>] /\ writing'[<<r, h>>] = writing[<<r, h>>]
OnlyDrives(r, g) ==
  /\ at[<<r, g>>] \in Driving /\ at'[<<r, g>>] \in Driving /\ OthersRest(r, g)
  /\ active'[r] = active[r] /\ born'[r] = born[r] /\ SameClients(r)
  /\ sender[r] \notin Early
  /\ at'[<<r, g>>] \in Writing => writing'[<<r, g>>] \notin {"queued", NoRow}
  /\ at'[<<r, g>>] = "prompt" => writing'[<<r, g>>] \notin {"queued", NoRow, "running"}
  /\ at'[<<r, g>>] = "generate" \/ (at'[<<r, g>>] = "event" /\ writing'[<<r, g>>] = "running")
       => row'[r] \notin {"queued", NoRow}

\* It goes from one place to another, or writes the row.
Steps(r, g) ==
  /\ OnlyDrives(r, g) /\ SameWork(r) /\ ask'[r] = ask[r]
  /\ row'[r] = row[r] \/ row'[r] \notin {"queued", NoRow}
  /\ Goes(r, g)' => Goes(r, g) /\ at[<<r, g>>] # "record"
  /\ at'[<<r, g>>] \in {"exec", "record"} => Outstanding(r)
  /\ at'[<<r, g>>] = "exec" => ask[r][NextCall(r)] \in {NoAsk, "allowed"}

\* What every step of a goroutine keeps, whatever else it does.
LEMMA DrivingKeeps ==
  ASSUME TypeOK, NEW r \in Runs, RunInv(r), NEW g \in Generations, OnlyDrives(r, g)
  PROVE  /\ DriversAreTracked(r)' /\ AimsAtOne(r)'
         /\ \A h \in Generations \ {g} : ~ Goes(r, h)' /\ at'[<<r, h>>] \notin Tracked
<1>1. at[<<r, g>>] \in Tracked /\ at'[<<r, g>>] \in Tracked
  BY DEF OnlyDrives, Tracked
<1>2. \A h \in Generations \ {g} : at[<<r, h>>] \notin Tracked /\ ~ Goes(r, h)
  BY <1>1, OneDrives
<1>3. \A h \in Generations \ {g} : ~ Goes(r, h)' /\ at'[<<r, h>>] \notin Tracked
  BY <1>2 DEF OnlyDrives, OthersRest, Goes
<1>4. DriversAreTracked(r)'
  BY <1>1, <1>3 DEF OnlyDrives, RunInv, DriversAreTracked
<1>5. AimsAtOne(r)'
  <2>1. aim'[r] = aim[r] /\ interrupter'[r] = interrupter[r] /\ born'[r] = born[r]
    BY DEF OnlyDrives, SameClients
  <2>2. \A h \in Generations : at'[<<r, h>>] = "queued" => at[<<r, h>>] = "queued"
    BY DEF OnlyDrives, OthersRest, Driving, Writing
  <2>3. interrupter[r] \in {"row", "event", "release"} => aim[r] \in Generations /\ aim[r] # g
    <3>1. "none" \notin Driving
      BY DEF Driving, Writing
    <3> QED BY <3>1, RunTypes DEF RunInv, AimsAtOne, OnlyDrives, Generations
  <2>4. interrupter[r] \in {"row", "event", "release"} => at'[<<r, aim[r]>>] = "none"
    BY <2>3 DEF OnlyDrives, OthersRest, RunInv, AimsAtOne
  <2> QED BY <2>1, <2>2, <2>4 DEF RunInv, AimsAtOne
<1> QED BY <1>3, <1>4, <1>5

LEMMA StepsKeep ==
  ASSUME TypeOK, NEW r \in Runs, RunInv(r), NEW g \in Generations, Steps(r, g)
  PROVE  RunInv(r)'
<1>1. OnlyDrives(r, g)
  BY DEF Steps
<1>2. /\ DriversAreTracked(r)' /\ AimsAtOne(r)'
      /\ \A h \in Generations \ {g} : ~ Goes(r, h)' /\ at'[<<r, h>>] \notin Tracked
  BY <1>1, DrivingKeeps
<1>3. OneAnswerOpen(r)'
  <2>1. \A k \in Calls : decider'[r][k] = decider[r][k] /\ ask'[r][k] = ask[r][k]
    BY <1>1 DEF Steps, OnlyDrives, SameClients
  <2>2. NextCall(r)' = NextCall(r) /\ active'[r] = active[r]
    BY <1>1 DEF Steps, SameWork, NextCall, OnlyDrives
  <2>3. \A h \in Generations : Goes(r, h)' => Goes(r, h)
    BY <1>2 DEF Steps
  <2> QED BY <2>1, <2>2, <2>3 DEF RunInv, OneAnswerOpen
<1>4. WaitersUnstarted(r)'
  <2>1. sender'[r] \notin Early
    BY <1>1 DEF OnlyDrives, SameClients
  <2>2. turns'[r] > 0 \/ requested'[r] > 0 => row'[r] \notin {"queued", NoRow}
    BY DEF Steps, SameWork, RunInv, WaitersUnstarted
  <2>3. requested'[r] = 0 => \A k \in Calls : ask'[r][k] = NoAsk /\ ran'[r][k] = 0
    BY DEF Steps, SameWork, RunInv, WaitersUnstarted
  <2>4. \A h \in Generations \ {g} : at'[<<r, h>>] \notin Writing \cup {"generate", "event", "prompt"}
    BY <1>2 DEF Tracked, Driving, Writing
  <2> QED BY <1>1, <2>1, <2>2, <2>3, <2>4 DEF OnlyDrives, WaitersUnstarted
<1>5. RanIsKnown(r)'
  <2>1. /\ NextCall(r)' = NextCall(r) /\ Outstanding(r)' = Outstanding(r)
        /\ ask'[r] = ask[r] /\ ran'[r] = ran[r] /\ completed'[r] = completed[r]
        /\ decider'[r] = decider[r]
    BY <1>1 DEF Steps, SameWork, NextCall, Outstanding, OnlyDrives, SameClients
  <2>2. \A h \in Generations \ {g} : at'[<<r, h>>] \notin {"exec", "record"}
    BY <1>2 DEF Tracked, Driving
  <2>3. \A k \in Calls : ran[r][k] # 0 /\ k > completed[r] => ~ Goes(r, g)'
    BY DEF Steps, RunInv, RanIsKnown
  <2> QED BY <1>2, <2>1, <2>2, <2>3 DEF Steps, RunInv, RanIsKnown
<1> QED BY <1>2, <1>3, <1>4, <1>5 DEF RunInv

\* The steps of a goroutine that are one of these.
LEMMA DriverPlaces ==
  ASSUME TurnInv, NEW r \in Runs, RunInv(r), NEW g \in Generations,
         at[<<r, g>>] \in Driving, at[<<r, g>>] = "waiting" => Admitted(r)
  PROVE  sender[r] \notin Early
<1>1. at[<<r, g>>] # "none" /\ g > 0 /\ GenOf(<<r, g>>) = g /\ RunOf(<<r, g>>) = r
  BY DEF Driving, Writing, Generations, GenOf, RunOf
<1>2. <<r, g>> \in Drivers
  BY DEF Drivers
<1>3. sender[r] \notin BeforeAdmit
  BY <1>1, <1>2, RunTypes DEF TurnInv, UnadmittedRunsUntouched, UnbornDriversRest
<1>4. CASE at[<<r, g>>] = "waiting"
  BY <1>3, <1>4 DEF Admitted, Early
<1>5. CASE at[<<r, g>>] # "waiting"
  BY <1>5 DEF RunInv, WaitersUnstarted, Driving, Writing
<1> QED BY <1>4, <1>5

\* The places a goroutine goes to, without its place in the state.
LEMMA PlaceSet ==
  /\ Driving = {"waiting", "loop", "generate", "exec", "record", "prompt", "release",
                "row", "event", "lastrow", "lastevent"}
  /\ Writing = {"row", "event", "lastrow", "lastevent"}
  /\ {"cancelled", "failed", "completed", "running"} \cap {"queued", NoRow} = {}
  /\ \A kind : PauseFor(kind) \notin {"queued", NoRow, "running"}
  BY DEF Driving, Writing, NoRow, PauseFor

\* A step within the loop leaves the other runs, and the clients of its own, alone.
LEMMA InsideRests ==
  ASSUME TypeOK, NEW r \in Runs, NEW g \in Generations, Inside(<<r, g>>)
  PROVE  /\ at[<<r, g>>] \in Driving /\ at'[<<r, g>>] \in Driving /\ OthersRest(r, g)
         /\ active'[r] = active[r] /\ born'[r] = born[r] /\ SameClients(r)
         /\ \A q \in Runs \ {r} : SameRun(q)
<1> DEFINE d == <<r, g>>
<1>1. d \in Drivers /\ RunOf(d) = r
  BY DEF Drivers, RunOf
<1>2. MovesInside(d)
  BY <1>1, InsideMoves
<1>3. /\ at[d] \in Driving /\ at'[d] \in Driving
      /\ \A c \in Drivers \ {d} : at'[c] = at[c]
  BY <1>1, <1>2 DEF MovesInside, TypeOK
<1>4. \A c \in Drivers \ {d} : writing'[c] = writing[c]
  <2>1. writing' = writing \/ \E status : writing' = [writing EXCEPT ![d] = status]
    BY Zenon DEF Inside, Begin, Stopped, SettleByRunning, SettleWithoutRunning, Ask, Park, Execute,
         RecordResult, NextTurn, Generate, GenerateFails, WriteRow, WriteEvent, WriteLastRow,
         WriteLastEvent, WriteNext, Abandon, WriteFailed, Goto
  <2> QED BY <1>1, <2>1 DEF TypeOK
<1>5. \A q \in Runs \ {r} : /\ requested'[q] = requested[q] /\ completed'[q] = completed[q]
                            /\ turns'[q] = turns[q] /\ ran'[q] = ran[q]
  BY <1>1 DEF Inside, Begin, Stopped, SettleByRunning, SettleWithoutRunning, Ask, Park, Execute,
       RecordResult, NextTurn, Generate, GenerateFails, WriteRow, WriteEvent, WriteLastRow,
       WriteLastEvent, AtCall, outsideLoop, durable, history, loopData, TypeOK
<1>6. \A q \in Runs, h \in Generations : <<q, h>> = d <=> q = r /\ h = g
  OBVIOUS
<1>7. \A q \in Runs, h \in Generations : <<q, h>> \in Drivers
  BY DEF Drivers
<1>8. \A q \in Runs, h \in Generations : q # r \/ h # g =>
        at'[<<q, h>>] = at[<<q, h>>] /\ writing'[<<q, h>>] = writing[<<q, h>>]
  BY <1>3, <1>4, <1>6, <1>7
<1> QED BY <1>1, <1>2, <1>3, <1>5, <1>8 DEF MovesInside, OthersRest, SameRun, SameDrivers,
           SameWork, SameClients, clients

\* The steps that change a place, and perhaps what is written, and nothing else.
Pure(d) ==
  \/ Begin(d) \/ Stopped(d) \/ SettleByRunning(d) \/ SettleWithoutRunning(d) \/ Park(d)
  \/ NextTurn(d) \/ GenerateFails(d)
  \/ WriteRow(d) \/ WriteEvent(d) \/ WriteLastRow(d) \/ WriteLastEvent(d)

LEMMA PureLeaves ==
  ASSUME TypeOK, NEW r \in Runs, NEW g \in Generations, Pure(<<r, g>>)
  PROVE  SameWork(r) /\ ask'[r] = ask[r]
<1>1. RunOf(<<r, g>>) = r
  BY DEF RunOf
<1> QED BY <1>1 DEF Pure, Begin, Stopped, SettleByRunning, SettleWithoutRunning, Park, NextTurn,
           GenerateFails, WriteRow, WriteEvent, WriteLastRow, WriteLastEvent, AtCall, outsideLoop,
           durable, history, loopData, SameWork

LEMMA PureSteps ==
  ASSUME TurnInv, NEW r \in Runs, RunInv(r), NEW g \in Generations, Pure(<<r, g>>)
  PROVE  Steps(r, g)
<1> DEFINE d == <<r, g>>
<1> TypeOK
  BY DEF TurnInv
<1> USE PlaceSet
<1>1. d \in Drivers /\ RunOf(d) = r /\ at \in [Drivers -> Places] /\ row \in [Runs -> Statuses \cup {NoRow}]
      /\ writing \in [Drivers -> Statuses \cup {NoRow}]
  BY DEF Drivers, RunOf, TypeOK
<1>2. Inside(d)
  BY DEF Pure, Inside
<1>3. /\ at[d] \in Driving /\ at'[d] \in Driving /\ OthersRest(r, g)
      /\ active'[r] = active[r] /\ born'[r] = born[r] /\ SameClients(r)
      /\ SameWork(r) /\ ask'[r] = ask[r]
  BY <1>2, InsideRests, PureLeaves
<1>4. sender[r] \notin Early
  <2>1. at[d] = "waiting" => Admitted(r)
    BY <1>1 DEF Pure, Begin, Stopped, SettleByRunning, SettleWithoutRunning, Park, NextTurn,
       GenerateFails, WriteRow, WriteEvent, WriteLastRow, WriteLastEvent, AtCall
  <2> QED BY <1>3, <2>1, DriverPlaces
<1> DEFINE Going == at[d] \in Underway \/ (at[d] \in {"row", "event"} /\ writing[d] = "running")
<1> DEFINE Fine ==
  /\ at'[d] \in Writing => writing'[d] \notin {"queued", NoRow}
  /\ at'[d] = "prompt" => writing'[d] \notin {"queued", NoRow, "running"}
  /\ at'[d] = "generate" \/ (at'[d] = "event" /\ writing'[d] = "running")
       => row'[r] \notin {"queued", NoRow}
  /\ row'[r] = row[r] \/ row'[r] \notin {"queued", NoRow}
  /\ Going' => Going /\ at[d] # "record"
  /\ at'[d] \in {"exec", "record"} => Outstanding(r)
  /\ at'[d] = "exec" => ask[r][NextCall(r)] \in {NoAsk, "allowed"}
<1>5. /\ at[d] \in Writing => writing[d] \notin {"queued", NoRow}
      /\ at[d] = "generate" \/ (at[d] = "event" /\ writing[d] = "running")
           => row[r] \notin {"queued", NoRow}
      /\ at[d] = "prompt" => writing[d] \notin {"queued", NoRow, "running"}
      /\ turns[r] > 0 => row[r] \notin {"queued", NoRow}
  BY DEF RunInv, WaitersUnstarted
<1>6. Pure(d) /\ d = <<r, g>> /\ (Going <=> Goes(r, g)) /\ (Going' <=> Goes(r, g)')
  BY DEF Goes
<1> USE DEF Underway, Goto, WriteNext, Abandon, outsideLoop, durable, store
<1> HIDE DEF d
<1>7. ASSUME Begin(d) PROVE Fine
  BY <1>1, <1>7 DEF Begin
<1>8. ASSUME Stopped(d) PROVE Fine
  BY <1>1, <1>8 DEF Stopped
<1>9. ASSUME SettleByRunning(d) PROVE Fine
  BY <1>1, <1>9 DEF SettleByRunning, AtCall, AskOf
<1>10. ASSUME SettleWithoutRunning(d) PROVE Fine
  BY <1>1, <1>10 DEF SettleWithoutRunning, AtCall
<1>11. ASSUME Park(d) PROVE Fine
  BY <1>1, <1>5, <1>11 DEF Park
<1>12. ASSUME NextTurn(d) PROVE Fine
  <2>1. row'[r] = row[r] /\ (turns[r] \in 1 .. MaxTurns - 1 => turns[r] > 0)
    BY <1>12 DEF NextTurn
  <2>2. at'[d] = "generate" => turns[r] \in 1 .. MaxTurns - 1
    BY <1>1, <1>12 DEF NextTurn
  <2>3. /\ at[d] = "loop" /\ at'[d] \in {"row", "generate"}
        /\ at'[d] = "row" => writing'[d] \in {"failed", "running"}
    BY <1>1, <1>12 DEF NextTurn
  <2> QED BY <1>5, <2>1, <2>2, <2>3
<1>13. ASSUME GenerateFails(d) PROVE Fine
  BY <1>1, <1>13 DEF GenerateFails
<1>14. ASSUME WriteRow(d) PROVE Fine
  BY <1>1, <1>5, <1>14 DEF WriteRow, WriteFailed
<1>15. ASSUME WriteEvent(d) PROVE Fine
  BY <1>1, <1>5, <1>15 DEF WriteEvent, WriteFailed
<1>16. ASSUME WriteLastRow(d) PROVE Fine
  BY <1>1, <1>5, <1>16 DEF WriteLastRow
<1>17. ASSUME WriteLastEvent(d) PROVE Fine
  BY <1>1, <1>5, <1>17 DEF WriteLastEvent
<1>18. Fine
  BY <1>6, <1>7, <1>8, <1>9, <1>10, <1>11, <1>12, <1>13, <1>14, <1>15, <1>16, <1>17 DEF Pure
<1> HIDE DEF Going
<1> QED BY <1>3, <1>4, <1>18, <1>6 DEF Steps, OnlyDrives

\* What a goroutine may do next is about the call that comes next.
LEMMA NextCallIn ==
  ASSUME TypeOK, NEW r \in Runs, Outstanding(r)
  PROVE  NextCall(r) \in Calls /\ requested[r] # 0 /\ NextCall(r) > completed[r]
  BY RunTypes DEF Outstanding, NextCall, Calls

\* A goroutine that goes on, but for the one that has just run a tool, finds no tool run
\* without its result.
LEMMA AllRecorded ==
  ASSUME TypeOK, NEW r \in Runs, RunInv(r), NEW g \in Generations, Goes(r, g),
         at[<<r, g>>] # "record"
  PROVE  /\ \A k \in Calls : ran[r][k] # 0 => k <= completed[r]
         /\ \A k \in Calls : ask[r][k] \notin PendingAsk /\ decider[r][k] \notin Open
<1>1. \A k \in Calls : ran[r][k] # 0 => ~ (k > completed[r])
  BY DEF RunInv, RanIsKnown
<1>2. \A k \in Calls : k \in Nat /\ completed[r] \in Nat
  BY RunTypes DEF Calls
<1> QED BY <1>1, <1>2 DEF RunInv, OneAnswerOpen

\* The drivers of the run after a step of one of them.
LEMMA DrivingParts ==
  ASSUME TypeOK, NEW r \in Runs, RunInv(r), NEW g \in Generations, OnlyDrives(r, g),
         turns'[r] > 0 \/ requested'[r] > 0 => row'[r] \notin {"queued", NoRow},
         requested'[r] = 0 => \A k \in Calls : ask'[r][k] = NoAsk /\ ran'[r][k] = 0
  PROVE  WaitersUnstarted(r)'
<1>1. \A h \in Generations \ {g} : at'[<<r, h>>] \notin Writing \cup {"generate", "event", "prompt"}
  BY DrivingKeeps DEF Tracked, Driving, Writing
<1>2. sender'[r] \notin Early
  BY DEF OnlyDrives, SameClients
<1> QED BY <1>1, <1>2 DEF OnlyDrives, WaitersUnstarted

LEMMA InsideDrives ==
  ASSUME TurnInv, NEW r \in Runs, RunInv(r), NEW g \in Generations, Inside(<<r, g>>),
         at[<<r, g>>] # "waiting",
         /\ at'[<<r, g>>] \in Writing => writing'[<<r, g>>] \notin {"queued", NoRow}
         /\ at'[<<r, g>>] = "prompt" => writing'[<<r, g>>] \notin {"queued", NoRow, "running"}
         /\ at'[<<r, g>>] = "generate" \/ (at'[<<r, g>>] = "event" /\ writing'[<<r, g>>] = "running")
              => row'[r] \notin {"queued", NoRow}
  PROVE  OnlyDrives(r, g)
<1>1. /\ at[<<r, g>>] \in Driving /\ at'[<<r, g>>] \in Driving /\ OthersRest(r, g)
      /\ active'[r] = active[r] /\ born'[r] = born[r] /\ SameClients(r)
  BY InsideRests DEF TurnInv
<1>2. sender[r] \notin Early
  BY <1>1, DriverPlaces
<1> QED BY <1>1, <1>2 DEF OnlyDrives

LEMMA AskKeeps ==
  ASSUME TurnInv, NEW r \in Runs, RunInv(r), NEW g \in Generations, Ask(<<r, g>>)
  PROVE  RunInv(r)'
<1> DEFINE d == <<r, g>>
<1> TypeOK
  BY DEF TurnInv
<1>1. d \in Drivers /\ RunOf(d) = r /\ Inside(d)
  BY DEF Drivers, RunOf, Inside
<1>2. at[d] = "loop" /\ Outstanding(r) /\ Goes(r, g)
  BY <1>1 DEF Ask, AtCall, Goes, Underway
<1>3. NextCall(r) \in Calls /\ requested[r] # 0 /\ NextCall(r) > completed[r]
  BY <1>2, NextCallIn
<1>4. /\ \A k \in Calls : ran[r][k] # 0 => k <= completed[r]
      /\ \A k \in Calls : ask[r][k] \notin PendingAsk /\ decider[r][k] \notin Open
  BY <1>2, AllRecorded
<1>5. PICK kind \in PendingAsk :
        /\ ask' = [ask EXCEPT ![r][NextCall(r)] = kind]
        /\ at' = [at EXCEPT ![d] = "prompt"] /\ writing' = [writing EXCEPT ![d] = PauseFor(kind)]
  <2>1. AskOf(d) = ask[r][NextCall(r)]
    BY <1>1 DEF AskOf
  <2>2. AskOf(d) \notin PendingAsk
    BY <1>3, <1>4, <2>1
  <2>3. PICK kind \in Prompts(d) :
          /\ ask' = [ask EXCEPT ![RunOf(d)][NextCall(RunOf(d))] = kind]
          /\ WriteNext(d, PauseFor(kind), IF AskOf(d) = NoAsk THEN "prompt" ELSE "row")
    BY DEF Ask
  <2>4. AskOf(d) = NoAsk /\ kind \in PendingAsk
    BY <2>2, <2>3 DEF Prompts
  <2> QED BY <1>1, <2>3, <2>4 DEF WriteNext, Goto
<1>6. at'[d] = "prompt" /\ writing'[d] = PauseFor(kind)
  BY <1>1, <1>5 DEF TypeOK
<1>7. /\ row'[r] = row[r] /\ requested'[r] = requested[r] /\ completed'[r] = completed[r]
      /\ turns'[r] = turns[r] /\ ran'[r] = ran[r]
  BY DEF Ask, store, history, loopData
<1>8. OnlyDrives(r, g)
  BY <1>1, <1>2, <1>6, PlaceSet, InsideDrives
<1>9. /\ DriversAreTracked(r)' /\ AimsAtOne(r)'
      /\ \A h \in Generations : ~ Goes(r, h)' /\ at'[<<r, h>>] \notin {"exec", "record"}
  BY <1>6, <1>8, DrivingKeeps DEF Goes, Underway, Tracked, Driving
<1>10. \A k \in Calls : k # NextCall(r) => ask'[r][k] = ask[r][k]
  BY <1>3, <1>5 DEF TypeOK
<1>11. OneAnswerOpen(r)'
  <2>1. decider'[r] = decider[r] /\ NextCall(r)' = NextCall(r)
    BY <1>7, <1>8 DEF OnlyDrives, SameClients, NextCall
  <2> QED BY <1>4, <1>9, <1>10, <2>1 DEF OneAnswerOpen, Open
<1>12. WaitersUnstarted(r)'
  BY <1>3, <1>7, <1>8, <1>9, DrivingParts, RunTypes DEF RunInv, WaitersUnstarted
<1>13. RanIsKnown(r)'
  <2>1. \A k \in Calls : ran[r][k] # 0 => ask'[r][k] = ask[r][k] /\ ~ (k > completed[r])
    BY <1>3, <1>4, <1>10, RunTypes DEF Calls
  <2> QED BY <1>7, <1>9, <2>1 DEF RunInv, RanIsKnown
<1> QED BY <1>9, <1>11, <1>12, <1>13 DEF RunInv

LEMMA ExecuteKeeps ==
  ASSUME TurnInv, NEW r \in Runs, RunInv(r), NEW g \in Generations, Execute(<<r, g>>)
  PROVE  RunInv(r)'
<1> DEFINE d == <<r, g>>
<1> TypeOK
  BY DEF TurnInv
<1>1. d \in Drivers /\ RunOf(d) = r /\ Inside(d)
  BY DEF Drivers, RunOf, Inside
<1>2. at[d] = "exec" /\ Goes(r, g) /\ Outstanding(r) /\ ask[r][NextCall(r)] \in {NoAsk, "allowed"}
  BY <1>1 DEF Execute, Goes, Underway, RunInv, RanIsKnown
<1>3. NextCall(r) \in Calls /\ requested[r] # 0 /\ NextCall(r) > completed[r]
  BY <1>2, NextCallIn
<1>4. /\ \A k \in Calls : ran[r][k] # 0 => k <= completed[r]
      /\ \A k \in Calls : ask[r][k] \notin PendingAsk /\ decider[r][k] \notin Open
  BY <1>2, AllRecorded
<1>5. ran' = [ran EXCEPT ![r][NextCall(r)] = @ + 1] /\ at'[d] = "record"
  BY <1>1 DEF Execute, Goto, TypeOK
<1>6. ran[r][NextCall(r)] = 0
  <2>1. completed[r] \in Nat /\ NextCall(r) \in Nat
    BY <1>3, RunTypes DEF Calls
  <2> QED BY <1>3, <1>4, <2>1
<1>7. /\ ran'[r][NextCall(r)] = 1
      /\ \A k \in Calls : k # NextCall(r) => ran'[r][k] = ran[r][k]
  BY <1>3, <1>5, <1>6 DEF TypeOK
<1>8. /\ row'[r] = row[r] /\ requested'[r] = requested[r] /\ completed'[r] = completed[r]
      /\ turns'[r] = turns[r] /\ ask'[r] = ask[r]
  BY DEF Execute, durable
<1>9. OnlyDrives(r, g)
  BY <1>1, <1>2, <1>5, PlaceSet, InsideDrives
<1>10. /\ DriversAreTracked(r)' /\ AimsAtOne(r)'
       /\ \A h \in Generations : /\ Goes(r, h)' => at'[<<r, h>>] = "record"
                                 /\ at'[<<r, h>>] # "exec"
  BY <1>5, <1>9, DrivingKeeps DEF Goes, Underway, Tracked, Driving
<1>11. decider'[r] = decider[r] /\ NextCall(r)' = NextCall(r) /\ Outstanding(r)'
  BY <1>2, <1>8, <1>9 DEF OnlyDrives, SameClients, NextCall, Outstanding
<1>12. OneAnswerOpen(r)'
  BY <1>4, <1>8, <1>11 DEF OneAnswerOpen, Open
<1>13. WaitersUnstarted(r)'
  BY <1>3, <1>8, <1>9, <1>11, DrivingParts, RunTypes DEF RunInv, WaitersUnstarted
<1>14. RanIsKnown(r)'
  <2>1. \A k \in Calls : ran'[r][k] # 0 /\ k # NextCall(r) => ~ (k > completed[r])
    BY <1>4, <1>7, RunTypes DEF Calls
  <2>2. \A k \in Calls : ran'[r][k] # 0 => ran'[r][k] = 1 /\ ask'[r][k] \in {NoAsk, "allowed"}
    BY <1>2, <1>7, <1>8 DEF RunInv, RanIsKnown
  <2> QED BY <1>4, <1>8, <1>10, <1>11, <2>1, <2>2 DEF RanIsKnown
<1> QED BY <1>10, <1>12, <1>13, <1>14 DEF RunInv

LEMMA RecordKeeps ==
  ASSUME TurnInv, NEW r \in Runs, RunInv(r), NEW g \in Generations, RecordResult(<<r, g>>)
  PROVE  RunInv(r)'
<1> DEFINE d == <<r, g>>
<1> TypeOK
  BY DEF TurnInv
<1>1. d \in Drivers /\ RunOf(d) = r /\ Inside(d)
  BY DEF Drivers, RunOf, Inside
<1>2. at[d] = "record" /\ Goes(r, g) /\ Outstanding(r)
  BY <1>1 DEF RecordResult, Goes, Underway, RunInv, RanIsKnown
<1>3. requested[r] # 0 /\ completed[r] \in Nat
  BY <1>2, NextCallIn, RunTypes
<1>4. \A k \in Calls : ask[r][k] \notin PendingAsk /\ decider[r][k] \notin Open
  BY <1>2 DEF RunInv, OneAnswerOpen
<1>5. /\ row'[r] = row[r] /\ requested'[r] = requested[r] /\ ran'[r] = ran[r]
      /\ turns'[r] = turns[r] /\ ask'[r] = ask[r]
  BY DEF RecordResult, store, history
<1>6. \/ at'[d] = "lastrow" /\ writing'[d] = "cancelled" /\ completed'[r] = completed[r]
      \/ at'[d] = "loop" /\ completed'[r] = completed[r] + 1
  BY <1>1 DEF RecordResult, Abandon, WriteNext, Goto, TypeOK
<1>7. OnlyDrives(r, g)
  BY <1>1, <1>2, <1>6, PlaceSet, InsideDrives
<1>8. /\ DriversAreTracked(r)' /\ AimsAtOne(r)'
      /\ \A h \in Generations \ {g} : ~ Goes(r, h)' /\ at'[<<r, h>>] \notin Tracked
  BY <1>7, DrivingKeeps
<1>9. decider'[r] = decider[r]
  BY <1>7 DEF OnlyDrives, SameClients
<1>10. OneAnswerOpen(r)'
  BY <1>4, <1>5, <1>9 DEF OneAnswerOpen, Open
<1>11. WaitersUnstarted(r)'
  BY <1>3, <1>5, <1>7, DrivingParts, RunTypes DEF RunInv, WaitersUnstarted
<1>12. RanIsKnown(r)'
  <2>1. \A h \in Generations : at'[<<r, h>>] \notin {"exec", "record"}
    BY <1>6, <1>8 DEF Tracked, Driving
  <2>2. \A k \in Calls : ran[r][k] # 0 =>
          ran[r][k] = 1 /\ ask[r][k] \in {NoAsk, "allowed"} /\ (k > completed[r] => k = completed[r] + 1)
    BY DEF RunInv, RanIsKnown, NextCall
  <2>3. CASE completed'[r] = completed[r] + 1
    <3>1. \A k \in Calls : ran[r][k] # 0 => ~ (k > completed'[r])
      BY <1>3, <2>2, <2>3 DEF Calls
    <3> QED BY <1>5, <2>1, <2>2, <3>1 DEF RanIsKnown
  <2>4. CASE at'[d] = "lastrow" /\ completed'[r] = completed[r]
    <3>1. \A h \in Generations : ~ Goes(r, h)'
      BY <1>8, <2>4 DEF Goes, Underway
    <3> QED BY <1>4, <1>5, <1>9, <2>1, <2>2, <2>4, <3>1 DEF RanIsKnown, NextCall
  <2> QED BY <1>6, <2>3, <2>4
<1> QED BY <1>8, <1>10, <1>11, <1>12 DEF RunInv

LEMMA GenerateKeeps ==
  ASSUME TurnInv, NEW r \in Runs, RunInv(r), NEW g \in Generations, Generate(<<r, g>>)
  PROVE  RunInv(r)'
<1> DEFINE d == <<r, g>>
<1> TypeOK
  BY DEF TurnInv
<1>1. d \in Drivers /\ RunOf(d) = r /\ Inside(d)
  BY DEF Drivers, RunOf, Inside
<1>2. at[d] = "generate" /\ Goes(r, g) /\ row[r] \notin {"queued", NoRow}
  BY <1>1 DEF Generate, Goes, Underway, RunInv, WaitersUnstarted
<1>3. /\ \A k \in Calls : ran[r][k] # 0 => k <= completed[r]
      /\ \A k \in Calls : ask[r][k] \notin PendingAsk /\ decider[r][k] \notin Open
  BY <1>2, AllRecorded
<1>4. /\ row'[r] = row[r] /\ completed'[r] = completed[r] /\ ran'[r] = ran[r]
      /\ ask'[r] = ask[r]
  BY DEF Generate, store, history
<1>5. PICK n \in 0 .. MaxBatch :
        /\ requested' = [requested EXCEPT ![r] = @ + n]
        /\ IF n = 0 THEN WriteNext(d, "completed", "row") ELSE Goto(d, "loop") /\ UNCHANGED writing
  BY <1>1 DEF Generate
<1>6. at'[d] = "loop" \/ (at'[d] = "row" /\ writing'[d] = "completed")
  BY <1>1, <1>5 DEF WriteNext, Goto, TypeOK
<1>7. requested'[r] = 0 => requested[r] = 0
  <2>1. requested'[r] = requested[r] + n /\ requested[r] \in Nat /\ n \in Nat
    BY <1>5, RunTypes DEF TypeOK
  <2> QED BY <2>1
<1>8. OnlyDrives(r, g)
  BY <1>1, <1>2, <1>6, PlaceSet, InsideDrives
<1>9. /\ DriversAreTracked(r)' /\ AimsAtOne(r)'
      /\ \A h \in Generations \ {g} : ~ Goes(r, h)' /\ at'[<<r, h>>] \notin Tracked
  BY <1>8, DrivingKeeps
<1>10. decider'[r] = decider[r]
  BY <1>8 DEF OnlyDrives, SameClients
<1>11. OneAnswerOpen(r)'
  BY <1>3, <1>4, <1>10 DEF OneAnswerOpen, Open
<1>12. WaitersUnstarted(r)'
  BY <1>2, <1>4, <1>7, <1>8, DrivingParts DEF RunInv, WaitersUnstarted
<1>13. RanIsKnown(r)'
  <2>1. \A h \in Generations : at'[<<r, h>>] \notin {"exec", "record"}
    BY <1>6, <1>9 DEF Tracked, Driving
  <2>2. \A k \in Calls : ran[r][k] # 0 => ~ (k > completed[r])
    BY <1>3, RunTypes DEF Calls
  <2> QED BY <1>4, <2>1, <2>2 DEF RunInv, RanIsKnown
<1> QED BY <1>9, <1>11, <1>12, <1>13 DEF RunInv

LEMMA InsideKeeps ==
  ASSUME TurnInv, NEW r \in Runs, RunInv(r), NEW g \in Generations, Inside(<<r, g>>)
  PROVE  RunInv(r)'
<1>1. CASE Pure(<<r, g>>)
  BY <1>1, PureSteps, StepsKeep DEF TurnInv
<1> QED BY <1>1, AskKeeps, ExecuteKeeps, RecordKeeps, GenerateKeeps DEF Inside, Pure

-----------------------------------------------------------------------------
(***************************************************************************)
(* The drivers come and go.                                                *)
(***************************************************************************)
\* What a step that touches the drivers of a run at rest leaves alone.
SameRecord(r) == SameWork(r) /\ row'[r] = row[r] /\ ask'[r] = ask[r]

\* releaseRun: the goroutine is done, and no other drives the run.
LEMMA ReleaseKeepsRun ==
  ASSUME TurnInv, NEW r \in Runs, RunInv(r), NEW g \in Generations, Release(<<r, g>>)
  PROVE  RunInv(r)'
<1> DEFINE d == <<r, g>>
<1> TypeOK
  BY DEF TurnInv
<1>1. d \in Drivers /\ RunOf(d) = r /\ GenOf(d) = g
  BY DEF Drivers, RunOf, GenOf
<1>2. at[d] = "release" /\ at' = [at EXCEPT ![d] = IF owner[d] THEN "handon" ELSE "none"]
  BY <1>1 DEF Release, Goto
<1>3. at'[d] \in {"handon", "none"} /\ \A h \in Generations \ {g} : at'[<<r, h>>] = at[<<r, h>>]
  BY <1>1, <1>2, RunTypes DEF TypeOK
<1>4. \A h \in Generations : at'[<<r, h>>] \notin Tracked /\ ~ Goes(r, h)'
  <2>1. \A h \in Generations \ {g} : at[<<r, h>>] \notin Tracked
    BY <1>2, OneDrives DEF Tracked, Driving
  <2>2. \A h \in Generations : at'[<<r, h>>] \notin Tracked
    BY <1>3, <2>1 DEF Tracked, Driving, Writing
  <2> QED BY <2>2 DEF Goes, Tracked, Underway, Driving, Writing
<1>5. SameRecord(r) /\ SameClients(r) /\ born'[r] = born[r]
  BY DEF Release, SameRecord, SameWork, SameClients, durable, clients
<1>6. active'[r] = NoDriver \/ active'[r] = active[r]
  BY <1>1 DEF Release, Untrack, TypeOK
<1>7. OneAnswerOpen(r)'
  BY <1>4, <1>5, <1>6 DEF RunInv, OneAnswerOpen, SameRecord, SameWork, SameClients, NextCall
<1>8. WaitersUnstarted(r)'
  <2>1. sender'[r] \notin Early
    BY <1>2, <1>5, DriverPlaces DEF Driving, SameClients
  <2>2. \A h \in Generations : at'[<<r, h>>] \notin Writing \cup {"generate", "event", "prompt"}
    BY <1>4 DEF Tracked, Driving, Writing
  <2> QED BY <1>5, <2>1, <2>2 DEF RunInv, WaitersUnstarted, SameRecord, SameWork
<1>9. AimsAtOne(r)'
  <2>1. \A h \in Generations : at'[<<r, h>>] # "queued" /\ (at[<<r, h>>] = "none" => at'[<<r, h>>] = "none")
    BY <1>2, <1>3, <1>4 DEF Tracked
  <2>2. interrupter[r] \in {"row", "event", "release"} => aim[r] \in Generations
    BY RunTypes DEF RunInv, AimsAtOne, Generations
  <2> QED BY <1>5, <2>1, <2>2 DEF RunInv, AimsAtOne, SameClients
<1>10. RanIsKnown(r)'
  <2>1. \A h \in Generations : at'[<<r, h>>] \notin {"exec", "record"}
    BY <1>4 DEF Tracked, Driving
  <2> QED BY <1>4, <1>5, <2>1 DEF RunInv, RanIsKnown, SameRecord, SameWork, SameClients, NextCall
<1>11. DriversAreTracked(r)'
  BY <1>4, <1>5, <1>6, RunTypes DEF RunInv, DriversAreTracked, NoDriver
<1> QED BY <1>7, <1>8, <1>9, <1>10, <1>11 DEF RunInv

\* Goroutines that rest, leave the line for good or are launched from it.
Rests(r) ==
  /\ SameRecord(r) /\ born'[r] = born[r] /\ active'[r] = active[r]
  /\ \A g \in Generations :
       /\ \/ at'[<<r, g>>] = at[<<r, g>>]
          \/ at[<<r, g>>] = "handon" /\ at'[<<r, g>>] = "none"
          \/ at[<<r, g>>] = "queued" /\ at'[<<r, g>>] \in {"waiting", "none"}
       /\ writing'[<<r, g>>] = writing[<<r, g>>]
  /\ sender'[r] \in Early => sender[r] \in Early
  /\ decider'[r] = decider[r] /\ aim'[r] = aim[r]

LEMMA RestsKeep ==
  ASSUME TypeOK, NEW r \in Runs, RunInv(r), Rests(r)
  PROVE  /\ DriversAreTracked(r)' /\ OneAnswerOpen(r)' /\ WaitersUnstarted(r)' /\ RanIsKnown(r)'
         /\ interrupter'[r] = interrupter[r] => AimsAtOne(r)'
<1> USE DEF RunInv, Rests, SameRecord, SameWork
<1>1. \A g \in Generations :
        /\ at'[<<r, g>>] \in Tracked => at[<<r, g>>] \in Tracked
        /\ Goes(r, g)' => Goes(r, g)
        /\ at'[<<r, g>>] \notin {"none", "waiting"} => at'[<<r, g>>] = at[<<r, g>>]
  BY DEF Goes, Tracked, Underway, Driving, Writing
<1>2. DriversAreTracked(r)'
  BY <1>1 DEF DriversAreTracked
<1>3. OneAnswerOpen(r)'
  BY <1>1 DEF OneAnswerOpen, NextCall
<1>4. WaitersUnstarted(r)'
  BY <1>1 DEF WaitersUnstarted, Writing
<1>5. RanIsKnown(r)'
  <2>1. \A g \in Generations : at[<<r, g>>] = "record" => at'[<<r, g>>] = "record"
    OBVIOUS
  <2> QED BY <1>1, <2>1 DEF RanIsKnown, NextCall, Outstanding
<1>6. ASSUME interrupter'[r] = interrupter[r] PROVE AimsAtOne(r)'
  <2>1. interrupter[r] \in {"row", "event", "release"} => aim[r] \in Generations
    BY RunTypes DEF AimsAtOne, Generations
  <2>2. \A g \in Generations : at[<<r, g>>] = "none" => at'[<<r, g>>] = "none"
    OBVIOUS
  <2> QED BY <1>1, <1>6, <2>1, <2>2 DEF AimsAtOne
<1> QED BY <1>2, <1>3, <1>4, <1>5, <1>6

LEMMA HandOnRests ==
  ASSUME TurnInv, NEW d \in Drivers, HandOn(d), NEW r \in Runs
  PROVE  Rests(r) /\ interrupter'[r] = interrupter[r]
<1> DEFINE s == SessionOfDriver(d)
<1> TypeOK
  BY DEF TurnInv
<1>1. s \in Sessions /\ at[d] = "handon"
  BY DriverParts DEF HandOn
<1>2. \A c \in Drivers : at'[c] = at[c] \/ (at[c] = "handon" /\ at'[c] = "none")
                         \/ (at[c] = "queued" /\ at'[c] = "waiting")
  <2>1. CASE line[s] = <<>>
    BY <1>1, <2>1 DEF HandOn, Goto, TypeOK
  <2>2. CASE line[s] # <<>>
    <3>1. 1 \in 1 .. Len(line[s]) /\ Head(line[s]) = line[s][1]
      BY <1>1, <2>2 DEF TypeOK
    <3>2. at[Head(line[s])] = "queued"
      BY <1>1, <3>1 DEF TurnInv, LineIsTracked
    <3>3. at' = [at EXCEPT ![d] = "none", ![Head(line[s])] = "waiting"]
      BY <2>2 DEF HandOn
    <3> QED BY <1>1, <3>2, <3>3 DEF TypeOK
  <2> QED BY <2>1, <2>2
<1>3. \A g \in Generations : <<r, g>> \in Drivers
  BY DEF Drivers
<1> HIDE DEF s
<1>4. /\ SameRecord(r) /\ SameClients(r) /\ born'[r] = born[r] /\ active'[r] = active[r]
      /\ writing' = writing
  BY DEF HandOn, SameRecord, SameWork, SameClients, durable, clients
<1> QED BY <1>2, <1>3, <1>4 DEF Rests, SameClients

\* The driver of a run in line, as the run is taken out of it.
LEMMA LeaversQueue ==
  ASSUME TurnInv, NEW r \in Runs, InLine(r), LeaveLine(r)
  PROVE  \E g \in Generations :
           /\ line[SessionOf[r]][PositionInLine(r)] = <<r, g>>
           /\ at[<<r, g>>] = "queued" /\ active[r] = g /\ g \in 1 .. born[r]
           /\ \A c \in Drivers : at'[c] = IF c = <<r, g>> THEN "none" ELSE at[c]
<1> DEFINE d == line[SessionOf[r]][PositionInLine(r)]
<1> TypeOK
  BY DEF TurnInv
<1>1. /\ SessionOf[r] \in Sessions /\ PositionInLine(r) \in 1 .. Len(line[SessionOf[r]])
      /\ d \in Drivers /\ RunOf(d) = r
  BY InLineType
<1>2. at[d] = "queued" /\ active[RunOf(d)] = GenOf(d)
  BY <1>1 DEF TurnInv, LineIsTracked
<1>3. at' = [at EXCEPT ![d] = "none"]
  BY DEF LeaveLine
<1> HIDE DEF d
<1>4. d = <<r, GenOf(d)>> /\ GenOf(d) \in Generations
  BY <1>1, DriverParts
<1>5. ~ (GenOf(d) > born[r])
  BY <1>1, <1>2 DEF TurnInv, UnbornDriversRest
<1>6. GenOf(d) \in 1 .. born[r]
  BY <1>4, <1>5, RunTypes DEF Generations
<1>7. \A c \in Drivers : at'[c] = IF c = d THEN "none" ELSE at[c]
  BY <1>1, <1>3 DEF TypeOK
<1> QED BY <1>1, <1>2, <1>4, <1>6, <1>7 DEF d

LEMMA TakeOutKeeps ==
  ASSUME TurnInv, NEW r \in Runs, RunInv(r), TakeOutOfLine(r)
  PROVE  RunInv(r)'
<1> TypeOK
  BY DEF TurnInv
<1>1. PICK g \in Generations :
        /\ at[<<r, g>>] = "queued" /\ active[r] = g
        /\ \A c \in Drivers : at'[c] = IF c = <<r, g>> THEN "none" ELSE at[c]
  BY LeaversQueue DEF TakeOutOfLine
<1>2. \A h \in Generations : at'[<<r, h>>] = IF h = g THEN "none" ELSE at[<<r, h>>]
  BY <1>1 DEF Drivers
<1>3. /\ SameRecord(r) /\ born'[r] = born[r] /\ active'[r] = active[r] /\ writing' = writing
      /\ sender' = sender /\ decider' = decider /\ aim' = aim
  BY DEF TakeOutOfLine, SameRecord, SameWork, durable
<1>4. Rests(r)
  BY <1>1, <1>2, <1>3 DEF Rests
<1>5. interrupter[r] = "found" /\ interrupter'[r] = "row"
  BY DEF TakeOutOfLine, TypeOK
<1>6. AimsAtOne(r)'
  <2>1. aim[r] = g /\ aim[r] \in 1 .. born[r]
    BY <1>1, <1>5 DEF RunInv, AimsAtOne
  <2> QED BY <1>2, <1>3, <1>5, <2>1 DEF AimsAtOne
<1> QED BY <1>4, <1>6, RestsKeep DEF RunInv

LEMMA WaitNotRecordedKeeps ==
  ASSUME TurnInv, NEW r \in Runs, RunInv(r), WaitNotRecorded(r), InLine(r)
  PROVE  RunInv(r)'
<1> TypeOK
  BY DEF TurnInv
<1>1. /\ LeaveLine(r) /\ Untrack(line[SessionOf[r]][PositionInLine(r)])
      /\ sender' = [sender EXCEPT ![r] = "refused"]
      /\ sender[r] \in {"lining", "recorded"}
  BY Zenon DEF WaitNotRecorded
<1>2. PICK g \in Generations :
        /\ line[SessionOf[r]][PositionInLine(r)] = <<r, g>>
        /\ at[<<r, g>>] = "queued" /\ active[r] = g
        /\ \A c \in Drivers : at'[c] = IF c = <<r, g>> THEN "none" ELSE at[c]
  BY <1>1, LeaversQueue
<1>3. \A h \in Generations : at'[<<r, h>>] = IF h = g THEN "none" ELSE at[<<r, h>>]
  BY <1>2 DEF Drivers
<1>4. active'[r] = NoDriver
  BY <1>1, <1>2 DEF Untrack, RunOf, GenOf, TypeOK
<1>5. \A h \in Generations : at'[<<r, h>>] \notin Tracked /\ ~ Goes(r, h)'
  <2>1. \A h \in Generations \ {g} : at[<<r, h>>] \notin Tracked
    BY <1>2, OneDrives DEF Tracked
  <2>2. \A h \in Generations : at'[<<r, h>>] \notin Tracked
    BY <1>3, <2>1 DEF Tracked, Driving, Writing
  <2> QED BY <2>2 DEF Goes, Tracked, Underway, Driving, Writing
<1>6. /\ SameRecord(r) /\ born'[r] = born[r] /\ writing' = writing /\ sender'[r] \notin Early
      /\ decider' = decider /\ aim' = aim /\ interrupter' = interrupter
  <2>1. UNCHANGED <<durable, ran, born, writing, decider, interrupter, aim>>
    BY Zenon DEF WaitNotRecorded
  <2> QED BY <1>1, <2>1 DEF SameRecord, SameWork, durable, Early, BeforeAdmit, TypeOK
<1>7. OneAnswerOpen(r)'
  BY <1>4, <1>5, <1>6 DEF RunInv, OneAnswerOpen, SameRecord, SameWork, NextCall
<1>8. WaitersUnstarted(r)'
  <2>1. \A h \in Generations : at'[<<r, h>>] \notin Writing \cup {"generate", "event", "prompt"}
    BY <1>5 DEF Tracked, Driving, Writing
  <2> QED BY <1>6, <2>1 DEF RunInv, WaitersUnstarted, SameRecord, SameWork
<1>9. AimsAtOne(r)'
  <2>1. \A h \in Generations : at'[<<r, h>>] # "queued" /\ (at[<<r, h>>] = "none" => at'[<<r, h>>] = "none")
    BY <1>3, <1>5 DEF Tracked
  <2>2. interrupter[r] \in {"row", "event", "release"} => aim[r] \in Generations
    BY RunTypes DEF RunInv, AimsAtOne, Generations
  <2> QED BY <1>6, <2>1, <2>2 DEF RunInv, AimsAtOne
<1>10. RanIsKnown(r)'
  <2>1. \A h \in Generations : at'[<<r, h>>] \notin {"exec", "record"}
    BY <1>5 DEF Tracked, Driving
  <2> QED BY <1>5, <1>6, <2>1 DEF RunInv, RanIsKnown, SameRecord, SameWork, NextCall
<1>11. DriversAreTracked(r)'
  BY <1>4, <1>5, <1>6, RunTypes DEF DriversAreTracked, NoDriver
<1> QED BY <1>7, <1>8, <1>9, <1>10, <1>11 DEF RunInv

\* A driver that is made is the only one of its run, and the run is at rest.
LEMMA BornKeeps ==
  ASSUME TypeOK, NEW r \in Runs, RunInv(r), CanBeBorn(r),
         \A g \in Generations : at[<<r, g>>] \notin Tracked,
         \A k \in Calls : ask[r][k] \notin PendingAsk /\ decider'[r][k] \notin Open,
         \A k \in Calls : ran[r][k] # 0 => k <= completed[r],
         born'[r] = born[r] + 1, active'[r] = born[r] + 1,
         NEW place \in {"queued", "waiting", "loop"},
         at' = [at EXCEPT ![NextDriver(r)] = place], writing' = writing,
         place = "loop" => sender'[r] \notin Early,
         sender'[r] \in Early => sender[r] \in Early /\ decider'[r] = decider[r],
         SameRecord(r), aim'[r] = aim[r], interrupter'[r] = interrupter[r],
         place = "queued" => interrupter[r] # "found"
  PROVE  RunInv(r)'
<1> DEFINE n == born[r] + 1
<1>1. n \in Generations /\ NextDriver(r) = <<r, n>> /\ <<r, n>> \in Drivers /\ n \in Nat
  BY RunTypes DEF CanBeBorn, Generations, NextDriver, Drivers
<1>2. \A g \in Generations : at'[<<r, g>>] = IF g = n THEN place ELSE at[<<r, g>>]
  <2>1. at' = [at EXCEPT ![<<r, n>>] = place] /\ at \in [Drivers -> Places]
    BY <1>1 DEF TypeOK
  <2>2. \A g \in Generations : <<r, g>> \in Drivers /\ (<<r, g>> = <<r, n>> <=> g = n)
    BY DEF Drivers
  <2> HIDE DEF n
  <2> QED BY <2>1, <2>2
<1> HIDE DEF n
<1>3. \A g \in Generations \ {n} : at'[<<r, g>>] \notin Tracked /\ ~ Goes(r, g)'
  BY <1>2 DEF Goes, Tracked, Underway, Driving, Writing
<1>4. DriversAreTracked(r)'
  BY <1>1, <1>2, <1>3 DEF DriversAreTracked, n
<1>5. OneAnswerOpen(r)'
  BY DEF RunInv, OneAnswerOpen, SameRecord, SameWork, Open
<1>6. WaitersUnstarted(r)'
  <2>1. \A g \in Generations : at'[<<r, g>>] \notin Writing \cup {"generate", "event", "prompt"}
    BY <1>2, <1>3 DEF Tracked, Driving, Writing
  <2>2. sender'[r] \in Early =>
          \A g \in Generations : at'[<<r, g>>] \in {"none", "queued", "waiting"}
    BY <1>2 DEF RunInv, WaitersUnstarted
  <2> QED BY <2>1, <2>2 DEF RunInv, WaitersUnstarted, SameRecord, SameWork
<1>7. AimsAtOne(r)'
  <2>1. interrupter[r] \in {"found", "row", "event", "release"} =>
          aim[r] \in 1 .. born'[r] /\ aim[r] \in Generations /\ aim[r] # n
    BY RunTypes DEF RunInv, AimsAtOne, Generations, n
  <2>2. \A g \in Generations : at[<<r, g>>] # "queued"
    BY DEF Tracked
  <2> QED BY <1>2, <2>1, <2>2 DEF RunInv, AimsAtOne
<1>8. RanIsKnown(r)'
  <2>1. \A g \in Generations : at'[<<r, g>>] \notin {"exec", "record"}
    BY <1>2, <1>3 DEF Tracked, Driving
  <2>2. \A k \in Calls : ran[r][k] # 0 => ~ (k > completed[r])
    BY RunTypes DEF Calls
  <2> QED BY <2>1, <2>2 DEF RunInv, RanIsKnown, SameRecord, SameWork
<1> QED BY <1>4, <1>5, <1>6, <1>7, <1>8 DEF RunInv

\* A run is put in line, or started, by its sender or by recovery.
LEMMA JoinPlaces ==
  ASSUME TypeOK, NEW r \in Runs, JoinOrStart(r)
  PROVE  /\ CanBeBorn(r) /\ born'[r] = born[r] + 1 /\ active'[r] = born[r] + 1
         /\ \E place \in {"queued", "waiting"} : at' = [at EXCEPT ![NextDriver(r)] = place]
  BY DEF JoinOrStart, Track, TypeOK

LEMMA AdmitKeeps ==
  ASSUME TurnInv, NEW r \in Runs, RunInv(r), Admit(r)
  PROVE  RunInv(r)'
<1> TypeOK
  BY DEF TurnInv
<1>1. sender[r] = "spoken" /\ sender[r] \in BeforeAdmit /\ sender[r] \in Early
  BY DEF Admit, BeforeAdmit, Early
<1>2. born[r] = 0 /\ interrupter[r] = "idle" /\ \A k \in Calls : ask[r][k] = NoAsk /\ decider[r][k] = "idle"
  BY <1>1 DEF TurnInv, UnadmittedRunsUntouched
<1>3. \A g \in Generations : at[<<r, g>>] \notin Tracked
  <2>1. \A g \in Generations : <<r, g>> \in Drivers /\ RunOf(<<r, g>>) = r /\ GenOf(<<r, g>>) > 0
    BY DEF Drivers, RunOf, GenOf, Generations
  <2> QED BY <1>2, <2>1 DEF TurnInv, UnbornDriversRest, Tracked, Driving, Writing
<1>4. \A k \in Calls : ran[r][k] = 0
  BY <1>1 DEF RunInv, WaitersUnstarted
<1>5. /\ SameRecord(r) /\ decider' = decider /\ aim' = aim /\ interrupter' = interrupter
      /\ writing' = writing
  BY DEF Admit, SameRecord, SameWork, durable
<1>6. JoinOrStart(r)
  BY DEF Admit
<1> QED BY <1>1, <1>2, <1>3, <1>4, <1>5, <1>6, JoinPlaces, BornKeeps DEF Open, PendingAsk, NoAsk

LEMMA RequeueKeeps ==
  ASSUME TurnInv, NEW r \in Runs, RunInv(r), Requeue(r)
  PROVE  RunInv(r)'
<1> TypeOK
  BY DEF TurnInv
<1>1. /\ phase = "recovering" /\ r \in todo /\ row[r] = "queued"
      /\ sender' = sender /\ SameRecord(r) /\ decider' = decider /\ aim' = aim
      /\ interrupter' = interrupter /\ writing' = writing
  BY DEF Requeue, SameRecord, SameWork, clients, loopData
<1>2. born[r] = 0 /\ interrupter[r] # "found" /\ \A k \in Calls : decider[r][k] \notin Open
  BY <1>1 DEF TurnInv, QuietUntilServing, Open
<1>3. \A g \in Generations : at[<<r, g>>] \notin Tracked
  <2>1. \A g \in Generations : <<r, g>> \in Drivers /\ RunOf(<<r, g>>) = r /\ GenOf(<<r, g>>) > 0
    BY DEF Drivers, RunOf, GenOf, Generations
  <2> QED BY <1>2, <2>1 DEF TurnInv, UnbornDriversRest, Tracked, Driving, Writing
<1>4. \A k \in Calls : ask[r][k] = NoAsk /\ ran[r][k] = 0
  BY <1>1, RunTypes DEF RunInv, WaitersUnstarted
<1>5. JoinOrStart(r)
  BY DEF Requeue
<1> QED BY <1>1, <1>2, <1>3, <1>4, <1>5, JoinPlaces, BornKeeps DEF PendingAsk, NoAsk

-----------------------------------------------------------------------------
(***************************************************************************)
(* Answers.                                                                *)
(***************************************************************************)
LEMMA DecideKeeps ==
  ASSUME TurnInv, NEW r \in Runs, RunInv(r), NEW k \in Calls, Decide(r, k)
  PROVE  RunInv(r)'
<1> TypeOK
  BY DEF TurnInv
<1>1. ask[r][k] \in PendingAsk
  BY DEF Decide
<1>2. k = NextCall(r) /\ \A g \in Generations : ~ Goes(r, g)
  BY <1>1 DEF RunInv, OneAnswerOpen
<1>3. PICK reply \in SettledAsk : ask' = [ask EXCEPT ![r][k] = reply]
  BY <1>1 DEF Decide, Replies, SettledAsk, PendingAsk
<1>4. decider' = [decider EXCEPT ![r][k] = "decided"]
  BY DEF Decide
<1>5. /\ ask'[r][k] \notin PendingAsk /\ decider'[r][k] = "decided"
      /\ \A l \in Calls \ {k} : ask'[r][l] = ask[r][l] /\ decider'[r][l] = decider[r][l]
  BY <1>3, <1>4 DEF TypeOK, SettledAsk, PendingAsk
<1>6. /\ SameDrivers(r) /\ SameWork(r) /\ row' = row /\ sender' = sender
      /\ interrupter' = interrupter /\ aim' = aim
  BY DEF Decide, SameDrivers, SameWork, store, history, loopData, drive
<1>7. DriversAreTracked(r)'
  BY <1>6 DEF RunInv, DriversAreTracked, SameDrivers
<1>8. OneAnswerOpen(r)'
  <2>1. \A g \in Generations : ~ Goes(r, g)'
    BY <1>2, <1>6 DEF SameDrivers, Goes
  <2>2. NextCall(r)' = NextCall(r) /\ active'[r] = active[r]
    BY <1>6 DEF SameWork, NextCall, SameDrivers
  <2> QED BY <1>2, <1>5, <2>1, <2>2 DEF RunInv, OneAnswerOpen
<1>9. requested[r] # 0
  BY <1>1 DEF RunInv, WaitersUnstarted, PendingAsk, NoAsk
<1>10. WaitersUnstarted(r)'
  BY <1>6, <1>9 DEF RunInv, WaitersUnstarted, SameDrivers, SameWork
<1>11. AimsAtOne(r)'
  <2>1. interrupter[r] \in {"row", "event", "release"} => aim[r] \in Generations
    BY RunTypes DEF RunInv, AimsAtOne, Generations
  <2> QED BY <1>6, <2>1 DEF RunInv, AimsAtOne, SameDrivers
<1>12. RanIsKnown(r)'
  <2>1. \A g \in Generations : at'[<<r, g>>] \notin {"exec", "record"}
    BY <1>2, <1>6 DEF SameDrivers, Goes, Underway
  <2>2. \A l \in Calls : ran[r][l] # 0 => l # k /\ ~ (l > completed[r])
    BY <1>1 DEF RunInv, RanIsKnown, PendingAsk, NoAsk
  <2> QED BY <1>5, <1>6, <2>1, <2>2 DEF RunInv, RanIsKnown, SameWork
<1> QED BY <1>7, <1>8, <1>10, <1>11, <1>12 DEF RunInv

LEMMA ResumeKeepsRun ==
  ASSUME TurnInv, NEW r \in Runs, RunInv(r), NEW k \in Calls, Resume(r, k)
  PROVE  RunInv(r)'
<1> TypeOK
  BY DEF TurnInv
<1>1. decider[r][k] = "checked" /\ decider' = [decider EXCEPT ![r][k] = "done"]
  BY DEF Resume
<1>2. /\ SameRecord(r) /\ sender' = sender /\ aim' = aim /\ interrupter' = interrupter
      /\ writing' = writing
  BY DEF Resume, SameRecord, SameWork, durable
<1>3. k = NextCall(r) /\ active[r] = NoDriver /\ sender[r] \notin Early
  BY <1>1 DEF RunInv, OneAnswerOpen, WaitersUnstarted, Open
<1>4. decider'[r][k] = "done" /\ \A l \in Calls \ {k} : decider'[r][l] = decider[r][l]
  BY <1>1 DEF TypeOK
<1>5. CASE row[r] \in Terminal \/ HasPendingAsk(r)
  <2>1. UNCHANGED <<active, born, at>>
    BY <1>5 DEF Resume
  <2> QED BY <1>2, <1>3, <1>4, <2>1, ClientMovesKeep DEF ClientMoves, SameDrivers, SameRecord, Open
<1>6. CASE ~ (row[r] \in Terminal \/ HasPendingAsk(r))
  <2>1. Track(r) /\ at' = [at EXCEPT ![NextDriver(r)] = "loop"]
    BY <1>6 DEF Resume
  <2>2. CanBeBorn(r) /\ born'[r] = born[r] + 1 /\ active'[r] = born[r] + 1
    BY <2>1 DEF Track, TypeOK
  <2>3. \A g \in Generations : at[<<r, g>>] \notin Tracked
    BY <1>3 DEF RunInv, DriversAreTracked, Generations, NoDriver
  <2>4. \A l \in Calls : ask[r][l] \notin PendingAsk /\ decider'[r][l] \notin Open
    BY <1>3, <1>4, <1>6 DEF RunInv, OneAnswerOpen, HasPendingAsk, Open
  <2>5. \A l \in Calls : ran[r][l] # 0 => l <= completed[r]
    <3>1. decider[r][k] \in Open
      BY <1>1 DEF Open
    <3> QED BY <3>1, RunTypes DEF RunInv, RanIsKnown, Calls
  <2> QED BY <1>2, <1>3, <2>1, <2>2, <2>3, <2>4, <2>5, BornKeeps
<1> QED BY <1>5, <1>6

-----------------------------------------------------------------------------
(***************************************************************************)
(* Interruptions, and the end of the process.                              *)
(***************************************************************************)
LEMMA InterruptKeeps ==
  ASSUME TurnInv, NEW r \in Runs, RunInv(r), InterruptRun(r)
  PROVE  RunInv(r)'
<1> TypeOK
  BY DEF TurnInv
<1>1. active[r] # NoDriver /\ aim'[r] = active[r] /\ interrupter'[r] = "found"
  BY DEF InterruptRun, TypeOK
<1>2. SameDrivers(r) /\ SameRecord(r) /\ sender' = sender /\ decider' = decider
  BY DEF InterruptRun, SameDrivers, SameRecord, SameWork, durable, drive
<1>3. DriversAreTracked(r)' /\ OneAnswerOpen(r)' /\ WaitersUnstarted(r)' /\ RanIsKnown(r)'
  <2>1. \A g \in Generations : Goes(r, g)' <=> Goes(r, g)
    BY <1>2 DEF SameDrivers, Goes
  <2> QED BY <1>2, <2>1 DEF RunInv, DriversAreTracked, OneAnswerOpen, WaitersUnstarted, RanIsKnown,
             SameDrivers, SameRecord, SameWork, NextCall, Outstanding
<1>4. AimsAtOne(r)'
  <2>1. active[r] \in 1 .. born[r]
    BY <1>1, RunTypes DEF RunInv, DriversAreTracked, Generations, NoDriver
  <2> QED BY <1>1, <1>2, <2>1 DEF RunInv, DriversAreTracked, AimsAtOne, SameDrivers, Tracked
<1> QED BY <1>3, <1>4 DEF RunInv

LEMMA ReleaseInterruptedKeeps ==
  ASSUME TurnInv, NEW r \in Runs, RunInv(r), ReleaseInterrupted(r)
  PROVE  RunInv(r)'
<1> TypeOK
  BY DEF TurnInv
<1>1. interrupter[r] = "release" /\ interrupter'[r] = "done"
  BY DEF ReleaseInterrupted, TypeOK
<1>2. active'[r] = IF active[r] = aim[r] THEN NoDriver ELSE active[r]
  BY DEF ReleaseInterrupted, Untrack, RunOf, GenOf, TypeOK
<1>3. /\ SameRecord(r) /\ sender' = sender /\ decider' = decider /\ aim' = aim /\ born' = born
      /\ at' = at /\ writing' = writing
  BY DEF ReleaseInterrupted, SameRecord, SameWork, durable, drive
<1>4. at[<<r, aim[r]>>] = "none"
  BY <1>1 DEF RunInv, AimsAtOne
<1>5. \A g \in Generations : Goes(r, g)' <=> Goes(r, g)
  BY <1>3 DEF Goes
<1>6. DriversAreTracked(r)'
  <2>1. \A g \in Generations : at[<<r, g>>] \in Tracked => g # aim[r]
    BY <1>4 DEF Tracked, Driving, Writing
  <2> QED BY <1>2, <1>3, <2>1, RunTypes DEF RunInv, DriversAreTracked, NoDriver
<1>7. OneAnswerOpen(r)' /\ WaitersUnstarted(r)' /\ RanIsKnown(r)'
  BY <1>2, <1>3, <1>5 DEF RunInv, OneAnswerOpen, WaitersUnstarted, RanIsKnown, SameRecord, SameWork,
       NextCall, Outstanding
<1>8. AimsAtOne(r)'
  BY <1>1 DEF AimsAtOne
<1> QED BY <1>6, <1>7, <1>8 DEF RunInv

LEMMA VanishKeepsRun ==
  ASSUME TurnInv, NEW r \in Runs, RunInv(r), Vanish
  PROVE  RunInv(r)'
<1> TypeOK
  BY DEF TurnInv
<1>1. /\ active'[r] = NoDriver /\ born'[r] = 0
      /\ \A g \in Generations : at'[<<r, g>>] = "none" /\ writing'[<<r, g>>] = NoRow
  BY DEF Vanish, Drivers
<1>2. /\ sender'[r] = Gone(sender[r]) /\ interrupter'[r] = Gone(interrupter[r])
      /\ \A k \in Calls : decider'[r][k] = Gone(decider[r][k])
  BY DEF Vanish
<1>3. SameRecord(r)
  BY DEF Vanish, SameRecord, SameWork, durable
<1>4. \A g \in Generations : at'[<<r, g>>] \notin Tracked /\ ~ Goes(r, g)'
  BY <1>1 DEF Goes, Tracked, Underway, Driving, Writing
<1>5. \A k \in Calls : decider'[r][k] \in {"idle", "done"}
                       /\ (decider[r][k] = "idle" => decider'[r][k] = "idle")
  <2>1. \A k \in Calls : decider[r][k] \in DeciderPlaces
    BY DEF TypeOK
  <2> QED BY <1>2, <2>1 DEF Gone, DeciderPlaces
<1>6. interrupter'[r] \in {"idle", "done"}
  BY <1>2 DEF Gone, TypeOK, InterrupterPlaces
<1>7. sender'[r] \in {"idle", "refused", "done"} /\ (sender'[r] = "idle" => sender[r] = "idle")
  BY <1>2 DEF Gone, TypeOK, SenderPlaces
<1>8. DriversAreTracked(r)'
  BY <1>1, <1>4 DEF DriversAreTracked, NoDriver
<1>9. OneAnswerOpen(r)'
  BY <1>3, <1>4, <1>5 DEF RunInv, OneAnswerOpen, SameRecord, SameWork, NextCall, Open
<1>10. WaitersUnstarted(r)'
  BY <1>1, <1>3, <1>5, <1>7 DEF RunInv, WaitersUnstarted, SameRecord, SameWork, Early, BeforeAdmit,
       Writing
<1>11. AimsAtOne(r)'
  BY <1>6 DEF AimsAtOne
<1>12. RanIsKnown(r)'
  BY <1>1, <1>3, <1>4, <1>5 DEF RunInv, RanIsKnown, SameRecord, SameWork, NextCall, Open
<1> QED BY <1>8, <1>9, <1>10, <1>11, <1>12 DEF RunInv

-----------------------------------------------------------------------------
(***************************************************************************)
(* Every step, seen from every run.                                        *)
(***************************************************************************)
LEMMA RunStays ==
  ASSUME TurnInv, NEW r \in Runs, RunInv(r), SameRun(r)
  PROVE  RunInv(r)'
  BY SameRunMoves, ClientMovesKeep DEF TurnInv

LEMMA SenderRuns ==
  ASSUME TurnInv, NEW q \in Runs, Sender(q), NEW r \in Runs, RunInv(r)
  PROVE  RunInv(r)'
<1> TypeOK
  BY DEF TurnInv
<1> USE DEF durable, store, loopData, turnData, drive, clients, process
<1>1. CASE Admit(q)
  <2>1. CASE r = q
    BY <1>1, <2>1, AdmitKeeps
  <2>2. CASE r # q
    <3>1. \A g \in Generations : <<r, g>> \in Drivers /\ <<r, g>> # NextDriver(q)
      BY <2>2 DEF Drivers, NextDriver
    <3>2. SameRun(r)
      BY <1>1, <2>2, <3>1 DEF Admit, JoinOrStart, Track, SameRun, SameDrivers, SameWork,
           SameClients, TypeOK
    <3> QED BY <3>2, RunStays
  <2> QED BY <2>1, <2>2
<1>2. CASE WaitNotRecorded(q) /\ InLine(q)
  <2>1. CASE r = q
    BY <1>2, <2>1, WaitNotRecordedKeeps
  <2>2. CASE r # q
    <3>1. /\ LeaveLine(q) /\ Untrack(line[SessionOf[q]][PositionInLine(q)])
          /\ sender' = [sender EXCEPT ![q] = "refused"]
          /\ UNCHANGED <<durable, ran, born, writing, decider, interrupter, aim>>
      BY <1>2, Zenon DEF WaitNotRecorded
    <3>2. PICK g \in Generations :
            /\ line[SessionOf[q]][PositionInLine(q)] = <<q, g>>
            /\ \A c \in Drivers : at'[c] = IF c = <<q, g>> THEN "none" ELSE at[c]
      <4>1. InLine(q) /\ LeaveLine(q)
        BY <1>2, <3>1
      <4>2. \E g \in Generations :
              /\ line[SessionOf[q]][PositionInLine(q)] = <<q, g>>
              /\ at[<<q, g>>] = "queued" /\ active[q] = g /\ g \in 1 .. born[q]
              /\ \A c \in Drivers : at'[c] = IF c = <<q, g>> THEN "none" ELSE at[c]
        BY <4>1, LeaversQueue, Zenon
      <4> QED BY <4>2, Zenon
    <3>3. active'[r] = active[r]
      BY <2>2, <3>1, <3>2 DEF Untrack, RunOf, TypeOK
    <3>4. \A h \in Generations : at'[<<r, h>>] = at[<<r, h>>]
      BY <2>2, <3>2 DEF Drivers
    <3>5. SameRun(r)
      BY <2>2, <3>1, <3>3, <3>4 DEF SameRun, SameDrivers, SameWork, SameClients, TypeOK
    <3> QED BY <3>5, RunStays
  <2> QED BY <2>1, <2>2
<1>3. CASE \/ SendTurnTo(q) \/ CreateRun(q) \/ AddUserMessage(q) \/ RecordWaiting(q)
           \/ AnnounceWaiting(q) \/ SendFails(q) \/ (WaitNotRecorded(q) /\ ~ InLine(q))
  <2>1. /\ UNCHANGED <<active, born, at, writing, requested, completed, turns, ran, ask, aim,
                       decider, interrupter>>
        /\ \E place : sender' = [sender EXCEPT ![q] = place] /\ (place \in Early => sender[q] \in Early)
        /\ row' = row \/ (sender[q] \in Early /\ \E status : row' = [row EXCEPT ![q] = status])
    BY <1>3 DEF SendTurnTo, CreateRun, AddUserMessage, RecordWaiting, AnnounceWaiting, SendFails,
         WaitNotRecorded, Early, BeforeAdmit
  <2>2. sender'[r] \in Early => sender[r] \in Early
    BY <2>1 DEF TypeOK
  <2>3. row'[r] = row[r] \/ sender[r] \in Early
    BY <2>1 DEF TypeOK
  <2>4. ClientMoves(r)
    BY <2>1, <2>2, <2>3 DEF ClientMoves, SameDrivers, SameWork
  <2> QED BY <2>4, ClientMovesKeep
<1> QED BY <1>1, <1>2, <1>3 DEF Sender

LEMMA DeciderRuns ==
  ASSUME TurnInv, NEW q \in Runs, NEW k \in Calls, Decider(q, k), NEW r \in Runs, RunInv(r)
  PROVE  RunInv(r)'
<1> TypeOK
  BY DEF TurnInv
<1> USE DEF durable, store, loopData, turnData, drive, clients, process
<1>1. CASE r # q
  <2>1. CASE Resume(q, k) /\ ~ (row[q] \in Terminal \/ HasPendingAsk(q))
    <3>1. \A g \in Generations : <<r, g>> \in Drivers /\ <<r, g>> # NextDriver(q)
      BY <1>1 DEF Drivers, NextDriver
    <3>2. Track(q) /\ at' = [at EXCEPT ![NextDriver(q)] = "loop"]
      BY <2>1 DEF Resume
    <3>3. SameRun(r)
      BY <1>1, <2>1, <3>1, <3>2 DEF Resume, Track, SameRun, SameDrivers, SameWork, SameClients, TypeOK
    <3> QED BY <3>3, RunStays
  <2>2. CASE \/ Decide(q, k) \/ DeciderVanishes(q, k) \/ CheckResume(q, k)
             \/ Resume(q, k) /\ (row[q] \in Terminal \/ HasPendingAsk(q))
    <3>1. UNCHANGED <<active, born, at, writing>>
      BY <2>2 DEF Decide, DeciderVanishes, CheckResume, Resume
    <3>2. ask'[r] = ask[r] /\ decider'[r] = decider[r]
      BY <1>1, <2>2 DEF Decide, DeciderVanishes, CheckResume, Resume, TypeOK
    <3>3. UNCHANGED <<row, requested, completed, turns, ran, sender, interrupter, aim>>
      BY <2>2 DEF Decide, DeciderVanishes, CheckResume, Resume, history
    <3>4. SameRun(r)
      BY <3>1, <3>2, <3>3 DEF SameRun, SameDrivers, SameWork, SameClients
    <3> QED BY <3>4, RunStays
  <2> QED BY <2>1, <2>2 DEF Decider
<1>2. CASE r = q
  <2>1. CASE DeciderVanishes(r, k) \/ CheckResume(r, k)
    <3>1. /\ decider[r][k] = "decided"
          /\ \E place \in {"done", "checked"} :
               /\ decider' = [decider EXCEPT ![r][k] = place]
               /\ place = "checked" => active[r] = NoDriver
          /\ UNCHANGED <<active, born, at, writing, row, requested, completed, turns, ran, ask,
                         sender, interrupter, aim>>
      BY <2>1 DEF DeciderVanishes, CheckResume
    <3>2. \A l \in Calls :
            /\ decider'[r][l] \in Open => decider[r][l] \in Open
            /\ decider'[r][l] = "checked" => decider[r][l] = "checked" \/ active[r] = NoDriver
      <4>1. PICK place \in {"done", "checked"} :
              /\ decider' = [decider EXCEPT ![r][k] = place]
              /\ place = "checked" => active[r] = NoDriver
        BY <3>1
      <4>2. \A l \in Calls : decider'[r][l] = IF l = k THEN place ELSE decider[r][l]
        BY <4>1 DEF TypeOK
      <4> QED BY <3>1, <4>1, <4>2 DEF Open
    <3>3. sender[r] \notin Early
      BY <3>1 DEF RunInv, WaitersUnstarted
    <3>4. ClientMoves(r)
      BY <3>1, <3>2, <3>3 DEF ClientMoves, SameDrivers, SameWork
    <3> QED BY <3>4, ClientMovesKeep
  <2> QED BY <1>2, <2>1, DecideKeeps, ResumeKeepsRun DEF Decider
<1> QED BY <1>1, <1>2

LEMMA InterrupterRuns ==
  ASSUME TurnInv, NEW q \in Runs, Interrupter(q), NEW r \in Runs, RunInv(r)
  PROVE  RunInv(r)'
<1> TypeOK
  BY DEF TurnInv
<1> USE DEF durable, store, loopData, turnData, drive, clients, process
<1>1. CASE r # q
  <2>1. CASE TakeOutOfLine(q)
    <3>1. PICK g \in Generations :
            \A c \in Drivers : at'[c] = IF c = <<q, g>> THEN "none" ELSE at[c]
      BY <2>1, LeaversQueue DEF TakeOutOfLine
    <3>2. \A h \in Generations : at'[<<r, h>>] = at[<<r, h>>]
      BY <1>1, <3>1 DEF Drivers
    <3>3. SameRun(r)
      BY <1>1, <2>1, <3>2 DEF TakeOutOfLine, SameRun, SameDrivers, SameWork, SameClients, TypeOK
    <3> QED BY <3>3, RunStays
  <2>2. CASE ReleaseInterrupted(q)
    <3>1. active'[r] = active[r]
      BY <1>1, <2>2 DEF ReleaseInterrupted, Untrack, RunOf, TypeOK
    <3>2. SameRun(r)
      BY <1>1, <2>2, <3>1 DEF ReleaseInterrupted, SameRun, SameDrivers, SameWork, SameClients, TypeOK
    <3> QED BY <3>2, RunStays
  <2>3. CASE \/ InterruptRun(q) \/ CancelDriver(q) \/ WriteInterruptedRow(q)
             \/ WriteInterruptedEvent(q) \/ InterruptNotRecorded(q)
    <3>1. /\ UNCHANGED <<active, born, at, writing, requested, completed, turns, ran, ask, sender,
                         decider>>
          /\ row' = row \/ row' = [row EXCEPT ![q] = "cancelled"]
          /\ \E place : interrupter' = [interrupter EXCEPT ![q] = place]
          /\ aim' = aim \/ \E d : aim' = [aim EXCEPT ![q] = d]
      BY <2>3 DEF InterruptRun, CancelDriver, WriteInterruptedRow, WriteInterruptedEvent,
           InterruptNotRecorded, history
    <3>2. row'[r] = row[r] /\ interrupter'[r] = interrupter[r] /\ aim'[r] = aim[r]
      BY <1>1, <3>1 DEF TypeOK
    <3>3. SameRun(r)
      BY <3>1, <3>2 DEF SameRun, SameDrivers, SameWork, SameClients
    <3> QED BY <3>3, RunStays
  <2> QED BY <2>1, <2>2, <2>3 DEF Interrupter
<1>2. CASE r = q
  <2>1. CASE \/ CancelDriver(r) \/ WriteInterruptedRow(r) \/ WriteInterruptedEvent(r)
             \/ InterruptNotRecorded(r)
    <3>1. /\ interrupter'[r] \in {"done", "event", "release"}
          /\ interrupter[r] = "found" => interrupter'[r] = "done"
          /\ interrupter[r] \in {"found", "row", "event"}
          /\ row'[r] \in {row[r], "cancelled"}
          /\ UNCHANGED <<active, born, at, writing, requested, completed, turns, ran, ask,
                         sender, decider, aim>>
      BY <2>1 DEF CancelDriver, WriteInterruptedRow, WriteInterruptedEvent, InterruptNotRecorded,
           history, TypeOK
    <3>2. ClientMoves(r)
      BY <3>1 DEF ClientMoves, SameDrivers, SameWork, NoRow
    <3> QED BY <3>2, ClientMovesKeep
  <2> QED BY <1>2, <2>1, InterruptKeeps, TakeOutKeeps, ReleaseInterruptedKeeps DEF Interrupter
<1> QED BY <1>1, <1>2

LEMMA DriverRuns ==
  ASSUME TurnInv, NEW d \in Drivers, Driver(d), NEW r \in Runs, RunInv(r)
  PROVE  RunInv(r)'
<1> TypeOK
  BY DEF TurnInv
<1>1. PICK q \in Runs, g \in Generations : d = <<q, g>>
  BY DEF Drivers
<1>2. CASE Inside(d)
  <2>1. CASE r = q
    BY <1>1, <1>2, <2>1, InsideKeeps
  <2>2. CASE r # q
    BY <1>1, <1>2, <2>2, InsideRests, RunStays
  <2> QED BY <2>1, <2>2
<1>3. CASE Release(d)
  <2>1. CASE r = q
    BY <1>1, <1>3, <2>1, ReleaseKeepsRun
  <2>2. CASE r # q
    <3>1. active'[r] = active[r] /\ \A h \in Generations : at'[<<r, h>>] = at[<<r, h>>]
      BY <1>1, <1>3, <2>2 DEF Release, Untrack, Goto, RunOf, TypeOK, Drivers
    <3>2. SameRun(r)
      BY <1>3, <3>1 DEF Release, SameRun, SameDrivers, SameWork, SameClients, durable, clients
    <3> QED BY <3>2, RunStays
  <2> QED BY <2>1, <2>2
<1>4. CASE HandOn(d)
  BY <1>4, HandOnRests, RestsKeep DEF RunInv
<1> QED BY <1>2, <1>3, <1>4, DriverInsideOrOut

LEMMA ProcessRuns ==
  ASSUME TurnInv, Process, NEW r \in Runs, RunInv(r)
  PROVE  RunInv(r)'
<1> TypeOK
  BY DEF TurnInv
<1> USE DEF durable, store, loopData, turnData, drive, clients
<1>1. CASE Signal \/ Drain \/ StartRecovery \/ Serve
  <2>1. SameRun(r)
    BY <1>1 DEF Signal, Drain, StartRecovery, Serve, SameRun, SameDrivers, SameWork, SameClients
  <2> QED BY <2>1, RunStays
<1>2. CASE Crash \/ Exit
  BY <1>2, VanishKeepsRun DEF Crash, Exit
<1>3. ASSUME NEW q \in Runs, Requeue(q)
      PROVE  RunInv(r)'
  <2>1. CASE r = q
    BY <1>3, <2>1, RequeueKeeps
  <2>2. CASE r # q
    <3>1. \A g \in Generations : <<r, g>> \in Drivers /\ <<r, g>> # NextDriver(q)
      BY <2>2 DEF Drivers, NextDriver
    <3>2. SameRun(r)
      BY <1>3, <2>2, <3>1 DEF Requeue, JoinOrStart, Track, SameRun, SameDrivers, SameWork,
           SameClients, TypeOK
    <3> QED BY <3>2, RunStays
  <2> QED BY <2>1, <2>2
<1>4. ASSUME NEW q \in Runs, FailOrphanRow(q) \/ FailOrphanEvent(q)
      PROVE  RunInv(r)'
  <2>1. row'[r] \in {row[r], "failed"}
    BY <1>4 DEF FailOrphanRow, FailOrphanEvent, TypeOK
  <2>2. ClientMoves(r)
    BY <1>4, <2>1 DEF FailOrphanRow, FailOrphanEvent, ClientMoves, SameDrivers, SameWork, NoRow
  <2> QED BY <2>2, ClientMovesKeep
<1> QED BY <1>1, <1>2, <1>3, <1>4 DEF Process, Recovery

LEMMA DriveStep == TurnInv /\ DriveInv /\ [Next]_vars => DriveInv'
<1> SUFFICES ASSUME TurnInv, DriveInv, [Next]_vars, NEW r \in Runs
             PROVE  RunInv(r)'
  BY DEF DriveInv
<1>1. RunInv(r)
  BY DEF DriveInv
<1>2. CASE UNCHANGED vars
  <2>1. SameRun(r)
    BY <1>2 DEF vars, durable, turnData, drive, clients, SameRun, SameDrivers, SameWork, SameClients
  <2> QED BY <1>1, <2>1, RunStays
<1>3. CASE Next
  BY <1>1, <1>3, SenderRuns, InterrupterRuns, DeciderRuns, DriverRuns, ProcessRuns DEF Next
<1> QED BY <1>2, <1>3

LEMMA DriveInit == Init => DriveInv
<1> SUFFICES ASSUME Init, NEW r \in Runs PROVE RunInv(r)
  BY DEF DriveInv
<1>1. \A g \in Generations : at[<<r, g>>] = "none"
  BY DEF Init, Drivers
<1>2. \A g \in Generations : at[<<r, g>>] \notin Tracked /\ ~ Goes(r, g)
  BY <1>1 DEF Goes, Tracked, Underway, Driving, Writing
<1>3. /\ active[r] = NoDriver /\ born[r] = 0 /\ turns[r] = 0 /\ requested[r] = 0
      /\ interrupter[r] = "idle"
      /\ \A k \in Calls : ask[r][k] = NoAsk /\ ran[r][k] = 0 /\ decider[r][k] = "idle"
  BY DEF Init
<1>4. DriversAreTracked(r)
  BY <1>2, <1>3 DEF DriversAreTracked, NoDriver
<1>5. OneAnswerOpen(r)
  BY <1>2, <1>3 DEF OneAnswerOpen, PendingAsk, NoAsk, Open
<1>6. WaitersUnstarted(r)
  BY <1>1, <1>3 DEF WaitersUnstarted, Writing
<1>7. AimsAtOne(r) /\ RanIsKnown(r)
  BY <1>1, <1>3 DEF AimsAtOne, RanIsKnown
<1> QED BY <1>4, <1>5, <1>6, <1>7 DEF RunInv

\* Who drives a run, what it may be asked and what its tools have done, in every
\* reachable state.
THEOREM DriveInvariant == Spec => []DriveInv
<1>1. Init => DriveInv
  BY DriveInit
<1>2. TurnInv /\ DriveInv /\ [Next]_vars => DriveInv'
  BY DriveStep
<1> QED BY <1>1, <1>2, TurnInvariant, PTL DEF Spec

\* One goroutine drives a run, whatever answers, recoveries and interruptions race
\* (approval.go:183, resume: "only the first should start it moving again").
THEOREM OneDriverHolds == Spec => []OneDriverPerRun
<1>1. DriveInv => OneDriverPerRun
  BY DEF DriveInv, RunInv, DriversAreTracked, OneDriverPerRun, Tracked
<1> QED BY <1>1, DriveInvariant, PTL

\* A call reaches its tool once at most, and one somebody was asked about only after a
\* yes, however often the run is resumed and the process restarted (runtime.go:1437).
THEOREM ToolsHold == Spec => []ToolsRunOnceAndAllowed
<1>1. TurnInv /\ DriveInv => ToolsRunOnceAndAllowed
  BY RunTypes DEF TurnInv, DriveInv, RunInv, RanIsKnown, ToolsRunOnceAndAllowed
<1> QED BY <1>1, TurnInvariant, DriveInvariant, PTL

-----------------------------------------------------------------------------
(***************************************************************************)
(* Rows and what is told of them, when nobody interrupts a run.            *)
(***************************************************************************)
SendersOpen == {"created", "spoken", "lining", "recorded"}
Unended == Underway \cup {"prompt", "row", "lastrow"}
Ending == {"event", "lastevent"}

\* What the two action properties say of one run's step, and the invariant after it.
StandsAndTells(r) ==
  /\ RowIsCurrent(r)'
  /\ row[r] \in Terminal => row'[r] = row[r]
  /\ told'[r] # told[r] => told'[r] = row[r]

\* No driver of the run comes to a place that its row forbids.
Settles(r) ==
  \A g \in Generations :
    /\ at'[<<r, g>>] \in Unended => at[<<r, g>>] \in Unended \/ row[r] \notin Terminal
    /\ at'[<<r, g>>] \in Ending =>
         at'[<<r, g>>] = at[<<r, g>>] /\ writing'[<<r, g>>] = writing[<<r, g>>]

LEMMA RowKeeps ==
  ASSUME NEW r \in Runs, RowIsCurrent(r), Settles(r),
         row'[r] = row[r], interrupter'[r] = interrupter[r],
         sender'[r] \in SendersOpen => sender[r] \in SendersOpen,
         told'[r] = told[r] \/ told'[r] = row[r]
  PROVE  StandsAndTells(r)
  BY DEF RowIsCurrent, Settles, Unended, Ending, SendersOpen, StandsAndTells

LEMMA StillSettles ==
  ASSUME NEW r \in Runs, UNCHANGED <<at, writing>>
  PROVE  Settles(r)
  BY DEF Settles

LEMMA SenderRows ==
  ASSUME TurnInv, NEW q \in Runs, Sender(q), RowIsCurrent(q), NEW r \in Runs, RunInv(r),
         RowIsCurrent(r)
  PROVE  StandsAndTells(r)
<1> TypeOK
  BY DEF TurnInv
<1> USE DEF durable, store, loopData, turnData, drive, clients, process
<1>1. CASE SendTurnTo(q) \/ AddUserMessage(q) \/ SendFails(q)
  <2>1. /\ UNCHANGED <<row, told, at, writing, interrupter>>
        /\ \E place : sender' = [sender EXCEPT ![q] = place]
                      /\ (place \in SendersOpen => sender[q] \in SendersOpen)
    BY <1>1 DEF SendTurnTo, AddUserMessage, SendFails, SendersOpen
  <2>2. sender'[r] \in SendersOpen => sender[r] \in SendersOpen
    BY <2>1 DEF TypeOK
  <2> QED BY <2>1, <2>2, StillSettles, RowKeeps
<1>2. CASE CreateRun(q)
  <2>1. CASE r = q
    <3>1. row[r] = NoRow /\ row'[r] = "queued" /\ sender[r] \in Early
      BY <1>2, <2>1 DEF CreateRun, TurnInv, UnadmittedRunsUntouched, BeforeAdmit, Early, TypeOK
    <3>2. \A g \in Generations : at[<<r, g>>] \notin Ending
      BY <3>1 DEF RunInv, WaitersUnstarted, Ending
    <3>3. UNCHANGED <<told, at, writing, interrupter>>
      BY <1>2 DEF CreateRun
    <3> QED BY <3>1, <3>2, <3>3 DEF RowIsCurrent, StandsAndTells, Terminal, NoRow, Ending
  <2>2. CASE r # q
    <3>1. row'[r] = row[r] /\ sender'[r] = sender[r] /\ UNCHANGED <<told, at, writing, interrupter>>
      BY <1>2, <2>2 DEF CreateRun, TypeOK
    <3> QED BY <3>1, StillSettles, RowKeeps
  <2> QED BY <2>1, <2>2
<1>3. CASE Admit(q)
  <2>1. row[q] = "queued"
    BY <1>3 DEF Admit, RowIsCurrent
  <2>2. PICK place : at' = [at EXCEPT ![NextDriver(q)] = place] /\ place \in {"queued", "waiting"}
    BY <1>3, JoinPlaces DEF Admit
  <2>3. \A g \in Generations : <<r, g>> \in Drivers /\ (r # q => <<r, g>> # NextDriver(q))
    BY DEF Drivers, NextDriver
  <2>4. \A g \in Generations :
          at'[<<r, g>>] = at[<<r, g>>] \/ (r = q /\ at'[<<r, g>>] \in {"queued", "waiting"})
    BY <2>2, <2>3 DEF TypeOK
  <2>5. Settles(r)
    BY <1>3, <2>1, <2>4 DEF Admit, Settles, Terminal, Ending
  <2>6. sender'[r] \in SendersOpen => sender[r] \in SendersOpen
    BY <1>3 DEF Admit, SendersOpen, TypeOK
  <2> QED BY <1>3, <2>5, <2>6, RowKeeps DEF Admit
<1>4. CASE RecordWaiting(q)
  <2>1. row[q] = "queued"
    BY <1>4 DEF RecordWaiting, RowIsCurrent
  <2>2. row'[r] = row[r] /\ (sender'[r] \in SendersOpen => sender[r] \in SendersOpen)
    BY <1>4, <2>1 DEF RecordWaiting, SendersOpen, TypeOK
  <2> QED BY <1>4, <2>2, StillSettles, RowKeeps DEF RecordWaiting
<1>5. CASE AnnounceWaiting(q)
  <2>1. row[q] = "queued"
    BY <1>5 DEF AnnounceWaiting, RowIsCurrent
  <2>2. told'[r] \in {told[r], row[r]} /\ (sender'[r] \in SendersOpen => sender[r] \in SendersOpen)
    BY <1>5, <2>1 DEF AnnounceWaiting, SendersOpen, TypeOK
  <2> QED BY <1>5, <2>2, StillSettles, RowKeeps DEF AnnounceWaiting
<1>6. CASE WaitNotRecorded(q)
  <2>1. UNCHANGED <<row, told, writing, interrupter>>
    BY <1>6, Zenon DEF WaitNotRecorded
  <2>2. sender'[r] \in SendersOpen => sender[r] \in SendersOpen
    <3>1. sender' = [sender EXCEPT ![q] = "refused"] \/ sender' = [sender EXCEPT ![q] = "done"]
      BY <1>6, Zenon DEF WaitNotRecorded
    <3> QED BY <3>1 DEF SendersOpen, TypeOK
  <2>3. \A c \in Drivers : at'[c] \in {at[c], "none"}
    <3>1. CASE InLine(q)
      <4>1. LeaveLine(q)
        BY <1>6, <3>1, Zenon DEF WaitNotRecorded
      <4> QED BY <3>1, <4>1, LeaversQueue
    <3>2. CASE ~ InLine(q)
      BY <1>6, <3>2, Zenon DEF WaitNotRecorded
    <3> QED BY <3>1, <3>2
  <2>4. Settles(r)
    BY <2>1, <2>3 DEF Settles, Unended, Ending, Underway, Drivers
  <2> QED BY <2>1, <2>2, <2>4, RowKeeps
<1> QED BY <1>1, <1>2, <1>3, <1>4, <1>5, <1>6 DEF Sender

LEMMA DeciderRows ==
  ASSUME TurnInv, NEW q \in Runs, NEW k \in Calls, Decider(q, k), NEW r \in Runs, RowIsCurrent(r)
  PROVE  StandsAndTells(r)
<1> TypeOK
  BY DEF TurnInv
<1> USE DEF durable, store, loopData, turnData, drive, clients, process
<1>1. UNCHANGED <<row, told, sender, interrupter, writing>>
  BY DEF Decider, Decide, DeciderVanishes, CheckResume, Resume
<1>2. CASE Resume(q, k) /\ ~ (row[q] \in Terminal \/ HasPendingAsk(q))
  <2>1. row[q] \notin Terminal /\ at' = [at EXCEPT ![NextDriver(q)] = "loop"]
    BY <1>2 DEF Resume
  <2>2. \A g \in Generations : <<r, g>> \in Drivers /\ (r # q => <<r, g>> # NextDriver(q))
    BY DEF Drivers, NextDriver
  <2>3. \A g \in Generations : at'[<<r, g>>] = at[<<r, g>>] \/ (r = q /\ at'[<<r, g>>] = "loop")
    BY <2>1, <2>2 DEF TypeOK
  <2>4. Settles(r)
    BY <1>1, <2>1, <2>3 DEF Settles, Ending
  <2> QED BY <1>1, <2>4, RowKeeps
<1>3. CASE ~ (Resume(q, k) /\ ~ (row[q] \in Terminal \/ HasPendingAsk(q)))
  <2>1. at' = at
    BY <1>3 DEF Decider, Decide, DeciderVanishes, CheckResume, Resume
  <2> QED BY <1>1, <2>1, StillSettles, RowKeeps
<1> QED BY <1>2, <1>3

\* Nobody interrupts, so no request that does is under way.
LEMMA NobodyInterrupts ==
  ASSUME Interruptible = {}, NEW q \in Runs, RowIsCurrent(q), Interrupter(q)
  PROVE  FALSE
  BY DEF RowIsCurrent, Interrupter, InterruptRun, TakeOutOfLine, CancelDriver, WriteInterruptedRow,
     WriteInterruptedEvent, InterruptNotRecorded, ReleaseInterrupted

LEMMA DriverRows ==
  ASSUME TurnInv, NEW d \in Drivers, Driver(d), NEW r \in Runs, RunInv(r), RowIsCurrent(r)
  PROVE  StandsAndTells(r)
<1> TypeOK
  BY DEF TurnInv
<1>1. PICK q \in Runs, g \in Generations : d = <<q, g>>
  BY DEF Drivers
<1>2. RunOf(d) = q /\ \A h \in Generations : <<r, h>> \in Drivers /\ (<<r, h>> = d <=> r = q /\ h = g)
  BY <1>1 DEF RunOf, Drivers
<1>3. CASE Inside(d) /\ r # q
  <2>1. SameRun(r)
    BY <1>1, <1>3, InsideRests
  <2>2. told'[r] = told[r]
    BY <1>2, <1>3 DEF Inside, Begin, Stopped, SettleByRunning, SettleWithoutRunning, Ask, Park, Execute,
       RecordResult, NextTurn, Generate, GenerateFails, WriteRow, WriteEvent, WriteLastRow,
       WriteLastEvent, AtCall, outsideLoop, durable, store, TypeOK
  <2> QED BY <2>1, <2>2, RowKeeps DEF Settles, SameRun, SameDrivers, SameClients
<1>4. CASE Inside(d) /\ r = q
  <2>1. /\ at[d] \in Driving /\ at'[d] \in Driving /\ SameClients(r)
        /\ \A h \in Generations \ {g} : /\ at'[<<r, h>>] = at[<<r, h>>]
                                        /\ writing'[<<r, h>>] = writing[<<r, h>>]
                                        /\ at[<<r, h>>] \notin Unended \cup Ending
    <3>1. /\ at[d] \in Driving /\ at'[d] \in Driving /\ SameClients(r) /\ OthersRest(r, g)
      BY <1>1, <1>4, InsideRests
    <3>2. \A h \in Generations \ {g} : at[<<r, h>>] \notin Tracked
      BY <1>1, <1>4, <3>1, OneDrives DEF Tracked
    <3> QED BY <3>1, <3>2 DEF OthersRest, Tracked, Unended, Ending, Underway, Driving, Writing
  <2>2. /\ at[d] \in Unended => row[r] \notin Terminal
        /\ at[d] \in Ending => row[r] = writing[d]
    BY <1>1, <1>4 DEF RowIsCurrent, Unended, Ending
  <2>3. CASE WriteRow(d) \/ WriteLastRow(d)
    <3>1. \/ row'[r] = row[r] /\ at'[d] \in {"release", "lastrow"} /\ at[d] = "row"
          \/ row'[r] = writing'[d] /\ at'[d] \in Ending /\ at[d] \in {"row", "lastrow"}
      BY <1>2, <1>4, <2>3 DEF WriteRow, WriteLastRow, WriteFailed, WriteNext, Goto, Ending, TypeOK
    <3>2. told' = told
      BY <2>3 DEF WriteRow, WriteLastRow
    <3>3. at[d] \in {"row", "lastrow"} /\ row[r] \notin Terminal
      BY <2>2, <3>1 DEF Unended
    <3>4. CASE row'[r] = row[r] /\ at'[d] \in {"release", "lastrow"}
      <4>1. Settles(r)
        BY <1>1, <1>4, <2>1, <3>3, <3>4 DEF Settles, Unended, Ending, Underway
      <4> QED BY <2>1, <3>2, <3>4, <4>1, RowKeeps DEF SameClients
    <3>5. CASE row'[r] = writing'[d] /\ at'[d] \in Ending
      <4>1. sender'[r] = sender[r] /\ sender[r] \notin SendersOpen
        <5>1. at[<<r, g>>] \notin {"none", "queued", "waiting"}
          BY <1>1, <1>4, <3>3
        <5>2. sender[r] \notin Early
          BY <5>1 DEF RunInv, WaitersUnstarted
        <5> QED BY <2>1, <5>2 DEF SameClients, SendersOpen, Early, BeforeAdmit
      <4>2. interrupter'[r] = interrupter[r]
        BY <2>1 DEF SameClients
      <4>3. \A h \in Generations :
              /\ at'[<<r, h>>] \notin Unended
              /\ at'[<<r, h>>] \in Ending => row'[r] = writing'[<<r, h>>]
        BY <1>1, <1>4, <2>1, <3>5 DEF Unended, Ending, Underway
      <4> QED BY <3>2, <3>3, <4>1, <4>2, <4>3 DEF RowIsCurrent, StandsAndTells, Unended, Ending,
                 SendersOpen
    <3> QED BY <3>1, <3>4, <3>5
  <2>4. CASE WriteEvent(d) \/ WriteLastEvent(d)
    <3>1. row' = row /\ told'[r] \in {told[r], writing[d]} /\ at[d] \in Ending
      BY <1>2, <1>4, <2>4 DEF WriteEvent, WriteLastEvent, Ending, TypeOK
    <3>2. \/ at'[d] = "release"
          \/ at'[d] \in {"lastrow", "generate"} /\ writing[d] = "running"
      BY <1>2, <2>4 DEF WriteEvent, WriteLastEvent, WriteFailed, WriteNext, Goto, TypeOK
    <3>3. Settles(r)
      BY <1>1, <1>4, <2>1, <2>2, <3>1, <3>2 DEF Settles, Unended, Ending, Underway, Terminal
    <3> QED BY <2>1, <2>2, <3>1, <3>3, RowKeeps DEF SameClients
  <2>5. CASE ~ (WriteRow(d) \/ WriteLastRow(d) \/ WriteEvent(d) \/ WriteLastEvent(d))
    <3>1. UNCHANGED <<row, told>>
      BY <1>4, <2>5 DEF Inside, Begin, Stopped, SettleByRunning, SettleWithoutRunning, Ask, Park,
         Execute, RecordResult, NextTurn, Generate, GenerateFails, AtCall, outsideLoop, durable, store
    <3>2. at[d] \in Unended
      BY <1>4, <2>5 DEF Inside, Begin, Stopped, SettleByRunning, SettleWithoutRunning, Ask, Park,
         Execute, RecordResult, NextTurn, Generate, GenerateFails, AtCall, Unended, Underway
    <3>3. at'[d] \notin Ending
      BY <1>4, <2>5 DEF Inside, Begin, Stopped, SettleByRunning, SettleWithoutRunning, Ask, Park,
         Execute, RecordResult, NextTurn, Generate, GenerateFails, AtCall, Abandon, WriteNext, Goto,
         Ending, TypeOK
    <3>4. Settles(r)
      BY <1>1, <1>4, <2>1, <3>2, <3>3 DEF Settles
    <3> QED BY <2>1, <3>1, <3>4, RowKeeps DEF SameClients
  <2> QED BY <2>3, <2>4, <2>5
<1>5. CASE Release(d)
  <2>1. \A c \in Drivers : at'[c] = at[c] \/ at'[c] \in {"handon", "none"}
    BY <1>5 DEF Release, Goto, TypeOK
  <2>2. UNCHANGED <<row, told, writing, sender, interrupter>>
    BY <1>5 DEF Release, durable, clients
  <2>3. Settles(r)
    BY <1>2, <2>1, <2>2 DEF Settles, Unended, Ending, Underway
  <2> QED BY <2>2, <2>3, RowKeeps
<1>6. CASE HandOn(d)
  <2>1. Rests(r) /\ interrupter'[r] = interrupter[r]
    BY <1>6, HandOnRests
  <2>2. UNCHANGED <<row, told, sender>>
    BY <1>6 DEF HandOn, durable, clients
  <2>3. Settles(r)
    BY <2>1 DEF Rests, Settles, Unended, Ending, Underway
  <2> QED BY <2>1, <2>2, <2>3, RowKeeps
<1> QED BY <1>3, <1>4, <1>5, <1>6, DriverInsideOrOut

LEMMA ProcessRows ==
  ASSUME TurnInv, Process, NEW r \in Runs, RowIsCurrent(r)
  PROVE  StandsAndTells(r)
<1> TypeOK
  BY DEF TurnInv
<1> USE DEF durable, store, loopData, turnData, drive, clients
<1>1. CASE Signal \/ Drain \/ StartRecovery \/ Serve
  <2>1. UNCHANGED <<row, told, at, writing, sender, interrupter>>
    BY <1>1 DEF Signal, Drain, StartRecovery, Serve
  <2> QED BY <2>1, StillSettles, RowKeeps
<1>2. CASE Crash \/ Exit
  <2>1. UNCHANGED <<row, told>> /\ \A g \in Generations : at'[<<r, g>>] = "none"
    BY <1>2 DEF Crash, Exit, Vanish, Drivers
  <2>2. interrupter'[r] = "idle" /\ sender'[r] \notin SendersOpen
    BY <1>2 DEF Crash, Exit, Vanish, Gone, RowIsCurrent, SendersOpen
  <2>3. Settles(r)
    BY <2>1 DEF Settles, Unended, Ending, Underway
  <2> QED BY <2>1, <2>2, <2>3, RowKeeps DEF RowIsCurrent
<1>3. ASSUME NEW q \in Runs, Requeue(q)
      PROVE  StandsAndTells(r)
  <2>1. PICK place : at' = [at EXCEPT ![NextDriver(q)] = place] /\ place \in {"queued", "waiting"}
    BY <1>3, JoinPlaces DEF Requeue
  <2>2. \A g \in Generations : <<r, g>> \in Drivers /\ (r # q => <<r, g>> # NextDriver(q))
    BY DEF Drivers, NextDriver
  <2>3. \A g \in Generations :
          at'[<<r, g>>] = at[<<r, g>>] \/ (r = q /\ at'[<<r, g>>] \in {"queued", "waiting"})
    BY <2>1, <2>2 DEF TypeOK
  <2>4. row[q] = "queued" /\ UNCHANGED <<row, writing, sender, interrupter>>
    BY <1>3 DEF Requeue
  <2>5. told'[r] \in {told[r], row[r]}
    BY <1>3, <2>4 DEF Requeue, TypeOK
  <2>6. Settles(r)
    BY <2>3, <2>4 DEF Settles, Terminal, Ending
  <2> QED BY <2>4, <2>5, <2>6, RowKeeps
<1>4. ASSUME NEW q \in Runs, FailOrphanRow(q)
      PROVE  StandsAndTells(r)
  <2>1. UNCHANGED <<told, at, writing, sender, interrupter>> /\ row[q] = "running"
    BY <1>4 DEF FailOrphanRow
  <2>2. CASE r # q
    <3>1. row'[r] = row[r]
      BY <1>4, <2>2 DEF FailOrphanRow, TypeOK
    <3> QED BY <2>1, <3>1, StillSettles, RowKeeps
  <2>3. CASE r = q
    <3>1. born[r] = 0 /\ sender[r] \notin SendersOpen
      BY <1>4, <2>3 DEF FailOrphanRow, TurnInv, QuietUntilServing, SendersOpen
    <3>2. \A g \in Generations : at[<<r, g>>] = "none"
      <4>1. \A g \in Generations : <<r, g>> \in Drivers /\ RunOf(<<r, g>>) = r /\ GenOf(<<r, g>>) > 0
        BY DEF Drivers, RunOf, GenOf, Generations
      <4> QED BY <3>1, <4>1 DEF TurnInv, UnbornDriversRest
    <3> QED BY <2>1, <2>3, <3>1, <3>2 DEF RowIsCurrent, StandsAndTells, SendersOpen, Underway, Terminal
  <2> QED BY <2>2, <2>3
<1>5. ASSUME NEW q \in Runs, FailOrphanEvent(q)
      PROVE  StandsAndTells(r)
  <2>1. UNCHANGED <<row, at, writing, sender, interrupter>> /\ told'[r] \in {told[r], row[r]}
    BY <1>5 DEF FailOrphanEvent, TypeOK
  <2> QED BY <2>1, StillSettles, RowKeeps
<1> QED BY <1>1, <1>2, <1>3, <1>4, <1>5 DEF Process, Recovery

LEMMA RowStep ==
  ASSUME Interruptible = {}, TurnInv, DriveInv, RowInv, [Next]_vars
  PROVE  \A r \in Runs : StandsAndTells(r)
<1> SUFFICES ASSUME NEW r \in Runs PROVE StandsAndTells(r)
  OBVIOUS
<1>1. RunInv(r) /\ \A q \in Runs : RowIsCurrent(q)
  BY DEF DriveInv, RowInv
<1>2. CASE UNCHANGED vars
  <2>1. UNCHANGED <<row, told, at, writing, sender, interrupter>>
    BY <1>2 DEF vars, durable, drive, clients
  <2> QED BY <1>1, <2>1, StillSettles, RowKeeps
<1>3. CASE Next
  BY <1>1, <1>3, SenderRows, DeciderRows, NobodyInterrupts, DriverRows, ProcessRows DEF Next
<1> QED BY <1>2, <1>3

LEMMA RowInit == Init => RowInv
<1> SUFFICES ASSUME Init, NEW r \in Runs PROVE RowIsCurrent(r)
  BY DEF RowInv
<1>1. \A g \in Generations : at[<<r, g>>] = "none"
  BY DEF Init, Drivers
<1>2. interrupter[r] = "idle" /\ sender[r] = "idle"
  BY DEF Init
<1> QED BY <1>1, <1>2 DEF RowIsCurrent, Underway

LEMMA RowInvariant ==
  ASSUME Interruptible = {}
  PROVE  Spec => []RowInv
<1>1. Init => RowInv
  BY RowInit
<1>2. TurnInv /\ DriveInv /\ RowInv /\ [Next]_vars => RowInv'
  BY RowStep DEF RowInv, StandsAndTells
<1> QED BY <1>1, <1>2, TurnInvariant, DriveInvariant, PTL DEF Spec

\* Where nobody interrupts, a row that says how its run ended is not written again
\* (runtime.go:852, transition).
THEOREM EndingHolds ==
  ASSUME Interruptible = {}
  PROVE  Spec => EndingStands
<1>1. TurnInv /\ DriveInv /\ RowInv /\ [Next]_vars
        => [\A r \in Runs : row[r] \in Terminal => row'[r] = row[r]]_vars
  BY RowStep DEF StandsAndTells
<1> QED BY <1>1, RowInvariant, TurnInvariant, DriveInvariant, PTL DEF Spec, EndingStands

\* Where nobody interrupts, an event says what the row says already (runtime.go:849,
\* transition: a client that sees the event "must not find it still in the old state").
THEOREM RowHolds ==
  ASSUME Interruptible = {}
  PROVE  Spec => RowBeforeEvent
<1>1. TurnInv /\ DriveInv /\ RowInv /\ [Next]_vars
        => [\A r \in Runs : told'[r] # told[r] => told'[r] = row[r]]_vars
  BY RowStep DEF StandsAndTells
<1> QED BY <1>1, RowInvariant, TurnInvariant, DriveInvariant, PTL DEF Spec, RowBeforeEvent
=============================================================================
