------------------------------ MODULE Ingress ------------------------------
(***************************************************************************)
(* How a chat message becomes a run. A message is delivered, perhaps more  *)
(* than once and at the same time as others of its conversation; it is     *)
(* given the conversation's session, claimed, and sent as a turn           *)
(* (gateway/ingress.go, storage/sqlite/gateway.go), which a run takes or   *)
(* waits for (runtime/runtime.go); and its sender may take it back while   *)
(* its run waits (gateway/withdraw.go). Requests and writes fail at any    *)
(* point and the daemon may die.                                           *)
(***************************************************************************)
EXTENDS Integers

CONSTANTS
  Messages,      \* what people write, permitted by the channel's binding
  Threads,       \* the conversations
  ThreadOf,      \* the conversation of each message
  Deliveries,    \* the times each message is delivered: <<message, number>>
  Presses,       \* the times a sender asks for a message back: <<message, number>>
  NoSession,
  MaxCrashes     \* bound: how often the daemon dies

ASSUME IngressAssumption ==
  /\ ThreadOf \in [Messages -> Threads]
  /\ Deliveries \subseteq Messages \X (Nat \ {0}) /\ NoSession \notin Deliveries
  /\ Presses \subseteq Messages \X (Nat \ {0})
  /\ MaxCrashes \in Nat

VARIABLES
  link,         \* gateway_conversations: the session of each conversation
  claims,       \* gateway_inbound: the session each message taken went to
  status,       \* the row of the run a delivery started
  place,        \* where that run is in memory: in line, with the turn, or stopped
  handler,      \* where Accept is with a delivery
  session,      \* the session it has found or made
  press,        \* where Withdraw is with a press, or what it answered
  unrecorded,   \* the runs taken back that the store has down as waiting
  toldIn,       \* the life of the daemon a press was answered in; nothing keeps these two
  crashes

requestVars == <<link, claims, handler, session>>
pressVars == <<press, unrecorded, toldIn>>
vars == <<requestVars, status, place, pressVars, crashes>>

MessageOf(d) == d[1]
Thread(d) == ThreadOf[MessageOf(d)]

Handling == {"lookup", "create", "link", "claim", "send", "admit", "wait"}
Answered == {"accepted", "duplicate", "failed"}
Ended == {"completed", "cancelled", "failed"}

Init ==
  /\ link = [t \in Threads |-> NoSession] /\ claims = [m \in Messages |-> NoSession]
  /\ status = [d \in Deliveries |-> "none"]
  /\ place = [d \in Deliveries |-> "none"]
  /\ handler = [d \in Deliveries |-> "away"] /\ session = [d \in Deliveries |-> NoSession]
  /\ press = [p \in Presses |-> "away"] /\ toldIn = [p \in Presses |-> 0]
  /\ unrecorded = {} /\ crashes = 0
------------------------------------------------------------------------------
RunsUnchanged == UNCHANGED <<status, place, pressVars, crashes>>

Goto(d, there) == handler' = [handler EXCEPT ![d] = there]

\* A platform delivers a message, and again when the adapter that took it is new.
Arrive(d) ==
  /\ handler[d] = "away"
  /\ \A e \in Deliveries : MessageOf(e) = MessageOf(d) /\ e[2] < d[2] => handler[e] # "away"
  /\ Goto(d, "lookup")
  /\ UNCHANGED <<link, claims, session>> /\ RunsUnchanged

Lookup_MakesNone(d) ==  \* mutant: a conversation seen for the first time gets no session
  /\ handler[d] = "lookup"
  /\ session' = [session EXCEPT ![d] = link[Thread(d)]]
  /\ Goto(d, "claim")
  /\ UNCHANGED <<link, claims>> /\ RunsUnchanged

\* sessionFor: the session of the conversation ...
Lookup(d) ==
  /\ handler[d] = "lookup"
  /\ session' = [session EXCEPT ![d] = link[Thread(d)]]
  /\ Goto(d, IF link[Thread(d)] = NoSession THEN "create" ELSE "claim")
  /\ UNCHANGED <<link, claims>> /\ RunsUnchanged

\* ... or one of its own, named here for the delivery that made it ...
Create(d) ==
  /\ handler[d] = "create"
  /\ session' = [session EXCEPT ![d] = d]
  /\ Goto(d, "link")
  /\ UNCHANGED <<link, claims>> /\ RunsUnchanged

Link_Overwrites(d) ==  \* mutant: an upsert in place of an insert
  /\ handler[d] = "link"
  /\ link' = [link EXCEPT ![Thread(d)] = session[d]] /\ UNCHANGED session
  /\ Goto(d, "claim")
  /\ UNCHANGED claims /\ RunsUnchanged

\* ... unless another delivery linked one first: its session is the one to use.
Link(d) ==
  /\ handler[d] = "link"
  /\ IF link[Thread(d)] = NoSession
     THEN link' = [link EXCEPT ![Thread(d)] = session[d]] /\ UNCHANGED session
     ELSE session' = [session EXCEPT ![d] = link[Thread(d)]] /\ UNCHANGED link
  /\ Goto(d, "claim")
  /\ UNCHANGED claims /\ RunsUnchanged

Claim_NotFirst(d) ==  \* mutant: a claim made already is taken for a fresh one
  /\ handler[d] = "claim"
  /\ claims' = [claims EXCEPT ![MessageOf(d)] = IF @ = NoSession THEN session[d] ELSE @]
  /\ Goto(d, "send")
  /\ UNCHANGED <<link, session>> /\ RunsUnchanged

\* ClaimInbound, before the run is started.
Claim(d) ==
  /\ handler[d] = "claim"
  /\ IF claims[MessageOf(d)] = NoSession
     THEN claims' = [claims EXCEPT ![MessageOf(d)] = session[d]] /\ Goto(d, "send")
     ELSE Goto(d, "duplicate") /\ UNCHANGED claims
  /\ UNCHANGED <<link, session>> /\ RunsUnchanged

SetStatus(d, new) == status' = [status EXCEPT ![d] = new]
SetPlace(d, new) == place' = [place EXCEPT ![d] = new]

\* SendTurnTo: the run has a row, then the message is added to the log ...
CreateRun(d) ==
  /\ handler[d] = "send"
  /\ SetStatus(d, "queued")
  /\ Goto(d, "admit")
  /\ UNCHANGED <<link, claims, session, place, pressVars, crashes>>

HasTurn(d) == place[d] \in {"turn", "stopped"}
TurnFree(s) == \A d \in Deliveries : HasTurn(d) => session[d] # s

\* ... and the run takes the conversation's turn, or gets in line for it ...
Admit(d) ==
  /\ handler[d] = "admit"
  /\ IF TurnFree(session[d])
     THEN SetPlace(d, "turn") /\ Goto(d, "accepted")
     ELSE SetPlace(d, "line") /\ Goto(d, "wait")
  /\ UNCHANGED <<link, claims, session, status, pressVars, crashes>>

\* ... and has its wait recorded, over whatever the row says by then.
RecordWait(d) ==
  /\ handler[d] = "wait"
  /\ SetStatus(d, "queued")
  /\ unrecorded' = IF status[d] = "cancelled" THEN unrecorded \cup {d} ELSE unrecorded
  /\ Goto(d, "accepted")
  /\ UNCHANGED <<link, claims, session, place, press, toldIn, crashes>>

\* A run whose wait cannot be recorded leaves the line, if it is still there.
WaitNotRecorded(d) ==
  /\ handler[d] = "wait"
  /\ IF place[d] = "line" THEN SetPlace(d, "none") ELSE UNCHANGED place
  /\ Goto(d, "failed")
  /\ UNCHANGED <<link, claims, session, status, pressVars, crashes>>

\* A step fails, or the caller goes away; the claim and the row, if they were made, stand.
GiveUp(d) ==
  /\ handler[d] \in Handling \ {"wait"}
  /\ Goto(d, "failed")
  /\ UNCHANGED <<link, claims, session>> /\ RunsUnchanged

Accept(d) ==
  \/ Lookup(d) \/ Create(d) \/ Link(d) \/ Claim(d) \/ CreateRun(d) \/ Admit(d)
  \/ RecordWait(d) \/ WaitNotRecorded(d) \/ GiveUp(d)
------------------------------------------------------------------------------
\* A run with the turn begins once its wait is on record.
Begin(d) ==
  /\ place[d] = "turn" /\ handler[d] # "wait" /\ status[d] = "queued"
  /\ SetStatus(d, "running")
  /\ UNCHANGED <<requestVars, place, pressVars, crashes>>

Line(s) == {d \in Deliveries : place[d] = "line" /\ session[d] = s}

\* Whoever is next in line has the turn. Which of them that is, TurnTaking tells.
PassTurn(d) ==
  IF Line(session[d]) = {} THEN SetPlace(d, "none")
  ELSE \E e \in Line(session[d]) : place' = [place EXCEPT ![d] = "none", ![e] = "turn"]

\* A run comes to an end, which may not be recorded; one that was stopped, to no answer.
\* A run that parks gives up the turn like one whose end is not recorded.
Finish(d) ==
  /\ HasTurn(d) /\ handler[d] # "wait"
  /\ \E end \in Ended \cup {status[d]} :
       (place[d] = "stopped" => end # "completed") /\ SetStatus(d, end)
  /\ PassTurn(d)
  /\ UNCHANGED <<requestVars, pressVars, crashes>>
------------------------------------------------------------------------------
Answer(p, word) ==
  /\ press' = [press EXCEPT ![p] = word]
  /\ toldIn' = IF word = "withdrawn" THEN [toldIn EXCEPT ![p] = crashes] ELSE toldIn

About(p, d) == p[1] = MessageOf(d)

\* Withdraw finds the session by the claim, and in it the run of the message while
\* that waits.
PickRun(p, d) ==
  /\ press[p] = "away" /\ About(p, d)
  /\ session[d] = claims[MessageOf(d)] /\ status[d] = "queued"
  /\ Answer(p, "picked")
  /\ UNCHANGED <<requestVars, status, place, unrecorded, crashes>>

\* InterruptRun reads the row once more. One that was cancelled counts as taken back,
\* whoever cancelled it.
Reread(p, d) ==
  /\ press[p] = "picked" /\ About(p, d)
  /\ Answer(p, IF status[d] \notin Ended THEN "found"
               ELSE IF status[d] = "cancelled" THEN "withdrawn" ELSE "nothing")
  /\ UNCHANGED <<requestVars, status, place, unrecorded, crashes>>

Dequeue_StillInLine(p, d) ==  \* mutant: cancelled, and left for its turn to find out
  /\ press[p] = "found" /\ About(p, d) /\ status[d] # "none"
  /\ Answer(p, IF place[d] = "line" THEN "dequeued" ELSE "nothing")
  /\ IF place[d] = "turn" THEN SetPlace(d, "stopped") ELSE UNCHANGED place
  /\ UNCHANGED <<requestVars, status, unrecorded, crashes>>

\* A run in line is taken out of it. One whose turn has come is stopped, one the daemon
\* does not drive is left alone, and neither counts as taken back.
Dequeue(p, d) ==
  /\ press[p] = "found" /\ About(p, d) /\ status[d] # "none"
  /\ Answer(p, IF place[d] = "line" THEN "dequeued" ELSE "nothing")
  /\ CASE place[d] = "line" -> SetPlace(d, "none")
       [] place[d] = "turn" -> SetPlace(d, "stopped")
       [] OTHER -> UNCHANGED place
  /\ UNCHANGED <<requestVars, status, unrecorded, crashes>>

\* Its cancellation is recorded, or is not: the sender is told the same.
RecordCancelled(p, d) ==
  /\ press[p] = "dequeued" /\ About(p, d) /\ status[d] # "none"
  /\ \/ SetStatus(d, "cancelled") /\ UNCHANGED unrecorded
     \/ unrecorded' = unrecorded \cup {d} /\ UNCHANGED status
  /\ Answer(p, "withdrawn")
  /\ UNCHANGED <<requestVars, place, crashes>>

Withdraw(p, d) == PickRun(p, d) \/ Reread(p, d) \/ Dequeue(p, d) \/ RecordCancelled(p, d)

\* The daemon dies: requests are cut short, and so is what memory knew. The next one
\* fails the runs it finds begun and lines up those the store has down as waiting.
DaemonDies ==
  /\ crashes < MaxCrashes /\ crashes' = crashes + 1
  /\ handler' = [d \in Deliveries |-> IF handler[d] \in Handling THEN "failed" ELSE handler[d]]
  /\ status' = [d \in Deliveries |-> IF status[d] = "running" THEN "failed" ELSE status[d]]
  /\ LET waiting == {d \in Deliveries : status[d] = "queued"} IN
       \E first \in SUBSET waiting :
         /\ \A d \in waiting : \E e \in first : session[e] = session[d]
         /\ \A d, e \in first : session[d] = session[e] => d = e
         /\ place' = [d \in Deliveries |->
              IF d \in first THEN "turn" ELSE IF d \in waiting THEN "line" ELSE "none"]
  /\ press' = [p \in Presses |->
                 IF press[p] \in {"picked", "found", "dequeued"} THEN "nothing" ELSE press[p]]
  /\ UNCHANGED <<link, claims, session, unrecorded, toldIn>>

Next ==
  \/ \E d \in Deliveries :
       Arrive(d) \/ Accept(d) \/ Begin(d) \/ Finish(d) \/ \E p \in Presses : Withdraw(p, d)
  \/ DaemonDies

Spec == Init /\ [][Next]_vars
------------------------------------------------------------------------------
TypeOK ==
  /\ link \in [Threads -> Deliveries \cup {NoSession}]
  /\ claims \in [Messages -> Deliveries \cup {NoSession}]
  /\ status \in [Deliveries -> {"none", "queued", "running"} \cup Ended]
  /\ handler \in [Deliveries -> {"away"} \cup Handling \cup Answered]
  /\ session \in [Deliveries -> Deliveries \cup {NoSession}]
  /\ \A d \in Deliveries :
       handler[d] \in {"link", "claim", "send", "admit", "wait", "accepted", "duplicate"} =>
         session[d] # NoSession
  /\ place \in [Deliveries -> {"none", "line", "turn", "stopped"}]
  /\ press \in [Presses -> {"away", "picked", "found", "dequeued", "withdrawn", "nothing"}]
  /\ unrecorded \subseteq Deliveries
  /\ toldIn \in [Presses -> 0 .. crashes] /\ crashes \in 0 .. MaxCrashes

Runs == {d \in Deliveries : status[d] # "none"}

\* However often a message is delivered, and whatever fails between its claim and its
\* run, at most one run is started for it (ingress.go:156-158, Accept).
OneRunPerMessage ==
  \A d, e \in Runs : MessageOf(d) = MessageOf(e) => d = e

\* Messages of one conversation that arrive at once end up in one history, which is the
\* one later messages will find, and the one a message is looked for in to be taken back
\* (ingress.go:244-246, sessionFor; withdraw.go:48, Withdraw).
OneHistoryPerThread ==
  \A d \in Runs :
    session[d] = link[Thread(d)] /\ claims[MessageOf(d)] = link[Thread(d)]

\* Whoever is told that their message was taken back gets no answer from then on: its run
\* is out of the line for as long as that daemon lives, even while the request that put
\* it there still has its wait to record (runtime.go:570, admit), and its row says so, for
\* a restart puts it back in line only if its cancellation could not be recorded or was
\* written over (runtime.go:816-826, 909-914; withdraw.go:75, Withdraw).
TakenBackIsOver ==
  \A p \in Presses : \A d \in Runs :
    press[p] = "withdrawn" /\ About(p, d) =>
      /\ status[d] = "cancelled" \/ d \in unrecorded
      /\ place[d] # "none" => d \in unrecorded /\ toldIn[p] < crashes
=============================================================================
