---------------------------- MODULE EventStreams ----------------------------
(***************************************************************************)
(* The log of all sessions as it is followed live. Appending gives an      *)
(* event its place in its session and in the whole log                     *)
(* (storage/sqlite/events.go), publishing wakes whoever follows            *)
(* (event/hub.go), a stream replays what is kept after its client's        *)
(* cursor and then sleeps until it is woken (control/server.go), and the   *)
(* clients resume from where they got to (cli/console, cli/client), while  *)
(* sessions are pruned and the daemon may die.                             *)
(***************************************************************************)
EXTENDS EventLog, Sequences

CONSTANTS
  Sessions,
  Consoles,        \* clients that follow the whole log
  Followers,       \* clients attached to one session
  Follows,         \* the session each of those is attached to
  TailLength,      \* how much of the log a console draws when it attaches
  BatchSize,       \* eventBatchSize: rows a stream reads at a time
  KeepAfterFold,   \* Options.KeepAfterFold
  Window,          \* frames a client may be behind before sending to it blocks
  MaxWriters,      \* bound: goroutines that append to one session at a time
  MaxEvents,       \* bound: events ever appended
  MaxBreaks        \* bound: connections lost, and crashes

ASSUME StreamsAssumption ==
  /\ Consoles \cap Followers = {}
  /\ Follows \in [Followers -> Sessions]
  /\ TailLength \in Nat /\ BatchSize \in Nat \ {0} /\ KeepAfterFold \in Nat
  /\ Window \in Nat \ {0} /\ MaxWriters \in Nat \ {0}
  /\ MaxEvents \in Nat /\ MaxBreaks \in Nat

Watchers == Consoles \cup Followers

VARIABLES
  log,          \* the rows of each session, by position
  watermark,    \* log_watermark.pruned_through
  unpublished,  \* appends of a session whose Publish has not begun
  waking,       \* signals on their way to a subscription
  armed,        \* the subscriptions with a signal in their channel
  stage,        \* where the handler of each stream is
  cursor,       \* the handler's cursor
  floor,        \* the watermark it read before it sent its hello
  batch,        \* the rows it has read and not sent
  wire,         \* the frames sent and not received
  mark,         \* the cursor the client will resume from
  attached,     \* the consoles that have had their first hello
  history,      \* every event ever appended; the program keeps no such thing
  shown,        \* what each client was shown; no such thing either
  excused,      \* what each client knows it was not shown
  overtaken,    \* what was discarded ahead of each client's open stream
  breaks        \* connections lost and crashes so far

logVars == <<log, watermark, history>>
hubVars == <<unpublished, waking, armed>>
streamVars == <<stage, cursor, floor, batch, wire>>
clientVars == <<mark, attached, shown, excused>>
vars == <<logVars, hubVars, streamVars, clientVars, overtaken, breaks>>

Stages == {"away", "joined", "greeted", "reading", "drained", "asleep", "over"}

\* The positions of the rows there are: in the whole log, and for the stream of w,
\* which may be about one session.
AllKept == UNION {{log[s][q].global : q \in DOMAIN log[s]} : s \in Sessions}

Kept(w) ==
  IF w \in Consoles THEN AllKept
  ELSE DOMAIN log[Follows[w]]

\* What such a stream was about and is kept no more.
Gone(w) ==
  IF w \in Consoles THEN (DOMAIN history) \ Kept(w)
  ELSE {history[p].seq : p \in {n \in DOMAIN history : history[n].session = Follows[w]}} \ Kept(w)

Concerns(w, s) == w \in Consoles \/ Follows[w] = s
Subscribed == {w \in Watchers : stage[w] # "away"}

Row(kind, through, global) == [kind |-> kind, through |-> through, global |-> global]
Frame(kind, at) == [kind |-> kind, at |-> at]

Init ==
  /\ log = [s \in Sessions |-> EmptyLog] /\ watermark = 0 /\ history = <<>>
  /\ unpublished = [s \in Sessions |-> 0] /\ waking = [w \in Watchers |-> 0] /\ armed = {}
  /\ stage = [w \in Watchers |-> "away"] /\ cursor = [w \in Watchers |-> 0]
  /\ floor = [w \in Watchers |-> 0]
  /\ batch = [w \in Watchers |-> {}] /\ wire = [w \in Watchers |-> <<>>]
  /\ mark = [w \in Watchers |-> 0] /\ attached = {}
  /\ shown = [w \in Watchers |-> <<>>] /\ excused = [w \in Watchers |-> {}]
  /\ overtaken = [w \in Watchers |-> {}] /\ breaks = 0
------------------------------------------------------------------------------
NextGlobal_Count ==  \* mutant: COUNT for MAX
  1 + Cardinality(AllKept)

\* The last position of the whole log and the next, read back from the rows.
LogHead == Max({0} \cup AllKept)
NextGlobal == 1 + LogHead

\* Append allocates both positions under one write lock; Publish follows.
AppendEvent(s, kind, through) ==
  /\ Len(history) < MaxEvents /\ unpublished[s] < MaxWriters
  /\ history' = Append(history, [session |-> s, seq |-> NextSeq(log[s])])
  /\ log' = [log EXCEPT ![s] = Appended(@, Row(kind, through, NextGlobal))]
  /\ unpublished' = [unpublished EXCEPT ![s] = @ + 1]
  /\ UNCHANGED <<watermark, waking, armed, streamVars, clientVars, overtaken, breaks>>

AppendPlain(s) == AppendEvent(s, "plain", 0)

\* A fold covers what came before it; which part, the compaction decides.
AppendFold(s) == \E p \in DOMAIN log[s] : AppendEvent(s, "fold", p)

Highest_AfterDelete(rows, through) ==  \* mutant: read once the rows are gone
  Max({0} \cup {rows[q].global :
                  q \in {p \in DOMAIN Pruned(rows, through) : p <= through}})

\* The place in the whole log of the last row about to go.
Highest(rows, through) ==
  Max({0} \cup {rows[q].global : q \in {p \in DOMAIN rows : p <= through}})

\* A stream whose client will not be told of what is discarded from here on. The one
\* over the whole log is past telling as soon as its handler has read the watermark.
PastTelling(w) ==
  \/ stage[w] \in {"reading", "drained", "asleep"}
  \/ w \in Consoles /\ stage[w] = "greeted" /\ cursor[w] > 0 /\ cursor[w] >= floor[w]

\* PruneSession decides on a cut; PruneEvents takes the rows and raises the watermark
\* in one transaction.
Prune(s) ==
  /\ \E c \in SafeCuts(log[s], KeepAfterFold) :
       /\ log' = [log EXCEPT ![s] = Pruned(@, c)]
       /\ watermark' = Max({watermark, Highest(log[s], c)})
  /\ overtaken' = [w \in Watchers |->
       IF PastTelling(w)
         THEN overtaken[w] \cup {p \in (Kept(w) \ Kept(w)') \ batch[w] : p > cursor[w]}
         ELSE overtaken[w]]
  /\ UNCHANGED <<history, hubVars, streamVars, clientVars, breaks>>
------------------------------------------------------------------------------
Heard_SessionOnly(s) ==  \* mutant: those who follow everything are not told
  {w \in Followers : w \in Subscribed /\ Follows[w] = s}

\* Publish takes the list of subscriptions under the hub's lock ...
Heard(s) == {w \in Subscribed : Concerns(w, s)}

Publish(s) ==
  /\ unpublished[s] > 0
  /\ unpublished' = [unpublished EXCEPT ![s] = @ - 1]
  /\ waking' = [w \in Watchers |-> IF w \in Heard(s) THEN waking[w] + 1 ELSE waking[w]]
  /\ UNCHANGED <<logVars, armed, streamVars, clientVars, overtaken, breaks>>

Signal_Unbuffered(w) ==  \* mutant: a channel with no room, so only a sleeper hears
  /\ waking[w] > 0
  /\ waking' = [waking EXCEPT ![w] = @ - 1]
  /\ armed' = IF stage[w] = "asleep" THEN armed \cup {w} ELSE armed
  /\ UNCHANGED <<logVars, unpublished, streamVars, clientVars, overtaken, breaks>>

\* ... and signals each of them outside it. A signal to a channel that holds one
\* already is dropped.
Signal(w) ==
  /\ waking[w] > 0
  /\ waking' = [waking EXCEPT ![w] = @ - 1]
  /\ armed' = armed \cup {w}
  /\ UNCHANGED <<logVars, unpublished, streamVars, clientVars, overtaken, breaks>>
------------------------------------------------------------------------------
HubUnchanged == UNCHANGED <<unpublished, waking, armed>>

\* A client connects with its cursor; the handler subscribes, which arms it once.
Join(w) ==
  /\ stage[w] = "away"
  /\ stage' = [stage EXCEPT ![w] = "joined"]
  /\ cursor' = [cursor EXCEPT ![w] = mark[w]]
  /\ armed' = armed \cup {w}
  /\ UNCHANGED <<logVars, unpublished, waking, floor, batch, wire, clientVars, overtaken, breaks>>

\* Sending blocks when the client reads too slowly.
Send(w, frame) ==
  Len(wire[w]) < Window /\ wire' = [wire EXCEPT ![w] = Append(@, frame)]

\* The head of the log goes out in the hello; a session's stream makes nothing of it.
\* The stream over the whole log has read the watermark before, and keeps it. Nothing
\* is on the wire yet, so reading and sending are as good as one step.
Greet(w) ==
  /\ stage[w] = "joined"
  /\ stage' = [stage EXCEPT ![w] = "greeted"]
  /\ floor' = IF w \in Consoles THEN [floor EXCEPT ![w] = watermark] ELSE floor
  /\ Send(w, Frame("hello", LogHead))
  /\ UNCHANGED <<logVars, hubVars, cursor, batch, clientVars, overtaken, breaks>>

Oldest(s) == IF DOMAIN log[s] = {} THEN 0 ELSE Min(DOMAIN log[s])

\* Whether a client resumes from before what is kept: what was kept when the watermark
\* was read, of the whole log, and what is kept now, of one session.
Behind(w) ==
  IF w \in Consoles THEN cursor[w] > 0 /\ cursor[w] < floor[w]
  ELSE cursor[w] > 0 /\ Oldest(Follows[w]) > 0 /\ cursor[w] < Oldest(Follows[w]) - 1

OldestTold(w) == IF w \in Consoles THEN floor[w] + 1 ELSE Oldest(Follows[w])

\* The stream of a client that resumes from before what is kept says so and ends.
Resync(w) ==
  /\ stage[w] = "greeted" /\ Behind(w)
  /\ stage' = [stage EXCEPT ![w] = "over"]
  /\ Send(w, Frame("resync", OldestTold(w)))
  /\ UNCHANGED <<logVars, hubVars, cursor, floor, batch, clientVars, overtaken, breaks>>

\* Resuming from zero asks for whatever is left.
Resume(w) ==
  /\ stage[w] = "greeted" /\ ~Behind(w)
  /\ stage' = [stage EXCEPT ![w] = "reading"]
  /\ excused' = [excused EXCEPT ![w] = IF cursor[w] = 0 THEN @ \cup Gone(w) ELSE @]
  /\ UNCHANGED <<logVars, hubVars, cursor, floor, batch, wire, mark, attached, shown, overtaken,
                 breaks>>

\* What ListAfter and ListAllAfter find.
Unread(w) == {p \in Kept(w) : p > cursor[w]}

ReadBatch(w) ==
  /\ stage[w] = "reading" /\ batch[w] = {} /\ Unread(w) # {}
  /\ batch' = [batch EXCEPT ![w] =
                 {p \in Unread(w) : Cardinality({q \in Unread(w) : q <= p}) <= BatchSize}]
  /\ UNCHANGED <<logVars, hubVars, stage, cursor, floor, wire, clientVars, overtaken, breaks>>

SendNext(w) ==
  /\ batch[w] # {}
  /\ Send(w, Frame("event", Min(batch[w])))
  /\ cursor' = [cursor EXCEPT ![w] = Min(batch[w])]
  /\ batch' = [batch EXCEPT ![w] = @ \ {Min(@)}]
  /\ UNCHANGED <<logVars, hubVars, stage, floor, clientVars, overtaken, breaks>>

\* A read that finds nothing ends the drain; what is appended from here on is for
\* the hub to tell.
Rest(w) ==
  /\ stage[w] = "reading" /\ batch[w] = {} /\ Unread(w) = {}
  /\ stage' = [stage EXCEPT ![w] = "drained"]
  /\ UNCHANGED <<logVars, hubVars, cursor, floor, batch, wire, clientVars, overtaken, breaks>>

\* The select. Its heartbeat changes nothing.
Wait(w) ==
  /\ stage[w] = "drained"
  /\ stage' = [stage EXCEPT ![w] = "asleep"]
  /\ UNCHANGED <<logVars, hubVars, cursor, floor, batch, wire, clientVars, overtaken, breaks>>

Wake(w) ==
  /\ stage[w] = "asleep" /\ w \in armed
  /\ stage' = [stage EXCEPT ![w] = "reading"]
  /\ armed' = armed \ {w}
  /\ UNCHANGED <<logVars, unpublished, waking, cursor, floor, batch, wire, clientVars, overtaken,
                 breaks>>

Stream(w) ==
  Greet(w) \/ Resync(w) \/ Resume(w) \/ ReadBatch(w) \/ SendNext(w) \/ Rest(w) \/ Wait(w)
  \/ Wake(w)
------------------------------------------------------------------------------
AttachFrom(head) == Max({0, head - TailLength})

\* A console learns where the log ends from its first hello, and starts near it.
HearHello(w, head) ==
  /\ IF w \in Consoles \ attached
     THEN /\ mark' = [mark EXCEPT ![w] = AttachFrom(head)]
          /\ excused' = [excused EXCEPT ![w] = @ \cup 1 .. AttachFrom(head)]
          /\ attached' = attached \cup {w}
     ELSE UNCHANGED <<mark, excused, attached>>
  /\ UNCHANGED shown

\* A console leaves out what lies before the place it started from.
HearEvent(w, at) ==
  /\ IF w \in Consoles /\ at <= mark[w]
     THEN UNCHANGED <<mark, shown>>
     ELSE /\ mark' = [mark EXCEPT ![w] = at]
          /\ shown' = [shown EXCEPT ![w] = Append(@, at)]
  /\ UNCHANGED <<excused, attached>>

\* A console says so and goes on from what is kept; the attach command prints
\* nothing and ends.
HearResync(w, oldest) ==
  /\ IF w \in Consoles
     THEN /\ mark' = [mark EXCEPT ![w] = oldest - 1]
          /\ excused' = [excused EXCEPT ![w] = @ \cup 1 .. oldest - 1]
     ELSE UNCHANGED <<mark, excused>>
  /\ UNCHANGED <<shown, attached>>

Receive(w) ==
  /\ wire[w] # <<>>
  /\ wire' = [wire EXCEPT ![w] = Tail(@)]
  /\ LET frame == Head(wire[w]) IN
       \/ frame.kind = "hello" /\ HearHello(w, frame.at)
       \/ frame.kind = "event" /\ HearEvent(w, frame.at)
       \/ frame.kind = "resync" /\ HearResync(w, frame.at)
  /\ UNCHANGED <<logVars, hubVars, stage, cursor, floor, batch, overtaken, breaks>>

Dropped_StillHeard(W) ==  \* mutant: the subscription is not closed
  /\ stage' = [w \in Watchers |-> IF w \in W THEN "away" ELSE stage[w]]
  /\ floor' = [w \in Watchers |-> IF w \in W THEN 0 ELSE floor[w]]
  /\ batch' = [w \in Watchers |-> IF w \in W THEN {} ELSE batch[w]]
  /\ wire' = [w \in Watchers |-> IF w \in W THEN <<>> ELSE wire[w]]
  /\ armed' = armed \ W
  /\ UNCHANGED <<logVars, waking, cursor, clientVars, overtaken>>

\* A stream is gone: its subscription is closed and what was under way is lost.
Dropped(W) ==
  /\ stage' = [w \in Watchers |-> IF w \in W THEN "away" ELSE stage[w]]
  /\ floor' = [w \in Watchers |-> IF w \in W THEN 0 ELSE floor[w]]
  /\ batch' = [w \in Watchers |-> IF w \in W THEN {} ELSE batch[w]]
  /\ wire' = [w \in Watchers |-> IF w \in W THEN <<>> ELSE wire[w]]
  /\ armed' = armed \ W
  /\ waking' = [w \in Watchers |-> IF w \in W THEN 0 ELSE waking[w]]
  /\ UNCHANGED <<logVars, cursor, clientVars, overtaken>>

\* The handler has returned and its client has read all it sent.
End(w) ==
  /\ stage[w] = "over" /\ wire[w] = <<>>
  /\ Dropped({w})
  /\ UNCHANGED <<unpublished, breaks>>

\* The connection breaks, or the client detaches.
Break(w) ==
  /\ w \in Subscribed /\ breaks < MaxBreaks
  /\ Dropped({w})
  /\ breaks' = breaks + 1
  /\ UNCHANGED <<unpublished>>

\* The daemon dies and is started again: the log is what is left.
Crash ==
  /\ breaks < MaxBreaks
  /\ Dropped(Watchers)
  /\ unpublished' = [s \in Sessions |-> 0]
  /\ breaks' = breaks + 1

Next ==
  \/ \E s \in Sessions :
       AppendPlain(s) \/ AppendFold(s) \/ Prune(s) \/ Publish(s)
  \/ \E w \in Watchers :
       Signal(w) \/ Join(w) \/ Stream(w) \/ Receive(w) \/ End(w) \/ Break(w)
  \/ Crash

Spec == Init /\ [][Next]_vars

\* A goroutine that can go on does, and a console whose stream ended connects again.
Fairness ==
  /\ \A s \in Sessions : WF_vars(Publish(s))
  /\ \A w \in Watchers :
       WF_vars(Signal(w)) /\ WF_vars(Stream(w)) /\ WF_vars(Receive(w)) /\ WF_vars(End(w))
  /\ \A w \in Consoles : WF_vars(Join(w))

FairSpec == Spec /\ Fairness
------------------------------------------------------------------------------
TypeOK ==
  /\ \A s \in Sessions : \A q \in DOMAIN log[s] :
       q \in Nat \ {0} /\ log[s][q].kind \in {"plain", "fold"} /\ log[s][q].global \in Nat \ {0}
  /\ DOMAIN log = Sessions /\ watermark \in Nat
  /\ history \in Seq([session : Sessions, seq : Nat \ {0}])
  /\ unpublished \in [Sessions -> Nat] /\ waking \in [Watchers -> Nat]
  /\ armed \subseteq Subscribed /\ attached \subseteq Consoles
  /\ stage \in [Watchers -> Stages] /\ cursor \in [Watchers -> Nat]
  /\ floor \in [Watchers -> Nat] /\ overtaken \in [Watchers -> SUBSET Nat]
  /\ batch \in [Watchers -> SUBSET Nat]
  /\ wire \in [Watchers -> Seq([kind : {"hello", "event", "resync"}, at : Nat])]
  /\ mark \in [Watchers -> Nat] /\ shown \in [Watchers -> Seq(Nat)]
  /\ excused \in [Watchers -> SUBSET Nat] /\ breaks \in 0 .. MaxBreaks

\* Every row still stands at the two positions its append gave it, so no position is
\* ever used twice and the whole log keeps the order of each session, however much
\* was pruned before the next append (events.go:45-48, Append).
RowsStand ==
  \A s \in Sessions : \A q \in DOMAIN log[s] :
    /\ log[s][q].global \in DOMAIN history
    /\ history[log[s][q].global] = [session |-> s, seq |-> q]
    /\ \A p \in DOMAIN log[s] : p < q => log[s][p].global < log[s][q].global

\* A stream that sleeps with something left to read has a signal waiting, or one is
\* on its way, or the append that it is about has yet to be published
\* (server.go:395-396, hub.go:77-79).
NoWakeupLost ==
  \A w \in Watchers :
    stage[w] \in {"drained", "asleep"} /\ Unread(w) # {} =>
      w \in armed \/ waking[w] > 0 \/ \E s \in Sessions : Concerns(w, s) /\ unpublished[s] > 0

\* What a client was told of, and what came too late to tell.
Unshown(w) == excused[w] \cup overtaken[w]

MissesNothing(w) ==
  \A p \in 1 .. mark[w] : p \in Unshown(w) \/ \E i \in DOMAIN shown[w] : shown[w][i] = p

\* A console was shown everything up to its cursor, or was told that it was not,
\* across every loss of its stream and of the daemon. The exception is what a prune
\* discarded ahead of its stream when it was too late to tell: once the watermark it
\* resumes by was read (server.go:501, 526), it is read past (server.go:549).
ConsolesMissNothing == \A w \in Consoles : MissesNothing(w)

\* The same of a client attached to one session (server.go:411-415, using-it.md:111).
FollowersMissNothing == \A w \in Followers : MissesNothing(w)

\* Whatever is appended, every console gets to it or past it.
CatchesUp ==
  \A w \in Consoles : \A p \in 1 .. MaxEvents :
    Len(history) >= p ~> mark[w] >= p
=============================================================================
