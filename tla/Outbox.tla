------------------------------- MODULE Outbox -------------------------------
(***************************************************************************)
(* What the runs of a chat channel say, on its way to the channel. The     *)
(* projector puts it in an outbox (gateway/projector.go,                   *)
(* storage/sqlite/gateway.go); the daemon streams what is not delivered    *)
(* (control/gateway.go); the gateway process posts it to the channel       *)
(* (cli/gateway, adapter/discord) and acknowledges it; while the daemon,   *)
(* the gateway and the connection between them are lost, and posts,        *)
(* edits and acknowledgements fail.                                        *)
(***************************************************************************)
EXTENDS Integers, Sequences, FiniteSets, FiniteSetsExt

CONSTANTS
  Runs,          \* the runs of one gateway account
  Growing,       \* those whose answer is shown while it is written
  Window,        \* dispatches the gateway may be behind before a send blocks
  MaxRefusals,   \* bound: posts, edits and acknowledgements that fail
  MaxBreaks      \* bound: connections lost and processes that die

ASSUME OutboxAssumption ==
  /\ Growing \subseteq Runs
  /\ Window \in Nat \ {0} /\ MaxRefusals \in Nat /\ MaxBreaks \in Nat

VARIABLES
  status,       \* the row of each run
  unsaid,       \* what it has recorded and the projector has not been told
  outbox,       \* gateway_dispatches, by position
  delivered,    \* those of them with delivered_at set
  stream,       \* whether SubscribeDispatches is running
  cursor,       \* how far it has got
  wire,         \* what a stream has sent and the gateway has not received
  hand,         \* the dispatch the gateway is posting, and how far it is
  live,         \* answerMessages: which message an unfinished answer is in
  shown,        \* what the channel shows of each run, in order
  posted,       \* the dispatches ever shown; the program keeps no such thing
  passedOver,   \* those it went on from unsettled, since the stream it reads began
  leftOpen,     \* those it ever went on from unsettled; nor these two
  refusals, breaks

runVars == <<status, unsaid>>
outboxVars == <<outbox, delivered>>
streamVars == <<stream, cursor, wire, passedOver>>
channelVars == <<hand, live, shown, posted, leftOpen>>
vars == <<runVars, outboxVars, streamVars, channelVars, refusals, breaks>>

Nothing == "nothing"
Kinds == {"draft", "answer", "ended"}
Dispatch(r, kind) == [run |-> r, kind |-> kind]
Idle == [dispatch |-> 0, step |-> "idle"]

Init ==
  /\ status = [r \in Runs |-> "queued"] /\ unsaid = [r \in Runs |-> Nothing]
  /\ outbox = <<>> /\ delivered = {}
  /\ stream = "off" /\ cursor = 0 /\ wire = <<>> /\ passedOver = {}
  /\ hand = Idle /\ live = [r \in Runs |-> 0]
  /\ shown = [r \in Runs |-> <<>>] /\ posted = {} /\ leftOpen = {}
  /\ refusals = 0 /\ breaks = 0
------------------------------------------------------------------------------
RunOnly == UNCHANGED <<outboxVars, streamVars, channelVars, refusals, breaks>>

Begin(r) ==
  /\ status[r] = "queued" /\ status' = [status EXCEPT ![r] = "running"]
  /\ UNCHANGED unsaid /\ RunOnly

Said(r) == {outbox[i].kind : i \in {j \in DOMAIN outbox : outbox[j].run = r}}

\* A run records a version of its answer while that grows, the answer, and its end, one
\* after the other: it goes on once the projector has been told.
Say(r, kind) ==
  /\ status[r] = "running" /\ unsaid[r] = Nothing
  /\ \/ kind = "draft" /\ r \in Growing /\ Said(r) = {}
     \/ kind = "answer" /\ "answer" \notin Said(r)
     \/ kind = "ended"
  /\ unsaid' = [unsaid EXCEPT ![r] = kind]
  /\ status' = [status EXCEPT ![r] = IF kind = "ended" THEN "ended" ELSE @]
  /\ RunOnly

\* Observe puts it in the outbox, at the next position of the account.
Observe(r) ==
  /\ unsaid[r] # Nothing
  /\ outbox' = Append(outbox, Dispatch(r, unsaid[r]))
  /\ unsaid' = [unsaid EXCEPT ![r] = Nothing]
  /\ UNCHANGED <<status, delivered, streamVars, channelVars, refusals, breaks>>
------------------------------------------------------------------------------
StreamOnly ==
  UNCHANGED <<runVars, outboxVars, channelVars, breaks>>

Connect_FromNow ==  \* mutant: a new stream begins with what comes next
  /\ stream = "off" /\ wire = <<>> /\ hand = Idle
  /\ stream' = "on" /\ cursor' = Len(outbox) /\ passedOver' = {}
  /\ UNCHANGED <<wire, refusals>> /\ StreamOnly

\* The gateway connects, always from zero, once it is through with what came of the
\* stream before.
Connect ==
  /\ stream = "off" /\ wire = <<>> /\ hand = Idle
  /\ stream' = "on" /\ cursor' = 0 /\ passedOver' = {}
  /\ UNCHANGED <<wire, refusals>> /\ StreamOnly

Due_Settled ==  \* mutant: the cursor follows what was settled, whatever was left out
  {i \in DOMAIN outbox : i > cursor /\ i > Max({0} \cup delivered)}

\* DispatchesAfter: what is not delivered, beyond the cursor.
Due == {i \in DOMAIN outbox : i > cursor /\ i \notin delivered}

Offer_Newest ==  \* mutant: the rows of a pass come in descending order
  /\ stream = "on" /\ Due # {} /\ Len(wire) < Window
  /\ wire' = Append(wire, Max(Due)) /\ cursor' = Max(Due)
  /\ UNCHANGED <<stream, passedOver, refusals>> /\ StreamOnly

\* One pass of SubscribeDispatches sends what is due in order; the cursor advances on
\* send, not on acknowledgement.
Offer ==
  /\ stream = "on" /\ Due # {} /\ Len(wire) < Window
  /\ wire' = Append(wire, Min(Due)) /\ cursor' = Min(Due)
  /\ UNCHANGED <<stream, passedOver, refusals>> /\ StreamOnly

Receive_Settles ==  \* mutant: settled when it is received, before it is posted
  /\ hand = Idle /\ wire # <<>>
  /\ hand' = [dispatch |-> Head(wire), step |-> "post"] /\ wire' = Tail(wire)
  /\ delivered' = delivered \cup {Head(wire)}
  /\ UNCHANGED <<runVars, outbox, stream, cursor,
                 passedOver, live, shown, posted, leftOpen, refusals, breaks>>

Receive ==
  /\ hand = Idle /\ wire # <<>>
  /\ hand' = [dispatch |-> Head(wire), step |-> "post"] /\ wire' = Tail(wire)
  /\ UNCHANGED <<runVars, outboxVars, stream, cursor,
                 passedOver, live, shown, posted, leftOpen, refusals, breaks>>

InHand == outbox[hand.dispatch]

\* A version of an answer goes where the one before it is shown, if this gateway has
\* shown one and the channel lets it be edited; everything else is a new message.
Show(r, kind, editable) ==
  LET inPlace == kind # "ended" /\ live[r] # 0 /\ editable IN
  /\ shown' = [shown EXCEPT ![r] =
                 IF inPlace THEN [@ EXCEPT ![live[r]] = kind] ELSE Append(@, kind)]
  /\ live' = [live EXCEPT ![r] =
                CASE kind = "draft" /\ ~inPlace -> Len(shown[r]) + 1
                  [] kind = "answer" -> 0
                  [] OTHER -> @]

Post ==
  /\ hand.step = "post"
  /\ hand' = [hand EXCEPT !.step = "settle"]
  /\ posted' = posted \cup {hand.dispatch}
  /\ \/ Show(InHand.run, InHand.kind, TRUE) /\ UNCHANGED refusals
     \/ /\ refusals < MaxRefusals /\ refusals' = refusals + 1
        /\ Show(InHand.run, InHand.kind, FALSE)
  /\ UNCHANGED <<runVars, outboxVars, streamVars, leftOpen, breaks>>

\* The gateway goes on with the next dispatch, and the one in hand stays unsettled.
LetGo ==
  /\ hand' = Idle
  /\ passedOver' = passedOver \cup {hand.dispatch}
  /\ leftOpen' = leftOpen \cup {hand.dispatch}

PassOver ==
  /\ refusals < MaxRefusals /\ refusals' = refusals + 1 /\ LetGo
  /\ UNCHANGED <<runVars, outboxVars, stream, cursor, wire, shown, posted, breaks>>

\* The platform refuses the post. The message an answer was growing in is forgotten.
Refuse ==
  /\ hand.step = "post" /\ PassOver
  /\ live' = [live EXCEPT ![InHand.run] = IF InHand.kind = "ended" THEN @ ELSE 0]

\* The acknowledgement does not get through.
LoseAcknowledgement == hand.step = "settle" /\ PassOver /\ UNCHANGED live

Settle_ForgetsFirst ==  \* mutant: the dispatch is let go before it is named
  /\ hand.step = "settle"
  /\ hand' = Idle
  /\ delivered' = delivered \cup {hand'.dispatch}
  /\ UNCHANGED <<runVars, outbox, streamVars, live, shown, posted, leftOpen,
                 refusals, breaks>>

\* AcknowledgeDispatch and MarkDelivered. A second acknowledgement is refused and
\* changes nothing.
Settle ==
  /\ hand.step = "settle"
  /\ delivered' = delivered \cup {hand.dispatch}
  /\ hand' = Idle
  /\ UNCHANGED <<runVars, outbox, streamVars, live, shown, posted, leftOpen,
                 refusals, breaks>>

Relay == Connect \/ Offer \/ Receive \/ Post \/ Settle
------------------------------------------------------------------------------
Fault == breaks < MaxBreaks /\ breaks' = breaks + 1

Disconnected == stream' = "off" /\ cursor' = 0

\* The gateway still receives of a lost stream what has arrived, keeps what it has in
\* hand, and acknowledges it to whichever daemon there is; an acknowledgement on its way
\* may be lost as well.
GatewayGoesOn ==
  /\ \E n \in 0 .. Len(wire) : wire' = SubSeq(wire, 1, n)
  /\ UNCHANGED <<hand, passedOver, leftOpen>> \/ (hand.step = "settle" /\ LetGo)

\* The connection is lost.
Break ==
  /\ stream = "on" /\ Fault /\ Disconnected /\ GatewayGoesOn
  /\ UNCHANGED <<runVars, outboxVars, live, shown, posted, refusals>>

\* The gateway process dies, and forgets which message an answer was growing in.
GatewayDies ==
  /\ Fault /\ Disconnected /\ wire' = <<>>
  /\ hand' = Idle /\ live' = [r \in Runs |-> 0]
  /\ UNCHANGED <<runVars, outboxVars, passedOver, shown, posted, leftOpen, refusals>>

\* The daemon dies: what a run recorded and the projector was not told never comes to
\* the outbox. The next one fails the runs that were being answered, and says so.
DaemonDies ==
  /\ Fault /\ Disconnected /\ GatewayGoesOn
  /\ status' = [r \in Runs |-> IF status[r] = "running" THEN "ended" ELSE status[r]]
  /\ unsaid' = [r \in Runs |-> IF status[r] = "running" THEN "ended" ELSE Nothing]
  /\ UNCHANGED <<outboxVars, live, shown, posted, refusals>>

Next ==
  \/ \E r \in Runs : Begin(r) \/ (\E kind \in Kinds : Say(r, kind)) \/ Observe(r)
  \/ Relay \/ Refuse \/ LoseAcknowledgement
  \/ Break \/ GatewayDies \/ DaemonDies

Spec == Init /\ [][Next]_vars

\* The projector, the poll loop and the gateway's loop go on when they can, and the
\* gateway connects again.
Fairness == (\A r \in Runs : WF_vars(Observe(r))) /\ WF_vars(Relay)

FairSpec == Spec /\ Fairness
------------------------------------------------------------------------------
TypeOK ==
  /\ status \in [Runs -> {"queued", "running", "ended"}]
  /\ unsaid \in [Runs -> Kinds \cup {Nothing}]
  /\ outbox \in Seq([run : Runs, kind : Kinds])
  /\ delivered \subseteq DOMAIN outbox /\ posted \subseteq DOMAIN outbox
  /\ passedOver \subseteq DOMAIN outbox /\ leftOpen \subseteq DOMAIN outbox
  /\ stream \in {"off", "on"} /\ cursor \in 0 .. Len(outbox) /\ wire \in Seq(DOMAIN outbox)
  /\ hand.step \in {"idle", "post", "settle"}
  /\ hand.step # "idle" => hand.dispatch \in DOMAIN outbox
  /\ \A r \in Runs : live[r] \in 0 .. Len(shown[r])
  /\ refusals \in 0 .. MaxRefusals /\ breaks \in 0 .. MaxBreaks

\* What the outbox counts as delivered was on the channel, whatever fails on the way
\* there or back (cli/gateway/main.go:421-422, post).
SettledWasShown == delivered \subseteq posted

\* Nothing a stream has gone past is forgotten: it is delivered, on its way, in hand, or
\* the gateway passed over it (control/gateway.go:228-231, SubscribeDispatches).
NothingIsSkipped ==
  stream = "on" =>
    \A i \in 1 .. cursor :
      \/ i \in delivered \cup passedOver \/ i = hand.dispatch
      \/ \E k \in DOMAIN wire : wire[k] = i

Closed(r) ==
  \A k \in DOMAIN shown[r] : shown[r][k] = "draft" =>
    \E l \in DOMAIN shown[r] : l > k /\ shown[r][l] = "answer"

\* Once the answer of a run is delivered, no earlier version of it stands after it,
\* whoever was restarted, whatever was lost, and wherever an edit was refused; unless the
\* gateway went on from that version unsettled, and so was offered it again
\* (adapter/discord/post.go, finishAsMessages).
AnswerStandsLast ==
  \A i \in delivered : outbox[i].kind = "answer" =>
    \/ \E d \in leftOpen : outbox[d] = Dispatch(outbox[i].run, "draft")
    \/ Closed(outbox[i].run)

\* Everything in the outbox is delivered in the end and stays so, or was passed over
\* on the stream that is still open.
DispatchesArrive ==
  \A i \in 1 .. 3 * Cardinality(Runs) :
    Len(outbox) >= i ~> [](i \in delivered \cup passedOver)
=============================================================================
