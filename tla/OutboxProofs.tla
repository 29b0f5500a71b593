---------------------------- MODULE OutboxProofs ----------------------------
(***************************************************************************)
(* Proofs about Outbox, for any runs, window, failures and deaths. That    *)
(* nothing is settled unseen follows from what the gateway has in hand;    *)
(* that nothing is skipped and that the answer stands last need the order  *)
(* in which dispatches travel, which the invariant carries from the outbox *)
(* over the stream and the hand to the channel.                            *)
(***************************************************************************)
EXTENDS Outbox, WellFoundedInduction, SequenceTheorems, TLAPS

\* What TypeOK leaves open of the hand and the channel.
ChannelTyped ==
  /\ hand \in [dispatch : Nat, step : {"idle", "post", "settle"}]
  /\ hand.step = "idle" => hand.dispatch = 0
  /\ shown \in [Runs -> Seq(Kinds)] /\ live \in [Runs -> Nat]

\* What is on its way is not delivered, comes after what is in hand and in order.
InOrder ==
  /\ \A k \in DOMAIN wire :
       wire[k] > hand.dispatch /\ wire[k] \notin delivered
  /\ \A k, l \in DOMAIN wire : k < l => wire[k] < wire[l]
  /\ hand.step # "idle" => hand.dispatch \notin delivered
  /\ stream = "on" => hand.dispatch <= cursor /\ \A k \in DOMAIN wire : wire[k] <= cursor

ShownBeforeSettled ==
  /\ hand.step = "settle" => hand.dispatch \in posted
  /\ SettledWasShown

\* What is posted, about to be or on its way comes after all before it were delivered or
\* left open; of a stream that is lost as well, whose frames are still received.
OneAfterTheOther ==
  /\ passedOver \subseteq leftOpen
  /\ hand.step # "idle" =>
       \A j \in Nat \ {0} : j < hand.dispatch => j \in delivered \cup leftOpen
  /\ \A i \in posted : \A j \in Nat \ {0} : j < i => j \in delivered \cup leftOpen
  /\ \A k \in DOMAIN wire : \A j \in Nat \ {0} : j < wire[k] =>
       \/ j \in delivered \cup leftOpen \/ j = hand.dispatch
       \/ \E l \in DOMAIN wire : wire[l] = j

\* A run says nothing before the version of its answer that grows.
DraftsComeFirst ==
  /\ \A r \in Runs : unsaid[r] = "draft" => \A i \in DOMAIN outbox : outbox[i].run # r
  /\ \A i, j \in DOMAIN outbox :
       outbox[i].run = outbox[j].run /\ outbox[i].kind = "answer" /\ outbox[j].kind = "draft" =>
         j < i

\* The growing answer of r was left unsettled, and may be offered again.
DraftLeftOpen(r) == \E d \in leftOpen : outbox[d] = Dispatch(r, "draft")

\* An answer is edited into the last draft, and once posted it stands last.
AnswersClose ==
  /\ \A r \in Runs : live[r] # 0 =>
       \A k \in DOMAIN shown[r] : shown[r][k] = "draft" => k <= live[r]
  /\ \A i \in posted : outbox[i].kind = "answer" =>
       DraftLeftOpen(outbox[i].run) \/ Closed(outbox[i].run)

Typed == TypeOK /\ ChannelTyped
Ordered == InOrder /\ NothingIsSkipped /\ ShownBeforeSettled /\ OneAfterTheOther
OutboxInv == Typed /\ Ordered /\ DraftsComeFirst /\ AnswersClose
------------------------------------------------------------------------------
LEMMA BoundTypes == Window \in Nat \ {0} /\ MaxRefusals \in Nat /\ MaxBreaks \in Nat
BY OutboxAssumption DEF OutboxAssumption

LEMMA MinIsLeast ==
  ASSUME NEW S \in SUBSET Nat, S # {}
  PROVE  Min(S) \in S /\ \A y \in S : Min(S) <= y
<1> DEFINE R == {p \in Nat \X Nat : p[1] < p[2]}
<1>1. IsWellFoundedOn(R, Nat)
  BY NatLessThanWellFounded DEF OpToRel
<1>2. PICK x \in S : \A y \in S : ~ (<<y, x>> \in R)
  <2> HIDE DEF R
  <2> QED BY <1>1, WFMin
<1>3. \A y \in S : x <= y
  <2> SUFFICES ASSUME NEW y \in S, y < x PROVE FALSE
    OBVIOUS
  <2>1. <<y, x>> \in R
    OBVIOUS
  <2> QED BY <1>2, <2>1
<1> QED BY <1>3 DEF Min

LEMMA OutboxTypes ==
  ASSUME Typed
  PROVE  /\ Len(outbox) \in Nat /\ DOMAIN outbox = 1 .. Len(outbox)
         /\ \A i \in DOMAIN outbox : /\ outbox[i] \in [run : Runs, kind : Kinds]
                                    /\ outbox[i].run \in Runs /\ outbox[i].kind \in Kinds
         /\ Len(wire) \in Nat /\ DOMAIN wire = 1 .. Len(wire)
         /\ \A k \in DOMAIN wire : wire[k] \in DOMAIN outbox
         /\ cursor \in Nat /\ cursor <= Len(outbox) /\ refusals \in Nat /\ breaks \in Nat
         /\ hand.dispatch \in Nat /\ hand.step \in {"idle", "post", "settle"}
         /\ hand = [dispatch |-> hand.dispatch, step |-> hand.step]
<1>1. outbox \in Seq([run : Runs, kind : Kinds]) /\ wire \in Seq(DOMAIN outbox)
  BY DEF Typed, TypeOK
<1>2. Len(outbox) \in Nat /\ DOMAIN outbox = 1 .. Len(outbox)
  BY <1>1, LenProperties
<1>3. \A i \in 1 .. Len(outbox) : outbox[i] \in [run : Runs, kind : Kinds]
  BY <1>1, ElementOfSeq
<1>4. Len(wire) \in Nat /\ DOMAIN wire = 1 .. Len(wire)
  BY <1>1, LenProperties
<1>5. \A k \in 1 .. Len(wire) : wire[k] \in DOMAIN outbox
  BY <1>1, ElementOfSeq
<1>6. cursor \in Nat /\ cursor <= Len(outbox) /\ refusals \in Nat /\ breaks \in Nat
  BY <1>2, BoundTypes DEF Typed, TypeOK
<1>7. /\ hand.dispatch \in Nat /\ hand.step \in {"idle", "post", "settle"}
      /\ hand = [dispatch |-> hand.dispatch, step |-> hand.step]
  BY DEF Typed, ChannelTyped
<1> QED BY <1>2, <1>3, <1>4, <1>5, <1>6, <1>7

LEMMA ShownTypes ==
  ASSUME Typed, NEW r \in Runs
  PROVE  /\ shown[r] \in Seq(Kinds) /\ Len(shown[r]) \in Nat
         /\ DOMAIN shown[r] = 1 .. Len(shown[r])
         /\ live[r] \in Nat /\ live[r] <= Len(shown[r])
<1>1. shown[r] \in Seq(Kinds) /\ live[r] \in Nat
  BY DEF Typed, ChannelTyped
<1>2. Len(shown[r]) \in Nat /\ DOMAIN shown[r] = 1 .. Len(shown[r])
  BY <1>1, LenProperties
<1> QED BY <1>1, <1>2 DEF Typed, TypeOK

LEMMA InitHolds == Init => OutboxInv
<1> SUFFICES ASSUME Init PROVE OutboxInv
  OBVIOUS
<1>1. TypeOK
  <2>1. outbox \in Seq([run : Runs, kind : Kinds]) /\ wire \in Seq(DOMAIN outbox)
    BY EmptySeq DEF Init
  <2>2. DOMAIN outbox = {} /\ Len(outbox) = 0
    BY DEF Init
  <2>3. \A r \in Runs : live[r] \in 0 .. Len(shown[r])
    BY DEF Init
  <2> QED BY <2>1, <2>2, <2>3, BoundTypes DEF Init, TypeOK, Kinds, Nothing, Idle
<1>2. ChannelTyped
  <2>1. <<>> \in Seq(Kinds)
    BY EmptySeq
  <2> QED BY <2>1 DEF Init, ChannelTyped, Idle
<1>3. Ordered
  BY DEF Init, Ordered, InOrder, NothingIsSkipped, ShownBeforeSettled, SettledWasShown,
       OneAfterTheOther, Idle
<1>4. DraftsComeFirst /\ AnswersClose
  BY DEF Init, DraftsComeFirst, AnswersClose, Nothing
<1> QED BY <1>1, <1>2, <1>3, <1>4 DEF OutboxInv, Typed
------------------------------------------------------------------------------
(* The runs and the projector.                                              *)

LEMMA RunKeeps ==
  ASSUME OutboxInv, NEW r \in Runs, Begin(r) \/ \E kind \in Kinds : Say(r, kind)
  PROVE  OutboxInv'
<1>1. /\ outbox' = outbox /\ delivered' = delivered /\ stream' = stream /\ cursor' = cursor
      /\ wire' = wire /\ passedOver' = passedOver /\ hand' = hand /\ live' = live
      /\ shown' = shown /\ posted' = posted /\ refusals' = refusals /\ breaks' = breaks
      /\ leftOpen' = leftOpen
  BY DEF Begin, Say, RunOnly, outboxVars, streamVars, channelVars
<1>2. /\ status' \in [Runs -> {"queued", "running", "ended"}]
      /\ unsaid' \in [Runs -> Kinds \cup {Nothing}]
  BY DEF OutboxInv, Typed, TypeOK, Begin, Say
<1>3. Typed'
  BY <1>1, <1>2 DEF OutboxInv, Typed, TypeOK, ChannelTyped
<1>4. Ordered'
  BY <1>1 DEF OutboxInv, Ordered, InOrder, NothingIsSkipped, ShownBeforeSettled, SettledWasShown,
       OneAfterTheOther
<1>5. DraftsComeFirst'
  <2>1. \A s \in Runs : unsaid'[s] = "draft" => \A i \in DOMAIN outbox : outbox[i].run # s
    <3>1. CASE Begin(r)
      BY <3>1 DEF OutboxInv, DraftsComeFirst, Begin
    <3>2. CASE \E kind \in Kinds : Say(r, kind)
      <4>1. PICK kind \in Kinds : Say(r, kind)
        BY <3>2
      <4>2. kind = "draft" => \A i \in DOMAIN outbox : outbox[i].run # r
        BY <4>1 DEF Say, Said
      <4>3. unsaid' = [unsaid EXCEPT ![r] = kind]
        BY <4>1 DEF Say
      <4> QED BY <4>2, <4>3 DEF OutboxInv, Typed, TypeOK, DraftsComeFirst
    <3> QED BY <3>1, <3>2
  <2> QED BY <1>1, <2>1 DEF OutboxInv, DraftsComeFirst
<1>6. AnswersClose'
  BY <1>1 DEF OutboxInv, AnswersClose, Closed, DraftLeftOpen
<1> QED BY <1>3, <1>4, <1>5, <1>6 DEF OutboxInv

LEMMA ObserveKeeps ==
  ASSUME OutboxInv, NEW r \in Runs, Observe(r)
  PROVE  OutboxInv'
<1> DEFINE new == Dispatch(r, unsaid[r])
<1> Typed
  BY DEF OutboxInv
<1>1. /\ status' = status /\ delivered' = delivered /\ stream' = stream /\ cursor' = cursor
      /\ wire' = wire /\ passedOver' = passedOver /\ hand' = hand /\ live' = live
      /\ shown' = shown /\ posted' = posted /\ refusals' = refusals /\ breaks' = breaks
      /\ outbox' = Append(outbox, new) /\ unsaid' = [unsaid EXCEPT ![r] = Nothing]
      /\ leftOpen' = leftOpen
  BY DEF Observe, streamVars, channelVars
<1>2. new \in [run : Runs, kind : Kinds] /\ new.run = r /\ new.kind = unsaid[r]
  BY DEF Typed, TypeOK, Observe, Dispatch
<1>3. /\ outbox' \in Seq([run : Runs, kind : Kinds]) /\ Len(outbox') = Len(outbox) + 1
      /\ \A i \in 1 .. Len(outbox) : outbox'[i] = outbox[i]
      /\ outbox'[Len(outbox) + 1] = new
  <2> HIDE DEF new
  <2> QED BY <1>1, <1>2, AppendProperties DEF Typed, TypeOK
<1>4. /\ Len(outbox) \in Nat /\ DOMAIN outbox = 1 .. Len(outbox)
      /\ DOMAIN outbox' = 1 .. (Len(outbox) + 1)
  BY <1>3, OutboxTypes, LenProperties
<1> HIDE DEF new
<1>5. Typed'
  <2>1. wire' \in Seq(DOMAIN outbox')
    <3>1. wire \in [1 .. Len(wire) -> DOMAIN outbox'] /\ Len(wire) \in Nat
      BY <1>4, LenProperties, OutboxTypes DEF Typed, TypeOK
    <3> QED BY <1>1, <3>1, SeqDef
  <2>2. /\ delivered' \subseteq DOMAIN outbox' /\ posted' \subseteq DOMAIN outbox'
        /\ passedOver' \subseteq DOMAIN outbox' /\ cursor' \in 0 .. Len(outbox')
        /\ leftOpen' \subseteq DOMAIN outbox'
    BY <1>1, <1>3, <1>4 DEF Typed, TypeOK
  <2>3. hand'.step # "idle" => hand'.dispatch \in DOMAIN outbox'
    BY <1>1, <1>4 DEF Typed, TypeOK
  <2>4. /\ unsaid' \in [Runs -> Kinds \cup {Nothing}]
        /\ status' \in [Runs -> {"queued", "running", "ended"}]
    BY <1>1 DEF Typed, TypeOK
  <2> QED BY <1>1, <1>3, <2>1, <2>2, <2>3, <2>4 DEF Typed, TypeOK, ChannelTyped
<1>6. Ordered'
  BY <1>1 DEF OutboxInv, Ordered, InOrder, NothingIsSkipped, ShownBeforeSettled, SettledWasShown,
       OneAfterTheOther
<1>7. DraftsComeFirst'
  <2>1. \A s \in Runs : unsaid'[s] = "draft" => \A i \in DOMAIN outbox' : outbox'[i].run # s
    <3> SUFFICES ASSUME NEW s \in Runs, unsaid'[s] = "draft", NEW i \in DOMAIN outbox'
                 PROVE  outbox'[i].run # s
      OBVIOUS
    <3>1. s # r /\ unsaid[s] = "draft"
      BY <1>1 DEF Typed, TypeOK, Nothing
    <3>2. \A k \in DOMAIN outbox : outbox[k].run # s
      BY <3>1 DEF OutboxInv, DraftsComeFirst
    <3> QED BY <1>2, <1>3, <1>4, <3>1, <3>2
  <2>2. ASSUME NEW i \in DOMAIN outbox', NEW j \in DOMAIN outbox', outbox'[i].run = outbox'[j].run,
               outbox'[i].kind = "answer", outbox'[j].kind = "draft"
        PROVE  j < i
    <3>1. CASE i \in DOMAIN outbox /\ j \in DOMAIN outbox
      BY <1>3, <1>4, <2>2, <3>1 DEF OutboxInv, DraftsComeFirst
    <3>2. CASE j = Len(outbox) + 1
      <4>1. unsaid[r] = "draft" /\ outbox'[i].run = r
        BY <1>2, <1>3, <2>2, <3>2
      <4>2. i # j
        BY <2>2
      <4>3. i \in DOMAIN outbox /\ outbox[i].run = r
        BY <1>3, <1>4, <3>2, <4>1, <4>2
      <4> QED BY <4>1, <4>3 DEF OutboxInv, DraftsComeFirst
    <3>3. CASE i = Len(outbox) + 1 /\ j \in DOMAIN outbox
      BY <1>4, <3>3
    <3> QED BY <1>4, <3>1, <3>2, <3>3
  <2> QED BY <2>1, <2>2 DEF DraftsComeFirst
<1>8. AnswersClose'
  <2>1. /\ posted \subseteq DOMAIN outbox /\ leftOpen \subseteq DOMAIN outbox
        /\ \A i \in DOMAIN outbox : outbox'[i] = outbox[i]
    BY <1>3, <1>4 DEF Typed, TypeOK
  <2>3. ASSUME NEW i \in posted', outbox'[i].kind = "answer"
        PROVE  DraftLeftOpen(outbox[i].run)' \/ Closed(outbox[i].run)'
    <3>1. outbox'[i] = outbox[i] /\ i \in posted
      BY <1>1, <2>1
    <3>2. DraftLeftOpen(outbox[i].run) \/ Closed(outbox[i].run)
      BY <2>3, <3>1 DEF OutboxInv, AnswersClose
    <3>3. DraftLeftOpen(outbox[i].run) => DraftLeftOpen(outbox[i].run)'
      BY <1>1, <2>1, <3>1 DEF DraftLeftOpen, Dispatch
    <3>4. Closed(outbox[i].run) => Closed(outbox[i].run)'
      BY <1>1, <3>1 DEF Closed
    <3> QED BY <3>2, <3>3, <3>4
  <2>4. \A s \in Runs : live'[s] # 0 =>
          \A k \in DOMAIN shown'[s] : shown'[s][k] = "draft" => k <= live'[s]
    BY <1>1 DEF OutboxInv, AnswersClose
  <2> QED BY <2>3, <2>4 DEF AnswersClose
<1> QED BY <1>5, <1>6, <1>7, <1>8 DEF OutboxInv
------------------------------------------------------------------------------
(* The stream.                                                              *)

\* A step of the stream and the gateway that shows nothing.
LEMMA UnseenKeeps ==
  ASSUME OutboxInv, outbox' = outbox, unsaid' = unsaid, posted' = posted, shown' = shown,
         leftOpen \subseteq leftOpen',
         \A r \in Runs : live'[r] = live[r] \/ live'[r] = 0
  PROVE  DraftsComeFirst' /\ AnswersClose'
<1>2. AnswersClose'
  BY DEF OutboxInv, AnswersClose, Closed, DraftLeftOpen
<1>3. DraftsComeFirst'
  BY DEF OutboxInv, DraftsComeFirst
<1> QED BY <1>2, <1>3

LEMMA ConnectKeeps ==
  ASSUME OutboxInv, Connect
  PROVE  OutboxInv'
<1> Typed
  BY DEF OutboxInv
<1>1. /\ status' = status /\ unsaid' = unsaid /\ outbox' = outbox /\ delivered' = delivered
      /\ wire' = wire /\ hand' = hand /\ live' = live /\ shown' = shown /\ posted' = posted
      /\ refusals' = refusals /\ breaks' = breaks /\ leftOpen' = leftOpen
      /\ stream = "off" /\ wire = <<>> /\ hand.dispatch = 0 /\ hand.step = "idle"
      /\ stream' = "on" /\ cursor' = 0 /\ passedOver' = {}
  BY DEF Connect, StreamOnly, runVars, outboxVars, channelVars, Idle
<1>2. Typed'
  BY <1>1, OutboxTypes DEF Typed, TypeOK, ChannelTyped
<1>3. DOMAIN wire' = {}
  BY <1>1
<1>4. Ordered'
  BY <1>1, <1>3 DEF OutboxInv, Ordered, InOrder, NothingIsSkipped, ShownBeforeSettled,
       SettledWasShown, OneAfterTheOther
<1>5. DraftsComeFirst' /\ AnswersClose'
  BY <1>1, UnseenKeeps
<1> QED BY <1>2, <1>4, <1>5 DEF OutboxInv

LEMMA OfferKeeps ==
  ASSUME OutboxInv, Offer
  PROVE  OutboxInv'
<1> DEFINE next == Min(Due)
<1> Typed
  BY DEF OutboxInv
<1>1. /\ status' = status /\ unsaid' = unsaid /\ outbox' = outbox /\ delivered' = delivered
      /\ hand' = hand /\ live' = live /\ shown' = shown /\ posted' = posted
      /\ refusals' = refusals /\ breaks' = breaks /\ passedOver' = passedOver
      /\ leftOpen' = leftOpen /\ stream = "on" /\ stream' = "on"
      /\ wire' = Append(wire, next) /\ cursor' = next
  BY DEF Offer, StreamOnly, runVars, outboxVars, channelVars
<1>2. next \in Due /\ \A i \in Due : next <= i
  <2>1. Due \in SUBSET Nat /\ Due # {}
    BY OutboxTypes DEF Due, Offer
  <2> QED BY <2>1, MinIsLeast
<1>3. next \in DOMAIN outbox /\ next > cursor /\ next \notin delivered /\ next \in Nat
  BY <1>2, OutboxTypes DEF Due
<1> HIDE DEF next
<1>4. /\ wire' \in Seq(DOMAIN outbox) /\ Len(wire') = Len(wire) + 1
      /\ \A k \in 1 .. Len(wire) : wire'[k] = wire[k]
      /\ wire'[Len(wire) + 1] = next
  BY <1>1, <1>3, AppendProperties DEF Typed, TypeOK
<1>5. Len(wire) \in Nat /\ DOMAIN wire = 1 .. Len(wire) /\ DOMAIN wire' = 1 .. (Len(wire) + 1)
  BY <1>4, LenProperties, OutboxTypes
<1>6. Typed'
  <2>1. cursor' \in 0 .. Len(outbox')
    BY <1>1, <1>3, OutboxTypes
  <2>2. wire' \in Seq(DOMAIN outbox')
    BY <1>1, <1>4
  <2> QED BY <1>1, <2>1, <2>2 DEF Typed, TypeOK, ChannelTyped
<1>7. InOrder'
  <2>1. hand.dispatch <= cursor /\ hand.dispatch \in Nat /\ cursor \in Nat
    BY <1>1, OutboxTypes DEF OutboxInv, Ordered, InOrder
  <2>2. \A k \in DOMAIN wire : /\ wire[k] > hand.dispatch /\ wire[k] <= cursor
                               /\ wire[k] \notin delivered /\ wire[k] \in Nat
    BY <1>1, OutboxTypes DEF OutboxInv, Ordered, InOrder
  <2>3. \A k \in DOMAIN wire' :
          wire'[k] > hand.dispatch /\ wire'[k] <= next /\ wire'[k] \notin delivered
    BY <1>3, <1>4, <1>5, <2>1, <2>2
  <2>4. \A k, l \in DOMAIN wire' : k < l => wire'[k] < wire'[l]
    <3> SUFFICES ASSUME NEW k \in DOMAIN wire', NEW l \in DOMAIN wire', k < l
                 PROVE  wire'[k] < wire'[l]
      OBVIOUS
    <3>1. k \in DOMAIN wire /\ wire'[k] = wire[k]
      BY <1>4, <1>5
    <3>2. CASE l \in DOMAIN wire
      BY <1>4, <1>5, <3>1, <3>2 DEF OutboxInv, Ordered, InOrder
    <3>3. CASE l = Len(wire) + 1
      BY <1>3, <1>4, <2>1, <2>2, <3>1, <3>3
    <3> QED BY <1>5, <3>2, <3>3
  <2> QED BY <1>1, <1>3, <2>1, <2>3, <2>4 DEF OutboxInv, Ordered, InOrder
<1>8. NothingIsSkipped'
  <2> SUFFICES ASSUME NEW i \in 1 .. next
               PROVE  \/ i \in delivered \cup passedOver \/ i = hand.dispatch
                      \/ \E k \in DOMAIN wire' : wire'[k] = i
    BY <1>1 DEF NothingIsSkipped
  <2>1. CASE i <= cursor
    <3>1. \/ i \in delivered \cup passedOver \/ i = hand.dispatch
          \/ \E k \in DOMAIN wire : wire[k] = i
      BY <1>1, <2>1, OutboxTypes DEF OutboxInv, Ordered, NothingIsSkipped
    <3> QED BY <1>4, <1>5, <3>1
  <2>2. CASE i > cursor /\ i # next
    <3>1. i \in DOMAIN outbox /\ i < next
      BY <1>3, <2>2, OutboxTypes
    <3>2. i \notin Due
      BY <1>2, <1>3, <3>1
    <3> QED BY <2>2, <3>1, <3>2 DEF Due
  <2>3. CASE i = next
    BY <1>4, <1>5, <2>3
  <2> QED BY <1>3, <2>1, <2>2, <2>3, OutboxTypes
<1>9. ShownBeforeSettled'
  BY <1>1 DEF OutboxInv, Ordered, ShownBeforeSettled, SettledWasShown
<1>11. OneAfterTheOther'
  <2> SUFFICES ASSUME NEW k \in DOMAIN wire', NEW j \in Nat \ {0}, j < wire'[k]
               PROVE  \/ j \in delivered \cup leftOpen \/ j = hand.dispatch
                      \/ \E l \in DOMAIN wire' : wire'[l] = j
    BY <1>1 DEF OutboxInv, Ordered, OneAfterTheOther
  <2>1. CASE k \in DOMAIN wire
    <3>1. \/ j \in delivered \cup leftOpen \/ j = hand.dispatch
          \/ \E l \in DOMAIN wire : wire[l] = j
      BY <1>4, <1>5, <2>1 DEF OutboxInv, Ordered, OneAfterTheOther
    <3> QED BY <1>4, <1>5, <3>1
  <2>2. CASE k = Len(wire) + 1
    <3>1. wire'[k] = next /\ j \in 1 .. next
      BY <1>3, <1>4, <2>2
    <3>2. \/ j \in delivered \cup passedOver \/ j = hand.dispatch
          \/ \E l \in DOMAIN wire' : wire'[l] = j
      BY <1>1, <1>8, <3>1 DEF NothingIsSkipped
    <3> QED BY <3>2 DEF OutboxInv, Ordered, OneAfterTheOther
  <2> QED BY <1>5, <2>1, <2>2
<1>10. DraftsComeFirst' /\ AnswersClose'
  BY <1>1, UnseenKeeps
<1> QED BY <1>6, <1>7, <1>8, <1>9, <1>10, <1>11 DEF OutboxInv, Ordered
------------------------------------------------------------------------------
(* The gateway.                                                             *)

LEMMA ReceiveKeeps ==
  ASSUME OutboxInv, Receive
  PROVE  OutboxInv'
<1> Typed
  BY DEF OutboxInv
<1>1. /\ status' = status /\ unsaid' = unsaid /\ outbox' = outbox /\ delivered' = delivered
      /\ live' = live /\ shown' = shown /\ posted' = posted /\ stream' = stream
      /\ cursor' = cursor /\ refusals' = refusals /\ breaks' = breaks
      /\ passedOver' = passedOver /\ leftOpen' = leftOpen
      /\ wire # <<>> /\ wire' = Tail(wire)
      /\ hand.dispatch = 0 /\ hand.step = "idle"
      /\ hand' = [dispatch |-> Head(wire), step |-> "post"]
  BY DEF Receive, runVars, outboxVars, Idle
<1>2. wire \in Seq(DOMAIN outbox)
  BY DEF Typed, TypeOK
<1>3. /\ Tail(wire) \in Seq(DOMAIN outbox) /\ Len(Tail(wire)) = Len(wire) - 1
      /\ \A k \in 1 .. Len(Tail(wire)) : Tail(wire)[k] = wire[k + 1]
      /\ Head(wire) \in DOMAIN outbox
  BY <1>1, <1>2, HeadTailProperties
<1>4. /\ Len(wire) \in Nat \ {0} /\ DOMAIN wire = 1 .. Len(wire) /\ Head(wire) = wire[1]
      /\ DOMAIN wire' = 1 .. (Len(wire) - 1) /\ \A k \in DOMAIN wire' : wire'[k] = wire[k + 1]
  BY <1>1, <1>2, <1>3, LenProperties, EmptySeq
<1>6. /\ Head(wire) \in Nat /\ Head(wire) > 0 /\ Head(wire) \notin delivered
      /\ stream = "on" => Head(wire) <= cursor
  BY <1>1, <1>4, OutboxTypes DEF OutboxInv, Ordered, InOrder
<1>7. Typed'
  BY <1>1, <1>3, <1>6 DEF Typed, TypeOK, ChannelTyped
<1>8. \A k \in DOMAIN wire' :
        /\ wire'[k] > Head(wire) /\ wire'[k] \notin delivered
        /\ stream = "on" => wire'[k] <= cursor
  <2> SUFFICES ASSUME NEW k \in DOMAIN wire'
               PROVE  /\ wire'[k] > Head(wire) /\ wire'[k] \notin delivered
                      /\ stream = "on" => wire'[k] <= cursor
    OBVIOUS
  <2>1. k + 1 \in DOMAIN wire /\ 1 \in DOMAIN wire /\ 1 < k + 1 /\ wire'[k] = wire[k + 1]
    BY <1>4
  <2>2. /\ wire[1] < wire[k + 1] /\ wire[k + 1] \notin delivered
        /\ stream = "on" => wire[k + 1] <= cursor
    BY <2>1 DEF OutboxInv, Ordered, InOrder
  <2>3. wire[1] \in Nat /\ wire[k + 1] \in Nat
    BY <2>1, OutboxTypes
  <2> QED BY <1>4, <2>1, <2>2, <2>3
<1>9. InOrder'
  <2>1. \A k, l \in DOMAIN wire' : k < l => wire'[k] < wire'[l]
    <3> SUFFICES ASSUME NEW k \in DOMAIN wire', NEW l \in DOMAIN wire', k < l
                 PROVE  wire'[k] < wire'[l]
      OBVIOUS
    <3>1. k + 1 \in DOMAIN wire /\ l + 1 \in DOMAIN wire /\ k + 1 < l + 1
      BY <1>4
    <3>2. wire[k + 1] < wire[l + 1]
      BY <3>1 DEF OutboxInv, Ordered, InOrder
    <3> QED BY <1>4, <3>2
  <2> QED BY <1>1, <1>6, <1>8, <2>1 DEF InOrder
\* What was on the wire is in hand now or still there.
<1>10. ASSUME NEW j, \E k \in DOMAIN wire : wire[k] = j
       PROVE  j = Head(wire) \/ \E k \in DOMAIN wire' : wire'[k] = j
  <2> SUFFICES ASSUME j # Head(wire)
               PROVE  \E k \in DOMAIN wire' : wire'[k] = j
    OBVIOUS
  <2>1. PICK k \in DOMAIN wire : wire[k] = j
    BY <1>10
  <2>2. k - 1 \in DOMAIN wire' /\ (k - 1) + 1 = k
    BY <1>4, <2>1
  <2> QED BY <1>4, <2>1, <2>2
<1>11. NothingIsSkipped'
  <2> SUFFICES ASSUME stream = "on", NEW j \in 1 .. cursor, j \notin delivered \cup passedOver
               PROVE  j = Head(wire) \/ \E k \in DOMAIN wire' : wire'[k] = j
    BY <1>1 DEF NothingIsSkipped
  <2>1. j # 0 /\ \E k \in DOMAIN wire : wire[k] = j
    BY <1>1, OutboxTypes DEF OutboxInv, Ordered, NothingIsSkipped
  <2> QED BY <1>10, <2>1
<1>12. OneAfterTheOther'
  <2>1. ASSUME NEW k \in DOMAIN wire, NEW j \in Nat \ {0}, j < wire[k]
        PROVE  \/ j \in delivered \cup leftOpen \/ j = Head(wire)
               \/ \E l \in DOMAIN wire' : wire'[l] = j
    <3>1. j \in delivered \cup leftOpen \/ \E l \in DOMAIN wire : wire[l] = j
      BY <1>1, <2>1 DEF OutboxInv, Ordered, OneAfterTheOther
    <3> QED BY <1>10, <3>1
  <2>2. ASSUME NEW j \in Nat \ {0}, j < Head(wire)
        PROVE  j \in delivered \cup leftOpen
    <3>1. \A l \in DOMAIN wire' : wire'[l] # j
      <4> SUFFICES ASSUME NEW l \in DOMAIN wire', wire'[l] = j PROVE FALSE
        OBVIOUS
      <4> QED BY <1>6, <1>8, <2>2
    <3>2. 1 \in DOMAIN wire /\ j < wire[1]
      BY <1>4, <2>2
    <3>3. j # Head(wire)
      BY <1>6, <2>2
    <3> QED BY <2>1, <3>1, <3>2, <3>3
  <2>3. ASSUME NEW k \in DOMAIN wire', NEW j \in Nat \ {0}, j < wire'[k]
        PROVE  \/ j \in delivered \cup leftOpen \/ j = Head(wire)
               \/ \E l \in DOMAIN wire' : wire'[l] = j
    <3>1. k + 1 \in DOMAIN wire /\ j < wire[k + 1]
      BY <1>4, <2>3
    <3> QED BY <2>1, <3>1
  <2> QED BY <1>1, <2>2, <2>3 DEF OutboxInv, Ordered, OneAfterTheOther
<1>13. ShownBeforeSettled'
  BY <1>1 DEF OutboxInv, Ordered, ShownBeforeSettled, SettledWasShown
<1>14. DraftsComeFirst' /\ AnswersClose'
  BY <1>1, UnseenKeeps
<1> QED BY <1>7, <1>9, <1>11, <1>12, <1>13, <1>14 DEF OutboxInv, Ordered

\* What the channel shows once a version is in it.
LEMMA ShowTypes ==
  ASSUME Typed, NEW r \in Runs, NEW kind \in Kinds, NEW editable \in BOOLEAN,
         Show(r, kind, editable)
  PROVE  /\ shown' \in [Runs -> Seq(Kinds)] /\ live' \in [Runs -> Nat]
         /\ \A s \in Runs : s # r => shown'[s] = shown[s] /\ live'[s] = live[s]
         /\ live'[r] \in 0 .. Len(shown'[r])
         /\ \/ /\ kind # "ended" /\ live[r] # 0
               /\ Len(shown'[r]) = Len(shown[r])
               /\ \A k \in 1 .. Len(shown[r]) :
                    shown'[r][k] = IF k = live[r] THEN kind ELSE shown[r][k]
               /\ live'[r] = IF kind = "answer" THEN 0 ELSE live[r]
            \/ /\ Len(shown'[r]) = Len(shown[r]) + 1
               /\ \A k \in 1 .. Len(shown[r]) : shown'[r][k] = shown[r][k]
               /\ shown'[r][Len(shown[r]) + 1] = kind
               /\ kind = "draft" => live'[r] = Len(shown[r]) + 1
               /\ kind = "answer" => live'[r] = 0
               /\ kind = "ended" => live'[r] = live[r]
<1>1. /\ shown[r] \in Seq(Kinds) /\ Len(shown[r]) \in Nat /\ live[r] \in Nat
      /\ live[r] <= Len(shown[r])
  BY ShownTypes
<1>2. shown \in [Runs -> Seq(Kinds)] /\ live \in [Runs -> Nat]
  BY DEF Typed, ChannelTyped
<1>3. kind \in {"draft", "answer", "ended"}
  BY DEF Kinds
<1>4. CASE kind # "ended" /\ live[r] # 0 /\ editable
  <2> DEFINE new == [shown[r] EXCEPT ![live[r]] = kind]
  <2>1. /\ new \in Seq(Kinds) /\ Len(new) = Len(shown[r])
        /\ \A k \in 1 .. Len(shown[r]) : new[k] = IF k = live[r] THEN kind ELSE shown[r][k]
    BY <1>1, <1>4, ExceptSeq
  <2>2. shown' = [shown EXCEPT ![r] = new]
    BY <1>4 DEF Show
  <2> HIDE DEF new
  <2>3. /\ shown' \in [Runs -> Seq(Kinds)] /\ shown'[r] = new
        /\ \A s \in Runs : s # r => shown'[s] = shown[s]
    BY <1>2, <2>1, <2>2
  <2>4. live' = [live EXCEPT ![r] = IF kind = "answer" THEN 0 ELSE live[r]]
    BY <1>3, <1>4 DEF Show
  <2> QED BY <1>1, <1>2, <1>4, <2>1, <2>3, <2>4
<1>5. CASE ~ (kind # "ended" /\ live[r] # 0 /\ editable)
  <2> DEFINE new == Append(shown[r], kind)
  <2>1. /\ new \in Seq(Kinds) /\ Len(new) = Len(shown[r]) + 1
        /\ \A k \in 1 .. Len(shown[r]) : new[k] = shown[r][k]
        /\ new[Len(shown[r]) + 1] = kind
    BY <1>1, AppendProperties
  <2>2. shown' = [shown EXCEPT ![r] = new]
    BY <1>5 DEF Show
  <2> HIDE DEF new
  <2>3. /\ shown' \in [Runs -> Seq(Kinds)] /\ shown'[r] = new
        /\ \A s \in Runs : s # r => shown'[s] = shown[s]
    BY <1>2, <2>1, <2>2
  <2>4. CASE kind = "draft"
    <3>1. live' = [live EXCEPT ![r] = Len(shown[r]) + 1]
      BY <1>5, <2>4 DEF Show
    <3> QED BY <1>1, <1>2, <2>1, <2>3, <2>4, <3>1
  <2>5. CASE kind = "answer"
    <3>1. live' = [live EXCEPT ![r] = 0]
      BY <2>5 DEF Show
    <3> QED BY <1>1, <1>2, <2>1, <2>3, <2>5, <3>1
  <2>6. CASE kind = "ended"
    <3>1. live' = [live EXCEPT ![r] = live[r]]
      BY <2>6 DEF Show
    <3> QED BY <1>1, <1>2, <2>1, <2>3, <2>6, <3>1
  <2> QED BY <1>3, <2>4, <2>5, <2>6
<1> QED BY <1>4, <1>5

LEMMA PostKeeps ==
  ASSUME OutboxInv, Post
  PROVE  OutboxInv'
<1> Typed
  BY DEF OutboxInv
<1>1. /\ status' = status /\ unsaid' = unsaid /\ outbox' = outbox /\ delivered' = delivered
      /\ stream' = stream /\ cursor' = cursor /\ wire' = wire /\ passedOver' = passedOver
      /\ breaks' = breaks /\ leftOpen' = leftOpen
      /\ hand.step = "post" /\ hand' = [hand EXCEPT !.step = "settle"]
      /\ posted' = posted \cup {hand.dispatch}
  BY DEF Post, runVars, outboxVars, streamVars
<1>2. hand'.step = "settle" /\ hand'.dispatch = hand.dispatch
      /\ hand' \in [dispatch : Nat, step : {"idle", "post", "settle"}]
  BY <1>1 DEF Typed, ChannelTyped
<1>3. hand.dispatch \in DOMAIN outbox
  BY <1>1 DEF Typed, TypeOK
<1>4. PICK r \in Runs, kind \in Kinds :
        r = outbox[hand.dispatch].run /\ kind = outbox[hand.dispatch].kind
  BY <1>3, OutboxTypes
<1>5. PICK editable \in BOOLEAN :
        /\ Show(r, kind, editable)
        /\ refusals' = refusals \/ (refusals' = refusals + 1 /\ refusals < MaxRefusals)
  BY <1>4 DEF Post, InHand
<1>6. /\ shown' \in [Runs -> Seq(Kinds)] /\ live' \in [Runs -> Nat]
      /\ \A s \in Runs : s # r => shown'[s] = shown[s] /\ live'[s] = live[s]
      /\ live'[r] \in 0 .. Len(shown'[r])
  BY <1>5, ShowTypes
<1>7. Typed'
  <2>0. refusals' \in 0 .. MaxRefusals
    BY <1>5, BoundTypes, OutboxTypes DEF Typed, TypeOK
  <2>1. \A s \in Runs : live'[s] \in 0 .. Len(shown'[s])
    BY <1>6 DEF Typed, TypeOK
  <2>2. posted' \subseteq DOMAIN outbox'
    BY <1>1, <1>3 DEF Typed, TypeOK
  <2>3. TypeOK'
    BY <1>1, <1>2, <1>3, <2>0, <2>1, <2>2 DEF Typed, TypeOK
  <2>4. ChannelTyped'
    BY <1>2, <1>6 DEF ChannelTyped
  <2> QED BY <2>3, <2>4 DEF Typed
<1>9. Ordered'
  <2>1. InOrder' /\ NothingIsSkipped'
    BY <1>1, <1>2 DEF OutboxInv, Ordered, InOrder, NothingIsSkipped
  <2>2. ShownBeforeSettled'
    BY <1>1, <1>2 DEF OutboxInv, Ordered, ShownBeforeSettled, SettledWasShown
  <2>3. OneAfterTheOther'
    BY <1>1, <1>2 DEF OutboxInv, Ordered, OneAfterTheOther
  <2> QED BY <2>1, <2>2, <2>3 DEF Ordered
<1>10. DraftsComeFirst'
  BY <1>1 DEF OutboxInv, DraftsComeFirst
<1>11. /\ Len(shown[r]) \in Nat /\ DOMAIN shown[r] = 1 .. Len(shown[r])
       /\ live[r] \in Nat /\ live[r] <= Len(shown[r])
  BY ShownTypes
<1>12. shown'[r] \in Seq(Kinds) /\ Len(shown'[r]) \in Nat /\ DOMAIN shown'[r] = 1 .. Len(shown'[r])
  BY <1>6, LenProperties
<1>13. \/ /\ kind # "ended" /\ live[r] # 0
          /\ Len(shown'[r]) = Len(shown[r])
          /\ \A k \in 1 .. Len(shown[r]) :
               shown'[r][k] = IF k = live[r] THEN kind ELSE shown[r][k]
          /\ live'[r] = IF kind = "answer" THEN 0 ELSE live[r]
       \/ /\ Len(shown'[r]) = Len(shown[r]) + 1
          /\ \A k \in 1 .. Len(shown[r]) : shown'[r][k] = shown[r][k]
          /\ shown'[r][Len(shown[r]) + 1] = kind
          /\ kind = "draft" => live'[r] = Len(shown[r]) + 1
          /\ kind = "answer" => live'[r] = 0
          /\ kind = "ended" => live'[r] = live[r]
  BY <1>5, ShowTypes
<1>14. kind \in {"draft", "answer", "ended"}
  BY DEF Kinds
<1>15. live[r] # 0 => \A k \in 1 .. Len(shown[r]) : shown[r][k] = "draft" => k <= live[r]
  BY <1>11 DEF OutboxInv, AnswersClose
\* The drafts of a run stay before the place an answer would go to.
<1>16. \A s \in Runs : live'[s] # 0 =>
         \A k \in DOMAIN shown'[s] : shown'[s][k] = "draft" => k <= live'[s]
  <2> SUFFICES ASSUME NEW s \in Runs, live'[s] # 0, NEW k \in DOMAIN shown'[s],
                      shown'[s][k] = "draft"
               PROVE  k <= live'[s]
    OBVIOUS
  <2>1. CASE s # r
    BY <1>6, <2>1 DEF OutboxInv, AnswersClose
  <2>2. CASE s = r
    <3> k \in 1 .. Len(shown'[r]) /\ shown'[r][k] = "draft" /\ live'[r] # 0
      BY <1>12, <2>2
    <3>1. CASE /\ Len(shown'[r]) = Len(shown[r]) /\ live[r] # 0
               /\ \A n \in 1 .. Len(shown[r]) :
                    shown'[r][n] = IF n = live[r] THEN kind ELSE shown[r][n]
               /\ live'[r] = IF kind = "answer" THEN 0 ELSE live[r]
      <4>1. live'[r] = live[r] /\ k \in 1 .. Len(shown[r])
        BY <3>1
      <4>2. k = live[r] \/ shown[r][k] = "draft"
        BY <3>1, <4>1
      <4> QED BY <1>11, <1>15, <2>2, <3>1, <4>1, <4>2
    <3>2. CASE /\ Len(shown'[r]) = Len(shown[r]) + 1
               /\ \A n \in 1 .. Len(shown[r]) : shown'[r][n] = shown[r][n]
               /\ shown'[r][Len(shown[r]) + 1] = kind
               /\ kind = "draft" => live'[r] = Len(shown[r]) + 1
               /\ kind = "answer" => live'[r] = 0
               /\ kind = "ended" => live'[r] = live[r]
      <4>1. CASE kind = "draft"
        BY <1>11, <2>2, <3>2, <4>1
      <4>2. CASE kind = "ended"
        <5>1. k \in 1 .. Len(shown[r]) /\ shown[r][k] = "draft"
          BY <1>11, <3>2, <4>2
        <5> QED BY <1>15, <2>2, <3>2, <4>2, <5>1
      <4> QED BY <1>14, <3>2, <4>1, <4>2
    <3> QED BY <1>13, <3>1, <3>2
  <2> QED BY <2>1, <2>2
\* An answer that is posted follows all the drafts of its run.
<1>17. kind = "answer" => Closed(r)'
  <2> SUFFICES ASSUME kind = "answer", NEW k \in 1 .. Len(shown'[r]), shown'[r][k] = "draft"
               PROVE  \E l \in 1 .. Len(shown'[r]) : l > k /\ shown'[r][l] = "answer"
    BY <1>12 DEF Closed
  <2>1. CASE /\ live[r] # 0 /\ Len(shown'[r]) = Len(shown[r])
             /\ \A n \in 1 .. Len(shown[r]) :
                  shown'[r][n] = IF n = live[r] THEN kind ELSE shown[r][n]
    <3>1. k # live[r] /\ shown[r][k] = "draft" /\ k \in 1 .. Len(shown[r])
      BY <1>11, <2>1
    <3>2. k < live[r] /\ live[r] \in 1 .. Len(shown'[r])
      BY <1>11, <1>15, <2>1, <3>1
    <3>3. shown'[r][live[r]] = "answer"
      BY <2>1, <3>2
    <3> QED BY <3>2, <3>3
  <2>2. CASE /\ Len(shown'[r]) = Len(shown[r]) + 1
             /\ shown'[r][Len(shown[r]) + 1] = kind
    <3>1. k # Len(shown[r]) + 1
      BY <2>2
    <3>2. Len(shown[r]) + 1 \in 1 .. Len(shown'[r]) /\ Len(shown[r]) + 1 > k
      BY <1>11, <2>2, <3>1
    <3> QED BY <2>2, <3>2
  <2> QED BY <1>13, <1>14, <2>1, <2>2
\* The end of a run says nothing of its answer.
<1>18. kind = "ended" /\ Closed(r) => Closed(r)'
  <2> SUFFICES ASSUME kind = "ended", Closed(r), NEW k \in 1 .. Len(shown'[r]),
                      shown'[r][k] = "draft"
               PROVE  \E l \in 1 .. Len(shown'[r]) : l > k /\ shown'[r][l] = "answer"
    BY <1>12 DEF Closed
  <2>1. /\ Len(shown'[r]) = Len(shown[r]) + 1
        /\ \A n \in 1 .. Len(shown[r]) : shown'[r][n] = shown[r][n]
        /\ shown'[r][Len(shown[r]) + 1] = "ended"
    BY <1>13
  <2>2. k \in 1 .. Len(shown[r]) /\ shown[r][k] = "draft"
    BY <1>11, <2>1
  <2>3. PICK l \in 1 .. Len(shown[r]) : l > k /\ shown[r][l] = "answer"
    BY <1>11, <2>2 DEF Closed
  <2>4. l \in 1 .. Len(shown'[r]) /\ shown'[r][l] = "answer"
    BY <1>11, <2>1, <2>3
  <2> QED BY <2>3, <2>4
\* A draft that was not left open is not posted once the answer was.
<1>19. ASSUME NEW i \in posted, outbox[i].kind = "answer", outbox[i].run = r,
              ~ DraftLeftOpen(r)
       PROVE  kind # "draft"
  <2> SUFFICES ASSUME kind = "draft" PROVE FALSE
    OBVIOUS
  <2>1. i \in DOMAIN outbox
    BY DEF Typed, TypeOK
  <2>2. hand.dispatch < i
    BY <1>3, <1>4, <1>19, <2>1 DEF OutboxInv, DraftsComeFirst
  <2>3. hand.dispatch \in Nat \ {0}
    BY <1>3, OutboxTypes
  <2>4. hand.dispatch \in delivered \cup leftOpen
    BY <2>2, <2>3 DEF OutboxInv, Ordered, OneAfterTheOther
  <2>5. hand.dispatch \notin delivered
    BY <1>1 DEF OutboxInv, Ordered, InOrder
  <2>6. outbox[hand.dispatch] = Dispatch(r, "draft")
    BY <1>3, <1>4, OutboxTypes DEF Dispatch
  <2> QED BY <1>19, <2>4, <2>5, <2>6 DEF DraftLeftOpen
<1>20. AnswersClose'
  <2>0. \A s : DraftLeftOpen(s) => DraftLeftOpen(s)'
    BY <1>1 DEF DraftLeftOpen, Dispatch
  <2> SUFFICES ASSUME NEW i \in posted', outbox[i].kind = "answer", ~ DraftLeftOpen(outbox[i].run)
               PROVE  \A s : s = outbox[i].run => Closed(s)'
    BY <1>1, <1>16, <2>0 DEF AnswersClose, Closed
  <2>1. CASE i = hand.dispatch
    BY <1>4, <1>17, <2>1
  <2>2. CASE i \in posted
    <3>1. Closed(outbox[i].run) /\ outbox[i].run \in Runs
      BY <2>2, OutboxTypes DEF OutboxInv, AnswersClose, Typed, TypeOK
    <3>2. CASE outbox[i].run # r
      <4> SUFFICES ASSUME NEW s \in Runs, s # r, Closed(s) PROVE Closed(s)'
        BY <3>1, <3>2
      <4>1. shown'[s] = shown[s]
        BY <1>6
      <4> QED BY <4>1 DEF Closed
    <3>3. CASE outbox[i].run = r
      <4>1. kind # "draft"
        BY <1>19, <2>2, <3>3
      <4>2. Closed(r)'
        BY <1>14, <1>17, <1>18, <3>1, <3>3, <4>1
      <4> QED BY <3>3, <4>2
    <3> QED BY <3>2, <3>3
  <2> QED BY <1>1, <2>1, <2>2
<1> QED BY <1>7, <1>9, <1>10, <1>20 DEF OutboxInv

\* The gateway lets go of what it has in hand: delivered, or passed over.
LEMMA PassOverKeeps ==
  ASSUME OutboxInv, Refuse \/ LoseAcknowledgement
  PROVE  OutboxInv'
<1> Typed
  BY DEF OutboxInv
<1>1. /\ status' = status /\ unsaid' = unsaid /\ outbox' = outbox /\ delivered' = delivered
      /\ stream' = stream /\ cursor' = cursor /\ wire' = wire /\ shown' = shown
      /\ posted' = posted /\ breaks' = breaks
      /\ passedOver' = passedOver \cup {hand.dispatch} /\ hand.step # "idle"
      /\ leftOpen' = leftOpen \cup {hand.dispatch}
      /\ refusals < MaxRefusals /\ refusals' = refusals + 1
      /\ hand'.dispatch = 0 /\ hand'.step = "idle"
      /\ hand' \in [dispatch : Nat, step : {"idle", "post", "settle"}]
  BY DEF Refuse, LoseAcknowledgement, PassOver, LetGo, runVars, outboxVars, Idle
<1>2. live' \in [Runs -> Nat] /\ \A r \in Runs : live'[r] = live[r] \/ live'[r] = 0
  BY DEF Refuse, LoseAcknowledgement, Typed, ChannelTyped
<1>3. Typed'
  <2>1. \A r \in Runs : live'[r] \in 0 .. Len(shown'[r])
    BY <1>1, <1>2, ShownTypes
  <2>2. hand.dispatch \in DOMAIN outbox
    BY <1>1 DEF Typed, TypeOK
  <2>3. refusals' \in 0 .. MaxRefusals
    BY <1>1, BoundTypes, OutboxTypes
  <2> QED BY <1>1, <1>2, <2>1, <2>2, <2>3 DEF Typed, TypeOK, ChannelTyped
<1>5. InOrder'
  <2>1. \A k \in DOMAIN wire : wire[k] \in Nat /\ wire[k] > 0
    BY OutboxTypes
  <2> QED BY <1>1, <2>1, OutboxTypes DEF OutboxInv, Ordered, InOrder
<1>6. NothingIsSkipped' /\ ShownBeforeSettled' /\ OneAfterTheOther'
  BY <1>1 DEF OutboxInv, Ordered, NothingIsSkipped, ShownBeforeSettled, SettledWasShown,
       OneAfterTheOther
<1>7. DraftsComeFirst' /\ AnswersClose'
  BY <1>1, <1>2, UnseenKeeps
<1> QED BY <1>3, <1>5, <1>6, <1>7 DEF OutboxInv, Ordered

LEMMA SettleKeeps ==
  ASSUME OutboxInv, Settle
  PROVE  OutboxInv'
<1> Typed
  BY DEF OutboxInv
<1>1. /\ status' = status /\ unsaid' = unsaid /\ outbox' = outbox /\ stream' = stream
      /\ cursor' = cursor /\ wire' = wire /\ passedOver' = passedOver /\ live' = live
      /\ shown' = shown /\ posted' = posted /\ refusals' = refusals /\ breaks' = breaks
      /\ leftOpen' = leftOpen
      /\ delivered' = delivered \cup {hand.dispatch} /\ hand.step = "settle"
      /\ hand'.dispatch = 0 /\ hand'.step = "idle"
      /\ hand' \in [dispatch : Nat, step : {"idle", "post", "settle"}]
  BY DEF Settle, runVars, streamVars, Idle
<1>2. hand.dispatch \in DOMAIN outbox
  BY <1>1 DEF Typed, TypeOK
<1>3. Typed'
  BY <1>1, <1>2 DEF Typed, TypeOK, ChannelTyped
<1>4. InOrder'
  <2>1. \A k \in DOMAIN wire : /\ wire[k] > hand.dispatch
                               /\ wire[k] \notin delivered /\ wire[k] \in Nat
    BY OutboxTypes DEF OutboxInv, Ordered, InOrder
  <2>2. \A k \in DOMAIN wire : wire[k] > 0 /\ wire[k] # hand.dispatch
    BY <2>1, OutboxTypes
  <2> QED BY <1>1, <2>1, <2>2, OutboxTypes DEF OutboxInv, Ordered, InOrder
<1>5. NothingIsSkipped' /\ ShownBeforeSettled' /\ OneAfterTheOther'
  BY <1>1 DEF OutboxInv, Ordered, NothingIsSkipped, ShownBeforeSettled, SettledWasShown,
       OneAfterTheOther
<1>6. DraftsComeFirst' /\ AnswersClose'
  BY <1>1, UnseenKeeps
<1> QED BY <1>3, <1>4, <1>5, <1>6 DEF OutboxInv, Ordered
------------------------------------------------------------------------------
(* Deaths and lost connections.                                             *)

LEMMA BreakKeeps ==
  ASSUME OutboxInv, Break \/ GatewayDies \/ DaemonDies
  PROVE  OutboxInv'
<1> Typed
  BY DEF OutboxInv
<1>1. /\ outbox' = outbox /\ delivered' = delivered /\ shown' = shown /\ posted' = posted
      /\ refusals' = refusals /\ stream' = "off" /\ cursor' = 0
      /\ breaks' = breaks + 1 /\ breaks < MaxBreaks
  BY DEF Break, GatewayDies, DaemonDies, Fault, Disconnected, outboxVars
\* What the gateway has in hand it keeps, leaves open, or dies with.
<1>2. \/ hand' = hand /\ passedOver' = passedOver /\ leftOpen' = leftOpen
      \/ /\ hand.step # "idle" /\ passedOver' = passedOver \cup {hand.dispatch}
         /\ leftOpen' = leftOpen \cup {hand.dispatch}
         /\ hand'.dispatch = 0 /\ hand'.step = "idle"
         /\ hand' \in [dispatch : Nat, step : {"idle", "post", "settle"}]
      \/ /\ wire' = <<>> /\ passedOver' = passedOver /\ leftOpen' = leftOpen
         /\ hand'.dispatch = 0 /\ hand'.step = "idle"
         /\ hand' \in [dispatch : Nat, step : {"idle", "post", "settle"}]
  BY DEF Break, GatewayDies, DaemonDies, GatewayGoesOn, LetGo, Idle
\* What it still receives is the beginning of what was sent.
<1>9. /\ wire' \in Seq(DOMAIN outbox) /\ DOMAIN wire' \subseteq DOMAIN wire
      /\ \A k \in DOMAIN wire' : /\ wire'[k] = wire[k]
                               /\ \A l \in DOMAIN wire : l <= k => l \in DOMAIN wire'
  <2>1. CASE wire' = <<>>
    BY <2>1, EmptySeq
  <2>2. CASE \E n \in 0 .. Len(wire) : wire' = SubSeq(wire, 1, n)
    <3>1. PICK n \in 0 .. Len(wire) : wire' = SubSeq(wire, 1, n)
      BY <2>2
    <3>2. wire \in Seq(DOMAIN outbox) /\ Len(wire) \in Nat /\ DOMAIN wire = 1 .. Len(wire)
      BY OutboxTypes DEF Typed, TypeOK
    <3>3. \A k \in 1 .. n : k \in 1 .. Len(wire)
      BY <3>2
    <3>4. /\ wire' \in Seq(DOMAIN outbox) /\ Len(wire') = n
          /\ \A k \in 1 .. n : wire'[k] = wire[k]
      BY <3>1, <3>2, <3>3, SubSeqProperties
    <3>5. DOMAIN wire' = 1 .. n
      BY <3>4, LenProperties
    <3> QED BY <3>2, <3>3, <3>4, <3>5
  <2> QED BY <2>1, <2>2 DEF Break, GatewayDies, DaemonDies, GatewayGoesOn
<1>3. live' \in [Runs -> Nat] /\ \A r \in Runs : live'[r] = live[r] \/ live'[r] = 0
  BY DEF Break, GatewayDies, DaemonDies, Typed, ChannelTyped
<1>4. /\ status' \in [Runs -> {"queued", "running", "ended"}]
      /\ unsaid' \in [Runs -> Kinds \cup {Nothing}]
      /\ \A r \in Runs : unsaid'[r] = "draft" => unsaid[r] = "draft"
  <2>1. CASE Break \/ GatewayDies
    BY <2>1 DEF Break, GatewayDies, Typed, TypeOK, runVars
  <2>2. CASE DaemonDies
    BY <2>2 DEF DaemonDies, Typed, TypeOK, Kinds, Nothing
  <2> QED BY <2>1, <2>2
<1>5. Typed'
  <2>1. \A r \in Runs : live'[r] \in 0 .. Len(shown'[r])
    BY <1>1, <1>3, ShownTypes
  <2>2. /\ wire' \in Seq(DOMAIN outbox)
        /\ passedOver' \subseteq DOMAIN outbox /\ leftOpen' \subseteq DOMAIN outbox
    BY <1>2, <1>9 DEF Typed, TypeOK
  <2>3. breaks' \in 0 .. MaxBreaks /\ cursor' \in 0 .. Len(outbox)
    BY <1>1, BoundTypes, OutboxTypes
  <2>4. hand'.step # "idle" => hand'.dispatch \in DOMAIN outbox
    BY <1>2 DEF Typed, TypeOK
  <2>5. hand'.step \in {"idle", "post", "settle"}
    BY <1>2, OutboxTypes
  <2>6. ChannelTyped'
    BY <1>1, <1>2, <1>3 DEF Typed, ChannelTyped
  <2>7. TypeOK'
    BY <1>1, <1>4, <2>1, <2>2, <2>3, <2>4, <2>5 DEF Typed, TypeOK
  <2> QED BY <2>6, <2>7 DEF Typed
<1>6. Ordered'
  <2>1. \A k \in DOMAIN wire' : /\ k \in DOMAIN wire /\ wire'[k] = wire[k] /\ wire[k] \in Nat
                               /\ wire[k] > 0 /\ wire[k] > hand.dispatch
                               /\ wire[k] \notin delivered
    BY <1>9, OutboxTypes DEF OutboxInv, Ordered, InOrder
  <2>2. InOrder'
    <3>1. \A k \in DOMAIN wire' : wire'[k] > hand'.dispatch /\ wire'[k] \notin delivered
      BY <1>2, <2>1
    <3>2. \A k, l \in DOMAIN wire' : k < l => wire'[k] < wire'[l]
      BY <2>1 DEF OutboxInv, Ordered, InOrder
    <3>3. hand'.step # "idle" => hand'.dispatch \notin delivered
      BY <1>2 DEF OutboxInv, Ordered, InOrder
    <3> QED BY <1>1, <3>1, <3>2, <3>3 DEF InOrder
  <2>3. NothingIsSkipped' /\ ShownBeforeSettled'
    BY <1>1, <1>2 DEF OutboxInv, Ordered, NothingIsSkipped, ShownBeforeSettled, SettledWasShown
  <2>4. OneAfterTheOther'
    <3>1. ASSUME NEW k \in DOMAIN wire', NEW j \in Nat \ {0}, j < wire'[k]
          PROVE  \/ j \in delivered \cup leftOpen' \/ j = hand'.dispatch
                 \/ \E l \in DOMAIN wire' : wire'[l] = j
      <4>1. \/ j \in delivered \cup leftOpen \/ j = hand.dispatch
            \/ \E l \in DOMAIN wire : wire[l] = j
        BY <2>1, <3>1 DEF OutboxInv, Ordered, OneAfterTheOther
      <4>2. CASE j \in delivered \cup leftOpen
        BY <1>2, <4>2
      <4>3. CASE j = hand.dispatch
        <5>1. hand' = hand \/ j \in leftOpen'
          BY <1>2, <3>1, <4>3
        <5> QED BY <4>3, <5>1
      <4>4. CASE \E l \in DOMAIN wire : wire[l] = j
        <5>1. PICK l \in DOMAIN wire : wire[l] = j
          BY <4>4
        <5>2. ~ (k < l)
          <6> SUFFICES ASSUME k < l PROVE FALSE
            OBVIOUS
          <6>1. wire[k] < wire[l]
            BY <2>1, <3>1 DEF OutboxInv, Ordered, InOrder
          <6> QED BY <2>1, <3>1, <5>1, <6>1
        <5>3. l \in DOMAIN wire'
          BY <1>9, <2>1, <3>1, <5>1, <5>2, OutboxTypes
        <5> QED BY <1>9, <5>1, <5>3
      <4> QED BY <4>1, <4>2, <4>3, <4>4
    <3>2. hand'.step # "idle" =>
            \A j \in Nat \ {0} : j < hand'.dispatch => j \in delivered \cup leftOpen'
      BY <1>2 DEF OutboxInv, Ordered, OneAfterTheOther
    <3>3. passedOver' \subseteq leftOpen' /\ leftOpen \subseteq leftOpen'
      BY <1>2 DEF OutboxInv, Ordered, OneAfterTheOther
    <3> QED BY <1>1, <3>1, <3>2, <3>3 DEF OutboxInv, Ordered, OneAfterTheOther
  <2> QED BY <2>2, <2>3, <2>4 DEF Ordered
<1>7. DraftsComeFirst'
  BY <1>1, <1>4 DEF OutboxInv, DraftsComeFirst
<1>8. AnswersClose'
  <2>1. leftOpen \subseteq leftOpen'
    BY <1>2
  <2> QED BY <1>1, <1>3, <2>1 DEF OutboxInv, AnswersClose, Closed, DraftLeftOpen
<1> QED BY <1>5, <1>6, <1>7, <1>8 DEF OutboxInv
------------------------------------------------------------------------------
LEMMA StutterKeeps == OutboxInv /\ UNCHANGED vars => OutboxInv'
<1> SUFFICES ASSUME OutboxInv, UNCHANGED vars PROVE OutboxInv'
  OBVIOUS
<1> USE DEF vars, runVars, outboxVars, streamVars, channelVars
<1>1. Typed'
  BY DEF OutboxInv, Typed, TypeOK, ChannelTyped
<1>2. Ordered'
  BY DEF OutboxInv, Ordered, InOrder, NothingIsSkipped, ShownBeforeSettled, SettledWasShown,
       OneAfterTheOther
<1>3. DraftsComeFirst' /\ AnswersClose'
  BY DEF OutboxInv, DraftsComeFirst, AnswersClose, Closed, DraftLeftOpen
<1> QED BY <1>1, <1>2, <1>3 DEF OutboxInv

LEMMA NextKeeps == OutboxInv /\ [Next]_vars => OutboxInv'
<1> SUFFICES ASSUME OutboxInv, [Next]_vars PROVE OutboxInv'
  OBVIOUS
<1>1. CASE \E r \in Runs : Begin(r) \/ (\E kind \in Kinds : Say(r, kind)) \/ Observe(r)
  BY <1>1, RunKeeps, ObserveKeeps
<1>2. CASE Relay
  BY <1>2, ConnectKeeps, OfferKeeps, ReceiveKeeps, PostKeeps, SettleKeeps DEF Relay
<1>3. CASE Refuse \/ LoseAcknowledgement
  BY <1>3, PassOverKeeps
<1>4. CASE Break \/ GatewayDies \/ DaemonDies
  BY <1>4, BreakKeeps
<1>5. CASE UNCHANGED vars
  BY <1>5, StutterKeeps
<1> QED BY <1>1, <1>2, <1>3, <1>4, <1>5 DEF Next

\* The invariant behind the deliveries of a channel holds in every reachable state, for
\* any number of runs, window, failures and deaths.
THEOREM OutboxInvariant == Spec => []OutboxInv
<1>1. Init => OutboxInv
  BY InitHolds
<1>2. OutboxInv /\ [Next]_vars => OutboxInv'
  BY NextKeeps
<1> QED BY <1>1, <1>2, PTL DEF Spec

\* Every variable of Outbox keeps its type.
THEOREM TypeCorrect == Spec => []TypeOK
<1>1. OutboxInv => TypeOK
  BY DEF OutboxInv, Typed
<1> QED BY <1>1, OutboxInvariant, PTL

\* What counts as delivered was on the channel (cli/gateway/main.go:421-422, post).
THEOREM SettledHolds == Spec => []SettledWasShown
<1>1. OutboxInv => SettledWasShown
  BY DEF OutboxInv, Ordered, ShownBeforeSettled
<1> QED BY <1>1, OutboxInvariant, PTL

\* What a stream has gone past is delivered, on its way, in hand or was passed over
\* (control/gateway.go:228-231, SubscribeDispatches).
THEOREM SkippedHolds == Spec => []NothingIsSkipped
<1>1. OutboxInv => NothingIsSkipped
  BY DEF OutboxInv, Ordered
<1> QED BY <1>1, OutboxInvariant, PTL

\* Once an answer is delivered no earlier version of it stands after it, unless the
\* gateway left that version unsettled (adapter/discord/post.go, finishAsMessages).
THEOREM AnswerHolds == Spec => []AnswerStandsLast
<1>1. OutboxInv => AnswerStandsLast
  BY DEF OutboxInv, Ordered, ShownBeforeSettled, SettledWasShown, AnswersClose,
       AnswerStandsLast, DraftLeftOpen
<1> QED BY <1>1, OutboxInvariant, PTL
=============================================================================
