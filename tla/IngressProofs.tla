--------------------------- MODULE IngressProofs ---------------------------
(***************************************************************************)
(* Proofs about Ingress, for any messages, conversations, deliveries,      *)
(* presses and deaths of the daemon. None of the three properties is       *)
(* inductive: that a claim is made once says nothing of runs until a       *)
(* delivery past its claim is tied to it, and the claims of a conversation *)
(* to its session; and a press that was answered says nothing of the line  *)
(* until the run it is about is known to have been in it.                  *)
(***************************************************************************)
EXTENDS Ingress, TLAPS

\* A delivery that has made its message's claim and may start a run, or has.
Past(d) == handler[d] = "send" \/ d \in Runs

\* Only one delivery of a message gets past its claim, and it is the one that claimed it.
OnePastClaim ==
  /\ \A d \in Deliveries : Past(d) =>
       claims[MessageOf(d)] # NoSession /\ claims[MessageOf(d)] = session[d]
  /\ \A d, e \in Deliveries : Past(d) /\ Past(e) /\ MessageOf(d) = MessageOf(e) => d = e

\* A delivery that is done with sessionFor has the conversation's session, and so has
\* every claim.
SessionsAgree ==
  /\ \A d \in Deliveries : handler[d] \in {"claim", "send"} => session[d] = link[Thread(d)]
  /\ \A m \in Messages : claims[m] # NoSession => claims[m] = link[ThreadOf[m]]

\* A delivery that will put no run in line any more.
Through == {"wait", "accepted", "failed"}

\* Only a run that was admitted is in line, has the turn or leaves it, and one that is
\* over is in no line.
RunsAreDriven ==
  \A d \in Deliveries :
    /\ status[d] # "none" => handler[d] = "admit" \/ handler[d] \in Through
    /\ handler[d] \in {"admit", "wait"} => status[d] # "none"
    /\ place[d] # "none" => status[d] \in {"queued", "running"}
    /\ place[d] # "none" \/ status[d] \in {"running"} \cup Ended => handler[d] \in Through

\* A press under way has found a run, and what it took out of the line stays out.
PressesHold ==
  \A p \in Presses :
    /\ press[p] \notin {"away", "nothing"} => \E d \in Runs : About(p, d)
    /\ \A d \in Runs : About(p, d) /\ press[p] = "dequeued" =>
         place[d] = "none" /\ handler[d] \in Through
    /\ \A d \in Runs : About(p, d) /\ press[p] = "withdrawn" =>
         /\ handler[d] \in Through
         /\ status[d] = "cancelled" \/ d \in unrecorded
         /\ place[d] # "none" => d \in unrecorded /\ toldIn[p] < crashes

IngressInv == TypeOK /\ OnePastClaim /\ SessionsAgree /\ RunsAreDriven /\ PressesHold

LEMMA DeliveryTypes ==
  ASSUME NEW d \in Deliveries
  PROVE  MessageOf(d) \in Messages /\ Thread(d) \in Threads /\ d # NoSession
BY IngressAssumption DEF IngressAssumption, MessageOf, Thread

\* A step that changes no run but lets an Accept fail leaves runs and presses as they are.
LEMMA RunsStay ==
  ASSUME IngressInv, UNCHANGED <<status, place, pressVars, crashes>>,
         \A e \in Deliveries : handler'[e] \notin {"admit", "wait"} \/ handler'[e] = handler[e],
         \A e \in Runs : handler'[e] = handler[e] \/ handler'[e] = "failed"
  PROVE  RunsAreDriven' /\ PressesHold'
<1>1. /\ status' = status /\ place' = place /\ press' = press /\ unrecorded' = unrecorded
      /\ toldIn' = toldIn /\ crashes' = crashes
  BY DEF pressVars
<1>2. Runs' = Runs /\ \A e \in Deliveries : status[e] # "none" <=> e \in Runs
  BY <1>1 DEF Runs
<1>3. \A e \in Runs : e \in Deliveries /\ (handler[e] \in Through => handler'[e] \in Through)
  BY DEF Runs, Through
<1>4. RunsAreDriven'
  <2> SUFFICES ASSUME NEW d \in Deliveries
               PROVE  /\ status[d] # "none" => handler'[d] = "admit" \/ handler'[d] \in Through
                      /\ handler'[d] \in {"admit", "wait"} => status[d] # "none"
                      /\ place[d] # "none" => status[d] \in {"queued", "running"}
                      /\ place[d] # "none" \/ status[d] \in {"running"} \cup Ended =>
                           handler'[d] \in Through
    BY <1>1 DEF RunsAreDriven
  <2>1. /\ status[d] # "none" => handler[d] = "admit" \/ handler[d] \in Through
        /\ handler[d] \in {"admit", "wait"} => status[d] # "none"
        /\ place[d] # "none" => status[d] \in {"queued", "running"}
        /\ place[d] # "none" \/ status[d] \in {"running"} \cup Ended => handler[d] \in Through
    BY DEF IngressInv, RunsAreDriven
  <2>2. handler[d] \in Through => handler'[d] \in Through \/ status[d] = "none"
    BY <1>2, <1>3
  <2>3. place[d] # "none" \/ status[d] \in {"running"} \cup Ended => status[d] # "none"
    BY <2>1 DEF Ended
  <2>4. status[d] # "none" => handler'[d] = handler[d] \/ handler'[d] = "failed"
    BY <1>2
  <2>5. status[d] # "none" => handler'[d] = "admit" \/ handler'[d] \in Through
    BY <2>1, <2>4 DEF Through
  <2>6. handler'[d] \in {"admit", "wait"} => status[d] # "none"
    BY <2>1
  <2> QED BY <2>1, <2>2, <2>3, <2>5, <2>6
<1>5. PressesHold'
  BY <1>1, <1>2, <1>3 DEF IngressInv, PressesHold, About
<1> QED BY <1>4, <1>5

\* A platform delivers a message.
LEMMA ArriveKeeps ==
  ASSUME IngressInv, NEW d \in Deliveries, Arrive(d)
  PROVE  IngressInv'
<1>1. MessageOf(d) \in Messages /\ Thread(d) \in Threads /\ d # NoSession
  BY DeliveryTypes
<1>2. TypeOK'
  BY <1>1 DEF IngressInv, TypeOK, Handling, Answered, Ended, Goto, RunsUnchanged, pressVars, Arrive
<1>3. OnePastClaim'
  <2>1. \A e \in Deliveries : Past(e)' => Past(e) /\ session'[e] = session[e]
    BY DEF IngressInv, TypeOK, RunsAreDriven, Past, Runs, Ended, Handling, Through, Goto,
         RunsUnchanged, Arrive
  <2>2. claims' = claims
    BY DEF Goto, RunsUnchanged, Arrive
  <2> QED BY <2>1, <2>2 DEF IngressInv, OnePastClaim
<1>4. SessionsAgree'
  BY <1>1 DEF IngressInv, TypeOK, SessionsAgree, Thread, Goto, RunsUnchanged, Arrive
<1>5. RunsAreDriven' /\ PressesHold'
  <2>1. /\ handler[d] = "away"
        /\ UNCHANGED <<status, place, pressVars, crashes>>
        /\ handler'[d] = "lookup"
        /\ \A e \in Deliveries : e # d => handler'[e] = handler[e]
    BY DEF IngressInv, TypeOK, Goto, RunsUnchanged, Handling, Arrive
  <2>2. d \notin Runs
    BY <2>1 DEF IngressInv, RunsAreDriven, Runs, Through
  <2>3. \A e \in Runs : handler'[e] = handler[e] \/ handler'[e] = "failed"
    BY <2>1, <2>2 DEF Runs
  <2> QED BY <2>1, <2>3, RunsStay
<1> QED BY <1>2, <1>3, <1>4, <1>5 DEF IngressInv

\* The session of the conversation is looked up.
LEMMA LookupKeeps ==
  ASSUME IngressInv, NEW d \in Deliveries, Lookup(d)
  PROVE  IngressInv'
<1>1. MessageOf(d) \in Messages /\ Thread(d) \in Threads /\ d # NoSession
  BY DeliveryTypes
<1>2. TypeOK'
  BY <1>1 DEF IngressInv, TypeOK, Handling, Answered, Ended, Goto, RunsUnchanged, pressVars, Lookup
<1>3. OnePastClaim'
  <2>1. \A e \in Deliveries : Past(e)' => Past(e) /\ session'[e] = session[e]
    BY DEF IngressInv, TypeOK, RunsAreDriven, Past, Runs, Ended, Handling, Through, Goto,
         RunsUnchanged, Lookup
  <2>2. claims' = claims
    BY DEF Goto, RunsUnchanged, Lookup
  <2> QED BY <2>1, <2>2 DEF IngressInv, OnePastClaim
<1>4. SessionsAgree'
  BY <1>1 DEF IngressInv, TypeOK, SessionsAgree, Thread, Goto, RunsUnchanged, Lookup
<1>5. RunsAreDriven' /\ PressesHold'
  <2>1. /\ handler[d] = "lookup"
        /\ UNCHANGED <<status, place, pressVars, crashes>>
        /\ handler'[d] \in {"create", "claim"}
        /\ \A e \in Deliveries : e # d => handler'[e] = handler[e]
    BY DEF IngressInv, TypeOK, Goto, RunsUnchanged, Handling, Lookup
  <2>2. d \notin Runs
    BY <2>1 DEF IngressInv, RunsAreDriven, Runs, Through
  <2>3. \A e \in Runs : handler'[e] = handler[e] \/ handler'[e] = "failed"
    BY <2>1, <2>2 DEF Runs
  <2> QED BY <2>1, <2>3, RunsStay
<1> QED BY <1>2, <1>3, <1>4, <1>5 DEF IngressInv

\* A session is made for a conversation that has none.
LEMMA CreateKeeps ==
  ASSUME IngressInv, NEW d \in Deliveries, Create(d)
  PROVE  IngressInv'
<1>1. MessageOf(d) \in Messages /\ Thread(d) \in Threads /\ d # NoSession
  BY DeliveryTypes
<1>2. TypeOK'
  BY <1>1 DEF IngressInv, TypeOK, Handling, Answered, Ended, Goto, RunsUnchanged, pressVars, Create
<1>3. OnePastClaim'
  <2>1. \A e \in Deliveries : Past(e)' => Past(e) /\ session'[e] = session[e]
    BY DEF IngressInv, TypeOK, RunsAreDriven, Past, Runs, Ended, Handling, Through, Goto,
         RunsUnchanged, Create
  <2>2. claims' = claims
    BY DEF Goto, RunsUnchanged, Create
  <2> QED BY <2>1, <2>2 DEF IngressInv, OnePastClaim
<1>4. SessionsAgree'
  BY <1>1 DEF IngressInv, TypeOK, SessionsAgree, Thread, Goto, RunsUnchanged, Create
<1>5. RunsAreDriven' /\ PressesHold'
  <2>1. /\ handler[d] = "create"
        /\ UNCHANGED <<status, place, pressVars, crashes>>
        /\ handler'[d] = "link"
        /\ \A e \in Deliveries : e # d => handler'[e] = handler[e]
    BY DEF IngressInv, TypeOK, Goto, RunsUnchanged, Handling, Create
  <2>2. d \notin Runs
    BY <2>1 DEF IngressInv, RunsAreDriven, Runs, Through
  <2>3. \A e \in Runs : handler'[e] = handler[e] \/ handler'[e] = "failed"
    BY <2>1, <2>2 DEF Runs
  <2> QED BY <2>1, <2>3, RunsStay
<1> QED BY <1>2, <1>3, <1>4, <1>5 DEF IngressInv

\* The conversation gets the session, or another delivery has given it one.
LEMMA LinkKeeps ==
  ASSUME IngressInv, NEW d \in Deliveries, Link(d)
  PROVE  IngressInv'
<1>1. MessageOf(d) \in Messages /\ Thread(d) \in Threads /\ d # NoSession
  BY DeliveryTypes
<1>2. TypeOK'
  BY <1>1 DEF IngressInv, TypeOK, Handling, Answered, Ended, Goto, RunsUnchanged, pressVars, Link
<1>3. OnePastClaim'
  <2>1. \A e \in Deliveries : Past(e)' => Past(e) /\ session'[e] = session[e]
    BY DEF IngressInv, TypeOK, RunsAreDriven, Past, Runs, Ended, Handling, Through, Goto,
         RunsUnchanged, Link
  <2>2. claims' = claims
    BY DEF Goto, RunsUnchanged, Link
  <2> QED BY <2>1, <2>2 DEF IngressInv, OnePastClaim
<1>4. SessionsAgree'
  <2>1. CASE link[Thread(d)] = NoSession
    <3>1. link' = [link EXCEPT ![Thread(d)] = session[d]] /\ session' = session /\ claims' = claims
      BY <2>1 DEF Link, Goto
    <3>2. \A e \in Deliveries :
            handler'[e] \in {"claim", "send"} => session'[e] = link'[Thread(e)]
      <4> SUFFICES ASSUME NEW e \in Deliveries, handler'[e] \in {"claim", "send"}
                   PROVE  session[e] = link'[Thread(e)]
        BY <3>1
      <4>1. CASE e = d
        BY <1>1, <3>1, <4>1 DEF IngressInv, TypeOK
      <4>2. CASE e # d
        <5>1. handler[e] \in {"claim", "send"} /\ Thread(e) \in Threads
          BY <4>2, DeliveryTypes DEF IngressInv, TypeOK, Link, Goto
        <5>2. session[e] = link[Thread(e)] /\ session[e] # NoSession
          BY <5>1 DEF IngressInv, TypeOK, SessionsAgree
        <5> QED BY <1>1, <2>1, <3>1, <5>1, <5>2 DEF IngressInv, TypeOK
      <4> QED BY <4>1, <4>2
    <3>3. \A m \in Messages : claims[m] # NoSession => claims[m] = link'[ThreadOf[m]]
      BY <1>1, <2>1, <3>1, IngressAssumption DEF IngressAssumption, IngressInv, TypeOK,
           SessionsAgree
    <3> QED BY <3>1, <3>2, <3>3 DEF SessionsAgree
  <2>2. CASE link[Thread(d)] # NoSession
    BY <1>1, <2>2 DEF IngressInv, TypeOK, SessionsAgree, Link, Goto
  <2> QED BY <2>1, <2>2
<1>5. RunsAreDriven' /\ PressesHold'
  <2>1. /\ handler[d] = "link"
        /\ UNCHANGED <<status, place, pressVars, crashes>>
        /\ handler'[d] = "claim"
        /\ \A e \in Deliveries : e # d => handler'[e] = handler[e]
    BY DEF IngressInv, TypeOK, Goto, RunsUnchanged, Handling, Link
  <2>2. d \notin Runs
    BY <2>1 DEF IngressInv, RunsAreDriven, Runs, Through
  <2>3. \A e \in Runs : handler'[e] = handler[e] \/ handler'[e] = "failed"
    BY <2>1, <2>2 DEF Runs
  <2> QED BY <2>1, <2>3, RunsStay
<1> QED BY <1>2, <1>3, <1>4, <1>5 DEF IngressInv

\* The message is claimed, or was.
LEMMA ClaimKeeps ==
  ASSUME IngressInv, NEW d \in Deliveries, Claim(d)
  PROVE  IngressInv'
<1>1. MessageOf(d) \in Messages /\ Thread(d) \in Threads /\ d # NoSession
  BY DeliveryTypes
<1>2. TypeOK'
  BY <1>1 DEF IngressInv, TypeOK, Handling, Answered, Ended, Goto, RunsUnchanged, pressVars, Claim
<1>3. OnePastClaim'
  <2>1. CASE claims[MessageOf(d)] = NoSession
    <3>1. \A e \in Deliveries : Past(e)' => Past(e) \/ e = d
      BY DEF IngressInv, TypeOK, Past, Runs, Goto, RunsUnchanged, Claim
    <3>2. claims' = [claims EXCEPT ![MessageOf(d)] = session[d]] /\ session' = session
      BY <2>1 DEF Claim
    <3>3. session[d] # NoSession
      BY DEF IngressInv, TypeOK, Claim
    <3>4. \A e \in Deliveries : Past(e) => MessageOf(e) # MessageOf(d)
      BY <2>1 DEF IngressInv, OnePastClaim
    <3>5. \A e \in Deliveries : MessageOf(e) \in Messages
      BY DeliveryTypes
    <3> QED BY <3>1, <3>2, <3>3, <3>4, <3>5 DEF IngressInv, TypeOK, OnePastClaim
  <2>2. CASE claims[MessageOf(d)] # NoSession
    <3>1. \A e \in Deliveries : Past(e)' => Past(e)
      BY <2>2 DEF IngressInv, TypeOK, Past, Runs, Goto, RunsUnchanged, Claim
    <3>2. claims' = claims /\ session' = session
      BY <2>2 DEF Claim
    <3> QED BY <3>1, <3>2 DEF IngressInv, OnePastClaim
  <2> QED BY <2>1, <2>2
<1>4. SessionsAgree'
  BY <1>1 DEF IngressInv, TypeOK, SessionsAgree, Thread, Goto, RunsUnchanged, Claim
<1>5. RunsAreDriven' /\ PressesHold'
  <2>1. /\ handler[d] = "claim"
        /\ UNCHANGED <<status, place, pressVars, crashes>>
        /\ handler'[d] \in {"send", "duplicate"}
        /\ \A e \in Deliveries : e # d => handler'[e] = handler[e]
    BY DEF IngressInv, TypeOK, Goto, RunsUnchanged, Handling, Claim
  <2>2. d \notin Runs
    BY <2>1 DEF IngressInv, RunsAreDriven, Runs, Through
  <2>3. \A e \in Runs : handler'[e] = handler[e] \/ handler'[e] = "failed"
    BY <2>1, <2>2 DEF Runs
  <2> QED BY <2>1, <2>3, RunsStay
<1> QED BY <1>2, <1>3, <1>4, <1>5 DEF IngressInv

\* A step of a delivery fails.
LEMMA GiveUpKeeps ==
  ASSUME IngressInv, NEW d \in Deliveries, GiveUp(d)
  PROVE  IngressInv'
<1>1. MessageOf(d) \in Messages /\ Thread(d) \in Threads /\ d # NoSession
  BY DeliveryTypes
<1>2. TypeOK'
  BY <1>1 DEF IngressInv, TypeOK, Handling, Answered, Ended, Goto, RunsUnchanged, pressVars, GiveUp
<1>3. OnePastClaim'
  <2>1. \A e \in Deliveries : Past(e)' => Past(e) /\ session'[e] = session[e]
    BY DEF IngressInv, TypeOK, RunsAreDriven, Past, Runs, Ended, Handling, Through, Goto,
         RunsUnchanged, GiveUp
  <2>2. claims' = claims
    BY DEF Goto, RunsUnchanged, GiveUp
  <2> QED BY <2>1, <2>2 DEF IngressInv, OnePastClaim
<1>4. SessionsAgree'
  BY <1>1 DEF IngressInv, TypeOK, SessionsAgree, Thread, Goto, RunsUnchanged, GiveUp
<1>5. RunsAreDriven' /\ PressesHold'
  <2>1. /\ handler[d] \in Handling \ {"wait"}
        /\ UNCHANGED <<status, place, pressVars, crashes>>
        /\ handler'[d] = "failed"
        /\ \A e \in Deliveries : e # d => handler'[e] = handler[e]
    BY DEF IngressInv, TypeOK, Goto, RunsUnchanged, Handling, GiveUp
  <2>2. handler'[d] = "failed"
    BY <2>1 DEF IngressInv, RunsAreDriven, Runs, Through
  <2>3. \A e \in Runs : handler'[e] = handler[e] \/ handler'[e] = "failed"
    BY <2>1, <2>2 DEF Runs
  <2> QED BY <2>1, <2>3, RunsStay
<1> QED BY <1>2, <1>3, <1>4, <1>5 DEF IngressInv

\* A delivery past its claim stays the only one, as long as no other gets there.
LEMMA ClaimsStay ==
  ASSUME IngressInv, link' = link, claims' = claims, session' = session,
         \A e \in Deliveries : Past(e)' => Past(e),
         \A e \in Deliveries : handler'[e] \in {"claim", "send"} => handler'[e] = handler[e]
  PROVE  OnePastClaim' /\ SessionsAgree'
<1>1. OnePastClaim'
  BY DEF IngressInv, OnePastClaim
<1>2. SessionsAgree'
  BY DEF IngressInv, SessionsAgree
<1> QED BY <1>1, <1>2

\* The run gets its row.
LEMMA CreateRunKeeps ==
  ASSUME IngressInv, NEW d \in Deliveries, CreateRun(d)
  PROVE  IngressInv'
<1>1. /\ handler[d] = "send" /\ handler'[d] = "admit" /\ status'[d] = "queued"
      /\ \A e \in Deliveries : e # d => handler'[e] = handler[e] /\ status'[e] = status[e]
      /\ place' = place /\ press' = press /\ unrecorded' = unrecorded /\ toldIn' = toldIn
      /\ crashes' = crashes /\ link' = link /\ claims' = claims /\ session' = session
  BY DEF IngressInv, TypeOK, CreateRun, SetStatus, Goto, pressVars
<1>2. TypeOK'
  BY DEF IngressInv, TypeOK, Handling, Answered, Ended, Goto, SetStatus, pressVars, CreateRun
<1>3. OnePastClaim' /\ SessionsAgree'
  <2>1. \A e \in Deliveries : Past(e)' => Past(e)
    BY <1>1 DEF Past, Runs
  <2>2. \A e \in Deliveries : handler'[e] \in {"claim", "send"} => handler'[e] = handler[e]
    BY <1>1
  <2> QED BY <1>1, <2>1, <2>2, ClaimsStay
<1>4. status[d] = "none" /\ place[d] = "none"
  BY <1>1 DEF IngressInv, RunsAreDriven, Through
<1>5. RunsAreDriven'
  BY <1>1, <1>4 DEF IngressInv, RunsAreDriven, Ended
<1>6. PressesHold'
  <2>1. \A p \in Presses : About(p, d) => press[p] \in {"away", "nothing"}
    <3> SUFFICES ASSUME NEW p \in Presses, About(p, d), press[p] \notin {"away", "nothing"}
                 PROVE  FALSE
      OBVIOUS
    <3>1. PICK e \in Runs : About(p, e)
      BY DEF IngressInv, PressesHold
    <3>2. e = d
      BY <1>1, <3>1 DEF IngressInv, OnePastClaim, Past, Runs, About
    <3> QED BY <1>4, <3>1, <3>2 DEF Runs
  <2>2. Runs \subseteq Runs' /\ \A e \in Runs' : e = d \/ (e \in Runs /\ e # d)
    BY <1>1, <1>4 DEF Runs
  <2>3. \A e \in Runs : e \in Deliveries /\ e # d
    BY <1>4 DEF Runs
  <2> QED BY <1>1, <2>1, <2>2, <2>3 DEF IngressInv, PressesHold, About
<1> QED BY <1>2, <1>3, <1>5, <1>6 DEF IngressInv

\* The run takes the turn, or gets in line.
LEMMA AdmitKeeps ==
  ASSUME IngressInv, NEW d \in Deliveries, Admit(d)
  PROVE  IngressInv'
<1>1. /\ handler[d] = "admit" /\ handler'[d] \in {"wait", "accepted"}
      /\ \A e \in Deliveries : e # d => handler'[e] = handler[e] /\ place'[e] = place[e]
      /\ status' = status /\ press' = press /\ unrecorded' = unrecorded /\ toldIn' = toldIn
      /\ crashes' = crashes /\ link' = link /\ claims' = claims /\ session' = session
  BY DEF IngressInv, TypeOK, Admit, SetPlace, Goto, pressVars
<1>2. TypeOK'
  BY DEF IngressInv, TypeOK, Handling, Answered, Goto, SetPlace, pressVars, Admit
<1>3. OnePastClaim' /\ SessionsAgree'
  <2>1. \A e \in Deliveries : Past(e)' => Past(e)
    BY <1>1 DEF Past, Runs
  <2>2. \A e \in Deliveries : handler'[e] \in {"claim", "send"} => handler'[e] = handler[e]
    BY <1>1
  <2> QED BY <1>1, <2>1, <2>2, ClaimsStay
<1>4. status[d] \in {"queued", "running"} /\ d \in Runs
  <2>1. status[d] # "none" /\ status[d] \notin {"running"} \cup Ended
    BY <1>1 DEF IngressInv, RunsAreDriven, Through
  <2> QED BY <2>1 DEF IngressInv, TypeOK, Runs
<1>5. RunsAreDriven'
  BY <1>1, <1>4 DEF IngressInv, RunsAreDriven, Through
<1>6. PressesHold'
  <2>1. \A p \in Presses : About(p, d) => press[p] \notin {"dequeued", "withdrawn"}
    BY <1>1, <1>4 DEF IngressInv, PressesHold, Through
  <2>2. Runs' = Runs /\ Runs \subseteq Deliveries
    BY <1>1 DEF Runs
  <2> QED BY <1>1, <2>1, <2>2 DEF IngressInv, PressesHold, About
<1> QED BY <1>2, <1>3, <1>5, <1>6 DEF IngressInv

\* The wait is recorded, perhaps over a cancellation.
LEMMA RecordWaitKeeps ==
  ASSUME IngressInv, NEW d \in Deliveries, RecordWait(d)
  PROVE  IngressInv'
<1>1. /\ handler[d] = "wait" /\ handler'[d] = "accepted" /\ status'[d] = "queued"
      /\ \A e \in Deliveries : e # d => handler'[e] = handler[e] /\ status'[e] = status[e]
      /\ unrecorded \subseteq unrecorded' /\ (status[d] = "cancelled" => d \in unrecorded')
      /\ place' = place /\ press' = press /\ toldIn' = toldIn
      /\ crashes' = crashes /\ link' = link /\ claims' = claims /\ session' = session
  BY DEF IngressInv, TypeOK, RecordWait, SetStatus, Goto
<1>2. TypeOK'
  BY DEF IngressInv, TypeOK, Handling, Answered, Ended, Goto, SetStatus, RecordWait
<1>3. status[d] # "none"
  BY <1>1 DEF IngressInv, RunsAreDriven
<1>4. OnePastClaim' /\ SessionsAgree'
  <2>1. \A e \in Deliveries : Past(e)' => Past(e)
    BY <1>1, <1>3 DEF Past, Runs
  <2>2. \A e \in Deliveries : handler'[e] \in {"claim", "send"} => handler'[e] = handler[e]
    BY <1>1
  <2> QED BY <1>1, <2>1, <2>2, ClaimsStay
<1>5. RunsAreDriven'
  BY <1>1 DEF IngressInv, RunsAreDriven, Through, Ended
<1>6. PressesHold'
  <2>1. Runs' = Runs /\ Runs \subseteq Deliveries
    BY <1>1, <1>3 DEF Runs
  <2>2. \A e \in Runs : handler[e] \in Through => handler'[e] \in Through
    BY <1>1, <2>1 DEF Through
  <2>3. \A e \in Runs : status[e] = "cancelled" \/ e \in unrecorded =>
          status'[e] = "cancelled" \/ e \in unrecorded'
    BY <1>1, <2>1
  <2> QED BY <1>1, <2>1, <2>2, <2>3 DEF IngressInv, PressesHold, About
<1> QED BY <1>2, <1>4, <1>5, <1>6 DEF IngressInv

\* The wait cannot be recorded.
LEMMA WaitNotRecordedKeeps ==
  ASSUME IngressInv, NEW d \in Deliveries, WaitNotRecorded(d)
  PROVE  IngressInv'
<1>1. /\ handler[d] = "wait" /\ handler'[d] = "failed"
      /\ \A e \in Deliveries : e # d => handler'[e] = handler[e]
      /\ \A e \in Deliveries : place'[e] = place[e] \/ place'[e] = "none"
      /\ status' = status /\ press' = press /\ unrecorded' = unrecorded /\ toldIn' = toldIn
      /\ crashes' = crashes /\ link' = link /\ claims' = claims /\ session' = session
  BY DEF IngressInv, TypeOK, WaitNotRecorded, SetPlace, Goto, pressVars
<1>2. TypeOK'
  BY DEF IngressInv, TypeOK, Handling, Answered, Goto, SetPlace, pressVars, WaitNotRecorded
<1>3. OnePastClaim' /\ SessionsAgree'
  <2>1. \A e \in Deliveries : Past(e)' => Past(e)
    BY <1>1 DEF Past, Runs
  <2>2. \A e \in Deliveries : handler'[e] \in {"claim", "send"} => handler'[e] = handler[e]
    BY <1>1
  <2> QED BY <1>1, <2>1, <2>2, ClaimsStay
<1>4. \A e \in Deliveries : handler[e] \in Through => handler'[e] \in Through
  BY <1>1 DEF Through
<1>5. RunsAreDriven'
  BY <1>1, <1>4 DEF IngressInv, RunsAreDriven
<1>6. PressesHold'
  <2>1. Runs' = Runs /\ Runs \subseteq Deliveries
    BY <1>1 DEF Runs
  <2> QED BY <1>1, <1>4, <2>1 DEF IngressInv, PressesHold, About
<1> QED BY <1>2, <1>3, <1>5, <1>6 DEF IngressInv
------------------------------------------------------------------------------
\* A run's turn comes.
LEMMA BeginKeeps ==
  ASSUME IngressInv, NEW d \in Deliveries, Begin(d)
  PROVE  IngressInv'
<1>1. /\ status[d] = "queued" /\ status'[d] = "running" /\ place[d] = "turn"
      /\ \A e \in Deliveries : e # d => status'[e] = status[e]
      /\ handler' = handler /\ place' = place /\ press' = press /\ unrecorded' = unrecorded
      /\ toldIn' = toldIn /\ crashes' = crashes
      /\ link' = link /\ claims' = claims /\ session' = session
  BY DEF IngressInv, TypeOK, Begin, SetStatus, requestVars, pressVars
<1>2. TypeOK'
  BY DEF IngressInv, TypeOK, Ended, Begin, SetStatus, requestVars, pressVars
<1>3. Runs' = Runs /\ Runs \subseteq Deliveries
  BY <1>1 DEF Runs
<1>4. OnePastClaim' /\ SessionsAgree'
  <2>1. \A e \in Deliveries : Past(e)' => Past(e)
    BY <1>1, <1>3 DEF Past
  <2> QED BY <1>1, <2>1, ClaimsStay
<1>5. RunsAreDriven'
  BY <1>1 DEF IngressInv, RunsAreDriven, Ended
<1>6. PressesHold'
  BY <1>1, <1>3 DEF IngressInv, PressesHold, About
<1> QED BY <1>2, <1>4, <1>5, <1>6 DEF IngressInv

\* Whoever hands the turn on has it no more, and only one in line gets it.
LEMMA TurnPasses ==
  ASSUME TypeOK, NEW d \in Deliveries, HasTurn(d), PassTurn(d)
  PROVE  /\ place' \in [Deliveries -> {"none", "line", "turn", "stopped"}]
         /\ place'[d] = "none"
         /\ \A e \in Deliveries : e # d => place'[e] = place[e] \/ place[e] = "line"
<1>1. CASE Line(session[d]) = {}
  BY <1>1 DEF PassTurn, SetPlace, TypeOK
<1>2. CASE Line(session[d]) # {}
  <2>1. PICK e \in Line(session[d]) : place' = [place EXCEPT ![d] = "none", ![e] = "turn"]
    BY <1>2 DEF PassTurn
  <2>2. e \in Deliveries /\ place[e] = "line" /\ e # d
    BY DEF Line, HasTurn
  <2> QED BY <2>1, <2>2 DEF TypeOK
<1> QED BY <1>1, <1>2

\* A run ends.
LEMMA FinishKeeps ==
  ASSUME IngressInv, NEW d \in Deliveries, Finish(d)
  PROVE  IngressInv'
<1>1. PICK end \in Ended \cup {status[d]} : SetStatus(d, end)
  BY DEF Finish
<1>2. /\ HasTurn(d) /\ handler' = handler /\ press' = press /\ unrecorded' = unrecorded
      /\ toldIn' = toldIn /\ crashes' = crashes
      /\ link' = link /\ claims' = claims /\ session' = session
  BY DEF Finish, requestVars, pressVars
<1>3. /\ place' \in [Deliveries -> {"none", "line", "turn", "stopped"}] /\ place'[d] = "none"
      /\ \A e \in Deliveries : e # d => place'[e] = place[e] \/ place[e] = "line"
  BY TurnPasses DEF Finish, IngressInv
<1>4. /\ status[d] \in {"queued", "running"} /\ place[d] # "none" /\ handler[d] \in Through
      /\ status'[d] \in {"queued", "running"} \cup Ended
      /\ \A e \in Deliveries : e # d => status'[e] = status[e]
  BY <1>1, <1>2 DEF HasTurn, IngressInv, TypeOK, RunsAreDriven, SetStatus
<1>5. TypeOK'
  <2>1. status' \in [Deliveries -> {"none", "queued", "running"} \cup Ended]
    BY <1>1, <1>4 DEF SetStatus, IngressInv, TypeOK
  <2> QED BY <1>2, <1>3, <2>1 DEF IngressInv, TypeOK
<1>6. Runs' = Runs /\ Runs \subseteq Deliveries
  BY <1>4 DEF Runs, Ended
<1>7. OnePastClaim' /\ SessionsAgree'
  <2>1. \A e \in Deliveries : Past(e)' => Past(e)
    BY <1>2, <1>6 DEF Past
  <2> QED BY <1>2, <2>1, ClaimsStay
<1>8. RunsAreDriven'
  <2>1. /\ status'[d] # "none" => handler'[d] = "admit" \/ handler'[d] \in Through
        /\ handler'[d] \in {"admit", "wait"} => status'[d] # "none"
        /\ place'[d] = "none" /\ handler'[d] \in Through
    BY <1>2, <1>3, <1>4, <1>6 DEF IngressInv, RunsAreDriven, Runs
  <2>2. \A e \in Deliveries : e # d =>
          /\ status'[e] # "none" => handler'[e] = "admit" \/ handler'[e] \in Through
          /\ handler'[e] \in {"admit", "wait"} => status'[e] # "none"
          /\ place'[e] # "none" => status'[e] \in {"queued", "running"}
          /\ place'[e] # "none" \/ status'[e] \in {"running"} \cup Ended => handler'[e] \in Through
    BY <1>2, <1>3, <1>4 DEF IngressInv, RunsAreDriven
  <2> QED BY <2>1, <2>2 DEF RunsAreDriven
<1>9. PressesHold'
  <2>1. \A e \in Runs : place[e] = "none" => place'[e] = "none" /\ e # d
    BY <1>3, <1>4, <1>6
  <2>2. \A p \in Presses : \A e \in Runs : About(p, e) /\ press[p] = "withdrawn" =>
          /\ status'[e] = "cancelled" \/ e \in unrecorded
          /\ place'[e] # "none" => e \in unrecorded /\ toldIn[p] < crashes
    <3> SUFFICES ASSUME NEW p \in Presses, NEW e \in Runs, About(p, e), press[p] = "withdrawn"
                 PROVE  /\ status'[e] = "cancelled" \/ e \in unrecorded
                        /\ place'[e] # "none" => e \in unrecorded /\ toldIn[p] < crashes
      OBVIOUS
    <3>1. /\ status[e] = "cancelled" \/ e \in unrecorded
          /\ place[e] # "none" => e \in unrecorded /\ toldIn[p] < crashes
      BY DEF IngressInv, PressesHold
    <3>2. CASE e = d
      BY <1>3, <1>4, <3>1, <3>2
    <3>3. CASE e # d
      BY <1>4, <1>6, <2>1, <3>1, <3>3
    <3> QED BY <3>2, <3>3
  <2> QED BY <1>2, <1>6, <2>1, <2>2 DEF IngressInv, PressesHold, About
<1> QED BY <1>5, <1>7, <1>8, <1>9 DEF IngressInv
------------------------------------------------------------------------------
\* What an answer to a press changes.
LEMMA AnswerTypes ==
  ASSUME TypeOK, NEW p \in Presses,
         NEW word \in {"picked", "found", "dequeued", "withdrawn", "nothing"}, Answer(p, word)
  PROVE  /\ press' \in [Presses -> {"away", "picked", "found", "dequeued", "withdrawn", "nothing"}]
         /\ toldIn' \in [Presses -> 0 .. crashes]
         /\ press'[p] = word
         /\ \A q \in Presses : q # p => press'[q] = press[q] /\ toldIn'[q] = toldIn[q]
BY DEF TypeOK, Answer

\* Only one run is about a press.
LEMMA OneRunPressed ==
  ASSUME IngressInv, NEW p \in Presses, NEW d \in Runs, NEW e \in Runs, About(p, d), About(p, e)
  PROVE  e = d
BY DEF IngressInv, OnePastClaim, Past, Runs, About

\* A press looks for the run, or at its row.
LEMMA LookKeeps ==
  ASSUME IngressInv, NEW p \in Presses, NEW d \in Deliveries, PickRun(p, d) \/ Reread(p, d)
  PROVE  IngressInv'
<1>1. PICK word \in {"picked", "found", "withdrawn", "nothing"} :
        /\ Answer(p, word) /\ About(p, d)
        /\ word = "withdrawn" => status[d] = "cancelled"
        /\ word # "nothing" => press[p] = "picked" \/ status[d] = "queued"
  BY DEF PickRun, Reread
<1>2. /\ status' = status /\ place' = place /\ unrecorded' = unrecorded /\ crashes' = crashes
      /\ handler' = handler /\ link' = link /\ claims' = claims /\ session' = session
  BY DEF PickRun, Reread, requestVars
<1>3. /\ press' \in [Presses -> {"away", "picked", "found", "dequeued", "withdrawn", "nothing"}]
      /\ toldIn' \in [Presses -> 0 .. crashes] /\ press'[p] = word
      /\ \A q \in Presses : q # p => press'[q] = press[q] /\ toldIn'[q] = toldIn[q]
  BY <1>1, AnswerTypes DEF IngressInv
<1>4. TypeOK'
  BY <1>2, <1>3 DEF IngressInv, TypeOK
<1>5. Runs' = Runs /\ Runs \subseteq Deliveries
  BY <1>2 DEF Runs
<1>6. OnePastClaim' /\ SessionsAgree'
  <2>1. \A e \in Deliveries : Past(e)' => Past(e)
    BY <1>2, <1>5 DEF Past
  <2> QED BY <1>2, <2>1, ClaimsStay
<1>7. RunsAreDriven'
  BY <1>2 DEF IngressInv, RunsAreDriven
<1>8. PressesHold'
  <2> SUFFICES ASSUME NEW q \in Presses
               PROVE  /\ press'[q] \notin {"away", "nothing"} => \E e \in Runs : About(q, e)
                      /\ \A e \in Runs : About(q, e) /\ press'[q] = "dequeued" =>
                           place[e] = "none" /\ handler[e] \in Through
                      /\ \A e \in Runs : About(q, e) /\ press'[q] = "withdrawn" =>
                           /\ handler[e] \in Through
                           /\ status[e] = "cancelled" \/ e \in unrecorded
                           /\ place[e] # "none" => e \in unrecorded /\ toldIn'[q] < crashes
    BY <1>2, <1>5 DEF PressesHold, About
  <2>1. CASE q # p
    BY <1>3, <2>1 DEF IngressInv, PressesHold
  <2>2. CASE q = p
    <3>1. word # "nothing" => \E e \in Runs : About(p, e)
      BY <1>1 DEF IngressInv, PressesHold, Runs
    <3>2. ASSUME word = "withdrawn", NEW e \in Runs, About(p, e)
          PROVE  status[e] = "cancelled" /\ place[e] = "none" /\ handler[e] \in Through
      <4>1. status[d] = "cancelled" /\ d \in Runs
        BY <1>1, <3>2 DEF Runs
      <4>2. e = d
        BY <1>1, <3>2, <4>1, OneRunPressed
      <4> QED BY <4>1, <4>2 DEF IngressInv, RunsAreDriven, Ended
    <3> QED BY <1>3, <2>2, <3>1, <3>2
  <2> QED BY <2>1, <2>2
<1> QED BY <1>4, <1>6, <1>7, <1>8 DEF IngressInv

\* The run is taken out of the line, or stopped.
LEMMA DequeueKeeps ==
  ASSUME IngressInv, NEW p \in Presses, NEW d \in Deliveries, Dequeue(p, d)
  PROVE  IngressInv'
<1>1. PICK word \in {"dequeued", "nothing"} :
        Answer(p, word) /\ (word = "dequeued" => place[d] = "line")
  BY DEF Dequeue
<1>2. /\ status' = status /\ unrecorded' = unrecorded /\ crashes' = crashes
      /\ handler' = handler /\ link' = link /\ claims' = claims /\ session' = session
      /\ About(p, d) /\ status[d] # "none"
  BY DEF Dequeue, requestVars
<1>3. /\ press' \in [Presses -> {"away", "picked", "found", "dequeued", "withdrawn", "nothing"}]
      /\ toldIn' \in [Presses -> 0 .. crashes] /\ press'[p] = word
      /\ \A q \in Presses : q # p => press'[q] = press[q] /\ toldIn'[q] = toldIn[q]
  BY <1>1, AnswerTypes DEF IngressInv
<1>4. /\ place' \in [Deliveries -> {"none", "line", "turn", "stopped"}]
      /\ \A e \in Deliveries : place[e] = "none" => place'[e] = "none"
      /\ \A e \in Deliveries : place'[e] # "none" => place[e] # "none"
      /\ place[d] = "line" => place'[d] = "none"
  <2>1. CASE place[d] = "line"
    <3>1. place' = [place EXCEPT ![d] = "none"]
      BY <2>1 DEF Dequeue, SetPlace
    <3> QED BY <2>1, <3>1 DEF IngressInv, TypeOK
  <2>2. CASE place[d] = "turn"
    <3>1. place' = [place EXCEPT ![d] = "stopped"]
      BY <2>2 DEF Dequeue, SetPlace
    <3> QED BY <2>2, <3>1 DEF IngressInv, TypeOK
  <2>3. CASE place[d] \notin {"line", "turn"}
    <3>1. place' = place
      BY <2>3 DEF Dequeue
    <3> QED BY <2>3, <3>1 DEF IngressInv, TypeOK
  <2> QED BY <2>1, <2>2, <2>3
<1>5. TypeOK'
  BY <1>2, <1>3, <1>4 DEF IngressInv, TypeOK
<1>6. Runs' = Runs /\ Runs \subseteq Deliveries
  BY <1>2 DEF Runs
<1>7. OnePastClaim' /\ SessionsAgree'
  <2>1. \A e \in Deliveries : Past(e)' => Past(e)
    BY <1>2, <1>6 DEF Past
  <2> QED BY <1>2, <2>1, ClaimsStay
<1>8. RunsAreDriven'
  BY <1>2, <1>4 DEF IngressInv, RunsAreDriven
<1>9. PressesHold'
  <2> SUFFICES ASSUME NEW q \in Presses
               PROVE  /\ press'[q] \notin {"away", "nothing"} => \E e \in Runs : About(q, e)
                      /\ \A e \in Runs : About(q, e) /\ press'[q] = "dequeued" =>
                           place'[e] = "none" /\ handler[e] \in Through
                      /\ \A e \in Runs : About(q, e) /\ press'[q] = "withdrawn" =>
                           /\ handler[e] \in Through
                           /\ status[e] = "cancelled" \/ e \in unrecorded
                           /\ place'[e] # "none" => e \in unrecorded /\ toldIn'[q] < crashes
    BY <1>2, <1>6 DEF PressesHold, About
  <2>1. CASE q # p
    BY <1>3, <1>4, <1>6, <2>1 DEF IngressInv, PressesHold
  <2>2. CASE q = p
    <3>1. d \in Runs
      BY <1>2 DEF Runs
    <3>2. ASSUME word = "dequeued", NEW e \in Runs, About(p, e)
          PROVE  place'[e] = "none" /\ handler[e] \in Through
      <4>1. e = d
        BY <1>2, <3>1, <3>2, OneRunPressed
      <4> QED BY <1>1, <1>4, <3>2, <4>1 DEF IngressInv, RunsAreDriven
    <3> QED BY <1>2, <1>3, <2>2, <3>1, <3>2
  <2> QED BY <2>1, <2>2
<1> QED BY <1>5, <1>7, <1>8, <1>9 DEF IngressInv

\* The cancellation is recorded, or not.
LEMMA RecordCancelledKeeps ==
  ASSUME IngressInv, NEW p \in Presses, NEW d \in Deliveries, RecordCancelled(p, d)
  PROVE  IngressInv'
<1>1. /\ Answer(p, "withdrawn") /\ About(p, d) /\ status[d] # "none" /\ press[p] = "dequeued"
      /\ handler' = handler /\ link' = link /\ claims' = claims /\ session' = session
      /\ place' = place /\ crashes' = crashes
  BY DEF RecordCancelled, requestVars
<1>2. /\ press' \in [Presses -> {"away", "picked", "found", "dequeued", "withdrawn", "nothing"}]
      /\ toldIn' \in [Presses -> 0 .. crashes] /\ press'[p] = "withdrawn"
      /\ \A q \in Presses : q # p => press'[q] = press[q] /\ toldIn'[q] = toldIn[q]
  BY <1>1, AnswerTypes DEF IngressInv
<1>3. /\ status' \in [Deliveries -> {"none", "queued", "running"} \cup Ended]
      /\ unrecorded' \subseteq Deliveries /\ unrecorded \subseteq unrecorded'
      /\ status'[d] = "cancelled" \/ (status'[d] = status[d] /\ d \in unrecorded')
      /\ \A e \in Deliveries : e # d => status'[e] = status[e]
  BY DEF RecordCancelled, SetStatus, IngressInv, TypeOK, Ended
<1>4. TypeOK'
  BY <1>1, <1>2, <1>3 DEF IngressInv, TypeOK
<1>5. Runs' = Runs /\ Runs \subseteq Deliveries /\ d \in Runs
  BY <1>1, <1>3 DEF Runs
<1>6. OnePastClaim' /\ SessionsAgree'
  <2>1. \A e \in Deliveries : Past(e)' => Past(e)
    BY <1>1, <1>5 DEF Past
  <2> QED BY <1>1, <2>1, ClaimsStay
<1>7. place[d] = "none" /\ handler[d] \in Through
  BY <1>1, <1>5 DEF IngressInv, PressesHold
<1>8. RunsAreDriven'
  BY <1>1, <1>3, <1>7 DEF IngressInv, RunsAreDriven
<1>9. PressesHold'
  <2> SUFFICES ASSUME NEW q \in Presses
               PROVE  /\ press'[q] \notin {"away", "nothing"} => \E e \in Runs : About(q, e)
                      /\ \A e \in Runs : About(q, e) /\ press'[q] = "dequeued" =>
                           place[e] = "none" /\ handler[e] \in Through
                      /\ \A e \in Runs : About(q, e) /\ press'[q] = "withdrawn" =>
                           /\ handler[e] \in Through
                           /\ status'[e] = "cancelled" \/ e \in unrecorded'
                           /\ place[e] # "none" => e \in unrecorded' /\ toldIn'[q] < crashes
    BY <1>1, <1>5 DEF PressesHold, About
  <2>1. CASE q # p
    <3>1. \A e \in Runs : status[e] = "cancelled" \/ e \in unrecorded =>
            status'[e] = "cancelled" \/ e \in unrecorded'
      BY <1>3, <1>5
    <3> QED BY <1>2, <1>3, <2>1, <3>1 DEF IngressInv, PressesHold
  <2>2. CASE q = p
    <3>1. \A e \in Runs : About(p, e) => e = d
      BY <1>1, <1>5, OneRunPressed
    <3> QED BY <1>1, <1>2, <1>3, <1>5, <1>7, <2>2, <3>1
  <2> QED BY <2>1, <2>2
<1> QED BY <1>4, <1>6, <1>8, <1>9 DEF IngressInv

\* The daemon dies.
LEMMA DeathKeeps ==
  ASSUME IngressInv, DaemonDies
  PROVE  IngressInv'
<1>1. crashes' \in 0 .. MaxCrashes /\ crashes' = crashes + 1 /\ crashes \in Nat
  <2>1. MaxCrashes \in Nat /\ crashes \in 0 .. MaxCrashes
    BY IngressAssumption DEF IngressAssumption, IngressInv, TypeOK
  <2>2. crashes < MaxCrashes /\ crashes' = crashes + 1
    BY DEF DaemonDies
  <2> QED BY <2>1, <2>2
<1>2. /\ handler' = [d \in Deliveries |-> IF handler[d] \in Handling THEN "failed" ELSE handler[d]]
      /\ status' = [d \in Deliveries |-> IF status[d] = "running" THEN "failed" ELSE status[d]]
      /\ press' = [p \in Presses |->
                     IF press[p] \in {"picked", "found", "dequeued"} THEN "nothing" ELSE press[p]]
      /\ link' = link /\ claims' = claims /\ session' = session
      /\ unrecorded' = unrecorded /\ toldIn' = toldIn
  BY DEF DaemonDies
<1>3. /\ place' \in [Deliveries -> {"none", "line", "turn", "stopped"}]
      /\ \A d \in Deliveries : place'[d] # "none" => status[d] = "queued"
  <2> DEFINE waiting == {d \in Deliveries : status[d] = "queued"}
  <2>1. PICK first \in SUBSET waiting :
          place' = [d \in Deliveries |->
            IF d \in first THEN "turn" ELSE IF d \in waiting THEN "line" ELSE "none"]
    BY DEF DaemonDies
  <2> QED BY <2>1
<1>4. TypeOK'
  <2>1. handler' \in [Deliveries -> {"away"} \cup Handling \cup Answered]
    BY <1>2 DEF IngressInv, TypeOK, Answered
  <2>2. \A d \in Deliveries :
          handler'[d] \in {"link", "claim", "send", "admit", "wait", "accepted", "duplicate"} =>
            handler'[d] = handler[d]
    BY <1>2
  <2>3. status' \in [Deliveries -> {"none", "queued", "running"} \cup Ended]
    BY <1>2 DEF IngressInv, TypeOK, Ended
  <2>4. press' \in [Presses -> {"away", "picked", "found", "dequeued", "withdrawn", "nothing"}]
    BY <1>2 DEF IngressInv, TypeOK
  <2>5. toldIn' \in [Presses -> 0 .. crashes']
    <3>1. 0 .. crashes \subseteq 0 .. crashes'
      BY <1>1
    <3> QED BY <1>2, <3>1 DEF IngressInv, TypeOK
  <2> QED BY <1>1, <1>2, <1>3, <2>1, <2>2, <2>3, <2>4, <2>5 DEF IngressInv, TypeOK
<1>5. Runs' = Runs /\ Runs \subseteq Deliveries
  BY <1>2 DEF Runs
<1>6. OnePastClaim' /\ SessionsAgree'
  <2>1. \A e \in Deliveries : Past(e)' => Past(e)
    BY <1>2, <1>5 DEF Past
  <2>2. \A e \in Deliveries : handler'[e] \in {"claim", "send"} => handler'[e] = handler[e]
    BY <1>2
  <2> QED BY <1>2, <2>1, <2>2, ClaimsStay
<1>7. \A d \in Runs : handler'[d] \in Through
  BY <1>2, <1>5 DEF IngressInv, RunsAreDriven, Runs, Through, Handling
<1>8. RunsAreDriven'
  <2>1. \A d \in Deliveries : handler'[d] \notin {"admit", "wait"}
    BY <1>2 DEF Handling
  <2>2. \A d \in Deliveries : status'[d] # "none" => handler'[d] \in Through
    BY <1>5, <1>7 DEF Runs
  <2>3. \A d \in Deliveries : place'[d] # "none" => status'[d] = "queued"
    BY <1>2, <1>3
  <2> QED BY <2>1, <2>2, <2>3 DEF RunsAreDriven, Ended
<1>9. PressesHold'
  <2> SUFFICES ASSUME NEW p \in Presses
               PROVE  /\ press'[p] \notin {"away", "nothing"} => \E e \in Runs : About(p, e)
                      /\ \A e \in Runs : About(p, e) /\ press'[p] = "dequeued" =>
                           place'[e] = "none" /\ handler'[e] \in Through
                      /\ \A e \in Runs : About(p, e) /\ press'[p] = "withdrawn" =>
                           /\ handler'[e] \in Through
                           /\ status'[e] = "cancelled" \/ e \in unrecorded
                           /\ place'[e] # "none" => e \in unrecorded /\ toldIn[p] < crashes'
    BY <1>2, <1>5 DEF PressesHold, About
  <2>1. CASE press'[p] \in {"away", "nothing"}
    BY <2>1
  <2>2. CASE press'[p] = press[p] /\ press[p] \notin {"picked", "found", "dequeued"}
    <3>1. toldIn[p] \in 0 .. crashes
      BY DEF IngressInv, TypeOK
    <3>2. toldIn[p] < crashes'
      BY <1>1, <3>1
    <3>3. \A e \in Runs : status[e] = "cancelled" => status'[e] = "cancelled"
      BY <1>2, <1>5
    <3>4. \A e \in Runs : place'[e] # "none" => status[e] # "cancelled"
      BY <1>3, <1>5
    <3> QED BY <1>7, <2>2, <3>2, <3>3, <3>4 DEF IngressInv, PressesHold
  <2> QED BY <1>2, <2>1, <2>2
<1> QED BY <1>4, <1>6, <1>8, <1>9 DEF IngressInv

LEMMA InitInv == Init => IngressInv
<1> SUFFICES ASSUME Init PROVE IngressInv
  OBVIOUS
<1>1. TypeOK
  BY IngressAssumption DEF IngressAssumption, Init, TypeOK, Handling, Answered, Ended
<1>2. OnePastClaim /\ SessionsAgree /\ RunsAreDriven /\ PressesHold
  BY IngressAssumption DEF IngressAssumption, Init, OnePastClaim, Past, Runs, SessionsAgree,
     RunsAreDriven, PressesHold, Through, Ended
<1> QED BY <1>1, <1>2 DEF IngressInv

LEMMA NextKeeps == IngressInv /\ [Next]_vars => IngressInv'
<1> SUFFICES ASSUME IngressInv, [Next]_vars PROVE IngressInv'
  OBVIOUS
<1>1. CASE UNCHANGED vars
  <2>1. /\ link' = link /\ claims' = claims /\ handler' = handler /\ session' = session
        /\ UNCHANGED <<status, place, pressVars, crashes>>
    BY <1>1 DEF vars, requestVars
  <2>2. TypeOK'
    BY <2>1 DEF IngressInv, TypeOK, pressVars
  <2>3. RunsAreDriven' /\ PressesHold'
    BY <2>1, RunsStay
  <2>4. \A e \in Deliveries : Past(e)' => Past(e)
    BY <2>1 DEF Past, Runs
  <2>5. OnePastClaim' /\ SessionsAgree'
    BY <2>1, <2>4, ClaimsStay
  <2> QED BY <2>2, <2>3, <2>5 DEF IngressInv
<1>2. CASE DaemonDies
  BY <1>2, DeathKeeps
<1>3. ASSUME NEW d \in Deliveries, Arrive(d) \/ Accept(d) \/ Begin(d) \/ Finish(d)
      PROVE  IngressInv'
  BY <1>3, ArriveKeeps, LookupKeeps, CreateKeeps, LinkKeeps, ClaimKeeps, CreateRunKeeps,
     AdmitKeeps, RecordWaitKeeps, WaitNotRecordedKeeps, GiveUpKeeps, BeginKeeps, FinishKeeps
     DEF Accept
<1>4. ASSUME NEW d \in Deliveries, NEW p \in Presses, Withdraw(p, d)
      PROVE  IngressInv'
  BY <1>4, LookKeeps, DequeueKeeps, RecordCancelledKeeps DEF Withdraw
<1> QED BY <1>1, <1>2, <1>3, <1>4 DEF Next

\* The inductive invariant holds in every reachable state.
THEOREM IngressInvariant == Spec => []IngressInv
BY InitInv, NextKeeps, PTL DEF Spec

\* Every variable keeps its type: a delivery past sessionFor has a session (ingress.go, Accept).
THEOREM TypeCorrect == Spec => []TypeOK
<1>1. IngressInv => TypeOK
  BY DEF IngressInv
<1> QED BY <1>1, IngressInvariant, PTL

\* A message starts one run, however often and wherever its deliveries are cut short
\* (ingress.go:156-158, Accept).
THEOREM OneRunHolds == Spec => []OneRunPerMessage
<1>1. IngressInv => OneRunPerMessage
  BY DEF IngressInv, OnePastClaim, Past, Runs, OneRunPerMessage
<1> QED BY <1>1, IngressInvariant, PTL

\* The runs of a conversation share its one history (ingress.go:244-246, sessionFor).
THEOREM OneHistoryHolds == Spec => []OneHistoryPerThread
<1>1. IngressInv => OneHistoryPerThread
  BY DeliveryTypes DEF IngressInv, OnePastClaim, SessionsAgree, Past, Runs,
       OneHistoryPerThread, Thread
<1> QED BY <1>1, IngressInvariant, PTL

\* A message taken back is out of the line, and no answer to it comes unless the daemon
\* dies before its cancellation is on record (runtime.go:816-826, 909-914; withdraw.go:75).
THEOREM TakenBackHolds == Spec => []TakenBackIsOver
<1>1. IngressInv => TakenBackIsOver
  BY DEF IngressInv, PressesHold, TakenBackIsOver
<1> QED BY <1>1, IngressInvariant, PTL
=============================================================================
