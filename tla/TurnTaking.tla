----------------------------- MODULE TurnTaking -----------------------------
(***************************************************************************)
(* What the runtime promises about a conversation's turn: one ticket holds *)
(* it, the others wait in a line, a ticket may be taken back only while it *)
(* waits, and the holder gives the turn to whoever has waited longest.     *)
(* A restart empties every line.                                           *)
(***************************************************************************)
EXTENDS Integers, Sequences, SequencesExt

CONSTANTS
  Sessions,
  Tickets,
  Nobody     \* not a ticket: nobody holds the turn

VARIABLES holder, waiting

turnVars == <<holder, waiting>>

TurnInit ==
  /\ holder = [s \in Sessions |-> Nobody]
  /\ waiting = [s \in Sessions |-> <<>>]

Take(s, t) ==
  /\ holder[s] = Nobody
  /\ holder' = [holder EXCEPT ![s] = t]
  /\ UNCHANGED waiting

Queue(s, t) ==
  /\ holder[s] # Nobody
  /\ waiting' = [waiting EXCEPT ![s] = Append(@, t)]
  /\ UNCHANGED holder

Withdraw(s, i) ==
  /\ i \in DOMAIN waiting[s]
  /\ waiting' = [waiting EXCEPT ![s] = RemoveAt(@, i)]
  /\ UNCHANGED holder

HandOver(s) ==
  /\ holder[s] # Nobody
  /\ \/ /\ waiting[s] = <<>>
        /\ holder' = [holder EXCEPT ![s] = Nobody]
        /\ UNCHANGED waiting
     \/ /\ waiting[s] # <<>>
        /\ holder' = [holder EXCEPT ![s] = Head(waiting[s])]
        /\ waiting' = [waiting EXCEPT ![s] = Tail(@)]

Restart ==
  /\ holder' = [s \in Sessions |-> Nobody]
  /\ waiting' = [s \in Sessions |-> <<>>]

TurnNext ==
  \/ \E s \in Sessions :
       \/ \E t \in Tickets : Take(s, t) \/ Queue(s, t)
       \/ \E i \in DOMAIN waiting[s] : Withdraw(s, i)
       \/ HandOver(s)
  \/ Restart

TurnSpec == TurnInit /\ [][TurnNext]_turnVars
=============================================================================
