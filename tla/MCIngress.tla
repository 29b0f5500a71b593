----------------------------- MODULE MCIngress -----------------------------
(* Small instances of Ingress for TLC. *)
EXTENDS Ingress

OneThread == [m \in Messages |-> CHOOSE t \in Threads : TRUE]
First == CHOOSE m \in Messages : TRUE

\* One message is delivered twice, and twice its sender asks for it back.
FirstTwice == (Messages \X {1}) \cup {<<First, 2>>}
PressedTwice == {First} \X {1, 2}
=============================================================================
