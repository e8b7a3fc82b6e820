------------------------------- MODULE Outbox -------------------------------
(***************************************************************************)
(* What the delivery pipeline promises of a delivery, whoever works on it: *)
(* it is open until somebody who took it up settles it, it says delivered  *)
(* only if its inbox took the activity, and once it is settled only those  *)
(* who took it up before can change it, or take it up again if it was not  *)
(* delivered.  So a delivered one that nobody has in hand stays delivered. *)
(*                                                                         *)
(* Delivery implements this module (Delivery.tla, Promise).                *)
(***************************************************************************)

CONSTANT Delivery

VARIABLES
  state,     \* where each delivery is
  inHand,    \* those that an invocation or the owner has taken up
  accepted   \* those whose inbox has taken the activity

vars == <<state, inHand, accepted>>

Settled == {"delivered", "failed"}

Init ==
  /\ state = [d \in Delivery |-> "none"]
  /\ inHand = {} /\ accepted = {}

Enter(d) ==
  /\ state[d] = "none"
  /\ state' = [state EXCEPT ![d] = "open"]
  /\ UNCHANGED <<inHand, accepted>>

TakeUp(d) ==
  /\ state[d] \in {"open", "failed"}
  /\ inHand' = inHand \cup {d}
  /\ UNCHANGED <<state, accepted>>

Accept(d) ==
  /\ d \in inHand
  /\ accepted' = accepted \cup {d}
  /\ UNCHANGED <<state, inHand>>

\* Others may have the delivery in hand still.
PutBack(d) == d \in inHand /\ inHand' \in {inHand, inHand \ {d}}

Settle(d, outcome) ==
  /\ state[d] \in {"open"} \cup Settled
  /\ outcome = "delivered" => d \in accepted
  /\ PutBack(d)
  /\ state' = [state EXCEPT ![d] = outcome]
  /\ UNCHANGED accepted

Drop(d) ==
  /\ PutBack(d)
  /\ UNCHANGED <<state, accepted>>

Expunge(d) ==
  /\ state[d] # "none"
  /\ state' = [state EXCEPT ![d] = "gone"]
  /\ UNCHANGED <<inHand, accepted>>

Next == \E d \in Delivery :
  \/ Enter(d) \/ TakeUp(d) \/ Accept(d) \/ Drop(d) \/ Expunge(d)
  \/ \E outcome \in {"open"} \cup Settled : Settle(d, outcome)

Spec == Init /\ [][Next]_vars

=============================================================================
