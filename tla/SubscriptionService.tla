--------------------------- MODULE SubscriptionService ---------------------------
(***************************************************************************)
(* What SubscriptionHandler promises those who call RequestSubscription,   *)
(* with no table, no mutex, no id and no clock.  A call is open until the  *)
(* first verdict reaches the handler; the verdict is one the RAN gave to   *)
(* the request of this very call; a granted call returns true, and any     *)
(* other one false.  A call that is still open may return false (it could  *)
(* not be encoded or sent, or the deadline passed) but never once it has   *)
(* been granted.                                                           *)
(***************************************************************************)
CONSTANT Callers

VARIABLES
  phase,    (* caller -> where its call is                                 *)
  outcome,  (* caller -> what its last call returned                       *)
  answers   (* caller -> what the RAN has answered to its last request     *)

vars == <<phase, outcome, answers>>

Init ==
  /\ phase = [c \in Callers |-> "idle"]
  /\ outcome = [c \in Callers |-> "none"]
  /\ answers = [c \in Callers |-> {}]

Open(c) ==
  /\ phase[c] = "idle"
  /\ phase' = [phase EXCEPT ![c] = "open"]
  /\ outcome' = [outcome EXCEPT ![c] = "none"]
  /\ answers' = [answers EXCEPT ![c] = {}]

(* The RAN answers, possibly after the call has returned.                  *)
Answer(c) ==
  /\ \E kind \in {"accept", "reject"} :
       answers' = [answers EXCEPT ![c] = @ \cup {kind}]
  /\ UNCHANGED <<phase, outcome>>

Grant(c) ==
  /\ phase[c] = "open"
  /\ "accept" \in answers[c]
  /\ phase' = [phase EXCEPT ![c] = "granted"]
  /\ UNCHANGED <<outcome, answers>>

Refuse(c) ==
  /\ phase[c] = "open"
  /\ "reject" \in answers[c]
  /\ phase' = [phase EXCEPT ![c] = "refused"]
  /\ UNCHANGED <<outcome, answers>>

Return(c) ==
  /\ phase[c] # "idle"
  /\ phase' = [phase EXCEPT ![c] = "idle"]
  /\ outcome' = [outcome EXCEPT ![c] =
                   IF phase[c] = "granted" THEN "subscribed" ELSE "refused"]
  /\ UNCHANGED answers

Next == \E c \in Callers : Open(c) \/ Answer(c) \/ Grant(c) \/ Refuse(c) \/ Return(c)

Spec == Init /\ [][Next]_vars
==================================================================================
