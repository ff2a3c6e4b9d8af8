--------------------------- MODULE SubscriptionProcesses ---------------------------
(***************************************************************************)
(* What is left of SubscriptionService when the process is started again,  *)
(* or the ids come back.  Answers to earlier requests then carry the ids   *)
(* of new ones: a call may find answers to its id when it begins, may be   *)
(* decided before its own request is sent, and may still fail after that.  *)
(* What remains is that a call is decided once, that one is granted only   *)
(* if an acceptance of its id was sent, and that true is returned only to  *)
(* a granted call.                                                         *)
(***************************************************************************)
EXTENDS SubscriptionService

VARIABLE
  fresh     (* no answer is on its way but to a request of this process    *)

processVars == <<phase, outcome, answers, fresh>>

Kinds == {"accept", "reject"}

ProcessInit == Init /\ fresh \in BOOLEAN

(* A call that draws an id which may have been answered before.            *)
Reopen(c) ==
  /\ phase[c] = "idle"
  /\ phase' = [phase EXCEPT ![c] = "open"]
  /\ outcome' = [outcome EXCEPT ![c] = "none"]
  /\ \E earlier \in SUBSET Kinds : answers' = [answers EXCEPT ![c] = earlier]

(* An acceptance, too, is a refusal when a response is stored for the id.  *)
RefuseAnswered(c) ==
  /\ phase[c] = "open"
  /\ answers[c] # {}
  /\ phase' = [phase EXCEPT ![c] = "refused"]
  /\ UNCHANGED <<outcome, answers>>

(* A call granted too early cannot be sent.                                *)
Withdraw(c) ==
  /\ phase[c] = "granted"
  /\ phase' = [phase EXCEPT ![c] = "idle"]
  /\ outcome' = [outcome EXCEPT ![c] = "refused"]
  /\ UNCHANGED answers

(* The calls of the process end with it.                                   *)
StartAgain ==
  /\ phase' = [c \in Callers |-> "idle"]
  /\ outcome' = [c \in Callers |-> "none"]
  /\ answers' \in [Callers -> SUBSET Kinds]
  /\ fresh' = FALSE

CallerStep(c) ==
  \/ Reopen(c) \/ Answer(c) \/ Grant(c) \/ RefuseAnswered(c) \/ Return(c) \/ Withdraw(c)

ProcessNext ==
  \/ fresh /\ Next /\ UNCHANGED fresh
  \/ ~ fresh /\ (\E c \in Callers : CallerStep(c)) /\ UNCHANGED fresh
  \/ StartAgain

ProcessSpec == ProcessInit /\ [][ProcessNext]_processVars
====================================================================================
