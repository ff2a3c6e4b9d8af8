------------------------------- MODULE SendService -------------------------------
(***************************************************************************)
(* What a transmission means to the one who asks for it, with no buffer,   *)
(* no mutex, no retry and no counter: in one step it returns true and RMR  *)
(* has taken the message, or it returns false and RMR has not and never    *)
(* will.  XaPP::Send is to provide this, and the subscription handler      *)
(* builds on it.                                                           *)
(***************************************************************************)
EXTENDS Integers

CONSTANT Messages    \* each is sent by one call

VARIABLES
  result,   (* what the transmission of each message returned              *)
  taken     (* how often RMR has taken each message                        *)

vars == <<result, taken>>

Init ==
  /\ result = [m \in Messages |-> "none"]
  /\ taken = [m \in Messages |-> 0]

Returns(m, value) ==
  /\ result[m] = "none"
  /\ result' = [result EXCEPT ![m] = value]

Take(m)  == Returns(m, "true") /\ taken' = [taken EXCEPT ![m] = @ + 1]
Refuse(m) == Returns(m, "false") /\ UNCHANGED taken

Next == \E m \in Messages : Take(m) \/ Refuse(m)

Spec == Init /\ [][Next]_vars
==================================================================================
