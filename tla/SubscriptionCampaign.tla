--------------------------- MODULE SubscriptionCampaign ---------------------------
(***************************************************************************)
(* What the subscribing part of the program means to the operator of the   *)
(* network, with no handler, no id, no message and no listener: the        *)
(* gNodeBs are asked in the order of the list, one that has been asked may *)
(* subscribe at any time after, and it leaves the list once it has.  A     *)
(* program that is started again begins with the whole list; it then only  *)
(* knows that somebody it asked, now or earlier, has subscribed.           *)
(***************************************************************************)
EXTENDS Sequences

CONSTANT NodeList

VARIABLES
  remaining,   (* the gNodeBs still to be subscribed                       *)
  asked,       (* the gNodeBs that have been sent a request                *)
  subscribed,  (* the gNodeBs that have accepted one                       *)
  fresh        (* the program has not been started again                   *)

vars == <<remaining, asked, subscribed, fresh>>

Init ==
  /\ remaining = NodeList
  /\ asked = {} /\ subscribed = {}
  /\ fresh \in BOOLEAN

Ask ==
  /\ remaining # <<>>
  /\ asked' = asked \cup {Head(remaining)}
  /\ UNCHANGED <<remaining, subscribed, fresh>>

Subscribe ==
  /\ \E g \in asked : subscribed' = subscribed \cup {g}
  /\ UNCHANGED <<remaining, asked, fresh>>

Leave ==
  /\ remaining # <<>>
  /\ Head(remaining) \in asked /\ subscribed # {}
  /\ fresh => Head(remaining) \in subscribed
  /\ remaining' = Tail(remaining)
  /\ UNCHANGED <<asked, subscribed, fresh>>

StartAgain ==
  /\ remaining' = NodeList
  /\ fresh' = FALSE
  /\ UNCHANGED <<asked, subscribed>>

Next == Ask \/ Subscribe \/ Leave \/ StartAgain

Spec == Init /\ [][Next]_vars
===================================================================================
