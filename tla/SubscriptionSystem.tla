----------------------------- MODULE SubscriptionSystem -----------------------------
(***************************************************************************)
(* The program and the RAN: main() asks one gNodeB after the other through *)
(* the subscription handler, listeners take the answers, and the process   *)
(* may end and be started again while requests and answers are on their    *)
(* way.  The handler's tables, its id counter and the list of gNodeBs live *)
(* in memory only; what the RAN has accepted stays accepted.               *)
(*                                                                         *)
(* A request carries an id and goes to a gNodeB; its answer carries the id *)
(* alone (Response is given the payload, not the sender).                  *)
(***************************************************************************)
EXTENDS SubscriptionHandler, Sequences

CONSTANTS
  main,          (* the only requester                                     *)
  NodeList,      (* gNodeB_list as configured                              *)
  MaxRestarts    (* bound: how often the process is started again          *)

ASSUME SystemAssumption ==
  /\ Requesters = {main} /\ Strays = {}
  /\ NodeList \in Seq(STRING) /\ MaxRestarts \in Nat

GNodeBs == {NodeList[i] : i \in DOMAIN NodeList}

VARIABLES
  gNodeB_list,   (* the gNodeBs still to be subscribed, from *it on        *)
  asking,        (* main() is in add_subscription                          *)
  sent,          (* <<gNodeB, id>> of the requests RMR has                 *)
  held,          (* <<gNodeB, id>> of the subscriptions the RAN holds      *)
  reported,      (* gNodeBs reported as subscribed since the start         *)
  restarts

systemVars == <<gNodeB_list, asking, sent, held, reported, restarts>>
sysVars    == <<vars, systemVars>>

SystemTypeOK ==
  /\ TypeOK
  /\ gNodeB_list \in Seq(GNodeBs) /\ asking \in BOOLEAN
  /\ sent \subseteq GNodeBs \X RequestIds
  /\ held \subseteq sent
  /\ reported \subseteq GNodeBs
  /\ restarts \in 0 .. MaxRestarts

SystemInit ==
  /\ Init
  /\ gNodeB_list = NodeList /\ asking = FALSE
  /\ sent = {} /\ held = {} /\ reported = {}
  /\ restarts = 0

Target == Head(gNodeB_list)

Ask ==
  /\ gNodeB_list # <<>> /\ ~asking
  /\ GetNextId(main)
  /\ asking' = TRUE
  /\ UNCHANGED <<gNodeB_list, sent, held, reported, restarts>>

TransmitTo_LastNode ==
  /\ Transmit(main)
  /\ sent' = sent \cup {<<NodeList[Len(NodeList)], req_id[main]>>}
  /\ UNCHANGED <<gNodeB_list, asking, held, reported, restarts>>

(* The request goes to the gNodeB whose name add_subscription has bound.   *)
TransmitTo ==
  /\ Transmit(main)
  /\ sent' = sent \cup {<<Target, req_id[main]>>}
  /\ UNCHANGED <<gNodeB_list, asking, held, reported, restarts>>

(* The rest of RequestSubscription, and of the handler.                    *)
HandlerStep ==
  /\ \/ EncodeError(main) \/ AddRequestEntry(main) \/ AcquireLock(main)
     \/ TransmitError(main) \/ BeginWait(main) \/ WakeUp(main)
     \/ CheckStatus(main) \/ Tick(main)
     \/ \E l \in Listeners : ListenerStep(l)
  /\ UNCHANGED systemVars

(* add_subscription has returned: a gNodeB that is subscribed is erased,   *)
(* any other is asked again (the iterator moves only past an erased one).  *)
Answered ==
  /\ asking /\ pc[main] = "idle"
  /\ asking' = FALSE
  /\ IF outcome[main] = "subscribed"
       THEN reported' = reported \cup {Target} /\ gNodeB_list' = Tail(gNodeB_list)
       ELSE UNCHANGED <<reported, gNodeB_list>>
  /\ UNCHANGED <<vars, sent, held, restarts>>

(* A gNodeB accepts or rejects a request it was sent, at any time after.   *)
GNodeBAnswers(g, id) ==
  /\ <<g, id>> \in sent
  /\ RanAnswer(id)
  /\ \E kind \in {"accept", "reject"} :
       /\ inbound' = inbound \cup {[kind |-> kind, id |-> id]}
       /\ held' = IF kind = "accept" THEN held \cup {<<g, id>>} ELSE held
  /\ UNCHANGED <<gNodeB_list, asking, sent, reported, restarts>>

(* The process ends and is started again; the network and the RAN go on.   *)
Restart ==
  /\ restarts < MaxRestarts
  /\ restarts' = restarts + 1
  /\ requests_table' = [id \in RequestIds |-> "absent"]
  /\ subscription_responses' = {} /\ unique_request_id' = 0 /\ data_lock' = NoThread
  /\ pc' = [r \in Requesters |-> "idle"] /\ req_id' = [r \in Requesters |-> 0]
  /\ elapsed' = [r \in Requesters |-> 0] /\ outcome' = [r \in Requesters |-> "none"]
  /\ lpc' = [l \in Listeners |-> "idle"] /\ message' = [l \in Listeners |-> NoMessage]
  /\ gNodeB_list' = NodeList /\ asking' = FALSE /\ reported' = {}
  /\ transmitted' = [id \in RequestIds |-> "none"]
  /\ UNCHANGED <<requested, inbound, sent, held>>

SystemNext ==
  \/ Ask \/ TransmitTo \/ HandlerStep \/ Answered \/ Restart
  \/ \E g \in GNodeBs, id \in RequestIds : GNodeBAnswers(g, id)

SystemSpec == SystemInit /\ [][SystemNext]_sysVars

----------------------------------------------------------------------------
(* What the log says of a gNodeB (kpi-xapp.cc:177 "Successfully subscribed *)
(* for gNodeB %s") is true of the RAN, in the first process: that gNodeB,  *)
(* and not another one, holds a subscription that was asked of it.  Late   *)
(* and repeated answers, and the ids of earlier attempts, are never taken  *)
(* for it.                                                                 *)
ReportedHeld ==
  restarts = 0 => \A g \in reported : \E id \in RequestIds : <<g, id>> \in held

(* After a restart ids are used again and answers to the earlier process   *)
(* are still on their way; that of another gNodeB may be taken for the one *)
(* awaited, as Response compares the id alone.  A gNodeB reported as       *)
(* subscribed has then at least been sent a request, and some gNodeB has   *)
(* accepted one with the id used.                                          *)
ReportedAsked ==
  \A g \in reported : \E id \in RequestIds :
    <<g, id>> \in sent /\ [kind |-> "accept", id |-> id] \in inbound

(* What main() can rely on in every process: in the first one, unless ids  *)
(* wrap, the whole of SubscriptionService, and what SubscriptionProcesses  *)
(* leaves of it in the later ones.                                         *)
Processes == INSTANCE SubscriptionProcesses WITH
  Callers <- Requesters, phase <- CallPhases, answers <- RanAnswers,
  fresh <- restarts = 0 /\ NoWrap

EveryProcessServes == Processes!ProcessSpec

(* And what the operator of the network can rely on: behind the loop, the  *)
(* handler, its listeners and all messages that are late, repeated or of   *)
(* an earlier process there is nothing more than SubscriptionCampaign.     *)
Campaign == INSTANCE SubscriptionCampaign WITH
  remaining <- gNodeB_list, asked <- {p[1] : p \in sent},
  subscribed <- {p[1] : p \in held}, fresh <- restarts = 0 /\ NoWrap

RunsCampaign == Campaign!Spec

----------------------------------------------------------------------------
(* The strengthening that makes these inductive.  What the handler         *)
(* guarantees by itself also holds in every process after the first: it    *)
(* starts with empty tables, and only the network is left as it was.       *)
HandlerInv == TableInv /\ AcceptedInv

(* A call in progress was made for the gNodeB of *it, and from its         *)
(* transmission on this gNodeB has been sent the id of the call.           *)
CallForTarget ==
  /\ asking => gNodeB_list # <<>>
  /\ pc[main] # "idle" => asking
  /\ asking /\ (pc[main] \in {"sent", "waiting", "woken"} \/ outcome[main] = "subscribed")
       => <<Target, req_id[main]>> \in sent

(* Who has accepted holds the subscription.                                *)
AcceptedHeld ==
  \A m \in inbound : m.kind = "accept" => \E p \in held : p[2] = m.id

(* Until the restart an id goes to one gNodeB.                             *)
SentOnce ==
  restarts = 0 =>
    /\ OrderInv
    /\ \A p \in sent : p[2] \in requested
    /\ \A p, q \in sent : p[2] = q[2] => p = q

(* What the handler stores matches its verdicts, as in OutcomeMatchesStore,*)
(* while ids are new.                                                      *)
FirstStore == restarts = 0 /\ NoWrap => StoreInv

SystemInv ==
  /\ SystemTypeOK /\ HandlerInv /\ CallForTarget
  /\ ReportedAsked

FirstProcessInv ==
  SystemInv /\ AcceptedHeld /\ SentOnce /\ ReportedHeld

=====================================================================================
