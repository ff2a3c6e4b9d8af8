--------------------------- MODULE SubscriptionSystemProofs ---------------------------
(***************************************************************************)
(* Proofs about SubscriptionSystem: what holds of the handler carries over *)
(* to every process of the xApp, for every list of gNodeBs, number of      *)
(* listeners, id width and number of restarts.                             *)
(***************************************************************************)
EXTENDS SubscriptionSystem, SubscriptionHandlerProofs, SequenceTheorems

LEMMA MainOnly == Requesters = {main} /\ main \in Requesters /\ NoStrays
BY SystemAssumption DEF NoStrays

(* A step of the system is a step of the handler or leaves it alone, or it *)
(* ends the process.                                                       *)
LEMMA SystemSteps ==
  ASSUME [SystemNext]_sysVars
  PROVE  Restart \/ [Next]_vars
<1>1. CASE Ask
  BY <1>1, MainOnly DEF Ask, Next
<1>2. CASE TransmitTo
  BY <1>2, MainOnly DEF TransmitTo, Next, CallStep
<1>3. CASE HandlerStep
  BY <1>3, MainOnly DEF HandlerStep, Next, CallStep
<1>4. CASE Answered
  BY <1>4 DEF Answered
<1>5. ASSUME NEW g \in GNodeBs, NEW id \in RequestIds, GNodeBAnswers(g, id)
      PROVE  Next
  BY <1>5 DEF GNodeBAnswers, Next
<1>6. CASE UNCHANGED sysVars
  BY <1>6 DEF sysVars
<1>7. QED
  BY <1>1, <1>2, <1>3, <1>4, <1>5, <1>6 DEF SystemNext

(* The handler of a new process, in front of the old network.              *)
LEMMA RestartHandler ==
  ASSUME HandlerInv, Restart
  PROVE  HandlerInv'
<1>1. TypeOK /\ TypeOK'
  <2>1. TypeOK
    BY DEF HandlerInv, TableInv
  <2>2. QED
    BY <2>1, IdAssumption, TimeoutAssumption DEF Restart, TypeOK, Transmissions, RequestIds,
       Statuses, RequesterLocations, Messages, NoMessage, MaxElapsed
<1>2. EntryOwned' /\ ResponseStored'
  BY DEF Restart, EntryOwned, ResponseStored, Registered
<1>3. OutcomeWhenIdle' /\ SuccessCaused' /\ SubscribedMeansAccepted'
  BY DEF Restart, OutcomeWhenIdle, SuccessCaused, SubscribedMeansAccepted
<1>4. QED
  BY <1>1, <1>2, <1>3 DEF HandlerInv, TableInv, AcceptedInv

LEMMA HandlerKept ==
  ASSUME HandlerInv, [SystemNext]_sysVars
  PROVE  HandlerInv'
<1>1. CASE Restart
  BY <1>1, RestartHandler
<1>2. CASE [Next]_vars
  <2>1. TypeOK'
    BY <1>2, NextType DEF HandlerInv, TableInv
  <2>2. EntryOwned' /\ ResponseStored'
    BY <1>2, NextEntries, NextStored DEF HandlerInv, TableInv
  <2>3. AcceptedInv'
    BY <1>2, MainOnly, NextAccepted DEF HandlerInv
  <2>4. QED
    BY <2>1, <2>2, <2>3 DEF HandlerInv, TableInv
<1>3. QED
  BY <1>1, <1>2, SystemSteps

LEMMA ListType == NodeList \in Seq(GNodeBs)
<1>1. NodeList \in Seq(STRING)
  BY SystemAssumption
<1>2. \A i \in 1 .. Len(NodeList) : NodeList[i] \in GNodeBs
  BY <1>1 DEF GNodeBs
<1>3. QED
  BY <1>1, <1>2

LEMMA SystemInitInv == SystemInit => SystemInv
<1> SUFFICES ASSUME SystemInit PROVE SystemInv
  OBVIOUS
<1>1. TypeOK
  BY InitTypeOK DEF SystemInit
<1>2. SystemTypeOK
  <2>1. gNodeB_list \in Seq(GNodeBs)
    BY ListType DEF SystemInit
  <2>2. restarts \in 0 .. MaxRestarts
    BY SystemAssumption DEF SystemInit
  <2>3. asking \in BOOLEAN
    BY Zenon DEF SystemInit
  <2>4. QED
    BY <1>1, <2>1, <2>2, <2>3 DEF SystemInit, SystemTypeOK
<1>3. HandlerInv
  BY <1>1 DEF SystemInit, Init, HandlerInv, TableInv, AcceptedInv, EntryOwned, Registered,
     ResponseStored, OutcomeWhenIdle, SuccessCaused, SubscribedMeansAccepted
<1>4. CallForTarget /\ ReportedAsked
  BY MainOnly DEF SystemInit, Init, CallForTarget, ReportedAsked
<1>5. QED
  BY <1>2, <1>3, <1>4 DEF SystemInv

(* Ask, Answered and Restart move main(), ...                              *)
LEMMA LoopMoves ==
  ASSUME SystemInv, SystemTypeOK', Ask \/ Answered \/ Restart
  PROVE  CallForTarget' /\ ReportedAsked'
<1>1. TypeOK /\ main \in Requesters
  BY MainOnly DEF SystemInv, SystemTypeOK
<1>2. CASE Ask
  <2>1. pc'[main] = "numbered" /\ outcome'[main] = "none" /\ asking'
        /\ UNCHANGED <<gNodeB_list, sent, reported, inbound>>
    BY <1>1, <1>2 DEF Ask, GetNextId, TypeOK, networkVars
  <2>2. CallForTarget'
    BY <1>2, <2>1 DEF Ask, CallForTarget
  <2>3. QED
    BY <2>1, <2>2 DEF SystemInv, ReportedAsked
<1>3. CASE Answered
  <2>1. asking /\ pc[main] = "idle" /\ UNCHANGED <<pc, inbound, sent>> /\ ~ asking'
    BY <1>3 DEF Answered, vars
  <2>2. CallForTarget'
    BY <2>1 DEF CallForTarget
  <2>3. CASE outcome[main] = "subscribed"
    <3>1. <<Target, req_id[main]>> \in sent
      BY <2>1, <2>3 DEF SystemInv, CallForTarget
    <3>2. [kind |-> "accept", id |-> req_id[main]] \in inbound
      BY <1>1, <2>3 DEF SystemInv, HandlerInv, AcceptedInv, SubscribedMeansAccepted
    <3>3. req_id[main] \in RequestIds /\ reported' = reported \cup {Target}
      BY <1>1, <1>3, <2>3 DEF TypeOK, Answered
    <3>4. QED
      BY <2>1, <2>2, <3>1, <3>2, <3>3 DEF SystemInv, ReportedAsked
  <2>4. CASE outcome[main] # "subscribed"
    BY <1>3, <2>1, <2>2, <2>4 DEF Answered, SystemInv, ReportedAsked
  <2>5. QED
    BY <2>3, <2>4
<1>4. CASE Restart
  BY <1>1, <1>4 DEF Restart, CallForTarget, ReportedAsked
<1>5. QED
  BY <1>2, <1>3, <1>4

(* ... and the other steps only let the call or the network go on.         *)
LEMMA CallMoves ==
  ASSUME SystemInv,
         \/ TransmitTo \/ HandlerStep
         \/ (\E g \in GNodeBs, id \in RequestIds : GNodeBAnswers(g, id))
         \/ UNCHANGED sysVars
  PROVE  CallForTarget' /\ ReportedAsked'
<1>1. TypeOK /\ main \in Requesters /\ CallForTarget /\ OutcomeWhenIdle
  BY MainOnly DEF SystemInv, SystemTypeOK, HandlerInv, AcceptedInv
<1>2. UNCHANGED <<asking, gNodeB_list, reported>> /\ sent \subseteq sent'
      /\ inbound \subseteq inbound' /\ req_id' = req_id
  <2>1. CASE TransmitTo
    BY <2>1 DEF TransmitTo, Transmit, TransmitterReturns
  <2>2. CASE HandlerStep
    BY <2>2 DEF HandlerStep, systemVars, EncodeError, AddRequestEntry, AcquireLock,
       TransmitError, TransmitterReturns, BeginWait, WakeUp, CheckStatus, Tick,
       ListenerStep, Receive, RecordVerdict, NotifyAll, callVars, networkVars
  <2>3. CASE \E g \in GNodeBs, id \in RequestIds : GNodeBAnswers(g, id)
    BY <2>3 DEF GNodeBAnswers, RanAnswer, callVars
  <2>4. CASE UNCHANGED sysVars
    BY <2>4 DEF sysVars, systemVars, vars
  <2>5. QED
    BY <2>1, <2>2, <2>3, <2>4
<1>3. pc'[main] # "idle" => pc[main] # "idle"
  <2>1. CASE TransmitTo
    BY <1>1, <2>1 DEF TransmitTo, Transmit
  <2>2. CASE HandlerStep
    BY <1>1, <2>2 DEF HandlerStep, EncodeError, AddRequestEntry, AcquireLock,
       TransmitError, BeginWait, WakeUp, CheckStatus, Tick, ListenerStep, Receive,
       RecordVerdict, NotifyAll, TypeOK
  <2>3. CASE \E g \in GNodeBs, id \in RequestIds : GNodeBAnswers(g, id)
    BY <2>3 DEF GNodeBAnswers, RanAnswer
  <2>4. CASE UNCHANGED sysVars
    BY <2>4 DEF sysVars, vars
  <2>5. QED
    BY <1>2, <2>1, <2>2, <2>3, <2>4
<1>4. ASSUME asking', pc'[main] \in {"sent", "waiting", "woken"}
             \/ outcome'[main] = "subscribed"
      PROVE  <<Target, req_id[main]>> \in sent'
  <2>1. CASE TransmitTo
    BY <2>1 DEF TransmitTo
  <2>2. CASE HandlerStep
    <3>1. pc[main] \in {"sent", "waiting", "woken"} \/ outcome[main] = "subscribed"
      BY <1>1, <1>4, <2>2 DEF HandlerStep, EncodeError, AddRequestEntry, AcquireLock,
         TransmitError, BeginWait, WakeUp, CheckStatus, Tick, ListenerStep, Receive,
         RecordVerdict, NotifyAll, TypeOK, Return, Goto, callVars
    <3>2. QED
      BY <1>1, <1>2, <1>4, <3>1 DEF CallForTarget
  <2>3. CASE \E g \in GNodeBs, id \in RequestIds : GNodeBAnswers(g, id)
    BY <1>1, <1>2, <1>4, <2>3 DEF GNodeBAnswers, RanAnswer, callVars, CallForTarget
  <2>4. CASE UNCHANGED sysVars
    BY <1>1, <1>2, <1>4, <2>4 DEF sysVars, vars, CallForTarget
  <2>5. QED
    BY <2>1, <2>2, <2>3, <2>4
<1>5. CallForTarget'
  BY <1>1, <1>2, <1>3, <1>4 DEF CallForTarget, Target
<1>6. QED
  BY <1>2, <1>5 DEF SystemInv, ReportedAsked

LEMMA SystemTypeKept ==
  ASSUME SystemInv, [SystemNext]_sysVars, TypeOK'
  PROVE  SystemTypeOK'
<1>1. /\ SystemTypeOK /\ TypeOK /\ main \in Requesters /\ CallForTarget
      /\ (asking => Target \in GNodeBs)
  BY MainOnly DEF SystemInv, SystemTypeOK, CallForTarget, Target
<1>2. CASE Ask
  <2>1. asking' \in BOOLEAN
    BY <1>2 DEF Ask
  <2>2. QED
    BY <1>1, <1>2, <2>1 DEF Ask, SystemTypeOK
<1>3. CASE TransmitTo
  <2>1. asking /\ req_id[main] \in RequestIds
    BY <1>1, <1>3 DEF TransmitTo, Transmit, CallForTarget, TypeOK
  <2>2. sent' \subseteq GNodeBs \X RequestIds /\ held' \subseteq sent'
    BY <1>1, <1>3, <2>1 DEF TransmitTo, SystemTypeOK
  <2>3. QED
    BY <1>1, <1>3, <2>2 DEF TransmitTo, SystemTypeOK
<1>4. CASE HandlerStep
  BY <1>1, <1>4 DEF HandlerStep, systemVars, SystemTypeOK
<1>5. CASE Answered
  <2>1. asking' \in BOOLEAN
    BY <1>5 DEF Answered
  <2>2. gNodeB_list' \in Seq(GNodeBs) /\ reported' \subseteq GNodeBs
    <3>1. asking /\ gNodeB_list # <<>> /\ Target \in GNodeBs
          /\ gNodeB_list \in Seq(GNodeBs) /\ reported \subseteq GNodeBs
      BY <1>1, <1>5 DEF Answered, SystemTypeOK, CallForTarget
    <3>2. Tail(gNodeB_list) \in Seq(GNodeBs)
      BY <3>1
    <3>3. CASE outcome[main] = "subscribed"
      BY <1>5, <3>1, <3>2, <3>3 DEF Answered
    <3>4. CASE outcome[main] # "subscribed"
      BY <1>5, <3>1, <3>4 DEF Answered
    <3>5. QED
      BY <3>3, <3>4
  <2>3. QED
    BY <1>1, <1>5, <2>1, <2>2 DEF Answered, SystemTypeOK
<1>6. ASSUME NEW g \in GNodeBs, NEW id \in RequestIds, GNodeBAnswers(g, id)
      PROVE  SystemTypeOK'
  BY <1>1, <1>6 DEF GNodeBAnswers, SystemTypeOK
<1>7. CASE Restart
  <2>1. asking' \in BOOLEAN
    BY <1>7 DEF Restart
  <2>2. restarts' \in 0 .. MaxRestarts
    BY <1>1, <1>7, SystemAssumption DEF Restart, SystemTypeOK
  <2>3. QED
    BY <1>1, <1>7, <2>1, <2>2, ListType DEF Restart, SystemTypeOK
<1>8. CASE UNCHANGED sysVars
  BY <1>1, <1>8 DEF sysVars, systemVars, SystemTypeOK
<1>9. QED
  BY <1>2, <1>3, <1>4, <1>5, <1>6, <1>7, <1>8 DEF SystemNext

LEMMA SystemNextInv == SystemInv /\ [SystemNext]_sysVars => SystemInv'
<1> SUFFICES ASSUME SystemInv, [SystemNext]_sysVars PROVE SystemInv'
  OBVIOUS
<1>1. HandlerInv'
  BY HandlerKept DEF SystemInv
<1>2. SystemTypeOK'
  BY <1>1, SystemTypeKept DEF HandlerInv, TableInv
<1>3. CallForTarget' /\ ReportedAsked'
  BY <1>2, LoopMoves, CallMoves DEF SystemNext
<1>4. QED
  BY <1>1, <1>2, <1>3 DEF SystemInv

LEMMA SystemInvHolds == SystemSpec => []SystemInv
BY SystemInitInv, SystemNextInv, PTL DEF SystemSpec

(* kpi-xapp.cc:158-194, over all restarts: a subscription that a gNodeB    *)
(* holds was asked of it.                                                  *)
THEOREM SystemTypeCorrect == SystemSpec => []SystemTypeOK
<1>1. SystemInv => SystemTypeOK
  BY DEF SystemInv
<1>2. QED
  BY <1>1, SystemInvHolds, PTL

(* subscription_handler.hpp:105-208, in every process of the xApp: the     *)
(* request table holds the calls in progress and nothing else.             *)
THEOREM EntriesOwnedAlways == SystemSpec => []EntryOwned
<1>1. SystemInv => EntryOwned
  BY DEF SystemInv, HandlerInv, TableInv
<1>2. QED
  BY <1>1, SystemInvHolds, PTL

(* kpi-xapp.cc:177, after any number of restarts: a gNodeB that is logged  *)
(* as subscribed was sent a request whose id the RAN has accepted.         *)
THEOREM ReportsAsked == SystemSpec => []ReportedAsked
<1>1. SystemInv => ReportedAsked
  BY DEF SystemInv
<1>2. QED
  BY <1>1, SystemInvHolds, PTL

---------------------------------------------------------------------------------------
(* The first process, while no id comes back.                              *)

LEMMA OrderKept ==
  ASSUME NoWrap, OrderInv, TypeOK, [Next]_vars
  PROVE  OrderInv'
<1>1. TypeOK' /\ EntryOwned' /\ ResponseStored'
  BY NextType, NextEntries, NextStored DEF OrderInv, TableInv
<1>2. LockDiscipline' /\ IdsFresh' /\ MessagesCaused' /\ NoVerdictBeforeWait'
  BY MainOnly, NextLock, NextIdsFresh, NextCaused, NextBeforeWait DEF OrderInv, TableInv
<1>3. QED
  BY <1>1, <1>2 DEF OrderInv, TableInv

LEMMA FirstInitInv == SystemInit => FirstProcessInv
<1> SUFFICES ASSUME SystemInit PROVE FirstProcessInv
  OBVIOUS
<1>1. SystemInv
  BY SystemInitInv
<1>2. OrderInv
  BY <1>1, MainOnly, ThreadsAssumption
     DEF SystemInit, Init, SystemInv, HandlerInv, OrderInv, LockDiscipline, IdsFresh,
         MessagesCaused, NoVerdictBeforeWait
<1>3. AcceptedHeld /\ SentOnce /\ ReportedHeld
  BY <1>2 DEF SystemInit, Init, AcceptedHeld, SentOnce, ReportedHeld
<1>4. QED
  BY <1>1, <1>3 DEF FirstProcessInv

(* An acceptance is joined to inbound and to held in one step.             *)
LEMMA HeldKept ==
  ASSUME AcceptedHeld, [SystemNext]_sysVars
  PROVE  AcceptedHeld'
<1>1. ASSUME NEW g \in GNodeBs, NEW id \in RequestIds, GNodeBAnswers(g, id)
      PROVE  AcceptedHeld'
  <2>1. PICK kind \in {"accept", "reject"} :
          /\ inbound' = inbound \cup {[kind |-> kind, id |-> id]}
          /\ held' = IF kind = "accept" THEN held \cup {<<g, id>>} ELSE held
    BY <1>1 DEF GNodeBAnswers
  <2>2. SUFFICES ASSUME NEW m \in inbound', m.kind = "accept"
                 PROVE  \E p \in held' : p[2] = m.id
    BY DEF AcceptedHeld
  <2>3. CASE m \in inbound
    BY <2>1, <2>2, <2>3 DEF AcceptedHeld
  <2>4. CASE m = [kind |-> kind, id |-> id]
    <3>1. <<g, id>> \in held' /\ m.id = id
      BY <2>1, <2>2, <2>4
    <3>2. QED
      BY <3>1
  <2>5. QED
    BY <2>1, <2>2, <2>3, <2>4
<1>2. CASE Ask \/ TransmitTo \/ HandlerStep \/ Answered \/ Restart \/ UNCHANGED sysVars
  <2>1. UNCHANGED <<inbound, held>>
    BY <1>2 DEF Ask, GetNextId, TransmitTo, Transmit, HandlerStep, systemVars, EncodeError,
       AddRequestEntry, AcquireLock, TransmitError, TransmitterReturns, BeginWait, WakeUp,
       CheckStatus, Tick, ListenerStep, Receive, RecordVerdict, NotifyAll, Answered, Restart,
       networkVars, sysVars, vars
  <2>2. QED
    BY <2>1 DEF AcceptedHeld
<1>3. QED
  BY <1>1, <1>2 DEF SystemNext

(* The id of a request that is about to be transmitted is a new one.       *)
LEMMA SentKept ==
  ASSUME NoWrap, SystemInv, SystemInv', SentOnce, [SystemNext]_sysVars
  PROVE  SentOnce'
<1>1. SUFFICES ASSUME restarts' = 0
               PROVE  /\ OrderInv'
                      /\ \A p \in sent' : p[2] \in requested'
                      /\ \A p, q \in sent' : p[2] = q[2] => p = q
  BY DEF SentOnce
<1>2. ~ Restart
  BY <1>1, SystemAssumption DEF Restart, SystemInv, SystemTypeOK
<1>3. restarts = 0
  BY <1>1, <1>2 DEF SystemNext, Ask, TransmitTo, HandlerStep, systemVars, Answered,
     GNodeBAnswers, sysVars
<1>4. OrderInv /\ TypeOK /\ main \in Requesters
      /\ (\A p \in sent : p[2] \in requested)
      /\ (\A p, q \in sent : p[2] = q[2] => p = q)
  BY <1>3, MainOnly DEF SentOnce, SystemInv, SystemTypeOK
<1>5. OrderInv'
  BY <1>2, <1>4, SystemSteps, OrderKept
<1>6. CASE TransmitTo
  <2>1. /\ sent' = sent \cup {<<Target, req_id[main]>>}
        /\ requested' = requested \cup {req_id[main]} /\ pc[main] = "locked"
    BY <1>6 DEF TransmitTo, Transmit, TransmitterReturns
  <2>2. req_id[main] \notin requested
    BY <1>4, <2>1 DEF OrderInv, NoVerdictBeforeWait
  <2>3. QED
    BY <1>4, <1>5, <2>1, <2>2
<1>7. CASE ~ TransmitTo
  <2>1. UNCHANGED <<sent, requested>>
    BY <1>2, <1>7 DEF SystemNext, Ask, GetNextId, HandlerStep, systemVars, EncodeError,
       AddRequestEntry, AcquireLock, TransmitError, TransmitterReturns, BeginWait, WakeUp,
       CheckStatus, Tick, ListenerStep, Receive, RecordVerdict, NotifyAll, Answered,
       GNodeBAnswers, RanAnswer, networkVars, sysVars, vars
  <2>2. QED
    BY <1>4, <1>5, <2>1
<1>8. QED
  BY <1>6, <1>7

(* The acceptance main() goes by was given by some gNodeB, and as long as  *)
(* an id goes to one gNodeB, by the one it asked.                          *)
LEMMA VerdictHeld ==
  ASSUME SystemInv, AcceptedHeld, Answered, outcome[main] = "subscribed"
  PROVE  /\ gNodeB_list # <<>> /\ req_id[main] \in RequestIds
         /\ <<Target, req_id[main]>> \in sent /\ held # {}
         /\ restarts = 0 /\ SentOnce => <<Target, req_id[main]>> \in held
<1>1. /\ TypeOK /\ main \in Requesters /\ held \subseteq sent
      /\ asking /\ CallForTarget
  BY MainOnly DEF SystemInv, SystemTypeOK, Answered
<1>2. gNodeB_list # <<>> /\ <<Target, req_id[main]>> \in sent
  BY <1>1 DEF CallForTarget
<1>3. [kind |-> "accept", id |-> req_id[main]] \in inbound /\ req_id[main] \in RequestIds
  BY <1>1 DEF SystemInv, HandlerInv, AcceptedInv, SubscribedMeansAccepted, TypeOK
<1>4. PICK p \in held : p[2] = req_id[main]
  BY <1>3 DEF AcceptedHeld
<1>5. ASSUME restarts = 0, SentOnce PROVE <<Target, req_id[main]>> \in held
  <2>1. \A q, r \in sent : q[2] = r[2] => q = r
    BY <1>5 DEF SentOnce
  <2>2. <<Target, req_id[main]>>[2] = req_id[main]
    OBVIOUS
  <2>3. p = <<Target, req_id[main]>>
    BY <1>1, <1>2, <1>4, <2>1, <2>2
  <2>4. QED
    BY <1>4, <2>3
<1>6. QED
  BY <1>2, <1>3, <1>4, <1>5

LEMMA ReportKept ==
  ASSUME SystemInv, AcceptedHeld, SentOnce, ReportedHeld, [SystemNext]_sysVars
  PROVE  ReportedHeld'
<1>1. SUFFICES ASSUME restarts' = 0
               PROVE  \A g \in reported' : \E id \in RequestIds : <<g, id>> \in held'
  BY DEF ReportedHeld
<1>2. ~ Restart
  BY <1>1, SystemAssumption DEF Restart, SystemInv, SystemTypeOK
<1>3. restarts = 0
  BY <1>1, <1>2 DEF SystemNext, Ask, TransmitTo, HandlerStep, systemVars, Answered,
     GNodeBAnswers, sysVars
<1>4. \A g \in reported : \E id \in RequestIds : <<g, id>> \in held
  BY <1>3 DEF ReportedHeld
<1>5. CASE Answered /\ outcome[main] = "subscribed"
  <2>1. <<Target, req_id[main]>> \in held /\ req_id[main] \in RequestIds
    BY <1>3, <1>5, VerdictHeld
  <2>2. reported' = reported \cup {Target} /\ held' = held
    BY <1>5 DEF Answered
  <2>3. QED
    BY <1>4, <2>1, <2>2
<1>6. CASE ~ (Answered /\ outcome[main] = "subscribed")
  <2>1. reported' = reported /\ held \subseteq held'
    BY <1>2, <1>6 DEF SystemNext, Ask, TransmitTo, HandlerStep, systemVars, Answered,
       GNodeBAnswers, sysVars
  <2>2. QED
    BY <1>4, <2>1
<1>7. QED
  BY <1>5, <1>6

(* kpi-xapp.cc:177 "Successfully subscribed for gNodeB %s", until the      *)
(* first restart and while ids have not wrapped: that gNodeB, and not      *)
(* another one, holds a subscription that was asked of it.                 *)
THEOREM ReportsHeld ==
  ASSUME NoWrap
  PROVE  SystemSpec => []ReportedHeld
<1>1. SystemInit => FirstProcessInv
  BY FirstInitInv
<1>2. FirstProcessInv /\ [SystemNext]_sysVars => FirstProcessInv'
  BY SystemNextInv, HeldKept, SentKept, ReportKept DEF FirstProcessInv
<1>3. FirstProcessInv => ReportedHeld
  BY DEF FirstProcessInv
<1>4. QED
  BY <1>1, <1>2, <1>3, PTL DEF SystemSpec

---------------------------------------------------------------------------------------
(* What SubscriptionProcesses leaves of the service in every process.      *)

LEMMA FirstStoreInit == SystemInit => FirstStore
<1> SUFFICES ASSUME SystemInit, NoWrap PROVE StoreInv
  BY DEF FirstStore
<1>1. OrderInv
  BY FirstInitInv DEF SystemInit, FirstProcessInv, SentOnce
<1>2. QED
  BY <1>1 DEF SystemInit, Init, StoreInv, OutcomeWhenIdle, StoreMatchesStatus,
     NeverDuplicate, OutcomeMatchesStore, Registered

LEMMA RestartsCounted ==
  ASSUME SystemInv, [SystemNext]_sysVars
  PROVE  /\ Restart => restarts' # 0
         /\ ~ Restart => restarts' = restarts /\ [Next]_vars
<1>1. Restart => restarts' # 0
  BY SystemAssumption DEF Restart, SystemInv, SystemTypeOK
<1>2. ~ Restart => restarts' = restarts
  BY DEF SystemNext, Ask, TransmitTo, HandlerStep, systemVars, Answered, GNodeBAnswers,
     sysVars
<1>3. QED
  BY <1>1, <1>2, SystemSteps

LEMMA FirstStoreKept ==
  ASSUME SystemInv, FirstStore, [SystemNext]_sysVars
  PROVE  FirstStore'
<1>1. SUFFICES ASSUME restarts' = 0, NoWrap PROVE StoreInv'
  BY DEF FirstStore, NoWrap
<1>2. ~ Restart /\ restarts = 0 /\ [Next]_vars /\ StoreInv
  BY <1>1, RestartsCounted DEF FirstStore
<1>3. OrderInv'
  BY <1>1, <1>2, OrderKept DEF StoreInv, OrderInv, TableInv
<1>4. QED
  BY <1>1, <1>2, <1>3, NextStore

(* In the first process it is the service itself.                          *)
LEMMA FreshRefines ==
  ASSUME NoWrap, restarts = 0, restarts' = 0, StoreInv, StoreInv', [Next]_vars
  PROVE  [Processes!ProcessNext]_(Processes!processVars)
<1>1. [Service!Next]_(Service!vars)
  BY MainOnly, NextRefines
<1>2. UNCHANGED (restarts = 0 /\ NoWrap)
  BY DEF NoWrap
<1>3. CASE UNCHANGED Service!vars
  BY <1>2, <1>3 DEF Service!vars, Processes!processVars
<1>4. CASE Service!Next
  <2>1. Processes!Next
    BY <1>4 DEF Service!Next, Service!Open, Service!Answer, Service!Grant, Service!Refuse,
       Service!Return, Processes!Next, Processes!Open, Processes!Answer, Processes!Grant,
       Processes!Refuse, Processes!Return
  <2>2. QED
    BY <1>2, <2>1 DEF Processes!ProcessNext
<1>5. QED
  BY <1>1, <1>3, <1>4

(* A call that is made, decided or returned, in any process.               *)
LEMMA LaterCall ==
  ASSUME SystemInv, GetNextId(main) \/ CallStep(main)
  PROVE  \/ Processes!CallerStep(main)
         \/ UNCHANGED <<CallPhases, outcome, RanAnswers>>
<1> DEFINE Goal == \/ Processes!CallerStep(main)
                   \/ UNCHANGED <<CallPhases, outcome, RanAnswers>>
<1>1. /\ Requesters = {main} /\ TypeOK
      /\ CallPhases = [r \in Requesters |-> CallPhase(main)]
      /\ CallPhases' = [r \in Requesters |-> CallPhase(main)']
      /\ RanAnswers = [r \in Requesters |-> AnswersTo(main)]
      /\ RanAnswers' = [r \in Requesters |-> AnswersTo(main)']
  BY MainOnly DEF SystemInv, SystemTypeOK, CallPhases, RanAnswers
<1>2. CASE GetNextId(main)
  <2>1. CallPhase(main) = "idle" /\ CallPhase(main)' = "open"
    BY <1>1, <1>2 DEF GetNextId, CallPhase, TypeOK
  <2>2. AnswersTo(main)' \in SUBSET Processes!Kinds
    BY DEF AnswersTo, Processes!Kinds
  <2>3. Processes!Reopen(main)
    BY <1>1, <1>2, <2>1, <2>2 DEF GetNextId, Processes!Reopen
  <2>4. QED
    BY <2>3 DEF Processes!CallerStep
<1>3. ASSUME CallStep(main)
      PROVE  req_id' = req_id /\ inbound' = inbound /\ AnswersTo(main)' = AnswersTo(main)
  BY <1>3 DEF CallStep, EncodeError, AddRequestEntry, AcquireLock, Transmit, TransmitError,
     TransmitterReturns, BeginWait, WakeUp, CheckStatus, callVars, networkVars, AnswersTo
<1>4. CASE AcquireLock(main) \/ Transmit(main) \/ BeginWait(main) \/ WakeUp(main)
  <2>1. CallPhase(main)' = CallPhase(main) /\ UNCHANGED outcome
    BY <1>1, <1>4 DEF AcquireLock, Transmit, BeginWait, WakeUp, CallPhase, Goto, tableVars,
       callVars, TypeOK
  <2>2. QED
    BY <1>1, <1>3, <1>4, <2>1 DEF CallStep
(* true is returned to a granted call only                                 *)
<1>5. ASSUME CallStep(main), CallPhase(main) # "idle", Return(main, "refused"),
             CallPhase(main) # "granted" \/ TransmitError(main)
      PROVE  Goal
  <2>1. CallPhase(main)' = "idle"
    BY <1>1, <1>5 DEF Return, CallPhase, TypeOK
  <2>2. CASE CallPhase(main) # "granted"
    <3>1. Processes!Return(main)
      BY <1>1, <1>3, <1>5, <2>1, <2>2 DEF Return, Processes!Return
    <3>2. QED
      BY <3>1 DEF Processes!CallerStep
  <2>3. CASE CallPhase(main) = "granted"
    <3>1. Processes!Withdraw(main)
      BY <1>1, <1>3, <1>5, <2>1, <2>3 DEF Return, Processes!Withdraw
    <3>2. QED
      BY <3>1 DEF Processes!CallerStep
  <2>4. QED
    BY <2>2, <2>3
<1>6. CASE EncodeError(main)
  BY <1>5, <1>6 DEF CallStep, EncodeError, CallPhase
<1>7. CASE TransmitError(main)
  BY <1>5, <1>7 DEF CallStep, TransmitError, CallPhase
<1>8. CASE AddRequestEntry(main)
  <2>1. CASE requests_table[req_id[main]] = "absent"
    <3>1. CallPhase(main)' = CallPhase(main) /\ UNCHANGED outcome
      BY <1>1, <1>8, <2>1 DEF AddRequestEntry, CallPhase, SetStatus, Goto, TypeOK
    <3>2. QED
      BY <1>1, <1>3, <1>8, <3>1 DEF CallStep
  <2>2. CASE requests_table[req_id[main]] # "absent"
    BY <1>5, <1>8, <2>2 DEF CallStep, AddRequestEntry, CallPhase
  <2>3. QED
    BY <2>1, <2>2
<1>9. CASE CheckStatus(main)
  <2>1. CASE requests_table[req_id[main]] = "success"
    <3>1. CallPhase(main) = "granted" /\ Return(main, "subscribed")
      BY <1>9, <2>1 DEF CheckStatus, CallPhase
    <3>2. CallPhase(main)' = "idle"
      BY <1>1, <3>1 DEF Return, CallPhase, TypeOK
    <3>3. Processes!Return(main)
      BY <1>1, <1>3, <1>9, <3>1, <3>2 DEF CallStep, Return, Processes!Return
    <3>4. QED
      BY <3>3 DEF Processes!CallerStep
  <2>2. CASE Goto(main, "waiting")
    <3>1. requests_table' = requests_table
      BY <1>1, <1>9, <2>2 DEF CheckStatus, Goto, Return, TypeOK
    <3>2. CallPhase(main)' = CallPhase(main) /\ UNCHANGED outcome
      BY <1>1, <1>9, <2>2, <3>1 DEF CheckStatus, CallPhase, Goto, callVars, TypeOK
    <3>3. QED
      BY <1>1, <1>3, <1>9, <3>2 DEF CallStep
  <2>3. CASE requests_table[req_id[main]] # "success" /\ Return(main, "refused")
    BY <1>5, <1>9, <2>3 DEF CallStep, CheckStatus, CallPhase
  <2>4. QED
    BY <1>9, <2>1, <2>2, <2>3 DEF CheckStatus
<1>10. QED
  BY <1>2, <1>4, <1>6, <1>7, <1>8, <1>9 DEF CallStep

(* A verdict reaches the call whose id it carries, and the RAN answers.    *)
LEMMA LaterNetwork ==
  ASSUME SystemInv,
         \/ Tick(main)
         \/ \E l \in Listeners : ListenerStep(l)
         \/ \E id \in RequestIds : RanAnswer(id)
  PROVE  \/ Processes!CallerStep(main)
         \/ UNCHANGED <<CallPhases, outcome, RanAnswers>>
<1>1. /\ Requesters = {main} /\ TypeOK /\ EntryOwned /\ SuccessCaused
      /\ CallPhases = [r \in Requesters |-> CallPhase(main)]
      /\ CallPhases' = [r \in Requesters |-> CallPhase(main)']
      /\ RanAnswers = [r \in Requesters |-> AnswersTo(main)]
      /\ RanAnswers' = [r \in Requesters |-> AnswersTo(main)']
  BY MainOnly DEF SystemInv, SystemTypeOK, HandlerInv, TableInv, AcceptedInv, CallPhases,
     RanAnswers
<1>2. CASE Tick(main) \/ \E l \in Listeners : Receive(l) \/ NotifyAll(l)
  <2>1. UNCHANGED <<CallPhase(main), AnswersTo(main), outcome>>
    BY <1>1, <1>2 DEF Tick, Receive, NotifyAll, CallPhase, AnswersTo, tableVars, callVars,
       networkVars, TypeOK
  <2>2. QED
    BY <1>1, <2>1
<1>3. ASSUME NEW l \in Listeners, RecordVerdict(l)
      PROVE  \/ Processes!CallerStep(main)
             \/ UNCHANGED <<CallPhases, outcome, RanAnswers>>
  <2>1. UNCHANGED <<pc, req_id, outcome, inbound, AnswersTo(main)>>
    BY <1>3 DEF RecordVerdict, callVars, networkVars, AnswersTo
  <2>2. CASE ~ Relevant(message[l])
    <3>1. UNCHANGED CallPhase(main)
      BY <1>3, <2>1, <2>2 DEF RecordVerdict, tableVars, CallPhase
    <3>2. QED
      BY <1>1, <2>1, <3>1
  <2>3. CASE Relevant(message[l])
    <3>1. /\ message[l].id \in RequestIds /\ message[l] \in inbound
          /\ message[l] \in Messages
          /\ message[l].kind \in {"accept", "reject"}
          /\ requests_table[message[l].id] = "pending"
      BY <1>1, <1>3, <2>3 DEF RecordVerdict, SuccessCaused, TypeOK, Relevant, Messages
    <3>2. pc[main] \in Registered /\ req_id[main] = message[l].id
      BY <1>1, <3>1 DEF EntryOwned
    <3>3. message[l].kind \in AnswersTo(main)
      BY <3>1, <3>2 DEF AnswersTo, Messages
    <3>4. /\ CallPhase(main) = "open"
          /\ CallPhase(main)' = IF VerdictOf(message[l]) = "success" THEN "granted" ELSE "refused"
      <4>1. requests_table'[req_id[main]] = VerdictOf(message[l])
        BY <1>1, <1>3, <2>3, <3>1, <3>2 DEF RecordVerdict, SetStatus, TypeOK
      <4>2. VerdictOf(message[l]) \in {"failed", "duplicate", "success"}
        BY DEF VerdictOf
      <4>3. QED
        BY <2>1, <3>1, <3>2, <4>1, <4>2 DEF CallPhase, Registered
    <3>5. CASE VerdictOf(message[l]) = "success"
      <4>1. message[l].kind = "accept"
        BY <3>1, <3>5 DEF VerdictOf
      <4>2. Processes!Grant(main)
        BY <1>1, <2>1, <3>3, <3>4, <3>5, <4>1 DEF Processes!Grant
      <4>3. QED
        BY <4>2 DEF Processes!CallerStep
    <3>6. CASE VerdictOf(message[l]) # "success"
      <4>1. Processes!RefuseAnswered(main)
        BY <1>1, <2>1, <3>3, <3>4, <3>6 DEF Processes!RefuseAnswered
      <4>2. QED
        BY <4>1 DEF Processes!CallerStep
    <3>7. QED
      BY <3>5, <3>6
  <2>4. QED
    BY <2>2, <2>3
<1>4. ASSUME NEW id \in RequestIds, RanAnswer(id)
      PROVE  \/ Processes!CallerStep(main)
             \/ UNCHANGED <<CallPhases, outcome, RanAnswers>>
  <2>1. PICK kind \in {"accept", "reject"} :
          inbound' = inbound \cup {[kind |-> kind, id |-> id]}
    BY <1>4 DEF RanAnswer
  <2>2. UNCHANGED <<requests_table, pc, req_id, outcome, CallPhase(main)>>
    BY <1>4 DEF RanAnswer, tableVars, callVars, CallPhase
  <2>3. AnswersTo(main)' = IF req_id[main] = id THEN AnswersTo(main) \cup {kind}
                                                 ELSE AnswersTo(main)
    BY <2>1, <2>2 DEF AnswersTo
  <2>4. CASE req_id[main] = id
    <3>1. Processes!Answer(main)
      BY <1>1, <2>1, <2>2, <2>3, <2>4 DEF Processes!Answer
    <3>2. QED
      BY <3>1 DEF Processes!CallerStep
  <2>5. CASE req_id[main] # id
    BY <1>1, <2>2, <2>3, <2>5
  <2>6. QED
    BY <2>4, <2>5
<1>5. QED
  BY <1>2, <1>3, <1>4 DEF ListenerStep

LEMMA LaterRefines ==
  ASSUME SystemInv, [Next]_vars, ~ (restarts = 0 /\ NoWrap), restarts' = restarts
  PROVE  [Processes!ProcessNext]_(Processes!processVars)
<1>1. UNCHANGED (restarts = 0 /\ NoWrap)
  BY DEF NoWrap
<1>2. \/ Processes!CallerStep(main)
      \/ UNCHANGED <<CallPhases, outcome, RanAnswers>>
  <2>1. CASE UNCHANGED vars
    BY <2>1 DEF vars, CallPhases, RanAnswers, CallPhase, AnswersTo
  <2>2. CASE Next
    BY <2>2, MainOnly, LaterCall, LaterNetwork DEF Next
  <2>3. QED
    BY <2>1, <2>2
<1>3. CASE Processes!CallerStep(main)
  BY <1>1, <1>3, MainOnly DEF Processes!ProcessNext
<1>4. CASE UNCHANGED <<CallPhases, outcome, RanAnswers>>
  BY <1>1, <1>4 DEF Processes!processVars
<1>5. QED
  BY <1>2, <1>3, <1>4

LEMMA RestartRefines ==
  ASSUME SystemInv, [SystemNext]_sysVars, Restart
  PROVE  Processes!ProcessNext
<1>1. CallPhases' = [r \in Requesters |-> "idle"] /\ outcome' = [r \in Requesters |-> "none"]
  BY DEF Restart, CallPhases, CallPhase
<1>2. RanAnswers' \in [Requesters -> SUBSET Processes!Kinds]
  BY DEF RanAnswers, AnswersTo, Processes!Kinds
<1>3. (restarts = 0 /\ NoWrap)' = FALSE
  BY RestartsCounted
<1>4. Processes!StartAgain
  BY <1>1, <1>2, <1>3 DEF Processes!StartAgain
<1>5. QED
  BY <1>4 DEF Processes!ProcessNext

(* kpi-xapp.cc and subscription_handler.hpp:105-208, for any number of     *)
(* restarts, listeners and ids: the calls main() makes are served as       *)
(* SubscriptionService says until the first restart or wrap of the ids,    *)
(* and afterwards as SubscriptionProcesses does.                           *)
THEOREM EveryProcessServed == SystemSpec => EveryProcessServes
<1>1. SystemInit => Processes!ProcessInit
  <2>1. ASSUME SystemInit PROVE Processes!Init
    BY <2>1 DEF SystemInit, Init, Processes!Init, CallPhases, RanAnswers, CallPhase, AnswersTo
  <2>2. (restarts = 0 /\ NoWrap) \in BOOLEAN
    BY Zenon
  <2>3. QED
    BY <2>1, <2>2 DEF Processes!ProcessInit
<1>2. SystemInv /\ FirstStore /\ [SystemNext]_sysVars => FirstStore'
  BY FirstStoreKept
<1>3. SystemInv /\ FirstStore /\ FirstStore' /\ [SystemNext]_sysVars
        => [Processes!ProcessNext]_(Processes!processVars)
  <2> SUFFICES ASSUME SystemInv, FirstStore, FirstStore', [SystemNext]_sysVars
               PROVE  [Processes!ProcessNext]_(Processes!processVars)
    OBVIOUS
  <2>1. CASE Restart
    BY <2>1, RestartRefines
  <2>2. CASE ~ Restart /\ ~ (restarts = 0 /\ NoWrap)
    BY <2>2, RestartsCounted, LaterRefines
  <2>3. CASE ~ Restart /\ restarts = 0 /\ NoWrap
    <3>1. restarts' = 0 /\ [Next]_vars /\ StoreInv /\ StoreInv'
      BY <2>3, RestartsCounted DEF FirstStore, NoWrap
    <3>2. QED
      BY <2>3, <3>1, FreshRefines
  <2>4. QED
    BY <2>1, <2>2, <2>3
<1>4. QED
  BY <1>1, <1>2, <1>3, FirstStoreInit, SystemInvHolds, PTL
     DEF SystemSpec, EveryProcessServes, Processes!ProcessSpec
---------------------------------------------------------------------------------------
(* The campaign: what is left when the handler and the network are hidden. *)

(* A step that is not seen from there.                                     *)
LEMMA CampaignStutter ==
  ASSUME UNCHANGED <<gNodeB_list, sent, held, restarts>>
  PROVE  UNCHANGED Campaign!vars
BY DEF Campaign!vars, NoWrap

LEMMA RequestRefines ==
  ASSUME SystemInv, TransmitTo
  PROVE  Campaign!Ask
<1>1. pc[main] = "locked" /\ sent' = sent \cup {<<Target, req_id[main]>>}
      /\ UNCHANGED <<gNodeB_list, held, restarts>>
  BY DEF TransmitTo, Transmit
<1>2. gNodeB_list # <<>>
  BY <1>1 DEF SystemInv, CallForTarget
<1>3. {p[1] : p \in sent'} = {p[1] : p \in sent} \cup {Target}
  <2>1. <<Target, req_id[main]>>[1] = Target
    OBVIOUS
  <2>2. QED
    BY <1>1, <2>1
<1>4. QED
  BY <1>1, <1>2, <1>3 DEF Campaign!Ask, Target, NoWrap

LEMMA AnswerRefines ==
  ASSUME NEW g \in GNodeBs, NEW id \in RequestIds, GNodeBAnswers(g, id)
  PROVE  [Campaign!Next]_(Campaign!vars)
<1>1. <<g, id>> \in sent /\ UNCHANGED <<gNodeB_list, sent, restarts>>
      /\ (held' = held \/ held' = held \cup {<<g, id>>})
  BY DEF GNodeBAnswers
<1>2. <<g, id>>[1] = g
  OBVIOUS
<1>3. CASE held' = held
  BY <1>1, <1>3, CampaignStutter
<1>4. CASE held' = held \cup {<<g, id>>}
  <2>1. {p[1] : p \in held'} = {p[1] : p \in held} \cup {g}
    BY <1>2, <1>4
  <2>2. g \in {p[1] : p \in sent}
    BY <1>1, <1>2
  <2>3. Campaign!Subscribe
    BY <1>1, <2>1, <2>2 DEF Campaign!Subscribe, NoWrap
  <2>4. QED
    BY <2>3 DEF Campaign!Next
<1>5. QED
  BY <1>1, <1>3, <1>4

LEMMA AnsweredRefines ==
  ASSUME SystemInv, AcceptedHeld, NoWrap => SentOnce, Answered
  PROVE  [Campaign!Next]_(Campaign!vars)
<1>1. UNCHANGED <<sent, held, restarts>>
  BY DEF Answered
<1>2. CASE outcome[main] = "subscribed"
  <2>1. /\ gNodeB_list # <<>> /\ <<Target, req_id[main]>> \in sent /\ held # {}
        /\ restarts = 0 /\ NoWrap => <<Target, req_id[main]>> \in held
    BY <1>2, VerdictHeld
  <2>2. <<Target, req_id[main]>>[1] = Target
    OBVIOUS
  <2>3. /\ Target \in {p[1] : p \in sent} /\ {p[1] : p \in held} # {}
        /\ restarts = 0 /\ NoWrap => Target \in {p[1] : p \in held}
    BY <2>1, <2>2
  <2>4. gNodeB_list' = Tail(gNodeB_list)
    BY <1>2 DEF Answered
  <2>5. Campaign!Leave
    BY <1>1, <2>1, <2>3, <2>4 DEF Campaign!Leave, Target, NoWrap
  <2>6. QED
    BY <2>5 DEF Campaign!Next
<1>3. CASE outcome[main] # "subscribed"
  <2>1. UNCHANGED <<gNodeB_list, sent, held, restarts>>
    BY <1>1, <1>3 DEF Answered
  <2>2. QED
    BY <2>1, CampaignStutter
<1>4. QED
  BY <1>2, <1>3

LEMMA CampaignRefines ==
  ASSUME SystemInv, AcceptedHeld, NoWrap => SentOnce, [SystemNext]_sysVars
  PROVE  [Campaign!Next]_(Campaign!vars)
<1>1. CASE TransmitTo
  BY <1>1, RequestRefines DEF Campaign!Next
<1>2. ASSUME NEW g \in GNodeBs, NEW id \in RequestIds, GNodeBAnswers(g, id)
      PROVE  [Campaign!Next]_(Campaign!vars)
  BY <1>2, AnswerRefines
<1>3. CASE Answered
  BY <1>3, AnsweredRefines
<1>4. CASE Restart
  <2>1. (restarts = 0 /\ NoWrap)' = FALSE
    BY <1>4, RestartsCounted
  <2>2. Campaign!StartAgain
    BY <1>4, <2>1 DEF Restart, Campaign!StartAgain
  <2>3. QED
    BY <2>2 DEF Campaign!Next
<1>5. CASE Ask \/ HandlerStep \/ UNCHANGED sysVars
  BY <1>5, CampaignStutter DEF Ask, HandlerStep, systemVars, sysVars
<1>6. QED
  BY <1>1, <1>2, <1>3, <1>4, <1>5 DEF SystemNext

(* kpi-xapp.cc:158-187, over all restarts, lists and interleavings: the    *)
(* gNodeBs are asked in order, each leaves the list by a subscription of   *)
(* its own in the first process, and by one of some gNodeB that was asked  *)
(* in a later one.                                                         *)
THEOREM ProgramRunsCampaign == SystemSpec => RunsCampaign
<1>1. SystemInit => Campaign!Init
  <2>1. (restarts = 0 /\ NoWrap) \in BOOLEAN
    BY Zenon
  <2>2. QED
    BY <2>1 DEF SystemInit, Campaign!Init
<1>2. SystemInit => AcceptedHeld /\ (NoWrap => SentOnce)
  BY FirstInitInv DEF FirstProcessInv
<1>3. SystemInv /\ SystemInv' /\ AcceptedHeld /\ (NoWrap => SentOnce) /\ [SystemNext]_sysVars
        => AcceptedHeld' /\ (NoWrap => SentOnce)'
  BY HeldKept, SentKept DEF NoWrap
<1>4. SystemInv /\ AcceptedHeld /\ (NoWrap => SentOnce) /\ [SystemNext]_sysVars
        => [Campaign!Next]_(Campaign!vars)
  BY CampaignRefines
<1>5. QED
  BY <1>1, <1>2, <1>3, <1>4, SystemInvHolds, PTL DEF SystemSpec, RunsCampaign, Campaign!Spec
=======================================================================================
