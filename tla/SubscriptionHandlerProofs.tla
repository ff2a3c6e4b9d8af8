------------------------ MODULE SubscriptionHandlerProofs ------------------------
(***************************************************************************)
(* Proofs about SubscriptionHandler for every set of threads, id width and *)
(* timeout setting.                                                        *)
(***************************************************************************)
EXTENDS SubscriptionHandler, TLAPS

LEMMA InitTypeOK == Init => TypeOK
  BY IdAssumption, TimeoutAssumption
     DEF Init, TypeOK, RequestIds, Statuses, RequesterLocations, Messages,
         NoMessage, MaxElapsed, Transmissions

(* What Response may write: the verdict on a pending request.              *)
LEMMA VerdictType ==
  ASSUME NEW m PROVE VerdictOf(m) \in Verdicts
  BY DEF VerdictOf, Verdicts

(* The steps of a call keep every variable in its type.                    *)
LEMMA CallStepType ==
  ASSUME TypeOK, NEW r \in Requesters, CallStep(r)
  PROVE  TypeOK'
<1> USE DEF TypeOK, tableVars, callVars, listenerVars, networkVars, Return, Goto,
            SetStatus, DeleteEntry, Statuses, RequesterLocations
<1>1. CASE EncodeError(r)
  BY <1>1 DEF EncodeError
<1>2. CASE AddRequestEntry(r)
  BY <1>2 DEF AddRequestEntry
<1>3. CASE AcquireLock(r)
  BY <1>3 DEF AcquireLock
<1>4. CASE Transmit(r)
  BY <1>4, TimeoutAssumption DEF Transmit, TransmitterReturns, Transmissions, MaxElapsed
<1>5. CASE TransmitError(r)
  BY <1>5 DEF TransmitError, TransmitterReturns, Transmissions
<1>6. CASE BeginWait(r)
  BY <1>6 DEF BeginWait
<1>7. CASE WakeUp(r)
  BY <1>7 DEF WakeUp
<1>8. CASE CheckStatus(r)
  BY <1>8 DEF CheckStatus
<1>9. QED
  BY <1>1, <1>2, <1>3, <1>4, <1>5, <1>6, <1>7, <1>8 DEF CallStep

LEMMA NextType ==
  ASSUME TypeOK, [Next]_vars
  PROVE  TypeOK'
<1>1. ASSUME NEW r \in Requesters, GetNextId(r)
      PROVE  TypeOK'
  <2>1. NextId \in RequestIds
    BY IdAssumption DEF TypeOK, NextId, RequestIds
  <2>2. QED
    BY <1>1, <2>1 DEF GetNextId, TypeOK, tableVars, listenerVars, networkVars,
                      RequesterLocations
<1>2. ASSUME NEW r \in Requesters, Tick(r)
      PROVE  TypeOK'
  BY <1>2, TimeoutAssumption DEF Tick, TypeOK, tableVars, listenerVars,
                                 networkVars, MaxElapsed
<1>3. ASSUME NEW l \in Listeners, Receive(l)
      PROVE  TypeOK'
  BY <1>3, StraysAssumption DEF Receive, TypeOK, tableVars, callVars, networkVars
<1>4. ASSUME NEW l \in Listeners, RecordVerdict(l)
      PROVE  TypeOK'
  <2>1. message[l].id \in RequestIds /\ NoMessage \in Messages
    BY IdAssumption DEF TypeOK, Messages, NoMessage, RequestIds
  <2>2. QED
    BY <1>4, <2>1, VerdictType
       DEF RecordVerdict, TypeOK, tableVars, callVars, networkVars, SetStatus, Statuses
<1>5. ASSUME NEW l \in Listeners, NotifyAll(l)
      PROVE  TypeOK'
  BY <1>5 DEF NotifyAll, TypeOK, tableVars, callVars, networkVars, RequesterLocations
<1>6. ASSUME NEW id \in RequestIds, RanAnswer(id)
      PROVE  TypeOK'
  BY <1>6 DEF RanAnswer, TypeOK, tableVars, callVars, listenerVars, Messages
<1>7. CASE UNCHANGED vars
  BY <1>7 DEF vars, TypeOK
<1>8. QED
  BY <1>1, <1>2, <1>3, <1>4, <1>5, <1>6, <1>7, CallStepType DEF Next, ListenerStep

(* clear() may come between any two steps of the class.                    *)
LEMMA ApiType ==
  ASSUME TypeOK, [Next \/ Clear]_vars
  PROVE  TypeOK'
<1>1. CASE Clear
  BY <1>1 DEF Clear, TypeOK, Statuses, callVars, listenerVars, networkVars
<1>2. CASE [Next]_vars
  BY <1>2, NextType
<1>3. QED
  BY <1>1, <1>2

(* What holds of the class with clear() holds of the calls that the        *)
(* program makes.                                                          *)
LEMMA SpecIsApiSpec == Spec => ApiSpec
<1>1. [Next]_vars => [Next \/ Clear]_vars
  OBVIOUS
<1>2. QED
  BY <1>1, PTL DEF Spec, ApiSpec

(* subscription_handler.hpp, with clear(): in particular the request id    *)
(* stays an unsigned int of the counter's width.                           *)
THEOREM TypeCorrect == ApiSpec => []TypeOK
<1>1. TypeOK /\ [Next \/ Clear]_vars => TypeOK'
  BY ApiType
<1>2. QED
  BY InitTypeOK, <1>1, PTL DEF ApiSpec

----------------------------------------------------------------------------
(* The table: who owns an entry, and what a success rests on.              *)

LEMMA CallStepEntries ==
  ASSUME TypeOK, EntryOwned, NEW r \in Requesters, CallStep(r)
  PROVE  EntryOwned'
<1> USE DEF TypeOK, EntryOwned, Registered, tableVars, callVars, Return, Goto,
            SetStatus, DeleteEntry
<1>1. CASE EncodeError(r)
  BY <1>1 DEF EncodeError
<1>2. CASE AddRequestEntry(r)
  BY <1>2 DEF AddRequestEntry
<1>3. CASE AcquireLock(r)
  BY <1>3 DEF AcquireLock
<1>4. CASE Transmit(r)
  BY <1>4 DEF Transmit
<1>5. CASE TransmitError(r)
  BY <1>5 DEF TransmitError
<1>6. CASE BeginWait(r)
  BY <1>6 DEF BeginWait
<1>7. CASE WakeUp(r)
  BY <1>7 DEF WakeUp
<1>8. CASE CheckStatus(r)
  BY <1>8 DEF CheckStatus
<1>9. QED
  BY <1>1, <1>2, <1>3, <1>4, <1>5, <1>6, <1>7, <1>8 DEF CallStep

LEMMA NextEntries ==
  ASSUME TypeOK, EntryOwned, [Next]_vars
  PROVE  EntryOwned'
<1>1. ASSUME NEW r \in Requesters, GetNextId(r)
      PROVE  EntryOwned'
  BY <1>1 DEF GetNextId, TypeOK, EntryOwned, Registered, tableVars
<1>2. ASSUME NEW r \in Requesters, Tick(r)
      PROVE  EntryOwned'
  BY <1>2 DEF Tick, EntryOwned, tableVars
<1>3. ASSUME NEW l \in Listeners, Receive(l)
      PROVE  EntryOwned'
  BY <1>3 DEF Receive, EntryOwned, tableVars, callVars
<1>4. ASSUME NEW l \in Listeners, RecordVerdict(l)
      PROVE  EntryOwned'
  <2>1. \A id \in RequestIds : requests_table'[id] = "absent" <=> requests_table[id] = "absent"
    BY <1>4, VerdictType
       DEF RecordVerdict, TypeOK, Relevant, SetStatus, Verdicts, tableVars
  <2>2. QED
    BY <1>4, <2>1 DEF RecordVerdict, EntryOwned, callVars
<1>5. ASSUME NEW l \in Listeners, NotifyAll(l)
      PROVE  EntryOwned'
  BY <1>5 DEF NotifyAll, TypeOK, EntryOwned, Registered, tableVars, callVars
<1>6. ASSUME NEW id \in RequestIds, RanAnswer(id)
      PROVE  EntryOwned'
  BY <1>6 DEF RanAnswer, EntryOwned, tableVars, callVars
<1>7. CASE UNCHANGED vars
  BY <1>7 DEF vars, EntryOwned
<1>8. QED
  BY <1>1, <1>2, <1>3, <1>4, <1>5, <1>6, <1>7, CallStepEntries DEF Next, ListenerStep

(* A success is only written by Response, together with the response; no   *)
(* other step writes one or removes a response.                            *)
LEMMA NextStored ==
  ASSUME TypeOK, ResponseStored, [Next]_vars
  PROVE  ResponseStored'
<1> USE DEF TypeOK, ResponseStored, tableVars, SetStatus, DeleteEntry
<1>1. ASSUME NEW r \in Requesters, GetNextId(r) \/ Tick(r)
      PROVE  ResponseStored'
  BY <1>1 DEF GetNextId, Tick
<1>2. ASSUME NEW r \in Requesters, CallStep(r)
      PROVE  ResponseStored'
  BY <1>2 DEF CallStep, EncodeError, AddRequestEntry, AcquireLock, Transmit,
              TransmitError, BeginWait, WakeUp, CheckStatus
<1>3. ASSUME NEW l \in Listeners, ListenerStep(l)
      PROVE  ResponseStored'
  BY <1>3 DEF ListenerStep, Receive, RecordVerdict, NotifyAll, Relevant, VerdictOf,
              Messages
<1>4. ASSUME NEW id \in RequestIds, RanAnswer(id)
      PROVE  ResponseStored'
  BY <1>4 DEF RanAnswer
<1>5. CASE UNCHANGED vars
  BY <1>5 DEF vars
<1>6. QED
  BY <1>1, <1>2, <1>3, <1>4, <1>5 DEF Next

LEMMA TableInvariant == Spec => []TableInv
<1>1. Init => TableInv
  BY InitTypeOK DEF Init, TableInv, EntryOwned, ResponseStored, Registered
<1>2. TableInv /\ [Next]_vars => TableInv'
  BY NextType, NextEntries, NextStored DEF TableInv
<1>3. QED
  BY <1>1, <1>2, PTL DEF Spec

(* Every entry of requests_table belongs to exactly one call in progress,  *)
(* whatever the threads, the wrap-around and the messages: no return path  *)
(* of RequestSubscription leaks an entry.                                  *)
THEOREM EntriesOwned == Spec => []EntryOwned
<1>1. TableInv => EntryOwned
  BY DEF TableInv
<1>2. QED
  BY TableInvariant, <1>1, PTL

(* RequestSubscription never makes up a response with operator[], not even *)
(* when clear() empties the tables under it: it empties both.              *)
THEOREM ResponsesStored == ApiSpec => []ResponseStored
<1>1. Init => ResponseStored
  BY DEF Init, ResponseStored
<1>2. TypeOK /\ ResponseStored /\ [Next \/ Clear]_vars => ResponseStored'
  <2>1. Clear => ResponseStored'
    BY DEF Clear, ResponseStored
  <2>2. TypeOK /\ ResponseStored /\ [Next]_vars => ResponseStored'
    BY NextStored
  <2>3. QED
    BY <2>1, <2>2
<1>3. QED
  BY TypeCorrect, <1>1, <1>2, PTL DEF ApiSpec

(* A verdict, once recorded, is never replaced by another one, whatever    *)
(* the threads, the wrap-around, the messages and clear() do.              *)
THEOREM VerdictsStand == ApiSpec => FirstVerdictStands
<1> DEFINE Stands == \A id \in RequestIds :
      requests_table[id] \in Verdicts
        => requests_table'[id] \in {requests_table[id], "absent"}
<1>1. ASSUME TypeOK, [Next]_vars
      PROVE  Stands
  <2> USE DEF TypeOK, tableVars, SetStatus, DeleteEntry, Verdicts
  <2>1. ASSUME NEW r \in Requesters, GetNextId(r) \/ Tick(r)
        PROVE  Stands
    BY <1>1, <2>1 DEF GetNextId, Tick
  <2>2. ASSUME NEW r \in Requesters, CallStep(r)
        PROVE  Stands
    BY <1>1, <2>2 DEF CallStep, EncodeError, AddRequestEntry, AcquireLock, Transmit,
                TransmitError, BeginWait, WakeUp, CheckStatus
  <2>3. ASSUME NEW l \in Listeners, ListenerStep(l)
        PROVE  Stands
    BY <1>1, <2>3 DEF ListenerStep, Receive, RecordVerdict, NotifyAll, Relevant
  <2>4. ASSUME NEW id \in RequestIds, RanAnswer(id)
        PROVE  Stands
    BY <2>4 DEF RanAnswer
  <2>5. CASE UNCHANGED vars
    BY <2>5 DEF vars
  <2>6. QED
    BY <1>1, <2>1, <2>2, <2>3, <2>4, <2>5 DEF Next
<1>2. ASSUME Clear
      PROVE  Stands
  BY <1>2 DEF Clear
<1>3. TypeOK /\ [Next \/ Clear]_vars => [Stands]_vars
  BY <1>1, <1>2
<1>4. QED
  BY TypeCorrect, <1>3, PTL DEF ApiSpec, FirstVerdictStands

----------------------------------------------------------------------------
(* The order of things, while the counter has not wrapped and every        *)
(* message was caused by a request.                                        *)

LEMMA NextLock ==
  ASSUME TypeOK, LockDiscipline, [Next]_vars
  PROVE  LockDiscipline'
<1> USE ThreadsAssumption DEF TypeOK, LockDiscipline, LockFree, Return, Goto,
                              callVars
<1>1. ASSUME NEW r \in Requesters, GetNextId(r) \/ Tick(r)
      PROVE  LockDiscipline'
  BY <1>1 DEF GetNextId, Tick
<1>2. ASSUME NEW r \in Requesters, CallStep(r)
      PROVE  LockDiscipline'
  <2>1. CASE EncodeError(r) \/ AddRequestEntry(r) \/ WakeUp(r) \/ CheckStatus(r)
    BY <2>1 DEF EncodeError, AddRequestEntry, WakeUp, CheckStatus
  <2>2. CASE AcquireLock(r)
    BY <2>2 DEF AcquireLock
  <2>3. CASE Transmit(r)
    BY <2>3 DEF Transmit
  <2>4. CASE TransmitError(r) \/ BeginWait(r)
    BY <2>4 DEF TransmitError, BeginWait
  <2>5. QED
    BY <1>2, <2>1, <2>2, <2>3, <2>4 DEF CallStep
<1>3. ASSUME NEW l \in Listeners, ListenerStep(l)
      PROVE  LockDiscipline'
  BY <1>3 DEF ListenerStep, Receive, RecordVerdict, NotifyAll
<1>4. ASSUME NEW id \in RequestIds, RanAnswer(id)
      PROVE  LockDiscipline'
  BY <1>4 DEF RanAnswer
<1>5. CASE UNCHANGED vars
  BY <1>5 DEF vars
<1>6. QED
  BY <1>1, <1>2, <1>3, <1>4, <1>5 DEF Next

(* Without a wrap the id of a new call is larger than any before.          *)
LEMMA NextIdFresh ==
  ASSUME NoWrap, TypeOK, unique_request_id < CallLimit
  PROVE  NextId = unique_request_id + 1
<1>1. unique_request_id + 1 \in 0 .. IdModulus - 1
  BY IdAssumption, BoundAssumption DEF NoWrap, TypeOK, RequestIds
<1>2. ASSUME NEW M \in Nat \ {0}, NEW n \in 0 .. M - 1
      PROVE  n % M = n
  BY <1>2, Z3
<1>3. QED
  BY <1>1, <1>2, IdAssumption DEF NextId

(* Nothing changes for the ids where none is drawn and none is stored, and *)
(* what is transmitted is the id of a call in progress.                    *)
LEMMA IdsStayFresh ==
  ASSUME TypeOK, IdsFresh,
         UNCHANGED <<req_id, unique_request_id, subscription_responses>>,
         \A id \in requested' : \/ id \in requested
                                \/ \E r \in Requesters : pc[r] # "idle" /\ id = req_id[r],
         \A r \in Requesters : pc'[r] # "idle" \/ outcome'[r] # "none"
                                => pc[r] # "idle" \/ outcome[r] # "none"
  PROVE  IdsFresh'
<1>1. \A id \in requested' : id # 0 /\ id <= unique_request_id
  BY DEF IdsFresh
<1>2. \A id \in subscription_responses' \cup requested' :
        id # 0 /\ id <= unique_request_id'
  BY <1>1 DEF IdsFresh
<1>3. QED
  BY <1>2 DEF IdsFresh

LEMMA NextIdsFresh ==
  ASSUME NoWrap, TypeOK, ResponseStored, IdsFresh, [Next]_vars,
         EntryOwned
  PROVE  IdsFresh'
<1> USE DEF TypeOK, IdsFresh, RequestIds, Return, Goto, tableVars, callVars,
            listenerVars, networkVars
<1>1. ASSUME NEW r \in Requesters, GetNextId(r)
      PROVE  IdsFresh'
  <2>1. unique_request_id < CallLimit /\ unique_request_id \in Nat
    BY <1>1, IdAssumption DEF GetNextId
  <2>2. unique_request_id' = unique_request_id + 1
    BY <1>1, <2>1, NextIdFresh DEF GetNextId
  <2>3. req_id' = [req_id EXCEPT ![r] = unique_request_id + 1]
        /\ UNCHANGED <<subscription_responses, requested>>
    BY <1>1, <2>2 DEF GetNextId
  <2>4. \A q \in Requesters \ {r} : pc'[q] = pc[q] /\ outcome'[q] = outcome[q]
    BY <1>1 DEF GetNextId
  <2>5. \A id \in subscription_responses' \cup requested' :
          id # 0 /\ id <= unique_request_id'
    BY <2>1, <2>2, <2>3
  <2>6. /\ req_id'[r] = unique_request_id + 1
        /\ \A q \in Requesters \ {r} : req_id'[q] = req_id[q] /\ req_id'[q] < unique_request_id + 1
    BY <2>1, <2>3
  <2>7. \A q \in Requesters :
          /\ req_id'[q] <= unique_request_id'
          /\ pc'[q] # "idle" \/ outcome'[q] # "none" => req_id'[q] # 0
    BY <2>1, <2>2, <2>4, <2>6
  <2>8. \A q1, q2 \in Requesters :
          req_id'[q1] = req_id'[q2] /\ req_id'[q1] # 0 => q1 = q2
    BY <2>6
  <2>9. QED
    BY <2>5, <2>7, <2>8
<1>2. ASSUME NEW r \in Requesters, Tick(r)
      PROVE  IdsFresh'
  BY <1>2 DEF Tick
<1>3. ASSUME NEW r \in Requesters, CallStep(r)
      PROVE  IdsFresh'
  <2>1. ASSUME UNCHANGED <<req_id, unique_request_id, subscription_responses>>,
               requested' = requested \/ requested' = requested \cup {req_id[r]},
               pc[r] # "idle",
               \A q \in Requesters \ {r} : pc'[q] = pc[q] /\ outcome'[q] = outcome[q]
        PROVE  IdsFresh'
    <3>1. \A id \in requested' : \/ id \in requested
                                \/ \E q \in Requesters : pc[q] # "idle" /\ id = req_id[q]
      BY <2>1
    <3>2. QED
      BY <2>1, <3>1, IdsStayFresh
  <2>2. CASE EncodeError(r) \/ AddRequestEntry(r) \/ AcquireLock(r) \/ WakeUp(r)
    <3>1. UNCHANGED <<req_id, unique_request_id, subscription_responses, requested>>
          /\ pc[r] # "idle"
      BY <2>2 DEF EncodeError, AddRequestEntry, AcquireLock, WakeUp
    <3>2. \A q \in Requesters \ {r} : pc'[q] = pc[q] /\ outcome'[q] = outcome[q]
      BY <2>2 DEF EncodeError, AddRequestEntry, AcquireLock, WakeUp
    <3>3. QED
      BY <2>1, <3>1, <3>2
  <2>3. CASE Transmit(r) \/ TransmitError(r) \/ BeginWait(r)
    <3>1. UNCHANGED <<req_id, unique_request_id, subscription_responses>>
          /\ pc[r] # "idle"
      BY <2>3 DEF Transmit, TransmitError, BeginWait
    <3>2. requested' = requested \/ requested' = requested \cup {req_id[r]}
      BY <2>3 DEF Transmit, TransmitError, TransmitterReturns, BeginWait
    <3>3. \A q \in Requesters \ {r} : pc'[q] = pc[q] /\ outcome'[q] = outcome[q]
      BY <2>3 DEF Transmit, TransmitError, BeginWait
    <3>4. QED
      BY <2>1, <3>1, <3>2, <3>3
  <2>4. CASE CheckStatus(r)
    <3>1. req_id[r] # 0
      BY <2>4 DEF CheckStatus
    <3>2. pc' \in [Requesters -> RequesterLocations]
          /\ \A q \in Requesters : q # r => pc'[q] = pc[q] /\ outcome'[q] = outcome[q]
      BY <2>4 DEF CheckStatus, RequesterLocations
    <3>3. QED
      BY <2>4, <3>1, <3>2 DEF CheckStatus
  <2>5. QED
    BY <1>3, <2>2, <2>3, <2>4 DEF CallStep
<1>4. ASSUME NEW l \in Listeners, Receive(l) \/ NotifyAll(l)
      PROVE  IdsFresh'
  <2>1. UNCHANGED <<req_id, unique_request_id, subscription_responses, requested, outcome>>
    BY <1>4 DEF Receive, NotifyAll
  <2>2. \A r \in Requesters : pc'[r] # "idle" => pc[r] # "idle"
    BY <1>4 DEF Receive, NotifyAll
  <2>3. QED
    BY <2>1, <2>2, IdsStayFresh
<1>5. ASSUME NEW l \in Listeners, RecordVerdict(l)
      PROVE  IdsFresh'
  (* the id of a stored response has an owner, whose id was drawn          *)
  <2>1. message[l].id \in RequestIds
    BY DEF Messages
  <2>2. Relevant(message[l]) => message[l].id # 0 /\ message[l].id <= unique_request_id
    <3>1. SUFFICES ASSUME Relevant(message[l])
                   PROVE  message[l].id # 0 /\ message[l].id <= unique_request_id
      OBVIOUS
    <3>2. requests_table[message[l].id] # "absent"
      BY <3>1 DEF Relevant
    <3>3. PICK r \in Requesters : pc[r] \in Registered /\ req_id[r] = message[l].id
      BY <2>1, <3>2 DEF EntryOwned
    <3>4. QED
      BY <3>3 DEF Registered
  <2>3. QED
    BY <1>5, <2>1, <2>2 DEF RecordVerdict
<1>6. ASSUME NEW id \in RequestIds, RanAnswer(id)
      PROVE  IdsFresh'
  BY <1>6 DEF RanAnswer
<1>7. CASE UNCHANGED vars
  BY <1>7 DEF vars
<1>8. QED
  BY <1>1, <1>2, <1>3, <1>4, <1>5, <1>6, <1>7 DEF Next, ListenerStep

LEMMA NextCaused ==
  ASSUME NoStrays, TypeOK, MessagesCaused, [Next]_vars
  PROVE  MessagesCaused'
<1> USE DEF TypeOK, MessagesCaused, listenerVars, networkVars
<1>1. ASSUME NEW r \in Requesters, GetNextId(r) \/ Tick(r)
      PROVE  MessagesCaused'
  BY <1>1 DEF GetNextId, Tick
<1>2. ASSUME NEW r \in Requesters, CallStep(r)
      PROVE  MessagesCaused'
  BY <1>2 DEF CallStep, EncodeError, AddRequestEntry, AcquireLock, Transmit,
              TransmitError, TransmitterReturns, BeginWait, WakeUp, CheckStatus
<1>3. ASSUME NEW l \in Listeners, ListenerStep(l)
      PROVE  MessagesCaused'
  BY <1>3 DEF ListenerStep, Receive, RecordVerdict, NotifyAll, NoStrays
<1>4. ASSUME NEW id \in RequestIds, RanAnswer(id)
      PROVE  MessagesCaused'
  BY <1>4 DEF RanAnswer
<1>5. CASE UNCHANGED vars
  BY <1>5 DEF vars
<1>6. QED
  BY <1>1, <1>2, <1>3, <1>4, <1>5 DEF Next

LEMMA NextBeforeWait ==
  ASSUME NoWrap, NoStrays, OrderInv, [Next]_vars
  PROVE  NoVerdictBeforeWait'
<1> USE DEF OrderInv, TableInv, TypeOK, NoVerdictBeforeWait, Return, Goto, SetStatus,
            DeleteEntry, tableVars, callVars, listenerVars, networkVars
<1>1. ASSUME NEW r \in Requesters, GetNextId(r)
      PROVE  NoVerdictBeforeWait'
  BY <1>1, NextIdFresh DEF GetNextId, IdsFresh, RequestIds
<1>2. ASSUME NEW r \in Requesters, Tick(r)
      PROVE  NoVerdictBeforeWait'
  BY <1>2 DEF Tick
<1>3. ASSUME NEW r \in Requesters, CallStep(r)
      PROVE  NoVerdictBeforeWait'
  <2> USE DEF EntryOwned, Registered, IdsFresh
  <2>1. CASE EncodeError(r)
    BY <2>1 DEF EncodeError
  <2>2. CASE AddRequestEntry(r)
    BY <2>2 DEF AddRequestEntry
  <2>3. CASE AcquireLock(r)
    BY <2>3 DEF AcquireLock
  <2>4. CASE Transmit(r)
    BY <2>4 DEF Transmit, TransmitterReturns
  <2>5. CASE TransmitError(r)
    BY <2>5 DEF TransmitError, TransmitterReturns
  <2>6. CASE BeginWait(r) \/ WakeUp(r)
    BY <2>6 DEF BeginWait, WakeUp
  <2>7. CASE CheckStatus(r)
    BY <2>7 DEF CheckStatus
  <2>8. QED
    BY <1>3, <2>1, <2>2, <2>3, <2>4, <2>5, <2>6, <2>7 DEF CallStep
<1>4. ASSUME NEW l \in Listeners, Receive(l) \/ NotifyAll(l)
      PROVE  NoVerdictBeforeWait'
  BY <1>4 DEF Receive, NotifyAll
<1>5. ASSUME NEW l \in Listeners, RecordVerdict(l)
      PROVE  NoVerdictBeforeWait'
  (* the message answers a request that was sent, and the mutex is free:   *)
  (* its requester is past the transmission and asleep or awake again      *)
  <2>1. message[l].id \in requested
    BY <1>5 DEF RecordVerdict, MessagesCaused
  <2>2. \A r \in Requesters :
          pc[r] \in {"registered", "locked", "sent"} => req_id[r] # message[l].id
    BY <1>5, <2>1, ThreadsAssumption DEF RecordVerdict, LockFree, LockDiscipline
  <2>3. QED
    BY <1>5, <2>2 DEF RecordVerdict
<1>6. ASSUME NEW id \in RequestIds, RanAnswer(id)
      PROVE  NoVerdictBeforeWait'
  BY <1>6 DEF RanAnswer
<1>7. CASE UNCHANGED vars
  BY <1>7 DEF vars
<1>8. QED
  BY <1>1, <1>2, <1>3, <1>4, <1>5, <1>6, <1>7 DEF Next, ListenerStep

LEMMA OrderInvariant ==
  ASSUME NoWrap, NoStrays
  PROVE  Spec => []OrderInv
<1>1. Init => OrderInv
  BY InitTypeOK, ThreadsAssumption
     DEF Init, OrderInv, TableInv, EntryOwned, ResponseStored, Registered,
         LockDiscipline, IdsFresh, MessagesCaused, NoVerdictBeforeWait, RequestIds
<1>2. OrderInv /\ [Next]_vars => OrderInv'
  BY NextType, NextEntries, NextStored, NextLock, NextIdsFresh, NextCaused,
     NextBeforeWait DEF OrderInv, TableInv
<1>3. QED
  BY <1>1, <1>2, PTL DEF Spec

----------------------------------------------------------------------------
(* No wake-up is lost.                                                     *)

LEMMA NextWakeup ==
  ASSUME OrderInv, NoLostWakeup, [Next]_vars
  PROVE  NoLostWakeup'
<1> USE DEF OrderInv, TableInv, TypeOK, NoLostWakeup, Return, Goto, SetStatus,
            DeleteEntry, Verdicts, tableVars, callVars, listenerVars
<1>1. ASSUME NEW r \in Requesters, GetNextId(r) \/ Tick(r)
      PROVE  NoLostWakeup'
  BY <1>1 DEF GetNextId, Tick
<1>2. ASSUME NEW r \in Requesters, CallStep(r)
      PROVE  NoLostWakeup'
  <2>1. CASE EncodeError(r) \/ AddRequestEntry(r) \/ AcquireLock(r)
    BY <2>1 DEF EncodeError, AddRequestEntry, AcquireLock
  <2>2. CASE Transmit(r) \/ TransmitError(r) \/ WakeUp(r)
    BY <2>2 DEF Transmit, TransmitError, WakeUp
  (* a call goes to sleep on a pending request only                        *)
  <2>3. CASE BeginWait(r)
    BY <2>3 DEF BeginWait, NoVerdictBeforeWait
  <2>4. CASE CheckStatus(r)
    BY <2>4 DEF CheckStatus, EntryOwned, Registered
  <2>5. QED
    BY <1>2, <2>1, <2>2, <2>3, <2>4 DEF CallStep
<1>3. ASSUME NEW l \in Listeners, Receive(l)
      PROVE  NoLostWakeup'
  BY <1>3 DEF Receive
<1>4. ASSUME NEW l \in Listeners, RecordVerdict(l)
      PROVE  NoLostWakeup'
  BY <1>4 DEF RecordVerdict
<1>5. ASSUME NEW l \in Listeners, NotifyAll(l)
      PROVE  NoLostWakeup'
  BY <1>5 DEF NotifyAll
<1>6. ASSUME NEW id \in RequestIds, RanAnswer(id)
      PROVE  NoLostWakeup'
  BY <1>6 DEF RanAnswer
<1>7. CASE UNCHANGED vars
  BY <1>7 DEF vars
<1>8. QED
  BY <1>1, <1>2, <1>3, <1>4, <1>5, <1>6, <1>7 DEF Next, ListenerStep

(* A requester never sleeps on a recorded verdict without a notification   *)
(* on its way, for any number of requesters and listeners.                 *)
THEOREM NoWakeupLost ==
  ASSUME NoWrap, NoStrays
  PROVE  Spec => []NoLostWakeup
<1>1. Init => NoLostWakeup
  BY DEF Init, NoLostWakeup
<1>2. OrderInv /\ NoLostWakeup /\ [Next]_vars => NoLostWakeup'
  BY NextWakeup
<1>3. QED
  BY OrderInvariant, <1>1, <1>2, PTL DEF Spec

----------------------------------------------------------------------------
(* What a call returns and what the handler has stored.                    *)

LEMMA NextStore ==
  ASSUME NoWrap, StoreInv, [Next]_vars, OrderInv'
  PROVE  StoreInv'
<1> DEFINE Part == OutcomeWhenIdle /\ StoreMatchesStatus /\ NeverDuplicate
                   /\ OutcomeMatchesStore
<1> SUFFICES Part'
  BY DEF StoreInv
<1> USE DEF StoreInv, OrderInv, TableInv, TypeOK, OutcomeWhenIdle,
            StoreMatchesStatus, NeverDuplicate, OutcomeMatchesStore, Return, Goto,
            SetStatus, DeleteEntry, tableVars, callVars, listenerVars, networkVars
<1>1. ASSUME NEW r \in Requesters, GetNextId(r)
      PROVE  Part'
  <2>1. NextId \notin subscription_responses
    BY <1>1, NextIdFresh DEF GetNextId, IdsFresh, RequestIds
  <2>2. QED
    BY <1>1, <2>1 DEF GetNextId, Registered
<1>2. ASSUME NEW r \in Requesters, Tick(r)
      PROVE  Part'
  BY <1>2 DEF Tick
<1>3. ASSUME NEW r \in Requesters, CallStep(r)
      PROVE  Part'
  <2> USE DEF EntryOwned, Registered
  <2>1. CASE EncodeError(r)
    BY <2>1 DEF EncodeError
  <2>2. CASE AddRequestEntry(r)
    (* a fresh id has no entry yet                                         *)
    BY <2>2 DEF AddRequestEntry, IdsFresh
  <2>3. CASE AcquireLock(r)
    BY <2>3 DEF AcquireLock
  <2>4. CASE Transmit(r)
    BY <2>4 DEF Transmit
  <2>5. CASE TransmitError(r)
    (* nothing can have been recorded before the transmission              *)
    BY <2>5 DEF TransmitError, NoVerdictBeforeWait
  <2>6. CASE BeginWait(r) \/ WakeUp(r)
    BY <2>6 DEF BeginWait, WakeUp
  <2>7. CASE CheckStatus(r)
    BY <2>7 DEF CheckStatus
  <2>8. QED
    BY <1>3, <2>1, <2>2, <2>3, <2>4, <2>5, <2>6, <2>7 DEF CallStep
<1>4. ASSUME NEW l \in Listeners, Receive(l)
      PROVE  Part'
  BY <1>4 DEF Receive
<1>5. ASSUME NEW l \in Listeners, NotifyAll(l)
      PROVE  Part'
  BY <1>5 DEF NotifyAll, Registered
<1>6. ASSUME NEW l \in Listeners, RecordVerdict(l)
      PROVE  Part'
  <2>1. CASE ~ Relevant(message[l])
    BY <1>6, <2>1 DEF RecordVerdict
  <2>2. CASE Relevant(message[l])
    (* the pending request has one owner, and no response is stored for it *)
    <3>1. message[l].id \in RequestIds
      BY DEF Messages
    <3>2. PICK r \in Requesters : pc[r] \in Registered /\ req_id[r] = message[l].id
      BY <2>2, <3>1 DEF Relevant, EntryOwned
    <3>3. message[l].id \notin subscription_responses
      BY <2>2, <3>2 DEF Relevant
    <3>4. \A q \in Requesters : q # r => req_id[q] # message[l].id
      BY <3>2 DEF IdsFresh, Registered
    <3>5. pc[r] # "idle" /\ pc[r] # "numbered"
      BY <3>2 DEF Registered
    <3>6. QED
      BY <1>6, <2>2, <3>1, <3>2, <3>3, <3>4, <3>5
         DEF RecordVerdict, Relevant, VerdictOf
  <2>3. QED
    BY <2>1, <2>2
<1>7. ASSUME NEW id \in RequestIds, RanAnswer(id)
      PROVE  Part'
  BY <1>7 DEF RanAnswer
<1>8. CASE UNCHANGED vars
  BY <1>8 DEF vars
<1>9. QED
  BY <1>1, <1>2, <1>3, <1>4, <1>5, <1>6, <1>7, <1>8 DEF Next, ListenerStep

LEMMA StoreInvariant ==
  ASSUME NoWrap, NoStrays
  PROVE  Spec => []StoreInv
<1>1. Init /\ OrderInv => StoreInv
  BY DEF Init, StoreInv, OutcomeWhenIdle, StoreMatchesStatus, NeverDuplicate,
         OutcomeMatchesStore, Registered
<1>2. StoreInv /\ OrderInv' /\ [Next]_vars => StoreInv'
  BY NextStore
<1>3. QED
  BY OrderInvariant, <1>1, <1>2, PTL DEF Spec

(* A call that returned true has its response stored, one that returned    *)
(* false has none, whichever of the verdict and the deadline came first.   *)
THEOREM OutcomesMatchStore ==
  ASSUME NoWrap, NoStrays
  PROVE  Spec => []OutcomeMatchesStore
<1>1. StoreInv => OutcomeMatchesStore
  BY DEF StoreInv
<1>2. QED
  BY StoreInvariant, <1>1, PTL

(* The duplicate branch of Response is dead until the counter wraps.       *)
THEOREM DuplicateNeverMarked ==
  ASSUME NoWrap, NoStrays
  PROVE  Spec => []NeverDuplicate
<1>1. StoreInv => NeverDuplicate
  BY DEF StoreInv
<1>2. QED
  BY StoreInvariant, <1>1, PTL

----------------------------------------------------------------------------
(* True means that the RAN accepted, even after the counter has wrapped.   *)

LEMMA NextAccepted ==
  ASSUME NoStrays, AcceptedInv, [Next]_vars
  PROVE  AcceptedInv'
<1> DEFINE Part == OutcomeWhenIdle /\ SuccessCaused /\ SubscribedMeansAccepted
<1>1. TypeOK'
  BY NextType DEF AcceptedInv
<1> SUFFICES Part'
  BY <1>1 DEF AcceptedInv
<1> USE DEF AcceptedInv, TypeOK, OutcomeWhenIdle, SuccessCaused,
            SubscribedMeansAccepted, Return, Goto, SetStatus, DeleteEntry,
            tableVars, callVars, listenerVars, networkVars
<1>2. ASSUME NEW r \in Requesters, GetNextId(r) \/ Tick(r)
      PROVE  Part'
  BY <1>2 DEF GetNextId, Tick
<1>3. ASSUME NEW r \in Requesters, CallStep(r)
      PROVE  Part'
  <2>1. CASE EncodeError(r) \/ AddRequestEntry(r) \/ AcquireLock(r)
    BY <2>1 DEF EncodeError, AddRequestEntry, AcquireLock
  <2>2. CASE Transmit(r) \/ TransmitError(r)
    BY <2>2 DEF Transmit, TransmitError, TransmitterReturns
  <2>3. CASE BeginWait(r) \/ WakeUp(r)
    BY <2>3 DEF BeginWait, WakeUp
  <2>4. CASE CheckStatus(r)
    BY <2>4 DEF CheckStatus
  <2>5. QED
    BY <1>3, <2>1, <2>2, <2>3, <2>4 DEF CallStep
<1>4. ASSUME NEW l \in Listeners, Receive(l)
      PROVE  Part'
  BY <1>4 DEF Receive, NoStrays
<1>5. ASSUME NEW l \in Listeners, RecordVerdict(l)
      PROVE  Part'
  <2>1. message[l] \in inbound /\ message[l] \in Messages
    BY <1>5 DEF RecordVerdict
  <2>2. CASE Relevant(message[l])
    <3>1. VerdictOf(message[l]) = "success"
            => message[l] = [kind |-> "accept", id |-> message[l].id]
      BY <2>1, <2>2 DEF Relevant, VerdictOf, Messages
    <3>2. QED
      BY <1>5, <2>1, <2>2, <3>1 DEF RecordVerdict
  <2>3. CASE ~ Relevant(message[l])
    BY <1>5, <2>3 DEF RecordVerdict
  <2>4. QED
    BY <2>2, <2>3
<1>6. ASSUME NEW l \in Listeners, NotifyAll(l)
      PROVE  Part'
  BY <1>6 DEF NotifyAll
<1>7. ASSUME NEW id \in RequestIds, RanAnswer(id)
      PROVE  Part'
  BY <1>7 DEF RanAnswer
<1>8. CASE UNCHANGED vars
  BY <1>8 DEF vars
<1>9. QED
  BY <1>2, <1>3, <1>4, <1>5, <1>6, <1>7, <1>8 DEF Next, ListenerStep

(* A call returns true only for an id the RAN accepted.                    *)
THEOREM TrueMeansAccepted ==
  ASSUME NoStrays
  PROVE  Spec => []SubscribedMeansAccepted
<1>1. Init => AcceptedInv
  BY InitTypeOK DEF Init, AcceptedInv, OutcomeWhenIdle, SuccessCaused,
                    SubscribedMeansAccepted
<1>2. AcceptedInv /\ [Next]_vars => AcceptedInv'
  BY NextAccepted
<1>3. AcceptedInv => SubscribedMeansAccepted
  BY DEF AcceptedInv
<1>4. QED
  BY <1>1, <1>2, <1>3, PTL DEF Spec

----------------------------------------------------------------------------
(* The handler implements SubscriptionService.                             *)

(* A step of the handler that changes neither where a call stands nor what *)
(* the RAN has answered it is no step of the service.                      *)
LEMMA SameService ==
  ASSUME \A r \in Requesters : CallPhase(r)' = CallPhase(r) /\ AnswersTo(r)' = AnswersTo(r),
         UNCHANGED outcome
  PROVE  UNCHANGED Service!vars
  BY DEF Service!vars, CallPhases, RanAnswers

(* A step that concerns one call leaves the others where they stand.       *)
LEMMA OthersSame ==
  ASSUME TypeOK, NEW r \in Requesters,
         req_id' = req_id, inbound' = inbound,
         \A q \in Requesters : q # r => pc'[q] = pc[q],
         \A q \in Requesters : q # r /\ pc[q] \in Registered
            => requests_table'[req_id[q]] = requests_table[req_id[q]]
  PROVE  /\ \A q \in Requesters : q # r => CallPhase(q)' = CallPhase(q)
         /\ \A q \in Requesters : AnswersTo(q)' = AnswersTo(q)
  BY DEF CallPhase, AnswersTo, Registered, TypeOK, RequesterLocations

LEMMA CallStepRefines ==
  ASSUME StoreInv, NEW r \in Requesters, CallStep(r)
  PROVE  [Service!Next]_(Service!vars)
<1> USE DEF StoreInv, OrderInv, TableInv, TypeOK, Return, Goto, SetStatus,
            DeleteEntry, tableVars, callVars, listenerVars, networkVars
(* the entry of another call is not touched                                *)
<1>1. /\ req_id' = req_id /\ inbound' = inbound
      /\ \A q \in Requesters : q # r => pc'[q] = pc[q]
  BY DEF CallStep, EncodeError, AddRequestEntry, AcquireLock, Transmit, TransmitError,
         TransmitterReturns,
         BeginWait, WakeUp, CheckStatus
<1>2. \A q \in Requesters : q # r /\ pc[q] \in Registered
        => requests_table'[req_id[q]] = requests_table[req_id[q]]
  <2>1. \A id \in RequestIds : id # req_id[r] => requests_table'[id] = requests_table[id]
    BY DEF CallStep, EncodeError, AddRequestEntry, AcquireLock, Transmit,
           TransmitError, BeginWait, WakeUp, CheckStatus
  <2>2. pc[r] # "idle"
    BY DEF CallStep, EncodeError, AddRequestEntry, AcquireLock, Transmit,
           TransmitError, BeginWait, WakeUp, CheckStatus
  <2>3. \A q \in Requesters : q # r => req_id[q] # req_id[r]
    BY <2>2 DEF IdsFresh
  <2>4. QED
    BY <2>1, <2>3
<1>3. /\ \A q \in Requesters : q # r => CallPhase(q)' = CallPhase(q)
      /\ \A q \in Requesters : AnswersTo(q)' = AnswersTo(q)
  BY <1>1, <1>2, OthersSame
(* the call returns what its phase calls for                               *)
<1>4. ASSUME CallPhase(r) # "idle", CallPhase(r)' = "idle",
             outcome' = [outcome EXCEPT ![r] =
               IF CallPhase(r) = "granted" THEN "subscribed" ELSE "refused"]
      PROVE  Service!Return(r)
  BY <1>3, <1>4 DEF Service!Return, CallPhases, RanAnswers
<1>5. CASE EncodeError(r)
  <2>1. CallPhase(r) = "open" /\ CallPhase(r)' = "idle"
    BY <1>5 DEF EncodeError, CallPhase
  <2>2. QED
    BY <1>4, <1>5, <2>1 DEF EncodeError, Service!Next
<1>6. CASE AddRequestEntry(r)
  <2>1. CASE requests_table[req_id[r]] = "absent"
    <3>1. CallPhase(r)' = CallPhase(r) /\ UNCHANGED outcome
      BY <1>6, <2>1 DEF AddRequestEntry, CallPhase
    <3>2. QED
      BY <1>3, <3>1, SameService
  <2>2. CASE requests_table[req_id[r]] # "absent"
    <3>1. CallPhase(r) = "open" /\ CallPhase(r)' = "idle"
      BY <1>6, <2>2 DEF AddRequestEntry, CallPhase
    <3>2. QED
      BY <1>4, <1>6, <2>2, <3>1 DEF AddRequestEntry, Service!Next
  <2>3. QED
    BY <2>1, <2>2
<1>7. CASE AcquireLock(r) \/ Transmit(r) \/ BeginWait(r) \/ WakeUp(r)
  <2>1. CallPhase(r)' = CallPhase(r) /\ UNCHANGED outcome
    BY <1>7 DEF AcquireLock, Transmit, BeginWait, WakeUp, CallPhase
  <2>2. QED
    BY <1>3, <2>1, SameService
<1>8. CASE TransmitError(r)
  <2>1. CallPhase(r) = "open" /\ CallPhase(r)' = "idle"
    BY <1>8 DEF TransmitError, NoVerdictBeforeWait, CallPhase
  <2>2. QED
    BY <1>4, <1>8, <2>1 DEF TransmitError, Service!Next
<1>9. CASE CheckStatus(r)
  <2>1. CASE pc'[r] = "waiting"
    <3>1. CallPhase(r)' = CallPhase(r) /\ UNCHANGED outcome
      BY <1>9, <2>1 DEF CheckStatus, CallPhase
    <3>2. QED
      BY <1>3, <3>1, SameService
  <2>2. CASE pc'[r] = "idle"
    <3>1. CallPhase(r) # "idle" /\ CallPhase(r)' = "idle"
      BY <1>9, <2>2 DEF CheckStatus, CallPhase
    <3>2. outcome' = [outcome EXCEPT ![r] =
            IF CallPhase(r) = "granted" THEN "subscribed" ELSE "refused"]
      BY <1>9, <2>2 DEF CheckStatus, CallPhase
    <3>3. QED
      BY <1>4, <3>1, <3>2 DEF Service!Next
  <2>3. QED
    BY <1>9, <2>1, <2>2 DEF CheckStatus
<1>10. QED
  BY <1>5, <1>6, <1>7, <1>8, <1>9 DEF CallStep

LEMMA NextRefines ==
  ASSUME NoWrap, NoStrays, StoreInv, StoreInv', [Next]_vars
  PROVE  [Service!Next]_(Service!vars)
<1> USE DEF StoreInv, OrderInv, TableInv, TypeOK, tableVars, callVars, listenerVars,
            networkVars
<1>1. ASSUME NEW r \in Requesters, GetNextId(r)
      PROVE  Service!Open(r)
  (* nobody has answered, or asked, the new id                             *)
  <2>1. AnswersTo(r)' = {}
    BY <1>1, NextIdFresh DEF GetNextId, AnswersTo, MessagesCaused, IdsFresh, RequestIds
  <2>2. /\ \A q \in Requesters : q # r => pc'[q] = pc[q] /\ req_id'[q] = req_id[q]
        /\ CallPhase(r) = "idle" /\ CallPhase(r)' = "open"
    BY <1>1 DEF GetNextId, CallPhase
  <2>3. \A q \in Requesters : q # r => CallPhase(q)' = CallPhase(q)
                                       /\ AnswersTo(q)' = AnswersTo(q)
    BY <1>1, <2>2 DEF GetNextId, CallPhase, AnswersTo
  <2>4. CallPhases' = [CallPhases EXCEPT ![r] = "open"]
    BY <2>2, <2>3 DEF CallPhases
  <2>5. RanAnswers' = [RanAnswers EXCEPT ![r] = {}]
    BY <2>1, <2>3 DEF RanAnswers
  <2>6. CallPhases[r] = "idle"
    BY <2>2 DEF CallPhases
  <2>7. QED
    BY <1>1, <2>4, <2>5, <2>6 DEF GetNextId, Service!Open
<1>2. ASSUME NEW r \in Requesters, Tick(r)
      PROVE  UNCHANGED Service!vars
  BY <1>2, SameService DEF Tick, CallPhase, AnswersTo
<1>3. ASSUME NEW l \in Listeners, Receive(l)
      PROVE  UNCHANGED Service!vars
  BY <1>3, SameService DEF Receive, CallPhase, AnswersTo
<1>4. ASSUME NEW l \in Listeners, NotifyAll(l)
      PROVE  UNCHANGED Service!vars
  BY <1>4, SameService DEF NotifyAll, CallPhase, AnswersTo
<1>5. ASSUME NEW l \in Listeners, RecordVerdict(l)
      PROVE  [Service!Next]_(Service!vars)
  <2>1. CASE ~ Relevant(message[l])
    BY <1>5, <2>1, SameService DEF RecordVerdict, CallPhase, AnswersTo
  <2>2. CASE Relevant(message[l])
    <3>1. message[l].id \in RequestIds /\ message[l] \in inbound
      BY <1>5 DEF Messages, RecordVerdict, MessagesCaused
    <3>2. PICK r \in Requesters : pc[r] \in Registered /\ req_id[r] = message[l].id
      BY <2>2, <3>1 DEF Relevant, EntryOwned
    <3>3. \A q \in Requesters : q # r => req_id[q] # req_id[r]
      BY <3>2 DEF IdsFresh, Registered
    <3>4. /\ requests_table' = [requests_table EXCEPT ![req_id[r]] = VerdictOf(message[l])]
          /\ UNCHANGED <<pc, callVars, networkVars>>
      BY <1>5, <2>2, <3>2 DEF RecordVerdict, SetStatus
    <3>5. /\ \A q \in Requesters : q # r => CallPhase(q)' = CallPhase(q)
          /\ \A q \in Requesters : AnswersTo(q)' = AnswersTo(q)
      BY <3>3, <3>4, OthersSame
    <3>6. CallPhase(r) = "open"
      BY <2>2, <3>2 DEF CallPhase, Relevant, Registered
    <3>7. pc[r] # "idle" /\ pc[r] # "numbered"
      BY <3>2 DEF Registered
    <3>8. CASE message[l].kind = "accept"
      <4>1. CallPhase(r)' = "granted"
        (* no duplicate: the id had no response yet                        *)
        BY <3>2, <3>4, <3>7, <3>8, <2>2
           DEF CallPhase, VerdictOf, StoreMatchesStatus, Relevant
      <4>2. "accept" \in AnswersTo(r)
        BY <3>1, <3>2, <3>8 DEF AnswersTo, Messages
      <4>3. Service!Grant(r)
        BY <3>4, <3>5, <3>6, <4>1, <4>2 DEF Service!Grant, CallPhases, RanAnswers
      <4>4. QED
        BY <4>3 DEF Service!Next
    <3>9. CASE message[l].kind = "reject"
      <4>1. CallPhase(r)' = "refused"
        BY <3>2, <3>4, <3>7, <3>9 DEF CallPhase, VerdictOf
      <4>2. "reject" \in AnswersTo(r)
        BY <3>1, <3>2, <3>9 DEF AnswersTo, Messages
      <4>3. Service!Refuse(r)
        BY <3>4, <3>5, <3>6, <4>1, <4>2 DEF Service!Refuse, CallPhases, RanAnswers
      <4>4. QED
        BY <4>3 DEF Service!Next
    <3>10. QED
      BY <2>2, <3>8, <3>9 DEF Relevant
  <2>3. QED
    BY <2>1, <2>2
<1>6. ASSUME NEW id \in RequestIds, RanAnswer(id)
      PROVE  [Service!Next]_(Service!vars)
  <2>1. PICK kind \in {"accept", "reject"} :
          inbound' = inbound \cup {[kind |-> kind, id |-> id]}
    BY <1>6 DEF RanAnswer
  <2>2. \A q \in Requesters : CallPhase(q)' = CallPhase(q)
    BY <1>6 DEF RanAnswer, CallPhase
  <2>3. \A q \in Requesters : req_id[q] # id => AnswersTo(q)' = AnswersTo(q)
    BY <1>6, <2>1 DEF RanAnswer, AnswersTo
  <2>4. CASE \A q \in Requesters : req_id[q] # id
    BY <1>6, <2>2, <2>3, <2>4, SameService DEF RanAnswer
  <2>5. ASSUME NEW r \in Requesters, req_id[r] = id
        PROVE  Service!Answer(r)
    <3>1. \A q \in Requesters : q # r => AnswersTo(q)' = AnswersTo(q)
      BY <1>6, <2>3, <2>5 DEF RanAnswer, IdsFresh
    <3>2. AnswersTo(r)' = AnswersTo(r) \cup {kind}
      BY <1>6, <2>1, <2>5 DEF RanAnswer, AnswersTo
    <3>3. RanAnswers' = [RanAnswers EXCEPT ![r] = @ \cup {kind}]
      BY <3>1, <3>2 DEF RanAnswers
    <3>4. UNCHANGED <<CallPhases, outcome>>
      BY <1>6, <2>2 DEF RanAnswer, CallPhases
    <3>5. QED
      BY <2>1, <3>3, <3>4 DEF Service!Answer
  <2>6. QED
    BY <2>4, <2>5 DEF Service!Next
<1>7. CASE UNCHANGED vars
  BY <1>7, SameService DEF vars, CallPhase, AnswersTo
<1>8. QED
  BY <1>1, <1>2, <1>3, <1>4, <1>5, <1>6, <1>7, CallStepRefines
     DEF Next, ListenerStep, Service!Next

(* The handler implements the service it offers: every behaviour of the    *)
(* requesters, the listeners and the network is one of SubscriptionService.*)
THEOREM HandlerImplementsService ==
  ASSUME NoWrap, NoStrays
  PROVE  Spec => ImplementsService
<1>1. Init => Service!Init
  BY DEF Init, Service!Init, CallPhases, RanAnswers, CallPhase, AnswersTo
<1>2. StoreInv /\ StoreInv' /\ [Next]_vars => [Service!Next]_(Service!vars)
  BY NextRefines
<1>3. QED
  BY StoreInvariant, <1>1, <1>2, PTL DEF Spec, ImplementsService, Service!Spec
----------------------------------------------------------------------------
(* The transmitter.  The one access to it, in Transmit and TransmitError,  *)
(* concerns an id it has not been given before.                            *)
LEMMA NextTransmitted ==
  ASSUME NoWrap, OrderInv, NotYetTransmitted, [Next]_vars
  PROVE  NotYetTransmitted'
<1> USE DEF OrderInv, TableInv, TypeOK, NotYetTransmitted, Return, Goto,
            callVars, networkVars
<1>1. ASSUME NEW r \in Requesters, GetNextId(r)
      PROVE  NotYetTransmitted'
  <2>1. unique_request_id' = unique_request_id + 1 /\ unique_request_id \in Int
    BY <1>1, NextIdFresh, IdAssumption DEF GetNextId, RequestIds
  <2>2. unique_request_id' \in RequestIds
    BY NextType
  <2>3. \A id \in RequestIds : id > unique_request_id' => id > unique_request_id
    BY <2>1 DEF RequestIds
  <2>4. transmitted[unique_request_id'] = "none"
    BY <2>1, <2>2
  <2>5. QED
    BY <1>1, <2>3, <2>4 DEF GetNextId
<1>2. ASSUME NEW r \in Requesters, CallStep(r)
      PROVE  NotYetTransmitted'
  <2>1. CASE EncodeError(r) \/ AddRequestEntry(r) \/ AcquireLock(r)
    BY <2>1 DEF EncodeError, AddRequestEntry, AcquireLock
  <2>2. CASE Transmit(r) \/ TransmitError(r)
    (* its id is drawn, and no other call has it                           *)
    <3>1. /\ UNCHANGED <<req_id, unique_request_id>>
          /\ \A id \in RequestIds : id # req_id[r] => transmitted'[id] = transmitted[id]
          /\ \A q \in Requesters \ {r} : pc'[q] = pc[q]
          /\ pc[r] = "locked" /\ pc'[r] \in {"sent", "idle"}
      BY <2>2 DEF Transmit, TransmitError, TransmitterReturns
    <3>2. req_id[r] # 0 /\ req_id[r] <= unique_request_id
          /\ \A q \in Requesters \ {r} : req_id[q] # req_id[r]
      BY <3>1 DEF IdsFresh
    <3>3. \A id \in RequestIds : id > unique_request_id => id # req_id[r]
      BY <3>2, IdAssumption DEF RequestIds
    <3>4. QED
      BY <3>1, <3>2, <3>3
  <2>3. CASE BeginWait(r) \/ WakeUp(r) \/ CheckStatus(r)
    BY <2>3 DEF BeginWait, WakeUp, CheckStatus
  <2>4. QED
    BY <1>2, <2>1, <2>2, <2>3 DEF CallStep
<1>3. ASSUME NEW r \in Requesters, Tick(r)
      PROVE  NotYetTransmitted'
  BY <1>3 DEF Tick
<1>4. ASSUME NEW l \in Listeners, ListenerStep(l)
      PROVE  NotYetTransmitted'
  BY <1>4 DEF ListenerStep, Receive, RecordVerdict, NotifyAll
<1>5. ASSUME NEW id \in RequestIds, RanAnswer(id)
      PROVE  NotYetTransmitted'
  BY <1>5 DEF RanAnswer
<1>6. CASE UNCHANGED vars
  BY <1>6 DEF vars
<1>7. QED
  BY <1>1, <1>2, <1>3, <1>4, <1>5, <1>6 DEF Next

(* A call passes on what the transmitter does for its id, once, and no     *)
(* other step of a call, in the wait loop in particular, concerns it.      *)
LEMMA CallTransmits ==
  ASSUME OrderInv, NotYetTransmitted, NEW r \in Requesters, CallStep(r)
  PROVE  [Transmitter!Next]_(Transmitter!vars)
<1>1. PICK n \in RequestIds : n = req_id[r]
  BY DEF OrderInv, TableInv, TypeOK
<1>2. ASSUME pc[r] = "locked", NEW value \in {"true", "false"},
             TransmitterReturns(n, value)
      PROVE  Transmitter!Returns(n, value)
  BY <1>1, <1>2 DEF NotYetTransmitted, TransmitterReturns, Transmitter!Returns
<1>3. CASE Transmit(r)
  <2>1. pc[r] = "locked" /\ TransmitterReturns(n, "true")
    BY <1>1, <1>3 DEF Transmit
  <2>2. n \notin requested /\ requested' = requested \cup {n}
    BY <1>1, <2>1 DEF OrderInv, NoVerdictBeforeWait, TransmitterReturns
  <2>3. Transmitter!Take(n)
    <3> DEFINE Taken(ids) == [id \in RequestIds |-> IF id \in ids THEN 1 ELSE 0]
    <3>1. Taken(requested)[n] + 1 = 1
      BY <2>2
    <3>2. Taken(requested') = [Taken(requested) EXCEPT ![n] = Taken(requested)[n] + 1]
      BY <2>2, <3>1
    <3>3. QED
      BY <1>2, <2>1, <3>2 DEF Transmitter!Take
  <2>4. QED
    BY <2>3 DEF Transmitter!Next
<1>4. CASE TransmitError(r)
  <2>1. pc[r] = "locked" /\ TransmitterReturns(n, "false")
    BY <1>1, <1>4 DEF TransmitError
  <2>2. requested' = requested
    BY <2>1 DEF TransmitterReturns
  <2>3. Transmitter!Refuse(n)
    BY <1>2, <2>1, <2>2 DEF Transmitter!Refuse
  <2>4. QED
    BY <2>3 DEF Transmitter!Next
<1>5. CASE \/ EncodeError(r) \/ AddRequestEntry(r) \/ AcquireLock(r)
           \/ BeginWait(r) \/ WakeUp(r) \/ CheckStatus(r)
  BY <1>5 DEF EncodeError, AddRequestEntry, AcquireLock, BeginWait, WakeUp, CheckStatus,
     networkVars, Transmitter!vars
<1>6. QED
  BY <1>3, <1>4, <1>5 DEF CallStep

(* subscription_handler.hpp:105-208: the handler gives each id to the      *)
(* transmitter once, whatever its listeners and other callers do: not again*)
(* from the wait loop, and not after the transmission has failed.          *)
THEOREM HandlerUsesTransmitter ==
  ASSUME NoWrap, NoStrays
  PROVE  Spec => UsesTransmitter
<1>1. Init => NotYetTransmitted /\ Transmitter!Init
  BY IdAssumption DEF Init, NotYetTransmitted, Transmitter!Init, RequestIds
<1>2. OrderInv /\ NotYetTransmitted /\ [Next]_vars => NotYetTransmitted'
  BY NextTransmitted
<1>3. OrderInv /\ NotYetTransmitted /\ [Next]_vars
        => [Transmitter!Next]_(Transmitter!vars)
  <2> SUFFICES ASSUME OrderInv, NotYetTransmitted, [Next]_vars
               PROVE  [Transmitter!Next]_(Transmitter!vars)
    OBVIOUS
  <2>1. ASSUME NEW r \in Requesters, CallStep(r)
        PROVE  [Transmitter!Next]_(Transmitter!vars)
    BY <2>1, CallTransmits
  <2>2. CASE \/ \E r \in Requesters : GetNextId(r) \/ Tick(r)
             \/ \E l \in Listeners : ListenerStep(l)
             \/ \E id \in RequestIds : RanAnswer(id)
             \/ UNCHANGED vars
    BY <2>2 DEF GetNextId, Tick, ListenerStep, Receive, RecordVerdict, NotifyAll, RanAnswer,
       networkVars, vars, Transmitter!vars
  <2>3. QED
    BY <2>1, <2>2 DEF Next
<1>4. QED
  BY OrderInvariant, <1>1, <1>2, <1>3, PTL DEF Spec, UsesTransmitter, Transmitter!Spec

----------------------------------------------------------------------------
(* subscription_handler.hpp:137-158: the mutex is only ever kept between   *)
(* two steps by a thread that is about to release it, for any number of    *)
(* threads and also once ids have come back.                               *)
THEOREM HoldersMoveOn == Spec => []HolderMovesOn
<1>1. Init => LockDiscipline
  BY ThreadsAssumption DEF Init, LockDiscipline
<1>2. TypeOK /\ LockDiscipline /\ [Next]_vars => LockDiscipline'
  BY NextLock
<1>3. TypeOK /\ LockDiscipline => HolderMovesOn
  BY DEF TypeOK, LockDiscipline, HolderMovesOn
<1>4. Spec => []TypeOK
  BY SpecIsApiSpec, TypeCorrect, PTL
<1>5. QED
  BY <1>1, <1>2, <1>3, <1>4, PTL DEF Spec
==================================================================================
