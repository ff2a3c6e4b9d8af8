--------------------------- MODULE SubscriptionHandler ---------------------------
(***************************************************************************)
(* The E2 subscription handler: src/src/E2AP-c/subscription/               *)
(* subscription_handler.{hpp,cc}.                                          *)
(*                                                                         *)
(* Requester threads call RequestSubscription, which draws a request id,   *)
(* enters it in requests_table, transmits the encoded request and then     *)
(* waits on a condition variable until the verdict is in the table or the  *)
(* deadline has passed.  Listener threads call Response for every          *)
(* subscription message RMR hands them; it records the verdict of the RAN  *)
(* in the table and, after it has released the mutex, notifies all.        *)
(*                                                                         *)
(* Every access to the tables is made under one mutex, _data_lock.  A      *)
(* block that takes and releases it is one atomic step whose guard is that *)
(* the mutex is free; data_lock records its owner where a thread keeps it  *)
(* across steps (around the transmission).                                 *)
(*                                                                         *)
(* A definition named X_Y is not part of the specification: it is X with   *)
(* a plausible mistake, and shows which property notices it.               *)
(***************************************************************************)
EXTENDS Integers, FiniteSets

CONSTANTS
  Requesters,      (* threads that call RequestSubscription                *)
  Listeners,       (* threads that call Response                           *)
  NoThread,        (* data_lock when nobody holds the mutex                *)
  IdModulus,       (* request ids are unsigned int: 2^32 in the code       *)
  MaxRequestorId,  (* upper bound of E2AP ricRequestorID: 65535            *)
  CallLimit,       (* bound: no id is drawn once the counter is here       *)
  NumRetries,      (* _num_retries                                         *)
  TimeoutFlag,     (* _time_out_flag                                       *)
  Strays           (* messages a listener may get that no request caused   *)

RequestIds == 0 .. IdModulus - 1

(* A pending request, the three outcomes, and "absent" for the -1 that     *)
(* get_request_status returns when the table has no such id.               *)
Verdicts == {"success", "failed", "duplicate"}
Statuses == {"absent", "pending"} \cup Verdicts

(* What Response can be handed: a RICsubscriptionResponse, a               *)
(* RICsubscriptionFailure, or anything it only logs (a PDU that does not   *)
(* decode, another procedure, an initiating message).                      *)
Messages == [kind : {"accept", "reject", "other"}, id : RequestIds]

(* The message of a listener that handles none.                            *)
NoMessage == [kind |-> "other", id |-> 0]

ASSUME ThreadsAssumption ==
  /\ NoThread \notin Requesters
  /\ Requesters \cap Listeners = {}
ASSUME IdAssumption == IdModulus \in Nat \ {0} /\ MaxRequestorId \in Nat
ASSUME BoundAssumption == CallLimit \in Nat
ASSUME TimeoutAssumption == NumRetries \in Nat /\ TimeoutFlag \in BOOLEAN
ASSUME StraysAssumption == Strays \subseteq Messages

VARIABLES
  requests_table,         (* request id -> status                          *)
  subscription_responses, (* ids whose response is stored                  *)
  unique_request_id,      (* the last id drawn                             *)
  data_lock,              (* who holds _data_lock across steps             *)
  pc,                     (* where each requester is in RequestSubscription*)
  req_id,                 (* the id its call drew                          *)
  elapsed,                (* end - start, in units of _time_out, rounded up*)
  outcome,                (* what its last call returned                   *)
  lpc,                    (* where each listener is in Response            *)
  message,                (* the message it is handling                    *)
  requested,              (* ids whose request was handed to RMR           *)
  transmitted,            (* what the transmitter returned for each id     *)
  inbound                 (* messages the RAN has sent to the xApp         *)

tableVars    == <<requests_table, subscription_responses>>
callVars     == <<req_id, elapsed, outcome>>
listenerVars == <<lpc, message>>
networkVars  == <<requested, transmitted, inbound>>
vars == <<requests_table, subscription_responses, unique_request_id, data_lock,
          pc, req_id, elapsed, outcome, lpc, message, requested, transmitted,
          inbound>>

(* The locations of a requester.                                           *)
(*   numbered   : the id is drawn, the PDU not yet encoded                 *)
(*   registered : the table has the entry, the mutex is not held           *)
(*   locked     : the mutex is held, the request not yet transmitted       *)
(*   sent       : transmitted, the mutex still held                        *)
(*   waiting    : asleep in wait_for                                       *)
(*   woken      : wait_for is over, the mutex to be taken again            *)
RequesterLocations ==
  {"idle", "numbered", "registered", "locked", "sent", "waiting", "woken"}

(* The locations in which a call owns an entry of requests_table.          *)
Registered == {"registered", "locked", "sent", "waiting", "woken"}

(* A history of what the transmitter returned for an id: nothing so far,   *)
(* one answer, or more than one, which the handler is never to ask for.    *)
Transmissions == {"none", "true", "false", "repeated"}

(* The longest elapsed time told apart: past every deadline.               *)
MaxElapsed == NumRetries + 1

TypeOK ==
  /\ requests_table \in [RequestIds -> Statuses]
  /\ subscription_responses \subseteq RequestIds
  /\ unique_request_id \in RequestIds
  /\ data_lock \in Requesters \cup {NoThread}
  /\ pc \in [Requesters -> RequesterLocations]
  /\ req_id \in [Requesters -> RequestIds]
  /\ elapsed \in [Requesters -> 0 .. MaxElapsed]
  /\ outcome \in [Requesters -> {"none", "subscribed", "refused"}]
  /\ lpc \in [Listeners -> {"idle", "deciding", "notifying"}]
  /\ message \in [Listeners -> Messages]
  /\ requested \subseteq RequestIds
  /\ transmitted \in [RequestIds -> Transmissions]
  /\ inbound \subseteq Messages

Init ==
  /\ requests_table = [id \in RequestIds |-> "absent"]
  /\ subscription_responses = {}
  /\ unique_request_id = 0
  /\ data_lock = NoThread
  /\ pc = [r \in Requesters |-> "idle"]
  /\ req_id = [r \in Requesters |-> 0]
  /\ elapsed = [r \in Requesters |-> 0]
  /\ outcome = [r \in Requesters |-> "none"]
  /\ lpc = [l \in Listeners |-> "idle"]
  /\ message = [l \in Listeners |-> NoMessage]
  /\ requested = {}
  /\ transmitted = [id \in RequestIds |-> "none"]
  /\ inbound = {}

LockFree == data_lock = NoThread

----------------------------------------------------------------------------
(* The table operations, on the entry of one id.                           *)

(* set_request_status and add_request_entry where they succeed.            *)
SetStatus(id, status) == requests_table' = [requests_table EXCEPT ![id] = status]

(* delete_request_entry: an absent id stays absent.                        *)
DeleteEntry(id) == SetStatus(id, "absent")

(* Response acts on a verdict for a request that is pending, and only logs *)
(* anything else.                                                          *)
Relevant_IfKnown(m) ==
  m.kind \in {"accept", "reject"} /\ requests_table[m.id] # "absent"
Relevant_AfterFailure(m) ==
  m.kind \in {"accept", "reject"} /\ requests_table[m.id] \in {"pending", "failed"}

Relevant(m) ==
  m.kind \in {"accept", "reject"} /\ requests_table[m.id] = "pending"

(* The status it gives that request: add_subscription_entry refuses an id  *)
(* that already has a response, and the request is then a duplicate.       *)
VerdictOf(m) ==
  IF m.kind = "reject" THEN "failed"
  ELSE IF m.id \in subscription_responses THEN "duplicate"
  ELSE "success"

----------------------------------------------------------------------------
(* RequestSubscription, one action per step between two points where       *)
(* another thread can run.                                                 *)

(* The call returns: true as "subscribed", false as "refused".             *)
Return(r, result) ==
  /\ pc' = [pc EXCEPT ![r] = "idle"]
  /\ outcome' = [outcome EXCEPT ![r] = result]

Goto(r, location) ==
  /\ pc' = [pc EXCEPT ![r] = location]
  /\ UNCHANGED outcome

NextId_NoWrap == unique_request_id + 1

NextId == (unique_request_id + 1) % IdModulus

(* A new call draws its id under the mutex; the counter is unsigned int    *)
(* and wraps.                                                              *)
GetNextId(r) ==
  /\ pc[r] = "idle"
  /\ LockFree
  /\ unique_request_id < CallLimit
  /\ unique_request_id' = NextId
  /\ req_id' = [req_id EXCEPT ![r] = unique_request_id']
  /\ pc' = [pc EXCEPT ![r] = "numbered"]
  /\ outcome' = [outcome EXCEPT ![r] = "none"]
  /\ UNCHANGED <<tableVars, data_lock, elapsed, listenerVars, networkVars>>

(* The id must satisfy the constraint on ricRequestorID, or the request    *)
(* cannot be encoded.                                                      *)
Encodable(id) == id <= MaxRequestorId

EncodeError(r) ==
  /\ pc[r] = "numbered"
  /\ ~ Encodable(req_id[r])
  /\ Return(r, "refused")
  /\ UNCHANGED <<tableVars, unique_request_id, data_lock, req_id, elapsed,
                 listenerVars, networkVars>>

AddRequestEntry(r) ==
  /\ pc[r] = "numbered"
  /\ Encodable(req_id[r])
  /\ LockFree
  /\ IF requests_table[req_id[r]] = "absent"
       THEN SetStatus(req_id[r], "pending") /\ Goto(r, "registered")
       ELSE UNCHANGED requests_table /\ Return(r, "refused")
  /\ UNCHANGED <<subscription_responses, unique_request_id, data_lock, req_id,
                 elapsed, listenerVars, networkVars>>

AcquireLock(r) ==
  /\ pc[r] = "registered"
  /\ LockFree
  /\ data_lock' = r
  /\ Goto(r, "locked")
  /\ UNCHANGED <<tableVars, unique_request_id, req_id, elapsed, listenerVars,
                 networkVars>>

(* The transmitter is called for an id and returns the value.              *)
TransmitterReturns(id, value) ==
  /\ transmitted' = [transmitted EXCEPT ![id] = IF @ = "none" THEN value ELSE "repeated"]
  /\ requested' = requested \cup {n \in {id} : value = "true"}
  /\ UNCHANGED inbound

Transmit_Unlocking(r) ==
  /\ pc[r] = "locked"
  /\ TransmitterReturns(req_id[r], "true")
  /\ elapsed' = [elapsed EXCEPT ![r] = 0]
  /\ data_lock' = NoThread
  /\ Goto(r, "sent")
  /\ UNCHANGED <<tableVars, unique_request_id, req_id, listenerVars>>

(* The transmitter reports success; the start of the wait is recorded.     *)
Transmit(r) ==
  /\ pc[r] = "locked"
  /\ TransmitterReturns(req_id[r], "true")
  /\ elapsed' = [elapsed EXCEPT ![r] = 0]
  /\ Goto(r, "sent")
  /\ UNCHANGED <<tableVars, unique_request_id, data_lock, req_id, listenerVars>>

TransmitError_KeepingEntry(r) ==
  /\ pc[r] = "locked"
  /\ TransmitterReturns(req_id[r], "false")
  /\ data_lock' = NoThread
  /\ Return(r, "refused")
  /\ UNCHANGED <<tableVars, unique_request_id, req_id, elapsed, listenerVars>>

(* The transmitter reports failure: the entry is removed and the mutex     *)
(* released when unique_lock goes out of scope.                            *)
TransmitError(r) ==
  /\ pc[r] = "locked"
  /\ TransmitterReturns(req_id[r], "false")
  /\ DeleteEntry(req_id[r])
  /\ data_lock' = NoThread
  /\ Return(r, "refused")
  /\ UNCHANGED <<subscription_responses, unique_request_id, req_id, elapsed,
                 listenerVars>>

(* wait_for blocks and releases the mutex in one step.                     *)
BeginWait(r) ==
  /\ pc[r] = "sent"
  /\ data_lock' = NoThread
  /\ Goto(r, "waiting")
  /\ UNCHANGED <<tableVars, unique_request_id, req_id, elapsed, listenerVars,
                 networkVars>>

(* wait_for ends without a notification: it timed out, or spuriously.      *)
WakeUp(r) ==
  /\ pc[r] = "waiting"
  /\ Goto(r, "woken")
  /\ UNCHANGED <<tableVars, unique_request_id, data_lock, req_id, elapsed,
                 listenerVars, networkVars>>

Expired(r) == TimeoutFlag /\ elapsed[r] > NumRetries

CheckStatus_DeadlineFirst(r) ==
  /\ pc[r] = "woken"
  /\ LockFree
  /\ LET status == requests_table[req_id[r]]
     IN  \/ /\ status = "success" /\ ~ Expired(r)
            /\ DeleteEntry(req_id[r])
            /\ Return(r, "subscribed")
         \/ /\ status = "pending"
            /\ ~ Expired(r)
            /\ Goto(r, "waiting")
            /\ UNCHANGED requests_table
         \/ /\ status \notin {"success", "pending"} \/ Expired(r)
            /\ DeleteEntry(req_id[r])
            /\ Return(r, "refused")
  /\ UNCHANGED <<subscription_responses, unique_request_id, data_lock, req_id,
                 elapsed, listenerVars, networkVars>>

CheckStatus_AnyVerdict(r) ==
  /\ pc[r] = "woken"
  /\ LockFree
  /\ LET status == requests_table[req_id[r]]
     IN  \/ /\ status # "pending"
            /\ DeleteEntry(req_id[r])
            /\ Return(r, "subscribed")
         \/ /\ status = "pending"
            /\ ~ Expired(r)
            /\ Goto(r, "waiting")
            /\ UNCHANGED requests_table
         \/ /\ status = "pending" /\ Expired(r)
            /\ DeleteEntry(req_id[r])
            /\ Return(r, "refused")
  /\ UNCHANGED <<subscription_responses, unique_request_id, data_lock, req_id,
                 elapsed, listenerVars, networkVars>>

CheckStatus_Retransmitting(r) ==
  /\ pc[r] = "woken"
  /\ LockFree
  /\ LET status == requests_table[req_id[r]]
     IN  \/ /\ status = "success"
            /\ DeleteEntry(req_id[r])
            /\ Return(r, "subscribed")
            /\ UNCHANGED networkVars
         \/ /\ status = "pending"
            /\ ~ Expired(r)
            /\ TransmitterReturns(req_id[r], "true")
            /\ Goto(r, "waiting")
            /\ UNCHANGED requests_table
         \/ /\ status \notin {"success", "pending"} \/ (status = "pending" /\ Expired(r))
            /\ DeleteEntry(req_id[r])
            /\ Return(r, "refused")
            /\ UNCHANGED networkVars
  /\ UNCHANGED <<subscription_responses, unique_request_id, data_lock, req_id,
                 elapsed, listenerVars>>

CheckStatus_RestartingClock(r) ==
  /\ pc[r] = "woken"
  /\ LockFree
  /\ elapsed' = [elapsed EXCEPT ![r] = 0]
  /\ LET status == requests_table[req_id[r]]
     IN  \/ /\ status = "success"
            /\ DeleteEntry(req_id[r])
            /\ Return(r, "subscribed")
         \/ /\ status = "pending"
            /\ ~ Expired(r)
            /\ Goto(r, "waiting")
            /\ UNCHANGED requests_table
         \/ /\ status \notin {"success", "pending"} \/ (status = "pending" /\ Expired(r))
            /\ DeleteEntry(req_id[r])
            /\ Return(r, "refused")
  /\ UNCHANGED <<subscription_responses, unique_request_id, data_lock, req_id,
                 listenerVars, networkVars>>

(* With the mutex taken again: a success is returned even past the         *)
(* deadline; a pending request waits again, unless it is past the deadline;*)
(* anything else fails.  The mutex is released on every path.              *)
CheckStatus(r) ==
  /\ pc[r] = "woken"
  /\ LockFree
  /\ LET status == requests_table[req_id[r]]
     IN  \/ /\ status = "success"
            /\ DeleteEntry(req_id[r])
            /\ Return(r, "subscribed")
         \/ /\ status = "pending"
            /\ ~ Expired(r)
            /\ Goto(r, "waiting")
            /\ UNCHANGED requests_table
         \/ /\ status \notin {"success", "pending"} \/ (status = "pending" /\ Expired(r))
            /\ DeleteEntry(req_id[r])
            /\ Return(r, "refused")
  /\ UNCHANGED <<subscription_responses, unique_request_id, data_lock, req_id,
                 elapsed, listenerVars, networkVars>>

(* Another _time_out passes since start was recorded.                      *)
Tick(r) ==
  /\ pc[r] \in {"sent", "waiting", "woken"}
  /\ elapsed[r] < MaxElapsed
  /\ elapsed' = [elapsed EXCEPT ![r] = @ + 1]
  /\ UNCHANGED <<tableVars, unique_request_id, data_lock, pc, req_id, outcome,
                 listenerVars, networkVars>>

----------------------------------------------------------------------------
(* Response.                                                               *)

(* A listener is handed a message.  RMR may deliver it late, again, in any *)
(* order, or (never received here) not at all.                             *)
Receive(l) ==
  /\ lpc[l] = "idle"
  /\ \E m \in inbound \cup Strays :
       message' = [message EXCEPT ![l] = m]
  /\ lpc' = [lpc EXCEPT ![l] = "deciding"]
  /\ UNCHANGED <<tableVars, unique_request_id, data_lock, pc, callVars, networkVars>>

(* The block under the mutex: a verdict for a pending request is recorded, *)
(* everything else is only logged.                                         *)
RecordVerdict(l) ==
  LET m == message[l]
  IN  /\ lpc[l] = "deciding"
      /\ LockFree
      /\ \/ /\ Relevant(m)
            /\ SetStatus(m.id, VerdictOf(m))
            /\ subscription_responses' =
                 subscription_responses \cup {id \in {m.id} : m.kind = "accept"}
            /\ lpc' = [lpc EXCEPT ![l] = "notifying"]
         \/ /\ ~ Relevant(m)
            /\ lpc' = [lpc EXCEPT ![l] = "idle"]
            /\ UNCHANGED tableVars
      /\ message' = [message EXCEPT ![l] = NoMessage]
      /\ UNCHANGED <<unique_request_id, data_lock, pc, callVars, networkVars>>

(* notify_all, after the mutex is released: every thread asleep in         *)
(* wait_for wakes up.                                                      *)
NotifyAll(l) ==
  /\ lpc[l] = "notifying"
  /\ lpc' = [lpc EXCEPT ![l] = "idle"]
  /\ pc' = [r \in Requesters |-> IF pc[r] = "waiting" THEN "woken" ELSE pc[r]]
  /\ UNCHANGED <<tableVars, unique_request_id, data_lock, callVars, message,
                 networkVars>>

----------------------------------------------------------------------------
(* The RAN (external): it may answer a request it was sent, more than once *)
(* and differently when RMR delivered the request twice, or never.         *)
RanAnswer(id) ==
  /\ id \in requested
  /\ \E kind \in {"accept", "reject"} :
       inbound' = inbound \cup {[kind |-> kind, id |-> id]}
  /\ UNCHANGED <<tableVars, unique_request_id, data_lock, pc, callVars,
                 listenerVars, requested, transmitted>>

Clear_ResponsesOnly ==
  /\ LockFree
  /\ subscription_responses' = {}
  /\ UNCHANGED <<requests_table, unique_request_id, data_lock, pc, callVars,
                 listenerVars, networkVars>>

(* clear(), offered by the class and called by nobody in the program.      *)
Clear ==
  /\ LockFree
  /\ requests_table' = [id \in RequestIds |-> "absent"]
  /\ subscription_responses' = {}
  /\ UNCHANGED <<unique_request_id, data_lock, pc, callVars, listenerVars,
                 networkVars>>

----------------------------------------------------------------------------
(* A step of a call in progress: everything but the decision to call.      *)
CallStep(r) ==
  \/ EncodeError(r) \/ AddRequestEntry(r) \/ AcquireLock(r)
  \/ Transmit(r) \/ TransmitError(r)
  \/ BeginWait(r) \/ WakeUp(r) \/ CheckStatus(r)

ListenerStep(l) == Receive(l) \/ RecordVerdict(l) \/ NotifyAll(l)

Next ==
  \/ \E r \in Requesters : GetNextId(r) \/ CallStep(r) \/ Tick(r)
  \/ \E l \in Listeners : ListenerStep(l)
  \/ \E id \in RequestIds : RanAnswer(id)

Spec == Init /\ [][Next]_vars

(* A thread in the middle of a call keeps running (the mutex is always     *)
(* released again), time passes, and wait_for returns.  Nothing is assumed *)
(* of the RAN or of delivery.                                              *)
Fairness ==
  /\ \A r \in Requesters : WF_vars(CallStep(r)) /\ WF_vars(Tick(r))
  /\ \A l \in Listeners : WF_vars(RecordVerdict(l) \/ NotifyAll(l))

FairSpec == Spec /\ Fairness

(* The class as it is offered: with clear().                               *)
ApiSpec == Init /\ [][Next \/ Clear]_vars

----------------------------------------------------------------------------
(* Safety.                                                                 *)

(* The counter never comes back to an id it has given out.                 *)
NoWrap == CallLimit < IdModulus

(* Nothing reaches Response that the RAN did not send.                     *)
NoStrays == Strays = {}

(* requests_table holds exactly the calls in progress: an entry belongs to *)
(* one call, two calls never share one, and no return path (encoding or    *)
(* transmission error, verdict, deadline) leaves an entry behind.          *)
EntryOwned ==
  /\ \A id \in RequestIds :
       requests_table[id] # "absent" <=>
         \E r \in Requesters : pc[r] \in Registered /\ req_id[r] = id
  /\ \A r1, r2 \in Requesters :
       pc[r1] \in Registered /\ pc[r2] \in Registered /\ req_id[r1] = req_id[r2]
         => r1 = r2

(* RequestSubscription fetches the response of a successful request with   *)
(* operator[], which would make up an empty one: whenever the status is    *)
(* request_success the response must be stored.                            *)
ResponseStored ==
  \A id \in RequestIds :
    requests_table[id] = "success" => id \in subscription_responses

(* A requester never sleeps on a verdict that is already in the table      *)
(* unless a notification is on its way: transmitting and going to sleep    *)
(* under the mutex keeps Response from notifying in between.               *)
NoLostWakeup ==
  \A r \in Requesters :
    pc[r] = "waiting" /\ requests_table[req_id[r]] \in Verdicts
      => \E l \in Listeners : lpc[l] = "notifying"

(* What a call returned and what the handler stored agree: a call that     *)
(* returned true has its response stored, and a call that returned false   *)
(* has none, also when the verdict raced the deadline.                     *)
OutcomeMatchesStore ==
  \A r \in Requesters :
    /\ outcome[r] = "subscribed" => req_id[r] \in subscription_responses
    /\ outcome[r] = "refused" => req_id[r] \notin subscription_responses

(* A call returns true only if the RAN accepted the request with its id.   *)
SubscribedMeansAccepted ==
  \A r \in Requesters :
    outcome[r] = "subscribed" => [kind |-> "accept", id |-> req_id[r]] \in inbound

(* As long as the counter has not wrapped the branch that marks a request  *)
(* as a duplicate is never taken: repeated responses find the request      *)
(* decided or gone.                                                        *)
NeverDuplicate == \A id \in RequestIds : requests_table[id] # "duplicate"

(* "We don't change status of response since it was not in pending": the   *)
(* first verdict stands until the call that owns the entry removes it.     *)
FirstVerdictStands ==
  [][\A id \in RequestIds :
       requests_table[id] \in Verdicts
         => requests_table'[id] \in {requests_table[id], "absent"}]_vars
----------------------------------------------------------------------------
(* What the handler promises a caller: SubscriptionService.                *)

(* What the RAN has answered to the request with the caller's last id.     *)
AnswersTo(r) ==
  {kind \in {"accept", "reject"} : [kind |-> kind, id |-> req_id[r]] \in inbound}

CallPhase(r) ==
  IF pc[r] = "idle" THEN "idle"
  ELSE IF pc[r] = "numbered" THEN "open"
  ELSE IF requests_table[req_id[r]] = "success" THEN "granted"
  ELSE IF requests_table[req_id[r]] = "pending" THEN "open"
  ELSE "refused"

CallPhases == [r \in Requesters |-> CallPhase(r)]
RanAnswers == [r \in Requesters |-> AnswersTo(r)]

Service == INSTANCE SubscriptionService WITH
  Callers <- Requesters, phase <- CallPhases, answers <- RanAnswers

(* The handler implements the service as long as the counter has not       *)
(* wrapped: whatever the interleaving of requesters, listeners, late and   *)
(* repeated messages, a caller sees one verdict, given by the RAN to its   *)
(* own request, and true exactly if that verdict is an acceptance.         *)
ImplementsService == Service!Spec

(* Below it the handler takes the transmitter to be SendService, which     *)
(* XaPP::Send is proved to provide (RmrSend), and keeps to what that asks  *)
(* of a caller: as long as the counter has not wrapped an id goes to the   *)
(* transmitter once, neither again while its call waits for the verdict    *)
(* nor, with another call, after the first has failed.                     *)
Transmitter == INSTANCE SendService WITH
  Messages <- RequestIds,
  result <- transmitted,
  taken <- [id \in RequestIds |-> IF id \in requested THEN 1 ELSE 0]

UsesTransmitter == Transmitter!Spec

----------------------------------------------------------------------------
(* Liveness, under FairSpec.                                               *)

(* The part of it that needs no fairness: whoever holds the mutex between  *)
(* two steps is in the middle of a call, at a place from where every path  *)
(* releases it without waiting for anybody.                                *)
HolderMovesOn == data_lock # NoThread => pc[data_lock] \in {"locked", "sent"}

(* Every call returns, whatever the RAN and the network do, when the       *)
(* timeout flag is set.                                                    *)
EveryCallReturns ==
  \A r \in Requesters : pc[r] # "idle" ~> pc[r] = "idle"

(* A success that is recorded is returned as a success, even if the        *)
(* deadline passes before the requester has the mutex again.               *)
SuccessIsReturned ==
  \A r \in Requesters :
    pc[r] \in Registered /\ requests_table[req_id[r]] = "success"
      ~> outcome[r] = "subscribed"

----------------------------------------------------------------------------
(* The inductive invariants behind the safety properties, part by part.    *)

(* The mutex is recorded for exactly the thread that transmits.            *)
LockDiscipline ==
  \A r \in Requesters : pc[r] \in {"locked", "sent"} <=> data_lock = r

(* A call has no outcome before it returns.                                *)
OutcomeWhenIdle == \A r \in Requesters : outcome[r] # "none" => pc[r] = "idle"

(* Ids are drawn in increasing order from 1 and each goes to one call.     *)
IdsFresh ==
  /\ \A id \in subscription_responses \cup requested :
       id # 0 /\ id <= unique_request_id
  /\ \A r \in Requesters :
       /\ req_id[r] <= unique_request_id
       /\ pc[r] # "idle" \/ outcome[r] # "none" => req_id[r] # 0
  /\ \A r1, r2 \in Requesters :
       req_id[r1] = req_id[r2] /\ req_id[r1] # 0 => r1 = r2

(* The handler stores the response of exactly the requests that succeeded. *)
StoreMatchesStatus ==
  \A r \in Requesters :
    /\ pc[r] = "numbered" => req_id[r] \notin subscription_responses
    /\ pc[r] \in Registered =>
         (req_id[r] \in subscription_responses <=> requests_table[req_id[r]] = "success")

(* Messages come from the RAN, and the RAN answers what it was asked.      *)
MessagesCaused ==
  /\ \A l \in Listeners : lpc[l] = "deciding" => message[l] \in inbound
  /\ \A m \in inbound : m.id \in requested

(* No verdict can be in the table before the request is on its way and its *)
(* sender asleep.                                                          *)
NoVerdictBeforeWait ==
  \A r \in Requesters :
    /\ pc[r] \in {"numbered", "registered", "locked"} => req_id[r] \notin requested
    /\ pc[r] \in {"registered", "locked", "sent"} => requests_table[req_id[r]] = "pending"

(* A recorded success was sent by the RAN.                                 *)
SuccessCaused ==
  /\ \A l \in Listeners : lpc[l] = "deciding" => message[l] \in inbound
  /\ \A id \in RequestIds :
       requests_table[id] = "success" => [kind |-> "accept", id |-> id] \in inbound

(* Ids yet to be drawn, or drawn by a call that is not past its            *)
(* transmission, have not been handed to the transmitter.                  *)
NotYetTransmitted ==
  /\ \A id \in RequestIds : id > unique_request_id => transmitted[id] = "none"
  /\ \A r \in Requesters :
       pc[r] \in {"numbered", "registered", "locked"}
         => transmitted[req_id[r]] = "none"

TableInv ==
  /\ TypeOK
  /\ EntryOwned
  /\ ResponseStored

OrderInv ==
  /\ TableInv
  /\ LockDiscipline
  /\ IdsFresh
  /\ MessagesCaused
  /\ NoVerdictBeforeWait

StoreInv ==
  /\ OrderInv
  /\ OutcomeWhenIdle
  /\ StoreMatchesStatus
  /\ NeverDuplicate
  /\ OutcomeMatchesStore

AcceptedInv ==
  /\ TypeOK
  /\ OutcomeWhenIdle
  /\ SuccessCaused
  /\ SubscribedMeansAccepted
==================================================================================
