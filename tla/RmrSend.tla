---------------------------------- MODULE RmrSend ----------------------------------
(***************************************************************************)
(* The sending side of class XaPP: the constructor and the overloads of    *)
(* Send (src/src/xapp_utils.cc).                                           *)
(*                                                                         *)
(* All calls of Send share one transmit buffer and take no lock of XaPP:   *)
(* what keeps them apart is the mutex _data_lock of the subscription       *)
(* handler, under which the program makes the call.  A message stands for  *)
(* the one call that sends it.                                             *)
(*                                                                         *)
(* A definition named X_Y is not part of the specification: it is X with   *)
(* a plausible mistake, and shows which property notices it.               *)
(***************************************************************************)
EXTENDS Integers, FiniteSets

CONSTANTS
  Messages,    (* the messages sent, each by one call                      *)
  Overload,    (* the overload of Send used for each                       *)
  Len,         (* the length of each                                       *)
  BufferSize,  (* RMR_BUFFER_SIZE                                          *)
  MsgSize,     (* msg_size as given to the constructor                     *)
  MaxWaitTime, (* MAX_WAIT_TIME                                            *)
  MaxRetries,  (* MAX_RETRIES                                              *)
  NumRetries,  (* _num_retries as constructed                              *)
  NoMessage    (* content of a fresh buffer, owner of a free mutex         *)

(* The handler encodes into an array of 512 bytes, so the overload that    *)
(* copies without a test is never given more than fits.                    *)
ASSUME SendAssumption ==
  /\ NoMessage \notin Messages /\ IsFiniteSet(Messages)
  /\ Overload \in [Messages -> {"tlv", "meid", "buffer"}]
  /\ Len \in [Messages -> Nat]
  /\ BufferSize \in Nat /\ MsgSize \in Int /\ MaxWaitTime \in Nat
  /\ MaxRetries \in Nat /\ NumRetries \in 0 .. MaxRetries
  /\ \A m \in Messages : Overload[m] = "meid" => Len[m] <= BufferSize

VARIABLES
  phase,         (* how far the constructor has got                        *)
  waited,        (* seconds get_routes has waited                          *)
  is_ready,      (* _is_ready                                              *)
  num_retries,   (* _num_retries                                           *)
  num_attempts,  (* _num_attempts                                          *)
  num_fails,     (* _num_fails                                             *)
  tx_message,    (* message whose payload is in _rmr_tx_message            *)
  data_lock,     (* the message whose sender holds _data_lock              *)
  pc,            (* where each call of Send is                             *)
  tries,         (* transmissions of each call, the i of the loop          *)
  taken          (* how often RMR has taken each message                   *)

xappVars == <<phase, waited, is_ready>>
sendVars == <<num_attempts, num_fails, tx_message, data_lock, pc, tries, taken>>
vars     == <<phase, waited, is_ready, num_retries, num_attempts, num_fails,
              tx_message, data_lock, pc, tries, taken>>

Finished == {"true", "retries_used", "refused", "rejected"}
Locations == {"idle", "filling", "testing", "transmitting"} \cup Finished

TypeOK ==
  /\ phase \in {"init", "routes", "redis", "up", "thrown"}
  /\ waited \in 0 .. MaxWaitTime
  /\ is_ready \in BOOLEAN
  /\ num_retries \in 0 .. MaxRetries
  /\ num_attempts \in Nat /\ num_fails \in Nat
  /\ tx_message \in Messages \cup {NoMessage}
  /\ data_lock \in Messages \cup {NoMessage}
  /\ pc \in [Messages -> Locations]
  /\ tries \in [Messages -> Nat]
  /\ taken \in [Messages -> Nat]

Init ==
  /\ phase = "init" /\ waited = 0 /\ is_ready = FALSE
  /\ num_retries = NumRetries
  /\ num_attempts = 0 /\ num_fails = 0
  /\ tx_message = NoMessage
  /\ data_lock = NoMessage
  /\ pc = [m \in Messages |-> "idle"]
  /\ tries = [m \in Messages |-> 0]
  /\ taken = [m \in Messages |-> 0]

----------------------------------------------------------------------------
(* The constructor: rmr_init, the wait for a routing table, the transmit   *)
(* buffer, the connection to Redis.  Each of them may fail and throw.      *)

InitRmr ==
  /\ phase = "init"
  /\ \/ MsgSize \in 1 .. BufferSize /\ phase' = "routes"
     \/ phase' = "thrown"
  /\ UNCHANGED <<waited, is_ready, num_retries, sendVars>>

(* rmr_ready says no, and a second passes.                                 *)
Poll ==
  /\ phase = "routes" /\ waited < MaxWaitTime
  /\ waited' = waited + 1
  /\ UNCHANGED <<phase, is_ready, num_retries, sendVars>>

(* rmr_ready says yes; the buffer is allocated or not.                     *)
Ready ==
  /\ phase = "routes" /\ waited < MaxWaitTime
  /\ is_ready' = TRUE
  /\ phase' \in {"redis", "thrown"}
  /\ UNCHANGED <<waited, num_retries, sendVars>>

NoRoutes ==
  /\ phase = "routes" /\ waited = MaxWaitTime
  /\ phase' = "thrown"
  /\ UNCHANGED <<waited, is_ready, num_retries, sendVars>>

ConnectRedis ==
  /\ phase = "redis"
  /\ phase' \in {"up", "thrown"}
  /\ UNCHANGED <<waited, is_ready, num_retries, sendVars>>

Construct == InitRmr \/ Poll \/ Ready \/ NoRoutes \/ ConnectRedis

----------------------------------------------------------------------------
(* Send.                                                                   *)

Goto(m, l) == pc' = [pc EXCEPT ![m] = l]

AcquireLock_Shared(m) ==
  /\ phase = "up" /\ pc[m] = "idle"
  /\ data_lock' = m
  /\ Goto(m, "filling")
  /\ UNCHANGED <<xappVars, num_retries, num_attempts, num_fails, tx_message,
                 tries, taken>>

(* RequestSubscription takes the mutex it shares with all other callers.   *)
AcquireLock(m) ==
  /\ phase = "up" /\ pc[m] = "idle"
  /\ data_lock = NoMessage
  /\ data_lock' = m
  /\ Goto(m, "filling")
  /\ UNCHANGED <<xappVars, num_retries, num_attempts, num_fails, tx_message,
                 tries, taken>>

(* The call ends and its caller lets go of the mutex.                      *)
Finish(m, l) ==
  /\ Goto(m, l)
  /\ data_lock' = NoMessage

(* type, length, value: the length is tested before anything is copied.    *)
FillTlv(m) ==
  /\ pc[m] = "filling" /\ Overload[m] = "tlv"
  /\ IF is_ready /\ Len[m] <= BufferSize
       THEN tx_message' = m /\ Goto(m, "testing") /\ UNCHANGED data_lock
       ELSE Finish(m, "rejected") /\ UNCHANGED tx_message
  /\ UNCHANGED <<xappVars, num_retries, num_attempts, num_fails, tries, taken>>

(* The same with the name of the gNodeB, and without the test of length.   *)
FillMeid(m) ==
  /\ pc[m] = "filling" /\ Overload[m] = "meid"
  /\ IF is_ready
       THEN tx_message' = m /\ Goto(m, "testing") /\ UNCHANGED data_lock
       ELSE Finish(m, "rejected") /\ UNCHANGED tx_message
  /\ UNCHANGED <<xappVars, num_retries, num_attempts, num_fails, tries, taken>>

(* A buffer of the caller's own.                                           *)
OwnBuffer(m) ==
  /\ pc[m] = "filling" /\ Overload[m] = "buffer"
  /\ Goto(m, "testing")
  /\ UNCHANGED <<xappVars, num_retries, num_attempts, num_fails, tx_message,
                 data_lock, tries, taken>>

(* What is in the buffer that the call of m transmits.                     *)
Content(m) == IF Overload[m] = "buffer" THEN m ELSE tx_message

TestLength(m) ==
  /\ pc[m] = "testing"
  /\ IF is_ready /\ Len[Content(m)] \in 1 .. BufferSize
       THEN Goto(m, "transmitting") /\ UNCHANGED data_lock
       ELSE Finish(m, "rejected")
  /\ UNCHANGED <<xappVars, num_retries, num_attempts, num_fails, tx_message,
                 tries, taken>>

(* RMR takes the message.                                                  *)
Transmit(m) ==
  /\ pc[m] = "transmitting" /\ tries[m] <= num_retries
  /\ num_attempts' = num_attempts + 1
  /\ taken' = [taken EXCEPT ![Content(m)] = @ + 1]
  /\ Finish(m, "true")
  /\ UNCHANGED <<xappVars, num_retries, num_fails, tx_message, tries>>

TransmitRetry_Untested(m) ==
  /\ pc[m] = "transmitting" /\ tries[m] <= num_retries + 1
  /\ num_attempts' = num_attempts + 1
  /\ num_fails' = num_fails + 1
  /\ tries' = [tries EXCEPT ![m] = @ + 1]
  /\ UNCHANGED <<xappVars, num_retries, tx_message, data_lock, pc, taken>>

(* RMR_ERR_RETRY: once more, if any tries are left.                        *)
TransmitRetry(m) ==
  /\ pc[m] = "transmitting" /\ tries[m] <= num_retries
  /\ num_attempts' = num_attempts + 1
  /\ num_fails' = num_fails + 1
  /\ tries' = [tries EXCEPT ![m] = @ + 1]
  /\ UNCHANGED <<xappVars, num_retries, tx_message, data_lock, pc, taken>>

TransmitError_Counted(m) ==
  /\ pc[m] = "transmitting" /\ tries[m] <= num_retries
  /\ num_attempts' = num_attempts + 1
  /\ num_fails' = num_fails + 1
  /\ Finish(m, "refused")
  /\ UNCHANGED <<xappVars, num_retries, tx_message, tries, taken>>

(* NULL or any other state.                                                *)
TransmitError(m) ==
  /\ pc[m] = "transmitting" /\ tries[m] <= num_retries
  /\ num_attempts' = num_attempts + 1
  /\ Finish(m, "refused")
  /\ UNCHANGED <<xappVars, num_retries, num_fails, tx_message, tries, taken>>

GiveUp_KeepingLock(m) ==
  /\ pc[m] = "transmitting" /\ tries[m] > num_retries
  /\ Goto(m, "retries_used")
  /\ UNCHANGED <<xappVars, num_retries, num_attempts, num_fails, tx_message,
                 data_lock, tries, taken>>

(* The loop ends without an answer.                                        *)
GiveUp(m) ==
  /\ pc[m] = "transmitting" /\ tries[m] > num_retries
  /\ Finish(m, "retries_used")
  /\ UNCHANGED <<xappVars, num_retries, num_attempts, num_fails, tx_message,
                 tries, taken>>

(* set_num_retries, at any time and without a lock; what is out of range   *)
(* throws and changes nothing.                                             *)
SetNumRetries(n) ==
  /\ phase = "up" /\ n # num_retries
  /\ num_retries' = n
  /\ UNCHANGED <<xappVars, sendVars>>

SendStep(m) ==
  \/ AcquireLock(m) \/ FillTlv(m) \/ FillMeid(m) \/ OwnBuffer(m)
  \/ TestLength(m) \/ Transmit(m) \/ TransmitRetry(m) \/ TransmitError(m)
  \/ GiveUp(m)

Next ==
  \/ Construct
  \/ \E m \in Messages : SendStep(m)
  \/ \E n \in 0 .. MaxRetries : SetNumRetries(n)

Spec == Init /\ [][Next]_vars

(* The constructor and the senders run when they can; nobody need ever     *)
(* call set_num_retries.                                                   *)
FairSpec ==
  /\ Spec
  /\ WF_vars(Construct)
  /\ \A m \in Messages : WF_vars(SendStep(m))

----------------------------------------------------------------------------
(* Properties.                                                             *)

(* What Send returns is true of the caller's own message: true means that  *)
(* RMR took it, exactly once, and false that it did not, although the      *)
(* buffer is shared with all other calls and a transmission is repeated    *)
(* (xapp_utils.cc:191, README.md:54 "They return true if message was sent  *)
(* successfuly and false if not").                                         *)
ResultTruthful ==
  \A m \in Messages : taken[m] = (IF pc[m] = "true" THEN 1 ELSE 0)

(* So Send is one step to its caller: what it returns is true of the       *)
(* caller's own message, which RMR then has once or will never have,       *)
(* although the buffer is shared with the calls of all overloads, a        *)
(* transmission is repeated and the limit of repetitions moves.            *)
Sender == INSTANCE SendService WITH
  result <- [m \in Messages |-> IF pc[m] = "true" THEN "true"
                                ELSE IF pc[m] \in Finished THEN "false" ELSE "none"]

ImplementsSender == Sender!Spec

(* No call transmits more often than one more than the retries allowed,    *)
(* also when set_num_retries is called in the middle of it, and a call     *)
(* that gives up has tried at least once.                                  *)
TriesBounded ==
  \A m \in Messages :
    /\ tries[m] <= MaxRetries + 1
    /\ pc[m] = "retries_used" => tries[m] > 0

(* get_Send_attempts and get_Send_fails fit together: the attempts that    *)
(* are not counted as failed are the calls that got a final answer of RMR, *)
(* one for each (lines 192 and 206).                                       *)
CountersAgree ==
  num_attempts - num_fails =
    Cardinality({m \in Messages : pc[m] \in {"true", "refused"}})

(* The strengthening that makes these inductive: a call in progress holds  *)
(* the mutex, and what it is about to transmit is its own message.         *)
LockHeld ==
  \A m \in Messages : pc[m] \in {"filling", "testing", "transmitting"} => data_lock = m

BufferOwn ==
  \A m \in Messages : pc[m] \in {"testing", "transmitting"} => Content(m) = m

SendInv ==
  /\ TypeOK /\ LockHeld /\ BufferOwn
  /\ ResultTruthful /\ TriesBounded /\ CountersAgree

(* The mutex is never left behind by a call that has returned, on any of   *)
(* the ways Send can end.                                                  *)
LockReleased ==
  data_lock # NoMessage => pc[data_lock] \in {"filling", "testing", "transmitting"}

(* Every call comes to an end, however long RMR asks for a retry and       *)
(* whatever is done to the number of retries meanwhile, and leaves the     *)
(* mutex to the next one.                                                  *)
EverySendReturns ==
  \A m \in Messages : phase = "up" ~> pc[m] \in Finished
=====================================================================================
