----------------------------- MODULE RmrSendProofs -----------------------------
(***************************************************************************)
(* Proofs about RmrSend for every finite set of messages, their overloads  *)
(* and lengths, and all limits.                                            *)
(***************************************************************************)
EXTENDS RmrSend, FiniteSetTheorems, TLAPS

LEMMA SendInitInv == Init => SendInv
<1> SUFFICES ASSUME Init PROVE SendInv
  OBVIOUS
<1> USE SendAssumption
<1>1. /\ pc = [m \in Messages |-> "idle"] /\ tries = [m \in Messages |-> 0]
      /\ taken = [m \in Messages |-> 0] /\ num_attempts = 0 /\ num_fails = 0
  BY DEF Init
<1>2. TypeOK
  <2>1. pc \in [Messages -> Locations]
    BY <1>1 DEF Locations
  <2>2. tries \in [Messages -> Nat] /\ taken \in [Messages -> Nat]
    BY <1>1
  <2>3. waited \in 0 .. MaxWaitTime /\ num_retries \in 0 .. MaxRetries
    BY DEF Init
  <2>4. QED
    BY <2>1, <2>2, <2>3 DEF Init, TypeOK
<1>3. LockHeld /\ BufferOwn /\ ResultTruthful /\ TriesBounded
  BY <1>1 DEF LockHeld, BufferOwn, ResultTruthful, TriesBounded
<1>4. CountersAgree
  <2>1. {m \in Messages : pc[m] \in {"true", "refused"}} = {}
    BY <1>1
  <2>2. QED
    BY <1>1, <2>1, FS_EmptySet DEF CountersAgree
<1>5. QED
  BY <1>2, <1>3, <1>4 DEF SendInv

(* The calls that got a final answer of RMR.                               *)
Answered == {m \in Messages : pc[m] \in {"true", "refused"}}

(* A call that goes on without one leaves them alone, ...                  *)
LEMMA NoAnswer ==
  ASSUME TypeOK, NEW m \in Messages, pc[m] \notin {"true", "refused"},
         NEW l \in Locations \ {"true", "refused"}, pc' = [pc EXCEPT ![m] = l]
  PROVE  Answered' = Answered
BY DEF TypeOK, Answered

(* ... and one that gets it is one more.                                   *)
LEMMA OneMoreAnswer ==
  ASSUME TypeOK, NEW m \in Messages, pc[m] \notin {"true", "refused"},
         NEW l \in {"true", "refused"}, pc' = [pc EXCEPT ![m] = l]
  PROVE  /\ Cardinality(Answered') = Cardinality(Answered) + 1
         /\ Cardinality(Answered) \in Nat
<1>1. Answered' = Answered \cup {m} /\ m \notin Answered
  BY DEF TypeOK, Answered
<1>2. IsFiniteSet(Answered)
  BY SendAssumption, FS_Subset DEF Answered
<1>3. QED
  BY <1>1, <1>2, FS_AddElement, FS_CardinalityType

(* The constructor, and set_num_retries.                                   *)
LEMMA OthersInv ==
  ASSUME SendInv, Construct \/ (\E n \in 0 .. MaxRetries : SetNumRetries(n))
  PROVE  SendInv'
<1> USE SendAssumption
<1>1. UNCHANGED sendVars
  BY DEF Construct, InitRmr, Poll, Ready, NoRoutes, ConnectRedis, SetNumRetries
<1>2. TypeOK'
  <2>1. CASE Construct
    <3>1. /\ phase' \in {"init", "routes", "redis", "up", "thrown"}
          /\ waited' \in 0 .. MaxWaitTime /\ is_ready' \in BOOLEAN
          /\ num_retries' = num_retries
      <4>1. CASE InitRmr
        BY <4>1 DEF InitRmr, SendInv, TypeOK
      <4>2. CASE Poll
        BY <4>2 DEF Poll, SendInv, TypeOK
      <4>3. CASE Ready
        BY <4>3 DEF Ready, SendInv, TypeOK
      <4>4. CASE NoRoutes
        BY <4>4 DEF NoRoutes, SendInv, TypeOK
      <4>5. CASE ConnectRedis
        BY <4>5 DEF ConnectRedis, SendInv, TypeOK
      <4>6. QED
        BY <2>1, <4>1, <4>2, <4>3, <4>4, <4>5 DEF Construct
    <3>2. QED
      BY <1>1, <3>1 DEF SendInv, TypeOK, sendVars
  <2>2. CASE \E n \in 0 .. MaxRetries : SetNumRetries(n)
    BY <1>1, <2>2 DEF SetNumRetries, SendInv, TypeOK, sendVars, xappVars
  <2>3. QED
    BY <2>1, <2>2
<1>3. LockHeld' /\ BufferOwn' /\ ResultTruthful' /\ TriesBounded' /\ CountersAgree'
  BY <1>1 DEF SendInv, LockHeld, BufferOwn, ResultTruthful, TriesBounded,
     CountersAgree, Content, sendVars
<1>4. QED
  BY <1>2, <1>3 DEF SendInv

(* xapp_utils.cc:143-187: a call up to its first transmission.             *)
LEMMA PrepareInv ==
  ASSUME SendInv, NEW m \in Messages,
         AcquireLock(m) \/ FillTlv(m) \/ FillMeid(m) \/ OwnBuffer(m) \/ TestLength(m)
  PROVE  SendInv'
<1> USE SendAssumption
<1>1. UNCHANGED <<xappVars, num_retries, num_attempts, num_fails, tries, taken>>
  BY DEF AcquireLock, FillTlv, FillMeid, OwnBuffer, TestLength
<1>2. pc[m] \in {"idle", "filling", "testing"}
  BY DEF AcquireLock, FillTlv, FillMeid, OwnBuffer, TestLength
<1>3. PICK l \in {"filling", "testing", "transmitting", "rejected"} :
        pc' = [pc EXCEPT ![m] = l]
  BY DEF AcquireLock, FillTlv, FillMeid, OwnBuffer, TestLength, Finish, Goto
<1>4. TypeOK'
  <2>1. tx_message' \in Messages \cup {NoMessage}
        /\ data_lock' \in Messages \cup {NoMessage}
    BY DEF AcquireLock, FillTlv, FillMeid, OwnBuffer, TestLength, Finish, SendInv, TypeOK
  <2>2. pc' \in [Messages -> Locations]
    BY <1>3 DEF SendInv, TypeOK, Locations, Finished
  <2>3. QED
    BY <1>1, <2>1, <2>2 DEF SendInv, TypeOK, xappVars
<1>5. \A k \in Messages \ {m} : pc'[k] = pc[k]
  BY <1>3 DEF SendInv, TypeOK
<1>6. pc'[m] = l
  BY <1>3 DEF SendInv, TypeOK
<1>7. \A k \in Messages \ {m} : pc[k] \notin {"filling", "testing", "transmitting"}
  BY DEF AcquireLock, FillTlv, FillMeid, OwnBuffer, TestLength, SendInv, LockHeld
<1>8. LockHeld'
  <2>1. l \in {"filling", "testing", "transmitting"} => data_lock' = m
    BY <1>2, <1>6 DEF AcquireLock, FillTlv, FillMeid, OwnBuffer, TestLength, Finish, Goto,
       SendInv, LockHeld, TypeOK
  <2>2. QED
    BY <1>5, <1>6, <1>7, <2>1 DEF LockHeld
<1>9. BufferOwn'
  <2>1. l \in {"testing", "transmitting"} => Content(m)' = m
    <3>1. CASE AcquireLock(m)
      BY <1>6, <3>1 DEF AcquireLock, Goto, SendInv, TypeOK
    <3>2. CASE FillTlv(m) \/ FillMeid(m)
      BY <1>6, <3>2 DEF FillTlv, FillMeid, Finish, Goto, Content, SendInv, TypeOK
    <3>3. CASE OwnBuffer(m)
      BY <3>3 DEF OwnBuffer, Content
    <3>4. CASE TestLength(m)
      BY <3>4 DEF TestLength, Content, SendInv, BufferOwn
    <3>5. QED
      BY <3>1, <3>2, <3>3, <3>4
  <2>2. QED
    BY <1>5, <1>6, <1>7, <2>1 DEF BufferOwn
<1>10. ResultTruthful'
  BY <1>1, <1>2, <1>5, <1>6 DEF SendInv, ResultTruthful
<1>11. TriesBounded'
  BY <1>1, <1>5, <1>6 DEF SendInv, TriesBounded
<1>12. CountersAgree'
  <2>1. Answered' = Answered
    BY <1>2, <1>3, NoAnswer DEF SendInv, Locations, Finished
  <2>2. QED
    BY <1>1, <2>1 DEF SendInv, CountersAgree, Answered
<1>13. QED
  BY <1>4, <1>8, <1>9, <1>10, <1>11, <1>12 DEF SendInv

(* xapp_utils.cc:188-225: a transmission, or the end of the loop.          *)
LEMMA TransmissionInv ==
  ASSUME SendInv, NEW m \in Messages,
         Transmit(m) \/ TransmitRetry(m) \/ TransmitError(m) \/ GiveUp(m)
  PROVE  SendInv'
<1> USE SendAssumption
<1>1. /\ pc[m] = "transmitting" /\ data_lock = m /\ Content(m) = m
      /\ UNCHANGED <<xappVars, num_retries, tx_message>>
  BY DEF Transmit, TransmitRetry, TransmitError, GiveUp, SendInv, LockHeld, BufferOwn
<1>2. PICK l \in {"transmitting"} \cup Finished : pc' = [pc EXCEPT ![m] = l]
  <2>1. CASE TransmitRetry(m)
    <3>1. pc' = [pc EXCEPT ![m] = "transmitting"]
      BY <1>1, <2>1 DEF TransmitRetry, SendInv, TypeOK
    <3>2. QED
      BY <3>1
  <2>2. CASE Transmit(m) \/ TransmitError(m) \/ GiveUp(m)
    BY <2>2 DEF Transmit, TransmitError, GiveUp, Finish, Goto, Finished
  <2>3. QED
    BY <2>1, <2>2
<1>3. pc'[m] = l /\ \A k \in Messages \ {m} : pc'[k] = pc[k]
  BY <1>2 DEF SendInv, TypeOK
<1>4. \A k \in Messages \ {m} : pc[k] \notin {"filling", "testing", "transmitting"}
  BY <1>1 DEF SendInv, LockHeld
<1>5. TypeOK'
  <2>1. pc' \in [Messages -> Locations]
    BY <1>2 DEF SendInv, TypeOK, Locations
  <2>2. /\ num_attempts' \in Nat /\ num_fails' \in Nat
        /\ data_lock' \in Messages \cup {NoMessage}
        /\ tries' \in [Messages -> Nat] /\ taken' \in [Messages -> Nat]
    <3>1. CASE Transmit(m)
      BY <1>1, <3>1 DEF Transmit, Finish, SendInv, TypeOK
    <3>2. CASE TransmitRetry(m)
      BY <3>2 DEF TransmitRetry, SendInv, TypeOK
    <3>3. CASE TransmitError(m) \/ GiveUp(m)
      BY <3>3 DEF TransmitError, GiveUp, Finish, SendInv, TypeOK
    <3>4. QED
      BY <3>1, <3>2, <3>3
  <2>3. QED
    BY <1>1, <2>1, <2>2 DEF SendInv, TypeOK, xappVars
<1>6. LockHeld'
  <2>1. l = "transmitting" => TransmitRetry(m)
    BY <1>3 DEF Transmit, TransmitError, GiveUp, Finish, Goto, SendInv, TypeOK
  <2>2. TransmitRetry(m) => data_lock' = m
    BY <1>1 DEF TransmitRetry
  <2>3. QED
    BY <1>3, <1>4, <2>1, <2>2 DEF LockHeld, Finished
<1>7. BufferOwn'
  BY <1>1, <1>3, <1>4 DEF BufferOwn, Content
<1>8. ResultTruthful'
  <2>1. taken[m] = 0
    BY <1>1 DEF SendInv, ResultTruthful
  <2>2. CASE Transmit(m)
    <3>1. l = "true" /\ taken' = [taken EXCEPT ![m] = @ + 1]
      BY <1>1, <1>3, <2>2 DEF Transmit, Finish, Goto, SendInv, TypeOK
    <3>2. QED
      BY <1>3, <2>1, <3>1 DEF SendInv, ResultTruthful, TypeOK
  <2>3. CASE TransmitRetry(m) \/ TransmitError(m) \/ GiveUp(m)
    <3>1. l # "true" /\ taken' = taken
      BY <1>1, <1>3, <2>3 DEF TransmitRetry, TransmitError, GiveUp, Finish, Goto, SendInv,
         TypeOK
    <3>2. QED
      BY <1>3, <2>1, <3>1 DEF SendInv, ResultTruthful
  <2>4. QED
    BY <2>2, <2>3
<1>9. TriesBounded'
  <2>1. tries[m] \in Nat /\ num_retries \in 0 .. MaxRetries /\ tries[m] <= MaxRetries + 1
    BY DEF SendInv, TypeOK, TriesBounded
  <2>2. CASE TransmitRetry(m)
    <3>1. tries' = [tries EXCEPT ![m] = @ + 1] /\ tries[m] <= num_retries
          /\ pc' = pc
      BY <2>2 DEF TransmitRetry
    <3>2. QED
      BY <1>1, <2>1, <3>1 DEF SendInv, TypeOK, TriesBounded
  <2>3. CASE Transmit(m) \/ TransmitError(m)
    <3>1. tries' = tries /\ l # "retries_used"
      BY <1>3, <2>3 DEF Transmit, TransmitError, Finish, Goto, SendInv, TypeOK
    <3>2. QED
      BY <1>3, <3>1 DEF SendInv, TriesBounded
  <2>4. CASE GiveUp(m)
    <3>1. tries' = tries /\ tries[m] > num_retries
      BY <2>4 DEF GiveUp
    <3>2. QED
      BY <1>3, <2>1, <3>1 DEF SendInv, TriesBounded
  <2>5. QED
    BY <2>2, <2>3, <2>4
<1>10. CountersAgree'
  <2>1. num_attempts \in Nat /\ num_fails \in Nat
        /\ num_attempts - num_fails = Cardinality(Answered)
    BY DEF SendInv, TypeOK, CountersAgree, Answered
  <2>2. CASE Transmit(m) \/ TransmitError(m)
    <3>1. num_attempts' = num_attempts + 1 /\ num_fails' = num_fails
          /\ l \in {"true", "refused"}
      BY <1>3, <2>2 DEF Transmit, TransmitError, Finish, Goto, SendInv, TypeOK
    <3>2. Cardinality(Answered') = Cardinality(Answered) + 1
      BY <1>1, <1>2, <3>1, OneMoreAnswer DEF SendInv
    <3>3. QED
      BY <2>1, <3>1, <3>2 DEF CountersAgree, Answered
  <2>3. CASE TransmitRetry(m) \/ GiveUp(m)
    <3>1. num_attempts' - num_fails' = num_attempts - num_fails
          /\ l \in Locations \ {"true", "refused"}
      BY <1>1, <1>3, <2>1, <2>3 DEF TransmitRetry, GiveUp, Finish, Goto, SendInv, TypeOK,
         Locations, Finished
    <3>2. Answered' = Answered
      BY <1>1, <1>2, <3>1, NoAnswer DEF SendInv
    <3>3. QED
      BY <2>1, <3>1, <3>2 DEF CountersAgree, Answered
  <2>4. QED
    BY <2>2, <2>3
<1>11. QED
  BY <1>5, <1>6, <1>7, <1>8, <1>9, <1>10 DEF SendInv

LEMMA SendNextInv ==
  ASSUME SendInv, [Next]_vars
  PROVE  SendInv'
<1>1. CASE Construct \/ (\E n \in 0 .. MaxRetries : SetNumRetries(n))
  BY <1>1, OthersInv
<1>2. ASSUME NEW m \in Messages, SendStep(m)
      PROVE  SendInv'
  BY <1>2, PrepareInv, TransmissionInv DEF SendStep
<1>3. CASE UNCHANGED vars
  BY <1>3 DEF vars, SendInv, TypeOK, LockHeld, BufferOwn, ResultTruthful, TriesBounded,
     CountersAgree, Content
<1>4. QED
  BY <1>1, <1>2, <1>3 DEF Next

LEMMA SendInvHolds == Spec => []SendInv
  BY SendInitInv, SendNextInv, PTL DEF Spec

(* xapp_utils.cc:36-225: the counters and the limit of retries stay in     *)
(* range, and the buffer has a message of a caller or none.                *)
THEOREM SendTypeCorrect == Spec => []TypeOK
<1>1. SendInv => TypeOK
  BY DEF SendInv
<1>2. QED
  BY <1>1, SendInvHolds, PTL

(* xapp_utils.cc:191: under the mutex of the caller the shared buffer holds*)
(* the caller's own message until RMR has answered, so that what Send      *)
(* returns is true of it.                                                  *)
THEOREM ResultsTruthful == Spec => []ResultTruthful
<1>1. SendInv => ResultTruthful
  BY DEF SendInv
<1>2. QED
  BY <1>1, SendInvHolds, PTL

(* xapp_utils.cc:188: a call tries at least once before it gives up, and   *)
(* never more than one time too many, whoever changes the limit meanwhile. *)
THEOREM TriesAreBounded == Spec => []TriesBounded
<1>1. SendInv => TriesBounded
  BY DEF SendInv
<1>2. QED
  BY <1>1, SendInvHolds, PTL

(* xapp_utils.cc:192 and 206: the two counters fit the results.            *)
THEOREM CountersFit == Spec => []CountersAgree
<1>1. SendInv => CountersAgree
  BY DEF SendInv
<1>2. QED
  BY <1>1, SendInvHolds, PTL
(* The refinement.  A call that goes on, or does not move, has not returned*)
(* yet or has already; one that ends returns for its own message.          *)
LEMMA PrepareRefines ==
  ASSUME SendInv, NEW m \in Messages,
         AcquireLock(m) \/ FillTlv(m) \/ FillMeid(m) \/ OwnBuffer(m) \/ TestLength(m)
  PROVE  [Sender!Next]_(Sender!vars)
<1>1. pc[m] \in {"idle", "filling", "testing"} /\ taken' = taken
  BY DEF AcquireLock, FillTlv, FillMeid, OwnBuffer, TestLength
<1>2. PICK l \in {"filling", "testing", "transmitting", "rejected"} :
        pc' = [pc EXCEPT ![m] = l]
  BY DEF AcquireLock, FillTlv, FillMeid, OwnBuffer, TestLength, Finish, Goto
<1>3. pc \in [Messages -> Locations]
  BY DEF SendInv, TypeOK
<1>4. CASE l = "rejected"
  <2>1. Sender!Refuse(m)
    BY <1>1, <1>2, <1>3, <1>4 DEF Sender!Refuse, Sender!Returns, Finished
  <2>2. QED
    BY <2>1 DEF Sender!Next
<1>5. CASE l # "rejected"
  BY <1>1, <1>2, <1>3, <1>5 DEF Sender!vars, Finished
<1>6. QED
  BY <1>4, <1>5

LEMMA TransmissionRefines ==
  ASSUME SendInv, NEW m \in Messages,
         Transmit(m) \/ TransmitRetry(m) \/ TransmitError(m) \/ GiveUp(m)
  PROVE  [Sender!Next]_(Sender!vars)
<1>1. pc[m] = "transmitting" /\ Content(m) = m /\ pc \in [Messages -> Locations]
  BY DEF Transmit, TransmitRetry, TransmitError, GiveUp, SendInv, BufferOwn, TypeOK
<1>2. CASE Transmit(m)
  <2>1. pc' = [pc EXCEPT ![m] = "true"] /\ taken' = [taken EXCEPT ![m] = @ + 1]
    BY <1>1, <1>2 DEF Transmit, Finish, Goto
  <2>2. Sender!Take(m)
    BY <1>1, <2>1 DEF Sender!Take, Sender!Returns, Finished
  <2>3. QED
    BY <2>2 DEF Sender!Next
<1>3. CASE TransmitRetry(m)
  BY <1>3 DEF TransmitRetry, Sender!vars
<1>4. CASE TransmitError(m) \/ GiveUp(m)
  <2>1. PICK l \in {"refused", "retries_used"} : pc' = [pc EXCEPT ![m] = l]
    BY <1>4 DEF TransmitError, GiveUp, Finish, Goto
  <2>2. Sender!Refuse(m)
    BY <1>1, <1>4, <2>1 DEF TransmitError, GiveUp, Sender!Refuse, Sender!Returns, Finished
  <2>3. QED
    BY <2>2 DEF Sender!Next
<1>5. QED
  BY <1>2, <1>3, <1>4

(* xapp_utils.cc:86-225: to whoever calls it, each overload of Send is one *)
(* step that returns true and has the message taken once, or returns false *)
(* and has it never taken.                                                 *)
THEOREM SendImplementsService == Spec => ImplementsSender
<1>1. Init => Sender!Init
  BY DEF Init, Sender!Init, Finished
<1>2. SendInv /\ [Next]_vars => [Sender!Next]_(Sender!vars)
  <2> SUFFICES ASSUME SendInv, [Next]_vars PROVE [Sender!Next]_(Sender!vars)
    OBVIOUS
  <2>1. CASE Construct \/ (\E n \in 0 .. MaxRetries : SetNumRetries(n))
    BY <2>1 DEF Construct, InitRmr, Poll, Ready, NoRoutes, ConnectRedis, SetNumRetries,
       sendVars, Sender!vars
  <2>2. ASSUME NEW m \in Messages, SendStep(m) PROVE [Sender!Next]_(Sender!vars)
    BY <2>2, PrepareRefines, TransmissionRefines DEF SendStep
  <2>3. CASE UNCHANGED vars
    BY <2>3 DEF vars, Sender!vars
  <2>4. QED
    BY <2>1, <2>2, <2>3 DEF Next
<1>3. QED
  BY <1>1, <1>2, SendInvHolds, PTL DEF Spec, ImplementsSender, Sender!Spec

(* xapp_utils.cc:86-225: whichever way a call of Send ends, the mutex that *)
(* its caller holds over it is free for the next one.                      *)
THEOREM LockIsReleased == Spec => []LockReleased
<1>1. Init => LockReleased
  BY DEF Init, LockReleased
<1>2. SendInv /\ LockReleased /\ [Next]_vars => LockReleased'
  <2> SUFFICES ASSUME SendInv, LockReleased, [Next]_vars PROVE LockReleased'
    OBVIOUS
  <2> USE SendAssumption DEF LockReleased
  <2>1. pc \in [Messages -> Locations] /\ data_lock \in Messages \cup {NoMessage}
    BY DEF SendInv, TypeOK
  <2>2. CASE Construct \/ (\E n \in 0 .. MaxRetries : SetNumRetries(n)) \/ UNCHANGED vars
    BY <2>2 DEF Construct, InitRmr, Poll, Ready, NoRoutes, ConnectRedis, SetNumRetries,
       sendVars, vars
  <2>3. ASSUME NEW m \in Messages,
               AcquireLock(m) \/ FillTlv(m) \/ FillMeid(m) \/ OwnBuffer(m) \/ TestLength(m)
        PROVE  LockReleased'
    <3>1. pc[m] # "idle" => data_lock = m
      BY <2>3 DEF AcquireLock, FillTlv, FillMeid, OwnBuffer, TestLength, SendInv, LockHeld
    <3>2. QED
      BY <2>1, <2>3, <3>1 DEF AcquireLock, FillTlv, FillMeid, OwnBuffer, TestLength, Finish, Goto
  <2>4. ASSUME NEW m \in Messages,
               Transmit(m) \/ TransmitRetry(m) \/ TransmitError(m) \/ GiveUp(m)
        PROVE  LockReleased'
    BY <2>1, <2>4 DEF Transmit, TransmitRetry, TransmitError, GiveUp, Finish, Goto
  <2>5. QED
    BY <2>2, <2>3, <2>4 DEF Next, SendStep
<1>3. QED
  BY <1>1, <1>2, SendInvHolds, PTL DEF Spec
================================================================================
