-------------------------------- MODULE IndicationProofs --------------------------------
(***************************************************************************)
(* Proofs about the way of an indication through a listener: about         *)
(* MessageProcessor for any number of messages, then about KpiStore for    *)
(* all sets of threads, handlers, gNodeBs and values.  That a call uses    *)
(* its own report holds of any handlers; that it reads its own replies, of *)
(* one handler.                                                            *)
(***************************************************************************)
EXTENDS MessageProcessor, KpiStore, SequenceTheorems, FiniteSetTheorems, TLAPS

----------------------------------------------------------------------------
(* The message processor.                                                  *)
LEMMA ProcessorInitInv == ProcessorInit => ProcessorInv
<1> SUFFICES ASSUME ProcessorInit PROVE ProcessorInv
  OBVIOUS
<1>1. ProcessorTypeOK
  <2>1. Cardinality(responses) = 0
    BY FS_EmptySet DEF ProcessorInit
  <2>2. ref_sub_handler \in BOOLEAN /\ process_ended \in BOOLEAN
    BY Zenon DEF ProcessorInit
  <2>3. QED
    BY <2>1, <2>2, ProcessorAssumption DEF ProcessorInit, ProcessorTypeOK
<1>2. NothingAhead /\ LatestKept
  BY ProcessorAssumption DEF ProcessorInit, NothingAhead, LatestKept, Messages
<1>3. LatestElementUsed /\ OnlyRefusedLeak
  BY DEF ProcessorInit, LatestElementUsed, OnlyRefusedLeak
<1>4. QED
  BY <1>1, <1>2, <1>3 DEF ProcessorInv

(* The message that is received is a new one.                              *)
LEMMA CurrentIsNew ==
  ASSUME ProcessorInv, Receive
  PROVE  /\ Current \in Messages /\ num_messages' = Current
         /\ num_messages \in Nat /\ Current = num_messages + 1
         /\ carried[Current] = {} /\ handled[Current] = 0
         /\ Current \notin accepted /\ \A s \in heap : s[2] # Current
  BY ProcessorAssumption DEF ProcessorInv, ProcessorTypeOK, NothingAhead, Receive, Current, Messages

LEMMA ResponsesCounted ==
  ASSUME ProcessorTypeOK
  PROVE  /\ IsFiniteSet(responses) /\ Cardinality(responses) \in Nat
         /\ \A n \in Messages : Cardinality(responses \cup {n}) <= Cardinality(responses) + 1
         /\ num_messages \in Nat
<1>1. IsFiniteSet(Messages)
  BY FS_Interval, ProcessorAssumption DEF Messages
<1>2. IsFiniteSet(responses)
  BY <1>1, FS_Subset DEF ProcessorTypeOK
<1>3. num_messages \in Nat
  BY ProcessorAssumption DEF ProcessorTypeOK
<1>4. Cardinality(responses) \in Nat
  BY <1>2, FS_CardinalityType
<1>5. ASSUME NEW n \in Messages
      PROVE  Cardinality(responses \cup {n}) <= Cardinality(responses) + 1
  <2>1. Cardinality(responses \cup {n}) \in {Cardinality(responses), Cardinality(responses) + 1}
    BY <1>2, FS_AddElement
  <2>2. QED
    BY <1>4, <2>1
<1>6. QED
  BY <1>2, <1>3, <1>4, <1>5

(* What the four outcomes of an indication have in common.                 *)
IndicationStep(present, decoding) ==
  /\ \E header \in BOOLEAN : DecodeIndication(present, decoding, header)
  /\ \/ handled' = handled
     \/ handled' = [handled EXCEPT ![Current] = indication_data'["message"].of]
  /\ \/ heap' = Allocated /\ accepted' = accepted
     \/ heap' = heap /\ accepted' = accepted \cup {Current}
  /\ process_ended' \in BOOLEAN

LEMMA IndicationSteps ==
  ASSUME ProcessorTypeOK, BadHeader \/ NoKpiHandler \/ KpiRefused \/ KpiAccepted
  PROVE  \E present, decoding \in SUBSET Elements : IndicationStep(present, decoding)
<1>1. CASE BadHeader
  <2>1. PICK present, decoding \in SUBSET Elements :
          /\ DecodeIndication(present, decoding, FALSE)
          /\ heap' = Allocated /\ handled' = handled /\ accepted' = accepted
          /\ process_ended' = process_ended
    BY <1>1 DEF BadHeader
  <2>2. QED
    BY <2>1, Zenon DEF IndicationStep, ProcessorTypeOK
<1>2. CASE NoKpiHandler
  <2>1. PICK present, decoding \in SUBSET Elements :
          /\ DecodeIndication(present, decoding, TRUE)
          /\ heap' = Allocated /\ handled' = handled /\ accepted' = accepted
          /\ process_ended' = TRUE
    BY <1>2 DEF NoKpiHandler
  <2>2. QED
    BY <2>1, Zenon DEF IndicationStep
<1>3. CASE KpiRefused
  <2>1. PICK present, decoding \in SUBSET Elements :
          /\ CallKpiHandler(present, decoding, FALSE)
          /\ heap' = Allocated /\ accepted' = accepted /\ process_ended' \in BOOLEAN
    BY <1>3, Zenon DEF KpiRefused
  <2>2. QED
    BY <2>1, Zenon DEF IndicationStep, CallKpiHandler
<1>4. CASE KpiAccepted
  <2>1. PICK present, decoding \in SUBSET Elements :
          /\ CallKpiHandler(present, decoding, TRUE)
          /\ heap' = heap /\ accepted' = accepted \cup {Current}
          /\ process_ended' = process_ended
    BY <1>4 DEF KpiAccepted
  <2>2. QED
    BY <2>1, Zenon DEF IndicationStep, CallKpiHandler, ProcessorTypeOK
<1>5. QED
  BY <1>1, <1>2, <1>3, <1>4

LEMMA IndicationType ==
  ASSUME ProcessorInv, NEW present \in SUBSET Elements, NEW decoding \in SUBSET Elements,
         IndicationStep(present, decoding)
  PROVE  ProcessorTypeOK'
<1>1. ProcessorTypeOK /\ Receive
  BY DEF ProcessorInv, IndicationStep, DecodeIndication
<1>2. Current \in Messages /\ num_messages' = Current /\ Current = num_messages + 1
  BY <1>1, CurrentIsNew
<1>3. \A e \in Elements : (e \in decoding) \in BOOLEAN
  OBVIOUS
<1>4. indication_data' \in [Elements -> [of : 0 .. MaxMessages, decodes : BOOLEAN]]
  <2>1. \A e \in Elements :
          [of |-> Current, decodes |-> e \in decoding] \in [of : 0 .. MaxMessages, decodes : BOOLEAN]
    BY <1>2, <1>3 DEF Messages
  <2>2. \A e \in Elements : indication_data[e] \in [of : 0 .. MaxMessages, decodes : BOOLEAN]
    BY <1>1 DEF ProcessorTypeOK
  <2>3. QED
    <3>1. indication_data' = get_fields(present, decoding)
      BY DEF IndicationStep, DecodeIndication
    <3>2. QED
      BY <2>1, <2>2, <3>1 DEF get_fields
<1>5. handled' \in [Messages -> 0 .. MaxMessages]
  <2>1. indication_data'["message"].of \in 0 .. MaxMessages
    BY <1>4 DEF Elements
  <2>2. QED
    BY <1>1, <1>2, <2>1 DEF IndicationStep, ProcessorTypeOK
<1>6. carried' \in [Messages -> SUBSET Elements]
  BY <1>1, <1>2 DEF IndicationStep, DecodeIndication, ProcessorTypeOK
<1>7. heap' \subseteq Structures /\ accepted' \subseteq Messages
  <2>1. {<<"pdu", Current>>, <<"header", Current>>} \subseteq Structures
    BY <1>2 DEF Structures
  <2>2. QED
    BY <1>1, <1>2, <2>1 DEF IndicationStep, ProcessorTypeOK, Allocated
<1>8. /\ num_indications' \in Nat /\ num_err_indications' \in Nat
      /\ num_indications' + num_err_indications' + Cardinality(responses') <= num_messages'
  BY <1>1, <1>2, ResponsesCounted DEF IndicationStep, DecodeIndication, ProcessorTypeOK
<1>9. num_messages' \in 0 .. MaxMessages
  BY <1>1, <1>2, ResponsesCounted, ProcessorAssumption DEF Messages
<1>10. /\ ref_sub_handler' \in BOOLEAN /\ ref_kpi_msg_handler' \in KpiHandlers
       /\ responses' \subseteq Messages /\ process_ended' \in BOOLEAN
  BY <1>1, Zenon DEF IndicationStep, DecodeIndication, refVars, ProcessorTypeOK
<1>11. QED
  BY <1>4, <1>5, <1>6, <1>7, <1>8, <1>9, <1>10, Zenon DEF ProcessorTypeOK

LEMMA IndicationInv ==
  ASSUME ProcessorInv, NEW present \in SUBSET Elements, NEW decoding \in SUBSET Elements,
         IndicationStep(present, decoding)
  PROVE  ProcessorInv'
<1>1. /\ ProcessorTypeOK /\ NothingAhead /\ LatestKept /\ LatestElementUsed /\ OnlyRefusedLeak
      /\ Receive
  BY DEF ProcessorInv, IndicationStep, DecodeIndication
<1>2. /\ Current \in Messages /\ num_messages' = Current
      /\ num_messages \in Nat /\ Current = num_messages + 1
      /\ carried[Current] = {} /\ handled[Current] = 0
      /\ Current \notin accepted /\ \A s \in heap : s[2] # Current
  BY <1>1, CurrentIsNew
<1>3. ProcessorTypeOK'
  BY IndicationType
<1>4. /\ carried'[Current] = present
      /\ \A n \in Messages \ {Current} : carried'[n] = carried[n] /\ handled'[n] = handled[n]
  BY <1>1, <1>2 DEF IndicationStep, DecodeIndication, ProcessorTypeOK
<1>5. NothingAhead'
  <2>1. \A n \in Current + 1 .. MaxMessages :
          carried'[n] = {} /\ handled'[n] = 0 /\ n \notin accepted'
    BY <1>1, <1>2, <1>4 DEF NothingAhead, Messages, IndicationStep
  <2>2. \A s \in heap' : s[2] <= Current
    BY <1>1, <1>2 DEF NothingAhead, IndicationStep, Allocated, ProcessorTypeOK, Structures, Messages
  <2>3. QED
    BY <1>2, <2>1, <2>2 DEF NothingAhead
(* an element carried now is kept from now, any other from when it was     *)
<1>6. LatestKept'
  <2>1. SUFFICES ASSUME NEW e \in Elements
                 PROVE  /\ indication_data'[e].of # 0 => e \in carried'[indication_data'[e].of]
                        /\ \A k \in indication_data'[e].of + 1 .. MaxMessages : e \notin carried'[k]
    BY DEF LatestKept
  <2>2. CASE e \in present
    <3>1. indication_data'[e].of = Current
      BY <2>2 DEF IndicationStep, DecodeIndication, get_fields
    <3>2. QED
      BY <1>2, <1>4, <1>5, <2>2, <3>1 DEF NothingAhead
  <2>3. CASE e \notin present
    <3>1. indication_data'[e].of = indication_data[e].of /\ indication_data[e].of \in 0 .. MaxMessages
      BY <1>1, <2>3 DEF IndicationStep, DecodeIndication, get_fields, ProcessorTypeOK
    <3>2. \A k \in Messages : e \in carried[k] <=> e \in carried'[k]
      BY <1>2, <1>4, <2>3
    <3>3. QED
      BY <1>1, <3>1, <3>2 DEF LatestKept, Messages
  <2>4. QED
    BY <2>2, <2>3
<1>7. LatestElementUsed'
  <2>1. SUFFICES ASSUME NEW n \in Messages, handled'[n] # 0
                 PROVE  /\ "message" \in carried'[handled'[n]]
                        /\ \A k \in handled'[n] + 1 .. n : "message" \notin carried'[k]
    BY DEF LatestElementUsed
  <2>2. CASE n = Current
    <3>1. handled'[n] = indication_data'["message"].of
      BY <1>1, <1>2, <2>1, <2>2 DEF IndicationStep, ProcessorTypeOK
    <3>2. handled'[n] \in Nat
      BY <1>3, <2>1 DEF ProcessorTypeOK
    <3>3. QED
      <4>1. /\ "message" \in carried'[handled'[n]]
            /\ \A k \in handled'[n] + 1 .. MaxMessages : "message" \notin carried'[k]
        BY <1>6, <2>1, <3>1 DEF LatestKept, Elements
      <4>2. n <= MaxMessages /\ MaxMessages \in Nat
        BY ProcessorAssumption DEF Messages
      <4>3. QED
        <5>1. \A k \in handled'[n] + 1 .. n : k \in handled'[n] + 1 .. MaxMessages
          BY <1>2, <2>2, <3>2, <4>2
        <5>2. QED
          BY <4>1, <5>1
  <2>3. CASE n # Current
    <3>1. handled[n] # 0 /\ handled'[n] = handled[n] /\ handled[n] \in 0 .. MaxMessages
      BY <1>1, <1>4, <2>1, <2>3 DEF ProcessorTypeOK
    <3>2. n < Current
      BY <1>1, <1>2, <2>3, <3>1 DEF NothingAhead, Messages
    <3>3. "message" \in carried[handled[n]] /\ \A k \in handled[n] + 1 .. n : "message" \notin carried[k]
      BY <1>1, <3>1 DEF LatestElementUsed
    <3>4. handled[n] \in Messages /\ handled[n] # Current
      BY <1>2, <3>1, <3>3 DEF Messages
    <3>5. \A k \in handled[n] + 1 .. n : k \in Messages /\ k # Current
      BY <1>2, <2>1, <3>1, <3>2, ProcessorAssumption DEF Messages
    <3>6. QED
      BY <1>4, <3>1, <3>3, <3>4, <3>5
  <2>4. QED
    BY <2>2, <2>3
<1>8. OnlyRefusedLeak'
  <2>1. \A s \in heap' : s[2] \notin accepted'
    BY <1>1, <1>2 DEF OnlyRefusedLeak, IndicationStep, Allocated
  <2>2. ASSUME NEW n \in Messages, n <= Current, carried'[n] # {}, n \notin accepted'
        PROVE  {"pdu", "header"} \X {n} \subseteq heap'
    <3>1. CASE n = Current
      BY <2>2, <3>1 DEF IndicationStep, Allocated
    <3>2. CASE n # Current
      <4>1. {"pdu", "header"} \X {n} \subseteq heap
        BY <1>1, <1>2, <1>4, <2>2, <3>2 DEF OnlyRefusedLeak, IndicationStep, Messages
      <4>2. QED
        BY <4>1 DEF IndicationStep, Allocated
    <3>3. QED
      BY <3>1, <3>2
  <2>3. QED
    BY <1>2, <2>1, <2>2 DEF OnlyRefusedLeak
<1>9. QED
  BY <1>3, <1>5, <1>6, <1>7, <1>8 DEF ProcessorInv

(* Any other message leaves alone what the properties speak of, and at     *)
(* most leaves its PDU behind.                                             *)
LEMMA OtherMessageInv ==
  ASSUME ProcessorInv, SubscriptionMessage \/ UnknownMessage \/ UndecodablePdu
  PROVE  ProcessorInv'
<1>1. /\ ProcessorTypeOK /\ NothingAhead /\ LatestKept /\ LatestElementUsed /\ OnlyRefusedLeak
      /\ Receive
  BY DEF ProcessorInv, SubscriptionMessage, UnknownMessage, UndecodablePdu
<1>2. /\ Current \in Messages /\ num_messages' = Current
      /\ num_messages \in Nat /\ Current = num_messages + 1
      /\ carried[Current] = {} /\ Current \notin accepted
  BY <1>1, CurrentIsNew
<1>3. /\ UNCHANGED <<indication_data, carried, handled, accepted>>
      /\ heap' \in {heap, heap \cup {<<"pdu", Current>>}}
  BY DEF SubscriptionMessage, UnknownMessage, UndecodablePdu, kpiVars
<1>4. ProcessorTypeOK'
  <2>1. /\ num_indications' \in Nat /\ num_err_indications' \in Nat
        /\ num_indications' + num_err_indications' + Cardinality(responses') <= num_messages'
    <3>1. /\ num_indications' = num_indications
          /\ \/ num_err_indications' = num_err_indications
                /\ responses' \in {responses, responses \cup {Current}}
             \/ num_err_indications' = num_err_indications + 1 /\ responses' = responses
      <4>1. CASE SubscriptionMessage
        BY <4>1 DEF SubscriptionMessage, kpiVars
      <4>2. CASE UnknownMessage
        BY <4>2 DEF UnknownMessage, kpiVars
      <4>3. CASE UndecodablePdu
        BY <4>3 DEF UndecodablePdu
      <4>4. QED
        BY <4>1, <4>2, <4>3
    <3>2. Cardinality(responses \cup {Current}) \in Nat
      <4>1. IsFiniteSet(responses \cup {Current})
        BY <1>1, ResponsesCounted, FS_AddElement
      <4>2. QED
        BY <4>1, FS_CardinalityType
    <3>3. QED
      <4>1. /\ num_indications \in Nat /\ num_err_indications \in Nat
            /\ num_indications + num_err_indications + Cardinality(responses) <= num_messages
        BY <1>1 DEF ProcessorTypeOK
      <4>2. /\ Cardinality(responses') \in Nat
            /\ num_err_indications' + Cardinality(responses')
                 <= num_err_indications + Cardinality(responses) + 1
        BY <1>1, <1>2, <3>1, <3>2, <4>1, ResponsesCounted
      <4>3. num_err_indications' \in Nat
        BY <3>1, <4>1
      <4>4. QED
        BY <1>1, <1>2, <3>1, <4>1, <4>2, <4>3, ResponsesCounted
  <2>2. heap' \subseteq Structures /\ responses' \subseteq Messages
    <3>1. <<"pdu", Current>> \in Structures
      BY <1>2 DEF Structures
    <3>2. heap' \subseteq Structures
      BY <1>1, <1>3, <3>1 DEF ProcessorTypeOK
    <3>3. responses' \in {responses, responses \cup {Current}}
      BY DEF SubscriptionMessage, UnknownMessage, UndecodablePdu, kpiVars
    <3>4. QED
      BY <1>1, <1>2, <3>2, <3>3 DEF ProcessorTypeOK
  <2>3. num_messages' \in 0 .. MaxMessages
    BY <1>2 DEF Messages
  <2>4. UNCHANGED <<ref_sub_handler, ref_kpi_msg_handler, process_ended>>
    BY DEF SubscriptionMessage, UnknownMessage, UndecodablePdu, refVars, kpiVars
  <2>5. QED
    BY <1>1, <1>3, <2>1, <2>2, <2>3, <2>4, Zenon DEF ProcessorTypeOK
<1>5. NothingAhead'
  BY <1>1, <1>2, <1>3 DEF NothingAhead, ProcessorTypeOK, Structures, Messages
<1>6. LatestKept' /\ LatestElementUsed'
  BY <1>1, <1>3 DEF LatestKept, LatestElementUsed
<1>7. OnlyRefusedLeak'
  <2>1. \A s \in heap' : s[2] \notin accepted'
    BY <1>1, <1>2, <1>3 DEF OnlyRefusedLeak
  <2>2. ASSUME NEW n \in Messages, n <= Current, carried'[n] # {}, n \notin accepted'
        PROVE  {"pdu", "header"} \X {n} \subseteq heap'
    <3>1. n <= num_messages
      BY <1>2, <1>3, <2>2 DEF Messages
    <3>2. {"pdu", "header"} \X {n} \subseteq heap
      BY <1>1, <1>3, <2>2, <3>1 DEF OnlyRefusedLeak
    <3>3. QED
      BY <1>3, <3>2
  <2>3. QED
    BY <1>2, <2>1, <2>2 DEF OnlyRefusedLeak
<1>8. QED
  BY <1>4, <1>5, <1>6, <1>7 DEF ProcessorInv

LEMMA ProcessorNextInv == ProcessorInv /\ [ProcessorNext]_processorVars => ProcessorInv'
<1> SUFFICES ASSUME ProcessorInv, [ProcessorNext]_processorVars PROVE ProcessorInv'
  OBVIOUS
<1>1. CASE RegisterSubscriptionHandler \/ UNCHANGED processorVars
  <2>1. /\ UNCHANGED <<ref_kpi_msg_handler, num_messages, num_indications, num_err_indications,
                       indication_data, heap, carried, handled, accepted, responses, process_ended>>
        /\ ref_sub_handler' \in {TRUE, ref_sub_handler}
    BY <1>1 DEF RegisterSubscriptionHandler, processorVars, kpiVars
  <2>2. ProcessorTypeOK'
    BY <2>1 DEF ProcessorInv, ProcessorTypeOK
  <2>3. QED
    BY <2>1, <2>2 DEF ProcessorInv, NothingAhead, LatestKept, LatestElementUsed, OnlyRefusedLeak
<1>2. CASE SubscriptionMessage \/ UnknownMessage \/ UndecodablePdu
  BY <1>2, OtherMessageInv
<1>3. CASE BadHeader \/ NoKpiHandler \/ KpiRefused \/ KpiAccepted
  BY <1>3, IndicationSteps, IndicationInv DEF ProcessorInv
<1>4. QED
  BY <1>1, <1>2, <1>3 DEF ProcessorNext

LEMMA ProcessorInvHolds == ProcessorSpec => []ProcessorInv
BY ProcessorInitInv, ProcessorNextInv, PTL DEF ProcessorSpec

(* message_processor_class.cc:28-110: the counters stay in step with the   *)
(* messages, and what is kept from one message to the next is of a message *)
(* that was received.                                                      *)
THEOREM ProcessorTypeCorrect == ProcessorSpec => []ProcessorTypeOK
<1>1. ProcessorInv => ProcessorTypeOK
  BY DEF ProcessorInv
<1>2. QED
  BY <1>1, ProcessorInvHolds, PTL

(* message_processor_class.cc:50, for any number of messages: an           *)
(* indication that lacks a message element is handled with the last one    *)
(* received, never with an older one.                                      *)
THEOREM LatestUsed == ProcessorSpec => []LatestElementUsed
<1>1. ProcessorInv => LatestElementUsed
  BY DEF ProcessorInv
<1>2. QED
  BY <1>1, ProcessorInvHolds, PTL

(* message_processor_class.cc:53-91: the structures that stay allocated    *)
(* are those of the indications that were refused, and all of theirs.      *)
THEOREM RefusedLeak == ProcessorSpec => []OnlyRefusedLeak
<1>1. ProcessorInv => OnlyRefusedLeak
  BY DEF ProcessorInv
<1>2. QED
  BY <1>1, ProcessorInvHolds, PTL

----------------------------------------------------------------------------
(* The KPI handler and its redis connection.                               *)
LEMMA CallInitInv == Init => CallInv
<1> SUFFICES ASSUME Init PROVE CallInv
  OBVIOUS
<1> USE KpiAssumption
<1>1. kpi_data \in [Handlers -> KpiData]
  <2>1. [gnbId |-> Null, bhca |-> 0, numberOfUEs |-> 0] \in KpiData
    BY DEF KpiData
  <2>2. QED
    BY <2>1 DEF Init
<1>2. TypeOK
  <2>1. crashed \in BOOLEAN
    BY Zenon DEF Init
  <2>2. pc \in [Threads -> Locations]
    BY DEF Init, Locations
  <2>3. todo \in [Threads -> Seq(Commands)] /\ db \in [Keys -> Seq(Counts)]
        /\ connection \in Seq(Replies)
    BY DEF Init
  <2>4. calls \in 0 .. MaxCalls /\ report \in [Threads -> Reports \cup {NoReport}]
        /\ m_access \in [Handlers -> Threads \cup {NoThread}]
        /\ redis_reply \in [Handlers -> Replies \cup {NoReply}]
    BY DEF Init
  <2>5. QED
    BY <1>1, <2>1, <2>2, <2>3, <2>4 DEF TypeOK
<1>3. QED
  BY <1>2 DEF Init, CallInv, MutexHeld, NoReportYet, CommandsLeft, OwnReportUsed

(* What the steps of a call may write: of another thread nothing, and of   *)
(* its handler only what the owner of the mutex may.                       *)
Framed(t) ==
  /\ m_access[HandlerOf[t]] \in {t, NoThread}
  /\ \A u \in Threads \ {t} :
       /\ pc'[u] = pc[u] /\ report'[u] = report[u] /\ todo'[u] = todo[u]
       /\ HandlerOf[u] # HandlerOf[t] =>
            /\ m_access'[HandlerOf[u]] = m_access[HandlerOf[u]]
            /\ kpi_data'[HandlerOf[u]] = kpi_data[HandlerOf[u]]

LEMMA StepFramed ==
  ASSUME CallInv, NEW t \in Threads, ThreadStep(t)
  PROVE  Framed(t)
<1> USE KpiAssumption
<1>1. TypeOK /\ HandlerOf[t] \in Handlers /\ \A u \in Threads : HandlerOf[u] \in Handlers
  BY DEF CallInv
<1>2. pc[t] # "idle" => m_access[HandlerOf[t]] = t
  BY DEF CallInv, MutexHeld
<1>3. CASE Acquire(t)
  BY <1>1, <1>3 DEF Acquire, Goto, redisVars, Framed, TypeOK
<1>4. CASE Decode(t)
  BY <1>1, <1>2, <1>4 DEF Decode, BeginUpdate, Goto, redisVars, Framed, TypeOK
<1>5. CASE DecodeFails(t)
  BY <1>1, <1>2, <1>5 DEF DecodeFails, BeginUpdate, Goto, callVars, redisVars, Framed, TypeOK
<1>6. CASE Send(t)
  BY <1>1, <1>2, <1>6 DEF Send, Goto, callVars, Framed, TypeOK
<1>7. CASE Read(t)
  BY <1>1, <1>2, <1>7 DEF Read, Goto, callVars, Framed, TypeOK
<1>8. CASE Return(t)
  BY <1>1, <1>2, <1>8 DEF Return, Goto, redisVars, Framed, TypeOK
<1>9. QED
  BY <1>3, <1>4, <1>5, <1>6, <1>7, <1>8 DEF ThreadStep

(* So whatever is true of the calls of other threads remains true.         *)
LEMMA OthersUndisturbed ==
  ASSUME CallInv, NEW t \in Threads, Framed(t), NEW u \in Threads \ {t}
  PROVE  /\ pc'[u] # "idle" => m_access'[HandlerOf[u]] = u
         /\ pc'[u] \in {"idle", "decoding"} => report'[u] = NoReport
         /\ pc'[u] = "reading" => todo'[u] # <<>>
         /\ pc'[u] \in {"updating", "reading"} /\ report'[u] # NoReport =>
              LET data == kpi_data'[HandlerOf[u]] IN
              /\ data.gnbId = report'[u].gnbId /\ data.bhca = report'[u].bhca
              /\ report'[u].numberOfUEs \in {data.numberOfUEs, Absent}
<1>1. pc[u] # "idle" => HandlerOf[u] # HandlerOf[t]
  BY KpiAssumption DEF CallInv, MutexHeld, Framed
<1>2. QED
  BY <1>1 DEF Framed, CallInv, MutexHeld, NoReportYet, CommandsLeft, OwnReportUsed

(* The replies of Redis and the commands that follow them.                 *)
LEMMA UpdatesType == ASSUME NEW reply PROVE Updates(reply) \in Seq(Commands)
<1>1. <<>> \in Seq(Commands) /\ <<"DEL">> \in Seq(Commands)
      /\ <<"bhca", "numberOfUEs">> \in Seq(Commands)
  BY DEF Commands
<1>2. (IF reply.integer = 1 THEN <<"DEL">> ELSE <<>>) \in Seq(Commands)
  BY <1>1
<1>3. (IF reply.integer = 1 THEN <<"DEL">> ELSE <<>>) \o <<"bhca", "numberOfUEs">>
        \in Seq(Commands)
  BY <1>1, <1>2, ConcatProperties
<1>4. QED
  BY <1>1, <1>3 DEF Updates

LEMMA ExecuteType ==
  ASSUME TypeOK, NEW command \in Commands, NEW key \in Keys, NEW data \in KpiData,
         Execute(command, key, data)
  PROVE  db' \in [Keys -> Seq(Counts)]
<1>1. db \in [Keys -> Seq(Counts)]
  BY DEF TypeOK
<1>2. CASE command = "EXISTS"
  BY <1>1, <1>2 DEF Execute
<1>3. CASE command = "DEL"
  <2>1. db' = [db EXCEPT ![key] = <<>>]
    BY <1>3 DEF Execute
  <2>2. QED
    BY <1>1, <2>1
<1>4. CASE command \in {"bhca", "numberOfUEs"}
  <2>1. db' = [db EXCEPT ![key] = Append(@, data[command])]
    BY <1>4 DEF Execute
  <2>2. data[command] \in Counts
    BY <1>4 DEF KpiData
  <2>3. QED
    BY <1>1, <2>1, <2>2
<1>5. QED
  BY <1>2, <1>3, <1>4 DEF Commands

LEMMA GetFieldsType ==
  ASSUME NEW data \in KpiData, NEW r \in Reports
  PROVE  GetFields(data, r) \in KpiData
BY DEF GetFields, KpiData, Reports

LEMMA TypeKept ==
  ASSUME CallInv, NEW t \in Threads, ThreadStep(t)
  PROVE  TypeOK'
<1> USE KpiAssumption
<1>1. TypeOK /\ HandlerOf[t] \in Handlers
  BY DEF CallInv
<1>2. crashed' \in BOOLEAN
  <2>1. crashed' = crashed
    BY DEF ThreadStep
  <2>2. QED
    BY <1>1, <2>1 DEF TypeOK
<1>3. kpi_data[HandlerOf[t]] \in KpiData
  BY <1>1 DEF TypeOK
<1>4. CASE Acquire(t)
  <2>1. pc' \in [Threads -> Locations] /\ calls' \in 0 .. MaxCalls
    BY <1>1, <1>4 DEF Acquire, Goto, TypeOK, Locations
  <2>2. m_access' \in [Handlers -> Threads \cup {NoThread}]
    BY <1>1, <1>4 DEF Acquire, TypeOK
  <2>3. QED
    BY <1>1, <1>2, <1>4, <2>1, <2>2 DEF Acquire, redisVars, TypeOK
<1>5. CASE Decode(t) \/ DecodeFails(t)
  <2>1. pc' \in [Threads -> Locations]
    BY <1>1, <1>5 DEF Decode, DecodeFails, BeginUpdate, Goto, TypeOK, Locations
  <2>2. todo' \in [Threads -> Seq(Commands)]
    <3>1. todo' = [todo EXCEPT ![t] = <<"EXISTS">>]
      BY <1>5 DEF Decode, DecodeFails, BeginUpdate
    <3>2. <<"EXISTS">> \in Seq(Commands) /\ todo \in [Threads -> Seq(Commands)]
      BY <1>1 DEF TypeOK, Commands
    <3>3. QED
      BY <3>1, <3>2
  <2>3. UNCHANGED <<m_access, calls, connection, redis_reply, db>>
    BY <1>5 DEF Decode, DecodeFails, callVars, redisVars
  <2>4. report' \in [Threads -> Reports \cup {NoReport}] /\ kpi_data' \in [Handlers -> KpiData]
    <3>1. CASE Decode(t)
      BY <1>1, <1>3, <3>1, GetFieldsType DEF Decode, TypeOK
    <3>2. CASE DecodeFails(t)
      BY <1>1, <3>2 DEF DecodeFails, callVars, TypeOK
    <3>3. QED
      BY <1>5, <3>1, <3>2
  <2>5. QED
    BY <1>1, <1>2, <2>1, <2>2, <2>3, <2>4 DEF TypeOK
<1>6. CASE Send(t)
  <2>1. PICK key \in KeyOf(kpi_data[HandlerOf[t]].gnbId) :
          /\ Execute(Head(todo[t]), key, kpi_data[HandlerOf[t]])
          /\ connection' = Append(connection,
               [of |-> t, type |-> "INTEGER",
                integer |-> IF Head(todo[t]) = "EXISTS" /\ db[key] = <<>> THEN 0 ELSE 1])
    BY <1>6 DEF Send
  <2>2. Head(todo[t]) \in Commands /\ key \in Keys
    BY <1>1, <1>6 DEF Send, TypeOK, KeyOf, Keys
  <2>3. db' \in [Keys -> Seq(Counts)]
    BY <1>1, <1>3, <2>1, <2>2, ExecuteType
  <2>4. connection' \in Seq(Replies)
    <3>1. [of |-> t, type |-> "INTEGER",
           integer |-> IF Head(todo[t]) = "EXISTS" /\ db[key] = <<>> THEN 0 ELSE 1] \in Replies
      BY DEF Replies
    <3>2. QED
      BY <1>1, <2>1, <3>1 DEF TypeOK
  <2>5. pc' \in [Threads -> Locations] /\ UNCHANGED <<callVars, todo, redis_reply>>
    BY <1>1, <1>6 DEF Send, Goto, TypeOK, Locations
  <2>6. QED
    BY <1>1, <1>2, <2>3, <2>4, <2>5 DEF TypeOK, callVars
<1>7. CASE Read(t)
  <2>1. connection # <<>> /\ connection' = Tail(connection) /\ todo[t] # <<>>
    BY <1>7 DEF Read, CallInv, CommandsLeft
  <2>2. connection' \in Seq(Replies) /\ Head(connection) \in Replies
    BY <1>1, <2>1 DEF TypeOK
  <2>3. redis_reply' \in [Handlers -> Replies \cup {NoReply}]
    BY <1>1, <1>7, <2>2 DEF Read, TypeOK
  <2>4. todo' \in [Threads -> Seq(Commands)]
    <3>1. Tail(todo[t]) \in Seq(Commands)
      BY <1>1, <2>1 DEF TypeOK
    <3>2. PICK s \in Seq(Commands) : todo' = [todo EXCEPT ![t] = s]
      BY <1>7, <3>1, UpdatesType DEF Read
    <3>3. QED
      BY <1>1, <3>2 DEF TypeOK
  <2>5. pc' \in [Threads -> Locations] /\ UNCHANGED <<callVars, db>>
    BY <1>1, <1>7 DEF Read, Goto, TypeOK, Locations
  <2>6. QED
    BY <1>1, <1>2, <2>2, <2>3, <2>4, <2>5 DEF TypeOK, callVars
<1>8. CASE Return(t)
  <2>1. kpi_data' \in [Handlers -> KpiData]
    <3>1. kpi_data' = [kpi_data EXCEPT ![HandlerOf[t]] = [@ EXCEPT !.gnbId = Freed]]
      BY <1>8 DEF Return
    <3>2. [kpi_data[HandlerOf[t]] EXCEPT !.gnbId = Freed] \in KpiData
      BY <1>3 DEF KpiData
    <3>3. QED
      BY <1>1, <3>1, <3>2 DEF TypeOK
  <2>2. report' \in [Threads -> Reports \cup {NoReport}]
        /\ m_access' \in [Handlers -> Threads \cup {NoThread}]
        /\ pc' \in [Threads -> Locations]
    BY <1>1, <1>8 DEF Return, Goto, TypeOK, Locations
  <2>3. QED
    BY <1>1, <1>2, <1>8, <2>1, <2>2 DEF Return, redisVars, TypeOK
<1>9. QED
  BY <1>4, <1>5, <1>6, <1>7, <1>8 DEF ThreadStep

LEMMA CallStepInv ==
  ASSUME CallInv, NEW t \in Threads, ThreadStep(t)
  PROVE  CallInv'
<1> USE KpiAssumption
<1>1. TypeOK /\ HandlerOf[t] \in Handlers
  BY DEF CallInv
<1>2. TypeOK'
  BY TypeKept
<1>3. Framed(t)
  BY StepFramed
<1>4. pc[t] # "idle" => m_access[HandlerOf[t]] = t
  BY DEF CallInv, MutexHeld
<1>5. pc'[t] # "idle" => m_access'[HandlerOf[t]] = t
  BY <1>1, <1>4 DEF ThreadStep, Acquire, Decode, DecodeFails, BeginUpdate, Send, Read,
     Return, Goto, callVars, TypeOK
<1>6. pc'[t] \in {"idle", "decoding"} => report'[t] = NoReport
  <2>1. CASE Acquire(t)
    BY <1>1, <2>1 DEF Acquire, CallInv, NoReportYet
  <2>2. CASE Decode(t) \/ DecodeFails(t) \/ Send(t) \/ Read(t)
    BY <1>1, <2>2 DEF Decode, DecodeFails, BeginUpdate, Send, Read, Goto, TypeOK
  <2>3. CASE Return(t)
    BY <1>1, <2>3 DEF Return, TypeOK
  <2>4. QED
    BY <2>1, <2>2, <2>3 DEF ThreadStep
<1>7. pc'[t] = "reading" => todo'[t] # <<>>
  BY <1>1 DEF ThreadStep, Acquire, Decode, DecodeFails, BeginUpdate, Send, Read, Return,
     Goto, TypeOK
<1>8. pc'[t] \in {"updating", "reading"} /\ report'[t] # NoReport =>
        LET data == kpi_data'[HandlerOf[t]] IN
        /\ data.gnbId = report'[t].gnbId /\ data.bhca = report'[t].bhca
        /\ report'[t].numberOfUEs \in {data.numberOfUEs, Absent}
  <2>1. CASE Acquire(t) \/ Return(t)
    BY <1>1, <2>1 DEF Acquire, Return, Goto, TypeOK
  <2>2. CASE Decode(t)
    <3>1. PICK r \in Reports :
            /\ report' = [report EXCEPT ![t] = r]
            /\ kpi_data' = [kpi_data EXCEPT ![HandlerOf[t]] = GetFields(@, r)]
      BY <2>2 DEF Decode
    <3>2. report'[t] = r /\ kpi_data'[HandlerOf[t]] = GetFields(kpi_data[HandlerOf[t]], r)
      BY <1>1, <3>1 DEF TypeOK
    <3>3. QED
      BY <3>2 DEF GetFields
  <2>3. CASE DecodeFails(t)
    BY <1>1, <2>3 DEF DecodeFails, callVars, CallInv, NoReportYet
  <2>4. CASE Send(t) \/ Read(t)
    <3>1. pc[t] \in {"updating", "reading"} /\ UNCHANGED <<report, kpi_data>>
      BY <2>4 DEF Send, Read, callVars
    <3>2. QED
      BY <3>1 DEF CallInv, OwnReportUsed
  <2>5. QED
    BY <2>1, <2>2, <2>3, <2>4 DEF ThreadStep
<1>9. MutexHeld' /\ NoReportYet' /\ CommandsLeft'
  BY <1>3, <1>5, <1>6, <1>7, OthersUndisturbed DEF MutexHeld, NoReportYet, CommandsLeft
<1>10. OwnReportUsed'
  BY <1>3, <1>8, OthersUndisturbed DEF OwnReportUsed
<1>11. QED
  BY <1>2, <1>9, <1>10 DEF CallInv

(* A crash and a stutter leave all of it alone.                            *)
LEMMA CallRestInv ==
  ASSUME CallInv, (\E t \in Threads : Crash(t)) \/ UNCHANGED vars
  PROVE  CallInv'
<1>1. crashed' \in BOOLEAN
  BY DEF Crash, vars, CallInv, TypeOK
<1>2. UNCHANGED <<m_access, kpi_data, report, pc, todo, connection, redis_reply, db, calls>>
  BY DEF Crash, vars, callVars, redisVars
<1>3. QED
  BY <1>1, <1>2 DEF CallInv, TypeOK, MutexHeld, NoReportYet, CommandsLeft, OwnReportUsed

LEMMA CallNextInv == CallInv /\ [Next]_vars => CallInv'
BY CallStepInv, CallRestInv DEF Next

LEMMA CallInvHolds == Spec => []CallInv
BY CallInitInv, CallNextInv, PTL DEF Spec

(* KPIMessageHandler.cc:29-68, kpi_db.cc:27-67: what is read as a reply,   *)
(* what is left to be sent and what Redis holds stay in their types.       *)
THEOREM StoreTypeCorrect == Spec => []TypeOK
<1>1. CallInv => TypeOK
  BY DEF CallInv
<1>2. QED
  BY <1>1, CallInvHolds, PTL

(* KPIMessageHandler.cc:63: the fields UpdateDB sends are those of the     *)
(* report its own call has decoded, however many threads and handlers      *)
(* there are.                                                              *)
THEOREM ReportsOwn == Spec => []OwnReportUsed
<1>1. CallInv => OwnReportUsed
  BY DEF CallInv
<1>2. QED
  BY <1>1, CallInvHolds, PTL

(* With one handler all threads share its mutex, so only one is in a call. *)
LEMMA OneInCall ==
  ASSUME CallInv, OneHandlerCalled, NEW t \in Threads, NEW u \in Threads,
         pc[t] # "idle", pc[u] # "idle"
  PROVE  t = u
BY DEF CallInv, MutexHeld, OneHandlerCalled

LEMMA ReplyStepInv ==
  ASSUME ReplyInv, OneHandlerCalled, NEW t \in Threads, ThreadStep(t)
  PROVE  ReplyInv'
<1> USE KpiAssumption
<1>1. CallInv /\ TypeOK /\ HandlerOf[t] \in Handlers
  BY DEF ReplyInv, CallInv
<1>2. CallInv' /\ Framed(t)
  BY <1>1, CallStepInv, StepFramed
<1>3. \A u \in Threads \ {t} : pc[u] = "idle" /\ pc'[u] = "idle"
  <2>1. SUFFICES ASSUME NEW u \in Threads \ {t} PROVE pc[u] = "idle"
    BY <1>2 DEF Framed
  <2>2. CASE Acquire(t)
    <3>1. m_access[HandlerOf[u]] = NoThread
      BY <2>2 DEF Acquire, OneHandlerCalled
    <3>2. QED
      BY <1>1, <3>1 DEF CallInv, MutexHeld
  <2>3. CASE ~ Acquire(t)
    <3>1. pc[t] # "idle"
      BY <2>3 DEF ThreadStep, Decode, DecodeFails, Send, Read, Return
    <3>2. QED
      BY <1>1, <3>1, OneInCall
  <2>4. QED
    BY <2>2, <2>3
<1>4. pc[t] # "reading" => connection = <<>>
  BY <1>3 DEF ReplyInv, ReplyAwaited
<1>5. CASE Send(t)
  <2>1. PICK r \in Replies : r.of = t /\ connection' = Append(connection, r)
    <3>1. PICK n \in {0, 1} :
            connection' = Append(connection, [of |-> t, type |-> "INTEGER", integer |-> n])
      BY <1>5 DEF Send
    <3>2. [of |-> t, type |-> "INTEGER", integer |-> n] \in Replies
      BY DEF Replies
    <3>3. QED
      BY <3>1, <3>2
  <2>2. connection = <<>> /\ pc'[t] = "reading"
    BY <1>1, <1>4, <1>5 DEF Send, Goto, TypeOK
  <2>3. Len(connection') = 1 /\ connection'[1].of = t
    BY <2>1, <2>2
  <2>4. QED
    BY <1>2, <1>3, <2>2, <2>3 DEF ReplyInv, ReplyAwaited, RepliesOwn
<1>6. CASE Read(t)
  <2>1. Len(connection) = 1 /\ connection[1].of = t /\ connection' = Tail(connection)
    BY <1>6 DEF Read, ReplyInv, ReplyAwaited
  <2>2. connection' = <<>> /\ Head(connection).of = t
    BY <1>1, <2>1 DEF TypeOK
  <2>3. redis_reply'[HandlerOf[t]].of = t /\ pc'[t] # "reading"
    BY <1>1, <1>6, <2>2 DEF Read, Goto, TypeOK
  <2>4. QED
    BY <1>2, <1>3, <2>2, <2>3 DEF ReplyInv, ReplyAwaited, RepliesOwn
<1>7. CASE Acquire(t) \/ Decode(t) \/ DecodeFails(t) \/ Return(t)
  <2>1. pc[t] # "reading" /\ pc'[t] \notin {"reading", "returning"}
    BY <1>1, <1>7 DEF Acquire, Decode, DecodeFails, BeginUpdate, Return, Goto, TypeOK
  <2>2. connection' = <<>>
    BY <1>4, <1>7, <2>1 DEF Acquire, Decode, DecodeFails, Return, redisVars
  <2>3. QED
    BY <1>2, <1>3, <2>1, <2>2 DEF ReplyInv, ReplyAwaited, RepliesOwn
<1>8. QED
  BY <1>5, <1>6, <1>7 DEF ThreadStep

LEMMA ReplyInvHolds == OneHandlerCalled => (Spec => []ReplyInv)
<1> SUFFICES ASSUME OneHandlerCalled PROVE Spec => []ReplyInv
  OBVIOUS
<1>1. Init => ReplyInv
  BY CallInitInv DEF Init, ReplyInv, ReplyAwaited, RepliesOwn
<1>2. ASSUME ReplyInv, (\E t \in Threads : Crash(t)) \/ UNCHANGED vars
      PROVE  ReplyInv'
  <2>1. UNCHANGED <<pc, connection, redis_reply>>
    BY <1>2 DEF Crash, vars, redisVars
  <2>2. QED
    BY <1>2, <2>1, CallRestInv DEF ReplyInv, ReplyAwaited, RepliesOwn
<1>3. ReplyInv /\ [Next]_vars => ReplyInv'
  BY <1>2, ReplyStepInv DEF Next
<1>4. QED
  BY <1>1, <1>3, PTL DEF Spec

(* kpi_db.cc:20-80: a call looks at the reply to its own command, however  *)
(* many threads share the connection, as long as they call one handler.    *)
THEOREM OwnRepliesRead == OneHandlerCalled => (Spec => []RepliesOwn)
<1>1. ReplyInv => RepliesOwn
  BY DEF ReplyInv
<1>2. QED
  BY <1>1, ReplyInvHolds, PTL
(* The other half of the finding: what the code does send.                 *)
LEMMA StoredStep ==
  ASSUME CallInv, NothingStored, NEW t \in Threads, ThreadStep(t)
  PROVE  NothingStored'
<1>1. TypeOK /\ \A u \in Threads : todo[u] \in {<<>>, <<"EXISTS">>}
  BY DEF CallInv, NothingStored
<1>2. CASE Acquire(t) \/ Return(t)
  BY <1>2 DEF Acquire, Return, redisVars, NothingStored
<1>3. CASE Decode(t) \/ DecodeFails(t)
  <2>1. todo' = [todo EXCEPT ![t] = <<"EXISTS">>] /\ db' = db
    BY <1>3 DEF Decode, DecodeFails, BeginUpdate, redisVars
  <2>2. QED
    BY <1>1, <2>1 DEF NothingStored, TypeOK
<1>4. CASE Send(t)
  <2>1. todo[t] = <<"EXISTS">> /\ todo' = todo
    BY <1>1, <1>4 DEF Send
  <2>2. Head(todo[t]) = "EXISTS"
    BY <2>1
  <2>3. db' = db
    BY <1>4, <2>2 DEF Send, Execute
  <2>4. QED
    BY <2>1, <2>3 DEF NothingStored
<1>5. CASE Read(t)
  <2>1. todo[t] = <<"EXISTS">> /\ db' = db
    BY <1>1, <1>5 DEF Read, CallInv, CommandsLeft
  <2>2. connection # <<>> /\ Head(connection) \in Replies
    BY <1>1, <1>5 DEF Read, TypeOK
  <2>3. redis_reply' = [redis_reply EXCEPT ![HandlerOf[t]] = Head(connection)]
    BY <1>5 DEF Read
  <2>4. redis_reply'[HandlerOf[t]] = Head(connection)
    BY <1>1, <2>3, KpiAssumption DEF TypeOK
  <2>5. Updates(redis_reply'[HandlerOf[t]]) = <<>>
    BY <2>2, <2>4 DEF Updates, Replies
  <2>6. todo' = [todo EXCEPT ![t] = <<>>]
    <3>1. Head(todo[t]) = "EXISTS"
      BY <2>1
    <3>2. QED
      BY <1>5, <2>5, <3>1 DEF Read
  <2>7. QED
    BY <1>1, <2>1, <2>6 DEF NothingStored, TypeOK
<1>6. QED
  BY <1>2, <1>3, <1>4, <1>5 DEF ThreadStep

(* kpi_db.cc:55: however many threads, handlers and reports there are,     *)
(* UpdateDB sends EXISTS and nothing else, and Redis holds what it held.   *)
THEOREM NothingEverStored == Spec => []NothingStored
<1>1. Init => NothingStored
  BY DEF Init, NothingStored
<1>2. ASSUME NothingStored, (\E t \in Threads : Crash(t)) \/ UNCHANGED vars
      PROVE  NothingStored'
  BY <1>2 DEF Crash, vars, redisVars, NothingStored
<1>3. CallInv /\ NothingStored /\ [Next]_vars => NothingStored'
  BY <1>2, StoredStep DEF Next
<1>4. QED
  BY <1>1, <1>3, CallInvHolds, PTL DEF Spec

----------------------------------------------------------------------------
(* Nobody is stuck.  The threads that wait for a reply:                    *)
Readers == {t \in Threads : pc[t] = "reading"}

(* The number of them is in step with the replies, which takes that it is  *)
(* finite.                                                                 *)
StuckInv == IsFiniteSet(Readers) /\ NobodyStuck

LEMMA StuckStep ==
  ASSUME CallInv, StuckInv, NEW t \in Threads, ThreadStep(t)
  PROVE  StuckInv'
<1> USE KpiAssumption
<1>1. /\ HandlerOf[t] \in Handlers /\ pc \in [Threads -> Locations]
      /\ m_access \in [Handlers -> Threads \cup {NoThread}]
      /\ connection \in Seq(Replies)
  BY DEF CallInv, TypeOK
<1>2. PICK l : pc' = [pc EXCEPT ![t] = l]
  BY DEF ThreadStep, Acquire, Decode, DecodeFails, BeginUpdate, Send, Read, Return, Goto
<1>3. ASSUME NEW h \in Handlers, m_access'[h] # NoThread
      PROVE  HandlerOf[m_access'[h]] = h /\ pc'[m_access'[h]] # "idle"
  <2>1. CASE Acquire(t)
    BY <1>1, <1>3, <2>1 DEF Acquire, Goto, StuckInv, NobodyStuck
  <2>2. CASE Decode(t) \/ DecodeFails(t) \/ Send(t) \/ Read(t)
    <3>1. m_access' = m_access /\ pc'[t] # "idle"
      BY <1>1, <2>2 DEF Decode, DecodeFails, BeginUpdate, Send, Read, Goto, callVars
    <3>2. QED
      BY <1>1, <1>2, <1>3, <3>1 DEF StuckInv, NobodyStuck
  <2>3. CASE Return(t)
    <3>1. h # HandlerOf[t] /\ m_access'[h] = m_access[h]
      BY <1>1, <1>3, <2>3 DEF Return
    <3>2. m_access[h] # t
      BY <1>3, <3>1 DEF StuckInv, NobodyStuck
    <3>3. QED
      BY <1>1, <1>2, <1>3, <3>1, <3>2 DEF StuckInv, NobodyStuck
  <2>4. QED
    BY <2>1, <2>2, <2>3 DEF ThreadStep
<1>4. IsFiniteSet(Readers) /\ Len(connection) = Cardinality(Readers)
  BY DEF StuckInv, NobodyStuck, Readers
<1>5. IsFiniteSet(Readers') /\ Len(connection') = Cardinality(Readers')
  <2>1. CASE Send(t)
    <3>1. Readers' = Readers \cup {t} /\ t \notin Readers
      BY <1>1, <2>1 DEF Send, Goto, Readers
    <3>2. PICK reply : connection' = Append(connection, reply)
      BY <2>1 DEF Send
    <3>3. Len(connection') = Len(connection) + 1
      BY <1>1, <3>2
    <3>4. QED
      BY <1>4, <3>1, <3>3, FS_AddElement
  <2>2. CASE Read(t)
    <3>1. Readers' = Readers \ {t} /\ t \in Readers
      BY <1>1, <2>2 DEF Read, Goto, Readers
    <3>2. Len(connection') = Len(connection) - 1
      BY <1>1, <2>2 DEF Read
    <3>3. QED
      BY <1>4, <3>1, <3>2, FS_RemoveElement
  <2>3. CASE Acquire(t) \/ Decode(t) \/ DecodeFails(t) \/ Return(t)
    <3>1. pc[t] # "reading" /\ pc'[t] # "reading" /\ connection' = connection
      BY <1>1, <2>3 DEF Acquire, Decode, DecodeFails, BeginUpdate, Return, Goto, redisVars
    <3>2. Readers' = Readers
      BY <1>1, <1>2, <3>1 DEF Readers
    <3>3. QED
      BY <1>4, <3>1, <3>2
  <2>4. QED
    BY <2>1, <2>2, <2>3 DEF ThreadStep
<1>6. QED
  BY <1>3, <1>5 DEF StuckInv, NobodyStuck, Readers

(* KPIMessageHandler.cc:29-68, kpi_db.cc:27-67: for any number of threads  *)
(* and handlers, what a call waits for - the mutex of its handler, a reply *)
(* - is held by a call that goes on, or is there.                          *)
THEOREM NobodyStuckEver == Spec => []NobodyStuck
<1>1. Init => StuckInv
  <2> SUFFICES ASSUME Init PROVE StuckInv
    OBVIOUS
  <2>1. Readers = {} /\ Len(connection) = 0
    BY DEF Init, Readers
  <2>2. QED
    BY <2>1, FS_EmptySet, KpiAssumption DEF Init, StuckInv, NobodyStuck, Readers
<1>2. ASSUME StuckInv, (\E t \in Threads : Crash(t)) \/ UNCHANGED vars
      PROVE  StuckInv'
  <2>1. UNCHANGED <<m_access, pc, connection>>
    BY <1>2 DEF Crash, vars, callVars, redisVars
  <2>2. QED
    BY <1>2, <2>1 DEF StuckInv, NobodyStuck, Readers
<1>3. CallInv /\ StuckInv /\ [Next]_vars => StuckInv'
  BY <1>2, StuckStep DEF Next
<1>4. StuckInv => NobodyStuck
  BY DEF StuckInv
<1>5. QED
  BY <1>1, <1>3, <1>4, CallInvHolds, PTL DEF Spec
=========================================================================================
