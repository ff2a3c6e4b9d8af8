------------------------------ MODULE MessageProcessor ------------------------------
(***************************************************************************)
(* One message_processor, as each listener thread has                      *)
(* (src/src/message_processor_class.cc): the dispatch of a received        *)
(* message, the decoding of an indication in three layers, and what is     *)
(* kept in the object from one message to the next.                        *)
(*                                                                         *)
(* The object is used by one thread, so a message is one step.  Messages   *)
(* are numbered as they come; an element is known by the number of the     *)
(* indication that carried it, 0 for none (NULL).                          *)
(*                                                                         *)
(* A definition named X_Y is not part of the specification: it is X with   *)
(* a plausible mistake, and shows which property notices it.               *)
(***************************************************************************)
EXTENDS Integers, FiniteSets

CONSTANTS
  MaxMessages,   (* bound: messages received                               *)
  KpiHandlers    (* what _ref_kpi_msg_handler may be: "null", as nothing   *)
                 (* in the program assigns it, or "assigned"               *)

ASSUME ProcessorAssumption ==
  /\ MaxMessages \in Nat
  /\ KpiHandlers \subseteq {"null", "assigned"}

VARIABLES
  ref_sub_handler,     (* a subscription handler is registered             *)
  ref_kpi_msg_handler, (* _ref_kpi_msg_handler                             *)
  num_messages,        (* _num_messages                                    *)
  num_indications,     (* decoded indications                              *)
  num_err_indications, (* indications that are no E2AP PDU                 *)
  indication_data,     (* the elements last seen, and whether they decode  *)
  heap,                (* structures allocated and not freed               *)
  carried,             (* the elements that each indication carried        *)
  handled,             (* message element given to the KPI handler by each *)
  accepted,            (* indications that the KPI handler accepted        *)
  responses,           (* messages given to SubscriptionHandler::Response  *)
  process_ended        (* the process has ended abnormally                 *)

refVars     == <<ref_sub_handler, ref_kpi_msg_handler>>
kpiVars     == <<num_indications, num_err_indications, indication_data, heap,
                 carried, handled, accepted, process_ended>>
processorVars ==
  <<ref_sub_handler, ref_kpi_msg_handler, num_messages, num_indications,
    num_err_indications, indication_data, heap, carried, handled, accepted, responses,
    process_ended>>

Messages   == 1 .. MaxMessages
Elements   == {"header", "message"}
Structures == {"pdu", "header"} \X Messages

ProcessorTypeOK ==
  /\ ref_sub_handler \in BOOLEAN /\ ref_kpi_msg_handler \in KpiHandlers
  /\ num_messages \in 0 .. MaxMessages
  /\ num_indications \in Nat /\ num_err_indications \in Nat
  /\ num_indications + num_err_indications + Cardinality(responses) <= num_messages
  /\ indication_data \in [Elements -> [of : 0 .. MaxMessages, decodes : BOOLEAN]]
  /\ heap \subseteq Structures
  /\ carried \in [Messages -> SUBSET Elements]
  /\ handled \in [Messages -> 0 .. MaxMessages]
  /\ accepted \subseteq Messages /\ responses \subseteq Messages
  /\ process_ended \in BOOLEAN

(* make_unique value-initialises the object: counters and references are 0.*)
ProcessorInit ==
  /\ ref_sub_handler = FALSE
  /\ ref_kpi_msg_handler \in KpiHandlers
  /\ num_messages = 0 /\ num_indications = 0 /\ num_err_indications = 0
  /\ indication_data = [e \in Elements |-> [of |-> 0, decodes |-> FALSE]]
  /\ heap = {}
  /\ carried = [n \in Messages |-> {}]
  /\ handled = [n \in Messages |-> 0]
  /\ accepted = {} /\ responses = {}
  /\ process_ended = FALSE

----------------------------------------------------------------------------
RegisterSubscriptionHandler ==
  /\ ~ref_sub_handler /\ ref_sub_handler' = TRUE
  /\ UNCHANGED <<ref_kpi_msg_handler, num_messages, kpiVars, responses>>

(* The number of the message that arrives.                                 *)
Current == num_messages + 1

Receive ==
  /\ ~process_ended /\ num_messages < MaxMessages
  /\ num_messages' = Current

(* RIC_SUB_RESP and RIC_SUB_FAILURE.                                       *)
SubscriptionMessage ==
  /\ Receive
  /\ responses' = IF ref_sub_handler THEN responses \cup {Current} ELSE responses
  /\ UNCHANGED <<refVars, kpiVars>>

UnknownMessage ==
  /\ Receive
  /\ UNCHANGED <<refVars, kpiVars, responses>>

(* An indication that is no E2AP PDU: what was decoded of it stays.        *)
UndecodablePdu ==
  /\ Receive
  /\ num_err_indications' = num_err_indications + 1
  /\ heap' = heap \cup {<<"pdu", Current>>}
  /\ UNCHANGED <<refVars, num_indications, indication_data, carried, handled,
                 accepted, responses, process_ended>>

get_fields_FirstOnly(present, decoding) ==
  [e \in Elements |->
     IF e \in present /\ indication_data[e].of = 0
       THEN [of |-> Current, decodes |-> e \in decoding]
       ELSE indication_data[e]]

(* ric_indication::get_fields: an element the indication lacks leaves what *)
(* an earlier one had.                                                     *)
get_fields(present, decoding) ==
  [e \in Elements |->
     IF e \in present THEN [of |-> Current, decodes |-> e \in decoding]
                      ELSE indication_data[e]]

(* What decoding an element may yield: nothing of NULL, and anything of    *)
(* memory that was freed.                                                  *)
Decodings(element, structures) ==
  IF element.of = 0 THEN {FALSE}
  ELSE IF <<"pdu", element.of>> \in structures THEN {element.decodes}
  ELSE BOOLEAN

(* An E2AP PDU with these elements is decoded, into a new structure, and   *)
(* so is its header, which does decode or does not.                        *)
DecodeIndication(present, decoding, header) ==
  /\ Receive
  /\ num_indications' = num_indications + 1
  /\ carried' = [carried EXCEPT ![Current] = present]
  /\ indication_data' = get_fields(present, decoding)
  /\ header \in Decodings(indication_data'["header"], heap \cup {<<"pdu", Current>>})
  /\ UNCHANGED <<refVars, num_err_indications, responses>>

Allocated == heap \cup {<<"pdu", Current>>, <<"header", Current>>}

BadHeader ==
  \E present \in SUBSET Elements, decoding \in SUBSET Elements :
    /\ DecodeIndication(present, decoding, FALSE)
    /\ heap' = Allocated
    /\ UNCHANGED <<handled, accepted, process_ended>>

(* The KPI handler is called through a null reference.                     *)
NoKpiHandler ==
  \E present \in SUBSET Elements, decoding \in SUBSET Elements :
    /\ ref_kpi_msg_handler = "null"
    /\ DecodeIndication(present, decoding, TRUE)
    /\ heap' = Allocated
    /\ process_ended' = TRUE
    /\ UNCHANGED <<handled, accepted>>

CallKpiHandler(present, decoding, message) ==
  /\ ref_kpi_msg_handler = "assigned"
  /\ DecodeIndication(present, decoding, TRUE)
  /\ message \in Decodings(indication_data'["message"], Allocated)
  /\ handled' = [handled EXCEPT ![Current] = indication_data'["message"].of]

(* The KPI handler returns false, or throws (module KpiStore).             *)
KpiRefused ==
  \E present \in SUBSET Elements, decoding \in SUBSET Elements :
    /\ CallKpiHandler(present, decoding, FALSE)
    /\ heap' = Allocated
    /\ process_ended' \in BOOLEAN
    /\ UNCHANGED accepted

KpiAccepted_KeepingPdu ==
  \E present \in SUBSET Elements, decoding \in SUBSET Elements :
    /\ CallKpiHandler(present, decoding, TRUE)
    /\ accepted' = accepted \cup {Current}
    /\ heap' = heap \cup {<<"pdu", Current>>}
    /\ UNCHANGED process_ended

(* Both structures are freed; indication_data still points into the PDU.   *)
KpiAccepted ==
  \E present \in SUBSET Elements, decoding \in SUBSET Elements :
    /\ CallKpiHandler(present, decoding, TRUE)
    /\ accepted' = accepted \cup {Current}
    /\ UNCHANGED <<heap, process_ended>>

ProcessorNext ==
  \/ RegisterSubscriptionHandler
  \/ SubscriptionMessage \/ UnknownMessage
  \/ UndecodablePdu \/ BadHeader
  \/ NoKpiHandler \/ KpiRefused \/ KpiAccepted

ProcessorSpec == ProcessorInit /\ [][ProcessorNext]_processorVars

----------------------------------------------------------------------------
(* Properties.                                                             *)

(* The KPI handler is given the message element of the indication being    *)
(* handled, or, if that carries none, of the last one that did: the data   *)
(* kept in the object (message_processor_class.cc:50, e2ap_indication.cc:93*)
(* to 96) never go further back.                                           *)
LatestElementUsed ==
  \A n \in Messages : handled[n] # 0 =>
    /\ "message" \in carried[handled[n]]
    /\ \A k \in handled[n] + 1 .. n : "message" \notin carried[k]

(* What an accepted indication allocated is freed, and whatever stays      *)
(* allocated belongs to an indication that was refused at one of the early *)
(* returns (lines 53 to 91): the memory lost is exactly theirs.            *)
OnlyRefusedLeak ==
  /\ \A s \in heap : s[2] \notin accepted
  /\ \A n \in Messages :
       n <= num_messages /\ carried[n] # {} /\ n \notin accepted
         => {"pdu", "header"} \X {n} \subseteq heap

----------------------------------------------------------------------------
(* The strengthening that makes these inductive.  Nothing is known of a    *)
(* message that has not come; ...                                          *)
NothingAhead ==
  /\ \A n \in num_messages + 1 .. MaxMessages :
       carried[n] = {} /\ handled[n] = 0 /\ n \notin accepted
  /\ \A s \in heap : s[2] <= num_messages

(* ... and an element is kept from the last indication that carried it.    *)
LatestKept ==
  \A e \in Elements :
    /\ indication_data[e].of # 0 => e \in carried[indication_data[e].of]
    /\ \A k \in indication_data[e].of + 1 .. MaxMessages : e \notin carried[k]

ProcessorInv ==
  /\ ProcessorTypeOK /\ NothingAhead /\ LatestKept
  /\ LatestElementUsed /\ OnlyRefusedLeak

=====================================================================================
