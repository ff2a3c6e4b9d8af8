----------------------------- MODULE SubscriptionCodec -----------------------------
(***************************************************************************)
(* The objects that encode a subscription request, its response or failure *)
(* and an event trigger (src/src/E2AP-c/subscription/subscription_*.cc,    *)
(* src/src/E2SM/e2sm.cc), used again and again as their interface invites. *)
(*                                                                         *)
(* Each object owns blocks of item structures, which set_fields enlarges,  *)
(* fills from the caller's helper and points to from the ASN.1 lists; the  *)
(* blocks and the lists outlive the call.  The not-admitted items of a     *)
(* response and of a failure share one block.  The bytes of the encoding   *)
(* are abstracted to what the lists point to when it is made.              *)
(*                                                                         *)
(* A definition named X_Y is not part of the specification: it is X with   *)
(* a plausible mistake, and shows which property notices it.               *)
(***************************************************************************)
EXTENDS Integers, Sequences, FiniteSets

CONSTANTS
  InitialListSize,  (* INITIAL_LIST_SIZE                                   *)
  MaxListSize,      (* maxofRICactionID of the ASN.1 definitions           *)
  ItemSize,         (* bytes of an item structure                          *)
  HelperLists       (* the lists a caller may give, for each ASN.1 list    *)

Lists  == {"setup", "admitted", "not_admitted", "failed", "conditions"}
Kinds  == {"request", "response", "failure", "trigger"}
Blocks == {"setup", "admitted", "not_admitted", "conditions"}

ListsOf(kind) ==
  CASE kind = "request"  -> {"setup"}
    [] kind = "response" -> {"admitted", "not_admitted"}
    [] kind = "failure"  -> {"failed"}
    [] kind = "trigger"  -> {"conditions"}

BlockOf(l) == IF l = "failed" THEN "not_admitted" ELSE l

(* What the RIC cause of a refused action, or the value type of a          *)
(* condition, is for the switch of set_fields.  Others have "plain".       *)
Causes == {"plain", "legal", "illegal"}
ItemValues == [id : Nat, cause : Causes]

ASSUME CodecAssumption ==
  /\ InitialListSize \in Nat \ {0} /\ MaxListSize \in Nat \ {0}
  /\ ItemSize \in Nat /\ ItemSize > 2
  /\ DOMAIN HelperLists = Lists
  /\ \A l \in Lists : \A s \in HelperLists[l] :
       s \in Seq(ItemValues)

NoMessage == [kind |-> "none"]

VARIABLES
  size,     (* action_array_size, ie_admitted_list_size, ...               *)
  bytes,    (* bytes the allocator was last asked for, per block           *)
  slots,    (* items written into each block                               *)
  list,     (* slots that each ASN.1 list points to                        *)
  given,    (* the helper of the last call                                 *)
  wire,     (* what the last call encoded, NoMessage if it returned false  *)
  overrun   (* something was written behind the end of a block             *)

vars == <<size, bytes, slots, list, given, wire, overrun>>

TypeOK ==
  /\ size \in [Blocks -> Nat \ {0}] /\ bytes \in [Blocks -> Nat]
  /\ slots \in [Blocks -> Seq(ItemValues)]
  /\ list \in [Lists -> Seq(Nat)]
  /\ wire.kind \in Kinds \cup {"none"}
  /\ overrun \in BOOLEAN

(* The constructors.                                                       *)
Init ==
  /\ size = [b \in Blocks |-> InitialListSize]
  /\ bytes = [b \in Blocks |-> InitialListSize * ItemSize]
  /\ slots = [b \in Blocks |-> <<>>]
  /\ list = [l \in Lists |-> <<>>]
  /\ given = NoMessage /\ wire = NoMessage
  /\ overrun = FALSE

----------------------------------------------------------------------------
(* "do we need to reallocate ?": the request and the event trigger compare *)
(* the size with the number of items, the response already grows when they *)
(* are equal.                                                              *)
MustGrow(b, n) ==
  IF b \in {"setup", "conditions"} THEN size[b] < n ELSE n >= size[b]

BytesFor_NeverScaled(b, n) == n

(* The argument of realloc for n items: the response counts bytes, the     *)
(* request and the event trigger pass the number of items.                 *)
BytesFor(b, n) ==
  IF b \in {"setup", "conditions"} THEN n ELSE n * ItemSize

(* The items before the first with an illegal cause, where the loops of    *)
(* set_fields and get_fields return.                                       *)
BeforeIllegal(items) ==
  LET legal == {i \in DOMAIN items : \A j \in 1 .. i : items[j].cause # "illegal"}
  IN  SubSeq(items, 1, Cardinality(legal))

Complete(items) == BeforeIllegal(items) = items

(* Items overwrite a block from its start; what lies behind them stays.    *)
Overwrite(old, new) == new \o SubSeq(old, Len(new) + 1, Len(old))

Pointers_NotReset(old, items) == old \o [i \in DOMAIN items |-> i]

(* list.count = 0, then ASN_SEQUENCE_ADD for each item.                    *)
Pointers(old, items) == [i \in DOMAIN items |-> i]

(* The list that set_fields takes for a block, and what it writes of it: up*)
(* to and including the first item with an illegal cause.                  *)
Uses(kind, b)   == \E l \in ListsOf(kind) : BlockOf(l) = b
ItemsFor(msg, b) == msg.items[CHOOSE l \in ListsOf(msg.kind) : BlockOf(l) = b]
Touched(items)  == Len(BeforeIllegal(items)) + (IF Complete(items) THEN 0 ELSE 1)

(* set_fields: enlarge the blocks that are too small, then fill them.      *)
SetFields(msg) ==
  LET Grown(b) == Uses(msg.kind, b) /\ MustGrow(b, Len(ItemsFor(msg, b)))
  IN /\ size' = [b \in Blocks |->
          IF Grown(b) THEN 2 * Len(ItemsFor(msg, b)) ELSE size[b]]
     /\ bytes' = [b \in Blocks |->
          IF Grown(b) THEN BytesFor(b, 2 * Len(ItemsFor(msg, b))) ELSE bytes[b]]
     /\ slots' = [b \in Blocks |->
          IF Uses(msg.kind, b) THEN Overwrite(slots[b], BeforeIllegal(ItemsFor(msg, b)))
          ELSE slots[b]]
     /\ list' = [l \in Lists |->
          IF l \in ListsOf(msg.kind) THEN Pointers(list[l], BeforeIllegal(msg.items[l]))
          ELSE list[l]]
     /\ overrun' = \E b \in Blocks :
          Uses(msg.kind, b) /\ Touched(ItemsFor(msg, b)) * ItemSize > bytes'[b]

(* asn_check_constraints and the encoder: the lists of actions to set up   *)
(* and of admitted actions must not be empty; an event trigger without     *)
(* conditions has no list at all.                                          *)
Constraints(lists) ==
  \A l \in DOMAIN lists :
    /\ Len(lists[l]) <= MaxListSize
    /\ l \in {"setup", "admitted"} => lists[l] # <<>>

(* The lists that are added to the message after set_fields: one with an   *)
(* illegal cause is left out of a response, and fails an event trigger.    *)
Added(msg) == {l \in ListsOf(msg.kind) : Complete(msg.items[l])}

Encoding(msg) ==
  [l \in Added(msg) |-> [i \in DOMAIN list'[l] |-> slots'[BlockOf(l)][list'[l][i]]]]

(* A call of an encode method, with a buffer that is large enough or not.  *)
Encode(msg) ==
  /\ ~overrun
  /\ SetFields(msg)
  /\ given' = msg
  /\ \E fits \in BOOLEAN :
       wire' = IF /\ fits
                  /\ Constraints(Encoding(msg))
                  /\ msg.kind = "trigger" => Added(msg) = ListsOf(msg.kind)
               THEN [kind |-> msg.kind, items |-> Encoding(msg)]
               ELSE NoMessage

Messages(kind) ==
  [kind : {kind},
   items : {f \in [ListsOf(kind) -> UNION {HelperLists[l] : l \in ListsOf(kind)}] :
              \A l \in ListsOf(kind) : f[l] \in HelperLists[l]}]

EncodeRequest  == \E msg \in Messages("request")  : Encode(msg)
EncodeResponse == \E msg \in Messages("response") : Encode(msg)
EncodeFailure  == \E msg \in Messages("failure")  : Encode(msg)
EncodeTrigger  == \E msg \in Messages("trigger")  : Encode(msg)

Next == EncodeRequest \/ EncodeResponse \/ EncodeFailure \/ EncodeTrigger

Spec == Init /\ [][Next]_vars

----------------------------------------------------------------------------
(* get_fields of the message on a fresh helper: the lists it finds, each   *)
(* up to the first illegal cause.  The conditions of a trigger are not read*)
Decoded(msg) ==
  [l \in ListsOf(msg.kind) |->
     IF l \in DOMAIN msg.items THEN BeforeIllegal(msg.items[l]) ELSE <<>>]

(* What the peer decodes is what the last caller gave, whatever the object *)
(* encoded before (items of a longer message, of a failure in the block a  *)
(* response uses, of a message that failed half way).  Of a message with   *)
(* an illegal cause the list that has it is missing as a whole, and the    *)
(* other one is still complete.                                            *)
RoundTrip ==
  wire # NoMessage =>
    \A l \in ListsOf(given.kind) :
      Decoded(wire)[l] = IF Complete(given.items[l]) THEN given.items[l] ELSE <<>>

(* No item is written behind the end of the block that holds it, however   *)
(* the numbers of items vary from call to call, except in the one case in  *)
(* which realloc is given items for bytes: a request or an event trigger   *)
(* whose block was enlarged, now or by an earlier call that left it too    *)
(* short (subscription_request.cc:197, e2sm.cc:172).                       *)
MemoryRespected ==
  overrun => \E l \in ListsOf(given.kind) \cap {"setup", "conditions"} :
               size[l] > InitialListSize

(* The lists of the message just made, which are about to be encoded, only *)
(* have items that this call or an earlier one wrote, inside of the block  *)
(* as it was last allocated.                                               *)
PointersValid ==
  given # NoMessage /\ ~ overrun =>
    \A l \in ListsOf(given.kind) : \A i \in DOMAIN list[l] :
      /\ list[l][i] \in DOMAIN slots[BlockOf(l)]
      /\ list[l][i] * ItemSize <= bytes[BlockOf(l)]

(* The strengthening that makes them inductive: the size of a block counts *)
(* the items it has room for, unless realloc was asked for too little.     *)
RoomForSize ==
  \A b \in Blocks :
    \/ b \in {"setup", "conditions"} /\ size[b] > InitialListSize
    \/ bytes[b] = size[b] * ItemSize

CodecInv ==
  /\ TypeOK /\ \A b \in Blocks : size[b] >= InitialListSize
  /\ RoomForSize
  /\ RoundTrip /\ MemoryRespected /\ PointersValid
=====================================================================================
