---------------------------- MODULE SubscriptionCodecProofs ----------------------------
(***************************************************************************)
(* Proofs about SubscriptionCodec for all lengths of lists, sizes of items *)
(* and initial blocks, and any sequence of calls.                          *)
(***************************************************************************)
EXTENDS SubscriptionCodec, FiniteSetTheorems, SequenceTheorems, TLAPS

LEMMA IntervalCounted ==
  ASSUME NEW n \in Nat
  PROVE  IsFiniteSet(1 .. n) /\ Cardinality(1 .. n) = n
<1>1. IsFiniteSet(1 .. n) /\ Cardinality(1 .. n) = IF 1 > n THEN 0 ELSE n - 1 + 1
  BY FS_Interval
<1>2. QED
  BY <1>1

(* The loops of set_fields take a prefix of a list, and write no item more *)
(* than it has.                                                            *)
LEMMA PrefixTaken ==
  ASSUME NEW items \in Seq(ItemValues)
  PROVE  /\ BeforeIllegal(items) \in Seq(ItemValues)
         /\ Touched(items) \in Nat /\ Touched(items) <= Len(items)
<1> DEFINE legal == {i \in DOMAIN items : \A j \in 1 .. i : items[j].cause # "illegal"}
           k == Cardinality(legal)
<1>1. k \in 0 .. Len(items)
  <2>1. legal \subseteq 1 .. Len(items)
    OBVIOUS
  <2>2. IsFiniteSet(1 .. Len(items)) /\ Cardinality(1 .. Len(items)) = Len(items)
    <3>1. Len(items) \in Nat
      OBVIOUS
    <3>2. QED
      BY <3>1, IntervalCounted
  <2>3. QED
    <3>1. Len(items) \in Nat
      OBVIOUS
    <3>2. IsFiniteSet(legal) /\ Cardinality(legal) <= Len(items)
      BY <2>1, <2>2, FS_Subset
    <3>3. k \in Nat
      BY <3>2, FS_CardinalityType
    <3>4. QED
      BY <3>1, <3>2, <3>3
<1>2. BeforeIllegal(items) = SubSeq(items, 1, k)
  BY DEF BeforeIllegal
<1> HIDE DEF k, legal
<1>3. \A i \in 1 .. k : items[i] \in ItemValues
  BY <1>1
<1>4. SubSeq(items, 1, k) \in Seq(ItemValues) /\ Len(SubSeq(items, 1, k)) = k
      /\ \A i \in 1 .. k : SubSeq(items, 1, k)[i] = items[i]
  BY <1>1, <1>3
<1>5. k = Len(items) => Complete(items)
  <2>1. ASSUME k = Len(items) PROVE SubSeq(items, 1, k) = items
    BY <2>1, <1>4
  <2>2. QED
    BY <1>2, <2>1 DEF Complete
<1>6. QED
  BY <1>1, <1>2, <1>4, <1>5 DEF Touched

(* Items overwrite a block from its start.                                 *)
LEMMA Overwritten ==
  ASSUME NEW old \in Seq(ItemValues), NEW new \in Seq(ItemValues)
  PROVE  /\ Overwrite(old, new) \in Seq(ItemValues)
         /\ \A i \in DOMAIN new : Overwrite(old, new)[i] = new[i]
<1>1. SubSeq(old, Len(new) + 1, Len(old)) \in Seq(ItemValues)
  <2>1. \A i \in Len(new) + 1 .. Len(old) : old[i] \in ItemValues
    OBVIOUS
  <2>2. QED
    BY <2>1, SubSeqProperties
<1>2. DOMAIN new = 1 .. Len(new)
  OBVIOUS
<1>3. QED
  BY <1>1, <1>2, ConcatProperties DEF Overwrite

(* No two lists of a message share a block.                                *)
LEMMA OwnBlock ==
  ASSUME NEW kind \in Kinds, NEW msg \in Messages(kind)
  PROVE  /\ msg.kind = kind
         /\ \A l \in ListsOf(kind) :
              /\ l \in Lists /\ msg.items[l] \in Seq(ItemValues)
              /\ BlockOf(l) \in Blocks /\ Uses(kind, BlockOf(l))
              /\ ItemsFor(msg, BlockOf(l)) = msg.items[l]
         /\ \A b \in Blocks : Uses(kind, b) => ItemsFor(msg, b) \in Seq(ItemValues)
<1>1. /\ msg.kind = kind
      /\ msg.items \in [ListsOf(kind) -> UNION {HelperLists[l] : l \in ListsOf(kind)}]
      /\ \A l \in ListsOf(kind) : msg.items[l] \in HelperLists[l]
  BY DEF Messages
<1>2. ASSUME NEW l \in ListsOf(kind)
      PROVE  /\ l \in Lists /\ BlockOf(l) \in Blocks
             /\ \A m \in ListsOf(kind) : BlockOf(m) = BlockOf(l) => m = l
  BY DEF Kinds, ListsOf, Lists, Blocks, BlockOf
<1>3. \A l \in ListsOf(kind) : msg.items[l] \in Seq(ItemValues)
  BY <1>1, <1>2, CodecAssumption
<1>4. ASSUME NEW l \in ListsOf(kind)
      PROVE  ItemsFor(msg, BlockOf(l)) = msg.items[l]
  <2>1. (CHOOSE m \in ListsOf(kind) : BlockOf(m) = BlockOf(l)) = l
    BY <1>2
  <2>2. QED
    BY <1>1, <2>1 DEF ItemsFor
<1>5. QED
  BY <1>1, <1>2, <1>3, <1>4 DEF Uses

LEMMA CodecInitInv == Init => CodecInv
<1> SUFFICES ASSUME Init PROVE CodecInv
  OBVIOUS
<1>1. size = [b \in Blocks |-> InitialListSize]
      /\ bytes = [b \in Blocks |-> InitialListSize * ItemSize]
  BY DEF Init
<1>2. InitialListSize \in Nat \ {0} /\ InitialListSize * ItemSize \in Nat
  BY CodecAssumption
<1>3. slots \in [Blocks -> Seq(ItemValues)]
  BY DEF Init
<1>4. RoundTrip /\ MemoryRespected /\ PointersValid
  BY DEF Init, RoundTrip, MemoryRespected, PointersValid
<1>5. list \in [Lists -> Seq(Nat)] /\ wire.kind = "none" /\ overrun \in BOOLEAN
  <2>1. list = [l \in Lists |-> <<>>]
    BY DEF Init
  <2>2. wire.kind = "none" /\ overrun \in BOOLEAN
    BY DEF Init, NoMessage
  <2>3. QED
    BY <2>1, <2>2
<1>6. QED
  BY <1>1, <1>2, <1>3, <1>4, <1>5 DEF CodecInv, TypeOK, RoomForSize

(* What a call makes of a block: the room it says it has is there, unless  *)
(* it was enlarged by items instead of bytes.                              *)
LEMMA BlockGrows ==
  ASSUME CodecInv, NEW kind \in Kinds, NEW msg \in Messages(kind), SetFields(msg),
         NEW b \in Blocks
  PROVE  /\ size'[b] \in Nat \ {0} /\ size'[b] >= InitialListSize /\ bytes'[b] \in Nat
         /\ \/ b \in {"setup", "conditions"} /\ size'[b] > InitialListSize
            \/ bytes'[b] = size'[b] * ItemSize
         /\ Uses(kind, b) => Len(ItemsFor(msg, b)) <= size'[b]
<1> DEFINE n == Len(ItemsFor(msg, b))
<1>1. msg.kind = kind /\ (Uses(kind, b) => n \in Nat)
  BY OwnBlock
<1>2. /\ InitialListSize \in Nat \ {0} /\ ItemSize \in Nat
      /\ size[b] \in Nat \ {0} /\ size[b] >= InitialListSize /\ bytes[b] \in Nat
      /\ \/ b \in {"setup", "conditions"} /\ size[b] > InitialListSize
         \/ bytes[b] = size[b] * ItemSize
  BY CodecAssumption DEF CodecInv, TypeOK, RoomForSize
<1>3. CASE ~ (Uses(kind, b) /\ MustGrow(b, n))
  <2>1. size'[b] = size[b] /\ bytes'[b] = bytes[b]
    BY <1>1, <1>3 DEF SetFields
  <2>2. Uses(kind, b) => n <= size[b]
    BY <1>1, <1>2, <1>3 DEF MustGrow
  <2>3. QED
    BY <1>2, <2>1, <2>2
<1>4. CASE Uses(kind, b) /\ MustGrow(b, n)
  <2>1. size'[b] = 2 * n /\ bytes'[b] = BytesFor(b, 2 * n)
    BY <1>1, <1>4 DEF SetFields
  <2>2. n \in Nat /\ n >= size[b]
    BY <1>1, <1>2, <1>4 DEF MustGrow
  <2>3. BytesFor(b, 2 * n) = IF b \in {"setup", "conditions"} THEN 2 * n ELSE 2 * n * ItemSize
    BY DEF BytesFor
  <2>4. 2 * n * ItemSize \in Nat
    BY <1>2, <2>2
  <2>5. 2 * n > InitialListSize
    BY <1>2, <2>2
  <2>6. QED
    BY <1>2, <2>1, <2>2, <2>3, <2>4, <2>5
<1>5. QED
  BY <1>3, <1>4

(* Fewer items than a block has room for fit into it.                      *)
LEMMA Fits ==
  ASSUME NEW i \in Nat, NEW n \in Nat, i <= n, NEW w \in Nat
  PROVE  i * w <= n * w
<1>1. PICK d \in Nat : n = i + d
  <2>1. n - i \in Nat /\ n = i + (n - i)
    OBVIOUS
  <2>2. QED
    BY <2>1
<1>2. (i + d) * w = i * w + d * w
  OBVIOUS
<1>3. i * w \in Nat /\ d * w \in Nat
  OBVIOUS
<1>4. QED
  BY <1>1, <1>2, <1>3

(* The first pointers of a list.                                           *)
LEMMA PointersType ==
  ASSUME NEW n \in Nat
  PROVE  [i \in 1 .. n |-> i] \in Seq(Nat)
<1>1. [i \in 1 .. n |-> i] \in [1 .. n -> Nat]
  OBVIOUS
<1>2. QED
  BY <1>1, SeqDef

LEMMA EncodeInv ==
  ASSUME CodecInv, NEW kind \in Kinds, NEW msg \in Messages(kind), Encode(msg)
  PROVE  CodecInv'
<1>1. SetFields(msg) /\ given' = msg /\ ~ overrun
  BY DEF Encode
<1>2. msg.kind = kind
  BY OwnBlock
<1>3. \A b \in Blocks :
         /\ size'[b] \in Nat \ {0} /\ size'[b] >= InitialListSize /\ bytes'[b] \in Nat
         /\ \/ b \in {"setup", "conditions"} /\ size'[b] > InitialListSize
            \/ bytes'[b] = size'[b] * ItemSize
         /\ Uses(kind, b) => Len(ItemsFor(msg, b)) <= size'[b]
  BY <1>1, BlockGrows
<1>4. /\ size' \in [Blocks -> Nat \ {0}] /\ bytes' \in [Blocks -> Nat]
      /\ RoomForSize' /\ \A b \in Blocks : size'[b] >= InitialListSize
  <2>1. DOMAIN size' = Blocks /\ DOMAIN bytes' = Blocks
    BY <1>1 DEF SetFields
  <2>2. size' = [b \in Blocks |-> size'[b]] /\ bytes' = [b \in Blocks |-> bytes'[b]]
    BY <1>1 DEF SetFields
  <2>3. QED
    BY <1>3, <2>1, <2>2 DEF RoomForSize
<1>5. slots' \in [Blocks -> Seq(ItemValues)]
  <2>1. slots' = [b \in Blocks |->
          IF Uses(kind, b) THEN Overwrite(slots[b], BeforeIllegal(ItemsFor(msg, b)))
          ELSE slots[b]]
    BY <1>1, <1>2 DEF SetFields
  <2>2. ASSUME NEW b \in Blocks, Uses(kind, b)
        PROVE  Overwrite(slots[b], BeforeIllegal(ItemsFor(msg, b))) \in Seq(ItemValues)
    <3>1. BeforeIllegal(ItemsFor(msg, b)) \in Seq(ItemValues)
      BY <2>2, OwnBlock, PrefixTaken
    <3>2. slots[b] \in Seq(ItemValues)
      BY DEF CodecInv, TypeOK
    <3>3. QED
      BY <3>1, <3>2, Overwritten
  <2>3. QED
    BY <2>1, <2>2 DEF CodecInv, TypeOK
<1>6. MemoryRespected'
  <2>1. SUFFICES ASSUME overrun'
                 PROVE  \E l \in ListsOf(kind) \cap {"setup", "conditions"} :
                          size'[l] > InitialListSize
    BY <1>1, <1>2 DEF MemoryRespected
  <2>2. PICK b \in Blocks :
          Uses(kind, b) /\ Touched(ItemsFor(msg, b)) * ItemSize > bytes'[b]
    BY <1>1, <1>2, <2>1 DEF SetFields
  <2>3. Touched(ItemsFor(msg, b)) \in Nat /\ Touched(ItemsFor(msg, b)) <= size'[b]
    <3>1. ItemsFor(msg, b) \in Seq(ItemValues)
      BY <2>2, OwnBlock
    <3>2. Len(ItemsFor(msg, b)) \in Nat /\ Len(ItemsFor(msg, b)) <= size'[b]
          /\ size'[b] \in Nat
      BY <1>3, <2>2, <3>1
    <3>3. QED
      BY <3>1, <3>2, PrefixTaken
  <2>4. Touched(ItemsFor(msg, b)) * ItemSize <= size'[b] * ItemSize
    BY <1>3, <2>3, Fits, CodecAssumption
  <2>5. bytes'[b] # size'[b] * ItemSize
    <3>1. Touched(ItemsFor(msg, b)) * ItemSize \in Nat /\ size'[b] * ItemSize \in Nat
      BY <1>3, <2>3, CodecAssumption
    <3>2. QED
      BY <2>2, <2>4, <3>1
  <2>6. b \in {"setup", "conditions"} /\ size'[b] > InitialListSize
    BY <1>3, <2>5
  <2>7. b \in ListsOf(kind)
    BY <2>2, <2>6 DEF Uses, BlockOf, ListsOf, Kinds
  <2>8. QED
    BY <2>6, <2>7
<1>7. RoundTrip'
  <2>1. SUFFICES ASSUME wire' # NoMessage, NEW l \in ListsOf(kind)
                 PROVE  Decoded(wire')[l] =
                          IF Complete(msg.items[l]) THEN msg.items[l] ELSE <<>>
    BY <1>1, <1>2 DEF RoundTrip, Decoded
  <2>2. wire' = [kind |-> kind, items |-> Encoding(msg)]
    BY <1>2, <2>1 DEF Encode
  <2>3. Decoded(wire')[l] = IF l \in Added(msg) THEN BeforeIllegal(Encoding(msg)[l]) ELSE <<>>
    <3>1. wire'.kind = kind /\ wire'.items = Encoding(msg) /\ DOMAIN Encoding(msg) = Added(msg)
      BY <2>2 DEF Encoding
    <3>2. QED
      BY <2>1, <3>1 DEF Decoded
  <2>4. l \in Added(msg) <=> Complete(msg.items[l])
    BY <1>2, <2>1 DEF Added
  <2>5. ASSUME Complete(msg.items[l])
        PROVE  Encoding(msg)[l] = msg.items[l]
    <3> DEFINE b == BlockOf(l)
               items == msg.items[l]
    <3>1. /\ l \in Lists /\ items \in Seq(ItemValues) /\ b \in Blocks
          /\ Uses(kind, b) /\ ItemsFor(msg, b) = items
      BY <2>1, OwnBlock
    <3>2. BeforeIllegal(items) = items
      BY <2>5 DEF Complete
    <3>3. list'[l] = [i \in DOMAIN items |-> i]
      BY <1>1, <1>2, <2>1, <3>1, <3>2 DEF SetFields, Pointers
    <3>4. slots'[b] = Overwrite(slots[b], items)
      BY <1>1, <1>2, <3>1, <3>2 DEF SetFields
    <3>5. \A i \in DOMAIN items : slots'[b][i] = items[i]
      BY <3>1, <3>4, Overwritten DEF CodecInv, TypeOK
    <3>6. Encoding(msg)[l] = [i \in DOMAIN list'[l] |-> slots'[b][list'[l][i]]]
      BY <2>4, <2>5 DEF Encoding
    <3>7. Encoding(msg)[l] = [i \in DOMAIN items |-> items[i]]
      BY <3>3, <3>5, <3>6
    <3>8. QED
      BY <3>1, <3>7
  <2>6. QED
    BY <2>3, <2>4, <2>5 DEF Complete
<1>8. ASSUME NEW l \in ListsOf(kind)
      PROVE  /\ BeforeIllegal(msg.items[l]) \in Seq(ItemValues)
             /\ Len(BeforeIllegal(msg.items[l])) <= Touched(msg.items[l])
             /\ Touched(msg.items[l]) \in Nat
             /\ list'[l] = [i \in 1 .. Len(BeforeIllegal(msg.items[l])) |-> i]
  <2>1. l \in Lists /\ msg.items[l] \in Seq(ItemValues)
    BY OwnBlock
  <2>2. BeforeIllegal(msg.items[l]) \in Seq(ItemValues) /\ Touched(msg.items[l]) \in Nat
    BY <2>1, PrefixTaken
  <2>3. Len(BeforeIllegal(msg.items[l])) <= Touched(msg.items[l])
    BY <2>2 DEF Touched
  <2>4. list'[l] = [i \in DOMAIN BeforeIllegal(msg.items[l]) |-> i]
    BY <1>1, <1>2, <2>1 DEF SetFields, Pointers
  <2>5. DOMAIN BeforeIllegal(msg.items[l]) = 1 .. Len(BeforeIllegal(msg.items[l]))
    BY <2>2
  <2>6. QED
    BY <2>2, <2>3, <2>4, <2>5
<1>9. list' \in [Lists -> Seq(Nat)]
  <2>1. list' = [l \in Lists |-> list'[l]]
    BY <1>1 DEF SetFields
  <2>2. ASSUME NEW l \in Lists PROVE list'[l] \in Seq(Nat)
    <3>1. CASE l \in ListsOf(kind)
      <4>1. Len(BeforeIllegal(msg.items[l])) \in Nat
        BY <1>8, <3>1
      <4>2. list'[l] = [i \in 1 .. Len(BeforeIllegal(msg.items[l])) |-> i]
        BY <1>8, <3>1
      <4>3. QED
        BY <4>1, <4>2, PointersType
    <3>2. CASE l \notin ListsOf(kind)
      BY <1>1, <1>2, <3>2 DEF SetFields, CodecInv, TypeOK
    <3>3. QED
      BY <3>1, <3>2
  <2>3. QED
    BY <2>1, <2>2
<1>10. PointersValid'
  <2>1. SUFFICES ASSUME ~ overrun', NEW l \in ListsOf(kind), NEW i \in DOMAIN list'[l]
                 PROVE  /\ list'[l][i] \in DOMAIN slots'[BlockOf(l)]
                        /\ list'[l][i] * ItemSize <= bytes'[BlockOf(l)]
    BY <1>1, <1>2 DEF PointersValid
  <2> DEFINE b == BlockOf(l)
             new == BeforeIllegal(msg.items[l])
  <2>2. /\ b \in Blocks /\ Uses(kind, b) /\ ItemsFor(msg, b) = msg.items[l]
    BY OwnBlock
  <2>3. i \in 1 .. Len(new) /\ list'[l][i] = i /\ Len(new) \in Nat
    <3>1. new \in Seq(ItemValues) /\ list'[l] = [j \in 1 .. Len(new) |-> j]
      BY <1>8
    <3>2. i \in 1 .. Len(new)
      BY <3>1
    <3>3. QED
      BY <3>1, <3>2
  <2>4. i \in DOMAIN slots'[b]
    <3>1. slots'[b] = Overwrite(slots[b], new)
      BY <1>1, <1>2, <2>2 DEF SetFields
    <3>2. SubSeq(slots[b], Len(new) + 1, Len(slots[b])) \in Seq(ItemValues)
      <4>1. slots[b] \in Seq(ItemValues)
        BY <2>2 DEF CodecInv, TypeOK
      <4>2. QED
        BY <2>3, <4>1, SubSeqProperties
    <3>3. DOMAIN slots'[b] = 1 .. Len(slots'[b]) /\ Len(slots'[b]) >= Len(new)
      <4>1. new \in Seq(ItemValues)
        BY <1>8
      <4> DEFINE rest == SubSeq(slots[b], Len(new) + 1, Len(slots[b]))
      <4>2. slots'[b] = new \o rest
        BY <3>1 DEF Overwrite
      <4>3. rest \in Seq(ItemValues) /\ Len(rest) \in Nat
        BY <3>2
      <4> HIDE DEF new, rest
      <4>4. slots'[b] \in Seq(ItemValues) /\ Len(slots'[b]) = Len(new) + Len(rest)
        BY <4>1, <4>2, <4>3, ConcatProperties
      <4>5. QED
        BY <2>3, <4>3, <4>4
    <3>4. QED
      BY <1>5, <2>2, <2>3, <3>3
  <2>5. i * ItemSize <= bytes'[b]
    <3>1. ~ (Touched(msg.items[l]) * ItemSize > bytes'[b])
      BY <1>1, <1>2, <2>1, <2>2 DEF SetFields
    <3> DEFINE written == Touched(msg.items[l])
    <3>2. written \in Nat /\ Len(new) <= written /\ ItemSize \in Nat /\ bytes'[b] \in Nat
      BY <1>3, <1>8, <2>2, CodecAssumption
    <3> HIDE DEF written, new
    <3>3. i \in Nat /\ i <= written
      BY <2>3, <3>2
    <3>4. i * ItemSize <= written * ItemSize
      BY <3>2, <3>3, Fits
    <3>5. i * ItemSize \in Nat /\ written * ItemSize \in Nat
      BY <3>2, <3>3
    <3>6. written * ItemSize <= bytes'[b]
      BY <3>1, <3>2, <3>5 DEF written
    <3>7. QED
      BY <3>2, <3>4, <3>5, <3>6
  <2>6. QED
    BY <2>3, <2>4, <2>5
<1>11. wire'.kind \in Kinds \cup {"none"} /\ overrun' \in BOOLEAN
  BY <1>1, <1>2 DEF Encode, NoMessage, SetFields
<1>12. QED
  BY <1>4, <1>5, <1>6, <1>7, <1>9, <1>10, <1>11 DEF CodecInv, TypeOK

LEMMA CodecInvHolds == Spec => []CodecInv
<1>1. ASSUME CodecInv, [Next]_vars PROVE CodecInv'
  <2>1. CASE Next
    BY <1>1, <2>1, EncodeInv DEF Next, EncodeRequest, EncodeResponse, EncodeFailure,
       EncodeTrigger, Kinds
  <2>2. CASE UNCHANGED vars
    BY <1>1, <2>2 DEF vars, CodecInv, TypeOK, RoomForSize, RoundTrip,
       MemoryRespected, PointersValid, Decoded
  <2>3. QED
    BY <1>1, <2>1, <2>2
<1>2. QED
  BY <1>1, CodecInitInv, PTL DEF Spec

(* subscription_response.cc:158-316 and the other encoders: a peer decodes *)
(* what the last caller gave, whatever was encoded before.                 *)
THEOREM EncodersRoundTrip == Spec => []RoundTrip
<1>1. CodecInv => RoundTrip
  BY DEF CodecInv
<1>2. QED
  BY <1>1, CodecInvHolds, PTL

(* subscription_response.cc:240-263: no block of a response or a failure   *)
(* is ever overrun, and no other one before it was first enlarged.         *)
THEOREM OnlyEnlargedOverrun == Spec => []MemoryRespected
<1>1. CodecInv => MemoryRespected
  BY DEF CodecInv
<1>2. QED
  BY <1>1, CodecInvHolds, PTL

(* The same lines: what an ASN.1 list has when it is encoded was written   *)
(* inside of its block, also after the block was enlarged or shrunk and    *)
(* after calls of another kind that use it.                                *)
THEOREM ListsInTheirBlocks == Spec => []PointersValid
<1>1. CodecInv => PointersValid
  BY DEF CodecInv
<1>2. QED
  BY <1>1, CodecInvHolds, PTL

(* subscription_response.cc:30-63, subscription_request.cc:191-200: sizes  *)
(* stay positive, and blocks and lists hold items of the callers only.     *)
THEOREM CodecTypeCorrect == Spec => []TypeOK
<1>1. CodecInv => TypeOK
  BY DEF CodecInv
<1>2. QED
  BY <1>1, CodecInvHolds, PTL
========================================================================================
