------------------------- MODULE SubscribeLoopProofs -------------------------
(***************************************************************************)
(* Proofs about SubscribeLoop for every list of gNodeBs, every limit of    *)
(* attempts, every number of ids and all outages.                          *)
(***************************************************************************)
EXTENDS SubscribeLoop, SequenceTheorems, TLAPS

(* Erasing the first element moves the others up by one.                   *)
LEMMA RemovingTheFirst ==
  ASSUME NEW S, NEW s \in Seq(S), s # <<>>
  PROVE  RemoveAt(s, 1) = Tail(s)
<1>1. SubSeq(s, 1, 1 - 1) = <<>>
  BY SubSeqEmpty
<1>2. SubSeq(s, 1 + 1, Len(s)) = Tail(s) /\ Tail(s) \in Seq(S)
  BY TailIsSubSeq, HeadTailProperties
<1>3. <<>> \o Tail(s) = Tail(s)
  BY <1>2, ConcatEmptySeq
<1>4. RemoveAt(s, 1) = SubSeq(s, 1, 1 - 1) \o SubSeq(s, 1 + 1, Len(s))
  BY Zenon DEF RemoveAt
<1>5. QED
  BY <1>1, <1>2, <1>3, <1>4

(* The names of the removed entries.                                       *)
Names(entries) == [i \in 1 .. Len(entries) |-> entries[i][1]]

LEMMA NamesType ==
  ASSUME NEW entries \in Seq(GNodeBs \X BOOLEAN)
  PROVE  /\ Names(entries) \in Seq(GNodeBs)
         /\ Len(Names(entries)) = Len(entries)
<1>1. Len(entries) \in Nat
  BY LenProperties
<1>2. \A i \in 1 .. Len(entries) : entries[i][1] \in GNodeBs
  <2>1. \A i \in 1 .. Len(entries) : entries[i] \in GNodeBs \X BOOLEAN
    BY ElementOfSeq
  <2>2. QED
    BY <2>1
<1>3. Names(entries) \in [1 .. Len(entries) -> GNodeBs]
  BY <1>2 DEF Names
<1>4. QED
  BY <1>1, <1>3

LEMMA NodesConcatenated ==
  ASSUME NEW a \in Seq(GNodeBs), NEW b \in Seq(GNodeBs), NEW c \in Seq(GNodeBs)
  PROVE  (a \o b) \o c = a \o (b \o c)
BY ConcatAssociative, Z3T(30)

(* What moves from the front of the list to the end of the removed entries *)
(* leaves the two together as they were.                                   *)
LEMMA MoveFirst ==
  ASSUME NEW list \in Seq(GNodeBs), list # <<>>,
         NEW entries \in Seq(GNodeBs \X BOOLEAN), NEW accepted \in BOOLEAN
  PROVE  Names(Append(entries, <<list[1], accepted>>)) \o Tail(list)
           = Names(entries) \o list
<1> DEFINE entry == <<list[1], accepted>>
           more  == Append(entries, entry)
<1>1. list[1] \in GNodeBs /\ Len(list) \in Nat \ {0} /\ Len(entries) \in Nat
  BY EmptySeq, LenProperties, ElementOfSeq
<1>2. more \in Seq(GNodeBs \X BOOLEAN) /\ Len(more) = Len(entries) + 1
      /\ \A i \in 1 .. Len(entries) + 1 :
           more[i] = IF i <= Len(entries) THEN entries[i] ELSE entry
  BY <1>1
<1>3. Names(entries) \in Seq(GNodeBs) /\ Len(Names(entries)) = Len(entries)
      /\ Names(more) \in Seq(GNodeBs) /\ Len(Names(more)) = Len(entries) + 1
  BY <1>2, NamesType
<1>4. Names(more) = Append(Names(entries), list[1])
  <2> DEFINE longer == Append(Names(entries), list[1])
  <2>1. longer \in Seq(GNodeBs) /\ Len(longer) = Len(entries) + 1
        /\ \A i \in 1 .. Len(entries) + 1 :
             longer[i] = IF i <= Len(entries) THEN Names(entries)[i] ELSE list[1]
    BY <1>1, <1>3
  <2>2. \A i \in 1 .. Len(entries) + 1 : Names(more)[i] = longer[i]
    <3> HIDE DEF longer, more
    <3> TAKE i \in 1 .. Len(entries) + 1
    <3>1. Names(more)[i] = more[i][1]
      BY <1>2 DEF Names
    <3>2. CASE i <= Len(entries)
      BY <3>1, <3>2, <1>1, <1>2, <2>1 DEF Names
    <3>3. CASE ~ (i <= Len(entries))
      BY <3>1, <3>3, <1>2, <2>1
    <3>4. QED
      BY <3>2, <3>3
  <2>3. QED
    <3> HIDE DEF longer, more
    <3>1. Names(more) = longer
      BY <1>3, <2>1, <2>2, SeqEqual
    <3>2. QED
      BY <3>1 DEF longer
<1>5. Names(more) = Names(entries) \o <<list[1]>>
  BY <1>1, <1>3, <1>4, AppendIsConcat
<1>6. list = <<list[1]>> \o Tail(list) /\ Tail(list) \in Seq(GNodeBs)
  <2>1. SubSeq(list, 1, Len(list)) = <<list[1]>> \o SubSeq(list, 1 + 1, Len(list))
    BY <1>1, SubSeqRecursiveFirst
  <2>2. QED
    BY <2>1, SubSeqFull, TailIsSubSeq, HeadTailProperties
<1>7. (Names(entries) \o <<list[1]>>) \o Tail(list)
        = Names(entries) \o (<<list[1]>> \o Tail(list))
  <2>1. <<list[1]>> \in Seq(GNodeBs)
    BY <1>1
  <2>2. QED
    BY <1>3, <1>6, <2>1, NodesConcatenated, ZenonT(30)
<1>8. QED
  BY <1>5, <1>6, <1>7, Zenon

LEMMA LoopInitInv == Init => LoopInv
<1> SUFFICES ASSUME Init PROVE LoopInv
  OBVIOUS
<1> USE LoopAssumption
<1>1. gNodeB_list = NodeList /\ it = 1 /\ attempt = 0 /\ res = FALSE /\ at = "outer"
      /\ calls = 0 /\ asked = <<>> /\ granted = <<>>
  BY DEF Init
<1>2. phase = [c \in {main} |-> "idle"] /\ outcome = [c \in {main} |-> "none"]
      /\ answers = [c \in {main} |-> {}]
  BY DEF Init, Handler!Init
<1>3. TypeOK
  <2>1. outage \in [GNodeBs -> Nat \cup {Never}]
    BY DEF Init
  <2>2. granted \in Seq(GNodeBs \X BOOLEAN) /\ it \in 1 .. Len(NodeList) + 1
    BY <1>1, EmptySeq, LenProperties
  <2>3. /\ phase \in [{main} -> {"idle", "open", "granted", "refused"}]
        /\ outcome \in [{main} -> {"none", "subscribed", "refused"}]
        /\ answers \in [{main} -> SUBSET {"accept", "reject"}]
    BY <1>2
  <2>4. attempt \in 0 .. MaxAttempts + 1 /\ calls \in 0 .. MaxRequestorId + 1
    BY <1>1
  <2>5. QED
    BY <1>1, <2>1, <2>2, <2>3, <2>4 DEF TypeOK, Locations
<1>4. NothingLost
  <2>1. Names(granted) = <<>>
    BY <1>1 DEF Names
  <2>2. <<>> \o NodeList = NodeList
    BY ConcatEmptySeq
  <2>3. QED
    BY <1>1, <2>1, <2>2 DEF NothingLost, Names
<1>5. QED
  BY <1>1, <1>2, <1>3, <1>4
     DEF LoopInv, IteratorAtFirst, AttemptsLeft, VerdictOwn, RemovedMeansAccepted

(* The steps around a call: the entries are left as they are.              *)
LEMMA TestsInv ==
  ASSUME LoopInv, OuterTest \/ InnerExit
  PROVE  LoopInv'
<1> USE LoopAssumption
<1>1. UNCHANGED <<listVars, calls, outage, serviceVars>>
  BY DEF OuterTest, InnerExit
<1>2. RemovedMeansAccepted' /\ NothingLost'
  BY <1>1 DEF LoopInv, RemovedMeansAccepted, NothingLost, listVars
<1>3. TypeOK' /\ IteratorAtFirst' /\ AttemptsLeft'
  <2>1. CASE OuterTest
    <3>1. TypeOK'
      <4>1. attempt' \in 0 .. MaxAttempts + 1 /\ res' \in BOOLEAN
        <5>1. attempt' = 0 /\ res' = FALSE
          BY <2>1 DEF OuterTest
        <5>2. attempt' \in 0 .. MaxAttempts + 1
          BY <5>1
        <5>3. res' \in BOOLEAN
          BY <5>1, Zenon
        <5>4. QED
          BY <5>2, <5>3
      <4>2. at' \in Locations
        BY <2>1 DEF OuterTest, Locations
      <4>3. QED
        BY <1>1, <4>1, <4>2 DEF LoopInv, TypeOK, listVars, serviceVars
    <3>2. IteratorAtFirst' /\ AttemptsLeft'
      BY <1>1, <2>1 DEF OuterTest, LoopInv, IteratorAtFirst, AttemptsLeft, listVars
    <3>3. QED
      BY <3>1, <3>2
  <2>2. CASE InnerExit
    BY <1>1, <2>2 DEF InnerExit, LoopInv, TypeOK, Locations, IteratorAtFirst,
       AttemptsLeft, listVars, serviceVars
  <2>3. QED
    BY <2>1, <2>2
<1>4. VerdictOwn'
  BY <1>1 DEF OuterTest, InnerExit, LoopInv, VerdictOwn, Accepted, Target, listVars,
     serviceVars
<1>5. QED
  BY <1>2, <1>3, <1>4 DEF LoopInv

(* The gNodeB the iterator is at.                                          *)
LEMMA TargetType ==
  ASSUME LoopInv, at \in {"inner", "calling", "after"}
  PROVE  Target = gNodeB_list[1] /\ Target \in GNodeBs
<1>1. gNodeB_list \in Seq(GNodeBs) /\ gNodeB_list # <<>> /\ it = 1
  BY DEF LoopInv, TypeOK, IteratorAtFirst
<1>2. Len(gNodeB_list) \in Nat \ {0}
  BY <1>1, EmptySeq
<1>3. QED
  BY <1>1, <1>2, ElementOfSeq DEF Target

LEMMA StartCallInv ==
  ASSUME LoopInv, StartCall
  PROVE  LoopInv'
<1> USE LoopAssumption
<1>1. at = "inner" /\ at' = "calling" /\ ~ res /\ asked' = <<Target>>
      /\ UNCHANGED <<gNodeB_list, it, granted, attempt, res, outage>>
  BY DEF StartCall
<1>2. phase' = [phase EXCEPT ![main] = "open"]
      /\ outcome' = [outcome EXCEPT ![main] = "none"]
      /\ answers' = [answers EXCEPT ![main] = {}]
  BY DEF StartCall, Handler!Open
<1>3. TypeOK'
  <2>1. Target \in GNodeBs
    BY <1>1, TargetType
  <2>2. calls' \in 0 .. MaxRequestorId + 1
    BY DEF StartCall, LoopInv, TypeOK
  <2>3. QED
    BY <1>1, <1>2, <2>1, <2>2 DEF LoopInv, TypeOK, Locations
<1>4. VerdictOwn'
  <2>1. phase'[main] = "open"
    BY <1>2 DEF LoopInv, TypeOK
  <2>2. QED
    BY <1>1, <2>1 DEF VerdictOwn, Target
<1>5. QED
  BY <1>1, <1>3, <1>4 DEF LoopInv, IteratorAtFirst, AttemptsLeft, RemovedMeansAccepted,
     NothingLost

(* What the RAN and the handler do during a call.                          *)
LEMMA VerdictInv ==
  ASSUME LoopInv, Answer \/ Verdict
  PROVE  LoopInv'
<1> USE LoopAssumption
<1>1. at = "calling" /\ UNCHANGED <<listVars, attempt, res, at, calls, outage>>
  BY DEF Answer, Verdict, Sent
<1>2. TypeOK' /\ (phase'[main] = "granted" => "accept" \in answers'[main])
  <2>1. CASE Answer
    <3>1. PICK kind \in {"accept", "reject"} :
            answers' = [answers EXCEPT ![main] = @ \cup {kind}]
      BY <2>1 DEF Answer, Handler!Answer
    <3>2. UNCHANGED <<phase, outcome>>
      BY <2>1 DEF Answer, Handler!Answer
    <3>3. QED
      BY <1>1, <3>1, <3>2 DEF LoopInv, TypeOK, listVars, VerdictOwn
  <2>2. CASE Verdict
    <3>1. Handler!Grant(main) \/ Handler!Refuse(main)
      BY <2>2 DEF Verdict
    <3>2. QED
      BY <1>1, <3>1 DEF Handler!Grant, Handler!Refuse, LoopInv, TypeOK, listVars
  <2>3. QED
    BY <2>1, <2>2
<1>3. VerdictOwn'
  BY <1>1, <1>2 DEF LoopInv, VerdictOwn, listVars, Target
<1>4. QED
  BY <1>1, <1>2, <1>3 DEF LoopInv, IteratorAtFirst, AttemptsLeft, RemovedMeansAccepted,
     NothingLost, listVars

LEMMA EndCallInv ==
  ASSUME LoopInv, EndCall
  PROVE  LoopInv'
<1> USE LoopAssumption
<1>1. at = "calling" /\ UNCHANGED <<listVars, calls, answers>>
  BY DEF EndCall, Handler!Return
<1>2. phase' = [phase EXCEPT ![main] = "idle"]
      /\ outcome' = [outcome EXCEPT ![main] =
                       IF phase[main] = "granted" THEN "subscribed" ELSE "refused"]
  BY DEF EndCall, Handler!Return
<1>3. attempt' = attempt + 1 /\ res' = (outcome'[main] = "subscribed")
      /\ at' = IF attempt' > MaxAttempts THEN "after" ELSE "inner"
  BY DEF EndCall
<1>4. Target \in GNodeBs
  BY <1>1, TargetType
<1>5. outage' \in [GNodeBs -> Nat \cup {Never}]
  <2>1. outage' = [outage EXCEPT ![Target] = IF ~ res' /\ @ > 0 THEN @ - 1 ELSE @]
    BY DEF EndCall
  <2>2. outage \in [GNodeBs -> Nat \cup {-1}]
    BY DEF LoopInv, TypeOK, Never
  <2>3. (IF ~ res' /\ outage[Target] > 0 THEN outage[Target] - 1 ELSE outage[Target])
          \in Nat \cup {-1}
    BY <1>4, <2>2
  <2>4. QED
    BY <1>4, <2>1, <2>2, <2>3 DEF Never
<1>6. TypeOK'
  <2>1. attempt' \in 0 .. MaxAttempts + 1
    BY <1>1, <1>3 DEF LoopInv, TypeOK, AttemptsLeft
  <2>2. QED
    BY <1>1, <1>2, <1>3, <1>5, <2>1 DEF LoopInv, TypeOK, Locations, listVars
<1>7. AttemptsLeft'
  BY <1>1, <1>3, <1>6 DEF AttemptsLeft, TypeOK
<1>8. VerdictOwn'
  <2>1. phase'[main] = "idle" /\ (res' => phase[main] = "granted")
    BY <1>2, <1>3 DEF LoopInv, TypeOK
  <2>2. QED
    BY <1>1, <1>3, <2>1 DEF LoopInv, VerdictOwn, Accepted, Target, listVars
<1>9. QED
  BY <1>1, <1>3, <1>6, <1>7, <1>8 DEF LoopInv, IteratorAtFirst, RemovedMeansAccepted,
     NothingLost, listVars

(* kpi-xapp.cc:176-187: the entry of a subscribed gNodeB moves from the    *)
(* list to those reported.                                                 *)
LEMMA AfterInv ==
  ASSUME LoopInv, After
  PROVE  LoopInv'
<1> USE LoopAssumption
<1>1. at = "after" /\ at' = "outer" /\ asked' = <<>> /\ it = 1
      /\ UNCHANGED <<attempt, res, calls, outage, serviceVars>>
  BY DEF After, LoopInv, IteratorAtFirst
<1>2. gNodeB_list \in Seq(GNodeBs) /\ gNodeB_list # <<>>
      /\ granted \in Seq(GNodeBs \X BOOLEAN)
      /\ Target = gNodeB_list[1] /\ Target \in GNodeBs
  BY <1>1, TargetType DEF LoopInv, TypeOK, IteratorAtFirst
<1>3. gNodeB_list' \in Seq(GNodeBs) /\ granted' \in Seq(GNodeBs \X BOOLEAN)
      /\ RemovedMeansAccepted' /\ NothingLost'
  <2>1. CASE res
    <3>1. Accepted
      BY <1>1, <2>1 DEF LoopInv, VerdictOwn
    <3>2. gNodeB_list' = Tail(gNodeB_list)
          /\ granted' = Append(granted, <<Target, TRUE>>)
      BY <1>1, <1>2, <2>1, <3>1, RemovingTheFirst DEF After
    <3>3. <<Target, TRUE>> \in GNodeBs \X BOOLEAN
      BY <1>2
    <3>4. gNodeB_list' \in Seq(GNodeBs) /\ granted' \in Seq(GNodeBs \X BOOLEAN)
      BY <1>2, <3>2, <3>3, HeadTailProperties, AppendProperties
    <3>5. RemovedMeansAccepted'
      <4>1. Len(granted) \in Nat /\ Len(granted') = Len(granted) + 1
            /\ (\A i \in 1 .. Len(granted) : granted'[i] = granted[i])
            /\ granted'[Len(granted) + 1] = <<Target, TRUE>>
        <5> DEFINE S == GNodeBs \X BOOLEAN
                   elt == <<Target, TRUE>>
        <5>1. granted \in Seq(S) /\ elt \in S /\ granted' = Append(granted, elt)
          BY <1>2, <3>2, <3>3
        <5> HIDE DEF S, elt
        <5>2. Len(granted) \in Nat /\ Len(granted') = Len(granted) + 1
              /\ (\A i \in 1 .. Len(granted) : granted'[i] = granted[i])
              /\ granted'[Len(granted) + 1] = elt
          BY <5>1, LenProperties, AppendProperties
        <5>3. QED
          BY <5>2 DEF elt
      <4>2. SUFFICES ASSUME NEW i \in 1 .. Len(granted')
                     PROVE  granted'[i][2]
        BY DEF RemovedMeansAccepted
      <4>3. CASE i = Len(granted) + 1
        <5>1. granted'[i] = <<Target, TRUE>>
          BY <4>1, <4>3, Zenon
        <5>2. QED
          BY <5>1
      <4>4. CASE i \in 1 .. Len(granted)
        BY <4>1, <4>4 DEF LoopInv, RemovedMeansAccepted
      <4>5. QED
        BY <4>1, <4>3, <4>4
    <3>6. NothingLost'
      <4>1. Names(granted') \o gNodeB_list' = Names(granted) \o gNodeB_list
        BY <1>2, <3>2, MoveFirst
      <4>2. QED
        BY <4>1 DEF LoopInv, NothingLost, Names
    <3>7. QED
      BY <3>4, <3>5, <3>6
  <2>2. CASE ~ res
    <3>1. UNCHANGED <<gNodeB_list, granted>>
      BY <2>2 DEF After
    <3>2. QED
      BY <1>2, <3>1 DEF LoopInv, RemovedMeansAccepted, NothingLost
  <2>3. QED
    BY <2>1, <2>2
<1>4. it' = 1
  BY <1>1 DEF After
<1>5. TypeOK'
  BY <1>1, <1>3, <1>4, LenProperties DEF LoopInv, TypeOK, Locations, serviceVars
<1>6. QED
  BY <1>1, <1>3, <1>4, <1>5
     DEF LoopInv, IteratorAtFirst, AttemptsLeft, VerdictOwn, serviceVars

LEMMA LoopNextInv ==
  ASSUME LoopInv, [Next]_vars
  PROVE  LoopInv'
<1>1. CASE MainStep
  BY <1>1, TestsInv, StartCallInv, EndCallInv, AfterInv DEF MainStep
<1>2. CASE Answer \/ Verdict
  BY <1>2, VerdictInv
<1>3. CASE UNCHANGED vars
  BY <1>3 DEF vars, LoopInv, TypeOK, IteratorAtFirst, AttemptsLeft, VerdictOwn,
     RemovedMeansAccepted, NothingLost, Accepted, Target
<1>4. QED
  BY <1>1, <1>2, <1>3 DEF Next

LEMMA LoopInvHolds == Spec => []LoopInv
  BY LoopInitInv, LoopNextInv, PTL DEF Spec

(* kpi-xapp.cc:158-187: the locals of the loop, the position of the        *)
(* iterator among them, stay in their types.                               *)
THEOREM LoopTypeCorrect == Spec => []TypeOK
<1>1. LoopInv => TypeOK
  BY DEF LoopInv
<1>2. QED
  BY <1>1, LoopInvHolds, PTL

(* kpi-xapp.cc:166: *it is an element of the list whenever it is used.     *)
THEOREM IteratorValid == Spec => []DereferenceValid
<1>1. LoopInv => DereferenceValid
  <2>1. SUFFICES ASSUME LoopInv, at \in {"inner", "calling"}
                 PROVE  it \in 1 .. Len(gNodeB_list)
    BY DEF DereferenceValid
  <2>2. it = 1 /\ gNodeB_list # <<>> /\ gNodeB_list \in Seq(GNodeBs)
    BY <2>1 DEF LoopInv, IteratorAtFirst, TypeOK
  <2>3. QED
    BY <2>2, EmptySeq
<1>2. QED
  BY <1>1, LoopInvHolds, PTL

(* kpi-xapp.cc:176-179: a gNodeB is erased on its own acceptance, never on *)
(* the res of an earlier call.                                             *)
THEOREM RemovedOnAcceptance == Spec => []RemovedMeansAccepted
<1>1. LoopInv => RemovedMeansAccepted
  BY DEF LoopInv
<1>2. QED
  BY <1>1, LoopInvHolds, PTL

(* kpi-xapp.cc:179-187: those erased and those left are the configuration. *)
THEOREM NoneLost == Spec => []NothingLost
<1>1. LoopInv => NothingLost
  BY DEF LoopInv
<1>2. QED
  BY <1>1, LoopInvHolds, PTL
==============================================================================
