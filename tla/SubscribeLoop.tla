------------------------------ MODULE SubscribeLoop ------------------------------
(***************************************************************************)
(* The subscription loop of main(), src/src/kpi-xapp.cc: one thread asks   *)
(* for a subscription to every gNodeB of the configured list.  Each        *)
(* request goes through the subscription handler, which appears here as    *)
(* the service it is proved to implement.                                  *)
(*                                                                         *)
(* A definition named X_Y is not part of the specification: it is X with   *)
(* a plausible mistake, and shows which property notices it.               *)
(***************************************************************************)
EXTENDS Integers, Sequences, SequencesExt

CONSTANTS
  main,            (* the thread that runs main()                          *)
  NodeList,        (* my_config.gNodeB_list as configured                  *)
  MaxAttempts,     (* MAX_SUBSCRIPTION_ATTEMPTS: 10                        *)
  MaxRequestorId,  (* the last id a request can carry: 65535               *)
  Outages          (* how many calls in a row can fail for a gNodeB;       *)
                   (* Never: it does not answer at all                     *)

Never == -1

GNodeBs == Range(NodeList)

ASSUME LoopAssumption ==
  /\ NodeList \in Seq(GNodeBs)
  /\ MaxAttempts \in Nat
  /\ MaxRequestorId \in Nat
  /\ Outages \subseteq Nat \cup {Never}

VARIABLES
  gNodeB_list,  (* the gNodeBs still to be subscribed                      *)
  it,           (* position of the iterator; Len + 1 is end()              *)
  attempt, res, (* the locals of the loop                                  *)
  at,           (* where main() is                                         *)
  calls,        (* ids drawn so far; past MaxRequestorId they are all alike*)
  outage,       (* calls that still fail, for each gNodeB                  *)
  phase, outcome, answers, (* the call in progress, see SubscriptionService*)
  asked,        (* history: <<the gNodeB of the last call of this round>>  *)
  granted       (* history: <<gNodeB, accepted>> of the removed entries    *)

serviceVars == <<phase, outcome, answers>>
listVars    == <<gNodeB_list, it, asked, granted>>
vars == <<gNodeB_list, it, attempt, res, at, calls, outage, phase, outcome,
          answers, asked, granted>>

Handler == INSTANCE SubscriptionService WITH Callers <- {main}

(*  outer   : the test of while(list.size() > 0 && RunProg)                *)
(*  inner   : the test of while(!res)                                      *)
(*  calling : in add_subscription                                          *)
(*  after   : behind the inner loop                                        *)
(*  done    : every gNodeB is reported as subscribed                       *)
Locations == {"outer", "inner", "calling", "after", "done"}

TypeOK ==
  /\ gNodeB_list \in Seq(GNodeBs)
  /\ it \in 1 .. Len(NodeList) + 1
  /\ attempt \in 0 .. MaxAttempts + 1
  /\ res \in BOOLEAN
  /\ at \in Locations
  /\ calls \in 0 .. MaxRequestorId + 1
  /\ outage \in [GNodeBs -> Nat \cup {Never}]
  /\ phase \in [{main} -> {"idle", "open", "granted", "refused"}]
  /\ outcome \in [{main} -> {"none", "subscribed", "refused"}]
  /\ answers \in [{main} -> SUBSET {"accept", "reject"}]
  /\ asked \in {<<>>} \cup {<<g>> : g \in GNodeBs}
  /\ granted \in Seq(GNodeBs \X BOOLEAN)

Init ==
  /\ gNodeB_list = NodeList
  /\ it = 1
  /\ attempt = 0
  /\ res = FALSE
  /\ at = "outer"
  /\ calls = 0
  /\ outage \in [GNodeBs -> Outages]
  /\ Handler!Init
  /\ asked = <<>>
  /\ granted = <<>>

(* RunProg stays 1: the signal handlers are installed after the loop.      *)
OuterTest_KeepingRes ==
  /\ at = "outer"
  /\ at' = IF gNodeB_list = <<>> THEN "done" ELSE "inner"
  /\ attempt' = 0
  /\ UNCHANGED <<listVars, res, calls, outage, serviceVars>>

OuterTest ==
  /\ at = "outer"
  /\ at' = IF gNodeB_list = <<>> THEN "done" ELSE "inner"
  /\ attempt' = 0
  /\ res' = FALSE
  /\ UNCHANGED <<listVars, calls, outage, serviceVars>>

InnerExit ==
  /\ at = "inner"
  /\ res
  /\ at' = "after"
  /\ UNCHANGED <<listVars, attempt, res, calls, outage, serviceVars>>

Target == gNodeB_list[it]

(* add_subscription for *it: the call draws the next request id.           *)
StartCall ==
  /\ at = "inner"
  /\ ~ res
  /\ Handler!Open(main)
  /\ calls' = IF calls <= MaxRequestorId THEN calls + 1 ELSE calls
  /\ at' = "calling"
  /\ asked' = <<Target>>
  /\ UNCHANGED <<gNodeB_list, it, granted, attempt, res, outage>>

(* A request whose id is past ricRequestorID cannot be encoded.            *)
Sent == at = "calling" /\ calls <= MaxRequestorId

(* The RAN answers and the handler records the verdict.                    *)
Answer ==
  /\ Sent
  /\ Handler!Answer(main)
  /\ UNCHANGED <<listVars, attempt, res, at, calls, outage>>

Verdict ==
  /\ Sent
  /\ \/ outage[Target] = 0 /\ Handler!Grant(main)
     \/ outage[Target] # 0 /\ Handler!Refuse(main)
  /\ UNCHANGED <<listVars, attempt, res, at, calls, outage>>

EndCall_GivingUp ==
  /\ at = "calling"
  /\ phase[main] = "granted" \/ outage[Target] # 0 \/ ~ Sent
  /\ Handler!Return(main)
  /\ res' = (outcome'[main] = "subscribed")
  /\ attempt' = attempt + 1
  /\ at' = IF attempt' > MaxAttempts THEN "done" ELSE "inner"
  /\ outage' = [outage EXCEPT ![Target] = IF ~ res' /\ @ > 0 THEN @ - 1 ELSE @]
  /\ UNCHANGED <<listVars, calls>>

(* The call returns (false after an outage, or when it could not be sent); *)
(* after too many attempts the inner loop is left.                         *)
EndCall ==
  /\ at = "calling"
  /\ phase[main] = "granted" \/ outage[Target] # 0 \/ ~ Sent
  /\ Handler!Return(main)
  /\ res' = (outcome'[main] = "subscribed")
  /\ attempt' = attempt + 1
  /\ at' = IF attempt' > MaxAttempts THEN "after" ELSE "inner"
  /\ outage' = [outage EXCEPT ![Target] = IF ~ res' /\ @ > 0 THEN @ - 1 ELSE @]
  /\ UNCHANGED <<listVars, calls>>

(* The RAN has accepted the request of this round for the current gNodeB.  *)
Accepted == asked = <<Target>> /\ "accept" \in answers[main]

After_Unwrapped ==
  /\ at = "after"
  /\ IF res
       THEN /\ gNodeB_list' = RemoveAt(gNodeB_list, it)
            /\ granted' = Append(granted, <<Target, Accepted>>)
            /\ it' = it
       ELSE it' = it + 1 /\ UNCHANGED <<gNodeB_list, granted>>
  /\ asked' = <<>>
  /\ at' = "outer"
  /\ UNCHANGED <<attempt, res, calls, outage, serviceVars>>

After_Erasing ==
  /\ at = "after"
  /\ gNodeB_list' = RemoveAt(gNodeB_list, it)
  /\ granted' = IF res THEN Append(granted, <<Target, Accepted>>)
                       ELSE granted
  /\ it' = IF it = Len(gNodeB_list') + 1 THEN 1 ELSE it
  /\ asked' = <<>>
  /\ at' = "outer"
  /\ UNCHANGED <<attempt, res, calls, outage, serviceVars>>

(* A subscribed gNodeB is erased, and the iterator moves to the one behind *)
(* it; otherwise it stays where it is.  From end() it goes to begin().     *)
After ==
  /\ at = "after"
  /\ IF res
       THEN /\ gNodeB_list' = RemoveAt(gNodeB_list, it)
            /\ granted' = Append(granted, <<Target, Accepted>>)
       ELSE UNCHANGED <<gNodeB_list, granted>>
  /\ it' = IF it = Len(gNodeB_list') + 1 THEN 1 ELSE it
  /\ asked' = <<>>
  /\ at' = "outer"
  /\ UNCHANGED <<attempt, res, calls, outage, serviceVars>>

MainStep == OuterTest \/ InnerExit \/ StartCall \/ EndCall \/ After

Next == MainStep \/ Answer \/ Verdict

Spec == Init /\ [][Next]_vars

(* main() keeps running, every call returns, and a gNodeB that is back     *)
(* from its outage accepts in time.                                        *)
Fairness ==
  /\ WF_vars(MainStep)
  /\ WF_vars(Answer /\ "accept" \in answers'[main] /\ answers' # answers)
  /\ WF_vars(Verdict)

FairSpec == Spec /\ Fairness

----------------------------------------------------------------------------
(* The iterator is dereferenced only where it denotes a gNodeB.            *)
DereferenceValid ==
  at \in {"inner", "calling"} => it \in 1 .. Len(gNodeB_list)

(* A gNodeB leaves the list only when the RAN accepted the subscription    *)
(* asked for it, never on the verdict of another call.                     *)
RemovedMeansAccepted ==
  \A i \in 1 .. Len(granted) : granted[i][2]

(* No configured gNodeB is dropped or asked again after it was subscribed: *)
(* those subscribed, followed by those still to be, are the configuration. *)
NothingLost ==
  [i \in 1 .. Len(granted) |-> granted[i][1]] \o gNodeB_list = NodeList

(* The strengthening that makes these inductive.  An entry is erased at    *)
(* the front only, so the iterator is always at begin(); ...               *)
IteratorAtFirst ==
  /\ it = 1
  /\ at \in {"inner", "calling", "after"} => gNodeB_list # <<>>

(* ... the inner loop is entered with attempts left; ...                   *)
AttemptsLeft == at \in {"inner", "calling"} => attempt <= MaxAttempts

(* ... and what the call in progress, or res, says is about the gNodeB the *)
(* iterator is at.                                                         *)
VerdictOwn ==
  /\ phase[main] # "idle" => at = "calling"
  /\ phase[main] = "granted" => "accept" \in answers[main]
  /\ at = "calling" => asked = <<Target>>
  /\ at \in {"inner", "after"} /\ res => Accepted

LoopInv ==
  /\ TypeOK /\ IteratorAtFirst /\ AttemptsLeft /\ VerdictOwn
  /\ RemovedMeansAccepted /\ NothingLost

(* The ids that are used up until the first i gNodeBs are subscribed.      *)
IdsNeeded(i) == FoldLeft(LAMBDA n, g : n + outage[g] + 1, 0, SubSeq(NodeList, 1, i))

(* "keep sending subscription request till successfull for all gnodebs ?"  *)
(* (kpi-xapp.cc:158): a gNodeB is subscribed, however long it and those    *)
(* before it in the list were down, if none of these is down for good and  *)
(* the ids suffice.  The iterator passes only those that are subscribed,   *)
(* and every attempt takes an id, so that no more can be said: what comes  *)
(* behind a gNodeB that never answers, or after the last id, need not be.  *)
SubscribedInTurn ==
  \A i \in DOMAIN NodeList :
    (\A j \in 1 .. i : outage[NodeList[j]] # Never) /\ IdsNeeded(i) <= MaxRequestorId
      => <>(Len(granted) >= i)
==================================================================================
