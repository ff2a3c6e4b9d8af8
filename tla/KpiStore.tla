---------------------------------- MODULE KpiStore ----------------------------------
(***************************************************************************)
(* The handling of a CuCpResourceStatusReport: kpi_msg_handler (decode,    *)
(* get_fields, UpdateDB under its mutex), kpi_db_resp and the one Redis    *)
(* context that all listener threads are given.                            *)
(*                                                                         *)
(* A redisCommand is two steps, as other threads see it: the command is    *)
(* written to the connection, where Redis executes it, and the next reply  *)
(* on the connection is read.                                              *)
(*                                                                         *)
(* A definition named X_Y is not part of the specification: it is X with   *)
(* a plausible mistake, and shows which property notices it.               *)
(***************************************************************************)
EXTENDS Integers, Sequences, FiniteSets

CONSTANTS
  Threads,       (* threads that call the handlers                         *)
  Handlers,      (* objects of class kpi_msg_handler                       *)
  HandlerOf,     (* the handler of each thread                             *)
  GNodeBs,       (* names of gNodeBs                                       *)
  Counts,        (* values of bhca and numberOfUEs                         *)
  OtherKeys,     (* what else is sent to Redis as a key                    *)
  MaxCalls,      (* bound: reports handled                                 *)
  NoThread, NoReport, NoReply, Absent, Null, Freed

ASSUME KpiAssumption ==
  /\ HandlerOf \in [Threads -> Handlers] /\ NoThread \notin Threads
  /\ MaxCalls \in Nat /\ Counts \subseteq Nat /\ 0 \in Counts /\ Absent \notin Counts
  /\ {Null, Freed} \cap GNodeBs = {} /\ Null # Freed

(* numberOfUEs is optional.                                                *)
Reports == [gnbId : GNodeBs, bhca : Counts, numberOfUEs : Counts \cup {Absent}]
ASSUME ReportAssumption == NoReport \notin Reports

VARIABLES
  m_access,     (* who holds the mutex of each handler                     *)
  kpi_data,     (* the fields last taken from a report, in each handler    *)
  report,       (* the report decoded in the present call of each thread   *)
  pc,           (* where each thread is                                    *)
  todo,         (* commands that each thread has yet to send               *)
  connection,   (* replies on the connection, with the thread that asked   *)
  redis_reply,  (* redis_reply of each handler, the reply read last        *)
  db,           (* the lists Redis holds                                   *)
  calls,        (* calls begun                                             *)
  crashed       (* the process has ended abnormally                        *)

callVars  == <<m_access, kpi_data, report, calls>>
redisVars == <<connection, redis_reply, db>>
vars == <<m_access, kpi_data, report, pc, todo, connection, redis_reply, db, calls,
          crashed>>

Locations == {"idle", "decoding", "updating", "reading", "returning"}
Commands == {"EXISTS", "DEL", "bhca", "numberOfUEs"}
Keys     == GNodeBs \cup OtherKeys
Replies  == [of : Threads, type : {"INTEGER"}, integer : Nat]
KpiData  == [gnbId : GNodeBs \cup {Null, Freed}, bhca : Counts, numberOfUEs : Counts]

TypeOK ==
  /\ m_access \in [Handlers -> Threads \cup {NoThread}]
  /\ kpi_data \in [Handlers -> KpiData]
  /\ report \in [Threads -> Reports \cup {NoReport}]
  /\ pc \in [Threads -> Locations]
  /\ todo \in [Threads -> Seq(Commands)]
  /\ connection \in Seq(Replies)
  /\ redis_reply \in [Handlers -> Replies \cup {NoReply}]
  /\ db \in [Keys -> Seq(Counts)]
  /\ calls \in 0 .. MaxCalls /\ crashed \in BOOLEAN

Init ==
  /\ m_access = [h \in Handlers |-> NoThread]
  /\ kpi_data = [h \in Handlers |-> [gnbId |-> Null, bhca |-> 0, numberOfUEs |-> 0]]
  /\ report = [t \in Threads |-> NoReport]
  /\ pc = [t \in Threads |-> "idle"]
  /\ todo = [t \in Threads |-> <<>>]
  /\ connection = <<>>
  /\ redis_reply = [h \in Handlers |-> NoReply]
  /\ db = [k \in Keys |-> <<>>]
  /\ calls = 0
  /\ crashed = FALSE

----------------------------------------------------------------------------
Goto(t, l) == pc' = [pc EXCEPT ![t] = l]

Acquire_Shared(t) ==
  /\ pc[t] = "idle" /\ calls < MaxCalls
  /\ m_access' = [m_access EXCEPT ![HandlerOf[t]] = t]
  /\ calls' = calls + 1
  /\ Goto(t, "decoding")
  /\ UNCHANGED <<kpi_data, report, todo, redisVars>>

(* A call takes the mutex of its handler, and keeps it until it returns.   *)
Acquire(t) ==
  /\ pc[t] = "idle" /\ calls < MaxCalls
  /\ m_access[HandlerOf[t]] = NoThread
  /\ m_access' = [m_access EXCEPT ![HandlerOf[t]] = t]
  /\ calls' = calls + 1
  /\ Goto(t, "decoding")
  /\ UNCHANGED <<kpi_data, report, todo, redisVars>>

(* get_fields: an absent numberOfUEs leaves the one of an earlier report;  *)
(* gnbId points into the decoded report.                                   *)
GetFields(data, r) ==
  [gnbId |-> r.gnbId, bhca |-> r.bhca,
   numberOfUEs |-> IF r.numberOfUEs = Absent THEN data.numberOfUEs ELSE r.numberOfUEs]

(* UpdateDB begins with EXISTS.                                            *)
BeginUpdate(t) ==
  /\ Goto(t, "updating")
  /\ todo' = [todo EXCEPT ![t] = <<"EXISTS">>]

Decode(t) ==
  /\ pc[t] = "decoding"
  /\ \E r \in Reports :
       /\ report' = [report EXCEPT ![t] = r]
       /\ kpi_data' = [kpi_data EXCEPT ![HandlerOf[t]] = GetFields(@, r)]
  /\ BeginUpdate(t)
  /\ UNCHANGED <<m_access, calls, redisVars>>

(* The decoding fails, and UpdateDB is called all the same, with whatever  *)
(* kpi_data holds.                                                         *)
DecodeFails(t) ==
  /\ pc[t] = "decoding" /\ kpi_data[HandlerOf[t]].gnbId # Null
  /\ BeginUpdate(t)
  /\ UNCHANGED <<callVars, redisVars>>

(* The bytes that Redis gets for the name: the key is a std::string passed *)
(* through the ... of redisCommand, of which %s takes what the compiler    *)
(* makes of it; of a freed name they could be anything anyhow.             *)
KeyOf(name) == OtherKeys

(* Redis executes the command; all three answer with an integer.           *)
Execute(command, key, data) ==
  CASE command = "EXISTS" -> UNCHANGED db
    [] command = "DEL"    -> db' = [db EXCEPT ![key] = <<>>]
    [] OTHER              -> db' = [db EXCEPT ![key] = Append(@, data[command])]

Send(t) ==
  /\ pc[t] = "updating" /\ todo[t] # <<>>
  /\ \E key \in KeyOf(kpi_data[HandlerOf[t]].gnbId) :
       /\ Execute(Head(todo[t]), key, kpi_data[HandlerOf[t]])
       /\ connection' = Append(connection,
            [of |-> t, type |-> "INTEGER",
             integer |-> IF Head(todo[t]) = "EXISTS" /\ db[key] = <<>> THEN 0 ELSE 1])
  /\ Goto(t, "reading")
  /\ UNCHANGED <<callVars, todo, redis_reply>>

(* What follows the reply to EXISTS: an update where its type is STATUS.   *)
Updates(reply) ==
  IF reply.type = "STATUS"
    THEN (IF reply.integer = 1 THEN <<"DEL">> ELSE <<>>) \o <<"bhca", "numberOfUEs">>
    ELSE <<>>

Read(t) ==
  /\ pc[t] = "reading" /\ connection # <<>>
  /\ connection' = Tail(connection)
  /\ redis_reply' = [redis_reply EXCEPT ![HandlerOf[t]] = Head(connection)]
  /\ todo' = [todo EXCEPT ![t] = IF Head(@) = "EXISTS"
                                         THEN Updates(redis_reply'[HandlerOf[t]])
                                         ELSE Tail(@)]
  /\ Goto(t, IF todo'[t] = <<>> THEN "returning" ELSE "updating")
  /\ UNCHANGED <<callVars, db>>

Return_KeepingMutex(t) ==
  /\ pc[t] = "returning"
  /\ kpi_data' = [kpi_data EXCEPT ![HandlerOf[t]].gnbId = Freed]
  /\ report' = [report EXCEPT ![t] = NoReport]
  /\ m_access' = [m_access EXCEPT ![HandlerOf[t]] =
                                     IF report[t] = NoReport THEN t ELSE NoThread]
  /\ Goto(t, "idle")
  /\ UNCHANGED <<calls, todo, redisVars>>

(* The report is freed, with the name kpi_data points to.                  *)
Return(t) ==
  /\ pc[t] = "returning"
  /\ kpi_data' = [kpi_data EXCEPT ![HandlerOf[t]].gnbId = Freed]
  /\ report' = [report EXCEPT ![t] = NoReport]
  /\ m_access' = [m_access EXCEPT ![HandlerOf[t]] = NoThread]
  /\ Goto(t, "idle")
  /\ UNCHANGED <<calls, todo, redisVars>>

(* A std::string is made of a null name or may run past a freed one, or    *)
(* there is no reply to look at.                                           *)
Crash(t) ==
  /\ \/ pc[t] = "decoding" /\ kpi_data[HandlerOf[t]].gnbId \in {Null, Freed}
     \/ pc[t] = "reading" /\ Head(todo[t]) = "EXISTS"
  /\ crashed' = TRUE
  /\ UNCHANGED <<callVars, pc, todo, redisVars>>

ThreadStep(t) ==
  /\ UNCHANGED crashed
  /\ \/ Acquire(t) \/ Decode(t) \/ DecodeFails(t)
     \/ Send(t) \/ Read(t) \/ Return(t)

Next == ~crashed /\ \E t \in Threads : ThreadStep(t) \/ Crash(t)

Spec == Init /\ [][Next]_vars

(* Threads run, and Redis answers; a mutex that is free again and again is *)
(* obtained in the end, as the calls are finitely many.                    *)
FairSpec == Spec /\ \A t \in Threads : WF_vars(~crashed /\ ThreadStep(t))

----------------------------------------------------------------------------
(* Properties.                                                             *)

(* A call looks at the reply to its own command, although all threads      *)
(* share one connection, on which replies come in the order of the         *)
(* commands, and a handler keeps its last reply in a member (README.md:57  *)
(* "Hence these are expected to be thread safe").  The mutex that sees to  *)
(* it is the one of the handler: two handlers on the connection break it.  *)
RepliesOwn ==
  \A t \in Threads : pc[t] = "returning" => redis_reply[HandlerOf[t]].of = t

(* While a thread is in UpdateDB, the helper that was given to it          *)
(* (KPIMessageHandler.cc:63) has the fields of the report the thread has   *)
(* decoded itself: no other call changes them before it returns.           *)
OwnReportUsed ==
  \A t \in Threads : pc[t] \in {"updating", "reading"} /\ report[t] # NoReport =>
    LET data == kpi_data[HandlerOf[t]] IN
    /\ data.gnbId = report[t].gnbId /\ data.bhca = report[t].bhca
    /\ report[t].numberOfUEs \in {data.numberOfUEs, Absent}

(* The strengthening that makes these inductive: a call in progress holds  *)
(* the mutex of its handler, so that nobody else writes what it reads; ... *)
MutexHeld ==
  \A t \in Threads : pc[t] # "idle" => m_access[HandlerOf[t]] = t

(* ... and a thread has no report before it decodes one.                   *)
NoReportYet ==
  \A t \in Threads : pc[t] \in {"idle", "decoding"} => report[t] = NoReport

CommandsLeft == \A t \in Threads : pc[t] = "reading" => todo[t] # <<>>

CallInv == TypeOK /\ MutexHeld /\ NoReportYet /\ CommandsLeft /\ OwnReportUsed

(* Where all threads call one handler there is at most one reply on the    *)
(* connection, for the thread that reads.                                  *)
OneHandlerCalled == \A t, u \in Threads : HandlerOf[t] = HandlerOf[u]

ReplyAwaited ==
  /\ \A t \in Threads : pc[t] = "reading" =>
       Len(connection) = 1 /\ connection[1].of = t
  /\ (\A t \in Threads : pc[t] # "reading") => connection = <<>>

ReplyInv == CallInv /\ ReplyAwaited /\ RepliesOwn

(* Calls never wait on one another, or for a reply, for ever: all reports  *)
(* are handled and all calls return, unless the process ends.              *)
AllHandled ==
  <>[](crashed \/ (calls = MaxCalls /\ \A t \in Threads : pc[t] = "idle"))

(* Why they do not, with any number of handlers: a mutex that is held is   *)
(* held by a thread in a call of its handler, and a reply is on the        *)
(* connection for every thread that reads one, be it its own or not.       *)
NobodyStuck ==
  /\ \A h \in Handlers : m_access[h] # NoThread =>
       HandlerOf[m_access[h]] = h /\ pc[m_access[h]] # "idle"
  /\ Len(connection) = Cardinality({t \in Threads : pc[t] = "reading"})

(* kpi_db.cc:63 "Key does not exists --> Simply insert": when UpdateDB is  *)
(* done with a report its two values are stored.                           *)
ReportStored ==
  \A t \in Threads : pc[t] = "returning" /\ report[t] # NoReport =>
    \E k \in Keys : db[k] = <<report[t].bhca, kpi_data[HandlerOf[t]].numberOfUEs>>

(* It never is: no command that writes is sent, whatever the reports, the  *)
(* threads and their interleaving, as no reply to EXISTS lets one follow.  *)
NothingStored ==
  /\ \A k \in Keys : db[k] = <<>>
  /\ \A t \in Threads : todo[t] \in {<<>>, <<"EXISTS">>}
=====================================================================================
