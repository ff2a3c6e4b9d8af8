-------------------------------- MODULE XappRuntime --------------------------------
(***************************************************************************)
(* The threads of class XaPP: src/src/xapp_utils.{hpp,cc}.                 *)
(*                                                                         *)
(* Controllers start listener threads (Start, StartThread) and stop them   *)
(* (Stop); the owner destroys the object.  Start, StartThread and Stop run *)
(* under the mutex _transmit, which Stop keeps while it joins the threads  *)
(* of thread_group one by one.  A listener takes no lock: it tests the     *)
(* plain bool _listen before each wait for a message.                      *)
(*                                                                         *)
(* A definition named X_Y is not part of the specification: it is X with   *)
(* a plausible mistake, and shows which property notices it.               *)
(***************************************************************************)
EXTENDS Integers

CONSTANTS
  Controllers,   (* threads that call Start, StartThread and Stop          *)
  Owner,         (* the one that destroys the object                       *)
  NumThreads,    (* _num_threads as constructed                            *)
  ThreadLimit,   (* bound: no more threads than this are ever created      *)
  NoController   (* transmit when nobody holds the mutex                   *)

ASSUME RuntimeAssumption ==
  /\ Owner \in Controllers /\ NoController \notin Controllers
  /\ NumThreads \in Nat /\ ThreadLimit \in Nat

(* Threads are named in the order of their creation.                       *)
Threads == 1 .. ThreadLimit

(* Keys of thread_group: Start uses 0 .. _num_threads - 1, StartThread the *)
(* incremented _num_threads.                                               *)
Keys == 0 .. NumThreads + ThreadLimit

VARIABLES
  listen,        (* _listen                                                *)
  num_threads,   (* _num_threads                                           *)
  thread_group,  (* key -> thread                                          *)
  transmit,      (* who holds _transmit across steps                       *)
  to_join,       (* keys Stop has yet to join                              *)
  rmr_ctx,       (* whether the RMR context is open                        *)
  destroying,    (* ~XaPP has been entered                                 *)
  terminated,    (* std::terminate was called                              *)
  created,       (* how many threads there are                             *)
  tpc            (* where each thread is                                   *)

ownVars    == <<listen, num_threads, thread_group, transmit, to_join, rmr_ctx,
                destroying, terminated>>
threadVars == <<created, tpc>>
vars == <<listen, num_threads, thread_group, transmit, to_join, rmr_ctx,
          destroying, terminated, created, tpc>>

(*  testing   : about to test _listen                                      *)
(*  receiving : in rmr_torcv_msg                                           *)
(*  handling  : in the message processor                                   *)
(*  freeing   : behind the loop                                            *)
(*  ended     : the thread function has returned                           *)
(*  joined    : joined by Stop                                             *)
Running == {"starting", "testing", "receiving", "handling", "freeing"}
ThreadLocations == {"none", "ended", "joined"} \cup Running

(* The locations from which a thread uses the RMR context.                 *)
UsingContext == {"starting", "receiving", "handling", "freeing"}

TypeOK ==
  /\ listen \in BOOLEAN /\ destroying \in BOOLEAN /\ terminated \in BOOLEAN
  /\ num_threads \in Keys
  /\ DOMAIN thread_group \subseteq Keys
  /\ \A k \in DOMAIN thread_group : thread_group[k] \in Threads
  /\ transmit \in Controllers \cup {NoController}
  /\ to_join \subseteq Keys
  /\ rmr_ctx \in {"open", "closed"}
  /\ created \in 0 .. ThreadLimit
  /\ tpc \in [Threads -> ThreadLocations]

NoEntries == [k \in {} |-> 0]

Init ==
  /\ listen = FALSE
  /\ num_threads = NumThreads
  /\ thread_group = NoEntries
  /\ transmit = NoController
  /\ to_join = {}
  /\ rmr_ctx = "open"
  /\ destroying = FALSE
  /\ terminated = FALSE
  /\ created = 0
  /\ tpc = [t \in Threads |-> "none"]

----------------------------------------------------------------------------
(* Start and StartThread.                                                  *)

MutexFree == transmit = NoController

(* The keys of n threads, from the first on.                               *)
NewKeys(first, n) == first .. first + n - 1

(* thread_group after the next n threads are inserted from that key on.    *)
WithThreads(first, n) ==
  [k \in DOMAIN thread_group \cup NewKeys(first, n) |->
     IF k \in NewKeys(first, n) THEN created + 1 + k - first ELSE thread_group[k]]

(* The threads begin to run at once.                                       *)
Create(n) ==
  /\ created' = created + n
  /\ tpc' = [t \in Threads |-> IF t \in created + 1 .. created + n
                                 THEN "starting" ELSE tpc[t]]

StartThread_Unlocked(c) ==
  /\ created < ThreadLimit
  /\ listen' = TRUE
  /\ num_threads' = num_threads + 1
  /\ thread_group' = WithThreads(num_threads', 1)
  /\ Create(1)
  /\ UNCHANGED <<transmit, to_join, rmr_ctx, destroying, terminated>>

StartThread_Detached(c) ==
  /\ MutexFree
  /\ created < ThreadLimit
  /\ listen' = TRUE
  /\ num_threads' = num_threads + 1
  /\ Create(1)
  /\ UNCHANGED <<thread_group, transmit, to_join, rmr_ctx, destroying,
                 terminated>>

(* One thread under a key that was never used before.                      *)
StartThread(c) ==
  /\ MutexFree
  /\ created < ThreadLimit
  /\ listen' = TRUE
  /\ num_threads' = num_threads + 1
  /\ thread_group' = WithThreads(num_threads', 1)
  /\ Create(1)
  /\ UNCHANGED <<transmit, to_join, rmr_ctx, destroying, terminated>>

(* _num_threads threads under the keys from 0.  insert() leaves a key that *)
(* is taken alone; the std::thread made for it is then destroyed while it  *)
(* is joinable, and that is std::terminate.                                *)
Start(c) ==
  /\ MutexFree
  /\ listen' = TRUE
  /\ IF NewKeys(0, num_threads) \cap DOMAIN thread_group = {}
       THEN /\ created + num_threads <= ThreadLimit
            /\ thread_group' = WithThreads(0, num_threads)
            /\ Create(num_threads)
            /\ UNCHANGED terminated
       ELSE /\ terminated' = TRUE
            /\ UNCHANGED <<thread_group, threadVars>>
  /\ UNCHANGED <<num_threads, transmit, to_join, rmr_ctx, destroying>>

----------------------------------------------------------------------------
(* Stop, and the destructor, which calls it.                               *)

BeginStop_StillListening(c) ==
  /\ MutexFree
  /\ transmit' = c
  /\ to_join' = DOMAIN thread_group
  /\ UNCHANGED <<listen, num_threads, thread_group, rmr_ctx, terminated, threadVars>>

(* _listen is cleared; no thread can be started until the mutex is free.   *)
BeginStop(c) ==
  /\ MutexFree
  /\ transmit' = c
  /\ listen' = FALSE
  /\ to_join' = DOMAIN thread_group
  /\ UNCHANGED <<num_threads, thread_group, rmr_ctx, terminated, threadVars>>

(* join() returns once the thread has ended; the map is walked in the      *)
(* order of its keys.                                                      *)
Join(c) ==
  /\ transmit = c
  /\ \E k \in to_join :
       /\ \A j \in to_join : k <= j
       /\ tpc[thread_group[k]] = "ended"
       /\ tpc' = [tpc EXCEPT ![thread_group[k]] = "joined"]
       /\ to_join' = to_join \ {k}
  /\ UNCHANGED <<listen, num_threads, thread_group, transmit, rmr_ctx,
                 destroying, terminated, created>>

EndStop_KeepingTable(c) ==
  /\ transmit = c
  /\ to_join = {}
  /\ transmit' = NoController
  /\ rmr_ctx' = IF destroying THEN "closed" ELSE rmr_ctx
  /\ UNCHANGED <<listen, num_threads, thread_group, to_join, destroying,
                 terminated, threadVars>>

EndStop_NotJoining(c) ==
  /\ transmit = c
  /\ thread_group' = NoEntries
  /\ to_join' = {}
  /\ transmit' = NoController
  /\ rmr_ctx' = IF destroying THEN "closed" ELSE rmr_ctx
  /\ UNCHANGED <<listen, num_threads, destroying, terminated, threadVars>>

(* The table is cleared and the mutex released; the destructor goes on to  *)
(* close the context.                                                      *)
EndStop(c) ==
  /\ transmit = c
  /\ to_join = {}
  /\ thread_group' = NoEntries
  /\ transmit' = NoController
  /\ rmr_ctx' = IF destroying THEN "closed" ELSE rmr_ctx
  /\ UNCHANGED <<listen, num_threads, to_join, destroying, terminated,
                 threadVars>>

Stop(c) == BeginStop(c) /\ UNCHANGED destroying

(* Nobody else uses an object while it is being destroyed.                 *)
Destroy(c) ==
  /\ c = Owner
  /\ ~ destroying
  /\ destroying' = TRUE
  /\ BeginStop(c)

----------------------------------------------------------------------------
(* _workThread.                                                            *)

Move(t, from, to) ==
  /\ tpc[t] = from
  /\ tpc' = [tpc EXCEPT ![t] = to]
  /\ UNCHANGED <<ownVars, created>>

(* A receive buffer is allocated.                                          *)
Enter(t) == Move(t, "starting", "testing")

TestListen(t) == Move(t, "testing", IF listen THEN "receiving" ELSE "freeing")

(* The wait ends after 50 ms, or with an error.                            *)
ReceiveNothing(t) == Move(t, "receiving", "testing")

(* A message arrives in the thread's buffer, over whatever was there.      *)
ReceiveMessage(t) == Move(t, "receiving", "handling")

(* The processor returns; what it returns, and a reply that it may have    *)
(* written into the buffer, are not looked at.                             *)
Handled(t) == Move(t, "handling", "testing")

FreeBuffer(t) == Move(t, "freeing", "ended")

ListenerStep(t) ==
  \/ Enter(t) \/ TestListen(t) \/ ReceiveNothing(t) \/ ReceiveMessage(t)
  \/ Handled(t) \/ FreeBuffer(t)

----------------------------------------------------------------------------
(* The class as it is offered.                                             *)

StopStep(c) == Join(c) \/ EndStop(c)

NewCall(c) ==
  /\ ~ destroying
  /\ StartThread(c) \/ Start(c) \/ Stop(c) \/ Destroy(c)

Next ==
  /\ ~ terminated
  /\ \/ \E c \in Controllers : NewCall(c) \/ StopStep(c)
     \/ \E t \in Threads : ListenerStep(t)

Spec == Init /\ [][Next]_vars

(* Threads run, rmr_torcv_msg and the processor return, and a Stop that    *)
(* has begun goes on.                                                      *)
Fairness ==
  /\ \A t \in Threads : WF_vars(~ terminated /\ ListenerStep(t))
  /\ \A c \in Controllers : WF_vars(~ terminated /\ StopStep(c))

FairSpec == Spec /\ Fairness

----------------------------------------------------------------------------
(* Every thread that has not been joined is in thread_group, so that a     *)
(* Stop still to come will find it, and no thread is there twice.          *)
ThreadsTracked ==
  /\ \A t \in Threads :
       tpc[t] \in Running \cup {"ended"} =>
         \E k \in DOMAIN thread_group : thread_group[k] = t
  /\ \A k1, k2 \in DOMAIN thread_group :
       thread_group[k1] = thread_group[k2] => k1 = k2

(* Stop joins only threads that are joinable: join() on a thread that was  *)
(* joined before throws std::system_error.                                 *)
JoinedOnce ==
  \A k \in to_join : k \in DOMAIN thread_group /\ tpc[thread_group[k]] # "joined"

(* No listener uses the RMR context after the destructor has closed it.    *)
ContextOpen ==
  \A t \in Threads : tpc[t] \in UsingContext => rmr_ctx = "open"

(* "Wait for all threads to stop": when Stop has returned, and nothing was *)
(* started since, no listener runs.                                        *)
StoppedMeansQuiet ==
  ~ listen /\ MutexFree => \A t \in Threads : tpc[t] \notin Running

(* A Stop that has begun returns: no thread can be started behind its back *)
(* that would set _listen again.                                           *)
StopReturns ==
  \A c \in Controllers : transmit = c ~> transmit # c \/ terminated

----------------------------------------------------------------------------
(* The parts of the inductive invariant.                                   *)

(* Exactly the first threads exist, and the keys in use lie below the      *)
(* counter.                                                                *)
CreatedInOrder ==
  /\ \A t \in Threads : tpc[t] # "none" <=> t <= created
  /\ num_threads <= NumThreads + created
  /\ \A k \in DOMAIN thread_group : k <= num_threads /\ thread_group[k] <= created

(* Stop has joined exactly the entries it has passed.                      *)
JoinProgress ==
  /\ transmit = NoController => to_join = {}
  /\ transmit # NoController => ~ listen
  /\ to_join \subseteq DOMAIN thread_group
  /\ \A k \in DOMAIN thread_group :
       tpc[thread_group[k]] = "joined" <=> transmit # NoController /\ k \notin to_join

(* When Stop has returned, or the context is closed, the table is empty.   *)
EmptyWhenStopped ==
  /\ ~ listen /\ MutexFree => DOMAIN thread_group = {}
  /\ rmr_ctx = "closed" => destroying /\ MutexFree /\ DOMAIN thread_group = {}

ThreadsInv ==
  /\ TypeOK
  /\ CreatedInOrder
  /\ ThreadsTracked
  /\ JoinProgress
  /\ EmptyWhenStopped
==================================================================================
