------------------------------ MODULE RuntimeProofs ------------------------------
(***************************************************************************)
(* Proofs about XappRuntime, for every set of controllers, number of       *)
(* configured threads and bound on the threads created, and then about     *)
(* MainProgram, whose calls they are applied to.                           *)
(***************************************************************************)
EXTENDS MainProgram, TLAPS

----------------------------------------------------------------------------
(* The class XaPP.                                                         *)

LEMMA InitInv == Init => ThreadsInv
<1> SUFFICES ASSUME Init PROVE ThreadsInv
  OBVIOUS
<1>1. DOMAIN thread_group = {} /\ created = 0 /\ num_threads = NumThreads
  BY DEF Init, NoEntries
<1>2. \A t \in Threads : tpc[t] = "none"
  BY DEF Init
<1>3. TypeOK
  <2>1. num_threads \in Keys /\ created \in 0 .. ThreadLimit
    BY <1>1, RuntimeAssumption DEF Keys
  <2>2. tpc \in [Threads -> ThreadLocations]
    BY DEF Init, ThreadLocations
  <2>3. QED
    BY <1>1, <2>1, <2>2 DEF Init, TypeOK
<1>4. CreatedInOrder
  BY <1>1, <1>2, RuntimeAssumption DEF CreatedInOrder, Threads
<1>5. ThreadsTracked
  BY <1>1, <1>2 DEF ThreadsTracked, Running
<1>6. JoinProgress /\ EmptyWhenStopped
  BY <1>1 DEF Init, JoinProgress, EmptyWhenStopped, MutexFree
<1>7. QED
  BY <1>3, <1>4, <1>5, <1>6 DEF ThreadsInv

(* What a listener does: it moves to a place where it still has to be      *)
(* joined, and touches nothing the controllers own.                        *)
LEMMA ListenerMoves ==
  ASSUME NEW t \in Threads, ListenerStep(t)
  PROVE  /\ tpc[t] \in Running
         /\ \E to \in Running \cup {"ended"} : tpc' = [tpc EXCEPT ![t] = to]
         /\ UNCHANGED <<ownVars, created>>
<1> USE DEF Move, Running
<1>1. CASE Enter(t)
  BY <1>1 DEF Enter
<1>2. CASE TestListen(t)
  BY <1>2 DEF TestListen
<1>3. CASE ReceiveNothing(t)
  BY <1>3 DEF ReceiveNothing
<1>4. CASE ReceiveMessage(t)
  BY <1>4 DEF ReceiveMessage
<1>5. CASE Handled(t)
  BY <1>5 DEF Handled
<1>6. CASE FreeBuffer(t)
  BY <1>6 DEF FreeBuffer
<1>7. QED
  BY <1>1, <1>2, <1>3, <1>4, <1>5, <1>6 DEF ListenerStep

LEMMA ListenerInv ==
  ASSUME ThreadsInv, NEW t \in Threads, ListenerStep(t)
  PROVE  ThreadsInv'
<1>1. PICK to \in Running \cup {"ended"} : tpc' = [tpc EXCEPT ![t] = to]
  BY ListenerMoves
<1>2. tpc[t] \in Running /\ UNCHANGED <<ownVars, created>>
  BY ListenerMoves
<1>4. tpc \in [Threads -> ThreadLocations]
  BY DEF ThreadsInv, TypeOK
<1>5. \A u \in Threads : tpc'[u] = IF u = t THEN to ELSE tpc[u]
  BY <1>1, <1>4
<1>6. TypeOK'
  BY <1>1, <1>2 DEF ThreadsInv, TypeOK, ownVars, ThreadLocations
<1>7. CreatedInOrder'
  BY <1>2, <1>5 DEF ThreadsInv, CreatedInOrder, ownVars, Running
<1>8. ThreadsTracked'
  BY <1>2, <1>5 DEF ThreadsInv, ThreadsTracked, ownVars
<1>9. \A u \in Threads : tpc'[u] = "joined" <=> tpc[u] = "joined"
  BY <1>2, <1>5 DEF Running
<1>10. JoinProgress'
  BY <1>2, <1>9 DEF ThreadsInv, TypeOK, JoinProgress, ownVars
<1>11. EmptyWhenStopped'
  BY <1>2 DEF ThreadsInv, EmptyWhenStopped, ownVars, MutexFree
<1>12. QED
  BY <1>6, <1>7, <1>8, <1>10, <1>11 DEF ThreadsInv

(* n new threads under keys that are free: they are tracked, and nothing   *)
(* changes for the others.                                                 *)
LEMMA NewThreadsInv ==
  ASSUME ThreadsInv, MutexFree, ~ destroying,
         NEW first \in Nat, NEW n \in Nat,
         created + n <= ThreadLimit,
         NewKeys(first, n) \cap DOMAIN thread_group = {},
         first + n - 1 <= num_threads',
         num_threads' \in Nat,
         num_threads' >= num_threads,
         num_threads' <= NumThreads + created + n,
         thread_group' = WithThreads(first, n),
         Create(n), listen' = TRUE,
         UNCHANGED <<transmit, to_join, rmr_ctx, destroying, terminated>>
  PROVE  ThreadsInv'
<1> USE RuntimeAssumption
<1>1. /\ created \in Nat /\ created <= ThreadLimit
      /\ tpc \in [Threads -> ThreadLocations]
      /\ \A k \in DOMAIN thread_group : thread_group[k] \in Threads
      /\ DOMAIN thread_group \subseteq Keys
      /\ num_threads \in Nat
  BY DEF ThreadsInv, TypeOK, Keys
<1>2. /\ created' = created + n
      /\ \A t \in Threads : tpc'[t] = IF t \in created + 1 .. created + n
                                        THEN "starting" ELSE tpc[t]
      /\ tpc' \in [Threads -> ThreadLocations]
  BY <1>1 DEF Create, ThreadLocations, Running
<1>3. NewKeys(first, n) = first .. first + n - 1
  BY DEF NewKeys
<1>4. /\ DOMAIN thread_group' = DOMAIN thread_group \cup NewKeys(first, n)
      /\ \A k \in NewKeys(first, n) :
           thread_group'[k] = created + 1 + k - first
      /\ \A k \in DOMAIN thread_group : thread_group'[k] = thread_group[k]
  BY DEF WithThreads
<1>5. \A k \in NewKeys(first, n) :
        /\ thread_group'[k] \in created + 1 .. created + n
        /\ thread_group'[k] \in Threads
        /\ k \in Keys /\ k <= num_threads'
  BY <1>1, <1>3, <1>4 DEF Threads, Keys
<1>6. TypeOK'
  <2>1. num_threads' \in Keys
    BY <1>1 DEF Keys
  <2>2. created' \in 0 .. ThreadLimit
    BY <1>1, <1>2
  <2>3. /\ DOMAIN thread_group' \subseteq Keys
        /\ \A k \in DOMAIN thread_group' : thread_group'[k] \in Threads
    BY <1>1, <1>4, <1>5
  <2>4. QED
    BY <1>2, <2>1, <2>2, <2>3 DEF ThreadsInv, TypeOK
<1>7. CreatedInOrder'
  <2>1. \A t \in Threads : tpc'[t] # "none" <=> t <= created'
    BY <1>1, <1>2 DEF ThreadsInv, CreatedInOrder, Threads
  <2>2. num_threads' <= NumThreads + created'
    BY <1>1, <1>2
  <2>3. ASSUME NEW k \in DOMAIN thread_group'
        PROVE  k <= num_threads' /\ thread_group'[k] <= created'
    <3>1. CASE k \in NewKeys(first, n)
      BY <1>1, <1>2, <1>5, <3>1
    <3>2. CASE k \in DOMAIN thread_group
      <4>1. k \in Nat /\ thread_group[k] \in Nat
        BY <1>1, <3>2 DEF Keys, Threads
      <4>2. QED
        BY <1>1, <1>2, <1>4, <3>2, <4>1 DEF ThreadsInv, CreatedInOrder
    <3>3. QED
      BY <1>4, <3>1, <3>2
  <2>4. QED
    BY <2>1, <2>2, <2>3 DEF CreatedInOrder
<1>8. \A k \in DOMAIN thread_group : thread_group[k] <= created
  BY DEF ThreadsInv, CreatedInOrder
<1>9. ThreadsTracked'
  <2>1. ASSUME NEW t \in Threads, tpc'[t] \in Running \cup {"ended"}
        PROVE  \E k \in DOMAIN thread_group' : thread_group'[k] = t
    <3>1. CASE t \in created + 1 .. created + n
      <4>1. first + (t - created - 1) \in NewKeys(first, n)
        BY <1>1, <1>3, <3>1
      <4>2. thread_group'[first + (t - created - 1)] = t
        BY <1>1, <1>4, <3>1, <4>1
      <4>3. QED
        BY <1>4, <4>1, <4>2
    <3>2. CASE t \notin created + 1 .. created + n
      BY <1>2, <1>4, <2>1, <3>2 DEF ThreadsInv, ThreadsTracked
    <3>3. QED
      BY <3>1, <3>2
  <2>2. ASSUME NEW k1 \in DOMAIN thread_group', NEW k2 \in DOMAIN thread_group',
               thread_group'[k1] = thread_group'[k2]
        PROVE  k1 = k2
    <3>1. CASE k1 \in NewKeys(first, n) /\ k2 \in NewKeys(first, n)
      BY <1>1, <1>3, <1>4, <2>2, <3>1
    <3>2. CASE k1 \in DOMAIN thread_group /\ k2 \in DOMAIN thread_group
      BY <1>4, <2>2, <3>2 DEF ThreadsInv, ThreadsTracked
    <3>3. ASSUME NEW k \in DOMAIN thread_group, NEW j \in NewKeys(first, n)
          PROVE  thread_group'[k] # thread_group'[j]
      <4>1. thread_group'[k] \in Nat /\ thread_group'[k] <= created
        BY <1>1, <1>4, <1>8 DEF Threads
      <4>2. thread_group'[j] \in created + 1 .. created + n
        BY <1>5
      <4>3. QED
        BY <1>1, <4>1, <4>2
    <3>4. QED
      BY <1>4, <2>2, <3>1, <3>2, <3>3
  <2>3. QED
    BY <2>1, <2>2 DEF ThreadsTracked
<1>10. JoinProgress'
  <2>1. ASSUME NEW k \in DOMAIN thread_group'
        PROVE  tpc'[thread_group'[k]] # "joined"
    <3>1. CASE k \in NewKeys(first, n)
      BY <1>2, <1>5, <3>1
    <3>2. CASE k \in DOMAIN thread_group
      <4>1. tpc[thread_group[k]] # "joined"
        BY <3>2 DEF ThreadsInv, JoinProgress, MutexFree
      <4>2. QED
        BY <1>1, <1>2, <1>4, <3>2, <4>1
    <3>3. QED
      BY <1>4, <3>1, <3>2
  <2>2. QED
    BY <1>4, <2>1 DEF ThreadsInv, JoinProgress, MutexFree
<1>11. EmptyWhenStopped'
  BY DEF ThreadsInv, EmptyWhenStopped
<1>12. QED
  BY <1>6, <1>7, <1>9, <1>10, <1>11 DEF ThreadsInv

LEMMA StartThreadInv ==
  ASSUME ThreadsInv, ~ destroying, NEW c \in Controllers, StartThread(c)
  PROVE  ThreadsInv'
<1>1. /\ num_threads \in Nat /\ created \in Nat /\ NumThreads \in Nat
      /\ num_threads <= NumThreads + created
      /\ ThreadLimit \in Nat
  BY RuntimeAssumption DEF ThreadsInv, TypeOK, Keys, CreatedInOrder
<1>2. num_threads' = num_threads + 1
  BY DEF StartThread
<1>3. NewKeys(num_threads', 1) \cap DOMAIN thread_group = {}
  <2>1. \A k \in DOMAIN thread_group : k \in Nat /\ k <= num_threads
    BY RuntimeAssumption DEF ThreadsInv, TypeOK, Keys, CreatedInOrder
  <2>2. \A k \in NewKeys(num_threads', 1) : k > num_threads
    BY <1>1, <1>2 DEF NewKeys
  <2>3. QED
    BY <1>1, <2>1, <2>2
<1>4. /\ created + 1 <= ThreadLimit
      /\ num_threads' + 1 - 1 <= num_threads'
      /\ num_threads' \in Nat /\ num_threads' >= num_threads
      /\ num_threads' <= NumThreads + created + 1
  BY <1>1, <1>2 DEF StartThread
<1>5. /\ MutexFree /\ listen' = TRUE /\ Create(1)
      /\ thread_group' = WithThreads(num_threads', 1)
      /\ UNCHANGED <<transmit, to_join, rmr_ctx, destroying, terminated>>
  BY DEF StartThread
<1>6. QED
  BY <1>3, <1>4, <1>5, NewThreadsInv

LEMMA StartInv ==
  ASSUME ThreadsInv, ~ destroying, NEW c \in Controllers, Start(c)
  PROVE  ThreadsInv'
<1>1. /\ num_threads \in Nat /\ created \in Nat /\ NumThreads \in Nat
      /\ num_threads <= NumThreads + created
      /\ ThreadLimit \in Nat
  BY RuntimeAssumption DEF ThreadsInv, TypeOK, Keys, CreatedInOrder
<1>2. CASE NewKeys(0, num_threads) \cap DOMAIN thread_group = {}
  <2>1. /\ created + num_threads <= ThreadLimit
        /\ MutexFree /\ listen' = TRUE /\ Create(num_threads)
        /\ thread_group' = WithThreads(0, num_threads)
        /\ num_threads' = num_threads
        /\ UNCHANGED <<transmit, to_join, rmr_ctx, destroying, terminated>>
    BY <1>2 DEF Start
  <2>2. /\ 0 + num_threads - 1 <= num_threads'
        /\ num_threads' \in Nat /\ num_threads' >= num_threads
        /\ num_threads' <= NumThreads + created + num_threads
    BY <1>1, <2>1
  <2>3. QED
    BY <1>1, <1>2, <2>1, <2>2, NewThreadsInv
<1>3. CASE NewKeys(0, num_threads) \cap DOMAIN thread_group # {}
  <2>1. /\ listen' = TRUE /\ terminated' = TRUE /\ MutexFree
        /\ UNCHANGED <<thread_group, threadVars, num_threads, transmit, to_join,
                       rmr_ctx, destroying>>
    BY <1>3 DEF Start
  <2>2. QED
    BY <2>1 DEF ThreadsInv, TypeOK, CreatedInOrder, ThreadsTracked, JoinProgress,
                EmptyWhenStopped, MutexFree, threadVars
<1>4. QED
  BY <1>2, <1>3

(* Stop and ~XaPP begin in the same way.                                   *)
LEMMA BeginStopInv ==
  ASSUME ThreadsInv, NEW c \in Controllers, BeginStop(c),
         ~ destroying, destroying' \in BOOLEAN
  PROVE  ThreadsInv'
<1> USE DEF BeginStop, MutexFree, threadVars
<1>1. TypeOK'
  BY DEF ThreadsInv, TypeOK
<1>2. CreatedInOrder' /\ ThreadsTracked'
  BY DEF ThreadsInv, CreatedInOrder, ThreadsTracked
<1>3. JoinProgress'
  BY RuntimeAssumption DEF ThreadsInv, JoinProgress
<1>4. EmptyWhenStopped'
  BY RuntimeAssumption DEF ThreadsInv, EmptyWhenStopped
<1>5. QED
  BY <1>1, <1>2, <1>3, <1>4 DEF ThreadsInv

(* A thread that is joined is the one of the entry that is passed, since   *)
(* no two entries share a thread.                                          *)
LEMMA JoinInv ==
  ASSUME ThreadsInv, NEW c \in Controllers, Join(c)
  PROVE  ThreadsInv'
<1>1. PICK key \in to_join :
        /\ tpc[thread_group[key]] = "ended"
        /\ tpc' = [tpc EXCEPT ![thread_group[key]] = "joined"]
        /\ to_join' = to_join \ {key}
  BY DEF Join
<1>2. /\ transmit = c /\ c # NoController
      /\ UNCHANGED <<listen, num_threads, thread_group, transmit, rmr_ctx,
                     destroying, terminated, created>>
  BY RuntimeAssumption DEF Join
<1>3. /\ key \in DOMAIN thread_group
      /\ thread_group[key] \in Threads
      /\ tpc \in [Threads -> ThreadLocations]
  BY DEF ThreadsInv, TypeOK, JoinProgress
<1>4. \A t \in Threads :
        tpc'[t] = IF t = thread_group[key] THEN "joined" ELSE tpc[t]
  BY <1>1, <1>3
<1>5. \A k \in DOMAIN thread_group :
        k # key => thread_group[k] # thread_group[key]
  BY <1>3 DEF ThreadsInv, ThreadsTracked
<1>6. TypeOK'
  BY <1>1, <1>2, <1>3 DEF ThreadsInv, TypeOK, ThreadLocations
<1>7. CreatedInOrder'
  BY <1>1, <1>2, <1>4 DEF ThreadsInv, CreatedInOrder
<1>8. ThreadsTracked'
  BY <1>2, <1>4 DEF ThreadsInv, ThreadsTracked, Running
<1>9. JoinProgress'
  <2>1. ASSUME NEW k \in DOMAIN thread_group
        PROVE  tpc'[thread_group[k]] = "joined" <=> k \notin to_join'
    <3>1. thread_group[k] \in Threads
      BY DEF ThreadsInv, TypeOK
    <3>2. tpc[thread_group[k]] = "joined" <=> k \notin to_join
      BY <1>2 DEF ThreadsInv, JoinProgress
    <3>3. QED
      BY <1>1, <1>4, <1>5, <3>1, <3>2
  <2>2. QED
    BY <1>1, <1>2, <2>1 DEF ThreadsInv, JoinProgress
<1>10. EmptyWhenStopped'
  BY <1>2 DEF ThreadsInv, EmptyWhenStopped, MutexFree
<1>11. QED
  BY <1>6, <1>7, <1>8, <1>9, <1>10 DEF ThreadsInv

(* When every entry is passed every thread is joined, so that the table    *)
(* can be cleared and the context closed.                                  *)
LEMMA EndStopInv ==
  ASSUME ThreadsInv, NEW c \in Controllers, EndStop(c)
  PROVE  ThreadsInv'
<1>1. /\ transmit = c /\ c # NoController /\ to_join = {}
      /\ transmit' = NoController
      /\ thread_group' = NoEntries
      /\ rmr_ctx' = (IF destroying THEN "closed" ELSE rmr_ctx)
      /\ UNCHANGED <<listen, num_threads, to_join, destroying, terminated,
                     created, tpc>>
  BY RuntimeAssumption DEF EndStop, threadVars
<1>2. DOMAIN thread_group' = {}
  BY <1>1 DEF NoEntries
<1>3. \A t \in Threads : tpc[t] \notin Running \cup {"ended"}
  <2>1. \A k \in DOMAIN thread_group : tpc[thread_group[k]] = "joined"
    BY <1>1 DEF ThreadsInv, JoinProgress
  <2>2. "joined" \notin Running \cup {"ended"}
    BY DEF Running
  <2>3. QED
    BY <2>1, <2>2 DEF ThreadsInv, ThreadsTracked
<1>4. TypeOK'
  BY <1>1, <1>2 DEF ThreadsInv, TypeOK
<1>5. CreatedInOrder' /\ ThreadsTracked'
  BY <1>1, <1>2, <1>3 DEF ThreadsInv, CreatedInOrder, ThreadsTracked
<1>6. JoinProgress'
  BY <1>1, <1>2 DEF ThreadsInv, JoinProgress
<1>7. EmptyWhenStopped'
  BY <1>1, <1>2 DEF ThreadsInv, EmptyWhenStopped, MutexFree
<1>8. QED
  BY <1>4, <1>5, <1>6, <1>7 DEF ThreadsInv

LEMMA StepInv ==
  ASSUME ThreadsInv, [Next]_vars
  PROVE  ThreadsInv'
<1>1. ASSUME NEW c \in Controllers, NewCall(c)
      PROVE  ThreadsInv'
  <2>1. ~ destroying /\ destroying \in BOOLEAN
    BY <1>1 DEF NewCall, ThreadsInv, TypeOK
  <2>2. CASE StartThread(c)
    BY <2>1, <2>2, StartThreadInv
  <2>3. CASE Start(c)
    BY <2>1, <2>3, StartInv
  <2>4. CASE Stop(c)
    <3>1. BeginStop(c) /\ destroying' \in BOOLEAN
      BY <2>1, <2>4 DEF Stop
    <3>2. QED
      BY <2>1, <3>1, BeginStopInv
  <2>5. CASE Destroy(c)
    <3>1. BeginStop(c) /\ destroying' \in BOOLEAN
      BY <2>5 DEF Destroy
    <3>2. QED
      BY <2>1, <3>1, BeginStopInv
  <2>6. QED
    BY <1>1, <2>2, <2>3, <2>4, <2>5 DEF NewCall
<1>2. ASSUME NEW c \in Controllers, StopStep(c)
      PROVE  ThreadsInv'
  BY <1>2, JoinInv, EndStopInv DEF StopStep
<1>3. ASSUME NEW t \in Threads, ListenerStep(t)
      PROVE  ThreadsInv'
  BY <1>3, ListenerInv
<1>4. CASE UNCHANGED vars
  BY <1>4 DEF vars, ThreadsInv, TypeOK, CreatedInOrder, ThreadsTracked, JoinProgress,
              EmptyWhenStopped, MutexFree
<1>5. QED
  BY <1>1, <1>2, <1>3, <1>4 DEF Next

LEMMA InvHolds == Spec => []ThreadsInv
<1>1. Init => ThreadsInv
  BY InitInv
<1>2. ThreadsInv /\ [Next]_vars => ThreadsInv'
  BY StepInv
<1>3. QED
  BY <1>1, <1>2, PTL DEF Spec

(* XaPP: keys of thread_group stay below the counter and name threads that *)
(* were created, and the fields keep their types, for any number of calls. *)
THEOREM RuntimeTypeCorrect == Spec => []TypeOK
<1>1. ThreadsInv => TypeOK
  BY DEF ThreadsInv
<1>2. QED
  BY <1>1, InvHolds, PTL

(* XaPP::Start, StartThread and Stop: every thread that still has to be    *)
(* joined is in thread_group under one key, whatever is called and when.   *)
THEOREM EveryThreadTracked == Spec => []ThreadsTracked
<1>1. ThreadsInv => ThreadsTracked
  BY DEF ThreadsInv
<1>2. QED
  BY <1>1, InvHolds, PTL

(* XaPP::Stop: no thread is joined a second time, although the destructor  *)
(* calls Stop again.                                                       *)
THEOREM NoDoubleJoin == Spec => []JoinedOnce
<1>1. ThreadsInv => JoinedOnce
  <2>1. SUFFICES ASSUME ThreadsInv, NEW k \in to_join
                 PROVE  k \in DOMAIN thread_group /\ tpc[thread_group[k]] # "joined"
    BY DEF JoinedOnce
  <2>2. QED
    BY <2>1 DEF ThreadsInv, JoinProgress
<1>2. QED
  BY <1>1, InvHolds, PTL

(* XaPP::~XaPP: the RMR context is closed behind the last listener.        *)
THEOREM ContextOutlivesListeners == Spec => []ContextOpen
<1>1. ThreadsInv => ContextOpen
  <2>1. SUFFICES ASSUME ThreadsInv, NEW t \in Threads, tpc[t] \in UsingContext,
                        rmr_ctx # "open"
                 PROVE  FALSE
    BY DEF ContextOpen
  <2>2. rmr_ctx = "closed"
    BY <2>1 DEF ThreadsInv, TypeOK
  <2>3. DOMAIN thread_group = {}
    BY <2>1, <2>2 DEF ThreadsInv, EmptyWhenStopped
  <2>4. tpc[t] \in Running
    BY <2>1 DEF UsingContext, Running
  <2>5. QED
    BY <2>1, <2>3, <2>4 DEF ThreadsInv, ThreadsTracked
<1>2. QED
  BY <1>1, InvHolds, PTL

(* XaPP::Stop: when it has returned no listener runs until the next start. *)
THEOREM StopLeavesNoListener == Spec => []StoppedMeansQuiet
<1>1. ThreadsInv => StoppedMeansQuiet
  BY DEF ThreadsInv, EmptyWhenStopped, ThreadsTracked, StoppedMeansQuiet
<1>2. QED
  BY <1>1, InvHolds, PTL

----------------------------------------------------------------------------
(* main().                                                                 *)

MainInv ==
  ThreadsInv /\ MutexAtMain /\ ShutdownOrder /\ ContextAtMain /\ ListenersStay

LEMMA MainInitInv == MainInit => MainInv
<1> SUFFICES ASSUME MainInit PROVE MainInv
  OBVIOUS
<1>1. ThreadsInv
  BY InitInv DEF MainInit
<1>2. MutexAtMain /\ ShutdownOrder /\ ContextAtMain
  BY DEF MainInit, Init, MutexAtMain, ShutdownOrder, ContextAtMain, MutexFree
<1>3. ListenersStay
  BY ProgramAssumption DEF MainInit, Init, ListenersStay
<1>4. QED
  BY <1>1, <1>2, <1>3 DEF MainInv

(* Every step of main(), and of a listener, is one the class allows.       *)
LEMMA MainStepIsRuntimeStep ==
  ASSUME MainInv, [MainNext]_allVars
  PROVE  [Next]_vars
<1>1. main \in Controllers
  BY RuntimeAssumption DEF main
<1>2. CASE UNCHANGED allVars
  BY <1>2 DEF allVars
<1>3. CASE MainNext /\ Signal
  BY <1>3 DEF Signal
<1>4. ASSUME MainNext, NEW t \in Threads, Listen(t)
      PROVE  [Next]_vars
  BY <1>4 DEF Listen, Next, MainNext
<1>5. ASSUME MainNext, MainStep
      PROVE  [Next]_vars
  <2>1. ~ terminated
    BY <1>5 DEF MainNext
  <2>2. CASE StartListener
    BY <1>1, <2>1, <2>2 DEF StartListener, Next, NewCall, MainInv, MutexAtMain
  <2>3. CASE Up \/ Subscribed \/ DestroyLocals
    BY <2>3 DEF Up, Subscribed, DestroyLocals
  <2>4. CASE BeginShutdown
    BY <1>1, <2>1, <2>4 DEF BeginShutdown, At, Next, NewCall, MainInv, MutexAtMain
  <2>5. CASE JoinListener
    BY <1>1, <2>1, <2>5 DEF JoinListener, Next, StopStep
  <2>6. CASE Stopped
    BY <1>1, <2>1, <2>6 DEF Stopped, Next, StopStep
  <2>7. CASE EnterDestructor
    BY <1>1, <2>1, <2>7 DEF EnterDestructor, At, Next, NewCall, MainInv, MutexAtMain
  <2>8. CASE Exit
    BY <1>1, <2>1, <2>8 DEF Exit, Next, StopStep
  <2>9. QED
    BY <1>5, <2>2, <2>3, <2>4, <2>5, <2>6, <2>7, <2>8 DEF MainStep
<1>6. QED
  BY <1>2, <1>3, <1>4, <1>5 DEF MainNext

LEMMA MainStepOrder ==
  ASSUME MainInv, MainStep
  PROVE  MutexAtMain' /\ ShutdownOrder' /\ ContextAtMain'
<1>1. main # NoController
  BY RuntimeAssumption DEF main
<1> USE DEF MainInv, MutexAtMain, ShutdownOrder, ContextAtMain, MutexFree, mainVars, vars, At
<1>2. CASE StartListener
  BY <1>2 DEF StartListener, StartThread
<1>3. CASE Up \/ Subscribed
  BY <1>3 DEF Up, Subscribed
<1>4. CASE BeginShutdown
  BY <1>1, <1>4 DEF BeginShutdown, Stop, BeginStop
<1>5. CASE JoinListener
  BY <1>5 DEF JoinListener, Join
<1>6. CASE Stopped
  <2>1. ~ listen /\ DOMAIN thread_group' = {}
    BY <1>1, <1>6 DEF Stopped, EndStop, NoEntries, ThreadsInv, JoinProgress
  <2>2. QED
    BY <1>1, <1>6, <2>1 DEF Stopped, EndStop
<1>7. CASE DestroyLocals
  BY <1>7 DEF DestroyLocals
<1>8. CASE EnterDestructor
  BY <1>1, <1>8 DEF EnterDestructor, Destroy, BeginStop
<1>9. CASE Exit
  <2>1. DOMAIN thread_group' = {}
    BY <1>9 DEF Exit, EndStop, NoEntries
  <2>2. QED
    BY <1>1, <1>9, <2>1 DEF Exit, EndStop
<1>10. QED
  BY <1>2, <1>3, <1>4, <1>5, <1>6, <1>7, <1>8, <1>9 DEF MainStep

(* main() clears _listen only when it leaves its waiting.                  *)
LEMMA MainStepListeners ==
  ASSUME MainInv, MainStep
  PROVE  ListenersStay'
<1>1. /\ ListenersStay /\ tpc \in [Threads -> ThreadLocations]
      /\ created \in Nat /\ ConfiguredThreads \in Nat
  BY ProgramAssumption, RuntimeAssumption DEF MainInv, ThreadsInv, TypeOK
<1> USE DEF At, mainVars
<1>2. CASE StartListener
  <2>1. /\ listen' = TRUE /\ created' = created + 1 /\ created + 1 <= ConfiguredThreads
        /\ mpc = "starting" /\ mpc' = mpc
        /\ created + 1 <= ThreadLimit
    BY <1>1, <1>2, RuntimeAssumption DEF StartListener, StartThread, Create
  <2>2. \A t \in Threads : tpc'[t] = IF t \in created + 1 .. created + 1 THEN "starting" ELSE tpc[t]
    BY <1>2 DEF StartListener, StartThread, Create
  <2>3. \A t \in 1 .. created' : t \in Threads /\ (t = created + 1 \/ t \in 1 .. created)
    BY <1>1, <2>1, RuntimeAssumption DEF Threads
  <2>4. \A t \in 1 .. created' : tpc'[t] \in Running \ {"freeing"}
    BY <1>1, <2>1, <2>2, <2>3 DEF ListenersStay, Running
  <2>5. QED
    BY <1>1, <2>1, <2>4 DEF ListenersStay
<1>3. CASE Up \/ Subscribed
  BY <1>1, <1>3 DEF Up, Subscribed, vars, ListenersStay
<1>4. CASE BeginShutdown
  BY <1>4 DEF BeginShutdown, ListenersStay
<1>5. CASE JoinListener
  BY <1>5 DEF JoinListener, ListenersStay
<1>6. CASE Stopped \/ DestroyLocals \/ EnterDestructor \/ Exit
  BY <1>6 DEF Stopped, DestroyLocals, EnterDestructor, Exit, ListenersStay
<1>7. QED
  BY <1>2, <1>3, <1>4, <1>5, <1>6 DEF MainStep

(* A listener leaves its loop only when _listen is cleared.                *)
LEMMA ListenStays ==
  ASSUME MainInv, NEW t \in Threads, Listen(t)
  PROVE  ListenersStay'
<1>1. ListenersStay /\ tpc \in [Threads -> ThreadLocations]
  BY DEF MainInv, ThreadsInv, TypeOK
<1>2. UNCHANGED <<mpc, created, listen>>
  BY ListenerMoves DEF Listen, ownVars
<1>3. tpc[t] \in Running /\ \A u \in Threads \ {t} : tpc'[u] = tpc[u]
  BY <1>1, ListenerMoves DEF Listen
<1>4. tpc[t] # "freeing" /\ listen => tpc'[t] \in Running \ {"freeing"}
  BY <1>1 DEF Listen, ListenerStep, Enter, TestListen, ReceiveNothing, ReceiveMessage,
              Handled, FreeBuffer, Move, Running
<1>5. \A u \in 1 .. created : u \in Threads /\ created > 0
  BY RuntimeAssumption DEF MainInv, ThreadsInv, TypeOK, Threads
<1>6. QED
  BY <1>1, <1>2, <1>3, <1>4, <1>5 DEF ListenersStay

LEMMA MainNextInv ==
  ASSUME MainInv, [MainNext]_allVars
  PROVE  MainInv'
<1>1. ThreadsInv'
  BY MainStepIsRuntimeStep, StepInv DEF MainInv
<1>2. MutexAtMain' /\ ShutdownOrder' /\ ContextAtMain'
  <2>1. CASE MainStep
    BY <2>1, MainStepOrder
  <2>2. CASE Signal \/ UNCHANGED allVars
    BY <2>2 DEF Signal, allVars, mainVars, vars, MainInv, MutexAtMain, ShutdownOrder,
                ContextAtMain, MutexFree
  <2>3. ASSUME NEW t \in Threads, Listen(t)
        PROVE  MutexAtMain' /\ ShutdownOrder' /\ ContextAtMain'
    <3>1. UNCHANGED ownVars
      BY <2>3, ListenerMoves DEF Listen
    <3>2. QED
      BY <2>3, <3>1 DEF Listen, ownVars, MainInv, MutexAtMain, ShutdownOrder,
                     ContextAtMain, MutexFree
  <2>4. QED
    BY <2>1, <2>2, <2>3 DEF MainNext
<1>3. ListenersStay'
  <2>1. CASE Signal \/ UNCHANGED allVars
    BY <2>1 DEF Signal, allVars, mainVars, vars, MainInv, ListenersStay
  <2>2. QED
    BY <2>1, MainStepListeners, ListenStays DEF MainNext
<1>4. QED
  BY <1>1, <1>2, <1>3 DEF MainInv

LEMMA MainInvHolds == MainSpec => []MainInv
  BY MainInitInv, MainNextInv, PTL DEF MainSpec

(* kpi-xapp.cc: main() calls the runtime in the order the class allows,    *)
(* so that every theorem about the class holds of the program.             *)
THEOREM ProgramUsesRuntime == MainSpec => UsesRuntime
<1>1. MainInit => Init
  BY DEF MainInit
<1>2. QED
  BY <1>1, MainInvHolds, MainStepIsRuntimeStep, PTL DEF MainSpec, UsesRuntime, Spec

(* kpi-xapp.cc: the processors and the handler are destroyed behind the    *)
(* last listener.                                                          *)
THEOREM ListenersOutlived == MainSpec => []ProcessorsAlive
<1>1. MainInv => ProcessorsAlive
  <2>1. SUFFICES ASSUME MainInv, NEW t \in Threads,
                        tpc[t] \in {"receiving", "handling"}, ~ processors
                 PROVE  FALSE
    BY DEF ProcessorsAlive, MainInv, ShutdownOrder
  <2>2. DOMAIN thread_group = {}
    BY <2>1 DEF MainInv, ShutdownOrder
  <2>3. QED
    BY <2>1, <2>2 DEF MainInv, ThreadsInv, ThreadsTracked, Running
<1>2. QED
  BY <1>1, MainInvHolds, PTL

(* kpi-xapp.cc:108: when main() says that the xApp is up and listening,    *)
(* and until it is told to stop, a listener is in its loop, for any number *)
(* of threads but 0.                                                       *)
THEOREM UpMeansListening == MainSpec => []UpAndListening
<1>1. MainInv => UpAndListening
  <2>1. SUFFICES ASSUME MainInv, ConfiguredThreads > 0, mpc \in {"subscribing", "waiting"}
                 PROVE  \E t \in Threads : tpc[t] \in Running
    BY DEF UpAndListening
  <2>2. created = ConfiguredThreads /\ \A t \in 1 .. created : tpc[t] \in Running
    BY <2>1 DEF MainInv, ListenersStay
  <2>3. 1 \in Threads /\ 1 \in 1 .. created
    BY <2>1, <2>2, ProgramAssumption, RuntimeAssumption DEF Threads
  <2>4. QED
    BY <2>2, <2>3
<1>2. QED
  BY <1>1, MainInvHolds, PTL

(* xapp_utils.cc:48-63, behind kpi-xapp.cc:211: main() returns with all    *)
(* its threads joined and the context closed, for any number of them.      *)
THEOREM ExitIsClean == MainSpec => []CleanExit
<1>1. MainInv => CleanExit
  <2> SUFFICES ASSUME MainInv PROVE CleanExit
    OBVIOUS
  <2>1. mpc = "exited" => rmr_ctx = "closed"
    BY DEF MainInv, ContextAtMain
  <2>2. ASSUME mpc = "exited", NEW t \in Threads
        PROVE  tpc[t] \in {"none", "joined"}
    <3>1. DOMAIN thread_group = {}
      BY <2>2 DEF MainInv, ShutdownOrder
    <3>2. tpc[t] \in ThreadLocations \ (Running \cup {"ended"})
      BY <3>1 DEF MainInv, ThreadsInv, TypeOK, ThreadsTracked
    <3>3. QED
      BY <3>2 DEF ThreadLocations
  <2>3. QED
    BY <2>1, <2>2 DEF CleanExit
<1>2. QED
  BY <1>1, MainInvHolds, PTL
==================================================================================
