-------------------------------- MODULE MainProgram --------------------------------
(***************************************************************************)
(* The life of the process: main() of src/src/kpi-xapp.cc on top of the    *)
(* runtime, from the start of the listeners to the end of ~XaPP, with the  *)
(* signals it may get on the way.  Its subscription loop is one step here  *)
(* (see SubscribeLoop), which needs a listener to hand on a response.      *)
(*                                                                         *)
(* A definition named X_Y is not part of the specification: it is X with   *)
(* a plausible mistake, and shows which property notices it.               *)
(***************************************************************************)
EXTENDS XappRuntime

CONSTANTS
  ConfiguredThreads  (* my_config.num_threads, as given with -t            *)

main == Owner

ASSUME ProgramAssumption ==
  /\ ConfiguredThreads \in 0 .. ThreadLimit
  /\ ConfiguredThreads >= 1 => NumThreads = ConfiguredThreads

VARIABLES
  mpc,         (* where main() is                                          *)
  RunProg,     (* cleared by EndProgram                                    *)
  processors,  (* whether message_procs and sub_handler exist              *)
  answered,    (* gNodeB_list was empty from the start, or a listener has  *)
               (* handled a message in the subscribing phase               *)
  killed       (* a signal came before EndProgram was installed            *)

mainVars == <<mpc, RunProg, processors, answered, killed>>
allVars  == <<vars, mainVars>>

(*  starting    : the loop of StartThread                                  *)
(*  subscribing : the subscription loop                                    *)
(*  waiting     : while (RunProg) sleep                                    *)
(*  stopping    : in Stop()                                                *)
(*  returning   : the locals are about to be destroyed                     *)
(*  destructing : message_procs and sub_handler are gone, ~XaPP is next    *)
(*  closing     : in ~XaPP                                                 *)
(*  exited      : main() has returned                                      *)
MainInit ==
  /\ Init
  /\ mpc = "starting"
  /\ RunProg = TRUE
  /\ processors = TRUE
  /\ answered \in BOOLEAN
  /\ killed = FALSE

At(from, to) == mpc = from /\ mpc' = to

StartListener ==
  /\ mpc = "starting"
  /\ created < ConfiguredThreads
  /\ StartThread(main)
  /\ UNCHANGED mainVars

Up_BeforeThreads ==
  /\ created <= ConfiguredThreads
  /\ At("starting", "subscribing")
  /\ UNCHANGED <<vars, RunProg, processors, answered, killed>>

Up ==
  /\ created = ConfiguredThreads
  /\ At("starting", "subscribing")
  /\ UNCHANGED <<vars, RunProg, processors, answered, killed>>

(* The loop ends when every gNodeB has answered; then the signal handlers  *)
(* are installed.                                                          *)
Subscribed ==
  /\ answered
  /\ At("subscribing", "waiting")
  /\ UNCHANGED <<vars, RunProg, processors, answered, killed>>

BeginShutdown_NotStopping ==
  /\ ~ RunProg
  /\ At("waiting", "returning")
  /\ UNCHANGED <<vars, RunProg, processors, answered, killed>>

BeginShutdown ==
  /\ ~ RunProg
  /\ At("waiting", "stopping")
  /\ Stop(main)
  /\ UNCHANGED <<RunProg, processors, answered, killed>>

JoinListener ==
  /\ mpc \in {"stopping", "closing"}
  /\ Join(main)
  /\ UNCHANGED mainVars

Stopped ==
  /\ At("stopping", "returning")
  /\ EndStop(main)
  /\ UNCHANGED <<RunProg, processors, answered, killed>>

(* The locals of main() are destroyed in the reverse order of declaration: *)
(* the processors and the handler before the xApp.                         *)
DestroyLocals ==
  /\ At("returning", "destructing")
  /\ processors' = FALSE
  /\ UNCHANGED <<vars, RunProg, answered, killed>>

EnterDestructor_NotStopping ==
  /\ At("destructing", "exited")
  /\ destroying' = TRUE
  /\ rmr_ctx' = "closed"
  /\ UNCHANGED <<listen, num_threads, thread_group, transmit, to_join, terminated,
                 threadVars, RunProg, processors, answered, killed>>

EnterDestructor ==
  /\ At("destructing", "closing")
  /\ Destroy(main)
  /\ UNCHANGED <<RunProg, processors, answered, killed>>

Exit ==
  /\ At("closing", "exited")
  /\ EndStop(main)
  /\ UNCHANGED <<RunProg, processors, answered, killed>>

(* SIGINT or SIGTERM: EndProgram, or the default action before it is       *)
(* installed.                                                              *)
Signal ==
  /\ mpc # "exited"
  /\ IF mpc \in {"starting", "subscribing"}
       THEN killed' = TRUE /\ UNCHANGED RunProg
       ELSE RunProg' = FALSE /\ UNCHANGED killed
  /\ UNCHANGED <<vars, mpc, processors, answered>>

Listen(t) ==
  /\ ListenerStep(t)
  /\ answered' = (answered \/ (mpc = "subscribing" /\ tpc[t] = "handling"))
  /\ UNCHANGED <<mpc, RunProg, processors, killed>>

MainStep ==
  \/ StartListener \/ Up \/ Subscribed \/ BeginShutdown \/ JoinListener
  \/ Stopped \/ DestroyLocals \/ EnterDestructor \/ Exit

MainNext ==
  /\ ~ killed /\ ~ terminated
  /\ \/ MainStep \/ Signal
     \/ \E t \in Threads : Listen(t)

MainSpec == MainInit /\ [][MainNext]_allVars

(* main() and the listeners run; rmr_torcv_msg, the processors and join()  *)
(* return.  No message and no signal need ever come.                       *)
MainFairness ==
  /\ WF_allVars(~ killed /\ MainStep)
  /\ \A t \in Threads : WF_allVars(~ killed /\ Listen(t))

MainFairSpec == MainSpec /\ MainFairness

----------------------------------------------------------------------------
(* A listener calls its processor, and through it the handler, only while  *)
(* they exist.                                                             *)
ProcessorsAlive ==
  \A t \in Threads : tpc[t] \in {"receiving", "handling"} => processors

(* main() uses the runtime as the class allows.                            *)
UsesRuntime == Spec

(* After a signal to the installed handler the process ends, with all      *)
(* threads joined and the context closed.                                  *)
EndsAfterSignal ==
  ~ RunProg ~> mpc = "exited" /\ rmr_ctx = "closed"
               /\ \A t \in Threads : tpc[t] \in {"none", "joined"}

(* "xAPP is UP and Listening on RMR" (kpi-xapp.cc:108): behind that line, *)
(* until it is told to stop, some thread listens, provided that a number   *)
(* of threads was given.  (With 0, "auto" in line 77, none ever does.)     *)
UpAndListening ==
  ConfiguredThreads > 0 /\ mpc \in {"subscribing", "waiting"} =>
    \E t \in Threads : tpc[t] \in Running

(* What remains of EndsAfterSignal when nothing need ever happen: main()   *)
(* returns, if it does, only with every thread it made joined and the      *)
(* context closed (xapp_utils.cc:48-63).                                   *)
CleanExit ==
  mpc = "exited" => /\ rmr_ctx = "closed"
                    /\ \A t \in Threads : tpc[t] \in {"none", "joined"}

----------------------------------------------------------------------------
(* What main() knows of the runtime at each place.                         *)

(* The mutex is main()'s while it is in Stop, and free otherwise.          *)
MutexAtMain ==
  /\ mpc \in {"stopping", "closing"} => transmit = main
  /\ mpc \notin {"stopping", "closing"} => MutexFree
  /\ destroying <=> mpc \in {"closing", "exited"}

(* The processors outlive the first Stop, behind which no thread is left.  *)
ShutdownOrder ==
  /\ processors = (mpc \notin {"destructing", "closing", "exited"})
  /\ mpc \in {"returning", "destructing", "closing", "exited"} =>
       ~ listen /\ DOMAIN thread_group = {}

(* The context is closed by the destructor alone, as its last act.         *)
ContextAtMain == rmr_ctx = "closed" <=> mpc = "exited"

(* Until it is told to stop, each of the configured threads stays in its   *)
(* loop, as _listen is never cleared before.                               *)
ListenersStay ==
  /\ mpc = "starting" => created <= ConfiguredThreads
  /\ mpc \in {"subscribing", "waiting"} => created = ConfiguredThreads
  /\ mpc \in {"starting", "subscribing", "waiting"} =>
       /\ created > 0 => listen
       /\ \A t \in 1 .. created : tpc[t] \in Running \ {"freeing"}

==================================================================================
