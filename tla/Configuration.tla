------------------------------- MODULE Configuration -------------------------------
(***************************************************************************)
(* How main() sets its configuration (src/src/get_config.cc): defaults,    *)
(* then the environment variables GNODEB, THREADS and LOG_LEVEL in that    *)
(* order, then the options of the command line from left to right.         *)
(*                                                                         *)
(* The name, the port and the redis port are options of the command line   *)
(* only and are set as the number of threads is; they are left out.  A     *)
(* number stands for the text that atoi makes it of, and a list of gNodeBs *)
(* is the sequence of the texts between its commas.                        *)
(*                                                                         *)
(* A definition named X_Y is not part of the specification: it is X with   *)
(* a plausible mistake, and shows which property notices it.               *)
(***************************************************************************)
EXTENDS Integers, Sequences

CONSTANTS
  MAX_THREADS,   (* 8                                                      *)
  Numbers,       (* the numbers THREADS and -t may give                    *)
  Texts,         (* what GNODEB and -g may give                            *)
  MaxOptions     (* bound: options of the command line                     *)

ASSUME ConfigurationAssumption ==
  /\ MAX_THREADS \in Nat \ {0} /\ Numbers \subseteq Int
  /\ Texts \subseteq Seq(STRING) /\ MaxOptions \in Nat

Levels == {"ERR", "WARN", "INFO", "DEBUG"}

(* An option and its argument; "unknown" also stands for -h, which is not  *)
(* among the options that getopt_long is given.                            *)
Options == [name : {"threads"}, value : Numbers] \cup [name : {"gNodeB"}, value : Texts]
             \cup [name : {"verbose", "unknown"}, value : {"none"}]

(* An environment variable is a set of at most one value.                  *)
Optional(values) == {{}} \cup {{v} : v \in values}
Environments == [THREADS : Optional(Numbers), GNODEB : Optional(Texts),
                 LOG_LEVEL : Optional(Levels \cup {"other"})]

VARIABLES
  env,           (* the environment                                        *)
  argv,          (* the options read from the command line so far          *)
  stage,         (* what is looked at next; "main" when all is set         *)
  num_threads, gNodeB_list, log_level

vars == <<env, argv, stage, num_threads, gNodeB_list, log_level>>

TypeOK ==
  /\ env \in Environments
  /\ argv \in Seq(Options) /\ Len(argv) <= MaxOptions
  /\ stage \in {"gnodeb", "threads", "log_level", "options", "main", "exited"}
  /\ num_threads \in Numbers \cup {1} /\ log_level \in Levels
  /\ gNodeB_list \in Seq(STRING) /\ \A i \in DOMAIN gNodeB_list : gNodeB_list[i] # ""

Init ==
  /\ env \in Environments /\ argv = <<>> /\ stage = "gnodeb"
  /\ num_threads = 1 /\ gNodeB_list = <<>> /\ log_level = "WARN"

----------------------------------------------------------------------------
(* strtok skips empty names.                                               *)
Names(text) == SelectSeq(text, LAMBDA name : name # "")

fill_gnodeb_list_Appending(text) == gNodeB_list' = gNodeB_list \o Names(text)

(* The list is cleared before it is filled.                                *)
fill_gnodeb_list(text) == gNodeB_list' = Names(text)

EnvGNodeB ==
  /\ stage = "gnodeb" /\ stage' = "threads"
  /\ \/ env.GNODEB = {} /\ UNCHANGED gNodeB_list
     \/ \E text \in env.GNODEB : fill_gnodeb_list(text)
  /\ UNCHANGED <<env, argv, num_threads, log_level>>

(* A number of threads outside 1 .. MAX_THREADS ends the program.          *)
EnvThreads ==
  /\ stage = "threads"
  /\ \/ env.THREADS = {} /\ stage' = "log_level" /\ UNCHANGED num_threads
     \/ \E n \in env.THREADS :
          /\ num_threads' = n
          /\ stage' = IF n <= 0 \/ n > MAX_THREADS THEN "exited" ELSE "log_level"
  /\ UNCHANGED <<env, argv, gNodeB_list, log_level>>

(* An illegal level stands for WARN.                                       *)
EnvLogLevel ==
  /\ stage = "log_level" /\ stage' = "options"
  /\ \/ env.LOG_LEVEL = {} /\ UNCHANGED log_level
     \/ \E level \in env.LOG_LEVEL :
          log_level' = IF level = "other" THEN "WARN" ELSE level
  /\ UNCHANGED <<env, argv, num_threads, gNodeB_list>>

(* getopt_long returns the next option.                                    *)
Read(option) ==
  /\ stage = "options" /\ Len(argv) < MaxOptions
  /\ argv' = Append(argv, option)
  /\ UNCHANGED env

OptThreads ==
  /\ \E n \in Numbers :
       Read([name |-> "threads", value |-> n]) /\ num_threads' = n
  /\ UNCHANGED <<stage, gNodeB_list, log_level>>

OptGNodeB ==
  /\ \E text \in Texts :
       Read([name |-> "gNodeB", value |-> text]) /\ fill_gnodeb_list(text)
  /\ UNCHANGED <<stage, num_threads, log_level>>

(* getopt_long sets the flag itself.                                       *)
OptVerbose ==
  /\ Read([name |-> "verbose", value |-> "none"]) /\ log_level' = "INFO"
  /\ UNCHANGED <<stage, num_threads, gNodeB_list>>

OptUnknown ==
  /\ Read([name |-> "unknown", value |-> "none"]) /\ stage' = "exited"
  /\ UNCHANGED <<num_threads, gNodeB_list, log_level>>

EndOfOptions ==
  /\ stage = "options" /\ stage' = "main"
  /\ UNCHANGED <<env, argv, num_threads, gNodeB_list, log_level>>

Next == EnvGNodeB \/ EnvThreads \/ EnvLogLevel
          \/ OptThreads \/ OptGNodeB \/ OptVerbose \/ OptUnknown \/ EndOfOptions

Spec == Init /\ [][Next]_vars

----------------------------------------------------------------------------
(* The values a parameter is given on the command line.                    *)
OnCommandLine(name) == {i \in DOMAIN argv : argv[i].name = name}

Last(positions) == CHOOSE i \in positions : \A j \in positions : j <= i

(* The value of the source with the highest priority.                      *)
Preferred(name, variable, default) ==
  IF OnCommandLine(name) # {} THEN argv[Last(OnCommandLine(name))].value
  ELSE IF variable # {} THEN CHOOSE v \in variable : TRUE
  ELSE default

(* The gNodeBs that are listed by the best source that lists any.          *)
ListedNodes(variable) ==
  IF OnCommandLine("gNodeB") = {} /\ variable = {} THEN <<>>
  ELSE Names(Preferred("gNodeB", variable, <<>>))

(* The level a value of the log level stands for.                          *)
LevelOf(value) == CASE value = "none"  -> "INFO"
                    [] value = "other" -> "WARN"
                    [] OTHER           -> value

(* "Order of priority for setting variables: command line, environment     *)
(* variable, default" (get_config.cc:24): whatever is given where, main()  *)
(* goes on with the value of the best source alone, and never with a mix   *)
(* of a list from the environment and one from the command line.           *)
PriorityKept ==
  stage = "main" =>
    /\ num_threads = Preferred("threads", env.THREADS, 1)
    /\ gNodeB_list = ListedNodes(env.GNODEB)
    /\ log_level = LevelOf(Preferred("verbose", env.LOG_LEVEL, "WARN"))

----------------------------------------------------------------------------
(* The strengthening that makes it inductive.  The command line is read    *)
(* last, ...                                                               *)
SourcesInOrder ==
  /\ env \in Environments /\ argv \in Seq(Options)
  /\ stage \in {"gnodeb", "threads", "log_level"} => argv = <<>>

(* ... an option that was given was given a last time, ...                 *)
GivenLast ==
  \A name \in {"threads", "gNodeB", "verbose"} :
    OnCommandLine(name) # {} => Last(OnCommandLine(name)) \in OnCommandLine(name)

(* ... and each value is that of the best source looked at so far.         *)
BestSoFar ==
  stage # "exited" =>
    /\ num_threads = IF stage \in {"gnodeb", "threads"} THEN 1
                       ELSE Preferred("threads", env.THREADS, 1)
    /\ gNodeB_list = IF stage = "gnodeb" THEN <<>> ELSE ListedNodes(env.GNODEB)
    /\ log_level = IF stage \in {"gnodeb", "threads", "log_level"} THEN "WARN"
                     ELSE LevelOf(Preferred("verbose", env.LOG_LEVEL, "WARN"))

ConfigurationInv == SourcesInOrder /\ GivenLast /\ BestSoFar
=====================================================================================
