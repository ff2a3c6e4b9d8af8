------------------------------ MODULE ConfigurationProofs ------------------------------
(***************************************************************************)
(* Proofs about Configuration for every environment, every command line    *)
(* and every limit of threads.                                             *)
(***************************************************************************)
EXTENDS Configuration, TLAPS

Parameters == {"threads", "gNodeB", "verbose"}

(* A maximum is unique.                                                    *)
LEMMA LastIsMaximum ==
  ASSUME NEW positions \in SUBSET Int, NEW m \in positions, \A j \in positions : j <= m
  PROVE  Last(positions) = m
<1>1. \A i \in positions : (\A j \in positions : j <= i) => i = m
  OBVIOUS
<1>2. Last(positions) \in positions /\ \A j \in positions : j <= Last(positions)
  BY DEF Last
<1>3. QED
  BY <1>1, <1>2

(* An option that is read becomes the last of its name, ...                *)
LEMMA GivenNow ==
  ASSUME SourcesInOrder, NEW option \in Options, argv' = Append(argv, option)
  PROVE  /\ OnCommandLine(option.name)' # {}
         /\ Last(OnCommandLine(option.name)') \in OnCommandLine(option.name)'
         /\ argv'[Last(OnCommandLine(option.name)')] = option
<1> DEFINE n == Len(argv) + 1
           positions == {i \in DOMAIN argv' : argv'[i].name = option.name}
<1>1. Len(argv) \in Nat /\ DOMAIN argv' = 1 .. n /\ argv'[n] = option
  BY DEF SourcesInOrder
<1>2. positions \in SUBSET Int /\ n \in positions /\ \A j \in positions : j <= n
  BY <1>1
<1>3. Last(positions) = n
  <2> HIDE DEF n, positions
  <2> QED
    BY <1>2, LastIsMaximum
<1>4. OnCommandLine(option.name)' = positions
  BY DEF OnCommandLine
<1>5. QED
  BY <1>1, <1>2, <1>3, <1>4

(* ... and those of other names remain as they were.                       *)
LEMMA OthersGiven ==
  ASSUME SourcesInOrder, GivenLast, NEW option \in Options, argv' = Append(argv, option),
         NEW name \in Parameters, name # option.name
  PROVE  /\ OnCommandLine(name)' = OnCommandLine(name)
         /\ OnCommandLine(name) # {} =>
              argv'[Last(OnCommandLine(name))] = argv[Last(OnCommandLine(name))]
<1>1. /\ Len(argv) \in Nat /\ DOMAIN argv = 1 .. Len(argv)
      /\ DOMAIN argv' = 1 .. Len(argv) + 1 /\ argv'[Len(argv) + 1] = option
      /\ \A i \in 1 .. Len(argv) : argv'[i] = argv[i]
  BY DEF SourcesInOrder
<1>2. OnCommandLine(name)' = OnCommandLine(name)
  BY <1>1 DEF OnCommandLine
<1>3. OnCommandLine(name) # {} => Last(OnCommandLine(name)) \in DOMAIN argv
  BY DEF GivenLast, Parameters, OnCommandLine
<1>4. QED
  BY <1>1, <1>2, <1>3

(* So one more option decides its own parameter and no other.              *)
LEMMA OptionRead ==
  ASSUME SourcesInOrder, GivenLast, NEW option \in Options, Read(option),
         stage' \in {"options", "exited"}
  PROVE  /\ SourcesInOrder' /\ GivenLast'
         /\ OnCommandLine(option.name)' # {}
         /\ \A name \in Parameters : name # option.name =>
              OnCommandLine(name)' = OnCommandLine(name)
         /\ \A variable, default :
              /\ Preferred(option.name, variable, default)' = option.value
              /\ \A name \in Parameters : name # option.name =>
                   Preferred(name, variable, default)' = Preferred(name, variable, default)
<1>1. argv' = Append(argv, option) /\ env' = env /\ stage = "options"
  BY DEF Read
<1>2. /\ OnCommandLine(option.name)' # {}
      /\ Last(OnCommandLine(option.name)') \in OnCommandLine(option.name)'
      /\ argv'[Last(OnCommandLine(option.name)')] = option
  BY <1>1, GivenNow
<1>3. \A name \in Parameters : name # option.name =>
        /\ OnCommandLine(name)' = OnCommandLine(name)
        /\ OnCommandLine(name) # {} =>
             argv'[Last(OnCommandLine(name))] = argv[Last(OnCommandLine(name))]
  BY <1>1, OthersGiven
<1>4. \A variable, default :
        /\ Preferred(option.name, variable, default)' = option.value
        /\ \A name \in Parameters : name # option.name =>
             Preferred(name, variable, default)' = Preferred(name, variable, default)
  BY <1>2, <1>3 DEF Preferred
<1>5. GivenLast'
  BY <1>2, <1>3 DEF GivenLast, Parameters
<1>6. SourcesInOrder'
  BY <1>1 DEF SourcesInOrder
<1>7. QED
  BY <1>2, <1>3, <1>4, <1>5, <1>6

----------------------------------------------------------------------------
LEMMA ConfigurationInitInv == Init => ConfigurationInv
  BY DEF Init, ConfigurationInv, SourcesInOrder, GivenLast, BestSoFar, OnCommandLine

(* Before the command line is read, the source of a parameter is its       *)
(* variable of the environment, ...                                        *)
LEMMA NothingOnCommandLine ==
  ASSUME argv = <<>>, NEW name, NEW variable, NEW default
  PROVE  /\ OnCommandLine(name) = {}
         /\ Preferred(name, variable, default)
              = IF variable # {} THEN CHOOSE v \in variable : TRUE ELSE default
  BY DEF Preferred, OnCommandLine

(* ... which has one value at most.                                        *)
LEMMA VariableHasOneValue ==
  ASSUME NEW values, NEW variable \in Optional(values), NEW v \in variable
  PROVE  (CHOOSE w \in variable : TRUE) = v
<1>1. variable = {v}
  BY DEF Optional
<1>2. QED
  BY <1>1

(* What is not read leaves the sources as they are.                        *)
LEMMA NothingRead ==
  ASSUME SourcesInOrder, GivenLast, UNCHANGED <<env, argv>>,
         stage' \in {"gnodeb", "threads", "log_level"} => argv = <<>>
  PROVE  /\ SourcesInOrder' /\ GivenLast'
         /\ UNCHANGED <<Preferred("threads", env.THREADS, 1), ListedNodes(env.GNODEB),
                        Preferred("verbose", env.LOG_LEVEL, "WARN")>>
  BY DEF SourcesInOrder, GivenLast, OnCommandLine, Preferred, ListedNodes

LEMMA EnvGNodeBInv == ASSUME ConfigurationInv, EnvGNodeB PROVE ConfigurationInv'
<1> USE DEF ConfigurationInv
<1>1. /\ SourcesInOrder' /\ GivenLast'
      /\ UNCHANGED ListedNodes(env.GNODEB)
  BY NothingRead DEF EnvGNodeB, SourcesInOrder
<1>2. argv = <<>> /\ env.GNODEB \in Optional(Texts)
  BY DEF EnvGNodeB, SourcesInOrder, Environments
<1>3. gNodeB_list' = ListedNodes(env.GNODEB)
  <2>1. CASE env.GNODEB = {}
    BY <1>2, <2>1, NothingOnCommandLine DEF EnvGNodeB, BestSoFar, ListedNodes
  <2>2. ASSUME NEW text \in env.GNODEB, fill_gnodeb_list(text)
        PROVE  gNodeB_list' = ListedNodes(env.GNODEB)
    <3>1. (CHOOSE v \in env.GNODEB : TRUE) = text
      BY <1>2, VariableHasOneValue
    <3>2. env.GNODEB # {}
      OBVIOUS
    <3>3. Preferred("gNodeB", env.GNODEB, <<>>) = CHOOSE v \in env.GNODEB : TRUE
      BY <1>2, <3>2, NothingOnCommandLine
    <3>4. ListedNodes(env.GNODEB) = Names(Preferred("gNodeB", env.GNODEB, <<>>))
      BY <3>2 DEF ListedNodes
    <3>5. QED
      BY <2>2, <3>1, <3>3, <3>4 DEF fill_gnodeb_list
  <2>3. QED
    BY <2>1, <2>2 DEF EnvGNodeB
<1>4. QED
  BY <1>1, <1>3 DEF EnvGNodeB, BestSoFar

LEMMA EnvThreadsInv == ASSUME ConfigurationInv, EnvThreads PROVE ConfigurationInv'
<1> USE DEF ConfigurationInv
<1>1. /\ SourcesInOrder' /\ GivenLast'
      /\ UNCHANGED <<Preferred("threads", env.THREADS, 1), ListedNodes(env.GNODEB)>>
  BY NothingRead DEF EnvThreads, SourcesInOrder
<1>2. argv = <<>> /\ env.THREADS \in Optional(Numbers)
  BY DEF EnvThreads, SourcesInOrder, Environments
<1>3. num_threads' = Preferred("threads", env.THREADS, 1)
  <2>1. CASE env.THREADS = {}
    BY <1>2, <2>1, NothingOnCommandLine DEF EnvThreads, BestSoFar
  <2>2. ASSUME NEW n \in env.THREADS, num_threads' = n
        PROVE  num_threads' = Preferred("threads", env.THREADS, 1)
    <3>1. (CHOOSE v \in env.THREADS : TRUE) = n
      BY <1>2, VariableHasOneValue
    <3>2. env.THREADS # {}
      OBVIOUS
    <3>3. Preferred("threads", env.THREADS, 1) = CHOOSE v \in env.THREADS : TRUE
      BY <1>2, <3>2, NothingOnCommandLine
    <3>4. QED
      BY <2>2, <3>1, <3>3
  <2>3. QED
    BY <2>1, <2>2 DEF EnvThreads
<1>4. QED
  BY <1>1, <1>3 DEF EnvThreads, BestSoFar

LEMMA EnvLogLevelInv == ASSUME ConfigurationInv, EnvLogLevel PROVE ConfigurationInv'
<1> USE DEF ConfigurationInv
<1>1. /\ SourcesInOrder' /\ GivenLast'
      /\ UNCHANGED <<Preferred("threads", env.THREADS, 1), ListedNodes(env.GNODEB),
                     Preferred("verbose", env.LOG_LEVEL, "WARN")>>
  BY NothingRead DEF EnvLogLevel, SourcesInOrder
<1>2. argv = <<>> /\ env.LOG_LEVEL \in Optional(Levels \cup {"other"})
  BY DEF EnvLogLevel, SourcesInOrder, Environments
<1>3. log_level' = LevelOf(Preferred("verbose", env.LOG_LEVEL, "WARN"))
  <2>1. CASE env.LOG_LEVEL = {}
    <3>1. log_level' = "WARN" /\ Preferred("verbose", env.LOG_LEVEL, "WARN") = "WARN"
      BY <1>2, <2>1, NothingOnCommandLine DEF EnvLogLevel, BestSoFar
    <3>2. LevelOf("WARN") = "WARN"
      BY DEF LevelOf
    <3>3. QED
      BY <3>1, <3>2
  <2>2. ASSUME NEW level \in env.LOG_LEVEL,
               log_level' = IF level = "other" THEN "WARN" ELSE level
        PROVE  log_level' = LevelOf(Preferred("verbose", env.LOG_LEVEL, "WARN"))
    <3>1. Preferred("verbose", env.LOG_LEVEL, "WARN") = level
      BY <1>2, NothingOnCommandLine, VariableHasOneValue
    <3>2. level \in Levels \cup {"other"}
      BY <1>2 DEF Optional
    <3>3. LevelOf(level) = IF level = "other" THEN "WARN" ELSE level
      BY <3>2 DEF LevelOf, Levels
    <3>4. QED
      BY <2>2, <3>1, <3>3
  <2>3. QED
    BY <2>1, <2>2 DEF EnvLogLevel
<1>4. QED
  BY <1>1, <1>3 DEF EnvLogLevel, BestSoFar

(* An option takes effect, and the others stay in effect.                  *)
LEMMA OptionInv ==
  ASSUME ConfigurationInv, OptThreads \/ OptGNodeB \/ OptVerbose \/ OptUnknown
  PROVE  ConfigurationInv'
<1> USE DEF ConfigurationInv
<1> DEFINE Effect(option) ==
      /\ SourcesInOrder' /\ GivenLast'
      /\ Preferred("threads", env.THREADS, 1)'
           = IF option.name = "threads" THEN option.value
             ELSE Preferred("threads", env.THREADS, 1)
      /\ ListedNodes(env.GNODEB)'
           = IF option.name = "gNodeB" THEN Names(option.value) ELSE ListedNodes(env.GNODEB)
      /\ Preferred("verbose", env.LOG_LEVEL, "WARN")'
           = IF option.name = "verbose" THEN option.value
             ELSE Preferred("verbose", env.LOG_LEVEL, "WARN")
<1>1. ASSUME NEW option \in Options, Read(option), stage' \in {"options", "exited"}
      PROVE  Effect(option)
  <2>1. UNCHANGED env
    BY <1>1 DEF Read
  <2>2. /\ Preferred("threads", env.THREADS, 1)'
             = IF option.name = "threads" THEN option.value
               ELSE Preferred("threads", env.THREADS, 1)
        /\ Preferred("verbose", env.LOG_LEVEL, "WARN")'
             = IF option.name = "verbose" THEN option.value
               ELSE Preferred("verbose", env.LOG_LEVEL, "WARN")
        /\ Preferred("gNodeB", env.GNODEB, <<>>)'
             = IF option.name = "gNodeB" THEN option.value
               ELSE Preferred("gNodeB", env.GNODEB, <<>>)
        /\ IF option.name = "gNodeB" THEN OnCommandLine("gNodeB")' # {}
           ELSE UNCHANGED OnCommandLine("gNodeB")
    BY <1>1, <2>1, OptionRead DEF Parameters
  <2>3. SourcesInOrder' /\ GivenLast'
    BY <1>1, OptionRead
  <2>4. QED
    BY <2>1, <2>2, <2>3 DEF ListedNodes
<1> HIDE DEF Effect
<1>2. CASE OptThreads
  <2>1. PICK n \in Numbers :
          Read([name |-> "threads", value |-> n]) /\ num_threads' = n
    BY <1>2 DEF OptThreads
  <2>2. Effect([name |-> "threads", value |-> n])
    BY <1>1, <1>2, <2>1 DEF OptThreads, Read, Options
  <2>3. QED
    BY <1>2, <2>1, <2>2 DEF OptThreads, Read, BestSoFar, Effect
<1>3. CASE OptGNodeB
  <2>1. PICK text \in Texts :
          Read([name |-> "gNodeB", value |-> text]) /\ fill_gnodeb_list(text)
    BY <1>3 DEF OptGNodeB
  <2>2. Effect([name |-> "gNodeB", value |-> text])
    BY <1>1, <1>3, <2>1 DEF OptGNodeB, Read, Options
  <2>3. QED
    BY <1>3, <2>1, <2>2 DEF OptGNodeB, Read, BestSoFar, Effect, fill_gnodeb_list
<1>4. CASE OptVerbose
  <2>1. Effect([name |-> "verbose", value |-> "none"])
    BY <1>1, <1>4 DEF OptVerbose, Read, Options
  <2>2. LevelOf("none") = "INFO"
    BY DEF LevelOf
  <2>3. QED
    BY <1>4, <2>1, <2>2 DEF OptVerbose, Read, BestSoFar, Effect
<1>5. CASE OptUnknown
  <2>1. Effect([name |-> "unknown", value |-> "none"])
    BY <1>1, <1>5 DEF OptUnknown, Read, Options
  <2>2. QED
    BY <1>5, <2>1 DEF OptUnknown, BestSoFar, Effect
<1>6. QED
  BY <1>2, <1>3, <1>4, <1>5

LEMMA ConfigurationNextInv == ConfigurationInv /\ [Next]_vars => ConfigurationInv'
<1> SUFFICES ASSUME ConfigurationInv, [Next]_vars
             PROVE  ConfigurationInv'
  OBVIOUS
<1>1. CASE EndOfOptions \/ UNCHANGED vars
  <2>1. UNCHANGED <<env, argv>> /\ (stage' = stage \/ (stage = "options" /\ stage' = "main"))
    BY <1>1 DEF EndOfOptions, vars
  <2>2. /\ SourcesInOrder' /\ GivenLast'
        /\ UNCHANGED <<Preferred("threads", env.THREADS, 1), ListedNodes(env.GNODEB),
                       Preferred("verbose", env.LOG_LEVEL, "WARN")>>
    BY <2>1, NothingRead DEF ConfigurationInv, SourcesInOrder
  <2>3. QED
    BY <1>1, <2>1, <2>2 DEF EndOfOptions, vars, ConfigurationInv, BestSoFar
<1>2. QED
  BY <1>1, EnvGNodeBInv, EnvThreadsInv, EnvLogLevelInv, OptionInv DEF Next

LEMMA ConfigurationInvHolds == Spec => []ConfigurationInv
  BY ConfigurationInitInv, ConfigurationNextInv, PTL DEF Spec

(* get_config.cc: main() goes on with the value of the command line before *)
(* that of the environment before the default, for each parameter alone    *)
(* and for whatever was given.                                             *)
THEOREM PriorityAlwaysKept == Spec => []PriorityKept
<1>1. ConfigurationInv => PriorityKept
  BY DEF ConfigurationInv, BestSoFar, PriorityKept
<1>2. QED
  BY <1>1, ConfigurationInvHolds, PTL
========================================================================================
