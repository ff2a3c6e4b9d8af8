# A TLA+ model of the KPI monitoring xApp (kpimon)

kpimon is a process of the O-RAN near-real-time RIC. At start-up it asks every
gNodeB of a configured list for a *subscription* to KPI reports; from then on it
receives *indications* through RMR (the RIC's message router), decodes them and
stores the values in Redis. This directory holds TLA+ modules of the parts that
decide something, the TLC instances that check them, and theorems checked by
TLAPS. Paths below are relative to the repository (`src/` is its root, so the
program itself is in `src/src/`).

Contents: [1 inventory](#1-inventory) -
[2 modules](#2-modules-and-how-they-correspond-to-the-code) -
[3 runs](#3-what-the-runs-check) - [4 fairness](#4-fairness) -
[5 proofs](#5-what-is-proved) - [6 findings](#6-findings) -
[7 not modelled](#7-what-is-not-modelled-or-only-checked) - [8 plan](#8-plan)

## 1 Inventory

### Threads and the flow of a message

    main()  ---- add_subscription ----> SubscriptionHandler::RequestSubscription
      |                                    | XaPP::Send            ^ cv.wait_for
      | StartThread / Stop                 v                       |
      v                                   RMR  ---> gNodeB ---> RMR
    listener threads (XaPP::_workThread) <-----------------------/
      |  one message_processor each
      +-- subscription messages -> SubscriptionHandler::Response -> cv.notify_all
      +-- indications -> decode -> kpi_msg_handler -> kpi_db_resp -> Redis

The main thread is the only requester. It runs concurrently with the listener
threads, with which it shares the subscription handler and the RMR context; the
listener threads share one Redis context.

### Components

| component | state | operations | interacts with | what makes it correct |
|---|---|---|---|---|
| **Subscription handler** `E2AP-c/subscription/subscription_handler.{hpp,cc}` | `requests_table`, `subscription_responses`, `unique_request_id`, `_data_lock`, `_cv`, `_time_out`, `_num_retries` | `RequestSubscription`, `Response`, `clear`, setters | called by main and by every listener; transmits through a callback | one verdict per request, never a lost wake-up, no entry left behind, the returned value agrees with what is stored, every call returns |
| **Subscription loop** `kpi-xapp.cc` `main` | `gNodeB_list`, `it`, `attempt`, `res` | one round per gNodeB with a limit of attempts | calls the handler | nothing removed without an acceptance, none lost, iterator valid, each subscribed in its turn |
| **XaPP runtime** `xapp_utils.{hpp,cc}` | `_rmr_ctx`, `thread_group`, `_listen`, `_transmit`, `_num_retries`, `_redis_context`, `_rmr_tx_message` | constructor, `Send` (three forms), `set_num_retries`, `Start`, `StartThread`, `_workThread`, `Stop`, destructor | RMR, Redis connection, message processors | no thread left unjoined, `Stop` ends, a success is reported only if RMR took the caller's own message, once |
| **Message processor** `message_processor_class.cc`, `E2AP-c/e2ap_indication.cc` | counters, `_ref_sub_handler`, `_ref_kpi_msg_handler`, `indication_data` | `operator()`: dispatch by RMR type, decode, hand on | called by `_workThread` with each message | each message counted once and handed to the right handler; no value older than the last one received is used; every decoded PDU freed |
| **KPI handler and store** `KPI-Message-Handler/KPIMessageHandler.cc`, `KPI-Monitoring/*` | `m_access`, `kpi_data`, `redis_reply`, the Redis context | `operator()`, `get_fields`, `UpdateDB` with `Exists`, `Del`, `Rpush` | Redis, shared by all listeners | what is stored for a gNodeB is its report, not a mixture; a thread reads the replies to its own commands; each call reads its own report |
| **E2AP / E2SM codecs** `E2AP-c/subscription/subscription_{request,response}.cc`, `*_helper.hpp`, `E2SM/*` | ASN.1 structures reused between calls, arrays that grow | `encode_*`, `set_fields`, `get_fields` | called by main, the handler and the processors | what is decoded is what was encoded; the arrays hold as many actions as asked; constraints reported |
| **Configuration** `get_config.cc`, `kpi-xapp.hpp` | `struct configuration` | environment and command line, once | main | options override the environment |
| ASN.1 library `asn1c_defs/` | - | generated by asn1c | codecs | generated, left aside |
| RMR, hiredis, mdclog | external | | | appear as environment actions |

### What is hard

* *Interleaving.* A response can be handled at any point of the call it answers:
  before the caller sleeps, while its wait times out, after it returned.
* *Delivery.* RMR loses, delays, reorders and repeats; the RAN may accept after
  the caller has given up.
* *Boundaries.* Request ids are an `unsigned int` in the handler, an `int` as table
  key and 0..65535 on the wire, and a response, once stored, stays.
* *Retries.* The loop over gNodeBs reuses `res`, `attempt` and an iterator into a
  vector it erases from, and asks again under new ids.
* *State kept between messages* in the processors, the report and the store, and a
  Redis context that several threads write to.

`PROJECT.json` ("hazards") lists each of these at its line with the properties
that watch it, or says why none does. Some of those without a property are what the code simply does (an id
that comes back, `-t 0`, a report that cannot be decoded): the models have them, and sections 2 and 6 name the place.

## 2 Modules and how they correspond to the code

| module | role |
|---|---|
| `SubscriptionService` | abstract: what a caller of `RequestSubscription` is promised |
| `SubscriptionProcesses` | abstract: what of it is left when the process is started again or ids come back |
| `SubscriptionCampaign` | abstract: what the subscribing part of the program means to the operator of the network |
| `SendService` | abstract: what a transmission means to the one who asks for it |
| `SubscriptionHandler` | the handler, with requester and listener threads |
| `SubscriptionHandlerProofs` | theorems about it |
| `MCSubscriptionHandler` | its instances for TLC |
| `SubscribeLoop` | the loop of `main()`, composed with `SubscriptionService` |
| `SubscribeLoopProofs`, `MCSubscribeLoop` | theorems about it, its instances for TLC |
| `XappRuntime` | the threads of class `XaPP`, for any caller the class allows |
| `MCXappRuntime` | its instances for TLC |
| `MainProgram` | `main()` from its first listener to its end, composed with `XappRuntime` |
| `MCMainProgram` | its instances for TLC |
| `RuntimeProofs` | theorems about `XappRuntime` and `MainProgram` |
| `SubscriptionSystem` | handler, loop, network, gNodeBs and restarts together |
| `SubscriptionSystemProofs`, `MCSubscriptionSystem` | theorems about it, its instances for TLC |
| `RmrSend` | the constructor of class `XaPP` and its sending side |
| `RmrSendProofs`, `MCRmrSend` | theorems about it, its instances for TLC |
| `MessageProcessor` | one message processor: dispatch, layers of decoding, what is kept and freed |
| `KpiStore` | the KPI handler and the Redis context shared by threads |
| `MCKpiStore` | its instances for TLC |
| `IndicationProofs` | theorems about `MessageProcessor` and `KpiStore` |
| `SubscriptionCodec` | the encoders and their blocks of items |
| `SubscriptionCodecProofs`, `MCSubscriptionCodec` | theorems about it, its instances for TLC |
| `Configuration` | defaults, environment and command line |
| `ConfigurationProofs`, `MCConfiguration` | theorems about it, its instances for TLC |

A definition named `X_Y` is `X` with a plausible mistake (a dropped guard, a lock
released early, a missing reset). It is no part of a specification; put in the
place of `X` it must break the property it is paired with in `PROJECT.json`
("mutants").

### SubscriptionHandler

*State.* `requests_table` and `subscription_responses` are the two maps; a status is
`absent` (what `get_request_status` reports as -1), `pending`, `success`, `failed`
or `duplicate`, and of a stored response only its presence is kept.
`unique_request_id` counts modulo `IdModulus` (2^32 in the code). `data_lock` is the
owner of `_data_lock` where a thread keeps the mutex from one step to the next;
`pc` and `lpc` say where each requester and listener is, `req_id` and `message`
what it is working on. `elapsed` is the time since `start` in units of `_time_out`,
rounded up, and capped just past the deadline. `outcome` is what the last call
returned. `requested` and `inbound` are the network: ids RMR has taken, and
messages the RAN has sent, which are never removed and so can be delivered late,
twice, in any order or not at all. `transmitted` is a history that the code does not keep: what
the transmitter has returned for each id, and `repeated` once it has been called for it again. No guard reads it.

*Steps.* One action stands for the code between two points where another thread can
run. A block that takes and releases the mutex is one action guarded by
`LockFree`.

| code (`subscription_handler.hpp`) | action |
|---|---|
| 113 `get_next_id` | `GetNextId` |
| 120-125 the request cannot be encoded | `EncodeError` (no lock needed) |
| 128-135 enter the request, or fail if the id is taken | `AddRequestEntry` |
| 138 `unique_lock` | `AcquireLock` |
| 142, 152 `tx` succeeds, `start` | `Transmit` |
| 142-148 `tx` fails | `TransmitError` |
| 158 `wait_for` releases the mutex | `BeginWait` |
| 158 `wait_for` times out or wakes spuriously | `WakeUp` |
| 158-208 with the mutex again: status, deadline, return or wait again | `CheckStatus` |
| `subscription_handler.cc` 188-226 a message arrives and is decoded | `Receive` |
| 229-296 the block under the mutex | `RecordVerdict` |
| 299-306 `notify_all` | `NotifyAll` |
| 75-82 `clear` | `Clear` |

The mutex is free between 135 and 138, and so are the two actions; between 142 and
158 it is held, and no listener can record anything. `CheckStatus` goes back to
`waiting` without an intermediate release, since `wait_for` gives up the mutex and
blocks in one step. `Strays` are messages no request has caused (answers to a
previous incarnation of the xApp, or with an arbitrary id).

### SubscriptionService and the refinement

A call is *open* until the first verdict reaches the handler, then *granted* or
*refused*; the verdict is one the RAN gave to the request of this very call;
`Return` yields true exactly from *granted*. An open call may also return
false. The mapping (`CallPhases`, `RanAnswers`) reads the phase off the location and
the status, and the answers off `inbound`. `ImplementsService` therefore says that
the tables, ids, clock, mutex and messages are invisible to a caller; it fails, for
instance, if `Response` lets a late acceptance replace a failure.

`SubscriptionProcesses` is what remains of these promises over the restarts of the process, and when ids
wrap. `fresh` says that no answer is on its way but to a request of this process; while it holds, the steps are those of
`SubscriptionService`. Afterwards answers with the id of a call may exist when it begins (`Reopen`), the call may be decided before its
request is sent, and may then still fail because it cannot be (`Withdraw`), and an answer to a response
that is already stored is a refusal, even an acceptance (`RefuseAnswered`). `StartAgain` is the restart. Still a call is
decided once, is granted only if an acceptance of its id was sent, and returns true only when granted.
Each of the three was needed: without `Reopen` or `Withdraw` run `system_restart` shows a step of the code that is none of the abstract module, without
`RefuseAnswered` the same instance with `IdModulus = 2` does.

`SendService` is the contract at the lower side of the handler: in one step a transmission returns true and RMR has taken the message, or
it returns false and RMR never will. Both sides of it are shown. `RmrSend` implements it (`ImplementsSender`: a message is one call).
The handler uses it (`UsesTransmitter`: a message is an id): an id is handed to the transmitter once, neither again by the call that waits for its verdict nor,
in another call, after the first has failed. The mapping reads that off the history `transmitted`, since in the set `requested` a repetition
would not show; a call that returns before it gets to the transmitter is no step of the service. In a new process, where ids begin again, so does the history (`Restart`).

### SubscribeLoop

One action per stretch between calls: `OuterTest`, `InnerExit`, `StartCall`,
`EndCall`, `After` (`kpi-xapp.cc` 159-187). `it` is a position in the list, with
`Len + 1` for `end()`. The handler is `INSTANCE SubscriptionService`, whose steps are
joined to the loop's: `StartCall` opens a call and draws an id, `EndCall` returns.
`outage[g]` is the number of calls to `g` that still fail (for whatever reason: no
answer, refusal, lost message), `Never` if all of them do; any value of `Outages` is possible
initially. `calls` counts ids up to the first that cannot be encoded (`MaxRequestorId`, 65535
in the code); a call past it is never `Sent`. `granted` is a history variable: each
removed entry with whether the RAN had accepted a call made for it in the same round (`asked`). `RunProg`
stays 1 in the loop, because the signal handlers are installed after it
(line 193).

### XappRuntime

*State.* `listen`, `num_threads`, `thread_group` and `rmr_ctx` are the fields of those
names, a thread being the number of its creation. `transmit` is the owner of the mutex
`_transmit` where it is kept from one step to the next, which only `Stop` does;
`to_join` are the entries its loop has not reached. `tpc` says where each listener is.
What a processor leaves in the buffer is not followed: `_workThread` drops the result (`Handled`).

| code | action |
|---|---|
| `xapp_utils.hpp` 203-231 `Start` | `Start` |
| `xapp_utils.hpp` 234-260 `StartThread` | `StartThread` |
| `xapp_utils.cc` 230-231, then each round of 234-240, then 243 | `BeginStop` (`Stop`), `Join`, `EndStop` |
| `xapp_utils.cc` 48-63 `~XaPP`: `Stop()`, then `rmr_close` | `Destroy`, `Join`, `EndStop` |
| `xapp_utils.hpp` 139-200 `_workThread` | `Enter`, `TestListen`, `ReceiveNothing`, `ReceiveMessage`, `Handled`, `FreeBuffer` |

`Start` inserts under the keys from 0 on. Where one is taken `insert` does nothing, the
`std::thread` made for it is destroyed while joinable, and that is `std::terminate`: a
branch of its own, after which nothing happens. `_listen` is a plain `bool` that the
listeners read without the mutex. It is read through a member function of another
translation unit in each round of the loop, so that the read is really made, and it
is modelled as one read of the current value. What the processor does with a message
is not part of this module.

### MainProgram

One thread controls the runtime here. `mpc` is the place in `kpi-xapp.cc`: `StartListener`
is a round of the loop at line 103, `Up` the line 108 behind it, `Subscribed` the end of
the loop over gNodeBs (`SubscribeLoop` has its steps; here it needs a listener to
have handled something, unless the list is empty), `BeginShutdown`, `JoinListener` and `Stopped` are `Stop()` at the end
of `main()`, `DestroyLocals` the destruction of the processors and the handler, which
were declared after the xApp and go before it, `EnterDestructor` to `Exit` is `~XaPP`. `Signal`
is SIGINT or SIGTERM at any moment: before the handlers are installed at line
193 it kills the process. The initial state has `NumThreads` (what the constructor got) and
`ConfiguredThreads` (what the loops of `main()` count to); they differ only for `-t 0`.

### SubscriptionSystem

EXTENDS `SubscriptionHandler` with one requester, `main`, and no strays: every message a
listener takes is the answer of a gNodeB. `Ask` is the beginning of `add_subscription` for
`Target`, the gNodeB of `*it`; `TransmitTo` is `Transmit` with the receiver recorded in `sent`;
`HandlerStep` are all other steps of the handler; `Answered` is the return to the loop, which erases the
gNodeB or asks it again (`gNodeB_list` is written from `*it` on: the iterator only moves by an
erase). `GNodeBAnswers` joins an acceptance or a rejection to `inbound`, from where it can be
delivered late, again or never, and `held` records what the RAN has accepted. `Restart` ends the process and starts it again: all
of the handler's and the loop's state is lost, the network and the RAN keep theirs. Attempts are not counted and the
sleep between them is not modelled (any call may come at any time). `Processes` is the refinement: the phases and answers of
the handler, with `fresh` until the first restart if `NoWrap` holds.

`Campaign` is a second refinement, of the whole: `remaining` is `gNodeB_list`, `asked` and `subscribed` are the gNodeBs in
`sent` and `held`. To the operator the program asks the first gNodeB of the list (`Ask`), one that was asked accepts (`Subscribe`), and the first one leaves the
list (`Leave`); handler, ids, messages and listeners are gone. In the first process only a gNodeB that has itself subscribed leaves. After `StartAgain` it was
asked, and somebody who was asked has subscribed: no more is true, see 6.

### RmrSend

| code (`xapp_utils.cc`) | action |
|---|---|
| 67-86 `init` | `InitRmr` |
| 108-126 the wait for a routing table, 127-140 the buffer | `Poll`, `Ready`, `NoRoutes` |
| 89-104 `redisInit` | `ConnectRedis` |
| `subscription_handler.hpp` 137-138 the mutex the program sends under | `AcquireLock` |
| 143-165, 168-179, 183 the three overloads up to the common part | `FillTlv`, `FillMeid`, `OwnBuffer` |
| 185-187 | `TestLength` |
| 188-213 one round of the loop: taken, to be tried again, anything else | `Transmit`, `TransmitRetry`, `TransmitError` |
| 220-224 | `GiveUp` |
| 276-282 `set_num_retries`, by any thread at any time | `SetNumRetries` |

A message stands for the one call that sends it; `tx_message` says whose payload is in the one
transmit buffer, `taken` how often RMR was given each message and accepted it. The counters are
not atomic in the code, and the mutex of the caller is what orders them too. RMR is taken to leave
the caller its buffer.

### MessageProcessor

One action per path through `operator()` (a processor belongs to one thread): `SubscriptionMessage`,
`UnknownMessage`, `UndecodablePdu`, `BadHeader`, `NoKpiHandler`, `KpiRefused`, `KpiAccepted`. `Receive` counts and numbers the message,
`DecodeIndication` is what the last four share. Messages are known by their numbers, an
element of `indication_data` by the number of the indication that carried it: an indication without it
leaves the older one (`get_fields`), and decoding memory that was freed may give anything (`Decodings`).
`heap` holds the structures allocated for each message and not freed. `KpiHandlers` says what
`_ref_kpi_msg_handler` may be: the program never assigns it (`"null"`); with `"assigned"` the class is
examined as `src/README.md` describes it, with a handler registered.

### KpiStore

One action per stretch of `kpi_msg_handler::operator()` that other threads can come between: `Acquire` (the mutex of the
handler), `Decode` or `DecodeFails` up to `UpdateDB`, `Send` and `Read` for each `redisCommand`, `Return`. `connection` is the queue of
replies on the one Redis context, `redis_reply` the member that keeps the last one. `todo` are the commands of the
present update: `EXISTS`, then what `Updates` makes of the reply. `gnbId` points into the decoded report and is `Freed` after it,
`numberOfUEs` is optional. `KeyOf` is what Redis gets as a key: the code passes a `std::string` through `...`
to a `%s`, so the bytes are not those of the name, and the model says no more than that there are some (`OtherKeys`).
`Crash` is the update for a report that could not be decoded (a string is made of the name of no report, null, or of an
earlier one, freed) and a missing reply. `HandlerOf` says which
handler each thread calls: one for all, as the mutex in the class suggests (nothing in the program makes a handler).

### SubscriptionCodec

`EncodeRequest`, `EncodeResponse`, `EncodeFailure` and `EncodeTrigger` are calls of the three encoding classes on objects that are kept: `SetFields` grows, fills
and points, the second half of `Encode` is the test of the constraints and the encoding. `size` is the number of items the object
believes a block holds, `bytes` what `realloc` was asked for; `list` are the slots an ASN.1 list points to.
`MustGrow` and `BytesFor` keep the difference between the classes: the response compares with `>=` and multiplies by the size of an item, the request and the
event trigger compare with `<` and do not multiply. An item has its action id and whether its cause is one that the switch knows.
After a write behind a block nothing more is said. `Decoded` is `get_fields` on a fresh helper (the handler
makes one for every message).

### Configuration

`EnvGNodeB`, `EnvThreads` and `EnvLogLevel` are the three parts of `get_environment_config`; `OptThreads`, `OptGNodeB`, `OptVerbose` and `OptUnknown` the cases of the
loop of `get_command_line_config`, each reading one more option; `EndOfOptions` its end. `--verbose` has no case: `getopt_long` writes the log level
through the pointer in its table. `stage` is the place, `"exited"` the two exits.

## 3 What the runs check

| run | instance | properties |
|---|---|---|
| `handler_calls` | 2 requesters, 2 listeners, 2 calls under different ids, 1 retry, `FairSpec` | `NoLostWakeup`, `OutcomeMatchesStore`, `NeverDuplicate`, `ImplementsService`, `UsesTransmitter`, `EveryCallReturns`, `SuccessIsReturned` |
| `handler_api` | `ApiSpec`: 2 requesters, 1 listener, calls without limit, ids 0..2 coming back (2 cannot be encoded), `clear()` at any time, any verdict for any id at any time | `TypeOK`, `ResponseStored`, `FirstVerdictStands` |
| `loop_all` | 3 gNodeBs, 2 attempts per round, every choice of outages of 0, 1, 4 calls or for ever, 8 ids, `FairSpec` | `DereferenceValid`, `RemovedMeansAccepted`, `NothingLost`, `SubscribedInTurn` |
| `runtime_api` | 2 controllers in any order of calls, `Start` with 2 threads, at most 4 threads, `FairSpec` | `ThreadsTracked`, `JoinedOnce`, `ContextOpen`, `StoppedMeansQuiet`, `StopReturns` |
| `main_life` | 3 listeners, messages and signals at any time, `MainFairSpec` | `UpAndListening`, `ProcessorsAlive`, `CleanExit`, `UsesRuntime`, `EndsAfterSignal` |
| `system_restart` | 2 gNodeBs, 2 listeners, 3 calls per process (the last cannot be encoded), 1 restart | `EntryOwned`, `ReportedAsked`, `EveryProcessServes`, `RunsCampaign` |
| `send_all` | 5 messages over the 3 overloads, 2 of which fail the tests of length, up to 2 retries, `FairSpec` | `ImplementsSender`, `TriesBounded`, `CountersAgree`, `EverySendReturns` |
| `processor_kpi` | 4 messages, `_ref_kpi_msg_handler` null or assigned | `LatestElementUsed`, `OnlyRefusedLeak` |
| `kpi_shared` | 2 threads with 1 handler, 4 calls, 2 gNodeBs, `FairSpec` | `RepliesOwn`, `OwnReportUsed`, `AllHandled` |
| `kpi_stored` | 1 thread, 3 calls | `ReportStored` is violated, see 6 |
| `codec_reuse` | blocks of 2 items, lists of up to 3, any sequence of calls | `RoundTrip`, `MemoryRespected` |
| `config_priority` | all environments, command lines of up to 3 options, 1 and 2 legal numbers of threads | `PriorityKept` |

*What the properties say.*
`EntryOwned`: the request table holds exactly the calls in progress, one entry per
call, on every return path. `NoLostWakeup`: nobody sleeps on a verdict that is in the
table unless a notification is under way. `OutcomeMatchesStore`: true was returned
only with a stored response and false only without one, also when the verdict
raced the deadline. `NeverDuplicate`: until ids come back the duplicate branch is dead code.
`ImplementsService`, `UsesTransmitter`: the contracts above and below the handler, see 2; a handler that transmitted again from its wait loop, or gave back the id
of a failed transmission, would break the second, with one requester already.
`ResponseStored`: `operator[]` at line 167 never invents a response.
`FirstVerdictStands`: the comment "we don't change status of response since it was
not in pending" (`subscription_handler.cc`) holds. `EveryCallReturns`,
`SuccessIsReturned`: liveness.
`DereferenceValid`: `*it` is only used on an element. `RemovedMeansAccepted`: a
gNodeB is removed on its own acceptance, never on the `res` of an earlier one.
`NothingLost`: the removed ones followed by the remaining ones are the configured
list. `SubscribedInTurn`: a gNodeB is subscribed in the end if neither it nor one before it in the
list is down for ever, and there are ids for all the attempts that takes; nothing more is true of the loop, see 6.
`UpAndListening`: when `main()` says that it listens it does, if a number of threads was given.
`ThreadsTracked`: a `Stop` still to come finds every thread that is not joined, once.
`JoinedOnce`: no thread is joined twice, which would throw. `ContextOpen`: no listener
uses the RMR context after `rmr_close`. `StoppedMeansQuiet`: the comment "Wait for all
threads to stop" holds for whoever sees `Stop` done. `StopReturns`: no one can set
`_listen` again behind a `Stop` that is joining. `ProcessorsAlive`: the processors and the
handler outlive the threads that use them. `UsesRuntime`: `main()` is one of the
callers `XappRuntime` allows, so all that is said of the latter holds in the program.
`CleanExit`: when `main()` returns no thread is left and the context is closed.
`EndsAfterSignal`: after a signal to an installed handler the process ends, with all threads
joined and the context closed.
`RunsCampaign`: the system implements `SubscriptionCampaign`; in particular, until the process is restarted a gNodeB leaves the list only when it
has subscribed itself, whatever answers to earlier attempts, or for other gNodeBs, are under way. `ReportedAsked`: what is left of it in the log of a later
process: a gNodeB reported was asked under an id that somebody accepted. `EveryProcessServes`: the system implements `SubscriptionProcesses`, so that `main()` can rely on
`SubscriptionService` in the first process and on the rest of it in all later ones. `ImplementsSender`: `Send` is one step of `SendService`, true exactly for
the messages RMR took, each once, though all share one buffer. `TriesBounded`, `CountersAgree`: the loop of transmissions ends within
the number of retries, whoever changes it meanwhile, and the two counters fit the results. `LatestElementUsed`: an
indication without a message element is handled with the last one received, not an older one. `OnlyRefusedLeak`: what stays
allocated is what the early returns leave, and all of it. `RepliesOwn`: a thread looks at the reply to its own command.
`OwnReportUsed`: the fields `UpdateDB` is called with are those of the report being handled, if
one was decoded (that only `EXISTS` with one of them gets as far as Redis is the finding of section 6). `RoundTrip`: a peer decodes what the last caller gave,
whatever the object encoded before. `MemoryRespected`: no item is written behind its block, except
by the two encoders that ask `realloc` for items instead of bytes, once they have done so: the block is then too short also for
later lists that would have fitted the first one. `PriorityKept`: the comment in `get_config.cc` on the
order of priority, against a definition that looks at the sources and not at the order of assignments.

*Bounds.* `CallLimit` is the only bound in a guard of the handler (no id is drawn once
the counter has reached it); with `CallLimit = IdModulus`, in `handler_api`, it never binds and
calls go on for ever. Two requesters are one more than
the program has, and enough for one call to meet the wake-up or the id of
another; two listeners are enough for one to decide between the
other's decision and its notification. `elapsed` tells apart every number of
`_time_out`s up to past the deadline, with 0 and with 1 retries (2 in the code);
a retry more adds rounds of the same wait. Ids up to 2 give, in `handler_api`, a fresh id, one that does not encode
and, after a wrap, one whose response is still stored. In `handler_calls` and `system_restart` the system
stops when the ids are used up, hence `CHECK_DEADLOCK FALSE`; `handler_api` checks deadlock.

The loop really ends, so its run does not check deadlock. Outages of 4 calls outlast two rounds of two attempts,
of 1 end within a round; `loop_all` starts from all 64 choices. With 8 ids some choices need all of them and some
need more, so both sides of the limit occur.

`ThreadLimit` is the only bound of the runtime. Four threads with `NumThreads` 2 allow
`Start` and `StartThread` in one table, a restart after a `Stop`, and a `Stop` that waits for
one listener while others are at every other place; the keys never wrap. Threads cannot be
created any more at the limit, and nothing is left to do after the end of `main()` or
`std::terminate`, hence `CHECK_DEADLOCK FALSE` in `runtime_api` and `main_life`.

In `system_restart` three ids per process mean that one gNodeB can be asked twice and its first answer come late, or that
the second is asked in between; one restart is what it takes for answers of an earlier process
to meet the tables of a later one.
In `send_all` each overload is used by a message that passes and one fails each test of the length; `MaxRetries` 2 and
`NumRetries` 1 let the limit rise and fall during a call. Four messages of a processor are enough for an element to be
carried, missed, carried again and missed. In `kpi_shared` four calls let each thread call twice while the other is in a call.
In `SubscriptionCodec` `INITIAL_LIST_SIZE` is 2 instead of 4 and the lists are empty, as long as a block, longer, and
with an illegal cause first, in between and last; calls are not bounded. `ItemSize` is 4, so that a block enlarged for three
items has room for one. Requests and triggers fill their blocks or exceed
them by one item, and an overrun ends the behaviour.
`Configuration` has numbers below, at, and above the limits. These systems end when their messages, calls or options are
used up (the codec after an overrun), hence `CHECK_DEADLOCK FALSE`.

## 4 Fairness

`FairSpec` of the handler: weak fairness of the steps of a call in progress (a thread
that can run does run, and `wait_for` returns after at most `_time_out`), of the clock,
and of a listener that is inside `Response`. Nothing is assumed about the RAN, about
delivery, or about new calls. A weakly fair `CallStep` that needs the mutex is
justified for one requester and any listener, because a listener takes the mutex once per message and its
steps need no further lock. With two requesters, a call could
be overtaken at the mutex for ever by another one that calls in a loop, and
`std::mutex` promises nothing else; hence `EveryCallReturns` and `SuccessIsReturned` are checked with
finitely many calls (and the program has one requester).

`FairSpec` of the loop: main keeps running, every call returns (that is
`EveryCallReturns`), and a gNodeB whose outage is over accepts in time. The last one is an
assumption on the environment; without it there is nothing to show. About one that is
down for ever nothing is assumed.

`FairSpec` of the runtime: every listener runs, and a `Stop` that has begun goes on when
the thread it waits for has ended. A listener's steps return: `rmr_torcv_msg` has a time-out
of 50 ms, and a processor returns because it waits for nothing but `_data_lock` of the
handler, which is always released (`wait_for` releases it, and all other blocks that take it
are straight code). `MainFairSpec` adds that `main()` runs. Neither assumes that a
message or a signal ever comes.

`FairSpec` of `RmrSend`: the constructor and every call go on when they can; nobody need call
`set_num_retries`. That a caller gets the mutex in the end holds because calls are finitely many. Nothing is assumed about RMR: it may ask for a
retry every time. `FairSpec` of `KpiStore`: every thread runs and Redis answers (the context has no time-out, so a Redis that never answers
stops the threads; it is taken to answer).

## 5 What is proved

### The handler

In `SubscriptionHandlerProofs`, for every number of threads, id width, number
of retries and set of stray messages, from the named assumptions on the constants
(`ThreadsAssumption` ... `StraysAssumption`).

| theorem | of | property | extra assumption |
|---|---|---|---|
| `TypeCorrect` | `ApiSpec` | `TypeOK` | |
| `ResponsesStored` | `ApiSpec` | `ResponseStored` | |
| `VerdictsStand` | `ApiSpec` | `FirstVerdictStands` | |
| `EntriesOwned` | `Spec` | `EntryOwned` | |
| `TrueMeansAccepted` | `Spec` | `SubscribedMeansAccepted` (of no run) | `NoStrays` |
| `HoldersMoveOn` | `Spec` | `HolderMovesOn` (of no run) | |
| `NoWakeupLost` | `Spec` | `NoLostWakeup` | `NoWrap`, `NoStrays` |
| `OutcomesMatchStore` | `Spec` | `OutcomeMatchesStore` | `NoWrap`, `NoStrays` |
| `DuplicateNeverMarked` | `Spec` | `NeverDuplicate` | `NoWrap`, `NoStrays` |
| `HandlerImplementsService` | `Spec` | `ImplementsService` | `NoWrap`, `NoStrays` |
| `HandlerUsesTransmitter` | `Spec` | `UsesTransmitter` | `NoWrap`, `NoStrays` |

`ApiSpec` is the class with `clear()` at any time, `Spec` what the program does with it. The first three hold of both
(`SpecIsApiSpec`); the fourth does not hold of `ApiSpec`, since `clear()` takes the entries of calls in progress, and the others speak of
what a call returns.

`NoWrap` (`CallLimit < IdModulus`): fewer than 2^32 calls, so an id is never drawn
twice. `NoStrays`: a listener only gets what the RAN sent in answer to a request of
this process. Neither is decoration: with a stray verdict between 135 and 138, or
with an id left over from before a wrap, TLC finds a call that records a
success, fails to transmit and returns false with a response stored, and a call that goes
to sleep on a verdict whose notification is already over.

*The argument.* `TableInv` (`TypeOK`, `EntryOwned`, `ResponseStored`) is inductive by
itself: an entry is made only where the id is absent, removed only by the call that
owns it, and `Response` changes only pending entries. `FirstVerdictStands` follows from
it, since only `RecordVerdict` writes over an entry. For the rest one must know that
no verdict is in the table before its requester sleeps. That is
`NoVerdictBeforeWait`, and it needs three more facts: `IdsFresh` (ids grow, so a new
id was never requested), `MessagesCaused` (what a listener decides on was sent by the
RAN in answer to a request) and `LockDiscipline` (from transmission to sleep the mutex
is held, so nothing is recorded). Together they are `OrderInv`; `NoLostWakeup` is
inductive relative to it. `StoreInv` adds that responses are stored exactly for the requests
that succeeded (`StoreMatchesStatus`), whence the duplicate status is
unreachable and outcomes agree with the store. `AcceptedInv` carries a recorded
success back to the RAN and does not need unique ids. The refinement maps `Init` to
`Init` and every action to one step of `SubscriptionService` or to a stutter, under `OrderInv`
and `StoreInv`: `GetNextId` opens, `RanAnswer` answers, `RecordVerdict` grants or
refuses, the error exits and `CheckStatus` return, and the rest stutter.

For `HandlerUsesTransmitter` the actions are looked at from the other side: `Transmit` is `Take`, `TransmitError` is `Refuse`, and all others, the wait loop and the
exits before the transmission among them, leave the transmitter alone. That both find an id nothing was returned for is `NotYetTransmitted`: it holds of the ids
above the counter and of those of calls that are not past their transmission, and rests on `IdsFresh`, as the ids of two calls differ. `HolderMovesOn` is the part of the liveness properties that needs no fairness. It follows from `LockDiscipline`,
which, unlike the rest of `OrderInv`, needs neither `NoWrap` nor `NoStrays`.

### The runtime and the program

In `RuntimeProofs`, for every set of controllers and every number of
threads, from `RuntimeAssumption` and, for the program, `ProgramAssumption`.

| theorem | property |
|---|---|
| `RuntimeTypeCorrect` | `TypeOK` |
| `EveryThreadTracked` | `ThreadsTracked` |
| `NoDoubleJoin` | `JoinedOnce` |
| `ContextOutlivesListeners` | `ContextOpen` |
| `StopLeavesNoListener` | `StoppedMeansQuiet` |
| `ProgramUsesRuntime` | `UsesRuntime` |
| `ListenersOutlived` | `ProcessorsAlive` |
| `UpMeansListening` | `UpAndListening` |
| `ExitIsClean` | `CleanExit` |

*The argument.* None of the safety properties is inductive. `ThreadsInv` joins `TypeOK` and `ThreadsTracked` with three
facts: threads are created in order and under keys below the counter, so that a new
entry never replaces one (`CreatedInOrder`); the threads of the table that are joined are
exactly those `Stop` has passed, and `_listen` is false while it runs (`JoinProgress`); the
table is empty whenever `_listen` is false and the mutex free, and since the context was
closed (`EmptyWhenStopped`). That an entry is in the table exactly once is what keeps
one `Join` from disturbing another entry. Since every running thread is in the table,
an empty table leaves none, which gives `ContextOpen` and `StoppedMeansQuiet`.
For the program, `MutexAtMain` and `ShutdownOrder` tie the place of `main()` to that: every
`MainNext` step is a step of `XappRuntime` or leaves it alone, so `ThreadsInv` carries over, and
the processors are destroyed only where the table is empty. That there is a listener when `main()` says so
needs to know that none has left its loop: `ListenersStay` counts the threads that `StartListener` has made and says that `_listen`, which
only `Stop` clears, keeps each of them in the loop until then. It relies on `RunProg` nowhere: a signal ends the wait of `main()`, not a listener. `ContextAtMain` says that the context is closed
exactly at the end; with the empty table of `ShutdownOrder` that is `CleanExit`.

### The loop and the sending side

In `SubscribeLoopProofs`, for every list, number of attempts and choice of outages, from
`LoopAssumption`; in `RmrSendProofs`, for every finite set of messages, however they are spread over the
overloads, and every limit of retries, from `SendAssumption`.

| theorem | property |
|---|---|
| `LoopTypeCorrect` | `TypeOK` |
| `IteratorValid` | `DereferenceValid` |
| `RemovedOnAcceptance` | `RemovedMeansAccepted` |
| `NoneLost` | `NothingLost` |
| `ResultsTruthful` | `ResultTruthful` (of no run) |
| `SendTypeCorrect` | `TypeOK` of `RmrSend` |
| `TriesAreBounded` | `TriesBounded` |
| `CountersFit` | `CountersAgree` |
| `SendImplementsService` | `ImplementsSender` |
| `LockIsReleased` | `LockReleased` (of no run) |

*The argument.* The iterator is assigned `begin()` and otherwise only moves by an erase, so it is always at the first
element (`IteratorAtFirst`); from the inner test to the test of `res` the list is not empty. Hence what is erased is the head, and moving the head of
the list behind the removed ones keeps their concatenation, which is `NothingLost`. That nothing is
removed on the `res` of an earlier call needs that the inner loop is entered with attempts left (`AttemptsLeft`) and that a `res` that is true
was returned for the gNodeB the iterator is at, from an acceptance of the call (`VerdictOwn`); together they are `LoopInv`. For `Send`,
`LockHeld` says that a call in progress holds the mutex, and `BufferOwn` that what it is about to transmit is
its own message. A call that RMR answers moves one message into the set `CountersAgree` counts, in the step that
adds one to the difference of the counters. All of it is `SendInv`, which is inductive. `SendImplementsService` needs `BufferOwn` of it, for what is
taken is the content of the buffer: the steps before the transmission and `TransmitRetry` are invisible or a `Refuse` (`PrepareRefines`),
`Transmit` is the `Take` of the caller's own message (`TransmissionRefines`).

### The processor, the store, the codecs, the configuration and the system

`IndicationProofs`: for all threads, handlers, gNodeBs and values, from `KpiAssumption` and `ReportAssumption`, and for any number
of messages, from `ProcessorAssumption`.
`ConfigurationProofs`: for all environments and command lines of any length, from `ConfigurationAssumption`.
`SubscriptionCodecProofs`: for all lists, sizes of items and initial blocks, from `CodecAssumption`.
`SubscriptionSystemProofs`: for every list of gNodeBs, number of listeners, id width and number of restarts, from the assumptions of the
handler and `SystemAssumption`.

| theorem | property | extra assumption |
|---|---|---|
| `ProcessorTypeCorrect`, `StoreTypeCorrect`, `CodecTypeCorrect`, `SystemTypeCorrect` | the `TypeOK` of each | |
| `LatestUsed` | `LatestElementUsed` | |
| `RefusedLeak` | `OnlyRefusedLeak` | |
| `ReportsOwn` | `OwnReportUsed` | |
| `OwnRepliesRead` | `RepliesOwn` | `OneHandlerCalled` |
| `NobodyStuckEver` | `NobodyStuck` (of no run) | |
| `NothingEverStored` | `NothingStored` (of no run) | |
| `EncodersRoundTrip` | `RoundTrip` | |
| `OnlyEnlargedOverrun` | `MemoryRespected` | |
| `ListsInTheirBlocks` | `PointersValid` (of no run) | |
| `EntriesOwnedAlways` | `EntryOwned` | |
| `ReportsAsked` | `ReportedAsked` | |
| `ReportsHeld` | `ReportedHeld` (of no run) | `NoWrap` |
| `EveryProcessServed` | `EveryProcessServes` | |
| `ProgramRunsCampaign` | `RunsCampaign` | |
| `PriorityAlwaysKept` | `PriorityKept` | |

`OneHandlerCalled`: all threads call one handler. With two, each has its own mutex and a thread can take the reply the other waits for
from the connection; what a call *sends* is its own all the same, and is proved without the assumption. Nor does it then wait for
ever: `NobodyStuck` says that a mutex is held by a call in progress only and that there are as many replies on the connection as threads reading one.
For this one the number of readers must be known to be finite (`StuckInv`), although the set of threads need not be.

*The argument.* A call in progress holds the mutex of its handler (`MutexHeld`), so no step of another thread writes the report
it uses (`OthersUndisturbed`). With one handler it is the only call in progress, and the connection then
holds the one reply it waits for (`ReplyAwaited`). In the codecs, set_fields takes a prefix of a list
(`PrefixTaken`), writes it from the start of a block no other list of the message uses (`OwnBlock`) and points to just that
(`Overwritten`). `RoomForSize` says that a block has the bytes for its size unless it was enlarged by items, and no
call writes more items than that size. What a message is encoded from (`PointersValid`) is the prefix that this call has written, which does
not go further than the items that were counted against the block (`Touched`). For the system, every step but `Restart` is a step of the handler or leaves it alone, so the
lemmas of `SubscriptionHandlerProofs` are used again; `Restart` establishes `TableInv` and `AcceptedInv` anew, on whatever network it finds, but
not `OrderInv`, in which ids are fresh. `CallForTarget` ties the call in progress to the gNodeB at the iterator, which gives
`ReportedAsked`. In the first process ids are fresh (`OrderInv`), so each went to one gNodeB (`SentOnce`), and whoever accepted it
(`AcceptedHeld`) is the one that was asked.

`EveryProcessServed` has three cases. While `fresh` holds, `FirstStore` (which is `StoreInv` until the first restart) and `OrderInv`
make every step one of `SubscriptionService`, by the same lemmas as `HandlerImplementsService` (`FreshRefines`).
Afterwards neither holds, and `TableInv` with `AcceptedInv` is all there is: `LaterCall` and `LaterNetwork` go through
the steps of a call and of the network and find each in `SubscriptionProcesses`. `RestartRefines` is the restart itself. There is no extra
assumption: where ids may wrap `fresh` is false from the start.

`ProgramRunsCampaign` maps `TransmitTo` to `Ask` (`RequestRefines`; by `CallForTarget` the call is for the head of the list), an acceptance to `Subscribe`
(`AnswerRefines`), an `Answered` that erases to `Leave` (`AnsweredRefines`), `Restart` to `StartAgain`, and the rest to stutters. That
a gNodeB may leave is `VerdictHeld`: whoever the handler reports as subscribed was asked under an id that was accepted, and while ids are fresh accepted it itself.
`ReportsHeld` rests on the same lemma.

Of a message processor, `LatestElementUsed` alone is not inductive: one must know that an element in `indication_data` is of the last
indication that carried one (`LatestKept`), and that nothing is recorded for a message that has not come (`NothingAhead`). The
counters stay in step because each message is counted by one of them at most (`ResponsesCounted`). `ProcessorInv` joins these.
`PriorityKept` speaks of `main()` only; the invariant (`BestSoFar`) says at every place of `get_environment_config` and `get_command_line_config`
that each field has the value of the best source looked at so far. The step it needs is that the option just read is the last of its
name and changes the last of no other (`GivenNow`, `OthersGiven`): the value of the last option is chosen by `CHOOSE`, so the proof
has to show that there is a last one (`LastIsMaximum`, `GivenLast`).

## 6 Findings

**Nothing is ever stored** (run `kpi_stored`, `KPI-Monitoring/kpi_db.cc` 55). `UpdateDB` sends `EXISTS` and goes on only if the
type of the reply is that of a status; Redis answers `EXISTS` with an integer. The branches below, "Key already exists
---> delete the data and insert again" and "Key does not exists --> Simply insert", are never taken. `NothingEverStored` proves the other
half for every number of threads, handlers and reports: nothing but `EXISTS` is ever waiting to be sent, and the contents of Redis never change.

### Disagreements that the models contain

These were met while modelling. The models do what the code does, and the properties are stated as far as the code keeps
them; the place named is where one sees it.

| what | in the code | in the model |
|---|---|---|
| A gNodeB that never answers keeps the iterator (only `erase` moves it), and those behind it are never asked. The comment "keep sending subscription request till successfull for all gnodebs ?" and the step from `end()` to `begin()` show that a tour of the list was meant. | `kpi-xapp.cc` 176-185 | first condition of `SubscribedInTurn` |
| Each attempt draws a new id, which the encoder accepts up to 65535 only; after that many calls nothing is sent any more. At about 15 s per failed attempt an outage of twelve days gets there. | `subscription_handler.hpp` 121 | second condition of `SubscribedInTurn` |
| After a restart ids start at 1 again and answers are matched by id alone: a late acceptance by gNodeB 1 can answer the request of the new process to gNodeB 2, which is then logged as "Successfully subscribed for gNodeB %s". | `subscription_handler.cc` 108 | `fresh` in `SubscriptionCampaign`: `ReportedHeld` holds with `restarts = 0` only |
| `-t 0` is logged as "auto", but the loops of `main()` count to 0: "xAPP is UP and Listening on RMR" is logged and nobody listens. | `kpi-xapp.cc` 93 | condition of `UpAndListening` |
| `-t` takes any number of threads, the environment variable 1 to 8. | `get_config.cc` 108 | `OptThreads` against `EnvThreads` |
| A processor that returns true wants its reply sent (`src/README.md` 46-48); the result is dropped. The processor of this xApp always returns false. | `xapp_utils.hpp` 184 | `Handled` |
| The constructor takes "the maximum size of messages allowed to send" (`src/README.md` 30); `Send` tests the constant 16384. | `xapp_utils.cc` 146 | `TestLength` |
| `_ref_kpi_msg_handler` is called and never assigned: the first indication whose header decodes ends the process. | `message_processor_class.cc` 88 | `NoKpiHandler` |
| A report that cannot be decoded updates the store with the fields of an earlier one; if it is the first, the process ends. | `KPIMessageHandler.cc` 63 | `DecodeFails`, `Crash` |
| An absent `numberOfUEs` keeps the value of an earlier report, maybe of another gNodeB. | `cu_cp_resource_status_report.cc` 67 | `GetFields` |
| Five actions do not fit: `realloc` is given a number of items for a number of bytes. The program subscribes with one. | `subscription_request.cc` 197, `e2sm.cc` 172 | `BytesFor`, condition of `MemoryRespected` |

## 7 What is not modelled, or only checked

Every invariant, every action property and every refinement that a run checks is also proved; what is only model-checked is liveness, which is out of this
prover's reach together with `ENABLED`: `EveryCallReturns`, `SuccessIsReturned`, `SubscribedInTurn`, `StopReturns`, `EndsAfterSignal`,
`EverySendReturns` and `AllHandled`. What of these needs no fairness is proved as a safety property: a mutex is only held by someone
about to release it (`HolderMovesOn`, `LockReleased`, `NobodyStuck`), a reader finds a reply (`NobodyStuck`), no wake-up is lost, and what `Stop` joins are the threads there are.
Some invariants are theorems but of no run, as a refinement that a run checks says the same or more (`ResultTruthful`, `ReportedHeld`; the gist of `SubscribedMeansAccepted`) or
nothing but the theorem is needed (`PointersValid`, `NothingStored` and the three on the mutexes; TLC has found no counterexample to them on the instances of section 3). What `Names` makes of a text (`SelectSeq`) is the same term in
`fill_gnodeb_list` and in `PriorityKept`, and nothing about it is proved. Only one `TypeOK` is checked by a run (`handler_api`, for the
width of ids); all are theorems but that of `Configuration`, which says of `gNodeB_list` what only an induction over the text could show.
Of the handler, the setters (`set_timeout`, `set_timeout_flag`, `set_num_retries`) are constants:
nobody calls them. Queries (`get_subscription`, `num_pending`, ...) change nothing, and
`delete_subscription_entry` has no caller. A step of `system_clock` backwards is left
out. Of `XaPP`, what RMR does with a buffer is left out; a context is open or closed. The exits of `_workThread` on a failed
allocation and the event-driven error handlers, which nobody sets, are left out.
In the handler the codecs appear as `Encodable` and as the division of messages into
acceptances, rejections and the rest; a request fails to encode for its id only, and the exit of `main()` when the
event trigger does not encode (`kpi-xapp.cc` 140-143) is left out, as it cannot be taken with the constants the program gives it. Of the codecs themselves the encoders of indications (`e2ap_indication.cc`, `e2sm.cc`) and of the KPI
report are left out: nothing in `src/src` calls them. The texts of error messages are left out, and with them
`errbuf_len`, which the first failed check reduces for all later ones, and the local variable that hides `error_string` at `e2sm.cc` 213.
Of the store, the lifetime of replies (`kpi_db.cc` 23 frees the last one only, or an uninitialised pointer) and the exact bytes of keys and values.
Of the configuration, the name, port and redis port, the copies into arrays of fixed size, and what `getopt_long` makes of an unknown long option (its table lacks the
entry that ends it). The ASN.1 library (generated by asn1c, by far the most of the lines of the repository) and the external libraries are environment: what is needed of them is in the guards
named above.

## 8 Plan

All modules planned are written, every safety property that a run checks is proved, and both refinements that were left, of the sender and of the
program as a whole, are stated and proved. An abstract store for `KpiStore` was planned and dropped: as the code never gets past
`EXISTS` it would have nothing to take (`NothingEverStored`). What would be next:

1. A change of `kpi_db.cc` 55 would make the update of the store a sequence of commands; then `KpiStore` with one handler should implement a store that takes one report at a time.
2. A change that keeps the iterator moving past a silent gNodeB would let `SubscribedInTurn` lose its first condition.
