# A verification of project-euler-web

The application serves a page with a button for every Project Euler problem. A
click asks the backend for the answer; the backend solves the problem with a
pool of workers, and every browser learns of every answer, and of every user who
logs in, by websocket. This directory holds TLA+ models of that backend, the TLC
runs that check them on small instances, and proofs for instances of any size.
Paths below are those of the repository (`app/...` stands for `src/app/...` in
`PROJECT.json`).

## Inventory

| Part | State | Operations | Hard because | What makes it correct |
| --- | --- | --- | --- | --- |
| `models/Solution` | immutable value | start, error, complete, withBy, asMine, isSolved, isStale | whole seconds, strict comparison | solved is for ever, only the unsolved go stale |
| `EulerProblemMaster` | map problem -> Solution, router counter | MsgSolve, MsgSolution, MsgUserInfoUpdate, MsgAllSolutions | answers come in any order and from attempts that were given up; caching may be off | no parallel attempts, no answer lost or for an unknown problem, credit stays with who asked, broadcasts are final |
| `EulerProblemWorker` (2 per CPU) | mailbox | MsgSolveWorker | may take minutes, fail with a text, or throw and lose the job | a job ends in one answer or none |
| `ProjectEulerController` | one promise per request | ask, 10 s time-out, late reply | reply races time-out | every request is answered |
| `UserInfoMaster` | map uuid -> UserInfo, map address -> UserInfo, router counter | MsgResolveIp, MsgIpResolution, MsgUserInfoUpdate | users change address and name during a lookup | one lookup at a time, late resolutions ignored, names stay with their owner, each login is announced |
| `UserInfoWorker` (2) | mailbox | lookup at ipapi.co | a failed call throws and is not repeated | an unresolved user is being looked up |
| Session cookie (`UserInfo.apply`, `withSession`) | one cookie per browser | read with the request, replaced by the response | concurrent requests carry the same snapshot; survives a restart of the server | a request acts for the user of its cookie |
| `ClientBroadcaster`, `ClientHandler` | set of handlers | register, deregister, broadcast | broadcasts race registrations and closing sockets | who is connected gets every broadcast once, own solutions are marked |
| `websocket.js` | socket, countdown timers | open, message, close, reconnect | several timers at once | at most one open socket, reconnects |
| `euler.js` | state of each button | click, HTTP reply, broadcast | replies and broadcasts in any order | an answer is not replaced by an error |
| `responsiveness-gauge.js` | history of 15 pings, gauge | ping, update every 2 s | bunched, delayed and missing pings; the history is shorter early on; two timers | only missed seconds count, a loss shows, the gauge recovers |
| Banner (`messages.js`, `websocket.js`) | announced seconds | set, clear | a websocket is lost again while the page reconnects | the banner is true of the websocket |
| `map.js` | markers, a time-out for each | load, plot, remove | overlapping time-outs of one function; events before the map has loaded | every plotted event is shown for its time |
| Name form (`userinfo.js`) | none | change, Enter | sends a name twice, concurrently | names stay with their owner |
| the rest | none, or shown at once | views, styles, memory gauge, message list, help overlay, ping page, DI modules, system status | | display or wiring only |

Interaction: controllers find out the user (asking `UserInfoMaster` while the
cookie is not resolved), then ask `EulerProblemMaster` or send it updates; both
masters route jobs to their workers round-robin, take their answers in their own
mailbox, and tell `ClientBroadcaster`, which tells one `ClientHandler` per
websocket. Actors share no memory; all concurrency is in the order of mailboxes,
in time-outs, in cookies, and in what is lost when a worker throws.

## Modules

**`Solutions.tla`** is `models/Solution.scala`. Answers are the five texts the
program can tell apart: the in-progress marker, the time-out text, any text that
parses as a `Long`, a numeral that does not (too long, or with a fraction), any other
text. `isSolved` needs a Long and a finishing time, so a Lambda error text is neither
solved nor in progress; nor is a numeral, which the page shows as solved.

**`EulerProblemMaster.tla`** is the solving half of the backend.

| Model | Code |
| --- | --- |
| `solutions`, `nextRoutee` | `solutions`, `RoundRobinRoutingLogic` of `EulerProblemMaster.scala` |
| `masterBox`, `workerBox`, `broadcasterBox` | mailboxes of the actors |
| `asks` | the promises of `ProjectEulerController.index` |
| `now` | `System.currentTimeMillis() / 1000` |
| `ReplySolved`, `ReplyInProgress`, `SolveAgain`, `SolveAfresh` | the four branches of `case MsgSolve` |
| `OnMsgSolution`, `OnMsgUserInfoUpdate` | the handlers of the same name |
| `WorkerAnswers`, `WorkerThrows` | `EulerProblemWorker.receive`, with what `AwsLambdaEulerProblemService` and `EulerProblemService` answer |
| `Index`, `AskTimesOut`, `Resolve` | `ProjectEulerController.index`, its ask and `recoverWith` |

`StateOf` to `ServiceNews` are the refinement mapping to `SolveService` below.

A worker's head message is the problem it is working on, for any number of ticks.
The field `since` of a job is history: the second it was routed. The properties
compare it with `problem_max_age_seconds`; no action does.

**`SolveService.tla`** is the abstract specification: what the solving half promises
its clients, with neither mailboxes nor workers nor a clock. `EulerProblemMaster` is
shown to implement it (`ImplementsService`).

| `SolveService` | is in `EulerProblemMaster` |
| --- | --- |
| `requests[r]`: problem, user, served, reply | `asks[r]`; served when its `MsgSolve` has left `masterBox`; the reply as none, time-out, pending, solved or failed |
| `entries[p]`: by, state | `solutions[p]` without texts and times |
| `news` | `broadcasterBox` |
| `Ask`, `GiveUp` | `Index`, `AskTimesOut` |
| `Inform` | `ReplySolved` or `ReplyInProgress` |
| `Begin` | `SolveAgain` or `SolveAfresh` |
| `Finish` | `OnMsgSolution` |
| `Announce` | `BroadcasterReceives` |
| no step | workers, ticks, updates |

**`UserInfoMaster.tla`** is the user registry with what surrounds it.

| Model | Code |
| --- | --- |
| `sessions`, `ip2geo`, `nextRoutee` | the fields of `UserInfoMaster.scala` and its router |
| `cookies` | the Play session, which the browser keeps |
| `SubmitName` | `userinfo.js`: a name is sent on change and again on Enter |
| `reqs` | HTTP and websocket requests in the phases sent, asking, known, responded, done |
| `FromSession`, `AskMaster`, `AskTimesOut`, `Reply` | the `UserInfo.apply` factories with their blocking ask |
| `RespondHome`, `RespondSolve`, `RespondName`, `RespondWs` | the four controllers |
| `Arrive` | the response's `withSession` cookie reaching the browser |
| `ResolveKnown`, `ResolveFromCache`, `ResolveByLookup` | the three branches of `case MsgResolveIp` |
| `OnMsgIpResolution`, `OnMsgUserInfoUpdate` | the handlers of the same name |
| `WorkerResolves`, `WorkerThrows` | `UserInfoWorker.receive` and `SimpleHttpRequest.get` |
| `Restart` | the process starts again; cookies stay, and of the responses on their way any may still arrive |

The field `announced` of a request is history: whether its user's login was
broadcast after the request knew its user. `StageOf` to `Service` are the refinement
mapping to `UserService` below.

**`UserService.tla`** is the abstract specification of the registry: what it knows of
each user and what requests are told, with neither mailboxes nor workers nor cookies.
`UserInfoMaster` is shown to implement it (its `ImplementsService`).

| `UserService` | is in `UserInfoMaster` |
| --- | --- |
| `requests[r]`: before, waiting, told, over, and the user it waits or goes on as | `reqs[r]`, its phase and `info`; what it was before or is afterwards is not seen |
| `asks`, `renames` | the `MsgResolveIp` and `MsgUserInfoUpdate` in `masterBox`, in no order |
| `known` | `sessions` |
| `lookups` | jobs in `workerBox` and `MsgIpResolution` in `masterBox` |
| `places` | the addresses of `ip2geo` |
| `Begin` | `FromSession`, `AskMaster` |
| `GiveUp`, `Leave`, `Rename` | `AskTimesOut`; `RespondHome`, `RespondSolve`, `RespondWs`; `RespondName` |
| `Hear` | `OnMsgResolveIp`, all three branches |
| `HearRename` | `OnMsgUserInfoUpdate` |
| `EndLookup` | `OnMsgIpResolution`, current or late; `WorkerThrows` |
| `Crash` | `Restart` |
| no step | `Send`, `Arrive`, `WorkerResolves`, broadcasts of logins |

Renames and lookups of equal content are one element of a set here, so that hearing
one may or may not leave another (`HearRename`, `EndLookup`). Asks are apart, because each
has a sender and a request asks once.

**`ClientBroadcaster.tla`** is the push half, from the masters' messages to the page.

| Model | Code |
| --- | --- |
| `clients`, `broadcasterBox` | `clients` and mailbox of `ClientBroadcaster.scala` |
| `handler`, `handlerBox` | one `ClientHandler` per websocket |
| `queue` | the `ActorFlow` buffer and what is under way |
| `opened`, `readyState`, `timers` | the variable `websocket`, its state, the countdowns of `websocket.js` |
| `OnMsgRegisterClient`, `OnMsgDeregisterClient`, `OnMsgBroadcast` | the handlers; the three kinds of broadcast are treated alike |
| `Accept`, `PreStart`, `PostStop`, `HandlerSends` | `WebsocketController.ws`, `preStart`, `postStop`, `receive` |
| `OnOpen`, `OnClose`, `OnMessage`, `OnTimer` | the callbacks of `websocket.js` |
| `Break`, `Restart` | a connection fails or is refused; the process starts again |

Broadcasts are numbered; `received`, `skipped` and `handled` are history.

**`PushService.tla`** is the abstract specification of the push half: a channel to each
listener, with neither mailboxes nor handlers nor pages. `ClientBroadcaster` is shown to
implement it (its `ImplementsService`).

| `PushService` | is in `ClientBroadcaster` |
| --- | --- |
| `sent` | `published` |
| `announced` | the number before the first broadcast in `broadcasterBox`, or `published` if there is none |
| `listening` | `Recipients`: registered handlers that run |
| `coming[l]`, `heard[l]` | `queue[l]` and behind it `handlerBox[l]`; `received[l]` |
| `Send`, `Announce` | `Publish`, `OnMsgBroadcast` |
| `Join` | `OnMsgRegisterClient` of a handler that runs |
| `Leave` | `PostStop` |
| `Hear`, `Lose` | `OnMessage`, `HandlerSends` to a full queue |
| `Crash` | `Restart` |
| no step | `OnMsgDeregisterClient`, the start of handlers, all else that pages and connections do |

**`EulerPage.tla`** composes `EulerProblemMaster` with the pages of its users:
every step of the server is one of that module, joined where the two meet
(`GetArrives` with `Index`, `Push` with `BroadcasterReceives`).

| Model | Code |
| --- | --- |
| `page` | class of the button, texts of answer and name, per user and problem |
| `Click`, `GetReplies`, `GetFails` | the click handler of `euler.js`, `processProblemResponse`, `.fail` |
| `ProcessSolution`, `ProblemSuccess`, `ProblemError` | the functions of the same name |
| `IsAnsweredNumerically`, `IsNaN`, `TextOf` | the test of `euler.js:15`, which is of a function; the text of `euler.js:61`, with its "(λ)" |
| `Marked` | `asMine` in `ClientHandler.receive` |
| `pushes` | `coming` of a listener of `PushService` that never leaves and loses nothing |

**`StatusPage.tla`** is what a page shows of the state of the server and of its users:
the banner, the responsiveness gauge, the map.

| Model | Code |
| --- | --- |
| `readyState`, `secTillReconnect`, `nextTick`, `error` | websocket and countdown of `websocket.js`, the banner of `messages.js` |
| `OnOpen`, `OnClose`, `OnTimer`, `Closing` | callbacks and countdown of `websocket.js`; a closing handshake, of which the page only hears the end |
| `pingHistory`, `gauge`, `nextUpdate` | the variable, the gauge and the interval of `responsiveness-gauge.js` |
| `SystemStatusPing`, `ResponsivenessGaugeUpdate` | the functions of the same name; `OnStatus` is the message that calls the first |
| `mapReady`, `markers`, `timeouts` | `map`, what is on it, and the pending `setTimeout`s of `map.js` |
| `InitMap`, `MapEvent`, `RemoveMarker` | `initMap`, `mapEvent`, its time-out |

The clock counts the seconds of `getCurrentSeconds`. Timers are prompt: a second does
not end before the callbacks due in it have run; within the second they run in any
order, with messages and failures between them. So what the banner announces is a
second old between the start of a second and its tick. (A page whose timers are throttled in the background
is not modelled.) `events`, `closedAt` and `missedAt` are history. `ClientBroadcaster`
models the same websocket with the server around it and several countdowns, without
the seconds of a banner; that a page has one countdown is its `OneWayBack`.

**`MC*.tla`** instantiate these for TLC. Operators commented "faulty variant" are
part of no behaviour; they are the plausible mistakes that the properties are
tested against, one per property (`mutants` in `PROJECT.json`).

The proofs are in **`EulerProblemMasterProofs.tla`**, **`EulerProblemRefinement.tla`**,
**`EulerPageProofs.tla`**, **`UserInfoMasterProofs.tla`**, **`UserInfoRefinement.tla`**,
**`ClientBroadcasterProofs.tla`**, **`PushRefinement.tla`** and **`StatusPageProofs.tla`**.

## Runs

| Run | Instance | What it shows |
| --- | --- | --- |
| `master_cached` | 1 Lambda problem, 2 users, 3 requests, 2 workers, both kinds of failure, caching, max. age 0, clock up to 3, 1 update queued | `TypeOK`, `AnswersAreExpected`, `NoParallelSolutions`, `CreditedToAnAsker`, `NobodyWaitsInVain`, `BroadcastsAreFinished`, `AnswersAreKept`, and the refinement `ImplementsService` |
| `master_timely` | 3 requests, 2 workers, both kinds of failure, answers that are no Long, no caching, max. age 1, clock up to 5 | `OneSolutionAtATime` when no attempt outlives its entry (`TimelySpec`) |
| `master_failed_attempt` | 1 Lambda problem, 2 requests, 2 workers, Lambda errors, caching, max. age 1, clock up to 5 | **violates** `InProgressIsBeingSolved` |
| `master_late_answer` | 3 requests, no failures, no caching | **violates** `NoParallelSolutions` |
| `userinfo_fixed` | a browser loading 2 pages or sockets or asking for answers, up to 2 uuids, spoofed addresses (`mock_ip`, as shipped), no failed lookups, two restarts | `OneLookupAtATime`, and under fairness `EveryRequestIsAnswered`, `HomeLoginIsBroadcast` |
| `userinfo_roaming` | 2 browsers, 2 uuids, 3 pages or renames from 2 addresses, failed lookups, time-outs, one restart | `TypeOK`, `NamesAreOwn`, `NobodyWaitsInVain`, `LateResolutionsAreIgnored`, `LookupsAreNotForgotten`, and the refinement `ImplementsService` |
| `userinfo_renamed` | 1 browser, 3 requests, reliable lookups, renames | **violates** `HomeLoginIsBroadcast` |
| `push` | 2 pages, 3 broadcasts, queues of 1, one fault (a broken connection or a restart, which breaks all) | `TypeOK`, `NobodyIsForgotten`, `SameStream`, `OneWayBack`, `ImplementsService`, and under fairness `ReconnectsAfterFaults` |
| `page_reliable` | 2 users, a Lambda and a local problem that share one worker, 2 clicks, caching, max. age 0, clock up to 2, HTTP failures, no failed attempts | `PageTypeOK`, `InProgressIsBeingSolved`, `OrangeIsOnItsWay`, `OwnSolutionsAreMarked`, `NumbersOutliveResponses`, and under fairness `EveryAskIsAnswered`, `EverySolutionFinishes`, `ClicksAreSolved` |
| `page_answered` | 2 users, 2 clicks, caching, max. age 0, Lambda errors | **violates** `NumbersStay` |
| `status_page` | a history of 3 pings, updates every 2 s, an interval of 2 s before a page reconnects, markers for 2 s, 2 events, a clock up to 10 | `TypeOK`, `BannerIsHonest`, `OnlyMissedSecondsCount`, `GaugeShowsLoss`, `GaugeRecovers`, `MapShowsRecentEvents` |
| `status_reconnect` | the same | **violates** `ReconnectsOnTime` |

Deadlock is not checked: all runs have a finite number of requests, after which
the system rests, which it may.

### The five disagreements

* **A failed attempt looks like one in progress** (`master_failed_attempt`). "If
  we are here that means problem is actively being solved (not stale)",
  `EulerProblemMaster.scala:57`, is a branch that also takes entries whose attempt
  ended in an error text (or was lost with its worker). For up to
  `problem_max_age_seconds` (1200 as shipped) nobody retries.
* **Late answers start parallel attempts** (`master_late_answer`). With
  `cache_solutions = 0`, as shipped, an attempt that went stale still answers; its
  answer completes the restarted entry, so the next request finds it solved and
  starts another attempt while the restarted one runs. `EulerProblemMaster.scala:62-63`
  says that this is made sure not to happen. With caching on it cannot happen:
  `OneYoungSolution` is a theorem.
* **A rename can undo a resolution** (`userinfo_renamed`). `MsgUserInfoUpdate`
  carries the user as the request read it. If the lookup ends between that read
  and the update, the session goes back to unresolved, and since the address is
  the same it is never looked up again. `HomeController.scala:30-31` says that
  the login is eventually broadcast.
* **Numbers do not stay on the page** (`page_answered`). `isAnsweredNumerically`
  (`euler.js:15`) passes the function `text` to `isNaN` instead of calling it, and is
  always false. So a later push of a failed attempt replaces a number, which
  `euler.js:29` says is not done. In the run a late answer completes a restarted entry
  and is shown, then the restarted attempt fails. (With caching off, a repeated click
  that fails does it too. For answers from Lambda the text ends in "(λ)", `euler.js:61`,
  and would not be numeric for a corrected test either.) Failures are what it takes:
  without failed attempts and failed requests numbers do stay, for whatever number of
  users and clicks (`NumbersStayWithoutFailures`).
* **Reconnecting takes a second more than announced** (`status_reconnect`). The
  countdown is compared before it is decremented (`websocket.js:95`) and so has
  `RECONNECT_INTERVAL_SEC + 1` ticks, while `websocket.js:83` says "after interval
  seconds" and the banner announces the interval. That it is exactly one second, for
  every interval, is the theorem `ReconnectsOneSecondLate`.

One more thing that the composition makes visible: the page reads the response of
its request as an array (`euler.js:19`), but it is one object, so responses are never
shown. That the master broadcasts what it replies, which the comment at
`EulerProblemMaster.scala:53` calls harmless redundancy, is what turns the asker's
button green; `OrangeIsOnItsWay` fails without it.

### Bounds, and why they suffice

* `MaxTime` stops the clock, so that runs end. The clock only matters in
  differences with `startedAt`. In the safety runs it allows an entry to be
  started, go stale, be restarted and go stale again; in `master_late_answer`
  maximal age 1 and `MaxTime` 5 let a stale attempt answer beside a young one.
  With age 0 a tick makes an entry stale, which gives `master_cached` three
  generations of attempts in three seconds. In `page_reliable` a clock up to 2 gives
  an entry that is started, goes stale, is restarted and gets the late answer of the
  first attempt; two clicks cannot restart it twice.
* `Requests` (2 or 3): a request is made once. Three requests give one that
  starts an attempt, one that restarts it and one that finds the restarted entry.
  In `userinfo_roaming` three are the least that let a user, another one at the same
  address and a rename meet.
* `Uuids` must not be fewer than the cookie-less requests of a run with liveness,
  or a request could not be given one; so there are two in `userinfo_fixed`.
  In `userinfo_roaming` there may be fewer: it is a run of safety properties.
* `MaxUpdatesQueued` bounds the updates waiting for the master; one is enough to
  fall before or after any other message, since updates commute with each other
  but for the last writer.
* `MaxRestarts`: one restart finds the cookies of before it; a second one finds
  the same kinds of state. `userinfo_fixed` has two, and two requests: one before and one
  after a restart, or both in between. Three requests of all kinds with a restart take
  longer than five minutes.
* `MaxFaults`, `MaxBroadcasts`, `BufferSize`: a fault costs a page its websocket, and
  the `MaxFaults + 1` websockets of a page are all it can need. One restart breaks both
  pages at once; three broadcasts fall before, between and after registrations,
  and overflow a queue of one. `ReconnectInterval` 1 has a tick that counts down and one
  that reconnects.
* In `status_page` and `status_reconnect` a history of 3 can be full, have gaps, and be replaced altogether;
  10 seconds suffice for a loss, a whole countdown (3 ticks), a loss again while
  reconnecting, and a recovery of the gauge, which takes `PingHistoryLength +
  UpdateInterval` = 5 seconds. Two events have time-outs that overlap or not. The
  sizes as shipped (15 pings, 15 s, markers for 10 s) are out of TLC's reach; the
  proofs are for all sizes.
* Requests (and uuids, in the safety runs) are symmetric; no symmetry is used in
  the runs with liveness properties.

### Fairness

Actors with mail are run by their dispatchers, and each step of a handler ends:
weak fairness of the master's step, of each worker ("its head job ends, one way
or the other") and of the broadcaster. For the registry also of a request's steps
on the server and of the arrival of its response. Nothing makes users act, the
clock tick, asks time out, lookups fail or the server restart. A worker's fairness
is an assumption about solvers (they end) and, for Lambda, about its client's
time-out. No fairness is assumed of `AskTimesOut`, so `EveryAskIsAnswered` says that
the master answers, not that the promise gives up. `EverySolutionFinishes` is
checked with solvers that neither fail nor throw: otherwise nothing retries by
itself. In `push` the pages' callbacks and timers, the handlers and both ends'
noticing of a broken connection are weakly fair: TCP time-outs and JavaScript timers
come in the end. Loads, broadcasts and faults are not. In `page_reliable` a push and a
request under way arrive; the run checks the liveness of the master, too. The stopped
clock is no help to `EverySolutionFinishes`: an entry that went stale is solved by its
late answer.

## Proofs

`EulerProblemMasterProofs.tla` proves of `Spec`, for any sets of problems, users
and requests, any number of workers, any limits and with all faults, under the
assumptions named in `EulerProblemMaster.tla` (`MasterAssumption`, `NoAskAssumption`):

* `TypeCorrect`: `TypeOK` is inductive as it stands.
* `AnswersExpected`: entries are replaced, never removed. Inductive with `TypeOK`.
* `OneYoungSolution`: `NoParallelSolutions` when `CacheSolutions`. It is not
  inductive: a job is routed only if the entry is missing or stale, and what that
  says of earlier jobs is `JobsBeforeEntries` (no job was routed after its problem's
  entry was started). A stale entry is more than the maximal
  age old, so every earlier job is; this gives `JobsFarApart` (two jobs of a problem
  were routed more than the maximal age apart, or are the same), from which the property
  follows at any time. Without caching the step `SolveAgain` routes from a solved
  entry and breaks `JobsFarApart`: that is the second disagreement.
* `BroadcastsFinished`: answers on their way are final texts (`AnswersAreFinal`), entries
  start no later than now (`EntryTimes`), so the finishing time stamped is not before the start.
* `CreditedRightly`: every waiting MsgSolve is an ask made (`SolvesAreAsked`), and
  asks keep their problem and user when they are answered.
* `NobodyInVain`: inductive with `TypeOK`. What takes a `MsgSolve` from the mailbox replies
  to its sender in every branch (`WaitingStep`), what replies changes no other ask
  (`OthersWait`). This is the safety half of `EveryAskIsAnswered`: with a master that
  goes on, what is in its mailbox is handled.
* `InProgressSolved`: if every problem has a solver that does not fail (`NoFailures`),
  an entry is solved or its problem is being solved (`EntriesInHand`): a job leaves the
  workers only as an answer, and an answer, then always a Long, only completes the entry.
  Late answers do no harm here: they complete the entry, too.
* `AnswersKept`: `AnswersAreKept`, with all faults, late answers and either cache setting.
  Attempts under way were routed no later than their entry was started (`LateInv`), hence
  no later than it was solved. A request replaces a solved entry only in `SolveAgain`,
  since solved entries do not go stale.
* `SolvedOnceAtATime`: of `TimelySpec`, with or without caching.
  `AtATimeInv`: jobs and answers are not younger than their entry
  (`JobsBeforeEntries`, `AnswersBeforeEntries`), so in timely schedules a stale entry has
  none; a problem has at most one job or answer (`OneJob`, `OneAnswer`,
  `JobOrAnswer`), so the answer that makes it solved was the last (`SolvedIsDone`). So
  whenever the master starts a solution nothing is outstanding (`StartsNothingTwice`).

`EulerProblemRefinement.tla` proves `MasterImplementsService`: `Spec` implements
`SolveService`. The initial states map to initial states, and each action to the step
that the table above names or to a stutter. That needs an invariant, `SolveInv`:
without `SolvesAreUnique` a second `MsgSolve` of one request would be served as another
step of a request already served, without `SolvesAreAsked` a request never made; and
an entry is for its own problem and never has the time-out text (`EntriesAreOwn`), or a
reply could look like the controller's. The proof covers failures of workers, late
answers, and caching on or off: the service lets `Finish` come from an earlier attempt
than the last, which is all that clients can see of a late answer.

`EulerPageProofs.tla` proves every safety property of `EulerPage.tla` (`PageAssumption`).
A step of the composition is a step of `EulerProblemMaster` or leaves it
(`ServerMoves`), so that the server's invariants are cited, not proved again.

* `PageTypeCorrect`: inductive as it stands.
* `OwnAreMarked`: `MarkInv`; requests on the server come from clicks (`AsksAreClicks`),
  what is broadcast is nobody's own and credited to somebody who has asked for it
  (`NewsIsCredited`, from `CreditedToAnAsker`), so what is marked on a user's copy has
  been clicked on by that user (`PushesAreMarked`).
* `OrangeOnItsWay`, with `NoFailures`: what changes an orange button passes from the click to
  the request, the job, the answer, the broadcast and the push, and one lemma for each
  says that it stays or passes on (`ClickedStep` to `PushedStep`). The branch
  `ReplyInProgress` is where `EntriesInHand` is needed: it passes nothing on.
* `NumbersOutlive`, `NumbersStayWithoutFailures`: `LongInv`; without failed attempts all
  that is on its way to a page is a number, from the worker's answer to the push, so a push
  cannot replace one by a text, and a response changes nothing at all.
* `ApplicationImplementsService`: a behaviour of pages and server is one of the server
  (`PagesKeepTheServer`), so it implements `SolveService`; so do all theorems about `Spec` of
  `EulerProblemMaster` hold of the whole.

`UserInfoMasterProofs.tla` proves every safety property of `UserInfoMaster.tla`, for
any numbers of browsers, requests, users and addresses (`UserInfoAssumption`,
`NoUserAssumption`, `UuidAssumption`):

* `TypeCorrect`: inductive as it stands.
* `LateIgnored`: from the guard of `OnMsgIpResolution` and from `AskInv`: a request waits for
  the master as the user it asked about.
* `NamesOwn`: `NameInv`. Requests keep kind, cookie and chosen name (`Keeps`), so a name that
  was chosen stays chosen. Resolutions and geolocations carry no name, and since no uuid is an
  address (`UuidAssumption`) an update reaches no geolocation: the comparison at
  `UserInfoMaster.scala:36`, which seems to be meant otherwise, is what keeps names apart.
* `OneLookup`, with `mock_ip`: a lookup begins for a user only whom the master does not know
  (`AddressInv`), and it knows all who are looked up (`LookupInv`).
* `LookupsNotForgotten`: without assumptions on lookups or renames, which are the exceptions
  that `LookupsAreNotForgotten` names. Geolocations and resolutions are of resolved
  users (`ResolvedOnly`), so who becomes known and unresolved has just been sent to a worker;
  a lookup under way stays under way or ends as a resolution, which resolves its user if
  that user is still there and otherwise is not the lookup that was needed
  (`CoveredNext`). A restart forgets the user with the lookup.
* `NobodyInVain`: inductive with the type invariant and `AskInv`. Only the sender of the
  message at the head is answered, and its ask is the one that leaves (`AsksStay`); all other
  steps leave askers what they are (`NobodyAsks`).

`UserInfoRefinement.tla` proves `RegistryImplementsService`: `Spec` implements `UserService`,
each action mapping as the table above says. It needs `AskInv`, the types, and `MailInv`:
with two asks of one request in the mailbox (`AsksApart`) an ask that was heard would still
be there; and what is looked up of an address names nobody and is of that address
(`PlainInv`), or a user resolved from the cache (`UserInfoMaster.scala:45`) would be given another name or
address than the service allows. Most of the proof is about mailboxes as sets:
a message more or less in a sequence is an element more, or possibly less, in the set
(`MailAppended`, `MailTaken`, `JobsChange`).

`ClientBroadcasterProofs.tla` proves every safety property of `ClientBroadcaster.tla`
(`BroadcasterAssumption`):

* `TypeCorrect`, `OneWay`: `TypeOK` bounds the websockets of a page, and that needs `PagesInv`:
  a page has one countdown if its websocket is closed and none otherwise; older websockets are
  closed, later ones do not exist, and each websocket after the first is owed to a fault
  (`FaultInv`).
* `NobodyForgotten`: `RegisterInv`; a handler deregisters only when it has stopped, and its
  registration is never behind its deregistration in the mailbox.
* `StreamsAlike`: `NewsInv`. Every stream rises by one unless its queue was full, is bounded by
  what was handled and, if registered, up to date (`Fits`). The broadcasts waiting
  in the mailbox are those after the last one handled, in order (`BacklogInv`); after a
  restart they continue from a later one, when no running handler has been sent any.

`PushRefinement.tla` proves `BroadcasterImplementsService`: `Spec` implements `PushService`,
each action mapping as the table above says. The invariants are those just named, and each
is needed: `BacklogInv` makes `Announce` announce the next broadcast and no other; `Fits`
says that who joins has been told nothing; `RegisterInv` that a deregistration comes from a
handler that has stopped, so that it silences nobody. The rest is about sequences: a handler
that sends moves a message within `coming` (`MoveUp`), or removes the first one beyond the
capacity (`RemoveFromConcat`).

`StatusPageProofs.tla` proves every property of `StatusPage.tla`, for any lengths,
intervals and numbers of events (`StatusAssumption`):

* `TypeCorrect`: inductive together with `HistoryInv`: pings are at least as many
  seconds apart as places (`Spaced`), none is in the future.
* `BannerHonest`, `ReconnectsOneSecondLate`: `CountdownInv` relates the counter, the next
  tick, the banner and the second of the loss. After k ticks the counter is down by k
  and the next tick is k + 1 seconds after the loss; since the counter is compared
  before it is decremented, the last tick comes at the interval + 1: the fifth
  disagreement, in its exact size.
* `OnlyMissedSeconds`: from `Spaced` alone. If ping i is too old, the pings from i to
  the end lie in more seconds than they are many, so i is at most the number of missed
  seconds.
* `LossIsShown`: `LossInv`; an update is never more than `UpdateInterval` away.
* `GaugeRecoversInTime`: `RunInv` says that the seconds since the last missed one are the
  end of the history, in their places; when there are `PingHistoryLength` of them, the
  history is nothing else, and `FullInv` keeps the value of the last update.
* `MapIsRecent`: `MapInv`; the markers are those whose own time-out is pending.

Only checked by TLC: liveness under fairness (out of the prover's reach, like
`ENABLED`), on instances that are as small as the runs say: `EveryAskIsAnswered`,
`EverySolutionFinishes`, `EveryRequestIsAnswered`, `HomeLoginIsBroadcast`,
`ReconnectsAfterFaults` and `ClicksAreSolved`. Of most of them the theorems have the safety
half, that what is waited for is under way (`NobodyWaitsInVain` of both masters,
`InProgressIsBeingSolved`, `LookupsAreNotForgotten`, `OneWayBack`, `OrangeIsOnItsWay`).

## Not modelled

* `MsgAllSolutions`: nothing sends it, it changes nothing.
* `Solution.ERROR_OTHER`: an ask fails with something other than a time-out only
  when the master does not run.
* City, country and coordinates, name sanitising, the websocket's origin check,
  formatting, logging: no property is about them.
* The solver library, Lambda and ipapi.co: their outcomes are the workers'
  choices. A local solver answers with a number, a Long or not, or throws; Lambda, too,
  or with one of the error texts of `AwsLambdaEulerProblemService`. A local solver's other
  texts are left out: the library's answers are numbers.
* `onError` of the websocket: a browser fires `error` and then `close` in one task, on a
  socket that is closed already. So its `close()` does nothing, and its text is replaced
  by that of `onClose` before anything else runs.
* The memory gauge, the message list, the durations and the help overlay: each shows
  what the last message or click says and keeps nothing that a later step reads.
* `WsMsgOurError` (`WebsocketMsgOut.scala:47`) has the type `status`; nothing sends it. Were
  it sent, pages would take it for a ping.
* The comment at `responsiveness-gauge.js:42` computes the window from length * 1.5; the code
  (line 52) and the comment at line 37 have 1.0, and so has the model.
* What a page missed while it had no websocket: `ClientBroadcaster` has the gap, and no
  doc promises anything of it.

## Plan

Done, the core first: `Solutions`, `EulerProblemMaster`, `UserInfoMaster`,
`ClientBroadcaster`, `EulerPage`, `StatusPage`, `SolveService`, `PushService`,
`UserService`; the three refinements, and proofs of all safety properties of the passing
runs. What is left:

1. A composition of both masters with the controllers: renames that reach them in
   different orders, and what a page misses while it has no websocket.

Runs stay within a handful per component, each below three minutes.
