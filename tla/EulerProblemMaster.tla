------------------------- MODULE EulerProblemMaster -------------------------
(***************************************************************************)
(* The solving half of the backend: actors/EulerProblemMaster.scala, its   *)
(* pool of actors/EulerProblemWorker.scala behind a round-robin router,    *)
(* and the HTTP requests of controllers/ProjectEulerController.scala that  *)
(* ask the master with a timeout.                                          *)
(*                                                                         *)
(* Every actor has one FIFO mailbox; a send appends to it at once, and an  *)
(* action that handles a message handles the head of the mailbox from      *)
(* start to end.  A worker's head message is the problem it is solving:    *)
(* the solution may take any number of ticks of the clock.                 *)
(*                                                                         *)
(* The field "since" of a worker job and of its answer is a history field: *)
(* the second the job was routed.  No guard and no program state reads it. *)
(*                                                                         *)
(* An operator introduced as a "faulty variant" is used by no behaviour:   *)
(* it is the mistake that the property named with it is there to exclude.  *)
(***************************************************************************)
EXTENDS Solutions, Sequences

CONSTANTS
  Requests,           \* HTTP requests for /project_euler/<num>
  NumWorkers,         \* workers_per_cpu * availableProcessors
  AvailableProblems,  \* problems the solver library has a class for
  AwsLambdaProblems,  \* project_euler.aws_lambda
  MaxAgeSeconds,      \* project_euler.problem_max_age_seconds
  CacheSolutions,     \* project_euler.cache_solutions > 0
  AskTimeout,         \* seconds the HTTP request waits for the master
  WorkerFaults,       \* subset of {"lambda error", "exception", "no Long"}
  MaxTime,            \* bound: the clock stops here
  MaxUpdatesQueued,   \* bound: MsgUserInfoUpdate waiting in the mailbox
  NoSolution,         \* no entry in the cache; no reply yet
  NoAsk               \* the HTTP request has not been made

ASSUME MasterAssumption ==
  /\ NumWorkers \in Nat \ {0}
  /\ AvailableProblems \subseteq Problems
  /\ AwsLambdaProblems \subseteq Problems
  /\ MaxAgeSeconds \in Nat
  /\ CacheSolutions \in BOOLEAN
  /\ AskTimeout \in Nat
  /\ MaxTime \in Nat
  /\ NoSolution \notin Solution

VARIABLES
  now,             \* System.currentTimeMillis() / 1000
  solutions,       \* the master's cache: problem -> Solution or NoSolution
  masterBox,       \* mailbox of the master
  workerBox,       \* mailbox of each worker
  nextRoutee,      \* counter of the RoundRobinRoutingLogic
  asks,            \* what each HTTP request asked for, when, and its reply
  broadcasterBox   \* MsgBroadcastSolution sent to the client broadcaster

vars == <<now, solutions, masterBox, workerBox, nextRoutee, asks, broadcasterBox>>

Workers == 0 .. NumWorkers - 1

Job == [problemNumber : Problems, since : Nat]

MsgSolve          == [type : {"MsgSolve"}, problemNumber : Problems,
                      by : UserInfo, sender : Requests]
MsgSolution       == [type : {"MsgSolution"}, problemNumber : Problems,
                      answer : Answer, viaLambda : BOOLEAN, since : Nat]
MsgUserInfoUpdate == [type : {"MsgUserInfoUpdate"}, userInfo : UserInfo]
MasterMessage     == MsgSolve \cup MsgSolution \cup MsgUserInfoUpdate

Ask == [problemNumber : Problems, by : UserInfo, at : Nat,
        reply : Solution \cup {NoSolution}]

ASSUME NoAskAssumption == NoAsk \notin Ask

TypeOK ==
  /\ now \in Nat
  /\ solutions \in [Problems -> Solution \cup {NoSolution}]
  /\ masterBox \in Seq(MasterMessage)
  /\ workerBox \in [Workers -> Seq(Job)]
  /\ nextRoutee \in Workers
  /\ asks \in [Requests -> Ask \cup {NoAsk}]
  /\ broadcasterBox \in Seq(Solution)

Init ==
  /\ now = 1
  /\ solutions = [p \in Problems |-> NoSolution]
  /\ masterBox = << >>
  /\ workerBox = [w \in Workers |-> << >>]
  /\ nextRoutee = 0
  /\ asks = [r \in Requests |-> NoAsk]
  /\ broadcasterBox = << >>

-----------------------------------------------------------------------------
(* The HTTP side.                                                          *)

Waiting(r) == asks[r] # NoAsk /\ asks[r].reply = NoSolution

\* Faulty variant of Resolve: whoever is late replaces the reply
\* (ImplementsService).
ResolveAgain(r, solution) ==
  asks' = [asks EXCEPT ![r].reply = AsMine(solution, asks[r].by.uuid)]

\* The promise behind an ask takes one value: whoever is late is ignored.
Resolve(r, solution) ==
  asks' = IF Waiting(r)
          THEN [asks EXCEPT ![r].reply = AsMine(solution, asks[r].by.uuid)]
          ELSE asks

Index(r, p, by) ==
  /\ asks[r] = NoAsk
  /\ asks' = [asks EXCEPT ![r] = [problemNumber |-> p, by |-> by, at |-> now,
                                  reply |-> NoSolution]]
  /\ masterBox' = Append(masterBox, [type |-> "MsgSolve", problemNumber |-> p,
                                     by |-> by, sender |-> r])
  /\ UNCHANGED <<now, solutions, workerBox, nextRoutee, broadcasterBox>>

AskTimesOut(r) ==
  /\ Waiting(r)
  /\ now - asks[r].at >= AskTimeout
  /\ Resolve(r, Error(asks[r].problemNumber, asks[r].by, ERROR_TIMEOUT, now))
  /\ UNCHANGED <<now, solutions, masterBox, workerBox, nextRoutee, broadcasterBox>>

\* UserInfoController tells the master that a user goes by another name.
SendUserInfoUpdate(userInfo) ==
  /\ Len(SelectSeq(masterBox, LAMBDA m : m.type = "MsgUserInfoUpdate"))
       < MaxUpdatesQueued
  /\ masterBox' = Append(masterBox, [type |-> "MsgUserInfoUpdate",
                                     userInfo |-> userInfo])
  /\ UNCHANGED <<now, solutions, workerBox, nextRoutee, asks, broadcasterBox>>

-----------------------------------------------------------------------------
(* The master.                                                             *)

\* The master takes the head of its mailbox, which is of the given type.
Receive(type) ==
  /\ masterBox # << >>
  /\ Head(masterBox).type = type
  /\ masterBox' = Tail(masterBox)
  /\ UNCHANGED now

\* A non-stale entry for the problem exists in the cache.
InCache(p) ==
  /\ solutions[p] # NoSolution
  /\ ~IsStale(solutions[p], MaxAgeSeconds, now)

Broadcast(solution) == broadcasterBox' = Append(broadcasterBox, solution)

\* Faulty variants of Route: the counter does not wrap (TypeOK); a busy
\* worker's mailbox drops the job (InProgressIsBeingSolved).
RouteWithoutWrap(p) ==
  /\ workerBox' = [workerBox EXCEPT ![nextRoutee] =
                     Append(@, [problemNumber |-> p, since |-> now])]
  /\ nextRoutee' = nextRoutee + 1

RouteIfIdle(p) ==
  /\ workerBox' = IF workerBox[nextRoutee] = << >>
                  THEN [workerBox EXCEPT ![nextRoutee] =
                          <<[problemNumber |-> p, since |-> now]>>]
                  ELSE workerBox
  /\ nextRoutee' = (nextRoutee + 1) % NumWorkers

Route(p) ==
  /\ workerBox' = [workerBox EXCEPT ![nextRoutee] =
                     Append(@, [problemNumber |-> p, since |-> now])]
  /\ nextRoutee' = (nextRoutee + 1) % NumWorkers

StartSolution(m) ==
  LET p == m.problemNumber IN
  /\ solutions' = [solutions EXCEPT ![p] = Start(p, m.by, now)]
  /\ Resolve(m.sender, Start(p, m.by, now))
  /\ Route(p)
  /\ UNCHANGED broadcasterBox

\* Faulty variant of ReplySolved: not only solved entries are broadcast
\* (BroadcastsAreFinished).
ReplyKnown(m) ==
  /\ InCache(m.problemNumber) /\ CacheSolutions
  /\ Resolve(m.sender, solutions[m.problemNumber])
  /\ Broadcast(solutions[m.problemNumber])
  /\ UNCHANGED <<solutions, workerBox, nextRoutee>>

\* Faulty variant of ReplySolved: the asker has the reply and others need none
\* (EulerPage!OrangeIsOnItsWay).
ReplySolvedQuietly(m) ==
  /\ InCache(m.problemNumber) /\ IsSolved(solutions[m.problemNumber])
  /\ CacheSolutions
  /\ Resolve(m.sender, solutions[m.problemNumber])
  /\ UNCHANGED <<solutions, workerBox, nextRoutee, broadcasterBox>>

ReplySolved(m) ==
  LET p == m.problemNumber IN
  /\ InCache(p) /\ IsSolved(solutions[p]) /\ CacheSolutions
  /\ Resolve(m.sender, solutions[p])
  /\ Broadcast(solutions[p])
  /\ UNCHANGED <<solutions, workerBox, nextRoutee>>

\* Faulty variant of ReplyInProgress: nobody answers (EveryAskIsAnswered,
\* NobodyWaitsInVain).
StaySilent(m) ==
  /\ InCache(m.problemNumber) /\ ~IsSolved(solutions[m.problemNumber])
  /\ UNCHANGED <<solutions, workerBox, nextRoutee, asks, broadcasterBox>>

ReplyInProgress(m) ==
  LET p == m.problemNumber IN
  /\ InCache(p) /\ ~IsSolved(solutions[p])
  /\ Resolve(m.sender, solutions[p])
  /\ UNCHANGED <<solutions, workerBox, nextRoutee, broadcasterBox>>

\* Faulty variant of SolveAgain: it does not make sure that the problem is
\* not being solved already (OneSolutionAtATime).
SolveAgainUnchecked(m) ==
  /\ InCache(m.problemNumber) /\ ~CacheSolutions
  /\ StartSolution(m)

SolveAgain(m) ==
  LET p == m.problemNumber IN
  /\ InCache(p) /\ IsSolved(solutions[p]) /\ ~CacheSolutions
  /\ StartSolution(m)

SolveAfresh(m) ==
  /\ ~InCache(m.problemNumber)
  /\ StartSolution(m)

OnMsgSolve ==
  /\ Receive("MsgSolve")
  /\ LET m == Head(masterBox) IN
     \/ ReplySolved(m)
     \/ ReplyInProgress(m)
     \/ SolveAgain(m)
     \/ SolveAfresh(m)

\* Faulty variant of Finished: a failed solution is dropped from the cache, so
\* that it can be retried at once (AnswersAreExpected).
FinishedOrForgotten(m) ==
  IF m.answer = LONG
  THEN WithViaLambda(Complete(solutions[m.problemNumber], m.answer, now), m.viaLambda)
  ELSE NoSolution

Finished(m) ==
  WithViaLambda(Complete(solutions[m.problemNumber], m.answer, now), m.viaLambda)

OnMsgSolution ==
  /\ Receive("MsgSolution")
  /\ LET m == Head(masterBox) IN
     IF solutions[m.problemNumber] # NoSolution
     THEN /\ solutions' = [solutions EXCEPT ![m.problemNumber] = Finished(m)]
          /\ Broadcast(Finished(m))
     ELSE UNCHANGED <<solutions, broadcasterBox>>
  /\ UNCHANGED <<workerBox, nextRoutee, asks>>

\* Faulty variant of IsCreditedTo: everybody's solutions (CreditedToAnAsker).
IsCreditedToAnyone(p, uuid) == solutions[p] # NoSolution

IsCreditedTo(p, uuid) ==
  solutions[p] # NoSolution /\ solutions[p].by.uuid = uuid

OnMsgUserInfoUpdate ==
  /\ Receive("MsgUserInfoUpdate")
  /\ LET userInfo == Head(masterBox).userInfo
     IN solutions' = [p \in Problems |->
          IF IsCreditedTo(p, userInfo.uuid)
          THEN WithBy(solutions[p], userInfo)
          ELSE solutions[p]]
  /\ UNCHANGED <<workerBox, nextRoutee, asks, broadcasterBox>>

-----------------------------------------------------------------------------
(* The workers.                                                            *)

IsViaLambda(p) == p \in AwsLambdaProblems

\* A solver's answer is a text, which may be a number that is no Long.
\* AwsLambdaEulerProblemService turns every failure into a text;
\* EulerProblemService does so for a problem it has no class for.
SolverAnswers == IF "no Long" \in WorkerFaults THEN {LONG, NUMERAL} ELSE {LONG}

AnswersTo(p) ==
  IF IsViaLambda(p)
  THEN SolverAnswers \cup (IF "lambda error" \in WorkerFaults THEN {OTHER_TEXT} ELSE {})
  ELSE IF p \in AvailableProblems THEN SolverAnswers ELSE {OTHER_TEXT}

WorkerAnswers(w) ==
  /\ workerBox[w] # << >>
  /\ LET job == Head(workerBox[w])
         p   == job.problemNumber
     IN \E answer \in AnswersTo(p) :
          masterBox' = Append(masterBox,
            [type |-> "MsgSolution", problemNumber |-> p, answer |-> answer,
             viaLambda |-> IsViaLambda(p), since |-> job.since])
  /\ workerBox' = [workerBox EXCEPT ![w] = Tail(@)]
  /\ UNCHANGED <<now, solutions, nextRoutee, asks, broadcasterBox>>

\* An exception restarts the worker: the message it handled is lost.  Only
\* the solver's own code and the set-up of the Lambda client can throw.
WorkerThrows(w) ==
  /\ "exception" \in WorkerFaults
  /\ workerBox[w] # << >>
  /\ Head(workerBox[w]).problemNumber \in AvailableProblems \cup AwsLambdaProblems
  /\ workerBox' = [workerBox EXCEPT ![w] = Tail(@)]
  /\ UNCHANGED <<now, solutions, masterBox, nextRoutee, asks, broadcasterBox>>

-----------------------------------------------------------------------------
(* The surroundings: the broadcaster empties its mailbox, time passes.     *)

BroadcasterReceives ==
  /\ broadcasterBox # << >>
  /\ broadcasterBox' = Tail(broadcasterBox)
  /\ UNCHANGED <<now, solutions, masterBox, workerBox, nextRoutee, asks>>

Tick ==
  /\ now < MaxTime
  /\ now' = now + 1
  /\ UNCHANGED <<solutions, masterBox, workerBox, nextRoutee, asks, broadcasterBox>>

MasterStep == OnMsgSolve \/ OnMsgSolution \/ OnMsgUserInfoUpdate

Next ==
  \/ \E r \in Requests, p \in Problems, by \in UserInfo : Index(r, p, by)
  \/ \E r \in Requests : AskTimesOut(r)
  \/ \E userInfo \in UserInfo : SendUserInfoUpdate(userInfo)
  \/ MasterStep
  \/ \E w \in Workers : WorkerAnswers(w) \/ WorkerThrows(w)
  \/ BroadcasterReceives
  \/ Tick

Spec == Init /\ [][Next]_vars

\* The schedules in which the master handles every answer before the entry of
\* its problem goes stale: no outstanding job ever gets older than the limit.
Timely ==
  /\ \A w \in Workers : \A i \in DOMAIN workerBox[w] :
       now - workerBox[w][i].since <= MaxAgeSeconds
  /\ \A i \in DOMAIN masterBox : masterBox[i].type = "MsgSolution" =>
       now - masterBox[i].since <= MaxAgeSeconds

TimelySpec == Init /\ [][Next /\ Timely']_vars

\* The thread pools run every actor that has mail; nothing makes users act,
\* and the fairness of a worker is that of its solver ending, one way or other.
Fairness ==
  /\ WF_vars(MasterStep)
  /\ \A w \in Workers : WF_vars(WorkerAnswers(w) \/ WorkerThrows(w))
  /\ WF_vars(BroadcasterReceives)

FairSpec == Spec /\ Fairness

-----------------------------------------------------------------------------
(* Safety.                                                                 *)

\* "We ignore any solutions that we are not aware of -- should never really
\* happen" (EulerProblemMaster.scala:78): whatever a worker is solving or has
\* answered, the master still has an entry for it.
AnswersAreExpected ==
  /\ \A w \in Workers : \A i \in DOMAIN workerBox[w] :
       solutions[workerBox[w][i].problemNumber] # NoSolution
  /\ \A i \in DOMAIN masterBox : masterBox[i].type = "MsgSolution" =>
       solutions[masterBox[i].problemNumber] # NoSolution

\* "(So we don't start multiple parallel solutions for same problem)"
\* (EulerProblemMaster.scala:63): of the jobs the workers hold for a problem,
\* at most one is younger than the age at which a job is given up.
NoParallelSolutions ==
  \A v, w \in Workers : \A i \in DOMAIN workerBox[v], j \in DOMAIN workerBox[w] :
    /\ workerBox[v][i].problemNumber = workerBox[w][j].problemNumber
    /\ now - workerBox[v][i].since <= MaxAgeSeconds
    /\ now - workerBox[w][j].since <= MaxAgeSeconds
    => v = w /\ i = j

BeingSolved(p) ==
  \/ \E w \in Workers : \E i \in DOMAIN workerBox[w] :
       workerBox[w][i].problemNumber = p
  \/ \E i \in DOMAIN masterBox :
       masterBox[i].type = "MsgSolution" /\ masterBox[i].problemNumber = p

\* "If we are here that means problem is actively being solved (not stale). We
\* continue to await the solution" (EulerProblemMaster.scala:57-58): an entry
\* that is neither solved nor stale has an answer on its way.
InProgressIsBeingSolved ==
  \A p \in Problems : InCache(p) /\ ~IsSolved(solutions[p]) => BeingSolved(p)

\* The user a solution is credited to ("by", shown to everybody) has asked for
\* that problem: renames and late answers never move the credit to another.
CreditedToAnAsker ==
  \A p \in Problems : solutions[p] # NoSolution =>
    \E r \in Requests : /\ asks[r] # NoAsk
                        /\ asks[r].problemNumber = p
                        /\ asks[r].by.uuid = solutions[p].by.uuid

\* The master forgets no ask: whatever branch handled the asks before it, an
\* HTTP request without a reply has its MsgSolve in the mailbox, for the
\* problem and the user it asked with.
NobodyWaitsInVain ==
  \A r \in Requests : Waiting(r) =>
    \E i \in DOMAIN masterBox :
      masterBox[i] = [type |-> "MsgSolve", problemNumber |-> asks[r].problemNumber,
                      by |-> asks[r].by, sender |-> r]

\* Every broadcast solution is final: it has an answer, not the in-progress
\* text, and the duration finishedAt - startedAt that clients display is not
\* negative although entries are restarted while answers are on their way.
BroadcastsAreFinished ==
  \A i \in DOMAIN broadcasterBox :
    /\ broadcasterBox[i].answer \in Result
    /\ broadcasterBox[i].startedAt <= broadcasterBox[i].finishedAt
    /\ broadcasterBox[i].finishedAt <= now

\* Where the solutions of a problem under way are: the places of its jobs in
\* the mailboxes of the workers and, under -1, of its answers in the master's.
Outstanding(p) ==
  (UNION {{<<w, i>> : i \in {k \in DOMAIN workerBox[w] :
                              workerBox[w][k].problemNumber = p}} : w \in Workers})
  \cup {<<-1, i>> : i \in {k \in DOMAIN masterBox :
                            /\ masterBox[k].type = "MsgSolution"
                            /\ masterBox[k].problemNumber = p}}

\* In timely schedules a problem is solved once at a time, whatever the cache
\* setting and however workers fail: a second job needs the first one's answer.
OneSolutionAtATime ==
  \A p \in Problems : \A place, other \in Outstanding(p) : place = other

Solved(p) == solutions[p] # NoSolution /\ IsSolved(solutions[p])

\* "We always cache solutions" (EulerProblemMaster.scala:80), and one that is
\* solved is never stale: what takes an answer out of the cache is a request
\* that has it computed again, with caching disabled, or the failure of another
\* attempt that was under way already when the answer came, never one that
\* began later.
AnswersAreKept ==
  [][\A p \in Problems : Solved(p) /\ ~Solved(p)' =>
       \/ ~CacheSolutions /\ solutions'[p].answer = IN_PROGRESS
       \/ /\ solutions'[p].answer \in {NUMERAL, OTHER_TEXT}
          /\ OnMsgSolution /\ Head(masterBox).since <= solutions[p].finishedAt]_vars

-----------------------------------------------------------------------------
(* Refinement: what all this amounts to for the clients.                   *)

\* What a client makes of a solution it is shown.
StateOf(solution) ==
  IF IsSolved(solution) THEN "solved"
  ELSE IF solution.answer = IN_PROGRESS THEN "pending" ELSE "failed"

ReplyOf(reply) ==
  IF reply = NoSolution THEN "none"
  ELSE IF reply.answer = ERROR_TIMEOUT THEN "timeout" ELSE StateOf(reply)

\* Its MsgSolve has left the mailbox.
IsServed(r) ==
  ~\E i \in DOMAIN masterBox :
     masterBox[i].type = "MsgSolve" /\ masterBox[i].sender = r

RequestOf(r) == [problem |-> asks[r].problemNumber, user |-> asks[r].by.uuid,
                 served |-> IsServed(r), reply |-> ReplyOf(asks[r].reply)]

EntryOf(p) == [by |-> solutions[p].by.uuid, state |-> StateOf(solutions[p])]

NewsOf(solution) == [problem |-> solution.problemNumber, by |-> solution.by.uuid,
                     state |-> StateOf(solution)]

ServiceRequests == [r \in {q \in Requests : asks[q] # NoAsk} |-> RequestOf(r)]

ServiceEntries == [p \in {q \in Problems : solutions[q] # NoSolution} |-> EntryOf(p)]

ServiceNews == [i \in DOMAIN broadcasterBox |-> NewsOf(broadcasterBox[i])]

Service == INSTANCE SolveService WITH
  requests <- ServiceRequests, entries <- ServiceEntries, news <- ServiceNews

\* Whatever the workers, the clock and the order of messages do, clients see
\* the simple service that SolveService describes: one reply per request, which
\* says what is known or being done, and news of every end of an attempt.
ImplementsService == Service!Spec

-----------------------------------------------------------------------------
(* Liveness.                                                               *)

\* The master answers every MsgSolve, in whichever branch it handles it: a
\* waiting HTTP request gets its reply without the help of its timeout.
EveryAskIsAnswered == \A r \in Requests : Waiting(r) ~> ~Waiting(r)

\* When solvers neither fail nor throw, an entry that is in progress becomes a
\* solved one, even when it was restarted because an earlier attempt was late.
EverySolutionFinishes ==
  \A p \in Problems : (solutions[p] # NoSolution) ~> Solved(p)
=============================================================================
