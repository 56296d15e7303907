---------------------- MODULE EulerProblemMasterProofs ----------------------
(***************************************************************************)
(* Theorems about EulerProblemMaster for any number of problems, users,    *)
(* requests and workers, any limits and any faults of the workers.         *)
(***************************************************************************)
EXTENDS EulerProblemMaster, SequenceTheorems, TLAPS

-----------------------------------------------------------------------------
(* What sends and receives do to a mailbox.                                *)

\* Appending to a mailbox keeps its type, its messages and their places.
LEMMA AppendFacts ==
  ASSUME NEW S, NEW box \in Seq(S), NEW m \in S
  PROVE  /\ Append(box, m) \in Seq(S)
         /\ Append(box, m) # << >>
         /\ DOMAIN Append(box, m) = DOMAIN box \cup {Len(box) + 1}
         /\ Len(box) + 1 \notin DOMAIN box
         /\ \A i \in DOMAIN box : Append(box, m)[i] = box[i]
         /\ Append(box, m)[Len(box) + 1] = m
  OBVIOUS

\* Taking the head of a mailbox moves the other messages up one place.
LEMMA TailFacts ==
  ASSUME NEW S, NEW box \in Seq(S), box # << >>
  PROVE  /\ Head(box) \in S
         /\ Head(box) = box[1]
         /\ 1 \in DOMAIN box
         /\ Tail(box) \in Seq(S)
         /\ \A i \in DOMAIN Tail(box) : /\ i \in Nat
                                        /\ i + 1 \in DOMAIN box
                                        /\ i + 1 # 1
                                        /\ Tail(box)[i] = box[i + 1]
  OBVIOUS

LEMMA ElementType ==
  ASSUME NEW S, NEW box \in Seq(S), NEW i \in DOMAIN box
  PROVE  box[i] \in S
  OBVIOUS

-----------------------------------------------------------------------------
(* The operations of Solution.scala return solutions.                      *)

LEMMA UnfinishedType ==
  ASSUME NEW p \in Problems, NEW by \in UserInfo, NEW text \in Answer,
         NEW clock \in Nat
  PROVE  /\ Unfinished(p, by, text, clock) \in Solution
         /\ Error(p, by, text, clock) \in Solution
  BY DEF Unfinished, Error, Solution

LEMMA StartType ==
  ASSUME NEW p \in Problems, NEW by \in UserInfo, NEW clock \in Nat
  PROVE  Start(p, by, clock) \in Solution
  BY DEF Unfinished, Start, Solution, Answer

LEMMA FinishType ==
  ASSUME NEW s \in Solution, NEW answer \in Answer, NEW clock \in Nat,
         NEW viaLambda \in BOOLEAN
  PROVE  /\ Complete(s, answer, clock) \in Solution
         /\ WithViaLambda(Complete(s, answer, clock), viaLambda) \in Solution
  BY DEF Complete, WithViaLambda, Solution

LEMMA WithByType ==
  ASSUME NEW s \in Solution, NEW userInfo \in UserInfo
  PROVE  WithBy(s, userInfo) \in Solution
  BY DEF WithBy, Solution

LEMMA AsMineType ==
  ASSUME NEW s \in Solution, NEW uuid
  PROVE  AsMine(s, uuid) \in Solution
  BY DEF AsMine, Solution

-----------------------------------------------------------------------------
(* Type correctness.                                                       *)

LEMMA ResolveType ==
  ASSUME TypeOK, NEW r \in Requests, NEW solution \in Solution,
         Resolve(r, solution)
  PROVE  asks' \in [Requests -> Ask \cup {NoAsk}]
<1>1. CASE Waiting(r)
  <2>1. asks[r] \in Ask
    BY <1>1 DEF Waiting, TypeOK
  <2>2. AsMine(solution, asks[r].by.uuid) \in Solution
    BY AsMineType
  <2>3. [asks[r] EXCEPT !.reply = AsMine(solution, asks[r].by.uuid)] \in Ask
    BY <2>1, <2>2 DEF Ask
  <2> QED
    BY <1>1, <2>3 DEF Resolve, TypeOK
<1>2. CASE ~Waiting(r)
  BY <1>2 DEF Resolve, TypeOK
<1> QED
  BY <1>1, <1>2

LEMMA RouteType ==
  ASSUME TypeOK, NEW p \in Problems, Route(p)
  PROVE  /\ workerBox' \in [Workers -> Seq(Job)]
         /\ nextRoutee' \in Workers
<1>1. [problemNumber |-> p, since |-> now] \in Job
  BY DEF TypeOK, Job
<1>2. workerBox[nextRoutee] \in Seq(Job)
  BY DEF TypeOK
<1>3. Append(workerBox[nextRoutee], [problemNumber |-> p, since |-> now]) \in Seq(Job)
  BY <1>1, <1>2, AppendFacts
<1>4. nextRoutee' \in Workers
  BY MasterAssumption DEF TypeOK, Route, Workers
<1> QED
  BY <1>3, <1>4 DEF TypeOK, Route

\* The message at the head of the master's mailbox has one of three shapes.
LEMMA HeadType ==
  ASSUME TypeOK, masterBox # << >>
  PROVE  /\ Head(masterBox) \in MasterMessage
         /\ Head(masterBox).type = "MsgSolve" => Head(masterBox) \in MsgSolve
         /\ Head(masterBox).type = "MsgSolution" => Head(masterBox) \in MsgSolution
         /\ Head(masterBox).type = "MsgUserInfoUpdate" =>
              Head(masterBox) \in MsgUserInfoUpdate
         /\ Tail(masterBox) \in Seq(MasterMessage)
<1>1. Head(masterBox) \in MasterMessage /\ Tail(masterBox) \in Seq(MasterMessage)
  BY TailFacts DEF TypeOK
<1> QED
  BY <1>1 DEF MasterMessage, MsgSolve, MsgSolution, MsgUserInfoUpdate

LEMMA BroadcastType ==
  ASSUME TypeOK, NEW solution \in Solution, Broadcast(solution)
  PROVE  broadcasterBox' \in Seq(Solution)
  BY AppendFacts DEF TypeOK, Broadcast

LEMMA TypeInit == Init => TypeOK
  BY MasterAssumption DEF Init, TypeOK, Workers

LEMMA TypeHttp ==
  ASSUME TypeOK,
         \/ \E r \in Requests, p \in Problems, by \in UserInfo : Index(r, p, by)
         \/ \E r \in Requests : AskTimesOut(r)
         \/ \E userInfo \in UserInfo : SendUserInfoUpdate(userInfo)
  PROVE  TypeOK'
<1>1. ASSUME NEW r \in Requests, NEW p \in Problems, NEW by \in UserInfo,
             Index(r, p, by)
      PROVE  TypeOK'
  <2>1. [type |-> "MsgSolve", problemNumber |-> p, by |-> by, sender |-> r]
          \in MasterMessage
    BY DEF MasterMessage, MsgSolve
  <2>2. masterBox' \in Seq(MasterMessage)
    BY <1>1, <2>1, AppendFacts DEF TypeOK, Index
  <2>3. [problemNumber |-> p, by |-> by, at |-> now, reply |-> NoSolution] \in Ask
    BY DEF TypeOK, Ask
  <2> QED
    BY <1>1, <2>2, <2>3 DEF TypeOK, Index
<1>2. ASSUME NEW r \in Requests, AskTimesOut(r)
      PROVE  TypeOK'
  <2>1. asks[r] \in Ask
    BY <1>2 DEF AskTimesOut, Waiting, TypeOK
  <2>2. ERROR_TIMEOUT \in Answer
    BY DEF Answer
  <2>3. Error(asks[r].problemNumber, asks[r].by, ERROR_TIMEOUT, now) \in Solution
    BY <2>1, <2>2, UnfinishedType DEF TypeOK, Ask
  <2>4. asks' \in [Requests -> Ask \cup {NoAsk}]
    BY <1>2, <2>3, ResolveType DEF AskTimesOut
  <2> QED
    BY <1>2, <2>4 DEF TypeOK, AskTimesOut
<1>3. ASSUME NEW userInfo \in UserInfo, SendUserInfoUpdate(userInfo)
      PROVE  TypeOK'
  <2>1. [type |-> "MsgUserInfoUpdate", userInfo |-> userInfo] \in MasterMessage
    BY DEF MasterMessage, MsgUserInfoUpdate
  <2>2. masterBox' \in Seq(MasterMessage)
    BY <1>3, <2>1, AppendFacts DEF TypeOK, SendUserInfoUpdate
  <2> QED
    BY <1>3, <2>2 DEF TypeOK, SendUserInfoUpdate
<1> QED
  BY <1>1, <1>2, <1>3

LEMMA TypeOnMsgSolve ==
  ASSUME TypeOK, OnMsgSolve
  PROVE  TypeOK'
<1> DEFINE m == Head(masterBox)
           p == m.problemNumber
<1>1. /\ m \in MsgSolve
      /\ masterBox' \in Seq(MasterMessage)
      /\ now' \in Nat
  BY HeadType DEF OnMsgSolve, Receive, TypeOK
<1>2. p \in Problems /\ m.by \in UserInfo /\ m.sender \in Requests
  BY <1>1 DEF MsgSolve
<1>3. ASSUME StartSolution(m)
      PROVE  TypeOK'
  <2>1. Start(p, m.by, now) \in Solution
    BY <1>2, StartType DEF TypeOK
  <2>2. asks' \in [Requests -> Ask \cup {NoAsk}]
    BY <1>2, <1>3, <2>1, ResolveType DEF StartSolution
  <2>3. workerBox' \in [Workers -> Seq(Job)] /\ nextRoutee' \in Workers
    BY <1>2, <1>3, RouteType DEF StartSolution
  <2> QED
    BY <1>1, <1>2, <1>3, <2>1, <2>2, <2>3 DEF TypeOK, StartSolution
<1>4. ASSUME ReplySolved(m) \/ ReplyInProgress(m)
      PROVE  TypeOK'
  <2>1. solutions[p] \in Solution
    BY <1>2, <1>4 DEF ReplySolved, ReplyInProgress, InCache, TypeOK
  <2>2. asks' \in [Requests -> Ask \cup {NoAsk}]
    BY <1>2, <1>4, <2>1, ResolveType DEF ReplySolved, ReplyInProgress
  <2>3. broadcasterBox' \in Seq(Solution)
    BY <1>4, <2>1, BroadcastType DEF ReplySolved, ReplyInProgress, TypeOK
  <2> QED
    BY <1>1, <1>4, <2>2, <2>3 DEF TypeOK, ReplySolved, ReplyInProgress
<1>5. \/ ReplySolved(m) \/ ReplyInProgress(m) \/ SolveAgain(m) \/ SolveAfresh(m)
  BY DEF OnMsgSolve
<1> QED
  BY <1>3, <1>4, <1>5 DEF SolveAgain, SolveAfresh

LEMMA TypeOnMsgSolution ==
  ASSUME TypeOK, OnMsgSolution
  PROVE  TypeOK'
<1> DEFINE m == Head(masterBox)
           p == m.problemNumber
<1>1. /\ m \in MsgSolution
      /\ masterBox' \in Seq(MasterMessage)
      /\ now' \in Nat
  BY HeadType DEF OnMsgSolution, Receive, TypeOK
<1>2. p \in Problems /\ m.answer \in Answer /\ m.viaLambda \in BOOLEAN
  BY <1>1 DEF MsgSolution
<1>3. CASE solutions[p] # NoSolution
  <2>1. solutions[p] \in Solution
    BY <1>2, <1>3 DEF TypeOK
  <2>2. Finished(m) \in Solution
    BY <1>2, <2>1, FinishType DEF Finished, TypeOK
  <2>3. broadcasterBox' \in Seq(Solution)
    BY <1>3, <2>2, BroadcastType DEF OnMsgSolution
  <2> QED
    BY <1>1, <1>2, <1>3, <2>2, <2>3 DEF TypeOK, OnMsgSolution
<1>4. CASE solutions[p] = NoSolution
  BY <1>1, <1>4 DEF TypeOK, OnMsgSolution
<1> QED
  BY <1>3, <1>4

LEMMA TypeOnMsgUserInfoUpdate ==
  ASSUME TypeOK, OnMsgUserInfoUpdate
  PROVE  TypeOK'
<1> DEFINE userInfo == Head(masterBox).userInfo
<1>1. /\ Head(masterBox) \in MsgUserInfoUpdate
      /\ masterBox' \in Seq(MasterMessage)
      /\ now' \in Nat
  BY HeadType DEF OnMsgUserInfoUpdate, Receive, TypeOK
<1>2. userInfo \in UserInfo
  BY <1>1 DEF MsgUserInfoUpdate
<1>3. ASSUME NEW p \in Problems
      PROVE  (IF IsCreditedTo(p, userInfo.uuid)
              THEN WithBy(solutions[p], userInfo)
              ELSE solutions[p]) \in Solution \cup {NoSolution}
  BY <1>2, WithByType DEF IsCreditedTo, TypeOK
<1>4. solutions' \in [Problems -> Solution \cup {NoSolution}]
  BY <1>3 DEF OnMsgUserInfoUpdate
<1> QED
  BY <1>1, <1>4 DEF TypeOK, OnMsgUserInfoUpdate

LEMMA AnswersType == \A p \in Problems : AnswersTo(p) \subseteq Answer
  BY DEF AnswersTo, SolverAnswers, Answer, Result

LEMMA TypeWorkers ==
  ASSUME TypeOK, NEW w \in Workers, WorkerAnswers(w) \/ WorkerThrows(w)
  PROVE  TypeOK'
<1> DEFINE job == Head(workerBox[w])
           p   == job.problemNumber
<1>1. workerBox[w] \in Seq(Job) /\ workerBox[w] # << >>
  BY DEF TypeOK, WorkerAnswers, WorkerThrows
<1>2. job \in Job /\ Tail(workerBox[w]) \in Seq(Job)
  BY <1>1, TailFacts
<1>3. workerBox' \in [Workers -> Seq(Job)]
  BY <1>2 DEF TypeOK, WorkerAnswers, WorkerThrows
<1>4. CASE WorkerAnswers(w)
  <2>1. PICK answer \in AnswersTo(p) :
          masterBox' = Append(masterBox,
            [type |-> "MsgSolution", problemNumber |-> p, answer |-> answer,
             viaLambda |-> IsViaLambda(p), since |-> job.since])
    BY <1>4 DEF WorkerAnswers
  <2>2. p \in Problems /\ job.since \in Nat
    BY <1>2 DEF Job
  <2>3. answer \in Answer
    BY <2>1, <2>2, AnswersType
  <2>4. IsViaLambda(p) \in BOOLEAN
    BY DEF IsViaLambda
  <2>5. [type |-> "MsgSolution", problemNumber |-> p, answer |-> answer,
         viaLambda |-> IsViaLambda(p), since |-> job.since] \in MasterMessage
    BY <2>2, <2>3, <2>4 DEF MasterMessage, MsgSolution
  <2>6. masterBox' \in Seq(MasterMessage)
    BY <2>1, <2>5, AppendFacts DEF TypeOK
  <2> QED
    BY <1>3, <1>4, <2>6 DEF TypeOK, WorkerAnswers
<1>5. CASE WorkerThrows(w)
  BY <1>3, <1>5 DEF TypeOK, WorkerThrows
<1> QED
  BY <1>4, <1>5

LEMMA TypeNext == TypeOK /\ [Next]_vars => TypeOK'
<1> SUFFICES ASSUME TypeOK, [Next]_vars
             PROVE  TypeOK'
  OBVIOUS
<1>1. CASE OnMsgSolve
  BY <1>1, TypeOnMsgSolve
<1>2. CASE OnMsgSolution
  BY <1>2, TypeOnMsgSolution
<1>3. CASE OnMsgUserInfoUpdate
  BY <1>3, TypeOnMsgUserInfoUpdate
<1>4. ASSUME NEW w \in Workers, WorkerAnswers(w) \/ WorkerThrows(w)
      PROVE  TypeOK'
  BY <1>4, TypeWorkers
<1>5. CASE BroadcasterReceives
  <2>1. Tail(broadcasterBox) \in Seq(Solution)
    BY <1>5, TailFacts DEF TypeOK, BroadcasterReceives
  <2> QED
    BY <1>5, <2>1 DEF TypeOK, BroadcasterReceives
<1>6. CASE Tick
  BY <1>6 DEF TypeOK, Tick
<1>7. CASE UNCHANGED vars
  BY <1>7 DEF TypeOK, vars
<1> QED
  BY <1>1, <1>2, <1>3, <1>4, <1>5, <1>6, <1>7, TypeHttp DEF Next, MasterStep

\* The state of the master, its workers and the requests always has its type:
\* no message of an unknown shape, no worker outside the router's routees.
THEOREM TypeCorrect == Spec => []TypeOK
  BY TypeInit, TypeNext, PTL DEF Spec

-----------------------------------------------------------------------------
(* What a step does to the cache, to the mailboxes and to the asks.        *)

\* An entry of the cache is never removed, and it keeps its starting time or is
\* started anew now.
LEMMA EntryStep ==
  ASSUME TypeOK, [Next]_vars, NEW p \in Problems, solutions[p] # NoSolution
  PROVE  /\ solutions'[p] # NoSolution
         /\ \/ solutions'[p].startedAt = solutions[p].startedAt
            \/ solutions'[p].startedAt = now
<1> DEFINE m == Head(masterBox)
<1>1. solutions[p] \in Solution
  BY DEF TypeOK
<1>2. CASE OnMsgSolve
  <2>1. m.problemNumber \in Problems /\ m.by \in UserInfo
    BY <1>2, HeadType DEF OnMsgSolve, Receive, MsgSolve
  <2>2. CASE StartSolution(m)
    <3>1. Start(m.problemNumber, m.by, now) \in Solution
      BY <2>1, StartType DEF TypeOK
    <3>2. Start(m.problemNumber, m.by, now).startedAt = now
      BY DEF Start, Unfinished
    <3> QED
      BY <2>1, <2>2, <3>1, <3>2, MasterAssumption DEF StartSolution, TypeOK
  <2>3. CASE ReplySolved(m) \/ ReplyInProgress(m)
    BY <2>3 DEF ReplySolved, ReplyInProgress
  <2> QED
    BY <1>2, <2>2, <2>3 DEF OnMsgSolve, SolveAgain, SolveAfresh
<1>3. CASE OnMsgSolution
  <2>1. CASE p = m.problemNumber
    <3>1. m.answer \in Answer /\ m.viaLambda \in BOOLEAN
      BY <1>3, HeadType DEF OnMsgSolution, Receive, MsgSolution
    <3>2. Finished(m) \in Solution
      BY <1>1, <2>1, <3>1, FinishType DEF Finished, TypeOK
    <3>3. Finished(m).startedAt = solutions[p].startedAt
      BY <1>1, <2>1 DEF Finished, Complete, WithViaLambda, Solution
    <3> QED
      BY <1>3, <2>1, <3>2, <3>3, MasterAssumption DEF OnMsgSolution, TypeOK
  <2>2. CASE p # m.problemNumber
    BY <1>3, <2>2 DEF OnMsgSolution, TypeOK
  <2> QED
    BY <2>1, <2>2
<1>4. CASE OnMsgUserInfoUpdate
  <2>1. m.userInfo \in UserInfo
    BY <1>4, HeadType DEF OnMsgUserInfoUpdate, Receive, MsgUserInfoUpdate
  <2>2. WithBy(solutions[p], m.userInfo) \in Solution
    BY <1>1, <2>1, WithByType
  <2>3. WithBy(solutions[p], m.userInfo).startedAt = solutions[p].startedAt
    BY <1>1 DEF WithBy, Solution
  <2> QED
    BY <1>4, <2>2, <2>3, MasterAssumption DEF OnMsgUserInfoUpdate
<1>5. CASE UNCHANGED solutions
  BY <1>5
<1>6. \/ OnMsgSolve \/ OnMsgSolution \/ OnMsgUserInfoUpdate \/ UNCHANGED solutions
  BY DEF Next, MasterStep, Index, AskTimesOut, SendUserInfoUpdate, WorkerAnswers,
         WorkerThrows, BroadcasterReceives, Tick, vars
<1> QED
  BY <1>2, <1>3, <1>4, <1>5, <1>6

DoneWithFirst(w) ==
  /\ workerBox[w] # << >>
  /\ workerBox' = [workerBox EXCEPT ![w] = Tail(@)]

\* The jobs of the workers stay, or one worker is done with its first one, or
\* the master starts a solution.
LEMMA WorkerBoxStep ==
  ASSUME [Next]_vars
  PROVE  \/ UNCHANGED workerBox
         \/ \E w \in Workers : DoneWithFirst(w)
         \/ /\ OnMsgSolve
            /\ SolveAgain(Head(masterBox)) \/ SolveAfresh(Head(masterBox))
<1>1. CASE OnMsgSolve
  BY <1>1 DEF OnMsgSolve, ReplySolved, ReplyInProgress
<1>2. ASSUME NEW w \in Workers, WorkerAnswers(w) \/ WorkerThrows(w)
      PROVE  DoneWithFirst(w)
  BY <1>2 DEF WorkerAnswers, WorkerThrows, DoneWithFirst
<1>3. \/ OnMsgSolve
      \/ \E w \in Workers : WorkerAnswers(w) \/ WorkerThrows(w)
      \/ UNCHANGED workerBox
  BY DEF Next, MasterStep, Index, AskTimesOut, SendUserInfoUpdate, OnMsgSolution,
         OnMsgUserInfoUpdate, BroadcasterReceives, Tick, vars
<1> QED
  BY <1>1, <1>2, <1>3

LEMMA JobType ==
  ASSUME TypeOK, NEW w \in Workers, NEW i \in DOMAIN workerBox[w]
  PROVE  /\ workerBox[w][i] \in Job
         /\ workerBox[w][i].problemNumber \in Problems
         /\ workerBox[w][i].since \in Nat
<1>1. workerBox[w] \in Seq(Job)
  BY DEF TypeOK
<1>2. workerBox[w][i] \in Job
  BY <1>1, ElementType
<1> QED
  BY <1>2 DEF Job

\* Where the jobs are after a worker is done with its first one.
LEMMA TailPlaces ==
  ASSUME TypeOK, NEW v \in Workers, DoneWithFirst(v),
         NEW w \in Workers, NEW i \in DOMAIN workerBox'[w]
  PROVE  \/ /\ w = v /\ i \in Nat /\ i + 1 \in DOMAIN workerBox[w]
            /\ workerBox'[w][i] = workerBox[w][i + 1]
         \/ /\ w # v /\ i \in DOMAIN workerBox[w]
            /\ workerBox'[w][i] = workerBox[w][i]
<1>1. workerBox[v] \in Seq(Job) /\ workerBox[v] # << >>
  BY DEF TypeOK, DoneWithFirst
<1>2. CASE w = v
  <2>1. workerBox'[w] = Tail(workerBox[v])
    BY <1>2 DEF TypeOK, DoneWithFirst
  <2>2. i \in DOMAIN Tail(workerBox[v])
    BY <2>1
  <2>3. /\ i \in Nat /\ i + 1 \in DOMAIN workerBox[v]
        /\ Tail(workerBox[v])[i] = workerBox[v][i + 1]
    BY <1>1, <2>2, TailFacts
  <2> QED
    BY <1>2, <2>1, <2>3
<1>3. CASE w # v
  <2>1. workerBox'[w] = workerBox[w]
    BY <1>3 DEF TypeOK, DoneWithFirst
  <2> QED
    BY <1>3, <2>1
<1> QED
  BY <1>2, <1>3

\* Where the jobs are after the master has routed one more.
LEMMA RoutePlaces ==
  ASSUME TypeOK, NEW p \in Problems, Route(p),
         NEW w \in Workers, NEW i \in DOMAIN workerBox'[w]
  PROVE  \/ /\ i \in DOMAIN workerBox[w]
            /\ workerBox'[w][i] = workerBox[w][i]
         \/ /\ w = nextRoutee /\ i = Len(workerBox[w]) + 1
            /\ workerBox'[w][i] = [problemNumber |-> p, since |-> now]
<1> DEFINE job == [problemNumber |-> p, since |-> now]
<1>1. workerBox[nextRoutee] \in Seq(Job) /\ job \in Job
  BY DEF TypeOK, Job
<1>2. workerBox'[w] = IF w = nextRoutee THEN Append(workerBox[w], job)
                      ELSE workerBox[w]
  BY DEF TypeOK, Route
<1>3. CASE w = nextRoutee
  <2>1. workerBox[w] \in Seq(Job)
    BY <1>1, <1>3
  <2>2. /\ DOMAIN workerBox'[w] = DOMAIN workerBox[w] \cup {Len(workerBox[w]) + 1}
        /\ \A k \in DOMAIN workerBox[w] : workerBox'[w][k] = workerBox[w][k]
        /\ workerBox'[w][Len(workerBox[w]) + 1] = job
    BY <1>1, <1>2, <1>3, <2>1, AppendFacts
  <2> QED
    BY <1>3, <2>2
<1>4. CASE w # nextRoutee
  BY <1>2, <1>4
<1> QED
  BY <1>3, <1>4

\* A worker's answer: of the problem it worked on, and a final text.
IsAnswerOf(m, job) ==
  /\ m.type = "MsgSolution"
  /\ m.problemNumber = job.problemNumber
  /\ m.answer \in Result

\* A message in the master's mailbox was there before, or it is a new request,
\* a worker's answer or another name of a user.
LEMMA MasterBoxStep ==
  ASSUME TypeOK, [Next]_vars, NEW i \in DOMAIN masterBox'
  PROVE  \/ \E k \in DOMAIN masterBox : masterBox'[i] = masterBox[k]
         \/ \E r \in Requests, p \in Problems, by \in UserInfo :
              /\ Index(r, p, by)
              /\ masterBox'[i] = [type |-> "MsgSolve", problemNumber |-> p,
                                  by |-> by, sender |-> r]
         \/ \E w \in Workers : /\ workerBox[w] # << >>
                              /\ IsAnswerOf(masterBox'[i], Head(workerBox[w]))
         \/ masterBox'[i].type = "MsgUserInfoUpdate"
<1> USE DEF TypeOK
<1>1. ASSUME NEW r \in Requests, NEW p \in Problems, NEW by \in UserInfo,
             Index(r, p, by)
      PROVE  \/ \E k \in DOMAIN masterBox : masterBox'[i] = masterBox[k]
             \/ masterBox'[i] = [type |-> "MsgSolve", problemNumber |-> p,
                                 by |-> by, sender |-> r]
  <2>1. [type |-> "MsgSolve", problemNumber |-> p, by |-> by, sender |-> r]
          \in MasterMessage
    BY DEF MasterMessage, MsgSolve
  <2> QED
    BY <1>1, <2>1, AppendFacts DEF Index
<1>2. ASSUME NEW userInfo \in UserInfo, SendUserInfoUpdate(userInfo)
      PROVE  \/ \E k \in DOMAIN masterBox : masterBox'[i] = masterBox[k]
             \/ masterBox'[i].type = "MsgUserInfoUpdate"
  <2>1. [type |-> "MsgUserInfoUpdate", userInfo |-> userInfo] \in MasterMessage
    BY DEF MasterMessage, MsgUserInfoUpdate
  <2> QED
    BY <1>2, <2>1, AppendFacts DEF SendUserInfoUpdate
<1>3. ASSUME NEW w \in Workers, WorkerAnswers(w)
      PROVE  /\ workerBox[w] # << >>
             /\ \/ \E k \in DOMAIN masterBox : masterBox'[i] = masterBox[k]
                \/ IsAnswerOf(masterBox'[i], Head(workerBox[w]))
  <2> DEFINE job == Head(workerBox[w])
             p   == job.problemNumber
  <2>1. workerBox[w] # << >>
    BY <1>3 DEF WorkerAnswers
  <2>2. job \in Job
    BY <2>1, TailFacts
  <2>3. PICK answer \in AnswersTo(p) :
          masterBox' = Append(masterBox,
            [type |-> "MsgSolution", problemNumber |-> p, answer |-> answer,
             viaLambda |-> IsViaLambda(p), since |-> job.since])
    BY <1>3 DEF WorkerAnswers
  <2>4. answer \in Result /\ answer \in Answer
    BY <2>3 DEF AnswersTo, SolverAnswers, Answer, Result
  <2>5. IsViaLambda(p) \in BOOLEAN
    BY DEF IsViaLambda
  <2>6. [type |-> "MsgSolution", problemNumber |-> p, answer |-> answer,
         viaLambda |-> IsViaLambda(p), since |-> job.since] \in MasterMessage
    BY <2>2, <2>4, <2>5 DEF MasterMessage, MsgSolution, Job
  <2>7. \/ \E k \in DOMAIN masterBox : masterBox'[i] = masterBox[k]
        \/ masterBox'[i] =
              [type |-> "MsgSolution", problemNumber |-> p, answer |-> answer,
               viaLambda |-> IsViaLambda(p), since |-> job.since]
    BY <2>3, <2>6, AppendFacts
  <2> QED
    BY <2>1, <2>4, <2>7 DEF IsAnswerOf
<1>4. ASSUME masterBox # << >>, masterBox' = Tail(masterBox)
      PROVE  \E k \in DOMAIN masterBox : masterBox'[i] = masterBox[k]
  BY <1>4, TailFacts
<1>5. \/ \E r \in Requests, p \in Problems, by \in UserInfo : Index(r, p, by)
      \/ \E userInfo \in UserInfo : SendUserInfoUpdate(userInfo)
      \/ \E w \in Workers : WorkerAnswers(w)
      \/ masterBox # << >> /\ masterBox' = Tail(masterBox)
      \/ masterBox' = masterBox
  BY DEF Next, MasterStep, OnMsgSolve, OnMsgSolution, OnMsgUserInfoUpdate, Receive,
         AskTimesOut, WorkerThrows, BroadcasterReceives, Tick, vars
<1> QED
  BY <1>1, <1>2, <1>3, <1>4, <1>5

-----------------------------------------------------------------------------
(* Every answer is expected.                                               *)

LEMMA ExpectedInit == Init => AnswersAreExpected
  BY DEF Init, AnswersAreExpected

LEMMA ExpectedNext ==
  ASSUME TypeOK, AnswersAreExpected, [Next]_vars
  PROVE  AnswersAreExpected'
<1>1. ASSUME NEW w \in Workers, NEW i \in DOMAIN workerBox'[w]
      PROVE  solutions'[workerBox'[w][i].problemNumber] # NoSolution
  <2>1. ASSUME NEW k \in DOMAIN workerBox[w], workerBox'[w][i] = workerBox[w][k]
        PROVE  solutions'[workerBox'[w][i].problemNumber] # NoSolution
    <3>1. workerBox[w][k].problemNumber \in Problems
      <4>1. workerBox[w] \in Seq(Job)
        BY DEF TypeOK
      <4>2. workerBox[w][k] \in Job
        BY <4>1, ElementType
      <4> QED
        BY <4>2 DEF Job
    <3> QED
      BY <2>1, <3>1, EntryStep DEF AnswersAreExpected
  <2>2. CASE UNCHANGED workerBox
    BY <2>1, <2>2
  <2>3. ASSUME NEW v \in Workers, DoneWithFirst(v)
        PROVE  \E k \in DOMAIN workerBox[w] : workerBox'[w][i] = workerBox[w][k]
    BY <2>3, TailPlaces
  <2>4. ASSUME OnMsgSolve, StartSolution(Head(masterBox))
        PROVE  solutions'[workerBox'[w][i].problemNumber] # NoSolution
    <3> DEFINE p == Head(masterBox).problemNumber
    <3>1. p \in Problems /\ Head(masterBox).by \in UserInfo
      BY <2>4, HeadType DEF OnMsgSolve, Receive, MsgSolve
    <3>2. solutions'[p] # NoSolution
      BY <2>4, <3>1, StartType, MasterAssumption DEF StartSolution, TypeOK
    <3>3. \/ workerBox'[w][i].problemNumber = p
          \/ \E k \in DOMAIN workerBox[w] : workerBox'[w][i] = workerBox[w][k]
      <4>1. workerBox[nextRoutee] \in Seq(Job) /\ nextRoutee \in Workers
        BY DEF TypeOK
      <4>2. [problemNumber |-> p, since |-> now] \in Job
        BY <3>1 DEF Job, TypeOK
      <4> QED
        BY <2>4, <4>1, <4>2, AppendFacts DEF StartSolution, Route, TypeOK
    <3> QED
      BY <2>1, <3>2, <3>3
  <2> QED
    BY <2>1, <2>2, <2>3, <2>4, WorkerBoxStep DEF SolveAgain, SolveAfresh
<1>2. ASSUME NEW i \in DOMAIN masterBox', masterBox'[i].type = "MsgSolution"
      PROVE  solutions'[masterBox'[i].problemNumber] # NoSolution
  <2>1. ASSUME NEW k \in DOMAIN masterBox, masterBox'[i] = masterBox[k]
        PROVE  solutions'[masterBox'[i].problemNumber] # NoSolution
    <3>1. masterBox[k].problemNumber \in Problems
      BY <1>2, <2>1 DEF TypeOK, MasterMessage, MsgSolve, MsgSolution, MsgUserInfoUpdate
    <3> QED
      BY <1>2, <2>1, <3>1, EntryStep DEF AnswersAreExpected
  <2>2. ASSUME NEW w \in Workers, workerBox[w] # << >>,
               IsAnswerOf(masterBox'[i], Head(workerBox[w]))
        PROVE  solutions'[masterBox'[i].problemNumber] # NoSolution
    <3>1. /\ 1 \in DOMAIN workerBox[w]
          /\ Head(workerBox[w]) = workerBox[w][1]
          /\ workerBox[w][1] \in Job
      BY <2>2, TailFacts DEF TypeOK
    <3>2. solutions[workerBox[w][1].problemNumber] # NoSolution
      BY <3>1 DEF AnswersAreExpected
    <3> QED
      BY <2>2, <3>1, <3>2, EntryStep DEF IsAnswerOf, Job
  <2> QED
    BY <1>2, <2>1, <2>2, MasterBoxStep
<1> QED
  BY <1>1, <1>2 DEF AnswersAreExpected

\* "We ignore any solutions that we are not aware of -- should never really
\* happen" (EulerProblemMaster.scala:78) never happens: the master has an entry
\* for every problem a worker is solving or has answered.
THEOREM AnswersExpected == Spec => []AnswersAreExpected
<1>1. TypeOK /\ AnswersAreExpected /\ [Next]_vars => AnswersAreExpected'
  BY ExpectedNext
<1> QED
  BY <1>1, ExpectedInit, TypeCorrect, PTL DEF Spec

-----------------------------------------------------------------------------
(* The times of the entries.                                               *)

\* An entry was started in the past, and a solved one finished since then.
EntryTimes ==
  \A p \in Problems : solutions[p] # NoSolution =>
    /\ solutions[p].startedAt <= now
    /\ IsSolved(solutions[p]) => /\ solutions[p].startedAt <= solutions[p].finishedAt
                                 /\ solutions[p].finishedAt <= now

LEMMA ClockStep ==
  ASSUME TypeOK, [Next]_vars
  PROVE  now' \in Nat /\ now <= now'
<1>1. Tick \/ UNCHANGED now
  BY DEF Next, MasterStep, OnMsgSolve, OnMsgSolution, OnMsgUserInfoUpdate, Receive,
         Index, AskTimesOut, SendUserInfoUpdate, WorkerAnswers, WorkerThrows,
         BroadcasterReceives, vars
<1> QED
  BY <1>1 DEF Tick, TypeOK

LEMMA EntryTimesNext ==
  ASSUME TypeOK, EntryTimes, [Next]_vars
  PROVE  EntryTimes'
<1> DEFINE m == Head(masterBox)
<1> SUFFICES ASSUME NEW p \in Problems, solutions'[p] # NoSolution
             PROVE  /\ solutions'[p].startedAt <= now'
                    /\ IsSolved(solutions'[p]) =>
                         /\ solutions'[p].startedAt <= solutions'[p].finishedAt
                         /\ solutions'[p].finishedAt <= now'
  BY DEF EntryTimes, IsSolved
<1>1. /\ now \in Nat /\ now' \in Nat /\ now <= now'
      /\ solutions[p] # NoSolution => solutions[p] \in Solution
  BY ClockStep DEF TypeOK
<1>2. CASE solutions'[p] = solutions[p]
  BY <1>1, <1>2 DEF EntryTimes, IsSolved, Solution
<1>3. CASE OnMsgSolve
  <2>1. CASE StartSolution(m) /\ p = m.problemNumber
    <3>1. solutions'[p] = Start(p, m.by, now)
      BY <2>1 DEF StartSolution, TypeOK
    <3> QED
      BY <1>1, <3>1 DEF Start, Unfinished, IsSolved
  <2>2. solutions'[p] = solutions[p] \/ (StartSolution(m) /\ p = m.problemNumber)
    BY <1>3 DEF OnMsgSolve, SolveAgain, SolveAfresh, StartSolution, ReplySolved,
                ReplyInProgress, TypeOK
  <2> QED
    BY <1>2, <2>1, <2>2
<1>4. CASE OnMsgSolution /\ solutions'[p] # solutions[p]
  <2>1. p = m.problemNumber /\ solutions[p] # NoSolution /\ solutions'[p] = Finished(m)
    BY <1>4 DEF OnMsgSolution, TypeOK
  <2>2. /\ Finished(m).startedAt = solutions[p].startedAt
        /\ Finished(m).finishedAt = now
    BY <1>1, <2>1 DEF Finished, Complete, WithViaLambda, Solution
  <2> QED
    BY <1>1, <2>1, <2>2 DEF EntryTimes, Solution
<1>5. CASE OnMsgUserInfoUpdate /\ solutions'[p] # solutions[p]
  <2>1. /\ solutions[p] # NoSolution
        /\ solutions'[p] = WithBy(solutions[p], m.userInfo)
    BY <1>5 DEF OnMsgUserInfoUpdate, IsCreditedTo
  <2>2. /\ solutions'[p].startedAt = solutions[p].startedAt
        /\ solutions'[p].finishedAt = solutions[p].finishedAt
        /\ solutions'[p].answer = solutions[p].answer
    BY <1>1, <2>1 DEF WithBy, Solution
  <2> QED
    BY <1>1, <2>1, <2>2 DEF EntryTimes, IsSolved, Solution
<1>6. \/ OnMsgSolve \/ OnMsgSolution \/ OnMsgUserInfoUpdate
      \/ solutions'[p] = solutions[p]
  BY DEF Next, MasterStep, Index, AskTimesOut, SendUserInfoUpdate, WorkerAnswers,
         WorkerThrows, BroadcasterReceives, Tick, vars
<1> QED
  BY <1>2, <1>3, <1>4, <1>5, <1>6

LEMMA EntryTimesInvariant == Spec => []EntryTimes
<1>1. Init => EntryTimes
  BY DEF Init, EntryTimes
<1>2. TypeOK /\ EntryTimes /\ [Next]_vars => EntryTimes'
  BY EntryTimesNext
<1> QED
  BY <1>1, <1>2, TypeCorrect, PTL DEF Spec

-----------------------------------------------------------------------------
(* No two young solutions of one problem.                                  *)

\* No job is younger than the entry of its problem.
JobsBeforeEntries ==
  \A w \in Workers : \A i \in DOMAIN workerBox[w] :
    workerBox[w][i].since <= solutions[workerBox[w][i].problemNumber].startedAt

\* Two jobs of one problem were routed more than the maximal age apart.
JobsFarApart ==
  \A v, w \in Workers : \A i \in DOMAIN workerBox[v], j \in DOMAIN workerBox[w] :
    /\ workerBox[v][i].problemNumber = workerBox[w][j].problemNumber
    /\ v # w \/ i # j
    => \/ workerBox[v][i].since - workerBox[w][j].since > MaxAgeSeconds
       \/ workerBox[w][j].since - workerBox[v][i].since > MaxAgeSeconds

LEMMA BeforeEntriesNext ==
  ASSUME TypeOK, AnswersAreExpected, EntryTimes, JobsBeforeEntries, [Next]_vars
  PROVE  JobsBeforeEntries'
<1> SUFFICES ASSUME NEW w \in Workers, NEW i \in DOMAIN workerBox'[w]
             PROVE  workerBox'[w][i].since
                      <= solutions'[workerBox'[w][i].problemNumber].startedAt
  BY DEF JobsBeforeEntries
<1>1. ASSUME NEW k \in DOMAIN workerBox[w], workerBox'[w][i] = workerBox[w][k]
      PROVE  workerBox'[w][i].since
               <= solutions'[workerBox'[w][i].problemNumber].startedAt
  <2> DEFINE p == workerBox[w][k].problemNumber
  <2>1. p \in Problems /\ workerBox[w][k].since \in Nat /\ now \in Nat
    BY JobType DEF TypeOK
  <2>2. solutions[p] # NoSolution
    BY DEF AnswersAreExpected
  <2>3. solutions[p].startedAt \in Nat
    BY <2>1, <2>2 DEF TypeOK, Solution
  <2>4. workerBox[w][k].since <= solutions[p].startedAt
    BY DEF JobsBeforeEntries
  <2>5. solutions[p].startedAt <= now
    BY <2>1, <2>2 DEF EntryTimes
  <2>6. \/ solutions'[p].startedAt = solutions[p].startedAt
        \/ solutions'[p].startedAt = now
    BY <2>1, <2>2, EntryStep
  <2> QED
    BY <1>1, <2>1, <2>3, <2>4, <2>5, <2>6
<1>2. ASSUME NEW v \in Workers, DoneWithFirst(v)
      PROVE  \E k \in DOMAIN workerBox[w] : workerBox'[w][i] = workerBox[w][k]
  BY <1>2, TailPlaces
<1>3. ASSUME OnMsgSolve, StartSolution(Head(masterBox))
      PROVE  workerBox'[w][i].since
               <= solutions'[workerBox'[w][i].problemNumber].startedAt
  <2> DEFINE m == Head(masterBox)
  <2>1. m.problemNumber \in Problems
    BY <1>3, HeadType DEF OnMsgSolve, Receive, MsgSolve
  <2>2. \/ \E k \in DOMAIN workerBox[w] : workerBox'[w][i] = workerBox[w][k]
        \/ workerBox'[w][i] = [problemNumber |-> m.problemNumber, since |-> now]
    BY <1>3, <2>1, RoutePlaces DEF StartSolution
  <2>3. solutions'[m.problemNumber].startedAt = now
    BY <1>3, <2>1 DEF StartSolution, Start, Unfinished, TypeOK
  <2> QED
    BY <1>1, <2>2, <2>3 DEF TypeOK
<1> QED
  BY <1>1, <1>2, <1>3, WorkerBoxStep DEF SolveAgain, SolveAfresh

\* A solution is started beside an old one only when that one has gone stale.
LEMMA FarApartNext ==
  ASSUME CacheSolutions, TypeOK, AnswersAreExpected, JobsBeforeEntries,
         JobsFarApart, [Next]_vars
  PROVE  JobsFarApart'
<1> SUFFICES ASSUME NEW v \in Workers, NEW w \in Workers,
                    NEW i \in DOMAIN workerBox'[v], NEW j \in DOMAIN workerBox'[w],
                    workerBox'[v][i].problemNumber = workerBox'[w][j].problemNumber,
                    v # w \/ i # j
             PROVE  \/ workerBox'[v][i].since - workerBox'[w][j].since > MaxAgeSeconds
                    \/ workerBox'[w][j].since - workerBox'[v][i].since > MaxAgeSeconds
  BY DEF JobsFarApart
<1>1. CASE UNCHANGED workerBox
  BY <1>1 DEF JobsFarApart
<1>2. ASSUME NEW u \in Workers, DoneWithFirst(u)
      PROVE  \/ workerBox'[v][i].since - workerBox'[w][j].since > MaxAgeSeconds
             \/ workerBox'[w][j].since - workerBox'[v][i].since > MaxAgeSeconds
  <2>1. PICK k \in DOMAIN workerBox[v] :
          /\ workerBox'[v][i] = workerBox[v][k]
          /\ v = u => i \in Nat /\ k = i + 1
          /\ v # u => k = i
    BY <1>2, TailPlaces
  <2>2. PICK l \in DOMAIN workerBox[w] :
          /\ workerBox'[w][j] = workerBox[w][l]
          /\ w = u => j \in Nat /\ l = j + 1
          /\ w # u => l = j
    BY <1>2, TailPlaces
  <2>3. v # w \/ k # l
    BY <2>1, <2>2
  <2> QED
    BY <2>1, <2>2, <2>3 DEF JobsFarApart
<1>3. ASSUME OnMsgSolve, SolveAfresh(Head(masterBox))
      PROVE  \/ workerBox'[v][i].since - workerBox'[w][j].since > MaxAgeSeconds
             \/ workerBox'[w][j].since - workerBox'[v][i].since > MaxAgeSeconds
  <2> DEFINE p     == Head(masterBox).problemNumber
             fresh == [problemNumber |-> p, since |-> now]
  <2>1. p \in Problems
    BY <1>3, HeadType DEF OnMsgSolve, Receive, MsgSolve
  <2>2. ~InCache(p) /\ Route(p)
    BY <1>3 DEF SolveAfresh, StartSolution
  <2>3. ASSUME NEW u \in Workers, NEW k \in DOMAIN workerBox[u],
               workerBox[u][k].problemNumber = p
        PROVE  fresh.since - workerBox[u][k].since > MaxAgeSeconds
    <3>1. solutions[p] # NoSolution
      BY <2>3 DEF AnswersAreExpected
    <3>2. solutions[p].startedAt \in Nat
      BY <2>1, <3>1 DEF TypeOK, Solution
    <3>3. now - solutions[p].startedAt > MaxAgeSeconds
      BY <2>2, <3>1 DEF InCache, IsStale
    <3>4. workerBox[u][k].since <= solutions[p].startedAt
      BY <2>3 DEF JobsBeforeEntries
    <3>5. workerBox[u][k].since \in Nat /\ now \in Nat
      BY JobType DEF TypeOK
    <3> QED
      BY <3>2, <3>3, <3>4, <3>5, MasterAssumption
  <2>4. \/ i \in DOMAIN workerBox[v] /\ workerBox'[v][i] = workerBox[v][i]
        \/ v = nextRoutee /\ i = Len(workerBox[v]) + 1 /\ workerBox'[v][i] = fresh
    BY <2>1, <2>2, RoutePlaces
  <2>5. \/ j \in DOMAIN workerBox[w] /\ workerBox'[w][j] = workerBox[w][j]
        \/ w = nextRoutee /\ j = Len(workerBox[w]) + 1 /\ workerBox'[w][j] = fresh
    BY <2>1, <2>2, RoutePlaces
  <2> QED
    BY <2>3, <2>4, <2>5 DEF JobsFarApart
<1>4. ~SolveAgain(Head(masterBox))
  BY DEF SolveAgain
<1> QED
  BY <1>1, <1>2, <1>3, <1>4, WorkerBoxStep

\* "(So we don't start multiple parallel solutions for same problem)"
\* (EulerProblemMaster.scala:63) holds of solutions that are not given up yet
\* when the cache is used: a problem has at most one such job.
THEOREM OneYoungSolution ==
  ASSUME CacheSolutions
  PROVE  Spec => []NoParallelSolutions
<1> DEFINE IInv == JobsBeforeEntries /\ JobsFarApart
<1>1. Init => IInv
  BY DEF Init, JobsBeforeEntries, JobsFarApart
<1>2. TypeOK /\ AnswersAreExpected /\ EntryTimes /\ IInv /\ [Next]_vars => IInv'
  BY BeforeEntriesNext, FarApartNext
<1>3. TypeOK /\ AnswersAreExpected /\ EntryTimes /\ IInv => NoParallelSolutions
  <2> SUFFICES ASSUME TypeOK, AnswersAreExpected, EntryTimes, IInv,
                      NEW v \in Workers, NEW w \in Workers,
                      NEW i \in DOMAIN workerBox[v], NEW j \in DOMAIN workerBox[w],
                      workerBox[v][i].problemNumber = workerBox[w][j].problemNumber,
                      now - workerBox[v][i].since <= MaxAgeSeconds,
                      now - workerBox[w][j].since <= MaxAgeSeconds
               PROVE  v = w /\ i = j
    BY DEF NoParallelSolutions
  <2>1. ASSUME NEW u \in Workers, NEW k \in DOMAIN workerBox[u]
        PROVE  workerBox[u][k].since \in Nat /\ workerBox[u][k].since <= now
    <3> DEFINE p == workerBox[u][k].problemNumber
    <3>1. p \in Problems /\ workerBox[u][k].since \in Nat
      BY JobType
    <3>2. solutions[p] # NoSolution
      BY DEF AnswersAreExpected
    <3>3. solutions[p].startedAt \in Nat /\ solutions[p].startedAt <= now
      BY <3>1, <3>2 DEF TypeOK, Solution, EntryTimes
    <3>4. workerBox[u][k].since <= solutions[p].startedAt
      BY DEF JobsBeforeEntries
    <3> QED
      BY <3>1, <3>3, <3>4 DEF TypeOK
  <2>2. /\ workerBox[v][i].since \in Nat /\ workerBox[v][i].since <= now
        /\ workerBox[w][j].since \in Nat /\ workerBox[w][j].since <= now
    BY <2>1
  <2>3. v # w \/ i # j =>
          \/ workerBox[v][i].since - workerBox[w][j].since > MaxAgeSeconds
          \/ workerBox[w][j].since - workerBox[v][i].since > MaxAgeSeconds
    BY DEF JobsFarApart
  <2>4. now \in Nat /\ MaxAgeSeconds \in Nat
    BY MasterAssumption DEF TypeOK
  <2> QED
    BY <2>2, <2>3, <2>4
<1> QED
  BY <1>1, <1>2, <1>3, TypeCorrect, AnswersExpected, EntryTimesInvariant, PTL DEF Spec

-----------------------------------------------------------------------------
(* What is broadcast is final.                                             *)

\* The workers answer with a Long or a failure, never with a text of the master.
AnswersAreFinal ==
  \A i \in DOMAIN masterBox :
    masterBox[i].type = "MsgSolution" => masterBox[i].answer \in Result

IsFinal(s) ==
  /\ s.answer \in Result
  /\ s.startedAt <= s.finishedAt
  /\ s.finishedAt <= now

LEMMA AnswersFinalNext ==
  ASSUME TypeOK, AnswersAreFinal, [Next]_vars
  PROVE  AnswersAreFinal'
<1> SUFFICES ASSUME NEW i \in DOMAIN masterBox', masterBox'[i].type = "MsgSolution"
             PROVE  masterBox'[i].answer \in Result
  BY DEF AnswersAreFinal
<1> QED
  BY MasterBoxStep DEF AnswersAreFinal, IsAnswerOf

LEMMA BroadcastsNext ==
  ASSUME TypeOK, EntryTimes, AnswersAreFinal, BroadcastsAreFinished, [Next]_vars
  PROVE  BroadcastsAreFinished'
<1> SUFFICES ASSUME NEW i \in DOMAIN broadcasterBox'
             PROVE  IsFinal(broadcasterBox[i])'
  BY DEF BroadcastsAreFinished, IsFinal
<1>1. now \in Nat /\ now' \in Nat /\ now <= now'
  BY ClockStep DEF TypeOK
<1>2. ASSUME NEW k \in DOMAIN broadcasterBox, broadcasterBox'[i] = broadcasterBox[k]
      PROVE  IsFinal(broadcasterBox[i])'
  <2>1. broadcasterBox[k] \in Solution
    BY ElementType DEF TypeOK
  <2> QED
    BY <1>1, <1>2, <2>1 DEF BroadcastsAreFinished, IsFinal, Solution
<1>3. ASSUME NEW s \in Solution, IsFinal(s), Broadcast(s)
      PROVE  IsFinal(broadcasterBox[i])'
  <2>1. \/ \E k \in DOMAIN broadcasterBox : broadcasterBox'[i] = broadcasterBox[k]
        \/ broadcasterBox'[i] = s
    BY <1>3, AppendFacts DEF Broadcast, TypeOK
  <2> QED
    BY <1>1, <1>2, <1>3, <2>1 DEF IsFinal, Solution
<1>4. CASE OnMsgSolve
  <2> DEFINE m == Head(masterBox)
  <2>1. m.problemNumber \in Problems
    BY <1>4, HeadType DEF OnMsgSolve, Receive, MsgSolve
  <2>2. CASE ReplySolved(m)
    <3>1. /\ solutions[m.problemNumber] \in Solution
          /\ IsSolved(solutions[m.problemNumber])
          /\ Broadcast(solutions[m.problemNumber])
      BY <2>1, <2>2 DEF ReplySolved, InCache, TypeOK
    <3>2. IsFinal(solutions[m.problemNumber])
      BY <2>1, <3>1, MasterAssumption DEF EntryTimes, IsSolved, IsFinal, Result
    <3> QED
      BY <1>3, <3>1, <3>2
  <2>3. CASE UNCHANGED broadcasterBox
    BY <1>2, <2>3
  <2> QED
    BY <1>4, <2>2, <2>3 DEF OnMsgSolve, ReplyInProgress, SolveAgain, SolveAfresh,
                            StartSolution
<1>5. CASE OnMsgSolution
  <2> DEFINE m == Head(masterBox)
             s == solutions[m.problemNumber]
  <2>1. /\ masterBox # << >>
        /\ m \in MsgSolution
    BY <1>5, HeadType DEF OnMsgSolution, Receive
  <2>2. CASE s # NoSolution
    <3>1. s \in Solution
      BY <2>1, <2>2 DEF TypeOK, MsgSolution
    <3>2. m.answer \in Result
      BY <2>1, TailFacts DEF AnswersAreFinal, TypeOK, MsgSolution
    <3>3. Finished(m) \in Solution
      BY <2>1, <3>1, FinishType DEF Finished, MsgSolution, TypeOK
    <3>4. /\ Finished(m).startedAt = s.startedAt
          /\ Finished(m).finishedAt = now
          /\ Finished(m).answer = m.answer
      BY <3>1 DEF Finished, Complete, WithViaLambda, Solution
    <3>5. s.startedAt <= now
      BY <2>1, <2>2 DEF EntryTimes, MsgSolution
    <3>6. IsFinal(Finished(m))
      BY <1>1, <3>2, <3>4, <3>5 DEF IsFinal
    <3> QED
      BY <1>3, <1>5, <2>2, <3>3, <3>6 DEF OnMsgSolution
  <2>3. CASE s = NoSolution
    BY <1>2, <1>5, <2>3 DEF OnMsgSolution
  <2> QED
    BY <2>2, <2>3
<1>6. CASE BroadcasterReceives
  BY <1>2, <1>6, TailFacts DEF BroadcasterReceives, TypeOK
<1>7. CASE UNCHANGED broadcasterBox
  BY <1>2, <1>7
<1>8. OnMsgSolve \/ OnMsgSolution \/ BroadcasterReceives \/ UNCHANGED broadcasterBox
  BY DEF Next, MasterStep, Index, AskTimesOut, SendUserInfoUpdate,
         OnMsgUserInfoUpdate, WorkerAnswers, WorkerThrows, Tick, vars
<1> QED
  BY <1>4, <1>5, <1>6, <1>7, <1>8

\* What the master broadcasts is always final: it has an answer or a failure,
\* and its duration is not negative, however many attempts raced for it.
THEOREM BroadcastsFinished == Spec => []BroadcastsAreFinished
<1> DEFINE IInv == AnswersAreFinal /\ BroadcastsAreFinished
<1>1. Init => IInv
  BY DEF Init, AnswersAreFinal, BroadcastsAreFinished
<1>2. TypeOK /\ EntryTimes /\ IInv /\ [Next]_vars => IInv'
  BY AnswersFinalNext, BroadcastsNext
<1> QED
  BY <1>1, <1>2, TypeCorrect, EntryTimesInvariant, PTL DEF Spec

-----------------------------------------------------------------------------
(* Solutions are credited to somebody who asked for them.                  *)

\* The request r asked for the problem p on behalf of the user uuid.
HasAsked(r, p, uuid) ==
  /\ asks[r] # NoAsk
  /\ asks[r].problemNumber = p
  /\ asks[r].by.uuid = uuid

\* Every MsgSolve in the mailbox says what its sender asked for.
SolvesAreAsked ==
  \A i \in DOMAIN masterBox : masterBox[i].type = "MsgSolve" =>
    HasAsked(masterBox[i].sender, masterBox[i].problemNumber, masterBox[i].by.uuid)

\* An ask keeps what it asked for; only its reply changes.
LEMMA AskStep ==
  ASSUME TypeOK, [Next]_vars, NEW r \in Requests, NEW p, NEW uuid,
         HasAsked(r, p, uuid)
  PROVE  HasAsked(r, p, uuid)'
<1>1. asks[r] \in Ask
  BY DEF HasAsked, TypeOK
<1>2. ASSUME NEW q \in Requests, NEW solution \in Solution, Resolve(q, solution)
      PROVE  HasAsked(r, p, uuid)'
  <2>1. CASE q = r /\ Waiting(r)
    <3>1. AsMine(solution, asks[r].by.uuid) \in Solution
      BY AsMineType
    <3>2. asks'[r] = [asks[r] EXCEPT !.reply = AsMine(solution, asks[r].by.uuid)]
      BY <1>2, <2>1 DEF Resolve, TypeOK
    <3>3. /\ asks'[r] \in Ask
          /\ asks'[r].problemNumber = asks[r].problemNumber
          /\ asks'[r].by = asks[r].by
      BY <1>1, <3>1, <3>2 DEF Ask
    <3> QED
      BY <3>3, NoAskAssumption DEF HasAsked
  <2>2. CASE q # r \/ ~Waiting(r)
    <3>1. asks'[r] = asks[r]
      BY <1>2, <2>2 DEF Resolve, TypeOK
    <3> QED
      BY <3>1 DEF HasAsked
  <2> QED
    BY <2>1, <2>2
<1>3. CASE UNCHANGED asks
  BY <1>3 DEF HasAsked
<1>4. ASSUME NEW q \in Requests, NEW n \in Problems, NEW by \in UserInfo,
             Index(q, n, by)
      PROVE  HasAsked(r, p, uuid)'
  <2>1. asks'[r] = asks[r]
    BY <1>4 DEF Index, HasAsked, TypeOK
  <2> QED
    BY <2>1 DEF HasAsked
<1>5. ASSUME NEW q \in Requests, AskTimesOut(q)
      PROVE  HasAsked(r, p, uuid)'
  <2>1. asks[q] \in Ask
    BY <1>5 DEF AskTimesOut, Waiting, TypeOK
  <2>2. ERROR_TIMEOUT \in Answer
    BY DEF Answer
  <2>3. Error(asks[q].problemNumber, asks[q].by, ERROR_TIMEOUT, now) \in Solution
    BY <2>1, <2>2, UnfinishedType DEF TypeOK, Ask
  <2> QED
    BY <1>2, <1>5, <2>3 DEF AskTimesOut
<1>6. CASE OnMsgSolve
  <2> DEFINE m == Head(masterBox)
  <2>1. m.problemNumber \in Problems /\ m.by \in UserInfo /\ m.sender \in Requests
    BY <1>6, HeadType DEF OnMsgSolve, Receive, MsgSolve
  <2>2. CASE StartSolution(m)
    BY <1>2, <2>1, <2>2, StartType DEF StartSolution, TypeOK
  <2>3. CASE ReplySolved(m) \/ ReplyInProgress(m)
    BY <1>2, <2>1, <2>3 DEF ReplySolved, ReplyInProgress, InCache, TypeOK
  <2> QED
    BY <1>6, <2>2, <2>3 DEF OnMsgSolve, SolveAgain, SolveAfresh
<1>7. \/ \E q \in Requests, n \in Problems, by \in UserInfo : Index(q, n, by)
      \/ \E q \in Requests : AskTimesOut(q)
      \/ OnMsgSolve
      \/ UNCHANGED asks
  BY DEF Next, MasterStep, SendUserInfoUpdate, OnMsgSolution, OnMsgUserInfoUpdate,
         WorkerAnswers, WorkerThrows, BroadcasterReceives, Tick, vars
<1> QED
  BY <1>3, <1>4, <1>5, <1>6, <1>7

LEMMA SolvesAskedNext ==
  ASSUME TypeOK, SolvesAreAsked, [Next]_vars
  PROVE  SolvesAreAsked'
<1> SUFFICES ASSUME NEW i \in DOMAIN masterBox', masterBox'[i].type = "MsgSolve"
             PROVE  HasAsked(masterBox[i].sender, masterBox[i].problemNumber,
                      masterBox[i].by.uuid)'
  BY DEF SolvesAreAsked
<1>1. ASSUME NEW k \in DOMAIN masterBox, masterBox'[i] = masterBox[k]
      PROVE  HasAsked(masterBox[i].sender, masterBox[i].problemNumber,
                      masterBox[i].by.uuid)'
  <2>1. masterBox[k] \in MasterMessage
    BY ElementType DEF TypeOK
  <2>2. masterBox[k].sender \in Requests
    BY <1>1, <2>1 DEF MasterMessage, MsgSolve, MsgSolution, MsgUserInfoUpdate
  <2>3. HasAsked(masterBox[k].sender, masterBox[k].problemNumber,
                 masterBox[k].by.uuid)
    BY <1>1 DEF SolvesAreAsked
  <2> QED
    BY <1>1, <2>2, <2>3, AskStep
<1>2. ASSUME NEW r \in Requests, NEW p \in Problems, NEW by \in UserInfo,
             Index(r, p, by),
             masterBox'[i] = [type |-> "MsgSolve", problemNumber |-> p,
                              by |-> by, sender |-> r]
      PROVE  HasAsked(masterBox[i].sender, masterBox[i].problemNumber,
                      masterBox[i].by.uuid)'
  <2>1. asks'[r] = [problemNumber |-> p, by |-> by, at |-> now, reply |-> NoSolution]
    BY <1>2 DEF Index, TypeOK
  <2>2. asks'[r] \in Ask
    BY <2>1 DEF Ask, TypeOK
  <2> QED
    BY <1>2, <2>1, <2>2, NoAskAssumption DEF HasAsked
<1> QED
  BY <1>1, <1>2, MasterBoxStep DEF IsAnswerOf

LEMMA CreditNext ==
  ASSUME TypeOK, SolvesAreAsked, CreditedToAnAsker, [Next]_vars
  PROVE  CreditedToAnAsker'
<1> DEFINE m == Head(masterBox)
<1> SUFFICES ASSUME NEW p \in Problems, solutions'[p] # NoSolution
             PROVE  \E r \in Requests : HasAsked(r, p, solutions[p].by.uuid)'
  BY DEF CreditedToAnAsker, HasAsked
<1>1. solutions[p] # NoSolution => solutions[p] \in Solution
  BY DEF TypeOK
<1>2. ASSUME solutions[p] # NoSolution,
             solutions'[p].by.uuid = solutions[p].by.uuid
      PROVE  \E r \in Requests : HasAsked(r, p, solutions[p].by.uuid)'
  <2>1. PICK r \in Requests : HasAsked(r, p, solutions[p].by.uuid)
    BY <1>2 DEF CreditedToAnAsker, HasAsked
  <2>2. asks'[r] # NoAsk /\ asks'[r].problemNumber = p
                        /\ asks'[r].by.uuid = solutions[p].by.uuid
    BY <2>1, AskStep DEF HasAsked
  <2> QED
    BY <1>2, <2>2 DEF HasAsked
<1>3. CASE OnMsgSolve
  <2>1. /\ m \in MsgSolve /\ m = masterBox[1] /\ 1 \in DOMAIN masterBox
    BY <1>3, HeadType, TailFacts DEF OnMsgSolve, Receive, TypeOK
  <2>2. CASE StartSolution(m) /\ p = m.problemNumber
    <3>1. solutions'[p].by = m.by
      BY <2>2 DEF StartSolution, Start, Unfinished, TypeOK
    <3>2. HasAsked(m.sender, p, m.by.uuid)
      BY <2>1, <2>2 DEF SolvesAreAsked, MsgSolve
    <3>3. /\ asks'[m.sender] # NoAsk /\ asks'[m.sender].problemNumber = p
          /\ asks'[m.sender].by.uuid = m.by.uuid
      BY <2>1, <3>2, AskStep DEF HasAsked, MsgSolve
    <3> QED
      BY <2>1, <3>1, <3>3 DEF HasAsked, MsgSolve
  <2>3. solutions'[p] = solutions[p] \/ (StartSolution(m) /\ p = m.problemNumber)
    BY <1>3, <2>1 DEF OnMsgSolve, SolveAgain, SolveAfresh, StartSolution, ReplySolved,
                      ReplyInProgress, TypeOK, MsgSolve
  <2> QED
    BY <1>2, <2>2, <2>3
<1>4. CASE OnMsgSolution /\ solutions'[p] # solutions[p]
  <2>1. p = m.problemNumber /\ solutions[p] # NoSolution /\ solutions'[p] = Finished(m)
    BY <1>4 DEF OnMsgSolution, TypeOK
  <2>2. Finished(m).by = solutions[p].by
    BY <1>1, <2>1 DEF Finished, Complete, WithViaLambda, Solution
  <2> QED
    BY <1>2, <2>1, <2>2
<1>5. CASE OnMsgUserInfoUpdate /\ solutions'[p] # solutions[p]
  <2>1. /\ solutions[p] # NoSolution
        /\ solutions[p].by.uuid = m.userInfo.uuid
        /\ solutions'[p] = WithBy(solutions[p], m.userInfo)
    BY <1>5 DEF OnMsgUserInfoUpdate, IsCreditedTo
  <2>2. solutions'[p].by = m.userInfo
    BY <1>1, <2>1 DEF WithBy, Solution
  <2> QED
    BY <1>2, <2>1, <2>2
<1>6. CASE solutions'[p] = solutions[p]
  BY <1>2, <1>6
<1>7. \/ OnMsgSolve \/ OnMsgSolution \/ OnMsgUserInfoUpdate
      \/ solutions'[p] = solutions[p]
  BY DEF Next, MasterStep, Index, AskTimesOut, SendUserInfoUpdate, WorkerAnswers,
         WorkerThrows, BroadcasterReceives, Tick, vars
<1> QED
  BY <1>3, <1>4, <1>5, <1>6, <1>7

\* The user every client sees beside a solution has asked for that problem:
\* renames, restarts and late answers never give the credit to anybody else.
THEOREM CreditedRightly == Spec => []CreditedToAnAsker
<1> DEFINE IInv == SolvesAreAsked /\ CreditedToAnAsker
<1>1. Init => IInv
  BY DEF Init, SolvesAreAsked, CreditedToAnAsker
<1>2. TypeOK /\ IInv /\ [Next]_vars => IInv'
  BY SolvesAskedNext, CreditNext
<1> QED
  BY <1>1, <1>2, TypeCorrect, PTL DEF Spec
-----------------------------------------------------------------------------
(* What is in progress is being solved, unless attempts fail.              *)

\* Every problem has a solver, and solvers neither answer with an error text nor
\* throw.
NoFailures ==
  /\ WorkerFaults = {}
  /\ Problems \subseteq AvailableProblems \cup AwsLambdaProblems

AnswersAreLong ==
  \A i \in DOMAIN masterBox :
    masterBox[i].type = "MsgSolution" => masterBox[i].answer = LONG

\* An entry of the cache is solved or, stale or not, being solved.
EntriesInHand ==
  \A p \in Problems : solutions[p] # NoSolution =>
    IsSolved(solutions[p]) \/ BeingSolved(p)

InHandInv == now > 0 /\ AnswersAreLong /\ EntriesInHand

\* What a worker's answer does to the master's mailbox.
LEMMA WorkerAnswersSends ==
  ASSUME TypeOK, NEW w \in Workers, WorkerAnswers(w)
  PROVE  /\ workerBox[w] # << >> /\ Head(workerBox[w]) \in Job
         /\ \E answer \in AnswersTo(Head(workerBox[w]).problemNumber) :
              \E m \in MasterMessage :
                /\ m.type = "MsgSolution"
                /\ m.problemNumber = Head(workerBox[w]).problemNumber
                /\ m.answer = answer
                /\ m.since = Head(workerBox[w]).since
                /\ masterBox' = Append(masterBox, m)
<1> DEFINE job == Head(workerBox[w])
           p   == job.problemNumber
<1>1. workerBox[w] # << >> /\ workerBox[w] \in Seq(Job)
  BY DEF WorkerAnswers, TypeOK
<1>2. job \in Job
  BY <1>1, TailFacts
<1>3. PICK answer \in AnswersTo(p) :
        masterBox' = Append(masterBox,
          [type |-> "MsgSolution", problemNumber |-> p, answer |-> answer,
           viaLambda |-> IsViaLambda(p), since |-> job.since])
  BY DEF WorkerAnswers
<1> DEFINE m == [type |-> "MsgSolution", problemNumber |-> p, answer |-> answer,
                 viaLambda |-> IsViaLambda(p), since |-> job.since]
<1>4. m \in MsgSolution
  BY <1>2, <1>3, AnswersType DEF MsgSolution, Job, IsViaLambda
<1>5. m \in MasterMessage
  BY <1>4 DEF MasterMessage
<1> QED
  BY <1>1, <1>2, <1>3, <1>5

\* What a step does to the master's mailbox.
LEMMA MailKinds ==
  ASSUME TypeOK, [Next]_vars
  PROVE  \/ masterBox' = masterBox
         \/ \E m \in MasterMessage :
              m.type # "MsgSolution" /\ masterBox' = Append(masterBox, m)
         \/ \E w \in Workers : WorkerAnswers(w)
         \/ masterBox # << >> /\ masterBox' = Tail(masterBox)
<1>1. ASSUME NEW r \in Requests, NEW p \in Problems, NEW by \in UserInfo, Index(r, p, by)
      PROVE  \E m \in MasterMessage :
               m.type # "MsgSolution" /\ masterBox' = Append(masterBox, m)
  <2>1. [type |-> "MsgSolve", problemNumber |-> p, by |-> by, sender |-> r] \in MasterMessage
    BY DEF MasterMessage, MsgSolve
  <2> QED BY <1>1, <2>1 DEF Index
<1>2. ASSUME NEW userInfo \in UserInfo, SendUserInfoUpdate(userInfo)
      PROVE  \E m \in MasterMessage :
               m.type # "MsgSolution" /\ masterBox' = Append(masterBox, m)
  <2>1. [type |-> "MsgUserInfoUpdate", userInfo |-> userInfo] \in MasterMessage
    BY DEF MasterMessage, MsgUserInfoUpdate
  <2> QED BY <1>2, <2>1 DEF SendUserInfoUpdate
<1>3. \/ \E r \in Requests, p \in Problems, by \in UserInfo : Index(r, p, by)
      \/ \E userInfo \in UserInfo : SendUserInfoUpdate(userInfo)
      \/ \E w \in Workers : WorkerAnswers(w)
      \/ masterBox # << >> /\ masterBox' = Tail(masterBox)
      \/ masterBox' = masterBox
  BY DEF Next, MasterStep, OnMsgSolve, OnMsgSolution, OnMsgUserInfoUpdate, Receive,
         AskTimesOut, WorkerThrows, BroadcasterReceives, Tick, vars
<1> QED
  BY <1>1, <1>2, <1>3

LEMMA MailStep ==
  ASSUME TypeOK, [Next]_vars
  PROVE  \/ \E m \in MasterMessage : masterBox' = Append(masterBox, m)
         \/ masterBox # << >> /\ masterBox' = Tail(masterBox)
         \/ masterBox' = masterBox
  BY MailKinds, WorkerAnswersSends

LEMMA AnswersLongNext ==
  ASSUME NoFailures, TypeOK, AnswersAreLong, [Next]_vars
  PROVE  AnswersAreLong'
<1>1. ASSUME NEW w \in Workers, WorkerAnswers(w)
      PROVE  AnswersAreLong'
  <2> DEFINE p == Head(workerBox[w]).problemNumber
  <2>1. p \in Problems
    BY <1>1, WorkerAnswersSends DEF Job
  <2>2. AnswersTo(p) = {LONG}
    BY <2>1 DEF NoFailures, AnswersTo, SolverAnswers, IsViaLambda
  <2>3. PICK m \in MasterMessage : m.answer = LONG /\ masterBox' = Append(masterBox, m)
    BY <1>1, <2>2, WorkerAnswersSends
  <2>4. \A i \in DOMAIN masterBox' :
          masterBox'[i] = m \/ \E k \in DOMAIN masterBox : masterBox'[i] = masterBox[k]
    BY <2>3, AppendFacts DEF TypeOK
  <2> QED
    BY <2>3, <2>4 DEF AnswersAreLong
<1>2. ASSUME \A w \in Workers : ~WorkerAnswers(w)
      PROVE  AnswersAreLong'
  <2> SUFFICES ASSUME NEW i \in DOMAIN masterBox', masterBox'[i].type = "MsgSolution"
               PROVE  masterBox'[i].answer = LONG
    BY DEF AnswersAreLong
  <2>1. CASE \E m \in MasterMessage :
               m.type # "MsgSolution" /\ masterBox' = Append(masterBox, m)
    BY <2>1, AppendFacts DEF AnswersAreLong, TypeOK
  <2>2. CASE masterBox # << >> /\ masterBox' = Tail(masterBox)
    BY <2>2, TailFacts DEF AnswersAreLong, TypeOK
  <2>3. CASE masterBox' = masterBox
    BY <2>3 DEF AnswersAreLong
  <2> QED
    BY <1>2, <2>1, <2>2, <2>3, MailKinds
<1> QED
  BY <1>1, <1>2

\* A problem is being solved until the master takes an answer to it.
LEMMA BeingSolvedStep ==
  ASSUME NoFailures, TypeOK, [Next]_vars, NEW p \in Problems, BeingSolved(p),
         ~(OnMsgSolution /\ Head(masterBox).problemNumber = p)
  PROVE  BeingSolved(p)'
<1>1. ASSUME NEW i \in DOMAIN masterBox, masterBox[i].type = "MsgSolution",
             masterBox[i].problemNumber = p
      PROVE  \E k \in DOMAIN masterBox' : masterBox'[k] = masterBox[i]
  <2>1. CASE \E m \in MasterMessage : masterBox' = Append(masterBox, m)
    BY <2>1, AppendFacts DEF TypeOK
  <2>2. CASE masterBox # << >> /\ masterBox' = Tail(masterBox)
    <3>1. i # 1
      <4>1. ASSUME OnMsgSolve \/ OnMsgUserInfoUpdate
            PROVE  Head(masterBox).type # "MsgSolution"
        BY <4>1 DEF OnMsgSolve, OnMsgUserInfoUpdate, Receive
      <4>2. OnMsgSolution => Head(masterBox).problemNumber # p
        OBVIOUS
      <4>3. OnMsgSolve \/ OnMsgUserInfoUpdate \/ OnMsgSolution
        <5>1. Tail(masterBox) # masterBox
          BY <2>2, TailFacts DEF TypeOK
        <5>2. ASSUME NEW m \in MasterMessage
              PROVE  Tail(masterBox) # Append(masterBox, m)
          BY <2>2 DEF TypeOK
        <5>3. ASSUME NEW r \in Requests, NEW q \in Problems, NEW by \in UserInfo,
                     Index(r, q, by)
              PROVE  FALSE
          <6>1. [type |-> "MsgSolve", problemNumber |-> q, by |-> by, sender |-> r]
                  \in MasterMessage
            BY DEF MasterMessage, MsgSolve
          <6> QED BY <2>2, <5>2, <5>3, <6>1 DEF Index
        <5>4. ASSUME NEW userInfo \in UserInfo, SendUserInfoUpdate(userInfo)
              PROVE  FALSE
          <6>1. [type |-> "MsgUserInfoUpdate", userInfo |-> userInfo] \in MasterMessage
            BY DEF MasterMessage, MsgUserInfoUpdate
          <6> QED BY <2>2, <5>2, <5>4, <6>1 DEF SendUserInfoUpdate
        <5>5. ASSUME NEW w \in Workers, WorkerAnswers(w)
              PROVE  FALSE
          BY <2>2, <5>2, <5>5, WorkerAnswersSends
        <5> QED
          BY <2>2, <5>1, <5>3, <5>4, <5>5
             DEF Next, MasterStep, AskTimesOut, WorkerThrows, BroadcasterReceives, Tick, vars
      <4>4. Head(masterBox) = masterBox[1]
        BY <2>2, TailFacts DEF TypeOK
      <4> QED BY <1>1, <4>1, <4>2, <4>3, <4>4
    <3>2. i - 1 \in DOMAIN Tail(masterBox) /\ Tail(masterBox)[i - 1] = masterBox[i]
      BY <2>2, <3>1 DEF TypeOK
    <3> QED BY <2>2, <3>2
  <2>3. CASE masterBox' = masterBox
    BY <2>3
  <2> QED
    BY <2>1, <2>2, <2>3, MailStep
<1>2. ASSUME NEW w \in Workers, NEW i \in DOMAIN workerBox[w],
             workerBox[w][i].problemNumber = p
      PROVE  BeingSolved(p)'
  <2>1. workerBox[w] \in Seq(Job)
    BY DEF TypeOK
  <2>2. CASE workerBox'[w] = workerBox[w]
    BY <1>2, <2>2 DEF BeingSolved
  <2>3. CASE WorkerAnswers(w)
    <3>1. /\ workerBox[w] # << >>
          /\ workerBox'[w] = Tail(workerBox[w])
      BY <2>3 DEF WorkerAnswers, TypeOK
    <3>2. CASE i = 1
      <4>1. Head(workerBox[w]).problemNumber = p
        BY <1>2, <2>1, <3>1, <3>2, TailFacts
      <4>2. PICK m \in MasterMessage : /\ m.type = "MsgSolution"
                                       /\ m.problemNumber = p
                                       /\ masterBox' = Append(masterBox, m)
        BY <2>3, <4>1, WorkerAnswersSends
      <4>3. Len(masterBox) + 1 \in DOMAIN masterBox' /\ masterBox'[Len(masterBox) + 1] = m
        BY <4>2, AppendFacts DEF TypeOK
      <4> QED BY <4>2, <4>3 DEF BeingSolved
    <3>3. CASE i # 1
      <4>1. i - 1 \in DOMAIN workerBox'[w] /\ workerBox'[w][i - 1] = workerBox[w][i]
        BY <2>1, <3>1, <3>3
      <4> QED BY <1>2, <4>1 DEF BeingSolved
    <3> QED BY <3>2, <3>3
  <2>4. ASSUME OnMsgSolve, StartSolution(Head(masterBox))
        PROVE  BeingSolved(p)'
    <3> DEFINE q == Head(masterBox).problemNumber
    <3>1. [problemNumber |-> q, since |-> now] \in Job
      BY <2>4, HeadType DEF OnMsgSolve, Receive, MsgSolve, Job, TypeOK
    <3>2. CASE w = nextRoutee
      <4>1. workerBox'[w] = Append(workerBox[w], [problemNumber |-> q, since |-> now])
        BY <2>4, <3>2 DEF StartSolution, Route, TypeOK
      <4>2. i \in DOMAIN workerBox'[w] /\ workerBox'[w][i] = workerBox[w][i]
        BY <2>1, <3>1, <4>1, AppendFacts
      <4> QED BY <1>2, <4>2 DEF BeingSolved
    <3>3. CASE w # nextRoutee
      BY <2>2, <2>4, <3>3 DEF StartSolution, Route, TypeOK
    <3> QED BY <3>2, <3>3
  <2>5. ASSUME NEW v \in Workers, v # w, WorkerAnswers(v)
        PROVE  workerBox'[w] = workerBox[w]
    BY <2>5 DEF WorkerAnswers, TypeOK
  <2>6. \/ workerBox' = workerBox
        \/ \E v \in Workers : WorkerAnswers(v)
        \/ OnMsgSolve /\ StartSolution(Head(masterBox))
    BY DEF Next, MasterStep, Index, AskTimesOut, SendUserInfoUpdate, OnMsgSolve,
           ReplySolved, ReplyInProgress, SolveAgain, SolveAfresh, OnMsgSolution,
           OnMsgUserInfoUpdate, WorkerThrows, BroadcasterReceives, Tick, vars, NoFailures
  <2> QED
    BY <2>2, <2>3, <2>4, <2>5, <2>6
<1> QED
  BY <1>1, <1>2 DEF BeingSolved

LEMMA InHandNext ==
  ASSUME NoFailures, TypeOK, InHandInv, [Next]_vars
  PROVE  InHandInv'
<1> DEFINE m == Head(masterBox)
<1>1. now' > 0
  BY ClockStep DEF InHandInv, TypeOK
<1>2. AnswersAreLong'
  BY AnswersLongNext DEF InHandInv
<1>3. ASSUME NEW p \in Problems, solutions'[p] # NoSolution
      PROVE  IsSolved(solutions'[p]) \/ BeingSolved(p)'
  <2>1. CASE OnMsgSolution /\ m.problemNumber = p
    <3>1. /\ masterBox # << >> /\ m \in MsgSolution /\ m.type = "MsgSolution"
          /\ m = masterBox[1] /\ 1 \in DOMAIN masterBox
      BY <2>1, HeadType, TailFacts DEF OnMsgSolution, Receive, TypeOK
    <3>2. m.answer = LONG
      BY <3>1 DEF InHandInv, AnswersAreLong
    <3>3. solutions[p] # NoSolution /\ solutions[p] \in Solution
      BY <1>3, <2>1 DEF OnMsgSolution, TypeOK
    <3>4. solutions'[p] = Finished(m)
      BY <2>1, <3>3 DEF OnMsgSolution, TypeOK
    <3>5. Finished(m).answer = LONG /\ Finished(m).finishedAt = now
      BY <2>1, <3>2, <3>3 DEF Finished, Complete, WithViaLambda, Solution
    <3> QED BY <3>4, <3>5 DEF InHandInv, IsSolved
  <2>2. CASE OnMsgSolve /\ StartSolution(m) /\ m.problemNumber = p
    <3> DEFINE job == [problemNumber |-> p, since |-> now]
    <3>1. job \in Job
      BY DEF Job, TypeOK
    <3>2. /\ nextRoutee \in Workers /\ workerBox[nextRoutee] \in Seq(Job)
          /\ workerBox'[nextRoutee] = Append(workerBox[nextRoutee], job)
      BY <2>2 DEF StartSolution, Route, TypeOK
    <3> DEFINE k == Len(workerBox[nextRoutee]) + 1
    <3>3. k \in DOMAIN workerBox'[nextRoutee] /\ workerBox'[nextRoutee][k] = job
      BY <3>1, <3>2, AppendFacts
    <3> QED BY <3>2, <3>3 DEF BeingSolved
  <2>3. CASE /\ ~(OnMsgSolution /\ m.problemNumber = p)
             /\ ~(OnMsgSolve /\ StartSolution(m) /\ m.problemNumber = p)
    <3>1. /\ solutions[p] # NoSolution
          /\ IsSolved(solutions[p]) => IsSolved(solutions'[p])
      <4>1. CASE solutions'[p] = solutions[p]
        BY <1>3, <4>1
      <4>2. CASE OnMsgUserInfoUpdate /\ solutions'[p] # solutions[p]
        <5>1. /\ solutions[p] # NoSolution
              /\ solutions'[p] = WithBy(solutions[p], m.userInfo)
          BY <4>2 DEF OnMsgUserInfoUpdate, IsCreditedTo
        <5>2. solutions[p] \in Solution
          BY <5>1 DEF TypeOK
        <5> QED BY <5>1, <5>2 DEF WithBy, Solution, IsSolved
      <4>3. OnMsgSolve => m.problemNumber \in Problems
        BY HeadType DEF OnMsgSolve, Receive, MsgSolve
      <4>4. OnMsgUserInfoUpdate \/ solutions'[p] = solutions[p]
        BY <2>3, <4>3
           DEF Next, MasterStep, Index, AskTimesOut, SendUserInfoUpdate, OnMsgSolve,
               ReplySolved, ReplyInProgress, SolveAgain, SolveAfresh, StartSolution,
               OnMsgSolution, WorkerAnswers, WorkerThrows, BroadcasterReceives, Tick,
               vars, TypeOK
      <4> QED BY <4>1, <4>2, <4>4
    <3>2. BeingSolved(p) => BeingSolved(p)'
      BY <2>3, BeingSolvedStep
    <3> QED BY <3>1, <3>2 DEF InHandInv, EntriesInHand
  <2> QED BY <2>1, <2>2, <2>3
<1>4. EntriesInHand'
  BY <1>3 DEF EntriesInHand, IsSolved
<1> QED
  BY <1>1, <1>2, <1>4 DEF InHandInv

LEMMA InHandInvariant ==
  ASSUME NoFailures
  PROVE  Spec => []InHandInv
<1>1. Init => InHandInv
  BY DEF Init, InHandInv, AnswersAreLong, EntriesInHand
<1>2. TypeOK /\ InHandInv /\ [Next]_vars => InHandInv'
  BY InHandNext
<1> QED
  BY <1>1, <1>2, TypeCorrect, PTL DEF Spec

\* If every problem has a solver that does not fail, then "problem is actively
\* being solved" (EulerProblemMaster.scala:57) is true, with caching on or off and
\* however late answers are, which may complete a restarted entry.
THEOREM InProgressSolved ==
  ASSUME NoFailures
  PROVE  Spec => []InProgressIsBeingSolved
<1>1. InHandInv => InProgressIsBeingSolved
  BY DEF InHandInv, EntriesInHand, InProgressIsBeingSolved, InCache
<1> QED
  BY <1>1, InHandInvariant, PTL

-----------------------------------------------------------------------------
(* In timely schedules a problem is solved once at a time.                 *)

IsJob(p, w, i) == i \in DOMAIN workerBox[w] /\ workerBox[w][i].problemNumber = p

IsAnswer(p, k) ==
  k \in DOMAIN masterBox /\ masterBox[k].type = "MsgSolution" /\ masterBox[k].problemNumber = p

NothingOutstanding(p) ==
  /\ \A w \in Workers : \A i : ~IsJob(p, w, i)
  /\ \A k : ~IsAnswer(p, k)

OneJob ==
  \A p \in Problems : \A v, w \in Workers : \A i, j :
    IsJob(p, v, i) /\ IsJob(p, w, j) => v = w /\ i = j

OneAnswer ==
  \A p \in Problems : \A i, j : IsAnswer(p, i) /\ IsAnswer(p, j) => i = j

JobOrAnswer ==
  \A p \in Problems : \A w \in Workers : \A i, k : ~(IsJob(p, w, i) /\ IsAnswer(p, k))

\* A solved problem is neither being solved nor about to be answered again.
SolvedIsDone == \A p \in Problems : Solved(p) => NothingOutstanding(p)

AnswersBeforeEntries ==
  \A i \in DOMAIN masterBox : masterBox[i].type = "MsgSolution" =>
    masterBox[i].since <= solutions[masterBox[i].problemNumber].startedAt

AtATimeInv ==
  /\ JobsBeforeEntries /\ AnswersBeforeEntries
  /\ OneJob /\ OneAnswer /\ JobOrAnswer /\ SolvedIsDone

LEMMA AnswerType ==
  ASSUME TypeOK, NEW p, NEW k, IsAnswer(p, k)
  PROVE  /\ masterBox[k] \in MsgSolution
         /\ p \in Problems /\ masterBox[k].since \in Nat
<1>1. masterBox[k] \in MasterMessage
  BY ElementType DEF IsAnswer, TypeOK
<1>2. masterBox[k] \in MsgSolution
  BY <1>1 DEF IsAnswer, MasterMessage, MsgSolve, MsgSolution, MsgUserInfoUpdate
<1> QED
  BY <1>2 DEF IsAnswer, MsgSolution

LEMMA AnswersBeforeNext ==
  ASSUME TypeOK, AnswersAreExpected, EntryTimes, JobsBeforeEntries,
         AnswersBeforeEntries, [Next]_vars
  PROVE  AnswersBeforeEntries'
<1> SUFFICES ASSUME NEW i \in DOMAIN masterBox', masterBox'[i].type = "MsgSolution"
             PROVE  masterBox'[i].since
                      <= solutions'[masterBox'[i].problemNumber].startedAt
  BY DEF AnswersBeforeEntries
<1>1. ASSUME NEW p \in Problems, solutions[p] # NoSolution,
             NEW since \in Nat, since <= solutions[p].startedAt
      PROVE  since <= solutions'[p].startedAt
  <2>1. solutions[p] \in Solution /\ solutions[p].startedAt \in Nat /\ now \in Nat
    BY <1>1 DEF TypeOK, Solution
  <2>2. solutions[p].startedAt <= now
    BY <1>1 DEF EntryTimes
  <2>3. \/ solutions'[p].startedAt = solutions[p].startedAt
        \/ solutions'[p].startedAt = now
    BY <1>1, EntryStep
  <2> QED BY <1>1, <2>1, <2>2, <2>3
<1>2. ASSUME NEW k \in DOMAIN masterBox, masterBox'[i] = masterBox[k]
      PROVE  masterBox'[i].since <= solutions'[masterBox'[i].problemNumber].startedAt
  <2>1. IsAnswer(masterBox[k].problemNumber, k)
    BY <1>2 DEF IsAnswer
  <2> QED
    BY <1>1, <1>2, <2>1, AnswerType DEF AnswersBeforeEntries, AnswersAreExpected
<1>3. ASSUME NEW w \in Workers, WorkerAnswers(w)
      PROVE  masterBox'[i].since <= solutions'[masterBox'[i].problemNumber].startedAt
  <2>1. PICK m \in MasterMessage : /\ m.problemNumber = Head(workerBox[w]).problemNumber
                                   /\ m.since = Head(workerBox[w]).since
                                   /\ masterBox' = Append(masterBox, m)
    BY <1>3, WorkerAnswersSends
  <2>2. masterBox'[i] = m \/ \E k \in DOMAIN masterBox : masterBox'[i] = masterBox[k]
    BY <2>1, AppendFacts DEF TypeOK
  <2>3. CASE masterBox'[i] = m
    <3>1. /\ workerBox[w] # << >> /\ workerBox[w] \in Seq(Job)
          /\ Head(workerBox[w]) = workerBox[w][1] /\ 1 \in DOMAIN workerBox[w]
      BY <1>3, TailFacts DEF WorkerAnswers, TypeOK
    <3>2. workerBox[w][1].problemNumber \in Problems /\ workerBox[w][1].since \in Nat
      BY <3>1, JobType
    <3>3. /\ solutions[workerBox[w][1].problemNumber] # NoSolution
          /\ workerBox[w][1].since <= solutions[workerBox[w][1].problemNumber].startedAt
      BY <3>1 DEF AnswersAreExpected, JobsBeforeEntries
    <3> QED BY <1>1, <2>1, <2>3, <3>1, <3>2, <3>3
  <2> QED BY <1>2, <2>2, <2>3
<1>4. CASE masterBox' = masterBox
  BY <1>2, <1>4
<1>5. ASSUME NEW m \in MasterMessage, m.type # "MsgSolution",
             masterBox' = Append(masterBox, m)
      PROVE  \E k \in DOMAIN masterBox : masterBox'[i] = masterBox[k]
  BY <1>5, AppendFacts DEF TypeOK
<1>6. CASE masterBox # << >> /\ masterBox' = Tail(masterBox)
  BY <1>2, <1>6, TailFacts DEF TypeOK
<1> QED
  BY <1>2, <1>3, <1>4, <1>5, <1>6, MailKinds

\* The master starts a solution of a problem only if none is under way.
LEMMA StartsNothingTwice ==
  ASSUME TypeOK, AnswersAreExpected, AtATimeInv, Timely, OnMsgSolve,
         SolveAgain(Head(masterBox)) \/ SolveAfresh(Head(masterBox))
  PROVE  NothingOutstanding(Head(masterBox).problemNumber)
<1> DEFINE p == Head(masterBox).problemNumber
<1>1. p \in Problems
  BY HeadType DEF OnMsgSolve, Receive, MsgSolve
<1>2. CASE SolveAgain(Head(masterBox))
  BY <1>1, <1>2 DEF SolveAgain, InCache, Solved, AtATimeInv, SolvedIsDone
<1>3. CASE SolveAfresh(Head(masterBox))
  <2>1. CASE solutions[p] = NoSolution
    BY <2>1 DEF NothingOutstanding, IsJob, IsAnswer, AnswersAreExpected
  <2>2. CASE solutions[p] # NoSolution
    <3>1. /\ solutions[p].startedAt \in Nat /\ now \in Nat /\ MaxAgeSeconds \in Nat
          /\ now - solutions[p].startedAt > MaxAgeSeconds
      BY <1>1, <1>3, <2>2, MasterAssumption DEF SolveAfresh, InCache, IsStale, TypeOK, Solution
    <3>2. ASSUME NEW w \in Workers, NEW i, IsJob(p, w, i)
          PROVE  FALSE
      <4>1. workerBox[w][i].since \in Nat
        BY <3>2, JobType DEF IsJob
      <4>2. /\ workerBox[w][i].since <= solutions[p].startedAt
            /\ now - workerBox[w][i].since <= MaxAgeSeconds
        BY <3>2 DEF IsJob, AtATimeInv, JobsBeforeEntries, Timely
      <4> QED BY <3>1, <4>1, <4>2
    <3>3. ASSUME NEW k, IsAnswer(p, k)
          PROVE  FALSE
      <4>1. masterBox[k].since \in Nat
        BY <3>3, AnswerType
      <4>2. /\ masterBox[k].since <= solutions[p].startedAt
            /\ now - masterBox[k].since <= MaxAgeSeconds
        BY <3>3 DEF IsAnswer, AtATimeInv, AnswersBeforeEntries, Timely
      <4> QED BY <3>1, <4>1, <4>2
    <3> QED BY <3>2, <3>3 DEF NothingOutstanding
  <2> QED BY <2>1, <2>2
<1> QED
  BY <1>2, <1>3

\* Where the jobs of a problem come from.
LEMMA JobAfterFirst ==
  ASSUME TypeOK, NEW v \in Workers, DoneWithFirst(v), NEW p \in Problems,
         NEW w \in Workers, NEW i, IsJob(p, w, i)'
  PROVE  \/ v = w /\ i \in Nat /\ i # 0 /\ IsJob(p, w, i + 1)
         \/ v # w /\ IsJob(p, w, i)
<1>1. i \in DOMAIN workerBox'[w] /\ workerBox'[w][i].problemNumber = p
  BY DEF IsJob
<1>2. workerBox[v] \in Seq(Job) /\ workerBox[v] # << >>
  BY DEF DoneWithFirst, TypeOK
<1>3. Tail(workerBox[v]) \in Seq(Job)
  BY <1>2, TailFacts
<1>4. workerBox'[w] \in Seq(Job)
  BY <1>3 DEF DoneWithFirst, TypeOK
<1>5. i # 0
  BY <1>1, <1>4
<1> QED
  BY <1>1, <1>5, TailPlaces DEF IsJob

LEMMA JobAfterStart ==
  ASSUME TypeOK, AnswersAreExpected, AtATimeInv, Timely, OnMsgSolve,
         SolveAgain(Head(masterBox)) \/ SolveAfresh(Head(masterBox)),
         NEW p \in Problems, NEW w \in Workers, NEW i, IsJob(p, w, i)'
  PROVE  \/ Head(masterBox).problemNumber # p /\ IsJob(p, w, i)
         \/ /\ Head(masterBox).problemNumber = p /\ NothingOutstanding(p)
            /\ w = nextRoutee /\ i = Len(workerBox[w]) + 1
<1> DEFINE q == Head(masterBox).problemNumber
<1>1. i \in DOMAIN workerBox'[w] /\ workerBox'[w][i].problemNumber = p
  BY DEF IsJob
<1>2. Route(q)
  BY DEF SolveAgain, SolveAfresh, StartSolution
<1>3. q \in Problems
  BY HeadType DEF OnMsgSolve, Receive, MsgSolve
<1>4. \/ i \in DOMAIN workerBox[w] /\ workerBox'[w][i] = workerBox[w][i]
      \/ /\ w = nextRoutee /\ i = Len(workerBox[w]) + 1
         /\ workerBox'[w][i] = [problemNumber |-> q, since |-> now]
  BY <1>1, <1>2, <1>3, RoutePlaces
<1>5. NothingOutstanding(q)
  BY StartsNothingTwice
<1>6. CASE i \in DOMAIN workerBox[w] /\ workerBox'[w][i] = workerBox[w][i]
  <2>1. IsJob(p, w, i)
    BY <1>1, <1>6 DEF IsJob
  <2> QED BY <1>5, <2>1 DEF NothingOutstanding
<1>7. CASE /\ w = nextRoutee /\ i = Len(workerBox[w]) + 1
           /\ workerBox'[w][i] = [problemNumber |-> q, since |-> now]
  <2>1. q = p
    BY <1>1, <1>7
  <2> QED BY <1>5, <1>7, <2>1
<1> QED
  BY <1>4, <1>6, <1>7

LEMMA JobStep ==
  ASSUME TypeOK, AnswersAreExpected, AtATimeInv, Timely, [Next]_vars, NEW p \in Problems,
         NEW w \in Workers, NEW i, IsJob(p, w, i)'
  PROVE  \/ \E j : IsJob(p, w, j)
         \/ /\ OnMsgSolve /\ StartSolution(Head(masterBox))
            /\ Head(masterBox).problemNumber = p /\ NothingOutstanding(p)
<1>1. CASE UNCHANGED workerBox
  BY <1>1 DEF IsJob
<1>2. ASSUME NEW v \in Workers, DoneWithFirst(v)
      PROVE  \E j : IsJob(p, w, j)
  BY <1>2, JobAfterFirst
<1>3. ASSUME OnMsgSolve, SolveAgain(Head(masterBox)) \/ SolveAfresh(Head(masterBox))
      PROVE  /\ StartSolution(Head(masterBox))
             /\ \/ \E j : IsJob(p, w, j)
                \/ Head(masterBox).problemNumber = p /\ NothingOutstanding(p)
  BY <1>3, JobAfterStart DEF SolveAgain, SolveAfresh
<1> QED
  BY <1>1, <1>2, <1>3, WorkerBoxStep

\* Where the answers to a problem come from.
LEMMA AnswerStep ==
  ASSUME TypeOK, [Next]_vars, NEW p \in Problems, NEW k, IsAnswer(p, k)'
  PROVE  \/ UNCHANGED masterBox /\ IsAnswer(p, k)
         \/ /\ \E m \in MasterMessage :
                 m.type # "MsgSolution" /\ masterBox' = Append(masterBox, m)
            /\ IsAnswer(p, k)
         \/ \E w \in Workers :
              /\ WorkerAnswers(w)
              /\ IsAnswer(p, k) \/ (k = Len(masterBox) + 1 /\ IsJob(p, w, 1))
         \/ /\ masterBox # << >> /\ masterBox' = Tail(masterBox)
            /\ k \in Nat /\ k # 0 /\ IsAnswer(p, k + 1)
<1>0. masterBox \in Seq(MasterMessage)
  BY DEF TypeOK
<1>1. k \in DOMAIN masterBox' /\ masterBox'[k].type = "MsgSolution"
      /\ masterBox'[k].problemNumber = p
  BY DEF IsAnswer
<1>2. ASSUME NEW m \in MasterMessage, masterBox' = Append(masterBox, m)
      PROVE  IsAnswer(p, k) \/ (k = Len(masterBox) + 1 /\ masterBox'[k] = m)
  BY <1>0, <1>1, <1>2, AppendFacts DEF IsAnswer
<1>3. ASSUME NEW w \in Workers, WorkerAnswers(w)
      PROVE  IsAnswer(p, k) \/ (k = Len(masterBox) + 1 /\ IsJob(p, w, 1))
  <2>1. PICK m \in MasterMessage : /\ m.problemNumber = Head(workerBox[w]).problemNumber
                                   /\ masterBox' = Append(masterBox, m)
    BY <1>3, WorkerAnswersSends
  <2>2. Head(workerBox[w]) = workerBox[w][1] /\ 1 \in DOMAIN workerBox[w]
    BY <1>3, TailFacts DEF WorkerAnswers, TypeOK
  <2> QED BY <1>1, <1>2, <2>1, <2>2 DEF IsJob
<1>4. ASSUME masterBox # << >>, masterBox' = Tail(masterBox)
      PROVE  k \in Nat /\ k # 0 /\ IsAnswer(p, k + 1)
  <2>1. k \in DOMAIN Tail(masterBox) /\ k \in Nat /\ k # 0
    BY <1>0, <1>1, <1>4
  <2> QED BY <1>0, <1>1, <1>4, <2>1, TailFacts DEF IsAnswer
<1>5. CASE UNCHANGED masterBox
  BY <1>1, <1>5 DEF IsAnswer
<1>6. ASSUME NEW m \in MasterMessage, m.type # "MsgSolution",
             masterBox' = Append(masterBox, m)
      PROVE  IsAnswer(p, k)
  BY <1>1, <1>2, <1>6
<1> QED
  BY <1>3, <1>4, <1>5, <1>6, MailKinds

LEMMA OneJobNext ==
  ASSUME TypeOK, AnswersAreExpected, AtATimeInv, Timely, [Next]_vars
  PROVE  OneJob'
<1> SUFFICES ASSUME NEW p \in Problems, NEW v \in Workers, NEW w \in Workers,
                    NEW i, NEW j, IsJob(p, v, i)', IsJob(p, w, j)'
             PROVE  v = w /\ i = j
  BY DEF OneJob
<1>1. ASSUME NEW k, NEW l, IsJob(p, v, k), IsJob(p, w, l)
      PROVE  v = w /\ k = l
  BY <1>1 DEF AtATimeInv, OneJob
<1>2. CASE UNCHANGED workerBox
  BY <1>1, <1>2 DEF IsJob
<1>3. ASSUME NEW x \in Workers, DoneWithFirst(x)
      PROVE  v = w /\ i = j
  <2>1. \/ x = v /\ i \in Nat /\ IsJob(p, v, i + 1)
        \/ x # v /\ IsJob(p, v, i)
    BY <1>3, JobAfterFirst
  <2>2. \/ x = w /\ j \in Nat /\ IsJob(p, w, j + 1)
        \/ x # w /\ IsJob(p, w, j)
    BY <1>3, JobAfterFirst
  <2> QED BY <1>1, <2>1, <2>2
<1>4. ASSUME OnMsgSolve, SolveAgain(Head(masterBox)) \/ SolveAfresh(Head(masterBox))
      PROVE  v = w /\ i = j
  <2> DEFINE q == Head(masterBox).problemNumber
  <2>1. \/ q # p /\ IsJob(p, v, i)
        \/ q = p /\ v = nextRoutee /\ i = Len(workerBox[v]) + 1
    BY <1>4, JobAfterStart
  <2>2. \/ q # p /\ IsJob(p, w, j)
        \/ q = p /\ w = nextRoutee /\ j = Len(workerBox[w]) + 1
    BY <1>4, JobAfterStart
  <2> QED BY <1>1, <2>1, <2>2
<1> QED
  BY <1>2, <1>3, <1>4, WorkerBoxStep

LEMMA OneAnswerNext ==
  ASSUME TypeOK, AtATimeInv, [Next]_vars
  PROVE  OneAnswer'
<1> SUFFICES ASSUME NEW p \in Problems, NEW i, NEW j, IsAnswer(p, i)', IsAnswer(p, j)'
             PROVE  i = j
  BY DEF OneAnswer
<1>0. masterBox \in Seq(MasterMessage)
  BY DEF TypeOK
<1>1. ASSUME NEW k, NEW l, IsAnswer(p, k), IsAnswer(p, l)
      PROVE  k = l
  BY <1>1 DEF AtATimeInv, OneAnswer
<1>2. ASSUME NEW m \in MasterMessage
      PROVE  /\ Append(masterBox, m) # masterBox
             /\ masterBox # << >> => /\ Append(masterBox, m) # Tail(masterBox)
                                     /\ masterBox # Tail(masterBox)
  BY <1>0
<1>3. CASE masterBox # << >> /\ masterBox' = Tail(masterBox)
  <2>1. \A w \in Workers : ~WorkerAnswers(w)
    BY <1>2, <1>3, WorkerAnswersSends
  <2>2. masterBox' # masterBox
    BY <1>0, <1>3
  <2>3. ASSUME NEW k, IsAnswer(p, k)'
        PROVE  k \in Nat /\ IsAnswer(p, k + 1)
    BY <1>2, <1>3, <2>1, <2>2, <2>3, AnswerStep
  <2> QED BY <1>1, <2>3
<1>4. ASSUME NEW w \in Workers, WorkerAnswers(w)
      PROVE  i = j
  <2>1. /\ workerBox[w] # << >>
        /\ \E m \in MasterMessage : /\ m.problemNumber = Head(workerBox[w]).problemNumber
                                    /\ masterBox' = Append(masterBox, m)
    BY <1>4, WorkerAnswersSends
  <2>2. Head(workerBox[w]) = workerBox[w][1] /\ 1 \in DOMAIN workerBox[w]
    BY <2>1, TailFacts DEF TypeOK
  <2>3. ASSUME NEW k, IsAnswer(p, k)'
        PROVE  IsAnswer(p, k) \/ (k = Len(masterBox) + 1 /\ IsJob(p, w, 1))
    <3>1. k \in DOMAIN masterBox' /\ masterBox'[k].type = "MsgSolution"
          /\ masterBox'[k].problemNumber = p
      BY <2>3 DEF IsAnswer
    <3> QED BY <1>0, <2>1, <2>2, <3>1, AppendFacts DEF IsAnswer, IsJob
  <2>4. ASSUME NEW k, IsAnswer(p, k), IsJob(p, w, 1)
        PROVE  FALSE
    BY <2>4 DEF AtATimeInv, JobOrAnswer
  <2> QED BY <1>1, <2>3, <2>4
<1>5. ASSUME ~(masterBox # << >> /\ masterBox' = Tail(masterBox)),
             \A w \in Workers : ~WorkerAnswers(w)
      PROVE  i = j
  <2>1. ASSUME NEW k, IsAnswer(p, k)'
        PROVE  IsAnswer(p, k)
    BY <1>5, <2>1, AnswerStep
  <2> QED BY <1>1, <2>1
<1> QED
  BY <1>3, <1>4, <1>5

LEMMA JobOrAnswerNext ==
  ASSUME TypeOK, AnswersAreExpected, AtATimeInv, Timely, [Next]_vars
  PROVE  JobOrAnswer'
<1> SUFFICES ASSUME NEW p \in Problems, NEW w \in Workers, NEW i, NEW k,
                    IsJob(p, w, i)', IsAnswer(p, k)'
             PROVE  FALSE
  BY DEF JobOrAnswer
<1>1. (\E j : IsJob(p, w, j)) \/ NothingOutstanding(p)
  BY JobStep
<1>2. ~\E l : IsAnswer(p, l)
  BY <1>1 DEF AtATimeInv, JobOrAnswer, NothingOutstanding
<1>3. PICK x \in Workers : WorkerAnswers(x) /\ IsJob(p, x, 1)
  BY <1>2, AnswerStep
<1>4. DoneWithFirst(x)
  BY <1>3 DEF WorkerAnswers, DoneWithFirst
<1>5. \/ x = w /\ i \in Nat /\ i # 0 /\ IsJob(p, w, i + 1)
      \/ x # w /\ IsJob(p, w, i)
  BY <1>4, JobAfterFirst
<1>6. ASSUME NEW j, IsJob(p, w, j)
      PROVE  x = w /\ j = 1
  BY <1>3, <1>6 DEF AtATimeInv, OneJob
<1> QED
  BY <1>5, <1>6

\* A problem becomes solved only by an answer to it.
LEMMA SolvedStep ==
  ASSUME TypeOK, [Next]_vars, NEW p \in Problems, Solved(p)'
  PROVE  \/ OnMsgSolution /\ Head(masterBox).problemNumber = p
         \/ Solved(p) /\ ~(OnMsgSolve /\ StartSolution(Head(masterBox))
                           /\ Head(masterBox).problemNumber = p)
<1> DEFINE m == Head(masterBox)
<1>0. solutions'[p] # NoSolution /\ IsSolved(solutions'[p])
  BY DEF Solved, IsSolved
<1>1. CASE OnMsgSolve /\ StartSolution(m) /\ m.problemNumber = p
  <2>1. solutions'[p] = Start(p, m.by, now)
    BY <1>1 DEF StartSolution, TypeOK
  <2>2. ~IsSolved(Start(p, m.by, now))
    BY DEF Start, Unfinished, IsSolved, IN_PROGRESS, LONG
  <2> QED BY <1>0, <2>1, <2>2
<1>2. CASE solutions'[p] = solutions[p]
  BY <1>0, <1>1, <1>2 DEF Solved
<1>3. CASE OnMsgUserInfoUpdate /\ solutions'[p] # solutions[p]
  <2>1. solutions[p] # NoSolution /\ solutions'[p] = WithBy(solutions[p], m.userInfo)
    BY <1>3 DEF OnMsgUserInfoUpdate, IsCreditedTo
  <2>2. solutions[p] \in Solution
    BY <2>1 DEF TypeOK
  <2>3. IsSolved(solutions[p])
    BY <1>0, <2>1, <2>2 DEF WithBy, Solution, IsSolved
  <2> QED BY <1>1, <2>1, <2>3 DEF Solved
<1>4. OnMsgSolve => m.problemNumber \in Problems
  BY HeadType DEF OnMsgSolve, Receive, MsgSolve
<1>5. \/ OnMsgUserInfoUpdate \/ solutions'[p] = solutions[p]
      \/ OnMsgSolution /\ m.problemNumber = p
      \/ OnMsgSolve /\ StartSolution(m) /\ m.problemNumber = p
  BY <1>4 DEF Next, MasterStep, Index, AskTimesOut, SendUserInfoUpdate, OnMsgSolve,
         ReplySolved, ReplyInProgress, SolveAgain, SolveAfresh, StartSolution,
         OnMsgSolution, WorkerAnswers, WorkerThrows, BroadcasterReceives, Tick,
         vars, TypeOK
<1> QED
  BY <1>1, <1>2, <1>3, <1>5

LEMMA SolvedDoneNext ==
  ASSUME TypeOK, AnswersAreExpected, AtATimeInv, Timely, [Next]_vars
  PROVE  SolvedIsDone'
<1> DEFINE m == Head(masterBox)
<1> SUFFICES ASSUME NEW p \in Problems, Solved(p)'
             PROVE  NothingOutstanding(p)'
  BY DEF SolvedIsDone
<1>1. CASE OnMsgSolution /\ m.problemNumber = p
  <2>1. /\ masterBox # << >> /\ masterBox' = Tail(masterBox)
        /\ m.type = "MsgSolution" /\ m = masterBox[1] /\ 1 \in DOMAIN masterBox
        /\ UNCHANGED workerBox
    BY <1>1, TailFacts DEF OnMsgSolution, Receive, TypeOK
  <2>2. IsAnswer(p, 1)
    BY <1>1, <2>1 DEF IsAnswer
  <2>3. ASSUME NEW w \in Workers, NEW i, IsJob(p, w, i)'
        PROVE  FALSE
    <3>1. IsJob(p, w, i)
      BY <2>1, <2>3 DEF IsJob
    <3> QED BY <2>2, <3>1 DEF AtATimeInv, JobOrAnswer
  <2>4. ASSUME NEW k, IsAnswer(p, k)'
        PROVE  FALSE
    <3>1. k \in DOMAIN Tail(masterBox) /\ Tail(masterBox)[k].type = "MsgSolution"
          /\ Tail(masterBox)[k].problemNumber = p
      BY <2>1, <2>4 DEF IsAnswer
    <3>2. masterBox \in Seq(MasterMessage)
      BY DEF TypeOK
    <3>3. k \in Nat /\ k # 0
      <4>1. Tail(masterBox) \in Seq(MasterMessage)
        BY <2>1, <3>2, TailFacts
      <4> QED BY <3>1, <4>1
    <3>4. IsAnswer(p, k + 1)
      BY <2>1, <3>1, <3>2, TailFacts DEF IsAnswer
    <3>5. k + 1 = 1
      BY <2>2, <3>4 DEF AtATimeInv, OneAnswer
    <3> QED BY <3>3, <3>5
  <2> QED BY <2>3, <2>4 DEF NothingOutstanding
<1>2. CASE Solved(p) /\ ~(OnMsgSolve /\ StartSolution(m) /\ m.problemNumber = p)
  <2>1. NothingOutstanding(p)
    BY <1>2 DEF AtATimeInv, SolvedIsDone
  <2>2. ASSUME NEW w \in Workers, NEW i, IsJob(p, w, i)'
        PROVE  FALSE
    BY <1>2, <2>1, <2>2, JobStep DEF NothingOutstanding
  <2>3. ASSUME NEW k, IsAnswer(p, k)'
        PROVE  FALSE
    BY <2>1, <2>3, AnswerStep DEF NothingOutstanding
  <2> QED BY <2>2, <2>3 DEF NothingOutstanding
<1> QED
  BY <1>1, <1>2, SolvedStep

\* The invariant of the timely schedules.
TimelyInv == TypeOK /\ AnswersAreExpected /\ EntryTimes /\ AtATimeInv /\ Timely

LEMMA TimelyInvInit == Init => TimelyInv
<1> SUFFICES ASSUME Init PROVE TimelyInv
  OBVIOUS
<1>1. TypeOK /\ AnswersAreExpected
  BY TypeInit, ExpectedInit
<1>2. EntryTimes /\ Timely /\ JobsBeforeEntries /\ AnswersBeforeEntries
  BY DEF Init, EntryTimes, Timely, JobsBeforeEntries, AnswersBeforeEntries
<1>3. OneJob /\ OneAnswer /\ JobOrAnswer
  BY DEF Init, OneJob, OneAnswer, JobOrAnswer, IsJob, IsAnswer
<1>4. SolvedIsDone
  BY DEF Init, SolvedIsDone, Solved
<1> QED
  BY <1>1, <1>2, <1>3, <1>4 DEF TimelyInv, AtATimeInv

LEMMA TimelyInvNext == TimelyInv /\ [Next /\ Timely']_vars => TimelyInv'
<1> SUFFICES ASSUME TimelyInv, [Next /\ Timely']_vars PROVE TimelyInv'
  OBVIOUS
<1>1. [Next]_vars /\ TypeOK /\ AnswersAreExpected /\ EntryTimes /\ AtATimeInv /\ Timely
  BY DEF TimelyInv
<1>2. TypeOK' /\ AnswersAreExpected'
  BY <1>1, TypeNext, ExpectedNext
<1>3. EntryTimes'
  BY <1>1, EntryTimesNext
<1>4. Timely'
  BY <1>1 DEF vars, Timely
<1>5. JobsBeforeEntries' /\ AnswersBeforeEntries'
  BY <1>1, BeforeEntriesNext, AnswersBeforeNext DEF AtATimeInv
<1>6. OneJob' /\ OneAnswer' /\ JobOrAnswer' /\ SolvedIsDone'
  BY <1>1, OneJobNext, OneAnswerNext, JobOrAnswerNext, SolvedDoneNext
<1> QED
  BY <1>2, <1>3, <1>4, <1>5, <1>6 DEF TimelyInv, AtATimeInv

LEMMA TimelyInvariant == TimelySpec => []TimelyInv
  BY TimelyInvInit, TimelyInvNext, PTL DEF TimelySpec

\* If no attempt outlives its entry, then "we don't start multiple parallel solutions
\* for same problem" (EulerProblemMaster.scala:63) is true without any cache: with
\* however many workers and failures, a problem is solved once at a time.
THEOREM SolvedOnceAtATime == TimelySpec => []OneSolutionAtATime
<1>1. TimelyInv => OneSolutionAtATime
  <2> SUFFICES ASSUME TimelyInv, NEW p \in Problems,
                      NEW place \in Outstanding(p), NEW other \in Outstanding(p)
               PROVE  place = other
    BY DEF OneSolutionAtATime
  <2>1. ASSUME NEW x \in Outstanding(p)
        PROVE  \/ \E w \in Workers : \E i : IsJob(p, w, i) /\ x = <<w, i>>
               \/ \E k : IsAnswer(p, k) /\ x = <<-1, k>>
    <3>1. CASE \E w \in Workers :
                 x \in {<<w, i>> : i \in {k \in DOMAIN workerBox[w] :
                                        workerBox[w][k].problemNumber = p}}
      BY <3>1 DEF IsJob
    <3>2. CASE x \in {<<-1, i>> : i \in {k \in DOMAIN masterBox :
                                       /\ masterBox[k].type = "MsgSolution"
                                       /\ masterBox[k].problemNumber = p}}
      BY <3>2 DEF IsAnswer
    <3>3. \/ \E w \in Workers :
               x \in {<<w, i>> : i \in {k \in DOMAIN workerBox[w] :
                                      workerBox[w][k].problemNumber = p}}
          \/ x \in {<<-1, i>> : i \in {k \in DOMAIN masterBox :
                                      /\ masterBox[k].type = "MsgSolution"
                                      /\ masterBox[k].problemNumber = p}}
      BY <2>1 DEF Outstanding
    <3> QED BY <3>1, <3>2, <3>3
  <2>2. OneJob /\ OneAnswer /\ JobOrAnswer
    BY DEF TimelyInv, AtATimeInv
  <2>3. ASSUME NEW v \in Workers, NEW w \in Workers, NEW i, NEW j,
               IsJob(p, v, i), IsJob(p, w, j)
        PROVE  <<v, i>> = <<w, j>>
    BY <2>2, <2>3 DEF OneJob
  <2>4. ASSUME NEW i, NEW j, IsAnswer(p, i), IsAnswer(p, j)
        PROVE  <<-1, i>> = <<-1, j>>
    BY <2>2, <2>4 DEF OneAnswer
  <2>5. ASSUME NEW w \in Workers, NEW i, NEW k, IsJob(p, w, i), IsAnswer(p, k)
        PROVE  FALSE
    BY <2>2, <2>5 DEF JobOrAnswer
  <2> QED
    BY <2>1, <2>3, <2>4, <2>5
<1> QED
  BY <1>1, TimelyInvariant, PTL

-----------------------------------------------------------------------------
(* Answers are kept.                                                       *)

\* Attempts under way are not younger than their entry, so they are not younger
\* than its answer.
LateInv == TypeOK /\ AnswersAreExpected /\ EntryTimes /\ JobsBeforeEntries /\ AnswersBeforeEntries

LEMMA LateInvariant == Spec => []LateInv
<1>1. Init => JobsBeforeEntries /\ AnswersBeforeEntries
  BY DEF Init, JobsBeforeEntries, AnswersBeforeEntries
<1>2. TypeOK /\ AnswersAreExpected /\ EntryTimes /\ JobsBeforeEntries /\ AnswersBeforeEntries
        /\ [Next]_vars => JobsBeforeEntries' /\ AnswersBeforeEntries'
  BY BeforeEntriesNext, AnswersBeforeNext
<1> QED
  BY <1>1, <1>2, TypeCorrect, AnswersExpected, EntryTimesInvariant, PTL DEF Spec, LateInv

\* An answer in the cache is taken away by a request only with caching disabled,
\* and else only by the failure of another attempt that began before it came:
\* with all faults, answers of any lateness, and caching on or off.
THEOREM AnswersKept == Spec => AnswersAreKept
<1> DEFINE IsTakenAway(p) ==
             \/ ~CacheSolutions /\ solutions'[p].answer = IN_PROGRESS
             \/ /\ solutions'[p].answer \in {NUMERAL, OTHER_TEXT}
                /\ OnMsgSolution /\ Head(masterBox).since <= solutions[p].finishedAt
<1>1. ASSUME LateInv, AnswersAreFinal, [Next]_vars, NEW p \in Problems, Solved(p), ~Solved(p)'
      PROVE  IsTakenAway(p)
  <2> DEFINE m == Head(masterBox)
  <2>0. TypeOK /\ [Next]_vars
    BY <1>1 DEF LateInv
  <2>1. solutions[p] # NoSolution /\ IsSolved(solutions[p]) /\ solutions[p] \in Solution
    BY <1>1, <2>0 DEF Solved, TypeOK
  <2>2. solutions'[p] # NoSolution
    BY <2>0, <2>1, EntryStep
  <2>3. ~IsSolved(solutions'[p])
    BY <1>1, <2>2 DEF Solved, IsSolved
  <2>4. CASE OnMsgSolution /\ m.problemNumber = p
    <3>1. /\ m \in MsgSolution /\ 1 \in DOMAIN masterBox /\ m = masterBox[1]
          /\ m.type = "MsgSolution"
      BY <2>0, <2>4, HeadType, TailFacts DEF OnMsgSolution, Receive, TypeOK
    <3>2. m.since <= solutions[p].startedAt
      BY <1>1, <2>4, <3>1 DEF LateInv, AnswersBeforeEntries
    <3>3. solutions[p].startedAt <= solutions[p].finishedAt
      BY <1>1, <2>1 DEF LateInv, EntryTimes
    <3>4. m.since <= solutions[p].finishedAt
      BY <2>1, <3>1, <3>2, <3>3 DEF Solution, MsgSolution
    <3>5. solutions'[p] = Finished(m) /\ now \in Nat
      BY <2>0, <2>1, <2>4 DEF OnMsgSolution, TypeOK
    <3>6. Finished(m).answer = m.answer /\ Finished(m).finishedAt = now
      BY <2>1, <2>4 DEF Finished, Complete, WithViaLambda, Solution
    <3>7. m.answer \in Result
      BY <1>1, <3>1 DEF AnswersAreFinal
    <3>8. now > 0
      <4>1. solutions[p].finishedAt > 0 /\ solutions[p].finishedAt <= now
        BY <1>1, <2>1 DEF LateInv, EntryTimes, IsSolved
      <4> QED BY <2>1, <3>5, <4>1 DEF Solution
    <3>9. m.answer # LONG
      BY <2>3, <3>5, <3>6, <3>8 DEF IsSolved
    <3> QED BY <2>4, <3>4, <3>5, <3>6, <3>7, <3>9 DEF Result
  <2>5. CASE OnMsgSolve /\ StartSolution(m) /\ m.problemNumber = p
    <3>1. solutions'[p] = Start(p, m.by, now)
      BY <2>0, <2>5 DEF StartSolution, TypeOK
    <3>2. IsSolved(solutions[p]) => ~IsStale(solutions[p], MaxAgeSeconds, now)
      BY DEF IsStale
    <3>3. CASE SolveAgain(m)
      BY <3>1, <3>3 DEF SolveAgain, Start, Unfinished
    <3>4. CASE SolveAfresh(m)
      BY <2>1, <2>5, <3>2, <3>4 DEF SolveAfresh, InCache
    <3>5. CASE ReplySolved(m) \/ ReplyInProgress(m)
      BY <2>1, <2>3, <3>5 DEF ReplySolved, ReplyInProgress
    <3> QED BY <2>5, <3>3, <3>4, <3>5 DEF OnMsgSolve
  <2>6. CASE OnMsgUserInfoUpdate /\ solutions'[p] # solutions[p]
    <3>1. solutions'[p] = WithBy(solutions[p], m.userInfo)
      BY <2>6 DEF OnMsgUserInfoUpdate
    <3>2. IsSolved(solutions'[p])
      BY <2>1, <3>1 DEF WithBy, Solution, IsSolved
    <3> QED BY <2>3, <3>2
  <2>7. OnMsgSolve => m.problemNumber \in Problems
    BY <2>0, HeadType DEF OnMsgSolve, Receive, MsgSolve
  <2>8. \/ OnMsgUserInfoUpdate \/ solutions'[p] = solutions[p]
        \/ OnMsgSolution /\ m.problemNumber = p
        \/ OnMsgSolve /\ StartSolution(m) /\ m.problemNumber = p
    BY <2>0, <2>7 DEF Next, MasterStep, Index, AskTimesOut, SendUserInfoUpdate, OnMsgSolve,
         ReplySolved, ReplyInProgress, SolveAgain, SolveAfresh, StartSolution,
         OnMsgSolution, WorkerAnswers, WorkerThrows, BroadcasterReceives, Tick,
         vars, TypeOK
  <2> QED BY <2>1, <2>3, <2>4, <2>5, <2>6, <2>8
<1>2. LateInv /\ AnswersAreFinal /\ [Next]_vars =>
        [\A p \in Problems : Solved(p) /\ ~Solved(p)' =>
             \/ ~CacheSolutions /\ solutions'[p].answer = IN_PROGRESS
             \/ /\ solutions'[p].answer \in {NUMERAL, OTHER_TEXT}
                /\ OnMsgSolution /\ Head(masterBox).since <= solutions[p].finishedAt]_vars
  BY <1>1
<1>3. Init => AnswersAreFinal
  BY DEF Init, AnswersAreFinal
<1>4. TypeOK /\ AnswersAreFinal /\ [Next]_vars => AnswersAreFinal'
  BY AnswersFinalNext
<1>5. Spec => []AnswersAreFinal
  BY <1>3, <1>4, TypeCorrect, PTL DEF Spec
<1> QED
  BY <1>2, <1>5, LateInvariant, PTL DEF Spec, AnswersAreKept

-----------------------------------------------------------------------------
(* Nobody waits in vain.                                                   *)

\* What request r has sent to the master.
SentBy(r) == [type |-> "MsgSolve", problemNumber |-> asks[r].problemNumber,
              by |-> asks[r].by, sender |-> r]

\* Who still waits when somebody is answered is somebody else.
LEMMA OthersWait ==
  ASSUME TypeOK, NEW q \in Requests, NEW solution \in Solution, Resolve(q, solution),
         NEW r \in Requests, Waiting(r)'
  PROVE  q # r /\ Waiting(r) /\ asks'[r] = asks[r]
<1>1. CASE ~Waiting(q)
  <2>1. asks' = asks
    BY <1>1 DEF Resolve
  <2> QED BY <1>1, <2>1 DEF Waiting
<1>2. CASE Waiting(q)
  <2>1. asks[q] \in Ask
    BY <1>2 DEF Waiting, TypeOK
  <2>2. AsMine(solution, asks[q].by.uuid) \in Solution
    BY AsMineType
  <2>3. asks' = [asks EXCEPT ![q].reply = AsMine(solution, asks[q].by.uuid)]
    BY <1>2 DEF Resolve
  <2>4. asks'[q].reply = AsMine(solution, asks[q].by.uuid)
    BY <2>1, <2>3 DEF TypeOK, Ask
  <2>5. q # r
    BY <2>2, <2>4, MasterAssumption DEF Waiting
  <2>6. asks'[r] = asks[r]
    BY <2>3, <2>5 DEF TypeOK
  <2> QED BY <2>5, <2>6 DEF Waiting
<1> QED BY <1>1, <1>2

\* Who waits after a step has just asked, or waited before it and was not
\* the one whose ask the master handled.
LEMMA WaitingStep ==
  ASSUME TypeOK, [Next]_vars, NEW r \in Requests, Waiting(r)'
  PROVE  \/ \E p \in Problems, by \in UserInfo : Index(r, p, by)
         \/ /\ Waiting(r) /\ asks'[r] = asks[r]
            /\ OnMsgSolve => Head(masterBox).sender # r
<1>1. ASSUME NEW q \in Requests, NEW p \in Problems, NEW by \in UserInfo, Index(q, p, by),
             q # r
      PROVE  Waiting(r) /\ asks'[r] = asks[r] /\ ~OnMsgSolve
  <2>1. asks'[r] = asks[r]
    BY <1>1 DEF Index, TypeOK
  <2>2. Len(masterBox') # Len(masterBox) - 1
    BY <1>1 DEF Index, TypeOK
  <2>3. ~OnMsgSolve
    BY <2>2 DEF OnMsgSolve, Receive, TypeOK
  <2> QED BY <2>1, <2>3 DEF Waiting
<1>2. ASSUME NEW q \in Requests, AskTimesOut(q)
      PROVE  Waiting(r) /\ asks'[r] = asks[r] /\ ~OnMsgSolve
  <2>1. asks[q] \in Ask
    BY <1>2 DEF AskTimesOut, Waiting, TypeOK
  <2>2. Error(asks[q].problemNumber, asks[q].by, ERROR_TIMEOUT, now) \in Solution
    BY <2>1, UnfinishedType DEF TypeOK, Ask, Answer
  <2>3. ~OnMsgSolve
    BY <1>2 DEF AskTimesOut, OnMsgSolve, Receive, TypeOK
  <2> QED BY <1>2, <2>2, <2>3, OthersWait DEF AskTimesOut
<1>3. ASSUME OnMsgSolve
      PROVE  Waiting(r) /\ asks'[r] = asks[r] /\ Head(masterBox).sender # r
  <2> DEFINE m == Head(masterBox)
  <2>1. m.problemNumber \in Problems /\ m.by \in UserInfo /\ m.sender \in Requests
    BY <1>3, HeadType DEF OnMsgSolve, Receive, MsgSolve
  <2>2. CASE StartSolution(m)
    BY <2>1, <2>2, StartType, OthersWait DEF StartSolution, TypeOK
  <2>3. CASE ReplySolved(m) \/ ReplyInProgress(m)
    BY <2>1, <2>3, OthersWait DEF ReplySolved, ReplyInProgress, InCache, TypeOK
  <2> QED BY <1>3, <2>2, <2>3 DEF OnMsgSolve, SolveAgain, SolveAfresh
<1>4. CASE UNCHANGED asks /\ ~OnMsgSolve
  BY <1>4 DEF Waiting
<1>5. \/ \E q \in Requests, p \in Problems, by \in UserInfo : Index(q, p, by)
      \/ \E q \in Requests : AskTimesOut(q)
      \/ OnMsgSolve
      \/ UNCHANGED asks
  BY DEF Next, MasterStep, SendUserInfoUpdate, OnMsgSolution, OnMsgUserInfoUpdate,
         WorkerAnswers, WorkerThrows, BroadcasterReceives, Tick, vars
<1> QED BY <1>1, <1>2, <1>3, <1>4, <1>5

LEMMA InVainNext ==
  ASSUME TypeOK, NobodyWaitsInVain, [Next]_vars
  PROVE  NobodyWaitsInVain'
<1> SUFFICES ASSUME NEW r \in Requests, Waiting(r)'
             PROVE  \E i \in DOMAIN masterBox' : masterBox'[i] = SentBy(r)'
  BY DEF NobodyWaitsInVain, SentBy
<1>0. masterBox \in Seq(MasterMessage)
  BY DEF TypeOK
<1>1. ASSUME NEW p \in Problems, NEW by \in UserInfo, Index(r, p, by)
      PROVE  \E i \in DOMAIN masterBox' : masterBox'[i] = SentBy(r)'
  <2> DEFINE m == [type |-> "MsgSolve", problemNumber |-> p, by |-> by, sender |-> r]
  <2>1. m \in MasterMessage
    BY DEF MasterMessage, MsgSolve
  <2>2. SentBy(r)' = m
    BY <1>1 DEF Index, TypeOK, SentBy
  <2>3. masterBox' = Append(masterBox, m)
    BY <1>1 DEF Index
  <2> HIDE DEF m
  <2>4. Len(masterBox) + 1 \in DOMAIN masterBox' /\ masterBox'[Len(masterBox) + 1] = m
    BY <1>0, <2>1, <2>3, AppendFacts
  <2> QED BY <2>2, <2>4
<1>2. ASSUME Waiting(r), asks'[r] = asks[r], OnMsgSolve => Head(masterBox).sender # r
      PROVE  \E i \in DOMAIN masterBox' : masterBox'[i] = SentBy(r)'
  <2>1. SentBy(r)' = SentBy(r)
    BY <1>2 DEF SentBy
  <2>2. PICK k \in DOMAIN masterBox : masterBox[k] = SentBy(r)
    BY <1>2 DEF NobodyWaitsInVain, SentBy
  <2>3. ASSUME NEW m \in MasterMessage, masterBox' = Append(masterBox, m)
        PROVE  k \in DOMAIN masterBox' /\ masterBox'[k] = masterBox[k]
    BY <1>0, <2>3, AppendFacts
  <2>4. ASSUME masterBox # << >>, masterBox' = Tail(masterBox)
        PROVE  \E i \in DOMAIN masterBox' : masterBox'[i] = masterBox[k]
    <3>1. MasterStep
      <4>1. Len(masterBox') = Len(masterBox) - 1 /\ Len(masterBox) \in Nat
        BY <1>0, <2>4
      <4>2. masterBox' # masterBox
        BY <4>1
      <4>3. \A m \in MasterMessage : masterBox' # Append(masterBox, m)
        BY <1>0, <4>1
      <4>4. \A q \in Requests, p \in Problems, by \in UserInfo : ~Index(q, p, by)
        BY <1>0, <4>1 DEF Index
      <4>5. \A userInfo \in UserInfo : ~SendUserInfoUpdate(userInfo)
        BY <1>0, <4>1 DEF SendUserInfoUpdate
      <4>6. \A w \in Workers : ~WorkerAnswers(w)
        BY <4>3, WorkerAnswersSends
      <4> QED BY <4>2, <4>4, <4>5, <4>6
              DEF Next, AskTimesOut, WorkerThrows, BroadcasterReceives, Tick, vars
    <3>2. Head(masterBox).type = "MsgSolve" => OnMsgSolve
      BY <3>1 DEF MasterStep, OnMsgSolution, OnMsgUserInfoUpdate, Receive
    <3>3. Head(masterBox) = masterBox[1]
      BY <1>0, <2>4, TailFacts
    <3>4. SentBy(r).type = "MsgSolve" /\ SentBy(r).sender = r
      BY DEF SentBy
    <3>5. k # 1
      BY <1>2, <2>2, <3>2, <3>3, <3>4
    <3>6. k - 1 \in DOMAIN Tail(masterBox) /\ Tail(masterBox)[k - 1] = masterBox[k]
      BY <1>0, <2>4, <3>5
    <3> QED BY <2>4, <3>6
  <2> QED BY <2>1, <2>2, <2>3, <2>4, MailStep
<1> QED BY <1>1, <1>2, WaitingStep

\* Every HTTP request without a reply has its ask in the master's mailbox,
\* whatever the master and its workers did with the others.
THEOREM NobodyInVain == Spec => []NobodyWaitsInVain
<1>1. Init => NobodyWaitsInVain
  BY DEF Init, NobodyWaitsInVain, Waiting
<1> QED BY <1>1, InVainNext, TypeCorrect, PTL DEF Spec
=============================================================================
