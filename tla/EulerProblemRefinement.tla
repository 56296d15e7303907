----------------------- MODULE EulerProblemRefinement -----------------------
(***************************************************************************)
(* EulerProblemMaster implements SolveService: under the mapping of its    *)
(* state to requests, entries and news, it starts where the service starts *)
(* and every step of it is a step of the service or changes nothing there. *)
(***************************************************************************)
EXTENDS EulerProblemMasterProofs

-----------------------------------------------------------------------------
(* The invariant under which steps map to steps.                           *)

\* No two MsgSolve in the mailbox come from one request.
SolvesAreUnique ==
  \A i, j \in DOMAIN masterBox :
    /\ masterBox[i].type = "MsgSolve" /\ masterBox[j].type = "MsgSolve"
    /\ masterBox[i].sender = masterBox[j].sender
    => i = j

\* An entry is for its problem and never has the time-out text, which only
\* the HTTP controller uses.
EntriesAreOwn ==
  \A p \in Problems : solutions[p] # NoSolution =>
    /\ solutions[p].problemNumber = p
    /\ solutions[p].answer # ERROR_TIMEOUT

SolveInv == SolvesAreAsked /\ SolvesAreUnique /\ AnswersAreFinal /\ EntriesAreOwn

\* What users and workers send is no MsgSolve.
LEMMA SentNotSolve ==
  ASSUME TypeOK,
         \/ \E userInfo \in UserInfo : SendUserInfoUpdate(userInfo)
         \/ \E w \in Workers : WorkerAnswers(w)
  PROVE  \E m \in MasterMessage : m.type # "MsgSolve" /\ masterBox' = Append(masterBox, m)
<1>1. ASSUME NEW userInfo \in UserInfo, SendUserInfoUpdate(userInfo)
      PROVE  \E m \in MasterMessage : m.type # "MsgSolve" /\ masterBox' = Append(masterBox, m)
  <2> DEFINE m == [type |-> "MsgUserInfoUpdate", userInfo |-> userInfo]
  <2>1. m \in MasterMessage /\ m.type # "MsgSolve"
    BY DEF MasterMessage, MsgUserInfoUpdate
  <2> QED BY <1>1, <2>1 DEF SendUserInfoUpdate
<1>2. ASSUME NEW w \in Workers, WorkerAnswers(w)
      PROVE  \E m \in MasterMessage : m.type # "MsgSolve" /\ masterBox' = Append(masterBox, m)
  <2> DEFINE job == Head(workerBox[w])
  <2>1. job \in Job
    BY <1>2, TailFacts DEF TypeOK, WorkerAnswers
  <2>2. job.problemNumber \in Problems /\ job.since \in Nat
    BY <2>1 DEF Job
  <2>3. PICK answer \in AnswersTo(job.problemNumber) :
          masterBox' = Append(masterBox,
            [type |-> "MsgSolution", problemNumber |-> job.problemNumber, answer |-> answer,
             viaLambda |-> IsViaLambda(job.problemNumber), since |-> job.since])
    BY <1>2 DEF WorkerAnswers
  <2>4. answer \in Answer /\ IsViaLambda(job.problemNumber) \in BOOLEAN
    BY <2>2, AnswersType DEF IsViaLambda
  <2> DEFINE m == [type |-> "MsgSolution", problemNumber |-> job.problemNumber,
                   answer |-> answer, viaLambda |-> IsViaLambda(job.problemNumber),
                   since |-> job.since]
  <2>5. m \in MasterMessage /\ m.type # "MsgSolve"
    BY <2>2, <2>4 DEF MasterMessage, MsgSolution
  <2> QED BY <2>3, <2>5
<1> QED BY <1>1, <1>2

\* A step appends one message to the mailbox, or takes its head, or leaves it.
LEMMA MailboxStep ==
  ASSUME TypeOK, [Next]_vars
  PROVE  \/ \E r \in Requests, p \in Problems, by \in UserInfo :
              /\ Index(r, p, by)
              /\ masterBox' = Append(masterBox, [type |-> "MsgSolve", problemNumber |-> p,
                                                 by |-> by, sender |-> r])
         \/ \E m \in MasterMessage : m.type # "MsgSolve" /\ masterBox' = Append(masterBox, m)
         \/ masterBox # << >> /\ masterBox' = Tail(masterBox)
         \/ UNCHANGED masterBox
<1>1. ASSUME \/ \E userInfo \in UserInfo : SendUserInfoUpdate(userInfo)
             \/ \E w \in Workers : WorkerAnswers(w)
      PROVE  \E m \in MasterMessage : m.type # "MsgSolve" /\ masterBox' = Append(masterBox, m)
  BY <1>1, SentNotSolve
<1>3. CASE MasterStep
  BY <1>3 DEF MasterStep, OnMsgSolve, OnMsgSolution, OnMsgUserInfoUpdate, Receive
<1>4. CASE UNCHANGED masterBox
  BY <1>4
<1>5. \/ \E r \in Requests, p \in Problems, by \in UserInfo : Index(r, p, by)
      \/ \E userInfo \in UserInfo : SendUserInfoUpdate(userInfo)
      \/ \E w \in Workers : WorkerAnswers(w)
      \/ MasterStep
      \/ UNCHANGED masterBox
  BY DEF Next, AskTimesOut, WorkerThrows, BroadcasterReceives, Tick, vars
<1>6. ASSUME NEW r \in Requests, NEW p \in Problems, NEW by \in UserInfo, Index(r, p, by)
      PROVE  masterBox' = Append(masterBox, [type |-> "MsgSolve", problemNumber |-> p,
                                             by |-> by, sender |-> r])
  BY <1>6 DEF Index
<1> QED BY <1>1, <1>3, <1>4, <1>5, <1>6

LEMMA UniqueNext ==
  ASSUME TypeOK, SolvesAreAsked, SolvesAreUnique, [Next]_vars
  PROVE  SolvesAreUnique'
<1>0. masterBox \in Seq(MasterMessage)
  BY DEF TypeOK
<1>1. ASSUME NEW r \in Requests, NEW p \in Problems, NEW by \in UserInfo,
             Index(r, p, by),
             masterBox' = Append(masterBox, [type |-> "MsgSolve", problemNumber |-> p,
                                             by |-> by, sender |-> r])
      PROVE  SolvesAreUnique'
  <2> DEFINE m == [type |-> "MsgSolve", problemNumber |-> p, by |-> by, sender |-> r]
  <2>1. m \in MasterMessage /\ m.sender = r
    BY DEF MasterMessage, MsgSolve
  <2>2. \A i \in DOMAIN masterBox : masterBox[i].type = "MsgSolve" => masterBox[i].sender # r
    BY <1>1 DEF Index, SolvesAreAsked, HasAsked
  <2> HIDE DEF m
  <2>3. /\ DOMAIN masterBox' = DOMAIN masterBox \cup {Len(masterBox) + 1}
        /\ \A i \in DOMAIN masterBox : masterBox'[i] = masterBox[i]
        /\ masterBox'[Len(masterBox) + 1] = m
    BY <1>0, <1>1, <2>1, AppendFacts DEF m
  <2> QED BY <2>1, <2>2, <2>3 DEF SolvesAreUnique
<1>2. ASSUME NEW m \in MasterMessage, m.type # "MsgSolve", masterBox' = Append(masterBox, m)
      PROVE  SolvesAreUnique'
  <2>1. /\ DOMAIN masterBox' = DOMAIN masterBox \cup {Len(masterBox) + 1}
        /\ \A i \in DOMAIN masterBox : masterBox'[i] = masterBox[i]
        /\ masterBox'[Len(masterBox) + 1] = m
    BY <1>0, <1>2, AppendFacts
  <2> QED BY <1>2, <2>1 DEF SolvesAreUnique
<1>3. CASE masterBox # << >> /\ masterBox' = Tail(masterBox)
  <2>1. \A i \in DOMAIN masterBox' : /\ i \in Nat
                                     /\ i + 1 \in DOMAIN masterBox
                                     /\ masterBox'[i] = masterBox[i + 1]
    BY <1>0, <1>3, TailFacts
  <2>2. SUFFICES ASSUME NEW i \in DOMAIN masterBox', NEW j \in DOMAIN masterBox',
                        masterBox'[i].type = "MsgSolve", masterBox'[j].type = "MsgSolve",
                        masterBox'[i].sender = masterBox'[j].sender
                 PROVE  i = j
    BY DEF SolvesAreUnique
  <2>3. i + 1 = j + 1
    BY <2>1, <2>2 DEF SolvesAreUnique
  <2>4. i \in Nat /\ j \in Nat
    BY <2>1
  <2> QED BY <2>3, <2>4
<1>4. CASE UNCHANGED masterBox
  BY <1>4 DEF SolvesAreUnique
<1> QED BY <1>1, <1>2, <1>3, <1>4, MailboxStep

LEMMA OwnNext ==
  ASSUME TypeOK, AnswersAreFinal, EntriesAreOwn, [Next]_vars
  PROVE  EntriesAreOwn'
<1> DEFINE m == Head(masterBox)
<1> SUFFICES ASSUME NEW p \in Problems, solutions'[p] # NoSolution
             PROVE  solutions'[p].problemNumber = p /\ solutions'[p].answer # ERROR_TIMEOUT
  BY DEF EntriesAreOwn
<1>1. solutions[p] # NoSolution => solutions[p] \in Solution
  BY DEF TypeOK
<1>2. CASE OnMsgSolve
  <2>1. m \in MsgSolve
    BY <1>2, HeadType DEF OnMsgSolve, Receive
  <2>2. CASE StartSolution(m) /\ p = m.problemNumber
    BY <2>2 DEF StartSolution, Start, Unfinished, TypeOK, IN_PROGRESS, ERROR_TIMEOUT
  <2>3. solutions'[p] = solutions[p] \/ (StartSolution(m) /\ p = m.problemNumber)
    BY <1>2, <2>1 DEF OnMsgSolve, SolveAgain, SolveAfresh, StartSolution, ReplySolved,
                      ReplyInProgress, TypeOK, MsgSolve
  <2> QED BY <2>2, <2>3 DEF EntriesAreOwn
<1>3. CASE OnMsgSolution /\ solutions'[p] # solutions[p]
  <2>1. p = m.problemNumber /\ solutions[p] # NoSolution /\ solutions'[p] = Finished(m)
    BY <1>3 DEF OnMsgSolution, TypeOK
  <2>2. m.answer \in Result
    BY <1>3, TailFacts DEF OnMsgSolution, Receive, AnswersAreFinal, TypeOK
  <2>3. /\ Finished(m).problemNumber = solutions[p].problemNumber
        /\ Finished(m).answer = m.answer
    BY <1>1, <2>1 DEF Finished, Complete, WithViaLambda, Solution
  <2> QED BY <2>1, <2>2, <2>3 DEF EntriesAreOwn, Result, LONG, NUMERAL, OTHER_TEXT, ERROR_TIMEOUT
<1>4. CASE OnMsgUserInfoUpdate /\ solutions'[p] # solutions[p]
  <2>1. /\ solutions[p] # NoSolution
        /\ solutions'[p] = WithBy(solutions[p], m.userInfo)
    BY <1>4 DEF OnMsgUserInfoUpdate, IsCreditedTo
  <2>2. /\ solutions'[p].problemNumber = solutions[p].problemNumber
        /\ solutions'[p].answer = solutions[p].answer
    BY <1>1, <2>1 DEF WithBy, Solution
  <2> QED BY <2>1, <2>2 DEF EntriesAreOwn
<1>5. CASE solutions'[p] = solutions[p]
  BY <1>5 DEF EntriesAreOwn
<1>6. \/ OnMsgSolve \/ OnMsgSolution \/ OnMsgUserInfoUpdate
      \/ solutions'[p] = solutions[p]
  BY DEF Next, MasterStep, Index, AskTimesOut, SendUserInfoUpdate, WorkerAnswers,
         WorkerThrows, BroadcasterReceives, Tick, vars
<1> QED BY <1>2, <1>3, <1>4, <1>5, <1>6

LEMMA SolveInvInit == Init => SolveInv
  BY DEF Init, SolveInv, SolvesAreAsked, SolvesAreUnique, AnswersAreFinal, EntriesAreOwn

LEMMA SolveInvNext == TypeOK /\ SolveInv /\ [Next]_vars => SolveInv'
  BY SolvesAskedNext, UniqueNext, AnswersFinalNext, OwnNext DEF SolveInv

-----------------------------------------------------------------------------
(* How the parts of the mapping change.                                    *)

LEMMA IsWith ==
  ASSUME NEW f, NEW g, NEW x, NEW value,
         g = [y \in DOMAIN g |-> g[y]], DOMAIN g = DOMAIN f \cup {x},
         g[x] = value, \A y \in DOMAIN f : y # x => g[y] = f[y]
  PROVE  g = Service!With(f, x, value)
  BY DEF Service!With

LEMMA ServedAppend ==
  ASSUME TypeOK, NEW m \in MasterMessage, masterBox' = Append(masterBox, m), NEW r
  PROVE  IsServed(r)' = (IsServed(r) /\ ~(m.type = "MsgSolve" /\ m.sender = r))
<1>1. masterBox \in Seq(MasterMessage)
  BY DEF TypeOK
<1>2. /\ DOMAIN masterBox' = DOMAIN masterBox \cup {Len(masterBox) + 1}
      /\ \A i \in DOMAIN masterBox : masterBox'[i] = masterBox[i]
      /\ masterBox'[Len(masterBox) + 1] = m
  BY <1>1, AppendFacts
<1> QED BY <1>2 DEF IsServed

\* A request is served with the only MsgSolve it has sent.
LEMMA ServedTail ==
  ASSUME TypeOK, SolvesAreUnique, masterBox # << >>, masterBox' = Tail(masterBox), NEW r
  PROVE  IF Head(masterBox).type = "MsgSolve" /\ Head(masterBox).sender = r
         THEN IsServed(r)' = TRUE /\ IsServed(r) = FALSE
         ELSE IsServed(r)' = IsServed(r)
<1>1. masterBox \in Seq(MasterMessage)
  BY DEF TypeOK
<1>2. /\ Head(masterBox) = masterBox[1] /\ 1 \in DOMAIN masterBox
      /\ \A i \in DOMAIN masterBox' : /\ i + 1 \in DOMAIN masterBox
                                      /\ i + 1 # 1
                                      /\ masterBox'[i] = masterBox[i + 1]
  BY <1>1, TailFacts
<1>3. \A k \in DOMAIN masterBox : k # 1 => k - 1 \in DOMAIN masterBox' /\ k - 1 + 1 = k
  BY <1>1
<1>4. \A k \in DOMAIN masterBox : k # 1 =>
        \E i \in DOMAIN masterBox' : masterBox'[i] = masterBox[k]
  BY <1>2, <1>3
<1>5. CASE Head(masterBox).type = "MsgSolve" /\ Head(masterBox).sender = r
  BY <1>2, <1>5 DEF IsServed, SolvesAreUnique
<1>6. CASE ~(Head(masterBox).type = "MsgSolve" /\ Head(masterBox).sender = r)
  BY <1>2, <1>4, <1>6 DEF IsServed
<1> QED BY <1>5, <1>6

LEMMA RequestsUnchanged ==
  ASSUME UNCHANGED asks, \A r \in Requests : IsServed(r)' = IsServed(r)
  PROVE  ServiceRequests' = ServiceRequests
  BY DEF ServiceRequests, RequestOf

LEMMA EntriesUnchanged ==
  ASSUME UNCHANGED solutions
  PROVE  ServiceEntries' = ServiceEntries
  BY DEF ServiceEntries, EntryOf

LEMMA NewsUnchanged ==
  ASSUME UNCHANGED broadcasterBox
  PROVE  ServiceNews' = ServiceNews
  BY DEF ServiceNews

\* The news of an appended broadcast are appended.
LEMMA NewsAppend ==
  ASSUME TypeOK, NEW s \in Solution, Broadcast(s)
  PROVE  ServiceNews' = Append(ServiceNews, NewsOf(s))
<1>1. broadcasterBox \in Seq(Solution) /\ broadcasterBox' = Append(broadcasterBox, s)
  BY DEF TypeOK, Broadcast
<1>2. /\ DOMAIN broadcasterBox = 1 .. Len(broadcasterBox)
      /\ DOMAIN broadcasterBox' = 1 .. Len(broadcasterBox) + 1
      /\ \A i \in DOMAIN broadcasterBox : broadcasterBox'[i] = broadcasterBox[i]
      /\ broadcasterBox'[Len(broadcasterBox) + 1] = s
      /\ Len(broadcasterBox) \in Nat
  BY <1>1, AppendFacts
<1>3. ServiceNews = [i \in 1 .. Len(broadcasterBox) |-> NewsOf(broadcasterBox[i])]
  BY <1>2 DEF ServiceNews
<1>4. ServiceNews' = [i \in 1 .. Len(broadcasterBox) + 1 |-> NewsOf(broadcasterBox'[i])]
  BY <1>2 DEF ServiceNews
<1>5. Len(ServiceNews) = Len(broadcasterBox)
  BY <1>2, <1>3
<1> QED BY <1>2, <1>3, <1>4, <1>5

LEMMA NewsTail ==
  ASSUME TypeOK, broadcasterBox # << >>, broadcasterBox' = Tail(broadcasterBox)
  PROVE  ServiceNews # << >> /\ ServiceNews' = Tail(ServiceNews)
<1>1. /\ DOMAIN broadcasterBox = 1 .. Len(broadcasterBox)
      /\ DOMAIN broadcasterBox' = 1 .. Len(broadcasterBox) - 1
      /\ \A i \in DOMAIN broadcasterBox' : broadcasterBox'[i] = broadcasterBox[i + 1]
      /\ Len(broadcasterBox) \in Nat \ {0}
  BY DEF TypeOK
<1>2. ServiceNews = [i \in 1 .. Len(broadcasterBox) |-> NewsOf(broadcasterBox[i])]
  BY <1>1 DEF ServiceNews
<1>3. ServiceNews' = [i \in 1 .. Len(broadcasterBox) - 1 |-> NewsOf(broadcasterBox[i + 1])]
  BY <1>1 DEF ServiceNews
<1>4. Len(ServiceNews) = Len(broadcasterBox)
  BY <1>1, <1>2
<1> QED BY <1>1, <1>2, <1>3, <1>4

\* A mark as one's own does not change what a reply says.
LEMMA MarkKeepsReply ==
  ASSUME NEW s \in Solution, NEW uuid
  PROVE  ReplyOf(AsMine(s, uuid)) = ReplyOf(s)
<1>1. /\ AsMine(s, uuid) \in Solution
      /\ AsMine(s, uuid).answer = s.answer /\ AsMine(s, uuid).finishedAt = s.finishedAt
  BY DEF AsMine, Solution
<1> QED BY <1>1, MasterAssumption DEF ReplyOf, StateOf, IsSolved

LEMMA ReplyIsSomething ==
  ASSUME NEW s \in Solution
  PROVE  ReplyOf(s) # "none"
  BY MasterAssumption DEF ReplyOf, StateOf

\* The promise behind an ask takes the first reply.
LEMMA ReplyStep ==
  ASSUME TypeOK, NEW r \in Requests, asks[r] # NoAsk, NEW s \in Solution, Resolve(r, s)
  PROVE  /\ asks'[r] # NoAsk
         /\ asks'[r].problemNumber = asks[r].problemNumber
         /\ asks'[r].by = asks[r].by
         /\ ReplyOf(asks'[r].reply) = IF ReplyOf(asks[r].reply) = "none"
                                     THEN ReplyOf(s) ELSE ReplyOf(asks[r].reply)
         /\ \A q \in Requests : q # r => asks'[q] = asks[q]
<1>1. asks[r] \in Ask
  BY DEF TypeOK
<1>2. CASE Waiting(r)
  <2>1. AsMine(s, asks[r].by.uuid) \in Solution
    BY AsMineType
  <2>2. asks' = [asks EXCEPT ![r].reply = AsMine(s, asks[r].by.uuid)]
    BY <1>2 DEF Resolve
  <2>3. /\ asks'[r] = [asks[r] EXCEPT !.reply = AsMine(s, asks[r].by.uuid)]
        /\ \A q \in Requests : q # r => asks'[q] = asks[q]
    BY <2>2 DEF TypeOK
  <2>4. /\ asks'[r] \in Ask
        /\ asks'[r].problemNumber = asks[r].problemNumber /\ asks'[r].by = asks[r].by
        /\ asks'[r].reply = AsMine(s, asks[r].by.uuid)
    BY <1>1, <2>1, <2>3 DEF Ask
  <2>5. ReplyOf(asks[r].reply) = "none"
    BY <1>2 DEF Waiting, ReplyOf
  <2> QED BY <2>3, <2>4, <2>5, MarkKeepsReply, NoAskAssumption
<1>3. CASE ~Waiting(r)
  <2>1. asks[r].reply \in Solution
    BY <1>1, <1>3 DEF Waiting, Ask
  <2> QED BY <1>3, <2>1, ReplyIsSomething DEF Resolve
<1> QED BY <1>2, <1>3

LEMMA RequestStep ==
  ASSUME TypeOK, NEW r \in Requests, asks[r] # NoAsk, NEW s \in Solution, Resolve(r, s),
         NEW served, IsServed(r)' = served,
         \A q \in Requests : q # r => IsServed(q)' = IsServed(q)
  PROVE  /\ r \in DOMAIN ServiceRequests
         /\ ServiceRequests[r] = RequestOf(r)
         /\ ServiceRequests' =
              Service!With(ServiceRequests, r,
                Service!Replied([ServiceRequests[r] EXCEPT !.served = served], ReplyOf(s)))
<1>1. r \in DOMAIN ServiceRequests /\ ServiceRequests[r] = RequestOf(r)
  BY DEF ServiceRequests
<1>2. Service!Replied([ServiceRequests[r] EXCEPT !.served = served], ReplyOf(s)) =
        [problem |-> asks[r].problemNumber, user |-> asks[r].by.uuid, served |-> served,
         reply |-> IF ReplyOf(asks[r].reply) = "none"
                   THEN ReplyOf(s) ELSE ReplyOf(asks[r].reply)]
  <2> DEFINE old == ReplyOf(asks[r].reply)
             new == ReplyOf(s)
             request == [problem |-> asks[r].problemNumber, user |-> asks[r].by.uuid,
                         served |-> served, reply |-> old]
  <2>1. [ServiceRequests[r] EXCEPT !.served = served] = request
    BY <1>1 DEF RequestOf
  <2> HIDE DEF old, new
  <2>2. Service!Replied(request, new) =
          [problem |-> asks[r].problemNumber, user |-> asks[r].by.uuid,
           served |-> served, reply |-> IF old = "none" THEN new ELSE old]
    BY DEF Service!Replied, Service!NONE
  <2> QED BY <2>1, <2>2 DEF old, new
<1>3. DOMAIN ServiceRequests' = DOMAIN ServiceRequests
  BY ReplyStep DEF ServiceRequests
<1>4. ServiceRequests'[r] =
        Service!Replied([ServiceRequests[r] EXCEPT !.served = served], ReplyOf(s))
  BY <1>1, <1>2, <1>3, ReplyStep DEF ServiceRequests, RequestOf
<1>5. \A q \in DOMAIN ServiceRequests : q # r => ServiceRequests'[q] = ServiceRequests[q]
  BY <1>3, ReplyStep DEF ServiceRequests, RequestOf
<1>6. ServiceRequests' = [q \in DOMAIN ServiceRequests' |-> ServiceRequests'[q]]
  BY DEF ServiceRequests
<1>7. DOMAIN ServiceRequests' = DOMAIN ServiceRequests \cup {r}
  BY <1>1, <1>3
<1> HIDE DEF ServiceRequests
<1> QED BY <1>1, <1>4, <1>5, <1>6, <1>7, IsWith

-----------------------------------------------------------------------------
(* Every step is a step of the service or none.                            *)

LEMMA AskMapped ==
  ASSUME TypeOK, SolvesAreAsked, NEW r \in Requests, NEW p \in Problems,
         NEW by \in UserInfo, Index(r, p, by)
  PROVE  Service!Ask(r, p, by.uuid)
<1> DEFINE m == [type |-> "MsgSolve", problemNumber |-> p, by |-> by, sender |-> r]
           request == [problem |-> p, user |-> by.uuid, served |-> FALSE, reply |-> "none"]
<1>1. m \in MasterMessage /\ m.type = "MsgSolve" /\ m.sender = r
  BY DEF MasterMessage, MsgSolve
<1>2. /\ asks[r] = NoAsk
      /\ asks' = [asks EXCEPT ![r] = [problemNumber |-> p, by |-> by, at |-> now,
                                     reply |-> NoSolution]]
      /\ masterBox' = Append(masterBox, m)
      /\ UNCHANGED <<solutions, broadcasterBox>>
  BY DEF Index
<1>3. [problemNumber |-> p, by |-> by, at |-> now, reply |-> NoSolution] \in Ask
  BY DEF TypeOK, Ask
<1>4. /\ asks'[r] # NoAsk /\ asks'[r].problemNumber = p /\ asks'[r].by = by
      /\ asks'[r].reply = NoSolution
      /\ \A q \in Requests : q # r => asks'[q] = asks[q]
  BY <1>2, <1>3, NoAskAssumption DEF TypeOK
<1> HIDE DEF m
<1>5. \A q : IsServed(q)' = (IsServed(q) /\ ~(m.type = "MsgSolve" /\ m.sender = q))
  BY <1>1, <1>2, ServedAppend
<1>6. IsServed(r)' = FALSE /\ \A q \in Requests : q # r => IsServed(q)' = IsServed(q)
  BY <1>1, <1>5 DEF IsServed
<1>7. r \notin DOMAIN ServiceRequests /\ DOMAIN ServiceRequests' = DOMAIN ServiceRequests \cup {r}
  BY <1>2, <1>4 DEF ServiceRequests
<1>8. ReplyOf(NoSolution) = "none"
  BY DEF ReplyOf
<1>9. ServiceRequests'[r] = request
  BY <1>4, <1>6, <1>8 DEF ServiceRequests, RequestOf
<1>10. \A q \in DOMAIN ServiceRequests : q # r => ServiceRequests'[q] = ServiceRequests[q]
  BY <1>4, <1>6, <1>7 DEF ServiceRequests, RequestOf
<1>11. ServiceRequests' = [q \in DOMAIN ServiceRequests' |-> ServiceRequests'[q]]
  BY DEF ServiceRequests
<1> HIDE DEF request
<1>12. ServiceRequests' = Service!With(ServiceRequests, r, request)
  BY <1>7, <1>9, <1>10, <1>11, IsWith
<1> QED BY <1>2, <1>7, <1>12, EntriesUnchanged, NewsUnchanged
        DEF Service!Ask, Service!NONE, request

LEMMA GiveUpMapped ==
  ASSUME TypeOK, NEW r \in Requests, AskTimesOut(r)
  PROVE  Service!GiveUp(r)
<1> DEFINE s == Error(asks[r].problemNumber, asks[r].by, ERROR_TIMEOUT, now)
<1>1. /\ asks[r] # NoAsk /\ asks[r] \in Ask /\ asks[r].reply = NoSolution
      /\ UNCHANGED <<masterBox, solutions, broadcasterBox>>
  BY DEF AskTimesOut, Waiting, TypeOK
<1>2. s \in Solution
  BY <1>1, UnfinishedType DEF TypeOK, Ask, Answer
<1>3. ReplyOf(s) = "timeout"
  BY <1>2, MasterAssumption DEF ReplyOf, Error, Unfinished
<1>4. Resolve(r, s)
  BY DEF AskTimesOut
<1>5. \A q \in Requests : IsServed(q)' = IsServed(q)
  BY <1>1 DEF IsServed
<1> HIDE DEF s
<1>6. /\ r \in DOMAIN ServiceRequests
      /\ ServiceRequests[r] = RequestOf(r)
      /\ ServiceRequests' =
           Service!With(ServiceRequests, r,
             Service!Replied([ServiceRequests[r] EXCEPT !.served = IsServed(r)], "timeout"))
  BY <1>1, <1>2, <1>3, <1>4, <1>5, RequestStep
<1>7. [ServiceRequests[r] EXCEPT !.served = IsServed(r)] = ServiceRequests[r]
  BY <1>6 DEF RequestOf
<1>8. ServiceRequests[r].reply = "none"
  BY <1>1, <1>6 DEF RequestOf, ReplyOf
<1> QED
  BY <1>1, <1>6, <1>7, <1>8, EntriesUnchanged, NewsUnchanged
     DEF Service!GiveUp, Service!NONE, Service!TIMEOUT

\* What the branches of OnMsgSolve have in common: the sender is served.
LEMMA ServeMapped ==
  ASSUME TypeOK, SolveInv, Receive("MsgSolve"), NEW s \in Solution,
         s.answer # ERROR_TIMEOUT, Resolve(Head(masterBox).sender, s)
  PROVE  LET m == Head(masterBox) IN
         /\ m \in MsgSolve
         /\ m.sender \in DOMAIN ServiceRequests
         /\ ServiceRequests[m.sender].problem = m.problemNumber
         /\ ServiceRequests[m.sender].user = m.by.uuid
         /\ Service!Serve(m.sender, StateOf(s))
<1> DEFINE m == Head(masterBox)
<1>1. /\ masterBox # << >> /\ masterBox' = Tail(masterBox)
      /\ m.type = "MsgSolve" /\ m \in MsgSolve
      /\ m = masterBox[1] /\ 1 \in DOMAIN masterBox
  BY HeadType, TailFacts DEF Receive, TypeOK
<1>2. m.sender \in Requests
  BY <1>1 DEF MsgSolve
<1>3. HasAsked(m.sender, m.problemNumber, m.by.uuid)
  BY <1>1 DEF SolveInv, SolvesAreAsked
<1>4. PICK r \in Requests : r = m.sender
  BY <1>2
<1>5. /\ IsServed(r)' = TRUE /\ IsServed(r) = FALSE
      /\ \A q \in Requests : q # r => IsServed(q)' = IsServed(q)
  BY <1>1, <1>4, ServedTail DEF SolveInv
<1>6. ReplyOf(s) = StateOf(s)
  BY MasterAssumption DEF ReplyOf
<1>7. asks[r] # NoAsk /\ Resolve(r, s)
  BY <1>3, <1>4 DEF HasAsked
<1> HIDE DEF m
<1>8. /\ r \in DOMAIN ServiceRequests
      /\ ServiceRequests[r] = RequestOf(r)
      /\ ServiceRequests' =
           Service!With(ServiceRequests, r,
             Service!Replied([ServiceRequests[r] EXCEPT !.served = TRUE], ReplyOf(s)))
  BY <1>5, <1>7, RequestStep
<1>9. /\ ServiceRequests[r].problem = m.problemNumber
      /\ ServiceRequests[r].user = m.by.uuid
      /\ ServiceRequests[r].served = FALSE
  BY <1>3, <1>4, <1>5, <1>8 DEF RequestOf, HasAsked
<1>10. Service!Serve(r, StateOf(s))
  BY <1>6, <1>8, <1>9 DEF Service!Serve
<1> QED BY <1>1, <1>4, <1>8, <1>9, <1>10 DEF m

LEMMA EntryFacts ==
  ASSUME TypeOK, EntriesAreOwn, NEW p \in Problems, solutions[p] # NoSolution
  PROVE  /\ p \in DOMAIN ServiceEntries
         /\ ServiceEntries[p] = EntryOf(p)
         /\ Service!IsSolvedFor(p) <=> IsSolved(solutions[p])
         /\ NewsOf(solutions[p]) = [problem |-> p, by |-> ServiceEntries[p].by,
                                   state |-> ServiceEntries[p].state]
<1>1. p \in DOMAIN ServiceEntries /\ ServiceEntries[p] = EntryOf(p)
  BY DEF ServiceEntries
<1>2. StateOf(solutions[p]) = "solved" <=> IsSolved(solutions[p])
  BY DEF StateOf
<1>3. EntryOf(p).state = StateOf(solutions[p]) /\ EntryOf(p).by = solutions[p].by.uuid
  BY DEF EntryOf
<1>4. solutions[p].problemNumber = p
  BY DEF EntriesAreOwn
<1> QED BY <1>1, <1>2, <1>3, <1>4 DEF Service!IsSolvedFor, Service!SOLVED, NewsOf

LEMMA InformMapped ==
  ASSUME TypeOK, SolveInv, OnMsgSolve,
         ReplySolved(Head(masterBox)) \/ ReplyInProgress(Head(masterBox))
  PROVE  Service!Inform(Head(masterBox).sender)
<1> DEFINE m == Head(masterBox)
           p == m.problemNumber
           s == solutions[p]
<1>1. Receive("MsgSolve") /\ m \in MsgSolve /\ p \in Problems
  BY HeadType DEF OnMsgSolve, Receive, MsgSolve
<1>2. s # NoSolution /\ Resolve(m.sender, s) /\ UNCHANGED solutions
  BY DEF ReplySolved, ReplyInProgress, InCache
<1>3. s \in Solution /\ s.answer # ERROR_TIMEOUT
  BY <1>1, <1>2 DEF TypeOK, SolveInv, EntriesAreOwn
<1>4. /\ m.sender \in DOMAIN ServiceRequests
      /\ ServiceRequests[m.sender].problem = p
      /\ Service!Serve(m.sender, StateOf(s))
  BY <1>1, <1>2, <1>3, ServeMapped
<1>5. /\ p \in DOMAIN ServiceEntries
      /\ ServiceEntries[p] = EntryOf(p)
      /\ Service!IsSolvedFor(p) <=> IsSolved(s)
      /\ NewsOf(s) = [problem |-> p, by |-> ServiceEntries[p].by,
                       state |-> ServiceEntries[p].state]
  BY <1>1, <1>2, EntryFacts DEF SolveInv
<1>6. ServiceEntries' = ServiceEntries
  BY <1>2, EntriesUnchanged
<1>7. ServiceEntries[p].state = StateOf(s)
  BY <1>5 DEF EntryOf
<1>8. CASE ReplySolved(m)
  <2>1. IsSolved(s) /\ CacheSolutions /\ Broadcast(s)
    BY <1>8 DEF ReplySolved
  <2>2. ServiceNews' = Append(ServiceNews, NewsOf(s))
    BY <1>3, <2>1, NewsAppend
  <2>3. ServiceNews' = Append(ServiceNews, Service!News(p))
    BY <1>5, <1>6, <2>2 DEF Service!News
  <2> HIDE DEF m, p, s
  <2>4. Service!Inform(m.sender)
    BY <1>4, <1>5, <1>6, <1>7, <2>1, <2>3 DEF Service!Inform
  <2> QED BY <2>4 DEF m
<1>9. CASE ReplyInProgress(m)
  <2>1. ~IsSolved(s) /\ UNCHANGED broadcasterBox
    BY <1>9 DEF ReplyInProgress
  <2>2. ServiceNews' = ServiceNews
    BY <2>1, NewsUnchanged
  <2> HIDE DEF m, p, s
  <2>3. Service!Inform(m.sender)
    BY <1>4, <1>5, <1>6, <1>7, <2>1, <2>2 DEF Service!Inform
  <2> QED BY <2>3 DEF m
<1> QED BY <1>8, <1>9

LEMMA BeginMapped ==
  ASSUME TypeOK, SolveInv, OnMsgSolve,
         SolveAgain(Head(masterBox)) \/ SolveAfresh(Head(masterBox))
  PROVE  Service!Begin(Head(masterBox).sender)
<1> DEFINE m == Head(masterBox)
           p == m.problemNumber
           s == Start(p, m.by, now)
<1>1. Receive("MsgSolve") /\ m \in MsgSolve /\ p \in Problems /\ m.by \in UserInfo
  BY HeadType DEF OnMsgSolve, Receive, MsgSolve
<1>2. /\ solutions' = [solutions EXCEPT ![p] = s] /\ Resolve(m.sender, s)
      /\ UNCHANGED broadcasterBox
  BY DEF SolveAgain, SolveAfresh, StartSolution
<1>3. s \in Solution /\ s.answer = IN_PROGRESS /\ s.by = m.by
  BY <1>1, StartType DEF Start, Unfinished, TypeOK
<1>4. StateOf(s) = "pending" /\ s.answer # ERROR_TIMEOUT
  BY <1>3 DEF StateOf, IsSolved, IN_PROGRESS, LONG, ERROR_TIMEOUT
<1>5. solutions[p] # NoSolution /\ IsSolved(solutions[p]) => ~CacheSolutions
  BY DEF SolveAgain, SolveAfresh, InCache, IsStale
<1> HIDE DEF s
<1>6. /\ m.sender \in DOMAIN ServiceRequests
      /\ ServiceRequests[m.sender].problem = p
      /\ ServiceRequests[m.sender].user = m.by.uuid
      /\ Service!Serve(m.sender, "pending")
  BY <1>1, <1>2, <1>3, <1>4, ServeMapped
<1>7. Service!IsSolvedFor(p) => ~CacheSolutions
  <2>1. Service!IsSolvedFor(p) => solutions[p] # NoSolution
    BY DEF Service!IsSolvedFor, ServiceEntries
  <2> QED BY <1>1, <1>5, <2>1, EntryFacts DEF SolveInv
<1>8. /\ solutions'[p] = s /\ solutions'[p] # NoSolution
      /\ \A q \in Problems : q # p => solutions'[q] = solutions[q]
  BY <1>1, <1>2, <1>3, MasterAssumption DEF TypeOK
<1>9. ServiceEntries' = Service!With(ServiceEntries, p, [by |-> m.by.uuid, state |-> "pending"])
  <2>1. DOMAIN ServiceEntries' = DOMAIN ServiceEntries \cup {p}
    BY <1>1, <1>8 DEF ServiceEntries
  <2>2. ServiceEntries'[p] = [by |-> m.by.uuid, state |-> "pending"]
    BY <1>1, <1>3, <1>4, <1>8 DEF ServiceEntries, EntryOf
  <2>3. \A q \in DOMAIN ServiceEntries : q # p => ServiceEntries'[q] = ServiceEntries[q]
    BY <1>8, <2>1 DEF ServiceEntries, EntryOf
  <2>4. ServiceEntries' = [q \in DOMAIN ServiceEntries' |-> ServiceEntries'[q]]
    BY DEF ServiceEntries
  <2> HIDE DEF m, p
  <2> QED BY <2>1, <2>2, <2>3, <2>4, IsWith
<1>10. ServiceNews' = ServiceNews
  BY <1>2, NewsUnchanged
<1> HIDE DEF m, p
<1>11. Service!Begin(m.sender)
  BY <1>6, <1>7, <1>9, <1>10 DEF Service!Begin, Service!PENDING
<1> QED BY <1>11 DEF m

\* The requests are as before when the master takes a message that is no
\* MsgSolve.
LEMMA OtherMessage ==
  ASSUME TypeOK, SolveInv, masterBox # << >>, masterBox' = Tail(masterBox),
         Head(masterBox).type # "MsgSolve", UNCHANGED asks
  PROVE  ServiceRequests' = ServiceRequests
<1>1. \A r \in Requests : IsServed(r)' = IsServed(r)
  BY ServedTail DEF SolveInv
<1> QED BY <1>1, RequestsUnchanged

LEMMA FinishMapped ==
  ASSUME TypeOK, SolveInv, OnMsgSolution
  PROVE  \/ \E p \in Problems, state \in {"solved", "failed"} : Service!Finish(p, state)
         \/ UNCHANGED Service!vars
<1> DEFINE m == Head(masterBox)
           p == m.problemNumber
           s == Finished(m)
<1>1. /\ masterBox # << >> /\ masterBox' = Tail(masterBox)
      /\ m.type = "MsgSolution" /\ m \in MsgSolution /\ UNCHANGED asks
  BY HeadType DEF OnMsgSolution, Receive
<1>2. ServiceRequests' = ServiceRequests
  BY <1>1, OtherMessage
<1>3. CASE solutions[p] = NoSolution
  <2>1. UNCHANGED <<solutions, broadcasterBox>>
    BY <1>3 DEF OnMsgSolution
  <2> QED BY <1>2, <2>1, EntriesUnchanged, NewsUnchanged DEF Service!vars
<1>4. CASE solutions[p] # NoSolution
  <2>1. p \in Problems /\ solutions[p] \in Solution /\ m.viaLambda \in BOOLEAN
    BY <1>1, <1>4 DEF MsgSolution, TypeOK
  <2>2. m.answer \in Result
    BY <1>1, TailFacts DEF SolveInv, AnswersAreFinal, TypeOK
  <2>3. /\ s \in Solution
        /\ s.problemNumber = solutions[p].problemNumber
        /\ s.by = solutions[p].by /\ s.answer = m.answer
    <3>1. s \in Solution
      BY <1>1, <2>1, FinishType DEF Finished, MsgSolution, TypeOK
    <3> QED BY <2>1, <3>1 DEF Finished, Complete, WithViaLambda, Solution
  <2>4. solutions' = [solutions EXCEPT ![p] = s] /\ Broadcast(s)
    BY <1>4 DEF OnMsgSolution
  <2>5. PICK state : state = StateOf(s)
    OBVIOUS
  <2> HIDE DEF s
  <2>6. state \in {"solved", "failed"}
    BY <2>2, <2>3, <2>5 DEF StateOf, IN_PROGRESS, Result, LONG, NUMERAL, OTHER_TEXT
  <2>7. PICK q \in Problems : q = p
    BY <2>1
  <2>8. /\ solutions'[q] = s /\ solutions'[q] # NoSolution
        /\ \A o \in Problems : o # q => solutions'[o] = solutions[o]
    BY <2>1, <2>3, <2>4, <2>7, MasterAssumption DEF TypeOK
  <2>9. /\ q \in DOMAIN ServiceEntries /\ ServiceEntries[q] = EntryOf(q)
        /\ solutions[q].problemNumber = q
    BY <1>4, <2>7, EntryFacts DEF SolveInv, EntriesAreOwn
  <2>10. [ServiceEntries[q] EXCEPT !.state = state] = [by |-> s.by.uuid, state |-> state]
    BY <2>3, <2>7, <2>9 DEF EntryOf
  <2>11. ServiceEntries'[q] = [by |-> s.by.uuid, state |-> state]
    BY <2>5, <2>8 DEF ServiceEntries, EntryOf
  <2>12. DOMAIN ServiceEntries' = DOMAIN ServiceEntries \cup {q}
    BY <1>4, <2>7, <2>8 DEF ServiceEntries
  <2>13. \A o \in DOMAIN ServiceEntries : o # q => ServiceEntries'[o] = ServiceEntries[o]
    BY <2>8, <2>12 DEF ServiceEntries, EntryOf
  <2>14. ServiceEntries' = [o \in DOMAIN ServiceEntries' |-> ServiceEntries'[o]]
    BY DEF ServiceEntries
  <2>15. ServiceEntries' = Service!With(ServiceEntries, q,
                                        [ServiceEntries[q] EXCEPT !.state = state])
    BY <2>10, <2>11, <2>12, <2>13, <2>14, IsWith
  <2>16. NewsOf(s) = Service!News(q)
    BY <2>3, <2>5, <2>7, <2>9, <2>11 DEF NewsOf, Service!News
  <2>17. ServiceNews' = Append(ServiceNews, Service!News(q))
    BY <2>3, <2>4, <2>16, NewsAppend
  <2>18. Service!Finish(q, state)
    BY <1>2, <2>9, <2>15, <2>17 DEF Service!Finish
  <2> QED BY <2>6, <2>18
<1> QED BY <1>3, <1>4

\* A rename changes what is shown of a user, not whose the solution is.
LEMMA RenameMapped ==
  ASSUME TypeOK, SolveInv, OnMsgUserInfoUpdate
  PROVE  UNCHANGED Service!vars
<1> DEFINE userInfo == Head(masterBox).userInfo
<1>1. /\ masterBox # << >> /\ masterBox' = Tail(masterBox)
      /\ Head(masterBox).type = "MsgUserInfoUpdate"
      /\ userInfo \in UserInfo /\ UNCHANGED <<asks, broadcasterBox>>
  BY HeadType DEF OnMsgUserInfoUpdate, Receive, MsgUserInfoUpdate
<1>2. ServiceRequests' = ServiceRequests
  BY <1>1, OtherMessage
<1>3. ASSUME NEW p \in Problems
      PROVE  /\ solutions'[p] # NoSolution <=> solutions[p] # NoSolution
             /\ solutions[p] # NoSolution =>
                  /\ solutions'[p].by.uuid = solutions[p].by.uuid
                  /\ StateOf(solutions'[p]) = StateOf(solutions[p])
  <2>1. CASE ~IsCreditedTo(p, userInfo.uuid)
    <3>1. solutions'[p] = solutions[p]
      BY <2>1 DEF OnMsgUserInfoUpdate
    <3> QED BY <3>1
  <2>2. CASE IsCreditedTo(p, userInfo.uuid)
    <3>1. /\ solutions'[p] = WithBy(solutions[p], userInfo)
          /\ solutions[p] # NoSolution /\ solutions[p].by.uuid = userInfo.uuid
      BY <2>2 DEF OnMsgUserInfoUpdate, IsCreditedTo
    <3>2. solutions[p] \in Solution
      BY <3>1 DEF TypeOK
    <3> HIDE DEF userInfo
    <3>3. /\ solutions'[p] \in Solution
          /\ solutions'[p].by = userInfo
          /\ solutions'[p].answer = solutions[p].answer
          /\ solutions'[p].finishedAt = solutions[p].finishedAt
      <4>1. solutions'[p] \in Solution
        BY <1>1, <3>1, <3>2, WithByType
      <4> QED BY <3>1, <3>2, <4>1 DEF WithBy, Solution
    <3> QED BY <3>1, <3>3, MasterAssumption DEF StateOf, IsSolved
  <2> QED BY <2>1, <2>2
<1>4. ServiceEntries' = ServiceEntries
  BY <1>3 DEF ServiceEntries, EntryOf
<1> QED BY <1>1, <1>2, <1>4, NewsUnchanged DEF Service!vars

\* What happens out of the clients' sight.
LEMMA HiddenMapped ==
  ASSUME TypeOK,
         \/ \E userInfo \in UserInfo : SendUserInfoUpdate(userInfo)
         \/ \E w \in Workers : WorkerAnswers(w) \/ WorkerThrows(w)
         \/ Tick
         \/ UNCHANGED vars
  PROVE  UNCHANGED Service!vars
<1>1. UNCHANGED <<asks, solutions, broadcasterBox>>
  BY DEF SendUserInfoUpdate, WorkerAnswers, WorkerThrows, Tick, vars
<1>2. \/ \E m \in MasterMessage : m.type # "MsgSolve" /\ masterBox' = Append(masterBox, m)
      \/ UNCHANGED masterBox
  <2>1. ASSUME NEW userInfo \in UserInfo, SendUserInfoUpdate(userInfo)
        PROVE  \E m \in MasterMessage : m.type # "MsgSolve" /\ masterBox' = Append(masterBox, m)
    BY <2>1, SentNotSolve
  <2>2. ASSUME NEW w \in Workers, WorkerAnswers(w)
        PROVE  \E m \in MasterMessage : m.type # "MsgSolve" /\ masterBox' = Append(masterBox, m)
    BY <2>2, SentNotSolve
  <2>3. CASE (\E w \in Workers : WorkerThrows(w)) \/ Tick \/ UNCHANGED vars
    BY <2>3 DEF WorkerThrows, Tick, vars
  <2> QED BY <2>1, <2>2, <2>3
<1>3. \A r \in Requests : IsServed(r)' = IsServed(r)
  <2>1. CASE \E m \in MasterMessage : m.type # "MsgSolve" /\ masterBox' = Append(masterBox, m)
    <3>1. PICK m \in MasterMessage : m.type # "MsgSolve" /\ masterBox' = Append(masterBox, m)
      BY <2>1
    <3>2. \A r : IsServed(r)' = (IsServed(r) /\ ~(m.type = "MsgSolve" /\ m.sender = r))
      BY <3>1, ServedAppend
    <3> QED BY <3>1, <3>2 DEF IsServed
  <2>2. CASE UNCHANGED masterBox
    BY <2>2 DEF IsServed
  <2> QED BY <1>2, <2>1, <2>2
<1> QED BY <1>1, <1>3, RequestsUnchanged, EntriesUnchanged, NewsUnchanged DEF Service!vars

LEMMA AnnounceMapped ==
  ASSUME TypeOK, BroadcasterReceives
  PROVE  Service!Announce
<1>1. /\ broadcasterBox # << >> /\ broadcasterBox' = Tail(broadcasterBox)
      /\ UNCHANGED <<asks, masterBox, solutions>>
  BY DEF BroadcasterReceives
<1>2. \A r \in Requests : IsServed(r)' = IsServed(r)
  BY <1>1 DEF IsServed
<1> QED BY <1>1, <1>2, NewsTail, RequestsUnchanged, EntriesUnchanged DEF Service!Announce

LEMMA InitMapped == Init => Service!Init
<1> SUFFICES ASSUME Init PROVE Service!Init
  OBVIOUS
<1>1. ServiceRequests = [r \in {} |-> "none"]
  BY DEF Init, ServiceRequests
<1>2. ServiceEntries = [p \in {} |-> "none"]
  BY DEF Init, ServiceEntries
<1>3. ServiceNews = << >>
  BY DEF Init, ServiceNews
<1> QED BY <1>1, <1>2, <1>3 DEF Service!Init, Service!NONE

LEMMA StepMapped == TypeOK /\ SolveInv /\ [Next]_vars => [Service!Next]_(Service!vars)
<1> SUFFICES ASSUME TypeOK, SolveInv, [Next]_vars
             PROVE  Service!Next \/ UNCHANGED Service!vars
  OBVIOUS
<1>1. ASSUME NEW r \in Requests, NEW p \in Problems, NEW by \in UserInfo, Index(r, p, by)
      PROVE  Service!Next
  <2>1. by.uuid \in Users
    BY DEF UserInfo
  <2> QED BY <1>1, <2>1, AskMapped DEF Service!Next, SolveInv
<1>2. ASSUME NEW r \in Requests, AskTimesOut(r)
      PROVE  Service!Next
  BY <1>2, GiveUpMapped DEF Service!Next
<1>3. CASE OnMsgSolve
  <2>1. Head(masterBox).sender \in Requests
    BY <1>3, HeadType DEF OnMsgSolve, Receive, MsgSolve
  <2> QED BY <1>3, <2>1, InformMapped, BeginMapped DEF OnMsgSolve, Service!Next
<1>4. CASE OnMsgSolution
  BY <1>4, FinishMapped DEF Service!Next, Service!SOLVED, Service!FAILED
<1>5. CASE OnMsgUserInfoUpdate
  BY <1>5, RenameMapped
<1>6. CASE BroadcasterReceives
  BY <1>6, AnnounceMapped DEF Service!Next
<1>7. CASE \/ \E userInfo \in UserInfo : SendUserInfoUpdate(userInfo)
           \/ \E w \in Workers : WorkerAnswers(w) \/ WorkerThrows(w)
           \/ Tick
           \/ UNCHANGED vars
  BY <1>7, HiddenMapped
<1> QED BY <1>1, <1>2, <1>3, <1>4, <1>5, <1>6, <1>7 DEF Next, MasterStep

\* The solving half of the backend implements the service, for any number of
\* users, problems, requests and workers, with all their faults.
THEOREM MasterImplementsService == Spec => ImplementsService
<1>1. Spec => [](TypeOK /\ SolveInv)
  BY TypeCorrect, SolveInvInit, SolveInvNext, PTL DEF Spec
<1> QED BY <1>1, InitMapped, StepMapped, PTL DEF Spec, ImplementsService, Service!Spec
=============================================================================
