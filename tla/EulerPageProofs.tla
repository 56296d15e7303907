--------------------------- MODULE EulerPageProofs ---------------------------
(***************************************************************************)
(* What users see of the solving half: proofs about EulerPage.  What is    *)
(* known of the server, whose every step is one of EulerProblemMaster, is  *)
(* taken from EulerProblemMasterProofs and EulerProblemRefinement.         *)
(***************************************************************************)
EXTENDS EulerPage, EulerProblemRefinement

-----------------------------------------------------------------------------
(* Type correctness, and the server under the pages.                       *)

\* A step of the pages and their server is a step of the server or leaves it.
LEMMA ServerMoves ==
  ASSUME PageTypeOK, [PageNext]_allVars
  PROVE  [Next]_vars
<1>1. ASSUME NEW r \in Requests, GetArrives(r)
      PROVE  Next
  <2>1. gets[r] \in Get
    BY <1>1 DEF GetArrives, InPhase, PageTypeOK
  <2>2. PICK name \in Names :
          Index(r, gets[r].problem, [uuid |-> gets[r].user, name |-> name])
    BY <1>1 DEF GetArrives
  <2>3. gets[r].problem \in Problems /\ [uuid |-> gets[r].user, name |-> name] \in UserInfo
    BY <2>1 DEF Get, UserInfo
  <2> QED BY <2>2, <2>3 DEF Next
<1>2. CASE ServerStep
  BY <1>2 DEF ServerStep, Next
<1>3. CASE Push
  BY <1>3 DEF Push, Next
<1>4. \/ ServerStep \/ Push \/ UNCHANGED server
      \/ \E r \in Requests : GetArrives(r)
  BY DEF PageNext, PageStep, Click, GetReplies, GetFails, OnMessage, allVars
<1> QED
  BY <1>1, <1>2, <1>3, <1>4 DEF server

\* A click is never unmade: it keeps its user and its problem.
LEMMA GetStep ==
  ASSUME PageTypeOK, [PageNext]_allVars, NEW r \in Requests, gets[r] # NoGet
  PROVE  /\ gets'[r] # NoGet
         /\ gets'[r].user = gets[r].user
         /\ gets'[r].problem = gets[r].problem
<1>1. gets[r] \in Get
  BY DEF PageTypeOK
<1>2. ASSUME NEW phase \in {"asked", "done"}, NEW q \in Requests,
             gets' = [gets EXCEPT ![q].phase = phase]
      PROVE  /\ gets'[r] # NoGet
             /\ gets'[r].user = gets[r].user
             /\ gets'[r].problem = gets[r].problem
  <2>1. CASE q = r
    <3>1. gets'[r] = [gets[r] EXCEPT !.phase = phase]
      BY <1>2, <2>1 DEF PageTypeOK
    <3>2. gets'[r] \in Get
      BY <1>1, <3>1 DEF Get
    <3> QED BY <1>1, <3>1, <3>2, PageAssumption DEF Get
  <2>2. CASE q # r
    BY <1>2, <2>2 DEF PageTypeOK
  <2> QED BY <2>1, <2>2
<1>3. ASSUME NEW q \in Requests, NEW u \in Users, NEW p \in Problems, Click(q, u, p)
      PROVE  gets'[r] = gets[r]
  BY <1>3 DEF Click, PageTypeOK
<1>4. \/ gets' = gets
      \/ \E q \in Requests, u \in Users, p \in Problems : Click(q, u, p)
      \/ \E q \in Requests, phase \in {"asked", "done"} :
           gets' = [gets EXCEPT ![q].phase = phase]
  BY DEF PageNext, ServerStep, PageStep, GetArrives, GetReplies, GetFails, Push, OnMessage,
         pageVars, allVars
<1> QED
  BY <1>2, <1>3, <1>4

LEMMA GetsTypeNext ==
  ASSUME PageTypeOK, [PageNext]_allVars
  PROVE  gets' \in [Requests -> Get \cup {NoGet}]
<1>1. ASSUME NEW q \in Requests, gets[q] # NoGet, NEW phase \in {"asked", "done"},
             gets' = [gets EXCEPT ![q].phase = phase]
      PROVE  gets' \in [Requests -> Get \cup {NoGet}]
  <2>1. gets[q] \in Get
    BY <1>1 DEF PageTypeOK
  <2>2. [gets[q] EXCEPT !.phase = phase] \in Get
    BY <2>1 DEF Get
  <2> QED BY <1>1, <2>2 DEF PageTypeOK
<1>2. ASSUME NEW q \in Requests, NEW u \in Users, NEW p \in Problems, Click(q, u, p)
      PROVE  gets' \in [Requests -> Get \cup {NoGet}]
  <2>1. [user |-> u, problem |-> p, phase |-> "sent"] \in Get
    BY DEF Get
  <2> QED BY <1>2, <2>1 DEF Click, PageTypeOK
<1>3. \/ gets' = gets
      \/ \E q \in Requests, u \in Users, p \in Problems : Click(q, u, p)
      \/ \E q \in Requests, phase \in {"asked", "done"} :
           gets[q] # NoGet /\ gets' = [gets EXCEPT ![q].phase = phase]
  BY DEF PageNext, ServerStep, PageStep, GetArrives, GetReplies, GetFails, Push, OnMessage,
         pageVars, allVars, InPhase
<1> QED
  BY <1>1, <1>2, <1>3 DEF PageTypeOK

LEMMA PushesTypeNext ==
  ASSUME PageTypeOK, [PageNext]_allVars
  PROVE  pushes' \in [Users -> Seq(Solution)]
<1>1. CASE Push
  <2> DEFINE s == Head(broadcasterBox)
  <2>1. s \in Solution
    BY <1>1, TailFacts DEF Push, BroadcasterReceives, PageTypeOK, TypeOK
  <2>2. ASSUME NEW u \in Users
        PROVE  /\ Marked(u, s) \in Solution
               /\ Append(pushes[u], Marked(u, s)) \in Seq(Solution)
    <3>1. Marked(u, s) \in Solution
      BY <2>1, AsMineType DEF Marked
    <3> QED BY <3>1 DEF PageTypeOK
  <2> QED BY <1>1, <2>2 DEF Push, PageTypeOK
<1>2. ASSUME NEW u \in Users, OnMessage(u)
      PROVE  pushes' \in [Users -> Seq(Solution)]
  <2>1. pushes[u] \in Seq(Solution) /\ pushes[u] # << >>
    BY <1>2 DEF OnMessage, PageTypeOK
  <2>2. Tail(pushes[u]) \in Seq(Solution)
    BY <2>1, TailFacts
  <2> QED BY <1>2, <2>2 DEF OnMessage, PageTypeOK
<1>3. pushes' = pushes \/ Push \/ \E u \in Users : OnMessage(u)
  BY DEF PageNext, ServerStep, PageStep, Click, GetArrives, GetReplies, GetFails,
         pageVars, allVars
<1> QED
  BY <1>1, <1>2, <1>3 DEF PageTypeOK

\* What a step makes of a button: nothing, or a click, an HTTP error or a push.
LEMMA ButtonStep ==
  ASSUME PageTypeOK, [PageNext]_allVars
  PROVE  \/ page' = page
         \/ \E r \in Requests, u \in Users, p \in Problems :
              /\ Click(r, u, p)
              /\ page' = [page EXCEPT ![u][p] = Blank("in-progress")]
         \/ \E r \in Requests :
              /\ GetFails(r) /\ gets[r] \in Get
              /\ page' = [page EXCEPT ![gets[r].user][gets[r].problem] =
                            [class |-> "error", answer |-> HTTP_ERROR, by |-> Nobody]]
         \/ \E u \in Users :
              /\ OnMessage(u) /\ pushes[u] # << >> /\ Head(pushes[u]) \in Solution
              /\ LET s == Head(pushes[u]) IN
                 page' = [page EXCEPT ![u][s.problemNumber] =
                   IF s.answer \in {LONG, NUMERAL}
                   THEN [class |-> "solved", answer |-> TextOf(s),
                         by |-> IF s.mine THEN Nobody ELSE s.by.uuid]
                   ELSE [class |-> "error", answer |-> s.answer, by |-> Nobody]]
<1>1. ASSUME NEW u \in Users, OnMessage(u)
      PROVE  /\ pushes[u] # << >> /\ Head(pushes[u]) \in Solution
             /\ LET s == Head(pushes[u]) IN
                 page' = [page EXCEPT ![u][s.problemNumber] =
                   IF s.answer \in {LONG, NUMERAL}
                   THEN [class |-> "solved", answer |-> TextOf(s),
                         by |-> IF s.mine THEN Nobody ELSE s.by.uuid]
                   ELSE [class |-> "error", answer |-> s.answer, by |-> Nobody]]
  <2>1. pushes[u] # << >> /\ pushes[u] \in Seq(Solution)
    BY <1>1 DEF OnMessage, PageTypeOK
  <2>2. Head(pushes[u]) \in Solution
    BY <2>1, TailFacts
  <2> QED
    BY <1>1, <2>1, <2>2
       DEF OnMessage, ProcessSolution, IsAnsweredNumerically, IsNaN, FUNCTION, LONG, NUMERAL,
           ProblemSuccess, ProblemError
<1>2. ASSUME NEW r \in Requests, GetFails(r)
      PROVE  /\ gets[r] \in Get
             /\ page' = [page EXCEPT ![gets[r].user][gets[r].problem] =
                            [class |-> "error", answer |-> HTTP_ERROR, by |-> Nobody]]
  BY <1>2 DEF GetFails, InPhase, ProblemError, PageTypeOK
<1>3. \/ page' = page
      \/ \E r \in Requests, u \in Users, p \in Problems :
           Click(r, u, p) /\ page' = [page EXCEPT ![u][p] = Blank("in-progress")]
      \/ \E r \in Requests : GetFails(r)
      \/ \E u \in Users : OnMessage(u)
  BY DEF PageNext, ServerStep, PageStep, Click, GetArrives, GetReplies, Push, pageVars,
         allVars
<1> QED
  BY <1>1, <1>2, <1>3

LEMMA PageTypeNext ==
  ASSUME PageTypeOK, [PageNext]_allVars
  PROVE  PageTypeOK'
<1>1. TypeOK'
  BY ServerMoves, TypeNext DEF PageTypeOK
<1>2. ASSUME NEW u \in Users, NEW p \in Problems, NEW button \in Button,
             page' = [page EXCEPT ![u][p] = button]
      PROVE  page' \in [Users -> [Problems -> Button]]
  BY <1>2 DEF PageTypeOK
<1>3. Blank("in-progress") \in Button
  BY DEF Blank, Button, Text
<1>4. [class |-> "error", answer |-> HTTP_ERROR, by |-> Nobody] \in Button
  BY DEF Button, Text
<1>5. ASSUME NEW s \in Solution
      PROVE  (IF s.answer \in {LONG, NUMERAL}
              THEN [class |-> "solved", answer |-> TextOf(s),
                    by |-> IF s.mine THEN Nobody ELSE s.by.uuid]
              ELSE [class |-> "error", answer |-> s.answer, by |-> Nobody]) \in Button
  <2>1. s.answer \in Answer /\ s.by.uuid \in Users
    BY DEF Solution, UserInfo
  <2>2. TextOf(s) \in Text
    BY <2>1 DEF TextOf, Text
  <2> QED BY <2>1, <2>2 DEF Button, Text
<1>6. page' \in [Users -> [Problems -> Button]]
  <2>1. CASE page' = page
    BY <2>1 DEF PageTypeOK
  <2>2. ASSUME NEW u \in Users, NEW p \in Problems,
               page' = [page EXCEPT ![u][p] = Blank("in-progress")]
        PROVE  page' \in [Users -> [Problems -> Button]]
    BY <1>2, <1>3, <2>2
  <2>3. ASSUME NEW r \in Requests, gets[r] \in Get,
               page' = [page EXCEPT ![gets[r].user][gets[r].problem] =
                          [class |-> "error", answer |-> HTTP_ERROR, by |-> Nobody]]
        PROVE  page' \in [Users -> [Problems -> Button]]
    <3>1. gets[r].user \in Users /\ gets[r].problem \in Problems
      BY <2>3 DEF Get
    <3> QED BY <1>2, <1>4, <2>3, <3>1
  <2>4. ASSUME NEW u \in Users, NEW s \in Solution,
               page' = [page EXCEPT ![u][s.problemNumber] =
                   IF s.answer \in {LONG, NUMERAL}
                   THEN [class |-> "solved", answer |-> TextOf(s),
                         by |-> IF s.mine THEN Nobody ELSE s.by.uuid]
                   ELSE [class |-> "error", answer |-> s.answer, by |-> Nobody]]
        PROVE  page' \in [Users -> [Problems -> Button]]
    <3>1. s.problemNumber \in Problems
      BY DEF Solution
    <3> QED BY <1>2, <1>5, <2>4, <3>1
  <2> QED BY <2>1, <2>2, <2>3, <2>4, ButtonStep
<1> QED
  BY <1>1, <1>6, GetsTypeNext, PushesTypeNext DEF PageTypeOK

\* What pages show, what is pushed to them and what they ask keeps its type.
THEOREM PageTypeCorrect == PageSpec => []PageTypeOK
<1>1. PageInit => PageTypeOK
  <2> SUFFICES ASSUME PageInit PROVE PageTypeOK
    OBVIOUS
  <2>1. Blank("unsolved") \in Button
    BY DEF Blank, Button, Text
  <2> QED BY <2>1, TypeInit DEF PageInit, PageTypeOK
<1>2. PageTypeOK /\ [PageNext]_allVars => PageTypeOK'
  BY PageTypeNext
<1> QED
  BY <1>1, <1>2, PTL DEF PageSpec

-----------------------------------------------------------------------------
(* Whose solutions are marked.                                             *)

\* No solution of the master's is anybody's own, and what it broadcasts is
\* credited to a user who has asked for it.
NewsIsCredited ==
  /\ \A p \in Problems : solutions[p] # NoSolution => solutions[p].mine = FALSE
  /\ \A i \in DOMAIN broadcasterBox :
       /\ broadcasterBox[i].mine = FALSE
       /\ \E r \in Requests :
            HasAsked(r, broadcasterBox[i].problemNumber, broadcasterBox[i].by.uuid)

LEMMA NobodysOwnNext ==
  ASSUME TypeOK, [Next]_vars, NEW p \in Problems, solutions'[p] # NoSolution,
         solutions[p] # NoSolution => solutions[p].mine = FALSE
  PROVE  solutions'[p].mine = FALSE
<1> DEFINE m == Head(masterBox)
<1>1. CASE OnMsgSolve
  <2>1. m.problemNumber \in Problems
    BY <1>1, HeadType DEF OnMsgSolve, Receive, MsgSolve
  <2>2. solutions'[p] = solutions[p] \/ solutions'[p] = Start(p, m.by, now)
    BY <1>1, <2>1 DEF OnMsgSolve, SolveAgain, SolveAfresh, StartSolution, ReplySolved,
                      ReplyInProgress, TypeOK
  <2> QED BY <2>2 DEF Start, Unfinished
<1>2. CASE OnMsgSolution /\ solutions'[p] # solutions[p]
  <2>1. solutions[p] # NoSolution /\ solutions'[p] = Finished(m) /\ m.problemNumber = p
    BY <1>2 DEF OnMsgSolution, TypeOK
  <2>2. solutions[p] \in Solution
    BY <2>1 DEF TypeOK
  <2> QED BY <2>1, <2>2 DEF Finished, Complete, WithViaLambda, Solution
<1>3. CASE OnMsgUserInfoUpdate /\ solutions'[p] # solutions[p]
  <2>1. solutions[p] # NoSolution /\ solutions'[p] = WithBy(solutions[p], m.userInfo)
    BY <1>3 DEF OnMsgUserInfoUpdate, IsCreditedTo
  <2>2. solutions[p] \in Solution
    BY <2>1 DEF TypeOK
  <2> QED BY <2>1, <2>2 DEF WithBy, Solution
<1>4. \/ OnMsgSolve \/ OnMsgSolution \/ OnMsgUserInfoUpdate
      \/ solutions'[p] = solutions[p]
  BY DEF Next, MasterStep, Index, AskTimesOut, SendUserInfoUpdate, WorkerAnswers,
         WorkerThrows, BroadcasterReceives, Tick, vars
<1> QED
  BY <1>1, <1>2, <1>3, <1>4

LEMMA CreditedNext ==
  ASSUME TypeOK, EntriesAreOwn, CreditedToAnAsker, NewsIsCredited, [Next]_vars
  PROVE  NewsIsCredited'
<1> DEFINE m == Head(masterBox)
<1>1. \A p \in Problems : solutions'[p] # NoSolution => solutions'[p].mine = FALSE
  BY NobodysOwnNext DEF NewsIsCredited
<1>2. ASSUME NEW s, s.mine = FALSE,
             \E r \in Requests : HasAsked(r, s.problemNumber, s.by.uuid)
      PROVE  \E r \in Requests : HasAsked(r, s.problemNumber, s.by.uuid)'
  <2>1. PICK p, uuid : p = s.problemNumber /\ uuid = s.by.uuid
    OBVIOUS
  <2>2. PICK r \in Requests : HasAsked(r, p, uuid)
    BY <1>2, <2>1
  <2>3. HasAsked(r, p, uuid)'
    BY <2>2, AskStep
  <2> QED BY <2>1, <2>3
<1>3. ASSUME NEW p \in Problems, solutions[p] # NoSolution
      PROVE  /\ solutions[p] \in Solution /\ solutions[p].mine = FALSE
             /\ \E r \in Requests : HasAsked(r, solutions[p].problemNumber,
                                             solutions[p].by.uuid)
  BY <1>3 DEF TypeOK, NewsIsCredited, EntriesAreOwn, CreditedToAnAsker, HasAsked
<1>4. ASSUME NEW i \in DOMAIN broadcasterBox'
      PROVE  \E s : /\ s = broadcasterBox'[i] /\ s.mine = FALSE
                    /\ \E r \in Requests : HasAsked(r, s.problemNumber, s.by.uuid)
  <2>1. ASSUME NEW k \in DOMAIN broadcasterBox, broadcasterBox'[i] = broadcasterBox[k]
        PROVE  \E s : /\ s = broadcasterBox'[i] /\ s.mine = FALSE
                      /\ \E r \in Requests : HasAsked(r, s.problemNumber, s.by.uuid)
    BY <2>1 DEF NewsIsCredited
  <2>2. ASSUME NEW s \in Solution, Broadcast(s), s.mine = FALSE,
               \E r \in Requests : HasAsked(r, s.problemNumber, s.by.uuid)
        PROVE  \E t : /\ t = broadcasterBox'[i] /\ t.mine = FALSE
                      /\ \E r \in Requests : HasAsked(r, t.problemNumber, t.by.uuid)
    <3>1. \/ \E k \in DOMAIN broadcasterBox : broadcasterBox'[i] = broadcasterBox[k]
          \/ broadcasterBox'[i] = s
      BY <2>2, AppendFacts DEF Broadcast, TypeOK
    <3> QED BY <2>1, <2>2, <3>1
  <2>3. CASE OnMsgSolve
    <3>1. m.problemNumber \in Problems
      BY <2>3, HeadType DEF OnMsgSolve, Receive, MsgSolve
    <3>2. CASE ReplySolved(m)
      BY <1>3, <2>2, <3>1, <3>2 DEF ReplySolved, InCache
    <3>3. CASE UNCHANGED broadcasterBox
      BY <2>1, <3>3
    <3> QED
      BY <2>3, <3>2, <3>3 DEF OnMsgSolve, ReplyInProgress, SolveAgain, SolveAfresh,
                              StartSolution
  <2>4. CASE OnMsgSolution
    <3>1. m \in MsgSolution
      BY <2>4, HeadType DEF OnMsgSolution, Receive
    <3>2. CASE solutions[m.problemNumber] # NoSolution
      <4> DEFINE s == solutions[m.problemNumber]
      <4>1. /\ s \in Solution /\ s.mine = FALSE
            /\ \E r \in Requests : HasAsked(r, s.problemNumber, s.by.uuid)
        BY <1>3, <3>1, <3>2 DEF MsgSolution
      <4>2. Finished(m) \in Solution
        BY <3>1, <4>1, FinishType DEF Finished, MsgSolution, TypeOK
      <4>3. /\ Finished(m).problemNumber = s.problemNumber
            /\ Finished(m).by = s.by /\ Finished(m).mine = FALSE
        BY <4>1 DEF Finished, Complete, WithViaLambda, Solution
      <4>4. Broadcast(Finished(m))
        BY <2>4, <3>2 DEF OnMsgSolution
      <4> HIDE DEF s
      <4> QED BY <2>2, <4>1, <4>2, <4>3, <4>4
    <3>3. CASE solutions[m.problemNumber] = NoSolution
      BY <2>1, <2>4, <3>3 DEF OnMsgSolution
    <3> QED BY <3>2, <3>3
  <2>5. CASE BroadcasterReceives
    BY <2>1, <2>5, TailFacts DEF BroadcasterReceives, TypeOK
  <2>6. CASE UNCHANGED broadcasterBox
    BY <2>1, <2>6
  <2>7. OnMsgSolve \/ OnMsgSolution \/ BroadcasterReceives \/ UNCHANGED broadcasterBox
    BY DEF Next, MasterStep, Index, AskTimesOut, SendUserInfoUpdate,
           OnMsgUserInfoUpdate, WorkerAnswers, WorkerThrows, Tick, vars
  <2> QED
    BY <2>3, <2>4, <2>5, <2>6, <2>7
<1>5. \A i \in DOMAIN broadcasterBox' :
        /\ broadcasterBox'[i].mine = FALSE
        /\ \E r \in Requests :
             HasAsked(r, broadcasterBox[i].problemNumber, broadcasterBox[i].by.uuid)'
  <2> SUFFICES ASSUME NEW i \in DOMAIN broadcasterBox'
               PROVE  /\ broadcasterBox'[i].mine = FALSE
                      /\ \E r \in Requests :
                           HasAsked(r, broadcasterBox[i].problemNumber,
                                    broadcasterBox[i].by.uuid)'
    OBVIOUS
  <2>1. PICK s : /\ s = broadcasterBox'[i] /\ s.mine = FALSE
                 /\ \E r \in Requests : HasAsked(r, s.problemNumber, s.by.uuid)
    BY <1>4
  <2>2. \E r \in Requests : HasAsked(r, s.problemNumber, s.by.uuid)'
    BY <1>2, <2>1
  <2> QED BY <2>1, <2>2 DEF HasAsked
<1> QED
  BY <1>1, <1>5 DEF NewsIsCredited

\* Requests on the server come from clicks.
AsksAreClicks ==
  \A r \in Requests : asks[r] # NoAsk =>
    /\ gets[r] # NoGet
    /\ gets[r].user = asks[r].by.uuid
    /\ gets[r].problem = asks[r].problemNumber

\* A push is credited to a user who has clicked on its problem, and marked if
\* that is the user it goes to.
PushesAreMarked ==
  \A u \in Users : \A i \in DOMAIN pushes[u] :
    /\ pushes[u][i].mine <=> pushes[u][i].by.uuid = u
    /\ HasClicked(pushes[u][i].by.uuid, pushes[u][i].problemNumber)

MarkInv == AsksAreClicks /\ NewsIsCredited /\ PushesAreMarked /\ OwnSolutionsAreMarked

LEMMA ClicksNext ==
  ASSUME PageTypeOK, AsksAreClicks, [PageNext]_allVars
  PROVE  AsksAreClicks'
<1> SUFFICES ASSUME NEW r \in Requests, asks'[r] # NoAsk
             PROVE  /\ gets'[r] # NoGet
                    /\ gets'[r].user = asks'[r].by.uuid
                    /\ gets'[r].problem = asks'[r].problemNumber
  BY DEF AsksAreClicks
<1>1. CASE asks[r] # NoAsk
  <2>1. PICK p, uuid : p = asks[r].problemNumber /\ uuid = asks[r].by.uuid
    OBVIOUS
  <2>2. HasAsked(r, p, uuid)
    BY <1>1, <2>1 DEF HasAsked
  <2>3. HasAsked(r, p, uuid)'
    BY <2>2, ServerMoves, AskStep DEF PageTypeOK
  <2>4. gets[r] # NoGet /\ gets[r].user = uuid /\ gets[r].problem = p
    BY <1>1, <2>1 DEF AsksAreClicks
  <2> QED BY <2>3, <2>4, GetStep DEF HasAsked
<1>2. CASE asks[r] = NoAsk
  <2>1. ASSUME NEW q \in Requests, GetArrives(q)
        PROVE  /\ gets'[r] # NoGet
               /\ gets'[r].user = asks'[r].by.uuid
               /\ gets'[r].problem = asks'[r].problemNumber
    <3>1. PICK name \in Names :
            Index(q, gets[q].problem, [uuid |-> gets[q].user, name |-> name])
      BY <2>1 DEF GetArrives
    <3>2. q = r
      BY <1>2, <3>1 DEF Index, PageTypeOK, TypeOK
    <3>3. asks'[r].by.uuid = gets[r].user /\ asks'[r].problemNumber = gets[r].problem
      BY <3>1, <3>2 DEF Index, PageTypeOK, TypeOK
    <3>4. gets[r] # NoGet
      BY <2>1, <3>2 DEF GetArrives, InPhase
    <3> QED BY <3>3, <3>4, GetStep
  <2>2. ASSUME NEW q \in Requests, NEW s, Resolve(q, s)
        PROVE  asks'[r] = asks[r]
    BY <1>2, <2>2 DEF Resolve, Waiting, PageTypeOK, TypeOK
  <2>3. \/ \E q \in Requests : GetArrives(q)
        \/ \E q \in Requests : AskTimesOut(q)
        \/ OnMsgSolve
        \/ asks' = asks
    BY DEF PageNext, ServerStep, PageStep, Click, GetReplies, GetFails, OnMessage, Push,
           BroadcasterReceives, MasterStep, SendUserInfoUpdate, OnMsgSolution,
           OnMsgUserInfoUpdate, WorkerAnswers, WorkerThrows, Tick, allVars, server, vars
  <2>4. ASSUME NEW q \in Requests, AskTimesOut(q)
        PROVE  asks'[r] = asks[r]
    BY <2>2, <2>4 DEF AskTimesOut
  <2>5. CASE OnMsgSolve
    <3>1. Head(masterBox).sender \in Requests
      BY <2>5, HeadType DEF OnMsgSolve, Receive, MsgSolve, PageTypeOK
    <3>2. \E s : Resolve(Head(masterBox).sender, s)
      BY <2>5 DEF OnMsgSolve, ReplySolved, ReplyInProgress, SolveAgain, SolveAfresh,
                  StartSolution
    <3> QED BY <1>2, <2>2, <3>1, <3>2
  <2> QED
    BY <1>2, <2>1, <2>3, <2>4, <2>5
<1> QED
  BY <1>1, <1>2

LEMMA HasClickedStays ==
  ASSUME PageTypeOK, [PageNext]_allVars, NEW u, NEW p, HasClicked(u, p)
  PROVE  HasClicked(u, p)'
<1>1. PICK r \in Requests : gets[r] # NoGet /\ gets[r].user = u /\ gets[r].problem = p
  BY DEF HasClicked
<1>2. gets'[r] # NoGet /\ gets'[r].user = u /\ gets'[r].problem = p
  BY <1>1, GetStep
<1> QED
  BY <1>2 DEF HasClicked

LEMMA MarkedNext ==
  ASSUME PageTypeOK, AsksAreClicks, NewsIsCredited, PushesAreMarked, [PageNext]_allVars
  PROVE  PushesAreMarked'
<1> DEFINE Right(u, s) == /\ s.mine <=> s.by.uuid = u
                          /\ HasClicked(s.by.uuid, s.problemNumber)
<1>1. ASSUME NEW u \in Users, NEW i \in DOMAIN pushes'[u]
      PROVE  \E s \in Solution : s = pushes'[u][i] /\ Right(u, s)
  <2>1. pushes[u] \in Seq(Solution)
    BY DEF PageTypeOK
  <2>2. ASSUME NEW k \in DOMAIN pushes[u], pushes'[u][i] = pushes[u][k]
        PROVE  \E s \in Solution : s = pushes'[u][i] /\ Right(u, s)
    BY <2>1, <2>2, ElementType DEF PushesAreMarked
  <2>3. CASE Push
    <3> DEFINE s == Head(broadcasterBox)
    <3>1. /\ s \in Solution /\ s.mine = FALSE
          /\ \E r \in Requests : HasAsked(r, s.problemNumber, s.by.uuid)
      BY <2>3, TailFacts DEF Push, BroadcasterReceives, PageTypeOK, TypeOK, NewsIsCredited
    <3>2. Marked(u, s) \in Solution
      BY <3>1, AsMineType DEF Marked
    <3>3. /\ Marked(u, s).problemNumber = s.problemNumber
          /\ Marked(u, s).by = s.by
          /\ Marked(u, s).mine <=> s.by.uuid = u
      BY <3>1 DEF Marked, AsMine, Solution
    <3>4. HasClicked(s.by.uuid, s.problemNumber)
      BY <3>1 DEF HasAsked, AsksAreClicks, HasClicked
    <3>5. Right(u, Marked(u, s))
      BY <3>3, <3>4
    <3>6. pushes'[u] = Append(pushes[u], Marked(u, s))
      BY <2>3 DEF Push, IsSentTo, PageTypeOK
    <3> HIDE DEF s
    <3>7. \/ \E k \in DOMAIN pushes[u] : pushes'[u][i] = pushes[u][k]
          \/ pushes'[u][i] = Marked(u, s)
      BY <2>1, <3>2, <3>6, AppendFacts
    <3> HIDE DEF Right
    <3> QED BY <2>2, <3>2, <3>5, <3>7
  <2>4. ASSUME NEW v \in Users, OnMessage(v)
        PROVE  \E k \in DOMAIN pushes[u] : pushes'[u][i] = pushes[u][k]
    <3>1. CASE v = u
      <4>1. pushes[u] # << >> /\ pushes'[u] = Tail(pushes[u])
        BY <2>4, <3>1 DEF OnMessage, PageTypeOK
      <4> QED BY <2>1, <4>1, TailFacts
    <3>2. CASE v # u
      BY <2>4, <3>2 DEF OnMessage, PageTypeOK
    <3> QED BY <3>1, <3>2
  <2>5. pushes' = pushes \/ Push \/ \E v \in Users : OnMessage(v)
    BY DEF PageNext, ServerStep, PageStep, Click, GetArrives, GetReplies, GetFails,
           pageVars, allVars
  <2> HIDE DEF Right
  <2> QED
    BY <2>2, <2>3, <2>4, <2>5
<1>2. ASSUME NEW u \in Users, NEW i \in DOMAIN pushes'[u]
      PROVE  /\ pushes'[u][i].mine <=> pushes'[u][i].by.uuid = u
             /\ HasClicked(pushes[u][i].by.uuid, pushes[u][i].problemNumber)'
  <2>1. PICK s \in Solution : s = pushes'[u][i] /\ Right(u, s)
    BY <1>1
  <2>2. PICK p, v : p = s.problemNumber /\ v = s.by.uuid
    OBVIOUS
  <2>3. HasClicked(v, p) => HasClicked(v, p)'
    BY HasClickedStays
  <2> QED BY <2>1, <2>2, <2>3 DEF HasClicked
<1> QED
  BY <1>2 DEF PushesAreMarked

\* What OwnSolutionsAreMarked says of one button.
IsMarked(u, p) ==
  IF page[u][p].by = Nobody
  THEN HasClicked(u, p)
  ELSE page[u][p].by # u /\ HasClicked(page[u][p].by, p)

LEMMA OwnMarkedNext ==
  ASSUME PageTypeOK, PushesAreMarked, OwnSolutionsAreMarked, [PageNext]_allVars
  PROVE  OwnSolutionsAreMarked'
<1> SUFFICES ASSUME NEW u \in Users, NEW p \in Problems, page'[u][p].class = "solved"
             PROVE  IsMarked(u, p)'
  BY DEF OwnSolutionsAreMarked, IsMarked
<1>1. page[u][p] \in Button
  BY DEF PageTypeOK
<1>2. CASE page'[u][p] = page[u][p]
  <2>1. PICK v : v = page[u][p].by
    OBVIOUS
  <2>2. \A w : HasClicked(w, p) => HasClicked(w, p)'
    BY HasClickedStays
  <2>3. IF v = Nobody THEN HasClicked(u, p)' ELSE v # u /\ HasClicked(v, p)'
    BY <1>2, <2>1, <2>2 DEF OwnSolutionsAreMarked
  <2> QED BY <1>2, <2>1, <2>3 DEF IsMarked, HasClicked
<1>3. ASSUME NEW v \in Users, pushes[v] # << >>, Head(pushes[v]) \in Solution,
             LET s == Head(pushes[v]) IN
                 page' = [page EXCEPT ![v][s.problemNumber] =
                   IF s.answer \in {LONG, NUMERAL}
                   THEN [class |-> "solved", answer |-> TextOf(s),
                         by |-> IF s.mine THEN Nobody ELSE s.by.uuid]
                   ELSE [class |-> "error", answer |-> s.answer, by |-> Nobody]],
             page'[u][p] # page[u][p]
      PROVE  IsMarked(u, p)'
  <2> DEFINE s == Head(pushes[v])
  <2>1. v = u /\ p = s.problemNumber
    BY <1>3 DEF PageTypeOK
  <2>2. page'[u][p].by = IF s.mine THEN Nobody ELSE s.by.uuid
    BY <1>3, <2>1 DEF PageTypeOK
  <2>3. s = pushes[u][1] /\ 1 \in DOMAIN pushes[u]
    BY <1>3, <2>1, TailFacts DEF PageTypeOK
  <2>4. (s.mine <=> s.by.uuid = u) /\ HasClicked(s.by.uuid, p)
    BY <2>1, <2>3 DEF PushesAreMarked
  <2>5. s.by.uuid \in Users
    BY <1>3 DEF Solution, UserInfo
  <2> HIDE DEF s
  <2>6. PICK w \in Users : w = s.by.uuid
    BY <2>5
  <2>7. HasClicked(w, p)'
    BY <2>4, <2>6, HasClickedStays
  <2>8. IF page'[u][p].by = Nobody THEN w = u ELSE w # u /\ page'[u][p].by = w
    BY <2>2, <2>4, <2>6, PageAssumption
  <2> QED BY <2>7, <2>8 DEF IsMarked, HasClicked
<1>4. ASSUME NEW v \in Users, NEW q \in Problems, NEW button,
             page' = [page EXCEPT ![v][q] = button], button.class # "solved"
      PROVE  page'[u][p] = page[u][p]
  BY <1>4 DEF PageTypeOK
<1>5. ASSUME NEW r \in Requests, gets[r] \in Get,
             page' = [page EXCEPT ![gets[r].user][gets[r].problem] =
                        [class |-> "error", answer |-> HTTP_ERROR, by |-> Nobody]]
      PROVE  page'[u][p] = page[u][p]
  <2>1. gets[r].user \in Users /\ gets[r].problem \in Problems
    BY <1>5 DEF Get
  <2> QED BY <1>4, <1>5, <2>1
<1>6. ASSUME NEW v \in Users, NEW q \in Problems,
             page' = [page EXCEPT ![v][q] = Blank("in-progress")]
      PROVE  page'[u][p] = page[u][p]
  BY <1>4, <1>6 DEF Blank
<1> QED
  BY <1>2, <1>3, <1>5, <1>6, ButtonStep

\* "Mark solutions done by me as mine" (ClientHandler.scala:28): whoever else asks
\* for the problem, renames or is late, a solution is shown without a name to users
\* who have clicked on it, and to the others under the name of another who has.
THEOREM OwnAreMarked == PageSpec => []OwnSolutionsAreMarked
<1> DEFINE IInv == SolveInv /\ CreditedToAnAsker /\ MarkInv
<1>1. PageInit => IInv
  <2> SUFFICES ASSUME PageInit PROVE IInv
    OBVIOUS
  <2>1. SolveInv
    BY SolveInvInit DEF PageInit
  <2>2. CreditedToAnAsker /\ AsksAreClicks /\ NewsIsCredited /\ PushesAreMarked
    BY DEF PageInit, Init, CreditedToAnAsker, AsksAreClicks, NewsIsCredited,
           PushesAreMarked
  <2>3. OwnSolutionsAreMarked
    BY DEF PageInit, Blank, OwnSolutionsAreMarked
  <2> QED BY <2>1, <2>2, <2>3 DEF MarkInv
<1>2. PageTypeOK /\ IInv /\ [PageNext]_allVars => IInv'
  <2> SUFFICES ASSUME PageTypeOK, IInv, [PageNext]_allVars PROVE IInv'
    OBVIOUS
  <2>1. TypeOK /\ [Next]_vars
    BY ServerMoves DEF PageTypeOK
  <2>2. SolveInv'
    BY <2>1, SolveInvNext
  <2>3. CreditedToAnAsker'
    BY <2>1, CreditNext DEF SolveInv
  <2>4. NewsIsCredited'
    BY <2>1, CreditedNext DEF SolveInv, MarkInv
  <2>5. AsksAreClicks'
    BY ClicksNext DEF MarkInv
  <2>6. PushesAreMarked'
    BY MarkedNext DEF MarkInv
  <2>7. OwnSolutionsAreMarked'
    BY OwnMarkedNext DEF MarkInv
  <2> QED BY <2>2, <2>3, <2>4, <2>5, <2>6, <2>7 DEF MarkInv
<1>3. IInv => OwnSolutionsAreMarked
  BY DEF MarkInv
<1> QED
  BY <1>1, <1>2, <1>3, PageTypeCorrect, PTL DEF PageSpec

-----------------------------------------------------------------------------
(* Orange buttons.                                                         *)

\* What will change the orange button of u for p, part by part.
IsClicked(u, p) ==
  \E r \in Requests : InPhase(r, "sent") /\ gets[r].user = u /\ gets[r].problem = p

IsAskedFor(p) ==
  \E i \in DOMAIN masterBox : masterBox[i].type = "MsgSolve" /\ IsOf(p, masterBox[i])

IsNews(p) == \E i \in DOMAIN broadcasterBox : IsOf(p, broadcasterBox[i])

IsPushed(u, p) == \E i \in DOMAIN pushes[u] : IsOf(p, pushes[u][i])

\* In a box, what is there stays but for the first item of a tail.
LEMMA StaysInBox ==
  ASSUME NEW S, NEW box \in Seq(S), NEW i \in DOMAIN box
  PROVE  /\ \A m \in S : \E k \in DOMAIN Append(box, m) : Append(box, m)[k] = box[i]
         /\ i # 1 => \E k \in DOMAIN Tail(box) : Tail(box)[k] = box[i]
         /\ i = 1 => Head(box) = box[i] /\ box # << >>
<1>1. ASSUME NEW m \in S
      PROVE  \E k \in DOMAIN Append(box, m) : Append(box, m)[k] = box[i]
  BY AppendFacts
<1>2. ASSUME i # 1
      PROVE  \E k \in DOMAIN Tail(box) : Tail(box)[k] = box[i]
  <2>1. i - 1 \in DOMAIN Tail(box) /\ Tail(box)[i - 1] = box[i]
    BY <1>2
  <2> QED BY <2>1
<1>3. i = 1 => Head(box) = box[i] /\ box # << >>
  OBVIOUS
<1> QED
  BY <1>1, <1>2, <1>3

LEMMA ClickedStep ==
  ASSUME PageTypeOK, [PageNext]_allVars, NEW u \in Users, NEW p \in Problems,
         IsClicked(u, p), page'[u][p].class = "in-progress"
  PROVE  IsClicked(u, p)' \/ IsAskedFor(p)'
<1>1. PICK r \in Requests :
        InPhase(r, "sent") /\ gets[r].user = u /\ gets[r].problem = p
  BY DEF IsClicked
<1>2. CASE gets'[r] = gets[r]
  BY <1>1, <1>2 DEF IsClicked, InPhase
<1>3. CASE GetArrives(r)
  <2>1. PICK name \in Names : Index(r, p, [uuid |-> u, name |-> name])
    BY <1>1, <1>3 DEF GetArrives
  <2> DEFINE m == [type |-> "MsgSolve", problemNumber |-> p,
                   by |-> [uuid |-> u, name |-> name], sender |-> r]
  <2>2. m \in MasterMessage
    BY DEF MasterMessage, MsgSolve, UserInfo
  <2>3. masterBox' = Append(masterBox, m) /\ masterBox \in Seq(MasterMessage)
    BY <2>1 DEF Index, PageTypeOK, TypeOK
  <2>4. Len(masterBox) + 1 \in DOMAIN masterBox' /\ masterBox'[Len(masterBox) + 1] = m
    BY <2>2, <2>3, AppendFacts
  <2> QED BY <2>4 DEF IsAskedFor, IsOf
<1>4. CASE GetFails(r)
  <2>1. page'[u][p] = [class |-> "error", answer |-> HTTP_ERROR, by |-> Nobody]
    BY <1>1, <1>4 DEF GetFails, ProblemError, PageTypeOK
  <2> QED BY <2>1
<1>5. ASSUME NEW q \in Requests, NEW v \in Users, NEW n \in Problems, Click(q, v, n)
      PROVE  gets'[r] = gets[r]
  BY <1>1, <1>5 DEF Click, InPhase, PageTypeOK
<1>6. ASSUME NEW q \in Requests, q # r, GetArrives(q) \/ GetReplies(q) \/ GetFails(q)
      PROVE  gets'[r] = gets[r]
  BY <1>6 DEF GetArrives, GetReplies, GetFails, PageTypeOK
<1>7. ~GetReplies(r)
  BY <1>1 DEF GetReplies, InPhase
<1>8. \/ \E q \in Requests : GetArrives(q) \/ GetReplies(q) \/ GetFails(q)
      \/ \E q \in Requests, v \in Users, n \in Problems : Click(q, v, n)
      \/ gets' = gets
  BY DEF PageNext, ServerStep, PageStep, Push, OnMessage, pageVars, allVars
<1> QED
  BY <1>2, <1>3, <1>4, <1>5, <1>6, <1>7, <1>8

LEMMA AskedStep ==
  ASSUME NoFailures, TypeOK, EntriesAreOwn, InHandInv, [Next]_vars,
         NEW p \in Problems, IsAskedFor(p)
  PROVE  IsAskedFor(p)' \/ BeingSolved(p)' \/ IsNews(p)'
<1>1. PICK i \in DOMAIN masterBox : masterBox[i].type = "MsgSolve" /\ IsOf(p, masterBox[i])
  BY DEF IsAskedFor
<1>2. masterBox \in Seq(MasterMessage)
  BY DEF TypeOK
<1>3. CASE \E k \in DOMAIN masterBox' : masterBox'[k] = masterBox[i]
  BY <1>1, <1>3 DEF IsAskedFor, IsOf
<1>4. CASE OnMsgSolve /\ i = 1
  <2> DEFINE m == Head(masterBox)
  <2>1. m.problemNumber = p
    BY <1>1, <1>2, <1>4, StaysInBox DEF IsOf
  <2>2. CASE ReplySolved(m)
    <3>1. /\ solutions[p] \in Solution /\ solutions[p].problemNumber = p
          /\ broadcasterBox' = Append(broadcasterBox, solutions[p])
      BY <2>1, <2>2 DEF ReplySolved, InCache, Broadcast, TypeOK, EntriesAreOwn
    <3>2. /\ Len(broadcasterBox) + 1 \in DOMAIN broadcasterBox'
          /\ broadcasterBox'[Len(broadcasterBox) + 1] = solutions[p]
      BY <3>1, AppendFacts DEF TypeOK
    <3> QED BY <3>1, <3>2 DEF IsNews, IsOf
  <2>3. CASE ReplyInProgress(m)
    <3>1. BeingSolved(p)
      BY <2>1, <2>3 DEF ReplyInProgress, InCache, InHandInv, EntriesInHand
    <3>2. ~OnMsgSolution
      BY <1>4 DEF OnMsgSolve, OnMsgSolution, Receive
    <3> QED BY <3>1, <3>2, BeingSolvedStep
  <2>4. CASE StartSolution(m)
    <3>1. solutions'[p] = Start(p, m.by, now)
      BY <2>1, <2>4 DEF StartSolution, TypeOK
    <3>2. m.by \in UserInfo
      BY <1>4, HeadType DEF OnMsgSolve, Receive, MsgSolve
    <3>3. Start(p, m.by, now) # NoSolution /\ ~IsSolved(Start(p, m.by, now))
      <4>1. Start(p, m.by, now) \in Solution
        BY <3>2, StartType DEF TypeOK
      <4>2. ~IsSolved(Start(p, m.by, now))
        BY DEF Start, Unfinished, IsSolved, IN_PROGRESS, LONG
      <4> QED BY <4>1, <4>2, MasterAssumption
    <3>4. EntriesInHand'
      BY InHandNext DEF InHandInv
    <3> QED BY <3>1, <3>3, <3>4 DEF EntriesInHand, IsSolved
  <2> QED BY <1>4, <2>2, <2>3, <2>4 DEF OnMsgSolve, SolveAgain, SolveAfresh
<1>5. ASSUME masterBox # << >>, masterBox' = Tail(masterBox), i = 1
      PROVE  OnMsgSolve
  <2>1. ASSUME NEW m \in MasterMessage
        PROVE  Tail(masterBox) # Append(masterBox, m) /\ Tail(masterBox) # masterBox
    BY <1>2, <1>5
  <2>2. ~OnMsgSolution /\ ~OnMsgUserInfoUpdate
    BY <1>1, <1>2, <1>5, StaysInBox DEF OnMsgSolution, OnMsgUserInfoUpdate, Receive
  <2>3. ASSUME NEW r \in Requests, NEW q \in Problems, NEW by \in UserInfo, Index(r, q, by)
        PROVE  FALSE
    <3>1. [type |-> "MsgSolve", problemNumber |-> q, by |-> by, sender |-> r]
            \in MasterMessage
      BY DEF MasterMessage, MsgSolve
    <3> QED BY <1>5, <2>1, <2>3, <3>1 DEF Index
  <2>4. ~\E userInfo \in UserInfo : SendUserInfoUpdate(userInfo)
    BY <1>5, <2>1, SentNotSolve
  <2>5. ~\E w \in Workers : WorkerAnswers(w)
    BY <1>5, <2>1, SentNotSolve
  <2>6. masterBox' # masterBox
    <3>1. masterBox[i] \in MasterMessage
      BY <1>2, ElementType
    <3> QED BY <1>5, <2>1, <3>1
  <2> QED
    BY <2>2, <2>3, <2>4, <2>5, <2>6
       DEF Next, MasterStep, AskTimesOut, WorkerThrows, BroadcasterReceives, Tick, vars
<1>6. ASSUME NEW m \in MasterMessage, masterBox' = Append(masterBox, m)
      PROVE  \E k \in DOMAIN masterBox' : masterBox'[k] = masterBox[i]
  BY <1>2, <1>6, StaysInBox
<1>7. ASSUME masterBox # << >>, masterBox' = Tail(masterBox), i # 1
      PROVE  \E k \in DOMAIN masterBox' : masterBox'[k] = masterBox[i]
  BY <1>2, <1>7, StaysInBox
<1> QED
  BY <1>3, <1>4, <1>5, <1>6, <1>7, MailStep

LEMMA SolvingStep ==
  ASSUME NoFailures, TypeOK, AnswersAreExpected, EntriesAreOwn, [Next]_vars,
         NEW p \in Problems, BeingSolved(p)
  PROVE  BeingSolved(p)' \/ IsNews(p)'
<1> DEFINE m == Head(masterBox)
<1>1. CASE OnMsgSolution /\ m.problemNumber = p
  <2>1. /\ masterBox # << >> /\ m.type = "MsgSolution" /\ m \in MsgSolution
        /\ m = masterBox[1] /\ 1 \in DOMAIN masterBox
    BY <1>1, HeadType, TailFacts DEF OnMsgSolution, Receive, TypeOK
  <2>2. solutions[p] # NoSolution /\ solutions[p] \in Solution
    BY <1>1, <2>1 DEF AnswersAreExpected, TypeOK
  <2>3. Finished(m) \in Solution /\ Finished(m).problemNumber = p
    <3>1. Finished(m) \in Solution
      BY <1>1, <2>1, <2>2, FinishType DEF Finished, MsgSolution, TypeOK
    <3>2. solutions[p].problemNumber = p
      BY <2>2 DEF EntriesAreOwn
    <3> QED
      BY <1>1, <2>2, <3>1, <3>2 DEF Finished, Complete, WithViaLambda, Solution
  <2>4. broadcasterBox' = Append(broadcasterBox, Finished(m))
    BY <1>1, <2>2 DEF OnMsgSolution, Broadcast
  <2>5. /\ Len(broadcasterBox) + 1 \in DOMAIN broadcasterBox'
        /\ broadcasterBox'[Len(broadcasterBox) + 1] = Finished(m)
    BY <2>3, <2>4, AppendFacts DEF TypeOK
  <2> QED BY <2>3, <2>5 DEF IsNews, IsOf
<1> QED
  BY <1>1, BeingSolvedStep

LEMMA NewsStep ==
  ASSUME PageTypeOK, EntriesAreOwn, [PageNext]_allVars, NEW u \in Users,
         NEW p \in Problems, IsNews(p)
  PROVE  IsNews(p)' \/ IsPushed(u, p)'
<1>1. PICK i \in DOMAIN broadcasterBox : IsOf(p, broadcasterBox[i])
  BY DEF IsNews
<1>2. broadcasterBox \in Seq(Solution)
  BY DEF PageTypeOK, TypeOK
<1>3. CASE \E k \in DOMAIN broadcasterBox' : broadcasterBox'[k] = broadcasterBox[i]
  BY <1>1, <1>3 DEF IsNews, IsOf
<1>4. CASE Push
  <2> DEFINE s == Head(broadcasterBox)
  <2>1. broadcasterBox # << >> /\ broadcasterBox' = Tail(broadcasterBox)
    BY <1>4 DEF Push, BroadcasterReceives
  <2>2. CASE i = 1
    <3>1. s = broadcasterBox[i] /\ s \in Solution
      BY <1>2, <2>2, ElementType, StaysInBox
    <3>2. /\ Marked(u, s) \in Solution
          /\ Marked(u, s).problemNumber = s.problemNumber
      <4>1. Marked(u, s) \in Solution
        BY <3>1, AsMineType DEF Marked
      <4> QED BY <3>1, <4>1 DEF Marked, AsMine, Solution
    <3>3. pushes'[u] = Append(pushes[u], Marked(u, s)) /\ pushes[u] \in Seq(Solution)
      BY <1>4 DEF Push, IsSentTo, PageTypeOK
    <3>4. /\ Len(pushes[u]) + 1 \in DOMAIN pushes'[u]
          /\ pushes'[u][Len(pushes[u]) + 1] = Marked(u, s)
      BY <3>2, <3>3, AppendFacts
    <3> QED BY <1>1, <3>1, <3>2, <3>4 DEF IsPushed, IsOf
  <2>3. CASE i # 1
    BY <1>2, <1>3, <2>1, <2>3, StaysInBox
  <2> QED BY <2>2, <2>3
<1>5. ASSUME NEW s \in Solution, Broadcast(s)
      PROVE  \E k \in DOMAIN broadcasterBox' : broadcasterBox'[k] = broadcasterBox[i]
  BY <1>2, <1>5, StaysInBox DEF Broadcast
<1>6. CASE OnMsgSolve
  <2> DEFINE m == Head(masterBox)
  <2>1. m.problemNumber \in Problems
    BY <1>6, HeadType DEF OnMsgSolve, Receive, MsgSolve, PageTypeOK
  <2>2. CASE ReplySolved(m)
    BY <1>3, <1>5, <2>1, <2>2 DEF ReplySolved, InCache, PageTypeOK, TypeOK
  <2>3. CASE UNCHANGED broadcasterBox
    BY <1>3, <2>3
  <2> QED
    BY <1>6, <2>2, <2>3 DEF OnMsgSolve, ReplyInProgress, SolveAgain, SolveAfresh,
                            StartSolution
<1>7. CASE OnMsgSolution
  <2> DEFINE m == Head(masterBox)
  <2>1. m \in MsgSolution
    BY <1>7, HeadType DEF OnMsgSolution, Receive, PageTypeOK
  <2>2. CASE solutions[m.problemNumber] # NoSolution
    <3>1. Finished(m) \in Solution
      BY <2>1, <2>2, FinishType DEF Finished, MsgSolution, PageTypeOK, TypeOK
    <3> QED BY <1>3, <1>5, <1>7, <2>2, <3>1 DEF OnMsgSolution
  <2>3. CASE solutions[m.problemNumber] = NoSolution
    BY <1>3, <1>7, <2>3 DEF OnMsgSolution
  <2> QED BY <2>2, <2>3
<1>8. Push \/ OnMsgSolve \/ OnMsgSolution \/ UNCHANGED broadcasterBox
  BY DEF PageNext, ServerStep, PageStep, Click, GetArrives, GetReplies, GetFails,
         OnMessage, Index, MasterStep, AskTimesOut, SendUserInfoUpdate,
         OnMsgUserInfoUpdate, WorkerAnswers, WorkerThrows, Tick, allVars, server, vars
<1> QED
  BY <1>3, <1>4, <1>6, <1>7, <1>8

LEMMA PushedStep ==
  ASSUME PageTypeOK, [PageNext]_allVars, NEW u \in Users, NEW p \in Problems,
         IsPushed(u, p), page'[u][p].class = "in-progress"
  PROVE  IsPushed(u, p)'
<1>1. PICK i \in DOMAIN pushes[u] : IsOf(p, pushes[u][i])
  BY DEF IsPushed
<1>2. pushes[u] \in Seq(Solution)
  BY DEF PageTypeOK
<1>3. CASE \E k \in DOMAIN pushes'[u] : pushes'[u][k] = pushes[u][i]
  BY <1>1, <1>3 DEF IsPushed, IsOf
<1>4. CASE Push
  <2> DEFINE s == Head(broadcasterBox)
  <2>1. s \in Solution
    BY <1>4, TailFacts DEF Push, BroadcasterReceives, PageTypeOK, TypeOK
  <2>2. Marked(u, s) \in Solution
    BY <2>1, AsMineType DEF Marked
  <2>3. pushes'[u] = Append(pushes[u], Marked(u, s))
    BY <1>4 DEF Push, IsSentTo, PageTypeOK
  <2> QED BY <1>2, <1>3, <2>2, <2>3, StaysInBox
<1>5. CASE OnMessage(u)
  <2> DEFINE s == Head(pushes[u])
  <2>1. pushes[u] # << >> /\ pushes'[u] = Tail(pushes[u])
    BY <1>5 DEF OnMessage, PageTypeOK
  <2>2. CASE i = 1
    <3>1. s.problemNumber = p
      BY <1>1, <1>2, <2>2, StaysInBox DEF IsOf
    <3>2. \/ ProblemSuccess(u, s)
          \/ ProblemError(u, p, s.answer)
      BY <1>5, <3>1 DEF OnMessage, ProcessSolution, IsAnsweredNumerically, IsNaN, FUNCTION,
                        LONG, NUMERAL
    <3>3. page'[u][p].class \in {"solved", "error"}
      BY <3>1, <3>2 DEF ProblemSuccess, ProblemError, PageTypeOK
    <3> QED BY <3>3
  <2>3. CASE i # 1
    <3>1. \E k \in DOMAIN Tail(pushes[u]) : Tail(pushes[u])[k] = pushes[u][i]
      BY <1>2, <2>3, StaysInBox
    <3>2. \E k \in DOMAIN pushes'[u] : pushes'[u][k] = pushes[u][i]
      BY <2>1, <3>1
    <3> QED BY <1>3, <3>2
  <2> QED BY <2>2, <2>3
<1>6. ASSUME NEW v \in Users, v # u, OnMessage(v)
      PROVE  pushes'[u] = pushes[u]
  BY <1>6 DEF OnMessage, PageTypeOK
<1>7. pushes' = pushes \/ Push \/ \E v \in Users : OnMessage(v)
  BY DEF PageNext, ServerStep, PageStep, Click, GetArrives, GetReplies, GetFails,
         pageVars, allVars
<1> QED
  BY <1>3, <1>4, <1>5, <1>6, <1>7

LEMMA OnItsWayParts ==
  ASSUME NEW u, NEW p
  PROVE  IsOnItsWay(u, p) <=> \/ IsClicked(u, p) \/ IsAskedFor(p) \/ BeingSolved(p)
                              \/ IsNews(p) \/ IsPushed(u, p)
  BY DEF IsOnItsWay, IsClicked, IsAskedFor, IsNews, IsPushed

LEMMA OnItsWayPartsNext ==
  ASSUME NEW u, NEW p
  PROVE  IsOnItsWay(u, p)' <=> \/ IsClicked(u, p)' \/ IsAskedFor(p)' \/ BeingSolved(p)'
                               \/ IsNews(p)' \/ IsPushed(u, p)'
  BY DEF IsOnItsWay, IsClicked, IsAskedFor, IsNews, IsPushed

LEMMA OrangeNext ==
  ASSUME NoFailures, PageTypeOK, AnswersAreExpected, EntriesAreOwn, InHandInv,
         OrangeIsOnItsWay, [PageNext]_allVars
  PROVE  OrangeIsOnItsWay'
<1> SUFFICES ASSUME NEW u \in Users, NEW p \in Problems,
                    page'[u][p].class = "in-progress"
             PROVE  IsOnItsWay(u, p)'
  BY DEF OrangeIsOnItsWay
<1>1. TypeOK /\ [Next]_vars
  BY ServerMoves DEF PageTypeOK
<1>2. CASE page[u][p].class = "in-progress"
  <2>1. IsOnItsWay(u, p)
    BY <1>2 DEF OrangeIsOnItsWay
  <2> QED
    BY <1>1, <2>1, OnItsWayParts, OnItsWayPartsNext, ClickedStep, AskedStep, SolvingStep,
       NewsStep, PushedStep
<1>3. ASSUME NEW r \in Requests, NEW v \in Users, NEW q \in Problems, Click(r, v, q),
             page' = [page EXCEPT ![v][q] = Blank("in-progress")],
             page[u][p].class # "in-progress"
      PROVE  IsOnItsWay(u, p)'
  <2>1. v = u /\ q = p
    BY <1>3 DEF PageTypeOK
  <2>2. gets'[r] = [user |-> u, problem |-> p, phase |-> "sent"]
    BY <1>3, <2>1 DEF Click, PageTypeOK
  <2>3. gets'[r] # NoGet
    BY <2>2, PageAssumption DEF Get
  <2>4. IsClicked(u, p)'
    BY <2>2, <2>3 DEF IsClicked, InPhase
  <2> QED BY <2>4, OnItsWayPartsNext
<1>4. ASSUME NEW v \in Users, NEW q \in Problems, NEW button,
             page' = [page EXCEPT ![v][q] = button], button.class # "in-progress"
      PROVE  page[u][p].class = "in-progress"
  BY <1>4 DEF PageTypeOK
<1>5. ASSUME NEW r \in Requests, gets[r] \in Get,
             page' = [page EXCEPT ![gets[r].user][gets[r].problem] =
                        [class |-> "error", answer |-> HTTP_ERROR, by |-> Nobody]]
      PROVE  page[u][p].class = "in-progress"
  <2>1. gets[r].user \in Users /\ gets[r].problem \in Problems
    BY <1>5 DEF Get
  <2> QED BY <1>4, <1>5, <2>1
<1>6. ASSUME NEW v \in Users, NEW s \in Solution,
             page' = [page EXCEPT ![v][s.problemNumber] =
                   IF s.answer \in {LONG, NUMERAL}
                   THEN [class |-> "solved", answer |-> TextOf(s),
                         by |-> IF s.mine THEN Nobody ELSE s.by.uuid]
                   ELSE [class |-> "error", answer |-> s.answer, by |-> Nobody]]
      PROVE  page[u][p].class = "in-progress"
  <2>1. s.problemNumber \in Problems
    BY DEF Solution
  <2> QED BY <1>4, <1>6, <2>1
<1> QED
  BY <1>2, <1>3, <1>5, <1>6, ButtonStep

\* "The button turns orange while the solution is in progress"
\* (what_is_this.scala.html:23): if no attempt fails, no button stays orange with
\* nothing under way for it, for any number of pages and workers, whatever becomes
\* of the HTTP requests, with caching on or off.
THEOREM OrangeOnItsWay ==
  ASSUME NoFailures
  PROVE  PageSpec => []OrangeIsOnItsWay
<1> DEFINE IInv == /\ SolveInv /\ AnswersAreExpected /\ InHandInv /\ OrangeIsOnItsWay
<1>1. PageInit => IInv
  <2> SUFFICES ASSUME PageInit PROVE IInv
    OBVIOUS
  <2>1. SolveInv
    BY SolveInvInit DEF PageInit
  <2>2. AnswersAreExpected
    BY ExpectedInit DEF PageInit
  <2>3. InHandInv
    BY DEF PageInit, Init, InHandInv, AnswersAreLong, EntriesInHand
  <2>4. OrangeIsOnItsWay
    BY DEF PageInit, Blank, OrangeIsOnItsWay
  <2> QED BY <2>1, <2>2, <2>3, <2>4
<1>2. PageTypeOK /\ IInv /\ [PageNext]_allVars => IInv'
  <2> SUFFICES ASSUME PageTypeOK, IInv, [PageNext]_allVars PROVE IInv'
    OBVIOUS
  <2>1. TypeOK /\ [Next]_vars
    BY ServerMoves DEF PageTypeOK
  <2>2. SolveInv'
    BY <2>1, SolveInvNext
  <2>3. AnswersAreExpected'
    BY <2>1, ExpectedNext
  <2>4. InHandInv'
    BY <2>1, InHandNext
  <2>5. OrangeIsOnItsWay'
    BY OrangeNext DEF SolveInv
  <2> QED BY <2>2, <2>3, <2>4, <2>5
<1>3. IInv => OrangeIsOnItsWay
  OBVIOUS
<1> QED
  BY <1>1, <1>2, <1>3, PageTypeCorrect, PTL DEF PageSpec

-----------------------------------------------------------------------------
(* Numbers on the page.                                                    *)

NewsAreLong == \A i \in DOMAIN broadcasterBox : broadcasterBox[i].answer = LONG

PushesAreLong ==
  \A u \in Users : \A i \in DOMAIN pushes[u] : pushes[u][i].answer = LONG

LEMMA NewsLongNext ==
  ASSUME TypeOK, AnswersAreLong, NewsAreLong, [Next]_vars
  PROVE  NewsAreLong'
<1> DEFINE m == Head(masterBox)
<1> SUFFICES ASSUME NEW i \in DOMAIN broadcasterBox'
             PROVE  broadcasterBox'[i].answer = LONG
  BY DEF NewsAreLong
<1>1. ASSUME NEW s \in Solution, Broadcast(s), s.answer = LONG
      PROVE  broadcasterBox'[i].answer = LONG
  <2>1. \/ \E k \in DOMAIN broadcasterBox : broadcasterBox'[i] = broadcasterBox[k]
        \/ broadcasterBox'[i] = s
    BY <1>1, AppendFacts DEF Broadcast, TypeOK
  <2> QED BY <1>1, <2>1 DEF NewsAreLong
<1>2. CASE OnMsgSolve
  <2>1. m.problemNumber \in Problems
    BY <1>2, HeadType DEF OnMsgSolve, Receive, MsgSolve
  <2>2. CASE ReplySolved(m)
    BY <1>1, <2>1, <2>2 DEF ReplySolved, InCache, IsSolved, TypeOK
  <2>3. CASE UNCHANGED broadcasterBox
    BY <2>3 DEF NewsAreLong
  <2> QED
    BY <1>2, <2>2, <2>3 DEF OnMsgSolve, ReplyInProgress, SolveAgain, SolveAfresh,
                            StartSolution
<1>3. CASE OnMsgSolution
  <2>1. m \in MsgSolution /\ m.answer = LONG
    BY <1>3, HeadType, TailFacts DEF OnMsgSolution, Receive, AnswersAreLong, TypeOK
  <2>2. CASE solutions[m.problemNumber] # NoSolution
    <3>1. solutions[m.problemNumber] \in Solution
      BY <2>1, <2>2 DEF MsgSolution, TypeOK
    <3>2. Finished(m) \in Solution
      BY <2>1, <3>1, FinishType DEF Finished, MsgSolution, TypeOK
    <3>3. Finished(m).answer = LONG
      BY <2>1, <3>1 DEF Finished, Complete, WithViaLambda, Solution
    <3> QED BY <1>1, <1>3, <2>2, <3>2, <3>3 DEF OnMsgSolution
  <2>3. CASE solutions[m.problemNumber] = NoSolution
    BY <1>3, <2>3 DEF OnMsgSolution, NewsAreLong
  <2> QED BY <2>2, <2>3
<1>4. CASE BroadcasterReceives
  BY <1>4, TailFacts DEF BroadcasterReceives, NewsAreLong, TypeOK
<1>5. \/ OnMsgSolve \/ OnMsgSolution \/ BroadcasterReceives
      \/ UNCHANGED broadcasterBox
  BY DEF Next, MasterStep, Index, AskTimesOut, SendUserInfoUpdate,
         OnMsgUserInfoUpdate, WorkerAnswers, WorkerThrows, Tick, vars
<1> QED
  BY <1>2, <1>3, <1>4, <1>5 DEF NewsAreLong

LEMMA PushesLongNext ==
  ASSUME PageTypeOK, NewsAreLong, PushesAreLong, [PageNext]_allVars
  PROVE  PushesAreLong'
<1> SUFFICES ASSUME NEW u \in Users, NEW i \in DOMAIN pushes'[u]
             PROVE  pushes'[u][i].answer = LONG
  BY DEF PushesAreLong
<1>1. pushes[u] \in Seq(Solution)
  BY DEF PageTypeOK
<1>2. CASE Push
  <2> DEFINE s == Head(broadcasterBox)
  <2>1. s \in Solution /\ s.answer = LONG
    BY <1>2, TailFacts DEF Push, BroadcasterReceives, PageTypeOK, TypeOK, NewsAreLong
  <2>2. Marked(u, s) \in Solution /\ Marked(u, s).answer = LONG
    <3>1. Marked(u, s) \in Solution
      BY <2>1, AsMineType DEF Marked
    <3> QED BY <2>1, <3>1 DEF Marked, AsMine, Solution
  <2>3. pushes'[u] = Append(pushes[u], Marked(u, s))
    BY <1>2 DEF Push, IsSentTo, PageTypeOK
  <2> QED BY <1>1, <2>2, <2>3, AppendFacts DEF PushesAreLong
<1>3. ASSUME NEW v \in Users, OnMessage(v)
      PROVE  pushes'[u][i].answer = LONG
  <2>1. CASE v = u
    <3>1. pushes[u] # << >> /\ pushes'[u] = Tail(pushes[u])
      BY <1>3, <2>1 DEF OnMessage, PageTypeOK
    <3> QED BY <1>1, <3>1, TailFacts DEF PushesAreLong
  <2>2. CASE v # u
    BY <1>3, <2>2 DEF OnMessage, PageTypeOK, PushesAreLong
  <2> QED BY <2>1, <2>2
<1>4. pushes' = pushes \/ Push \/ \E v \in Users : OnMessage(v)
  BY DEF PageNext, ServerStep, PageStep, Click, GetArrives, GetReplies, GetFails,
         pageVars, allVars
<1> QED
  BY <1>2, <1>3, <1>4 DEF PushesAreLong

\* With no failing attempt, what is on its way to the pages is a number.
LongInv == InHandInv /\ NewsAreLong /\ PushesAreLong

LEMMA LongInvariant ==
  ASSUME NoFailures
  PROVE  PageSpec => []LongInv
<1>1. PageInit => LongInv
  BY DEF PageInit, Init, LongInv, InHandInv, AnswersAreLong, EntriesInHand, NewsAreLong,
         PushesAreLong
<1>2. PageTypeOK /\ LongInv /\ [PageNext]_allVars => LongInv'
  <2> SUFFICES ASSUME PageTypeOK, LongInv, [PageNext]_allVars PROVE LongInv'
    OBVIOUS
  <2>1. TypeOK /\ [Next]_vars
    BY ServerMoves DEF PageTypeOK
  <2>2. InHandInv'
    BY <2>1, InHandNext DEF LongInv
  <2>3. NewsAreLong'
    BY <2>1, NewsLongNext DEF LongInv, InHandInv
  <2>4. PushesAreLong'
    BY PushesLongNext DEF LongInv
  <2> QED BY <2>2, <2>3, <2>4 DEF LongInv
<1> QED
  BY <1>1, <1>2, PageTypeCorrect, PTL DEF PageSpec

\* Who takes a number off the page.
LEMMA NumberStep ==
  ASSUME PageTypeOK, PushesAreLong, [PageNext]_allVars, NEW u \in Users, NEW p \in Problems,
         page[u][p].answer \in Numbers, page'[u][p].answer \notin Numbers
  PROVE  \/ page'[u][p] = Blank("in-progress")
         \/ HttpFails /\ page'[u][p].answer = HTTP_ERROR
<1>1. ASSUME NEW v \in Users, NEW q \in Problems, NEW button,
             page' = [page EXCEPT ![v][q] = button]
      PROVE  page'[u][p] = button
  BY <1>1 DEF PageTypeOK
<1>2. ASSUME NEW r \in Requests, GetFails(r), gets[r] \in Get,
             page' = [page EXCEPT ![gets[r].user][gets[r].problem] =
                            [class |-> "error", answer |-> HTTP_ERROR, by |-> Nobody]]
      PROVE  HttpFails /\ page'[u][p].answer = HTTP_ERROR
  <2>1. gets[r].user \in Users /\ gets[r].problem \in Problems
    BY <1>2 DEF Get
  <2>2. page'[u][p] = [class |-> "error", answer |-> HTTP_ERROR, by |-> Nobody]
    BY <1>1, <1>2, <2>1
  <2> QED BY <1>2, <2>2 DEF GetFails
<1>3. ASSUME NEW v \in Users, pushes[v] # << >>, Head(pushes[v]) \in Solution,
             LET s == Head(pushes[v]) IN
                 page' = [page EXCEPT ![v][s.problemNumber] =
                   IF s.answer \in {LONG, NUMERAL}
                   THEN [class |-> "solved", answer |-> TextOf(s),
                         by |-> IF s.mine THEN Nobody ELSE s.by.uuid]
                   ELSE [class |-> "error", answer |-> s.answer, by |-> Nobody]]
      PROVE  FALSE
  <2> DEFINE s == Head(pushes[v])
  <2>1. s.problemNumber \in Problems /\ s.answer = LONG
    BY <1>3, TailFacts DEF PushesAreLong, PageTypeOK, Solution
  <2>2. page'[u][p] = [class |-> "solved", answer |-> TextOf(s),
                       by |-> IF s.mine THEN Nobody ELSE s.by.uuid]
    BY <1>1, <1>3, <2>1
  <2>3. TextOf(s) \in Numbers
    BY <2>1 DEF TextOf, Numbers
  <2> QED BY <2>2, <2>3
<1> QED
  BY <1>1, <1>2, <1>3, ButtonStep

\* If no attempt fails, nothing but a click or a failed request takes a number off
\* the page, in whatever order requests, responses and pushes of any number of
\* users, clicks and attempts come.
THEOREM NumbersOutlive ==
  ASSUME NoFailures
  PROVE  PageSpec => NumbersOutliveResponses
<1>1. PageTypeOK /\ LongInv /\ [PageNext]_allVars =>
        [\A u \in Users, p \in Problems :
           page[u][p].answer \in Numbers /\ page'[u][p].answer \notin Numbers =>
             page'[u][p] = Blank("in-progress") \/ page'[u][p].answer = HTTP_ERROR]_allVars
  BY NumberStep DEF LongInv
<1> QED
  BY <1>1, LongInvariant, PageTypeCorrect, PTL DEF PageSpec, NumbersOutliveResponses

\* "If this problem is already solved with a numeric response then we ignore this
\* new solution" (euler.js:29) is only broken by failures, of attempts or of
\* requests: with neither, only a click takes a number off the page.
THEOREM NumbersStayWithoutFailures ==
  ASSUME NoFailures, HttpFails = FALSE
  PROVE  PageSpec => NumbersStay
<1>1. PageTypeOK /\ LongInv /\ [PageNext]_allVars =>
        [\A u \in Users, p \in Problems :
           page[u][p].answer \in Numbers /\ page'[u][p].answer \notin Numbers =>
             page'[u][p].class = "in-progress"]_allVars
  BY NumberStep DEF LongInv, Blank
<1> QED
  BY <1>1, LongInvariant, PageTypeCorrect, PTL DEF PageSpec, NumbersStay

-----------------------------------------------------------------------------
(* The server under the pages.                                             *)

\* Behind its pages the server behaves as EulerProblemMaster alone: all that is
\* proved of Spec holds of the whole application.
LEMMA PagesKeepTheServer == PageSpec => Spec
<1>1. PageInit => Init
  BY DEF PageInit
<1>2. PageTypeOK /\ [PageNext]_allVars => [Next]_vars
  BY ServerMoves
<1> QED
  BY <1>1, <1>2, PageTypeCorrect, PTL DEF PageSpec, Spec

\* One reply per request, credit to who asked, news of every end of an attempt:
\* the simple service is what the users of any number of pages deal with.
THEOREM ApplicationImplementsService == PageSpec => ImplementsService
  BY PagesKeepTheServer, MasterImplementsService, PTL
=============================================================================
