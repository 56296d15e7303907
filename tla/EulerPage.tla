----------------------------- MODULE EulerPage -----------------------------
(***************************************************************************)
(* The application as a user sees it: EulerProblemMaster with the problem  *)
(* list of every open page, javascripts/euler.js, which asks by HTTP and   *)
(* learns of solutions by websocket.  Every user has one page, and its     *)
(* websocket stays open: the pushes come in order and none is lost, which  *)
(* is what ClientBroadcaster promises of such a websocket.                 *)
(*                                                                         *)
(* An operator introduced as a "faulty variant" is used by no behaviour:   *)
(* it is the mistake that the property named with it is there to exclude.  *)
(***************************************************************************)
EXTENDS EulerProblemMaster

CONSTANTS
  HttpFails,   \* TRUE: the request of a click may fail
  NoGet,       \* the click has not been made
  Nobody       \* no user is shown

VARIABLES
  gets,        \* the clicks and what became of their HTTP requests
  pushes,      \* solutions on their way down the websocket of each user
  page         \* what each user sees of each problem

server   == vars
pageVars == <<gets, pushes, page>>
allVars  == <<server, pageVars>>

\* No text, or the blank the page is rendered with.
BLANK      == ""
HTTP_ERROR == "HTTP Error :("

\* A number from AWS Lambda: the page writes "(lambda)" after it.
VIA_LAMBDA == "a number (lambda)"

Text == Answer \cup {BLANK, HTTP_ERROR, VIA_LAMBDA}

\* The texts that tell the answer of a problem.
Numbers == {LONG, NUMERAL, VIA_LAMBDA}

Get == [user : Users, problem : Problems, phase : {"sent", "asked", "done"}]

ASSUME PageAssumption ==
  /\ HttpFails \in BOOLEAN
  /\ NoGet \notin Get
  /\ Nobody \notin Users

\* class of button#problem_id, text of span#answer_id, who span#by_id names.
Button == [class : {"unsolved", "in-progress", "solved", "error"},
           answer : Text, by : Users \cup {Nobody}]

PageTypeOK ==
  /\ TypeOK
  /\ gets \in [Requests -> Get \cup {NoGet}]
  /\ pushes \in [Users -> Seq(Solution)]
  /\ page \in [Users -> [Problems -> Button]]

Blank(class) == [class |-> class, answer |-> BLANK, by |-> Nobody]

PageInit ==
  /\ Init
  /\ gets = [r \in Requests |-> NoGet]
  /\ pushes = [u \in Users |-> << >>]
  /\ page = [u \in Users |-> [p \in Problems |-> Blank("unsolved")]]

-----------------------------------------------------------------------------
(* What the page shows.                                                    *)

\* A function is not a number, nor is a text with more than the number in it.
FUNCTION     == "a function"
IsNaN(value) == value \notin {LONG, NUMERAL}

\* The code tests the function $(...).text and not what it returns.
IsAnsweredNumerically(u, p) == page[u][p].answer # BLANK /\ ~IsNaN(FUNCTION)

ProblemError(u, p, text) ==
  page' = [page EXCEPT ![u][p] = [class |-> "error", answer |-> text, by |-> Nobody]]

TextOf(s) == IF s.viaLambda THEN VIA_LAMBDA ELSE s.answer

ProblemSuccess(u, s) ==
  page' = [page EXCEPT ![u][s.problemNumber] =
    [class |-> "solved", answer |-> TextOf(s),
     by |-> IF s.mine THEN Nobody ELSE s.by.uuid]]

\* What reads as a number is shown as an answer, be it a Long or not.
ProcessSolution(u, s) ==
  IF IsAnsweredNumerically(u, s.problemNumber)
  THEN UNCHANGED page
  ELSE IF s.answer \in {LONG, NUMERAL}
       THEN ProblemSuccess(u, s)
       ELSE ProblemError(u, s.problemNumber, s.answer)

-----------------------------------------------------------------------------
(* The HTTP requests of the page.                                          *)

InPhase(r, phase) == gets[r] # NoGet /\ gets[r].phase = phase

Click(r, u, p) ==
  /\ gets[r] = NoGet
  /\ gets' = [gets EXCEPT ![r] = [user |-> u, problem |-> p, phase |-> "sent"]]
  /\ page' = [page EXCEPT ![u][p] = Blank("in-progress")]
  /\ UNCHANGED <<server, pushes>>

\* The request reaches ProjectEulerController.
GetArrives(r) ==
  /\ InPhase(r, "sent")
  /\ gets' = [gets EXCEPT ![r].phase = "asked"]
  /\ \E name \in Names : Index(r, gets[r].problem, [uuid |-> gets[r].user, name |-> name])
  /\ UNCHANGED <<pushes, page>>

\* Faulty variant of GetReplies: the page shows the response as it shows a push
\* (NumbersOutliveResponses).
GetRepliesIsShown(r) ==
  /\ InPhase(r, "asked") /\ ~Waiting(r)
  /\ gets' = [gets EXCEPT ![r].phase = "done"]
  /\ ProcessSolution(gets[r].user, asks[r].reply)
  /\ UNCHANGED <<server, pushes>>

\* processProblemResponse: the response is one object and has no length, so
\* that the loop over data[0], data[1], ... shows nothing of it.
GetReplies(r) ==
  /\ InPhase(r, "asked") /\ ~Waiting(r)
  /\ gets' = [gets EXCEPT ![r].phase = "done"]
  /\ UNCHANGED <<server, pushes, page>>

GetFails(r) ==
  /\ HttpFails
  /\ InPhase(r, "sent") \/ InPhase(r, "asked")
  /\ gets' = [gets EXCEPT ![r].phase = "done"]
  /\ ProblemError(gets[r].user, gets[r].problem, HTTP_ERROR)
  /\ UNCHANGED <<server, pushes>>

-----------------------------------------------------------------------------
(* Solutions by websocket.                                                 *)

\* Faulty variant of Marked: everything is one's own (OwnSolutionsAreMarked).
MarkedAsOwn(u, solution) == [solution EXCEPT !.mine = TRUE]

Marked(u, solution) == AsMine(solution, u)

\* Faulty variant of IsSentTo: whom a solution is credited to has asked by
\* HTTP and needs no push (ClicksAreSolved).
IsSentToOthers(u, solution) == solution.by.uuid # u

IsSentTo(u, solution) == TRUE

Push ==
  /\ BroadcasterReceives
  /\ LET solution == Head(broadcasterBox)
     IN pushes' = [u \in Users |->
          IF IsSentTo(u, solution) THEN Append(pushes[u], Marked(u, solution))
                                   ELSE pushes[u]]
  /\ UNCHANGED <<gets, page>>

OnMessage(u) ==
  /\ pushes[u] # << >>
  /\ ProcessSolution(u, Head(pushes[u]))
  /\ pushes' = [pushes EXCEPT ![u] = Tail(@)]
  /\ UNCHANGED <<server, gets>>

-----------------------------------------------------------------------------
\* The steps of the server that the pages do not see.
ServerStep ==
  /\ \/ \E r \in Requests : AskTimesOut(r)
     \/ \E userInfo \in UserInfo : SendUserInfoUpdate(userInfo)
     \/ MasterStep
     \/ \E w \in Workers : WorkerAnswers(w) \/ WorkerThrows(w)
     \/ Tick
  /\ UNCHANGED pageVars

PageStep ==
  \/ \E r \in Requests, u \in Users, p \in Problems : Click(r, u, p)
  \/ \E r \in Requests : GetArrives(r) \/ GetReplies(r) \/ GetFails(r)
  \/ Push
  \/ \E u \in Users : OnMessage(u)

PageNext == ServerStep \/ PageStep

PageSpec == PageInit /\ [][PageNext]_allVars

\* The fairness of the server, and messages arrive.  Nobody has to click.
PageFairness ==
  /\ WF_allVars(MasterStep /\ UNCHANGED pageVars)
  /\ \A w \in Workers :
       WF_allVars((WorkerAnswers(w) \/ WorkerThrows(w)) /\ UNCHANGED pageVars)
  /\ \A r \in Requests : WF_allVars(GetArrives(r) \/ GetReplies(r))
  /\ WF_allVars(Push)
  /\ \A u \in Users : WF_allVars(OnMessage(u))

PageFairSpec == PageSpec /\ PageFairness

-----------------------------------------------------------------------------
(* Safety.                                                                 *)

IsOf(p, s) == s.problemNumber = p

IsOnItsWay(u, p) ==
  \/ \E r \in Requests : InPhase(r, "sent") /\ gets[r].user = u /\ gets[r].problem = p
  \/ \E i \in DOMAIN masterBox : masterBox[i].type = "MsgSolve" /\ IsOf(p, masterBox[i])
  \/ BeingSolved(p)
  \/ \E i \in DOMAIN broadcasterBox : IsOf(p, broadcasterBox[i])
  \/ \E i \in DOMAIN pushes[u] : IsOf(p, pushes[u][i])

\* "The button turns orange while the solution is in progress"
\* (what_is_this.scala.html:23): as long as no attempt fails, behind an orange
\* button there is a click, an attempt or a push that will change it.  The
\* push to the asker is needed ("the asker gets it again, but no biggie",
\* EulerProblemMaster.scala:53), because the page does not read the response.
OrangeIsOnItsWay ==
  \A u \in Users, p \in Problems :
    page[u][p].class = "in-progress" => IsOnItsWay(u, p)

HasClicked(u, p) ==
  \E r \in Requests : gets[r] # NoGet /\ gets[r].user = u /\ gets[r].problem = p

\* "Mark solutions done by me as mine" (ClientHandler.scala:28): a solution is
\* shown without a name to users who have clicked on it, and to the others under
\* the name of another user who has.
OwnSolutionsAreMarked ==
  \A u \in Users, p \in Problems : page[u][p].class = "solved" =>
    IF page[u][p].by = Nobody
    THEN HasClicked(u, p)
    ELSE page[u][p].by # u /\ HasClicked(page[u][p].by, p)

\* "If this problem is already solved with a numeric response then we ignore
\* this new solution" (euler.js:29): only a click takes a number off the page.
NumbersStay ==
  [][\A u \in Users, p \in Problems :
       page[u][p].answer \in Numbers /\ page'[u][p].answer \notin Numbers =>
         page'[u][p].class = "in-progress"]_allVars

\* Where the page does keep its numbers: as long as no attempt fails, nothing but
\* a click or a failed request takes a number off the page, in whatever order the
\* responses of several clicks and the pushes of several attempts come.
NumbersOutliveResponses ==
  [][\A u \in Users, p \in Problems :
       page[u][p].answer \in Numbers /\ page'[u][p].answer \notin Numbers =>
         page'[u][p] = Blank("in-progress") \/ page'[u][p].answer = HTTP_ERROR]_allVars

-----------------------------------------------------------------------------
(* Liveness.                                                               *)

\* "Once solved, the button turns green and the answer is displayed"
\* (what_is_this.scala.html:23-24): with solvers that do not fail, every click
\* is followed by its answer, by whichever attempt, or by the HTTP error.
ClicksAreSolved ==
  \A u \in Users, p \in Problems :
    page[u][p].class = "in-progress" ~>
      page[u][p].class = "solved" \/ page[u][p].answer = HTTP_ERROR
=============================================================================
