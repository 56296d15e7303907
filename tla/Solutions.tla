----------------------------- MODULE Solutions -----------------------------
(***************************************************************************)
(* The value class models/Solution.scala: what the backend knows about one *)
(* Project Euler problem, from "In Progress..." to a finished answer, and  *)
(* the part of models/UserInfo.scala a solution carries with it.           *)
(*                                                                         *)
(* As far as the program can tell answers apart, one is a text that parses *)
(* as a Long, a text that only the page takes for a number, any other text *)
(* (the Lambda error texts and "... is invalid or unsolved."), the marker  *)
(* of an attempt in progress, or the error text of the HTTP controller.    *)
(***************************************************************************)
EXTENDS Integers

CONSTANTS
  Problems,   \* problem numbers a client may ask for
  Users,      \* session uuids
  Names       \* display names a user may choose

UserInfo == [uuid : Users, name : Names]

IN_PROGRESS   == "In Progress..."
ERROR_TIMEOUT == "Timed out :("
LONG          == "a Long"
NUMERAL       == "a number, not a Long"
OTHER_TEXT    == "not a number"

\* What an attempt may end in.
Result == {LONG, NUMERAL, OTHER_TEXT}

Answer == Result \cup {IN_PROGRESS, ERROR_TIMEOUT}

Solution == [problemNumber : Problems, answer : Answer,
             startedAt : Nat, finishedAt : Nat,
             by : UserInfo, mine : BOOLEAN, viaLambda : BOOLEAN]

\* An unfinished solution with the given text; the clock is in seconds.
Unfinished(p, by, text, clock) ==
  [problemNumber |-> p, answer |-> text, startedAt |-> clock, finishedAt |-> 0,
   by |-> by, mine |-> FALSE, viaLambda |-> FALSE]

Start(p, by, clock)       == Unfinished(p, by, IN_PROGRESS, clock)
Error(p, by, text, clock) == Unfinished(p, by, text, clock)

\* Faulty variant of Complete: the finishing time is not stamped.
CompleteUnstamped(s, answer, clock) ==
  [s EXCEPT !.answer = answer, !.mine = FALSE, !.viaLambda = FALSE]

Complete(s, answer, clock) ==
  [s EXCEPT !.answer = answer, !.finishedAt = clock,
            !.mine = FALSE, !.viaLambda = FALSE]

WithBy(s, userInfo) == [s EXCEPT !.by = userInfo]

WithViaLambda(s, viaLambda) == [s EXCEPT !.viaLambda = viaLambda]

AsMine(s, myUuid) == IF s.by.uuid = myUuid THEN [s EXCEPT !.mine = TRUE] ELSE s

IsSolved(s) == s.answer = LONG /\ s.finishedAt > 0

\* Faulty variants of IsStale: stale one second early (NoParallelSolutions);
\* solved or not (AnswersAreKept).
IsStaleAtLimit(s, maxAgeSeconds, clock) ==
  ~IsSolved(s) /\ clock - s.startedAt >= maxAgeSeconds

IsStaleByAge(s, maxAgeSeconds, clock) == clock - s.startedAt > maxAgeSeconds

IsStale(s, maxAgeSeconds, clock) ==
  ~IsSolved(s) /\ clock - s.startedAt > maxAgeSeconds
=============================================================================
