---------------------------- MODULE SolveService ----------------------------
(***************************************************************************)
(* What the solving half of the backend promises to its clients, without   *)
(* mailboxes, workers and clocks.  EulerProblemMaster implements it.       *)
(*                                                                         *)
(* A request is served once and replied to once: with what is known of its *)
(* problem when it is served, unless it has given up before.  An attempt   *)
(* is only begun to serve a request and is credited to its user, and with  *)
(* caching a solved problem is never begun again.  Every end of an attempt *)
(* is announced to everybody, and so is every reply that is a solution.    *)
(***************************************************************************)
EXTENDS Sequences

CONSTANTS
  Requests,       \* requests for the solution of a problem
  Problems,
  Users,
  CacheSolutions  \* a solution is kept for ever

VARIABLES
  requests,  \* the requests made: their problem, user, reply, and if served
  entries,   \* the problems attempted: their state and to whom credited
  news       \* announcements that have not reached everybody yet

vars == <<requests, entries, news>>

NONE    == "none"     \* not replied yet
TIMEOUT == "timeout"  \* given up by the request
PENDING == "pending"  \* being solved
SOLVED  == "solved"
FAILED  == "failed"

With(f, x, value) == [y \in DOMAIN f \cup {x} |-> IF y = x THEN value ELSE f[y]]

\* A request takes one reply.
Replied(request, reply) ==
  IF request.reply = NONE THEN [request EXCEPT !.reply = reply] ELSE request

IsSolvedFor(p) == p \in DOMAIN entries /\ entries[p].state = SOLVED

News(p) == [problem |-> p, by |-> entries'[p].by, state |-> entries'[p].state]

-----------------------------------------------------------------------------
Init ==
  /\ requests = [r \in {} |-> NONE]
  /\ entries = [p \in {} |-> NONE]
  /\ news = << >>

Ask(r, p, user) ==
  /\ r \notin DOMAIN requests
  /\ requests' = With(requests, r, [problem |-> p, user |-> user,
                                    served |-> FALSE, reply |-> NONE])
  /\ UNCHANGED <<entries, news>>

GiveUp(r) ==
  /\ r \in DOMAIN requests
  /\ requests[r].reply = NONE
  /\ requests' = With(requests, r, Replied(requests[r], TIMEOUT))
  /\ UNCHANGED <<entries, news>>

Serve(r, reply) ==
  /\ ~requests[r].served
  /\ requests' = With(requests, r,
                      Replied([requests[r] EXCEPT !.served = TRUE], reply))

\* The request is told what is known.
Inform(r) ==
  LET p == requests[r].problem IN
  /\ r \in DOMAIN requests
  /\ p \in DOMAIN entries
  /\ IsSolvedFor(p) => CacheSolutions
  /\ Serve(r, entries[p].state)
  /\ UNCHANGED entries
  /\ news' = IF IsSolvedFor(p) THEN Append(news, News(p)) ELSE news

\* The request begins an attempt, the first or a further one.
Begin(r) ==
  LET p == requests[r].problem IN
  /\ r \in DOMAIN requests
  /\ IsSolvedFor(p) => ~CacheSolutions
  /\ Serve(r, PENDING)
  /\ entries' = With(entries, p, [by |-> requests[r].user, state |-> PENDING])
  /\ UNCHANGED news

\* An attempt ends.  It may be an earlier one than the last.
Finish(p, state) ==
  /\ p \in DOMAIN entries
  /\ entries' = With(entries, p, [entries[p] EXCEPT !.state = state])
  /\ news' = Append(news, News(p))
  /\ UNCHANGED requests

Announce ==
  /\ news # << >>
  /\ news' = Tail(news)
  /\ UNCHANGED <<requests, entries>>

Next ==
  \/ \E r \in Requests, p \in Problems, user \in Users : Ask(r, p, user)
  \/ \E r \in Requests : GiveUp(r) \/ Inform(r) \/ Begin(r)
  \/ \E p \in Problems, state \in {SOLVED, FAILED} : Finish(p, state)
  \/ Announce

Spec == Init /\ [][Next]_vars
=============================================================================
