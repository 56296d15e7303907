---------------------------- MODULE PushService ----------------------------
(***************************************************************************)
(* What the push half of the application promises to the websockets that   *)
(* listen to it, without mailboxes, handlers and pages.  ClientBroadcaster *)
(* implements it.                                                          *)
(*                                                                         *)
(* Broadcasts are announced one by one in the order they are sent, to all  *)
(* who listen and to nobody else.  What is announced to a listener comes   *)
(* to it in that order; on its way the oldest Capacity messages are safe   *)
(* as long as it listens, and the one behind them may be lost.  A crash    *)
(* ends all listening, and what has not been announced never is.           *)
(***************************************************************************)
EXTENDS Integers, Sequences, SequencesExt

CONSTANTS
  Listeners,  \* websockets
  Capacity    \* messages to a listener that are never dropped on the way

VARIABLES
  sent,       \* broadcasts so far
  announced,  \* the last of them that was announced, or lost before it was
  listening,  \* the listeners announced to
  coming,     \* what is on its way to each
  heard       \* what has come to each

vars == <<sent, announced, listening, coming, heard>>

-----------------------------------------------------------------------------
Init ==
  /\ sent = 0
  /\ announced = 0
  /\ listening = {}
  /\ coming = [l \in Listeners |-> << >>]
  /\ heard = [l \in Listeners |-> << >>]

Send ==
  /\ sent' = sent + 1
  /\ UNCHANGED <<announced, listening, coming, heard>>

Announce ==
  /\ announced < sent
  /\ announced' = announced + 1
  /\ coming' = [l \in Listeners |->
       IF l \in listening THEN Append(coming[l], announced + 1) ELSE coming[l]]
  /\ UNCHANGED <<sent, listening, heard>>

\* Who has been told anything never begins to listen again.
Join(l) ==
  /\ l \notin listening
  /\ heard[l] = << >> /\ coming[l] = << >>
  /\ listening' = listening \cup {l}
  /\ UNCHANGED <<sent, announced, coming, heard>>

Leave(l) ==
  /\ listening' = listening \ {l}
  /\ coming' = [coming EXCEPT ![l] = << >>]
  /\ UNCHANGED <<sent, announced, heard>>

Hear(l) ==
  /\ coming[l] # << >>
  /\ heard' = [heard EXCEPT ![l] = Append(@, Head(coming[l]))]
  /\ coming' = [coming EXCEPT ![l] = Tail(@)]
  /\ UNCHANGED <<sent, announced, listening>>

\* The first message beyond the capacity is dropped, no older one.
Lose(l) ==
  /\ Len(coming[l]) > Capacity
  /\ coming' = [coming EXCEPT ![l] = RemoveAt(@, Capacity + 1)]
  /\ UNCHANGED <<sent, announced, listening, heard>>

\* Some of what was on its way may still arrive, from the oldest on.
Crash ==
  /\ announced' = sent
  /\ listening' = {}
  /\ \E left \in [Listeners -> 0 .. Capacity] :
       /\ \A l \in Listeners : left[l] <= Len(coming[l])
       /\ coming' = [l \in Listeners |-> SubSeq(coming[l], 1, left[l])]
  /\ UNCHANGED <<sent, heard>>

Next ==
  \/ Send \/ Announce \/ Crash
  \/ \E l \in Listeners : Join(l) \/ Leave(l) \/ Hear(l) \/ Lose(l)

Spec == Init /\ [][Next]_vars
=============================================================================
