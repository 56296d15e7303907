---------------------------- MODULE UserService ----------------------------
(***************************************************************************)
(* What the registry of users promises to the requests that ask it,        *)
(* without mailboxes, lookup workers and cookies.  UserInfoMaster          *)
(* implements it.                                                          *)
(*                                                                         *)
(* An ask is heard once, and who asks is told once: what the registry then *)
(* knows of that user at that address, unless the request has given up     *)
(* before.  A user who comes to an address is resolved at once if it has   *)
(* been looked up, and else is looked up there.  A lookup resolves its     *)
(* user if the user is still there, and a rename is all that is known of   *)
(* its user from then on.  A crash forgets everybody.                      *)
(***************************************************************************)
CONSTANTS
  Requests,
  Uuids,         \* users
  Ips,           \* addresses
  Names,
  GuyIncognito,  \* the name of who has not chosen any
  NoUser

VARIABLES
  requests,  \* how far each request is, and the user it waits or goes on as
  asks,      \* asks that have not been heard yet
  renames,   \* what users have made of themselves, not heard yet
  known,     \* what is known of each user
  lookups,   \* lookups under way: of whom, and where
  places     \* addresses that have been looked up

vars == <<requests, asks, renames, known, lookups, places>>

BEFORE  == "before"
WAITING == "waiting"
TOLD    == "told"
OVER    == "over"

At(stage, info) == [stage |-> stage, info |-> info]

Guest(uuid, ip, resolved) ==
  [uuid |-> uuid, ip |-> ip, resolved |-> resolved, name |-> GuyIncognito]

IsKnownAt(uuid, ip) == known[uuid] # NoUser /\ known[uuid].ip = ip

-----------------------------------------------------------------------------
Init ==
  /\ requests = [r \in Requests |-> At(BEFORE, NoUser)]
  /\ asks = {} /\ renames = {} /\ lookups = {} /\ places = {}
  /\ known = [u \in Uuids |-> NoUser]

Ask(r, uuid, ip) ==
  /\ requests' = [requests EXCEPT ![r] = At(WAITING, Guest(uuid, ip, FALSE))]
  /\ asks' = asks \cup {[sender |-> r, uuid |-> uuid, ip |-> ip]}

Recall(r, uuid, ip, name) ==
  /\ requests' = [requests EXCEPT ![r] =
       At(TOLD, [Guest(uuid, ip, TRUE) EXCEPT !.name = name])]
  /\ UNCHANGED asks

\* Who is resolved may go on at once, the others ask.
Begin(r) ==
  /\ requests[r].stage = BEFORE
  /\ \E uuid \in Uuids, ip \in Ips :
       \/ Ask(r, uuid, ip)
       \/ \E name \in Names \cup {GuyIncognito} : Recall(r, uuid, ip, name)
  /\ UNCHANGED <<renames, known, lookups, places>>

GiveUp(r) ==
  /\ requests[r].stage = WAITING
  /\ requests' = [requests EXCEPT ![r] = At(TOLD, requests[r].info)]
  /\ UNCHANGED <<asks, renames, known, lookups, places>>

\* The asker is told, if it still waits, what is known of its user by then.
Tell(ask) ==
  requests' = IF requests[ask.sender].stage = WAITING
              THEN [requests EXCEPT ![ask.sender] = At(TOLD, known'[ask.uuid])]
              ELSE requests

Hear(ask) ==
  LET isMapped == ask.ip \in places IN
  /\ asks' = asks \ {ask}
  /\ IF IsKnownAt(ask.uuid, ask.ip)
     THEN UNCHANGED <<known, lookups>>
     ELSE /\ known' = [known EXCEPT ![ask.uuid] = Guest(ask.uuid, ask.ip, isMapped)]
          /\ lookups' = IF isMapped THEN lookups
                        ELSE lookups \cup {[uuid |-> ask.uuid, ip |-> ask.ip]}
  /\ Tell(ask)
  /\ UNCHANGED <<renames, places>>

Leave(r) ==
  /\ requests[r].stage = TOLD
  /\ requests' = [requests EXCEPT ![r] = At(OVER, NoUser)]
  /\ UNCHANGED <<asks, renames, known, lookups, places>>

Rename(r, name) ==
  /\ requests[r].stage = TOLD
  /\ requests' = [requests EXCEPT ![r] = At(OVER, NoUser)]
  /\ renames' = renames \cup {[requests[r].info EXCEPT !.name = name]}
  /\ UNCHANGED <<asks, known, lookups, places>>

\* A rename is of a known user or nothing.  It is heard as often as it is sent.
HearRename(info) ==
  /\ known' = IF known[info.uuid] = NoUser THEN known
              ELSE [known EXCEPT ![info.uuid] = info]
  /\ renames' \in {renames, renames \ {info}}
  /\ UNCHANGED <<requests, asks, lookups, places>>

\* The end of a lookup: it failed, its user has gone elsewhere, or is resolved.
EndLookup(l) ==
  /\ lookups' \in {lookups, lookups \ {l}}
  /\ \/ UNCHANGED <<known, places>>
     \/ /\ IsKnownAt(l.uuid, l.ip)
        /\ known' = [known EXCEPT ![l.uuid] = Guest(l.uuid, l.ip, TRUE)]
        /\ places' = places \cup {l.ip}
  /\ UNCHANGED <<requests, asks, renames>>

\* What waits or is answered is lost, and so may be what has not asked yet.
Crash ==
  /\ \E lost \in SUBSET Requests :
       /\ \A r \in Requests : requests[r].stage \in {WAITING, TOLD} => r \in lost
       /\ requests' = [r \in Requests |->
                         IF r \in lost THEN At(OVER, NoUser) ELSE requests[r]]
  /\ known' = [u \in Uuids |-> NoUser]
  /\ asks' = {} /\ renames' = {} /\ lookups' = {} /\ places' = {}

Next ==
  \/ \E ask \in asks : Hear(ask)
  \/ \E info \in renames : HearRename(info)
  \/ \E l \in lookups : EndLookup(l)
  \/ \E r \in Requests : \/ Begin(r) \/ GiveUp(r) \/ Leave(r)
                         \/ \E name \in Names \cup {GuyIncognito} : Rename(r, name)
  \/ Crash

Spec == Init /\ [][Next]_vars
=============================================================================
