--------------------------- MODULE UserInfoMaster ---------------------------
(***************************************************************************)
(* Who the users are: actors/UserInfoMaster.scala with its two lookup      *)
(* workers, the session cookie of every browser, and the HTTP requests     *)
(* that read the cookie, ask the master while it is not resolved, and      *)
(* write it back (models/UserInfo.scala and the four controllers).         *)
(*                                                                         *)
(* A request goes through the phases sent, asking (blocked on the master), *)
(* known (the controller knows the user), responded (the answer is on its  *)
(* way) and done.  It carries the cookie the browser had when it sent it.  *)
(* City, country and coordinates are left out: whoever is resolved has     *)
(* whatever the lookup service said of the address.                        *)
(*                                                                         *)
(* An operator introduced as a "faulty variant" is used by no behaviour:   *)
(* it is the mistake that the property named with it is there to exclude.  *)
(***************************************************************************)
EXTENDS Integers, Sequences

CONSTANTS
  Browsers,       \* they keep their cookie while the server restarts
  Requests,       \* HTTP and websocket requests to the controllers
  Kinds,          \* subset of {"home", "solve", "name", "ws"}
  Uuids,          \* what UUID.randomUUID may return
  Ips,            \* addresses
  RemoteIps,      \* browser -> the addresses it may send requests from
  MockIp,         \* project_euler.mock_ip > 0
  MockIpOf,       \* uuid -> its spoofed address
  Names,          \* names a user may choose
  GuyIncognito,   \* the name of who has not chosen any
  LookupsFail,    \* TRUE: a call of the lookup service may fail
  AskTimeouts,    \* TRUE: an ask may exceed its 3 seconds
  MaxRestarts,    \* bound: restarts of the server
  NoUser          \* no cookie; no session

ASSUME UserInfoAssumption ==
  /\ Kinds \subseteq {"home", "solve", "name", "ws"}
  /\ RemoteIps \in [Browsers -> SUBSET Ips]
  /\ MockIp \in BOOLEAN
  /\ MockIpOf \in [Uuids -> Ips]
  /\ LookupsFail \in BOOLEAN
  /\ AskTimeouts \in BOOLEAN
  /\ MaxRestarts \in Nat

VARIABLES
  cookies,    \* the session cookie of every browser
  uuids,      \* the uuids given out so far
  reqs,       \* the requests
  sessions,   \* the master's cache of users: uuid -> UserInfo
  ip2geo,     \* the master's cache of geolocations: address -> UserInfo
  masterBox,  \* mailbox of the master
  workerBox,  \* mailbox of each lookup worker
  nextRoutee, \* counter of the RoundRobinRoutingLogic
  restarts    \* number of restarts so far

vars == <<cookies, uuids, reqs, sessions, ip2geo, masterBox, workerBox,
          nextRoutee, restarts>>

actors == <<sessions, ip2geo, masterBox, workerBox, nextRoutee>>

Workers == 0 .. 1

NoUuid == ""

UserInfo == [uuid : Uuids \cup {NoUuid}, ip : Ips, resolved : BOOLEAN,
             name : Names \cup {GuyIncognito}]

\* UserInfo(uuid, ip)
Unresolved(uuid, ip) == [uuid |-> uuid, ip |-> ip, resolved |-> FALSE,
                         name |-> GuyIncognito]

Request == [kind : Kinds, browser : Browsers, cookie : UserInfo \cup {NoUser},
            remoteAddress : Ips, newName : Names \cup {GuyIncognito},
            phase : {"sent", "asking", "known", "responded", "done"},
            info : UserInfo \cup {NoUser}, announced : BOOLEAN]

ASSUME NoUserAssumption == NoUser \notin UserInfo /\ NoUser \notin Request

\* A uuid is no address.
ASSUME UuidAssumption == Uuids \cap Ips = {}

MsgResolveIp      == [type : {"MsgResolveIp"}, uuid : Uuids, ip : Ips,
                      sender : Requests]
MsgIpResolution   == [type : {"MsgIpResolution"}, userInfo : UserInfo]
MsgUserInfoUpdate == [type : {"MsgUserInfoUpdate"}, userInfo : UserInfo]
MasterMessage     == MsgResolveIp \cup MsgIpResolution \cup MsgUserInfoUpdate

Lookup == [uuid : Uuids, ip : Ips]

TypeOK ==
  /\ cookies \in [Browsers -> UserInfo \cup {NoUser}]
  /\ uuids \subseteq Uuids
  /\ reqs \in [Requests -> Request \cup {NoUser}]
  /\ sessions \in [Uuids -> UserInfo \cup {NoUser}]
  /\ ip2geo \in [Ips -> UserInfo \cup {NoUser}]
  /\ masterBox \in Seq(MasterMessage)
  /\ workerBox \in [Workers -> Seq(Lookup)]
  /\ nextRoutee \in Workers
  /\ restarts \in 0 .. MaxRestarts

InitActors ==
  /\ sessions = [u \in Uuids |-> NoUser]
  /\ ip2geo = [ip \in Ips |-> NoUser]
  /\ masterBox = << >>
  /\ workerBox = [w \in Workers |-> << >>]
  /\ nextRoutee = 0

Init ==
  /\ cookies = [b \in Browsers |-> NoUser]
  /\ uuids = {}
  /\ reqs = [r \in Requests |-> NoUser]
  /\ restarts = 0
  /\ InitActors

InPhase(r, phase) == reqs[r] # NoUser /\ reqs[r].phase = phase

-----------------------------------------------------------------------------
(* Requests and controllers.                                               *)

\* Only a loaded page, which came with a cookie, sends anything but "home".
Send(r, b, kind, ip, name) ==
  /\ reqs[r] = NoUser
  /\ kind # "home" => cookies[b] # NoUser
  /\ reqs' = [reqs EXCEPT ![r] =
       [kind |-> kind, browser |-> b, cookie |-> cookies[b], remoteAddress |-> ip,
        newName |-> name, phase |-> "sent", info |-> NoUser, announced |-> FALSE]]
  /\ UNCHANGED <<cookies, uuids, actors, restarts>>

\* A new name is sent on change and, perhaps once more, on Enter.
SubmitName(r, b, ip, name) == "name" \in Kinds /\ Send(r, b, "name", ip, name)

GetIp(uuid, r) == IF MockIp THEN MockIpOf[uuid] ELSE reqs[r].remoteAddress

\* The cookie tells who the user is, at the address the request came from.
FromSession(r) ==
  LET cookie == reqs[r].cookie IN
  /\ InPhase(r, "sent")
  /\ cookie # NoUser /\ cookie.resolved
  /\ reqs' = [reqs EXCEPT ![r].phase = "known",
                          ![r].info = [cookie EXCEPT !.ip = GetIp(cookie.uuid, r)]]
  /\ UNCHANGED <<cookies, uuids, actors, restarts>>

\* The master has to tell; what it does not tell in time is Unresolved.
AskMaster(r, uuid) ==
  LET cookie == reqs[r].cookie
      ip     == GetIp(uuid, r)
  IN
  /\ InPhase(r, "sent")
  /\ IF cookie = NoUser THEN uuid \notin uuids
                        ELSE ~cookie.resolved /\ uuid = cookie.uuid
  /\ uuids' = uuids \cup {uuid}
  /\ masterBox' = Append(masterBox, [type |-> "MsgResolveIp", uuid |-> uuid,
                                     ip |-> ip, sender |-> r])
  /\ reqs' = [reqs EXCEPT ![r].phase = "asking", ![r].info = Unresolved(uuid, ip)]
  /\ UNCHANGED <<cookies, sessions, ip2geo, workerBox, nextRoutee, restarts>>

AskTimesOut(r) ==
  /\ AskTimeouts
  /\ InPhase(r, "asking")
  /\ reqs' = [reqs EXCEPT ![r].phase = "known"]
  /\ UNCHANGED <<cookies, uuids, actors, restarts>>

\* The requests after a login broadcast for uuid: a history of the home pages
\* that were loaded by that user before it.
Announce(rs, uuid) ==
  [r \in Requests |->
    IF /\ rs[r] # NoUser /\ rs[r].kind = "home"
       /\ rs[r].info # NoUser
       /\ rs[r].phase \notin {"sent", "asking"}
       /\ rs[r].info.uuid = uuid
    THEN [rs[r] EXCEPT !.announced = TRUE]
    ELSE rs[r]]

\* Faulty variant of RespondHome: the login of a user whom the cookie already
\* knows is not broadcast (HomeLoginIsBroadcast).
RespondHomeSilently(r) ==
  /\ InPhase(r, "known") /\ reqs[r].kind = "home"
  /\ reqs' = [reqs EXCEPT ![r].phase = "responded"]
  /\ UNCHANGED <<cookies, uuids, actors, restarts>>

RespondHome(r) ==
  /\ InPhase(r, "known") /\ reqs[r].kind = "home"
  /\ LET responded == [reqs EXCEPT ![r].phase = "responded"]
     IN reqs' = IF reqs[r].info.resolved
                THEN Announce(responded, reqs[r].info.uuid)
                ELSE responded
  /\ UNCHANGED <<cookies, uuids, actors, restarts>>

RespondSolve(r) ==
  /\ InPhase(r, "known") /\ reqs[r].kind = "solve"
  /\ reqs' = [reqs EXCEPT ![r].phase = "responded"]
  /\ UNCHANGED <<cookies, uuids, actors, restarts>>

RespondName(r) ==
  LET userInfo == [reqs[r].info EXCEPT !.name = reqs[r].newName] IN
  /\ InPhase(r, "known") /\ reqs[r].kind = "name"
  /\ reqs' = [reqs EXCEPT ![r].phase = "responded", ![r].info = userInfo]
  /\ masterBox' = Append(masterBox, [type |-> "MsgUserInfoUpdate",
                                     userInfo |-> userInfo])
  /\ UNCHANGED <<cookies, uuids, sessions, ip2geo, workerBox, nextRoutee, restarts>>

\* The websocket is open; its response carries no cookie.
RespondWs(r) ==
  /\ InPhase(r, "known") /\ reqs[r].kind = "ws"
  /\ reqs' = [reqs EXCEPT ![r].phase = "done"]
  /\ UNCHANGED <<cookies, uuids, actors, restarts>>

Respond(r) == RespondHome(r) \/ RespondSolve(r) \/ RespondName(r) \/ RespondWs(r)

\* withSession: the browser replaces its cookie by the response's.
Arrive(r) ==
  /\ InPhase(r, "responded")
  /\ cookies' = [cookies EXCEPT ![reqs[r].browser] = reqs[r].info]
  /\ reqs' = [reqs EXCEPT ![r].phase = "done"]
  /\ UNCHANGED <<uuids, actors, restarts>>

-----------------------------------------------------------------------------
(* The master.                                                             *)

Receive(type) ==
  /\ masterBox # << >>
  /\ Head(masterBox).type = type
  /\ masterBox' = Tail(masterBox)
  /\ UNCHANGED <<cookies, uuids, restarts>>

\* Faulty variant of UpdatedGeo: by address, as the code seems to intend
\* (NamesAreOwn).
UpdatedGeoByIp(ip, userInfo) ==
  IF ip2geo[ip] # NoUser /\ ip = userInfo.ip THEN userInfo ELSE ip2geo[ip]

UpdatedGeo(ip, userInfo) ==
  IF ip2geo[ip] # NoUser /\ ip = userInfo.uuid THEN userInfo ELSE ip2geo[ip]

UpdatedSession(u, userInfo) ==
  IF sessions[u] # NoUser /\ u = userInfo.uuid THEN userInfo ELSE sessions[u]

OnMsgUserInfoUpdate ==
  /\ Receive("MsgUserInfoUpdate")
  /\ LET userInfo == Head(masterBox).userInfo
     IN /\ sessions' = [u \in Uuids |-> UpdatedSession(u, userInfo)]
        /\ ip2geo' = [ip \in Ips |-> UpdatedGeo(ip, userInfo)]
  /\ UNCHANGED <<reqs, workerBox, nextRoutee>>

\* Faulty variant of KnownAt: only when resolved (OneLookupAtATime).
ResolvedAt(uuid, ip) ==
  sessions[uuid] # NoUser /\ sessions[uuid].ip = ip /\ sessions[uuid].resolved

KnownAt(uuid, ip) == sessions[uuid] # NoUser /\ sessions[uuid].ip = ip

\* The reply to an ask: nobody listens once it has timed out.
Reply(r, userInfo) ==
  reqs' = IF InPhase(r, "asking")
          THEN [reqs EXCEPT ![r].phase = "known", ![r].info = userInfo]
          ELSE reqs

\* Faulty variant of StartLookup: a busy worker's mailbox drops the job
\* (LookupsAreNotForgotten).
StartLookupIfIdle(uuid, ip) ==
  /\ workerBox' = IF workerBox[nextRoutee] = << >>
                  THEN [workerBox EXCEPT ![nextRoutee] = <<[uuid |-> uuid, ip |-> ip]>>]
                  ELSE workerBox
  /\ nextRoutee' = (nextRoutee + 1) % 2

\* Faulty variant of StartLookup: the counter does not wrap (TypeOK).
StartLookupWithoutWrap(uuid, ip) ==
  /\ workerBox' = [workerBox EXCEPT ![nextRoutee] =
                     Append(@, [uuid |-> uuid, ip |-> ip])]
  /\ nextRoutee' = nextRoutee + 1

StartLookup(uuid, ip) ==
  /\ workerBox' = [workerBox EXCEPT ![nextRoutee] =
                     Append(@, [uuid |-> uuid, ip |-> ip])]
  /\ nextRoutee' = (nextRoutee + 1) % 2

\* Faulty variant of ResolveKnown: nobody answers (EveryRequestIsAnswered,
\* NobodyWaitsInVain).
StaySilent(m) ==
  /\ KnownAt(m.uuid, m.ip)
  /\ UNCHANGED <<sessions, reqs, workerBox, nextRoutee>>

ResolveKnown(m) ==
  /\ KnownAt(m.uuid, m.ip)
  /\ Reply(m.sender, sessions[m.uuid])
  /\ UNCHANGED <<sessions, workerBox, nextRoutee>>

\* Faulty variant of ResolveFromCache: the user becomes the one without a uuid
\* that is cached of the address (ImplementsService).
ResolveAsCached(m) ==
  /\ ~KnownAt(m.uuid, m.ip) /\ ip2geo[m.ip] # NoUser
  /\ sessions' = [sessions EXCEPT ![m.uuid] = ip2geo[m.ip]]
  /\ Reply(m.sender, ip2geo[m.ip])
  /\ UNCHANGED <<workerBox, nextRoutee>>

ResolveFromCache(m) ==
  LET userInfo == [ip2geo[m.ip] EXCEPT !.uuid = m.uuid] IN
  /\ ~KnownAt(m.uuid, m.ip) /\ ip2geo[m.ip] # NoUser
  /\ sessions' = [sessions EXCEPT ![m.uuid] = userInfo]
  /\ Reply(m.sender, userInfo)
  /\ UNCHANGED <<workerBox, nextRoutee>>

ResolveByLookup(m) ==
  /\ ~KnownAt(m.uuid, m.ip) /\ ip2geo[m.ip] = NoUser
  /\ sessions' = [sessions EXCEPT ![m.uuid] = Unresolved(m.uuid, m.ip)]
  /\ StartLookup(m.uuid, m.ip)
  /\ Reply(m.sender, Unresolved(m.uuid, m.ip))

OnMsgResolveIp ==
  /\ Receive("MsgResolveIp")
  /\ LET m == Head(masterBox)
     IN ResolveKnown(m) \/ ResolveFromCache(m) \/ ResolveByLookup(m)
  /\ UNCHANGED ip2geo

\* Faulty variant of IsCurrent: of a known user (LateResolutionsAreIgnored).
IsOfAKnownUser(userInfo) == sessions[userInfo.uuid] # NoUser

\* The resolution is of a known user who is still at that address.
IsCurrent(userInfo) == KnownAt(userInfo.uuid, userInfo.ip)

OnMsgIpResolution ==
  /\ Receive("MsgIpResolution")
  /\ LET userInfo == Head(masterBox).userInfo
     IN IF IsCurrent(userInfo)
        THEN /\ sessions' = [sessions EXCEPT ![userInfo.uuid] = userInfo]
             /\ ip2geo' = [ip2geo EXCEPT ![userInfo.ip] =
                             [userInfo EXCEPT !.uuid = NoUuid]]
             /\ reqs' = Announce(reqs, userInfo.uuid)
        ELSE UNCHANGED <<sessions, ip2geo, reqs>>
  /\ UNCHANGED <<workerBox, nextRoutee>>

-----------------------------------------------------------------------------
(* The lookup workers.                                                     *)

WorkerResolves(w) ==
  /\ workerBox[w] # << >>
  /\ LET job == Head(workerBox[w])
     IN masterBox' = Append(masterBox,
          [type |-> "MsgIpResolution",
           userInfo |-> [Unresolved(job.uuid, job.ip) EXCEPT !.resolved = TRUE]])
  /\ workerBox' = [workerBox EXCEPT ![w] = Tail(@)]
  /\ UNCHANGED <<cookies, uuids, reqs, sessions, ip2geo, nextRoutee, restarts>>

\* SimpleHttpRequest returns "" when the call fails, which is not Json.
WorkerThrows(w) ==
  /\ LookupsFail
  /\ workerBox[w] # << >>
  /\ workerBox' = [workerBox EXCEPT ![w] = Tail(@)]
  /\ UNCHANGED <<cookies, uuids, reqs, sessions, ip2geo, masterBox, nextRoutee,
                 restarts>>

-----------------------------------------------------------------------------
\* The server restarts: the actors start afresh, the browsers keep their cookies,
\* and requests under way fail, but for responses on the wire, which may arrive.
Restart ==
  /\ restarts < MaxRestarts
  /\ restarts' = restarts + 1
  /\ \E arriving \in SUBSET {r \in Requests : InPhase(r, "responded")} :
       reqs' = [r \in Requests |->
                  IF reqs[r] = NoUser \/ r \in arriving THEN reqs[r]
                  ELSE [reqs[r] EXCEPT !.phase = "done"]]
  /\ sessions' = [u \in Uuids |-> NoUser]
  /\ ip2geo' = [ip \in Ips |-> NoUser]
  /\ masterBox' = << >>
  /\ workerBox' = [w \in Workers |-> << >>]
  /\ nextRoutee' = 0
  /\ UNCHANGED <<cookies, uuids>>

MasterStep == OnMsgUserInfoUpdate \/ OnMsgResolveIp \/ OnMsgIpResolution

HandleRequest(r) == FromSession(r) \/ \E uuid \in Uuids : AskMaster(r, uuid)

Next ==
  \/ \E r \in Requests, b \in Browsers, kind \in Kinds \ {"name"} :
       \E ip \in RemoteIps[b] : Send(r, b, kind, ip, GuyIncognito)
  \/ \E r \in Requests, b \in Browsers, name \in Names :
       \E ip \in RemoteIps[b] : SubmitName(r, b, ip, name)
  \/ \E r \in Requests : HandleRequest(r) \/ AskTimesOut(r) \/ Respond(r) \/ Arrive(r)
  \/ MasterStep
  \/ \E w \in Workers : WorkerResolves(w) \/ WorkerThrows(w)
  \/ Restart

Spec == Init /\ [][Next]_vars

\* The server runs what it has received and the network delivers; nothing
\* makes users act, asks time out or the server restart.
Fairness ==
  /\ \A r \in Requests : /\ WF_vars(HandleRequest(r))
                         /\ WF_vars(Respond(r))
                         /\ WF_vars(Arrive(r))
  /\ WF_vars(MasterStep)
  /\ \A w \in Workers : WF_vars(WorkerResolves(w) \/ WorkerThrows(w))

FairSpec == Spec /\ Fairness

-----------------------------------------------------------------------------
(* Safety.                                                                 *)

HasChosen(uuid, name) ==
  \E r \in Requests : /\ reqs[r] # NoUser /\ reqs[r].kind = "name"
                      /\ reqs[r].newName = name
                      /\ reqs[r].info # NoUser /\ reqs[r].info.uuid = uuid

\* A user is shown under the name that user has chosen or under none: names do
\* not spread to other users by way of the geolocations they share.
NamesAreOwn ==
  /\ \A u \in Uuids : sessions[u] # NoUser =>
       sessions[u].name = GuyIncognito \/ HasChosen(u, sessions[u].name)
  /\ \A b \in Browsers : cookies[b] # NoUser =>
       cookies[b].name = GuyIncognito \/ HasChosen(cookies[b].uuid, cookies[b].name)

\* Whatever comes between an ask and its answer (renames, resolutions, asks of
\* others for the same user, time-outs, restarts), a thread that is blocked on
\* the master has its ask in the mailbox, for the user and the address the
\* request goes on with when it gives up.
NobodyWaitsInVain ==
  \A r \in Requests : InPhase(r, "asking") =>
    \E i \in DOMAIN masterBox :
      masterBox[i] = [type |-> "MsgResolveIp", uuid |-> reqs[r].info.uuid,
                      ip |-> reqs[r].info.ip, sender |-> r]

\* "Ignore the resolution if either UUID or IP don't match"
\* (UserInfoMaster.scala:56): a resolution that comes late never takes a user
\* who has asked from another address since then back to the old one.
LateResolutionsAreIgnored ==
  [][\A u \in Uuids : OnMsgIpResolution /\ sessions[u] # NoUser =>
       sessions'[u].ip = sessions[u].ip]_vars

\* The lookups under way for a user at an address, in either mailbox.
Lookups(uuid, ip) ==
  (UNION {{<<w, i>> : i \in {k \in DOMAIN workerBox[w] :
             workerBox[w][k] = [uuid |-> uuid, ip |-> ip]}} : w \in Workers})
  \cup {<<-1, i>> : i \in {k \in DOMAIN masterBox :
            /\ masterBox[k].type = "MsgIpResolution"
            /\ masterBox[k].userInfo.uuid = uuid
            /\ masterBox[k].userInfo.ip = ip}}

\* "If we already know this uuid with this IP, return its UserInfo"
\* (UserInfoMaster.scala:40): however many pages and websockets a user opens,
\* one lookup is under way, as long as the user stays at one address.
OneLookupAtATime ==
  \A u \in Uuids, ip \in Ips : \A place, other \in Lookups(u, ip) : place = other

\* The user is known, but not where: "Otherwise it'll eventually be broadcast
\* once the IP is resolved" (HomeController.scala:31) needs a lookup.
IsUnresolved(u) == sessions[u] # NoUser /\ ~sessions[u].resolved

IsLookedUp(u) == Lookups(u, sessions[u].ip) # {}

\* Whatever users move, ask again and return while their lookups run, whoever
\* becomes known and unresolved has a lookup under way for the new address, and
\* it stays under way until the user is resolved, unless it fails or a rename
\* replaces the user.
LookupsAreNotForgotten ==
  [][\A u \in Uuids :
       (IsUnresolved(u) => IsLookedUp(u)) /\ ~(IsUnresolved(u) => IsLookedUp(u))' =>
         \/ \E w \in Workers : WorkerThrows(w) /\ Head(workerBox[w]).uuid = u
         \/ OnMsgUserInfoUpdate /\ Head(masterBox).userInfo.uuid = u]_vars

-----------------------------------------------------------------------------
(* Refinement: what all this amounts to for the requests.                  *)

StageOf(r) ==
  IF reqs[r] = NoUser \/ reqs[r].phase = "sent" THEN "before"
  ELSE IF reqs[r].phase = "asking" THEN "waiting"
  ELSE IF reqs[r].phase = "known" THEN "told" ELSE "over"

RequestOf(r) ==
  [stage |-> StageOf(r),
   info  |-> IF StageOf(r) \in {"waiting", "told"} THEN reqs[r].info ELSE NoUser]

MailOf(type) == {masterBox[i] : i \in {k \in DOMAIN masterBox : masterBox[k].type = type}}

ServiceAsks == {[sender |-> m.sender, uuid |-> m.uuid, ip |-> m.ip] :
                m \in MailOf("MsgResolveIp")}

ServiceRenames == {m.userInfo : m \in MailOf("MsgUserInfoUpdate")}

ServiceLookups ==
  (UNION {{workerBox[w][i] : i \in DOMAIN workerBox[w]} : w \in Workers})
  \cup {[uuid |-> m.userInfo.uuid, ip |-> m.userInfo.ip] : m \in MailOf("MsgIpResolution")}

Service == INSTANCE UserService WITH
  requests <- [r \in Requests |-> RequestOf(r)],
  asks     <- ServiceAsks,
  renames  <- ServiceRenames,
  known    <- sessions,
  lookups  <- ServiceLookups,
  places   <- {ip \in Ips : ip2geo[ip] # NoUser}

\* However asks, renames and resolutions of moving users overtake each other,
\* requests deal with the simple registry that UserService describes: every ask
\* is heard once and told what is known of its user where it came from, and no
\* lookup touches a user who has gone elsewhere.
ImplementsService == Service!Spec

-----------------------------------------------------------------------------
(* Liveness.                                                               *)

\* Every request is answered, although its thread blocks on the master.
EveryRequestIsAnswered ==
  \A r \in Requests : InPhase(r, "sent") ~> InPhase(r, "done")

\* "If we already have a resolved userInfo, then now is the time to broadcast
\* this new user login. Otherwise it'll eventually be broadcast once the IP is
\* resolved" (HomeController.scala:30-31): every load of the home page is
\* followed by a login broadcast of its user, before and after a restart, which
\* loses the lookups under way and the masters' users but not their cookies.
HomeLoginIsBroadcast ==
  \A r \in Requests, n \in 0 .. MaxRestarts :
    InPhase(r, "known") /\ reqs[r].kind = "home" /\ restarts = n ~>
      (reqs[r] # NoUser /\ reqs[r].announced) \/ restarts > n
=============================================================================
