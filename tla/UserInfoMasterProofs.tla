------------------------ MODULE UserInfoMasterProofs ------------------------
(***************************************************************************)
(* Theorems about UserInfoMaster for any number of browsers, requests,     *)
(* users, addresses and names, any failures and any number of restarts.    *)
(***************************************************************************)
EXTENDS UserInfoMaster, SequenceTheorems, TLAPS

\* Appending to a mailbox keeps its messages and adds one.
LEMMA AppendFacts ==
  ASSUME NEW S, NEW box \in Seq(S), NEW m \in S
  PROVE  /\ Append(box, m) \in Seq(S)
         /\ DOMAIN Append(box, m) = DOMAIN box \cup {Len(box) + 1}
         /\ \A i \in DOMAIN box : Append(box, m)[i] = box[i]
         /\ Append(box, m)[Len(box) + 1] = m
  OBVIOUS

\* Taking the head of a mailbox moves the other messages up one place.
LEMMA TailFacts ==
  ASSUME NEW S, NEW box \in Seq(S), box # << >>
  PROVE  /\ Head(box) \in S
         /\ Head(box) = box[1] /\ 1 \in DOMAIN box
         /\ Tail(box) \in Seq(S)
         /\ \A i \in DOMAIN Tail(box) : i + 1 \in DOMAIN box /\ Tail(box)[i] = box[i + 1]
  OBVIOUS

LEMMA ElementType ==
  ASSUME NEW S, NEW box \in Seq(S), NEW i \in DOMAIN box
  PROVE  box[i] \in S
  OBVIOUS

-----------------------------------------------------------------------------
(* Types.                                                                  *)

\* A user with a uuid: all but what is cached of an address.
User == [uuid : Uuids, ip : Ips, resolved : BOOLEAN, name : Names \cup {GuyIncognito}]

\* Once the master has been asked, a request has a user.
UserRequest ==
  {q \in Request : /\ q.cookie \in User \cup {NoUser}
                   /\ q.info \in User \cup {NoUser}
                   /\ q.phase = "sent" => q.info = NoUser
                   /\ q.phase \in {"asking", "known", "responded"} => q.info # NoUser}

Mail ==
  MsgResolveIp \cup [type : {"MsgIpResolution"}, userInfo : User]
               \cup [type : {"MsgUserInfoUpdate"}, userInfo : User]

\* The type invariant, strengthened by who has a uuid.
TypeInv ==
  /\ cookies \in [Browsers -> User \cup {NoUser}]
  /\ uuids \subseteq Uuids
  /\ reqs \in [Requests -> UserRequest \cup {NoUser}]
  /\ sessions \in [Uuids -> User \cup {NoUser}]
  /\ \A u \in Uuids : sessions[u] # NoUser => sessions[u].uuid = u
  /\ ip2geo \in [Ips -> UserInfo \cup {NoUser}]
  /\ masterBox \in Seq(Mail)
  /\ workerBox \in [Workers -> Seq(Lookup)]
  /\ nextRoutee \in Workers
  /\ restarts \in 0 .. MaxRestarts

LEMMA UserFacts ==
  /\ User \subseteq UserInfo
  /\ NoUser \notin User /\ NoUser \notin UserRequest
  /\ Mail \subseteq MasterMessage
<1>1. User \subseteq UserInfo
  BY DEF User, UserInfo
<1>2. Mail \subseteq MasterMessage
  BY <1>1 DEF Mail, MasterMessage, MsgIpResolution, MsgUserInfoUpdate
<1>3. UserRequest \subseteq Request
  BY DEF UserRequest
<1> QED BY <1>1, <1>2, <1>3, NoUserAssumption

LEMMA TypeInvImplies == TypeInv => TypeOK
<1> SUFFICES ASSUME TypeInv PROVE TypeOK
  OBVIOUS
<1>1. UserRequest \subseteq Request
  BY DEF UserRequest
<1>2. masterBox \in Seq(MasterMessage)
  BY UserFacts DEF TypeInv
<1> QED BY <1>1, <1>2, UserFacts DEF TypeInv, TypeOK

LEMMA UnresolvedType ==
  ASSUME NEW uuid \in Uuids, NEW ip \in Ips
  PROVE  /\ Unresolved(uuid, ip) \in User
         /\ Unresolved(uuid, ip).uuid = uuid /\ Unresolved(uuid, ip).ip = ip
         /\ Unresolved(uuid, ip).name = GuyIncognito
         /\ [Unresolved(uuid, ip) EXCEPT !.resolved = TRUE] \in User
         /\ [Unresolved(uuid, ip) EXCEPT !.resolved = TRUE].uuid = uuid
         /\ [Unresolved(uuid, ip) EXCEPT !.resolved = TRUE].name = GuyIncognito
  BY DEF Unresolved, User

\* The message at the head of the master's mailbox has one of three shapes.
LEMMA HeadType ==
  ASSUME TypeInv, masterBox # << >>
  PROVE  LET m == Head(masterBox) IN
         /\ m = masterBox[1] /\ 1 \in DOMAIN masterBox
         /\ m.type = "MsgResolveIp" => m \in MsgResolveIp
         /\ m.type \in {"MsgIpResolution", "MsgUserInfoUpdate"} => m.userInfo \in User
         /\ Tail(masterBox) \in Seq(Mail)
<1>1. /\ Head(masterBox) \in Mail /\ Tail(masterBox) \in Seq(Mail)
      /\ Head(masterBox) = masterBox[1] /\ 1 \in DOMAIN masterBox
  BY TailFacts DEF TypeInv
<1> QED BY <1>1 DEF Mail, MsgResolveIp

-----------------------------------------------------------------------------
(* What a step does to the requests.                                       *)

\* What a request keeps: its kind, its cookie, the name it asks for, and, once
\* it is known, the user it is of.
Keeps(q, new) ==
  /\ new.kind = q.kind /\ new.newName = q.newName /\ new.cookie = q.cookie
  /\ q.info # NoUser => new.info # NoUser /\ new.info.uuid = q.info.uuid
  /\ q.phase # "sent" => new.phase # "sent"

\* Request r goes on, as q.
GoesOn(r, q) ==
  /\ reqs[r] # NoUser /\ q \in UserRequest
  /\ Keeps(reqs[r], q)
  /\ reqs' = [reqs EXCEPT ![r] = q]

WithInfo(q, phase, info) == [q EXCEPT !.phase = phase, !.info = info]

WithPhase(q, phase) == [q EXCEPT !.phase = phase]

LEMMA InfoChange ==
  ASSUME NEW q \in UserRequest, NEW info \in User, NEW phase \in {"asking", "known", "responded"}
  PROVE  LET new == WithInfo(q, phase, info) IN
         /\ new \in UserRequest
         /\ new.kind = q.kind /\ new.newName = q.newName /\ new.cookie = q.cookie
         /\ new.info = info /\ new.info # NoUser /\ new.phase = phase
<1>1. User \subseteq UserInfo /\ NoUser \notin User
  BY UserFacts
<1> HIDE DEF User
<1> QED BY <1>1 DEF UserRequest, Request, WithInfo

LEMMA PhaseChange ==
  ASSUME NEW q \in UserRequest, NEW phase \in {"known", "responded", "done"},
         q.phase \in {"asking", "known", "responded"} \/ phase = "done"
  PROVE  LET new == WithPhase(q, phase) IN
         /\ new \in UserRequest
         /\ new.kind = q.kind /\ new.newName = q.newName /\ new.cookie = q.cookie
         /\ new.info = q.info /\ new.phase = phase
<1> HIDE DEF User
<1> QED BY DEF UserRequest, Request, WithPhase

LEMMA RequestType ==
  ASSUME TypeInv, NEW r \in Requests, reqs[r] # NoUser
  PROVE  /\ reqs[r] \in UserRequest
         /\ reqs[r].kind \in Kinds /\ reqs[r].browser \in Browsers
         /\ reqs[r].remoteAddress \in Ips
         /\ reqs[r].newName \in Names \cup {GuyIncognito}
         /\ reqs[r].cookie # NoUser => reqs[r].cookie \in User
         /\ reqs[r].info # NoUser => reqs[r].info \in User
         /\ reqs[r].phase = "sent" => reqs[r].info = NoUser
         /\ reqs[r].phase \in {"asking", "known", "responded"} => reqs[r].info \in User
<1>1. reqs[r] \in UserRequest
  BY DEF TypeInv
<1> HIDE DEF User
<1> QED BY <1>1 DEF UserRequest, Request

LEMMA GetIpType ==
  ASSUME TypeInv, NEW r \in Requests, reqs[r] # NoUser, NEW uuid \in Uuids
  PROVE  GetIp(uuid, r) \in Ips
  BY RequestType, UserInfoAssumption DEF GetIp

LEMMA FromSessionStep ==
  ASSUME TypeInv, NEW r \in Requests, FromSession(r)
  PROVE  \E q \in UserRequest :
           /\ GoesOn(r, q) /\ q.phase = "known"
           /\ reqs[r].cookie # NoUser /\ q.info \in User
           /\ q.info.uuid = reqs[r].cookie.uuid /\ q.info.name = reqs[r].cookie.name
           /\ q.info.ip = GetIp(q.info.uuid, r)
<1> DEFINE cookie == reqs[r].cookie
           ip     == GetIp(cookie.uuid, r)
           info   == [cookie EXCEPT !.ip = ip]
           q      == WithInfo(reqs[r], "known", info)
<1>1. reqs[r] # NoUser /\ reqs[r].phase = "sent" /\ cookie # NoUser
  BY DEF FromSession, InPhase
<1>2. reqs[r] \in UserRequest /\ cookie \in User /\ reqs[r].info = NoUser
  BY <1>1, RequestType
<1>3. cookie.uuid \in Uuids
  BY <1>2 DEF User
<1>4. ip \in Ips
  BY <1>1, <1>3, GetIpType
<1>5. info \in User /\ info.uuid = cookie.uuid /\ info.name = cookie.name /\ info.ip = ip
  BY <1>2, <1>4 DEF User
<1>6. reqs' = [reqs EXCEPT ![r] = q]
  BY <1>2 DEF FromSession, TypeInv, WithInfo
<1> HIDE DEF info, ip
<1>7. /\ q \in UserRequest /\ q.kind = reqs[r].kind /\ q.newName = reqs[r].newName
      /\ q.cookie = cookie /\ q.info = info /\ q.phase = "known"
  BY <1>2, <1>5, InfoChange
<1> HIDE DEF q
<1>8. GoesOn(r, q)
  BY <1>1, <1>2, <1>6, <1>7 DEF GoesOn, Keeps
<1> QED BY <1>1, <1>5, <1>7, <1>8 DEF ip

LEMMA AskMasterStep ==
  ASSUME TypeInv, NEW r \in Requests, NEW uuid \in Uuids, AskMaster(r, uuid)
  PROVE  \E q \in UserRequest, m \in MsgResolveIp :
           /\ GoesOn(r, q) /\ q.phase = "asking" /\ reqs[r].phase = "sent"
           /\ q.info \in User /\ q.info.uuid = uuid /\ q.info.name = GuyIncognito
           /\ m.sender = r /\ m.uuid = uuid
           /\ q.info.ip = GetIp(uuid, r) /\ m.ip = GetIp(uuid, r)
           /\ masterBox' = Append(masterBox, m)
<1> DEFINE ip   == GetIp(uuid, r)
           info == Unresolved(uuid, ip)
           q    == WithInfo(reqs[r], "asking", info)
           m    == [type |-> "MsgResolveIp", uuid |-> uuid, ip |-> ip, sender |-> r]
<1>1. reqs[r] # NoUser /\ reqs[r].phase = "sent"
  BY DEF AskMaster, InPhase
<1>2. reqs[r] \in UserRequest /\ reqs[r].info = NoUser
  BY <1>1, RequestType
<1>3. ip \in Ips
  BY <1>1, GetIpType
<1>4. info \in User /\ info.uuid = uuid /\ info.name = GuyIncognito /\ info.ip = ip
  BY <1>3, UnresolvedType
<1>5. reqs' = [reqs EXCEPT ![r] = q] /\ masterBox' = Append(masterBox, m)
  BY <1>2 DEF AskMaster, TypeInv, WithInfo
<1>6. m \in MsgResolveIp /\ m.sender = r /\ m.uuid = uuid /\ m.ip = ip
  BY <1>3 DEF MsgResolveIp
<1> HIDE DEF info, ip, m
<1>7. /\ q \in UserRequest /\ q.kind = reqs[r].kind /\ q.newName = reqs[r].newName
      /\ q.cookie = reqs[r].cookie /\ q.info = info /\ q.phase = "asking"
  BY <1>2, <1>4, InfoChange
<1> HIDE DEF q
<1>8. GoesOn(r, q)
  BY <1>1, <1>2, <1>5, <1>7 DEF GoesOn, Keeps
<1> QED BY <1>1, <1>4, <1>5, <1>6, <1>7, <1>8 DEF ip

\* Requests go on, but their users stay the same.
OnlyPhases ==
  /\ reqs' \in [Requests -> UserRequest \cup {NoUser}]
  /\ \A r \in Requests :
       IF reqs[r] = NoUser
       THEN reqs'[r] = NoUser
       ELSE /\ reqs'[r] # NoUser
            /\ Keeps(reqs[r], reqs'[r])
            /\ reqs'[r].info = reqs[r].info
            /\ reqs'[r].phase = "asking" => reqs[r].phase = "asking"

LEMMA UnchangedRequests ==
  ASSUME TypeInv, UNCHANGED reqs
  PROVE  OnlyPhases
  BY DEF OnlyPhases, Keeps, TypeInv

LEMMA OnePhase ==
  ASSUME TypeInv, NEW r \in Requests, reqs[r] # NoUser,
         reqs[r].phase \in {"asking", "known", "responded"},
         NEW phase \in {"known", "responded", "done"},
         reqs' = [reqs EXCEPT ![r] = WithPhase(reqs[r], phase)]
  PROVE  OnlyPhases
<1> DEFINE q == WithPhase(reqs[r], phase)
<1>1. reqs[r] \in UserRequest
  BY RequestType
<1>2. /\ q \in UserRequest /\ q.kind = reqs[r].kind /\ q.newName = reqs[r].newName
      /\ q.cookie = reqs[r].cookie /\ q.info = reqs[r].info /\ q.phase = phase
  BY <1>1, PhaseChange
<1> HIDE DEF q
<1>3. q # NoUser
  BY <1>2, UserFacts
<1>4. Keeps(reqs[r], q)
  BY <1>2 DEF Keeps
<1>5. reqs' \in [Requests -> UserRequest \cup {NoUser}]
  BY <1>2 DEF TypeInv, q
<1>6. \A s \in Requests : reqs'[s] = IF s = r THEN q ELSE reqs[s]
  BY DEF TypeInv, q
<1> QED BY <1>2, <1>3, <1>4, <1>5, <1>6 DEF OnlyPhases, Keeps

LEMMA AnnounceFacts ==
  ASSUME NEW rs \in [Requests -> UserRequest \cup {NoUser}], NEW uuid, NEW r \in Requests
  PROVE  LET q == Announce(rs, uuid)[r] IN
         /\ q \in UserRequest \cup {NoUser}
         /\ rs[r] = NoUser => q = NoUser
         /\ rs[r] # NoUser =>
              /\ q # NoUser /\ q.kind = rs[r].kind /\ q.newName = rs[r].newName
              /\ q.cookie = rs[r].cookie /\ q.info = rs[r].info /\ q.phase = rs[r].phase
<1> DEFINE q   == Announce(rs, uuid)[r]
           new == [rs[r] EXCEPT !.announced = TRUE]
<1>1. q = new \/ q = rs[r]
  BY DEF Announce
<1>2. CASE rs[r] = NoUser
  BY <1>2 DEF Announce
<1>3. CASE rs[r] # NoUser
  <2> HIDE DEF User
  <2>1. rs[r] \in UserRequest
    BY <1>3
  <2>2. /\ new \in UserRequest /\ new.kind = rs[r].kind /\ new.newName = rs[r].newName
        /\ new.cookie = rs[r].cookie /\ new.info = rs[r].info /\ new.phase = rs[r].phase
    BY <2>1 DEF UserRequest, Request
  <2>3. NoUser \notin UserRequest
    BY UserFacts
  <2> HIDE DEF new, q
  <2>4. QED BY <1>1, <1>3, <2>1, <2>2, <2>3 DEF q
<1> QED BY <1>2, <1>3

LEMMA AnnounceStep ==
  ASSUME TypeInv, NEW uuid, reqs' = Announce(reqs, uuid)
  PROVE  OnlyPhases
<1>1. reqs \in [Requests -> UserRequest \cup {NoUser}]
  BY DEF TypeInv
<1>2. reqs' \in [Requests -> UserRequest \cup {NoUser}]
  <2>1. reqs' = [r \in Requests |-> Announce(reqs, uuid)[r]]
    BY DEF Announce
  <2> QED BY <1>1, <2>1, AnnounceFacts
<1> QED BY <1>1, <1>2, AnnounceFacts DEF OnlyPhases, Keeps

LEMMA AskTimesOutStep ==
  ASSUME TypeInv, NEW r \in Requests, AskTimesOut(r)
  PROVE  OnlyPhases
<1>1. reqs[r] # NoUser /\ reqs[r].phase = "asking"
  BY DEF AskTimesOut, InPhase
<1>2. reqs' = [reqs EXCEPT ![r] = WithPhase(reqs[r], "known")]
  BY DEF AskTimesOut, WithPhase, TypeInv
<1> QED BY <1>1, <1>2, OnePhase

LEMMA RespondHomeStep ==
  ASSUME TypeInv, NEW r \in Requests, RespondHome(r)
  PROVE  OnlyPhases
<1> DEFINE responded == [reqs EXCEPT ![r] = WithPhase(reqs[r], "responded")]
<1>1. reqs[r] # NoUser /\ reqs[r].phase = "known"
  BY DEF RespondHome, InPhase
<1>2. \/ reqs' = responded
      \/ reqs' = Announce(responded, reqs[r].info.uuid)
  BY DEF RespondHome, WithPhase, TypeInv
<1>3. CASE reqs' = responded
  BY <1>1, <1>3, OnePhase
<1>4. CASE reqs' = Announce(responded, reqs[r].info.uuid)
  <2> DEFINE q == WithPhase(reqs[r], "responded")
  <2>1. reqs[r] \in UserRequest
    BY <1>1, RequestType
  <2>2. /\ q \in UserRequest /\ q.kind = reqs[r].kind /\ q.newName = reqs[r].newName
        /\ q.cookie = reqs[r].cookie /\ q.info = reqs[r].info /\ q.phase = "responded"
    BY <1>1, <2>1, PhaseChange
  <2> HIDE DEF q
  <2>3. responded \in [Requests -> UserRequest \cup {NoUser}]
    BY <2>2 DEF TypeInv, q
  <2>4. \A s \in Requests : responded[s] = IF s = r THEN q ELSE reqs[s]
    BY DEF TypeInv, q
  <2>5. q # NoUser
    BY <2>2, UserFacts
  <2> HIDE DEF responded
  <2>6. reqs' \in [Requests -> UserRequest \cup {NoUser}]
    <3>1. reqs' = [s \in Requests |-> Announce(responded, reqs[r].info.uuid)[s]]
      BY <1>4 DEF Announce
    <3> QED BY <2>3, <3>1, AnnounceFacts
  <2>7. ASSUME NEW s \in Requests
        PROVE  IF reqs[s] = NoUser
               THEN reqs'[s] = NoUser
               ELSE /\ reqs'[s] # NoUser
                    /\ Keeps(reqs[s], reqs'[s])
                    /\ reqs'[s].info = reqs[s].info
                    /\ reqs'[s].phase = "asking" => reqs[s].phase = "asking"
    <3>1. /\ responded[s] = NoUser => reqs'[s] = NoUser
          /\ responded[s] # NoUser =>
               /\ reqs'[s] # NoUser /\ reqs'[s].kind = responded[s].kind
               /\ reqs'[s].newName = responded[s].newName
               /\ reqs'[s].cookie = responded[s].cookie
               /\ reqs'[s].info = responded[s].info /\ reqs'[s].phase = responded[s].phase
      BY <1>4, <2>3, AnnounceFacts
    <3>2. CASE s = r
      BY <1>1, <2>2, <2>4, <2>5, <3>1, <3>2 DEF Keeps
    <3>3. CASE s # r
      BY <2>4, <3>1, <3>3 DEF Keeps
    <3> QED BY <3>2, <3>3
  <2> QED BY <2>6, <2>7 DEF OnlyPhases
<1> QED BY <1>2, <1>3, <1>4

LEMMA RespondStep ==
  ASSUME TypeInv, NEW r \in Requests, RespondSolve(r) \/ RespondWs(r) \/ Arrive(r)
  PROVE  OnlyPhases
<1>1. CASE RespondSolve(r)
  <2>1. reqs[r] # NoUser /\ reqs[r].phase = "known"
    BY <1>1 DEF RespondSolve, InPhase
  <2>2. reqs' = [reqs EXCEPT ![r] = WithPhase(reqs[r], "responded")]
    BY <1>1 DEF RespondSolve, WithPhase, TypeInv
  <2> QED BY <2>1, <2>2, OnePhase
<1>2. CASE RespondWs(r)
  <2>1. reqs[r] # NoUser /\ reqs[r].phase = "known"
    BY <1>2 DEF RespondWs, InPhase
  <2>2. reqs' = [reqs EXCEPT ![r] = WithPhase(reqs[r], "done")]
    BY <1>2 DEF RespondWs, WithPhase, TypeInv
  <2> QED BY <2>1, <2>2, OnePhase
<1>3. CASE Arrive(r)
  <2>1. reqs[r] # NoUser /\ reqs[r].phase = "responded"
    BY <1>3 DEF Arrive, InPhase
  <2>2. reqs' = [reqs EXCEPT ![r] = WithPhase(reqs[r], "done")]
    BY <1>3 DEF Arrive, WithPhase, TypeInv
  <2> QED BY <2>1, <2>2, OnePhase
<1> QED BY <1>1, <1>2, <1>3

LEMMA RespondNameStep ==
  ASSUME TypeInv, NEW r \in Requests, RespondName(r)
  PROVE  \E q \in UserRequest, userInfo \in User :
           /\ GoesOn(r, q) /\ q.phase = "responded" /\ q.kind = "name"
           /\ q.info = userInfo /\ userInfo.name = q.newName
           /\ reqs[r].info # NoUser
           /\ userInfo.uuid = reqs[r].info.uuid /\ userInfo.ip = reqs[r].info.ip
           /\ masterBox' = Append(masterBox, [type |-> "MsgUserInfoUpdate",
                                              userInfo |-> userInfo])
<1> DEFINE userInfo == [reqs[r].info EXCEPT !.name = reqs[r].newName]
           q        == WithInfo(reqs[r], "responded", userInfo)
<1>1. reqs[r] # NoUser /\ reqs[r].phase = "known" /\ reqs[r].kind = "name"
  BY DEF RespondName, InPhase
<1>2. /\ reqs[r] \in UserRequest /\ reqs[r].info \in User
      /\ reqs[r].newName \in Names \cup {GuyIncognito}
  BY <1>1, RequestType
<1>3. /\ userInfo \in User /\ userInfo.uuid = reqs[r].info.uuid
      /\ userInfo.name = reqs[r].newName /\ userInfo.ip = reqs[r].info.ip
      /\ reqs[r].info # NoUser
  BY <1>2, UserFacts DEF User
<1>4. /\ reqs' = [reqs EXCEPT ![r] = q]
      /\ masterBox' = Append(masterBox, [type |-> "MsgUserInfoUpdate", userInfo |-> userInfo])
  BY <1>2 DEF RespondName, TypeInv, WithInfo
<1> HIDE DEF userInfo
<1>5. /\ q \in UserRequest /\ q.kind = reqs[r].kind /\ q.newName = reqs[r].newName
      /\ q.cookie = reqs[r].cookie /\ q.info = userInfo /\ q.info # NoUser
      /\ q.phase = "responded"
  BY <1>2, <1>3, InfoChange
<1> HIDE DEF q
<1>6. GoesOn(r, q)
  BY <1>1, <1>3, <1>4, <1>5 DEF GoesOn, Keeps
<1> QED BY <1>1, <1>3, <1>4, <1>5, <1>6

\* A restart ends requests, but for those whose response is on its way.
LEMMA RestartStep ==
  ASSUME TypeInv, Restart
  PROVE  /\ OnlyPhases
         /\ \A r \in Requests :
              \/ /\ reqs'[r] = reqs[r]
                 /\ reqs[r] = NoUser \/ reqs[r].phase = "responded"
              \/ reqs[r] # NoUser /\ reqs'[r] # NoUser /\ reqs'[r].phase = "done"
<1>1. PICK arriving \in SUBSET {r \in Requests : InPhase(r, "responded")} :
        reqs' = [r \in Requests |-> IF reqs[r] = NoUser \/ r \in arriving THEN reqs[r]
                                    ELSE WithPhase(reqs[r], "done")]
  BY DEF Restart, WithPhase
<1>2. ASSUME NEW r \in Requests, reqs[r] # NoUser
      PROVE  LET q == WithPhase(reqs[r], "done") IN
             /\ q \in UserRequest /\ q.kind = reqs[r].kind /\ q.newName = reqs[r].newName
             /\ q.cookie = reqs[r].cookie /\ q.info = reqs[r].info /\ q.phase = "done"
             /\ q # NoUser
  BY <1>2, RequestType, PhaseChange, UserFacts
<1>3. ASSUME NEW r \in Requests
      PROVE  \/ /\ reqs'[r] = reqs[r]
                /\ reqs[r] = NoUser \/ reqs[r].phase = "responded"
             \/ /\ reqs[r] # NoUser
                /\ reqs'[r] = WithPhase(reqs[r], "done")
  BY <1>1 DEF InPhase
<1>4. ASSUME NEW r \in Requests
      PROVE  /\ reqs'[r] \in UserRequest \cup {NoUser}
             /\ IF reqs[r] = NoUser
                THEN reqs'[r] = NoUser
                ELSE /\ reqs'[r] # NoUser
                     /\ Keeps(reqs[r], reqs'[r])
                     /\ reqs'[r].info = reqs[r].info
                     /\ reqs'[r].phase = "asking" => reqs[r].phase = "asking"
  BY <1>2, <1>3 DEF Keeps, TypeInv
<1>5. reqs' \in [Requests -> UserRequest \cup {NoUser}]
  BY <1>1, <1>4
<1>6. OnlyPhases
  BY <1>4, <1>5 DEF OnlyPhases
<1> QED BY <1>2, <1>3, <1>6

-----------------------------------------------------------------------------
(* The mailbox, and who waits for an answer.                               *)

\* A MsgResolveIp comes from a request that waits as that user, or does not
\* wait any more.
AskInv ==
  \A i \in DOMAIN masterBox : masterBox[i].type = "MsgResolveIp" =>
    LET q == reqs[masterBox[i].sender] IN
    /\ q # NoUser /\ q.phase # "sent"
    /\ q.phase = "asking" => q.info.uuid = masterBox[i].uuid

\* The mailbox has no other messages than before, or m besides.
NoNewMail ==
  /\ masterBox' \in Seq(Mail)
  /\ \A i \in DOMAIN masterBox' : \E j \in DOMAIN masterBox : masterBox'[i] = masterBox[j]

OneNewMail(m) ==
  /\ masterBox' \in Seq(Mail)
  /\ \A i \in DOMAIN masterBox' :
       \/ \E j \in DOMAIN masterBox : masterBox'[i] = masterBox[j]
       \/ masterBox'[i] = m

LEMMA MailSteps ==
  ASSUME TypeInv
  PROVE  /\ UNCHANGED masterBox => NoNewMail
         /\ masterBox # << >> /\ masterBox' = Tail(masterBox) => NoNewMail
         /\ masterBox' = << >> => NoNewMail
         /\ \A m \in Mail : masterBox' = Append(masterBox, m) => OneNewMail(m)
<1>1. masterBox \in Seq(Mail)
  BY DEF TypeInv
<1> HIDE DEF Mail
<1>2. UNCHANGED masterBox => NoNewMail
  BY <1>1 DEF NoNewMail
<1>3. masterBox # << >> /\ masterBox' = Tail(masterBox) => NoNewMail
  BY <1>1, TailFacts DEF NoNewMail
<1>4. masterBox' = << >> => NoNewMail
  BY DEF NoNewMail
<1>5. ASSUME NEW m \in Mail, masterBox' = Append(masterBox, m)
      PROVE  OneNewMail(m)
  BY <1>1, <1>5, AppendFacts DEF OneNewMail
<1> QED BY <1>2, <1>3, <1>4, <1>5

\* The reply to a MsgResolveIp changes nothing or lets its sender go on as the
\* user it asked for.
LEMMA ReplyStep ==
  ASSUME TypeInv, AskInv, masterBox # << >>, Head(masterBox).type = "MsgResolveIp",
         NEW info \in User, info.uuid = Head(masterBox).uuid,
         Reply(Head(masterBox).sender, info)
  PROVE  \/ UNCHANGED reqs
         \/ \E r \in Requests, q \in UserRequest :
              GoesOn(r, q) /\ q.phase = "known" /\ q.info = info
<1> DEFINE m == Head(masterBox)
           r == m.sender
           q == WithInfo(reqs[r], "known", info)
<1>1. m \in MsgResolveIp /\ m = masterBox[1] /\ 1 \in DOMAIN masterBox
  BY HeadType
<1>2. r \in Requests
  BY <1>1 DEF MsgResolveIp
<1>3. CASE ~InPhase(r, "asking")
  BY <1>3 DEF Reply
<1>4. CASE InPhase(r, "asking")
  <2>1. reqs[r] # NoUser /\ reqs[r].phase = "asking"
    BY <1>4 DEF InPhase
  <2>2. reqs[r] \in UserRequest
    BY <1>2, <2>1, RequestType
  <2>3. reqs[r].info.uuid = info.uuid
    BY <1>1, <2>1 DEF AskInv
  <2>4. reqs' = [reqs EXCEPT ![r] = q]
    BY <1>2, <1>4, <2>2 DEF Reply, WithInfo, TypeInv
  <2>5. /\ q \in UserRequest /\ q.kind = reqs[r].kind /\ q.newName = reqs[r].newName
        /\ q.cookie = reqs[r].cookie /\ q.info = info /\ q.info # NoUser /\ q.phase = "known"
    BY <2>2, InfoChange
  <2> HIDE DEF q
  <2>6. GoesOn(r, q)
    BY <2>1, <2>3, <2>4, <2>5 DEF GoesOn, Keeps
  <2> QED BY <1>2, <2>5, <2>6
<1> QED BY <1>3, <1>4

LEMMA KnownType ==
  ASSUME TypeInv, NEW uuid \in Uuids, NEW ip \in Ips
  PROVE  /\ sessions[uuid] # NoUser =>
              sessions[uuid] \in User /\ sessions[uuid].uuid = uuid
         /\ ip2geo[ip] # NoUser =>
              /\ [ip2geo[ip] EXCEPT !.uuid = uuid] \in User
              /\ [ip2geo[ip] EXCEPT !.uuid = uuid].uuid = uuid
              /\ [ip2geo[ip] EXCEPT !.uuid = uuid].name = ip2geo[ip].name
              /\ [ip2geo[ip] EXCEPT !.uuid = uuid].ip = ip2geo[ip].ip
<1>1. ASSUME ip2geo[ip] # NoUser
      PROVE  /\ [ip2geo[ip] EXCEPT !.uuid = uuid] \in User
             /\ [ip2geo[ip] EXCEPT !.uuid = uuid].uuid = uuid
             /\ [ip2geo[ip] EXCEPT !.uuid = uuid].name = ip2geo[ip].name
             /\ [ip2geo[ip] EXCEPT !.uuid = uuid].ip = ip2geo[ip].ip
  <2>1. ip2geo[ip] \in UserInfo
    BY <1>1 DEF TypeInv
  <2> QED BY <2>1 DEF UserInfo, User
<1> QED BY <1>1 DEF TypeInv

\* The master takes a MsgResolveIp: it replies with a user whose uuid is the
\* one asked for, whom it either knew, or now knows, with the name cached for
\* the address or none.
LEMMA ResolveStep ==
  ASSUME TypeInv, OnMsgResolveIp
  PROVE  LET m == Head(masterBox) IN
         /\ m \in MsgResolveIp /\ masterBox # << >> /\ m.type = "MsgResolveIp"
         /\ masterBox' = Tail(masterBox)
         /\ UNCHANGED <<cookies, uuids, restarts, ip2geo>>
         /\ \E info \in User :
              /\ info.uuid = m.uuid
              /\ Reply(m.sender, info)
              /\ \/ UNCHANGED sessions /\ sessions[m.uuid] = info
                 \/ /\ sessions' = [sessions EXCEPT ![m.uuid] = info]
                    /\ \/ info.name = GuyIncognito /\ info.ip = m.ip
                       \/ /\ ip2geo[m.ip] # NoUser
                          /\ info.name = ip2geo[m.ip].name /\ info.ip = ip2geo[m.ip].ip
         /\ nextRoutee' \in Workers
         /\ workerBox' \in [Workers -> Seq(Lookup)]
<1> DEFINE m == Head(masterBox)
<1>1. masterBox # << >> /\ m.type = "MsgResolveIp"
  BY DEF OnMsgResolveIp, Receive
<1>2. m \in MsgResolveIp
  BY <1>1, HeadType
<1>3. m.uuid \in Uuids /\ m.ip \in Ips
  BY <1>2 DEF MsgResolveIp
<1>4. /\ masterBox' = Tail(masterBox) /\ UNCHANGED <<cookies, uuids, restarts, ip2geo>>
      /\ ResolveKnown(m) \/ ResolveFromCache(m) \/ ResolveByLookup(m)
  BY DEF OnMsgResolveIp, Receive
<1>5. nextRoutee \in Workers /\ workerBox \in [Workers -> Seq(Lookup)]
  BY DEF TypeInv
<1> HIDE DEF m
<1>6. CASE ResolveKnown(m)
  <2>1. sessions[m.uuid] # NoUser /\ Reply(m.sender, sessions[m.uuid])
    BY <1>6 DEF ResolveKnown, KnownAt
  <2>2. UNCHANGED <<sessions, workerBox, nextRoutee>>
    BY <1>6 DEF ResolveKnown
  <2>3. sessions[m.uuid] \in User /\ sessions[m.uuid].uuid = m.uuid
    BY <1>3, <2>1, KnownType
  <2> QED BY <1>1, <1>2, <1>4, <1>5, <2>1, <2>2, <2>3 DEF m
<1>7. CASE ResolveFromCache(m)
  <2> DEFINE info == [ip2geo[m.ip] EXCEPT !.uuid = m.uuid]
  <2>1. /\ ip2geo[m.ip] # NoUser /\ Reply(m.sender, info)
        /\ sessions' = [sessions EXCEPT ![m.uuid] = info]
        /\ UNCHANGED <<workerBox, nextRoutee>>
    BY <1>7 DEF ResolveFromCache
  <2>2. /\ info \in User /\ info.uuid = m.uuid
        /\ info.name = ip2geo[m.ip].name /\ info.ip = ip2geo[m.ip].ip
    BY <1>3, <2>1, KnownType
  <2> HIDE DEF info
  <2> QED BY <1>1, <1>2, <1>4, <1>5, <2>1, <2>2 DEF m
<1>8. CASE ResolveByLookup(m)
  <2> DEFINE info == Unresolved(m.uuid, m.ip)
             job  == [uuid |-> m.uuid, ip |-> m.ip]
  <2>1. /\ Reply(m.sender, info)
        /\ sessions' = [sessions EXCEPT ![m.uuid] = info]
        /\ workerBox' = [workerBox EXCEPT ![nextRoutee] = Append(workerBox[nextRoutee], job)]
        /\ nextRoutee' = (nextRoutee + 1) % 2
    BY <1>8 DEF ResolveByLookup, StartLookup
  <2>2. info \in User /\ info.uuid = m.uuid /\ info.name = GuyIncognito /\ info.ip = m.ip
    BY <1>3, UnresolvedType
  <2>3. job \in Lookup
    BY <1>3 DEF Lookup
  <2> HIDE DEF info, job
  <2>4. workerBox' \in [Workers -> Seq(Lookup)]
    BY <1>5, <2>1, <2>3
  <2>5. nextRoutee' \in Workers
    BY <1>5, <2>1 DEF Workers
  <2> QED BY <1>1, <1>2, <1>4, <2>1, <2>2, <2>4, <2>5 DEF m
<1> QED BY <1>4, <1>6, <1>7, <1>8

\* A resolution that is current is of a user the master knows at that address,
\* and only that session changes.
LEMMA ResolutionStep ==
  ASSUME TypeInv, OnMsgIpResolution
  PROVE  LET m == Head(masterBox)
             info == m.userInfo
         IN
         /\ masterBox # << >> /\ m.type = "MsgIpResolution" /\ info \in User
         /\ masterBox' = Tail(masterBox)
         /\ UNCHANGED <<cookies, uuids, restarts, workerBox, nextRoutee>>
         /\ OnlyPhases
         /\ \/ UNCHANGED <<sessions, ip2geo>>
            \/ /\ KnownAt(info.uuid, info.ip)
               /\ sessions' = [sessions EXCEPT ![info.uuid] = info]
               /\ \E geo \in UserInfo : /\ geo.name = info.name /\ geo.ip = info.ip
                                        /\ ip2geo' = [ip2geo EXCEPT ![info.ip] = geo]
<1> DEFINE m    == Head(masterBox)
           info == m.userInfo
           geo  == [info EXCEPT !.uuid = NoUuid]
<1>1. masterBox # << >> /\ m.type = "MsgIpResolution"
  BY DEF OnMsgIpResolution, Receive
<1>2. info \in User
  BY <1>1, HeadType
<1>3. geo \in UserInfo /\ geo.name = info.name /\ geo.ip = info.ip
  BY <1>2 DEF User, UserInfo
<1>4. /\ masterBox' = Tail(masterBox)
      /\ UNCHANGED <<cookies, uuids, restarts, workerBox, nextRoutee>>
      /\ \/ UNCHANGED <<sessions, ip2geo, reqs>>
         \/ /\ KnownAt(info.uuid, info.ip)
            /\ sessions' = [sessions EXCEPT ![info.uuid] = info]
            /\ ip2geo' = [ip2geo EXCEPT ![info.ip] = geo]
            /\ reqs' = Announce(reqs, info.uuid)
  BY DEF OnMsgIpResolution, Receive, IsCurrent
<1>5. OnlyPhases
  BY <1>4, UnchangedRequests, AnnounceStep
<1> HIDE DEF geo
<1> QED BY <1>1, <1>2, <1>3, <1>4, <1>5

-----------------------------------------------------------------------------
(* The types and the askers are kept by every step.                        *)

\* A request is sent with the browser's cookie.
LEMMA SendStep ==
  ASSUME TypeInv, NEW r \in Requests, NEW b \in Browsers, NEW kind \in Kinds,
         NEW ip \in RemoteIps[b], NEW name \in Names \cup {GuyIncognito},
         Send(r, b, kind, ip, name)
  PROVE  \E q \in UserRequest :
           /\ reqs[r] = NoUser
           /\ reqs' = [reqs EXCEPT ![r] = q]
           /\ q.cookie = cookies[b] /\ q.info = NoUser
           /\ UNCHANGED <<cookies, uuids, actors, restarts>>
<1> DEFINE q == [kind |-> kind, browser |-> b, cookie |-> cookies[b], remoteAddress |-> ip,
                 newName |-> name, phase |-> "sent", info |-> NoUser, announced |-> FALSE]
<1>1. ip \in Ips
  BY UserInfoAssumption
<1>2. cookies[b] \in User \cup {NoUser} /\ User \subseteq UserInfo
  BY UserFacts DEF TypeInv
<1>3. q \in UserRequest
  <2> HIDE DEF User
  <2> QED BY <1>1, <1>2 DEF UserRequest, Request
<1>4. /\ reqs[r] = NoUser /\ reqs' = [reqs EXCEPT ![r] = q]
      /\ UNCHANGED <<cookies, uuids, actors, restarts>>
  BY DEF Send
<1>5. q.cookie = cookies[b] /\ q.info = NoUser
  OBVIOUS
<1> HIDE DEF q
<1> QED BY <1>3, <1>4, <1>5

\* The two ways to send a request.
LEMMA SendCases ==
  ASSUME TypeInv,
         \/ \E r \in Requests, b \in Browsers, kind \in Kinds \ {"name"} :
              \E ip \in RemoteIps[b] : Send(r, b, kind, ip, GuyIncognito)
         \/ \E r \in Requests, b \in Browsers, name \in Names :
              \E ip \in RemoteIps[b] : SubmitName(r, b, ip, name)
  PROVE  \E r \in Requests, b \in Browsers, q \in UserRequest :
           /\ reqs[r] = NoUser
           /\ reqs' = [reqs EXCEPT ![r] = q]
           /\ q.cookie = cookies[b] /\ q.info = NoUser
           /\ UNCHANGED <<cookies, uuids, actors, restarts>>
<1>1. PICK r \in Requests, b \in Browsers, kind \in Kinds, name \in Names \cup {GuyIncognito} :
        \E ip \in RemoteIps[b] : Send(r, b, kind, ip, name)
  BY DEF SubmitName
<1> QED BY <1>1, SendStep

LEMMA WorkerStep ==
  ASSUME TypeInv, NEW w \in Workers, WorkerResolves(w) \/ WorkerThrows(w)
  PROVE  /\ workerBox' \in [Workers -> Seq(Lookup)]
         /\ UNCHANGED <<cookies, uuids, reqs, sessions, ip2geo, nextRoutee, restarts>>
         /\ \/ UNCHANGED masterBox
            \/ \E info \in User :
                 /\ info.name = GuyIncognito
                 /\ masterBox' = Append(masterBox, [type |-> "MsgIpResolution",
                                                    userInfo |-> info])
<1> DEFINE job  == Head(workerBox[w])
           info == [Unresolved(job.uuid, job.ip) EXCEPT !.resolved = TRUE]
<1>1. workerBox[w] # << >> /\ workerBox' = [workerBox EXCEPT ![w] = Tail(workerBox[w])]
  BY DEF WorkerResolves, WorkerThrows
<1>2. workerBox[w] \in Seq(Lookup)
  BY DEF TypeInv
<1>3. job \in Lookup /\ Tail(workerBox[w]) \in Seq(Lookup)
  BY <1>1, <1>2
<1>4. workerBox' \in [Workers -> Seq(Lookup)]
  BY <1>1, <1>3 DEF TypeInv
<1>5. info \in User /\ info.name = GuyIncognito
  BY <1>3, UnresolvedType DEF Lookup
<1>6. \/ UNCHANGED masterBox
      \/ masterBox' = Append(masterBox, [type |-> "MsgIpResolution", userInfo |-> info])
  BY DEF WorkerResolves, WorkerThrows
<1>7. UNCHANGED <<cookies, uuids, reqs, sessions, ip2geo, nextRoutee, restarts>>
  BY DEF WorkerResolves, WorkerThrows
<1> HIDE DEF info
<1> QED BY <1>4, <1>5, <1>6, <1>7

LEMMA UserMail ==
  ASSUME NEW info \in User
  PROVE  /\ [type |-> "MsgIpResolution", userInfo |-> info] \in Mail
         /\ [type |-> "MsgUserInfoUpdate", userInfo |-> info] \in Mail
  BY DEF Mail

\* An update reaches the session of its user, and no geolocation: those are
\* kept by address, and no uuid is one.
LEMMA UpdateStep ==
  ASSUME TypeInv, OnMsgUserInfoUpdate
  PROVE  LET m == Head(masterBox)
             info == m.userInfo
         IN
         /\ masterBox # << >> /\ m.type = "MsgUserInfoUpdate" /\ info \in User
         /\ masterBox' = Tail(masterBox)
         /\ UNCHANGED <<cookies, uuids, restarts, reqs, ip2geo, workerBox, nextRoutee>>
         /\ sessions' = [u \in Uuids |-> UpdatedSession(u, info)]
<1> DEFINE m    == Head(masterBox)
           info == m.userInfo
<1>1. masterBox # << >> /\ m.type = "MsgUserInfoUpdate"
  BY DEF OnMsgUserInfoUpdate, Receive
<1>2. info \in User
  BY <1>1, HeadType
<1>3. /\ masterBox' = Tail(masterBox)
      /\ UNCHANGED <<cookies, uuids, restarts, reqs, workerBox, nextRoutee>>
      /\ sessions' = [u \in Uuids |-> UpdatedSession(u, info)]
      /\ ip2geo' = [ip \in Ips |-> UpdatedGeo(ip, info)]
  BY DEF OnMsgUserInfoUpdate, Receive
<1>4. info.uuid \in Uuids
  BY <1>2 DEF User
<1>5. ip2geo' = [ip \in Ips |-> ip2geo[ip]]
  BY <1>3, <1>4, UuidAssumption DEF UpdatedGeo
<1>6. UNCHANGED ip2geo
  BY <1>5 DEF TypeInv
<1> QED BY <1>1, <1>2, <1>3, <1>6

LEMMA TypeInvInit == Init => TypeInv /\ AskInv
<1> SUFFICES ASSUME Init PROVE TypeInv /\ AskInv
  OBVIOUS
<1>1. masterBox = << >> /\ masterBox \in Seq(Mail)
  BY DEF Init, InitActors
<1>2. AskInv
  BY <1>1 DEF AskInv
<1>3. TypeInv
  BY <1>1, UserInfoAssumption DEF Init, InitActors, TypeInv, Workers
<1> QED BY <1>2, <1>3

LEMMA TypeInvNext == TypeInv /\ AskInv /\ [Next]_vars => TypeInv'
<1> SUFFICES ASSUME TypeInv, AskInv, [Next]_vars
             PROVE  TypeInv'
  OBVIOUS
<1>1. ASSUME NEW r \in Requests, NEW q \in UserRequest, reqs' = [reqs EXCEPT ![r] = q]
      PROVE  reqs' \in [Requests -> UserRequest \cup {NoUser}]
  BY <1>1 DEF TypeInv
<1>2. ASSUME \E r \in Requests, b \in Browsers, q \in UserRequest :
               /\ reqs[r] = NoUser
               /\ reqs' = [reqs EXCEPT ![r] = q]
               /\ q.cookie = cookies[b] /\ q.info = NoUser
               /\ UNCHANGED <<cookies, uuids, actors, restarts>>
      PROVE  TypeInv'
  BY <1>1, <1>2 DEF TypeInv, actors
<1>3. ASSUME NEW r \in Requests, FromSession(r)
      PROVE  TypeInv'
  <2>1. reqs' \in [Requests -> UserRequest \cup {NoUser}]
    BY <1>1, <1>3, FromSessionStep DEF GoesOn
  <2> QED BY <1>3, <2>1 DEF TypeInv, FromSession, actors
<1>4. ASSUME NEW r \in Requests, NEW uuid \in Uuids, AskMaster(r, uuid)
      PROVE  TypeInv'
  <2>1. PICK q \in UserRequest, m \in MsgResolveIp :
          GoesOn(r, q) /\ masterBox' = Append(masterBox, m)
    BY <1>4, AskMasterStep
  <2>2. reqs' \in [Requests -> UserRequest \cup {NoUser}]
    BY <1>1, <2>1 DEF GoesOn
  <2>3. m \in Mail
    BY DEF Mail
  <2>4. masterBox' \in Seq(Mail)
    BY <2>1, <2>3, MailSteps DEF OneNewMail
  <2> QED BY <1>4, <2>2, <2>4 DEF TypeInv, AskMaster
<1>5. ASSUME NEW r \in Requests, AskTimesOut(r) \/ RespondHome(r) \/ RespondSolve(r) \/ RespondWs(r)
      PROVE  TypeInv'
  <2>1. OnlyPhases
    BY <1>5, AskTimesOutStep, RespondHomeStep, RespondStep
  <2>2. UNCHANGED <<cookies, uuids, actors, restarts>>
    BY <1>5 DEF AskTimesOut, RespondHome, RespondSolve, RespondWs
  <2> QED BY <2>1, <2>2 DEF TypeInv, OnlyPhases, actors
<1>6. ASSUME NEW r \in Requests, Arrive(r)
      PROVE  TypeInv'
  <2>1. OnlyPhases
    BY <1>6, RespondStep
  <2>2. reqs[r] # NoUser /\ reqs[r].phase = "responded"
    BY <1>6 DEF Arrive, InPhase
  <2>3. reqs[r].info \in User
    BY <2>2, RequestType
  <2>4. cookies' \in [Browsers -> User \cup {NoUser}]
    BY <1>6, <2>3 DEF TypeInv, Arrive
  <2> QED BY <1>6, <2>1, <2>4 DEF TypeInv, OnlyPhases, Arrive, actors
<1>7. ASSUME NEW r \in Requests, RespondName(r)
      PROVE  TypeInv'
  <2>1. PICK q \in UserRequest, userInfo \in User :
          /\ GoesOn(r, q)
          /\ masterBox' = Append(masterBox, [type |-> "MsgUserInfoUpdate",
                                             userInfo |-> userInfo])
    BY <1>7, RespondNameStep
  <2>2. reqs' \in [Requests -> UserRequest \cup {NoUser}]
    BY <1>1, <2>1 DEF GoesOn
  <2>3. masterBox' \in Seq(Mail)
    BY <2>1, UserMail, MailSteps DEF OneNewMail
  <2> QED BY <1>7, <2>2, <2>3 DEF TypeInv, RespondName
<1>8. CASE OnMsgUserInfoUpdate
  <2> DEFINE info == Head(masterBox).userInfo
  <2>1. /\ info \in User
        /\ masterBox # << >> /\ masterBox' = Tail(masterBox)
        /\ UNCHANGED <<cookies, uuids, restarts, reqs, ip2geo, workerBox, nextRoutee>>
        /\ sessions' = [u \in Uuids |-> UpdatedSession(u, info)]
    BY <1>8, UpdateStep
  <2>2. masterBox' \in Seq(Mail)
    BY <2>1, MailSteps DEF NoNewMail
  <2> HIDE DEF info
  <2>3. ASSUME NEW u \in Uuids
        PROVE  /\ sessions'[u] \in User \cup {NoUser}
               /\ sessions'[u] # NoUser => sessions'[u].uuid = u
    BY <2>1 DEF TypeInv, UpdatedSession
  <2>4. sessions' \in [Uuids -> User \cup {NoUser}]
    BY <2>1, <2>3
  <2> QED BY <2>1, <2>2, <2>3, <2>4 DEF TypeInv
<1>9. CASE OnMsgResolveIp
  <2> DEFINE m == Head(masterBox)
  <2>1. /\ m \in MsgResolveIp /\ m.type = "MsgResolveIp"
        /\ masterBox # << >> /\ masterBox' = Tail(masterBox)
        /\ UNCHANGED <<cookies, uuids, restarts, ip2geo>>
        /\ nextRoutee' \in Workers
        /\ workerBox' \in [Workers -> Seq(Lookup)]
    BY <1>9, ResolveStep
  <2>2. PICK info \in User :
          /\ info.uuid = m.uuid
          /\ Reply(m.sender, info)
          /\ UNCHANGED sessions \/ sessions' = [sessions EXCEPT ![m.uuid] = info]
    BY <1>9, ResolveStep
  <2>3. masterBox' \in Seq(Mail)
    BY <2>1, MailSteps DEF NoNewMail
  <2>4. reqs' \in [Requests -> UserRequest \cup {NoUser}]
    BY <1>1, <2>1, <2>2, ReplyStep DEF GoesOn, TypeInv
  <2>5. m.uuid \in Uuids
    BY <2>1 DEF MsgResolveIp
  <2> HIDE DEF m
  <2>6. /\ sessions' \in [Uuids -> User \cup {NoUser}]
        /\ \A u \in Uuids : sessions'[u] # NoUser => sessions'[u].uuid = u
    BY <2>2, <2>5 DEF TypeInv
  <2> QED BY <2>1, <2>3, <2>4, <2>6 DEF TypeInv
<1>10. CASE OnMsgIpResolution
  <2> DEFINE info == Head(masterBox).userInfo
  <2>1. /\ info \in User
        /\ masterBox # << >> /\ masterBox' = Tail(masterBox)
        /\ UNCHANGED <<cookies, uuids, restarts, workerBox, nextRoutee>>
        /\ OnlyPhases
    BY <1>10, ResolutionStep
  <2>2. \/ UNCHANGED <<sessions, ip2geo>>
        \/ /\ sessions' = [sessions EXCEPT ![info.uuid] = info]
           /\ \E geo \in UserInfo : ip2geo' = [ip2geo EXCEPT ![info.ip] = geo]
    BY <1>10, ResolutionStep
  <2>3. masterBox' \in Seq(Mail)
    BY <2>1, MailSteps DEF NoNewMail
  <2>4. info.uuid \in Uuids /\ info.ip \in Ips
    BY <2>1 DEF User
  <2> HIDE DEF info
  <2>5. /\ sessions' \in [Uuids -> User \cup {NoUser}]
        /\ \A u \in Uuids : sessions'[u] # NoUser => sessions'[u].uuid = u
        /\ ip2geo' \in [Ips -> UserInfo \cup {NoUser}]
    BY <2>1, <2>2, <2>4 DEF TypeInv
  <2> QED BY <2>1, <2>3, <2>5 DEF TypeInv, OnlyPhases
<1>11. ASSUME NEW w \in Workers, WorkerResolves(w) \/ WorkerThrows(w)
       PROVE  TypeInv'
  <2>1. /\ workerBox' \in [Workers -> Seq(Lookup)]
        /\ UNCHANGED <<cookies, uuids, reqs, sessions, ip2geo, nextRoutee, restarts>>
    BY <1>11, WorkerStep
  <2>2. masterBox' \in Seq(Mail)
    BY <1>11, WorkerStep, UserMail, MailSteps DEF NoNewMail, OneNewMail
  <2> QED BY <2>1, <2>2 DEF TypeInv
<1>12. CASE Restart
  <2>1. OnlyPhases
    BY <1>12, RestartStep
  <2>2. masterBox' \in Seq(Mail)
    BY <1>12 DEF Restart
  <2>3. restarts' \in 0 .. MaxRestarts
    BY <1>12, UserInfoAssumption DEF Restart, TypeInv
  <2>4. /\ workerBox' \in [Workers -> Seq(Lookup)] /\ nextRoutee' \in Workers
        /\ sessions' \in [Uuids -> User \cup {NoUser}]
        /\ \A u \in Uuids : sessions'[u] # NoUser => sessions'[u].uuid = u
        /\ ip2geo' \in [Ips -> UserInfo \cup {NoUser}]
    BY <1>12 DEF Restart, Workers
  <2> QED BY <1>12, <2>1, <2>2, <2>3, <2>4 DEF TypeInv, OnlyPhases, Restart
<1>13. CASE UNCHANGED vars
  BY <1>13 DEF TypeInv, vars
<1> QED BY <1>2, <1>3, <1>4, <1>5, <1>6, <1>7, <1>8, <1>9, <1>10, <1>11, <1>12, <1>13,
           SendCases DEF Next, HandleRequest, Respond, MasterStep

\* Askers stay what they are when nobody else asks.
LEMMA AskersStay ==
  ASSUME TypeInv, AskInv, OnlyPhases,
         NoNewMail \/ \E m : m.type # "MsgResolveIp" /\ OneNewMail(m)
  PROVE  AskInv'
<1> SUFFICES ASSUME NEW i \in DOMAIN masterBox', masterBox'[i].type = "MsgResolveIp"
             PROVE  LET q == reqs'[masterBox'[i].sender] IN
                    /\ q # NoUser /\ q.phase # "sent"
                    /\ q.phase = "asking" => q.info.uuid = masterBox'[i].uuid
  BY DEF AskInv
<1>1. PICK j \in DOMAIN masterBox : masterBox'[i] = masterBox[j]
  BY DEF NoNewMail, OneNewMail
<1> DEFINE m == masterBox[j]
           r == m.sender
<1>2. m.type = "MsgResolveIp"
  BY <1>1
<1>3. r \in Requests
  <2>1. m \in Mail
    BY ElementType DEF TypeInv
  <2> QED BY <1>2, <2>1 DEF Mail, MsgResolveIp
<1>4. /\ reqs[r] # NoUser /\ reqs[r].phase # "sent"
      /\ reqs[r].phase = "asking" => reqs[r].info.uuid = m.uuid
  BY <1>2 DEF AskInv
<1> HIDE DEF m
<1>5. /\ reqs'[r] # NoUser /\ reqs'[r].phase # "sent" /\ reqs'[r].info = reqs[r].info
      /\ reqs'[r].phase = "asking" => reqs[r].phase = "asking"
  BY <1>3, <1>4 DEF OnlyPhases, Keeps
<1> QED BY <1>1, <1>4, <1>5 DEF m

\* The same when a request goes on without asking.
LEMMA AskersGoOn ==
  ASSUME TypeInv, AskInv, NEW r \in Requests, NEW q \in UserRequest,
         GoesOn(r, q), q.phase # "asking", q.phase # "sent",
         NoNewMail \/ \E m : m.type # "MsgResolveIp" /\ OneNewMail(m)
  PROVE  AskInv'
<1> SUFFICES ASSUME NEW i \in DOMAIN masterBox', masterBox'[i].type = "MsgResolveIp"
             PROVE  LET p == reqs'[masterBox'[i].sender] IN
                    /\ p # NoUser /\ p.phase # "sent"
                    /\ p.phase = "asking" => p.info.uuid = masterBox'[i].uuid
  BY DEF AskInv
<1>1. PICK j \in DOMAIN masterBox : masterBox'[i] = masterBox[j]
  BY DEF NoNewMail, OneNewMail
<1> DEFINE m == masterBox[j]
           s == m.sender
<1>2. m.type = "MsgResolveIp"
  BY <1>1
<1>3. s \in Requests
  <2>1. m \in Mail
    BY ElementType DEF TypeInv
  <2> QED BY <1>2, <2>1 DEF Mail, MsgResolveIp
<1>4. /\ reqs[s] # NoUser /\ reqs[s].phase # "sent"
      /\ reqs[s].phase = "asking" => reqs[s].info.uuid = m.uuid
  BY <1>2 DEF AskInv
<1>5. reqs'[s] = IF s = r THEN q ELSE reqs[s]
  BY <1>3 DEF GoesOn, TypeInv
<1>6. q # NoUser
  BY UserFacts
<1> HIDE DEF m
<1> QED BY <1>1, <1>4, <1>5, <1>6 DEF m

LEMMA AskInvNext == TypeInv /\ AskInv /\ [Next]_vars => AskInv'
<1> SUFFICES ASSUME TypeInv, AskInv, [Next]_vars
             PROVE  AskInv'
  OBVIOUS
<1>1. ASSUME \E r \in Requests, b \in Browsers, q \in UserRequest :
               /\ reqs[r] = NoUser
               /\ reqs' = [reqs EXCEPT ![r] = q]
               /\ q.cookie = cookies[b] /\ q.info = NoUser
               /\ UNCHANGED <<cookies, uuids, actors, restarts>>
      PROVE  AskInv'
  <2>1. PICK r \in Requests, q \in UserRequest :
          /\ reqs[r] = NoUser /\ reqs' = [reqs EXCEPT ![r] = q] /\ masterBox' = masterBox
    BY <1>1 DEF actors
  <2>2. \A s : s # r => reqs'[s] = reqs[s]
    BY <2>1 DEF TypeInv
  <2> QED BY <2>1, <2>2 DEF AskInv
<1>2. ASSUME NEW r \in Requests, FromSession(r)
      PROVE  AskInv'
  <2>1. PICK q \in UserRequest : GoesOn(r, q) /\ q.phase = "known"
    BY <1>2, FromSessionStep
  <2>2. NoNewMail
    BY <1>2, MailSteps DEF FromSession, actors
  <2> QED BY <2>1, <2>2, AskersGoOn
<1>3. ASSUME NEW r \in Requests, NEW uuid \in Uuids, AskMaster(r, uuid)
      PROVE  AskInv'
  <2>1. PICK q \in UserRequest, m \in MsgResolveIp :
          /\ GoesOn(r, q) /\ q.phase = "asking" /\ reqs[r].phase = "sent"
          /\ q.info.uuid = uuid /\ m.sender = r /\ m.uuid = uuid
          /\ masterBox' = Append(masterBox, m)
    BY <1>3, AskMasterStep
  <2>2. OneNewMail(m)
    <3>1. m \in Mail
      BY DEF Mail
    <3> QED BY <2>1, <3>1, MailSteps
  <2>3. reqs'[r] = q /\ q # NoUser /\ \A s : s # r => reqs'[s] = reqs[s]
    BY <2>1, UserFacts DEF GoesOn, TypeInv
  <2> SUFFICES ASSUME NEW i \in DOMAIN masterBox', masterBox'[i].type = "MsgResolveIp"
               PROVE  LET p == reqs'[masterBox'[i].sender] IN
                      /\ p # NoUser /\ p.phase # "sent"
                      /\ p.phase = "asking" => p.info.uuid = masterBox'[i].uuid
    BY DEF AskInv
  <2>4. CASE masterBox'[i] = m
    BY <2>1, <2>3, <2>4
  <2>5. CASE \E j \in DOMAIN masterBox : masterBox'[i] = masterBox[j]
    <3>1. PICK j \in DOMAIN masterBox : masterBox'[i] = masterBox[j]
      BY <2>5
    <3>2. /\ reqs[masterBox[j].sender] # NoUser /\ reqs[masterBox[j].sender].phase # "sent"
          /\ reqs[masterBox[j].sender].phase = "asking" =>
               reqs[masterBox[j].sender].info.uuid = masterBox[j].uuid
      BY <3>1 DEF AskInv
    <3>3. masterBox[j].sender # r
      BY <2>1, <3>2
    <3> QED BY <2>3, <3>1, <3>2, <3>3
  <2> QED BY <2>2, <2>4, <2>5 DEF OneNewMail
<1>4. ASSUME NEW r \in Requests,
             AskTimesOut(r) \/ RespondHome(r) \/ RespondSolve(r) \/ RespondWs(r) \/ Arrive(r)
      PROVE  AskInv'
  <2>1. OnlyPhases
    BY <1>4, AskTimesOutStep, RespondHomeStep, RespondStep
  <2>2. UNCHANGED masterBox
    BY <1>4 DEF AskTimesOut, RespondHome, RespondSolve, RespondWs, Arrive, actors
  <2> QED BY <2>1, <2>2, MailSteps, AskersStay
<1>5. ASSUME NEW r \in Requests, RespondName(r)
      PROVE  AskInv'
  <2>1. PICK q \in UserRequest, userInfo \in User :
          /\ GoesOn(r, q) /\ q.phase = "responded"
          /\ masterBox' = Append(masterBox, [type |-> "MsgUserInfoUpdate",
                                             userInfo |-> userInfo])
    BY <1>5, RespondNameStep
  <2>2. OneNewMail([type |-> "MsgUserInfoUpdate", userInfo |-> userInfo])
    BY <2>1, UserMail, MailSteps
  <2> QED BY <2>1, <2>2, AskersGoOn
<1>6. CASE OnMsgUserInfoUpdate
  <2>1. masterBox # << >> /\ masterBox' = Tail(masterBox) /\ UNCHANGED reqs
    BY <1>6, UpdateStep
  <2> QED BY <2>1, UnchangedRequests, MailSteps, AskersStay
<1>7. CASE OnMsgResolveIp
  <2>1. /\ masterBox # << >> /\ masterBox' = Tail(masterBox)
        /\ Head(masterBox).type = "MsgResolveIp"
        /\ \E info \in User : info.uuid = Head(masterBox).uuid /\ Reply(Head(masterBox).sender, info)
    BY <1>7, ResolveStep
  <2>2. NoNewMail
    BY <2>1, MailSteps
  <2>3. \/ UNCHANGED reqs
        \/ \E r \in Requests, q \in UserRequest : GoesOn(r, q) /\ q.phase = "known"
    BY <2>1, ReplyStep
  <2>4. CASE UNCHANGED reqs
    BY <2>2, <2>4, UnchangedRequests, AskersStay
  <2>5. CASE \E r \in Requests, q \in UserRequest : GoesOn(r, q) /\ q.phase = "known"
    <3>1. PICK r \in Requests, q \in UserRequest : GoesOn(r, q) /\ q.phase = "known"
      BY <2>5
    <3> QED BY <2>2, <3>1, AskersGoOn
  <2> QED BY <2>3, <2>4, <2>5
<1>8. CASE OnMsgIpResolution
  <2>1. masterBox # << >> /\ masterBox' = Tail(masterBox) /\ OnlyPhases
    BY <1>8, ResolutionStep
  <2> QED BY <2>1, MailSteps, AskersStay
<1>9. ASSUME NEW w \in Workers, WorkerResolves(w) \/ WorkerThrows(w)
      PROVE  AskInv'
  <2>1. UNCHANGED reqs
    BY <1>9, WorkerStep
  <2>2. NoNewMail \/ \E m : m.type # "MsgResolveIp" /\ OneNewMail(m)
    <3>1. CASE UNCHANGED masterBox
      BY <3>1, MailSteps
    <3>2. CASE \E info \in User :
                 masterBox' = Append(masterBox, [type |-> "MsgIpResolution", userInfo |-> info])
      <4>1. PICK info \in User :
              masterBox' = Append(masterBox, [type |-> "MsgIpResolution", userInfo |-> info])
        BY <3>2
      <4>2. OneNewMail([type |-> "MsgIpResolution", userInfo |-> info])
        BY <4>1, UserMail, MailSteps
      <4> QED BY <4>2
    <3> QED BY <1>9, <3>1, <3>2, WorkerStep
  <2> QED BY <2>1, <2>2, UnchangedRequests, AskersStay
<1>10. CASE Restart
  BY <1>10 DEF Restart, AskInv
<1>11. CASE UNCHANGED vars
  BY <1>11 DEF AskInv, vars
<1> QED BY <1>1, <1>2, <1>3, <1>4, <1>5, <1>6, <1>7, <1>8, <1>9, <1>10, <1>11,
           SendCases DEF Next, HandleRequest, Respond, MasterStep

\* The state of the registry, of its requests and of the cookies is well typed
\* at all times.
THEOREM TypeCorrect == Spec => []TypeOK
<1>1. Spec => [](TypeInv /\ AskInv)
  BY TypeInvInit, TypeInvNext, AskInvNext, PTL DEF Spec
<1>2. TypeInv => TypeOK
  BY TypeInvImplies
<1> QED BY <1>1, <1>2, PTL

\* A resolution that comes late does not take a user back to an old address.
THEOREM LateIgnored == Spec => LateResolutionsAreIgnored
<1>1. TypeInv /\ [Next]_vars =>
        [\A u \in Uuids : OnMsgIpResolution /\ sessions[u] # NoUser =>
           sessions'[u].ip = sessions[u].ip]_vars
  <2> SUFFICES ASSUME TypeInv, NEW u \in Uuids, OnMsgIpResolution, sessions[u] # NoUser
               PROVE  sessions'[u].ip = sessions[u].ip
    OBVIOUS
  <2> DEFINE info == Head(masterBox).userInfo
  <2>1. \/ UNCHANGED sessions
        \/ KnownAt(info.uuid, info.ip) /\ sessions' = [sessions EXCEPT ![info.uuid] = info]
    BY ResolutionStep
  <2> QED BY <2>1 DEF KnownAt, TypeInv
<1>2. Spec => [](TypeInv /\ AskInv)
  BY TypeInvInit, TypeInvNext, AskInvNext, PTL DEF Spec
<1> QED BY <1>1, <1>2, PTL DEF Spec, LateResolutionsAreIgnored

-----------------------------------------------------------------------------
(* Names.                                                                  *)

\* A user has no name but one that this user has chosen.
Own(info) == info.name = GuyIncognito \/ HasChosen(info.uuid, info.name)

SessionsOwn == \A u \in Uuids : sessions[u] # NoUser => Own(sessions[u])

CookiesOwn == \A b \in Browsers : cookies[b] # NoUser => Own(cookies[b])

RequestsOwn ==
  \A r \in Requests : reqs[r] # NoUser =>
    /\ reqs[r].cookie # NoUser => Own(reqs[r].cookie)
    /\ reqs[r].info # NoUser => Own(reqs[r].info)

\* Resolutions, and what is kept of them by address, have no name at all.
MailOwn ==
  \A i \in DOMAIN masterBox :
    /\ masterBox[i].type = "MsgUserInfoUpdate" => Own(masterBox[i].userInfo)
    /\ masterBox[i].type = "MsgIpResolution" => masterBox[i].userInfo.name = GuyIncognito

GeoAnonymous == \A ip \in Ips : ip2geo[ip] # NoUser => ip2geo[ip].name = GuyIncognito

NameInv == SessionsOwn /\ CookiesOwn /\ RequestsOwn /\ MailOwn /\ GeoAnonymous

\* No request is forgotten, nor whose it is.
Lasting == \A r \in Requests : reqs[r] # NoUser => reqs'[r] # NoUser /\ Keeps(reqs[r], reqs'[r])

\* Own in the next state.
OwnNext(info) ==
  \/ info.name = GuyIncognito
  \/ \E r \in Requests : /\ reqs'[r] # NoUser /\ reqs'[r].kind = "name"
                         /\ reqs'[r].newName = info.name
                         /\ reqs'[r].info # NoUser /\ reqs'[r].info.uuid = info.uuid

LEMMA OwnLasts ==
  ASSUME Lasting, NEW info, Own(info)
  PROVE  OwnNext(info)
  BY DEF Lasting, Keeps, Own, OwnNext, HasChosen

LEMMA PartsLast ==
  ASSUME Lasting, NameInv
  PROVE  /\ UNCHANGED sessions => SessionsOwn'
         /\ UNCHANGED cookies => CookiesOwn'
         /\ UNCHANGED ip2geo => GeoAnonymous'
         /\ NoNewMail => MailOwn'
<1>1. ASSUME UNCHANGED sessions
      PROVE  SessionsOwn'
  <2>1. \A u \in Uuids : sessions'[u] # NoUser => OwnNext(sessions'[u])
    BY <1>1, OwnLasts DEF NameInv, SessionsOwn
  <2> QED BY <2>1 DEF SessionsOwn, OwnNext, Own, HasChosen
<1>2. ASSUME UNCHANGED cookies
      PROVE  CookiesOwn'
  <2>1. \A b \in Browsers : cookies'[b] # NoUser => OwnNext(cookies'[b])
    BY <1>2, OwnLasts DEF NameInv, CookiesOwn
  <2> QED BY <2>1 DEF CookiesOwn, OwnNext, Own, HasChosen
<1>3. UNCHANGED ip2geo => GeoAnonymous'
  BY DEF NameInv, GeoAnonymous
<1>4. ASSUME NoNewMail
      PROVE  MailOwn'
  <2>1. \A i \in DOMAIN masterBox' :
          /\ masterBox'[i].type = "MsgUserInfoUpdate" => OwnNext(masterBox'[i].userInfo)
          /\ masterBox'[i].type = "MsgIpResolution" => masterBox'[i].userInfo.name = GuyIncognito
    BY <1>4, OwnLasts DEF NameInv, MailOwn, NoNewMail
  <2> QED BY <2>1 DEF MailOwn, OwnNext, Own, HasChosen
<1> QED BY <1>1, <1>2, <1>3, <1>4

\* A new message that is no resolution and no update, or one that says nothing
\* wrong, keeps the mailbox right.
LEMMA NewMailOwn ==
  ASSUME Lasting, NameInv, NEW m, OneNewMail(m),
         m.type = "MsgUserInfoUpdate" => OwnNext(m.userInfo),
         m.type = "MsgIpResolution" => m.userInfo.name = GuyIncognito
  PROVE  MailOwn'
<1>1. \A i \in DOMAIN masterBox' :
        /\ masterBox'[i].type = "MsgUserInfoUpdate" => OwnNext(masterBox'[i].userInfo)
        /\ masterBox'[i].type = "MsgIpResolution" => masterBox'[i].userInfo.name = GuyIncognito
  <2> SUFFICES ASSUME NEW i \in DOMAIN masterBox'
               PROVE  /\ masterBox'[i].type = "MsgUserInfoUpdate" => OwnNext(masterBox'[i].userInfo)
                      /\ masterBox'[i].type = "MsgIpResolution" =>
                           masterBox'[i].userInfo.name = GuyIncognito
    OBVIOUS
  <2>1. CASE masterBox'[i] = m
    BY <2>1
  <2>2. CASE \E j \in DOMAIN masterBox : masterBox'[i] = masterBox[j]
    BY <2>2, OwnLasts DEF NameInv, MailOwn
  <2> QED BY <2>1, <2>2 DEF OneNewMail
<1> QED BY <1>1 DEF MailOwn, OwnNext, Own, HasChosen

LEMMA PhasesOwn ==
  ASSUME NameInv, OnlyPhases
  PROVE  Lasting /\ RequestsOwn'
<1>1. Lasting
  BY DEF Lasting, OnlyPhases
<1>2. ASSUME NEW r \in Requests, reqs'[r] # NoUser
      PROVE  /\ reqs'[r].cookie # NoUser => OwnNext(reqs'[r].cookie)
             /\ reqs'[r].info # NoUser => OwnNext(reqs'[r].info)
  <2>1. reqs[r] # NoUser /\ reqs'[r].info = reqs[r].info /\ reqs'[r].cookie = reqs[r].cookie
    BY <1>2 DEF OnlyPhases, Keeps
  <2> QED BY <1>1, <2>1, OwnLasts DEF NameInv, RequestsOwn
<1>3. RequestsOwn'
  BY <1>2 DEF RequestsOwn, OwnNext, Own, HasChosen
<1> QED BY <1>1, <1>3

LEMMA GoesOnLasting ==
  ASSUME TypeInv, NEW r \in Requests, NEW q \in UserRequest, GoesOn(r, q)
  PROVE  Lasting
<1>1. \A s \in Requests : reqs'[s] = IF s = r THEN q ELSE reqs[s]
  BY DEF GoesOn, TypeInv
<1>2. Keeps(reqs[r], q) /\ q # NoUser
  BY UserFacts DEF GoesOn
<1> QED BY <1>1, <1>2 DEF Lasting, Keeps

LEMMA GoesOnOwn ==
  ASSUME TypeInv, NameInv, NEW r \in Requests, NEW q \in UserRequest, GoesOn(r, q),
         OwnNext(q.info)
  PROVE  RequestsOwn'
<1>1. \A s \in Requests : reqs'[s] = IF s = r THEN q ELSE reqs[s]
  BY DEF GoesOn, TypeInv
<1>2. Lasting
  BY GoesOnLasting
<1>3. ASSUME NEW s \in Requests, reqs'[s] # NoUser
      PROVE  /\ reqs'[s].cookie # NoUser => OwnNext(reqs'[s].cookie)
             /\ reqs'[s].info # NoUser => OwnNext(reqs'[s].info)
  <2>1. CASE s = r
    <3>1. reqs[r] # NoUser /\ q.cookie = reqs[r].cookie
      BY DEF GoesOn, Keeps
    <3> QED BY <1>1, <1>2, <2>1, <3>1, OwnLasts DEF NameInv, RequestsOwn
  <2>2. CASE s # r
    BY <1>1, <1>2, <1>3, <2>2, OwnLasts DEF NameInv, RequestsOwn
  <2> QED BY <2>1, <2>2
<1> QED BY <1>3 DEF RequestsOwn, OwnNext, Own, HasChosen

LEMMA NameInvInit == Init => NameInv
  BY DEF Init, InitActors, NameInv, SessionsOwn, CookiesOwn, RequestsOwn, MailOwn, GeoAnonymous

LEMMA NameInvNext == TypeInv /\ AskInv /\ NameInv /\ [Next]_vars => NameInv'
<1> SUFFICES ASSUME TypeInv, AskInv, NameInv, [Next]_vars
             PROVE  NameInv'
  OBVIOUS
<1>1. ASSUME \E r \in Requests, b \in Browsers, q \in UserRequest :
               /\ reqs[r] = NoUser
               /\ reqs' = [reqs EXCEPT ![r] = q]
               /\ q.cookie = cookies[b] /\ q.info = NoUser
               /\ UNCHANGED <<cookies, uuids, actors, restarts>>
      PROVE  NameInv'
  <2>1. PICK r \in Requests, b \in Browsers, q \in UserRequest :
          /\ reqs[r] = NoUser
          /\ reqs' = [reqs EXCEPT ![r] = q]
          /\ q.cookie = cookies[b] /\ q.info = NoUser
          /\ UNCHANGED <<cookies, sessions, ip2geo, masterBox>>
    BY <1>1 DEF actors
  <2>2. \A s \in Requests : reqs'[s] = IF s = r THEN q ELSE reqs[s]
    BY <2>1 DEF TypeInv
  <2>3. Lasting
    BY <2>1, <2>2 DEF Lasting, Keeps
  <2>4. ASSUME NEW s \in Requests, reqs'[s] # NoUser
        PROVE  /\ reqs'[s].cookie # NoUser => OwnNext(reqs'[s].cookie)
               /\ reqs'[s].info # NoUser => OwnNext(reqs'[s].info)
    <3>1. CASE s = r
      BY <2>1, <2>2, <2>3, <3>1, OwnLasts DEF NameInv, CookiesOwn
    <3>2. CASE s # r
      BY <2>2, <2>3, <2>4, <3>2, OwnLasts DEF NameInv, RequestsOwn
    <3> QED BY <3>1, <3>2
  <2>5. RequestsOwn'
    BY <2>4 DEF RequestsOwn, OwnNext, Own, HasChosen
  <2> QED BY <2>1, <2>3, <2>5, PartsLast, MailSteps DEF NameInv
<1>2. ASSUME NEW r \in Requests, FromSession(r)
      PROVE  NameInv'
  <2>1. PICK q \in UserRequest :
          /\ GoesOn(r, q) /\ reqs[r].cookie # NoUser
          /\ q.info.uuid = reqs[r].cookie.uuid /\ q.info.name = reqs[r].cookie.name
    BY <1>2, FromSessionStep
  <2>2. Lasting
    BY <2>1, GoesOnLasting
  <2>3. OwnNext(reqs[r].cookie)
    BY <2>1, <2>2, OwnLasts DEF NameInv, RequestsOwn, GoesOn
  <2>4. OwnNext(q.info)
    BY <2>1, <2>3 DEF OwnNext
  <2>5. UNCHANGED <<cookies, sessions, ip2geo, masterBox>>
    BY <1>2 DEF FromSession, actors
  <2> QED BY <2>1, <2>2, <2>4, <2>5, GoesOnOwn, PartsLast, MailSteps DEF NameInv
<1>3. ASSUME NEW r \in Requests, NEW uuid \in Uuids, AskMaster(r, uuid)
      PROVE  NameInv'
  <2>1. PICK q \in UserRequest, m \in MsgResolveIp :
          /\ GoesOn(r, q) /\ q.info.name = GuyIncognito
          /\ masterBox' = Append(masterBox, m)
    BY <1>3, AskMasterStep
  <2>2. OneNewMail(m)
    <3>1. m \in Mail
      BY DEF Mail
    <3> QED BY <2>1, <3>1, MailSteps
  <2>3. Lasting /\ RequestsOwn'
    BY <2>1, GoesOnLasting, GoesOnOwn DEF OwnNext
  <2>4. m.type = "MsgResolveIp"
    BY DEF MsgResolveIp
  <2>5. MailOwn'
    BY <2>2, <2>3, <2>4, NewMailOwn
  <2>6. UNCHANGED <<cookies, sessions, ip2geo>>
    BY <1>3 DEF AskMaster
  <2> QED BY <2>3, <2>5, <2>6, PartsLast DEF NameInv
<1>4. ASSUME NEW r \in Requests, AskTimesOut(r) \/ RespondHome(r) \/ RespondSolve(r) \/ RespondWs(r)
      PROVE  NameInv'
  <2>1. OnlyPhases
    BY <1>4, AskTimesOutStep, RespondHomeStep, RespondStep
  <2>2. UNCHANGED <<cookies, sessions, ip2geo, masterBox>>
    BY <1>4 DEF AskTimesOut, RespondHome, RespondSolve, RespondWs, actors
  <2> QED BY <2>1, <2>2, PhasesOwn, PartsLast, MailSteps DEF NameInv
<1>5. ASSUME NEW r \in Requests, Arrive(r)
      PROVE  NameInv'
  <2>1. OnlyPhases
    BY <1>5, RespondStep
  <2>2. Lasting /\ RequestsOwn'
    BY <2>1, PhasesOwn
  <2>3. reqs[r] # NoUser /\ reqs[r].phase = "responded"
    BY <1>5 DEF Arrive, InPhase
  <2>4. reqs[r].info \in User /\ reqs[r].info # NoUser
    BY <2>3, RequestType, UserFacts
  <2>5. OwnNext(reqs[r].info)
    BY <2>2, <2>3, <2>4, OwnLasts DEF NameInv, RequestsOwn
  <2>6. \A b \in Browsers : cookies'[b] # NoUser => OwnNext(cookies'[b])
    <3>1. \A b \in Browsers : cookies'[b] = reqs[r].info \/ cookies'[b] = cookies[b]
      BY <1>5 DEF Arrive, TypeInv
    <3> QED BY <2>2, <2>5, <3>1, OwnLasts DEF NameInv, CookiesOwn
  <2>7. CookiesOwn'
    BY <2>6 DEF CookiesOwn, OwnNext, Own, HasChosen
  <2>8. UNCHANGED <<sessions, ip2geo, masterBox>>
    BY <1>5 DEF Arrive, actors
  <2> QED BY <2>2, <2>7, <2>8, PartsLast, MailSteps DEF NameInv
<1>6. ASSUME NEW r \in Requests, RespondName(r)
      PROVE  NameInv'
  <2>1. PICK q \in UserRequest, userInfo \in User :
          /\ GoesOn(r, q) /\ q.kind = "name"
          /\ q.info = userInfo /\ userInfo.name = q.newName
          /\ masterBox' = Append(masterBox, [type |-> "MsgUserInfoUpdate",
                                             userInfo |-> userInfo])
    BY <1>6, RespondNameStep
  <2>2. reqs'[r] = q /\ q # NoUser /\ userInfo # NoUser
    BY <2>1, UserFacts DEF GoesOn, TypeInv
  <2>3. OwnNext(userInfo)
    BY <2>1, <2>2 DEF OwnNext
  <2>4. Lasting /\ RequestsOwn'
    BY <2>1, <2>3, GoesOnLasting, GoesOnOwn
  <2>5. OneNewMail([type |-> "MsgUserInfoUpdate", userInfo |-> userInfo])
    BY <2>1, UserMail, MailSteps
  <2>6. MailOwn'
    BY <2>3, <2>4, <2>5, NewMailOwn
  <2>7. UNCHANGED <<cookies, sessions, ip2geo>>
    BY <1>6 DEF RespondName
  <2> QED BY <2>4, <2>6, <2>7, PartsLast DEF NameInv
<1>7. CASE OnMsgUserInfoUpdate
  <2> DEFINE m    == Head(masterBox)
             info == m.userInfo
  <2>1. /\ masterBox # << >> /\ m.type = "MsgUserInfoUpdate" /\ info \in User
        /\ masterBox' = Tail(masterBox)
        /\ UNCHANGED <<cookies, reqs, ip2geo>>
        /\ sessions' = [u \in Uuids |-> UpdatedSession(u, info)]
    BY <1>7, UpdateStep
  <2>2. Lasting /\ RequestsOwn'
    BY <2>1, UnchangedRequests, PhasesOwn
  <2>3. OwnNext(info)
    <3>1. m = masterBox[1] /\ 1 \in DOMAIN masterBox
      BY <2>1, HeadType
    <3> QED BY <2>1, <2>2, <3>1, OwnLasts DEF NameInv, MailOwn
  <2> HIDE DEF info, m
  <2>4. \A u \in Uuids : sessions'[u] # NoUser => OwnNext(sessions'[u])
    <3>1. \A u \in Uuids : sessions'[u] = info \/ sessions'[u] = sessions[u]
      BY <2>1 DEF UpdatedSession
    <3> QED BY <2>2, <2>3, <3>1, OwnLasts DEF NameInv, SessionsOwn
  <2>5. SessionsOwn'
    BY <2>4 DEF SessionsOwn, OwnNext, Own, HasChosen
  <2> QED BY <2>1, <2>2, <2>5, PartsLast, MailSteps DEF NameInv
<1>8. CASE OnMsgResolveIp
  <2> DEFINE m == Head(masterBox)
  <2>1. /\ m \in MsgResolveIp /\ m.type = "MsgResolveIp"
        /\ masterBox # << >> /\ masterBox' = Tail(masterBox)
        /\ UNCHANGED <<cookies, ip2geo>>
    BY <1>8, ResolveStep
  <2>2. PICK info \in User :
          /\ info.uuid = m.uuid
          /\ Reply(m.sender, info)
          /\ \/ UNCHANGED sessions /\ sessions[m.uuid] = info
             \/ /\ sessions' = [sessions EXCEPT ![m.uuid] = info]
                /\ \/ info.name = GuyIncognito
                   \/ ip2geo[m.ip] # NoUser /\ info.name = ip2geo[m.ip].name
    BY <1>8, ResolveStep
  <2>3. m.uuid \in Uuids /\ m.ip \in Ips
    BY <2>1 DEF MsgResolveIp
  <2>4. Own(info)
    <3>1. CASE sessions[m.uuid] = info
      BY <2>3, <3>1, UserFacts DEF NameInv, SessionsOwn
    <3>2. CASE info.name = GuyIncognito
      BY <3>2 DEF Own
    <3>3. CASE ip2geo[m.ip] # NoUser /\ info.name = ip2geo[m.ip].name
      BY <2>3, <3>3 DEF Own, NameInv, GeoAnonymous
    <3> QED BY <2>2, <3>1, <3>2, <3>3
  <2>5. \/ UNCHANGED reqs
        \/ \E r \in Requests, q \in UserRequest : GoesOn(r, q) /\ q.info = info
    BY <2>1, <2>2, ReplyStep
  <2>6. Lasting /\ RequestsOwn'
    <3>1. CASE UNCHANGED reqs
      BY <3>1, UnchangedRequests, PhasesOwn
    <3>2. CASE \E r \in Requests, q \in UserRequest : GoesOn(r, q) /\ q.info = info
      <4>1. PICK r \in Requests, q \in UserRequest : GoesOn(r, q) /\ q.info = info
        BY <3>2
      <4>2. Lasting
        BY <4>1, GoesOnLasting
      <4>3. OwnNext(q.info)
        BY <2>4, <4>1, <4>2, OwnLasts
      <4> QED BY <4>1, <4>2, <4>3, GoesOnOwn
    <3> QED BY <2>5, <3>1, <3>2
  <2>7. OwnNext(info)
    BY <2>4, <2>6, OwnLasts
  <2> HIDE DEF m
  <2>8. \A u \in Uuids : sessions'[u] # NoUser => OwnNext(sessions'[u])
    <3>1. \A u \in Uuids : sessions'[u] = info \/ sessions'[u] = sessions[u]
      BY <2>2, <2>3 DEF TypeInv
    <3> QED BY <2>6, <2>7, <3>1, OwnLasts DEF NameInv, SessionsOwn
  <2>9. SessionsOwn'
    BY <2>8 DEF SessionsOwn, OwnNext, Own, HasChosen
  <2> QED BY <2>1, <2>6, <2>9, PartsLast, MailSteps DEF NameInv
<1>9. CASE OnMsgIpResolution
  <2> DEFINE m    == Head(masterBox)
             info == m.userInfo
  <2>1. /\ masterBox # << >> /\ m.type = "MsgIpResolution" /\ info \in User
        /\ masterBox' = Tail(masterBox)
        /\ UNCHANGED cookies
        /\ OnlyPhases
    BY <1>9, ResolutionStep
  <2>2. \/ UNCHANGED <<sessions, ip2geo>>
        \/ /\ sessions' = [sessions EXCEPT ![info.uuid] = info]
           /\ \E geo \in UserInfo : /\ geo.name = info.name
                                    /\ ip2geo' = [ip2geo EXCEPT ![info.ip] = geo]
    BY <1>9, ResolutionStep
  <2>3. Lasting /\ RequestsOwn'
    BY <2>1, PhasesOwn
  <2>4. info.name = GuyIncognito
    <3>1. m = masterBox[1] /\ 1 \in DOMAIN masterBox
      BY <2>1, HeadType
    <3> QED BY <2>1, <3>1 DEF NameInv, MailOwn
  <2> HIDE DEF info, m
  <2>5. \A u \in Uuids : sessions'[u] # NoUser => OwnNext(sessions'[u])
    <3>1. \A u \in Uuids : sessions'[u] = info \/ sessions'[u] = sessions[u]
      BY <2>2 DEF TypeInv
    <3>2. OwnNext(info)
      BY <2>4 DEF OwnNext
    <3> QED BY <2>3, <3>1, <3>2, OwnLasts DEF NameInv, SessionsOwn
  <2>6. SessionsOwn'
    BY <2>5 DEF SessionsOwn, OwnNext, Own, HasChosen
  <2>7. GeoAnonymous'
    BY <2>2, <2>4 DEF NameInv, GeoAnonymous, TypeInv
  <2> QED BY <2>1, <2>3, <2>6, <2>7, PartsLast, MailSteps DEF NameInv
<1>10. ASSUME NEW w \in Workers, WorkerResolves(w) \/ WorkerThrows(w)
       PROVE  NameInv'
  <2>1. UNCHANGED <<cookies, reqs, sessions, ip2geo>>
    BY <1>10, WorkerStep
  <2>2. Lasting /\ RequestsOwn'
    BY <2>1, UnchangedRequests, PhasesOwn
  <2>3. MailOwn'
    <3>1. CASE UNCHANGED masterBox
      BY <2>2, <3>1, PartsLast, MailSteps
    <3>2. CASE \E info \in User :
                 /\ info.name = GuyIncognito
                 /\ masterBox' = Append(masterBox, [type |-> "MsgIpResolution", userInfo |-> info])
      <4>1. PICK info \in User :
              /\ info.name = GuyIncognito
              /\ masterBox' = Append(masterBox, [type |-> "MsgIpResolution", userInfo |-> info])
        BY <3>2
      <4>2. OneNewMail([type |-> "MsgIpResolution", userInfo |-> info])
        BY <4>1, UserMail, MailSteps
      <4> QED BY <2>2, <4>1, <4>2, NewMailOwn
    <3> QED BY <1>10, <3>1, <3>2, WorkerStep
  <2> QED BY <2>1, <2>2, <2>3, PartsLast DEF NameInv
<1>11. CASE Restart
  <2>1. Lasting /\ RequestsOwn'
    BY <1>11, RestartStep, PhasesOwn
  <2>2. SessionsOwn' /\ GeoAnonymous' /\ MailOwn' /\ UNCHANGED cookies
    BY <1>11 DEF Restart, SessionsOwn, GeoAnonymous, MailOwn
  <2> QED BY <2>1, <2>2, PartsLast DEF NameInv
<1>12. CASE UNCHANGED vars
  <2>1. Lasting /\ RequestsOwn'
    BY <1>12, UnchangedRequests, PhasesOwn DEF vars
  <2> QED BY <1>12, <2>1, PartsLast, MailSteps DEF NameInv, vars
<1> QED BY <1>1, <1>2, <1>3, <1>4, <1>5, <1>6, <1>7, <1>8, <1>9, <1>10, <1>11, <1>12,
           SendCases DEF Next, HandleRequest, Respond, MasterStep

\* Whatever users share an address and however often the server restarts, the
\* name a user is shown under is this user's choice.
THEOREM NamesOwn == Spec => []NamesAreOwn
<1>1. Spec => [](TypeInv /\ AskInv /\ NameInv)
  BY TypeInvInit, TypeInvNext, AskInvNext, NameInvInit, NameInvNext, PTL DEF Spec
<1>2. TypeInv /\ NameInv => NamesAreOwn
  BY DEF TypeInv, NameInv, SessionsOwn, CookiesOwn, Own, NamesAreOwn
<1> QED BY <1>1, <1>2, PTL

-----------------------------------------------------------------------------
(* With mock_ip every user stays at one address.                           *)

At(info) == info.ip = MockIpOf[info.uuid]

RequestsAt == \A r \in Requests : reqs[r] # NoUser /\ reqs[r].info # NoUser => At(reqs[r].info)

SessionsAt == \A u \in Uuids : sessions[u] # NoUser => sessions[u].ip = MockIpOf[u]

MailAt ==
  \A i \in DOMAIN masterBox :
    /\ masterBox[i].type = "MsgResolveIp" => masterBox[i].ip = MockIpOf[masterBox[i].uuid]
    /\ masterBox[i].type = "MsgUserInfoUpdate" => At(masterBox[i].userInfo)

GeoAt == \A ip \in Ips : ip2geo[ip] # NoUser => ip2geo[ip].ip = ip

AddressInv == RequestsAt /\ SessionsAt /\ MailAt /\ GeoAt

LEMMA AddressInit == Init => AddressInv
  BY DEF Init, InitActors, AddressInv, RequestsAt, SessionsAt, MailAt, GeoAt

LEMMA PartsAt ==
  ASSUME TypeInv, AddressInv
  PROVE  /\ OnlyPhases => RequestsAt'
         /\ \A r \in Requests, q \in UserRequest : GoesOn(r, q) /\ At(q.info) => RequestsAt'
         /\ NoNewMail => MailAt'
<1>1. OnlyPhases => RequestsAt'
  BY DEF OnlyPhases, AddressInv, RequestsAt
<1>2. ASSUME NEW r \in Requests, NEW q \in UserRequest, GoesOn(r, q), At(q.info)
      PROVE  RequestsAt'
  <2>1. \A s \in Requests : reqs'[s] = IF s = r THEN q ELSE reqs[s]
    BY <1>2 DEF GoesOn, TypeInv
  <2> QED BY <1>2, <2>1 DEF AddressInv, RequestsAt
<1>3. NoNewMail => MailAt'
  BY DEF NoNewMail, AddressInv, MailAt
<1> QED BY <1>1, <1>2, <1>3

LEMMA NewMailAt ==
  ASSUME AddressInv, NEW m, OneNewMail(m),
         m.type = "MsgResolveIp" => m.ip = MockIpOf[m.uuid],
         m.type = "MsgUserInfoUpdate" => At(m.userInfo)
  PROVE  MailAt'
  BY DEF OneNewMail, AddressInv, MailAt

LEMMA AddressNext ==
  ASSUME MockIp, TypeInv, AskInv, AddressInv, [Next]_vars
  PROVE  AddressInv'
<1>1. ASSUME \E r \in Requests, b \in Browsers, q \in UserRequest :
               /\ reqs[r] = NoUser
               /\ reqs' = [reqs EXCEPT ![r] = q]
               /\ q.cookie = cookies[b] /\ q.info = NoUser
               /\ UNCHANGED <<cookies, uuids, actors, restarts>>
      PROVE  AddressInv'
  <2>1. PICK r \in Requests, q \in UserRequest :
          /\ reqs' = [reqs EXCEPT ![r] = q] /\ q.info = NoUser
          /\ UNCHANGED <<sessions, ip2geo, masterBox>>
    BY <1>1 DEF actors
  <2>2. RequestsAt'
    BY <2>1 DEF AddressInv, RequestsAt, TypeInv
  <2> QED BY <2>1, <2>2 DEF AddressInv, SessionsAt, MailAt, GeoAt
<1>2. ASSUME NEW r \in Requests, FromSession(r)
      PROVE  AddressInv'
  <2>1. PICK q \in UserRequest : GoesOn(r, q) /\ q.info.ip = GetIp(q.info.uuid, r)
    BY <1>2, FromSessionStep
  <2>2. At(q.info)
    BY <2>1 DEF At, GetIp
  <2>3. UNCHANGED <<sessions, ip2geo, masterBox>>
    BY <1>2 DEF FromSession, actors
  <2> QED BY <2>1, <2>2, <2>3, PartsAt, MailSteps DEF AddressInv, SessionsAt, GeoAt
<1>3. ASSUME NEW r \in Requests, NEW uuid \in Uuids, AskMaster(r, uuid)
      PROVE  AddressInv'
  <2>1. PICK q \in UserRequest, m \in MsgResolveIp :
          /\ GoesOn(r, q) /\ q.info.uuid = uuid /\ m.uuid = uuid
          /\ q.info.ip = GetIp(uuid, r) /\ m.ip = GetIp(uuid, r)
          /\ masterBox' = Append(masterBox, m)
    BY <1>3, AskMasterStep
  <2>2. At(q.info) /\ m.ip = MockIpOf[m.uuid]
    BY <2>1 DEF At, GetIp
  <2>3. m \in Mail /\ m.type = "MsgResolveIp"
    BY DEF Mail, MsgResolveIp
  <2>4. MailAt'
    BY <2>1, <2>2, <2>3, MailSteps, NewMailAt
  <2>5. UNCHANGED <<sessions, ip2geo>>
    BY <1>3 DEF AskMaster
  <2> QED BY <2>1, <2>2, <2>4, <2>5, PartsAt DEF AddressInv, SessionsAt, GeoAt
<1>4. ASSUME NEW r \in Requests,
             AskTimesOut(r) \/ RespondHome(r) \/ RespondSolve(r) \/ RespondWs(r) \/ Arrive(r)
      PROVE  AddressInv'
  <2>1. OnlyPhases
    BY <1>4, AskTimesOutStep, RespondHomeStep, RespondStep
  <2>2. UNCHANGED <<sessions, ip2geo, masterBox>>
    BY <1>4 DEF AskTimesOut, RespondHome, RespondSolve, RespondWs, Arrive, actors
  <2> QED BY <2>1, <2>2, PartsAt, MailSteps DEF AddressInv, SessionsAt, GeoAt
<1>5. ASSUME NEW r \in Requests, RespondName(r)
      PROVE  AddressInv'
  <2>1. PICK q \in UserRequest, userInfo \in User :
          /\ GoesOn(r, q) /\ q.info = userInfo /\ reqs[r].info # NoUser
          /\ userInfo.uuid = reqs[r].info.uuid /\ userInfo.ip = reqs[r].info.ip
          /\ masterBox' = Append(masterBox, [type |-> "MsgUserInfoUpdate",
                                             userInfo |-> userInfo])
    BY <1>5, RespondNameStep
  <2>2. At(userInfo)
    BY <2>1 DEF AddressInv, RequestsAt, At, GoesOn
  <2>3. OneNewMail([type |-> "MsgUserInfoUpdate", userInfo |-> userInfo])
    BY <2>1, UserMail, MailSteps
  <2>4. MailAt'
    BY <2>2, <2>3, NewMailAt
  <2>5. UNCHANGED <<sessions, ip2geo>>
    BY <1>5 DEF RespondName
  <2> QED BY <2>1, <2>2, <2>4, <2>5, PartsAt DEF AddressInv, SessionsAt, GeoAt
<1>6. CASE OnMsgUserInfoUpdate
  <2> DEFINE m    == Head(masterBox)
             info == m.userInfo
  <2>1. /\ masterBox # << >> /\ m.type = "MsgUserInfoUpdate"
        /\ masterBox' = Tail(masterBox)
        /\ UNCHANGED <<reqs, ip2geo>>
        /\ sessions' = [u \in Uuids |-> UpdatedSession(u, info)]
    BY <1>6, UpdateStep
  <2>2. At(info)
    <3>1. m = masterBox[1] /\ 1 \in DOMAIN masterBox
      BY <2>1, HeadType
    <3> QED BY <2>1, <3>1 DEF AddressInv, MailAt
  <2> HIDE DEF info, m
  <2>3. SessionsAt'
    BY <2>1, <2>2 DEF AddressInv, SessionsAt, UpdatedSession, At
  <2> QED BY <2>1, <2>3, UnchangedRequests, PartsAt, MailSteps DEF AddressInv, GeoAt
<1>7. CASE OnMsgResolveIp
  <2> DEFINE m == Head(masterBox)
  <2>1. /\ m \in MsgResolveIp /\ m.type = "MsgResolveIp"
        /\ masterBox # << >> /\ masterBox' = Tail(masterBox)
        /\ UNCHANGED ip2geo
    BY <1>7, ResolveStep
  <2>2. PICK info \in User :
          /\ info.uuid = m.uuid
          /\ Reply(m.sender, info)
          /\ \/ UNCHANGED sessions /\ sessions[m.uuid] = info
             \/ /\ sessions' = [sessions EXCEPT ![m.uuid] = info]
                /\ \/ info.ip = m.ip
                   \/ ip2geo[m.ip] # NoUser /\ info.ip = ip2geo[m.ip].ip
    BY <1>7, ResolveStep
  <2>3. m.uuid \in Uuids /\ m.ip \in Ips
    BY <2>1 DEF MsgResolveIp
  <2>4. m.ip = MockIpOf[m.uuid]
    <3>1. m = masterBox[1] /\ 1 \in DOMAIN masterBox
      BY <2>1, HeadType
    <3> QED BY <2>1, <3>1 DEF AddressInv, MailAt
  <2>5. info.ip = MockIpOf[m.uuid]
    <3>1. CASE sessions[m.uuid] = info
      BY <2>3, <3>1, UserFacts DEF AddressInv, SessionsAt
    <3>2. CASE info.ip = m.ip \/ (ip2geo[m.ip] # NoUser /\ info.ip = ip2geo[m.ip].ip)
      BY <2>3, <2>4, <3>2 DEF AddressInv, GeoAt
    <3> QED BY <2>2, <3>1, <3>2
  <2>6. RequestsAt'
    <3>1. CASE UNCHANGED reqs
      BY <3>1, UnchangedRequests, PartsAt
    <3>2. CASE \E r \in Requests, q \in UserRequest : GoesOn(r, q) /\ q.info = info
      <4>1. PICK r \in Requests, q \in UserRequest : GoesOn(r, q) /\ q.info = info
        BY <3>2
      <4>2. At(q.info)
        BY <2>2, <2>5, <4>1 DEF At
      <4> QED BY <4>1, <4>2, PartsAt
    <3> QED BY <2>1, <2>2, <3>1, <3>2, ReplyStep
  <2> HIDE DEF m
  <2>7. SessionsAt'
    BY <2>2, <2>3, <2>5 DEF AddressInv, SessionsAt, TypeInv
  <2> QED BY <2>1, <2>6, <2>7, PartsAt, MailSteps DEF AddressInv, GeoAt
<1>8. CASE OnMsgIpResolution
  <2> DEFINE m    == Head(masterBox)
             info == m.userInfo
  <2>1. /\ masterBox # << >> /\ m.type = "MsgIpResolution" /\ info \in User
        /\ masterBox' = Tail(masterBox)
        /\ OnlyPhases
    BY <1>8, ResolutionStep
  <2>2. \/ UNCHANGED <<sessions, ip2geo>>
        \/ /\ KnownAt(info.uuid, info.ip)
           /\ sessions' = [sessions EXCEPT ![info.uuid] = info]
           /\ \E geo \in UserInfo : /\ geo.ip = info.ip
                                    /\ ip2geo' = [ip2geo EXCEPT ![info.ip] = geo]
    BY <1>8, ResolutionStep
  <2>3. info.uuid \in Uuids /\ info.ip \in Ips
    BY <2>1 DEF User
  <2> HIDE DEF info, m
  <2>4. SessionsAt' /\ GeoAt'
    BY <2>2, <2>3 DEF AddressInv, SessionsAt, GeoAt, KnownAt, TypeInv
  <2> QED BY <2>1, <2>4, PartsAt, MailSteps DEF AddressInv
<1>9. ASSUME NEW w \in Workers, WorkerResolves(w) \/ WorkerThrows(w)
      PROVE  AddressInv'
  <2>1. UNCHANGED <<reqs, sessions, ip2geo>>
    BY <1>9, WorkerStep
  <2>2. MailAt'
    <3>1. CASE UNCHANGED masterBox
      BY <3>1, PartsAt, MailSteps
    <3>2. CASE \E info \in User :
                 masterBox' = Append(masterBox, [type |-> "MsgIpResolution", userInfo |-> info])
      <4>1. PICK info \in User :
              masterBox' = Append(masterBox, [type |-> "MsgIpResolution", userInfo |-> info])
        BY <3>2
      <4>2. OneNewMail([type |-> "MsgIpResolution", userInfo |-> info])
        BY <4>1, UserMail, MailSteps
      <4> QED BY <4>2, NewMailAt
    <3> QED BY <1>9, <3>1, <3>2, WorkerStep
  <2> QED BY <2>1, <2>2, UnchangedRequests, PartsAt DEF AddressInv, SessionsAt, GeoAt
<1>10. CASE Restart
  <2>1. RequestsAt'
    BY <1>10, RestartStep, PartsAt
  <2> QED BY <1>10, <2>1 DEF Restart, AddressInv, SessionsAt, MailAt, GeoAt
<1>11. CASE UNCHANGED vars
  BY <1>11 DEF vars, AddressInv, RequestsAt, SessionsAt, MailAt, GeoAt
<1> QED BY <1>1, <1>2, <1>3, <1>4, <1>5, <1>6, <1>7, <1>8, <1>9, <1>10, <1>11,
           SendCases DEF Next, HandleRequest, Respond, MasterStep

\* No two lookups under way are of one user, in the mailboxes of the workers or
\* of the master, and the users they are of are known.
JobsUnique ==
  \A w, v \in Workers : \A i \in DOMAIN workerBox[w], j \in DOMAIN workerBox[v] :
    workerBox[w][i].uuid = workerBox[v][j].uuid => w = v /\ i = j

ResolutionsUnique ==
  \A i, j \in DOMAIN masterBox :
    /\ masterBox[i].type = "MsgIpResolution" /\ masterBox[j].type = "MsgIpResolution"
    /\ masterBox[i].userInfo.uuid = masterBox[j].userInfo.uuid
    => i = j

JobOrResolution ==
  \A w \in Workers : \A i \in DOMAIN workerBox[w], j \in DOMAIN masterBox :
    masterBox[j].type = "MsgIpResolution" =>
      workerBox[w][i].uuid # masterBox[j].userInfo.uuid

LookedUpAreKnown ==
  /\ \A w \in Workers : \A i \in DOMAIN workerBox[w] : sessions[workerBox[w][i].uuid] # NoUser
  /\ \A j \in DOMAIN masterBox : masterBox[j].type = "MsgIpResolution" =>
       sessions[masterBox[j].userInfo.uuid] # NoUser

LookupInv == JobsUnique /\ ResolutionsUnique /\ JobOrResolution /\ LookedUpAreKnown

LEMMA LookupInit == Init => LookupInv
  BY DEF Init, InitActors, LookupInv, JobsUnique, ResolutionsUnique, JobOrResolution,
         LookedUpAreKnown

\* Resolutions keep their order, moving up k places, and no new ones come.
MailMoves(k) ==
  \A i \in DOMAIN masterBox' : masterBox'[i].type = "MsgIpResolution" =>
    i + k \in DOMAIN masterBox /\ masterBox'[i] = masterBox[i + k]

\* Who is known stays known.
KnownStay == \A u \in Uuids : sessions[u] # NoUser => sessions'[u] # NoUser

LEMMA MailMovesFacts ==
  ASSUME TypeInv
  PROVE  /\ UNCHANGED masterBox => MailMoves(0)
         /\ masterBox # << >> /\ masterBox' = Tail(masterBox) => MailMoves(1)
         /\ \A m \in Mail : masterBox' = Append(masterBox, m) /\ m.type # "MsgIpResolution"
              => MailMoves(0)
<1>1. masterBox \in Seq(Mail)
  BY DEF TypeInv
<1> HIDE DEF Mail
<1>2. UNCHANGED masterBox => MailMoves(0)
  BY <1>1 DEF MailMoves
<1>3. masterBox # << >> /\ masterBox' = Tail(masterBox) => MailMoves(1)
  BY <1>1, TailFacts DEF MailMoves
<1>4. ASSUME NEW m \in Mail, masterBox' = Append(masterBox, m), m.type # "MsgIpResolution"
      PROVE  MailMoves(0)
  <2>1. \A i \in DOMAIN masterBox' :
          (i \in DOMAIN masterBox /\ masterBox'[i] = masterBox[i]) \/ masterBox'[i] = m
    BY <1>1, <1>4, AppendFacts
  <2>2. \A i \in DOMAIN masterBox : i \in Nat
    BY <1>1
  <2> QED BY <1>4, <2>1, <2>2 DEF MailMoves
<1> QED BY <1>2, <1>3, <1>4

LEMMA MailNat ==
  ASSUME TypeInv
  PROVE  /\ DOMAIN masterBox \subseteq Nat
         /\ \A i \in DOMAIN masterBox : masterBox[i].type = "MsgIpResolution" =>
              masterBox[i].userInfo \in User /\ masterBox[i].userInfo.uuid \in Uuids
<1>1. DOMAIN masterBox \subseteq Nat
  BY DEF TypeInv
<1>2. ASSUME NEW i \in DOMAIN masterBox, masterBox[i].type = "MsgIpResolution"
      PROVE  masterBox[i].userInfo \in User /\ masterBox[i].userInfo.uuid \in Uuids
  <2>1. masterBox[i] \in Mail
    BY ElementType DEF TypeInv
  <2>2. masterBox[i].userInfo \in User
    BY <1>2, <2>1 DEF Mail, MsgResolveIp
  <2> QED BY <2>2 DEF User
<1> QED BY <1>1, <1>2

LEMMA JobType ==
  ASSUME TypeInv, NEW w \in Workers
  PROVE  /\ workerBox[w] \in Seq(Lookup)
         /\ \A i \in DOMAIN workerBox[w] : i \in Nat /\ workerBox[w][i].uuid \in Uuids
<1>1. workerBox[w] \in Seq(Lookup)
  BY DEF TypeInv
<1>2. \A i \in DOMAIN workerBox[w] : workerBox[w][i] \in Lookup
  BY <1>1, ElementType
<1> QED BY <1>1, <1>2 DEF Lookup

\* A step that begins and ends no lookup.
LEMMA NoLookupStep ==
  ASSUME TypeInv, TypeInv', LookupInv, KnownStay, NEW k \in {0, 1}, MailMoves(k),
         UNCHANGED workerBox
  PROVE  LookupInv'
<1>1. JobsUnique'
  BY DEF LookupInv, JobsUnique
<1>2. ResolutionsUnique'
  <2> SUFFICES ASSUME NEW i \in DOMAIN masterBox', NEW j \in DOMAIN masterBox',
                      masterBox'[i].type = "MsgIpResolution",
                      masterBox'[j].type = "MsgIpResolution",
                      masterBox'[i].userInfo.uuid = masterBox'[j].userInfo.uuid
               PROVE  i = j
    BY DEF ResolutionsUnique
  <2>1. i + k = j + k
    BY DEF LookupInv, ResolutionsUnique, MailMoves
  <2>2. i \in Nat /\ j \in Nat
    BY DEF TypeInv
  <2> QED BY <2>1, <2>2
<1>3. JobOrResolution'
  BY DEF LookupInv, JobOrResolution, MailMoves
<1>4. LookedUpAreKnown'
  <2>1. \A w \in Workers : \A i \in DOMAIN workerBox'[w] : sessions'[workerBox'[w][i].uuid] # NoUser
    BY JobType DEF LookupInv, LookedUpAreKnown, KnownStay
  <2>2. \A j \in DOMAIN masterBox' : masterBox'[j].type = "MsgIpResolution" =>
          sessions'[masterBox'[j].userInfo.uuid] # NoUser
    BY MailNat DEF LookupInv, LookedUpAreKnown, KnownStay, MailMoves
  <2> QED BY <2>1, <2>2 DEF LookedUpAreKnown
<1> QED BY <1>1, <1>2, <1>3, <1>4 DEF LookupInv

\* A lookup begins, of a user who was not known.
LEMMA LookupBegins ==
  ASSUME TypeInv, TypeInv', LookupInv, KnownStay, MailMoves(1),
         NEW w \in Workers, NEW job \in Lookup,
         workerBox' = [workerBox EXCEPT ![w] = Append(workerBox[w], job)],
         sessions[job.uuid] = NoUser, sessions'[job.uuid] # NoUser
  PROVE  LookupInv'
<1>1. workerBox[w] \in Seq(Lookup)
  BY JobType
<1>2. \A v \in Workers : \A i \in DOMAIN workerBox'[v] :
        \/ i \in DOMAIN workerBox[v] /\ workerBox'[v][i] = workerBox[v][i]
        \/ v = w /\ i = Len(workerBox[w]) + 1 /\ workerBox'[v][i] = job
  <2>1. \A v \in Workers : workerBox'[v] = IF v = w THEN Append(workerBox[w], job) ELSE workerBox[v]
    BY DEF TypeInv
  <2> QED BY <1>1, <2>1, AppendFacts
<1>3. JobsUnique'
  <2> SUFFICES ASSUME NEW v \in Workers, NEW x \in Workers,
                      NEW i \in DOMAIN workerBox'[v], NEW j \in DOMAIN workerBox'[x],
                      workerBox'[v][i].uuid = workerBox'[x][j].uuid
               PROVE  v = x /\ i = j
    BY DEF JobsUnique
  <2>1. CASE i \in DOMAIN workerBox[v] /\ workerBox'[v][i] = workerBox[v][i]
    <3>1. workerBox'[x][j] # job
      BY <2>1 DEF LookupInv, LookedUpAreKnown
    <3> QED BY <1>2, <2>1, <3>1 DEF LookupInv, JobsUnique
  <2>2. CASE v = w /\ i = Len(workerBox[w]) + 1 /\ workerBox'[v][i] = job
    <3>1. ~(j \in DOMAIN workerBox[x] /\ workerBox'[x][j] = workerBox[x][j])
      BY <2>2 DEF LookupInv, LookedUpAreKnown
    <3> QED BY <1>2, <2>2, <3>1
  <2> QED BY <1>2, <2>1, <2>2
<1>4. ResolutionsUnique'
  <2> SUFFICES ASSUME NEW i \in DOMAIN masterBox', NEW j \in DOMAIN masterBox',
                      masterBox'[i].type = "MsgIpResolution",
                      masterBox'[j].type = "MsgIpResolution",
                      masterBox'[i].userInfo.uuid = masterBox'[j].userInfo.uuid
               PROVE  i = j
    BY DEF ResolutionsUnique
  <2>1. i + 1 = j + 1
    BY DEF LookupInv, ResolutionsUnique, MailMoves
  <2>2. i \in Nat /\ j \in Nat
    BY DEF TypeInv
  <2> QED BY <2>1, <2>2
<1>5. JobOrResolution'
  <2> SUFFICES ASSUME NEW v \in Workers, NEW i \in DOMAIN workerBox'[v],
                      NEW j \in DOMAIN masterBox', masterBox'[j].type = "MsgIpResolution"
               PROVE  workerBox'[v][i].uuid # masterBox'[j].userInfo.uuid
    BY DEF JobOrResolution
  <2>1. j + 1 \in DOMAIN masterBox /\ masterBox'[j] = masterBox[j + 1]
    BY DEF MailMoves
  <2>2. CASE i \in DOMAIN workerBox[v] /\ workerBox'[v][i] = workerBox[v][i]
    BY <2>1, <2>2 DEF LookupInv, JobOrResolution
  <2>3. CASE workerBox'[v][i] = job
    BY <2>1, <2>3 DEF LookupInv, LookedUpAreKnown
  <2> QED BY <1>2, <2>2, <2>3
<1>6. LookedUpAreKnown'
  <2>1. \A v \in Workers : \A i \in DOMAIN workerBox'[v] : sessions'[workerBox'[v][i].uuid] # NoUser
    BY <1>2, JobType DEF LookupInv, LookedUpAreKnown, KnownStay
  <2>2. \A j \in DOMAIN masterBox' : masterBox'[j].type = "MsgIpResolution" =>
          sessions'[masterBox'[j].userInfo.uuid] # NoUser
    BY MailNat DEF LookupInv, LookedUpAreKnown, KnownStay, MailMoves
  <2> QED BY <2>1, <2>2 DEF LookedUpAreKnown
<1> QED BY <1>3, <1>4, <1>5, <1>6 DEF LookupInv

\* A worker ends its first job: with a resolution, or with none.
LEMMA LookupEnds ==
  ASSUME TypeInv, LookupInv, NEW w \in Workers, WorkerResolves(w) \/ WorkerThrows(w)
  PROVE  LookupInv'
<1> DEFINE job  == Head(workerBox[w])
           info == [Unresolved(job.uuid, job.ip) EXCEPT !.resolved = TRUE]
           m    == [type |-> "MsgIpResolution", userInfo |-> info]
<1>1. /\ workerBox[w] # << >> /\ workerBox' = [workerBox EXCEPT ![w] = Tail(workerBox[w])]
      /\ UNCHANGED sessions
      /\ UNCHANGED masterBox \/ masterBox' = Append(masterBox, m)
  BY DEF WorkerResolves, WorkerThrows
<1>2. workerBox[w] \in Seq(Lookup)
  BY JobType
<1>3. job \in Lookup /\ job = workerBox[w][1] /\ 1 \in DOMAIN workerBox[w]
  BY <1>1, <1>2, TailFacts
<1>4. info \in User /\ info.uuid = job.uuid
  BY <1>3, UnresolvedType DEF Lookup
<1>5. m \in Mail /\ m.type = "MsgIpResolution" /\ m.userInfo.uuid = job.uuid
  BY <1>4, UserMail
<1> HIDE DEF info, m, job
<1>6. \A v \in Workers : \A i \in DOMAIN workerBox'[v] :
        IF v = w THEN i \in Nat /\ i >= 1 /\ i + 1 \in DOMAIN workerBox[w] /\ workerBox'[v][i] = workerBox[w][i + 1]
                 ELSE i \in DOMAIN workerBox[v] /\ workerBox'[v][i] = workerBox[v][i]
  <2>1. \A v \in Workers : workerBox'[v] = IF v = w THEN Tail(workerBox[w]) ELSE workerBox[v]
    BY <1>1 DEF TypeInv
  <2>2. \A i \in DOMAIN Tail(workerBox[w]) : i \in Nat /\ i >= 1
    BY <1>1, <1>2
  <2>3. \A i \in DOMAIN Tail(workerBox[w]) :
          i + 1 \in DOMAIN workerBox[w] /\ Tail(workerBox[w])[i] = workerBox[w][i + 1]
    BY <1>1, <1>2, TailFacts
  <2> QED BY <2>1, <2>2, <2>3
<1>7. JobsUnique'
  <2> SUFFICES ASSUME NEW v \in Workers, NEW x \in Workers,
                      NEW i \in DOMAIN workerBox'[v], NEW j \in DOMAIN workerBox'[x],
                      workerBox'[v][i].uuid = workerBox'[x][j].uuid
               PROVE  v = x /\ i = j
    BY DEF JobsUnique
  <2>1. CASE v = w /\ x = w
    <3>1. i + 1 = j + 1
      BY <1>6, <2>1 DEF LookupInv, JobsUnique
    <3> QED BY <1>6, <2>1, <3>1
  <2>2. CASE v = w /\ x # w
    BY <1>6, <2>2 DEF LookupInv, JobsUnique
  <2>3. CASE v # w /\ x = w
    BY <1>6, <2>3 DEF LookupInv, JobsUnique
  <2>4. CASE v # w /\ x # w
    BY <1>6, <2>4 DEF LookupInv, JobsUnique
  <2> QED BY <2>1, <2>2, <2>3, <2>4
\* No other lookup is of the user of that job.
<1>8. \A v \in Workers : \A i \in DOMAIN workerBox'[v] : workerBox'[v][i].uuid # job.uuid
  <2> SUFFICES ASSUME NEW v \in Workers, NEW i \in DOMAIN workerBox'[v]
               PROVE  workerBox'[v][i].uuid # job.uuid
    OBVIOUS
  <2>1. CASE v = w
    <3>1. i >= 1 /\ i \in Nat /\ i + 1 \in DOMAIN workerBox[w] /\ workerBox'[v][i] = workerBox[w][i + 1]
      BY <1>6, <2>1
    <3>2. i + 1 # 1
      BY <3>1
    <3> QED BY <1>3, <3>1, <3>2 DEF LookupInv, JobsUnique
  <2>2. CASE v # w
    BY <1>3, <1>6, <2>2 DEF LookupInv, JobsUnique
  <2> QED BY <2>1, <2>2
<1>9. \A j \in DOMAIN masterBox : masterBox[j].type = "MsgIpResolution" =>
        masterBox[j].userInfo.uuid # job.uuid
  BY <1>3 DEF LookupInv, JobOrResolution
<1>10. \A v \in Workers : \A i \in DOMAIN workerBox'[v], j \in DOMAIN masterBox :
         masterBox[j].type = "MsgIpResolution" =>
           workerBox'[v][i].uuid # masterBox[j].userInfo.uuid
  BY <1>6 DEF LookupInv, JobOrResolution
<1>11. /\ \A v \in Workers : \A i \in DOMAIN workerBox'[v] : sessions[workerBox'[v][i].uuid] # NoUser
       /\ sessions[job.uuid] # NoUser
  BY <1>3, <1>6 DEF LookupInv, LookedUpAreKnown
<1>12. CASE UNCHANGED masterBox
  BY <1>1, <1>7, <1>10, <1>11, <1>12
     DEF LookupInv, ResolutionsUnique, JobOrResolution, LookedUpAreKnown
<1>13. CASE masterBox' = Append(masterBox, m)
  <2>1. \A i \in DOMAIN masterBox' :
          \/ i \in DOMAIN masterBox /\ masterBox'[i] = masterBox[i]
          \/ i = Len(masterBox) + 1 /\ masterBox'[i] = m
    BY <1>5, <1>13, AppendFacts DEF TypeInv
  <2>2. ResolutionsUnique'
    <3> SUFFICES ASSUME NEW i \in DOMAIN masterBox', NEW j \in DOMAIN masterBox',
                        masterBox'[i].type = "MsgIpResolution",
                        masterBox'[j].type = "MsgIpResolution",
                        masterBox'[i].userInfo.uuid = masterBox'[j].userInfo.uuid
                 PROVE  i = j
      BY DEF ResolutionsUnique
    <3>1. CASE i \in DOMAIN masterBox /\ masterBox'[i] = masterBox[i]
      BY <1>5, <1>9, <2>1, <3>1 DEF LookupInv, ResolutionsUnique
    <3>2. CASE i = Len(masterBox) + 1 /\ masterBox'[i] = m
      BY <1>5, <1>9, <2>1, <3>2
    <3> QED BY <2>1, <3>1, <3>2
  <2>3. JobOrResolution'
    BY <1>5, <1>8, <1>10, <2>1 DEF JobOrResolution
  <2>4. LookedUpAreKnown'
    BY <1>1, <1>5, <1>11, <2>1 DEF LookupInv, LookedUpAreKnown
  <2> QED BY <1>7, <2>2, <2>3, <2>4 DEF LookupInv
<1> QED BY <1>1, <1>12, <1>13

LEMMA LookupNext ==
  ASSUME MockIp, TypeInv, TypeInv', AskInv, AddressInv, LookupInv, [Next]_vars
  PROVE  LookupInv'
<1>1. ASSUME \E r \in Requests, b \in Browsers, q \in UserRequest :
               UNCHANGED <<cookies, uuids, actors, restarts>>
      PROVE  LookupInv'
  BY <1>1, MailMovesFacts, NoLookupStep DEF actors, KnownStay
<1>2. ASSUME NEW r \in Requests,
             \/ FromSession(r) \/ AskTimesOut(r) \/ RespondHome(r) \/ RespondSolve(r)
             \/ RespondWs(r) \/ Arrive(r)
      PROVE  LookupInv'
  <2>1. UNCHANGED <<sessions, masterBox, workerBox>>
    BY <1>2 DEF FromSession, AskTimesOut, RespondHome, RespondSolve, RespondWs, Arrive, actors
  <2> QED BY <2>1, MailMovesFacts, NoLookupStep DEF KnownStay
<1>3. ASSUME NEW r \in Requests, NEW uuid \in Uuids, AskMaster(r, uuid)
      PROVE  LookupInv'
  <2>1. PICK m \in MsgResolveIp : masterBox' = Append(masterBox, m)
    BY <1>3, AskMasterStep
  <2>2. m \in Mail /\ m.type # "MsgIpResolution"
    BY DEF Mail, MsgResolveIp
  <2>3. UNCHANGED <<sessions, workerBox>>
    BY <1>3 DEF AskMaster
  <2> QED BY <2>1, <2>2, <2>3, MailMovesFacts, NoLookupStep DEF KnownStay
<1>4. ASSUME NEW r \in Requests, RespondName(r)
      PROVE  LookupInv'
  <2>1. PICK userInfo \in User :
          masterBox' = Append(masterBox, [type |-> "MsgUserInfoUpdate", userInfo |-> userInfo])
    BY <1>4, RespondNameStep
  <2>2. MailMoves(0)
    BY <2>1, UserMail, MailMovesFacts
  <2>3. UNCHANGED <<sessions, workerBox>>
    BY <1>4 DEF RespondName
  <2> QED BY <2>2, <2>3, NoLookupStep DEF KnownStay
<1>5. CASE OnMsgUserInfoUpdate
  <2> DEFINE info == Head(masterBox).userInfo
  <2>1. /\ masterBox # << >> /\ info \in User
        /\ masterBox' = Tail(masterBox)
        /\ UNCHANGED workerBox
        /\ sessions' = [u \in Uuids |-> UpdatedSession(u, info)]
    BY <1>5, UpdateStep
  <2>2. info # NoUser
    BY <2>1, UserFacts
  <2> HIDE DEF info
  <2>3. KnownStay
    BY <2>1, <2>2 DEF KnownStay, UpdatedSession
  <2> QED BY <2>1, <2>3, MailMovesFacts, NoLookupStep
<1>6. CASE OnMsgResolveIp
  <2> DEFINE m == Head(masterBox)
  <2>1. /\ m \in MsgResolveIp /\ m.type = "MsgResolveIp"
        /\ masterBox # << >> /\ masterBox' = Tail(masterBox)
        /\ \E info \in User :
             UNCHANGED sessions \/ sessions' = [sessions EXCEPT ![m.uuid] = info]
    BY <1>6, ResolveStep
  <2>2. m.uuid \in Uuids /\ m.ip \in Ips
    BY <2>1 DEF MsgResolveIp
  <2>3. m.ip = MockIpOf[m.uuid]
    <3>1. m = masterBox[1] /\ 1 \in DOMAIN masterBox
      BY <2>1, HeadType
    <3> QED BY <2>1, <3>1 DEF AddressInv, MailAt
  <2>4. ResolveKnown(m) \/ ResolveFromCache(m) \/ ResolveByLookup(m)
    BY <1>6 DEF OnMsgResolveIp
  <2> HIDE DEF m
  <2>5. KnownStay
    BY <2>1, UserFacts DEF KnownStay, TypeInv
  <2>6. CASE ResolveKnown(m) \/ ResolveFromCache(m)
    <3>1. UNCHANGED workerBox
      BY <2>6 DEF ResolveKnown, ResolveFromCache
    <3> QED BY <2>1, <2>5, <3>1, MailMovesFacts, NoLookupStep
  <2>7. CASE ResolveByLookup(m)
    <3> DEFINE job == [uuid |-> m.uuid, ip |-> m.ip]
    <3>1. /\ ~KnownAt(m.uuid, m.ip)
          /\ workerBox' = [workerBox EXCEPT ![nextRoutee] = Append(workerBox[nextRoutee], job)]
          /\ sessions' = [sessions EXCEPT ![m.uuid] = Unresolved(m.uuid, m.ip)]
      BY <2>7 DEF ResolveByLookup, StartLookup
    <3>2. sessions[m.uuid] = NoUser
      BY <2>2, <2>3, <3>1 DEF KnownAt, AddressInv, SessionsAt
    <3>3. sessions'[m.uuid] # NoUser
      <4>1. Unresolved(m.uuid, m.ip) # NoUser
        BY <2>2, UnresolvedType, UserFacts
      <4>2. sessions'[m.uuid] = Unresolved(m.uuid, m.ip)
        BY <2>2, <3>1 DEF TypeInv
      <4> QED BY <4>1, <4>2
    <3>4. nextRoutee \in Workers
      BY DEF TypeInv
    <3>5. job \in Lookup /\ job.uuid = m.uuid
      BY <2>2 DEF Lookup
    <3> HIDE DEF job
    <3> QED BY <2>1, <2>5, <3>1, <3>2, <3>3, <3>4, <3>5, MailMovesFacts, LookupBegins
  <2> QED BY <2>4, <2>6, <2>7
<1>7. CASE OnMsgIpResolution
  <2> DEFINE info == Head(masterBox).userInfo
  <2>1. /\ masterBox # << >> /\ info \in User
        /\ masterBox' = Tail(masterBox)
        /\ UNCHANGED workerBox
        /\ UNCHANGED sessions \/ sessions' = [sessions EXCEPT ![info.uuid] = info]
    BY <1>7, ResolutionStep
  <2> HIDE DEF info
  <2>2. KnownStay
    BY <2>1, UserFacts DEF KnownStay, TypeInv
  <2> QED BY <2>1, <2>2, MailMovesFacts, NoLookupStep
<1>8. ASSUME NEW w \in Workers, WorkerResolves(w) \/ WorkerThrows(w)
      PROVE  LookupInv'
  BY <1>8, LookupEnds
<1>9. CASE Restart
  BY <1>9 DEF Restart, LookupInv, JobsUnique, ResolutionsUnique, JobOrResolution,
              LookedUpAreKnown
<1>10. CASE UNCHANGED vars
  BY <1>10, MailMovesFacts, NoLookupStep DEF vars, KnownStay
<1> QED BY <1>1, <1>2, <1>3, <1>4, <1>5, <1>6, <1>7, <1>8, <1>9, <1>10,
           SendCases DEF Next, HandleRequest, Respond, MasterStep

LEMMA LookupsApart ==
  ASSUME TypeInv, LookupInv
  PROVE  OneLookupAtATime
<1> SUFFICES ASSUME NEW u \in Uuids, NEW ip \in Ips,
                    NEW place \in Lookups(u, ip), NEW other \in Lookups(u, ip)
             PROVE  place = other
  BY DEF OneLookupAtATime
<1>1. ASSUME NEW p \in Lookups(u, ip)
      PROVE  \/ \E w \in Workers : \E i \in DOMAIN workerBox[w] :
                  p = <<w, i>> /\ workerBox[w][i].uuid = u
             \/ \E i \in DOMAIN masterBox :
                  /\ p = <<-1, i>> /\ masterBox[i].type = "MsgIpResolution"
                  /\ masterBox[i].userInfo.uuid = u
  <2>1. \/ \E w \in Workers : p \in {<<w, i>> : i \in {k \in DOMAIN workerBox[w] :
                                   workerBox[w][k] = [uuid |-> u, ip |-> ip]}}
        \/ p \in {<<-1, i>> : i \in {k \in DOMAIN masterBox :
                    /\ masterBox[k].type = "MsgIpResolution"
                    /\ masterBox[k].userInfo.uuid = u
                    /\ masterBox[k].userInfo.ip = ip}}
    BY <1>1 DEF Lookups
  <2>2. CASE \E w \in Workers : p \in {<<w, i>> : i \in {k \in DOMAIN workerBox[w] :
                                   workerBox[w][k] = [uuid |-> u, ip |-> ip]}}
    <3>1. PICK w \in Workers : \E i \in DOMAIN workerBox[w] :
            p = <<w, i>> /\ workerBox[w][i] = [uuid |-> u, ip |-> ip]
      BY <2>2
    <3> QED BY <3>1
  <2> QED BY <2>1, <2>2
<1>2. CASE /\ \E w \in Workers : \E i \in DOMAIN workerBox[w] :
                place = <<w, i>> /\ workerBox[w][i].uuid = u
           /\ \E w \in Workers : \E i \in DOMAIN workerBox[w] :
                other = <<w, i>> /\ workerBox[w][i].uuid = u
  BY <1>2 DEF LookupInv, JobsUnique
<1>3. CASE /\ \E i \in DOMAIN masterBox :
                /\ place = <<-1, i>> /\ masterBox[i].type = "MsgIpResolution"
                /\ masterBox[i].userInfo.uuid = u
           /\ \E i \in DOMAIN masterBox :
                /\ other = <<-1, i>> /\ masterBox[i].type = "MsgIpResolution"
                /\ masterBox[i].userInfo.uuid = u
  BY <1>3 DEF LookupInv, ResolutionsUnique
<1>4. ~(/\ \E w \in Workers : \E i \in DOMAIN workerBox[w] : workerBox[w][i].uuid = u
        /\ \E i \in DOMAIN masterBox : /\ masterBox[i].type = "MsgIpResolution"
                                       /\ masterBox[i].userInfo.uuid = u)
  BY DEF LookupInv, JobOrResolution
<1> QED BY <1>1, <1>2, <1>3, <1>4

\* Users who stay at one address, as they do with mock_ip, cause one lookup at
\* a time, however many pages they open, with failures and restarts.
THEOREM OneLookup ==
  ASSUME MockIp
  PROVE  Spec => []OneLookupAtATime
<1>1. TypeInv /\ AskInv /\ AddressInv /\ LookupInv /\ [Next]_vars =>
        TypeInv' /\ AskInv' /\ AddressInv' /\ LookupInv'
  BY TypeInvNext, AskInvNext, AddressNext, LookupNext
<1>2. Spec => [](TypeInv /\ AskInv /\ AddressInv /\ LookupInv)
  BY <1>1, TypeInvInit, AddressInit, LookupInit, PTL DEF Spec
<1>3. TypeInv /\ LookupInv => OneLookupAtATime
  BY LookupsApart
<1> QED BY <1>2, <1>3, PTL

-----------------------------------------------------------------------------
(* Who is not resolved is looked up, but for failures and updates.          *)

ResolvedOnly ==
  /\ \A i \in DOMAIN masterBox : masterBox[i].type = "MsgIpResolution" =>
       masterBox[i].userInfo.resolved
  /\ \A ip \in Ips : ip2geo[ip] # NoUser => ip2geo[ip].resolved

\* A mailbox that grows by a message, or loses its head, stays resolved.
LEMMA ResolvedMail ==
  ASSUME TypeInv, ResolvedOnly, UNCHANGED ip2geo,
         \/ UNCHANGED masterBox
         \/ masterBox # << >> /\ masterBox' = Tail(masterBox)
         \/ \E m \in Mail : /\ masterBox' = Append(masterBox, m)
                            /\ m.type = "MsgIpResolution" => m.userInfo.resolved
  PROVE  ResolvedOnly'
<1>1. CASE UNCHANGED masterBox
  BY <1>1 DEF ResolvedOnly
<1>2. CASE masterBox # << >> /\ masterBox' = Tail(masterBox)
  <2>1. \A i \in DOMAIN masterBox' : i + 1 \in DOMAIN masterBox /\ masterBox'[i] = masterBox[i + 1]
    BY <1>2, TailFacts DEF TypeInv
  <2> QED BY <2>1 DEF ResolvedOnly
<1>3. ASSUME NEW m \in Mail, masterBox' = Append(masterBox, m),
             m.type = "MsgIpResolution" => m.userInfo.resolved
      PROVE  ResolvedOnly'
  <2>1. /\ DOMAIN masterBox' = DOMAIN masterBox \cup {Len(masterBox) + 1}
        /\ \A i \in DOMAIN masterBox : masterBox'[i] = masterBox[i]
        /\ masterBox'[Len(masterBox) + 1] = m
    BY <1>3, AppendFacts DEF TypeInv
  <2> QED BY <1>3, <2>1 DEF ResolvedOnly
<1> QED BY <1>1, <1>2, <1>3

\* A resolution that a worker sends is one.
LEMMA WorkerAnswer ==
  ASSUME TypeInv, NEW w \in Workers, WorkerResolves(w)
  PROVE  LET job == Head(workerBox[w]) IN
         \E m \in Mail : /\ masterBox' = Append(masterBox, m)
                         /\ m.type = "MsgIpResolution" /\ m.userInfo.resolved
                         /\ m.userInfo.uuid = job.uuid /\ m.userInfo.ip = job.ip
<1> DEFINE job  == Head(workerBox[w])
           info == [Unresolved(job.uuid, job.ip) EXCEPT !.resolved = TRUE]
           m    == [type |-> "MsgIpResolution", userInfo |-> info]
<1>1. /\ workerBox[w] # << >> /\ masterBox' = Append(masterBox, m)
  BY DEF WorkerResolves
<1>2. workerBox[w] \in Seq(Lookup)
  BY JobType
<1>3. job \in Lookup
  BY <1>1, <1>2, TailFacts
<1>4. /\ info \in User /\ info.uuid = job.uuid /\ info.ip = job.ip /\ info.resolved
  BY <1>3, UnresolvedType DEF Lookup, Unresolved
<1>5. m \in Mail /\ m.type = "MsgIpResolution" /\ m.userInfo = info
  BY <1>4, UserMail
<1> HIDE DEF m, info
<1> QED BY <1>1, <1>4, <1>5

LEMMA ResolvedNext ==
  ASSUME TypeInv, ResolvedOnly, [Next]_vars
  PROVE  ResolvedOnly'
<1>1. ASSUME \E r \in Requests, b \in Browsers, q \in UserRequest :
               UNCHANGED <<cookies, uuids, actors, restarts>>
      PROVE  ResolvedOnly'
  BY <1>1, ResolvedMail DEF actors
<1>2. ASSUME NEW r \in Requests,
             \/ FromSession(r) \/ AskTimesOut(r) \/ RespondHome(r) \/ RespondSolve(r)
             \/ RespondWs(r) \/ Arrive(r)
      PROVE  ResolvedOnly'
  <2>1. UNCHANGED <<ip2geo, masterBox>>
    BY <1>2 DEF FromSession, AskTimesOut, RespondHome, RespondSolve, RespondWs, Arrive, actors
  <2> QED BY <2>1, ResolvedMail
<1>3. ASSUME NEW r \in Requests, NEW uuid \in Uuids, AskMaster(r, uuid)
      PROVE  ResolvedOnly'
  <2>1. PICK m \in MsgResolveIp : masterBox' = Append(masterBox, m)
    BY <1>3, AskMasterStep
  <2>2. m \in Mail /\ m.type # "MsgIpResolution" /\ UNCHANGED ip2geo
    BY <1>3 DEF Mail, MsgResolveIp, AskMaster
  <2> QED BY <2>1, <2>2, ResolvedMail
<1>4. ASSUME NEW r \in Requests, RespondName(r)
      PROVE  ResolvedOnly'
  <2>1. PICK info \in User :
          masterBox' = Append(masterBox, [type |-> "MsgUserInfoUpdate", userInfo |-> info])
    BY <1>4, RespondNameStep
  <2>2. [type |-> "MsgUserInfoUpdate", userInfo |-> info] \in Mail /\ UNCHANGED ip2geo
    BY <1>4, UserMail DEF RespondName
  <2> QED BY <2>1, <2>2, ResolvedMail
<1>5. CASE OnMsgUserInfoUpdate
  BY <1>5, UpdateStep, ResolvedMail
<1>6. CASE OnMsgResolveIp
  BY <1>6, ResolveStep, ResolvedMail
<1>7. CASE OnMsgIpResolution
  <2> DEFINE info == Head(masterBox).userInfo
             geo  == [info EXCEPT !.uuid = NoUuid]
  <2>1. /\ masterBox # << >> /\ masterBox' = Tail(masterBox)
        /\ Head(masterBox).type = "MsgIpResolution" /\ info \in User
    BY <1>7, ResolutionStep
  <2>2. info.resolved
    BY <2>1, HeadType DEF ResolvedOnly
  <2>3. geo.resolved
    BY <2>1, <2>2 DEF User
  <2>4. UNCHANGED ip2geo \/ ip2geo' = [ip2geo EXCEPT ![info.ip] = geo]
    BY <1>7 DEF OnMsgIpResolution, IsCurrent
  <2>5. \A i \in DOMAIN masterBox' : i + 1 \in DOMAIN masterBox /\ masterBox'[i] = masterBox[i + 1]
    BY <2>1, TailFacts DEF TypeInv
  <2> HIDE DEF info, geo
  <2>6. \A ip \in Ips : ip2geo'[ip] = geo \/ ip2geo'[ip] = ip2geo[ip]
    BY <2>4 DEF TypeInv
  <2> QED BY <2>3, <2>5, <2>6 DEF ResolvedOnly
<1>8. ASSUME NEW w \in Workers, WorkerResolves(w)
      PROVE  ResolvedOnly'
  <2>1. UNCHANGED ip2geo
    BY <1>8 DEF WorkerResolves
  <2> QED BY <1>8, <2>1, WorkerAnswer, ResolvedMail
<1>9. ASSUME NEW w \in Workers, WorkerThrows(w)
      PROVE  ResolvedOnly'
  BY <1>9, ResolvedMail DEF WorkerThrows
<1>10. CASE Restart
  BY <1>10 DEF Restart, ResolvedOnly
<1>11. CASE UNCHANGED vars
  BY <1>11, ResolvedMail DEF vars
<1> QED BY <1>1, <1>2, <1>3, <1>4, <1>5, <1>6, <1>7, <1>8, <1>9, <1>10, <1>11,
           SendCases DEF Next, HandleRequest, Respond, MasterStep

IsQueued(u, ip) ==
  \E w \in Workers : \E i \in DOMAIN workerBox[w] : workerBox[w][i] = [uuid |-> u, ip |-> ip]

IsAnswered(u, ip) ==
  \E i \in DOMAIN masterBox : /\ masterBox[i].type = "MsgIpResolution"
                             /\ masterBox[i].userInfo.uuid = u /\ masterBox[i].userInfo.ip = ip

IsUnderWay(u, ip) == IsQueued(u, ip) \/ IsAnswered(u, ip)

\* If u is not resolved, there is a lookup for the place u is known at.
IsCovered(u) == \A ip : IsUnresolved(u) /\ sessions[u].ip = ip => IsUnderWay(u, ip)

\* The lookups for u at ip among the jobs of the workers and the mail of the master.
LookupsIn(jobs, mail, u, ip) ==
  (UNION {{<<w, i>> : i \in {k \in DOMAIN jobs[w] :
             jobs[w][k] = [uuid |-> u, ip |-> ip]}} : w \in Workers})
  \cup {<<-1, i>> : i \in {k \in DOMAIN mail :
            /\ mail[k].type = "MsgIpResolution"
            /\ mail[k].userInfo.uuid = u
            /\ mail[k].userInfo.ip = ip}}

LEMMA LookupsInFacts ==
  ASSUME NEW jobs, NEW mail, NEW u, NEW ip
  PROVE  LookupsIn(jobs, mail, u, ip) # {} <=>
           \/ \E w \in Workers : \E i \in DOMAIN jobs[w] : jobs[w][i] = [uuid |-> u, ip |-> ip]
           \/ \E i \in DOMAIN mail : /\ mail[i].type = "MsgIpResolution"
                                     /\ mail[i].userInfo.uuid = u /\ mail[i].userInfo.ip = ip
<1> DEFINE Of(w) == {k \in DOMAIN jobs[w] : jobs[w][k] = [uuid |-> u, ip |-> ip]}
           Answers == {k \in DOMAIN mail : /\ mail[k].type = "MsgIpResolution"
                                           /\ mail[k].userInfo.uuid = u
                                           /\ mail[k].userInfo.ip = ip}
           Jobs == UNION {{<<w, i>> : i \in Of(w)} : w \in Workers}
           Rest == {<<-1, i>> : i \in Answers}
<1>1. LookupsIn(jobs, mail, u, ip) = Jobs \cup Rest
  BY DEF LookupsIn
<1>2. Jobs # {} <=> \E w \in Workers : Of(w) # {}
  <2>1. ASSUME Jobs # {} PROVE \E w \in Workers : Of(w) # {}
    <3>1. PICK x : x \in Jobs
      BY <2>1
    <3>2. PICK w \in Workers : x \in {<<w, i>> : i \in Of(w)}
      BY <3>1
    <3>3. PICK i \in Of(w) : x = <<w, i>>
      BY <3>2
    <3> QED BY <3>2, <3>3
  <2>2. ASSUME NEW w \in Workers, Of(w) # {} PROVE Jobs # {}
    <3>1. PICK i : i \in Of(w)
      BY <2>2
    <3> HIDE DEF Of
    <3>2. <<w, i>> \in {<<w, j>> : j \in Of(w)}
      BY <3>1
    <3>3. {<<w, j>> : j \in Of(w)} \subseteq Jobs
      OBVIOUS
    <3> QED BY <3>2, <3>3
  <2> QED BY <2>1, <2>2
<1>3. Rest # {} <=> Answers # {}
  OBVIOUS
<1>4. \A w : Of(w) # {} <=>
        \E i \in DOMAIN jobs[w] : jobs[w][i] = [uuid |-> u, ip |-> ip]
  OBVIOUS
<1>5. Answers # {} <=>
        \E i \in DOMAIN mail : /\ mail[i].type = "MsgIpResolution"
                               /\ mail[i].userInfo.uuid = u /\ mail[i].userInfo.ip = ip
  OBVIOUS
<1> HIDE DEF Of, Answers, Jobs, Rest
<1> QED BY <1>1, <1>2, <1>3, <1>4, <1>5

LEMMA CoveredIsLookedUp ==
  ASSUME NEW u
  PROVE  IsCovered(u) <=> (IsUnresolved(u) => IsLookedUp(u))
<1>1. PICK ip : ip = sessions[u].ip
  OBVIOUS
<1>2. IsUnderWay(u, ip) <=> LookupsIn(workerBox, masterBox, u, ip) # {}
  BY LookupsInFacts DEF IsUnderWay, IsQueued, IsAnswered
<1>3. IsLookedUp(u) <=> LookupsIn(workerBox, masterBox, u, ip) # {}
  BY <1>1 DEF IsLookedUp, Lookups, LookupsIn
<1> QED BY <1>1, <1>2, <1>3 DEF IsCovered

LEMMA CoveredIsLookedUpNext ==
  ASSUME NEW u
  PROVE  IsCovered(u)' <=> (IsUnresolved(u) => IsLookedUp(u))'
<1>1. PICK ip : ip = sessions'[u].ip
  OBVIOUS
<1>2. IsUnderWay(u, ip)' <=> LookupsIn(workerBox', masterBox', u, ip) # {}
  BY LookupsInFacts DEF IsUnderWay, IsQueued, IsAnswered
<1>3. IsLookedUp(u)' <=> LookupsIn(workerBox', masterBox', u, ip) # {}
  BY <1>1 DEF IsLookedUp, Lookups, LookupsIn
<1> QED BY <1>1, <1>2, <1>3 DEF IsCovered

\* Who is not resolved stays covered when the session and the lookup for it do.
LEMMA CoveredStays ==
  ASSUME NEW u, IsCovered(u),
         IsUnresolved(u)' => sessions'[u] = sessions[u],
         \A ip : sessions[u].ip = ip /\ IsUnderWay(u, ip) => IsUnderWay(u, ip)'
  PROVE  IsCovered(u)'
<1> SUFFICES ASSUME NEW ip, IsUnresolved(u)', sessions'[u].ip = ip
             PROVE  IsUnderWay(u, ip)'
  BY DEF IsCovered
<1>1. IsUnresolved(u) /\ sessions[u].ip = ip
  BY DEF IsUnresolved
<1> QED BY <1>1 DEF IsCovered

LEMMA AnswersStay ==
  ASSUME TypeInv, UNCHANGED masterBox \/ \E m \in Mail : masterBox' = Append(masterBox, m)
  PROVE  \A u, ip : IsAnswered(u, ip) => IsAnswered(u, ip)'
<1>1. CASE UNCHANGED masterBox
  BY <1>1 DEF IsAnswered
<1>2. ASSUME NEW m \in Mail, masterBox' = Append(masterBox, m)
      PROVE  \A u, ip : IsAnswered(u, ip) => IsAnswered(u, ip)'
  <2>1. /\ DOMAIN masterBox' = DOMAIN masterBox \cup {Len(masterBox) + 1}
        /\ \A i \in DOMAIN masterBox : masterBox'[i] = masterBox[i]
    BY <1>2, AppendFacts DEF TypeInv
  <2> QED BY <2>1 DEF IsAnswered
<1> QED BY <1>1, <1>2

\* The master takes a message: the resolutions behind it stay.
LEMMA TailStays ==
  ASSUME TypeInv, masterBox # << >>, masterBox' = Tail(masterBox)
  PROVE  \A u, ip : IsAnswered(u, ip) =>
           \/ IsAnswered(u, ip)'
           \/ /\ Head(masterBox).type = "MsgIpResolution"
              /\ Head(masterBox).userInfo.uuid = u /\ Head(masterBox).userInfo.ip = ip
<1>1. \A i \in DOMAIN masterBox : i = 1 \/ (i - 1 \in DOMAIN masterBox' /\ masterBox'[i - 1] = masterBox[i])
  <2>1. masterBox \in Seq(Mail)
    BY DEF TypeInv
  <2> HIDE DEF Mail
  <2> QED BY <2>1
<1>2. Head(masterBox) = masterBox[1]
  BY TailFacts DEF TypeInv
<1> SUFFICES ASSUME NEW u, NEW ip, IsAnswered(u, ip)
             PROVE  \/ IsAnswered(u, ip)'
                    \/ /\ Head(masterBox).type = "MsgIpResolution"
                       /\ Head(masterBox).userInfo.uuid = u /\ Head(masterBox).userInfo.ip = ip
  OBVIOUS
<1>3. PICK i \in DOMAIN masterBox :
        /\ masterBox[i].type = "MsgIpResolution"
        /\ masterBox[i].userInfo.uuid = u /\ masterBox[i].userInfo.ip = ip
  BY DEF IsAnswered
<1>4. CASE i = 1
  BY <1>2, <1>3, <1>4
<1>5. CASE i - 1 \in DOMAIN masterBox' /\ masterBox'[i - 1] = masterBox[i]
  BY <1>3, <1>5 DEF IsAnswered
<1> QED BY <1>1, <1>4, <1>5

LEMMA QueuedStays ==
  ASSUME UNCHANGED workerBox
  PROVE  \A u, ip : IsQueued(u, ip) => IsQueued(u, ip)'
  BY DEF IsQueued

\* A worker is done with a job: the jobs behind it stay.
LEMMA JobsMoveUp ==
  ASSUME TypeInv, NEW w \in Workers, workerBox[w] # << >>,
         workerBox' = [workerBox EXCEPT ![w] = Tail(workerBox[w])]
  PROVE  \A u, ip : IsQueued(u, ip) =>
           IsQueued(u, ip)' \/ Head(workerBox[w]) = [uuid |-> u, ip |-> ip]
<1>1. workerBox[w] \in Seq(Lookup)
  BY JobType
<1>2. \A v \in Workers : workerBox'[v] = IF v = w THEN Tail(workerBox[w]) ELSE workerBox[v]
  BY DEF TypeInv
<1>3. \A i \in DOMAIN workerBox[w] :
        \/ i = 1
        \/ i - 1 \in DOMAIN Tail(workerBox[w]) /\ Tail(workerBox[w])[i - 1] = workerBox[w][i]
  BY <1>1
<1>4. Head(workerBox[w]) = workerBox[w][1]
  BY <1>1, TailFacts
<1> SUFFICES ASSUME NEW u, NEW ip, IsQueued(u, ip)
             PROVE  IsQueued(u, ip)' \/ Head(workerBox[w]) = [uuid |-> u, ip |-> ip]
  OBVIOUS
<1>5. PICK v \in Workers : \E i \in DOMAIN workerBox[v] :
        workerBox[v][i] = [uuid |-> u, ip |-> ip]
  BY DEF IsQueued
<1>6. PICK i \in DOMAIN workerBox[v] : workerBox[v][i] = [uuid |-> u, ip |-> ip]
  BY <1>5
<1>7. CASE v # w
  BY <1>2, <1>6, <1>7 DEF IsQueued
<1>8. CASE v = w /\ i = 1
  BY <1>4, <1>6, <1>8
<1>9. CASE v = w /\ i - 1 \in DOMAIN workerBox'[v] /\ workerBox'[v][i - 1] = workerBox[v][i]
  BY <1>6, <1>9 DEF IsQueued
<1> QED BY <1>2, <1>3, <1>7, <1>8, <1>9

\* A lookup begins: the jobs in hand stay, and the new one is there.
LEMMA LookupIsQueued ==
  ASSUME TypeInv, NEW uuid \in Uuids, NEW ip \in Ips, StartLookup(uuid, ip)
  PROVE  /\ \A u, i : IsQueued(u, i) => IsQueued(u, i)'
         /\ IsQueued(uuid, ip)'
<1> DEFINE job == [uuid |-> uuid, ip |-> ip]
<1>1. nextRoutee \in Workers /\ workerBox[nextRoutee] \in Seq(Lookup) /\ job \in Lookup
  BY DEF TypeInv, Lookup
<1>2. \A w \in Workers :
        workerBox'[w] = IF w = nextRoutee THEN Append(workerBox[nextRoutee], job)
                        ELSE workerBox[w]
  BY DEF StartLookup, TypeInv
<1> HIDE DEF job
<1>3. /\ DOMAIN Append(workerBox[nextRoutee], job) =
           DOMAIN workerBox[nextRoutee] \cup {Len(workerBox[nextRoutee]) + 1}
      /\ \A i \in DOMAIN workerBox[nextRoutee] :
           Append(workerBox[nextRoutee], job)[i] = workerBox[nextRoutee][i]
      /\ Append(workerBox[nextRoutee], job)[Len(workerBox[nextRoutee]) + 1] = job
  BY <1>1, AppendFacts
<1>4. \A w \in Workers : \A i \in DOMAIN workerBox[w] :
        i \in DOMAIN workerBox'[w] /\ workerBox'[w][i] = workerBox[w][i]
  BY <1>2, <1>3
<1>5. \E i \in DOMAIN workerBox'[nextRoutee] : workerBox'[nextRoutee][i] = job
  BY <1>1, <1>2, <1>3
<1> QED BY <1>1, <1>4, <1>5 DEF IsQueued, job

LEMMA CoveredNext ==
  ASSUME TypeInv, ResolvedOnly, [Next]_vars, NEW u \in Uuids, IsCovered(u),
         ~ \E w \in Workers : WorkerThrows(w) /\ Head(workerBox[w]).uuid = u,
         ~ (OnMsgUserInfoUpdate /\ Head(masterBox).userInfo.uuid = u)
  PROVE  IsCovered(u)'
<1>1. ASSUME UNCHANGED <<sessions, workerBox>>,
             UNCHANGED masterBox \/ \E m \in Mail : masterBox' = Append(masterBox, m)
      PROVE  IsCovered(u)'
  BY <1>1, AnswersStay, QueuedStays, CoveredStays DEF IsUnderWay
<1>2. ASSUME \E r \in Requests, b \in Browsers, q \in UserRequest :
               UNCHANGED <<cookies, uuids, actors, restarts>>
      PROVE  IsCovered(u)'
  BY <1>1, <1>2 DEF actors
<1>3. ASSUME NEW r \in Requests,
             \/ FromSession(r) \/ AskTimesOut(r) \/ RespondHome(r) \/ RespondSolve(r)
             \/ RespondWs(r) \/ Arrive(r)
      PROVE  IsCovered(u)'
  <2>1. UNCHANGED <<sessions, masterBox, workerBox>>
    BY <1>3 DEF FromSession, AskTimesOut, RespondHome, RespondSolve, RespondWs, Arrive, actors
  <2> QED BY <1>1, <2>1
<1>4. ASSUME NEW r \in Requests, NEW uuid \in Uuids, AskMaster(r, uuid)
      PROVE  IsCovered(u)'
  <2>1. PICK m \in MsgResolveIp : masterBox' = Append(masterBox, m)
    BY <1>4, AskMasterStep
  <2>2. m \in Mail /\ UNCHANGED <<sessions, workerBox>>
    BY <1>4 DEF Mail, AskMaster
  <2> QED BY <1>1, <2>1, <2>2
<1>5. ASSUME NEW r \in Requests, RespondName(r)
      PROVE  IsCovered(u)'
  <2>1. PICK info \in User :
          masterBox' = Append(masterBox, [type |-> "MsgUserInfoUpdate", userInfo |-> info])
    BY <1>5, RespondNameStep
  <2>2. /\ [type |-> "MsgUserInfoUpdate", userInfo |-> info] \in Mail
        /\ UNCHANGED <<sessions, workerBox>>
    BY <1>5, UserMail DEF RespondName
  <2> QED BY <1>1, <2>1, <2>2
<1>6. CASE OnMsgUserInfoUpdate
  <2> DEFINE info == Head(masterBox).userInfo
  <2>1. /\ masterBox # << >> /\ masterBox' = Tail(masterBox)
        /\ Head(masterBox).type = "MsgUserInfoUpdate"
        /\ UNCHANGED workerBox
        /\ sessions' = [v \in Uuids |-> UpdatedSession(v, info)]
    BY <1>6, UpdateStep
  <2>2. info.uuid # u
    BY <1>6
  <2> HIDE DEF info
  <2>3. sessions'[u] = sessions[u]
    BY <2>1, <2>2 DEF UpdatedSession
  <2>4. \A ip : IsUnderWay(u, ip) => IsUnderWay(u, ip)'
    BY <2>1, TailStays, QueuedStays DEF IsUnderWay
  <2> QED BY <2>3, <2>4, CoveredStays
<1>7. CASE OnMsgResolveIp
  <2> DEFINE m == Head(masterBox)
  <2>1. /\ m \in MsgResolveIp /\ m.type = "MsgResolveIp"
        /\ masterBox # << >> /\ masterBox' = Tail(masterBox)
    BY <1>7, ResolveStep
  <2>2. m.uuid \in Uuids /\ m.ip \in Ips
    BY <2>1 DEF MsgResolveIp
  <2>3. ResolveKnown(m) \/ ResolveFromCache(m) \/ ResolveByLookup(m)
    BY <1>7 DEF OnMsgResolveIp
  <2>4. \A v, ip : IsAnswered(v, ip) => IsAnswered(v, ip)'
    BY <2>1, TailStays
  <2> HIDE DEF m
  <2>5. CASE ResolveKnown(m)
    <3>1. UNCHANGED <<sessions, workerBox>>
      BY <2>5 DEF ResolveKnown
    <3> QED BY <2>4, <3>1, QueuedStays, CoveredStays DEF IsUnderWay
  <2>6. CASE ResolveFromCache(m)
    <3> DEFINE info == [ip2geo[m.ip] EXCEPT !.uuid = m.uuid]
    <3>1. /\ UNCHANGED workerBox
          /\ ip2geo[m.ip] # NoUser /\ sessions' = [sessions EXCEPT ![m.uuid] = info]
      BY <2>6 DEF ResolveFromCache
    <3>2. info.resolved
      <4>1. ip2geo[m.ip] \in UserInfo /\ ip2geo[m.ip].resolved
        BY <2>2, <3>1 DEF TypeInv, ResolvedOnly
      <4> QED BY <4>1 DEF UserInfo
    <3> HIDE DEF info
    <3>3. IsUnresolved(u)' => sessions'[u] = sessions[u]
      BY <2>2, <3>1, <3>2 DEF TypeInv, IsUnresolved
    <3> QED BY <2>4, <3>1, <3>3, QueuedStays, CoveredStays DEF IsUnderWay
  <2>7. CASE ResolveByLookup(m)
    <3> PICK uuid \in Uuids, place \in Ips : uuid = m.uuid /\ place = m.ip
      BY <2>2
    <3>1. /\ StartLookup(uuid, place)
          /\ sessions' = [sessions EXCEPT ![uuid] = Unresolved(uuid, place)]
      BY <2>7 DEF ResolveByLookup
    <3>2. /\ \A v, ip : IsQueued(v, ip) => IsQueued(v, ip)'
          /\ IsQueued(uuid, place)'
      BY <3>1, LookupIsQueued
    <3>3. CASE u = uuid
      <4>1. sessions'[u].ip = place
        BY <3>1, <3>3 DEF TypeInv, Unresolved
      <4> QED BY <3>2, <3>3, <4>1 DEF IsCovered, IsUnderWay
    <3>4. CASE u # uuid
      <4>1. sessions'[u] = sessions[u]
        BY <3>1, <3>4 DEF TypeInv
      <4> QED BY <2>4, <3>2, <4>1, CoveredStays DEF IsUnderWay
    <3> QED BY <3>3, <3>4
  <2> QED BY <2>3, <2>5, <2>6, <2>7
<1>8. CASE OnMsgIpResolution
  <2> DEFINE info == Head(masterBox).userInfo
  <2>1. /\ masterBox # << >> /\ masterBox' = Tail(masterBox)
        /\ Head(masterBox).type = "MsgIpResolution" /\ info \in User
        /\ UNCHANGED workerBox
    BY <1>8, ResolutionStep
  <2>2. info.resolved
    BY <2>1, HeadType DEF ResolvedOnly
  <2>3. IF KnownAt(info.uuid, info.ip)
        THEN sessions' = [sessions EXCEPT ![info.uuid] = info]
        ELSE UNCHANGED sessions
    BY <1>8 DEF OnMsgIpResolution, IsCurrent
  <2>4. \A ip : IsAnswered(u, ip) => IsAnswered(u, ip)' \/ (info.uuid = u /\ info.ip = ip)
    BY <2>1, TailStays
  <2> HIDE DEF info
  <2> SUFFICES ASSUME NEW ip, IsUnresolved(u)', sessions'[u].ip = ip
               PROVE  IsUnderWay(u, ip)'
    BY DEF IsCovered
  <2>5. sessions'[u] = sessions[u]
    BY <2>2, <2>3 DEF TypeInv, IsUnresolved
  <2>6. IsUnderWay(u, ip)
    BY <2>5 DEF IsCovered, IsUnresolved
  <2>7. ~(info.uuid = u /\ info.ip = ip)
    <3> SUFFICES ASSUME info.uuid = u, info.ip = ip PROVE FALSE
      OBVIOUS
    <3>1. KnownAt(info.uuid, info.ip)
      BY <2>5 DEF KnownAt, IsUnresolved
    <3>2. sessions'[u] = info
      BY <2>3, <3>1 DEF TypeInv
    <3> QED BY <2>2, <3>2 DEF IsUnresolved
  <2> QED BY <2>1, <2>4, <2>6, <2>7, QueuedStays DEF IsUnderWay
<1>9. ASSUME NEW w \in Workers, WorkerResolves(w)
      PROVE  IsCovered(u)'
  <2> DEFINE job == Head(workerBox[w])
  <2>1. /\ workerBox[w] # << >> /\ workerBox' = [workerBox EXCEPT ![w] = Tail(workerBox[w])]
        /\ UNCHANGED sessions
    BY <1>9 DEF WorkerResolves
  <2>2. PICK m \in Mail : /\ masterBox' = Append(masterBox, m)
                          /\ m.type = "MsgIpResolution"
                          /\ m.userInfo.uuid = job.uuid /\ m.userInfo.ip = job.ip
    BY <1>9, WorkerAnswer
  <2>3. \A ip : IsAnswered(u, ip) => IsAnswered(u, ip)'
    BY <2>2, AnswersStay
  <2>4. \A ip : IsQueued(u, ip) => IsQueued(u, ip)' \/ job = [uuid |-> u, ip |-> ip]
    BY <2>1, JobsMoveUp
  <2>5. /\ Len(masterBox) + 1 \in DOMAIN masterBox'
        /\ masterBox'[Len(masterBox) + 1] = m
    BY <2>2, AppendFacts DEF TypeInv
  <2> HIDE DEF job
  <2>6. \A ip : job = [uuid |-> u, ip |-> ip] => IsAnswered(u, ip)'
    BY <2>2, <2>5 DEF IsAnswered
  <2> QED BY <2>1, <2>3, <2>4, <2>6, CoveredStays DEF IsUnderWay
<1>10. ASSUME NEW w \in Workers, WorkerThrows(w)
       PROVE  IsCovered(u)'
  <2>1. /\ workerBox[w] # << >> /\ workerBox' = [workerBox EXCEPT ![w] = Tail(workerBox[w])]
        /\ UNCHANGED <<sessions, masterBox>>
    BY <1>10 DEF WorkerThrows
  <2>2. PICK job : job = Head(workerBox[w])
    OBVIOUS
  <2>3. job.uuid # u
    BY <1>10, <2>2
  <2>4. \A ip : IsQueued(u, ip) => IsQueued(u, ip)'
    <3>1. \A ip : job # [uuid |-> u, ip |-> ip]
      BY <2>3
    <3>2. \A ip : IsQueued(u, ip) => IsQueued(u, ip)' \/ job = [uuid |-> u, ip |-> ip]
      BY <2>1, <2>2, JobsMoveUp
    <3> QED BY <3>1, <3>2
  <2> QED BY <2>1, <2>4, AnswersStay, CoveredStays DEF IsUnderWay
<1>11. CASE Restart
  BY <1>11 DEF Restart, IsCovered, IsUnresolved
<1>12. CASE UNCHANGED vars
  BY <1>1, <1>12 DEF vars
<1> QED BY <1>2, <1>3, <1>4, <1>5, <1>6, <1>7, <1>8, <1>9, <1>10, <1>11, <1>12,
           SendCases DEF Next, HandleRequest, Respond, MasterStep

\* Whoever becomes known and unresolved is looked up until the resolution comes:
\* users who move, ask again and return while their lookups run, requests that
\* time out, renames of others and restarts take no lookup away.  Only a failed
\* lookup and a rename of that user do, which both go unrepaired in the code.
THEOREM LookupsNotForgotten == Spec => LookupsAreNotForgotten
<1>1. Init => ResolvedOnly
  BY DEF Init, InitActors, ResolvedOnly
<1>2. TypeInv /\ ResolvedOnly /\ [Next]_vars => ResolvedOnly'
  BY ResolvedNext
<1>3. TypeInv /\ ResolvedOnly /\ [Next]_vars =>
        [\A u \in Uuids :
           (IsUnresolved(u) => IsLookedUp(u)) /\ ~(IsUnresolved(u) => IsLookedUp(u))' =>
             \/ \E w \in Workers : WorkerThrows(w) /\ Head(workerBox[w]).uuid = u
             \/ OnMsgUserInfoUpdate /\ Head(masterBox).userInfo.uuid = u]_vars
  BY CoveredNext, CoveredIsLookedUp, CoveredIsLookedUpNext
<1> QED BY <1>1, <1>2, <1>3, TypeInvInit, TypeInvNext, AskInvNext, PTL
        DEF Spec, LookupsAreNotForgotten

-----------------------------------------------------------------------------
(* Nobody waits in vain.                                                   *)

\* What request r has asked the master.
AskedBy(r) == [type |-> "MsgResolveIp", uuid |-> reqs[r].info.uuid,
               ip |-> reqs[r].info.ip, sender |-> r]

\* Who asks has asked already, for the same.
NobodyAsks ==
  \A r \in Requests :
    InPhase(r, "asking")' => InPhase(r, "asking") /\ reqs'[r].info = reqs[r].info

LEMMA PhasesAsk ==
  ASSUME OnlyPhases
  PROVE  NobodyAsks
  BY DEF OnlyPhases, NobodyAsks, InPhase

LEMMA GoesOnAsk ==
  ASSUME TypeInv, NEW r \in Requests, NEW q \in UserRequest, q.phase # "asking",
         reqs' = [reqs EXCEPT ![r] = q]
  PROVE  NobodyAsks
<1>1. reqs'[r] = q /\ \A s \in Requests : s # r => reqs'[s] = reqs[s]
  BY DEF TypeInv
<1> QED BY <1>1 DEF NobodyAsks, InPhase

\* The sender of an ask that has been answered asks no longer.
LEMMA AnsweredStops ==
  ASSUME TypeInv, NEW r \in Requests, NEW info \in User, Reply(r, info)
  PROVE  ~InPhase(r, "asking")'
<1>1. CASE ~InPhase(r, "asking")
  BY <1>1 DEF Reply, InPhase
<1>2. CASE InPhase(r, "asking")
  <2>1. reqs[r] \in UserRequest
    BY <1>2, RequestType DEF InPhase
  <2>2. reqs' = [reqs EXCEPT ![r] = WithInfo(reqs[r], "known", info)]
    BY <1>2, <2>1 DEF Reply, WithInfo, TypeInv
  <2>3. reqs'[r].phase = "known"
    BY <2>1, <2>2, InfoChange DEF TypeInv
  <2> QED BY <2>3 DEF InPhase
<1> QED BY <1>1, <1>2

\* An ask stays in the mailbox until it is at the head of it.
LEMMA AsksStay ==
  ASSUME TypeInv, NobodyWaitsInVain, NobodyAsks,
         \/ UNCHANGED masterBox
         \/ \E m \in Mail : masterBox' = Append(masterBox, m)
         \/ /\ masterBox # << >> /\ masterBox' = Tail(masterBox)
            /\ Head(masterBox).type = "MsgResolveIp" =>
                 \A r \in Requests : r = Head(masterBox).sender => ~InPhase(r, "asking")'
  PROVE  NobodyWaitsInVain'
<1> SUFFICES ASSUME NEW r \in Requests, InPhase(r, "asking")'
             PROVE  \E i \in DOMAIN masterBox' : masterBox'[i] = AskedBy(r)'
  BY DEF NobodyWaitsInVain, AskedBy
<1>1. InPhase(r, "asking") /\ AskedBy(r)' = AskedBy(r)
  BY DEF NobodyAsks, AskedBy
<1>2. PICK k \in DOMAIN masterBox : masterBox[k] = AskedBy(r)
  BY <1>1 DEF NobodyWaitsInVain, AskedBy
<1>3. masterBox \in Seq(Mail)
  BY DEF TypeInv
<1> HIDE DEF Mail
<1>4. ASSUME NEW m \in Mail, masterBox' = Append(masterBox, m)
      PROVE  k \in DOMAIN masterBox' /\ masterBox'[k] = masterBox[k]
  BY <1>3, <1>4, AppendFacts
<1>5. ASSUME masterBox # << >>, masterBox' = Tail(masterBox),
             Head(masterBox).type = "MsgResolveIp" =>
               \A s \in Requests : s = Head(masterBox).sender => ~InPhase(s, "asking")'
      PROVE  \E i \in DOMAIN masterBox' : masterBox'[i] = masterBox[k]
  <2>1. Head(masterBox) = masterBox[1]
    BY <1>3, <1>5, TailFacts
  <2>2. masterBox[k].type = "MsgResolveIp" /\ masterBox[k].sender = r
    BY <1>2 DEF AskedBy
  <2>3. k # 1
    BY <1>5, <2>1, <2>2
  <2>4. k - 1 \in DOMAIN Tail(masterBox) /\ Tail(masterBox)[k - 1] = masterBox[k]
    BY <1>3, <1>5, <2>3
  <2> QED BY <1>5, <2>4
<1> QED BY <1>1, <1>2, <1>4, <1>5

LEMMA InVainNext ==
  ASSUME TypeInv, AskInv, NobodyWaitsInVain, [Next]_vars
  PROVE  NobodyWaitsInVain'
<1>1. ASSUME \E r \in Requests, b \in Browsers, q \in UserRequest :
               /\ reqs[r] = NoUser
               /\ reqs' = [reqs EXCEPT ![r] = q]
               /\ q.cookie = cookies[b] /\ q.info = NoUser
               /\ UNCHANGED <<cookies, uuids, actors, restarts>>
      PROVE  NobodyWaitsInVain'
  <2>1. PICK r \in Requests, q \in UserRequest :
          reqs' = [reqs EXCEPT ![r] = q] /\ q.info = NoUser /\ UNCHANGED masterBox
    BY <1>1 DEF actors
  <2>2. q.phase # "asking"
    BY <2>1 DEF UserRequest
  <2> QED BY <2>1, <2>2, GoesOnAsk, AsksStay
<1>2. ASSUME NEW r \in Requests, FromSession(r)
      PROVE  NobodyWaitsInVain'
  <2>1. PICK q \in UserRequest : GoesOn(r, q) /\ q.phase = "known"
    BY <1>2, FromSessionStep
  <2>2. UNCHANGED masterBox
    BY <1>2 DEF FromSession, actors
  <2> QED BY <2>1, <2>2, GoesOnAsk, AsksStay DEF GoesOn
<1>3. ASSUME NEW r \in Requests, NEW uuid \in Uuids, AskMaster(r, uuid)
      PROVE  NobodyWaitsInVain'
  <2>1. PICK q \in UserRequest, m \in MsgResolveIp :
          /\ GoesOn(r, q) /\ q.info.uuid = uuid /\ m.sender = r /\ m.uuid = uuid
          /\ q.info.ip = m.ip /\ masterBox' = Append(masterBox, m)
    BY <1>3, AskMasterStep
  <2>2. reqs'[r] = q /\ \A s \in Requests : s # r => reqs'[s] = reqs[s]
    BY <2>1 DEF GoesOn, TypeInv
  <2>3. m = AskedBy(r)'
    BY <2>1, <2>2 DEF MsgResolveIp, AskedBy
  <2>4. m \in Mail /\ masterBox \in Seq(Mail)
    BY DEF Mail, TypeInv
  <2> HIDE DEF Mail
  <2>5. /\ DOMAIN masterBox' = DOMAIN masterBox \cup {Len(masterBox) + 1}
        /\ \A i \in DOMAIN masterBox : masterBox'[i] = masterBox[i]
        /\ masterBox'[Len(masterBox) + 1] = m
    BY <2>1, <2>4, AppendFacts
  <2> SUFFICES ASSUME NEW s \in Requests, InPhase(s, "asking")'
               PROVE  \E i \in DOMAIN masterBox' : masterBox'[i] = AskedBy(s)'
    BY DEF NobodyWaitsInVain, AskedBy
  <2>6. CASE s = r
    BY <2>3, <2>5, <2>6
  <2>7. CASE s # r
    <3>1. InPhase(s, "asking") /\ AskedBy(s)' = AskedBy(s)
      BY <2>2, <2>7 DEF InPhase, AskedBy
    <3>2. PICK k \in DOMAIN masterBox : masterBox[k] = AskedBy(s)
      BY <3>1 DEF NobodyWaitsInVain, AskedBy
    <3> QED BY <2>5, <3>1, <3>2
  <2> QED BY <2>6, <2>7
<1>4. ASSUME NEW r \in Requests,
             AskTimesOut(r) \/ RespondHome(r) \/ RespondSolve(r) \/ RespondWs(r) \/ Arrive(r)
      PROVE  NobodyWaitsInVain'
  <2>1. OnlyPhases
    BY <1>4, AskTimesOutStep, RespondHomeStep, RespondStep
  <2>2. UNCHANGED masterBox
    BY <1>4 DEF AskTimesOut, RespondHome, RespondSolve, RespondWs, Arrive, actors
  <2> QED BY <2>1, <2>2, PhasesAsk, AsksStay
<1>5. ASSUME NEW r \in Requests, RespondName(r)
      PROVE  NobodyWaitsInVain'
  <2>1. PICK q \in UserRequest, userInfo \in User :
          /\ GoesOn(r, q) /\ q.phase = "responded"
          /\ masterBox' = Append(masterBox, [type |-> "MsgUserInfoUpdate",
                                             userInfo |-> userInfo])
    BY <1>5, RespondNameStep
  <2>2. NobodyAsks
    BY <2>1, GoesOnAsk DEF GoesOn
  <2> QED BY <2>1, <2>2, UserMail, AsksStay
<1>6. CASE OnMsgUserInfoUpdate
  <2>1. /\ masterBox # << >> /\ masterBox' = Tail(masterBox) /\ UNCHANGED reqs
        /\ Head(masterBox).type = "MsgUserInfoUpdate"
    BY <1>6, UpdateStep
  <2> QED BY <2>1, UnchangedRequests, PhasesAsk, AsksStay
<1>7. CASE OnMsgResolveIp
  <2>1. PICK info \in User :
          /\ masterBox # << >> /\ masterBox' = Tail(masterBox)
          /\ Head(masterBox) \in MsgResolveIp /\ Head(masterBox).type = "MsgResolveIp"
          /\ info.uuid = Head(masterBox).uuid /\ Reply(Head(masterBox).sender, info)
    BY <1>7, ResolveStep
  <2>2. \A r \in Requests : r = Head(masterBox).sender => ~InPhase(r, "asking")'
    BY <2>1, AnsweredStops
  <2>3. CASE UNCHANGED reqs
    BY <2>1, <2>2, <2>3, UnchangedRequests, PhasesAsk, AsksStay
  <2>4. CASE \E r \in Requests, q \in UserRequest : GoesOn(r, q) /\ q.phase = "known"
    <3>1. NobodyAsks
      BY <2>4, GoesOnAsk DEF GoesOn
    <3> QED BY <2>1, <2>2, <3>1, AsksStay
  <2> QED BY <2>1, <2>3, <2>4, ReplyStep
<1>8. CASE OnMsgIpResolution
  <2>1. /\ masterBox # << >> /\ masterBox' = Tail(masterBox) /\ OnlyPhases
        /\ Head(masterBox).type = "MsgIpResolution"
    BY <1>8, ResolutionStep
  <2> QED BY <2>1, PhasesAsk, AsksStay
<1>9. ASSUME NEW w \in Workers, WorkerResolves(w) \/ WorkerThrows(w)
      PROVE  NobodyWaitsInVain'
  <2>1. NobodyAsks
    BY <1>9, WorkerStep, UnchangedRequests, PhasesAsk
  <2>2. UNCHANGED masterBox \/ \E m \in Mail : masterBox' = Append(masterBox, m)
    BY <1>9, WorkerStep, UserMail
  <2> QED BY <2>1, <2>2, AsksStay
<1>10. CASE Restart
  <2>1. \A r \in Requests : ~InPhase(r, "asking")'
    BY <1>10, RestartStep DEF InPhase
  <2> QED BY <2>1 DEF NobodyWaitsInVain
<1>11. CASE UNCHANGED vars
  <2>1. UNCHANGED <<reqs, masterBox>>
    BY <1>11 DEF vars
  <2> QED BY <2>1, UnchangedRequests, PhasesAsk, AsksStay
<1> QED BY <1>1, <1>2, <1>3, <1>4, <1>5, <1>6, <1>7, <1>8, <1>9, <1>10, <1>11,
           SendCases DEF Next, HandleRequest, Respond, MasterStep

\* A thread that is blocked on the master has its ask in the mailbox, whatever
\* becomes of the users, the lookups and the other requests meanwhile.
THEOREM NobodyInVain == Spec => []NobodyWaitsInVain
<1>1. Init => NobodyWaitsInVain
  BY DEF Init, NobodyWaitsInVain, InPhase
<1>2. TypeInv /\ AskInv /\ NobodyWaitsInVain /\ [Next]_vars => NobodyWaitsInVain'
  BY InVainNext
<1> QED BY <1>1, <1>2, TypeInvInit, TypeInvNext, AskInvNext, PTL DEF Spec
=============================================================================
