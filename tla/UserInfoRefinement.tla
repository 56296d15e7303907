------------------------- MODULE UserInfoRefinement -------------------------
(***************************************************************************)
(* UserInfoMaster implements UserService: under the mapping of its state   *)
(* to what is asked, renamed, known and looked up, it starts where the     *)
(* service starts and every step of it is a step of the service or changes *)
(* nothing there.                                                          *)
(***************************************************************************)
EXTENDS UserInfoMasterProofs

-----------------------------------------------------------------------------
(* What lies in a mailbox.                                                 *)

AskOf(m) == [sender |-> m.sender, uuid |-> m.uuid, ip |-> m.ip]

JobOf(info) == [uuid |-> info.uuid, ip |-> info.ip]

AsksIn(box) == {AskOf(box[i]) : i \in {k \in DOMAIN box : box[k].type = "MsgResolveIp"}}

RenamesIn(box) ==
  {box[i].userInfo : i \in {k \in DOMAIN box : box[k].type = "MsgUserInfoUpdate"}}

ResolvedIn(box) ==
  {JobOf(box[i].userInfo) : i \in {k \in DOMAIN box : box[k].type = "MsgIpResolution"}}

JobsIn(boxes) == UNION {{boxes[w][i] : i \in DOMAIN boxes[w]} : w \in Workers}

\* The service sees the messages of a mailbox, whatever their order.
LEMMA MailMapped ==
  /\ ServiceAsks = AsksIn(masterBox) /\ ServiceAsks' = AsksIn(masterBox')
  /\ ServiceRenames = RenamesIn(masterBox) /\ ServiceRenames' = RenamesIn(masterBox')
  /\ ServiceLookups = JobsIn(workerBox) \cup ResolvedIn(masterBox)
  /\ ServiceLookups' = JobsIn(workerBox') \cup ResolvedIn(masterBox')
<1>1. ServiceAsks = AsksIn(masterBox) /\ ServiceAsks' = AsksIn(masterBox')
  BY DEF ServiceAsks, MailOf, AsksIn, AskOf
<1>2. ServiceRenames = RenamesIn(masterBox) /\ ServiceRenames' = RenamesIn(masterBox')
  BY DEF ServiceRenames, MailOf, RenamesIn
<1>3. ServiceLookups = JobsIn(workerBox) \cup ResolvedIn(masterBox)
  BY DEF ServiceLookups, JobsIn, MailOf, ResolvedIn, JobOf
<1>4. ServiceLookups' = JobsIn(workerBox') \cup ResolvedIn(masterBox')
  BY DEF ServiceLookups, JobsIn, MailOf, ResolvedIn, JobOf
<1> QED BY <1>1, <1>2, <1>3, <1>4

\* A message more.
LEMMA MailAppended ==
  ASSUME NEW S, NEW box \in Seq(S), NEW m \in S
  PROVE  /\ AsksIn(Append(box, m)) =
              AsksIn(box) \cup (IF m.type = "MsgResolveIp" THEN {AskOf(m)} ELSE {})
         /\ RenamesIn(Append(box, m)) =
              RenamesIn(box) \cup (IF m.type = "MsgUserInfoUpdate" THEN {m.userInfo} ELSE {})
         /\ ResolvedIn(Append(box, m)) =
              ResolvedIn(box) \cup (IF m.type = "MsgIpResolution" THEN {JobOf(m.userInfo)} ELSE {})
<1> DEFINE new == Append(box, m)
<1>1. /\ DOMAIN new = DOMAIN box \cup {Len(box) + 1}
      /\ \A i \in DOMAIN box : new[i] = box[i]
      /\ new[Len(box) + 1] = m
  BY AppendFacts
<1> HIDE DEF new
<1>2. AsksIn(new) = AsksIn(box) \cup (IF m.type = "MsgResolveIp" THEN {AskOf(m)} ELSE {})
  BY <1>1 DEF AsksIn
<1>3. RenamesIn(new) =
        RenamesIn(box) \cup (IF m.type = "MsgUserInfoUpdate" THEN {m.userInfo} ELSE {})
  BY <1>1 DEF RenamesIn
<1>4. ResolvedIn(new) =
        ResolvedIn(box) \cup (IF m.type = "MsgIpResolution" THEN {JobOf(m.userInfo)} ELSE {})
  BY <1>1 DEF ResolvedIn
<1> QED BY <1>2, <1>3, <1>4 DEF new

\* Every message but the first has its place in the tail.
LEMMA TailCovers ==
  ASSUME NEW S, NEW box \in Seq(S), box # << >>
  PROVE  /\ \A i \in DOMAIN Tail(box) :
              i \in Nat /\ i + 1 \in DOMAIN box /\ i + 1 # 1 /\ Tail(box)[i] = box[i + 1]
         /\ \A i \in DOMAIN box :
              i = 1 \/ (i - 1 \in DOMAIN Tail(box) /\ Tail(box)[i - 1] = box[i])
         /\ 1 \in DOMAIN box /\ Head(box) = box[1]
  OBVIOUS

\* A message less: it is gone, or there is another like it.
LEMMA MailTaken ==
  ASSUME NEW S, NEW box \in Seq(S), box # << >>
  PROVE  LET m == Head(box) IN
         /\ AsksIn(box) =
              AsksIn(Tail(box)) \cup (IF m.type = "MsgResolveIp" THEN {AskOf(m)} ELSE {})
         /\ RenamesIn(box) =
              RenamesIn(Tail(box)) \cup (IF m.type = "MsgUserInfoUpdate" THEN {m.userInfo} ELSE {})
         /\ ResolvedIn(box) =
              ResolvedIn(Tail(box)) \cup (IF m.type = "MsgIpResolution" THEN {JobOf(m.userInfo)} ELSE {})
<1> DEFINE m   == Head(box)
           new == Tail(box)
<1>1. /\ \A i \in DOMAIN new : i + 1 \in DOMAIN box /\ new[i] = box[i + 1]
      /\ \A i \in DOMAIN box : i = 1 \/ (i - 1 \in DOMAIN new /\ new[i - 1] = box[i])
      /\ 1 \in DOMAIN box /\ m = box[1]
  BY TailCovers
<1> HIDE DEF new, m
<1>2. AsksIn(box) = AsksIn(new) \cup (IF m.type = "MsgResolveIp" THEN {AskOf(m)} ELSE {})
  BY <1>1 DEF AsksIn
<1>3. RenamesIn(box) =
        RenamesIn(new) \cup (IF m.type = "MsgUserInfoUpdate" THEN {m.userInfo} ELSE {})
  BY <1>1 DEF RenamesIn
<1>4. ResolvedIn(box) =
        ResolvedIn(new) \cup (IF m.type = "MsgIpResolution" THEN {JobOf(m.userInfo)} ELSE {})
  BY <1>1 DEF ResolvedIn
<1> QED BY <1>2, <1>3, <1>4 DEF m, new

\* A job more for a worker, or one less.
LEMMA JobsChange ==
  ASSUME NEW boxes \in [Workers -> Seq(Lookup)], NEW w \in Workers
  PROVE  /\ \A job \in Lookup :
              JobsIn([boxes EXCEPT ![w] = Append(boxes[w], job)]) = JobsIn(boxes) \cup {job}
         /\ boxes[w] # << >> =>
              JobsIn(boxes) = JobsIn([boxes EXCEPT ![w] = Tail(boxes[w])]) \cup {Head(boxes[w])}
<1>1. boxes[w] \in Seq(Lookup)
  OBVIOUS
<1>2. \A b : \A x : x \in JobsIn(b) <=> \E v \in Workers : \E i \in DOMAIN b[v] : b[v][i] = x
  BY DEF JobsIn
<1>3. ASSUME NEW job \in Lookup
      PROVE  JobsIn([boxes EXCEPT ![w] = Append(boxes[w], job)]) = JobsIn(boxes) \cup {job}
  <2> DEFINE box == Append(boxes[w], job)
             new == [boxes EXCEPT ![w] = box]
  <2>1. /\ DOMAIN box = DOMAIN boxes[w] \cup {Len(boxes[w]) + 1}
        /\ \A i \in DOMAIN boxes[w] : box[i] = boxes[w][i]
        /\ box[Len(boxes[w]) + 1] = job
    BY <1>1, AppendFacts
  <2> HIDE DEF box
  <2>2. \A v \in Workers : new[v] = IF v = w THEN box ELSE boxes[v]
    OBVIOUS
  <2> HIDE DEF new
  <2>3. \A x : x \in JobsIn(new) <=> x \in JobsIn(boxes) \cup {job}
    BY <1>2, <2>1, <2>2
  <2> QED BY <2>3 DEF new, box
<1>4. ASSUME boxes[w] # << >>
      PROVE  JobsIn(boxes) = JobsIn([boxes EXCEPT ![w] = Tail(boxes[w])]) \cup {Head(boxes[w])}
  <2> DEFINE box == Tail(boxes[w])
             job == Head(boxes[w])
             new == [boxes EXCEPT ![w] = box]
  <2>1. /\ \A i \in DOMAIN box : i + 1 \in DOMAIN boxes[w] /\ box[i] = boxes[w][i + 1]
        /\ \A i \in DOMAIN boxes[w] : i = 1 \/ (i - 1 \in DOMAIN box /\ box[i - 1] = boxes[w][i])
        /\ 1 \in DOMAIN boxes[w] /\ job = boxes[w][1]
    BY <1>1, <1>4, TailCovers
  <2> HIDE DEF box, job
  <2>2. \A v \in Workers : new[v] = IF v = w THEN box ELSE boxes[v]
    OBVIOUS
  <2> HIDE DEF new
  <2>3. \A x : x \in JobsIn(boxes) <=> x \in JobsIn(new) \cup {job}
    BY <1>2, <2>1, <2>2
  <2> QED BY <2>3 DEF new, box, job
<1> QED BY <1>3, <1>4
\* The same of the mailboxes of the registry.
LEMMA MasterBoxSteps ==
  ASSUME TypeInv
  PROVE  /\ \A m \in Mail : masterBox' = Append(masterBox, m) =>
              /\ AsksIn(masterBox') =
                   AsksIn(masterBox) \cup (IF m.type = "MsgResolveIp" THEN {AskOf(m)} ELSE {})
              /\ RenamesIn(masterBox') = RenamesIn(masterBox)
                   \cup (IF m.type = "MsgUserInfoUpdate" THEN {m.userInfo} ELSE {})
              /\ ResolvedIn(masterBox') = ResolvedIn(masterBox)
                   \cup (IF m.type = "MsgIpResolution" THEN {JobOf(m.userInfo)} ELSE {})
         /\ masterBox # << >> /\ masterBox' = Tail(masterBox) =>
              LET m == Head(masterBox) IN
              /\ AsksIn(masterBox) =
                   AsksIn(masterBox') \cup (IF m.type = "MsgResolveIp" THEN {AskOf(m)} ELSE {})
              /\ RenamesIn(masterBox) = RenamesIn(masterBox')
                   \cup (IF m.type = "MsgUserInfoUpdate" THEN {m.userInfo} ELSE {})
              /\ ResolvedIn(masterBox) = ResolvedIn(masterBox')
                   \cup (IF m.type = "MsgIpResolution" THEN {JobOf(m.userInfo)} ELSE {})
<1>1. PICK box, S : box = masterBox /\ S = Mail
  OBVIOUS
<1>2. box \in Seq(S)
  BY <1>1 DEF TypeInv
<1>3. \A m \in S :
        /\ AsksIn(Append(box, m)) =
             AsksIn(box) \cup (IF m.type = "MsgResolveIp" THEN {AskOf(m)} ELSE {})
        /\ RenamesIn(Append(box, m)) = RenamesIn(box)
             \cup (IF m.type = "MsgUserInfoUpdate" THEN {m.userInfo} ELSE {})
        /\ ResolvedIn(Append(box, m)) = ResolvedIn(box)
             \cup (IF m.type = "MsgIpResolution" THEN {JobOf(m.userInfo)} ELSE {})
  BY <1>2, MailAppended
<1>4. box # << >> =>
        LET m == Head(box) IN
        /\ AsksIn(box) =
             AsksIn(Tail(box)) \cup (IF m.type = "MsgResolveIp" THEN {AskOf(m)} ELSE {})
        /\ RenamesIn(box) = RenamesIn(Tail(box))
             \cup (IF m.type = "MsgUserInfoUpdate" THEN {m.userInfo} ELSE {})
        /\ ResolvedIn(box) = ResolvedIn(Tail(box))
             \cup (IF m.type = "MsgIpResolution" THEN {JobOf(m.userInfo)} ELSE {})
  BY <1>2, MailTaken
<1>5. ASSUME NEW m \in Mail, masterBox' = Append(masterBox, m)
      PROVE  /\ AsksIn(masterBox') =
                  AsksIn(masterBox) \cup (IF m.type = "MsgResolveIp" THEN {AskOf(m)} ELSE {})
             /\ RenamesIn(masterBox') = RenamesIn(masterBox)
                  \cup (IF m.type = "MsgUserInfoUpdate" THEN {m.userInfo} ELSE {})
             /\ ResolvedIn(masterBox') = ResolvedIn(masterBox)
                  \cup (IF m.type = "MsgIpResolution" THEN {JobOf(m.userInfo)} ELSE {})
  <2>1. m \in S /\ masterBox' = Append(box, m)
    BY <1>1, <1>5
  <2> HIDE DEF Mail
  <2> QED BY <1>1, <1>3, <2>1
<1>6. ASSUME masterBox # << >>, masterBox' = Tail(masterBox)
      PROVE  LET m == Head(masterBox) IN
             /\ AsksIn(masterBox) =
                  AsksIn(masterBox') \cup (IF m.type = "MsgResolveIp" THEN {AskOf(m)} ELSE {})
             /\ RenamesIn(masterBox) = RenamesIn(masterBox')
                  \cup (IF m.type = "MsgUserInfoUpdate" THEN {m.userInfo} ELSE {})
             /\ ResolvedIn(masterBox) = ResolvedIn(masterBox')
                  \cup (IF m.type = "MsgIpResolution" THEN {JobOf(m.userInfo)} ELSE {})
  BY <1>1, <1>4, <1>6
<1> QED BY <1>5, <1>6

LEMMA WorkerBoxSteps ==
  ASSUME TypeInv, NEW w \in Workers
  PROVE  /\ \A job \in Lookup :
              workerBox' = [workerBox EXCEPT ![w] = Append(workerBox[w], job)]
              => JobsIn(workerBox') = JobsIn(workerBox) \cup {job}
         /\ workerBox[w] # << >> /\ workerBox' = [workerBox EXCEPT ![w] = Tail(workerBox[w])]
              => JobsIn(workerBox) = JobsIn(workerBox') \cup {Head(workerBox[w])}
<1>1. PICK boxes : boxes = workerBox
  OBVIOUS
<1>2. boxes \in [Workers -> Seq(Lookup)]
  BY <1>1 DEF TypeInv
<1>3. /\ \A job \in Lookup :
           JobsIn([boxes EXCEPT ![w] = Append(boxes[w], job)]) = JobsIn(boxes) \cup {job}
      /\ boxes[w] # << >> =>
           JobsIn(boxes) = JobsIn([boxes EXCEPT ![w] = Tail(boxes[w])]) \cup {Head(boxes[w])}
  BY <1>2, JobsChange
<1> QED BY <1>1, <1>3

-----------------------------------------------------------------------------
(* The invariant behind the mapping.                                       *)

\* No request has two asks in the mailbox.
AsksApart ==
  \A i \in DOMAIN masterBox : \A j \in DOMAIN masterBox :
    /\ masterBox[i].type = "MsgResolveIp" /\ masterBox[j].type = "MsgResolveIp"
    /\ masterBox[i].sender = masterBox[j].sender
    => i = j

\* What the lookup service says of an address names nobody.
IsPlain(info) == info.resolved /\ info.name = GuyIncognito

PlainInv ==
  /\ \A i \in DOMAIN masterBox :
       masterBox[i].type = "MsgIpResolution" => IsPlain(masterBox[i].userInfo)
  /\ \A ip \in Ips : ip2geo[ip] # NoUser => IsPlain(ip2geo[ip]) /\ ip2geo[ip].ip = ip

MailInv == AsksApart /\ PlainInv

\* Asks and resolutions keep their order, moving up k places, and no new ones
\* come.
LettersMove(k) ==
  \A i \in DOMAIN masterBox' : masterBox'[i].type \in {"MsgResolveIp", "MsgIpResolution"} =>
    i \in Nat /\ i + k \in DOMAIN masterBox /\ masterBox'[i] = masterBox[i + k]

LEMMA LettersMoveFacts ==
  ASSUME TypeInv
  PROVE  /\ UNCHANGED masterBox => LettersMove(0)
         /\ masterBox # << >> /\ masterBox' = Tail(masterBox) => LettersMove(1)
         /\ masterBox' = << >> => LettersMove(0)
         /\ \A m \in Mail :
              masterBox' = Append(masterBox, m) /\ m.type = "MsgUserInfoUpdate" => LettersMove(0)
<1>1. masterBox \in Seq(Mail) /\ \A i \in DOMAIN masterBox : i \in Nat
  BY DEF TypeInv
<1> HIDE DEF Mail
<1>2. UNCHANGED masterBox => LettersMove(0)
  BY <1>1 DEF LettersMove
<1>3. masterBox # << >> /\ masterBox' = Tail(masterBox) => LettersMove(1)
  BY <1>1, TailCovers DEF LettersMove
<1>4. masterBox' = << >> => LettersMove(0)
  BY DEF LettersMove
<1>5. ASSUME NEW m \in Mail, masterBox' = Append(masterBox, m), m.type = "MsgUserInfoUpdate"
      PROVE  LettersMove(0)
  <2>1. /\ DOMAIN masterBox' = DOMAIN masterBox \cup {Len(masterBox) + 1}
        /\ \A i \in DOMAIN masterBox : masterBox'[i] = masterBox[i]
        /\ masterBox'[Len(masterBox) + 1] = m
    BY <1>1, <1>5, AppendFacts
  <2> QED BY <1>1, <1>5, <2>1 DEF LettersMove
<1> QED BY <1>2, <1>3, <1>4, <1>5

LEMMA NoNewLetters ==
  ASSUME MailInv, NEW k \in {0, 1}, LettersMove(k),
         \A ip \in Ips : ip2geo'[ip] # NoUser => IsPlain(ip2geo'[ip]) /\ ip2geo'[ip].ip = ip
  PROVE  MailInv'
<1>1. AsksApart'
  <2> SUFFICES ASSUME NEW i \in DOMAIN masterBox', NEW j \in DOMAIN masterBox',
                      masterBox'[i].type = "MsgResolveIp", masterBox'[j].type = "MsgResolveIp",
                      masterBox'[i].sender = masterBox'[j].sender
               PROVE  i = j
    BY DEF AsksApart
  <2>1. /\ i \in Nat /\ i + k \in DOMAIN masterBox /\ masterBox'[i] = masterBox[i + k]
        /\ j \in Nat /\ j + k \in DOMAIN masterBox /\ masterBox'[j] = masterBox[j + k]
    BY DEF LettersMove
  <2>2. i + k = j + k
    BY <2>1 DEF MailInv, AsksApart
  <2> QED BY <2>1, <2>2
<1>2. \A i \in DOMAIN masterBox' :
        masterBox'[i].type = "MsgIpResolution" => IsPlain(masterBox'[i].userInfo)
  BY DEF LettersMove, MailInv, PlainInv
<1>3. PlainInv'
  BY <1>2 DEF PlainInv, IsPlain
<1> QED BY <1>1, <1>3 DEF MailInv

LEMMA NewResolution ==
  ASSUME TypeInv, MailInv, UNCHANGED ip2geo, NEW info \in User, IsPlain(info),
         masterBox' = Append(masterBox, [type |-> "MsgIpResolution", userInfo |-> info])
  PROVE  MailInv'
<1> DEFINE m == [type |-> "MsgIpResolution", userInfo |-> info]
<1>1. m \in Mail /\ m.type = "MsgIpResolution" /\ m.userInfo = info
  BY UserMail
<1> HIDE DEF m
<1>2. /\ DOMAIN masterBox' = DOMAIN masterBox \cup {Len(masterBox) + 1}
      /\ \A i \in DOMAIN masterBox : masterBox'[i] = masterBox[i]
      /\ masterBox'[Len(masterBox) + 1] = m
  BY <1>1, AppendFacts DEF TypeInv, m
<1>3. AsksApart'
  BY <1>1, <1>2 DEF MailInv, AsksApart
<1>4. PlainInv'
  BY <1>1, <1>2 DEF MailInv, PlainInv, IsPlain
<1> QED BY <1>3, <1>4 DEF MailInv

LEMMA NewAsk ==
  ASSUME TypeInv, AskInv, MailInv, UNCHANGED ip2geo, NEW m \in MsgResolveIp,
         masterBox' = Append(masterBox, m), reqs[m.sender].phase = "sent"
  PROVE  MailInv'
<1>1. m \in Mail /\ m.type = "MsgResolveIp"
  BY DEF Mail, MsgResolveIp
<1>2. /\ DOMAIN masterBox' = DOMAIN masterBox \cup {Len(masterBox) + 1}
      /\ \A i \in DOMAIN masterBox : masterBox'[i] = masterBox[i]
      /\ masterBox'[Len(masterBox) + 1] = m
  BY <1>1, AppendFacts DEF TypeInv
<1>3. \A i \in DOMAIN masterBox :
        masterBox[i].type = "MsgResolveIp" => masterBox[i].sender # m.sender
  BY DEF AskInv
<1>4. AsksApart'
  BY <1>1, <1>2, <1>3 DEF MailInv, AsksApart
<1>5. PlainInv'
  BY <1>1, <1>2 DEF MailInv, PlainInv, IsPlain
<1> QED BY <1>4, <1>5 DEF MailInv

LEMMA MailInit == Init => MailInv
  BY DEF Init, InitActors, MailInv, AsksApart, PlainInv

\* A worker's answer is of its job.
LEMMA AnswerOfJob ==
  ASSUME TypeInv, NEW w \in Workers, WorkerResolves(w)
  PROVE  \E info \in User :
           /\ IsPlain(info) /\ JobOf(info) = Head(workerBox[w])
           /\ masterBox' = Append(masterBox, [type |-> "MsgIpResolution", userInfo |-> info])
<1> DEFINE job  == Head(workerBox[w])
           info == [Unresolved(job.uuid, job.ip) EXCEPT !.resolved = TRUE]
<1>1. workerBox[w] # << >> /\ workerBox[w] \in Seq(Lookup)
  BY JobType DEF WorkerResolves
<1>2. job \in Lookup
  BY <1>1, TailFacts
<1>3. info \in User /\ IsPlain(info) /\ JobOf(info) = job
  BY <1>2, UnresolvedType DEF Lookup, IsPlain, JobOf, Unresolved
<1>4. masterBox' = Append(masterBox, [type |-> "MsgIpResolution", userInfo |-> info])
  BY DEF WorkerResolves
<1> HIDE DEF info
<1> QED BY <1>3, <1>4

\* What becomes known of an address is plain, and of that address.
LEMMA PlacesStayPlain ==
  ASSUME TypeInv, MailInv, OnMsgIpResolution
  PROVE  \A ip \in Ips : ip2geo'[ip] # NoUser => IsPlain(ip2geo'[ip]) /\ ip2geo'[ip].ip = ip
<1> DEFINE info == Head(masterBox).userInfo
           geo  == [info EXCEPT !.uuid = NoUuid]
<1>1. /\ masterBox # << >> /\ Head(masterBox).type = "MsgIpResolution" /\ info \in User
      /\ Head(masterBox) = masterBox[1] /\ 1 \in DOMAIN masterBox
  BY ResolutionStep, HeadType
<1>2. IsPlain(info)
  BY <1>1 DEF MailInv, PlainInv
<1>3. IsPlain(geo) /\ geo.ip = info.ip
  BY <1>1, <1>2 DEF User, IsPlain
<1>4. UNCHANGED ip2geo \/ ip2geo' = [ip2geo EXCEPT ![info.ip] = geo]
  BY DEF OnMsgIpResolution
<1> HIDE DEF geo, info
<1>5. \A ip \in Ips : ip2geo'[ip] = ip2geo[ip] \/ (ip2geo'[ip] = geo /\ ip = info.ip)
  BY <1>4 DEF TypeInv
<1> QED BY <1>3, <1>5 DEF MailInv, PlainInv

LEMMA MailInvNext == TypeInv /\ AskInv /\ MailInv /\ [Next]_vars => MailInv'
<1> SUFFICES ASSUME TypeInv, AskInv, MailInv, [Next]_vars
             PROVE  MailInv'
  OBVIOUS
<1>1. ASSUME UNCHANGED <<ip2geo, masterBox>>
      PROVE  MailInv'
  BY <1>1 DEF MailInv, AsksApart, PlainInv, IsPlain
<1>2. ASSUME NEW r \in Requests,
             \/ FromSession(r) \/ AskTimesOut(r) \/ RespondHome(r) \/ RespondSolve(r)
             \/ RespondWs(r) \/ Arrive(r)
      PROVE  MailInv'
  BY <1>1, <1>2
     DEF FromSession, AskTimesOut, RespondHome, RespondSolve, RespondWs, Arrive, actors
<1>3. ASSUME NEW r \in Requests, NEW uuid \in Uuids, AskMaster(r, uuid)
      PROVE  MailInv'
  <2>1. PICK m \in MsgResolveIp :
          reqs[r].phase = "sent" /\ m.sender = r /\ masterBox' = Append(masterBox, m)
    BY <1>3, AskMasterStep
  <2>2. UNCHANGED ip2geo
    BY <1>3 DEF AskMaster
  <2> QED BY <2>1, <2>2, NewAsk
<1>4. ASSUME NEW r \in Requests, RespondName(r)
      PROVE  MailInv'
  <2>1. PICK userInfo \in User :
          masterBox' = Append(masterBox, [type |-> "MsgUserInfoUpdate", userInfo |-> userInfo])
    BY <1>4, RespondNameStep
  <2>2. LettersMove(0)
    BY <2>1, UserMail, LettersMoveFacts
  <2>3. UNCHANGED ip2geo
    BY <1>4 DEF RespondName
  <2> QED BY <2>2, <2>3, NoNewLetters DEF MailInv, PlainInv
<1>5. CASE OnMsgUserInfoUpdate \/ OnMsgResolveIp
  <2>1. masterBox # << >> /\ masterBox' = Tail(masterBox) /\ UNCHANGED ip2geo
    BY <1>5, UpdateStep, ResolveStep
  <2> QED BY <2>1, LettersMoveFacts, NoNewLetters DEF MailInv, PlainInv
<1>6. CASE OnMsgIpResolution
  <2>1. masterBox # << >> /\ masterBox' = Tail(masterBox)
    BY <1>6, ResolutionStep
  <2> QED BY <1>6, <2>1, PlacesStayPlain, LettersMoveFacts, NoNewLetters
<1>7. ASSUME NEW w \in Workers, WorkerResolves(w)
      PROVE  MailInv'
  <2>1. UNCHANGED ip2geo
    BY <1>7 DEF WorkerResolves
  <2> QED BY <1>7, <2>1, AnswerOfJob, NewResolution
<1>8. ASSUME NEW w \in Workers, WorkerThrows(w)
      PROVE  MailInv'
  BY <1>1, <1>8 DEF WorkerThrows
<1>9. CASE Restart
  BY <1>9 DEF Restart, MailInv, AsksApart, PlainInv
<1>10. CASE UNCHANGED vars
  BY <1>1, <1>10 DEF vars
<1>11. ASSUME \E r \in Requests, b \in Browsers, q \in UserRequest :
                UNCHANGED <<cookies, uuids, actors, restarts>>
       PROVE  MailInv'
  BY <1>1, <1>11 DEF actors
<1> QED BY <1>2, <1>3, <1>4, <1>5, <1>6, <1>7, <1>8, <1>9, <1>10, <1>11,
           SendCases DEF Next, HandleRequest, Respond, MasterStep
-----------------------------------------------------------------------------
(* How far the service sees the requests.                                  *)

StageIs(q) ==
  IF q = NoUser \/ q.phase = "sent" THEN "before"
  ELSE IF q.phase = "asking" THEN "waiting"
  ELSE IF q.phase = "known" THEN "told" ELSE "over"

\* What the service sees of a request.
View(q) == [stage |-> StageIs(q),
            info  |-> IF StageIs(q) \in {"waiting", "told"} THEN q.info ELSE NoUser]

Views == [r \in Requests |-> View(reqs[r])]

LEMMA ViewsMapped ==
  /\ [r \in Requests |-> RequestOf(r)] = Views
  /\ ([r \in Requests |-> RequestOf(r)])' = Views'
<1>1. \A r \in Requests : RequestOf(r) = View(reqs[r])
  BY DEF RequestOf, StageOf, View, StageIs
<1>2. \A r \in Requests : RequestOf(r)' = View(reqs'[r])
  BY DEF RequestOf, StageOf, View, StageIs
<1> QED BY <1>1, <1>2 DEF Views

LEMMA ViewFacts ==
  ASSUME NEW q
  PROVE  /\ q = NoUser \/ q.phase = "sent" => View(q) = Service!At("before", NoUser)
         /\ q # NoUser /\ q.phase = "asking" => View(q) = Service!At("waiting", q.info)
         /\ q # NoUser /\ q.phase = "known" => View(q) = Service!At("told", q.info)
         /\ q # NoUser /\ q.phase \notin {"sent", "asking", "known"} =>
              View(q) = Service!At("over", NoUser)
  BY DEF View, StageIs, Service!At

LEMMA StageFacts ==
  ASSUME NEW r \in Requests
  PROVE  /\ Views[r] = View(reqs[r])
         /\ Views[r].stage = "waiting" <=> InPhase(r, "asking")
         /\ Views[r].stage = "told" <=> InPhase(r, "known")
         /\ Views[r].stage \in {"waiting", "told"} => Views[r].info = reqs[r].info
  BY DEF Views, View, StageIs, InPhase

\* One request changes for the service ...
LEMMA OneView ==
  ASSUME TypeInv, NEW r \in Requests, NEW q, reqs' = [reqs EXCEPT ![r] = q]
  PROVE  Views' = [Views EXCEPT ![r] = View(q)]
<1>1. ASSUME NEW s \in Requests
      PROVE  View(reqs'[s]) = IF s = r THEN View(q) ELSE Views[s]
  <2>1. s = r => reqs'[s] = q
    BY DEF TypeInv
  <2>2. s # r => reqs'[s] = reqs[s]
    BY DEF TypeInv
  <2> QED BY <2>1, <2>2 DEF Views
<1>2. Views' = [s \in Requests |-> View(reqs'[s])]
  BY DEF Views
<1>3. [Views EXCEPT ![r] = View(q)] = [s \in Requests |-> IF s = r THEN View(q) ELSE Views[s]]
  BY DEF Views
<1> QED BY <1>1, <1>2, <1>3

\* ... or none does.
LEMMA SameViews ==
  ASSUME \A s \in Requests : View(reqs'[s]) = View(reqs[s])
  PROVE  Views' = Views
  BY DEF Views

LEMMA AnnounceUnseen ==
  ASSUME NEW rs \in [Requests -> UserRequest \cup {NoUser}], NEW uuid, NEW r \in Requests
  PROVE  View(Announce(rs, uuid)[r]) = View(rs[r])
  BY AnnounceFacts DEF View, StageIs

\* Two users of the same uuid, address, state and name are the same.
LEMMA UsersEqual ==
  ASSUME NEW a \in User, NEW b \in User,
         a.uuid = b.uuid, a.ip = b.ip, a.resolved = b.resolved, a.name = b.name
  PROVE  a = b
  BY DEF User

LEMMA GuestFacts ==
  ASSUME NEW uuid \in Uuids, NEW ip \in Ips, NEW resolved \in BOOLEAN
  PROVE  LET g == Service!Guest(uuid, ip, resolved) IN
         /\ g \in User /\ g.uuid = uuid /\ g.ip = ip /\ g.resolved = resolved
         /\ g.name = GuyIncognito
  BY DEF Service!Guest, User

LEMMA PlainIsGuest ==
  ASSUME NEW info \in User, IsPlain(info)
  PROVE  info = Service!Guest(info.uuid, info.ip, TRUE)
<1>1. info.uuid \in Uuids /\ info.ip \in Ips /\ info.resolved = TRUE
  BY DEF User, IsPlain
<1>2. PICK g : g = Service!Guest(info.uuid, info.ip, TRUE)
  OBVIOUS
<1>3. g \in User /\ g.uuid = info.uuid /\ g.ip = info.ip /\ g.resolved = TRUE
      /\ g.name = GuyIncognito
  BY <1>1, <1>2, GuestFacts
<1>4. info = g
  BY <1>1, <1>3, UsersEqual DEF IsPlain
<1> QED BY <1>2, <1>4

LEMMA UnresolvedIsGuest ==
  ASSUME NEW uuid, NEW ip
  PROVE  Unresolved(uuid, ip) = Service!Guest(uuid, ip, FALSE)
  BY DEF Unresolved, Service!Guest
-----------------------------------------------------------------------------
(* Steps of requests.                                                      *)

\* The rest of the service does not change.
RestStays == /\ UNCHANGED <<ServiceRenames, sessions, ServiceLookups>>
             /\ UNCHANGED {ip \in Ips : ip2geo[ip] # NoUser}

LEMMA RestStaysWhen ==
  ASSUME UNCHANGED <<sessions, ip2geo, masterBox, workerBox>>
  PROVE  RestStays /\ UNCHANGED ServiceAsks
  BY MailMapped DEF RestStays

LEMMA UnseenMapped ==
  ASSUME TypeInv,
         \/ /\ UNCHANGED <<sessions, ip2geo, masterBox, workerBox>>
            /\ \A s \in Requests : View(reqs'[s]) = View(reqs[s])
         \/ \E w \in Workers : WorkerResolves(w)
  PROVE  UNCHANGED Service!vars
<1>1. CASE /\ UNCHANGED <<sessions, ip2geo, masterBox, workerBox>>
           /\ \A s \in Requests : View(reqs'[s]) = View(reqs[s])
  BY <1>1, RestStaysWhen, SameViews, ViewsMapped DEF Service!vars, RestStays
<1>2. ASSUME NEW w \in Workers, WorkerResolves(w)
      PROVE  UNCHANGED Service!vars
  <2>1. PICK info \in User :
          /\ JobOf(info) = Head(workerBox[w])
          /\ masterBox' = Append(masterBox, [type |-> "MsgIpResolution", userInfo |-> info])
    BY <1>2, AnswerOfJob
  <2> DEFINE m == [type |-> "MsgIpResolution", userInfo |-> info]
  <2>2. m \in Mail /\ m.type = "MsgIpResolution" /\ m.userInfo = info
    BY UserMail
  <2> HIDE DEF m
  <2>3. /\ AsksIn(masterBox') = AsksIn(masterBox)
        /\ RenamesIn(masterBox') = RenamesIn(masterBox)
        /\ ResolvedIn(masterBox') = ResolvedIn(masterBox) \cup {JobOf(info)}
    BY <2>1, <2>2, MasterBoxSteps DEF m
  <2>4. JobsIn(workerBox) = JobsIn(workerBox') \cup {JobOf(info)}
    <3>1. workerBox[w] # << >> /\ workerBox' = [workerBox EXCEPT ![w] = Tail(workerBox[w])]
      BY <1>2 DEF WorkerResolves
    <3> QED BY <2>1, <3>1, WorkerBoxSteps
  <2>5. UNCHANGED <<reqs, sessions, ip2geo>>
    BY <1>2 DEF WorkerResolves
  <2>6. UNCHANGED <<ServiceAsks, ServiceRenames, ServiceLookups>>
    BY <2>3, <2>4, MailMapped
  <2> QED BY <2>5, <2>6, SameViews, ViewsMapped DEF Service!vars
<1> QED BY <1>1, <1>2

\* A request that has only been sent is as if there were none.
LEMMA SendUnseen ==
  ASSUME TypeInv, NEW r \in Requests, NEW b, NEW kind, NEW ip, NEW name,
         Send(r, b, kind, ip, name)
  PROVE  UNCHANGED Service!vars
<1>1. PICK q : q.phase = "sent" /\ reqs' = [reqs EXCEPT ![r] = q]
  BY DEF Send
<1>2. reqs[r] = NoUser /\ UNCHANGED <<sessions, ip2geo, masterBox, workerBox>>
  BY DEF Send, actors
<1>3. View(q) = View(reqs[r])
  BY <1>1, <1>2, ViewFacts
<1>4. \A s \in Requests : (s = r /\ reqs'[s] = q) \/ reqs'[s] = reqs[s]
  BY <1>1 DEF TypeInv
<1>5. \A s \in Requests : View(reqs'[s]) = View(reqs[s])
  BY <1>3, <1>4
<1> QED BY <1>2, <1>5, UnseenMapped

\* A cookie that is resolved is enough.
LEMMA FromSessionMapped ==
  ASSUME TypeInv, NEW r \in Requests, FromSession(r)
  PROVE  Service!Begin(r)
<1>1. PICK q \in UserRequest :
        /\ GoesOn(r, q) /\ q.phase = "known" /\ reqs[r].cookie # NoUser /\ q.info \in User
        /\ q.info.uuid = reqs[r].cookie.uuid /\ q.info.name = reqs[r].cookie.name
        /\ q.info.ip = GetIp(q.info.uuid, r)
  BY FromSessionStep
<1>2. reqs[r] # NoUser /\ reqs[r].phase = "sent" /\ reqs[r].cookie.resolved
  BY DEF FromSession, InPhase
<1>3. q.info.resolved = TRUE
  <2>1. reqs[r] \in UserRequest /\ reqs[r].cookie \in User
    BY <1>1, <1>2, RequestType
  <2>2. reqs' = [reqs EXCEPT ![r].phase = "known",
                             ![r].info = [reqs[r].cookie EXCEPT
                                            !.ip = GetIp(reqs[r].cookie.uuid, r)]]
    BY DEF FromSession
  <2>3. reqs'[r].info = [reqs[r].cookie EXCEPT !.ip = GetIp(reqs[r].cookie.uuid, r)]
    <3> HIDE DEF User
    <3> QED BY <2>1, <2>2 DEF TypeInv, UserRequest, Request
  <2>4. reqs'[r] = q
    BY <1>1 DEF GoesOn, TypeInv
  <2> QED BY <1>2, <2>1, <2>3, <2>4 DEF User
<1>4. PICK uuid, ip, name : uuid = q.info.uuid /\ ip = q.info.ip /\ name = q.info.name
  OBVIOUS
<1>5. uuid \in Uuids /\ ip \in Ips /\ name \in Names \cup {GuyIncognito}
  BY <1>1, <1>4 DEF User
<1>6. q.info = [Service!Guest(uuid, ip, TRUE) EXCEPT !.name = name]
  <2>1. PICK g : g = [Service!Guest(uuid, ip, TRUE) EXCEPT !.name = name]
    OBVIOUS
  <2>2. g \in User /\ g.uuid = uuid /\ g.ip = ip /\ g.resolved = TRUE /\ g.name = name
    BY <1>5, <2>1 DEF Service!Guest, User
  <2>3. q.info = g
    BY <1>1, <1>3, <1>4, <2>2, UsersEqual
  <2> QED BY <2>1, <2>3
<1>7. q # NoUser
  BY UserFacts
<1>8. Views' = [Views EXCEPT ![r] = Service!At("told", q.info)]
  <2>1. View(q) = Service!At("told", q.info)
    BY <1>1, <1>7, ViewFacts
  <2>2. reqs' = [reqs EXCEPT ![r] = q]
    BY <1>1 DEF GoesOn
  <2> QED BY <2>1, <2>2, OneView
<1>9. Views[r].stage = "before"
  BY <1>2 DEF Views, View, StageIs
<1>10. RestStays /\ UNCHANGED ServiceAsks
  BY RestStaysWhen DEF FromSession, actors
<1>11. Service!Recall(r, uuid, ip, name)
  BY <1>6, <1>8, <1>10, ViewsMapped DEF Service!Recall, Service!TOLD
<1> QED BY <1>5, <1>9, <1>10, <1>11, ViewsMapped
        DEF Service!Begin, Service!BEFORE, RestStays

LEMMA AskMasterMapped ==
  ASSUME TypeInv, NEW r \in Requests, NEW uuid \in Uuids, AskMaster(r, uuid)
  PROVE  Service!Begin(r)
<1>1. PICK q \in UserRequest, m \in MsgResolveIp :
        /\ GoesOn(r, q) /\ q.phase = "asking" /\ reqs[r].phase = "sent"
        /\ m.sender = r /\ m.uuid = uuid /\ m.ip = GetIp(uuid, r)
        /\ masterBox' = Append(masterBox, m)
  BY AskMasterStep
<1>2. PICK ip : ip = GetIp(uuid, r)
  OBVIOUS
<1>3. reqs[r] \in UserRequest /\ ip \in Ips
  BY <1>1, <1>2, RequestType, GetIpType DEF GoesOn
<1>4. q.info = Service!Guest(uuid, ip, FALSE)
  <2>1. reqs' = [reqs EXCEPT ![r].phase = "asking", ![r].info = Unresolved(uuid, ip)]
    BY <1>2 DEF AskMaster
  <2>2. reqs'[r].info = Unresolved(uuid, ip)
    <3> HIDE DEF User
    <3> QED BY <1>3, <2>1 DEF TypeInv, UserRequest, Request
  <2>3. reqs'[r] = q
    BY <1>1 DEF GoesOn, TypeInv
  <2> QED BY <2>2, <2>3, UnresolvedIsGuest
<1>5. Views' = [Views EXCEPT ![r] = Service!At("waiting", q.info)]
  <2>1. q # NoUser
    BY UserFacts
  <2>2. View(q) = Service!At("waiting", q.info)
    BY <1>1, <2>1, ViewFacts
  <2> QED BY <1>1, <2>2, OneView DEF GoesOn
<1>6. Views[r].stage = "before"
  BY <1>1 DEF Views, View, StageIs
<1>7. m \in Mail /\ m.type = "MsgResolveIp" /\ AskOf(m) = [sender |-> r, uuid |-> uuid, ip |-> ip]
  BY <1>1, <1>2 DEF Mail, MsgResolveIp, AskOf
<1>8. /\ AsksIn(masterBox') = AsksIn(masterBox) \cup {[sender |-> r, uuid |-> uuid, ip |-> ip]}
      /\ RenamesIn(masterBox') = RenamesIn(masterBox)
      /\ ResolvedIn(masterBox') = ResolvedIn(masterBox)
  BY <1>1, <1>7, MasterBoxSteps
<1>9. UNCHANGED <<sessions, ip2geo, workerBox>>
  BY DEF AskMaster
<1>10. RestStays
  BY <1>8, <1>9, MailMapped DEF RestStays
<1>11. Service!Ask(r, uuid, ip)
  BY <1>4, <1>5, <1>8, ViewsMapped, MailMapped DEF Service!Ask, Service!WAITING
<1> QED BY <1>3, <1>6, <1>10, <1>11, ViewsMapped
        DEF Service!Begin, Service!BEFORE, RestStays

LEMMA AskTimesOutMapped ==
  ASSUME TypeInv, NEW r \in Requests, AskTimesOut(r)
  PROVE  Service!GiveUp(r)
<1> DEFINE q == WithPhase(reqs[r], "known")
<1>1. reqs[r] # NoUser /\ reqs[r].phase = "asking"
  BY DEF AskTimesOut, InPhase
<1>2. reqs[r] \in UserRequest
  BY <1>1, RequestType
<1>3. reqs' = [reqs EXCEPT ![r] = q]
  BY DEF AskTimesOut, WithPhase, TypeInv
<1>4. q # NoUser /\ q.phase = "known" /\ q.info = reqs[r].info
  BY <1>1, <1>2, PhaseChange, UserFacts
<1> HIDE DEF q
<1>5. Views' = [Views EXCEPT ![r] = Service!At("told", reqs[r].info)]
  BY <1>3, <1>4, OneView, ViewFacts
<1>6. Views[r].stage = "waiting" /\ Views[r].info = reqs[r].info
  BY <1>1, StageFacts DEF InPhase
<1>7. RestStays /\ UNCHANGED ServiceAsks
  BY RestStaysWhen DEF AskTimesOut, actors
<1> QED BY <1>5, <1>6, <1>7, ViewsMapped
        DEF Service!GiveUp, Service!WAITING, Service!TOLD, RestStays
\* A controller that answers leaves the service.
LEMMA RespondMapped ==
  ASSUME TypeInv, NEW r \in Requests, RespondHome(r) \/ RespondSolve(r) \/ RespondWs(r)
  PROVE  Service!Leave(r)
<1>1. reqs[r] # NoUser /\ reqs[r].phase = "known" /\ reqs[r] \in UserRequest
  BY RequestType DEF RespondHome, RespondSolve, RespondWs, InPhase
<1>2. PICK phase \in {"responded", "done"} :
        \/ reqs' = [reqs EXCEPT ![r] = WithPhase(reqs[r], phase)]
        \/ reqs' = Announce([reqs EXCEPT ![r] = WithPhase(reqs[r], phase)], reqs[r].info.uuid)
  BY DEF RespondHome, RespondSolve, RespondWs, WithPhase, TypeInv
<1> DEFINE q    == WithPhase(reqs[r], phase)
           next == [reqs EXCEPT ![r] = q]
<1>3. q \in UserRequest /\ q # NoUser /\ q.phase = phase
  BY <1>1, PhaseChange, UserFacts
<1>4. View(q) = Service!At("over", NoUser)
  BY <1>3, ViewFacts
<1>5. next \in [Requests -> UserRequest \cup {NoUser}]
  <2> HIDE DEF q
  <2> QED BY <1>3 DEF TypeInv
<1>6. \A s \in Requests : next[s] = IF s = r THEN q ELSE reqs[s]
  BY DEF TypeInv
<1> HIDE DEF q
<1>7. \A s \in Requests : View(reqs'[s]) = View(next[s])
  <2>1. reqs' = next \/ reqs' = Announce(next, reqs[r].info.uuid)
    BY <1>2 DEF q
  <2> HIDE DEF next
  <2> QED BY <1>5, <2>1, AnnounceUnseen
<1>8. ASSUME NEW s \in Requests
      PROVE  View(reqs'[s]) = IF s = r THEN Service!At("over", NoUser) ELSE Views[s]
  <2>1. s = r => next[s] = q
    BY <1>6
  <2>2. s # r => next[s] = reqs[s]
    BY <1>6
  <2> HIDE DEF next
  <2> QED BY <1>4, <1>7, <2>1, <2>2 DEF Views
<1>9. Views' = [Views EXCEPT ![r] = Service!At("over", NoUser)]
  <2>1. Views' = [s \in Requests |-> View(reqs'[s])]
    BY DEF Views
  <2>2. [Views EXCEPT ![r] = Service!At("over", NoUser)] =
          [s \in Requests |-> IF s = r THEN Service!At("over", NoUser) ELSE Views[s]]
    BY DEF Views
  <2> QED BY <1>8, <2>1, <2>2
<1>10. Views[r].stage = "told"
  BY <1>1, StageFacts DEF InPhase
<1>11. RestStays /\ UNCHANGED ServiceAsks
  BY RestStaysWhen DEF RespondHome, RespondSolve, RespondWs, actors
<1> QED BY <1>9, <1>10, <1>11, ViewsMapped DEF Service!Leave, Service!TOLD, Service!OVER, RestStays

LEMMA RespondNameMapped ==
  ASSUME TypeInv, NEW r \in Requests, RespondName(r)
  PROVE  \E name \in Names \cup {GuyIncognito} : Service!Rename(r, name)
<1> DEFINE info == [reqs[r].info EXCEPT !.name = reqs[r].newName]
           q    == WithInfo(reqs[r], "responded", info)
           m    == [type |-> "MsgUserInfoUpdate", userInfo |-> info]
<1>1. reqs[r] # NoUser /\ reqs[r].phase = "known"
  BY DEF RespondName, InPhase
<1>2. /\ reqs[r] \in UserRequest /\ reqs[r].info \in User
      /\ reqs[r].newName \in Names \cup {GuyIncognito}
  BY <1>1, RequestType
<1>3. info \in User
  BY <1>2 DEF User
<1>4. m \in Mail /\ m.type = "MsgUserInfoUpdate" /\ m.userInfo = info
  BY <1>3, UserMail
<1>5. reqs' = [reqs EXCEPT ![r] = q] /\ masterBox' = Append(masterBox, m)
  BY <1>2 DEF RespondName, TypeInv, WithInfo
<1> HIDE DEF info
<1>6. q \in UserRequest /\ q.phase = "responded"
  BY <1>2, <1>3, InfoChange
<1> HIDE DEF q, m
<1>7. Views' = [Views EXCEPT ![r] = Service!At("over", NoUser)]
  <2>1. q # NoUser
    BY <1>6, UserFacts
  <2>2. View(q) = Service!At("over", NoUser)
    BY <1>6, <2>1, ViewFacts
  <2> QED BY <1>5, <2>2, OneView
<1>8. /\ AsksIn(masterBox') = AsksIn(masterBox)
      /\ RenamesIn(masterBox') = RenamesIn(masterBox) \cup {info}
      /\ ResolvedIn(masterBox') = ResolvedIn(masterBox)
  BY <1>4, <1>5, MasterBoxSteps
<1>9. Views[r].stage = "told" /\ Views[r].info = reqs[r].info
  BY <1>1, StageFacts DEF InPhase
<1>10. UNCHANGED <<sessions, ip2geo, workerBox>>
  BY DEF RespondName
<1>11. /\ UNCHANGED <<ServiceAsks, sessions, ServiceLookups>>
       /\ UNCHANGED {ip \in Ips : ip2geo[ip] # NoUser}
       /\ ServiceRenames' = ServiceRenames \cup {info}
  BY <1>8, <1>10, MailMapped
<1>12. info = [Views[r].info EXCEPT !.name = reqs[r].newName]
  BY <1>9 DEF info
<1>13. Service!Rename(r, reqs[r].newName)
  BY <1>7, <1>9, <1>11, <1>12, ViewsMapped DEF Service!Rename, Service!TOLD, Service!OVER
<1> QED BY <1>2, <1>13

-----------------------------------------------------------------------------
(* Steps of the registry.                                                  *)

\* An ask that is heard is the only one of its request.
LEMMA AskTaken ==
  ASSUME TypeInv, MailInv, masterBox # << >>, masterBox' = Tail(masterBox),
         Head(masterBox).type = "MsgResolveIp"
  PROVE  /\ AskOf(Head(masterBox)) \in AsksIn(masterBox)
         /\ AsksIn(masterBox') = AsksIn(masterBox) \ {AskOf(Head(masterBox))}
         /\ RenamesIn(masterBox') = RenamesIn(masterBox)
         /\ ResolvedIn(masterBox') = ResolvedIn(masterBox)
<1> DEFINE m == Head(masterBox)
<1>1. /\ AsksIn(masterBox) = AsksIn(masterBox') \cup {AskOf(m)}
      /\ RenamesIn(masterBox') = RenamesIn(masterBox)
      /\ ResolvedIn(masterBox') = ResolvedIn(masterBox)
  BY MasterBoxSteps
<1>2. /\ \A i \in DOMAIN masterBox' :
           i \in Nat /\ i + 1 \in DOMAIN masterBox /\ i + 1 # 1 /\ masterBox'[i] = masterBox[i + 1]
      /\ 1 \in DOMAIN masterBox /\ m = masterBox[1]
  BY TailCovers DEF TypeInv
<1>3. AskOf(m) \notin AsksIn(masterBox')
  <2> SUFFICES ASSUME NEW i \in DOMAIN masterBox', masterBox'[i].type = "MsgResolveIp",
                      AskOf(masterBox'[i]) = AskOf(m)
               PROVE  FALSE
    BY DEF AsksIn
  <2>1. masterBox'[i].sender = m.sender
    BY DEF AskOf
  <2>2. i + 1 = 1
    BY <1>2, <2>1 DEF MailInv, AsksApart
  <2> QED BY <1>2, <2>2
<1> QED BY <1>1, <1>3

\* Whoever asked is told what the registry knows by then.
LEMMA ReplyMapped ==
  ASSUME TypeInv, NEW r \in Requests, NEW info \in User, Reply(r, info)
  PROVE  Views' = IF Views[r].stage = "waiting"
                  THEN [Views EXCEPT ![r] = Service!At("told", info)]
                  ELSE Views
<1>1. CASE InPhase(r, "asking")
  <2> DEFINE q == WithInfo(reqs[r], "known", info)
  <2>1. reqs[r] \in UserRequest
    BY <1>1, RequestType DEF InPhase
  <2>2. reqs' = [reqs EXCEPT ![r] = q]
    BY <1>1, <2>1 DEF Reply, WithInfo, TypeInv
  <2>3. q \in UserRequest /\ q.phase = "known" /\ q.info = info
    BY <2>1, InfoChange
  <2> HIDE DEF q
  <2>4. View(q) = Service!At("told", info)
    BY <2>3, UserFacts, ViewFacts
  <2>5. Views' = [Views EXCEPT ![r] = View(q)]
    BY <2>2, OneView
  <2>6. Views[r].stage = "waiting"
    BY <1>1, StageFacts
  <2> QED BY <2>4, <2>5, <2>6
<1>2. CASE ~InPhase(r, "asking")
  BY <1>2, SameViews, StageFacts DEF Reply
<1> QED BY <1>1, <1>2

LEMMA ResolveMapped ==
  ASSUME TypeInv, MailInv, OnMsgResolveIp
  PROVE  \E ask \in ServiceAsks : Service!Hear(ask)
<1> DEFINE m   == Head(masterBox)
           ask == AskOf(m)
           job == [uuid |-> m.uuid, ip |-> m.ip]
           places == {ip \in Ips : ip2geo[ip] # NoUser}
<1>1. /\ m \in MsgResolveIp /\ masterBox # << >> /\ m.type = "MsgResolveIp"
      /\ masterBox' = Tail(masterBox) /\ UNCHANGED ip2geo
  BY ResolveStep
<1>2. m.uuid \in Uuids /\ m.ip \in Ips /\ m.sender \in Requests
  BY <1>1 DEF MsgResolveIp
<1>3. /\ ask \in AsksIn(masterBox) /\ AsksIn(masterBox') = AsksIn(masterBox) \ {ask}
      /\ RenamesIn(masterBox') = RenamesIn(masterBox)
      /\ ResolvedIn(masterBox') = ResolvedIn(masterBox)
  BY <1>1, AskTaken
<1>4. ask.uuid = m.uuid /\ ask.ip = m.ip /\ ask.sender = m.sender /\ job \in Lookup
  BY <1>2 DEF AskOf, Lookup
<1>5. ResolveKnown(m) \/ ResolveFromCache(m) \/ ResolveByLookup(m)
  BY DEF OnMsgResolveIp
<1>6. /\ ServiceAsks' = ServiceAsks \ {ask} /\ UNCHANGED <<ServiceRenames, places>>
      /\ ServiceLookups = JobsIn(workerBox) \cup ResolvedIn(masterBox)
      /\ ServiceLookups' = JobsIn(workerBox') \cup ResolvedIn(masterBox)
  BY <1>1, <1>3, MailMapped
<1>7. ask.ip \in places <=> ip2geo[m.ip] # NoUser
  BY <1>2, <1>4
<1> HIDE DEF m, ask, job, places
<1>8. CASE ResolveKnown(m)
  <2>1. KnownAt(m.uuid, m.ip) /\ UNCHANGED <<sessions, workerBox>>
        /\ Reply(m.sender, sessions[m.uuid])
    BY <1>8 DEF ResolveKnown
  <2>2. sessions[m.uuid] \in User
    BY <1>2, <2>1 DEF KnownAt, TypeInv
  <2>3. Views' = IF Views[m.sender].stage = "waiting"
                 THEN [Views EXCEPT ![m.sender] = Service!At("told", sessions'[m.uuid])]
                 ELSE Views
    BY <1>2, <2>1, <2>2, ReplyMapped
  <2>4. Service!IsKnownAt(ask.uuid, ask.ip)
    BY <1>4, <2>1 DEF Service!IsKnownAt, KnownAt
  <2>5. UNCHANGED ServiceLookups
    BY <1>6, <2>1
  <2> QED BY <1>3, <1>4, <1>6, <2>1, <2>3, <2>4, <2>5, ViewsMapped, MailMapped
          DEF Service!Hear, Service!Tell, Service!WAITING, Service!TOLD, places
<1>9. CASE ResolveFromCache(m)
  <2> DEFINE info == [ip2geo[m.ip] EXCEPT !.uuid = m.uuid]
  <2>1. /\ ~KnownAt(m.uuid, m.ip) /\ ip2geo[m.ip] # NoUser
        /\ sessions' = [sessions EXCEPT ![m.uuid] = info]
        /\ Reply(m.sender, info) /\ UNCHANGED workerBox
    BY <1>9 DEF ResolveFromCache
  <2>2. info \in User /\ info.uuid = m.uuid
    BY <1>2, <2>1, KnownType
  <2>3. IsPlain(info) /\ info.ip = m.ip
    <3>1. ip2geo[m.ip] \in UserInfo /\ IsPlain(ip2geo[m.ip]) /\ ip2geo[m.ip].ip = m.ip
      BY <1>2, <2>1 DEF TypeInv, MailInv, PlainInv
    <3> QED BY <3>1 DEF UserInfo, IsPlain
  <2> HIDE DEF info
  <2>4. info = Service!Guest(m.uuid, m.ip, TRUE)
    BY <2>2, <2>3, PlainIsGuest
  <2>5. sessions'[m.uuid] = info
    BY <1>2, <2>1 DEF TypeInv
  <2>6. Views' = IF Views[m.sender].stage = "waiting"
                 THEN [Views EXCEPT ![m.sender] = Service!At("told", sessions'[m.uuid])]
                 ELSE Views
    BY <1>2, <2>1, <2>2, <2>5, ReplyMapped
  <2>7. ~Service!IsKnownAt(ask.uuid, ask.ip)
    BY <1>4, <2>1 DEF Service!IsKnownAt, KnownAt
  <2>8. UNCHANGED ServiceLookups
    BY <1>6, <2>1
  <2>9. ask.ip \in places
    BY <1>7, <2>1
  <2>10. sessions' = [sessions EXCEPT ![ask.uuid] = Service!Guest(ask.uuid, ask.ip, ask.ip \in places)]
    <3>1. (ask.ip \in places) = TRUE
      BY <2>9
    <3> QED BY <1>4, <2>1, <2>4, <3>1
  <2> QED BY <1>3, <1>4, <1>6, <2>6, <2>7, <2>8, <2>9, <2>10, ViewsMapped, MailMapped
          DEF Service!Hear, Service!Tell, Service!WAITING, Service!TOLD, places
<1>10. CASE ResolveByLookup(m)
  <2> DEFINE info == Unresolved(m.uuid, m.ip)
  <2>1. /\ ~KnownAt(m.uuid, m.ip) /\ ip2geo[m.ip] = NoUser
        /\ sessions' = [sessions EXCEPT ![m.uuid] = info]
        /\ Reply(m.sender, info)
        /\ workerBox' = [workerBox EXCEPT ![nextRoutee] = Append(workerBox[nextRoutee], job)]
    BY <1>10 DEF ResolveByLookup, StartLookup, job
  <2>2. info \in User /\ info = Service!Guest(m.uuid, m.ip, FALSE)
    BY <1>2, UnresolvedType, UnresolvedIsGuest
  <2> HIDE DEF info
  <2>3. sessions'[m.uuid] = info
    BY <1>2, <2>1 DEF TypeInv
  <2>4. Views' = IF Views[m.sender].stage = "waiting"
                 THEN [Views EXCEPT ![m.sender] = Service!At("told", sessions'[m.uuid])]
                 ELSE Views
    BY <1>2, <2>1, <2>2, <2>3, ReplyMapped
  <2>5. ~Service!IsKnownAt(ask.uuid, ask.ip)
    BY <1>4, <2>1 DEF Service!IsKnownAt, KnownAt
  <2>6. nextRoutee \in Workers
    BY DEF TypeInv
  <2>7. JobsIn(workerBox') = JobsIn(workerBox) \cup {job}
    BY <1>4, <2>1, <2>6, WorkerBoxSteps
  <2>8. ServiceLookups' = ServiceLookups \cup {[uuid |-> ask.uuid, ip |-> ask.ip]}
    BY <1>4, <1>6, <2>7 DEF job
  <2>9. ask.ip \notin places
    BY <1>7, <2>1
  <2>10. sessions' = [sessions EXCEPT ![ask.uuid] = Service!Guest(ask.uuid, ask.ip, ask.ip \in places)]
    <3>1. (ask.ip \in places) = FALSE
      BY <2>9
    <3> QED BY <1>4, <2>1, <2>2, <3>1
  <2> QED BY <1>3, <1>4, <1>6, <2>4, <2>5, <2>8, <2>9, <2>10, ViewsMapped, MailMapped
          DEF Service!Hear, Service!Tell, Service!WAITING, Service!TOLD, places
<1> QED BY <1>5, <1>8, <1>9, <1>10
LEMMA UpdateMapped ==
  ASSUME TypeInv, OnMsgUserInfoUpdate
  PROVE  \E info \in ServiceRenames : Service!HearRename(info)
<1> DEFINE m    == Head(masterBox)
           info == m.userInfo
<1>1. /\ masterBox # << >> /\ m.type = "MsgUserInfoUpdate" /\ info \in User
      /\ masterBox' = Tail(masterBox)
      /\ UNCHANGED <<reqs, ip2geo, workerBox>>
      /\ sessions' = [u \in Uuids |-> UpdatedSession(u, info)]
  BY UpdateStep
<1>2. /\ AsksIn(masterBox') = AsksIn(masterBox)
      /\ RenamesIn(masterBox) = RenamesIn(masterBox') \cup {info}
      /\ ResolvedIn(masterBox') = ResolvedIn(masterBox)
  BY <1>1, MasterBoxSteps
<1>3. info.uuid \in Uuids
  BY <1>1 DEF User
<1> HIDE DEF info, m
<1>4. sessions' = IF sessions[info.uuid] = NoUser THEN sessions
                  ELSE [sessions EXCEPT ![info.uuid] = info]
  <2>1. sessions = [u \in Uuids |-> sessions[u]]
    BY DEF TypeInv
  <2>2. \A u \in Uuids : UpdatedSession(u, info) =
                         IF sessions[u] # NoUser /\ u = info.uuid THEN info ELSE sessions[u]
    BY DEF UpdatedSession
  <2>3. CASE sessions[info.uuid] = NoUser
    <3>1. \A u \in Uuids : UpdatedSession(u, info) = sessions[u]
      BY <2>2, <2>3
    <3> QED BY <1>1, <2>1, <2>3, <3>1
  <2>4. CASE sessions[info.uuid] # NoUser
    <3>1. \A u \in Uuids : UpdatedSession(u, info) = IF u = info.uuid THEN info ELSE sessions[u]
      BY <2>2, <2>4
    <3>2. [sessions EXCEPT ![info.uuid] = info] =
            [u \in Uuids |-> IF u = info.uuid THEN info ELSE sessions[u]]
      BY <2>1
    <3> QED BY <1>1, <2>4, <3>1, <3>2
  <2> QED BY <2>3, <2>4
<1>5. /\ info \in ServiceRenames
      /\ ServiceRenames' \in {ServiceRenames, ServiceRenames \ {info}}
      /\ UNCHANGED <<ServiceAsks, ServiceLookups>>
  BY <1>1, <1>2, MailMapped
<1>6. UNCHANGED {ip \in Ips : ip2geo[ip] # NoUser}
  BY <1>1
<1>7. Views' = Views
  BY <1>1, SameViews
<1>8. Service!HearRename(info)
  BY <1>4, <1>5, <1>6, <1>7, ViewsMapped DEF Service!HearRename
<1> QED BY <1>5, <1>8

LEMMA ResolutionMapped ==
  ASSUME TypeInv, MailInv, OnMsgIpResolution
  PROVE  \E l \in ServiceLookups : Service!EndLookup(l)
<1> DEFINE m      == Head(masterBox)
           info   == m.userInfo
           geo    == [info EXCEPT !.uuid = NoUuid]
           places == {ip \in Ips : ip2geo[ip] # NoUser}
<1> PICK l : l = JobOf(info)
  OBVIOUS
<1>1. /\ masterBox # << >> /\ m.type = "MsgIpResolution" /\ info \in User
      /\ masterBox' = Tail(masterBox) /\ UNCHANGED workerBox
  BY ResolutionStep
<1>2. /\ AsksIn(masterBox') = AsksIn(masterBox)
      /\ RenamesIn(masterBox') = RenamesIn(masterBox)
      /\ ResolvedIn(masterBox) = ResolvedIn(masterBox') \cup {l}
  BY <1>1, MasterBoxSteps
<1>3. info.uuid \in Uuids /\ info.ip \in Ips /\ l.uuid = info.uuid /\ l.ip = info.ip
  BY <1>1 DEF User, JobOf
<1>4. info = Service!Guest(l.uuid, l.ip, TRUE)
  <2>1. m = masterBox[1] /\ 1 \in DOMAIN masterBox
    BY <1>1, HeadType
  <2>2. IsPlain(info)
    BY <1>1, <2>1 DEF MailInv, PlainInv
  <2> QED BY <1>1, <1>3, <2>2, PlainIsGuest
<1>5. /\ l \in ServiceLookups
      /\ ServiceLookups' \in {ServiceLookups, ServiceLookups \ {l}}
      /\ UNCHANGED <<ServiceAsks, ServiceRenames>>
  BY <1>1, <1>2, MailMapped
<1>6. Views' = Views
  <2>1. UNCHANGED reqs \/ reqs' = Announce(reqs, info.uuid)
    BY DEF OnMsgIpResolution
  <2>2. \A s \in Requests : View(Announce(reqs, info.uuid)[s]) = View(reqs[s])
    <3>1. reqs \in [Requests -> UserRequest \cup {NoUser}]
      BY DEF TypeInv
    <3> QED BY <3>1, AnnounceUnseen
  <2> HIDE DEF info
  <2>3. \A s \in Requests : View(reqs'[s]) = View(reqs[s])
    BY <2>1, <2>2
  <2> QED BY <2>3, SameViews
<1>7. \/ UNCHANGED <<sessions, ip2geo>>
      \/ /\ KnownAt(info.uuid, info.ip)
         /\ sessions' = [sessions EXCEPT ![info.uuid] = info]
         /\ ip2geo' = [ip2geo EXCEPT ![info.ip] = geo]
  BY DEF OnMsgIpResolution, IsCurrent
<1>8. geo # NoUser
  <2>1. geo \in UserInfo
    BY <1>1 DEF User, UserInfo
  <2> QED BY <2>1, NoUserAssumption
<1> HIDE DEF geo
<1>9. \/ UNCHANGED <<sessions, places>>
      \/ /\ Service!IsKnownAt(l.uuid, l.ip)
         /\ sessions' = [sessions EXCEPT ![l.uuid] = Service!Guest(l.uuid, l.ip, TRUE)]
         /\ places' = places \cup {l.ip}
  <2>1. CASE UNCHANGED <<sessions, ip2geo>>
    BY <2>1
  <2>2. CASE /\ KnownAt(info.uuid, info.ip)
             /\ sessions' = [sessions EXCEPT ![info.uuid] = info]
             /\ ip2geo' = [ip2geo EXCEPT ![info.ip] = geo]
    <3>1. Service!IsKnownAt(l.uuid, l.ip)
      BY <1>3, <2>2 DEF KnownAt, Service!IsKnownAt
    <3>2. sessions' = [sessions EXCEPT ![l.uuid] = Service!Guest(l.uuid, l.ip, TRUE)]
      <4> HIDE DEF info
      <4> QED BY <1>3, <1>4, <2>2
    <3>3. places' = places \cup {l.ip}
      <4> HIDE DEF info
      <4>1. \A ip \in Ips : ip2geo'[ip] = IF ip = l.ip THEN geo ELSE ip2geo[ip]
        BY <1>3, <2>2 DEF TypeInv
      <4> QED BY <1>3, <1>8, <4>1
    <3> QED BY <3>1, <3>2, <3>3
  <2> QED BY <1>7, <2>1, <2>2
<1>10. Service!EndLookup(l)
  BY <1>5, <1>6, <1>9, ViewsMapped DEF Service!EndLookup, places
<1> QED BY <1>5, <1>10

LEMMA ThrowMapped ==
  ASSUME TypeInv, NEW w \in Workers, WorkerThrows(w)
  PROVE  \E l \in ServiceLookups : Service!EndLookup(l)
<1> PICK l : l = Head(workerBox[w])
  OBVIOUS
<1>1. /\ workerBox[w] # << >> /\ workerBox' = [workerBox EXCEPT ![w] = Tail(workerBox[w])]
      /\ UNCHANGED <<reqs, sessions, ip2geo, masterBox>>
  BY DEF WorkerThrows
<1>2. JobsIn(workerBox) = JobsIn(workerBox') \cup {l}
  BY <1>1, WorkerBoxSteps
<1>3. /\ l \in ServiceLookups
      /\ ServiceLookups' \in {ServiceLookups, ServiceLookups \ {l}}
      /\ UNCHANGED <<ServiceAsks, ServiceRenames>>
  BY <1>1, <1>2, MailMapped
<1>4. Views' = Views /\ UNCHANGED {ip \in Ips : ip2geo[ip] # NoUser}
  BY <1>1, SameViews
<1>5. Service!EndLookup(l)
  BY <1>1, <1>3, <1>4, ViewsMapped DEF Service!EndLookup
<1> QED BY <1>3, <1>5

LEMMA EmptyBoxes ==
  /\ AsksIn(<< >>) = {} /\ RenamesIn(<< >>) = {} /\ ResolvedIn(<< >>) = {}
  /\ JobsIn([w \in Workers |-> << >>]) = {}
  BY DEF AsksIn, RenamesIn, ResolvedIn, JobsIn

LEMMA RestartMapped ==
  ASSUME TypeInv, Restart
  PROVE  Service!Crash
<1> DEFINE lost == {r \in Requests : reqs'[r] # reqs[r]}
<1>1. /\ sessions' = [u \in Uuids |-> NoUser] /\ ip2geo' = [ip \in Ips |-> NoUser]
      /\ masterBox' = << >> /\ workerBox' = [w \in Workers |-> << >>]
  BY DEF Restart
<1>2. ServiceAsks' = {} /\ ServiceRenames' = {} /\ ServiceLookups' = {}
  BY <1>1, EmptyBoxes, MailMapped
<1>3. ({ip \in Ips : ip2geo[ip] # NoUser})' = {}
  BY <1>1
<1>4. ASSUME NEW r \in Requests
      PROVE  View(reqs'[r]) = IF r \in lost THEN Service!At("over", NoUser) ELSE Views[r]
  <2>1. CASE reqs'[r] = reqs[r]
    BY <2>1 DEF Views
  <2>2. CASE reqs'[r] # reqs[r]
    <3>1. PICK q : q = reqs'[r]
      OBVIOUS
    <3>2. q # NoUser /\ q.phase = "done"
      BY <2>2, <3>1, RestartStep
    <3> QED BY <2>2, <3>1, <3>2, ViewFacts
  <2> QED BY <2>1, <2>2
<1>5. Views' = [r \in Requests |-> IF r \in lost THEN Service!At("over", NoUser) ELSE Views[r]]
  <2>1. Views' = [r \in Requests |-> View(reqs'[r])]
    BY DEF Views
  <2> QED BY <1>4, <2>1
<1>6. \A r \in Requests : Views[r].stage \in {"waiting", "told"} => r \in lost
  <2> SUFFICES ASSUME NEW r \in Requests, reqs'[r] = reqs[r]
               PROVE  Views[r].stage \notin {"waiting", "told"}
    OBVIOUS
  <2>1. reqs[r] = NoUser \/ reqs[r].phase \in {"responded", "done"}
    BY RestartStep
  <2> QED BY <2>1, StageFacts DEF InPhase
<1>7. lost \in SUBSET Requests
  OBVIOUS
<1> HIDE DEF lost
<1> QED BY <1>1, <1>2, <1>3, <1>5, <1>6, <1>7, ViewsMapped
        DEF Service!Crash, Service!WAITING, Service!TOLD, Service!OVER

-----------------------------------------------------------------------------
LEMMA InitMapped == Init => Service!Init
<1> SUFFICES ASSUME Init PROVE Service!Init
  OBVIOUS
<1>1. /\ reqs = [r \in Requests |-> NoUser] /\ sessions = [u \in Uuids |-> NoUser]
      /\ ip2geo = [ip \in Ips |-> NoUser] /\ masterBox = << >>
      /\ workerBox = [w \in Workers |-> << >>]
  BY DEF Init, InitActors
<1>2. ServiceAsks = {} /\ ServiceRenames = {} /\ ServiceLookups = {}
  BY <1>1, EmptyBoxes, MailMapped
<1>3. Views = [r \in Requests |-> Service!At("before", NoUser)]
  BY <1>1, ViewFacts DEF Views
<1>4. {ip \in Ips : ip2geo[ip] # NoUser} = {}
  BY <1>1
<1> QED BY <1>1, <1>2, <1>3, <1>4, ViewsMapped DEF Service!Init, Service!BEFORE

LEMMA StepMapped ==
  ASSUME TypeInv, AskInv, MailInv, [Next]_vars
  PROVE  [Service!Next]_(Service!vars)
<1> SUFFICES Service!Next \/ UNCHANGED Service!vars
  OBVIOUS
<1>1. ASSUME NEW r \in Requests, NEW b, NEW kind, NEW ip, NEW name, Send(r, b, kind, ip, name)
      PROVE  UNCHANGED Service!vars
  BY <1>1, SendUnseen
<1>2. ASSUME NEW r \in Requests,
             \/ FromSession(r) \/ (\E uuid \in Uuids : AskMaster(r, uuid))
      PROVE  Service!Next
  BY <1>2, FromSessionMapped, AskMasterMapped DEF Service!Next
<1>3. ASSUME NEW r \in Requests, AskTimesOut(r)
      PROVE  Service!Next
  BY <1>3, AskTimesOutMapped DEF Service!Next
<1>4. ASSUME NEW r \in Requests, RespondHome(r) \/ RespondSolve(r) \/ RespondWs(r)
      PROVE  Service!Next
  BY <1>4, RespondMapped DEF Service!Next
<1>5. ASSUME NEW r \in Requests, RespondName(r)
      PROVE  Service!Next
  BY <1>5, RespondNameMapped DEF Service!Next
<1>6. ASSUME NEW r \in Requests, Arrive(r)
      PROVE  UNCHANGED Service!vars
  <2> DEFINE q == WithPhase(reqs[r], "done")
  <2>1. reqs[r] # NoUser /\ reqs[r].phase = "responded" /\ reqs[r] \in UserRequest
    BY <1>6, RequestType DEF Arrive, InPhase
  <2>2. reqs' = [reqs EXCEPT ![r] = q]
    BY <1>6 DEF Arrive, WithPhase, TypeInv
  <2>3. q # NoUser /\ q.phase = "done"
    BY <2>1, PhaseChange, UserFacts
  <2> HIDE DEF q
  <2>4. View(q) = View(reqs[r])
    BY <2>1, <2>3 DEF View, StageIs
  <2>5. \A s \in Requests : View(reqs'[s]) = View(reqs[s])
    <3>1. \A s \in Requests : s = r \/ reqs'[s] = reqs[s]
      BY <2>2 DEF TypeInv
    <3>2. reqs'[r] = q
      BY <2>2 DEF TypeInv
    <3> QED BY <2>4, <3>1, <3>2
  <2>6. UNCHANGED <<sessions, ip2geo, masterBox, workerBox>>
    BY <1>6 DEF Arrive, actors
  <2> QED BY <2>5, <2>6, UnseenMapped
<1>7. CASE OnMsgUserInfoUpdate
  BY <1>7, UpdateMapped DEF Service!Next
<1>8. CASE OnMsgResolveIp
  BY <1>8, ResolveMapped DEF Service!Next
<1>9. CASE OnMsgIpResolution
  BY <1>9, ResolutionMapped DEF Service!Next
<1>10. ASSUME NEW w \in Workers, WorkerResolves(w)
       PROVE  UNCHANGED Service!vars
  BY <1>10, UnseenMapped
<1>11. ASSUME NEW w \in Workers, WorkerThrows(w)
       PROVE  Service!Next
  BY <1>11, ThrowMapped DEF Service!Next
<1>12. CASE Restart
  BY <1>12, RestartMapped DEF Service!Next
<1>13. CASE UNCHANGED vars
  <2>1. UNCHANGED <<reqs, sessions, ip2geo, masterBox, workerBox>>
    BY <1>13 DEF vars
  <2> QED BY <2>1, UnseenMapped
<1> QED BY <1>1, <1>2, <1>3, <1>4, <1>5, <1>6, <1>7, <1>8, <1>9, <1>10, <1>11, <1>12, <1>13,
           Zenon DEF Next, SubmitName, HandleRequest, Respond, MasterStep

\* Whatever the numbers of browsers, requests, users and addresses, whoever
\* moves or takes a name, whatever lookups fail or asks time out and wherever
\* the server restarts, the registry implements the service.
THEOREM RegistryImplementsService == Spec => ImplementsService
<1>1. TypeInv /\ AskInv /\ MailInv /\ [Next]_vars => TypeInv' /\ AskInv' /\ MailInv'
  BY TypeInvNext, AskInvNext, MailInvNext
<1>2. TypeInv /\ AskInv /\ MailInv /\ [Next]_vars => [Service!Next]_(Service!vars)
  BY StepMapped
<1> QED BY <1>1, <1>2, TypeInvInit, MailInit, InitMapped, PTL
        DEF Spec, ImplementsService, Service!Spec
=============================================================================
