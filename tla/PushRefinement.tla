--------------------------- MODULE PushRefinement ---------------------------
(***************************************************************************)
(* ClientBroadcaster implements PushService: under the mapping of its      *)
(* state to what is sent, announced, coming and heard, it starts where the *)
(* service starts and every step of it is a step of the service or changes *)
(* nothing there.                                                          *)
(***************************************************************************)
EXTENDS ClientBroadcasterProofs

-----------------------------------------------------------------------------
(* A queue and the mailbox behind it.                                      *)

LEMMA FirstOfConcat ==
  ASSUME NEW S, NEW e \in S, NEW y \in Seq(S)
  PROVE  /\ << e >> \o y # << >>
         /\ Head(<< e >> \o y) = e
         /\ Tail(<< e >> \o y) = y
<1> DEFINE t == << e >> \o y
<1>1. << e >> \in Seq(S) /\ Len(<< e >>) = 1 /\ << e >>[1] = e /\ Len(y) \in Nat
  OBVIOUS
<1>2. /\ t \in Seq(S) /\ Len(t) = Len(<< e >>) + Len(y)
      /\ \A i \in 1 .. Len(<< e >>) + Len(y) :
           t[i] = IF i <= Len(<< e >>) THEN << e >>[i] ELSE y[i - Len(<< e >>)]
  BY <1>1, ConcatProperties
<1> HIDE DEF t
<1>3. Len(t) = 1 + Len(y) /\ \A i \in 1 .. 1 + Len(y) : t[i] = IF i <= 1 THEN e ELSE y[i - 1]
  BY <1>1, <1>2
<1>4. t # << >> /\ t[1] = e
  BY <1>1, <1>2, <1>3
<1>5. /\ Head(t) = t[1] /\ Tail(t) \in Seq(S) /\ Len(Tail(t)) = Len(t) - 1
      /\ \A i \in 1 .. Len(t) - 1 : Tail(t)[i] = t[i + 1]
  BY <1>2, <1>4, TailFacts
<1>6. \A i \in 1 .. Len(y) : Tail(t)[i] = y[i]
  <2> SUFFICES ASSUME NEW i \in 1 .. Len(y) PROVE Tail(t)[i] = y[i]
    OBVIOUS
  <2>1. i \in 1 .. Len(t) - 1 /\ i + 1 \in 1 .. 1 + Len(y) /\ ~(i + 1 <= 1) /\ (i + 1) - 1 = i
    BY <1>1, <1>3
  <2> QED BY <1>3, <1>5, <2>1
<1>7. Len(Tail(t)) = Len(y)
  BY <1>1, <1>3, <1>5
<1>8. Tail(t) = y
  BY <1>5, <1>6, <1>7, SeqEqual
<1> QED BY <1>4, <1>5, <1>8 DEF t

\* The first of both is the first of the queue.
LEMMA HeadOfConcat ==
  ASSUME NEW S, NEW q \in Seq(S), NEW h \in Seq(S), q # << >>
  PROVE  /\ q \o h # << >>
         /\ Head(q \o h) = Head(q)
         /\ Tail(q \o h) = Tail(q) \o h
<1> DEFINE e == Head(q)
           z == Tail(q)
<1>1. << e >> \in Seq(S) /\ z \in Seq(S) /\ e \in S /\ q = << e >> \o z
  BY HeadThenTail
<1> HIDE DEF e, z
<1>2. q \o h = << e >> \o (z \o h)
  BY <1>1, ConcatAssociative
<1>3. z \o h \in Seq(S)
  BY <1>1, ConcatProperties
<1> QED BY <1>1, <1>2, <1>3, FirstOfConcat DEF e, z

\* What is added to the mailbox comes last.
LEMMA AppendToConcat ==
  ASSUME NEW S, NEW q \in Seq(S), NEW h \in Seq(S), NEW n \in S
  PROVE  q \o Append(h, n) = Append(q \o h, n)
<1>1. << n >> \in Seq(S) /\ q \o h \in Seq(S)
  BY ConcatProperties
<1>2. Append(h, n) = h \o << n >> /\ Append(q \o h, n) = (q \o h) \o << n >>
  BY <1>1, AppendIsConcat
<1>3. q \o (h \o << n >>) = (q \o h) \o << n >>
  BY <1>1, ConcatAssociative
<1> QED BY <1>2, <1>3

\* The queue is what comes first.
LEMMA FrontOfConcat ==
  ASSUME NEW S, NEW q \in Seq(S), NEW h \in Seq(S)
  PROVE  SubSeq(q \o h, 1, Len(q)) = q
<1> DEFINE s == q \o h
           a == SubSeq(s, 1, Len(q))
<1>1. Len(q) \in Nat
  OBVIOUS
<1>2. \A i \in 1 .. Len(q) : s[i] = q[i] /\ q[i] \in S
  BY PrefixOfConcat, ElementType
<1> HIDE DEF s
<1>3. /\ a \in Seq(S) /\ Len(a) = IF 1 <= Len(q) THEN Len(q) - 1 + 1 ELSE 0
      /\ \A i \in 1 .. Len(q) - 1 + 1 : a[i] = s[1 + i - 1]
  BY <1>1, <1>2, SubSeqProperties
<1> HIDE DEF a
<1>4. Len(a) = Len(q)
  BY <1>1, <1>3
<1>5. \A i \in 1 .. Len(q) : a[i] = q[i]
  <2> SUFFICES ASSUME NEW i \in 1 .. Len(q) PROVE a[i] = q[i]
    OBVIOUS
  <2>1. i \in 1 .. Len(q) - 1 + 1 /\ 1 + i - 1 = i
    BY <1>1
  <2> QED BY <1>2, <1>3, <2>1
<1>6. a = q
  BY <1>3, <1>4, <1>5, SeqEqual
<1> QED BY <1>6 DEF a, s

\* The mailbox loses its head: both lose what is behind the queue.
LEMMA RemoveFromConcat ==
  ASSUME NEW S, NEW q \in Seq(S), NEW h \in Seq(S), h # << >>
  PROVE  RemoveAt(q \o h, Len(q) + 1) = q \o Tail(h)
<1> DEFINE s == q \o h
           k == Len(q) + 2
           z == SubSeq(s, k, Len(s))
           t == Tail(h)
<1>1. Len(q) \in Nat /\ k \in Nat
  OBVIOUS
<1>2. /\ Len(h) \in Nat \ {0} /\ t \in Seq(S) /\ Len(t) = Len(h) - 1
      /\ \A i \in 1 .. Len(h) - 1 : t[i] = h[i + 1]
  BY TailFacts
<1>3. /\ s \in Seq(S) /\ Len(s) = Len(q) + Len(h)
      /\ \A i \in 1 .. Len(q) + Len(h) : s[i] = IF i <= Len(q) THEN q[i] ELSE h[i - Len(q)]
  BY ConcatProperties
<1>4. SubSeq(s, 1, Len(q)) = q
  BY FrontOfConcat
<1> HIDE DEF s, t
<1>5. RemoveAt(s, Len(q) + 1) = q \o z
  <2>1. (Len(q) + 1) - 1 = Len(q) /\ (Len(q) + 1) + 1 = k
    BY <1>1
  <2>2. RemoveAt(s, Len(q) + 1) =
          SubSeq(s, 1, (Len(q) + 1) - 1) \o SubSeq(s, (Len(q) + 1) + 1, Len(s))
    BY DEF RemoveAt
  <2> QED BY <1>4, <2>1, <2>2
<1>6. \A i \in k .. Len(s) : s[i] \in S
  <2>1. \A i \in 1 .. Len(s) : s[i] \in S
    BY <1>3, ElementType
  <2> QED BY <1>1, <2>1
<1>7. Len(s) \in Nat
  BY <1>3
<1>8. /\ z \in Seq(S) /\ Len(z) = IF k <= Len(s) THEN Len(s) - k + 1 ELSE 0
      /\ \A i \in 1 .. Len(s) - k + 1 : z[i] = s[k + i - 1]
  <2> HIDE DEF k
  <2> QED BY <1>1, <1>6, <1>7, SubSeqProperties
<1> HIDE DEF z
<1>9. Len(z) = Len(t)
  BY <1>1, <1>2, <1>3, <1>8
<1>10. \A i \in 1 .. Len(z) : z[i] = t[i]
  <2> SUFFICES ASSUME NEW i \in 1 .. Len(z) PROVE z[i] = t[i]
    OBVIOUS
  <2>1. /\ i \in 1 .. Len(s) - k + 1 /\ i \in 1 .. Len(h) - 1
        /\ k + i - 1 \in 1 .. Len(q) + Len(h) /\ ~(k + i - 1 <= Len(q))
        /\ (k + i - 1) - Len(q) = i + 1
    BY <1>1, <1>2, <1>3, <1>9
  <2>2. z[i] = s[k + i - 1] /\ t[i] = h[i + 1]
    BY <1>2, <1>8, <2>1
  <2>3. s[k + i - 1] = h[(k + i - 1) - Len(q)]
    BY <1>3, <2>1
  <2> QED BY <2>1, <2>2, <2>3
<1>11. z = t
  BY <1>2, <1>8, <1>9, <1>10, SeqEqual
<1> QED BY <1>5, <1>11 DEF s, t

-----------------------------------------------------------------------------
(* What is announced.                                                      *)

LEMMA OneBacklog ==
  ASSUME NEW p \in Nat, NEW lo \in 0 .. p
  PROVE  (CHOOSE n \in 0 .. p : lo + 1 .. p = n + 1 .. p) = lo
<1>1. ASSUME NEW n \in 0 .. p, lo + 1 .. p = n + 1 .. p
      PROVE  n = lo
  <2>1. CASE n < lo
    <3>1. n + 1 \in n + 1 .. p /\ n + 1 \notin lo + 1 .. p
      BY <2>1
    <3> QED BY <1>1, <3>1
  <2>2. CASE lo < n
    <3>1. lo + 1 \in lo + 1 .. p /\ lo + 1 \notin n + 1 .. p
      BY <2>2
    <3> QED BY <1>1, <3>1
  <2> QED BY <2>1, <2>2
<1>2. \E n \in 0 .. p : lo + 1 .. p = n + 1 .. p
  OBVIOUS
<1> DEFINE m == CHOOSE n \in 0 .. p : lo + 1 .. p = n + 1 .. p
<1>3. m \in 0 .. p /\ lo + 1 .. p = m + 1 .. p
  BY <1>2
<1> HIDE DEF m
<1>4. m = lo
  BY <1>1, <1>3
<1> QED BY <1>4 DEF m

\* The broadcasts that wait are those of the backlog, now ...
LEMMA AnnouncedIs ==
  ASSUME TypeOK, NEW lo \in 0 .. published, Backlog(lo)
  PROVE  Announced = lo
<1>1. published \in Nat /\ DOMAIN broadcasterBox = 1 .. Len(broadcasterBox)
  BY DEF TypeOK
<1>2. \A n : n \in Waiting <=> \E i : IsNews(i) /\ broadcasterBox[i].number = n
  BY <1>1 DEF Waiting, IsNews
<1>3. Waiting = lo + 1 .. published
  BY <1>2 DEF Backlog
<1> QED BY <1>1, <1>3, OneBacklog DEF Announced

\* ... and next.
LEMMA AnnouncedBecomes ==
  ASSUME TypeOK', NEW lo \in 0 .. published', Backlog(lo)'
  PROVE  Announced' = lo
<1>1. published' \in Nat /\ DOMAIN broadcasterBox' = 1 .. Len(broadcasterBox')
  BY DEF TypeOK
<1>2. \A n : n \in Waiting' <=> \E i : IsNews(i)' /\ broadcasterBox'[i].number = n
  BY <1>1 DEF Waiting, IsNews
<1>3. Waiting' = lo + 1 .. published'
  BY <1>2 DEF Backlog
<1> QED BY <1>1, <1>3, OneBacklog DEF Announced

\* There is a backlog, in every state.
LEMMA BacklogFacts ==
  ASSUME TypeOK, BacklogInv
  PROVE  \E lo \in 0 .. published : lo \in Nat /\ lo <= published /\ Backlog(lo)
<1>1. handled \in Nat /\ published \in Nat
  BY DEF TypeOK
<1>2. PICK lo \in handled .. published : Backlog(lo)
  BY DEF BacklogInv
<1> QED BY <1>1, <1>2

LEMMA AnnouncedStays ==
  ASSUME TypeOK, TypeOK', BacklogInv,
         UNCHANGED published, \A lo \in Nat : Backlog(lo) => Backlog(lo)'
  PROVE  Announced' = Announced
<1>1. PICK lo \in 0 .. published : lo \in Nat /\ Backlog(lo)
  BY BacklogFacts
<1>2. Backlog(lo)' /\ lo \in 0 .. published'
  BY <1>1
<1> QED BY <1>1, <1>2, AnnouncedIs, AnnouncedBecomes

-----------------------------------------------------------------------------
(* What is coming.                                                         *)

LEMMA ComingFacts ==
  ASSUME TypeOK
  PROVE  /\ Coming \in [Connections -> Seq(1 .. MaxBroadcasts)]
         /\ \A c \in Connections :
              /\ Coming[c] = queue[c] \o handlerBox[c]
              /\ queue[c] \in Seq(1 .. MaxBroadcasts)
              /\ handlerBox[c] \in Seq(1 .. MaxBroadcasts)
<1>1. \A c \in Connections : /\ queue[c] \in Seq(1 .. MaxBroadcasts)
                             /\ handlerBox[c] \in Seq(1 .. MaxBroadcasts)
  BY DEF TypeOK
<1>2. \A c \in Connections : queue[c] \o handlerBox[c] \in Seq(1 .. MaxBroadcasts)
  BY <1>1, ConcatProperties
<1> QED BY <1>1, <1>2 DEF Coming

\* One listener's messages change.
LEMMA ComingOne ==
  ASSUME TypeOK, NEW c \in Connections, NEW v,
         queue'[c] \o handlerBox'[c] = v,
         \A d \in Connections : d # c => queue'[d] = queue[d] /\ handlerBox'[d] = handlerBox[d]
  PROVE  Coming' = [Coming EXCEPT ![c] = v]
<1>1. Coming' = [d \in Connections |-> queue'[d] \o handlerBox'[d]]
  BY DEF Coming
<1>2. \A d \in Connections : queue'[d] \o handlerBox'[d] = IF d = c THEN v ELSE Coming[d]
  BY ComingFacts
<1>3. [Coming EXCEPT ![c] = v] = [d \in Connections |-> IF d = c THEN v ELSE Coming[d]]
  BY ComingFacts
<1> QED BY <1>1, <1>2, <1>3

LEMMA ComingStays ==
  ASSUME TypeOK, NEW c \in Connections, queue'[c] \o handlerBox'[c] = Coming[c],
         \A d \in Connections : d # c => queue'[d] = queue[d] /\ handlerBox'[d] = handlerBox[d]
  PROVE  Coming' = Coming
<1>1. Coming' = [Coming EXCEPT ![c] = Coming[c]]
  BY ComingOne
<1> QED BY <1>1, ComingFacts

-----------------------------------------------------------------------------
(* Steps.                                                                  *)

\* Pages that open, lose and await websockets, and handlers that start, change
\* nothing for the listeners.
LEMMA HiddenMapped ==
  ASSUME TypeOK, TypeOK', RegisterInv, BacklogInv,
         \/ \E b \in Browsers :
              Load(b) \/ OnOpen(b) \/ \E i \in DOMAIN timers[b] : OnTimer(b, i)
         \/ \E c \in Connections : OnClose(c) \/ Accept(c) \/ PreStart(c) \/ Break(c)
         \/ UNCHANGED vars
  PROVE  UNCHANGED Service!vars
<1>1. UNCHANGED <<clients, handlerBox, queue, published, received>>
  BY DEF Load, OnOpen, OnTimer, OnClose, Accept, PreStart, Break, vars, actors, history
<1>2. Recipients' = Recipients
  <2>1. CASE UNCHANGED handler
    BY <1>1, <2>1 DEF Recipients
  <2>2. ASSUME NEW c \in Connections, Accept(c) \/ PreStart(c)
        PROVE  Recipients' = Recipients
    <3>1. /\ handler[c] \in {"none", "new"} /\ c \notin clients
          /\ \A d \in Connections : d # c => handler'[d] = handler[d]
          /\ clients \subseteq Connections
      BY <2>2 DEF Accept, PreStart, RegisterInv, TypeOK
    <3> QED BY <1>1, <3>1 DEF Recipients
  <2> QED BY <2>1, <2>2 DEF Load, OnOpen, OnTimer, OnClose, Break, vars, actors
<1>3. Announced' = Announced
  <2>1. CASE UNCHANGED broadcasterBox
    BY <1>1, <2>1 DEF Announced, Waiting
  <2>2. ASSUME NEW c \in Connections, PreStart(c)
        PROVE  Announced' = Announced
    <3> DEFINE m == [type |-> "MsgRegisterClient", client |-> c]
    <3>1. broadcasterBox' = Append(broadcasterBox, m)
      BY <2>2 DEF PreStart, Register
    <3>2. m \in Message /\ m.type # "MsgBroadcast"
      BY DEF Message
    <3> HIDE DEF m
    <3>3. \A lo \in Nat : Backlog(lo) => Backlog(lo)'
      BY <1>1, <3>1, <3>2, BacklogOther
    <3> QED BY <1>1, <3>3, AnnouncedStays
  <2> QED BY <2>1, <2>2 DEF Load, OnOpen, OnTimer, OnClose, Accept, Break, vars, actors
<1>4. Coming' = Coming
  BY <1>1 DEF Coming
<1> QED BY <1>1, <1>2, <1>3, <1>4 DEF Service!vars

LEMMA HearMapped ==
  ASSUME TypeOK, NEW b \in Browsers, OnMessage(b)
  PROVE  \E c \in Connections : Service!Hear(c)
<1> DEFINE c == Websocket(b)
           q == queue[c]
           h == handlerBox[c]
<1>1. /\ q # << >> /\ opened[b] > 0
      /\ received' = [received EXCEPT ![c] = Append(received[c], Head(q))]
      /\ queue' = [queue EXCEPT ![c] = Tail(q)]
      /\ UNCHANGED <<clients, broadcasterBox, handler, handlerBox, published>>
  BY DEF OnMessage, actors
<1>2. c \in Connections
  BY <1>1, ConnectionFacts
<1>3. q \in Seq(1 .. MaxBroadcasts) /\ h \in Seq(1 .. MaxBroadcasts) /\ Coming[c] = q \o h
  BY <1>2, ComingFacts
<1>4. /\ queue'[c] = Tail(q) /\ handlerBox'[c] = h
      /\ \A d \in Connections : d # c => queue'[d] = queue[d] /\ handlerBox'[d] = handlerBox[d]
  <2> HIDE DEF c
  <2> QED BY <1>1, <1>2 DEF TypeOK
<1> HIDE DEF c, q, h
<1>5. Coming[c] # << >> /\ Head(Coming[c]) = Head(q) /\ Tail(Coming[c]) = Tail(q) \o h
  BY <1>1, <1>3, HeadOfConcat
<1>6. Coming' = [Coming EXCEPT ![c] = Tail(Coming[c])]
  BY <1>2, <1>4, <1>5, ComingOne
<1>7. received' = [received EXCEPT ![c] = Append(received[c], Head(Coming[c]))]
  BY <1>1, <1>5
<1>8. UNCHANGED <<published, Announced, Recipients>>
  BY <1>1 DEF Announced, Waiting, Recipients
<1>9. Service!Hear(c)
  BY <1>5, <1>6, <1>7, <1>8 DEF Service!Hear
<1> QED BY <1>2, <1>9

\* A handler's message finds room, or is the first beyond the capacity.
LEMMA SendMapped ==
  ASSUME TypeOK, NEW c \in Connections, HandlerSends(c)
  PROVE  Service!Lose(c) \/ UNCHANGED Service!vars
<1> DEFINE q == queue[c]
           h == handlerBox[c]
<1>1. /\ h # << >> /\ handlerBox' = [handlerBox EXCEPT ![c] = Tail(h)]
      /\ UNCHANGED <<clients, broadcasterBox, handler, published, received>>
  BY DEF HandlerSends
<1>2. q \in Seq(1 .. MaxBroadcasts) /\ h \in Seq(1 .. MaxBroadcasts) /\ Coming[c] = q \o h
  BY ComingFacts
<1>3. UNCHANGED <<published, Announced, Recipients, received>>
  BY <1>1 DEF Announced, Waiting, Recipients
<1>4. CASE HasRoom(c)
  <2>1. queue' = [queue EXCEPT ![c] = Append(q, Head(h))]
    BY <1>4 DEF HandlerSends
  <2>2. /\ queue'[c] = Append(q, Head(h)) /\ handlerBox'[c] = Tail(h)
        /\ \A d \in Connections : d # c => queue'[d] = queue[d] /\ handlerBox'[d] = handlerBox[d]
    BY <1>1, <2>1 DEF TypeOK
  <2> HIDE DEF q, h
  <2>3. Append(q, Head(h)) \o Tail(h) = q \o h
    BY <1>1, <1>2, MoveUp
  <2>4. Coming' = Coming
    BY <1>2, <2>2, <2>3, ComingStays
  <2> QED BY <1>3, <2>4 DEF Service!vars
<1>5. CASE ~HasRoom(c)
  <2>1. UNCHANGED queue
    BY <1>5 DEF HandlerSends
  <2>2. /\ queue'[c] = q /\ handlerBox'[c] = Tail(h)
        /\ \A d \in Connections : d # c => queue'[d] = queue[d] /\ handlerBox'[d] = handlerBox[d]
    BY <1>1, <2>1 DEF TypeOK
  <2>3. Len(q) = BufferSize /\ BufferSize \in Nat
    BY <1>2, <1>5, BroadcasterAssumption DEF TypeOK, HasRoom
  <2> HIDE DEF q, h
  <2>4. Len(q \o h) > BufferSize
    <3>1. Len(h) \in Nat \ {0}
      BY <1>1, <1>2, TailFacts
    <3>2. Len(q \o h) = Len(q) + Len(h)
      BY <1>2, ConcatProperties
    <3> QED BY <2>3, <3>1, <3>2
  <2>5. RemoveAt(Coming[c], BufferSize + 1) = q \o Tail(h)
    BY <1>1, <1>2, <2>3, RemoveFromConcat
  <2>6. Coming' = [Coming EXCEPT ![c] = RemoveAt(Coming[c], BufferSize + 1)]
    BY <2>2, <2>5, ComingOne
  <2>7. Service!RemoveAt(Coming[c], BufferSize + 1) = RemoveAt(Coming[c], BufferSize + 1)
    BY DEF Service!RemoveAt, RemoveAt
  <2> QED BY <1>2, <1>3, <2>4, <2>6, <2>7 DEF Service!Lose
<1> QED BY <1>4, <1>5

LEMMA LeaveMapped ==
  ASSUME TypeOK, TypeOK', BacklogInv, NEW c \in Connections, PostStop(c)
  PROVE  Service!Leave(c)
<1> DEFINE m == [type |-> "MsgDeregisterClient", client |-> c]
<1>1. /\ handler' = [handler EXCEPT ![c] = "stopped"]
      /\ handlerBox' = [handlerBox EXCEPT ![c] = << >>]
      /\ queue' = [queue EXCEPT ![c] = << >>]
      /\ broadcasterBox' = Append(broadcasterBox, m)
      /\ UNCHANGED <<clients, published, received>>
  BY DEF PostStop, SendDeregister, Register, history
<1>2. m \in Message /\ m.type # "MsgBroadcast"
  BY DEF Message
<1> HIDE DEF m
<1>3. /\ queue'[c] = << >> /\ handlerBox'[c] = << >> /\ handler'[c] = "stopped"
      /\ \A d \in Connections : d # c =>
           queue'[d] = queue[d] /\ handlerBox'[d] = handlerBox[d] /\ handler'[d] = handler[d]
      /\ clients \subseteq Connections
  BY <1>1 DEF TypeOK
<1>4. Announced' = Announced
  <2>1. \A lo \in Nat : Backlog(lo) => Backlog(lo)'
    BY <1>1, <1>2, BacklogOther
  <2> QED BY <1>1, <2>1, AnnouncedStays
<1>5. Recipients' = Recipients \ {c}
  BY <1>1, <1>3 DEF Recipients
<1>6. Coming' = [Coming EXCEPT ![c] = << >>]
  <2>1. << >> \o << >> = << >>
    OBVIOUS
  <2> QED BY <1>3, <2>1, ComingOne
<1> QED BY <1>1, <1>4, <1>5, <1>6 DEF Service!Leave

\* A registered handler that still runs begins to listen.
LEMMA JoinMapped ==
  ASSUME TypeOK, TypeOK', RegisterInv, NewsInv, OnMsgRegisterClient
  PROVE  UNCHANGED Service!vars \/ \E c \in Connections : Service!Join(c)
<1>1. PICK c : c = Head(broadcasterBox).client
  OBVIOUS
<1>2. /\ broadcasterBox # << >> /\ broadcasterBox' = Tail(broadcasterBox)
      /\ Head(broadcasterBox).type = "MsgRegisterClient"
      /\ clients' = clients \cup {c}
      /\ UNCHANGED <<handler, handlerBox, queue, published, received>>
  BY <1>1 DEF OnMsgRegisterClient, Receive
<1>3. c \in Connections
  <2>1. Head(broadcasterBox) = broadcasterBox[1] /\ 1 \in 1 .. Len(broadcasterBox)
    BY <1>2, TailFacts DEF TypeOK
  <2> QED BY <1>1, <1>2, <2>1, MessageFacts
<1>4. Announced' = Announced
  <2>1. \A lo \in Nat : Backlog(lo) => Backlog(lo)'
    BY <1>2, BacklogTail
  <2> QED BY <1>2, <2>1, AnnouncedStays DEF NewsInv
<1>5. Coming' = Coming
  BY <1>2 DEF Coming
<1>6. CASE c \in clients \/ handler[c] # "running"
  <2>1. Recipients' = Recipients
    BY <1>2, <1>6 DEF Recipients
  <2> QED BY <1>2, <1>4, <1>5, <2>1 DEF Service!vars
<1>7. CASE c \notin clients /\ handler[c] = "running"
  <2>1. Recipients' = Recipients \cup {c} /\ c \notin Recipients
    BY <1>2, <1>7 DEF Recipients
  <2>2. received[c] = << >> /\ Coming[c] = << >>
    <3> DEFINE r == received[c]
               q == queue[c]
               h == handlerBox[c]
    <3>1. Len(Stream(c)) = 0
      BY <1>3, <1>7 DEF NewsInv, StreamsInv, Fits
    <3>2. /\ r \in Seq(1 .. MaxBroadcasts) /\ q \in Seq(1 .. MaxBroadcasts)
          /\ h \in Seq(1 .. MaxBroadcasts) /\ r \o q \in Seq(1 .. MaxBroadcasts)
          /\ Stream(c) = (r \o q) \o h /\ Coming[c] = q \o h
      BY <1>3, StreamTypes, ComingFacts DEF Stream
    <3> HIDE DEF r, q, h
    <3>3. /\ Len((r \o q) \o h) = Len(r \o q) + Len(h) /\ Len(r \o q) = Len(r) + Len(q)
          /\ Len(q \o h) = Len(q) + Len(h) /\ q \o h \in Seq(1 .. MaxBroadcasts)
      BY <3>2, ConcatProperties
    <3>4. Len(r) \in Nat /\ Len(q) \in Nat /\ Len(h) \in Nat
      BY <3>2
    <3>5. Len(r) = 0 /\ Len(q \o h) = 0
      BY <3>1, <3>2, <3>3, <3>4
    <3>6. r = << >> /\ q \o h = << >>
      BY <3>2, <3>3, <3>5
    <3> QED BY <3>2, <3>6 DEF r
  <2>3. Service!Join(c)
    BY <1>2, <1>4, <1>5, <2>1, <2>2 DEF Service!Join
  <2> QED BY <1>3, <2>3
<1> QED BY <1>6, <1>7

\* Who is taken off the list has left before.
LEMMA DeregisterMapped ==
  ASSUME TypeOK, TypeOK', RegisterInv, NewsInv, OnMsgDeregisterClient
  PROVE  UNCHANGED Service!vars
<1>1. PICK c : c = Head(broadcasterBox).client
  OBVIOUS
<1>2. /\ broadcasterBox # << >> /\ broadcasterBox' = Tail(broadcasterBox)
      /\ Head(broadcasterBox).type = "MsgDeregisterClient"
      /\ clients' = clients \ {c}
      /\ UNCHANGED <<handler, handlerBox, queue, published, received>>
  BY <1>1 DEF OnMsgDeregisterClient, Receive
<1>3. handler[c] = "stopped"
  <2>1. Head(broadcasterBox) = broadcasterBox[1] /\ 1 \in 1 .. Len(broadcasterBox)
    BY <1>2, TailFacts DEF TypeOK
  <2>2. c \in Connections /\ IsAbout(1, "MsgDeregisterClient", c)
    BY <1>1, <1>2, <2>1, MessageFacts DEF IsAbout
  <2> QED BY <2>2 DEF RegisterInv
<1>4. Announced' = Announced
  <2>1. \A lo \in Nat : Backlog(lo) => Backlog(lo)'
    BY <1>2, BacklogTail
  <2> QED BY <1>2, <2>1, AnnouncedStays DEF NewsInv
<1>5. Recipients' = Recipients
  BY <1>2, <1>3 DEF Recipients
<1>6. Coming' = Coming
  BY <1>2 DEF Coming
<1> QED BY <1>2, <1>4, <1>5, <1>6 DEF Service!vars

LEMMA BroadcastMapped ==
  ASSUME TypeOK, TypeOK', NewsInv, OnMsgBroadcast
  PROVE  Service!Announce
<1>1. PICK n : n = Head(broadcasterBox).number
  OBVIOUS
<1>2. /\ broadcasterBox # << >> /\ broadcasterBox' = Tail(broadcasterBox)
      /\ Head(broadcasterBox).type = "MsgBroadcast"
      /\ UNCHANGED <<clients, handler, queue, published, received>>
      /\ handlerBox' = [c \in Connections |->
           IF c \in Recipients THEN Append(handlerBox[c], n) ELSE handlerBox[c]]
  BY <1>1 DEF OnMsgBroadcast, Receive
<1>3. PICK lo \in 0 .. published : lo \in Nat /\ lo <= published /\ Backlog(lo)
  BY BacklogFacts DEF NewsInv
<1>4. n = lo + 1 /\ lo + 1 <= published /\ Backlog(lo + 1)'
  BY <1>1, <1>2, <1>3, BacklogTail
<1>5. Announced = lo
  BY <1>3, AnnouncedIs
<1>6. published \in Nat /\ published <= MaxBroadcasts /\ MaxBroadcasts \in Nat
  BY BroadcasterAssumption DEF TypeOK
<1>7. lo + 1 \in 0 .. published' /\ n \in 1 .. MaxBroadcasts
  BY <1>2, <1>3, <1>4, <1>6
<1>8. Announced' = lo + 1
  BY <1>4, <1>7, AnnouncedBecomes
<1>9. Coming' = [c \in Connections |->
        IF c \in Recipients THEN Append(Coming[c], n) ELSE Coming[c]]
  <2>1. Coming' = [c \in Connections |-> queue'[c] \o handlerBox'[c]]
    BY DEF Coming
  <2>2. ASSUME NEW c \in Connections
        PROVE  queue'[c] \o handlerBox'[c] =
                 IF c \in Recipients THEN Append(Coming[c], n) ELSE Coming[c]
    <3>1. /\ Coming[c] = queue[c] \o handlerBox[c] /\ queue'[c] = queue[c]
          /\ queue[c] \in Seq(1 .. MaxBroadcasts) /\ handlerBox[c] \in Seq(1 .. MaxBroadcasts)
      BY <1>2, ComingFacts
    <3>2. queue[c] \o Append(handlerBox[c], n) = Append(queue[c] \o handlerBox[c], n)
      <4>1. PICK q, h : q = queue[c] /\ h = handlerBox[c]
        OBVIOUS
      <4>2. q \in Seq(1 .. MaxBroadcasts) /\ h \in Seq(1 .. MaxBroadcasts)
        BY <3>1, <4>1
      <4>3. q \o Append(h, n) = Append(q \o h, n)
        BY <1>7, <4>2, AppendToConcat
      <4> QED BY <4>1, <4>3
    <3>3. handlerBox'[c] = IF c \in Recipients THEN Append(handlerBox[c], n) ELSE handlerBox[c]
      BY <1>2
    <3> QED BY <3>1, <3>2, <3>3
  <2> QED BY <2>1, <2>2
<1>10. Recipients' = Recipients
  BY <1>2 DEF Recipients
<1>11. Announced < published
  BY <1>3, <1>4, <1>5, <1>6
<1> QED BY <1>2, <1>4, <1>5, <1>8, <1>9, <1>10, <1>11 DEF Service!Announce

LEMMA PublishMapped ==
  ASSUME TypeOK, TypeOK', NewsInv, Publish
  PROVE  Service!Send
<1>1. /\ published' = published + 1
      /\ UNCHANGED <<clients, handler, handlerBox, queue, received>>
  BY DEF Publish, history
<1>2. PICK lo \in 0 .. published : lo \in Nat /\ lo <= published /\ Backlog(lo)
  BY BacklogFacts DEF NewsInv
<1>3. Backlog(lo)'
  BY <1>2, BacklogPublish
<1>4. lo \in 0 .. published'
  BY <1>1, <1>2 DEF TypeOK
<1>5. Announced' = Announced
  BY <1>2, <1>3, <1>4, AnnouncedIs, AnnouncedBecomes
<1>6. UNCHANGED <<Recipients, Coming, received>>
  BY <1>1 DEF Recipients, Coming
<1> QED BY <1>1, <1>5, <1>6 DEF Service!Send

\* What a websocket has queued survives a restart of the server, no more.
LEMMA RestartMapped ==
  ASSUME TypeOK, TypeOK', Restart
  PROVE  Service!Crash
<1> DEFINE left == [c \in Connections |-> Len(queue[c])]
<1>1. /\ clients' = {} /\ broadcasterBox' = << >>
      /\ handlerBox' = [c \in Connections |-> << >>]
      /\ UNCHANGED <<queue, received, published>>
  BY DEF Restart, history
<1>2. Recipients' = {}
  BY <1>1 DEF Recipients
<1>3. Announced' = published
  <2>1. published' \in Nat /\ published' = published
    BY <1>1 DEF TypeOK
  <2>2. PICK lo : lo = published'
    OBVIOUS
  <2>3. lo \in 0 .. published' /\ Backlog(lo)'
    BY <1>1, <2>1, <2>2 DEF Backlog, IsNews
  <2> QED BY <2>1, <2>2, <2>3, AnnouncedBecomes
<1>4. ASSUME NEW c \in Connections
      PROVE  /\ left[c] = Len(queue[c]) /\ left[c] \in 0 .. BufferSize
             /\ left[c] <= Len(Coming[c])
             /\ queue'[c] \o handlerBox'[c] = SubSeq(Coming[c], 1, left[c])
  <2>1. /\ queue[c] \in Seq(1 .. MaxBroadcasts) /\ handlerBox[c] \in Seq(1 .. MaxBroadcasts)
        /\ Coming[c] = queue[c] \o handlerBox[c]
    BY ComingFacts
  <2>2. left[c] = Len(queue[c]) /\ Len(queue[c]) \in Nat /\ Len(queue[c]) <= BufferSize
    BY <2>1 DEF TypeOK
  <2>3. Len(queue[c]) <= Len(Coming[c])
    <3>1. PICK q, h : q = queue[c] /\ h = handlerBox[c]
      OBVIOUS
    <3>2. q \in Seq(1 .. MaxBroadcasts) /\ h \in Seq(1 .. MaxBroadcasts)
      BY <2>1, <3>1
    <3>3. Len(q) <= Len(q \o h)
      BY <3>2, PrefixOfConcat
    <3> QED BY <2>1, <3>1, <3>3
  <2>4. SubSeq(Coming[c], 1, Len(queue[c])) = queue[c]
    BY <2>1, FrontOfConcat
  <2>5. queue'[c] \o handlerBox'[c] = queue[c]
    BY <1>1, <2>1, ConcatEmptySeq
  <2>6. left[c] \in 0 .. BufferSize
    BY <2>2, BroadcasterAssumption
  <2> QED BY <2>2, <2>3, <2>4, <2>5, <2>6
<1>5. left \in [Connections -> 0 .. BufferSize]
  BY <1>4
<1> HIDE DEF left
<1>6. Coming' = [c \in Connections |-> SubSeq(Coming[c], 1, left[c])]
  <2>1. Coming' = [c \in Connections |-> queue'[c] \o handlerBox'[c]]
    BY DEF Coming
  <2> QED BY <1>4, <2>1
<1> QED BY <1>1, <1>2, <1>3, <1>4, <1>5, <1>6 DEF Service!Crash

LEMMA InitMapped == Init => Service!Init
<1> SUFFICES ASSUME Init PROVE Service!Init
  OBVIOUS
<1>1. published = 0 /\ received = [c \in Connections |-> << >>]
  BY DEF Init
<1>2. Recipients = {}
  BY DEF Init, Recipients
<1>3. Coming = [c \in Connections |-> << >>]
  <2>1. << >> \o << >> = << >>
    OBVIOUS
  <2>2. \A c \in Connections : queue[c] \o handlerBox[c] = << >>
    BY <2>1 DEF Init
  <2> QED BY <2>2 DEF Coming
<1>4. Announced = 0
  <2>1. TypeOK
    BY PagesInit
  <2>2. 0 \in 0 .. published /\ Backlog(0)
    BY DEF Init, Backlog, IsNews
  <2> QED BY <2>1, <2>2, AnnouncedIs
<1> QED BY <1>1, <1>2, <1>3, <1>4 DEF Service!Init

LEMMA StepMapped ==
  ASSUME TypeOK, TypeOK', RegisterInv, NewsInv, [Next]_vars
  PROVE  [Service!Next]_(Service!vars)
<1> SUFFICES Service!Next \/ UNCHANGED Service!vars
  OBVIOUS
<1>1. CASE \/ \E b \in Browsers :
                Load(b) \/ OnOpen(b) \/ \E i \in DOMAIN timers[b] : OnTimer(b, i)
           \/ \E c \in Connections : OnClose(c) \/ Accept(c) \/ PreStart(c) \/ Break(c)
           \/ UNCHANGED vars
  BY <1>1, HiddenMapped DEF NewsInv
<1>2. ASSUME NEW b \in Browsers, OnMessage(b)
      PROVE  Service!Next
  BY <1>2, HearMapped DEF Service!Next
<1>3. ASSUME NEW c \in Connections, HandlerSends(c)
      PROVE  Service!Next \/ UNCHANGED Service!vars
  BY <1>3, SendMapped DEF Service!Next
<1>4. ASSUME NEW c \in Connections, PostStop(c)
      PROVE  Service!Next
  BY <1>4, LeaveMapped DEF Service!Next, NewsInv
<1>5. CASE OnMsgRegisterClient
  BY <1>5, JoinMapped DEF Service!Next
<1>6. CASE OnMsgDeregisterClient
  BY <1>6, DeregisterMapped
<1>7. CASE OnMsgBroadcast
  BY <1>7, BroadcastMapped DEF Service!Next
<1>8. CASE Publish
  BY <1>8, PublishMapped DEF Service!Next
<1>9. CASE Restart
  BY <1>9, RestartMapped DEF Service!Next
<1> QED BY <1>1, <1>2, <1>3, <1>4, <1>5, <1>6, <1>7, <1>8, <1>9
        DEF Next, PageStep, HandlerStep, BroadcasterStep

\* The push half of the application implements the service, for any number of
\* pages and queues of any size, wherever connections break and the server
\* restarts.
THEOREM BroadcasterImplementsService == Spec => ImplementsService
<1>1. TypeOK /\ PagesInv /\ RegisterInv /\ NewsInv /\ [Next]_vars =>
        TypeOK' /\ PagesInv' /\ RegisterInv' /\ NewsInv'
  BY TypeNext, RegisterNext, NewsNext
<1>2. TypeOK /\ TypeOK' /\ RegisterInv /\ NewsInv /\ [Next]_vars =>
        [Service!Next]_(Service!vars)
  BY StepMapped
<1> QED BY <1>1, <1>2, PagesInit, RegisterInit, NewsInit, InitMapped, PTL
        DEF Spec, ImplementsService, Service!Spec
=============================================================================
