----------------------- MODULE ClientBroadcasterProofs -----------------------
(***************************************************************************)
(* Theorems about ClientBroadcaster for any number of pages, broadcasts    *)
(* and faults, any interval and queues of any size.                        *)
(***************************************************************************)
EXTENDS ClientBroadcaster, SequenceTheorems, TLAPS

\* Appending to a sequence keeps its elements and adds one.
LEMMA AppendFacts ==
  ASSUME NEW S, NEW s \in Seq(S), NEW e \in S
  PROVE  /\ Append(s, e) \in Seq(S)
         /\ Len(Append(s, e)) = Len(s) + 1
         /\ \A i \in 1 .. Len(s) : Append(s, e)[i] = s[i]
         /\ Append(s, e)[Len(s) + 1] = e
  OBVIOUS

\* Taking the head moves the other elements up one place.
LEMMA TailFacts ==
  ASSUME NEW S, NEW s \in Seq(S), s # << >>
  PROVE  /\ Head(s) \in S /\ Head(s) = s[1]
         /\ Len(s) \in Nat \ {0}
         /\ Tail(s) \in Seq(S) /\ Len(Tail(s)) = Len(s) - 1
         /\ \A i \in 1 .. Len(s) - 1 : Tail(s)[i] = s[i + 1]
  OBVIOUS

LEMMA ElementType ==
  ASSUME NEW S, NEW s \in Seq(S), NEW i \in 1 .. Len(s)
  PROVE  s[i] \in S
  OBVIOUS

\* One countdown fewer.
LEMMA RemoveFacts ==
  ASSUME NEW S, NEW s \in Seq(S), NEW i \in 1 .. Len(s)
  PROVE  RemoveAt(s, i) \in Seq(S) /\ Len(RemoveAt(s, i)) = Len(s) - 1
<1> DEFINE a == SubSeq(s, 1, i - 1)
           z == SubSeq(s, i + 1, Len(s))
<1>1. Len(s) \in Nat /\ i \in Nat /\ i >= 1 /\ i <= Len(s)
  OBVIOUS
<1>2. \A j \in 1 .. Len(s) : s[j] \in S
  OBVIOUS
<1>3. \A j \in 1 .. i - 1 : s[j] \in S
  BY <1>1, <1>2
<1>4. \A j \in i + 1 .. Len(s) : s[j] \in S
  BY <1>1, <1>2
<1>5. a \in Seq(S) /\ Len(a) = i - 1
  <2>1. a \in Seq(S) /\ Len(a) = IF 1 <= i - 1 THEN i - 1 - 1 + 1 ELSE 0
    BY <1>1, <1>3, SubSeqProperties
  <2> QED BY <1>1, <2>1
<1>6. z \in Seq(S) /\ Len(z) = Len(s) - i
  <2>1. z \in Seq(S) /\ Len(z) = IF i + 1 <= Len(s) THEN Len(s) - (i + 1) + 1 ELSE 0
    BY <1>1, <1>4, SubSeqProperties
  <2> QED BY <1>1, <2>1
<1> HIDE DEF a, z
<1>7. a \o z \in Seq(S) /\ Len(a \o z) = Len(a) + Len(z)
  BY <1>5, <1>6, ConcatProperties
<1>8. RemoveAt(s, i) = a \o z
  BY DEF RemoveAt, a, z
<1>9. Len(a \o z) = Len(s) - 1
  BY <1>1, <1>5, <1>6, <1>7
<1> QED BY <1>7, <1>8, <1>9

-----------------------------------------------------------------------------
(* Pages: one way back.                                                    *)

\* What the pages' variables are, for any page.
PageInv ==
  \A b \in Browsers :
    /\ opened[b] = 0 => timers[b] = << >>
    /\ opened[b] > 0 => Len(timers[b]) = IF IsWebsocketClosed(b, readyState) THEN 1 ELSE 0
    /\ \A n \in 1 .. MaxFaults + 1 :
         /\ n < opened[b] => readyState[<<b, n>>] = CLOSED
         /\ n = opened[b] => readyState[<<b, n>>] # "none"
         /\ n > opened[b] => readyState[<<b, n>>] = "none"
         /\ <<b, n>> \in broken => n <= opened[b]
         /\ readyState[<<b, n>>] = CLOSED => <<b, n>> \in broken

\* Each websocket after the first is owed to a fault of its own.
FaultInv ==
  \A b \in Browsers :
    opened[b] <= IF Websocket(b) \in broken THEN faults ELSE faults + 1

PagesInv == PageInv /\ FaultInv

LEMMA PagesInit == Init => TypeOK /\ PagesInv
<1> SUFFICES ASSUME Init PROVE TypeOK /\ PagesInv
  OBVIOUS
<1> USE BroadcasterAssumption DEF Init
<1>1. TypeOK
  <2>1. /\ queue \in [Connections -> Seq(1 .. MaxBroadcasts)]
        /\ handlerBox \in [Connections -> Seq(1 .. MaxBroadcasts)]
        /\ received \in [Connections -> Seq(1 .. MaxBroadcasts)]
    OBVIOUS
  <2>2. \A c \in Connections : Len(queue[c]) <= BufferSize
    OBVIOUS
  <2>3. timers \in [Browsers -> Seq(0 .. ReconnectInterval)]
    OBVIOUS
  <2>4. clients \subseteq Connections /\ broadcasterBox \in Seq(Message)
    OBVIOUS
  <2>5. /\ handler \in [Connections -> {"none", "new", "running", "stopped"}]
        /\ readyState \in [Connections -> {"none", CONNECTING, OPEN, CLOSED}]
    OBVIOUS
  <2>6. opened \in [Browsers -> 0 .. MaxFaults + 1]
    OBVIOUS
  <2> QED BY <2>1, <2>2, <2>3, <2>4, <2>5, <2>6 DEF TypeOK
<1>2. PagesInv
  <2>1. \A b \in Browsers, n \in 1 .. MaxFaults + 1 : readyState[<<b, n>>] = "none"
    BY DEF Connections
  <2>2. \A b \in Browsers : opened[b] = 0 /\ timers[b] = << >>
    OBVIOUS
  <2>3. PageInv
    BY <2>1, <2>2 DEF PageInv, CLOSED
  <2>4. FaultInv
    BY <2>2 DEF FaultInv
  <2> QED BY <2>3, <2>4 DEF PagesInv
<1> QED BY <1>1, <1>2

\* Websockets exist, and a page has opened only websockets that may exist.
LEMMA ConnectionFacts ==
  ASSUME TypeOK
  PROVE  /\ \A b \in Browsers, n \in 1 .. MaxFaults + 1 : <<b, n>> \in Connections
         /\ \A c \in Connections : /\ c[1] \in Browsers /\ c[2] \in 1 .. MaxFaults + 1
                                   /\ c = <<c[1], c[2]>>
         /\ \A b \in Browsers : opened[b] > 0 => /\ opened[b] \in 1 .. MaxFaults + 1
                                                 /\ Websocket(b) \in Connections
  BY BroadcasterAssumption DEF TypeOK, Connections, Websocket

\* A page opens its next websocket only when the last one is lost: there is
\* room for it.
LEMMA RoomForNext ==
  ASSUME TypeOK, PagesInv, NEW b \in Browsers,
         opened[b] = 0 \/ IsWebsocketClosed(b, readyState)
  PROVE  /\ opened[b] + 1 \in 1 .. MaxFaults + 1
         /\ opened[b] <= faults
<1> USE BroadcasterAssumption
<1>1. opened[b] \in 0 .. MaxFaults + 1 /\ faults \in 0 .. MaxFaults
  BY DEF TypeOK
<1>2. CASE opened[b] = 0
  BY <1>1, <1>2
<1>3. CASE opened[b] > 0
  <2>1. IsWebsocketClosed(b, readyState)
    BY <1>1, <1>3
  <2>2. Websocket(b) \in broken
    BY <1>1, <1>3, <2>1 DEF PagesInv, PageInv, IsWebsocketClosed, Websocket
  <2>3. opened[b] <= faults
    BY <2>2 DEF PagesInv, FaultInv
  <2> QED BY <1>1, <2>3
<1> QED BY <1>1, <1>2, <1>3

\* A live websocket is the last its page has opened.
LEMMA LiveIsLast ==
  ASSUME TypeOK, PagesInv, NEW c \in Connections, readyState[c] \in {CONNECTING, OPEN}
  PROVE  c[1] \in Browsers /\ c = Websocket(c[1]) /\ opened[c[1]] = c[2] /\ opened[c[1]] > 0
<1>1. /\ c[1] \in Browsers /\ c[2] \in 1 .. MaxFaults + 1 /\ c = <<c[1], c[2]>>
  BY ConnectionFacts
<1>2. opened[c[1]] \in 0 .. MaxFaults + 1
  BY <1>1 DEF TypeOK
<1>3. /\ c[2] < opened[c[1]] => readyState[<<c[1], c[2]>>] = CLOSED
      /\ c[2] > opened[c[1]] => readyState[<<c[1], c[2]>>] = "none"
  BY <1>1 DEF PagesInv, PageInv
<1>4. opened[c[1]] = c[2]
  BY <1>1, <1>2, <1>3, BroadcasterAssumption DEF CLOSED, CONNECTING, OPEN
<1> QED BY <1>1, <1>2, <1>4 DEF Websocket

LEMMA Stays ==
  ASSUME TypeOK, PagesInv, UNCHANGED <<pages, broken, faults>>
  PROVE  PagesInv'
  BY DEF PagesInv, PageInv, FaultInv, pages, IsWebsocketClosed, Websocket

\* A message to the broadcaster is what its type says.
LEMMA MessageFacts ==
  ASSUME TypeOK, NEW i \in 1 .. Len(broadcasterBox)
  PROVE  LET m == broadcasterBox[i] IN
         /\ m \in Message
         /\ m.type \in {"MsgRegisterClient", "MsgDeregisterClient"} =>
              m.client \in Connections /\ m = [type |-> m.type, client |-> m.client]
         /\ m.type = "MsgBroadcast" =>
              m.number \in 1 .. MaxBroadcasts /\ m = [type |-> m.type, number |-> m.number]
<1> DEFINE m == broadcasterBox[i]
<1>1. broadcasterBox \in Seq(Message)
  BY DEF TypeOK
<1>2. m \in Message
  BY <1>1, ElementType
<1> HIDE DEF m
<1>3. CASE m \in [type : {"MsgRegisterClient", "MsgDeregisterClient"}, client : Connections]
  BY <1>2, <1>3 DEF m
<1>4. CASE m \in [type : {"MsgBroadcast"}, number : 1 .. MaxBroadcasts]
  BY <1>2, <1>4 DEF m
<1> QED BY <1>2, <1>3, <1>4 DEF Message

-----------------------------------------------------------------------------
(* Opening a websocket.                                                    *)

LEMMA OpenFacts ==
  ASSUME TypeOK, PagesInv, NEW b \in Browsers, OpenWebsocket(b),
         opened[b] = 0 \/ IsWebsocketClosed(b, readyState),
         timers' \in [Browsers -> Seq(0 .. ReconnectInterval)],
         \A d \in Browsers : d # b => timers'[d] = timers[d],
         timers'[b] = << >>,
         UNCHANGED <<broken, faults>>
  PROVE  /\ opened' \in [Browsers -> 0 .. MaxFaults + 1]
         /\ readyState' \in [Connections -> {"none", CONNECTING, OPEN, CLOSED}]
         /\ PagesInv'
<1> DEFINE n == opened[b] + 1
           c == <<b, n>>
<1>1. n \in 1 .. MaxFaults + 1 /\ opened[b] <= faults
  BY RoomForNext
<1>2. c \in Connections
  BY <1>1, ConnectionFacts
<1>3. opened' = [opened EXCEPT ![b] = n] /\ readyState' = [readyState EXCEPT ![c] = CONNECTING]
  BY DEF OpenWebsocket
<1>4. opened[b] \in Nat /\ faults \in Nat /\ MaxFaults \in Nat
  BY BroadcasterAssumption DEF TypeOK
<1> HIDE DEF n, c
<1>5. /\ opened' \in [Browsers -> 0 .. MaxFaults + 1]
      /\ readyState' \in [Connections -> {"none", CONNECTING, OPEN, CLOSED}]
  BY <1>1, <1>2, <1>3, <1>4 DEF TypeOK
<1>6. c \notin broken
  <2>1. <<b, n>> \in broken => n <= opened[b]
    BY <1>1 DEF PagesInv, PageInv
  <2> QED BY <1>4, <2>1 DEF n, c
<1>7. /\ opened'[b] = n /\ readyState'[c] = CONNECTING
      /\ \A d \in Browsers : d # b => opened'[d] = opened[d]
      /\ \A d \in Browsers, k \in 1 .. MaxFaults + 1 : <<d, k>> # c =>
           readyState'[<<d, k>>] = readyState[<<d, k>>]
  BY <1>2, <1>3, ConnectionFacts DEF TypeOK
<1>8. PageInv'
  <2> SUFFICES ASSUME NEW d \in Browsers
               PROVE  PageInv!(d)'
    BY DEF PageInv
  <2>1. CASE d # b
    <3>1. /\ opened'[d] = opened[d] /\ timers'[d] = timers[d]
          /\ \A k \in 1 .. MaxFaults + 1 : readyState'[<<d, k>>] = readyState[<<d, k>>]
      BY <1>7, <2>1 DEF c
    <3>2. opened[d] > 0 => IsWebsocketClosed(d, readyState)' = IsWebsocketClosed(d, readyState)
      BY <3>1, ConnectionFacts DEF IsWebsocketClosed, Websocket
    <3> QED BY <3>1, <3>2 DEF PagesInv, PageInv
  <2>2. CASE d = b
    <3>1. ~IsWebsocketClosed(b, readyState)'
      BY <1>7 DEF IsWebsocketClosed, Websocket, c, CONNECTING, CLOSED
    <3>2. \A k \in 1 .. MaxFaults + 1 :
            /\ k < opened[b] + 1 => readyState[<<b, k>>] = CLOSED
            /\ k > opened[b] + 1 => readyState[<<b, k>>] = "none"
      <4> SUFFICES ASSUME NEW k \in 1 .. MaxFaults + 1
                   PROVE  /\ k < opened[b] + 1 => readyState[<<b, k>>] = CLOSED
                          /\ k > opened[b] + 1 => readyState[<<b, k>>] = "none"
        OBVIOUS
      <4>1. /\ k < opened[b] => readyState[<<b, k>>] = CLOSED
            /\ k > opened[b] => readyState[<<b, k>>] = "none"
        BY DEF PagesInv, PageInv
      <4>2. k = opened[b] => readyState[<<b, k>>] = CLOSED
        BY <1>4 DEF IsWebsocketClosed, Websocket
      <4> QED BY <1>4, <4>1, <4>2
    <3>3. \A k \in 1 .. MaxFaults + 1 : k # n =>
            /\ readyState'[<<b, k>>] = readyState[<<b, k>>]
            /\ <<b, k>> \in broken => k <= opened[b]
            /\ readyState[<<b, k>>] = CLOSED => <<b, k>> \in broken
      BY <1>7 DEF PagesInv, PageInv, c
    <3>4. \A k \in 1 .. MaxFaults + 1 :
           /\ k < n => readyState'[<<b, k>>] = CLOSED
           /\ k = n => readyState'[<<b, k>>] = CONNECTING /\ <<b, k>> \notin broken
           /\ k > n => readyState'[<<b, k>>] = "none"
           /\ <<b, k>> \in broken => k <= n
           /\ readyState'[<<b, k>>] = CLOSED => <<b, k>> \in broken
      <4> SUFFICES ASSUME NEW k \in 1 .. MaxFaults + 1
                   PROVE  /\ k < n => readyState'[<<b, k>>] = CLOSED
                          /\ k = n => readyState'[<<b, k>>] = CONNECTING /\ <<b, k>> \notin broken
                          /\ k > n => readyState'[<<b, k>>] = "none"
                          /\ <<b, k>> \in broken => k <= n
                          /\ readyState'[<<b, k>>] = CLOSED => <<b, k>> \in broken
        OBVIOUS
      <4>1. CASE k = n
        BY <1>1, <1>6, <1>7, <4>1 DEF c, CONNECTING, CLOSED
      <4>2. CASE k # n
        BY <1>4, <3>2, <3>3, <4>2 DEF n
      <4> QED BY <4>1, <4>2
    <3>5. Len(timers'[b]) = 0
      OBVIOUS
    <3>6. /\ opened'[b] = 0 => timers'[b] = << >>
          /\ opened'[b] > 0 =>
               Len(timers'[b]) = IF IsWebsocketClosed(b, readyState)' THEN 1 ELSE 0
      BY <3>1, <3>5
    <3>7. \A k \in 1 .. MaxFaults + 1 :
            /\ k < opened'[b] => readyState'[<<b, k>>] = CLOSED
            /\ k = opened'[b] => readyState'[<<b, k>>] # "none"
            /\ k > opened'[b] => readyState'[<<b, k>>] = "none"
            /\ <<b, k>> \in broken' => k <= opened'[b]
            /\ readyState'[<<b, k>>] = CLOSED => <<b, k>> \in broken'
      BY <1>7, <3>4 DEF CONNECTING
    <3> QED BY <2>2, <3>6, <3>7
  <2> QED BY <2>1, <2>2
<1>9. FaultInv'
  <2>1. \A d \in Browsers : d # b => Websocket(d)' = Websocket(d)
    BY <1>7 DEF Websocket
  <2>2. Websocket(b)' = c
    BY <1>7 DEF Websocket, c
  <2> QED BY <1>1, <1>4, <1>6, <1>7, <2>1, <2>2 DEF PagesInv, FaultInv, n
<1> QED BY <1>5, <1>8, <1>9 DEF PagesInv

\* A websocket changes its state without changing hands.
LEMMA StateChangeFacts ==
  ASSUME TypeOK, PagesInv, NEW c \in Connections,
         readyState[c] \in {CONNECTING, OPEN},
         NEW state \in {OPEN, CLOSED}, readyState' = [readyState EXCEPT ![c] = state],
         state = CLOSED => c \in broken,
         UNCHANGED <<opened, broken, faults>>,
         timers' \in [Browsers -> Seq(0 .. ReconnectInterval)],
         \A d \in Browsers : d # c[1] => timers'[d] = timers[d],
         Len(timers'[c[1]]) = IF state = CLOSED THEN 1 ELSE 0
  PROVE  /\ readyState' \in [Connections -> {"none", CONNECTING, OPEN, CLOSED}]
         /\ PagesInv'
<1> DEFINE b == c[1]
<1>1. b \in Browsers /\ c = <<b, opened[b]>> /\ opened[b] > 0
  BY LiveIsLast DEF Websocket
<1>2. readyState' \in [Connections -> {"none", CONNECTING, OPEN, CLOSED}]
  BY DEF TypeOK
<1> HIDE DEF b
<1>3. /\ readyState'[c] = state
      /\ \A d \in Browsers, k \in 1 .. MaxFaults + 1 : <<d, k>> # c =>
           readyState'[<<d, k>>] = readyState[<<d, k>>]
  BY ConnectionFacts DEF TypeOK
<1>4. opened[b] \in 1 .. MaxFaults + 1
  BY <1>1, ConnectionFacts
<1>5. PageInv'
  <2> SUFFICES ASSUME NEW d \in Browsers
               PROVE  PageInv!(d)'
    BY DEF PageInv
  <2>1. CASE d # b
    <3>1. /\ opened'[d] = opened[d] /\ timers'[d] = timers[d]
          /\ \A k \in 1 .. MaxFaults + 1 : readyState'[<<d, k>>] = readyState[<<d, k>>]
      BY <1>1, <1>3, <2>1 DEF b
    <3>2. opened[d] > 0 => IsWebsocketClosed(d, readyState)' = IsWebsocketClosed(d, readyState)
      BY <3>1, ConnectionFacts DEF IsWebsocketClosed, Websocket
    <3> QED BY <3>1, <3>2 DEF PagesInv, PageInv
  <2>2. CASE d = b
    <3>1. IsWebsocketClosed(b, readyState)' <=> state = CLOSED
      BY <1>1, <1>3 DEF IsWebsocketClosed, Websocket
    <3>2. /\ opened'[b] = 0 => timers'[b] = << >>
          /\ opened'[b] > 0 =>
               Len(timers'[b]) = IF IsWebsocketClosed(b, readyState)' THEN 1 ELSE 0
      BY <1>1, <1>4, <3>1 DEF b
    <3>3. \A k \in 1 .. MaxFaults + 1 :
            /\ k < opened'[b] => readyState'[<<b, k>>] = CLOSED
            /\ k = opened'[b] => readyState'[<<b, k>>] # "none"
            /\ k > opened'[b] => readyState'[<<b, k>>] = "none"
            /\ <<b, k>> \in broken' => k <= opened'[b]
            /\ readyState'[<<b, k>>] = CLOSED => <<b, k>> \in broken'
      <4> SUFFICES ASSUME NEW k \in 1 .. MaxFaults + 1
                   PROVE  /\ k < opened[b] => readyState'[<<b, k>>] = CLOSED
                          /\ k = opened[b] => readyState'[<<b, k>>] # "none"
                          /\ k > opened[b] => readyState'[<<b, k>>] = "none"
                          /\ <<b, k>> \in broken => k <= opened[b]
                          /\ readyState'[<<b, k>>] = CLOSED => <<b, k>> \in broken
        OBVIOUS
      <4>1. CASE k = opened[b]
        BY <1>1, <1>3, <1>4, <4>1 DEF OPEN, CLOSED
      <4>2. CASE k # opened[b]
        <5>1. readyState'[<<b, k>>] = readyState[<<b, k>>]
          BY <1>1, <1>3, <4>2
        <5> QED BY <1>1, <4>2, <5>1 DEF PagesInv, PageInv
      <4> QED BY <4>1, <4>2
    <3> QED BY <2>2, <3>2, <3>3
  <2> QED BY <2>1, <2>2
<1>6. FaultInv'
  BY DEF PagesInv, FaultInv, Websocket
<1> QED BY <1>2, <1>5, <1>6 DEF PagesInv

LEMMA LoadPages ==
  ASSUME TypeOK, PagesInv, NEW b \in Browsers, Load(b)
  PROVE  /\ opened' \in [Browsers -> 0 .. MaxFaults + 1]
         /\ readyState' \in [Connections -> {"none", CONNECTING, OPEN, CLOSED}]
         /\ timers' \in [Browsers -> Seq(0 .. ReconnectInterval)]
         /\ PagesInv'
<1>1. /\ opened[b] = 0 /\ OpenWebsocket(b)
      /\ UNCHANGED <<timers, broken, faults>>
  BY DEF Load
<1>2. timers' \in [Browsers -> Seq(0 .. ReconnectInterval)] /\ timers'[b] = << >>
  BY <1>1 DEF TypeOK, PagesInv, PageInv
<1> QED BY <1>1, <1>2, OpenFacts

LEMMA OnOpenPages ==
  ASSUME TypeOK, PagesInv, NEW b \in Browsers, OnOpen(b)
  PROVE  /\ opened' \in [Browsers -> 0 .. MaxFaults + 1]
         /\ readyState' \in [Connections -> {"none", CONNECTING, OPEN, CLOSED}]
         /\ timers' \in [Browsers -> Seq(0 .. ReconnectInterval)]
         /\ PagesInv'
<1> DEFINE c == Websocket(b)
<1>1. /\ opened[b] > 0 /\ readyState[c] = CONNECTING
      /\ readyState' = [readyState EXCEPT ![c] = OPEN]
      /\ UNCHANGED <<opened, timers, broken, faults>>
  BY DEF OnOpen
<1>2. c \in Connections /\ c[1] = b
  BY <1>1, ConnectionFacts DEF Websocket
<1>3. Len(timers[b]) = 0
  BY <1>1 DEF PagesInv, PageInv, IsWebsocketClosed, CONNECTING, CLOSED
<1>4. timers \in [Browsers -> Seq(0 .. ReconnectInterval)] /\ opened \in [Browsers -> 0 .. MaxFaults + 1]
  BY DEF TypeOK
<1>5. OPEN # CLOSED
  BY DEF OPEN, CLOSED
<1> HIDE DEF c
<1> QED BY <1>1, <1>2, <1>3, <1>4, <1>5, StateChangeFacts

LEMMA OnClosePages ==
  ASSUME TypeOK, PagesInv, NEW c \in Connections, OnClose(c)
  PROVE  /\ opened' \in [Browsers -> 0 .. MaxFaults + 1]
         /\ readyState' \in [Connections -> {"none", CONNECTING, OPEN, CLOSED}]
         /\ timers' \in [Browsers -> Seq(0 .. ReconnectInterval)]
         /\ PagesInv'
<1> DEFINE b == c[1]
<1>1. /\ c \in broken /\ readyState[c] \in {CONNECTING, OPEN}
      /\ readyState' = [readyState EXCEPT ![c] = CLOSED]
      /\ Reconnect(b, readyState')
      /\ UNCHANGED <<opened, broken, faults>>
  BY DEF OnClose
<1>2. b \in Browsers /\ c = Websocket(b) /\ opened[b] > 0
  BY <1>1, LiveIsLast
<1>3. IsWebsocketClosed(b, readyState')
  BY <1>1, <1>2 DEF IsWebsocketClosed, TypeOK
<1>4. timers' = [timers EXCEPT ![b] = Append(timers[b], ReconnectInterval)]
  BY <1>1, <1>3 DEF Reconnect
<1>5. Len(timers[b]) = 0
  BY <1>1, <1>2 DEF PagesInv, PageInv, IsWebsocketClosed, CONNECTING, OPEN, CLOSED
<1>6. timers \in [Browsers -> Seq(0 .. ReconnectInterval)] /\ opened \in [Browsers -> 0 .. MaxFaults + 1]
  BY DEF TypeOK
<1>7. ReconnectInterval \in 0 .. ReconnectInterval
  BY BroadcasterAssumption
<1>8. /\ Append(timers[b], ReconnectInterval) \in Seq(0 .. ReconnectInterval)
      /\ Len(Append(timers[b], ReconnectInterval)) = 1
  BY <1>2, <1>5, <1>6, <1>7, AppendFacts
<1>9. /\ timers' \in [Browsers -> Seq(0 .. ReconnectInterval)]
      /\ Len(timers'[b]) = 1
      /\ \A d \in Browsers : d # b => timers'[d] = timers[d]
  BY <1>2, <1>4, <1>6, <1>8
<1> QED BY <1>1, <1>6, <1>9, StateChangeFacts

LEMMA OnTimerPages ==
  ASSUME TypeOK, PagesInv, NEW b \in Browsers, NEW i \in DOMAIN timers[b], OnTimer(b, i)
  PROVE  /\ opened' \in [Browsers -> 0 .. MaxFaults + 1]
         /\ readyState' \in [Connections -> {"none", CONNECTING, OPEN, CLOSED}]
         /\ timers' \in [Browsers -> Seq(0 .. ReconnectInterval)]
         /\ PagesInv'
<1>1. /\ timers \in [Browsers -> Seq(0 .. ReconnectInterval)]
      /\ timers[b] \in Seq(0 .. ReconnectInterval)
      /\ i \in 1 .. Len(timers[b]) /\ timers[b][i] \in 0 .. ReconnectInterval
      /\ opened \in [Browsers -> 0 .. MaxFaults + 1]
      /\ readyState \in [Connections -> {"none", CONNECTING, OPEN, CLOSED}]
  <2>1. /\ timers \in [Browsers -> Seq(0 .. ReconnectInterval)]
        /\ opened \in [Browsers -> 0 .. MaxFaults + 1]
        /\ readyState \in [Connections -> {"none", CONNECTING, OPEN, CLOSED}]
    BY DEF TypeOK
  <2>2. timers[b] \in Seq(0 .. ReconnectInterval)
    BY <2>1
  <2>3. i \in 1 .. Len(timers[b])
    BY <2>2
  <2>4. timers[b][i] \in 0 .. ReconnectInterval
    BY <2>2, <2>3, ElementType
  <2> QED BY <2>1, <2>2, <2>3, <2>4
<1>2. UNCHANGED <<broken, faults>>
  BY DEF OnTimer
<1>3. IsWebsocketClosed(b, readyState) /\ opened[b] > 0 /\ Len(timers[b]) = 1
  <2>1. Len(timers[b]) # 0
    BY <1>1
  <2>2. opened[b] # 0
    BY <1>1, <2>1 DEF PagesInv, PageInv
  <2>3. opened[b] > 0
    BY <1>1, <2>2
  <2> QED BY <2>1, <2>3 DEF PagesInv, PageInv
<1>4. CASE timers[b][i] <= 0
  <2>1. timers' = [timers EXCEPT ![b] = RemoveAt(timers[b], i)] /\ OpenWebsocket(b)
    BY <1>3, <1>4 DEF OnTimer, TimerEnds, ClearInterval
  <2>2. RemoveAt(timers[b], i) \in Seq(0 .. ReconnectInterval) /\ Len(RemoveAt(timers[b], i)) = 0
    <3>1. /\ RemoveAt(timers[b], i) \in Seq(0 .. ReconnectInterval)
          /\ Len(RemoveAt(timers[b], i)) = Len(timers[b]) - 1
      BY <1>1, RemoveFacts
    <3> QED BY <1>3, <3>1
  <2>3. RemoveAt(timers[b], i) = << >>
    BY <2>2, EmptySeq
  <2>4. /\ timers' \in [Browsers -> Seq(0 .. ReconnectInterval)]
        /\ \A d \in Browsers : d # b => timers'[d] = timers[d]
        /\ timers'[b] = << >>
    BY <1>1, <2>1, <2>2, <2>3
  <2> QED BY <1>2, <1>3, <2>1, <2>4, OpenFacts
<1>5. CASE ~(timers[b][i] <= 0)
  <2> DEFINE t == [timers[b] EXCEPT ![i] = timers[b][i] - 1]
  <2>1. timers' = [timers EXCEPT ![b] = t] /\ UNCHANGED <<opened, readyState>>
    BY <1>1, <1>3, <1>5 DEF OnTimer
  <2>2. timers[b][i] - 1 \in 0 .. ReconnectInterval
    BY <1>1, <1>5, BroadcasterAssumption
  <2>3. t \in Seq(0 .. ReconnectInterval) /\ Len(t) = Len(timers[b])
    BY <1>1, <2>2, ExceptSeq
  <2> HIDE DEF t
  <2>4. /\ timers' \in [Browsers -> Seq(0 .. ReconnectInterval)]
        /\ \A d \in Browsers : Len(timers'[d]) = Len(timers[d])
        /\ \A d \in Browsers : d # b => timers'[d] = timers[d]
    BY <1>1, <2>1, <2>3
  <2>5. PagesInv'
    <3>1. \A d \in Browsers : opened[d] = 0 => timers'[d] = << >>
      BY <1>3, <2>4 DEF PagesInv, PageInv
    <3>2. \A d \in Browsers : IsWebsocketClosed(d, readyState)' = IsWebsocketClosed(d, readyState)
      BY <2>1 DEF IsWebsocketClosed, Websocket
    <3>3. PageInv'
      BY <1>2, <2>1, <2>4, <3>1, <3>2 DEF PagesInv, PageInv
    <3>4. FaultInv'
      BY <1>2, <2>1 DEF PagesInv, FaultInv, Websocket
    <3> QED BY <3>3, <3>4 DEF PagesInv
  <2> QED BY <1>1, <2>1, <2>4, <2>5
<1> QED BY <1>4, <1>5

\* Breaking connections that are live costs a fault.
LEMMA BreakPages ==
  ASSUME TypeOK, PagesInv, UNCHANGED pages, faults' = faults + 1,
         NEW S \in SUBSET Connections, broken' = broken \cup S,
         \A c \in S : IsLive(c)
  PROVE  PagesInv'
<1>1. \A b \in Browsers : \A n \in 1 .. MaxFaults + 1 : <<b, n>> \in S => n = opened[b]
  <2> SUFFICES ASSUME NEW b \in Browsers, NEW n \in 1 .. MaxFaults + 1, <<b, n>> \in S
               PROVE  n = opened[b]
    OBVIOUS
  <2>1. <<b, n>> \in Connections /\ readyState[<<b, n>>] \in {CONNECTING, OPEN}
    BY DEF IsLive
  <2> QED BY <2>1, LiveIsLast
<1>2. PageInv'
  <2> SUFFICES ASSUME NEW d \in Browsers
               PROVE  PageInv!(d)'
    BY DEF PageInv
  <2>1. opened[d] \in 0 .. MaxFaults + 1
    BY DEF TypeOK
  <2>2. IsWebsocketClosed(d, readyState)' = IsWebsocketClosed(d, readyState)
    BY DEF pages, IsWebsocketClosed, Websocket
  <2>3. \A n \in 1 .. MaxFaults + 1 : <<d, n>> \in broken' =>
          <<d, n>> \in broken \/ n = opened[d]
    BY <1>1
  <2>4. UNCHANGED <<opened, readyState, timers>>
    BY DEF pages
  <2> QED BY <2>1, <2>2, <2>3, <2>4, BroadcasterAssumption DEF PagesInv, PageInv
<1>3. FaultInv'
  <2> SUFFICES ASSUME NEW b \in Browsers
               PROVE  opened'[b] <= IF Websocket(b)' \in broken' THEN faults' ELSE faults' + 1
    BY DEF FaultInv
  <2>1. opened'[b] = opened[b] /\ Websocket(b)' = Websocket(b)
    BY DEF pages, Websocket
  <2>2. opened[b] \in Nat /\ faults \in Nat
    BY BroadcasterAssumption DEF TypeOK
  <2>3. opened[b] <= faults + 1
    BY <2>2 DEF PagesInv, FaultInv
  <2> QED BY <2>1, <2>2, <2>3
<1> QED BY <1>2, <1>3 DEF PagesInv

-----------------------------------------------------------------------------
(* Types.                                                                  *)

PageTypes ==
  /\ opened \in [Browsers -> 0 .. MaxFaults + 1]
  /\ readyState \in [Connections -> {"none", CONNECTING, OPEN, CLOSED}]
  /\ timers \in [Browsers -> Seq(0 .. ReconnectInterval)]

ActorTypes ==
  /\ clients \subseteq Connections
  /\ broadcasterBox \in Seq(Message)
  /\ handler \in [Connections -> {"none", "new", "running", "stopped"}]
  /\ handlerBox \in [Connections -> Seq(1 .. MaxBroadcasts)]

NetTypes ==
  /\ queue \in [Connections -> Seq(1 .. MaxBroadcasts)]
  /\ \A c \in Connections : Len(queue[c]) <= BufferSize
  /\ broken \subseteq Connections
  /\ published \in 0 .. MaxBroadcasts
  /\ faults \in 0 .. MaxFaults
  /\ received \in [Connections -> Seq(1 .. MaxBroadcasts)]
  /\ skipped \subseteq Connections
  /\ handled \in 0 .. MaxBroadcasts

netVars == <<queue, broken, published, faults, received, skipped, handled>>

LEMMA TypeParts == TypeOK <=> PageTypes /\ ActorTypes /\ NetTypes
  BY DEF TypeOK, PageTypes, ActorTypes, NetTypes

LEMMA TypePartsNext == PageTypes' /\ ActorTypes' /\ NetTypes' => TypeOK'
  BY DEF TypeOK, PageTypes, ActorTypes, NetTypes

LEMMA TypePartsStay ==
  ASSUME TypeOK
  PROVE  /\ PageTypes /\ ActorTypes /\ NetTypes
         /\ UNCHANGED pages => PageTypes'
         /\ UNCHANGED actors => ActorTypes'
         /\ UNCHANGED netVars => NetTypes'
<1>1. PageTypes /\ ActorTypes /\ NetTypes
  BY TypeParts
<1>2. UNCHANGED pages => PageTypes'
  BY <1>1 DEF pages, PageTypes
<1>3. UNCHANGED actors => ActorTypes'
  BY <1>1 DEF actors, ActorTypes
<1>4. UNCHANGED netVars => NetTypes'
  BY <1>1 DEF netVars, NetTypes
<1> QED BY <1>1, <1>2, <1>3, <1>4

LEMMA TypeNextPage ==
  ASSUME TypeOK, PagesInv,
         \/ \E b \in Browsers : Load(b) \/ PageStep(b)
         \/ \E c \in Connections : OnClose(c)
  PROVE  TypeOK' /\ PagesInv'
<1>1. ASSUME NEW b \in Browsers, Load(b) PROVE TypeOK' /\ PagesInv'
  <2>1. UNCHANGED <<actors, netVars>>
    BY <1>1 DEF Load, netVars, history
  <2> QED BY <1>1, <2>1, LoadPages, TypePartsStay, TypePartsNext DEF PageTypes
<1>2. ASSUME NEW b \in Browsers, OnOpen(b) PROVE TypeOK' /\ PagesInv'
  <2>1. UNCHANGED <<actors, netVars>>
    BY <1>2 DEF OnOpen, netVars, history
  <2> QED BY <1>2, <2>1, OnOpenPages, TypePartsStay, TypePartsNext DEF PageTypes
<1>3. ASSUME NEW b \in Browsers, OnMessage(b) PROVE TypeOK' /\ PagesInv'
  <2> DEFINE c == Websocket(b)
  <2>1. /\ opened[b] > 0 /\ queue[c] # << >>
        /\ received' = [received EXCEPT ![c] = Append(received[c], Head(queue[c]))]
        /\ queue' = [queue EXCEPT ![c] = Tail(queue[c])]
        /\ UNCHANGED <<actors, pages, broken, published, faults, skipped, handled>>
    BY <1>3 DEF OnMessage
  <2>2. c \in Connections
    BY <2>1, ConnectionFacts
  <2> HIDE DEF c
  <2>3. /\ queue[c] \in Seq(1 .. MaxBroadcasts) /\ received[c] \in Seq(1 .. MaxBroadcasts)
        /\ Len(queue[c]) <= BufferSize
    BY <2>2 DEF TypeOK
  <2>4. /\ Tail(queue[c]) \in Seq(1 .. MaxBroadcasts) /\ Len(Tail(queue[c])) <= BufferSize
        /\ Append(received[c], Head(queue[c])) \in Seq(1 .. MaxBroadcasts)
    <3>1. /\ Head(queue[c]) \in 1 .. MaxBroadcasts /\ Tail(queue[c]) \in Seq(1 .. MaxBroadcasts)
          /\ Len(queue[c]) \in Nat /\ Len(Tail(queue[c])) = Len(queue[c]) - 1
      BY <2>1, <2>3, TailFacts
    <3>2. Append(received[c], Head(queue[c])) \in Seq(1 .. MaxBroadcasts)
      BY <2>3, <3>1, AppendFacts
    <3> QED BY <2>3, <3>1, <3>2, BroadcasterAssumption
  <2>5. NetTypes'
    BY <2>1, <2>2, <2>4, TypeParts DEF NetTypes
  <2>6. PagesInv'
    BY <2>1, Stays
  <2> QED BY <2>1, <2>5, <2>6, TypePartsStay, TypePartsNext
<1>4. ASSUME NEW b \in Browsers, NEW i \in DOMAIN timers[b], OnTimer(b, i)
      PROVE  TypeOK' /\ PagesInv'
  <2>1. UNCHANGED <<actors, netVars>>
    BY <1>4 DEF OnTimer, netVars, history
  <2> QED BY <1>4, <2>1, OnTimerPages, TypePartsStay, TypePartsNext DEF PageTypes
<1>5. ASSUME NEW c \in Connections, OnClose(c) PROVE TypeOK' /\ PagesInv'
  <2>1. UNCHANGED <<actors, netVars>>
    BY <1>5 DEF OnClose, netVars, history
  <2> QED BY <1>5, <2>1, OnClosePages, TypePartsStay, TypePartsNext DEF PageTypes
<1> QED BY <1>1, <1>2, <1>3, <1>4, <1>5 DEF PageStep

LEMMA TypeNextServer ==
  ASSUME TypeOK, PagesInv,
         \/ \E c \in Connections : HandlerStep(c) \/ Break(c)
         \/ BroadcasterStep \/ Publish \/ Restart
  PROVE  TypeOK' /\ PagesInv'
<1> USE BroadcasterAssumption
<1>0. PageTypes /\ ActorTypes /\ NetTypes
  BY TypeParts
<1>1. ASSUME NEW c \in Connections, Accept(c) PROVE TypeOK' /\ PagesInv'
  <2>1. UNCHANGED <<pages, netVars, broken, faults>> /\ UNCHANGED <<clients, broadcasterBox, handlerBox>>
    BY <1>1 DEF Accept, netVars, history
  <2>2. ActorTypes'
    BY <1>0, <1>1, <2>1 DEF Accept, ActorTypes
  <2> QED BY <2>1, <2>2, Stays, TypePartsStay, TypePartsNext
<1>2. ASSUME NEW c \in Connections, NEW type \in {"MsgRegisterClient", "MsgDeregisterClient"},
             Register(type, c)
      PROVE  broadcasterBox' \in Seq(Message)
  <2> DEFINE m == [type |-> type, client |-> c]
  <2>1. m \in Message
    BY DEF Message
  <2>2. broadcasterBox' = Append(broadcasterBox, m)
    BY <1>2 DEF Register
  <2> HIDE DEF m
  <2> QED BY <1>0, <2>1, <2>2, AppendFacts DEF ActorTypes
<1>3. ASSUME NEW c \in Connections, PreStart(c) PROVE TypeOK' /\ PagesInv'
  <2>1. UNCHANGED <<pages, netVars, broken, faults>> /\ UNCHANGED <<clients, handlerBox>>
    BY <1>3 DEF PreStart, netVars, history
  <2>2. broadcasterBox' \in Seq(Message)
    BY <1>2, <1>3 DEF PreStart
  <2>3. ActorTypes'
    BY <1>0, <1>3, <2>1, <2>2 DEF PreStart, ActorTypes
  <2> QED BY <2>1, <2>3, Stays, TypePartsStay, TypePartsNext
<1>4. ASSUME NEW c \in Connections, PostStop(c) PROVE TypeOK' /\ PagesInv'
  <2>1. /\ UNCHANGED <<pages, broken, faults>>
        /\ UNCHANGED <<clients, published, received, skipped, handled>>
        /\ handler' = [handler EXCEPT ![c] = "stopped"]
        /\ handlerBox' = [handlerBox EXCEPT ![c] = << >>]
        /\ queue' = [queue EXCEPT ![c] = << >>]
    BY <1>4 DEF PostStop, history
  <2>2. broadcasterBox' \in Seq(Message)
    BY <1>2, <1>4 DEF PostStop, SendDeregister
  <2>3. << >> \in Seq(1 .. MaxBroadcasts) /\ Len(<< >>) = 0
    OBVIOUS
  <2>4. ActorTypes'
    BY <1>0, <2>1, <2>2, <2>3 DEF ActorTypes
  <2>5. NetTypes'
    BY <1>0, <2>1, <2>3 DEF NetTypes
  <2> QED BY <2>1, <2>4, <2>5, Stays, TypePartsStay, TypePartsNext
<1>5. ASSUME NEW c \in Connections, HandlerSends(c) PROVE TypeOK' /\ PagesInv'
  <2>1. /\ handlerBox[c] # << >>
        /\ handlerBox' = [handlerBox EXCEPT ![c] = Tail(handlerBox[c])]
        /\ UNCHANGED <<clients, broadcasterBox, handler, pages, broken, published,
                       faults, received, handled>>
    BY <1>5 DEF HandlerSends
  <2>2. handlerBox[c] \in Seq(1 .. MaxBroadcasts) /\ queue[c] \in Seq(1 .. MaxBroadcasts)
    BY <1>0 DEF ActorTypes, NetTypes
  <2>3. Tail(handlerBox[c]) \in Seq(1 .. MaxBroadcasts) /\ Head(handlerBox[c]) \in 1 .. MaxBroadcasts
    BY <2>1, <2>2, TailFacts
  <2>4. ActorTypes'
    BY <1>0, <2>1, <2>3 DEF ActorTypes
  <2>5. NetTypes'
    <3>1. CASE HasRoom(c)
      <4> DEFINE q == Append(queue[c], Head(handlerBox[c]))
      <4>1. queue' = [queue EXCEPT ![c] = q] /\ UNCHANGED skipped
        BY <1>5, <3>1 DEF HandlerSends
      <4>2. q \in Seq(1 .. MaxBroadcasts) /\ Len(q) = Len(queue[c]) + 1
        BY <2>2, <2>3, AppendFacts
      <4>3. Len(q) <= BufferSize
        <5>1. Len(queue[c]) \in Nat
          BY <2>2
        <5> HIDE DEF q
        <5> QED BY <3>1, <4>2, <5>1 DEF HasRoom
      <4> HIDE DEF q
      <4> QED BY <1>0, <2>1, <4>1, <4>2, <4>3 DEF NetTypes
    <3>2. CASE ~HasRoom(c)
      <4>1. skipped' = skipped \cup {c} /\ UNCHANGED queue
        BY <1>5, <3>2 DEF HandlerSends
      <4> QED BY <1>0, <2>1, <4>1 DEF NetTypes
    <3> QED BY <3>1, <3>2
  <2> QED BY <2>1, <2>4, <2>5, Stays, TypePartsStay, TypePartsNext
<1>6. ASSUME NEW c \in Connections, Break(c) PROVE TypeOK' /\ PagesInv'
  <2>1. /\ faults < MaxFaults /\ faults' = faults + 1 /\ broken' = broken \cup {c} /\ IsLive(c)
        /\ UNCHANGED <<actors, queue, pages, published, received, skipped, handled>>
    BY <1>6 DEF Break, history
  <2>2. NetTypes'
    BY <1>0, <2>1 DEF NetTypes
  <2>3. PagesInv'
    <3> DEFINE S == {c}
    <3>1. S \in SUBSET Connections /\ broken' = broken \cup S /\ \A k \in S : IsLive(k)
      BY <2>1
    <3> HIDE DEF S
    <3>2. UNCHANGED pages /\ faults' = faults + 1
      BY <2>1
    <3> QED BY <3>1, <3>2, BreakPages
  <2> QED BY <2>1, <2>2, <2>3, TypePartsStay, TypePartsNext
<1>7. ASSUME NEW type, Receive(type)
      PROVE  /\ broadcasterBox' \in Seq(Message) /\ Head(broadcasterBox) = broadcasterBox[1]
             /\ 1 \in 1 .. Len(broadcasterBox) /\ Head(broadcasterBox).type = type
             /\ UNCHANGED <<handler, queue, pages, broken, published, faults, received, skipped>>
  BY <1>0, <1>7, TailFacts DEF Receive, ActorTypes
<1>8. CASE OnMsgRegisterClient \/ OnMsgDeregisterClient
  <2>1. Receive("MsgRegisterClient") \/ Receive("MsgDeregisterClient")
    BY <1>8 DEF OnMsgRegisterClient, OnMsgDeregisterClient
  <2>2. /\ broadcasterBox' \in Seq(Message)
        /\ UNCHANGED <<handler, queue, pages, broken, published, faults, received, skipped>>
    BY <1>7, <2>1
  <2>3. Head(broadcasterBox).client \in Connections
    <3> DEFINE m == Head(broadcasterBox)
    <3>1. /\ m = broadcasterBox[1] /\ 1 \in 1 .. Len(broadcasterBox)
          /\ m.type \in {"MsgRegisterClient", "MsgDeregisterClient"}
      BY <1>7, <2>1
    <3> HIDE DEF m
    <3>2. m.client \in Connections
      BY <3>1, MessageFacts
    <3> QED BY <3>2 DEF m
  <2>4. UNCHANGED <<handlerBox, handled>>
    BY <1>8 DEF OnMsgRegisterClient, OnMsgDeregisterClient
  <2>5. clients' \subseteq Connections
    BY <1>0, <1>8, <2>3 DEF OnMsgRegisterClient, OnMsgDeregisterClient, ActorTypes
  <2>6. ActorTypes'
    BY <1>0, <2>2, <2>4, <2>5 DEF ActorTypes
  <2>7. UNCHANGED netVars
    BY <2>2, <2>4 DEF netVars
  <2> QED BY <2>2, <2>6, <2>7, Stays, TypePartsStay, TypePartsNext
<1>9. CASE OnMsgBroadcast
  <2> DEFINE n == Head(broadcasterBox).number
  <2>1. /\ broadcasterBox' \in Seq(Message)
        /\ UNCHANGED <<handler, queue, pages, broken, published, faults, received, skipped, clients>>
        /\ n \in 1 .. MaxBroadcasts
    <3> DEFINE m == Head(broadcasterBox)
    <3>1. Receive("MsgBroadcast") /\ UNCHANGED clients
      BY <1>9 DEF OnMsgBroadcast
    <3>2. /\ m = broadcasterBox[1] /\ 1 \in 1 .. Len(broadcasterBox) /\ m.type = "MsgBroadcast"
          /\ broadcasterBox' \in Seq(Message)
          /\ UNCHANGED <<handler, queue, pages, broken, published, faults, received, skipped>>
      BY <1>7, <3>1
    <3> HIDE DEF m
    <3>3. m.number \in 1 .. MaxBroadcasts
      BY <3>2, MessageFacts
    <3> QED BY <3>1, <3>2, <3>3 DEF m
  <2>2. /\ handled' = n
        /\ handlerBox' = [c \in Connections |->
             IF c \in Recipients THEN Append(handlerBox[c], n) ELSE handlerBox[c]]
    BY <1>9 DEF OnMsgBroadcast
  <2> HIDE DEF n
  <2>3. \A c \in Connections : /\ handlerBox[c] \in Seq(1 .. MaxBroadcasts)
                               /\ Append(handlerBox[c], n) \in Seq(1 .. MaxBroadcasts)
    BY <1>0, <2>1, AppendFacts DEF ActorTypes
  <2>4. handlerBox' \in [Connections -> Seq(1 .. MaxBroadcasts)]
    BY <2>2, <2>3
  <2>5. ActorTypes'
    BY <1>0, <2>1, <2>4 DEF ActorTypes
  <2>6. NetTypes'
    BY <1>0, <2>1, <2>2 DEF NetTypes
  <2> QED BY <2>1, <2>5, <2>6, Stays, TypePartsStay, TypePartsNext
<1>10. CASE Publish
  <2> DEFINE m == [type |-> "MsgBroadcast", number |-> published + 1]
  <2>1. /\ published < MaxBroadcasts /\ published' = published + 1
        /\ broadcasterBox' = Append(broadcasterBox, m)
        /\ UNCHANGED <<clients, handler, handlerBox, queue, pages, broken, faults>>
        /\ UNCHANGED <<received, skipped, handled>>
    BY <1>10 DEF Publish, history
  <2>2. m \in Message /\ published' \in 0 .. MaxBroadcasts
    BY <1>0, <2>1 DEF Message, NetTypes
  <2> HIDE DEF m
  <2>3. ActorTypes'
    BY <1>0, <2>1, <2>2, AppendFacts DEF ActorTypes
  <2>4. NetTypes'
    BY <1>0, <2>1, <2>2 DEF NetTypes
  <2> QED BY <2>1, <2>3, <2>4, Stays, TypePartsStay, TypePartsNext
<1>11. CASE Restart
  <2> DEFINE S == {c \in Connections : IsLive(c)}
  <2>1. /\ faults < MaxFaults /\ faults' = faults + 1 /\ broken' = broken \cup S
        /\ clients' = {} /\ broadcasterBox' = << >>
        /\ handler' = [c \in Connections |-> IF handler[c] = "none" THEN "none" ELSE "stopped"]
        /\ handlerBox' = [c \in Connections |-> << >>]
        /\ UNCHANGED <<queue, pages, published, received, skipped, handled>>
    BY <1>11 DEF Restart, history
  <2>2. S \in SUBSET Connections /\ \A c \in S : IsLive(c)
    OBVIOUS
  <2> HIDE DEF S
  <2>3. ActorTypes'
    BY <2>1 DEF ActorTypes
  <2>4. NetTypes'
    BY <1>0, <2>1, <2>2 DEF NetTypes
  <2>5. PagesInv'
    <3>1. UNCHANGED pages /\ faults' = faults + 1 /\ broken' = broken \cup S
      BY <2>1
    <3> QED BY <2>2, <3>1, BreakPages
  <2> QED BY <2>1, <2>3, <2>4, <2>5, TypePartsStay, TypePartsNext
<1> QED BY <1>1, <1>3, <1>4, <1>5, <1>6, <1>8, <1>9, <1>10, <1>11 DEF HandlerStep, BroadcasterStep

LEMMA TypeNext ==
  ASSUME TypeOK, PagesInv, [Next]_vars
  PROVE  TypeOK' /\ PagesInv'
<1>1. CASE UNCHANGED vars
  <2>1. UNCHANGED <<pages, actors, netVars, broken, faults>>
    BY <1>1 DEF vars, netVars, history
  <2> QED BY <2>1, Stays, TypePartsStay, TypePartsNext
<1>2. CASE Next
  BY <1>2, TypeNextPage, TypeNextServer DEF Next
<1> QED BY <1>1, <1>2

\* The state of the push half is well typed. That a page needs no more than
\* MaxFaults + 1 websockets is part of it: each one lost costs a fault.
THEOREM TypeCorrect == Spec => []TypeOK
<1>1. TypeOK /\ PagesInv /\ [Next]_vars => TypeOK' /\ PagesInv'
  BY TypeNext
<1> QED BY <1>1, PagesInit, PTL DEF Spec

\* A page that has lost its websocket runs one countdown and a page that has
\* one runs none; its older websockets are closed.
THEOREM OneWay == Spec => []OneWayBack
<1>1. TypeOK /\ PagesInv /\ [Next]_vars => TypeOK' /\ PagesInv'
  BY TypeNext
<1>2. TypeOK /\ PagesInv => OneWayBack
  <2> SUFFICES ASSUME TypeOK, PagesInv, NEW b \in Browsers, opened[b] > 0
               PROVE  /\ Len(timers[b]) = IF IsWebsocketClosed(b, readyState) THEN 1 ELSE 0
                      /\ \A n \in 1 .. opened[b] - 1 : readyState[<<b, n>>] = CLOSED
    BY DEF OneWayBack
  <2>1. opened[b] \in 1 .. MaxFaults + 1 /\ MaxFaults \in Nat
    BY ConnectionFacts, BroadcasterAssumption
  <2>2. \A n \in 1 .. opened[b] - 1 : n \in 1 .. MaxFaults + 1 /\ n < opened[b]
    BY <2>1
  <2> QED BY <2>2 DEF PagesInv, PageInv
<1> QED BY <1>1, <1>2, PagesInit, PTL DEF Spec

-----------------------------------------------------------------------------
(* Nobody is forgotten.                                                    *)

\* The message at place i is of that type and about connection c.
IsAbout(i, type, c) ==
  i \in 1 .. Len(broadcasterBox) /\ broadcasterBox[i] = [type |-> type, client |-> c]

\* What the mailbox says of each connection.
RegisterInv ==
  \A c \in Connections :
    /\ \A i : handler[c] # "stopped" => ~IsAbout(i, "MsgDeregisterClient", c)
    /\ \A i : handler[c] \in {"none", "new"} => ~IsAbout(i, "MsgRegisterClient", c)
    /\ handler[c] \in {"none", "new"} => c \notin clients
    /\ \A i, j : IsAbout(i, "MsgRegisterClient", c) /\ IsAbout(j, "MsgDeregisterClient", c) =>
         i < j
    /\ handler[c] = "running" /\ c \notin clients =>
         \E i : IsAbout(i, "MsgRegisterClient", c)
    /\ handler[c] = "stopped" /\ (c \in clients \/ \E i : IsAbout(i, "MsgRegisterClient", c)) =>
         \E i : IsAbout(i, "MsgDeregisterClient", c)

LEMMA RegisterInit == Init => RegisterInv
  BY DEF Init, RegisterInv, IsAbout

\* A new message leaves the others where they are.
LEMMA AboutAppend ==
  ASSUME TypeOK, NEW m \in Message, broadcasterBox' = Append(broadcasterBox, m)
  PROVE  \A i, type, c : IsAbout(i, type, c)' <=>
           \/ IsAbout(i, type, c)
           \/ i = Len(broadcasterBox) + 1 /\ m = [type |-> type, client |-> c]
<1>1. broadcasterBox \in Seq(Message) /\ Len(broadcasterBox) \in Nat
  BY DEF TypeOK
<1>2. /\ Len(broadcasterBox') = Len(broadcasterBox) + 1
      /\ \A i \in 1 .. Len(broadcasterBox) : broadcasterBox'[i] = broadcasterBox[i]
      /\ broadcasterBox'[Len(broadcasterBox) + 1] = m
  BY <1>1, AppendFacts
<1> QED BY <1>1, <1>2 DEF IsAbout

\* The others move up when the broadcaster takes a message.
LEMMA AboutTail ==
  ASSUME TypeOK, broadcasterBox # << >>, broadcasterBox' = Tail(broadcasterBox)
  PROVE  /\ \A i, type, c : IsAbout(i, type, c)' => i \in Nat /\ IsAbout(i + 1, type, c)
         /\ \A i, type, c : IsAbout(i, type, c) =>
              \/ i = 1 /\ Head(broadcasterBox) = [type |-> type, client |-> c]
              \/ i - 1 \in Nat /\ IsAbout(i - 1, type, c)'
<1>1. /\ Head(broadcasterBox) = broadcasterBox[1]
      /\ Len(broadcasterBox) \in Nat \ {0}
      /\ Len(broadcasterBox') = Len(broadcasterBox) - 1
      /\ \A i \in 1 .. Len(broadcasterBox) - 1 : broadcasterBox'[i] = broadcasterBox[i + 1]
  <2>1. broadcasterBox \in Seq(Message)
    BY DEF TypeOK
  <2> QED BY <2>1, TailFacts
<1> QED BY <1>1 DEF IsAbout

LEMMA RegisterStays ==
  ASSUME RegisterInv, UNCHANGED <<clients, broadcasterBox, handler>>
  PROVE  RegisterInv'
<1>1. \A i, type, c : IsAbout(i, type, c)' <=> IsAbout(i, type, c)
  BY DEF IsAbout
<1> QED BY <1>1 DEF RegisterInv

LEMMA RegisterNext ==
  ASSUME TypeOK, RegisterInv, [Next]_vars
  PROVE  RegisterInv'
<1>1. ASSUME \/ \E b \in Browsers : Load(b) \/ PageStep(b)
             \/ \E c \in Connections : OnClose(c) \/ HandlerSends(c) \/ Break(c)
             \/ UNCHANGED vars
      PROVE  RegisterInv'
  <2>1. UNCHANGED <<clients, broadcasterBox, handler>>
    BY <1>1 DEF Load, PageStep, OnOpen, OnMessage, OnTimer, OnClose, HandlerSends, Break,
                vars, actors
  <2> QED BY <2>1, RegisterStays
<1>2. ASSUME NEW c \in Connections, Accept(c)
      PROVE  RegisterInv'
  <2>1. /\ handler[c] = "none" /\ handler' = [handler EXCEPT ![c] = "new"]
        /\ UNCHANGED <<clients, broadcasterBox>>
    BY <1>2 DEF Accept
  <2>2. \A i, type, d : IsAbout(i, type, d)' <=> IsAbout(i, type, d)
    BY <2>1 DEF IsAbout
  <2>3. \A d \in Connections : handler'[d] = IF d = c THEN "new" ELSE handler[d]
    BY <2>1 DEF TypeOK
  <2> QED BY <2>1, <2>2, <2>3 DEF RegisterInv
<1>3. ASSUME NEW c \in Connections, PreStart(c)
      PROVE  RegisterInv'
  <2> DEFINE m == [type |-> "MsgRegisterClient", client |-> c]
  <2>1. /\ handler[c] = "new" /\ handler' = [handler EXCEPT ![c] = "running"]
        /\ broadcasterBox' = Append(broadcasterBox, m)
        /\ UNCHANGED clients
    BY <1>3 DEF PreStart, Register
  <2>2. m \in Message
    BY DEF Message
  <2>3. /\ m = [type |-> "MsgRegisterClient", client |-> c]
        /\ \A type, d : m = [type |-> type, client |-> d] <=> type = "MsgRegisterClient" /\ d = c
    OBVIOUS
  <2> HIDE DEF m
  <2>4. \A i, type, d : IsAbout(i, type, d)' <=>
           \/ IsAbout(i, type, d)
           \/ i = Len(broadcasterBox) + 1 /\ type = "MsgRegisterClient" /\ d = c
    BY <2>1, <2>2, <2>3, AboutAppend
  <2>5. \A d \in Connections : handler'[d] = IF d = c THEN "running" ELSE handler[d]
    BY <2>1 DEF TypeOK
  <2> QED BY <2>1, <2>4, <2>5 DEF RegisterInv
<1>4. ASSUME NEW c \in Connections, PostStop(c)
      PROVE  RegisterInv'
  <2> DEFINE m == [type |-> "MsgDeregisterClient", client |-> c]
             n == Len(broadcasterBox) + 1
  <2>1. /\ handler[c] = "running" /\ handler' = [handler EXCEPT ![c] = "stopped"]
        /\ broadcasterBox' = Append(broadcasterBox, m)
        /\ UNCHANGED clients
    BY <1>4 DEF PostStop, SendDeregister, Register
  <2>2. m \in Message
    BY DEF Message
  <2>3. \A type, d : m = [type |-> type, client |-> d] <=> type = "MsgDeregisterClient" /\ d = c
    OBVIOUS
  <2> HIDE DEF m
  <2>4. \A i, type, d : IsAbout(i, type, d)' <=>
           \/ IsAbout(i, type, d)
           \/ i = n /\ type = "MsgDeregisterClient" /\ d = c
    BY <2>1, <2>2, <2>3, AboutAppend
  <2>5. \A d \in Connections : handler'[d] = IF d = c THEN "stopped" ELSE handler[d]
    BY <2>1 DEF TypeOK
  <2>6. \A i, type, d : IsAbout(i, type, d) => i < n
    BY DEF IsAbout, TypeOK
  <2> HIDE DEF n
  <2> SUFFICES ASSUME NEW d \in Connections PROVE RegisterInv!(d)'
    BY DEF RegisterInv
  <2>7. CASE d = c
    <3>1. /\ \A i : ~IsAbout(i, "MsgDeregisterClient", c)
          /\ handler'[d] = "stopped"
      BY <2>1, <2>5, <2>7 DEF RegisterInv
    <3>2. \A i : IsAbout(i, "MsgRegisterClient", d)' <=> IsAbout(i, "MsgRegisterClient", d)
      BY <2>4
    <3>3. \A i : IsAbout(i, "MsgDeregisterClient", d)' <=> i = n
      BY <2>4, <2>7, <3>1
    <3> QED BY <2>6, <3>1, <3>2, <3>3
  <2>8. CASE d # c
    <3>1. /\ \A i, type : IsAbout(i, type, d)' <=> IsAbout(i, type, d)
          /\ handler'[d] = handler[d] /\ clients' = clients
      BY <2>1, <2>4, <2>5, <2>8
    <3> QED BY <3>1 DEF RegisterInv
  <2> QED BY <2>7, <2>8
<1>5. CASE Publish
  <2> DEFINE m == [type |-> "MsgBroadcast", number |-> published + 1]
  <2>1. /\ broadcasterBox' = Append(broadcasterBox, m) /\ published < MaxBroadcasts
        /\ UNCHANGED <<clients, handler>>
    BY <1>5 DEF Publish
  <2>2. m \in Message
    BY <2>1, BroadcasterAssumption DEF Message, TypeOK
  <2>3. m.type = "MsgBroadcast"
    OBVIOUS
  <2>4. \A type, d : m = [type |-> type, client |-> d] => type = "MsgBroadcast"
    BY <2>3
  <2> HIDE DEF m
  <2>5. \A type \in {"MsgRegisterClient", "MsgDeregisterClient"} : \A i, d :
          IsAbout(i, type, d)' <=> IsAbout(i, type, d)
    BY <2>1, <2>2, <2>4, AboutAppend
  <2> QED BY <2>1, <2>5 DEF RegisterInv
<1>6. CASE OnMsgRegisterClient
  <2> DEFINE m == Head(broadcasterBox)
             c == m.client
  <2>1. /\ broadcasterBox # << >> /\ broadcasterBox' = Tail(broadcasterBox)
        /\ m.type = "MsgRegisterClient" /\ clients' = clients \cup {c}
        /\ UNCHANGED handler
    BY <1>6 DEF OnMsgRegisterClient, Receive
  <2>2. IsAbout(1, "MsgRegisterClient", c) /\ c \in Connections
    <3>1. m = broadcasterBox[1] /\ 1 \in 1 .. Len(broadcasterBox)
      BY <2>1, TailFacts DEF TypeOK
    <3>2. m.client \in Connections /\ m = [type |-> "MsgRegisterClient", client |-> m.client]
      BY <2>1, <3>1, MessageFacts
    <3> QED BY <3>1, <3>2 DEF IsAbout
  <2>3. \A type, d : m = [type |-> type, client |-> d] => type = "MsgRegisterClient" /\ d = c
    BY <2>1
  <2> HIDE DEF m, c
  <2>4. \A i, type, d : IsAbout(i, type, d)' => i \in Nat /\ IsAbout(i + 1, type, d)
    BY <2>1, AboutTail
  <2>5. \A i, type, d : IsAbout(i, type, d) =>
          \/ i = 1 /\ type = "MsgRegisterClient" /\ d = c
          \/ i - 1 \in Nat /\ IsAbout(i - 1, type, d)'
    BY <2>1, <2>3, AboutTail DEF m
  <2>6. \A d : (\E i : IsAbout(i, "MsgDeregisterClient", d)) =>
               \E i : IsAbout(i, "MsgDeregisterClient", d)'
    BY <2>5
  <2>7. \A d : d # c /\ (\E i : IsAbout(i, "MsgRegisterClient", d)) =>
               \E i : IsAbout(i, "MsgRegisterClient", d)'
    BY <2>5
  <2>8. handler[c] \notin {"none", "new"}
    BY <2>2 DEF RegisterInv
  <2>9. \A d \in Connections : \A i, j :
          IsAbout(i, "MsgRegisterClient", d)' /\ IsAbout(j, "MsgDeregisterClient", d)' => i < j
    BY <2>4 DEF RegisterInv
  <2> QED BY <2>1, <2>2, <2>4, <2>6, <2>7, <2>8, <2>9 DEF RegisterInv
<1>7. CASE OnMsgDeregisterClient
  <2> DEFINE m == Head(broadcasterBox)
  <2>0. PICK c : c = m.client
    OBVIOUS
  <2>1. /\ broadcasterBox # << >> /\ broadcasterBox' = Tail(broadcasterBox)
        /\ m.type = "MsgDeregisterClient" /\ clients' = clients \ {c}
        /\ UNCHANGED handler
    BY <1>7, <2>0 DEF OnMsgDeregisterClient, Receive
  <2>2. IsAbout(1, "MsgDeregisterClient", c) /\ c \in Connections
    <3>1. m = broadcasterBox[1] /\ 1 \in 1 .. Len(broadcasterBox)
      BY <2>1, TailFacts DEF TypeOK
    <3>2. m.client \in Connections /\ m = [type |-> "MsgDeregisterClient", client |-> m.client]
      BY <2>1, <3>1, MessageFacts
    <3> QED BY <2>0, <3>1, <3>2 DEF IsAbout
  <2>3. \A type, d : m = [type |-> type, client |-> d] => type = "MsgDeregisterClient" /\ d = c
    BY <2>0, <2>1
  <2> HIDE DEF m
  <2>4. \A i, type, d : IsAbout(i, type, d)' => i \in Nat /\ IsAbout(i + 1, type, d)
    BY <2>1, AboutTail
  <2>5. \A i, type, d : IsAbout(i, type, d) =>
          \/ i = 1 /\ type = "MsgDeregisterClient" /\ d = c
          \/ i - 1 \in Nat /\ IsAbout(i - 1, type, d)'
    BY <2>1, <2>3, AboutTail DEF m
  <2>6. \A d : (\E i : IsAbout(i, "MsgRegisterClient", d)) =>
               \E i : IsAbout(i, "MsgRegisterClient", d)'
    BY <2>5
  <2>7. \A d : d # c /\ (\E i : IsAbout(i, "MsgDeregisterClient", d)) =>
               \E i : IsAbout(i, "MsgDeregisterClient", d)'
    BY <2>5
  <2>8. handler[c] = "stopped"
    BY <2>2 DEF RegisterInv
  <2>9. \A i : ~IsAbout(i, "MsgRegisterClient", c)'
    <3> SUFFICES ASSUME NEW i, IsAbout(i, "MsgRegisterClient", c)' PROVE FALSE
      OBVIOUS
    <3>1. i \in Nat /\ IsAbout(i + 1, "MsgRegisterClient", c)
      BY <2>4
    <3>2. i + 1 < 1
      BY <2>2, <3>1 DEF RegisterInv
    <3> QED BY <3>1, <3>2
  <2>10. \A d \in Connections : \A i, j :
          IsAbout(i, "MsgRegisterClient", d)' /\ IsAbout(j, "MsgDeregisterClient", d)' => i < j
    BY <2>4 DEF RegisterInv
  <2>11. \A i, d : handler[d] # "stopped" => ~IsAbout(i, "MsgDeregisterClient", d)' \/ d \notin Connections
    BY <2>4 DEF RegisterInv
  <2> SUFFICES ASSUME NEW d \in Connections PROVE RegisterInv!(d)'
    BY DEF RegisterInv
  <2>12. CASE d = c
    BY <2>1, <2>8, <2>9, <2>12
  <2>13. CASE d # c
    BY <2>1, <2>4, <2>6, <2>7, <2>10, <2>11, <2>13 DEF RegisterInv
  <2> QED BY <2>12, <2>13
<1>8. CASE OnMsgBroadcast
  <2> DEFINE m == Head(broadcasterBox)
  <2>1. /\ broadcasterBox # << >> /\ broadcasterBox' = Tail(broadcasterBox)
        /\ m.type = "MsgBroadcast" /\ UNCHANGED <<clients, handler>>
    BY <1>8 DEF OnMsgBroadcast, Receive
  <2>2. \A type, d : m = [type |-> type, client |-> d] => type = "MsgBroadcast"
    BY <2>1
  <2> HIDE DEF m
  <2>3. \A i, type, d : IsAbout(i, type, d)' => i \in Nat /\ IsAbout(i + 1, type, d)
    BY <2>1, AboutTail
  <2>4. \A type \in {"MsgRegisterClient", "MsgDeregisterClient"} : \A i, d :
          IsAbout(i, type, d) => IsAbout(i - 1, type, d)'
    BY <2>1, <2>2, AboutTail DEF m
  <2>5. \A type \in {"MsgRegisterClient", "MsgDeregisterClient"} : \A d :
          (\E i : IsAbout(i, type, d)) <=> (\E i : IsAbout(i, type, d)')
    BY <2>3, <2>4
  <2>6. \A d \in Connections : \A i, j :
          IsAbout(i, "MsgRegisterClient", d)' /\ IsAbout(j, "MsgDeregisterClient", d)' => i < j
    BY <2>3 DEF RegisterInv
  <2> SUFFICES ASSUME NEW d \in Connections PROVE RegisterInv!(d)'
    BY DEF RegisterInv
  <2>7. /\ \A i : handler[d] # "stopped" => ~IsAbout(i, "MsgDeregisterClient", d)'
        /\ \A i : handler[d] \in {"none", "new"} => ~IsAbout(i, "MsgRegisterClient", d)'
    BY <2>3 DEF RegisterInv
  <2>8. /\ (\E i : IsAbout(i, "MsgRegisterClient", d)) <=> (\E i : IsAbout(i, "MsgRegisterClient", d)')
        /\ (\E i : IsAbout(i, "MsgDeregisterClient", d)) <=> (\E i : IsAbout(i, "MsgDeregisterClient", d)')
    BY <2>5
  <2> QED BY <2>1, <2>6, <2>7, <2>8 DEF RegisterInv
<1>9. CASE Restart
  <2>1. /\ clients' = {} /\ broadcasterBox' = << >>
        /\ handler' = [c \in Connections |-> IF handler[c] = "none" THEN "none" ELSE "stopped"]
    BY <1>9 DEF Restart
  <2>2. \A i, type, d : ~IsAbout(i, type, d)'
    BY <2>1 DEF IsAbout
  <2>3. \A d \in Connections : handler'[d] \in {"none", "stopped"}
    BY <2>1
  <2> QED BY <2>1, <2>2, <2>3 DEF RegisterInv
<1> QED BY <1>1, <1>2, <1>3, <1>4, <1>5, <1>6, <1>7, <1>8, <1>9 DEF Next, HandlerStep, BroadcasterStep

\* Whatever the order in which handlers start and stop, connections break and
\* the server restarts, the broadcaster knows the handlers that run or has the
\* message that will tell it.
THEOREM NobodyForgotten == Spec => []NobodyIsForgotten
<1>1. TypeOK /\ PagesInv /\ RegisterInv /\ [Next]_vars =>
        TypeOK' /\ PagesInv' /\ RegisterInv'
  BY TypeNext, RegisterNext
<1>2. TypeOK /\ RegisterInv => NobodyIsForgotten
  <2>1. \A type, c : InMail(type, c) <=> \E i : IsAbout(i, type, c)
    BY DEF InMail, Contains, IsAbout
  <2> QED BY <2>1 DEF RegisterInv, NobodyIsForgotten
<1> QED BY <1>1, <1>2, PagesInit, RegisterInit, PTL DEF Spec

-----------------------------------------------------------------------------
(* Sequences one after the other.                                          *)

\* A sequence that is not empty is its head before its tail.
LEMMA HeadThenTail ==
  ASSUME NEW S, NEW s \in Seq(S), s # << >>
  PROVE  /\ << Head(s) >> \in Seq(S) /\ Len(<< Head(s) >>) = 1 /\ << Head(s) >>[1] = Head(s)
         /\ Tail(s) \in Seq(S) /\ Head(s) \in S
         /\ s = << Head(s) >> \o Tail(s)
<1> DEFINE e == Head(s)
           z == Tail(s)
           t == << e >> \o z
<1>1. /\ e \in S /\ e = s[1] /\ Len(s) \in Nat \ {0}
      /\ z \in Seq(S) /\ Len(z) = Len(s) - 1
      /\ \A i \in 1 .. Len(s) - 1 : z[i] = s[i + 1]
  BY TailFacts
<1> HIDE DEF e, z
<1>2. << e >> \in Seq(S) /\ Len(<< e >>) = 1 /\ << e >>[1] = e
  BY <1>1
<1>3. /\ t \in Seq(S) /\ Len(t) = Len(<< e >>) + Len(z)
      /\ \A i \in 1 .. Len(<< e >>) + Len(z) :
           t[i] = IF i <= Len(<< e >>) THEN << e >>[i] ELSE z[i - Len(<< e >>)]
  BY <1>1, <1>2, ConcatProperties
<1> HIDE DEF t
<1>4. Len(t) = Len(s) /\ \A i \in 1 .. Len(s) : t[i] = IF i <= 1 THEN e ELSE z[i - 1]
  BY <1>1, <1>2, <1>3
<1>5. \A i \in 1 .. Len(s) : s[i] = t[i]
  <2> SUFFICES ASSUME NEW i \in 1 .. Len(s) PROVE s[i] = t[i]
    OBVIOUS
  <2>1. CASE i = 1
    BY <1>1, <1>4, <2>1
  <2>2. CASE i - 1 \in 1 .. Len(s) - 1
    BY <1>1, <1>4, <2>2
  <2> QED BY <1>1, <2>1, <2>2
<1>6. s = t
  BY <1>3, <1>4, <1>5, SeqEqual
<1> QED BY <1>1, <1>2, <1>6 DEF t, e, z

\* What comes first is a prefix.
LEMMA PrefixOfConcat ==
  ASSUME NEW S, NEW r \in Seq(S), NEW q \in Seq(S)
  PROVE  /\ r \o q \in Seq(S)
         /\ Len(r) \in Nat /\ Len(r) <= Len(r \o q)
         /\ \A i \in 1 .. Len(r) : (r \o q)[i] = r[i]
<1>1. Len(r) \in Nat /\ Len(q) \in Nat
  OBVIOUS
<1>2. /\ r \o q \in Seq(S) /\ Len(r \o q) = Len(r) + Len(q)
      /\ \A i \in 1 .. Len(r) + Len(q) :
           (r \o q)[i] = IF i <= Len(r) THEN r[i] ELSE q[i - Len(r)]
  BY ConcatProperties
<1> DEFINE p == r \o q
<1> HIDE DEF p
<1>3. \A i \in 1 .. Len(r) : p[i] = r[i]
  BY <1>1, <1>2 DEF p
<1>4. Len(r) <= Len(p)
  BY <1>1, <1>2 DEF p
<1> QED BY <1>1, <1>2, <1>3, <1>4 DEF p

\* The head of the second becomes the end of the first.
LEMMA MoveUp ==
  ASSUME NEW S, NEW r \in Seq(S), NEW q \in Seq(S), q # << >>
  PROVE  Append(r, Head(q)) \o Tail(q) = r \o q
<1> DEFINE e == Head(q)
           z == Tail(q)
<1>1. << e >> \in Seq(S) /\ z \in Seq(S) /\ e \in S /\ q = << e >> \o z
  BY HeadThenTail
<1> HIDE DEF e, z
<1>2. Append(r, e) = r \o << e >>
  BY <1>1, AppendIsConcat
<1>3. (r \o << e >>) \o z = r \o (<< e >> \o z)
  BY <1>1, ConcatAssociative
<1> QED BY <1>1, <1>2, <1>3 DEF e, z

\* The second loses its head.
LEMMA DropHead ==
  ASSUME NEW S, NEW r \in Seq(S), NEW h \in Seq(S), h # << >>
  PROVE  /\ Len(r \o Tail(h)) = Len(r \o h) - 1
         /\ Len(r \o h) \in Nat
         /\ Len(r) + 1 \in 1 .. Len(r \o h)
         /\ \A i \in 1 .. Len(r \o h) - 1 : (r \o Tail(h))[i] =
              IF i < Len(r) + 1 THEN (r \o h)[i] ELSE (r \o h)[i + 1]
<1> DEFINE z == Tail(h)
           s == r \o h
           t == r \o z
           k == Len(r) + 1
<1>1. Len(r) \in Nat /\ Len(h) \in Nat
  OBVIOUS
<1>2. /\ Len(h) # 0 /\ z \in Seq(S) /\ Len(z) = Len(h) - 1
      /\ \A i \in 1 .. Len(h) - 1 : z[i] = h[i + 1]
  BY TailFacts
<1> HIDE DEF z
<1>3. /\ Len(s) = Len(r) + Len(h)
      /\ \A i \in 1 .. Len(r) + Len(h) : s[i] = IF i <= Len(r) THEN r[i] ELSE h[i - Len(r)]
  BY ConcatProperties
<1>4. /\ Len(t) = Len(r) + Len(z)
      /\ \A i \in 1 .. Len(r) + Len(z) : t[i] = IF i <= Len(r) THEN r[i] ELSE z[i - Len(r)]
  BY <1>2, ConcatProperties
<1> HIDE DEF s, t
<1>5. Len(t) = Len(s) - 1 /\ Len(s) \in Nat /\ k \in 1 .. Len(s)
  BY <1>1, <1>2, <1>3, <1>4
<1>6. ASSUME NEW i \in 1 .. Len(s) - 1
      PROVE  t[i] = IF i < k THEN s[i] ELSE s[i + 1]
  <2>1. /\ i \in 1 .. Len(r) + Len(h) /\ i + 1 \in 1 .. Len(r) + Len(h)
        /\ i \in 1 .. Len(r) + Len(z)
    BY <1>1, <1>2, <1>3, <1>6
  <2>2. CASE i <= Len(r)
    <3>1. t[i] = r[i] /\ s[i] = r[i]
      BY <1>3, <1>4, <2>1, <2>2
    <3> QED BY <1>1, <2>1, <2>2, <3>1
  <2>3. CASE ~(i <= Len(r))
    <3>1. t[i] = z[i - Len(r)]
      BY <1>4, <2>1, <2>3
    <3>2. s[i + 1] = h[(i + 1) - Len(r)]
      <4>1. ~(i + 1 <= Len(r))
        BY <1>1, <2>1, <2>3
      <4> QED BY <1>3, <2>1, <4>1
    <3>3. i - Len(r) \in 1 .. Len(h) - 1 /\ (i - Len(r)) + 1 = (i + 1) - Len(r)
      BY <1>1, <1>2, <2>1, <2>3
    <3>4. t[i] = s[i + 1]
      BY <1>2, <3>1, <3>2, <3>3
    <3> QED BY <1>1, <2>1, <2>3, <3>4
  <2> QED BY <2>2, <2>3
<1> QED BY <1>5, <1>6 DEF s, t, z

-----------------------------------------------------------------------------
(* Streams.                                                                *)

LEMMA StreamTypes ==
  ASSUME TypeOK, NEW c \in Connections
  PROVE  /\ received[c] \in Seq(1 .. MaxBroadcasts)
         /\ queue[c] \in Seq(1 .. MaxBroadcasts)
         /\ handlerBox[c] \in Seq(1 .. MaxBroadcasts)
         /\ received[c] \o queue[c] \in Seq(1 .. MaxBroadcasts)
         /\ Stream(c) \in Seq(1 .. MaxBroadcasts)
         /\ Len(Stream(c)) \in Nat
         /\ \A i \in 1 .. Len(Stream(c)) : Stream(c)[i] \in 1 .. MaxBroadcasts
<1>1. /\ received[c] \in Seq(1 .. MaxBroadcasts)
      /\ queue[c] \in Seq(1 .. MaxBroadcasts)
      /\ handlerBox[c] \in Seq(1 .. MaxBroadcasts)
  BY DEF TypeOK
<1>2. received[c] \o queue[c] \in Seq(1 .. MaxBroadcasts)
  BY <1>1, ConcatProperties
<1>3. Stream(c) \in Seq(1 .. MaxBroadcasts)
  BY <1>1, <1>2, ConcatProperties DEF Stream
<1>4. Len(Stream(c)) \in Nat
  BY <1>3
<1>5. \A i \in 1 .. Len(Stream(c)) : Stream(c)[i] \in 1 .. MaxBroadcasts
  BY <1>3, ElementType
<1> QED BY <1>1, <1>2, <1>3, <1>4, <1>5

\* A page takes a message: it stays in the stream.
LEMMA OnMessageStream ==
  ASSUME TypeOK, NEW b \in Browsers, OnMessage(b), NEW d \in Connections
  PROVE  Stream(d)' = Stream(d)
<1> DEFINE c == <<b, opened[b]>>
<1>1. /\ opened[b] > 0 /\ queue[c] # << >> /\ UNCHANGED handlerBox
      /\ received' = [received EXCEPT ![c] = Append(received[c], Head(queue[c]))]
      /\ queue' = [queue EXCEPT ![c] = Tail(queue[c])]
  BY DEF OnMessage, Websocket, actors
<1>2. c \in Connections
  BY <1>1, ConnectionFacts DEF Websocket
<1> HIDE DEF c
<1>3. CASE d # c
  BY <1>1, <1>3 DEF TypeOK, Stream
<1>4. CASE d = c
  <2>1. /\ received'[c] = Append(received[c], Head(queue[c])) /\ queue'[c] = Tail(queue[c])
        /\ handlerBox'[c] = handlerBox[c]
    BY <1>1, <1>2 DEF TypeOK
  <2>2. received'[c] \o queue'[c] = received[c] \o queue[c]
    BY <1>1, <1>2, <2>1, StreamTypes, MoveUp
  <2>3. Stream(d)' = received'[c] \o queue'[c] \o handlerBox'[c]
    BY <1>4 DEF Stream
  <2> QED BY <1>4, <2>1, <2>2, <2>3 DEF Stream
<1> QED BY <1>3, <1>4

\* A handler sends a message: it stays in the stream.
LEMMA SendStream ==
  ASSUME TypeOK, NEW c \in Connections, HandlerSends(c), HasRoom(c), NEW d \in Connections
  PROVE  Stream(d)' = Stream(d)
<1> DEFINE e == Head(handlerBox[c])
           z == Tail(handlerBox[c])
<1>1. /\ handlerBox[c] # << >> /\ UNCHANGED received
      /\ handlerBox' = [handlerBox EXCEPT ![c] = z]
      /\ queue' = [queue EXCEPT ![c] = Append(queue[c], e)]
  BY DEF HandlerSends
<1>2. CASE d # c
  BY <1>1, <1>2 DEF TypeOK, Stream
<1>3. CASE d = c
  <2> DEFINE r == received[c]
             q == queue[c]
             h == handlerBox[c]
  <2>1. received'[c] = r /\ queue'[c] = Append(q, e) /\ handlerBox'[c] = z
    BY <1>1 DEF TypeOK
  <2>2. /\ r \in Seq(1 .. MaxBroadcasts) /\ q \in Seq(1 .. MaxBroadcasts)
        /\ h \in Seq(1 .. MaxBroadcasts) /\ h # << >>
    BY <1>1, StreamTypes
  <2>3. /\ << e >> \in Seq(1 .. MaxBroadcasts) /\ z \in Seq(1 .. MaxBroadcasts)
        /\ e \in 1 .. MaxBroadcasts /\ h = << e >> \o z
    BY <2>2, HeadThenTail
  <2> HIDE DEF r, q, h, e, z
  <2>4. r \o q \in Seq(1 .. MaxBroadcasts) /\ Append(q, e) = q \o << e >>
    BY <2>2, <2>3, ConcatProperties, AppendIsConcat
  <2>5. r \o (q \o << e >>) = (r \o q) \o << e >>
    BY <2>2, <2>3, ConcatAssociative
  <2>6. ((r \o q) \o << e >>) \o z = (r \o q) \o (<< e >> \o z)
    BY <2>3, <2>4, ConcatAssociative
  <2>7. (r \o Append(q, e)) \o z = (r \o q) \o h
    BY <2>3, <2>4, <2>5, <2>6
  <2>8. Stream(d)' = received'[c] \o queue'[c] \o handlerBox'[c]
    BY <1>3 DEF Stream
  <2> QED BY <1>3, <2>1, <2>7, <2>8 DEF Stream, r, q, h
<1> QED BY <1>2, <1>3

\* A handler stops: its stream is cut short; others stay.
LEMMA StopStream ==
  ASSUME TypeOK, NEW d \in Connections, UNCHANGED received,
         queue'[d] \in {<< >>, queue[d]}, handlerBox'[d] = << >>
  PROVE  /\ Len(Stream(d)') \in Nat /\ Len(Stream(d)') <= Len(Stream(d))
         /\ \A i \in 1 .. Len(Stream(d)') : Stream(d)'[i] = Stream(d)[i]
<1> DEFINE r == received[d]
           q == queue[d]
           h == handlerBox[d]
           p == r \o q
           s == p \o h
<1>1. /\ r \in Seq(1 .. MaxBroadcasts) /\ q \in Seq(1 .. MaxBroadcasts)
      /\ h \in Seq(1 .. MaxBroadcasts) /\ p \in Seq(1 .. MaxBroadcasts)
  BY StreamTypes
<1>2. s = Stream(d)
  BY DEF Stream
<1>3. /\ s \in Seq(1 .. MaxBroadcasts) /\ Len(p) \in Nat /\ Len(p) <= Len(s)
      /\ \A i \in 1 .. Len(p) : s[i] = p[i]
  <2> HIDE DEF p, h
  <2> QED BY <1>1, PrefixOfConcat
<1>4. /\ Len(r) \in Nat /\ Len(r) <= Len(p) /\ \A i \in 1 .. Len(r) : p[i] = r[i]
  BY <1>1, PrefixOfConcat
<1>5. Len(s) \in Nat
  BY <1>2, StreamTypes
<1>6. Stream(d)' = (r \o queue'[d]) \o << >>
  BY DEF Stream
<1>7. CASE queue'[d] = << >>
  <2>1. Stream(d)' = r
    BY <1>1, <1>6, <1>7, ConcatEmptySeq
  <2> HIDE DEF s, p, r, q, h
  <2>2. \A i \in 1 .. Len(r) : s[i] = r[i]
    BY <1>3, <1>4
  <2>3. Len(r) <= Len(s)
    BY <1>3, <1>4, <1>5
  <2> QED BY <1>2, <1>4, <2>1, <2>2, <2>3
<1>8. CASE queue'[d] = queue[d]
  <2>1. Stream(d)' = p
    BY <1>1, <1>6, <1>8, ConcatEmptySeq
  <2> HIDE DEF s, p
  <2> QED BY <1>2, <1>3, <2>1
<1> QED BY <1>7, <1>8

\* A broadcast: the streams of its recipients get one more.
LEMMA BroadcastStream ==
  ASSUME TypeOK, NEW d \in Connections, NEW n \in 1 .. MaxBroadcasts,
         UNCHANGED <<received, queue>>, handlerBox'[d] = Append(handlerBox[d], n)
  PROVE  Stream(d)' = Append(Stream(d), n)
<1> DEFINE p == received[d] \o queue[d]
           h == handlerBox[d]
<1>1. /\ p \in Seq(1 .. MaxBroadcasts) /\ h \in Seq(1 .. MaxBroadcasts)
      /\ << n >> \in Seq(1 .. MaxBroadcasts) /\ Stream(d) \in Seq(1 .. MaxBroadcasts)
  BY StreamTypes
<1>2. Stream(d) = p \o h /\ Stream(d)' = p \o Append(h, n)
  BY DEF Stream
<1> HIDE DEF p, h
<1>3. Append(h, n) = h \o << n >> /\ Append(Stream(d), n) = Stream(d) \o << n >>
  BY <1>1, AppendIsConcat
<1>4. p \o (h \o << n >>) = (p \o h) \o << n >>
  BY <1>1, ConcatAssociative
<1> QED BY <1>2, <1>3, <1>4

\* A full queue drops a message: the stream has one fewer.
LEMMA SkipStream ==
  ASSUME TypeOK, NEW d \in Connections, UNCHANGED <<received, queue>>,
         handlerBox[d] # << >>, handlerBox'[d] = Tail(handlerBox[d])
  PROVE  /\ Len(Stream(d)') = Len(Stream(d)) - 1
         /\ \E k \in 1 .. Len(Stream(d)) : \A i \in 1 .. Len(Stream(d)) - 1 :
              Stream(d)'[i] = IF i < k THEN Stream(d)[i] ELSE Stream(d)[i + 1]
<1> DEFINE p == received[d] \o queue[d]
           h == handlerBox[d]
<1>1. p \in Seq(1 .. MaxBroadcasts) /\ h \in Seq(1 .. MaxBroadcasts)
  BY StreamTypes
<1>2. Stream(d) = p \o h /\ Stream(d)' = p \o Tail(h)
  BY DEF Stream
<1>3. h # << >>
  OBVIOUS
<1> HIDE DEF p, h
<1>4. /\ Len(p \o Tail(h)) = Len(p \o h) - 1
      /\ Len(p) + 1 \in 1 .. Len(p \o h)
      /\ \A i \in 1 .. Len(p \o h) - 1 : (p \o Tail(h))[i] =
           IF i < Len(p) + 1 THEN (p \o h)[i] ELSE (p \o h)[i + 1]
  BY <1>1, <1>3, DropHead
<1> QED BY <1>2, <1>4

-----------------------------------------------------------------------------
(* Every websocket carries the same stream.                                *)

\* Stream s of connection c rises, by one if nothing was skipped; it has got to
\* the last broadcast handled, if the broadcaster sends c what it handles.
Rises(s, c) ==
  \A i \in 1 .. Len(s) - 1 : s[i] < s[i + 1] /\ (c \notin skipped => s[i + 1] = s[i] + 1)

Bounded(s) == \A i \in 1 .. Len(s) : s[i] <= handled

UpToDate(s, c) ==
  c \in Recipients /\ c \notin skipped /\ Len(s) > 0 => s[Len(s)] = handled

\* Whom the broadcaster does not know yet has been sent nothing.
Fits(s, c) ==
  /\ Rises(s, c)
  /\ Bounded(s)
  /\ UpToDate(s, c)
  /\ handler[c] # "stopped" /\ c \notin clients => Len(s) = 0

StreamsInv == \A c \in Connections : Fits(Stream(c), c)

IsNews(i) == i \in 1 .. Len(broadcasterBox) /\ broadcasterBox[i].type = "MsgBroadcast"

\* The broadcasts in the mailbox are those after lo, in their order.
Backlog(lo) ==
  /\ \A i : IsNews(i) => broadcasterBox[i].number \in lo + 1 .. published
  /\ \A n \in lo + 1 .. published : \E i : IsNews(i) /\ broadcasterBox[i].number = n
  /\ \A i, j : IsNews(i) /\ IsNews(j) /\ i < j =>
       broadcasterBox[i].number < broadcasterBox[j].number

\* There are broadcasts that are neither handled nor in the mailbox only after
\* a restart, and then no handler that runs has been sent any.
BacklogInv ==
  \E lo \in handled .. published :
    /\ Backlog(lo)
    /\ lo = handled \/ \A c \in Connections : handler[c] = "running" => Len(Stream(c)) = 0

NewsInv == StreamsInv /\ BacklogInv

LEMMA NewsInit == Init => NewsInv
<1> SUFFICES ASSUME Init PROVE NewsInv
  OBVIOUS
<1> USE BroadcasterAssumption
<1>1. \A c \in Connections : Stream(c) = << >> \o << >> \o << >>
  BY DEF Init, Stream
<1>2. << >> \o << >> \o << >> = << >>
  OBVIOUS
<1>3. \A c \in Connections : Stream(c) = << >> /\ Len(Stream(c)) = 0
  BY <1>1, <1>2
<1>4. StreamsInv
  BY <1>3 DEF StreamsInv, Fits, Rises, Bounded, UpToDate
<1>5. Backlog(0)
  BY DEF Init, Backlog, IsNews
<1>6. handled = 0 /\ published = 0
  BY DEF Init
<1>7. BacklogInv
  BY <1>5, <1>6 DEF BacklogInv
<1> QED BY <1>4, <1>7 DEF NewsInv

\* A stream that stays as it is keeps fitting, unless its handler is told of
\* broadcasts from now on and has been before.
LEMMA FitsStays ==
  ASSUME NEW c \in Connections, NEW s, Fits(s, c),
         UNCHANGED handled, c \in skipped' <=> c \in skipped,
         \/ handler'[c] = handler[c] /\ (c \in clients' <=> c \in clients)
         \/ handler'[c] = "stopped"
         \/ Len(s) = 0
  PROVE  Fits(s, c)'
<1>1. Rises(s, c)' /\ Bounded(s)'
  BY DEF Fits, Rises, Bounded
<1>2. CASE handler'[c] = handler[c] /\ (c \in clients' <=> c \in clients)
  BY <1>1, <1>2 DEF Fits, UpToDate, Recipients
<1>3. CASE handler'[c] = "stopped"
  BY <1>1, <1>3 DEF Fits, UpToDate, Recipients
<1>4. CASE Len(s) = 0
  BY <1>1, <1>4 DEF Fits, UpToDate
<1> QED BY <1>2, <1>3, <1>4

LEMMA FitsNext ==
  ASSUME \A c \in Connections : \E s : s = Stream(c)' /\ Fits(s, c)'
  PROVE  StreamsInv'
<1> SUFFICES ASSUME NEW c \in Connections PROVE Fits(Stream(c), c)'
  BY DEF StreamsInv
<1>1. PICK s : s = Stream(c)' /\ Fits(s, c)'
  OBVIOUS
<1> QED BY <1>1 DEF Fits, Rises, Bounded, UpToDate

\* A part of a stream from its beginning is in order.
LEMMA CutInOrder ==
  ASSUME NEW c \in Connections, NEW s \in Seq(1 .. MaxBroadcasts), NEW t \in Seq(1 .. MaxBroadcasts),
         Rises(s, c), Bounded(s), Len(t) <= Len(s), \A i \in 1 .. Len(t) : t[i] = s[i]
  PROVE  Rises(t, c) /\ Bounded(t)
<1>1. Len(s) \in Nat /\ Len(t) \in Nat
  OBVIOUS
<1>2. Bounded(t)
  BY <1>1 DEF Bounded
<1>3. ASSUME NEW i \in 1 .. Len(t) - 1
      PROVE  t[i] < t[i + 1] /\ (c \notin skipped => t[i + 1] = t[i] + 1)
  <2>1. i \in 1 .. Len(t) /\ i + 1 \in 1 .. Len(t) /\ i \in 1 .. Len(s) - 1
    BY <1>1
  <2> QED BY <2>1 DEF Rises
<1> QED BY <1>2, <1>3 DEF Rises

\* A stream without one of its messages still rises.
LEMMA SkipInOrder ==
  ASSUME NEW c \in Connections, NEW s \in Seq(1 .. MaxBroadcasts), NEW t \in Seq(1 .. MaxBroadcasts),
         \A i \in 1 .. Len(s) - 1 : s[i] < s[i + 1],
         Bounded(s), Len(t) = Len(s) - 1,
         NEW k \in 1 .. Len(s),
         \A i \in 1 .. Len(s) - 1 : t[i] = IF i < k THEN s[i] ELSE s[i + 1]
  PROVE  Bounded(t) /\ \A i \in 1 .. Len(t) - 1 : t[i] < t[i + 1]
<1>1. Len(s) \in Nat /\ Len(t) \in Nat
  OBVIOUS
<1>2. \A i \in 1 .. Len(s) : s[i] \in Nat
  <2>1. \A i \in 1 .. Len(s) : s[i] \in 1 .. MaxBroadcasts
    BY ElementType
  <2> QED BY <2>1
<1>3. \A i \in 1 .. Len(t) : i \in 1 .. Len(s) - 1 /\ i \in 1 .. Len(s) /\ i + 1 \in 1 .. Len(s)
  BY <1>1
<1>4. Bounded(t)
  BY <1>3 DEF Bounded
<1>5. ASSUME NEW i \in 1 .. Len(t) - 1
      PROVE  t[i] < t[i + 1]
  <2>1. i \in 1 .. Len(s) - 1 /\ i + 1 \in 1 .. Len(s) - 1
    BY <1>1
  <2>2. /\ t[i] = IF i < k THEN s[i] ELSE s[i + 1]
        /\ t[i + 1] = IF i + 1 < k THEN s[i + 1] ELSE s[i + 1 + 1]
    BY <2>1
  <2>3. s[i] < s[i + 1] /\ s[i + 1] < s[i + 1 + 1]
    BY <2>1
  <2>4. s[i] \in Nat /\ s[i + 1] \in Nat /\ s[i + 1 + 1] \in Nat
    BY <1>1, <1>2, <2>1
  <2> QED BY <2>1, <2>2, <2>3, <2>4
<1> QED BY <1>4, <1>5

\* A stream that goes on with the next broadcast.
LEMMA ExtendInOrder ==
  ASSUME NEW c \in Connections, NEW s \in Seq(1 .. MaxBroadcasts), NEW n \in 1 .. MaxBroadcasts,
         Rises(s, c), Bounded(s), handled \in Nat, handled < n,
         c \notin skipped /\ Len(s) > 0 => n = s[Len(s)] + 1
  PROVE  LET t == Append(s, n) IN
         /\ Rises(t, c)
         /\ \A i \in 1 .. Len(t) : t[i] <= n
         /\ Len(t) > 0 /\ t[Len(t)] = n
<1> DEFINE t == Append(s, n)
<1>1. Len(s) \in Nat
  OBVIOUS
<1>2. \A i \in 1 .. Len(s) : s[i] \in Nat
  <2>1. \A i \in 1 .. Len(s) : s[i] \in 1 .. MaxBroadcasts
    BY ElementType
  <2> QED BY <2>1
<1>3. Len(t) = Len(s) + 1 /\ t[Len(s) + 1] = n /\ \A i \in 1 .. Len(s) : t[i] = s[i]
  BY AppendFacts
<1> HIDE DEF t
<1>4. \A i \in 1 .. Len(s) : s[i] < n
  BY <1>2 DEF Bounded
<1>5. \A i \in 1 .. Len(t) : t[i] <= n
  <2> SUFFICES ASSUME NEW i \in 1 .. Len(t) PROVE t[i] <= n
    OBVIOUS
  <2>1. i \in 1 .. Len(s) \/ i = Len(s) + 1
    BY <1>1, <1>3
  <2> QED BY <1>2, <1>3, <1>4, <2>1
<1>6. ASSUME NEW i \in 1 .. Len(t) - 1
      PROVE  t[i] < t[i + 1] /\ (c \notin skipped => t[i + 1] = t[i] + 1)
  <2>1. i \in 1 .. Len(s)
    BY <1>1, <1>3
  <2>2. CASE i = Len(s)
    BY <1>1, <1>3, <1>4, <2>1, <2>2
  <2>3. CASE i \in 1 .. Len(s) - 1
    <3>1. i + 1 \in 1 .. Len(s)
      BY <1>1, <2>3
    <3> QED BY <1>3, <2>1, <2>3, <3>1 DEF Rises
  <2> QED BY <1>1, <2>1, <2>2, <2>3
<1> QED BY <1>1, <1>3, <1>5, <1>6 DEF Rises, t

-----------------------------------------------------------------------------
(* The backlog.                                                            *)

LEMMA NewsFacts ==
  ASSUME TypeOK
  PROVE  /\ broadcasterBox \in Seq(Message) /\ Len(broadcasterBox) \in Nat
         /\ \A i : IsNews(i) => i \in Nat /\ broadcasterBox[i].number \in 1 .. MaxBroadcasts
<1>1. broadcasterBox \in Seq(Message) /\ Len(broadcasterBox) \in Nat
  BY DEF TypeOK
<1>2. \A i : IsNews(i) => broadcasterBox[i].number \in 1 .. MaxBroadcasts
  BY MessageFacts DEF IsNews
<1>3. \A i : IsNews(i) => i \in Nat
  BY DEF IsNews
<1> QED BY <1>1, <1>2, <1>3

\* A message that is no broadcast changes nothing about those that wait.
LEMMA BacklogOther ==
  ASSUME TypeOK, NEW lo \in Nat, Backlog(lo), NEW m \in Message, m.type # "MsgBroadcast",
         broadcasterBox' = Append(broadcasterBox, m), UNCHANGED published
  PROVE  Backlog(lo)'
<1>1. /\ Len(broadcasterBox') = Len(broadcasterBox) + 1
      /\ \A i \in 1 .. Len(broadcasterBox) : broadcasterBox'[i] = broadcasterBox[i]
      /\ broadcasterBox'[Len(broadcasterBox) + 1] = m
  BY NewsFacts, AppendFacts
<1>2. \A i : IsNews(i)' <=> IsNews(i)
  BY <1>1, NewsFacts DEF IsNews
<1>3. \A i : IsNews(i) => broadcasterBox'[i] = broadcasterBox[i]
  BY <1>1 DEF IsNews
<1> QED BY <1>2, <1>3 DEF Backlog

\* A new broadcast is the last.
LEMMA BacklogPublish ==
  ASSUME TypeOK, NEW lo \in Nat, lo <= published, Backlog(lo), Publish
  PROVE  Backlog(lo)'
<1> DEFINE m == [type |-> "MsgBroadcast", number |-> published + 1]
           k == Len(broadcasterBox) + 1
<1>1. /\ published < MaxBroadcasts /\ published' = published + 1
      /\ broadcasterBox' = Append(broadcasterBox, m)
  BY DEF Publish
<1>2. published \in Nat
  BY DEF TypeOK
<1>3. m \in Message /\ m.type = "MsgBroadcast" /\ m.number = published + 1
  BY <1>1, <1>2, BroadcasterAssumption DEF Message
<1> HIDE DEF m
<1>4. /\ Len(broadcasterBox') = k
      /\ \A i \in 1 .. Len(broadcasterBox) : broadcasterBox'[i] = broadcasterBox[i]
      /\ broadcasterBox'[k] = m
  BY <1>1, <1>3, NewsFacts, AppendFacts
<1>5. \A i : IsNews(i)' <=> IsNews(i) \/ i = k
  BY <1>3, <1>4, NewsFacts DEF IsNews
<1>6. \A i : IsNews(i) => /\ i \in Nat /\ i < k /\ broadcasterBox'[i] = broadcasterBox[i]
                          /\ broadcasterBox[i].number \in lo + 1 .. published
  BY <1>4, NewsFacts DEF IsNews, Backlog
<1>7. k \in Nat
  BY NewsFacts
<1> HIDE DEF k
<1>8. \A i : IsNews(i)' => broadcasterBox'[i].number \in lo + 1 .. published'
  <2> SUFFICES ASSUME NEW i, IsNews(i)' PROVE broadcasterBox'[i].number \in lo + 1 .. published'
    OBVIOUS
  <2>1. CASE IsNews(i)
    <3>1. lo + 1 .. published \subseteq lo + 1 .. published'
      BY <1>1, <1>2
    <3>2. broadcasterBox'[i] = broadcasterBox[i] /\ broadcasterBox[i].number \in lo + 1 .. published
      BY <1>6, <2>1
    <3> QED BY <3>1, <3>2, Zenon
  <2>2. CASE i = k
    BY <1>1, <1>2, <1>3, <1>4, <2>2
  <2> QED BY <1>5, <2>1, <2>2
<1>9. ASSUME NEW n \in lo + 1 .. published'
      PROVE  \E i : IsNews(i)' /\ broadcasterBox'[i].number = n
  <2>1. CASE n = published + 1
    BY <1>3, <1>4, <1>5, <2>1
  <2>2. CASE n \in lo + 1 .. published
    <3>1. PICK i : IsNews(i) /\ broadcasterBox[i].number = n
      BY <2>2 DEF Backlog
    <3> QED BY <1>5, <1>6, <3>1
  <2>3. n = published + 1 \/ n \in lo + 1 .. published
    BY <1>1, <1>2, <1>9
  <2> QED BY <2>1, <2>2, <2>3
<1>10. ASSUME NEW i, NEW j, IsNews(i)', IsNews(j)', i < j
       PROVE  broadcasterBox'[i].number < broadcasterBox'[j].number
  <2>1. CASE IsNews(i) /\ IsNews(j)
    <3>1. broadcasterBox[i].number < broadcasterBox[j].number
      BY <1>10, <2>1 DEF Backlog
    <3> QED BY <1>6, <2>1, <3>1
  <2>2. CASE IsNews(i) /\ j = k
    BY <1>2, <1>3, <1>4, <1>6, <2>2
  <2>3. CASE i = k
    <3>1. j \in Nat /\ j <= k
      BY <1>5, <1>6, <1>7, <1>10
    <3> QED BY <1>7, <1>10, <2>3, <3>1
  <2> QED BY <1>5, <1>10, <2>1, <2>2, <2>3
<1> QED BY <1>8, <1>9, <1>10 DEF Backlog

\* The broadcaster takes a message: a broadcast is the next one.
LEMMA BacklogTail ==
  ASSUME TypeOK, NEW lo \in Nat, Backlog(lo), broadcasterBox # << >>,
         broadcasterBox' = Tail(broadcasterBox), UNCHANGED published
  PROVE  /\ Head(broadcasterBox).type # "MsgBroadcast" => Backlog(lo)'
         /\ Head(broadcasterBox).type = "MsgBroadcast" =>
              Head(broadcasterBox).number = lo + 1 /\ lo + 1 <= published /\ Backlog(lo + 1)'
<1>1. /\ Head(broadcasterBox) = broadcasterBox[1]
      /\ Len(broadcasterBox) \in Nat \ {0}
      /\ Len(broadcasterBox') = Len(broadcasterBox) - 1
      /\ \A i \in 1 .. Len(broadcasterBox) - 1 : broadcasterBox'[i] = broadcasterBox[i + 1]
  BY NewsFacts, TailFacts
<1>2. \A i : IsNews(i)' => i \in Nat \ {0} /\ IsNews(i + 1) /\ broadcasterBox'[i] = broadcasterBox[i + 1]
  BY <1>1 DEF IsNews
<1>3. \A i : IsNews(i) => i = 1 \/ (IsNews(i - 1)' /\ broadcasterBox'[i - 1] = broadcasterBox[i])
  BY <1>1 DEF IsNews
<1>4. IsNews(1) <=> Head(broadcasterBox).type = "MsgBroadcast"
  BY <1>1 DEF IsNews
<1>5. published \in Nat
  BY DEF TypeOK
<1>6. \A i, j : IsNews(i)' /\ IsNews(j)' /\ i < j =>
         broadcasterBox'[i].number < broadcasterBox'[j].number
  <2> SUFFICES ASSUME NEW i, NEW j, IsNews(i)', IsNews(j)', i < j
               PROVE  broadcasterBox'[i].number < broadcasterBox'[j].number
    OBVIOUS
  <2>1. IsNews(i + 1) /\ IsNews(j + 1) /\ i + 1 < j + 1
    BY <1>2
  <2>2. broadcasterBox[i + 1].number < broadcasterBox[j + 1].number
    BY <2>1 DEF Backlog
  <2> QED BY <1>2, <2>2
<1>7. CASE Head(broadcasterBox).type # "MsgBroadcast"
  <2>1. \A i : IsNews(i)' => broadcasterBox'[i].number \in lo + 1 .. published'
    BY <1>2 DEF Backlog
  <2>2. ASSUME NEW n \in lo + 1 .. published'
        PROVE  \E i : IsNews(i)' /\ broadcasterBox'[i].number = n
    <3>1. PICK i : IsNews(i) /\ broadcasterBox[i].number = n
      BY DEF Backlog
    <3>2. IsNews(i - 1)' /\ broadcasterBox'[i - 1] = broadcasterBox[i]
      BY <1>3, <1>4, <1>7, <3>1
    <3> QED BY <3>1, <3>2
  <2> QED BY <1>6, <1>7, <2>1, <2>2 DEF Backlog
<1>8. CASE Head(broadcasterBox).type = "MsgBroadcast"
  <2> DEFINE n == broadcasterBox[1].number
  <2>1. IsNews(1) /\ n \in lo + 1 .. published
    BY <1>4, <1>8 DEF Backlog
  <2>2. \A i : IsNews(i) /\ i # 1 => n < broadcasterBox[i].number
    <3>1. \A i : IsNews(i) /\ i # 1 => 1 < i
      BY <1>1 DEF IsNews
    <3> QED BY <2>1, <3>1 DEF Backlog
  <2>3. n = lo + 1
    <3>1. PICK i : IsNews(i) /\ broadcasterBox[i].number = lo + 1
      BY <1>5, <2>1 DEF Backlog
    <3> QED BY <2>1, <2>2, <3>1
  <2>4. \A i : IsNews(i)' => broadcasterBox'[i].number \in lo + 1 + 1 .. published'
    <3> SUFFICES ASSUME NEW i, IsNews(i)'
                 PROVE  broadcasterBox'[i].number \in lo + 1 + 1 .. published'
      OBVIOUS
    <3>1. i \in Nat \ {0} /\ IsNews(i + 1) /\ broadcasterBox'[i] = broadcasterBox[i + 1]
      BY <1>2
    <3>2. broadcasterBox[i + 1].number \in lo + 1 .. published
      BY <3>1 DEF Backlog
    <3>3. n < broadcasterBox[i + 1].number
      BY <2>2, <3>1
    <3> HIDE DEF n
    <3>4. PICK k : k = broadcasterBox[i + 1].number
      OBVIOUS
    <3>5. k \in lo + 1 + 1 .. published
      BY <1>5, <2>3, <3>2, <3>3, <3>4
    <3>6. published' = published
      OBVIOUS
    <3> QED BY <3>1, <3>4, <3>5, <3>6
  <2>5. ASSUME NEW k \in lo + 1 + 1 .. published'
        PROVE  \E i : IsNews(i)' /\ broadcasterBox'[i].number = k
    <3>1. k \in lo + 1 .. published /\ k # lo + 1
      BY <1>5
    <3>2. PICK i : IsNews(i) /\ broadcasterBox[i].number = k
      BY <3>1 DEF Backlog
    <3>3. i # 1
      BY <2>3, <3>1, <3>2
    <3>4. IsNews(i - 1)' /\ broadcasterBox'[i - 1] = broadcasterBox[i]
      BY <1>3, <3>2, <3>3
    <3> QED BY <3>2, <3>4
  <2>6. Backlog(lo + 1)'
    BY <1>6, <2>4, <2>5 DEF Backlog
  <2> QED BY <1>1, <1>5, <1>8, <2>1, <2>3, <2>6
<1> QED BY <1>7, <1>8

LEMMA BacklogStays ==
  ASSUME TypeOK, BacklogInv, UNCHANGED <<handled, published>>,
         \A lo \in Nat : Backlog(lo) => Backlog(lo)',
         \A c \in Connections : handler'[c] = "running" =>
           \/ Len(Stream(c)') = 0
           \/ handler[c] = "running" /\ (Len(Stream(c)) = 0 => Len(Stream(c)') = 0)
  PROVE  BacklogInv'
<1>1. handled \in Nat /\ published \in Nat
  BY DEF TypeOK
<1>2. PICK lo \in handled .. published :
        /\ Backlog(lo)
        /\ lo = handled \/ \A c \in Connections : handler[c] = "running" => Len(Stream(c)) = 0
  BY DEF BacklogInv
<1>3. lo \in Nat /\ lo \in handled' .. published'
  BY <1>1
<1>4. Backlog(lo)'
  BY <1>2, <1>3
<1>5. lo = handled' \/ \A c \in Connections : handler'[c] = "running" => Len(Stream(c)') = 0
  BY <1>2
<1> QED BY <1>3, <1>4, <1>5 DEF BacklogInv

\* No message is sent to the broadcaster, and none that is on its way moves.
LEMMA NothingNew ==
  ASSUME TypeOK, NewsInv, \A c \in Connections : Stream(c)' = Stream(c),
         UNCHANGED <<clients, broadcasterBox, handler, skipped, handled, published>>
  PROVE  NewsInv'
<1>1. \A c \in Connections : Fits(Stream(c), c)
  BY DEF NewsInv, StreamsInv
<1>2. ASSUME NEW c \in Connections
      PROVE  \E s : s = Stream(c)' /\ Fits(s, c)'
  <2>1. PICK s : s = Stream(c)
    OBVIOUS
  <2>2. Fits(s, c)
    BY <1>1, <2>1
  <2>3. Fits(s, c)'
    BY <2>2, FitsStays
  <2> QED BY <2>1, <2>3
<1>3. StreamsInv'
  BY <1>2, FitsNext
<1>4. \A lo \in Nat : Backlog(lo) => Backlog(lo)'
  BY DEF Backlog, IsNews
<1>5. BacklogInv'
  BY <1>4, BacklogStays DEF NewsInv
<1> QED BY <1>3, <1>5 DEF NewsInv

LEMMA NewsNext ==
  ASSUME TypeOK, PagesInv, RegisterInv, NewsInv, [Next]_vars
  PROVE  NewsInv'
<1> USE DEF NewsInv
<1>0. /\ \A c \in Connections : Fits(Stream(c), c)
      /\ \A c \in Connections : Len(Stream(c)) \in Nat
      /\ handled \in Nat /\ published \in Nat /\ MaxBroadcasts \in Nat
  BY StreamTypes, BroadcasterAssumption DEF StreamsInv, TypeOK
<1>1. ASSUME \/ \E b \in Browsers : Load(b) \/ OnOpen(b) \/ \E i \in DOMAIN timers[b] : OnTimer(b, i)
             \/ \E c \in Connections : OnClose(c) \/ Break(c)
             \/ UNCHANGED vars
      PROVE  NewsInv'
  <2>1. UNCHANGED <<clients, broadcasterBox, handler, handlerBox, queue, received, skipped,
                   handled, published>>
    BY <1>1 DEF Load, OnOpen, OnTimer, OnClose, Break, vars, actors, history
  <2>2. \A c \in Connections : Stream(c)' = Stream(c)
    BY <2>1 DEF Stream
  <2> QED BY <2>1, <2>2, NothingNew
<1>2. ASSUME NEW b \in Browsers, OnMessage(b)
      PROVE  NewsInv'
  <2>1. UNCHANGED <<clients, broadcasterBox, handler, skipped, handled, published>>
    BY <1>2 DEF OnMessage, actors
  <2>2. \A c \in Connections : Stream(c)' = Stream(c)
    BY <1>2, OnMessageStream
  <2> QED BY <2>1, <2>2, NothingNew
<1>3. ASSUME NEW c \in Connections, Accept(c) \/ PreStart(c)
      PROVE  NewsInv'
  <2>1. /\ handler[c] \in {"none", "new"}
        /\ \A d \in Connections : d # c => handler'[d] = handler[d]
        /\ UNCHANGED <<clients, handlerBox, queue, received, skipped, handled, published>>
    BY <1>3 DEF Accept, PreStart, history, TypeOK
  <2>2. \A d \in Connections : Stream(d)' = Stream(d)
    BY <2>1 DEF Stream
  <2>3. Len(Stream(c)) = 0
    BY <1>0, <2>1 DEF RegisterInv, Fits
  <2>4. ASSUME NEW d \in Connections
        PROVE  \E s : s = Stream(d)' /\ Fits(s, d)'
    <3>1. PICK s : s = Stream(d)
      OBVIOUS
    <3>2. Fits(s, d) /\ (d = c => Len(s) = 0)
      BY <1>0, <2>3, <3>1
    <3>3. Fits(s, d)'
      BY <2>1, <3>2, FitsStays
    <3> QED BY <2>2, <3>1, <3>3
  <2>5. StreamsInv'
    BY <2>4, FitsNext
  <2>6. ASSUME NEW lo \in Nat, Backlog(lo) PROVE Backlog(lo)'
    <3>1. CASE Accept(c)
      <4>1. UNCHANGED <<broadcasterBox, published>>
        BY <3>1 DEF Accept
      <4> QED BY <2>6, <4>1 DEF Backlog, IsNews
    <3>2. CASE PreStart(c)
      <4> DEFINE m == [type |-> "MsgRegisterClient", client |-> c]
      <4>1. broadcasterBox' = Append(broadcasterBox, m) /\ UNCHANGED published
        BY <3>2 DEF PreStart, Register
      <4>2. m \in Message /\ m.type # "MsgBroadcast"
        BY DEF Message
      <4> HIDE DEF m
      <4> QED BY <2>6, <4>1, <4>2, BacklogOther
    <3> QED BY <1>3, <3>1, <3>2
  <2>7. BacklogInv'
    BY <2>1, <2>2, <2>3, <2>6, BacklogStays
  <2> QED BY <2>5, <2>7
<1>4. ASSUME NEW c \in Connections, PostStop(c)
      PROVE  NewsInv'
  <2>1. /\ handler' = [handler EXCEPT ![c] = "stopped"]
        /\ handlerBox' = [handlerBox EXCEPT ![c] = << >>]
        /\ queue' = [queue EXCEPT ![c] = << >>]
        /\ UNCHANGED <<clients, received, skipped, handled, published>>
    BY <1>4 DEF PostStop, history
  <2>2. /\ handler'[c] = "stopped" /\ handlerBox'[c] = << >> /\ queue'[c] = << >>
        /\ \A d \in Connections : d # c =>
             handler'[d] = handler[d] /\ handlerBox'[d] = handlerBox[d] /\ queue'[d] = queue[d]
    BY <2>1 DEF TypeOK
  <2>3. \A d \in Connections : d # c => Stream(d)' = Stream(d)
    BY <2>1, <2>2 DEF Stream
  <2>4. /\ Len(Stream(c)') \in Nat /\ Len(Stream(c)') <= Len(Stream(c))
        /\ \A i \in 1 .. Len(Stream(c)') : Stream(c)'[i] = Stream(c)[i]
    BY <2>1, <2>2, StopStream
  <2>5. ASSUME NEW d \in Connections
        PROVE  \E s : s = Stream(d)' /\ Fits(s, d)'
    <3>1. CASE d # c
      <4>1. PICK s : s = Stream(d)
        OBVIOUS
      <4>2. Fits(s, d)
        BY <1>0, <4>1
      <4>3. Fits(s, d)'
        BY <2>1, <2>2, <3>1, <4>2, FitsStays
      <4> QED BY <2>3, <3>1, <4>1, <4>3
    <3>2. CASE d = c
      <4>1. PICK s, t : s = Stream(c) /\ t = Stream(c)'
        OBVIOUS
      <4>2. Rises(s, c) /\ Bounded(s) /\ s \in Seq(1 .. MaxBroadcasts)
        BY <1>0, <4>1, StreamTypes DEF Fits
      <4>3. t \in Seq(1 .. MaxBroadcasts)
        <5>1. received[c] \in Seq(1 .. MaxBroadcasts)
          BY StreamTypes
        <5>2. Stream(c)' = (received[c] \o << >>) \o << >>
          BY <2>1, <2>2 DEF Stream
        <5>3. received[c] \o << >> = received[c]
          BY <5>1, ConcatEmptySeq
        <5> QED BY <4>1, <5>1, <5>2, <5>3
      <4>4. Rises(t, c) /\ Bounded(t)
        BY <2>4, <4>1, <4>2, <4>3, CutInOrder
      <4>5. Fits(t, c)'
        BY <2>1, <2>2, <4>4 DEF Fits, Rises, Bounded, UpToDate, Recipients
      <4> QED BY <3>2, <4>1, <4>5
    <3> QED BY <3>1, <3>2
  <2>6. StreamsInv'
    BY <2>5, FitsNext
  <2>7. ASSUME NEW lo \in Nat, Backlog(lo) PROVE Backlog(lo)'
    <3> DEFINE m == [type |-> "MsgDeregisterClient", client |-> c]
    <3>1. broadcasterBox' = Append(broadcasterBox, m) /\ UNCHANGED published
      BY <1>4 DEF PostStop, SendDeregister, Register
    <3>2. m \in Message /\ m.type # "MsgBroadcast"
      BY DEF Message
    <3> HIDE DEF m
    <3> QED BY <2>7, <3>1, <3>2, BacklogOther
  <2>8. BacklogInv'
    BY <2>1, <2>2, <2>3, <2>7, BacklogStays
  <2> QED BY <2>6, <2>8
<1>5. ASSUME NEW c \in Connections, HandlerSends(c)
      PROVE  NewsInv'
  <2>1. /\ handlerBox[c] # << >>
        /\ handlerBox' = [handlerBox EXCEPT ![c] = Tail(handlerBox[c])]
        /\ UNCHANGED <<clients, broadcasterBox, handler, published, received, handled>>
    BY <1>5 DEF HandlerSends
  <2>2. CASE HasRoom(c)
    <3>1. UNCHANGED skipped
      BY <1>5, <2>2 DEF HandlerSends
    <3>2. \A d \in Connections : Stream(d)' = Stream(d)
      BY <1>5, <2>2, SendStream
    <3> QED BY <2>1, <3>1, <3>2, NothingNew
  <2>3. CASE ~HasRoom(c)
    <3>1. skipped' = skipped \cup {c} /\ UNCHANGED queue
      BY <1>5, <2>3 DEF HandlerSends
    <3>2. /\ handlerBox'[c] = Tail(handlerBox[c])
          /\ \A d \in Connections : d # c => handlerBox'[d] = handlerBox[d]
      BY <2>1 DEF TypeOK
    <3>3. \A d \in Connections : d # c => Stream(d)' = Stream(d)
      BY <2>1, <3>1, <3>2 DEF Stream
    <3>4. /\ Len(Stream(c)') = Len(Stream(c)) - 1
          /\ \E k \in 1 .. Len(Stream(c)) : \A i \in 1 .. Len(Stream(c)) - 1 :
               Stream(c)'[i] = IF i < k THEN Stream(c)[i] ELSE Stream(c)[i + 1]
      BY <2>1, <3>1, <3>2, SkipStream
    <3>5. PICK k \in 1 .. Len(Stream(c)) : \A i \in 1 .. Len(Stream(c)) - 1 :
               Stream(c)'[i] = IF i < k THEN Stream(c)[i] ELSE Stream(c)[i + 1]
      BY <3>4
    <3>6. Len(Stream(c)) > 0
      BY <1>0, <3>5
    <3>7. ASSUME NEW d \in Connections
          PROVE  \E s : s = Stream(d)' /\ Fits(s, d)'
      <4>1. CASE d # c
        <5>1. PICK s : s = Stream(d)
          OBVIOUS
        <5>2. Fits(s, d)
          BY <1>0, <5>1
        <5>3. Fits(s, d)'
          BY <2>1, <3>1, <4>1, <5>2, FitsStays
        <5> QED BY <3>3, <4>1, <5>1, <5>3
      <4>2. CASE d = c
        <5>1. PICK s, t : s = Stream(c) /\ t = Stream(c)'
          OBVIOUS
        <5>2. Fits(s, c) /\ s \in Seq(1 .. MaxBroadcasts)
          BY <1>0, <5>1, StreamTypes
        <5>3. t \in Seq(1 .. MaxBroadcasts)
          <6>1. Tail(handlerBox[c]) \in Seq(1 .. MaxBroadcasts)
            BY <2>1, StreamTypes, TailFacts
          <6>2. Stream(c)' = (received[c] \o queue[c]) \o Tail(handlerBox[c])
            BY <2>1, <3>1, <3>2 DEF Stream
          <6> QED BY <5>1, <6>1, <6>2, StreamTypes, ConcatProperties
        <5>4. /\ Len(t) = Len(s) - 1 /\ k \in 1 .. Len(s)
              /\ \A i \in 1 .. Len(s) - 1 : t[i] = IF i < k THEN s[i] ELSE s[i + 1]
          BY <3>4, <3>5, <5>1
        <5>5. Bounded(t) /\ \A i \in 1 .. Len(t) - 1 : t[i] < t[i + 1]
          BY <5>2, <5>3, <5>4, SkipInOrder DEF Fits, Rises
        <5>6. Fits(t, c)'
          <6>1. Rises(t, c)' /\ Bounded(t)'
            BY <2>1, <3>1, <5>5 DEF Rises, Bounded
          <6>2. UpToDate(t, c)'
            BY <3>1 DEF UpToDate
          <6>3. ~(handler'[c] # "stopped" /\ c \notin clients')
            BY <2>1, <3>6, <5>1, <5>2 DEF Fits
          <6> QED BY <6>1, <6>2, <6>3 DEF Fits
        <5> QED BY <4>2, <5>1, <5>6
      <4> QED BY <4>1, <4>2
    <3>8. StreamsInv'
      BY <3>7, FitsNext
    <3>9. \A lo \in Nat : Backlog(lo) => Backlog(lo)'
      BY <2>1 DEF Backlog, IsNews
    <3>10. \A d \in Connections : Len(Stream(d)) = 0 => Len(Stream(d)') = 0
      BY <3>3, <3>6
    <3>11. BacklogInv'
      BY <2>1, <3>9, <3>10, BacklogStays
    <3> QED BY <3>8, <3>11
  <2> QED BY <2>2, <2>3
<1>6. CASE OnMsgRegisterClient \/ OnMsgDeregisterClient
  <2> DEFINE m == Head(broadcasterBox)
             c == m.client
  <2>1. /\ broadcasterBox # << >> /\ broadcasterBox' = Tail(broadcasterBox)
        /\ \/ m.type = "MsgRegisterClient" /\ clients' = clients \cup {c}
           \/ m.type = "MsgDeregisterClient" /\ clients' = clients \ {c}
        /\ UNCHANGED <<handlerBox, handled, handler, queue, published, received, skipped>>
    BY <1>6 DEF OnMsgRegisterClient, OnMsgDeregisterClient, Receive
  <2>2. /\ m.type = "MsgDeregisterClient" => handler[c] = "stopped"
        /\ m.type # "MsgBroadcast"
    <3>1. m = broadcasterBox[1] /\ 1 \in 1 .. Len(broadcasterBox)
      BY <2>1, TailFacts DEF TypeOK
    <3>2. /\ m.client \in Connections
          /\ m.type = "MsgDeregisterClient" => IsAbout(1, "MsgDeregisterClient", m.client)
      BY <2>1, <3>1, MessageFacts DEF IsAbout
    <3> QED BY <2>1, <3>2 DEF RegisterInv
  <2>3. \A d \in Connections : Stream(d)' = Stream(d)
    BY <2>1 DEF Stream
  <2> HIDE DEF m, c
  <2>4. ASSUME NEW d \in Connections
        PROVE  \E s : s = Stream(d)' /\ Fits(s, d)'
    <3>1. PICK s : s = Stream(d)
      OBVIOUS
    <3>2. Fits(s, d)
      BY <1>0, <3>1
    <3>3. \/ d \in clients' <=> d \in clients
          \/ handler'[d] = "stopped"
          \/ Len(s) = 0
      BY <2>1, <2>2, <3>2 DEF Fits
    <3>4. Fits(s, d)'
      BY <2>1, <3>2, <3>3, FitsStays
    <3> QED BY <2>3, <3>1, <3>4
  <2>5. StreamsInv'
    BY <2>4, FitsNext
  <2>6. \A lo \in Nat : Backlog(lo) => Backlog(lo)'
    BY <2>1, <2>2, BacklogTail DEF m
  <2>7. BacklogInv'
    BY <2>1, <2>3, <2>6, BacklogStays
  <2> QED BY <2>5, <2>7
<1>7. CASE OnMsgBroadcast
  <2>1. PICK n : n = Head(broadcasterBox).number
    OBVIOUS
  <2>2. /\ broadcasterBox # << >> /\ broadcasterBox' = Tail(broadcasterBox)
        /\ Head(broadcasterBox).type = "MsgBroadcast"
        /\ UNCHANGED <<clients, handler, queue, published, received, skipped>>
        /\ handled' = n
        /\ handlerBox' = [c \in Connections |->
             IF c \in Recipients THEN Append(handlerBox[c], n) ELSE handlerBox[c]]
    BY <1>7, <2>1 DEF OnMsgBroadcast, Receive
  <2>3. PICK lo \in handled .. published :
          /\ Backlog(lo)
          /\ lo = handled \/ \A c \in Connections : handler[c] = "running" => Len(Stream(c)) = 0
    BY DEF BacklogInv
  <2>4. lo \in Nat
    BY <1>0, <2>3
  <2>5. n = lo + 1 /\ lo + 1 <= published /\ Backlog(lo + 1)'
    BY <2>1, <2>2, <2>3, <2>4, BacklogTail
  <2>6. n \in 1 .. MaxBroadcasts /\ handled < n
    BY <1>0, <2>3, <2>4, <2>5, BroadcasterAssumption DEF TypeOK
  <2>7. ASSUME NEW d \in Connections
        PROVE  \E s : s = Stream(d)' /\ Fits(s, d)'
    <3>1. PICK s : s = Stream(d)
      OBVIOUS
    <3>2. /\ Fits(s, d) /\ s \in Seq(1 .. MaxBroadcasts) /\ Len(s) \in Nat
          /\ \A i \in 1 .. Len(s) : s[i] \in 1 .. MaxBroadcasts
      BY <1>0, <3>1, StreamTypes
    <3>3. CASE d \in Recipients
      <4>1. Stream(d)' = Append(s, n)
        BY <2>2, <2>6, <3>1, <3>3, BroadcastStream
      <4>2. handler[d] = "running" /\ d \in clients
        BY <3>3 DEF Recipients
      <4>3. d \notin skipped /\ Len(s) > 0 => n = s[Len(s)] + 1
        <5>1. Len(s) > 0 => lo = handled
          BY <2>3, <3>1, <4>2
        <5>2. d \notin skipped /\ Len(s) > 0 => s[Len(s)] = handled
          BY <3>2, <3>3 DEF Fits, UpToDate
        <5> QED BY <2>5, <5>1, <5>2
      <4>4. PICK t : t = Append(s, n)
        OBVIOUS
      <4>5. /\ Rises(t, d)
            /\ \A i \in 1 .. Len(t) : t[i] <= n
            /\ t[Len(t)] = n
        BY <1>0, <2>6, <3>2, <4>3, <4>4, ExtendInOrder DEF Fits
      <4>6. Fits(t, d)'
        BY <2>2, <4>2, <4>5 DEF Fits, Rises, Bounded, UpToDate
      <4> QED BY <4>1, <4>4, <4>6
    <3>4. CASE d \notin Recipients
      <4>1. Stream(d)' = s
        BY <2>2, <3>1, <3>4 DEF Stream
      <4>2. Rises(s, d)'
        BY <2>2, <3>2 DEF Fits, Rises
      <4>3. Bounded(s)'
        BY <1>0, <2>2, <2>6, <3>2 DEF Fits, Bounded
      <4>4. UpToDate(s, d)'
        BY <2>2, <3>4 DEF UpToDate, Recipients
      <4>5. Fits(s, d)'
        BY <2>2, <3>2, <4>2, <4>3, <4>4 DEF Fits
      <4> QED BY <4>1, <4>5
    <3> QED BY <3>3, <3>4
  <2>8. StreamsInv'
    BY <2>7, FitsNext
  <2>9. BacklogInv'
    <3>1. lo + 1 \in handled' .. published' /\ lo + 1 = handled'
      BY <1>0, <2>2, <2>4, <2>5
    <3> QED BY <2>5, <3>1 DEF BacklogInv
  <2> QED BY <2>8, <2>9
<1>8. CASE Publish
  <2>1. /\ published' = published + 1
        /\ UNCHANGED <<clients, handler, handlerBox, queue, received, skipped, handled>>
    BY <1>8 DEF Publish, history
  <2>2. \A d \in Connections : Stream(d)' = Stream(d)
    BY <2>1 DEF Stream
  <2>3. ASSUME NEW d \in Connections
        PROVE  \E s : s = Stream(d)' /\ Fits(s, d)'
    <3>1. PICK s : s = Stream(d)
      OBVIOUS
    <3>2. Fits(s, d)
      BY <1>0, <3>1
    <3>3. Fits(s, d)'
      BY <2>1, <3>2, FitsStays
    <3> QED BY <2>2, <3>1, <3>3
  <2>4. StreamsInv'
    BY <2>3, FitsNext
  <2>5. PICK lo \in handled .. published :
          /\ Backlog(lo)
          /\ lo = handled \/ \A c \in Connections : handler[c] = "running" => Len(Stream(c)) = 0
    BY DEF BacklogInv
  <2>6. lo \in Nat /\ lo <= published /\ lo \in handled' .. published'
    BY <1>0, <2>1, <2>5
  <2>7. Backlog(lo)'
    BY <1>8, <2>5, <2>6, BacklogPublish
  <2>8. lo = handled' \/ \A c \in Connections : handler'[c] = "running" => Len(Stream(c)') = 0
    BY <2>1, <2>2, <2>5
  <2>9. BacklogInv'
    BY <2>6, <2>7, <2>8 DEF BacklogInv
  <2> QED BY <2>4, <2>9
<1>9. CASE Restart
  <2>1. /\ clients' = {} /\ broadcasterBox' = << >>
        /\ handler' = [c \in Connections |-> IF handler[c] = "none" THEN "none" ELSE "stopped"]
        /\ handlerBox' = [c \in Connections |-> << >>]
        /\ UNCHANGED <<queue, received, skipped, handled, published>>
    BY <1>9 DEF Restart, history
  <2>2. ASSUME NEW d \in Connections
        PROVE  \E s : s = Stream(d)' /\ Fits(s, d)'
    <3>1. /\ Len(Stream(d)') \in Nat /\ Len(Stream(d)') <= Len(Stream(d))
          /\ \A i \in 1 .. Len(Stream(d)') : Stream(d)'[i] = Stream(d)[i]
      BY <2>1, StopStream
    <3>2. PICK s, t : s = Stream(d) /\ t = Stream(d)'
      OBVIOUS
    <3>3. Fits(s, d) /\ s \in Seq(1 .. MaxBroadcasts)
      BY <1>0, <3>2, StreamTypes
    <3>4. t \in Seq(1 .. MaxBroadcasts)
      <4>1. Stream(d)' = (received[d] \o queue[d]) \o << >>
        BY <2>1 DEF Stream
      <4> QED BY <3>2, <4>1, StreamTypes, ConcatEmptySeq
    <3>5. Rises(t, d) /\ Bounded(t)
      BY <3>1, <3>2, <3>3, <3>4, CutInOrder DEF Fits
    <3>6. UpToDate(t, d)'
      BY <2>1 DEF UpToDate, Recipients
    <3>7. handler'[d] # "stopped" => Len(t) = 0
      <4>1. handler'[d] # "stopped" => handler[d] = "none"
        BY <2>1
      <4>2. handler[d] = "none" => Len(s) = 0
        BY <3>3 DEF RegisterInv, Fits
      <4> QED BY <3>1, <3>2, <4>1, <4>2
    <3>8. Fits(t, d)'
      BY <2>1, <3>5, <3>6, <3>7 DEF Fits, Rises, Bounded
    <3> QED BY <3>2, <3>8
  <2>3. StreamsInv'
    BY <2>2, FitsNext
  <2>4. PICK lo : lo = published
    OBVIOUS
  <2>5. handled <= published
    <3>1. PICK k \in handled .. published : TRUE
      BY DEF BacklogInv
    <3> QED BY <1>0, <3>1
  <2>6. lo \in handled' .. published' /\ Backlog(lo)'
    BY <1>0, <2>1, <2>4, <2>5 DEF Backlog, IsNews
  <2>7. \A c \in Connections : handler'[c] # "running"
    BY <2>1
  <2>8. BacklogInv'
    BY <2>6, <2>7 DEF BacklogInv
  <2> QED BY <2>3, <2>8
<1> QED BY <1>1, <1>2, <1>3, <1>4, <1>5, <1>6, <1>7, <1>8, <1>9
        DEF Next, PageStep, HandlerStep, BroadcasterStep

\* Every websocket carries the broadcasts in the order they were sent, none
\* twice, and from the first on all of them unless its queue was full,
\* wherever they are and whatever breaks.
THEOREM StreamsAlike == Spec => []SameStream
<1>1. TypeOK /\ PagesInv /\ RegisterInv /\ NewsInv /\ [Next]_vars =>
        TypeOK' /\ PagesInv' /\ RegisterInv' /\ NewsInv'
  BY TypeNext, RegisterNext, NewsNext
<1>2. TypeOK /\ NewsInv => SameStream
  <2> SUFFICES ASSUME TypeOK, NewsInv, NEW c \in Connections
               PROVE  LET s == Stream(c) IN
                      /\ \A i \in 1 .. Len(s) - 1 :
                           s[i] < s[i + 1] /\ (c \notin skipped => s[i + 1] = s[i] + 1)
                      /\ s # << >> /\ c \in Recipients /\ c \notin skipped => Last(s) = handled
    BY DEF SameStream
  <2>1. PICK s : s = Stream(c)
    OBVIOUS
  <2>2. Fits(s, c) /\ s \in Seq(1 .. MaxBroadcasts)
    BY <2>1, StreamTypes DEF NewsInv, StreamsInv
  <2>3. s # << >> => Len(s) > 0
    BY <2>2
  <2>4. s # << >> /\ c \in Recipients /\ c \notin skipped => Last(s) = handled
    BY <2>2, <2>3 DEF Last, Fits, UpToDate
  <2> QED BY <2>1, <2>2, <2>4 DEF Fits, Rises
<1> QED BY <1>1, <1>2, PagesInit, RegisterInit, NewsInit, PTL DEF Spec
=============================================================================
