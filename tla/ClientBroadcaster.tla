-------------------------- MODULE ClientBroadcaster --------------------------
(***************************************************************************)
(* The push half of the application: actors/ClientBroadcaster.scala, one   *)
(* actors/ClientHandler.scala per websocket, the queue of each websocket,  *)
(* and the browsers' javascripts/websocket.js, which opens a new websocket *)
(* some time after the old one has closed.                                 *)
(*                                                                         *)
(* A connection is a browser and the number of the websocket it opened.    *)
(* Whatever goes wrong on the way breaks the connection; each end notices  *)
(* at a time of its own.  The event "error" always comes with "close" and  *)
(* finds the websocket closed, so that onError changes nothing.            *)
(*                                                                         *)
(* Broadcasts of any kind (solutions, logins, the status of every second)  *)
(* are the numbers 1, 2, ... in the order they are sent.  The variables    *)
(* received, skipped and handled are history variables.                    *)
(*                                                                         *)
(* An operator introduced as a "faulty variant" is used by no behaviour:   *)
(* it is the mistake that the property named with it is there to exclude.  *)
(***************************************************************************)
EXTENDS Integers, Sequences, SequencesExt

CONSTANTS
  Browsers,           \* open pages
  ReconnectInterval,  \* RECONNECT_INTERVAL_SEC
  BufferSize,         \* messages a websocket queues before it drops new ones
  MaxBroadcasts,      \* bound: broadcasts
  MaxFaults           \* bound: broken connections and restarts of the server

ASSUME BroadcasterAssumption ==
  /\ ReconnectInterval \in Nat
  /\ BufferSize \in Nat \ {0}
  /\ MaxBroadcasts \in Nat
  /\ MaxFaults \in Nat

VARIABLES
  clients,         \* the handlers the broadcaster has registered
  broadcasterBox,  \* mailbox of the broadcaster
  handler,         \* ClientHandler of each connection: none, new, running, stopped
  handlerBox,      \* mailbox of each handler
  queue,           \* messages on their way down each websocket
  opened,          \* websockets each page has opened: the last is "websocket"
  readyState,      \* WebSocket.readyState at the page
  broken,          \* connections that no longer connect
  timers,          \* secTillReconnect of the countdowns each page runs
  published,       \* broadcasts so far
  faults,          \* faults so far
  received,        \* what came down each websocket
  skipped,         \* connections whose queue has dropped a message
  handled          \* the last broadcast that the broadcaster has handled

actors   == <<clients, broadcasterBox, handler, handlerBox>>
pages    == <<opened, readyState, timers>>
history  == <<received, skipped, handled>>
vars     == <<actors, queue, pages, broken, published, faults, history>>

\* Every websocket but a page's first follows upon a fault.
Connections == Browsers \X (1 .. MaxFaults + 1)

CONNECTING == "CONNECTING"
OPEN       == "OPEN"
CLOSED     == "CLOSED"

Message ==
  [type : {"MsgRegisterClient", "MsgDeregisterClient"}, client : Connections]
  \cup [type : {"MsgBroadcast"}, number : 1 .. MaxBroadcasts]

TypeOK ==
  /\ clients \subseteq Connections
  /\ broadcasterBox \in Seq(Message)
  /\ handler \in [Connections -> {"none", "new", "running", "stopped"}]
  /\ handlerBox \in [Connections -> Seq(1 .. MaxBroadcasts)]
  /\ queue \in [Connections -> Seq(1 .. MaxBroadcasts)]
  /\ \A c \in Connections : Len(queue[c]) <= BufferSize
  /\ opened \in [Browsers -> 0 .. MaxFaults + 1]
  /\ readyState \in [Connections -> {"none", CONNECTING, OPEN, CLOSED}]
  /\ broken \subseteq Connections
  /\ timers \in [Browsers -> Seq(0 .. ReconnectInterval)]
  /\ published \in 0 .. MaxBroadcasts
  /\ faults \in 0 .. MaxFaults
  /\ received \in [Connections -> Seq(1 .. MaxBroadcasts)]
  /\ skipped \subseteq Connections
  /\ handled \in 0 .. MaxBroadcasts

Init ==
  /\ clients = {}
  /\ broadcasterBox = << >>
  /\ handler = [c \in Connections |-> "none"]
  /\ handlerBox = [c \in Connections |-> << >>]
  /\ queue = [c \in Connections |-> << >>]
  /\ opened = [b \in Browsers |-> 0]
  /\ readyState = [c \in Connections |-> "none"]
  /\ broken = {}
  /\ timers = [b \in Browsers |-> << >>]
  /\ published = 0
  /\ faults = 0
  /\ received = [c \in Connections |-> << >>]
  /\ skipped = {}
  /\ handled = 0

-----------------------------------------------------------------------------
(* The page.                                                               *)

\* The connection of the variable "websocket" of a page that has been loaded.
Websocket(b) == <<b, opened[b]>>

IsWebsocketClosed(b, states) == states[Websocket(b)] = CLOSED

OpenWebsocket(b) ==
  /\ opened' = [opened EXCEPT ![b] = @ + 1]
  /\ readyState' = [readyState EXCEPT ![<<b, opened[b] + 1>>] = CONNECTING]

Load(b) ==
  /\ opened[b] = 0
  /\ OpenWebsocket(b)
  /\ UNCHANGED <<actors, queue, timers, broken, published, faults, history>>

OnOpen(b) ==
  LET c == Websocket(b) IN
  /\ opened[b] > 0 /\ readyState[c] = CONNECTING
  /\ handler[c] # "none" /\ c \notin broken
  /\ readyState' = [readyState EXCEPT ![c] = OPEN]
  /\ UNCHANGED <<actors, queue, opened, timers, broken, published, faults, history>>

\* Faulty variant of Reconnect: only pages that no longer connect would need
\* to (ReconnectsAfterFaults).
ReconnectIfOpen(b, states) ==
  timers' = IF IsWebsocketClosed(b, states)
            THEN timers
            ELSE [timers EXCEPT ![b] = Append(@, ReconnectInterval)]

Reconnect(b, states) ==
  timers' = IF IsWebsocketClosed(b, states)
            THEN [timers EXCEPT ![b] = Append(@, ReconnectInterval)]
            ELSE timers

OnClose(c) ==
  LET b == c[1]
      states == [readyState EXCEPT ![c] = CLOSED]
  IN
  /\ c \in broken /\ readyState[c] \in {CONNECTING, OPEN}
  /\ readyState' = states
  /\ Reconnect(b, states)
  /\ UNCHANGED <<actors, queue, opened, broken, published, faults, history>>

OnMessage(b) ==
  LET c == Websocket(b) IN
  /\ opened[b] > 0 /\ readyState[c] = OPEN /\ queue[c] # << >>
  /\ received' = [received EXCEPT ![c] = Append(@, Head(queue[c]))]
  /\ queue' = [queue EXCEPT ![c] = Tail(@)]
  /\ UNCHANGED <<actors, pages, broken, published, faults, skipped, handled>>

\* clearInterval of the countdown at place i.
ClearInterval(b, i) == timers' = [timers EXCEPT ![b] = RemoveAt(@, i)]

\* Faulty variant of TimerEnds: the countdown goes on (OneWayBack).
TimerGoesOn(b, i) == timers' = timers

TimerEnds(b, i) == ClearInterval(b, i)

\* A countdown of the page ticks, every second.
OnTimer(b, i) ==
  /\ IF ~IsWebsocketClosed(b, readyState)
     THEN ClearInterval(b, i) /\ UNCHANGED <<opened, readyState>>
     ELSE IF timers[b][i] <= 0
          THEN TimerEnds(b, i) /\ OpenWebsocket(b)
          ELSE /\ timers' = [timers EXCEPT ![b][i] = @ - 1]
               /\ UNCHANGED <<opened, readyState>>
  /\ UNCHANGED <<actors, queue, broken, published, faults, history>>

-----------------------------------------------------------------------------
(* The server.                                                             *)

\* WebsocketController.ws accepts: the handler is created.
Accept(c) ==
  /\ readyState[c] = CONNECTING /\ handler[c] = "none" /\ c \notin broken
  /\ handler' = [handler EXCEPT ![c] = "new"]
  /\ UNCHANGED <<clients, broadcasterBox, handlerBox, queue, pages, broken,
                 published, faults, history>>

Register(type, c) ==
  broadcasterBox' = Append(broadcasterBox, [type |-> type, client |-> c])

PreStart(c) ==
  /\ handler[c] = "new"
  /\ handler' = [handler EXCEPT ![c] = "running"]
  /\ Register("MsgRegisterClient", c)
  /\ UNCHANGED <<clients, handlerBox, queue, pages, broken, published, faults,
                 history>>

\* Faulty variant of SendDeregister: the handler just ends (NobodyIsForgotten).
SendNothing(c) == UNCHANGED broadcasterBox

SendDeregister(c) == Register("MsgDeregisterClient", c)

\* The server notices that the connection is gone and stops the handler; what
\* it had to send is lost.
PostStop(c) ==
  /\ c \in broken /\ handler[c] = "running"
  /\ handler' = [handler EXCEPT ![c] = "stopped"]
  /\ handlerBox' = [handlerBox EXCEPT ![c] = << >>]
  /\ queue' = [queue EXCEPT ![c] = << >>]
  /\ SendDeregister(c)
  /\ UNCHANGED <<clients, pages, broken, published, faults, history>>

\* A master, or the schedule of status messages, has something to broadcast.
Publish ==
  /\ published < MaxBroadcasts
  /\ published' = published + 1
  /\ broadcasterBox' = Append(broadcasterBox,
                              [type |-> "MsgBroadcast", number |-> published + 1])
  /\ UNCHANGED <<clients, handler, handlerBox, queue, pages, broken, faults, history>>

Receive(type) ==
  /\ broadcasterBox # << >>
  /\ Head(broadcasterBox).type = type
  /\ broadcasterBox' = Tail(broadcasterBox)
  /\ UNCHANGED <<handler, queue, pages, broken, published, faults, received, skipped>>

OnMsgRegisterClient ==
  /\ Receive("MsgRegisterClient")
  /\ clients' = clients \cup {Head(broadcasterBox).client}
  /\ UNCHANGED <<handlerBox, handled>>

OnMsgDeregisterClient ==
  /\ Receive("MsgDeregisterClient")
  /\ clients' = clients \ {Head(broadcasterBox).client}
  /\ UNCHANGED <<handlerBox, handled>>

\* Faulty variant of Recipients: handlers that have nothing to do (SameStream).
IdleRecipients == {c \in clients : handler[c] = "running" /\ handlerBox[c] = << >>}

\* Registered handlers; what is sent to a stopped one is a dead letter.
Recipients == {c \in clients : handler[c] = "running"}

OnMsgBroadcast ==
  /\ Receive("MsgBroadcast")
  /\ handled' = Head(broadcasterBox).number
  /\ handlerBox' = [c \in Connections |->
       IF c \in Recipients THEN Append(handlerBox[c], Head(broadcasterBox).number)
                           ELSE handlerBox[c]]
  /\ UNCHANGED clients

\* Faulty variant of HasRoom: one message too many (TypeOK).
HasRoomForOneMore(c) == Len(queue[c]) <= BufferSize

HasRoom(c) == Len(queue[c]) < BufferSize

\* Faulty variant of HandlerSends: a full queue drops its oldest message
\* (ImplementsService).
HandlerSendsDropOldest(c) ==
  /\ handlerBox[c] # << >>
  /\ handlerBox' = [handlerBox EXCEPT ![c] = Tail(@)]
  /\ IF HasRoom(c)
     THEN /\ queue' = [queue EXCEPT ![c] = Append(@, Head(handlerBox[c]))]
          /\ UNCHANGED skipped
     ELSE /\ queue' = [queue EXCEPT ![c] = Append(Tail(@), Head(handlerBox[c]))]
          /\ skipped' = skipped \cup {c}
  /\ UNCHANGED <<clients, broadcasterBox, handler, pages, broken, published,
                 faults, received, handled>>

\* The queue of a websocket drops what it has no room for (dropNew).
HandlerSends(c) ==
  /\ handlerBox[c] # << >>
  /\ handlerBox' = [handlerBox EXCEPT ![c] = Tail(@)]
  /\ IF HasRoom(c)
     THEN /\ queue' = [queue EXCEPT ![c] = Append(@, Head(handlerBox[c]))]
          /\ UNCHANGED skipped
     ELSE /\ skipped' = skipped \cup {c}
          /\ UNCHANGED queue
  /\ UNCHANGED <<clients, broadcasterBox, handler, pages, broken, published,
                 faults, received, handled>>

-----------------------------------------------------------------------------
(* Faults.                                                                 *)

IsLive(c) == readyState[c] \in {CONNECTING, OPEN}

\* The network, or the server by refusing it, breaks a connection.
Break(c) ==
  /\ faults < MaxFaults
  /\ faults' = faults + 1
  /\ IsLive(c) /\ c \notin broken
  /\ broken' = broken \cup {c}
  /\ UNCHANGED <<actors, queue, pages, published, history>>

\* The server crashes and is started again.
Restart ==
  /\ faults < MaxFaults
  /\ faults' = faults + 1
  /\ clients' = {}
  /\ broadcasterBox' = << >>
  /\ handler' = [c \in Connections |->
                   IF handler[c] = "none" THEN "none" ELSE "stopped"]
  /\ handlerBox' = [c \in Connections |-> << >>]
  /\ broken' = broken \cup {c \in Connections : IsLive(c)}
  /\ UNCHANGED <<queue, pages, published, history>>

BroadcasterStep == OnMsgRegisterClient \/ OnMsgDeregisterClient \/ OnMsgBroadcast

PageStep(b) ==
  \/ OnOpen(b)
  \/ OnMessage(b)
  \/ \E i \in DOMAIN timers[b] : OnTimer(b, i)

HandlerStep(c) == Accept(c) \/ PreStart(c) \/ PostStop(c) \/ HandlerSends(c)

Next ==
  \/ \E b \in Browsers : Load(b) \/ PageStep(b)
  \/ \E c \in Connections : OnClose(c) \/ HandlerStep(c) \/ Break(c)
  \/ BroadcasterStep
  \/ Publish
  \/ Restart

Spec == Init /\ [][Next]_vars

\* Actors run, timers tick, and both ends of a connection get what is there
\* for them in the end; nothing makes pages load, events come or faults happen.
Fairness ==
  /\ \A b \in Browsers : WF_vars(PageStep(b))
  /\ \A c \in Connections : WF_vars(OnClose(c)) /\ WF_vars(HandlerStep(c))
  /\ WF_vars(BroadcasterStep)

FairSpec == Spec /\ Fairness

-----------------------------------------------------------------------------
(* Safety.                                                                 *)

InMail(type, c) == Contains(broadcasterBox, [type |-> type, client |-> c])

\* preStart and postStop keep the broadcaster's set right: where it differs
\* from the handlers that run, the message that mends it is in the mailbox.
NobodyIsForgotten ==
  \A c \in Connections :
    /\ handler[c] = "running" /\ c \notin clients => InMail("MsgRegisterClient", c)
    /\ handler[c] = "stopped" /\ c \in clients => InMail("MsgDeregisterClient", c)
    /\ handler[c] = "stopped" /\ InMail("MsgRegisterClient", c) =>
         InMail("MsgDeregisterClient", c)

\* All a websocket has carried, and what is to come down it yet.
Stream(c) == received[c] \o queue[c] \o handlerBox[c]

\* "You'll see gauges in both browsers move in sync as they receive the same
\* stream of data from the server" (what_is_this.scala.html:53): every websocket
\* carries broadcasts in the order they were sent, none twice, and all of them
\* from the first one on, unless its queue was full.
SameStream ==
  \A c \in Connections :
    LET s == Stream(c) IN
    /\ \A i \in 1 .. Len(s) - 1 :
         s[i] < s[i + 1] /\ (c \notin skipped => s[i + 1] = s[i] + 1)
    /\ s # << >> /\ c \in Recipients /\ c \notin skipped => Last(s) = handled

\* A page that has lost its websocket runs one countdown and a page that has
\* one runs none, so that it never opens two or gives up; older ones are closed.
OneWayBack ==
  \A b \in Browsers : opened[b] > 0 =>
    /\ Len(timers[b]) = IF IsWebsocketClosed(b, readyState) THEN 1 ELSE 0
    /\ \A n \in 1 .. opened[b] - 1 : readyState[<<b, n>>] = CLOSED

-----------------------------------------------------------------------------
(* The service that the websockets see.                                    *)

\* The broadcasts in the mailbox are the last ones; the one before them has
\* been announced, or was lost when the server crashed.
Waiting == {broadcasterBox[i].number :
              i \in {j \in DOMAIN broadcasterBox : broadcasterBox[j].type = "MsgBroadcast"}}

Announced == CHOOSE n \in 0 .. published : Waiting = n + 1 .. published

Coming == [c \in Connections |-> queue[c] \o handlerBox[c]]

Service == INSTANCE PushService WITH
  Listeners <- Connections, Capacity <- BufferSize, sent <- published,
  announced <- Announced, listening <- Recipients, coming <- Coming,
  heard <- received

\* However registrations, broadcasts, lost connections and restarts interleave,
\* websockets see the service that PushService describes: all listeners are told
\* the same at the same time, from the oldest on, and only a full queue drops a
\* message, the newest one.
ImplementsService == Service!Spec

-----------------------------------------------------------------------------
(* Liveness.                                                               *)

\* "The front-end re-establishes the Websocket connection after such server
\* restarts" (what_is_this.scala.html:91-92): after the last fault every page
\* gets to a websocket whose handler is registered, and stays there.
ReconnectsAfterFaults ==
  \A b \in Browsers : <>[](opened[b] = 0 \/ Websocket(b) \in clients)
=============================================================================
