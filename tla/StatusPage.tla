------------------------------ MODULE StatusPage ------------------------------
(***************************************************************************)
(* What an open page shows of the server: the banner with the countdown    *)
(* to the next websocket (javascripts/websocket.js, messages.js), the      *)
(* responsiveness gauge (responsiveness-gauge.js), which rates the status  *)
(* messages of the last seconds, and the markers on the map (map.js).      *)
(*                                                                         *)
(* The clock counts the seconds of getCurrentSeconds.  Timers are prompt:  *)
(* a second does not end before the callbacks due in it have run, in any   *)
(* order.  Messages and failures come at any time; that a page runs one    *)
(* countdown at most is ClientBroadcaster's OneWayBack.                    *)
(*                                                                         *)
(* The variables events, closedAt and missedAt are history variables.      *)
(*                                                                         *)
(* An operator introduced as a "faulty variant" is used by no behaviour:   *)
(* it is the mistake that the property named with it is there to exclude.  *)
(***************************************************************************)
EXTENDS Integers, Sequences, FiniteSets

CONSTANTS
  PingHistoryLength,  \* PING_HISTORY_LENGTH
  ReconnectInterval,  \* RECONNECT_INTERVAL_SEC
  UpdateInterval,     \* seconds between updates of the gauge
  PersistMarker,      \* INTERVAL_PERSIST_MARKER_SEC
  MaxEvents,          \* bound: solutions and logins
  MaxTime             \* bound: the clock stops here

ASSUME StatusAssumption ==
  /\ PingHistoryLength \in Nat \ {0}
  /\ ReconnectInterval \in Nat
  /\ UpdateInterval \in Nat \ {0}
  /\ PersistMarker \in Nat \ {0}
  /\ MaxEvents \in Nat
  /\ MaxTime \in Nat

VARIABLES
  now,               \* getCurrentSeconds()
  readyState,        \* of the page's websocket
  secTillReconnect,  \* of the countdown, or NONE when there is none
  nextTick,          \* when the countdown ticks next
  error,             \* seconds announced by the banner, or NONE
  pingHistory,       \* pingHistory
  gauge,             \* value of the gauge
  nextUpdate,        \* when the gauge is updated next
  mapReady,          \* initMap has run
  markers,           \* events whose marker is on the map
  timeouts,          \* events whose marker will be removed
  events,            \* solutions and logins pushed so far
  closedAt,          \* when the websocket was closed last
  missedAt           \* the last second without a ping or with a closed websocket

countdown  == <<secTillReconnect, nextTick, error>>
gauges     == <<pingHistory, gauge, nextUpdate>>
map        == <<mapReady, markers, timeouts, events>>
vars       == <<now, readyState, countdown, gauges, map, closedAt, missedAt>>

NONE == -1

CONNECTING == "CONNECTING"
OPEN       == "OPEN"
CLOSING    == "CLOSING"
CLOSED     == "CLOSED"

Event == [at : Nat, plotted : BOOLEAN]

TypeOK ==
  /\ now \in Nat
  /\ readyState \in {CONNECTING, OPEN, CLOSING, CLOSED}
  /\ secTillReconnect \in {NONE} \cup 0 .. ReconnectInterval
  /\ nextTick \in Nat
  /\ error \in {NONE} \cup 0 .. ReconnectInterval
  /\ pingHistory \in Seq(Nat)
  /\ Len(pingHistory) <= PingHistoryLength
  /\ \A i, j \in 1 .. Len(pingHistory) : i < j => pingHistory[i] < pingHistory[j]
  /\ gauge \in 0 .. 100
  /\ nextUpdate \in Nat
  /\ mapReady \in BOOLEAN
  /\ events \in Seq(Event)
  /\ markers \subseteq 1 .. Len(events)
  /\ timeouts \subseteq 1 .. Len(events)
  /\ closedAt \in Nat
  /\ missedAt \in Nat

Init ==
  /\ now = 1
  /\ readyState = CONNECTING
  /\ secTillReconnect = NONE
  /\ nextTick = 0
  /\ error = NONE
  /\ pingHistory = << >>
  /\ gauge = 100
  /\ nextUpdate = 1 + UpdateInterval
  /\ mapReady = FALSE
  /\ markers = {}
  /\ timeouts = {}
  /\ events = << >>
  /\ closedAt = 0
  /\ missedAt = 0

IsWebsocketClosed == readyState \in {CLOSING, CLOSED}

-----------------------------------------------------------------------------
(* The websocket and its countdown.                                        *)

OnOpen ==
  /\ readyState = CONNECTING
  /\ readyState' = OPEN
  /\ UNCHANGED <<now, countdown, gauges, map, closedAt, missedAt>>

UpdateError(seconds) == error' = seconds

ClearError == error' = NONE

\* The closing handshake begins; the page hears nothing of it or of the server.
Closing ==
  /\ readyState = OPEN
  /\ readyState' = CLOSING
  /\ missedAt' = now
  /\ UNCHANGED <<now, countdown, gauges, map, closedAt>>

\* The connection is closed, fails or is refused.  What onError has written before
\* is overwritten here: the browser calls both in one task.
OnClose ==
  /\ readyState # CLOSED
  /\ readyState' = CLOSED
  /\ UpdateError(ReconnectInterval)
  /\ secTillReconnect' = ReconnectInterval
  /\ nextTick' = now + 1
  /\ closedAt' = now
  /\ missedAt' = now
  /\ UNCHANGED <<now, gauges, map>>

\* Faulty variant of TimerEnds: the last announcement stays (BannerIsHonest).
TimerEndsSilently == secTillReconnect' = NONE /\ UNCHANGED error

TimerEnds == secTillReconnect' = NONE /\ ClearError

IsOver == secTillReconnect <= 0

IsTickDue == secTillReconnect # NONE /\ nextTick <= now

OnTimer ==
  /\ IsTickDue
  /\ nextTick' = now + 1
  /\ IF ~IsWebsocketClosed
     THEN TimerEnds /\ UNCHANGED readyState
     ELSE IF IsOver
          THEN TimerEnds /\ readyState' = CONNECTING
          ELSE /\ UpdateError(secTillReconnect)
               /\ secTillReconnect' = secTillReconnect - 1
               /\ UNCHANGED readyState
  /\ UNCHANGED <<now, gauges, map, closedAt, missedAt>>

-----------------------------------------------------------------------------
(* The responsiveness gauge.                                               *)

HasPinged(second) == \E i \in DOMAIN pingHistory : pingHistory[i] = second

\* Faulty variants of Remember: room for one more (TypeOK); the newest ping
\* makes room instead of the oldest (GaugeRecovers).
RememberOneMore(second) ==
  IF Len(pingHistory) > PingHistoryLength
  THEN Append(Tail(pingHistory), second)
  ELSE Append(pingHistory, second)

RememberOldest(second) ==
  IF Len(pingHistory) >= PingHistoryLength
  THEN [pingHistory EXCEPT ![Len(pingHistory)] = second]
  ELSE Append(pingHistory, second)

Remember(second) ==
  IF Len(pingHistory) >= PingHistoryLength
  THEN Append(Tail(pingHistory), second)
  ELSE Append(pingHistory, second)

\* Of delayed pings that come together one counts; the others do nothing.
SystemStatusPing ==
  /\ ~HasPinged(now)
  /\ pingHistory' = Remember(now)

OnStatus ==
  /\ readyState = OPEN
  /\ SystemStatusPing
  /\ UNCHANGED <<now, readyState, countdown, gauge, nextUpdate, map, closedAt, missedAt>>

\* Faulty variant of IsRecent: the window is a second shorter
\* (OnlyMissedSecondsCount).
IsRecentStrictly(i) == pingHistory[i] > now - Len(pingHistory)

IsRecent(i) == pingHistory[i] >= now - Len(pingHistory)

TimeWindowPings == Cardinality({i \in 1 .. Len(pingHistory) : IsRecent(i)})

\* Math.round(100 * timeWindowPings / pingHistory.length)
Percentage == (200 * TimeWindowPings + Len(pingHistory)) \div (2 * Len(pingHistory))

\* Faulty variant of Responsiveness: no special case of a lost websocket
\* (GaugeShowsLoss).
ResponsivenessOfPings == IF pingHistory = << >> THEN 100 ELSE Percentage

Responsiveness ==
  IF IsWebsocketClosed THEN 0
  ELSE IF pingHistory = << >> THEN 100
  ELSE Percentage

ResponsivenessGaugeUpdate ==
  /\ nextUpdate <= now
  /\ nextUpdate' = now + UpdateInterval
  /\ gauge' = Responsiveness
  /\ UNCHANGED <<now, readyState, countdown, pingHistory, map, closedAt, missedAt>>

-----------------------------------------------------------------------------
(* The map.                                                                *)

InitMap ==
  /\ ~mapReady
  /\ mapReady' = TRUE
  /\ UNCHANGED <<now, readyState, countdown, gauges, markers, timeouts, events,
                 closedAt, missedAt>>

\* A solution or a login, of a user whose place is known or not.  Before the
\* map has loaded mapEvent throws, when everything else has been done.
MapEvent(hasPlace) ==
  LET plotted == hasPlace /\ mapReady
      new     == IF plotted THEN {Len(events) + 1} ELSE {}
  IN
  /\ readyState = OPEN
  /\ Len(events) < MaxEvents
  /\ events' = Append(events, [at |-> now, plotted |-> plotted])
  /\ markers' = markers \cup new
  /\ timeouts' = timeouts \cup new
  /\ UNCHANGED <<now, readyState, countdown, gauges, mapReady, closedAt, missedAt>>

\* Faulty variant of MarkerOf: all timeouts share one variable "marker"
\* (MapShowsRecentEvents).
LastMarker(n) == Len(events)

MarkerOf(n) == n

IsTimeoutDue(n) == events[n].at + PersistMarker <= now

RemoveMarker(n) ==
  /\ n \in timeouts /\ IsTimeoutDue(n)
  /\ timeouts' = timeouts \ {n}
  /\ markers' = markers \ {MarkerOf(n)}
  /\ UNCHANGED <<now, readyState, countdown, gauges, mapReady, events, closedAt, missedAt>>

-----------------------------------------------------------------------------
Tick ==
  /\ now < MaxTime
  /\ ~IsTickDue /\ nextUpdate > now
  /\ \A n \in timeouts : ~IsTimeoutDue(n)
  /\ now' = now + 1
  /\ missedAt' = IF HasPinged(now) THEN missedAt ELSE now
  /\ UNCHANGED <<readyState, countdown, gauges, map, closedAt>>

Next ==
  \/ OnOpen \/ Closing \/ OnClose \/ OnTimer
  \/ OnStatus \/ ResponsivenessGaugeUpdate
  \/ InitMap
  \/ \E hasPlace \in BOOLEAN : MapEvent(hasPlace)
  \/ \E n \in 1 .. MaxEvents : RemoveMarker(n)
  \/ Tick

Spec == Init /\ [][Next]_vars

-----------------------------------------------------------------------------
(* Safety.                                                                 *)

\* "Attempt to reconnect websocket after interval seconds with a countdown"
\* (websocket.js:83), and "Will attempt to re-connect in" as many seconds is what
\* the page announces when it loses the websocket (websocket.js:33, 106).
ReconnectsOnTime ==
  [][readyState = CLOSED /\ readyState' # CLOSED =>
       now = closedAt + ReconnectInterval]_vars

\* The banner is there as long as there is no websocket and goes with the next
\* one.  From the first tick of each countdown on it announces exactly the seconds
\* that are left until the page does reconnect; before that, the interval.
BannerIsHonest ==
  IF readyState = CLOSED
  THEN /\ error # NONE
       /\ now = closedAt => error = ReconnectInterval
       /\ now # closedAt /\ ~IsTickDue =>
            now + error = closedAt + ReconnectInterval + 1
  ELSE error = NONE

\* The seconds since the first ping of the history that had none.
MissedSeconds == now - pingHistory[1] + 1 - Len(pingHistory)

\* "We allow up to 1.0 seconds interval per ping before penalizing
\* responsiveness" (responsiveness-gauge.js:37): every ping that counts as late
\* is owed to a second that passed without any, and the first of these is free;
\* after a silence longer than the history none counts as recent.
OnlyMissedSecondsCount ==
  pingHistory # << >> =>
    /\ TimeWindowPings = Len(pingHistory)
         \/ Len(pingHistory) - TimeWindowPings <= MissedSeconds - 1
    /\ now - pingHistory[Len(pingHistory)] > Len(pingHistory) => TimeWindowPings = 0

\* The gauge is at 0 once it has been updated after the loss of the websocket.
GaugeShowsLoss ==
  readyState = CLOSED /\ now - closedAt > UpdateInterval => gauge = 0

\* "It should be at or near 100% until the server becomes overloaded with
\* problems" (what_is_this.scala.html:36): once as many seconds as the history
\* is long have had their ping, the gauge is back at 100 with its next update,
\* whatever went before.
GaugeRecovers ==
  now - missedAt > PingHistoryLength + UpdateInterval => gauge = 100

\* "Plot a marker (and remove it after the timeout)" (map.js:17): every event
\* that was plotted is on the map for its time and no longer, also when others
\* follow in the meantime.
MapShowsRecentEvents ==
  \A n \in 1 .. Len(events) :
    /\ events[n].plotted /\ now < events[n].at + PersistMarker => n \in markers
    /\ n \in markers => events[n].plotted /\ now <= events[n].at + PersistMarker
=============================================================================
