-------------------------- MODULE StatusPageProofs --------------------------
(***************************************************************************)
(* Theorems about StatusPage for histories, intervals and bounds of any    *)
(* length.                                                                 *)
(***************************************************************************)
EXTENDS StatusPage, SequenceTheorems, FiniteSetTheorems, TLAPS

-----------------------------------------------------------------------------
(* The history of pings.                                                   *)

\* Pings are remembered in the order of their seconds, none twice.
Spaced(h) == \A i, j \in 1 .. Len(h) : i <= j => h[j] - h[i] >= j - i

HistoryInv ==
  /\ Spaced(pingHistory)
  /\ \A i \in 1 .. Len(pingHistory) : pingHistory[i] <= now

\* A remembered ping is the last one, and those before it keep their distance
\* from the end: the newest is dropped never, the oldest when there is no room.
LEMMA RememberFacts ==
  ASSUME TypeOK, NEW second \in Nat
  PROVE  LET h == Remember(second) IN
         /\ h \in Seq(Nat)
         /\ Len(h) \in 1 .. PingHistoryLength
         /\ h[Len(h)] = second
         /\ \/ /\ Len(h) = Len(pingHistory) + 1
               /\ \A i \in 1 .. Len(h) - 1 : h[i] = pingHistory[i]
            \/ /\ Len(h) = Len(pingHistory)
               /\ Len(h) = PingHistoryLength
               /\ \A i \in 1 .. Len(h) - 1 : h[i] = pingHistory[i + 1]
<1> DEFINE h == Remember(second)
<1> USE StatusAssumption DEF TypeOK
<1>1. CASE Len(pingHistory) >= PingHistoryLength
  <2> DEFINE t == Tail(pingHistory)
  <2>1. h = Append(t, second)
    BY <1>1 DEF Remember
  <2>2. pingHistory # << >>
    BY <1>1
  <2>3. /\ t \in Seq(Nat) /\ Len(t) = Len(pingHistory) - 1
        /\ \A i \in 1 .. Len(t) : t[i] = pingHistory[i + 1]
    BY <2>2, HeadTailProperties
  <2> HIDE DEF t
  <2>4. /\ h \in Seq(Nat) /\ Len(h) = Len(t) + 1 /\ h[Len(t) + 1] = second
        /\ \A i \in 1 .. Len(t) : h[i] = t[i]
    BY <2>1, <2>3, AppendProperties
  <2> QED BY <1>1, <2>3, <2>4
<1>2. CASE ~(Len(pingHistory) >= PingHistoryLength)
  <2>1. h = Append(pingHistory, second)
    BY <1>2 DEF Remember
  <2>2. /\ h \in Seq(Nat) /\ Len(h) = Len(pingHistory) + 1
        /\ h[Len(pingHistory) + 1] = second
        /\ \A i \in 1 .. Len(pingHistory) : h[i] = pingHistory[i]
    BY <2>1, AppendProperties
  <2> QED BY <1>2, <2>2
<1> QED BY <1>1, <1>2

\* Remembering a second that no ping has yet keeps the history in order.
LEMMA RememberSpaced ==
  ASSUME TypeOK, HistoryInv, ~HasPinged(now)
  PROVE  /\ Spaced(Remember(now))
         /\ \A i \in 1 .. Len(Remember(now)) : Remember(now)[i] <= now
<1> DEFINE h == Remember(now)
           n == Len(pingHistory)
<1>1. /\ h \in Seq(Nat) /\ h[Len(h)] = now /\ Len(h) \in Nat
      /\ \/ Len(h) = n + 1 /\ \A i \in 1 .. Len(h) - 1 : h[i] = pingHistory[i]
         \/ Len(h) = n /\ \A i \in 1 .. Len(h) - 1 : h[i] = pingHistory[i + 1]
  <2>1. now \in Nat
    BY DEF TypeOK
  <2>2. /\ h \in Seq(Nat)
        /\ h[Len(h)] = now
        /\ \/ /\ Len(h) = n + 1
              /\ \A i \in 1 .. Len(h) - 1 : h[i] = pingHistory[i]
           \/ /\ Len(h) = n
              /\ \A i \in 1 .. Len(h) - 1 : h[i] = pingHistory[i + 1]
    BY <2>1, RememberFacts
  <2> HIDE DEF h
  <2>3. Len(h) \in Nat
    BY <2>2
  <2> QED BY <2>2, <2>3
<1>2. n \in Nat /\ now \in Nat /\ \A i \in 1 .. n : pingHistory[i] \in Nat
  BY DEF TypeOK
<1>3. \A i \in 1 .. n : pingHistory[i] < now
  BY <1>2 DEF HistoryInv, HasPinged, TypeOK
<1>4. \A i \in 1 .. n : now - pingHistory[i] >= n + 1 - i
  <2> SUFFICES ASSUME NEW i \in 1 .. n PROVE now - pingHistory[i] >= n + 1 - i
    OBVIOUS
  <2>1. pingHistory[n] - pingHistory[i] >= n - i
    BY <1>2 DEF HistoryInv, Spaced
  <2> QED BY <2>1, <1>2, <1>3
<1> HIDE DEF h
<1>5. Spaced(h)
  <2> SUFFICES ASSUME NEW i \in 1 .. Len(h), NEW j \in 1 .. Len(h), i <= j
               PROVE  h[j] - h[i] >= j - i
    BY DEF Spaced
  <2>1. CASE j = Len(h)
    <3>1. CASE i = j
      <4>1. h[i] \in Nat
        BY <1>1
      <4> QED BY <3>1, <4>1
    <3>2. CASE i < j
      <4>1. CASE Len(h) = n + 1 /\ \A k \in 1 .. Len(h) - 1 : h[k] = pingHistory[k]
        <5>1. i \in 1 .. n /\ h[i] = pingHistory[i] /\ h[j] = now /\ j = n + 1
          BY <2>1, <3>2, <4>1, <1>1, <1>2
        <5> QED BY <5>1, <1>4
      <4>2. CASE Len(h) = n /\ \A k \in 1 .. Len(h) - 1 : h[k] = pingHistory[k + 1]
        <5>1. i + 1 \in 1 .. n /\ h[i] = pingHistory[i + 1] /\ h[j] = now /\ j = n
          BY <2>1, <3>2, <4>2, <1>1, <1>2
        <5>2. now - pingHistory[i + 1] >= n + 1 - (i + 1)
          BY <5>1, <1>4
        <5> QED BY <5>1, <5>2, <1>2
      <4> QED BY <4>1, <4>2, <1>1
    <3> QED BY <3>1, <3>2
  <2>2. CASE j < Len(h)
    <3>1. CASE Len(h) = n + 1 /\ \A k \in 1 .. Len(h) - 1 : h[k] = pingHistory[k]
      <4>1. i \in 1 .. n /\ j \in 1 .. n
        BY <2>2, <3>1, <1>1, <1>2
      <4>2. h[i] = pingHistory[i] /\ h[j] = pingHistory[j]
        BY <3>1, <4>1, <1>2
      <4> QED BY <4>1, <4>2, <1>2 DEF HistoryInv, Spaced
    <3>2. CASE Len(h) = n /\ \A k \in 1 .. Len(h) - 1 : h[k] = pingHistory[k + 1]
      <4>1. i + 1 \in 1 .. n /\ j + 1 \in 1 .. n
        BY <2>2, <3>2, <1>1, <1>2
      <4>2. h[i] = pingHistory[i + 1] /\ h[j] = pingHistory[j + 1]
        BY <2>2, <3>2, <1>1, <1>2
      <4> QED BY <4>1, <4>2, <1>2 DEF HistoryInv, Spaced
    <3> QED BY <1>1, <3>1, <3>2
  <2> QED BY <2>1, <2>2, <1>1
<1>6. \A i \in 1 .. Len(h) : h[i] <= now
  <2> SUFFICES ASSUME NEW i \in 1 .. Len(h) PROVE h[i] <= now
    OBVIOUS
  <2>1. CASE i = Len(h)
    BY <2>1, <1>1, <1>2
  <2>2. CASE i # Len(h)
    <3>1. i \in 1 .. Len(h) - 1
      BY <2>2, <1>1
    <3>2. \E k \in 1 .. n : h[i] = pingHistory[k]
      <4>1. CASE Len(h) = n + 1 /\ \A k \in 1 .. Len(h) - 1 : h[k] = pingHistory[k]
        BY <3>1, <4>1, <1>2
      <4>2. CASE Len(h) = n /\ \A k \in 1 .. Len(h) - 1 : h[k] = pingHistory[k + 1]
        <5>1. i + 1 \in 1 .. n /\ h[i] = pingHistory[i + 1]
          BY <3>1, <4>2, <1>2
        <5> QED BY <5>1
      <4> QED BY <4>1, <4>2, <1>1
    <3> QED BY <3>2, <1>2, <1>3
  <2> QED BY <2>1, <2>2
<1> QED BY <1>5, <1>6 DEF h

-----------------------------------------------------------------------------
(* The rating.                                                             *)

LEMMA UpToFacts ==
  ASSUME NEW k \in Int
  PROVE  /\ IsFiniteSet(1 .. k)
         /\ Cardinality(1 .. k) = IF 1 > k THEN 0 ELSE k
<1>1. /\ IsFiniteSet(1 .. k)
      /\ Cardinality(1 .. k) = IF 1 > k THEN 0 ELSE k - 1 + 1
  BY FS_Interval
<1>2. k - 1 + 1 = k
  OBVIOUS
<1> QED BY <1>1, <1>2

LEMMA WindowFacts ==
  ASSUME TypeOK
  PROVE  /\ TimeWindowPings \in 0 .. Len(pingHistory)
         /\ {i \in 1 .. Len(pingHistory) : IsRecent(i)} = 1 .. Len(pingHistory)
              => TimeWindowPings = Len(pingHistory)
         /\ {i \in 1 .. Len(pingHistory) : IsRecent(i)} = {} => TimeWindowPings = 0
<1> DEFINE n == Len(pingHistory)
           K == {i \in 1 .. n : IsRecent(i)}
<1>1. n \in Nat
  BY DEF TypeOK
<1>2. IsFiniteSet(1 .. n) /\ Cardinality(1 .. n) = n
  <2> HIDE DEF n
  <2> QED BY <1>1, UpToFacts
<1>3. IsFiniteSet(K) /\ Cardinality(K) <= n /\ Cardinality(K) \in Nat
  BY <1>1, <1>2, FS_Subset, FS_CardinalityType
<1>4. K = {} => Cardinality(K) = 0
  BY FS_EmptySet
<1>5. K = 1 .. n => Cardinality(K) = n
  BY <1>2
<1>6. TimeWindowPings = Cardinality(K)
  BY DEF TimeWindowPings
<1> HIDE DEF n, K
<1>7. TimeWindowPings \in 0 .. n
  BY <1>1, <1>3, <1>6
<1> QED BY <1>4, <1>5, <1>6, <1>7 DEF n, K

\* A quotient is at most q if the dividend is below q + 1 times the divisor.
LEMMA QuotientBound ==
  ASSUME NEW a \in Nat, NEW b \in Nat \ {0}, a <= 100 * b + b - 1
  PROVE  a \div b \in 0 .. 100
<1> DEFINE d == a \div b
           r == a % b
<1>1. d \in Int /\ r \in 0 .. b - 1 /\ a = b * d + r
  OBVIOUS
<1> HIDE DEF d, r
<1>2. d >= 0
  <2> SUFFICES ASSUME d <= -1 PROVE FALSE
    BY <1>1
  <2>1. b * d <= b * (-1)
    BY <1>1
  <2> QED BY <1>1, <2>1
<1>3. d <= 100
  <2> SUFFICES ASSUME d >= 101 PROVE FALSE
    BY <1>1
  <2>1. b * d >= b * 101
    BY <1>1
  <2> QED BY <1>1, <2>1
<1> QED BY <1>1, <1>2, <1>3 DEF d

LEMMA QuotientIs100 ==
  ASSUME NEW n \in Nat \ {0}
  PROVE  (200 * n + n) \div (2 * n) = 100
<1> DEFINE d == (200 * n + n) \div (2 * n)
           r == (200 * n + n) % (2 * n)
<1>1. d \in Int /\ r \in 0 .. 2 * n - 1 /\ 200 * n + n = (2 * n) * d + r
  OBVIOUS
<1> HIDE DEF d, r
<1>2. ~(d <= 99)
  <2> SUFFICES ASSUME d <= 99 PROVE FALSE
    OBVIOUS
  <2>1. (2 * n) * d <= (2 * n) * 99
    BY <1>1
  <2> QED BY <1>1, <2>1
<1>3. ~(d >= 101)
  <2> SUFFICES ASSUME d >= 101 PROVE FALSE
    OBVIOUS
  <2>1. (2 * n) * d >= (2 * n) * 101
    BY <1>1
  <2> QED BY <1>1, <2>1
<1> QED BY <1>1, <1>2, <1>3 DEF d

LEMMA ResponsivenessType ==
  ASSUME TypeOK
  PROVE  Responsiveness \in 0 .. 100
<1>1. CASE pingHistory = << >>
  BY <1>1 DEF Responsiveness
<1>2. CASE pingHistory # << >>
  <2> DEFINE n == Len(pingHistory)
             k == TimeWindowPings
  <2>1. n \in Nat \ {0} /\ k \in 0 .. n
    BY <1>2, WindowFacts DEF TypeOK
  <2> HIDE DEF n, k
  <2>2. 200 * k + n \in Nat /\ 2 * n \in Nat \ {0}
    BY <2>1
  <2>3. 200 * k + n <= 100 * (2 * n) + 2 * n - 1
    BY <2>1
  <2>4. (200 * k + n) \div (2 * n) \in 0 .. 100
    BY <2>2, <2>3, QuotientBound
  <2> QED BY <2>4 DEF Responsiveness, Percentage, n, k
<1> QED BY <1>1, <1>2

-----------------------------------------------------------------------------
(* Types.                                                                  *)

\* A history in which seconds keep their distance has none twice.
LEMMA SpacedIsSorted ==
  ASSUME NEW h \in Seq(Nat), Spaced(h)
  PROVE  \A i, j \in 1 .. Len(h) : i < j => h[i] < h[j]
<1> SUFFICES ASSUME NEW i \in 1 .. Len(h), NEW j \in 1 .. Len(h), i < j
             PROVE  h[i] < h[j]
  OBVIOUS
<1>1. h[j] - h[i] >= j - i
  BY DEF Spaced
<1>2. h[i] \in Nat /\ h[j] \in Nat
  OBVIOUS
<1> QED BY <1>1, <1>2

LEMMA EventAppended ==
  ASSUME TypeOK, NEW e \in Event, events' = Append(events, e)
  PROVE  /\ events' \in Seq(Event)
         /\ Len(events') = Len(events) + 1
         /\ events'[Len(events) + 1] = e
         /\ \A n \in 1 .. Len(events) : events'[n] = events[n]
  BY AppendProperties DEF TypeOK

\* The history is in order, and the state has its types.
TypeInv == TypeOK /\ HistoryInv

LEMMA TypeInvInit == Init => TypeInv
<1> SUFFICES ASSUME Init PROVE TypeInv
  OBVIOUS
<1>1. pingHistory \in Seq(Nat) /\ Len(pingHistory) = 0
  BY DEF Init
<1>2. events \in Seq(Event)
  BY DEF Init
<1>3. HistoryInv
  BY <1>1 DEF HistoryInv, Spaced
<1>4. \A i, j \in 1 .. Len(pingHistory) : i < j => pingHistory[i] < pingHistory[j]
  BY <1>1
<1>5. markers \subseteq 1 .. Len(events) /\ timeouts \subseteq 1 .. Len(events)
  BY DEF Init
<1>6. Len(pingHistory) <= PingHistoryLength
  BY <1>1, StatusAssumption
<1>7. TypeOK
  <2>1. /\ now \in Nat /\ nextTick \in Nat /\ nextUpdate \in Nat
        /\ closedAt \in Nat /\ missedAt \in Nat /\ gauge \in 0 .. 100
        /\ secTillReconnect \in {NONE} \cup 0 .. ReconnectInterval
        /\ error \in {NONE} \cup 0 .. ReconnectInterval
    BY StatusAssumption DEF Init
  <2>2. readyState \in {CONNECTING, OPEN, CLOSING, CLOSED} /\ mapReady \in BOOLEAN
    BY DEF Init
  <2> QED BY <2>1, <2>2, <1>1, <1>2, <1>4, <1>5, <1>6 DEF TypeOK
<1> QED BY <1>3, <1>7 DEF TypeInv

LEMMA TypeInvNext == TypeInv /\ [Next]_vars => TypeInv'
<1> SUFFICES ASSUME TypeInv, [Next]_vars
             PROVE  TypeInv'
  OBVIOUS
<1> USE StatusAssumption DEF TypeInv
<1>1. CASE OnOpen
  BY <1>1 DEF OnOpen, TypeOK, HistoryInv, countdown, gauges, map
<1>2. CASE OnClose
  BY <1>2 DEF OnClose, TypeOK, HistoryInv, countdown, gauges, map, UpdateError
<1>3. CASE OnTimer
  BY <1>3 DEF OnTimer, TypeOK, HistoryInv, countdown, gauges, map, UpdateError,
              ClearError, TimerEnds, IsOver, IsTickDue, NONE
<1>4. CASE OnStatus
  <2>1. now \in Nat
    BY DEF TypeOK
  <2>2. /\ pingHistory' \in Seq(Nat)
        /\ Len(pingHistory') \in 1 .. PingHistoryLength
    BY <1>4, <2>1, RememberFacts DEF OnStatus, SystemStatusPing
  <2>3. HistoryInv'
    BY <1>4, RememberSpaced DEF OnStatus, SystemStatusPing, HistoryInv
  <2>4. \A i, j \in 1 .. Len(pingHistory') : i < j => pingHistory'[i] < pingHistory'[j]
    BY <2>2, <2>3, SpacedIsSorted DEF HistoryInv
  <2> QED BY <1>4, <2>2, <2>3, <2>4 DEF OnStatus, SystemStatusPing, TypeOK, countdown, map
<1>5. CASE ResponsivenessGaugeUpdate
  <2>1. gauge' \in 0 .. 100
    BY <1>5, ResponsivenessType DEF ResponsivenessGaugeUpdate
  <2>2. nextUpdate' \in Nat
    BY <1>5 DEF ResponsivenessGaugeUpdate, TypeOK
  <2> QED BY <1>5, <2>1, <2>2 DEF ResponsivenessGaugeUpdate, TypeOK, HistoryInv,
                                  countdown, map
<1>6. CASE InitMap
  BY <1>6 DEF InitMap, TypeOK, HistoryInv, countdown, gauges
<1>7. ASSUME NEW hasPlace \in BOOLEAN, MapEvent(hasPlace)
      PROVE  TypeInv'
  <2> DEFINE e == [at |-> now, plotted |-> hasPlace /\ mapReady]
  <2>1. e \in Event
    BY DEF TypeOK, Event
  <2>2. events' = Append(events, e)
    BY <1>7 DEF MapEvent
  <2>3. events' \in Seq(Event) /\ Len(events') = Len(events) + 1
    BY <2>1, <2>2, EventAppended
  <2> HIDE DEF e
  <2>4. Len(events) \in Nat
    BY DEF TypeOK
  <2>5. markers' \subseteq 1 .. Len(events') /\ timeouts' \subseteq 1 .. Len(events')
    <3> DEFINE new == IF hasPlace /\ mapReady THEN {Len(events) + 1} ELSE {}
    <3>1. markers' = markers \cup new /\ timeouts' = timeouts \cup new
      BY <1>7 DEF MapEvent
    <3>2. new \subseteq 1 .. Len(events')
      BY <2>3, <2>4
    <3>3. markers \subseteq 1 .. Len(events') /\ timeouts \subseteq 1 .. Len(events')
      BY <2>3, <2>4 DEF TypeOK
    <3> QED BY <3>1, <3>2, <3>3
  <2> QED BY <1>7, <2>3, <2>5 DEF MapEvent, TypeOK, HistoryInv, countdown, gauges
<1>8. ASSUME NEW n \in 1 .. MaxEvents, RemoveMarker(n)
      PROVE  TypeInv'
  <2>1. events' = events /\ markers' \subseteq markers /\ timeouts' \subseteq timeouts
    BY <1>8 DEF RemoveMarker
  <2> QED BY <1>8, <2>1 DEF RemoveMarker, TypeOK, HistoryInv, countdown, gauges
<1>9. CASE Tick
  BY <1>9 DEF Tick, TypeOK, HistoryInv, countdown, gauges, map
<1>10. CASE UNCHANGED vars
  BY <1>10 DEF vars, TypeOK, HistoryInv, countdown, gauges, map
<1>11. CASE Closing
  BY <1>11 DEF Closing, TypeOK, HistoryInv, countdown, gauges, map
<1> QED BY <1>1, <1>2, <1>3, <1>4, <1>5, <1>6, <1>7, <1>8, <1>9, <1>10, <1>11 DEF Next

\* In every state the page can be in, all its variables have their types and
\* the seconds of the ping history are in order, no more than it may hold
\* (systemStatusPing).
THEOREM TypeCorrect == Spec => []TypeOK
<1>1. Spec => []TypeInv
  BY TypeInvInit, TypeInvNext, PTL DEF Spec
<1>2. TypeInv => TypeOK
  BY DEF TypeInv
<1> QED BY <1>1, <1>2, PTL

-----------------------------------------------------------------------------
(* The countdown.                                                          *)

\* A countdown runs as long as the websocket is closed; after k ticks it has
\* counted k seconds down, its next tick is k + 1 seconds after the loss, and
\* the banner is one second behind it but for the first announcement.
CountdownInv ==
  IF readyState = CLOSED
  THEN /\ secTillReconnect # NONE
       /\ nextTick + secTillReconnect = closedAt + ReconnectInterval + 1
       /\ now \in {nextTick - 1, nextTick}
       /\ \/ error = secTillReconnect + 1
          \/ error = ReconnectInterval /\ secTillReconnect = ReconnectInterval
  ELSE secTillReconnect = NONE /\ error = NONE

LEMMA CountdownInit == Init => CountdownInv
  BY DEF Init, CountdownInv, CONNECTING, CLOSED

LEMMA CountdownNext == TypeInv /\ CountdownInv /\ [Next]_vars => CountdownInv'
<1> SUFFICES ASSUME TypeInv, CountdownInv, [Next]_vars
             PROVE  CountdownInv'
  OBVIOUS
<1>1. /\ now \in Nat /\ nextTick \in Nat /\ closedAt \in Nat
      /\ ReconnectInterval \in Nat
      /\ secTillReconnect \in {NONE} \cup 0 .. ReconnectInterval
      /\ error \in {NONE} \cup 0 .. ReconnectInterval
      /\ readyState \in {CONNECTING, OPEN, CLOSING, CLOSED}
  BY StatusAssumption DEF TypeInv, TypeOK
<1>2. CASE OnOpen
  BY <1>2 DEF OnOpen, CountdownInv, countdown, CONNECTING, OPEN, CLOSED
<1>3. CASE OnClose
  BY <1>1, <1>3 DEF OnClose, CountdownInv, UpdateError, NONE
<1>4. CASE OnTimer
  <2>1. readyState = CLOSED /\ nextTick = now
    BY <1>1, <1>4 DEF OnTimer, IsTickDue, CountdownInv
  <2>2. CASE IsOver
    BY <1>1, <1>4, <2>1, <2>2 DEF OnTimer, IsWebsocketClosed, TimerEnds, ClearError,
                                  CountdownInv, CONNECTING, CLOSED
  <2>3. CASE ~IsOver
    BY <1>1, <1>4, <2>1, <2>3 DEF OnTimer, IsWebsocketClosed, UpdateError, IsOver,
                                  CountdownInv, NONE
  <2> QED BY <2>2, <2>3
<1>5. CASE Tick
  BY <1>1, <1>5 DEF Tick, IsTickDue, CountdownInv, countdown
<1>6. CASE UNCHANGED <<now, readyState, countdown, closedAt>>
  BY <1>6 DEF CountdownInv, countdown
<1>7. CASE OnStatus
  BY <1>6, <1>7 DEF OnStatus, SystemStatusPing
<1>8. CASE ResponsivenessGaugeUpdate
  BY <1>6, <1>8 DEF ResponsivenessGaugeUpdate
<1>9. CASE InitMap
  BY <1>6, <1>9 DEF InitMap
<1>10. CASE \E hasPlace \in BOOLEAN : MapEvent(hasPlace)
  BY <1>6, <1>10 DEF MapEvent
<1>11. CASE \E n \in 1 .. MaxEvents : RemoveMarker(n)
  BY <1>6, <1>11 DEF RemoveMarker
<1>12. CASE UNCHANGED vars
  BY <1>6, <1>12 DEF vars
<1>13. CASE Closing
  BY <1>13 DEF Closing, CountdownInv, countdown, OPEN, CLOSING, CLOSED
<1> QED BY <1>2, <1>3, <1>4, <1>5, <1>7, <1>8, <1>9, <1>10, <1>11, <1>12, <1>13 DEF Next

LEMMA CountdownAlways == Spec => [](TypeInv /\ CountdownInv)
  BY TypeInvInit, TypeInvNext, CountdownInit, CountdownNext, PTL DEF Spec

\* The banner tells the truth about the websocket, and from the first tick on
\* the seconds that are left (websocket.js:85-101).
THEOREM BannerHonest == Spec => []BannerIsHonest
<1>1. TypeInv /\ CountdownInv => BannerIsHonest
  <2> SUFFICES ASSUME TypeInv, CountdownInv PROVE BannerIsHonest
    OBVIOUS
  <2>1. /\ now \in Nat /\ nextTick \in Nat /\ closedAt \in Nat
        /\ ReconnectInterval \in Nat
        /\ secTillReconnect \in {NONE} \cup 0 .. ReconnectInterval
        /\ error \in {NONE} \cup 0 .. ReconnectInterval
    BY StatusAssumption DEF TypeInv, TypeOK
  <2> QED BY <2>1 DEF CountdownInv, BannerIsHonest, IsTickDue, NONE
<1> QED BY <1>1, CountdownAlways, PTL

\* A page opens its next websocket RECONNECT_INTERVAL_SEC + 1 seconds after the
\* loss of the last, never earlier or later: the countdown compares before it
\* decrements (websocket.js:95), a second more than ReconnectsOnTime asks for.
THEOREM ReconnectsOneSecondLate ==
  Spec => [][readyState = CLOSED /\ readyState' # CLOSED =>
               now = closedAt + ReconnectInterval + 1]_vars
<1>1. TypeInv /\ CountdownInv /\ [Next]_vars =>
        [readyState = CLOSED /\ readyState' # CLOSED =>
           now = closedAt + ReconnectInterval + 1]_vars
  <2> SUFFICES ASSUME TypeInv, CountdownInv, [Next]_vars,
                      readyState = CLOSED, readyState' # CLOSED
               PROVE  now = closedAt + ReconnectInterval + 1
    OBVIOUS
  <2>1. OnTimer /\ IsOver
    BY DEF Next, OnOpen, Closing, OnClose, OnTimer, OnStatus, SystemStatusPing, ResponsivenessGaugeUpdate, InitMap,
           MapEvent, RemoveMarker, Tick, vars, CONNECTING, OPEN, CLOSED, IsWebsocketClosed
  <2>2. /\ now \in Nat /\ nextTick \in Nat /\ closedAt \in Nat
        /\ ReconnectInterval \in Nat
        /\ secTillReconnect \in {NONE} \cup 0 .. ReconnectInterval
    BY StatusAssumption DEF TypeInv, TypeOK
  <2> QED BY <2>1, <2>2 DEF OnTimer, IsTickDue, IsOver, CountdownInv, NONE
<1> QED BY <1>1, CountdownAlways, PTL DEF Spec

-----------------------------------------------------------------------------
(* The rating is fair.                                                     *)

\* A ping counts as late only for seconds without a ping, all but the first
\* (responsivenessGaugeUpdate).
THEOREM OnlyMissedSeconds == Spec => []OnlyMissedSecondsCount
<1>1. TypeInv => OnlyMissedSecondsCount
  <2> SUFFICES ASSUME TypeInv, pingHistory # << >>
               PROVE  /\ \/ TimeWindowPings = Len(pingHistory)
                         \/ Len(pingHistory) - TimeWindowPings <= MissedSeconds - 1
                      /\ now - pingHistory[Len(pingHistory)] > Len(pingHistory) =>
                           TimeWindowPings = 0
    BY DEF OnlyMissedSecondsCount
  <2> DEFINE n == Len(pingHistory)
             K == {i \in 1 .. n : IsRecent(i)}
             late == (1 .. n) \ K
             last == now - n - pingHistory[1]
  <2>1. n \in Nat \ {0} /\ now \in Nat /\ \A i \in 1 .. n : pingHistory[i] \in Nat
    BY DEF TypeInv, TypeOK
  <2>2. last \in Int /\ MissedSeconds - 1 = last
    BY <2>1 DEF MissedSeconds
  <2>3. \A i \in 1 .. n : IsRecent(i) <=> pingHistory[i] >= now - n
    BY DEF IsRecent
  <2>4. late \subseteq 1 .. last
    <3> SUFFICES ASSUME NEW i \in 1 .. n, pingHistory[i] < now - n
                 PROVE  i <= last
      BY <2>1, <2>2, <2>3
    <3>1. pingHistory[i] - pingHistory[1] >= i - 1
      BY <2>1 DEF TypeInv, HistoryInv, Spaced
    <3> QED BY <2>1, <3>1
  <2>5. IsFiniteSet(1 .. n) /\ Cardinality(1 .. n) = n
    BY <2>1, UpToFacts
  <2>6. /\ IsFiniteSet(1 .. last)
        /\ Cardinality(1 .. last) = IF 1 > last THEN 0 ELSE last
    BY <2>2, UpToFacts
  <2>7. Cardinality(late) = n - Cardinality(K)
    <3>1. (1 .. n) \cap K = K
      OBVIOUS
    <3> HIDE DEF K
    <3>2. Cardinality((1 .. n) \ K) = Cardinality(1 .. n) - Cardinality((1 .. n) \cap K)
      BY <2>5, FS_Difference
    <3> QED BY <2>5, <3>1, <3>2
  <2>8. Cardinality(late) <= Cardinality(1 .. last)
    BY <2>4, <2>6, FS_Subset
  <2>9. TimeWindowPings = Cardinality(K) /\ TimeWindowPings \in 0 .. n
    BY WindowFacts DEF TimeWindowPings, TypeInv
  <2>10. TimeWindowPings = n \/ n - TimeWindowPings <= MissedSeconds - 1
    <3> HIDE DEF n, K, late, last
    <3>1. CASE 1 > last
      BY <3>1, <2>1, <2>2, <2>6, <2>7, <2>8, <2>9
    <3>2. CASE ~(1 > last)
      BY <3>2, <2>1, <2>2, <2>6, <2>7, <2>8, <2>9
    <3> QED BY <3>1, <3>2
  <2>11. ASSUME now - pingHistory[n] > n
         PROVE  TimeWindowPings = 0
    <3>1. \A i \in 1 .. n : ~IsRecent(i)
      <4> SUFFICES ASSUME NEW i \in 1 .. n PROVE pingHistory[i] < now - n
        BY <2>1, <2>3
      <4>1. pingHistory[n] - pingHistory[i] >= n - i
        BY <2>1 DEF TypeInv, HistoryInv, Spaced
      <4> QED BY <2>1, <2>11, <4>1
    <3>2. K = {}
      BY <3>1
    <3> QED BY <3>2, WindowFacts DEF TypeInv
  <2> QED BY <2>10, <2>11
<1>2. Spec => []TypeInv
  BY TypeInvInit, TypeInvNext, PTL DEF Spec
<1> QED BY <1>1, <1>2, PTL

-----------------------------------------------------------------------------
(* The gauge and the websocket.                                            *)

\* The gauge was updated less than UpdateInterval ago, and after a loss to 0.
LossInv ==
  /\ now <= nextUpdate /\ nextUpdate <= now + UpdateInterval
  /\ readyState = CLOSED =>
       /\ closedAt <= now
       /\ nextUpdate - UpdateInterval > closedAt => gauge = 0

LEMMA LossInit == Init => LossInv
  BY StatusAssumption DEF Init, LossInv, CONNECTING, CLOSED

LEMMA LossNext == TypeInv /\ LossInv /\ [Next]_vars => LossInv'
<1> SUFFICES ASSUME TypeInv, LossInv, [Next]_vars
             PROVE  LossInv'
  OBVIOUS
<1>1. /\ now \in Nat /\ nextUpdate \in Nat /\ closedAt \in Nat
      /\ UpdateInterval \in Nat \ {0} /\ gauge \in 0 .. 100
  BY StatusAssumption DEF TypeInv, TypeOK
<1>2. CASE OnOpen
  BY <1>1, <1>2 DEF OnOpen, LossInv, gauges, OPEN, CLOSED
<1>3. CASE OnClose
  BY <1>1, <1>3 DEF OnClose, LossInv, gauges
<1>4. CASE OnTimer
  <2>1. readyState' = CLOSED => readyState = CLOSED
    BY <1>4 DEF OnTimer, CONNECTING, CLOSED
  <2> QED BY <1>1, <1>4, <2>1 DEF OnTimer, LossInv, gauges
<1>5. CASE ResponsivenessGaugeUpdate
  BY <1>1, <1>5 DEF ResponsivenessGaugeUpdate, LossInv, Responsiveness, IsWebsocketClosed
<1>6. CASE Tick
  BY <1>1, <1>6 DEF Tick, LossInv, gauges
<1>7. CASE UNCHANGED <<now, readyState, gauge, nextUpdate, closedAt>>
  BY <1>7 DEF LossInv
<1>8. CASE OnStatus
  BY <1>7, <1>8 DEF OnStatus, SystemStatusPing
<1>9. CASE InitMap
  BY <1>7, <1>9 DEF InitMap, gauges
<1>10. CASE \E hasPlace \in BOOLEAN : MapEvent(hasPlace)
  BY <1>7, <1>10 DEF MapEvent, gauges
<1>11. CASE \E n \in 1 .. MaxEvents : RemoveMarker(n)
  BY <1>7, <1>11 DEF RemoveMarker, gauges
<1>12. CASE UNCHANGED vars
  BY <1>7, <1>12 DEF vars, gauges
<1>13. CASE Closing
  BY <1>1, <1>13 DEF Closing, LossInv, gauges, CLOSING, CLOSED
<1> QED BY <1>2, <1>3, <1>4, <1>5, <1>6, <1>8, <1>9, <1>10, <1>11, <1>12, <1>13 DEF Next

\* A lost websocket is on the gauge within UpdateInterval seconds
\* (isWebsocketClosed in responsivenessGaugeUpdate).
THEOREM LossIsShown == Spec => []GaugeShowsLoss
<1>1. Spec => [](TypeInv /\ LossInv)
  BY TypeInvInit, TypeInvNext, LossInit, LossNext, PTL DEF Spec
<1>2. TypeInv /\ LossInv => GaugeShowsLoss
  BY StatusAssumption DEF TypeInv, TypeOK, LossInv, GaugeShowsLoss
<1> QED BY <1>1, <1>2, PTL

-----------------------------------------------------------------------------
(* The gauge recovers.                                                     *)

LastPing == pingHistory[Len(pingHistory)]

\* The seconds since the last missed one are at the end of the history, in
\* their places, as far as it reaches; a closed websocket misses them all.
RunInv ==
  /\ missedAt <= now
  /\ IsWebsocketClosed => missedAt >= now - 1
  /\ IsWebsocketClosed /\ HasPinged(now) => missedAt = now
  /\ missedAt < now - 1 => pingHistory # << >> /\ LastPing \in {now - 1, now}
  /\ pingHistory # << >> =>
       \A k \in 0 .. PingHistoryLength - 1 : LastPing - k > missedAt =>
         k < Len(pingHistory) /\ pingHistory[Len(pingHistory) - k] = LastPing - k

\* A gauge that was updated after as many seconds without a miss is at 100.
FullInv ==
  nextUpdate - UpdateInterval - missedAt > PingHistoryLength => gauge = 100

LEMMA RunInit == Init => RunInv /\ FullInv
<1> SUFFICES ASSUME Init PROVE RunInv /\ FullInv
  OBVIOUS
<1>1. FullInv
  BY StatusAssumption DEF Init, FullInv
<1>2. RunInv
  BY DEF Init, RunInv, IsWebsocketClosed, CONNECTING, CLOSING, CLOSED
<1> QED BY <1>1, <1>2

\* Without a ping in the current second the last one was before it.
LEMMA LastPingFacts ==
  ASSUME TypeInv, pingHistory # << >>
  PROVE  /\ LastPing \in Nat /\ LastPing <= now
         /\ HasPinged(LastPing)
         /\ ~HasPinged(now) => LastPing < now
         /\ HasPinged(now) => LastPing = now
<1> DEFINE n == Len(pingHistory)
<1>1. n \in Nat \ {0} /\ now \in Nat /\ n \in 1 .. n
  BY DEF TypeInv, TypeOK
<1>2. LastPing \in Nat /\ LastPing <= now
  BY <1>1 DEF TypeInv, TypeOK, HistoryInv, LastPing
<1>3. HasPinged(LastPing)
  BY <1>1 DEF HasPinged, LastPing, TypeInv, TypeOK
<1>4. ASSUME HasPinged(now) PROVE LastPing = now
  <2>1. PICK i \in 1 .. n : pingHistory[i] = now
    BY <1>4 DEF HasPinged, TypeInv, TypeOK
  <2>2. pingHistory[n] - pingHistory[i] >= n - i
    BY <1>1 DEF TypeInv, HistoryInv, Spaced
  <2> QED BY <1>1, <1>2, <2>1, <2>2 DEF LastPing
<1> QED BY <1>1, <1>2, <1>3, <1>4

\* A ping in a second that had none continues the run.
LEMMA RunContinues ==
  ASSUME TypeInv, TypeInv', RunInv, OnStatus
  PROVE  RunInv'
<1> DEFINE n == Len(pingHistory)
           h == pingHistory'
           m == Len(pingHistory')
<1>1. /\ now \in Nat /\ missedAt \in Nat /\ n \in Nat /\ PingHistoryLength \in Nat \ {0}
      /\ n <= PingHistoryLength
      /\ readyState = OPEN /\ ~HasPinged(now) /\ h = Remember(now)
      /\ UNCHANGED <<now, readyState, missedAt>>
  BY StatusAssumption DEF TypeInv, TypeOK, OnStatus, SystemStatusPing
<1>2. /\ h \in Seq(Nat) /\ m \in 1 .. PingHistoryLength /\ h[m] = now
      /\ \/ m = n + 1 /\ \A i \in 1 .. m - 1 : h[i] = pingHistory[i]
         \/ m = n /\ m = PingHistoryLength /\ \A i \in 1 .. m - 1 : h[i] = pingHistory[i + 1]
  BY <1>1, RememberFacts DEF TypeInv
<1>3. LastPing' = now
  BY <1>2 DEF LastPing
<1>4. ASSUME NEW k \in 0 .. PingHistoryLength - 1, now - k > missedAt
      PROVE  k < m /\ h[m - k] = now - k
  <2>1. CASE k = 0
    BY <2>1, <1>1, <1>2
  <2>2. CASE k > 0
    <3>1. missedAt < now - 1
      BY <1>1, <1>4, <2>2
    <3>2. pingHistory # << >> /\ LastPing = now - 1 /\ n > 0
      BY <1>1, <3>1, LastPingFacts DEF RunInv
    <3>3. k - 1 \in 0 .. PingHistoryLength - 1 /\ LastPing - (k - 1) = now - k
      BY <1>1, <2>2, <3>2
    <3>4. k - 1 < n /\ pingHistory[n - (k - 1)] = now - k
      BY <1>4, <3>2, <3>3 DEF RunInv
    <3> HIDE DEF h, m, n
    <3>5. CASE m = n + 1 /\ \A i \in 1 .. m - 1 : h[i] = pingHistory[i]
      <4>1. k < m /\ m - k \in 1 .. m - 1 /\ m - k = n - (k - 1)
        BY <1>1, <1>2, <2>2, <3>4, <3>5
      <4> QED BY <3>4, <3>5, <4>1
    <3>6. CASE m = n /\ m = PingHistoryLength /\ \A i \in 1 .. m - 1 : h[i] = pingHistory[i + 1]
      <4>1. k < m /\ m - k \in 1 .. m - 1 /\ m - k + 1 = n - (k - 1)
        BY <1>1, <1>2, <2>2, <3>4, <3>6
      <4> QED BY <3>4, <3>6, <4>1
    <3> QED BY <1>2, <3>5, <3>6
  <2> QED BY <2>1, <2>2
<1>5. pingHistory' # << >>
  BY <1>2
<1> QED BY <1>1, <1>3, <1>4, <1>5 DEF RunInv, IsWebsocketClosed, OPEN, CLOSING, CLOSED

LEMMA RunNext == TypeInv /\ TypeInv' /\ RunInv /\ [Next]_vars => RunInv'
<1> SUFFICES ASSUME TypeInv, TypeInv', RunInv, [Next]_vars
             PROVE  RunInv'
  OBVIOUS
<1>1. now \in Nat /\ missedAt \in Nat /\ PingHistoryLength \in Nat \ {0}
  BY StatusAssumption DEF TypeInv, TypeOK
<1>2. pingHistory # << >> =>
        LastPing \in Nat /\ LastPing <= now /\ (HasPinged(now) => LastPing = now)
  BY LastPingFacts
<1>3. CASE OnOpen
  BY <1>3 DEF OnOpen, RunInv, gauges, HasPinged, LastPing, IsWebsocketClosed, OPEN,
              CLOSING, CLOSED
<1>4. CASE OnClose \/ Closing
  <2>1. /\ missedAt' = now /\ now' = now /\ pingHistory' = pingHistory
        /\ LastPing' = LastPing
    BY <1>4 DEF OnClose, Closing, gauges, LastPing
  <2> QED BY <1>1, <1>2, <2>1 DEF RunInv
<1>5. CASE OnTimer
  <2>1. /\ IsWebsocketClosed' => IsWebsocketClosed
        /\ UNCHANGED <<now, missedAt, pingHistory>>
    BY <1>5 DEF OnTimer, gauges, IsWebsocketClosed, CONNECTING, CLOSING, CLOSED
  <2> QED BY <2>1 DEF RunInv, HasPinged, LastPing
<1>6. CASE OnStatus
  BY <1>6, RunContinues
<1>7. CASE Tick
  <2>1. /\ now' = now + 1 /\ UNCHANGED <<readyState, pingHistory>>
        /\ LastPing' = LastPing
        /\ missedAt' = IF HasPinged(now) THEN missedAt ELSE now
    BY <1>7 DEF Tick, gauges, LastPing
  <2>2. ~HasPinged(now + 1)
    <3>1. pingHistory \in Seq(Nat) /\ \A i \in 1 .. Len(pingHistory) : pingHistory[i] <= now
      BY DEF TypeInv, TypeOK, HistoryInv
    <3>2. DOMAIN pingHistory = 1 .. Len(pingHistory)
      BY <3>1
    <3>3. ASSUME NEW i \in 1 .. Len(pingHistory) PROVE pingHistory[i] # now + 1
      BY <1>1, <3>1
    <3> QED BY <3>2, <3>3 DEF HasPinged
  <2>3. ~HasPinged(now)'
    BY <2>1, <2>2 DEF HasPinged
  <2>4. HasPinged(now) => pingHistory # << >>
    BY DEF HasPinged
  <2>5. CASE HasPinged(now)
    BY <1>1, <1>2, <2>1, <2>3, <2>4, <2>5 DEF RunInv, IsWebsocketClosed
  <2>6. CASE ~HasPinged(now)
    BY <1>1, <1>2, <2>1, <2>3, <2>6 DEF RunInv, IsWebsocketClosed
  <2> QED BY <2>5, <2>6
<1>8. CASE UNCHANGED <<now, readyState, pingHistory, missedAt>>
  BY <1>8 DEF RunInv, HasPinged, LastPing, IsWebsocketClosed
<1>9. CASE ResponsivenessGaugeUpdate
  BY <1>8, <1>9 DEF ResponsivenessGaugeUpdate
<1>10. CASE InitMap
  BY <1>8, <1>10 DEF InitMap, gauges
<1>11. CASE \E hasPlace \in BOOLEAN : MapEvent(hasPlace)
  BY <1>8, <1>11 DEF MapEvent, gauges
<1>12. CASE \E n \in 1 .. MaxEvents : RemoveMarker(n)
  BY <1>8, <1>12 DEF RemoveMarker, gauges
<1>13. CASE UNCHANGED vars
  BY <1>8, <1>13 DEF vars, gauges
<1> QED BY <1>3, <1>4, <1>5, <1>6, <1>7, <1>9, <1>10, <1>11, <1>12, <1>13 DEF Next

\* When no second was missed for longer than the history, it is full of the
\* last ones, and all of them are recent.
LEMMA FullHistory ==
  ASSUME TypeInv, RunInv, now - missedAt > PingHistoryLength
  PROVE  Responsiveness = 100
<1> DEFINE n == Len(pingHistory)
<1>1. /\ now \in Nat /\ missedAt \in Nat /\ n \in Nat /\ n <= PingHistoryLength
      /\ PingHistoryLength \in Nat \ {0}
      /\ \A i \in 1 .. n : pingHistory[i] \in Nat
  BY StatusAssumption DEF TypeInv, TypeOK
<1>2. ~IsWebsocketClosed
  BY <1>1 DEF RunInv
<1>3. CASE missedAt < now - 1
  <2>1. pingHistory # << >> /\ LastPing \in {now - 1, now}
    BY <1>3 DEF RunInv
  <2>2. PingHistoryLength - 1 \in 0 .. PingHistoryLength - 1
    BY <1>1
  <2>3. LastPing - (PingHistoryLength - 1) > missedAt
    BY <1>1, <2>1
  <2>4. /\ PingHistoryLength - 1 < n
        /\ pingHistory[n - (PingHistoryLength - 1)] = LastPing - (PingHistoryLength - 1)
    BY <2>1, <2>2, <2>3 DEF RunInv
  <2>5. n = PingHistoryLength /\ n - (PingHistoryLength - 1) = 1
    BY <1>1, <2>4
  <2>6. pingHistory[1] >= now - n
    BY <1>1, <2>1, <2>4, <2>5
  <2>7. \A i \in 1 .. n : IsRecent(i)
    <3> SUFFICES ASSUME NEW i \in 1 .. n PROVE pingHistory[i] >= now - n
      BY DEF IsRecent
    <3>1. pingHistory[i] - pingHistory[1] >= i - 1
      BY <1>1, <2>5 DEF TypeInv, HistoryInv, Spaced
    <3> QED BY <1>1, <2>5, <2>6, <3>1
  <2>8. {i \in 1 .. n : IsRecent(i)} = 1 .. n
    BY <2>7
  <2>9. TimeWindowPings = n
    BY <2>8, WindowFacts DEF TypeInv
  <2>10. (200 * n + n) \div (2 * n) = 100
    BY <1>1, <2>5, QuotientIs100
  <2> QED BY <1>2, <2>1, <2>9, <2>10 DEF Responsiveness, Percentage
<1>4. CASE ~(missedAt < now - 1)
  BY <1>1, <1>4
<1> QED BY <1>3, <1>4

LEMMA LaterIsLess ==
  ASSUME NEW a \in Nat, NEW b \in Nat, NEW c \in Nat, NEW d \in Nat, NEW l \in Nat,
         c <= d, a - b - d > l
  PROVE  a - b - c > l
  OBVIOUS

LEMMA FullNext == TypeInv /\ RunInv /\ LossInv /\ FullInv /\ [Next]_vars => FullInv'
<1> SUFFICES ASSUME TypeInv, RunInv, LossInv, FullInv, [Next]_vars
             PROVE  FullInv'
  OBVIOUS
<1>1. /\ now \in Nat /\ missedAt \in Nat /\ nextUpdate \in Nat
      /\ UpdateInterval \in Nat \ {0} /\ PingHistoryLength \in Nat \ {0}
  BY StatusAssumption DEF TypeInv, TypeOK
<1>2. CASE ResponsivenessGaugeUpdate
  <2>1. /\ nextUpdate' - UpdateInterval = now /\ missedAt' = missedAt
        /\ gauge' = Responsiveness
    BY <1>1, <1>2 DEF ResponsivenessGaugeUpdate
  <2> QED BY <2>1, FullHistory DEF FullInv
<1>3. CASE UNCHANGED <<gauge, nextUpdate>> /\ missedAt' >= missedAt /\ missedAt' \in Nat
  <2>1. gauge' = gauge /\ nextUpdate' = nextUpdate /\ missedAt' >= missedAt /\ missedAt' \in Nat
    BY <1>3
  <2>2. ASSUME nextUpdate' - UpdateInterval - missedAt' > PingHistoryLength
        PROVE  nextUpdate - UpdateInterval - missedAt > PingHistoryLength
    BY <1>1, <2>1, <2>2, LaterIsLess
  <2> QED BY <2>1, <2>2 DEF FullInv
<1>4. CASE OnOpen
  BY <1>1, <1>3, <1>4 DEF OnOpen, gauges
<1>5. CASE OnClose \/ Closing
  BY <1>1, <1>3, <1>5 DEF OnClose, Closing, gauges, RunInv
<1>6. CASE OnTimer
  BY <1>1, <1>3, <1>6 DEF OnTimer, gauges
<1>7. CASE OnStatus
  BY <1>1, <1>3, <1>7 DEF OnStatus, SystemStatusPing
<1>8. CASE InitMap
  BY <1>1, <1>3, <1>8 DEF InitMap, gauges
<1>9. CASE \E hasPlace \in BOOLEAN : MapEvent(hasPlace)
  BY <1>1, <1>3, <1>9 DEF MapEvent, gauges
<1>10. CASE \E n \in 1 .. MaxEvents : RemoveMarker(n)
  BY <1>1, <1>3, <1>10 DEF RemoveMarker, gauges
<1>11. CASE Tick
  BY <1>1, <1>3, <1>11 DEF Tick, gauges, RunInv
<1>12. CASE UNCHANGED vars
  BY <1>1, <1>3, <1>12 DEF vars, gauges
<1> QED BY <1>2, <1>4, <1>5, <1>6, <1>7, <1>8, <1>9, <1>10, <1>11, <1>12 DEF Next

\* After PING_HISTORY_LENGTH seconds with a ping each and one update the gauge
\* shows 100, whatever outage or silence there was before.
THEOREM GaugeRecoversInTime == Spec => []GaugeRecovers
<1>1. Spec => [](TypeInv /\ LossInv /\ RunInv /\ FullInv)
  BY TypeInvInit, TypeInvNext, LossInit, LossNext, RunInit, RunNext, FullNext, PTL DEF Spec
<1>2. TypeInv /\ LossInv /\ FullInv => GaugeRecovers
  BY StatusAssumption DEF TypeInv, TypeOK, LossInv, FullInv, GaugeRecovers
<1> QED BY <1>1, <1>2, PTL

-----------------------------------------------------------------------------
(* The map.                                                                *)

\* The markers are those whose timeout has not fired: the plotted events that
\* are not older than PersistMarker seconds.
MapInv ==
  /\ markers = timeouts
  /\ \A n \in 1 .. Len(events) :
       /\ n \in timeouts => events[n].plotted /\ now <= events[n].at + PersistMarker
       /\ events[n].plotted /\ n \notin timeouts => now >= events[n].at + PersistMarker

LEMMA MapInit == Init => MapInv
  BY DEF Init, MapInv

LEMMA EventsFacts ==
  ASSUME TypeInv
  PROVE  /\ now \in Nat /\ PersistMarker \in Nat \ {0}
         /\ timeouts \subseteq 1 .. Len(events) /\ Len(events) \in Nat
         /\ \A n \in 1 .. Len(events) : events[n].at \in Nat
<1>1. /\ now \in Nat /\ events \in Seq(Event)
      /\ timeouts \subseteq 1 .. Len(events)
  BY DEF TypeInv, TypeOK
<1>2. Len(events) \in Nat /\ \A n \in 1 .. Len(events) : events[n] \in Event
  BY <1>1
<1>3. \A n \in 1 .. Len(events) : events[n].at \in Nat
  BY <1>2 DEF Event
<1> QED BY <1>1, <1>2, <1>3, StatusAssumption

LEMMA MapNext == TypeInv /\ MapInv /\ [Next]_vars => MapInv'
<1> SUFFICES ASSUME TypeInv, MapInv, [Next]_vars
             PROVE  MapInv'
  OBVIOUS
<1>1. /\ now \in Nat /\ PersistMarker \in Nat \ {0}
      /\ timeouts \subseteq 1 .. Len(events) /\ Len(events) \in Nat
      /\ \A n \in 1 .. Len(events) : events[n].at \in Nat
  BY EventsFacts
<1>2. ASSUME NEW hasPlace \in BOOLEAN, MapEvent(hasPlace)
      PROVE  MapInv'
  <2> DEFINE plotted == hasPlace /\ mapReady
             e == [at |-> now, plotted |-> plotted]
             new == IF plotted THEN {Len(events) + 1} ELSE {}
  <2>1. plotted \in BOOLEAN
    BY DEF TypeInv, TypeOK
  <2>2. e \in Event /\ e.at = now /\ e.plotted = plotted
    BY <1>1, <2>1 DEF Event
  <2>3. events' = Append(events, e) /\ now' = now
        /\ markers' = markers \cup new /\ timeouts' = timeouts \cup new
    BY <1>2 DEF MapEvent
  <2> HIDE DEF e
  <2>4. /\ Len(events') = Len(events) + 1
        /\ events'[Len(events) + 1] = e
        /\ \A n \in 1 .. Len(events) : events'[n] = events[n]
    BY <2>2, <2>3, EventAppended DEF TypeInv
  <2>5. ASSUME NEW n \in 1 .. Len(events')
        PROVE  /\ n \in timeouts' =>
                    events'[n].plotted /\ now' <= events'[n].at + PersistMarker
               /\ events'[n].plotted /\ n \notin timeouts' =>
                    now' >= events'[n].at + PersistMarker
    <3>1. CASE n = Len(events) + 1
      <4>1. n \notin timeouts /\ events'[n].at = now /\ events'[n].plotted = plotted
        BY <1>1, <2>2, <2>4, <3>1
      <4>2. now <= now + PersistMarker
        BY <1>1
      <4>3. n \in timeouts' <=> plotted
        BY <2>3, <3>1, <4>1
      <4> QED BY <2>3, <4>1, <4>2, <4>3
    <3>2. CASE n \in 1 .. Len(events)
      BY <1>1, <2>3, <2>4, <3>2 DEF MapInv
    <3> QED BY <1>1, <2>4, <3>1, <3>2
  <2> QED BY <2>3, <2>5 DEF MapInv
<1>3. ASSUME NEW n \in 1 .. MaxEvents, RemoveMarker(n)
      PROVE  MapInv'
  <2>1. /\ n \in timeouts /\ events[n].at + PersistMarker <= now
        /\ timeouts' = timeouts \ {n} /\ markers' = markers \ {n}
        /\ UNCHANGED <<now, events>>
    BY <1>3 DEF RemoveMarker, IsTimeoutDue, MarkerOf
  <2> QED BY <1>1, <2>1 DEF MapInv
<1>4. CASE Tick
  <2>1. /\ now' = now + 1 /\ UNCHANGED <<markers, timeouts, events>>
        /\ \A n \in timeouts : ~(events[n].at + PersistMarker <= now)
    BY <1>4 DEF Tick, IsTimeoutDue, map
  <2> QED BY <1>1, <2>1 DEF MapInv
<1>5. CASE UNCHANGED <<now, markers, timeouts, events>>
  BY <1>5 DEF MapInv
<1>6. CASE OnOpen
  BY <1>5, <1>6 DEF OnOpen, map
<1>7. CASE OnClose \/ Closing
  BY <1>5, <1>7 DEF OnClose, Closing, map
<1>8. CASE OnTimer
  BY <1>5, <1>8 DEF OnTimer, map
<1>9. CASE OnStatus
  BY <1>5, <1>9 DEF OnStatus, SystemStatusPing, map
<1>10. CASE ResponsivenessGaugeUpdate
  BY <1>5, <1>10 DEF ResponsivenessGaugeUpdate, map
<1>11. CASE InitMap
  BY <1>5, <1>11 DEF InitMap
<1>12. CASE UNCHANGED vars
  BY <1>5, <1>12 DEF vars, map
<1> QED BY <1>2, <1>3, <1>4, <1>6, <1>7, <1>8, <1>9, <1>10, <1>11, <1>12 DEF Next

\* Every plotted event is on the map for its time and no longer (mapEvent).
THEOREM MapIsRecent == Spec => []MapShowsRecentEvents
<1>1. Spec => [](TypeInv /\ MapInv)
  BY TypeInvInit, TypeInvNext, MapInit, MapNext, PTL DEF Spec
<1>2. ASSUME TypeInv, MapInv PROVE MapShowsRecentEvents
  <2> SUFFICES ASSUME NEW n \in 1 .. Len(events)
               PROVE  /\ events[n].plotted /\ now < events[n].at + PersistMarker => n \in markers
                      /\ n \in markers =>
                           events[n].plotted /\ now <= events[n].at + PersistMarker
    BY DEF MapShowsRecentEvents
  <2>1. now \in Nat /\ PersistMarker \in Nat /\ events[n].at \in Nat
    BY <1>2, EventsFacts
  <2> QED BY <1>2, <2>1 DEF MapInv
<1> QED BY <1>1, <1>2, PTL
=============================================================================
