------------------------ MODULE MailRateLimiterProofs ------------------------
(***************************************************************************)
(* What MailRateLimiter keeps true for any windows, limits and number of   *)
(* messages, and for any clock that goes on while the limiter counts.      *)
(***************************************************************************)
EXTENDS MailRateLimiter, FiniteSetTheorems, TLAPS

-----------------------------------------------------------------------------
(***************************************************************************)
(* Numbers.                                                                *)
(***************************************************************************)
LEMMA WindowNumbers ==
  /\ Windows = 1 .. Len(Lengths) /\ Len(Lengths) \in Nat /\ 1 \in Windows
  /\ \A w \in Windows : w \in Nat /\ Lengths[w] \in Nat \ {0}
BY LimiterAssumption DEF Windows

\* The horizon is past every window, and past every lag.
LEMMA HorizonIsFar ==
  /\ Horizon \in Nat /\ MaxLag < Horizon
  /\ \A w \in Windows : Lengths[w] <= Horizon
<1> DEFINE S == {Lengths[w] : w \in Windows}
           longest == CHOOSE l \in S : \A w \in Windows : Lengths[w] <= l
<1>1. \E l \in S : \A w \in Windows : Lengths[w] <= l
  BY LimiterAssumption
<1>2. longest \in S /\ \A w \in Windows : Lengths[w] <= longest
  BY <1>1
<1>3. Horizon = MaxLag + longest
  BY DEF Horizon
<1>4. longest \in Nat \ {0}
  BY <1>2, WindowNumbers
<1>5. MaxLag \in Nat
  BY LimiterAssumption
<1> HIDE DEF longest
<1>6. QED
  BY <1>2, <1>3, <1>4, <1>5, WindowNumbers

LEMMA MaxDueIsMax == MaxDue \in Nat /\ MaxDue >= RetryWait /\ MaxDue >= Horizon
<1>1. RetryWait \in Nat /\ Horizon \in Nat
  BY LimiterAssumption, HorizonIsFar
<1>2. \E d \in {RetryWait, Horizon} : d >= RetryWait /\ d >= Horizon
  BY <1>1
<1>3. MaxDue \in {RetryWait, Horizon} /\ MaxDue >= RetryWait /\ MaxDue >= Horizon
  BY <1>2 DEF MaxDue
<1>4. QED
  BY <1>1, <1>3

\* A message is never postponed by more than the length of the window that was full.
LEMMA BoundaryIsNear ==
  ASSUME NEW w \in Windows, phase \in Nat, lag \in Nat
  PROVE  UntilBoundary(w) \in 0 .. MaxDue
<1>1. Lengths[w] \in Nat /\ Lengths[w] > 0 /\ Lengths[w] <= Horizon
  BY WindowNumbers, HorizonIsFar
<1>2. (phase - lag) % Lengths[w] \in 0 .. Lengths[w] - 1
  BY <1>1
<1> DEFINE r == (phase - lag) % Lengths[w]
           left == Lengths[w] - r - lag
<1>3. left \in Int /\ left <= Horizon
  BY <1>1, <1>2, HorizonIsFar
<1>4. UntilBoundary(w) = IF left < 0 THEN 0 ELSE left
  BY DEF UntilBoundary
<1> HIDE DEF left
<1>5. QED
  BY <1>3, <1>4, MaxDueIsMax, HorizonIsFar

-----------------------------------------------------------------------------
(***************************************************************************)
(* Types.                                                                  *)
(***************************************************************************)
DueOK == due \in [Msgs -> 0 .. MaxDue \cup {None}]

PlaceOK ==
  /\ pc \in {"idle", "limit", "send", "stamp", "log"}
  /\ cur \in Msgs \cup {None} /\ (pc = "idle" <=> cur = None)
  /\ send \in Sends \cup {None} /\ (pc \in {"stamp", "log"} <=> send # None)

ClockOK ==
  /\ phase \in 0 .. Period - 1
  /\ window \in Windows /\ lag \in 0 .. MaxLag
  /\ losses \in 0 .. MaxLosses

RecordOK ==
  /\ taken \in [Sends -> Ages]
  /\ logged \in [Sends -> (0 .. Horizon - 1) \cup {None}]
  /\ lost \subseteq Sends

LEMMA TypeParts == TypeOK <=> DueOK /\ PlaceOK /\ ClockOK /\ RecordOK
BY DEF TypeOK, DueOK, PlaceOK, ClockOK, RecordOK

\* A message is deferred and settled within the bounds.
LEMMA DeferTypes ==
  ASSUME DueOK, NEW m \in Msgs, NEW d \in 0 .. MaxDue, Defer(m, d) \/ Settle(m)
  PROVE  DueOK'
BY DEF DueOK, Defer, Settle

LEMMA DueStep ==
  ASSUME TypeOK, Next
  PROVE  DueOK'
<1>1. DueOK /\ PlaceOK /\ ClockOK
  BY TypeParts
<1>2. 0 \in 0 .. MaxDue /\ RetryWait \in 0 .. MaxDue
  BY MaxDueIsMax, LimiterAssumption
<1>3. CASE DeleteAccount \/ \E m \in Msgs : Submit(m)
  BY <1>1, <1>2, <1>3 DEF DeleteAccount, Submit, DueOK
<1>4. CASE \/ CountWindow \/ RelayAccepts \/ LogSend \/ CycleFails
           \/ \E m \in Msgs : TakeMessage(m)
  BY <1>1, <1>4 DEF CountWindow, RelayAccepts, LogSend, CycleFails, TakeMessage, DueOK
<1>5. CASE PostponeMessage
  <2>1. cur \in Msgs /\ window \in Windows /\ phase \in Nat /\ lag \in Nat
    BY <1>1, <1>5, LimiterAssumption DEF PostponeMessage, PlaceOK, ClockOK
  <2>2. UntilBoundary(window) \in 0 .. MaxDue
    BY <2>1, BoundaryIsNear
  <2>3. QED
    BY <1>1, <1>5, <2>1, <2>2, DeferTypes DEF PostponeMessage
<1>6. CASE RelayRefuses \/ AnswerLost \/ StampSent
  <2>1. cur \in Msgs
    BY <1>1, <1>6 DEF RelayRefuses, AnswerLost, Accept, StampSent, PlaceOK
  <2>2. Defer(cur, RetryWait) \/ Settle(cur)
    BY <1>6 DEF RelayRefuses, AnswerLost, StampSent, AfterError
  <2>3. QED
    BY <1>1, <1>2, <2>1, <2>2, DeferTypes
<1>7. CASE Tick
  <2>1. \A m \in Msgs : due[m] \in 0 .. MaxDue \cup {None}
    BY <1>1 DEF DueOK
  <2>2. \A m \in Msgs : Queued(m) /\ due[m] > 0 => due[m] - 1 \in 0 .. MaxDue
    BY <2>1, MaxDueIsMax DEF Queued
  <2>3. QED
    BY <1>7, <2>1, <2>2 DEF Tick, DueOK
<1>8. QED
  BY <1>3, <1>4, <1>5, <1>6, <1>7 DEF Next, DispatcherStep

LEMMA PlaceStep ==
  ASSUME TypeOK, Next
  PROVE  PlaceOK'
<1> USE DEF PlaceOK
<1>1. PlaceOK /\ None \notin Msgs /\ None \notin Sends
  BY TypeParts, LimiterAssumption DEF Sends
<1>2. CASE Idle
  BY <1>1, <1>2 DEF Idle
<1>3. CASE \/ DeleteAccount \/ Tick
           \/ \E m \in Msgs : Submit(m)
  BY <1>1, <1>3 DEF DeleteAccount, Submit, Tick, dispatcher
<1>4. CASE \E m \in Msgs : TakeMessage(m)
  BY <1>1, <1>4 DEF TakeMessage
<1>5. CASE CountWindow
  BY <1>1, <1>5 DEF CountWindow
<1>6. CASE RelayAccepts
  BY <1>1, <1>6 DEF RelayAccepts, Accept
<1>7. CASE StampSent
  BY <1>1, <1>7 DEF StampSent
<1>8. QED
  BY <1>2, <1>3, <1>4, <1>5, <1>6, <1>7
     DEF Next, DispatcherStep, PostponeMessage, RelayRefuses, AnswerLost, LogSend, CycleFails

LEMMA ClockStep ==
  ASSUME TypeOK, Next
  PROVE  ClockOK'
<1> USE DEF ClockOK
<1>1. ClockOK /\ 1 \in Windows /\ 0 \in 0 .. MaxLag /\ Period \in Nat \ {0} /\ MaxLosses \in Nat
  BY TypeParts, WindowNumbers, LimiterAssumption
<1>2. CASE \/ \E m \in Msgs : Submit(m) \/ TakeMessage(m)
           \/ DeleteAccount
  BY <1>1, <1>2 DEF Submit, TakeMessage, DeleteAccount, dispatcher
<1>3. CASE CountWindow \/ PostponeMessage
  BY <1>1, <1>3 DEF CountWindow, PostponeMessage, Idle
<1>4. CASE RelayAccepts \/ RelayRefuses \/ StampSent \/ LogSend
  BY <1>1, <1>4 DEF RelayAccepts, RelayRefuses, StampSent, LogSend, Idle
<1>5. CASE AnswerLost \/ CycleFails
  BY <1>1, <1>5 DEF AnswerLost, CycleFails, Idle
<1>6. CASE Tick
  <2>1. (phase + 1) % Period \in 0 .. Period - 1
    BY <1>1
  <2>2. lag + 1 \in 0 .. MaxLag \/ pc # "limit"
    BY <1>1, <1>6, LimiterAssumption DEF Tick
  <2>3. QED
    BY <1>1, <1>6, <2>1, <2>2 DEF Tick
<1>7. QED
  BY <1>2, <1>3, <1>4, <1>5, <1>6 DEF Next, DispatcherStep

\* A moment that grows older is still a moment, at the most on the horizon.
LEMMA OlderTypes ==
  /\ \A a \in Ages : Older(a) \in Ages /\ Older(a) >= a /\ (a < Horizon => Older(a) = a + 1)
  /\ \A a \in (0 .. Horizon - 1) \cup {None} :
       /\ a # Horizon - 1 => Older(a) \in (0 .. Horizon - 1) \cup {None}
       /\ a # None => Older(a) = a + 1
       /\ a = None => Older(a) = None
<1>1. Horizon \in Nat /\ None \notin Nat
  BY HorizonIsFar, LimiterAssumption
<1>2. QED
  BY <1>1 DEF Older, Ages

LEMMA RecordStep ==
  ASSUME TypeOK, Next
  PROVE  RecordOK'
<1> USE DEF RecordOK
<1>1. RecordOK /\ PlaceOK
  BY TypeParts
<1>2. Horizon \in Nat /\ MaxLag \in Nat /\ MaxLag < Horizon
  BY HorizonIsFar, LimiterAssumption
<1>3. CASE \/ \E m \in Msgs : Submit(m) \/ TakeMessage(m)
           \/ CountWindow \/ PostponeMessage \/ RelayRefuses \/ StampSent
  BY <1>1, <1>3 DEF Submit, TakeMessage, CountWindow, PostponeMessage, RelayRefuses, StampSent, record
<1>4. CASE DeleteAccount
  BY <1>1, <1>4 DEF DeleteAccount
<1>5. CASE RelayAccepts \/ AnswerLost
  BY <1>1, <1>2, <1>5 DEF RelayAccepts, AnswerLost, Accept, Ages
<1>6. CASE LogSend
  <2>1. send \in Sends
    BY <1>1, <1>6 DEF LogSend, PlaceOK
  <2>2. PICK age \in 0 .. MaxLag : logged' = [logged EXCEPT ![send] = age]
    BY <1>6 DEF LogSend
  <2>3. age \in 0 .. Horizon - 1
    BY <1>2
  <2>4. QED
    BY <1>1, <1>6, <2>1, <2>2, <2>3 DEF LogSend
<1>7. CASE CycleFails
  BY <1>1, <1>7 DEF CycleFails, PlaceOK
<1>8. CASE Tick
  <2>1. taken' \in [Sends -> Ages]
    BY <1>1, <1>8, OlderTypes DEF Tick
  <2>2. \A s \in Sends : logged[s] \in (0 .. Horizon - 1) \cup {None}
    BY <1>1
  <2>3. logged' \in [Sends -> (0 .. Horizon - 1) \cup {None}]
    BY <1>8, <2>2, OlderTypes DEF Tick
  <2>4. lost' \subseteq Sends
    BY <1>1, <1>8 DEF Tick
  <2>5. QED
    BY <2>1, <2>3, <2>4
<1>9. QED
  BY <1>3, <1>4, <1>5, <1>6, <1>7, <1>8 DEF Next, DispatcherStep

LEMMA TypeStep ==
  ASSUME TypeOK, [Next]_vars
  PROVE  TypeOK'
<1>1. CASE UNCHANGED vars
  BY <1>1 DEF TypeOK, vars, dispatcher, record
<1>2. CASE Next
  <2>1. DueOK' /\ PlaceOK' /\ ClockOK' /\ RecordOK'
    BY <1>2, DueStep, PlaceStep, ClockStep, RecordStep
  <2>2. QED
    BY <2>1 DEF TypeOK, DueOK, PlaceOK, ClockOK, RecordOK
<1>3. QED
  BY <1>1, <1>2

\* Every reachable state is well typed: in particular, no message is ever deferred past the
\* longest window or the delay before a retry.
THEOREM TypeCorrect == Spec => []TypeOK
<1>1. Init => TypeOK
  <2>1. Horizon \in Ages /\ 1 \in Windows /\ 0 \in 0 .. MaxLag /\ 0 \in 0 .. MaxLosses
    BY HorizonIsFar, WindowNumbers, LimiterAssumption DEF Ages
  <2>2. QED
    BY <2>1 DEF Init, TypeOK
<1>2. QED
  BY <1>1, TypeStep, PTL DEF Spec

-----------------------------------------------------------------------------
(***************************************************************************)
(* The limits.                                                             *)
(***************************************************************************)

\* What the relay took has its row, which is no older, unless it waits for it or lost it.
Recorded ==
  \A s \in Sends : s \notin lost /\ s # send /\ taken[s] < Horizon =>
    logged[s] # None /\ logged[s] <= taken[s]

LEMMA RecordedStep ==
  ASSUME TypeOK, Recorded, [Next]_vars
  PROVE  Recorded'
<1> USE DEF Recorded
<1>1. PlaceOK /\ RecordOK /\ None \notin Sends
  BY TypeParts, LimiterAssumption DEF Sends
<1>2. CASE UNCHANGED vars
  BY <1>2 DEF vars, dispatcher, record
<1>3. CASE \/ \E m \in Msgs : Submit(m) \/ TakeMessage(m)
           \/ CountWindow
  BY <1>3 DEF Submit, TakeMessage, CountWindow, dispatcher, record
<1>4. CASE PostponeMessage \/ RelayRefuses \/ StampSent
  BY <1>1, <1>4 DEF PostponeMessage, RelayRefuses, StampSent, Idle, record, PlaceOK
<1>5. CASE DeleteAccount
  BY <1>1, <1>5 DEF DeleteAccount, dispatcher, RecordOK
<1>6. CASE RelayAccepts \/ AnswerLost
  BY <1>1, <1>6 DEF RelayAccepts, AnswerLost, Accept, Idle, PlaceOK, RecordOK
<1>7. CASE LogSend
  <2>1. send \in Sends /\ send' = None
    BY <1>1, <1>7 DEF LogSend, Idle, PlaceOK
  <2>2. PICK age \in 0 .. MaxLag : age <= taken[send] /\ logged' = [logged EXCEPT ![send] = age]
    BY <1>7 DEF LogSend
  <2>3. age # None
    BY LimiterAssumption
  <2>4. QED
    BY <1>1, <1>7, <2>1, <2>2, <2>3 DEF LogSend, RecordOK
<1>8. CASE CycleFails
  BY <1>1, <1>8 DEF CycleFails, Idle, PlaceOK
<1>9. ASSUME Tick, NEW s \in Sends, s \notin lost', s # send', taken'[s] < Horizon
      PROVE  logged'[s] # None /\ logged'[s] <= taken'[s]
  <2>1. taken[s] \in Ages /\ taken'[s] = Older(taken[s])
    BY <1>1, <1>9 DEF Tick, RecordOK
  <2>2. Horizon \in Nat /\ None \notin Nat
    BY HorizonIsFar, LimiterAssumption
  <2>3. taken[s] < Horizon /\ taken'[s] = taken[s] + 1
    BY <1>9, <2>1, <2>2, OlderTypes DEF Ages
  <2>4. s \notin lost
    BY <1>9 DEF Tick
  <2>5. logged[s] \in 0 .. Horizon - 1 /\ logged[s] <= taken[s]
    BY <1>1, <1>9, <2>3, <2>4 DEF Tick, RecordOK
  <2>6. logged[s] # Horizon - 1
    BY <1>9, <2>2, <2>3, <2>5, <2>1 DEF Ages
  <2>7. logged'[s] = logged[s] + 1
    BY <1>9, <2>2, <2>5, <2>6, OlderTypes DEF Tick
  <2>8. QED
    BY <2>1, <2>2, <2>3, <2>5, <2>7 DEF Ages
<1>10. QED
  BY <1>2, <1>3, <1>4, <1>5, <1>6, <1>7, <1>8, <1>9 DEF Next, DispatcherStep

\* What counts against a window: the acceptances within it that are not lost.  The windows that
\* were counted have room for one more.
Against(w) == Within(w, Sends \ lost)
Passed(w) == pc = "send" \/ (pc = "limit" /\ w < window)

Room ==
  \A w \in Windows : Limited(w) =>
    /\ Cardinality(Against(w)) <= Limits[w]
    /\ Passed(w) => Cardinality(Against(w)) < Limits[w]

LEMMA Finite ==
  /\ IsFiniteSet(Sends)
  /\ \A S : S \subseteq Sends => IsFiniteSet(S) /\ Cardinality(S) \in Nat
<1>1. IsFiniteSet(Sends)
  BY FS_Interval, LimiterAssumption DEF Sends
<1>2. QED
  BY <1>1, FS_Subset, FS_CardinalityType

\* An acceptance is the only step that adds to what counts.
LEMMA OnlyAcceptanceAdds ==
  ASSUME TypeOK, Next, NEW w \in Windows
  PROVE  /\ ~RelayAccepts => Against(w)' \subseteq Against(w)
         /\ RelayAccepts => \E s \in Sends : Against(w)' \subseteq Against(w) \cup {s}
<1> USE DEF Against, Within
<1>1. RecordOK /\ PlaceOK
  BY TypeParts
<1>2. ASSUME \/ \E m \in Msgs : Submit(m) \/ TakeMessage(m)
             \/ CountWindow \/ PostponeMessage \/ RelayRefuses \/ StampSent \/ LogSend
      PROVE  Against(w)' \subseteq Against(w)
  BY <1>2 DEF Submit, TakeMessage, CountWindow, PostponeMessage, RelayRefuses, StampSent, LogSend,
     record
<1>3. ASSUME DeleteAccount \/ CycleFails
      PROVE  Against(w)' \subseteq Against(w)
  BY <1>3 DEF DeleteAccount, CycleFails
<1>4. ASSUME AnswerLost
      PROVE  Against(w)' \subseteq Against(w)
  BY <1>1, <1>4 DEF AnswerLost, Accept, RecordOK
<1>5. ASSUME RelayAccepts
      PROVE  \E s \in Sends : Against(w)' \subseteq Against(w) \cup {s}
  BY <1>1, <1>5 DEF RelayAccepts, Accept, RecordOK
<1>6. ASSUME Tick
      PROVE  Against(w)' \subseteq Against(w)
  <2>1. SUFFICES ASSUME NEW s \in Sends, s \notin lost', taken'[s] < Lengths[w]
                 PROVE  s \notin lost /\ taken[s] < Lengths[w]
    OBVIOUS
  <2>2. taken[s] \in Ages /\ taken'[s] = Older(taken[s])
    BY <1>1, <1>6 DEF Tick, RecordOK
  <2>3. Older(taken[s]) \in Ages /\ taken[s] <= Older(taken[s])
    BY <2>2, OlderTypes DEF Ages
  <2>4. Lengths[w] \in Nat /\ Lengths[w] <= Horizon /\ Horizon \in Nat
    BY WindowNumbers, HorizonIsFar
  <2>5. taken[s] < Lengths[w] /\ taken'[s] < Horizon
    BY <2>1, <2>2, <2>3, <2>4 DEF Ages
  <2>6. QED
    BY <1>6, <2>1, <2>5 DEF Tick
<1>7. QED
  BY <1>2, <1>3, <1>4, <1>5, <1>6 DEF Next, DispatcherStep

\* What counts against a window has rows that the limiter counts, however long it takes.
LEMMA CountedAll ==
  ASSUME TypeOK, Recorded, pc = "limit", NEW w \in Windows
  PROVE  Against(w) \subseteq Counted(w)
<1> SUFFICES ASSUME NEW s \in Sends, s \notin lost, taken[s] < Lengths[w]
             PROVE  logged[s] # None /\ logged[s] < Lengths[w] + lag
  BY DEF Against, Within, Counted
<1>1. Lengths[w] \in Nat /\ Lengths[w] <= Horizon /\ Horizon \in Nat /\ lag \in Nat
  BY WindowNumbers, HorizonIsFar, LimiterAssumption DEF TypeOK
<1>2. taken[s] \in Nat /\ taken[s] < Horizon
  BY <1>1, HorizonIsFar DEF TypeOK, Ages
<1>3. s # send
  BY LimiterAssumption DEF TypeOK, Sends
<1>4. logged[s] # None /\ logged[s] <= taken[s]
  BY <1>2, <1>3 DEF Recorded
<1>5. logged[s] \in Nat
  BY <1>1, <1>4 DEF TypeOK
<1>6. QED
  BY <1>1, <1>2, <1>4, <1>5

\* A window comes to be passed because it was counted and had room.
LEMMA PassedHasRoom ==
  ASSUME TypeOK, Recorded, Room, Next, NEW w \in Windows, Limited(w), Passed(w)'
  PROVE  Cardinality(Against(w)) < Limits[w]
<1> USE DEF Passed
<1>1. w \in Nat /\ Limits[w] \in Int
  BY WindowNumbers, LimiterAssumption
<1>2. CASE \/ DeleteAccount \/ Tick
           \/ \E m \in Msgs : Submit(m)
  BY <1>2 DEF DeleteAccount, Tick, Submit, dispatcher, Room
<1>3. CASE \E m \in Msgs : TakeMessage(m)
  BY <1>1, <1>3, WindowNumbers DEF TakeMessage
<1>4. CASE CountWindow
  <2>1. w = window \/ Passed(w)
    <3>1. window \in Windows /\ window \in Nat /\ w <= Len(Lengths)
      BY WindowNumbers DEF TypeOK
    <3>2. CASE window + 1 \in Windows
      BY <1>1, <1>4, <3>1, <3>2 DEF CountWindow
    <3>3. CASE window + 1 \notin Windows
      <4>1. w <= window
        BY <1>1, <3>1, <3>3, WindowNumbers
      <4>2. QED
        BY <1>1, <1>4, <3>1, <4>1 DEF CountWindow
    <3>4. QED
      BY <3>2, <3>3
  <2>2. CASE w = window
    <3>1. ~(Cardinality(Counted(w)) >= Limits[w])
      BY <1>4, <2>2 DEF CountWindow, Full
    <3>2. Against(w) \subseteq Counted(w) /\ Counted(w) \subseteq Sends
      BY <1>4, CountedAll DEF CountWindow, Counted
    <3>3. Cardinality(Against(w)) <= Cardinality(Counted(w))
      BY <3>2, Finite, FS_Subset
    <3>4. Cardinality(Against(w)) \in Nat /\ Cardinality(Counted(w)) \in Nat
      BY <3>2, Finite
    <3>5. QED
      BY <1>1, <3>1, <3>3, <3>4
  <2>3. QED
    BY <2>1, <2>2 DEF Room
<1>5. CASE PostponeMessage \/ RelayRefuses \/ AnswerLost \/ LogSend \/ CycleFails
  BY <1>5 DEF PostponeMessage, RelayRefuses, AnswerLost, LogSend, CycleFails, Idle
<1>6. CASE RelayAccepts \/ StampSent
  BY <1>6 DEF RelayAccepts, StampSent
<1>7. QED
  BY <1>2, <1>3, <1>4, <1>5, <1>6 DEF Next, DispatcherStep

LEMMA RoomStep ==
  ASSUME TypeOK, Recorded, Room, [Next]_vars
  PROVE  Room'
<1>1. CASE UNCHANGED vars
  BY <1>1 DEF Room, Passed, Against, Within, vars, dispatcher, record
<1>2. CASE Next
  <2> SUFFICES ASSUME NEW w \in Windows, Limited(w)
               PROVE  /\ Cardinality(Against(w)') <= Limits[w]
                      /\ Passed(w)' => Cardinality(Against(w)') < Limits[w]
    BY DEF Room, Limited
  <2>1. Against(w) \subseteq Sends /\ Against(w)' \subseteq Sends /\ Limits[w] \in Int
    BY LimiterAssumption DEF Against, Within
  <2>2. /\ IsFiniteSet(Against(w)) /\ Cardinality(Against(w)) \in Nat
        /\ Cardinality(Against(w)') \in Nat
    BY <2>1, Finite
  <2>3. CASE ~RelayAccepts
    <3>1. Cardinality(Against(w)') <= Cardinality(Against(w))
      BY <1>2, <2>2, <2>3, OnlyAcceptanceAdds, FS_Subset
    <3>2. Cardinality(Against(w)) <= Limits[w]
      BY DEF Room
    <3>3. Passed(w)' => Cardinality(Against(w)) < Limits[w]
      BY <1>2, PassedHasRoom
    <3>4. QED
      BY <2>1, <2>2, <3>1, <3>2, <3>3
  <2>4. CASE RelayAccepts
    <3>1. PICK s \in Sends : Against(w)' \subseteq Against(w) \cup {s}
      BY <1>2, <2>4, OnlyAcceptanceAdds
    <3> DEFINE A == Against(w)
    <3>2. /\ IsFiniteSet(A \cup {s})
          /\ Cardinality(A \cup {s}) <= Cardinality(A) + 1
          /\ Cardinality(A \cup {s}) \in Nat
      <4>1. IsFiniteSet(A) /\ Cardinality(A) \in Nat
        BY <2>2
      <4> HIDE DEF A
      <4>2. /\ IsFiniteSet(A \cup {s})
            /\ Cardinality(A \cup {s}) = IF s \in A THEN Cardinality(A) ELSE Cardinality(A) + 1
        BY <4>1, FS_AddElement
      <4>3. QED
        BY <4>1, <4>2
    <3>3. Cardinality(Against(w)') <= Cardinality(Against(w) \cup {s})
      BY <3>1, <3>2, FS_Subset
    <3>4. pc = "send" /\ ~Passed(w)'
      BY <2>4 DEF RelayAccepts, Accept, Passed
    <3>5. Cardinality(Against(w)) < Limits[w]
      BY <3>4 DEF Room, Passed
    <3>6. QED
      BY <2>1, <2>2, <3>2, <3>3, <3>4, <3>5
  <2>5. QED
    BY <2>3, <2>4
<1>3. QED
  BY <1>1, <1>2

\* Lost acceptances aside, the relay never took more messages within a window than its limit.
LEMMA RoomMeansWithin == TypeOK /\ Room => WithinLimits
<1> SUFFICES ASSUME TypeOK, Room, NEW w \in Windows, Limited(w)
             PROVE  Cardinality(Within(w, Sends)) <= Limits[w] + Cardinality(Within(w, lost))
  BY DEF WithinLimits
<1> DEFINE A == Against(w)
           L == Within(w, lost)
<1>1. Within(w, Sends) = A \cup L
  BY DEF TypeOK, Within, Against
<1>2. A \subseteq Sends /\ L \subseteq Sends /\ A \cap L \subseteq Sends
  BY DEF TypeOK, Within, Against
<1>3. /\ IsFiniteSet(A) /\ Cardinality(A) \in Nat
      /\ IsFiniteSet(L) /\ Cardinality(L) \in Nat
      /\ Cardinality(A \cap L) \in Nat
  BY <1>2, Finite
<1>4. Cardinality(A \cup L) = Cardinality(A) + Cardinality(L) - Cardinality(A \cap L)
  BY <1>3, FS_Union
<1>5. Cardinality(A) <= Limits[w] /\ Limits[w] \in Int
  BY LimiterAssumption DEF Room
<1>6. Cardinality(A \cup L) <= Limits[w] + Cardinality(L)
  <2> HIDE DEF A, L
  <2>1. QED
    BY <1>3, <1>4, <1>5
<1>7. QED
  BY <1>1, <1>6

\* For any limits and windows, however the clock, faults, deletions and lost answers interleave
\* with the counts: one message too many for each acceptance that has no row, and no more.
THEOREM LimitsHold == Spec => []WithinLimits
<1>1. Init => Recorded
  BY HorizonIsFar DEF Init, Recorded
<1>2. Init => Room
  <2> SUFFICES ASSUME Init, NEW w \in Windows, Limited(w)
               PROVE  Cardinality(Against(w)) = 0
    BY LimiterAssumption DEF Room, Limited
  <2>1. \A s \in Sends : ~(taken[s] < Lengths[w])
    BY WindowNumbers, HorizonIsFar DEF Init
  <2>2. Against(w) = {}
    BY <2>1 DEF Against, Within
  <2>3. QED
    BY <2>2, FS_EmptySet
<1>3. QED
  BY <1>1, <1>2, RecordedStep, RoomStep, RoomMeansWithin, TypeCorrect, PTL DEF Spec
=============================================================================
