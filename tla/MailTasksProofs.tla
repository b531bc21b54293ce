--------------------------- MODULE MailTasksProofs ---------------------------
(***************************************************************************)
(* What MailTasks keeps true in and out of test mode, for queues of any    *)
(* length: types, and that the loops neither sleep over a wake-up nor run  *)
(* when they should not.                                                   *)
(***************************************************************************)
EXTENDS MailTasks, TLAPS

(***************************************************************************)
(* Types.  That a batch stays a natural number rests on the dispatcher     *)
(* having something left when it dispatches.                               *)
(***************************************************************************)
BatchLeft == smtpPc = "dispatch" => batch > 0

TypeInv == TypeOK /\ BatchLeft

\* The type invariant in two parts: the flags, and where everything stands.
FlagsOK ==
  /\ testMode \in Modes /\ active \in BOOLEAN /\ stop \in BOOLEAN
  /\ wake \in BOOLEAN /\ wakeClient \in BOOLEAN
  /\ news \in BOOLEAN /\ fresh \in BOOLEAN /\ stoppedOnce \in BOOLEAN

PlacesOK ==
  /\ ctl \in {"running", "stopping", "stopped"}
  /\ smtpPc \in {"first", "cycle", "dispatch", "publish", "pause", "done"}
  /\ batch \in 0 .. MaxReady /\ (batch > 0 => smtpPc \in {"dispatch", "publish"})
  /\ clientPc \in {"first", "cycle", "post", "pause", "done"}
  /\ cleanupPc \in {"sleep", "sweep", "done"}
  /\ ctl = "stopped" => smtpPc = "done" /\ clientPc = "done" /\ cleanupPc = "done"
  /\ ready \in 0 .. MaxReady /\ results \in 0 .. QueueSize
  /\ late \in [Loops -> Nat]
  /\ BatchLeft

LEMMA TypeParts == /\ TypeInv <=> FlagsOK /\ PlacesOK
                   /\ TypeInv' <=> FlagsOK' /\ PlacesOK'
BY DEF TypeInv, TypeOK, FlagsOK, PlacesOK, BatchLeft

\* No step makes a flag anything but a flag.
LEMMA FlagTypes ==
  ASSUME TypeInv, Next
  PROVE  FlagsOK'
<1> USE DEF FlagsOK, control, events, smtpVars, data
<1>1. FlagsOK
  BY TypeParts
<1>2. CASE Start \/ Stop \/ Stopped \/ RunNow \/ MessageReady \/ RejectMessage \/ ReadResult
  BY <1>1, <1>2 DEF Start, Stop, Stopped, RunNow, MessageReady, RejectMessage, ReadResult
<1>3. CASE SetActive(TRUE) \/ SetActive(FALSE)
  BY <1>1, <1>3 DEF SetActive
<1>4. CASE SmtpFirstWakes \/ SmtpWakes \/ FetchBatch \/ SmtpCycleRaises
  BY <1>1, <1>4 DEF SmtpFirstWakes, SmtpWakes, FetchBatch, SmtpCycleRaises
<1>5. CASE Dispatch \/ Publish
  BY <1>1, <1>5 DEF Dispatch, Publish, NextMessage
<1>6. CASE ClientFirstWakes \/ ClientWakes
  BY <1>1, <1>6 DEF ClientFirstWakes, ClientWakes, ClientLoopTop
<1>7. CASE FetchReports \/ PostReports
  BY <1>1, <1>7 DEF FetchReports, PostReports, ClientPause, ClientLoopTop
<1>8. CASE CleanupStep
  BY <1>1, <1>8 DEF CleanupStep
<1>9. QED
  BY <1>2, <1>3, <1>4, <1>5, <1>6, <1>7, <1>8 DEF Next, SmtpStep, SmtpProceeds, ClientStep

\* start, stop and the commands keep everybody's place.
LEMMA ControlPlaces ==
  ASSUME TypeInv,
         \/ Start \/ Stop \/ Stopped \/ RunNow \/ SetActive(TRUE) \/ SetActive(FALSE)
         \/ MessageReady \/ RejectMessage \/ ReadResult
  PROVE  PlacesOK'
<1> USE DEF PlacesOK, BatchLeft, control, events, smtpVars, data, Loops
<1>1. PlacesOK
  BY TypeParts
<1>2. CASE Start
  BY <1>1, <1>2 DEF Start
<1>3. CASE Stop \/ Stopped \/ RunNow
  BY <1>1, <1>3 DEF Stop, Stopped, RunNow
<1>4. CASE SetActive(TRUE) \/ SetActive(FALSE)
  BY <1>1, <1>4 DEF SetActive
<1>5. CASE MessageReady \/ RejectMessage \/ ReadResult
  BY <1>1, <1>5, TasksAssumption DEF MessageReady, RejectMessage, ReadResult, Added
<1>6. QED
  BY <1>2, <1>3, <1>4, <1>5

\* Where the dispatch loop goes at the end of a cycle or of a wait.
LEMMA SmtpLoopPlaces ==
  ASSUME PlacesOK, SmtpLoopTop \/ SmtpPause
  PROVE  /\ smtpPc' \in {"cycle", "pause", "done"}
         /\ late' \in [Loops -> Nat]
BY DEF PlacesOK, SmtpLoopTop, SmtpPause, Began, Loops

\* The dispatch loop keeps everybody's place.
LEMMA SmtpPlaces ==
  ASSUME TypeInv, SmtpStep
  PROVE  PlacesOK'
<1> USE DEF PlacesOK, BatchLeft, control, events, data
<1>1. PlacesOK
  BY TypeParts
<1>2. CASE SmtpFirstWakes
  BY <1>1, <1>2 DEF SmtpFirstWakes, Began, Loops
<1>3. CASE SmtpWakes
  BY <1>1, <1>3, SmtpLoopPlaces DEF SmtpWakes
<1>4. CASE FetchBatch
  BY <1>1, <1>4, SmtpLoopPlaces, TasksAssumption DEF FetchBatch
<1>5. ASSUME NextMessage
      PROVE  /\ smtpPc' \in {"dispatch", "cycle", "done"}
             /\ smtpPc' = "dispatch" <=> batch' > 0
             /\ late' \in [Loops -> Nat]
  BY <1>1, <1>5 DEF NextMessage, SmtpLoopTop, Began, Loops
<1>6. CASE Dispatch
  <2>1. batch' \in 0 .. MaxReady /\ ready' \in 0 .. MaxReady /\ smtpPc = "dispatch"
    BY <1>1, <1>6, TasksAssumption DEF Dispatch
  <2>2. CASE NextMessage
    BY <1>1, <1>5, <1>6, <2>1, <2>2 DEF Dispatch
  <2>3. CASE smtpPc' = "publish" /\ UNCHANGED late
    BY <1>1, <1>6, <2>1, <2>3 DEF Dispatch
  <2>4. QED
    BY <1>6, <2>2, <2>3 DEF Dispatch
<1>7. CASE Publish
  BY <1>1, <1>5, <1>7, TasksAssumption DEF Publish, Added
<1>8. CASE SmtpCycleRaises
  BY <1>1, <1>8, SmtpLoopPlaces, TasksAssumption DEF SmtpCycleRaises
<1>9. QED
  BY <1>2, <1>3, <1>4, <1>6, <1>7, <1>8 DEF SmtpStep, SmtpProceeds

\* The report loop and the cleanup loop keep everybody's place.
LEMMA OtherPlaces ==
  ASSUME TypeInv, ClientStep \/ CleanupStep
  PROVE  PlacesOK'
<1> USE DEF PlacesOK, BatchLeft, control, events, smtpVars, data
<1>1. PlacesOK
  BY TypeParts
<1>2. ASSUME ClientLoopTop \/ ClientPause
      PROVE  clientPc' \in {"cycle", "pause", "done"} /\ late' \in [Loops -> Nat]
  BY <1>1, <1>2 DEF ClientLoopTop, ClientPause, Began, Loops
<1>3. CASE ClientFirstWakes
  BY <1>1, <1>3 DEF ClientFirstWakes, Began, Loops
<1>4. CASE ClientWakes
  BY <1>1, <1>2, <1>4 DEF ClientWakes
<1>5. CASE FetchReports /\ ClientPause
  BY <1>1, <1>2, <1>5 DEF FetchReports
<1>6. CASE FetchReports /\ ~ClientPause
  BY <1>1, <1>6 DEF FetchReports
<1>7. CASE PostReports
  BY <1>1, <1>2, <1>7 DEF PostReports
<1>8. CASE CleanupStep
  BY <1>1, <1>8 DEF CleanupStep
<1>9. QED
  BY <1>3, <1>4, <1>5, <1>6, <1>7, <1>8 DEF ClientStep

LEMMA TypeInvariant == Spec => []TypeInv
<1>1. Init => TypeInv
  <2>1. Init => FlagsOK
    BY DEF Init, FlagsOK
  <2>2. Init => PlacesOK
    BY TasksAssumption DEF Init, PlacesOK, BatchLeft, Loops
  <2>3. QED
    BY <2>1, <2>2, TypeParts
<1>2. TypeInv /\ [Next]_vars => TypeInv'
  <2>1. CASE UNCHANGED vars
    BY <2>1 DEF TypeInv, TypeOK, BatchLeft, vars, control, events, smtpVars, data
  <2>2. QED
    BY <2>1, TypeParts, FlagTypes, ControlPlaces, SmtpPlaces, OtherPlaces DEF Next
<1>3. QED
  BY <1>1, <1>2, PTL DEF Spec

\* Every reachable state is well typed, whatever the bounds.
THEOREM TypeCorrect == Spec => []TypeOK
BY TypeInvariant, PTL DEF TypeInv

-----------------------------------------------------------------------------
(***************************************************************************)
(* stop.  Only the first wait of test mode lets a cycle begin without a    *)
(* look at _stop, so no loop may have begun one late before that wait.     *)
(***************************************************************************)
FirstWait ==
  /\ smtpPc = "first" => testMode /\ late["smtp"] = 0
  /\ clientPc = "first" => testMode /\ late["client"] = 0

PromptInv == FirstWait /\ StopIsPrompt

\* A loop that looks at _stop before a cycle counts none as late.
LEMMA LooksAtStop ==
  ASSUME TypeInv, SmtpLoopTop \/ SmtpPause \/ NextMessage \/ ClientLoopTop \/ ClientPause
  PROVE  late' = late
BY DEF TypeInv, TypeOK, SmtpLoopTop, SmtpPause, NextMessage, ClientLoopTop, ClientPause, Began,
       Loops

LEMMA PromptStep ==
  ASSUME TypeInv, PromptInv, Next
  PROVE  PromptInv'
<1> USE DEF PromptInv, FirstWait, StopIsPrompt, control, events, smtpVars, data, Loops
<1>1. late \in [Loops -> Nat]
  BY DEF TypeInv, TypeOK
<1>2. CASE Start
  BY <1>1, <1>2 DEF Start
<1>3. CASE Stop \/ Stopped \/ RunNow \/ MessageReady \/ RejectMessage \/ ReadResult \/ CleanupStep
  BY <1>3 DEF Stop, Stopped, RunNow, MessageReady, RejectMessage, ReadResult, CleanupStep
<1>4. CASE SetActive(TRUE) \/ SetActive(FALSE)
  BY <1>4 DEF SetActive
<1>5. CASE SmtpFirstWakes
  <2>1. testMode /\ testMode' = testMode /\ smtpPc' = "cycle" /\ clientPc' = clientPc
    BY <1>5 DEF SmtpFirstWakes
  <2>2. late'["smtp"] \in 0 .. 1 /\ late'["client"] = late["client"]
    BY <1>1, <1>5 DEF SmtpFirstWakes, Began
  <2>3. late["client"] <= 1
    BY <2>1
  <2>4. \A l \in Loops : late'[l] <= 1
    BY <1>1, <2>2, <2>3
  <2>5. QED
    BY <2>1, <2>2, <2>4
<1>6. CASE ClientFirstWakes
  <2>1. testMode /\ testMode' = testMode /\ clientPc' = "cycle" /\ smtpPc' = smtpPc
    BY <1>6 DEF ClientFirstWakes
  <2>2. late'["client"] \in 0 .. 1 /\ late'["smtp"] = late["smtp"]
    BY <1>1, <1>6 DEF ClientFirstWakes, Began
  <2>3. late["smtp"] <= 1
    BY <2>1
  <2>4. \A l \in Loops : late'[l] <= 1
    BY <1>1, <2>2, <2>3
  <2>5. QED
    BY <2>1, <2>2, <2>4
<1>7. ASSUME \/ SmtpStep /\ ~SmtpFirstWakes
             \/ ClientStep /\ ~ClientFirstWakes
      PROVE  late' = late /\ (testMode' <=> testMode)
  BY <1>7, LooksAtStop DEF SmtpStep, SmtpProceeds, ClientStep, SmtpWakes, FetchBatch, Dispatch,
     Publish, SmtpCycleRaises, ClientWakes, FetchReports, PostReports
<1>8. ASSUME SmtpStep, ~SmtpFirstWakes
      PROVE  smtpPc' # "first" /\ clientPc' = clientPc
  BY <1>8 DEF SmtpStep, SmtpProceeds, SmtpWakes, FetchBatch, Dispatch, Publish, SmtpCycleRaises,
     SmtpLoopTop, SmtpPause, NextMessage
<1>9. ASSUME ClientStep, ~ClientFirstWakes
      PROVE  clientPc' # "first" /\ smtpPc' = smtpPc
  BY <1>9 DEF ClientStep, ClientWakes, FetchReports, PostReports, ClientLoopTop, ClientPause
<1>10. CASE SmtpStep /\ ~SmtpFirstWakes
  BY <1>7, <1>8, <1>10
<1>11. CASE ClientStep /\ ~ClientFirstWakes
  BY <1>7, <1>9, <1>11
<1>12. QED
  BY <1>2, <1>3, <1>4, <1>5, <1>6, <1>10, <1>11 DEF Next

\* After stop no loop begins a cycle, but for the one behind the first wait of test mode.
THEOREM StopsPromptly == Spec => []StopIsPrompt
<1>1. Init => PromptInv
  BY DEF Init, PromptInv, FirstWait, StopIsPrompt, Loops
<1>2. TypeInv /\ PromptInv /\ [Next]_vars => PromptInv'
  BY PromptStep DEF PromptInv, FirstWait, StopIsPrompt, vars, control, smtpVars
<1>3. QED
  BY <1>1, <1>2, TypeInvariant, PTL DEF Spec, PromptInv

-----------------------------------------------------------------------------
(***************************************************************************)
(* Test mode.  Nobody but stop sets the event of the dispatcher.           *)
(***************************************************************************)
SleepInv == (wake => stoppedOnce) /\ TestModeSleeps

LEMMA SleepStep ==
  ASSUME TypeInv, SleepInv, Next
  PROVE  SleepInv'
<1> USE DEF SleepInv, TestModeSleeps, control, events, smtpVars, data
<1>1. CASE Start
  BY <1>1 DEF Start
<1>2. CASE Stop
  BY <1>2 DEF Stop
<1>3. CASE Stopped \/ RunNow \/ MessageReady \/ RejectMessage \/ ReadResult \/ CleanupStep
  BY <1>3 DEF Stopped, RunNow, MessageReady, RejectMessage, ReadResult, CleanupStep
<1>4. CASE SetActive(TRUE) \/ SetActive(FALSE)
  BY <1>4 DEF SetActive
<1>5. CASE SmtpStep
  <2>1. /\ smtpPc # "first" \/ wake
        /\ smtpPc # "done"
    BY <1>5 DEF SmtpStep, SmtpProceeds, SmtpFirstWakes, SmtpWakes, FetchBatch, Dispatch, Publish,
       SmtpCycleRaises
  <2>2. testMode' = testMode /\ stoppedOnce' = stoppedOnce /\ (wake' => wake)
    BY <1>5 DEF SmtpStep, SmtpProceeds, SmtpFirstWakes, SmtpWakes, FetchBatch, Dispatch, Publish,
       SmtpCycleRaises
  <2>3. ~testMode \/ stoppedOnce
    BY <2>1
  <2>4. QED
    BY <2>2, <2>3
<1>6. CASE ClientStep
  BY <1>6 DEF ClientStep, ClientFirstWakes, ClientWakes, FetchReports, PostReports
<1>7. QED
  BY <1>1, <1>2, <1>3, <1>4, <1>5, <1>6 DEF Next

\* In test mode the dispatcher does nothing before stop is called, whatever commands come.
THEOREM SleepsInTestMode == Spec => []TestModeSleeps
<1>1. Init => SleepInv
  BY DEF Init, SleepInv, TestModeSleeps
<1>2. TypeInv /\ SleepInv /\ [Next]_vars => SleepInv'
  BY SleepStep DEF SleepInv, TestModeSleeps, vars, control, events, smtpVars
<1>3. QED
  BY <1>1, <1>2, TypeInvariant, PTL DEF Spec, SleepInv

-----------------------------------------------------------------------------
(***************************************************************************)
(* Wake-ups.  From the begin of a cycle to its next wait the event stays   *)
(* set if it was set meanwhile; only the end of a wait clears it, and a    *)
(* cycle begins, or the loop ends, with that.                              *)
(***************************************************************************)
FreshIsSet == clientPc \in {"cycle", "post", "pause"} /\ fresh => wakeClient

LEMMA FreshStep ==
  ASSUME TypeInv, FreshIsSet, Next
  PROVE  FreshIsSet'
<1> USE DEF FreshIsSet, control, events, smtpVars, data
<1>1. CASE Start
  BY <1>1 DEF Start
<1>2. CASE Stop \/ Stopped \/ RunNow \/ MessageReady \/ RejectMessage \/ ReadResult \/ CleanupStep
  BY <1>2 DEF Stop, Stopped, RunNow, MessageReady, RejectMessage, ReadResult, CleanupStep
<1>3. CASE SetActive(TRUE) \/ SetActive(FALSE)
  BY <1>3 DEF SetActive
<1>4. CASE SmtpFirstWakes \/ SmtpWakes \/ FetchBatch \/ SmtpCycleRaises
  BY <1>4 DEF SmtpFirstWakes, SmtpWakes, FetchBatch, SmtpCycleRaises
<1>5. CASE Dispatch \/ Publish
  BY <1>5 DEF Dispatch, Publish, NextMessage
<1>6. CASE ClientFirstWakes
  BY <1>6 DEF ClientFirstWakes
<1>7. CASE ClientWakes
  BY <1>7 DEF ClientWakes, ClientLoopTop
<1>8. CASE FetchReports \/ PostReports
  BY <1>8 DEF FetchReports, PostReports, ClientPause, ClientLoopTop
<1>9. QED
  BY <1>1, <1>2, <1>3, <1>4, <1>5, <1>6, <1>7, <1>8 DEF Next, SmtpStep, SmtpProceeds, ClientStep

\* The report loop never waits for an event it was sent since its last cycle began.
THEOREM WakeupsAreKept == Spec => []NoLostWakeup
<1>1. Init => FreshIsSet
  BY DEF Init, FreshIsSet
<1>2. TypeInv /\ FreshIsSet /\ [Next]_vars => FreshIsSet'
  BY FreshStep DEF FreshIsSet, vars, events
<1>3. FreshIsSet => NoLostWakeup
  BY DEF FreshIsSet, NoLostWakeup
<1>4. QED
  BY <1>1, <1>2, <1>3, TypeInvariant, PTL DEF Spec
=============================================================================
