------------------------------ MODULE MailTasks ------------------------------
(***************************************************************************)
(* The background tasks of AsyncMailCore (async_mail_service/core.py) and  *)
(* what makes them run: start and stop, the two wake events and their      *)
(* timeouts, test mode, "run now", suspend and activate, and the bounded   *)
(* queue of results that nobody has to read.                               *)
(*                                                                         *)
(* What a cycle does to its messages is in MailDispatch; here it matters   *)
(* only how many are ready, whether an outcome waits to be reported, and   *)
(* where a task waits and for what.  A cycle begins where the loop decides *)
(* to run it; its first query comes with the next step.                    *)
(***************************************************************************)
EXTENDS Naturals

CONSTANTS
  Modes,      \* values of test_mode to consider
  MaxReady,   \* bound: messages that are ready at a time
  QueueSize   \* result_queue_size

ASSUME TasksAssumption ==
  /\ Modes \subseteq BOOLEAN
  /\ MaxReady \in Nat /\ QueueSize \in Nat \ {0}

VARIABLES
  testMode,    \* _test_mode
  active,      \* _active
  ctl,         \* where start and stop stand
  stop,        \* _stop is set
  wake,        \* _wake_event is set
  wakeClient,  \* _wake_client_event is set
  smtpPc,      \* where _smtp_dispatch_loop stands
  batch,       \* messages its cycle has yet to dispatch
  clientPc,    \* where _client_report_loop stands
  cleanupPc,   \* where _cleanup_loop stands
  ready,       \* messages that are ready
  news,        \* outcomes wait to be read by a report cycle
  results,     \* length of _result_queue
  fresh,       \* history: a wake-up was called for since a report cycle began
  late,        \* history: cycles that began after stop, of each loop
  stoppedOnce  \* history: stop has been called

control == <<testMode, active, ctl, stop>>
events == <<wake, wakeClient, fresh>>
smtpVars == <<smtpPc, batch>>
data == <<ready, news, results>>
vars == <<control, events, smtpVars, clientPc, cleanupPc, data, late, stoppedOnce>>

Loops == {"smtp", "client"}

TypeOK ==
  /\ testMode \in Modes /\ active \in BOOLEAN /\ stop \in BOOLEAN
  /\ ctl \in {"running", "stopping", "stopped"}
  /\ wake \in BOOLEAN /\ wakeClient \in BOOLEAN
  /\ smtpPc \in {"first", "cycle", "dispatch", "publish", "pause", "done"}
  /\ batch \in 0 .. MaxReady /\ (batch > 0 => smtpPc \in {"dispatch", "publish"})
  /\ clientPc \in {"first", "cycle", "post", "pause", "done"}
  /\ cleanupPc \in {"sleep", "sweep", "done"}
  /\ ctl = "stopped" => smtpPc = "done" /\ clientPc = "done" /\ cleanupPc = "done"
  /\ ready \in 0 .. MaxReady /\ news \in BOOLEAN /\ results \in 0 .. QueueSize
  /\ fresh \in BOOLEAN /\ stoppedOnce \in BOOLEAN
  /\ late \in [Loops -> Nat]

Init ==
  /\ testMode \in Modes /\ active \in BOOLEAN
  /\ ctl = "stopped" /\ stop = FALSE /\ wake = FALSE /\ wakeClient = FALSE
  /\ smtpPc = "done" /\ batch = 0 /\ clientPc = "done" /\ cleanupPc = "done"
  /\ ready = 0 /\ news = FALSE /\ results = 0
  /\ fresh = FALSE /\ late = [l \in Loops |-> 0] /\ stoppedOnce = FALSE

-----------------------------------------------------------------------------
(***************************************************************************)
(* start and stop.  The events keep their value from one to the other.     *)
(***************************************************************************)
Start ==
  /\ ctl = "stopped" /\ ctl' = "running"
  /\ stop' = FALSE
  /\ smtpPc' = IF testMode THEN "first" ELSE "cycle"
  /\ clientPc' = IF testMode THEN "first" ELSE "cycle"
  /\ cleanupPc' = IF testMode THEN "done" ELSE "sleep"
  /\ fresh' = IF testMode THEN fresh ELSE FALSE
  /\ late' = [l \in Loops |-> 0]
  /\ UNCHANGED <<testMode, active, wake, wakeClient, batch, data, stoppedOnce>>

Stop ==
  /\ ctl = "running" /\ ctl' = "stopping"
  /\ stop' = TRUE /\ wake' = TRUE /\ wakeClient' = TRUE
  /\ stoppedOnce' = TRUE
  /\ UNCHANGED <<testMode, active, fresh, smtpVars, clientPc, cleanupPc, data, late>>

\* Mutant: stop does not wait for the tasks.
Stopped_AtOnce ==
  /\ ctl = "stopping"
  /\ ctl' = "stopped"
  /\ UNCHANGED <<testMode, active, stop, events, smtpVars, clientPc, cleanupPc, data, late,
                 stoppedOnce>>

\* gather returns.
Stopped ==
  /\ ctl = "stopping"
  /\ smtpPc = "done" /\ clientPc = "done" /\ cleanupPc = "done"
  /\ ctl' = "stopped"
  /\ UNCHANGED <<testMode, active, stop, events, smtpVars, clientPc, cleanupPc, data, late,
                 stoppedOnce>>

-----------------------------------------------------------------------------
(***************************************************************************)
(* Commands.                                                               *)
(***************************************************************************)

RunNow ==
  /\ wakeClient' = TRUE /\ fresh' = TRUE
  /\ UNCHANGED <<control, wake, smtpVars, clientPc, cleanupPc, data, late, stoppedOnce>>

SetActive(value) ==
  /\ active' = value
  /\ UNCHANGED <<testMode, ctl, stop, events, smtpVars, clientPc, cleanupPc, data, late,
                 stoppedOnce>>

\* Where the queue stays full for queue_put_timeout, the event is dropped.
Added(n) == IF n < QueueSize THEN n + 1 ELSE n

\* A message is added, or its deferral is over.
MessageReady ==
  /\ ready < MaxReady /\ ready' = ready + 1
  /\ UNCHANGED <<control, events, smtpVars, clientPc, cleanupPc, news, results, late,
                 stoppedOnce>>

\* addMessages refuses an item: its error waits to be reported, and nobody is woken.
RejectMessage ==
  /\ news' = TRUE
  /\ results' = Added(results)
  /\ UNCHANGED <<control, events, smtpVars, clientPc, cleanupPc, ready, late, stoppedOnce>>

ReadResult ==
  /\ results > 0 /\ results' = results - 1
  /\ UNCHANGED <<control, events, smtpVars, clientPc, cleanupPc, ready, news, late,
                 stoppedOnce>>

-----------------------------------------------------------------------------
(***************************************************************************)
(* The SMTP dispatch loop.                                                 *)
(***************************************************************************)
Began(loop) == late' = [late EXCEPT ![loop] = IF stop THEN @ + 1 ELSE @]

\* Mutant: the loop does not look at _stop.
SmtpLoopTop_Forever == smtpPc' = "cycle" /\ Began("smtp")

\* while not _stop.is_set()
SmtpLoopTop ==
  IF stop THEN smtpPc' = "done" /\ UNCHANGED late
  ELSE smtpPc' = "cycle" /\ Began("smtp")

\* Mutant: _stop is not asked before the loop waits.
SmtpPause_Always == smtpPc' = "pause" /\ UNCHANGED late

\* _wait_for_wakeup does not wait once _stop is set.
SmtpPause == IF stop THEN SmtpLoopTop ELSE smtpPc' = "pause" /\ UNCHANGED late

\* The first wait of test mode is not followed by a look at _stop.
SmtpFirstWakes ==
  /\ smtpPc = "first" /\ wake
  /\ wake' = FALSE
  /\ smtpPc' = "cycle" /\ Began("smtp")
  /\ UNCHANGED <<control, wakeClient, fresh, batch, clientPc, cleanupPc, data, stoppedOnce>>

\* The event, or the send_loop_interval, which is infinite in test mode.
SmtpWakes ==
  /\ smtpPc = "pause"
  /\ \/ wake /\ wake' = FALSE
     \/ ~testMode /\ UNCHANGED wake
  /\ SmtpLoopTop
  /\ UNCHANGED <<control, wakeClient, fresh, batch, clientPc, cleanupPc, data, stoppedOnce>>

FetchBatch ==
  /\ smtpPc = "cycle"
  /\ batch' = ready
  /\ IF ready > 0 THEN smtpPc' = "dispatch" /\ UNCHANGED late ELSE SmtpPause
  /\ UNCHANGED <<control, events, clientPc, cleanupPc, data, stoppedOnce>>

\* The cycle goes on, or it has processed something: the report loop is woken, and there is
\* no pause.
NextMessage ==
  IF batch' > 0 THEN smtpPc' = "dispatch" /\ UNCHANGED <<wakeClient, fresh, late>>
  ELSE wakeClient' = TRUE /\ fresh' = TRUE /\ SmtpLoopTop

\* An outcome, a deferral because of an error, or one because of a limit, which is not an
\* event.
Dispatch ==
  /\ smtpPc = "dispatch"
  /\ batch' = batch - 1
  /\ \/ /\ ready' = IF ready > 0 THEN ready - 1 ELSE 0
        /\ news' = TRUE
        /\ smtpPc' = "publish" /\ UNCHANGED <<wakeClient, fresh, late>>
     \/ /\ smtpPc' = "publish"
        /\ UNCHANGED <<ready, news, wakeClient, fresh, late>>
     \/ /\ NextMessage
        /\ UNCHANGED <<ready, news>>
  /\ UNCHANGED <<control, wake, clientPc, cleanupPc, results, stoppedOnce>>

\* Mutant: the put has no timeout.
Publish_Blocks ==
  /\ smtpPc = "publish"
  /\ results < QueueSize /\ results' = results + 1
  /\ UNCHANGED batch /\ NextMessage
  /\ UNCHANGED <<control, wake, clientPc, cleanupPc, ready, news, stoppedOnce>>

Publish ==
  /\ smtpPc = "publish"
  /\ results' = Added(results)
  /\ UNCHANGED batch /\ NextMessage
  /\ UNCHANGED <<control, wake, clientPc, cleanupPc, ready, news, stoppedOnce>>

\* An exception counts as nothing processed: nobody is woken.  At "publish" it is log_send that
\* raises, after the outcome was stored.
SmtpCycleRaises ==
  /\ smtpPc \in {"cycle", "dispatch", "publish"}
  /\ batch' = 0
  /\ SmtpPause
  /\ UNCHANGED <<control, events, clientPc, cleanupPc, data, stoppedOnce>>

-----------------------------------------------------------------------------
(***************************************************************************)
(* The client report loop.                                                 *)
(***************************************************************************)
ClientLoopTop ==
  IF stop THEN clientPc' = "done" /\ UNCHANGED <<fresh, late>>
  ELSE clientPc' = "cycle" /\ fresh' = FALSE /\ Began("client")

\* Mutant: the event is cleared when the wait begins, not when it ends.
ClientPause_Clears ==
  /\ wakeClient' = FALSE
  /\ IF stop THEN ClientLoopTop ELSE clientPc' = "pause" /\ UNCHANGED <<fresh, late>>

\* The end of a cycle, whatever became of it.
ClientPause ==
  /\ UNCHANGED wakeClient
  /\ IF stop THEN ClientLoopTop ELSE clientPc' = "pause" /\ UNCHANGED <<fresh, late>>

ClientFirstWakes ==
  /\ clientPc = "first" /\ wakeClient
  /\ wakeClient' = FALSE
  /\ clientPc' = "cycle" /\ fresh' = FALSE /\ Began("client")
  /\ UNCHANGED <<control, wake, smtpVars, cleanupPc, data, stoppedOnce>>

\* Mutant: without the fallback interval.
FallbackEnds_Never == FALSE

\* Five minutes, which is how long it takes to hear of what nobody was woken for; never in
\* test mode.
FallbackEnds == ~testMode

ClientWakes ==
  /\ clientPc = "pause"
  /\ \/ wakeClient /\ wakeClient' = FALSE
     \/ FallbackEnds /\ UNCHANGED wakeClient
  /\ ClientLoopTop
  /\ UNCHANGED <<control, wake, smtpVars, cleanupPc, data, stoppedOnce>>

\* Nothing is read while the service is suspended.
FetchReports ==
  /\ clientPc = "cycle"
  /\ IF active /\ news
     THEN clientPc' = "post" /\ news' = FALSE /\ UNCHANGED <<wakeClient, fresh, late>>
     ELSE ClientPause /\ UNCHANGED news
  /\ UNCHANGED <<control, wake, smtpVars, cleanupPc, ready, results, stoppedOnce>>

\* The reports are delivered and marked, or they stay for a later cycle.
PostReports ==
  /\ clientPc = "post"
  /\ news' = news \/ news' = TRUE
  /\ ClientPause
  /\ UNCHANGED <<control, wake, smtpVars, cleanupPc, ready, results, stoppedOnce>>

-----------------------------------------------------------------------------
\* The cleanup loop sleeps for 150 seconds, whatever happens, and sweeps the pool after that.
CleanupStep ==
  /\ cleanupPc # "done"
  /\ cleanupPc' = IF cleanupPc = "sleep" THEN "sweep" ELSE IF stop THEN "done" ELSE "sleep"
  /\ UNCHANGED <<control, events, smtpVars, clientPc, data, late, stoppedOnce>>

SmtpProceeds == SmtpFirstWakes \/ SmtpWakes \/ FetchBatch \/ Dispatch \/ Publish

SmtpStep == SmtpProceeds \/ SmtpCycleRaises

ClientStep == ClientFirstWakes \/ ClientWakes \/ FetchReports \/ PostReports

Next ==
  \/ Start \/ Stop \/ Stopped
  \/ RunNow \/ SetActive(TRUE) \/ SetActive(FALSE)
  \/ MessageReady \/ RejectMessage \/ ReadResult
  \/ SmtpStep \/ ClientStep \/ CleanupStep

Spec == Init /\ [][Next]_vars

\* The event loop runs the tasks that can go on, and timers run down; no exception is owed.  A
\* cycle does not raise before its first message for ever.  Nobody has to read the results, nor
\* to stop or start.
FairSpec ==
  /\ Spec /\ WF_vars(SmtpProceeds) /\ SF_vars(FetchBatch)
  /\ WF_vars(ClientStep) /\ WF_vars(CleanupStep) /\ WF_vars(Stopped)

-----------------------------------------------------------------------------
\* The report loop does not sleep over a wake-up: an event set while its cycle runs, or while
\* its wait times out, is still there when it waits again (core.py 555, 797-817, 917-938).
NoLostWakeup == clientPc = "pause" /\ fresh => wakeClient

\* After stop a loop ends the cycle it is in and begins no other; only in test mode may it begin
\* one, since the first wait returns into the cycle (core.py 528-546, 805-817).
StopIsPrompt == \A l \in Loops : late[l] <= IF testMode THEN 1 ELSE 0

\* In test mode the loops "wait for an explicit wake-up", and "run now" raises it, "making the
\* loops process the next cycle immediately" (docs/usage.rst 105-107): where it is called again
\* and again, what stays ready in a running, active service gets its turn.
RunNowWakesDispatcher ==
  /\ <>[](testMode /\ active /\ ctl = "running" /\ ready > 0)
  /\ []<><<RunNow>>_vars
  => []<>(smtpPc = "dispatch")

\* In test mode the dispatcher sleeps until stop is called: "run now" wakes the report loop only
\* (core.py 323-326, 543-546; tests/test_core.py 118-148).
TestModeSleeps ==
  testMode /\ ~stoppedOnce => smtpPc \in {"first", "done"}

\* stop returns, wherever the tasks are: no task waits for an event that is already used up
\* (core.py 528-536, 886-943).
StopCompletes == ctl = "stopping" ~> ctl = "stopped"

\* What is ready gets its turn in an active service outside test mode, although nobody reads the
\* results (core.py 539-609, 947-952).
QueueIsServed ==
  ready > 0 /\ ~testMode /\ ctl = "running"
  ~> smtpPc = "dispatch" \/ ready = 0 \/ ~active \/ stop

\* An outcome is posted outside test mode, although a cycle that broke off, or a request whose
\* item was refused, woke nobody, and a post that failed is not repeated at once (core.py
\* 384-437, 556-561, 797-860).
OutcomesPosted ==
  news /\ ~testMode /\ ctl = "running" ~> clientPc = "post" \/ ~active \/ stop
=============================================================================
