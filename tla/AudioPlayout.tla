----------------------------- MODULE AudioPlayout -----------------------------
(***************************************************************************)
(* MediaApiAudioDeviceModule (cpp/internal/media_api_audio_device_module): *)
(* the task queue that asks WebRTC for decoded audio once per sampling     *)
(* interval.  ProcessPlayData first calls WebRTC, then reads the clock and *)
(* posts itself again with a delay; the clock may go on between any two of *)
(* these points, so a call may take any time and a wakeup may be late.     *)
(***************************************************************************)
EXTENDS Naturals

CONSTANTS
  Interval,    \* sampling_interval_
  MaxTime      \* bound: where the clock stops

ASSUME IntervalAssumption == Interval \in Nat \ {0}
ASSUME MaxTimeAssumption == MaxTime \in Nat

VARIABLES
  now,         \* webrtc::TimeMicros()
  callback,    \* is audio_callback_ registered?
  playout,     \* what is on playout_thread_: see PlayoutStates
  nextRun,     \* next_run_time_
  wake,        \* when the delayed task, if there is one, may run
  ideal,       \* when this call would run if every call took no time
  overrun      \* has a call ended more than an interval after its target?

playoutVars == <<callback, playout, nextRun, wake, ideal, overrun>>

\* No task queue, the first task posted, a delayed task, ProcessPlayData.
PlayoutStates == {"none", "posted", "waiting", "running"}

PlayoutInit ==
  /\ now = 0
  /\ callback = FALSE
  /\ playout = "none"
  /\ nextRun = 0 /\ wake = 0
  /\ ideal = 0 /\ overrun = FALSE

Later(a, b) == IF a >= b THEN a ELSE b

\* a - b, or no delay at all.
Remaining(a, b) == IF a >= b THEN a - b ELSE 0

-----------------------------------------------------------------------------
Tick ==
  /\ now < MaxTime
  /\ now' = now + 1
  /\ UNCHANGED playoutVars

\* The callback may be changed only while nothing plays.
RegisterAudioCallback(registered) ==
  /\ playout = "none"
  /\ callback' = registered
  /\ UNCHANGED <<now, playout, nextRun, wake, ideal, overrun>>

\* StartPlayout creates the task queue and posts the first task.
StartPlayout ==
  /\ playout = "none"
  /\ playout' = "posted"
  /\ UNCHANGED <<now, callback, nextRun, wake, ideal, overrun>>

\* The first task: what it targets is the time it runs at.
FirstRun ==
  /\ playout = "posted"
  /\ playout' = "running"
  /\ nextRun' = now
  /\ ideal' = now
  /\ overrun' = FALSE
  /\ UNCHANGED <<now, callback, wake>>

\* The delayed task runs, not before its time.
Wake ==
  /\ playout = "waiting"
  /\ now >= wake
  /\ playout' = "running"
  /\ wake' = 0
  /\ UNCHANGED <<now, callback, nextRun, ideal, overrun>>

\* Mutant: a target that has passed is kept, to be caught up with.
RescheduleCatchingUp ==
  /\ playout = "running"
  /\ playout' = "waiting"
  /\ nextRun' = nextRun + Interval
  /\ wake' = now + Remaining(Interval, now - nextRun)
  /\ ideal' = ideal + Interval
  /\ overrun' = (overrun \/ now - nextRun > Interval)
  /\ UNCHANGED <<now, callback>>

\* The end of ProcessPlayData: the lost time is measured against the old
\* target, and shortens the delay of the next call.
Reschedule ==
  /\ playout = "running"
  /\ playout' = "waiting"
  /\ nextRun' = Later(nextRun + Interval, now)
  /\ wake' = now + Remaining(Interval, now - nextRun)
  /\ ideal' = ideal + Interval
  /\ overrun' = (overrun \/ now - nextRun > Interval)
  /\ UNCHANGED <<now, callback>>

\* StopPlayout (and Terminate) destroys the task queue: a call under way is
\* waited for, the delayed task is dropped.
StopPlayout ==
  /\ playout \in {"posted", "waiting"}
  /\ playout' = "none"
  /\ wake' = 0 /\ ideal' = 0 /\ overrun' = FALSE
  /\ UNCHANGED <<now, callback, nextRun>>

PlayoutNext ==
  \/ Tick \/ \E registered \in BOOLEAN : RegisterAudioCallback(registered)
  \/ StartPlayout \/ FirstRun \/ Wake \/ Reschedule \/ StopPlayout

PlayoutSpec == PlayoutInit /\ [][PlayoutNext]_<<now, playoutVars>>

-----------------------------------------------------------------------------
(***************************************************************************)
(* Safety.                                                                 *)
(***************************************************************************)

\* Audio is never asked for faster than it is played: call k of a playout does
\* not run before k - 1 intervals have passed since its first call, whatever
\* the calls and wakeups before it took and however often playout restarted.
NeverAhead == playout = "running" => now >= ideal

\* Delays do not add up and are not made up for in a burst: the delay, computed
\* apart from the next target, ends at that target also after an overrun, when
\* both start again from the present; and while no call has ended more than an
\* interval late, every call is due exactly on the grid of the first one.
NoDrift ==
  /\ playout = "waiting" => wake = nextRun
  /\ playout \in {"waiting", "running"} /\ ~overrun => nextRun = ideal

\* The playout keeps its pace: neither ahead of the sampling interval nor, as
\* long as it can, behind it.
PlayoutIsPaced == NeverAhead /\ NoDrift

=============================================================================
