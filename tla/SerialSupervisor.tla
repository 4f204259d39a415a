-------------------------- MODULE SerialSupervisor --------------------------
(***************************************************************************)
(* The serial input daemon and its supervisor (daemon/                     *)
(* serialInputDaemon.cpp): a worker that stamps a heartbeat every round    *)
(* and runs one command at a time, and a task of higher priority on the    *)
(* same core that deletes and recreates a worker whose stamp is too old.   *)
(* The stamp is a tick count that wraps around.                            *)
(*                                                                         *)
(* One tick stands for kSerialHealthCheckPeriod.  A command may take any   *)
(* time: "wifi connect" waits up to 10 s, "ut rtos" runs a whole suite.    *)
(***************************************************************************)
EXTENDS Integers

CONSTANTS
  Stall,  \* kSerialStallTimeout, in ticks
  Wrap    \* the tick counter counts modulo Wrap, 2^32 in the build

ASSUME StallAssumption == Stall \in Nat \ {0}
ASSUME WrapAssumption == Wrap \in Nat /\ Wrap > Stall + 3

VARIABLES
  tick,       \* xTaskGetTickCount()
  heartbeat,  \* g_serialDaemonHeartbeatTick
  handle,     \* g_serialDaemonTaskHandle is not null
  worker,     \* "none", "poll" or "command"
  sup,        \* "boot" (not created yet), "none" (could not be created), "sleep",
              \* "read" (has its now), "decide" (has both), "create"
  due,        \* the supervisor has not checked in this tick yet
  now, seen,  \* the supervisor's locals
  quiet       \* history: ticks since the worker was created or began a round

workerVars == <<handle, worker>>
supVars == <<sup, due, now, seen>>
supervisorModel == <<tick, heartbeat, workerVars, supVars, quiet>>

Ticks == 0 .. Wrap - 1

SupervisorTypeOK ==
  /\ tick \in Ticks /\ heartbeat \in Ticks
  /\ handle \in BOOLEAN
  /\ worker \in {"none", "poll", "command"}
  /\ sup \in {"boot", "none", "sleep", "read", "decide", "create"}
  /\ due \in BOOLEAN
  /\ now \in Ticks /\ seen \in Ticks
  /\ quiet \in 0 .. Stall + 2

SupervisorInit ==
  /\ tick \in Ticks
  /\ heartbeat = 0
  /\ handle = FALSE /\ worker = "none"
  /\ sup = "boot" /\ due = FALSE
  /\ now = 0 /\ seen = 0
  /\ quiet = 0

-----------------------------------------------------------------------------
(* startSerialInputDaemonTask, called with a null handle. *)

CreateWorker(made) ==
  /\ heartbeat' = tick
  /\ handle' = made
  /\ worker' = IF made THEN "poll" ELSE "none"
  /\ quiet' = 0

\* Daemon::startSerialInputDaemon: either creation may fail, only logged.
StartDaemon ==
  /\ sup = "boot"
  /\ \E made \in BOOLEAN : CreateWorker(made)
  /\ sup' \in {"none", "sleep"}
  /\ due' = (sup' = "sleep")
  /\ UNCHANGED <<tick, now, seen>>

-----------------------------------------------------------------------------
(* The worker. *)

\* It shares core 0 with the supervisor and has the lower priority, so it does
\* not run while the supervisor does.
WorkerMayRun_otherCore == sup # "boot"

WorkerMayRun == sup \in {"none", "sleep"}

\* A round: stamp, then read a command or go back to sleep.
Round ==
  /\ worker = "poll"
  /\ WorkerMayRun
  /\ heartbeat' = tick
  /\ worker' \in {"poll", "command"}
  /\ quiet' = 0
  /\ UNCHANGED <<tick, handle, supVars>>

CommandDone ==
  /\ worker = "command"
  /\ WorkerMayRun
  /\ worker' = "poll"
  /\ UNCHANGED <<tick, heartbeat, handle, supVars, quiet>>

-----------------------------------------------------------------------------
(* The supervisor's loop. *)

ReadNow ==
  /\ sup = "sleep"
  /\ due
  /\ now' = tick
  /\ due' = FALSE
  /\ sup' = "read"
  /\ UNCHANGED <<tick, heartbeat, workerVars, seen, quiet>>

ReadHeartbeat ==
  /\ sup = "read"
  /\ seen' = heartbeat
  /\ sup' = "decide"
  /\ UNCHANGED <<tick, heartbeat, workerVars, due, now, quiet>>

Stalled_late == (now - seen) % Wrap > Stall + 1

Stalled == (now - seen) % Wrap > Stall

LeaveAlone ==
  /\ sup = "decide"
  /\ handle
  /\ ~Stalled
  /\ sup' = "sleep"
  /\ UNCHANGED <<tick, heartbeat, workerVars, due, now, seen, quiet>>

\* vTaskDelete, in the middle of whatever the worker is doing.
Kill_forgetsDelete ==
  /\ sup = "decide"
  /\ handle
  /\ Stalled
  /\ handle' = FALSE
  /\ sup' = "create"
  /\ UNCHANGED <<tick, heartbeat, worker, due, now, seen, quiet>>

Kill ==
  /\ sup = "decide"
  /\ handle
  /\ Stalled
  /\ handle' = FALSE
  /\ worker' = "none"
  /\ sup' = "create"
  /\ UNCHANGED <<tick, heartbeat, due, now, seen, quiet>>

NoWorker_ignored ==
  /\ sup = "decide"
  /\ ~handle
  /\ sup' = "sleep"
  /\ UNCHANGED <<tick, heartbeat, workerVars, due, now, seen, quiet>>

NoWorker ==
  /\ sup = "decide"
  /\ ~handle
  /\ sup' = "create"
  /\ UNCHANGED <<tick, heartbeat, workerVars, due, now, seen, quiet>>

\* A failure is tried again after the next period.
Create(made) ==
  /\ sup = "create"
  /\ CreateWorker(made)
  /\ sup' = "sleep"
  /\ UNCHANGED <<tick, due, now, seen>>

Supervisor ==
  ReadNow \/ ReadHeartbeat \/ LeaveAlone \/ Kill \/ NoWorker \/ \E made \in BOOLEAN : Create(made)

-----------------------------------------------------------------------------
(* Time passes when everybody who has something to do in this tick has done *)
(* it: a worker that is not in a command stamps ten times per tick, the     *)
(* supervisor checks once.  One tick may fall between its two reads.        *)

OnTime ==
  /\ worker = "poll" => heartbeat = tick
  /\ sup \in {"none", "sleep", "read"}
  /\ ~due

Unsupervised == sup = "none" /\ worker = "command"

TickPasses ==
  /\ OnTime
  /\ tick' = (tick + 1) % Wrap
  /\ due' = (sup # "none")
  /\ quiet' = IF Unsupervised \/ worker = "none" THEN 0 ELSE quiet + 1
  /\ UNCHANGED <<heartbeat, workerVars, sup, now, seen>>

SupervisorNext == StartDaemon \/ Round \/ CommandDone \/ Supervisor \/ TickPasses

\* Time and the supervisor go on; a creation does not fail for ever.
SupervisorFairness ==
  /\ WF_supervisorModel(StartDaemon)
  /\ WF_supervisorModel(Round)
  /\ WF_supervisorModel(Supervisor)
  /\ SF_supervisorModel(Create(TRUE))
  /\ WF_supervisorModel(TickPasses)

SupervisorSpec == SupervisorInit /\ [][SupervisorNext]_supervisorModel /\ SupervisorFairness

-----------------------------------------------------------------------------
(* Properties. *)

\* A worker is only deleted after more than kSerialStallTimeout without a
\* round, wherever the tick counter wraps and wherever a tick falls between
\* the supervisor's two reads (serialInputDaemon.cpp:85-101): a command that
\* takes no longer always ends.
OnlyStalledDeleted ==
  [][sup = "decide" /\ sup' = "create" /\ handle => quiet > Stall]_supervisorModel

\* A worker stuck in a command is gone within two periods of its deadline.
DeletedInTime == sup \in {"sleep", "read", "decide"} => quiet <= Stall + 2

\* The handle tells the truth: there is no second worker that nobody
\* supervises and no phantom that blocks a restart (serialInputDaemon.cpp:46-55,
\* 104-112).
HandleIsWorker == handle <=> worker # "none"

\* The console comes back: with the supervisor running, whatever a command
\* does and however often a creation fails, input is polled again and again.
AlwaysPolledAgain == <>(sup = "none") \/ []<>(worker = "poll")
=============================================================================
