----------------------------- MODULE OnlineLock -----------------------------
(***************************************************************************)
(* The online lock of a firmware built with ONLINE_LOCK: a daemon on core  *)
(* 1 engages it while WiFi is down, the main loop on core 0 polls it       *)
(* (onlinelock/onlinelock.cpp, daemon/onlineLockDaemon.cpp, main.cpp       *)
(* app_main).  They share three plain bools without a mutex, so every read *)
(* and every write of one is a step.  The daemon is started in booting(),  *)
(* before OnlineLock::init() runs.                                         *)
(*                                                                         *)
(* The definitions every module has carry the prefix Lock, so that         *)
(* MainProofs can extend this module next to RequiredTests.                *)
(***************************************************************************)
EXTENDS Integers

VARIABLES
  connected,       \* WiFi link: the environment
  locked,          \* OnlineLock::locked
  status_changed,  \* OnlineLock::status_changed
  state_saved,     \* OnlineLock::state_saved
  daemon,          \* "sleep", "decide", "engage", "disengage" or "flag"
  is_connected,    \* the daemon's local
  app,             \* where app_main stands, see AppPoints
  changed,         \* statusChanged()'s local, then its result
  late             \* history: updates begun while locked since the lock was last engaged

appVars == <<app, changed>>
daemonVars == <<daemon, is_connected>>
lockVars == <<locked, status_changed, state_saved>>
lockModel == <<connected, lockVars, daemonVars, appVars, late>>

AppPoints ==
  {"init locked", "init changed", "init saved", "poll", "clear", "event", "gate",
   "wait", "ready", "update", "returned"}

LockTypeOK ==
  /\ connected \in BOOLEAN /\ locked \in BOOLEAN
  /\ status_changed \in BOOLEAN /\ state_saved \in BOOLEAN
  /\ daemon \in {"sleep", "decide", "engage", "disengage", "flag"}
  /\ is_connected \in BOOLEAN
  /\ app \in AppPoints
  /\ changed \in BOOLEAN
  /\ late \in 0 .. 2

LockInit ==
  /\ connected \in BOOLEAN
  /\ locked = FALSE /\ status_changed = FALSE /\ state_saved = FALSE
  /\ daemon = "sleep" /\ is_connected = FALSE
  /\ app = "init locked" /\ changed = FALSE
  /\ late = 0

LinkChanges ==
  /\ connected' = ~connected
  /\ UNCHANGED <<lockVars, daemonVars, appVars, late>>

-----------------------------------------------------------------------------
(* The daemon's loop, every 5 seconds. *)

Sample ==
  /\ daemon = "sleep"
  /\ is_connected' = connected
  /\ daemon' = "decide"
  /\ UNCHANGED <<connected, lockVars, appVars, late>>

Decide_engagesOnly ==
  /\ daemon = "decide"
  /\ daemon' = IF ~is_connected /\ ~locked THEN "engage" ELSE "sleep"
  /\ UNCHANGED <<connected, lockVars, is_connected, appVars, late>>

Decide ==
  /\ daemon = "decide"
  /\ daemon' = CASE ~is_connected /\ ~locked -> "engage"
                 [] is_connected /\ locked   -> "disengage"
                 [] OTHER                    -> "sleep"
  /\ UNCHANGED <<connected, lockVars, is_connected, appVars, late>>

\* engageLock and disengageLock: test, set locked, then the event flag.
Engage ==
  /\ daemon = "engage"
  /\ locked' = TRUE
  /\ IF locked
       THEN daemon' = "sleep" /\ UNCHANGED late
       ELSE daemon' = "flag" /\ late' = 0
  /\ UNCHANGED <<connected, status_changed, state_saved, is_connected, appVars>>

Disengage ==
  /\ daemon = "disengage"
  /\ locked' = FALSE
  /\ daemon' = IF locked THEN "flag" ELSE "sleep"
  /\ UNCHANGED <<connected, status_changed, state_saved, is_connected, appVars, late>>

RaiseFlag ==
  /\ daemon = "flag"
  /\ status_changed' = TRUE
  /\ daemon' = "sleep"
  /\ UNCHANGED <<connected, locked, state_saved, is_connected, appVars, late>>

-----------------------------------------------------------------------------
(* app_main: OnlineLock::init(), then the main loop. *)

InitLock ==
  /\ \/ app = "init locked" /\ locked' = FALSE /\ app' = "init changed"
        /\ UNCHANGED <<status_changed, state_saved>>
     \/ app = "init changed" /\ status_changed' = FALSE /\ app' = "init saved"
        /\ UNCHANGED <<locked, state_saved>>
     \/ app = "init saved" /\ state_saved' = FALSE /\ app' = "poll"
        /\ UNCHANGED <<locked, status_changed>>
  /\ UNCHANGED <<connected, daemonVars, changed, late>>

\* statusChanged() reads the flag and then clears it.
ReadFlag ==
  /\ app = "poll"
  /\ changed' = status_changed
  /\ app' = "clear"
  /\ UNCHANGED <<connected, lockVars, daemonVars, late>>

ClearFlag ==
  /\ app = "clear"
  /\ status_changed' = FALSE
  /\ app' = IF changed THEN "event" ELSE "gate"
  /\ UNCHANGED <<connected, locked, state_saved, daemonVars, changed, late>>

\* The lock was engaged: save the state and return from app_main.  It was
\* disengaged: drop a saved state and go on.
LockEvent ==
  /\ app = "event"
  /\ state_saved' = locked
  /\ app' = IF locked THEN "returned" ELSE "gate"
  /\ UNCHANGED <<connected, locked, status_changed, daemonVars, changed, late>>

Gate_open ==
  /\ app = "gate"
  /\ app' = "ready"
  /\ UNCHANGED <<connected, lockVars, daemonVars, changed, late>>

Gate_trap ==
  /\ app = "gate"
  /\ app' = IF locked THEN "returned" ELSE "ready"
  /\ UNCHANGED <<connected, lockVars, daemonVars, changed, late>>

Gate ==
  /\ app = "gate"
  /\ app' = IF locked THEN "wait" ELSE "ready"
  /\ UNCHANGED <<connected, lockVars, daemonVars, changed, late>>

WaitOver ==
  /\ app = "wait"
  /\ app' = "poll"
  /\ UNCHANGED <<connected, lockVars, daemonVars, changed, late>>

\* DEVICE_ID is still -1: the iteration is skipped.
NoDeviceId ==
  /\ app = "ready"
  /\ app' = "poll"
  /\ UNCHANGED <<connected, lockVars, daemonVars, changed, late>>

BeginUpdate ==
  /\ app = "ready"
  /\ app' = "update"
  /\ late' = IF locked THEN late + 1 ELSE late
  /\ UNCHANGED <<connected, lockVars, daemonVars, changed>>

EndUpdate ==
  /\ app = "update"
  /\ app' = "poll"
  /\ UNCHANGED <<connected, lockVars, daemonVars, changed, late>>

-----------------------------------------------------------------------------
Daemon == Sample \/ Decide \/ Engage \/ Disengage \/ RaiseFlag

App ==
  \/ InitLock \/ ReadFlag \/ ClearFlag \/ LockEvent \/ Gate
  \/ WaitOver \/ NoDeviceId \/ BeginUpdate \/ EndUpdate

LockNext == LinkChanges \/ Daemon \/ App

\* Both tasks are scheduled for ever on their own core, delays end, and the
\* robot is not without an id for ever.
LockFairness ==
  /\ WF_lockModel(Daemon)
  /\ WF_lockModel(App)
  /\ SF_lockModel(BeginUpdate)

LockSpec == LockInit /\ [][LockNext]_lockModel /\ LockFairness

-----------------------------------------------------------------------------
(* Properties. *)

\* While the lock stays engaged at most the iteration already past the gate is
\* begun, even when the event flag is lost between its read and its clear
\* (main.cpp:418-445, onlinelock.cpp:73-78).
AtMostOneLateUpdate == locked => late <= 1

\* The lock follows the link: when the link settles, so does the lock, although
\* init() may erase an engagement of the daemon that started before it.
LockFollowsLink ==
  /\ <>[]connected => <>[]~locked
  /\ <>[]~connected => <>[]locked

\* The application runs for ever once the link is up for good, unless a lock
\* event made app_main return.
RunsUnlessInterrupted ==
  <>[]connected => []<>(app = "update") \/ <>(app = "returned" /\ state_saved)
=============================================================================
