--------------------------- MODULE IdProvisioning ---------------------------
(***************************************************************************)
(* The robots against the device-ID registry: GID::gID while a robot boots *)
(* and the gID daemon after it (network/gid.cpp, daemon/gIDDaemon.cpp),    *)
(* over HTTP calls that may fail, time out, or be executed by the server   *)
(* after the robot has given up on them.                                   *)
(*                                                                         *)
(* The server is DhcpId; here its routes run only for requests a robot     *)
(* sent.                                                                   *)
(***************************************************************************)
EXTENDS DhcpId

CONSTANT TeamOf  \* TEAMID, compiled into each robot

ASSUME TeamOfAssumption == TeamOf \in [Macs -> Teams]

VARIABLES
  task,     \* where the robot's ID client stands: "off", "delay" between two
            \* rounds, "id" or "heartbeat" while it waits for that answer
  bot_id,   \* DEVICE_ID: 0 until gID has run, -1 after a failed request
  call,     \* the call in progress: "none", "sent" or "answered"
  answer,   \* the id in the answer
  late      \* robots with an abandoned GET /id the server may still execute

botVars == <<task, bot_id, call, answer, late>>

provVars == <<vars, botVars>>

BotTypeOK ==
  /\ TypeOK
  /\ task \in [Macs -> {"off", "delay", "id", "heartbeat"}]
  /\ bot_id \in [Macs -> -1 .. MaxId]
  /\ call \in [Macs -> {"none", "sent", "answered"}]
  /\ answer \in [Macs -> 0 .. MaxId]
  /\ late \subseteq Macs

ProvInit ==
  /\ Init
  /\ task = [m \in Macs |-> "off"]
  /\ bot_id = [m \in Macs |-> 0]
  /\ call = [m \in Macs |-> "none"]
  /\ answer = [m \in Macs |-> 0]
  /\ late = {}

-----------------------------------------------------------------------------
(***************************************************************************)
(* The robot.  HttpRequest::send blocks the task that calls it, so a robot *)
(* has one call at a time.                                                 *)
(***************************************************************************)

\* GET /id goes out: from GID::gID during the boot, from the daemon whenever
\* it finds no id.
NeedsId(m) ==
  \/ task[m] = "off"
  \/ task[m] = "delay" /\ bot_id[m] = -1

AskId(m) ==
  /\ NeedsId(m)
  /\ task' = [task EXCEPT ![m] = "id"]
  /\ call' = [call EXCEPT ![m] = "sent"]
  /\ UNCHANGED <<vars, bot_id, answer, late>>

\* The call ends: a request the server has not executed yet may still reach it.
Hangup(m) ==
  /\ call' = [call EXCEPT ![m] = "none"]
  /\ answer' = [answer EXCEPT ![m] = 0]
  /\ late' = IF task[m] = "id" /\ call[m] = "sent" THEN late \cup {m} ELSE late

\* 200: DEVICE_ID = body.toInt().
LearnId_keepsFailure(m) ==
  /\ task[m] = "id"
  /\ call[m] = "answered"
  /\ bot_id[m] # -1
  /\ bot_id' = [bot_id EXCEPT ![m] = answer[m]]
  /\ task' = [task EXCEPT ![m] = "delay"]
  /\ Hangup(m)
  /\ UNCHANGED vars

LearnId(m) ==
  /\ task[m] = "id"
  /\ call[m] = "answered"
  /\ bot_id' = [bot_id EXCEPT ![m] = answer[m]]
  /\ task' = [task EXCEPT ![m] = "delay"]
  /\ Hangup(m)
  /\ UNCHANGED vars

\* No WiFi, no connection, a time-out or a lost answer.
AskIdFails(m) ==
  /\ task[m] = "id"
  /\ bot_id' = [bot_id EXCEPT ![m] = -1]
  /\ task' = [task EXCEPT ![m] = "delay"]
  /\ Hangup(m)
  /\ UNCHANGED vars

\* 200 with a body that did not arrive: toInt of an empty string is 0, which
\* is not the -1 that makes the daemon ask again.
AnswerBodyLost(m) ==
  /\ task[m] = "id"
  /\ call[m] = "answered"
  /\ bot_id' = [bot_id EXCEPT ![m] = 0]
  /\ task' = [task EXCEPT ![m] = "delay"]
  /\ Hangup(m)
  /\ UNCHANGED vars

SendHeartbeat(m) ==
  /\ task[m] = "delay"
  /\ bot_id[m] # -1
  /\ task' = [task EXCEPT ![m] = "heartbeat"]
  /\ call' = [call EXCEPT ![m] = "sent"]
  /\ UNCHANGED <<vars, bot_id, answer, late>>

\* Whatever came back - 200, 404 or nothing - the daemon only logs it.
HeartbeatDone(m) ==
  /\ task[m] = "heartbeat"
  /\ task' = [task EXCEPT ![m] = "delay"]
  /\ Hangup(m)
  /\ UNCHANGED <<vars, bot_id>>

\* A reboot or a power cycle: DEVICE_ID is a global, nothing is stored.
PowerOff(m) ==
  /\ task[m] # "off"
  /\ task' = [task EXCEPT ![m] = "off"]
  /\ bot_id' = [bot_id EXCEPT ![m] = 0]
  /\ Hangup(m)
  /\ UNCHANGED vars

-----------------------------------------------------------------------------
(***************************************************************************)
(* The server executes a request.                                          *)
(***************************************************************************)

ExecuteId(m) ==
  \E now \in Times : AssignKnown(m, TeamOf[m], now) \/ AssignNew(m, TeamOf[m], now)

ServeId_answersCounter(m) ==
  /\ task[m] = "id"
  /\ call[m] = "sent"
  /\ ExecuteId(m)
  /\ call' = [call EXCEPT ![m] = "answered"]
  /\ answer' = [answer EXCEPT ![m] = next_id' - 1]
  /\ UNCHANGED <<task, bot_id, late>>

ServeId(m) ==
  /\ task[m] = "id"
  /\ call[m] = "sent"
  /\ ExecuteId(m)
  /\ call' = [call EXCEPT ![m] = "answered"]
  /\ answer' = [answer EXCEPT ![m] = devices'[m].device_id]
  /\ UNCHANGED <<task, bot_id, late>>

ServeLateId(m) ==
  /\ m \in late
  /\ ExecuteId(m)
  /\ late' = late \ {m}
  /\ UNCHANGED <<task, bot_id, call, answer>>

\* A heartbeat of a robot the table knows under that id, or a 404.
Known(m) == m \in DOMAIN devices /\ devices[m].device_id = bot_id[m]

ServeHeartbeat(m) ==
  /\ task[m] = "heartbeat"
  /\ call[m] = "sent"
  /\ CanServe
  /\ \/ \E now \in Times : HeartbeatDevice(m, bot_id[m], now)
     \/ ~Known(m) /\ UNCHANGED vars
  /\ call' = [call EXCEPT ![m] = "answered"]
  /\ UNCHANGED <<task, bot_id, answer, late>>

-----------------------------------------------------------------------------
Bots ==
  \E m \in Macs :
    \/ AskId(m) \/ LearnId(m) \/ AskIdFails(m)
    \/ SendHeartbeat(m) \/ HeartbeatDone(m) \/ PowerOff(m)

Served == \E m \in Macs : ServeId(m) \/ ServeLateId(m) \/ ServeHeartbeat(m)

Persistence ==
  \/ \E who \in {"thread", "main"} : SaveBegin(who)
  \/ SaveRow
  \/ SaveEnd

ProvNext ==
  \/ Bots
  \/ \E m \in Macs : AnswerBodyLost(m)
  \/ Served
  \/ /\ \/ Start
        \/ \E m \in Macs : RemoveDevice(m)
        \/ Persistence
        \/ SaveFails
        \/ \E who \in {"thread", "main"} : OpenFails(who)
        \/ Stop
        \/ SkipFinalSave
        \/ Exit
        \/ Crash
     /\ UNCHANGED botVars

ProvSpec == ProvInit /\ [][ProvNext]_provVars

\* The network may lose, delay and time out; robots may reboot; the server is
\* the well-run one of DhcpId.
ProvStableNext ==
  \/ Bots
  \/ server = "up" /\ Served
  \/ /\ \/ Start
        \/ server = "up" /\ SaveBegin("thread")
        \/ SaveBegin("main")
        \/ SaveRow
        \/ SaveEnd
        \/ Stop
        \/ SkipFinalSave
        \/ Exit
     /\ UNCHANGED botVars

ProvStableSpec == ProvInit /\ [][ProvStableNext]_provVars

\* The daemon's task runs for ever with a delay per round and its calls end;
\* the save thread wakes for ever and a save ends.  A save takes milliseconds
\* every SAVE_INTERVAL = 30 s and the robots' rounds are not in step with it,
\* so a robot that asks for ever asks while the lock is free, and of infinitely
\* many such calls some are executed and their answers arrive in time.
ProvFairness ==
  /\ \A m \in Macs :
       /\ WF_provVars(AskId(m))
       /\ SF_provVars(CanServe /\ AskId(m))
       /\ WF_provVars(AskIdFails(m))
       /\ SF_provVars(server = "up" /\ ServeId(m))
       /\ SF_provVars(LearnId(m))
  /\ WF_provVars(server = "up" /\ SaveBegin("thread") /\ UNCHANGED botVars)
  /\ WF_provVars(SaveRow /\ UNCHANGED botVars)
  /\ WF_provVars(SaveEnd /\ UNCHANGED botVars)

ProvFairSpec == ProvStableSpec /\ ProvFairness

-----------------------------------------------------------------------------
(***************************************************************************)
(* Properties.                                                             *)
(***************************************************************************)

\* README.md:107 "Server assigns unique DEVICEID": no two robots run with the
\* same id at the same time.
NoSharedId ==
  \A m, n \in Macs : bot_id[m] > 0 /\ bot_id[m] = bot_id[n] => m = n

\* The id a robot runs with is the one the table has for it whenever the
\* server serves, so its heartbeats are never rejected (gIDDaemon.cpp:45-47
\* against dhcpid.py:259-266), in spite of lost answers, late executions,
\* reboots of the robot and restarts of the server.
HeldIdIsKnown ==
  server = "up" => \A m \in Macs : bot_id[m] > 0 => Known(m)

\* The robots' view of the service: each id owned by one robot for ever.
Authority ==
  INSTANCE IdAuthority WITH
    Robots <- Macs,
    Numbers <- 1 .. MaxId,
    owned <- granted,
    held <- [m \in Macs |-> IF bot_id[m] > 0 THEN bot_id[m] ELSE 0]

RefinesAuthority == Authority!Spec

\* A robot that stays on while the server stays up ends up with an id and
\* keeps it: the daemon's retry (gIDDaemon.cpp:17-43) outlasts failed calls,
\* lost answers and the server restarts before.
EventuallyProvisioned ==
  \A m \in Macs :
    <>[](task[m] # "off" /\ server = "up") => <>[](bot_id[m] > 0)
=============================================================================
