------------------------------- MODULE Services -------------------------------
(***************************************************************************)
(* Two daemons that watch what other tasks change: the health daemon       *)
(* (daemon/health) grades the WiFi link once a period, the Bluetooth       *)
(* daemon (daemon/bluetoothDaemon.cpp over connectivity/bluetooth) keeps a *)
(* server advertised under a name made from DEVICE_ID.                     *)
(*                                                                         *)
(* The link may change between any two reads of the health daemon, and in  *)
(* the middle of a read: WiFiConnect checks isConnected() and then asks    *)
(* the driver, which answers 0 dBm for a link that is gone.  The BLE       *)
(* library runs its callbacks in a task of its own, so a peer may leave    *)
(* between any two steps of a rename.  The client half of BluetoothManager *)
(* has no caller, and no callback is ever registered with it.              *)
(***************************************************************************)
EXTENDS Integers, Sequences

CONSTANTS Levels,       \* signal strengths in dBm the link may have
          TxPowers,     \* what WiFi.getTxPower() may answer
          Channels,     \* the channels of the networks in reach
          Ids,          \* ids the server may grant to this robot
          FaultBudget   \* calls into the BLE library that may fail

ASSUME LevelsAssumption == Levels \subseteq -127 .. -1
ASSUME ChannelsAssumption == Channels \subseteq 1 .. 14

VARIABLES link,     \* the station's link: [up, rssi, channel]
          tx,       \* transmission power, in the driver's unit
          health,   \* g_healthStatus
          round,    \* what the health daemon does next
          got,      \* what it has read in this round: rssi, quality, channel
          calm      \* history: the link has not changed since the round began

VARIABLES id,       \* DEVICE_ID
          point,    \* what the Bluetooth daemon does next
          target,   \* targetName
          applied,  \* appliedName
          manager,  \* BluetoothManager: [name, initialized, running]
          stack,    \* the BLE library: [name it was initialised with, advertising, peer]
          faults    \* failed calls so far

linkvars == <<link, tx, calm>>
healthvars == <<health, round, got>>
btvars == <<id, point, target, applied, manager, stack, faults>>
vars == <<linkvars, healthvars, btvars>>

-----------------------------------------------------------------------------
(* The health daemon.                                                      *)

Metrics == {"rssi", "txpower", "ping", "channel", "quality", "linkspeed", "connected"}
NoLink == [up |-> FALSE, rssi |-> 0, channel |-> 0]
Links == {NoLink} \union {[up |-> TRUE, rssi |-> r, channel |-> c] : r \in Levels, c \in Channels}

(* int8_t.                                                                 *)
Int8(n) == ((n + 128) % 256) - 128

(* getSignalQuality of a link that is up when it is asked for its RSSI.    *)
Quality(rssi) ==
  CASE rssi <= -100 -> 0
    [] rssi >= -30 -> 100
    [] OTHER -> Int8(2 * (rssi + 100))

Grade(n, error, warning) ==
  IF n < error THEN "error" ELSE IF n < warning THEN "warning" ELSE "ok"

(* The link fades, is lost, comes back.                                    *)
LinkChanges ==
  /\ link' \in Links \ {link} /\ calm' = FALSE
  /\ UNCHANGED <<tx, healthvars, btvars>>

(* Faulty variant: the quality of the last network is left standing.       *)
LinkLost_keepsQuality ==
  /\ round = "asleep" /\ ~link.up
  /\ health' = [m \in Metrics |-> IF m = "quality" THEN health[m] ELSE "error"]
  /\ calm' = TRUE
  /\ UNCHANGED <<link, tx, round, got, btvars>>

LinkLost ==
  /\ round = "asleep" /\ ~link.up
  /\ health' = [m \in Metrics |-> "error"] /\ calm' = TRUE
  /\ UNCHANGED <<link, tx, round, got, btvars>>

LinkFound ==
  /\ round = "asleep" /\ link.up
  /\ health' = [health EXCEPT !["connected"] = "ok"] /\ calm' = TRUE
  /\ round' = "rssi"
  /\ UNCHANGED <<link, tx, got, btvars>>

(* One metric: a check of the connection, then the read of the driver.     *)
CheckRead(what, reading, next, none) ==
  /\ round = what
  /\ IF link.up THEN round' = reading /\ got' = got
                ELSE round' = next /\ got' = [got EXCEPT ![what] = none]
  /\ UNCHANGED <<linkvars, health, btvars>>
Read(reading, what, next, value) ==
  /\ round = reading
  /\ got' = [got EXCEPT ![what] = value] /\ round' = next
  /\ UNCHANGED <<linkvars, health, btvars>>

CheckRssi == CheckRead("rssi", "reading rssi", "channel", -100)
ReadRssi == Read("reading rssi", "rssi", "channel", link.rssi)

(* The driver still knows the channel it was tuned to.                     *)
ReadChannel ==
  \E c \in IF link.up THEN {link.channel} ELSE {0} \union Channels :
     /\ round = "channel"
     /\ got' = [got EXCEPT !["channel"] = c] /\ round' = "quality"
     /\ UNCHANGED <<linkvars, health, btvars>>

CheckQuality == CheckRead("quality", "reading quality", "grade", 0)
ReadQuality == Read("reading quality", "quality", "grade", Quality(link.rssi))

(* getPingLatency() is a placeholder that answers 0; nothing grades the    *)
(* link speed, which therefore never leaves the error of a lost link.      *)
GradeLink ==
  /\ round = "grade"
  /\ health' = [health EXCEPT !["rssi"] = Grade(got["rssi"], -80, -70),
                              !["txpower"] = Grade(tx, 10, 15),
                              !["quality"] = Grade(got["quality"], 30, 50),
                              !["channel"] = IF got["channel"] = 0 THEN "error" ELSE "ok",
                              !["ping"] = "unknown"]
  /\ round' = "asleep" /\ got' = [m \in DOMAIN got |-> 0]
  /\ UNCHANGED <<linkvars, btvars>>

HealthDaemon ==
  \/ LinkLost \/ LinkFound \/ CheckRssi \/ ReadRssi \/ ReadChannel
  \/ CheckQuality \/ ReadQuality \/ GradeLink

-----------------------------------------------------------------------------
(* The Bluetooth daemon.  A name stands for the id it was built from: the  *)
(* id comes first, so the clamp to 20 characters never cuts it.            *)

NoId == -1
NoName == <<>>
Name(i) == IF i >= 0 THEN <<i>> ELSE <<NoId>>   \* "NA"

Off == [name |-> NoName, advertising |-> FALSE, peer |-> FALSE]

(* The gID daemon learns the id it did not get at boot.                    *)
LearnId ==
  /\ id = NoId
  /\ id' \in Ids
  /\ UNCHANGED <<linkvars, healthvars, point, target, applied, manager, stack, faults>>

Wake ==
  /\ point = "asleep"
  /\ target' = Name(id)
  /\ point' = CASE ~manager.initialized -> "begin"
                [] manager.initialized /\ target' # applied -> "stop"
                [] OTHER -> "asleep"
  /\ UNCHANGED <<linkvars, healthvars, id, applied, manager, stack, faults>>

(* end(): stopServer(), then deinit; no client is ever connected.          *)
StopServer ==
  /\ point = "stop"
  /\ stack' = IF manager.running THEN [stack EXCEPT !.advertising = FALSE] ELSE stack
  /\ manager' = [manager EXCEPT !.running = FALSE]
  /\ point' = "deinit"
  /\ UNCHANGED <<linkvars, healthvars, id, target, applied, faults>>

(* Faulty variant: the library is left as it is.                           *)
Deinit_keepsStack ==
  /\ point = "deinit"
  /\ stack' = stack /\ manager' = [manager EXCEPT !.initialized = FALSE]
  /\ point' = "begin"
  /\ UNCHANGED <<linkvars, healthvars, id, target, applied, faults>>

Deinit ==
  /\ point = "deinit"
  /\ stack' = Off /\ manager' = [manager EXCEPT !.initialized = FALSE]
  /\ point' = "begin"
  /\ UNCHANGED <<linkvars, healthvars, id, target, applied, faults>>

(* BLEDevice::init does nothing to a library that is already up.           *)
Begin ==
  /\ point = "begin"
  /\ stack' = IF stack.name = NoName THEN [stack EXCEPT !.name = target] ELSE stack
  /\ manager' = [manager EXCEPT !.name = target, !.initialized = TRUE]
  /\ point' = "server"
  /\ UNCHANGED <<linkvars, healthvars, id, target, applied, faults>>

(* startServer(): the server, its service, the characteristic and the      *)
(* advertising are asked for in turn; the daemon takes the name as applied *)
(* whatever the answer is.                                                 *)
Parts == <<"server", "service", "characteristic", "advertising">>
PartDone ==
  \E i \in DOMAIN Parts :
     /\ point = Parts[i]
     /\ IF i < Len(Parts)
        THEN point' = Parts[i + 1] /\ UNCHANGED <<applied, manager, stack>>
        ELSE /\ point' = "asleep" /\ applied' = target
             /\ manager' = [manager EXCEPT !.running = TRUE]
             /\ stack' = [stack EXCEPT !.advertising = ~stack.peer]
     /\ UNCHANGED <<linkvars, healthvars, id, target, faults>>
PartMissing ==
  /\ \E i \in DOMAIN Parts : point = Parts[i]
  /\ faults < FaultBudget /\ faults' = faults + 1
  /\ point' = "asleep" /\ applied' = target
  /\ UNCHANGED <<linkvars, healthvars, id, target, manager, stack>>

BluetoothDaemon ==
  Wake \/ StopServer \/ Deinit \/ Begin \/ PartDone \/ PartMissing

(* The callbacks of the BLE task.  Advertising ends with a connection.     *)
PeerConnects ==
  /\ stack.advertising
  /\ stack' = [stack EXCEPT !.advertising = FALSE, !.peer = TRUE]
  /\ UNCHANGED <<linkvars, healthvars, id, point, target, applied, manager, faults>>

(* Faulty variant: nobody starts the advertising again.                    *)
PeerLeaves_silently ==
  /\ stack.peer
  /\ stack' = [stack EXCEPT !.peer = FALSE]
  /\ UNCHANGED <<linkvars, healthvars, id, point, target, applied, manager, faults>>

(* onDisconnect.                                                           *)
PeerLeaves ==
  /\ stack.peer
  /\ stack' = [stack EXCEPT !.advertising = TRUE, !.peer = FALSE]
  /\ UNCHANGED <<linkvars, healthvars, id, point, target, applied, manager, faults>>

-----------------------------------------------------------------------------
Init ==
  /\ link \in Links /\ tx \in TxPowers /\ calm = FALSE
  /\ health = [m \in Metrics |-> "unknown"] /\ round = "asleep"
  /\ got = [m \in {"rssi", "quality", "channel"} |-> 0]
  /\ id \in Ids \union {NoId} /\ point = "asleep" /\ target = NoName /\ applied = NoName
  /\ manager = [name |-> NoName, initialized |-> FALSE, running |-> FALSE]
  /\ stack = Off /\ faults = 0

Next ==
  \/ LinkChanges \/ HealthDaemon
  \/ LearnId \/ BluetoothDaemon \/ PeerConnects \/ PeerLeaves

(* The daemons are tasks that loop for ever.                               *)
Fairness == WF_vars(HealthDaemon) /\ WF_vars(BluetoothDaemon)
Spec == Init /\ [][Next]_vars /\ Fairness

-----------------------------------------------------------------------------
(* Properties.                                                             *)

(* A round during which the link did not change grades the link as it is   *)
(* (healthWiFiDaemon.cpp:14-131), whatever the daemon saw or half saw      *)
(* before: nothing of a network that is gone or of a torn read is left.    *)
(* Between -36 and -31 dBm the quality is the exception: it overflows.     *)
Agrees ==
  IF link.up
  THEN /\ health["connected"] = "ok" /\ health["channel"] = "ok"
       /\ (health["rssi"] = "ok") <=> (link.rssi >= -70)
       /\ (health["rssi"] = "error") <=> (link.rssi < -80)
       /\ link.rssi \notin -36..-31 =>
            /\ (health["quality"] = "ok") <=> (link.rssi >= -75)
            /\ (health["quality"] = "error") <=> (link.rssi < -85)
  ELSE \A m \in Metrics : health[m] = "error"
CalmRoundAgrees == (round = "asleep" /\ calm) => Agrees

(* The library never advertises under a name the manager has moved on      *)
(* from, whenever a peer leaves while the server is renamed                *)
(* (bluetooth.cpp:41-73, bluetooth_server.cpp:24-32).                      *)
AdvertisesOwnName == stack.advertising => stack.name = manager.name

(* While no call of the library fails, the robot ends up advertised under  *)
(* the name of the id it has, or serving a peer that found it there        *)
(* (bluetoothDaemon.cpp:41-76): learning the id late, the rename and the   *)
(* peers that come and go in between do not matter.                        *)
NameFollowsId ==
  [](faults = 0) =>
     <>[](/\ stack.name = Name(id)
          /\ stack.advertising \/ stack.peer)
=============================================================================
