------------------------------ MODULE WifiLink ------------------------------
(***************************************************************************)
(* How a robot gets and keeps its WiFi link: booting() tries the           *)
(* configured network and the backup (main.cpp), the network daemon        *)
(* reconnects for ever (daemon/networkDaemon.cpp), the serial commands     *)
(* "wifi reconnect" and "wifi connect" do so on demand and "config reload" *)
(* sets the credentials only.  All who connect call WiFiConnect::connect   *)
(* (connectivity/wifi/wifi.cpp) on one object, with the global credentials *)
(* passed by reference, and WLAN_LOCK admits only the first two            *)
(* credentials that were tried before Init::initialized().                 *)
(*                                                                         *)
(* No mutex guards any of it: every read and write of a global is a step.  *)
(* A network stands for its name and for its password.                     *)
(***************************************************************************)
EXTENDS FiniteSets

CONSTANTS
  Networks,  \* the networks there are
  Default,   \* WLAN_SSID
  Backup,    \* BACKUP_WLAN_SSID
  Configs,   \* wlan_ssid of config.yml: networks, or Unset when it has none
  Typable,   \* networks whose credentials survive dispatch, which turns its
             \* input to lower case and splits it at the spaces
  Unset      \* an empty string

ASSUME NetworksAssumption ==
  /\ Default \in Networks /\ Backup \in Networks
  /\ Unset \notin Networks
  /\ Configs \subseteq Networks \cup {Unset}
  /\ Typable \subseteq Networks

VARIABLES
  config,      \* what config.yml says
  g_ssid, g_password,
  slot1,       \* Hash_WIFI: credentials, or NoCreds
  slot2,       \* Hash_WIFI_BACKUP
  boot,        \* how far booting() is: "wifi", "first", "second", "fallback",
               \* "up" (daemons running) or "ready" (Init::initialized)
  at,          \* where each task stands, see Points
  wants,       \* the network a task is writing to the globals
  hashed,      \* connect's current_hash
  reachable,   \* networks in reach: the environment
  target,      \* the credentials given to WiFi.begin
  linked       \* WiFi.status() == WL_CONNECTED

globals == <<g_ssid, g_password>>
slots == <<slot1, slot2>>
radio == <<target, linked>>
vars == <<config, globals, slots, boot, at, wants, hashed, reachable, radio>>

Tasks == {"boot", "net", "serial"}

\* "ssid" and "password" write the credentials to connect with, "load_ssid"
\* and "load_password" those for later.
Points ==
  {"idle", "ssid", "password", "load_ssid", "load_password",
   "check", "claim1", "claim2", "begin", "wait"}

Names == Networks \cup {Unset}
NoCreds == <<Unset, Unset>>

TypeOK ==
  /\ config \in Configs
  /\ g_ssid \in Names /\ g_password \in Names
  /\ slot1 \in Names \X Names /\ slot2 \in Names \X Names
  /\ slot2 # NoCreds => slot1 \notin {NoCreds, slot2}
  /\ boot \in {"wifi", "first", "second", "fallback", "up", "ready"}
  /\ at \in [Tasks -> Points]
  /\ wants \in [Tasks -> Names]
  /\ hashed \in [Tasks -> Names \X Names]
  /\ reachable \subseteq Networks
  /\ target \in Names \X Names
  /\ linked \in BOOLEAN

\* loadConfigFromFile has run, alone.
Init ==
  /\ config \in Configs
  /\ g_ssid = config /\ g_password = config
  /\ slot1 = NoCreds /\ slot2 = NoCreds
  /\ boot = "wifi"
  /\ at = [t \in Tasks |-> "idle"]
  /\ wants = [t \in Tasks |-> Unset]
  /\ hashed = [t \in Tasks |-> NoCreds]
  /\ reachable \in SUBSET Networks
  /\ target = NoCreds
  /\ linked = FALSE

Goto(t, p) == at' = [at EXCEPT ![t] = p]

-----------------------------------------------------------------------------
(* Writing the credentials: two assignments. *)

WriteSsid(t) ==
  /\ \/ at[t] = "ssid" /\ Goto(t, "password")
     \/ at[t] = "load_ssid" /\ Goto(t, "load_password")
  /\ g_ssid' = wants[t]
  /\ UNCHANGED <<config, g_password, slots, boot, wants, hashed, reachable, radio>>

WritePassword(t) ==
  /\ \/ at[t] = "password" /\ Goto(t, "check") /\ UNCHANGED boot
     \/ /\ at[t] = "load_password"
        /\ Goto(t, "idle")
        /\ boot' = IF t = "boot" THEN "up" ELSE boot
  /\ g_password' = wants[t]
  /\ wants' = [wants EXCEPT ![t] = Unset]
  /\ UNCHANGED <<config, g_ssid, slots, hashed, reachable, radio>>

-----------------------------------------------------------------------------
(* WiFiConnect::connect. *)

\* connect returns: booting() goes on to the backup, then falls back to the
\* defaults; the other tasks only log.
Return(t, ok) ==
  /\ hashed' = [hashed EXCEPT ![t] = NoCreds]
  /\ IF t = "boot" /\ ~ok
       THEN /\ Goto(t, IF boot = "first" THEN "ssid" ELSE "load_ssid")
            /\ wants' = [wants EXCEPT ![t] = IF boot = "first" THEN Backup ELSE Default]
            /\ boot' = IF boot = "first" THEN "second" ELSE "fallback"
       ELSE /\ Goto(t, "idle")
            /\ boot' = IF t = "boot" THEN "up" ELSE boot
            /\ UNCHANGED wants

MayClaim == boot # "ready"

\* The lock: hash the credentials, then find their slot or an empty one.

Admission_notWhenReady(creds) ==
  CASE MayClaim /\ creds \in {slot1, slot2} -> "begin"
    [] MayClaim /\ creds \notin {slot1, slot2} /\ slot1 = NoCreds -> "claim1"
    [] MayClaim /\ creds \notin {slot1, slot2} /\ slot1 # NoCreds /\ slot2 = NoCreds -> "claim2"
    [] OTHER -> "refused"

Admission(creds) ==
  CASE creds \in {slot1, slot2} -> "begin"
    [] creds \notin {slot1, slot2} /\ MayClaim /\ slot1 = NoCreds -> "claim1"
    [] creds \notin {slot1, slot2} /\ MayClaim /\ slot1 # NoCreds /\ slot2 = NoCreds -> "claim2"
    [] OTHER -> "refused"

Check_open(t) ==
  /\ at[t] = "check"
  /\ Goto(t, "begin")
  /\ hashed' = [hashed EXCEPT ![t] = <<g_ssid, g_password>>]
  /\ UNCHANGED <<config, globals, slots, boot, wants, reachable, radio>>

Check(t) ==
  /\ at[t] = "check"
  /\ LET creds == <<g_ssid, g_password>>
     IN  IF Admission(creds) = "refused"
           THEN Return(t, FALSE)
           ELSE /\ Goto(t, Admission(creds))
                /\ hashed' = [hashed EXCEPT ![t] = creds]
                /\ UNCHANGED <<boot, wants>>
  /\ UNCHANGED <<config, globals, slots, reachable, radio>>

Claim(t) ==
  /\ \/ at[t] = "claim1" /\ slot1' = hashed[t] /\ UNCHANGED slot2
     \/ at[t] = "claim2" /\ slot2' = hashed[t] /\ UNCHANGED slot1
  /\ Goto(t, "begin")
  /\ UNCHANGED <<config, globals, boot, wants, hashed, reachable, radio>>

\* WiFi.begin reads the globals again.  It drops a link to another network and
\* keeps one to the same.
Begin(t) ==
  /\ at[t] = "begin"
  /\ target' = <<g_ssid, g_password>>
  /\ linked' = (linked /\ target' = target)
  /\ Goto(t, "wait")
  /\ UNCHANGED <<config, globals, slots, boot, wants, hashed, reachable>>

\* The wait loop ends with the link or after timeout_ms.
WaitOver(t) ==
  /\ at[t] = "wait"
  /\ Return(t, linked)
  /\ UNCHANGED <<config, globals, slots, reachable, radio>>

Connect(t) == WriteSsid(t) \/ WritePassword(t) \/ Check(t) \/ Claim(t) \/ Begin(t) \/ WaitOver(t)

-----------------------------------------------------------------------------
(* The callers. *)

BootWifi ==
  /\ boot = "wifi"
  /\ boot' = "first"
  /\ IF g_ssid = Unset \/ g_password = Unset
       THEN Goto("boot", "ssid") /\ wants' = [wants EXCEPT !["boot"] = Default]
       ELSE Goto("boot", "check") /\ UNCHANGED wants
  /\ UNCHANGED <<config, globals, slots, hashed, reachable, radio>>

InitDone ==
  /\ boot = "up"
  /\ boot' = "ready"
  /\ UNCHANGED <<config, globals, slots, at, wants, hashed, reachable, radio>>

\* The network daemon, every WLAN_PRIORITY seconds.
NetRetry ==
  /\ boot \in {"up", "ready"}
  /\ at["net"] = "idle"
  /\ g_ssid # Unset /\ g_password # Unset
  /\ ~linked
  /\ Goto("net", "check")
  /\ UNCHANGED <<config, globals, slots, boot, wants, hashed, reachable, radio>>

\* The operator waits for the end of the boot before typing.
CommandReconnect ==
  /\ boot = "ready"
  /\ at["serial"] = "idle"
  /\ g_ssid # Unset
  /\ Goto("serial", "check")
  /\ UNCHANGED <<config, globals, slots, boot, wants, hashed, reachable, radio>>

CommandConnect(n) ==
  /\ boot = "ready"
  /\ at["serial"] = "idle"
  /\ Goto("serial", "ssid")
  /\ wants' = [wants EXCEPT !["serial"] = n]
  /\ UNCHANGED <<config, globals, slots, boot, hashed, reachable, radio>>

CommandReload ==
  /\ boot = "ready"
  /\ at["serial"] = "idle"
  /\ config # Unset
  /\ Goto("serial", "load_ssid")
  /\ wants' = [wants EXCEPT !["serial"] = config]
  /\ UNCHANGED <<config, globals, slots, boot, hashed, reachable, radio>>

\* The wait is longer than the serial supervisor's patience: it deletes the
\* task in the middle of the command and starts it again.
SerialKilled ==
  /\ at["serial"] = "wait"
  /\ Goto("serial", "idle")
  /\ hashed' = [hashed EXCEPT !["serial"] = NoCreds]
  /\ UNCHANGED <<config, globals, slots, boot, wants, reachable, radio>>

-----------------------------------------------------------------------------
(* The radio and the world. *)

InReach == \E n \in reachable : target = <<n, n>>

\* The radio associates, also on its own after a loss.
LinkUp ==
  /\ InReach
  /\ ~linked
  /\ linked' = TRUE
  /\ UNCHANGED <<config, globals, slots, boot, at, wants, hashed, reachable, target>>

LinkLost ==
  /\ linked
  /\ ~InReach
  /\ linked' = FALSE
  /\ UNCHANGED <<config, globals, slots, boot, at, wants, hashed, reachable, target>>

WorldChanges ==
  /\ \E n \in Networks : reachable' \in {reachable \cup {n}, reachable \ {n}}
  /\ UNCHANGED <<config, globals, slots, boot, at, wants, hashed, radio>>

-----------------------------------------------------------------------------
Commands ==
  CommandReconnect \/ CommandReload \/ \E n \in Typable : CommandConnect(n)

Next ==
  \/ \E t \in Tasks : Connect(t)
  \/ BootWifi \/ InitDone \/ NetRetry \/ Commands \/ SerialKilled
  \/ LinkUp \/ LinkLost \/ WorldChanges

\* Every task is scheduled for ever and its delays end; the radio associates
\* with a network that stays in reach and notices one that is gone.
Fairness ==
  /\ \A t \in Tasks : WF_vars(Connect(t))
  /\ WF_vars(BootWifi) /\ WF_vars(InitDone) /\ WF_vars(NetRetry)
  /\ WF_vars(LinkUp) /\ WF_vars(LinkLost)

Spec == Init /\ [][Next]_vars /\ Fairness

-----------------------------------------------------------------------------
(* Properties. *)

\* Whoever is past the lock was hashed into a slot that still holds the hash:
\* tasks that claim at the same time do not take each other's slot, and a
\* claim begun before Init::initialized() may end after it (wifi.cpp:54-80).
PastLockHasSlot ==
  \A t \in Tasks : at[t] \in {"begin", "wait"} => hashed[t] \in {slot1, slot2}

\* config.h:15 "Doesn't allow to conecect to any other network after init
\* phase": the radio is only ever pointed at a network that the lock admitted,
\* although connect reads the globals once to hash them and once more to use
\* them (wifi.cpp:56, 101).
AdmittedOnly ==
  \A n \in Networks : target = <<n, n>> => target \in {slot1, slot2}

\* No operator, the credentials of a network in the globals, that network in
\* reach and the others settled.
Awaiting(n, around) ==
  /\ boot = "ready" /\ at["serial"] = "idle"
  /\ globals = <<n, n>>
  /\ reachable = around \cup {n}

\* A robot that holds the credentials of a network the lock admits and that
\* stays in reach gets back on line and stays there (networkDaemon.cpp:17-49
\* against the lock, wifi.cpp:54-80).
Recovers ==
  \A n \in Networks, around \in SUBSET Networks :
    <>[](Awaiting(n, around) /\ <<n, n>> \in {slot1, slot2}) => <>[]linked
=============================================================================
