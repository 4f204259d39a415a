--------------------------- MODULE WifiLinkProofs ---------------------------
(***************************************************************************)
(* Theorems about the WLAN lock, for any networks and configuration.  A    *)
(* task past the lock keeps its slot because a slot is only written while  *)
(* it is empty, and at most one task is about to write one: the boot ends  *)
(* before the network daemon connects (WhereInv), and the serial task only *)
(* connects when no slot may be claimed any more.  An empty slot is not a  *)
(* pair of empty credentials, because by then the globals hold a network   *)
(* (GlobalsInv).                                                           *)
(***************************************************************************)
EXTENDS WifiLink, TLAPS

\* Which task is active in which stage of the boot.
WhereInv ==
  /\ at["boot"] # "idle" => boot \in {"first", "second", "fallback"}
  /\ at["net"] # "idle" => boot \in {"up", "ready"}
  /\ at["serial"] # "idle" => boot = "ready"
  /\ at["serial"] \notin {"claim1", "claim2"}

Writing == {"ssid", "password", "load_ssid", "load_password"}

\* Once the boot has started to connect, the globals hold a network, except
\* while the boot is about to write the default.
GlobalsInv ==
  /\ boot # "wifi" =>
       /\ g_ssid \in Networks \/ at["boot"] = "ssid"
       /\ g_password \in Networks \/ at["boot"] \in {"ssid", "password"}
  /\ \A t \in Tasks : at[t] \in Writing => wants[t] \in Networks

Hashed == {"claim1", "claim2", "begin", "wait"}

ClaimInv ==
  \A t \in Tasks :
    /\ at[t] \in Hashed => hashed[t] \in Networks \X Networks
    /\ at[t] = "claim1" => slot1 = NoCreds
    /\ at[t] = "claim2" => slot1 # NoCreds /\ slot2 = NoCreds /\ hashed[t] # slot1

AdmissionInv == TypeOK /\ WhereInv /\ GlobalsInv /\ ClaimInv /\ PastLockHasSlot

-----------------------------------------------------------------------------
\* A task that hashes the globals finds a network in them.
LEMMA CheckedGlobals ==
  ASSUME AdmissionInv, NEW t \in Tasks, at[t] = "check"
  PROVE  g_ssid \in Networks /\ g_password \in Networks
<1>1. boot # "wifi" /\ at["boot"] \notin {"ssid", "password"}
  BY DEF AdmissionInv, WhereInv, Tasks
<1> QED BY <1>1 DEF AdmissionInv, GlobalsInv

LEMMA NetworkCreds ==
  ASSUME NEW c \in Networks \X Networks
  PROVE  c # NoCreds /\ c \in Names \X Names
BY NetworksAssumption DEF NoCreds, Names

LEMMA NamesFacts == Unset \in Names /\ Networks \subseteq Names /\ NoCreds \in Names \X Names
BY DEF Names, NoCreds

\* At most one task is about to write a slot.
LEMMA OneClaimer ==
  ASSUME AdmissionInv, NEW t \in Tasks, NEW u \in Tasks,
         at[t] \in {"claim1", "claim2"}, at[u] \in {"claim1", "claim2"}
  PROVE  t = u
BY DEF AdmissionInv, WhereInv, Tasks

-----------------------------------------------------------------------------
(* The steps of connect. *)

LEMMA WriteKeeps ==
  ASSUME AdmissionInv, NEW t \in Tasks, WriteSsid(t) \/ WritePassword(t)
  PROVE  AdmissionInv'
<1> USE DEF AdmissionInv, Goto
<1>1. at \in [Tasks -> Points] /\ wants \in [Tasks -> Names] /\ wants[t] \in Networks
  BY DEF TypeOK, WriteSsid, WritePassword, GlobalsInv, Writing
<1>2. CASE WriteSsid(t)
  <2>1. TypeOK'
    BY <1>1, <1>2, NamesFacts DEF WriteSsid, TypeOK, Points, slots, radio
  <2>2. WhereInv'
    BY <1>1, <1>2 DEF WriteSsid, WhereInv, Tasks
  <2>3. GlobalsInv'
    BY <1>1, <1>2 DEF WriteSsid, GlobalsInv, Writing, Tasks
  <2>4. ClaimInv' /\ PastLockHasSlot'
    BY <1>1, <1>2 DEF WriteSsid, ClaimInv, Hashed, PastLockHasSlot, slots
  <2> QED BY <2>1, <2>2, <2>3, <2>4
<1>3. CASE WritePassword(t)
  <2>1. TypeOK'
    BY <1>1, <1>3, NamesFacts DEF WritePassword, TypeOK, Points, slots, radio
  <2>2. WhereInv'
    BY <1>1, <1>3 DEF WritePassword, WhereInv, Tasks
  <2>3. GlobalsInv'
    BY <1>1, <1>3 DEF WritePassword, GlobalsInv, Writing, WhereInv, Tasks
  <2>4. ClaimInv' /\ PastLockHasSlot'
    BY <1>1, <1>3 DEF WritePassword, ClaimInv, Hashed, PastLockHasSlot, slots
  <2> QED BY <2>1, <2>2, <2>3, <2>4
<1> QED BY <1>2, <1>3

\* connect returns, refused or after its wait.
LEMMA ReturnKeeps ==
  ASSUME AdmissionInv, NEW t \in Tasks, NEW ok \in BOOLEAN, at[t] \in {"check", "wait"}, Return(t, ok),
         UNCHANGED <<config, globals, slots, reachable, radio>>
  PROVE  AdmissionInv'
<1> USE DEF AdmissionInv, Goto
<1>1. /\ at \in [Tasks -> Points] /\ wants \in [Tasks -> Names]
      /\ hashed \in [Tasks -> Names \X Names]
  BY DEF TypeOK
<1>2. Backup \in Networks /\ Default \in Networks
  BY NetworksAssumption
<1>3. hashed' = [hashed EXCEPT ![t] = NoCreds]
  BY DEF Return
<1>4. CASE t = "boot" /\ ~ok
  <2>1. /\ at' = [at EXCEPT ![t] = IF boot = "first" THEN "ssid" ELSE "load_ssid"]
        /\ wants' = [wants EXCEPT ![t] = IF boot = "first" THEN Backup ELSE Default]
        /\ boot' = IF boot = "first" THEN "second" ELSE "fallback"
    BY <1>4 DEF Return
  <2>2. TypeOK'
    BY <1>1, <1>2, <1>3, <2>1, NamesFacts DEF TypeOK, Points, globals, slots, radio
  <2>3. WhereInv'
    BY <1>1, <1>4, <2>1 DEF WhereInv, Tasks
  <2>4. GlobalsInv'
    BY <1>1, <1>2, <1>4, <2>1 DEF GlobalsInv, Writing, WhereInv, Tasks, globals
  <2>5. ClaimInv' /\ PastLockHasSlot'
    BY <1>1, <1>3, <2>1 DEF ClaimInv, Hashed, PastLockHasSlot, slots
  <2> QED BY <2>2, <2>3, <2>4, <2>5
<1>5. CASE ~(t = "boot" /\ ~ok)
  <2>1. /\ at' = [at EXCEPT ![t] = "idle"]
        /\ boot' = IF t = "boot" THEN "up" ELSE boot
        /\ wants' = wants
    BY <1>5 DEF Return
  <2>2. TypeOK'
    BY <1>1, <1>3, <2>1, NamesFacts DEF TypeOK, Points, globals, slots, radio
  <2>3. WhereInv'
    BY <1>1, <2>1 DEF WhereInv, Tasks
  <2>4. GlobalsInv'
    BY <1>1, <2>1 DEF GlobalsInv, Writing, WhereInv, Tasks, globals
  <2>5. ClaimInv' /\ PastLockHasSlot'
    BY <1>1, <1>3, <2>1 DEF ClaimInv, Hashed, PastLockHasSlot, slots
  <2> QED BY <2>2, <2>3, <2>4, <2>5
<1> QED BY <1>4, <1>5

LEMMA CheckKeeps ==
  ASSUME AdmissionInv, NEW t \in Tasks, Check(t)
  PROVE  AdmissionInv'
<1> USE DEF AdmissionInv, Goto
<1> DEFINE creds == <<g_ssid, g_password>>
<1>1. /\ at \in [Tasks -> Points] /\ hashed \in [Tasks -> Names \X Names] /\ at[t] = "check"
      /\ UNCHANGED <<config, globals, slots, reachable, radio>>
  BY DEF TypeOK, Check
<1>2. creds \in Networks \X Networks
  BY <1>1, CheckedGlobals
<1>3. CASE Admission(creds) = "refused"
  <2>1. Return(t, FALSE)
    BY <1>3 DEF Check
  <2> QED BY <1>1, <2>1, ReturnKeeps
<1>4. CASE Admission(creds) # "refused"
  <2>1. /\ at' = [at EXCEPT ![t] = Admission(creds)]
        /\ hashed' = [hashed EXCEPT ![t] = creds]
        /\ UNCHANGED <<boot, wants>>
    BY <1>4 DEF Check
  <2> HIDE DEF creds
  <2>2. \/ Admission(creds) = "begin" /\ creds \in {slot1, slot2}
        \/ Admission(creds) = "claim1" /\ MayClaim /\ slot1 = NoCreds
        \/ /\ Admission(creds) = "claim2" /\ MayClaim
           /\ slot1 # NoCreds /\ slot2 = NoCreds /\ creds # slot1
    BY <1>4 DEF Admission
  <2>3. Admission(creds) \in {"begin", "claim1", "claim2"}
    BY <2>2
  <2>4. TypeOK'
    BY <1>1, <1>2, <2>1, <2>3, NetworkCreds DEF TypeOK, Points, globals, slots, radio
  <2>5. WhereInv'
    BY <1>1, <2>1, <2>2 DEF WhereInv, Tasks, MayClaim
  <2>6. GlobalsInv'
    BY <1>1, <2>1, <2>3 DEF GlobalsInv, Writing, globals, Tasks
  <2>7. ClaimInv'
    BY <1>1, <1>2, <2>1, <2>2 DEF ClaimInv, Hashed, slots
  <2>8. PastLockHasSlot'
    BY <1>1, <2>1, <2>2 DEF PastLockHasSlot, slots
  <2> QED BY <2>4, <2>5, <2>6, <2>7, <2>8
<1> QED BY <1>3, <1>4

LEMMA ClaimKeeps ==
  ASSUME AdmissionInv, NEW t \in Tasks, Claim(t)
  PROVE  AdmissionInv'
<1> USE DEF AdmissionInv, Goto
<1>1. /\ at \in [Tasks -> Points] /\ at[t] \in {"claim1", "claim2"} /\ at' = [at EXCEPT ![t] = "begin"]
      /\ UNCHANGED <<config, globals, boot, wants, hashed, reachable, radio>>
  BY DEF TypeOK, Claim
<1>2. hashed[t] \in Networks \X Networks /\ hashed[t] # NoCreds /\ hashed[t] \in Names \X Names
  BY <1>1, NetworkCreds DEF ClaimInv, Hashed
<1>3. \/ slot1 = NoCreds /\ slot2 = NoCreds /\ slot1' = hashed[t] /\ slot2' = slot2
      \/ /\ slot1 # NoCreds /\ slot2 = NoCreds /\ hashed[t] # slot1
         /\ slot1' = slot1 /\ slot2' = hashed[t]
  BY DEF Claim, ClaimInv, TypeOK
<1>4. TypeOK'
  BY <1>1, <1>2, <1>3 DEF TypeOK, Points, globals, radio
<1>5. WhereInv' /\ GlobalsInv'
  BY <1>1 DEF WhereInv, GlobalsInv, Writing, Tasks, globals
<1>6. ClaimInv'
  <2>1. \A u \in Tasks : at'[u] \notin {"claim1", "claim2"}
    BY <1>1, OneClaimer
  <2> QED BY <1>1, <2>1 DEF ClaimInv, Hashed
<1>7. PastLockHasSlot'
  <2> SUFFICES ASSUME NEW u \in Tasks, at'[u] \in {"begin", "wait"}
               PROVE  hashed[u] \in {slot1', slot2'}
    BY <1>1 DEF PastLockHasSlot
  <2>1. CASE u = t
    BY <1>3, <2>1
  <2>2. CASE u # t
    <3>1. at[u] \in {"begin", "wait"} /\ hashed[u] \in {slot1, slot2}
      BY <1>1, <2>2 DEF PastLockHasSlot
    <3>2. hashed[u] # NoCreds
      BY <3>1, NetworkCreds DEF ClaimInv, Hashed
    <3> QED BY <1>3, <3>1, <3>2
  <2> QED BY <2>1, <2>2
<1> QED BY <1>4, <1>5, <1>6, <1>7

LEMMA ConnectKeeps ==
  ASSUME AdmissionInv, NEW t \in Tasks, Connect(t)
  PROVE  AdmissionInv'
<1>1. CASE Begin(t)
  <2> USE DEF AdmissionInv, Goto
  <2>1. at \in [Tasks -> Points] /\ at[t] = "begin" /\ at' = [at EXCEPT ![t] = "wait"]
        /\ UNCHANGED <<config, globals, slots, boot, wants, hashed, reachable>>
    BY <1>1 DEF Begin, TypeOK
  <2>2. target' \in Names \X Names /\ linked' \in BOOLEAN
    BY <1>1 DEF Begin, TypeOK
  <2>3. TypeOK'
    BY <2>1, <2>2 DEF TypeOK, Points, globals, slots
  <2>4. WhereInv' /\ GlobalsInv'
    BY <2>1 DEF WhereInv, GlobalsInv, Writing, Tasks, globals
  <2>5. ClaimInv' /\ PastLockHasSlot'
    BY <2>1 DEF ClaimInv, Hashed, PastLockHasSlot, slots
  <2> QED BY <2>3, <2>4, <2>5
<1>2. CASE WaitOver(t)
  <2>1. linked \in BOOLEAN
    BY DEF AdmissionInv, TypeOK
  <2> QED BY <1>2, <2>1, ReturnKeeps DEF WaitOver
<1> QED BY <1>1, <1>2, WriteKeeps, CheckKeeps, ClaimKeeps DEF Connect

-----------------------------------------------------------------------------
(* The callers of connect, and the world. *)

\* A caller that starts has no slot to write and nothing hashed.
LEMMA StartKeeps ==
  ASSUME AdmissionInv, BootWifi \/ NetRetry \/ Commands
  PROVE  AdmissionInv'
<1> USE DEF AdmissionInv, Goto
<1>1. at \in [Tasks -> Points] /\ wants \in [Tasks -> Names]
  BY DEF TypeOK
<1>2. Default \in Networks /\ Typable \subseteq Networks
  BY NetworksAssumption
<1>3. CASE BootWifi
  <2>1. at["boot"] = "idle"
    BY <1>3 DEF BootWifi, WhereInv
  <2>2. \/ at' = [at EXCEPT !["boot"] = "ssid"] /\ wants' = [wants EXCEPT !["boot"] = Default]
        \/ /\ at' = [at EXCEPT !["boot"] = "check"] /\ wants' = wants
           /\ g_ssid # Unset /\ g_password # Unset
    BY <1>3 DEF BootWifi
  <2>3. boot = "wifi" /\ boot' = "first" /\ UNCHANGED <<config, globals, slots, hashed, reachable, radio>>
    BY <1>3 DEF BootWifi
  <2>4. TypeOK'
    BY <1>1, <1>2, <2>2, <2>3, NamesFacts DEF TypeOK, Points, globals, slots, radio, Tasks
  <2>5. WhereInv'
    BY <1>1, <2>2, <2>3 DEF WhereInv, Tasks
  <2>6. GlobalsInv'
    BY <1>1, <1>2, <2>2, <2>3 DEF GlobalsInv, Writing, Tasks, globals, TypeOK, Names
  <2>7. ClaimInv' /\ PastLockHasSlot'
    BY <1>1, <2>2, <2>3 DEF ClaimInv, Hashed, PastLockHasSlot, slots, Tasks
  <2> QED BY <2>4, <2>5, <2>6, <2>7
<1>4. CASE NetRetry \/ Commands
  <2>1. PICK t \in {"net", "serial"}, p \in {"check", "ssid", "load_ssid"} :
          /\ at[t] = "idle" /\ at' = [at EXCEPT ![t] = p]
          /\ t = "net" => boot \in {"up", "ready"}
          /\ t = "serial" => boot = "ready"
          /\ \/ p = "check" /\ wants' = wants
             \/ \E n \in Networks : wants' = [wants EXCEPT ![t] = n]
    <3>1. config # Unset => config \in Networks
      BY NetworksAssumption DEF TypeOK
    <3> QED BY <1>2, <1>4, <3>1 DEF NetRetry, Commands, CommandReconnect, CommandConnect, CommandReload
  <2>2. UNCHANGED <<config, globals, slots, boot, hashed, reachable, radio>>
    BY <1>4 DEF NetRetry, Commands, CommandReconnect, CommandConnect, CommandReload
  <2>3. TypeOK'
    BY <1>1, <2>1, <2>2, NamesFacts DEF TypeOK, Points, globals, slots, radio, Tasks
  <2>4. WhereInv'
    BY <1>1, <2>1, <2>2 DEF WhereInv, Tasks
  <2>5. GlobalsInv'
    BY <1>1, <2>1, <2>2 DEF GlobalsInv, Writing, Tasks, globals
  <2>6. ClaimInv' /\ PastLockHasSlot'
    BY <1>1, <2>1, <2>2 DEF ClaimInv, Hashed, PastLockHasSlot, slots, Tasks
  <2> QED BY <2>3, <2>4, <2>5, <2>6
<1> QED BY <1>3, <1>4

LEMMA OtherKeeps ==
  ASSUME AdmissionInv, InitDone \/ SerialKilled \/ LinkUp \/ LinkLost \/ WorldChanges \/ UNCHANGED vars
  PROVE  AdmissionInv'
<1> USE DEF AdmissionInv, Goto
<1>1. CASE InitDone
  BY <1>1 DEF InitDone, TypeOK, WhereInv, GlobalsInv, Writing, ClaimInv, Hashed, PastLockHasSlot,
              globals, slots, radio, Tasks
<1>2. CASE SerialKilled
  <2>1. /\ at \in [Tasks -> Points] /\ at' = [at EXCEPT !["serial"] = "idle"]
        /\ hashed \in [Tasks -> Names \X Names] /\ hashed' = [hashed EXCEPT !["serial"] = NoCreds]
        /\ UNCHANGED <<config, globals, slots, boot, wants, reachable, radio>>
    BY <1>2 DEF SerialKilled, TypeOK
  <2>2. TypeOK'
    BY <2>1, NamesFacts DEF TypeOK, Points, globals, slots, radio, Tasks
  <2>3. WhereInv' /\ GlobalsInv'
    BY <2>1 DEF WhereInv, GlobalsInv, Writing, Tasks, globals
  <2>4. ClaimInv' /\ PastLockHasSlot'
    BY <2>1 DEF ClaimInv, Hashed, PastLockHasSlot, slots, Tasks
  <2> QED BY <2>2, <2>3, <2>4
<1>3. CASE LinkUp \/ LinkLost \/ WorldChanges \/ UNCHANGED vars
  <2>1. UNCHANGED <<config, globals, slots, boot, at, wants, hashed, target>>
    BY <1>3 DEF LinkUp, LinkLost, WorldChanges, vars, radio
  <2>2. reachable' \subseteq Networks /\ linked' \in BOOLEAN
    <3>1. CASE LinkUp \/ LinkLost
      BY <3>1, Zenon DEF LinkUp, LinkLost, TypeOK
    <3>2. CASE WorldChanges \/ UNCHANGED vars
      BY <3>2 DEF WorldChanges, vars, radio, TypeOK
    <3> QED BY <1>3, <3>1, <3>2
  <2>3. TypeOK'
    BY <2>1, <2>2 DEF TypeOK, globals, slots
  <2> QED BY <2>1, <2>3 DEF WhereInv, GlobalsInv, ClaimInv, PastLockHasSlot, globals, slots
<1> QED BY <1>1, <1>2, <1>3

\* The invariant of the WLAN lock, under every interleaving of boot, network
\* daemon and serial task.
THEOREM AdmissionCorrect == Spec => []AdmissionInv
<1>1. Init => AdmissionInv
  <2> SUFFICES ASSUME Init
               PROVE  AdmissionInv
    OBVIOUS
  <2>1. config \in Names /\ \A c \in Configs : c \in Names
    BY NetworksAssumption DEF Init, Names
  <2>2. /\ at \in [Tasks -> Points] /\ wants \in [Tasks -> Names] /\ hashed \in [Tasks -> Names \X Names]
        /\ \A t \in Tasks : at[t] = "idle"
    BY NamesFacts DEF Init, Points
  <2>3. TypeOK
    BY <2>1, <2>2, NamesFacts DEF Init, TypeOK
  <2>4. WhereInv /\ GlobalsInv /\ ClaimInv /\ PastLockHasSlot
    BY <2>2 DEF Init, WhereInv, GlobalsInv, Writing, ClaimInv, Hashed, PastLockHasSlot, Tasks
  <2> QED BY <2>3, <2>4 DEF AdmissionInv
<1>2. AdmissionInv /\ [Next]_vars => AdmissionInv'
  BY ConnectKeeps, StartKeeps, OtherKeeps DEF Next
<1> QED BY <1>1, <1>2, PTL DEF Spec

\* Whoever is past the lock was hashed into a slot that still holds the hash
\* (wifi.cpp:54-80).
THEOREM PastLockHasSlotAlways == Spec => []PastLockHasSlot
<1>1. AdmissionInv => PastLockHasSlot
  BY DEF AdmissionInv
<1> QED BY <1>1, AdmissionCorrect, PTL
=============================================================================
