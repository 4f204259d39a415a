--------------------------- MODULE ServicesProofs ---------------------------
(***************************************************************************)
(* Theorems about the health and the Bluetooth daemon, for every set of    *)
(* ids, signal strengths and channels and any number of failed calls.      *)
(*                                                                         *)
(* BtInv says what manager and library know of each other: a manager that  *)
(* is not initialised has switched the library off, so a later init gives  *)
(* it the new name.  RoundInv says that in a round without a change of the *)
(* link each value read so far is the link's.                              *)
(***************************************************************************)
EXTENDS Services, TLAPS

-----------------------------------------------------------------------------
(* Bluetooth. *)

Names == {NoName} \cup {Name(i) : i \in Ids \cup {NoId}}
PartNames == {"server", "service", "characteristic", "advertising"}

BtTypes ==
  /\ id \in Ids \cup {NoId}
  /\ target \in Names
  /\ manager \in [name : Names, initialized : BOOLEAN, running : BOOLEAN]
  /\ stack \in [name : Names, advertising : BOOLEAN, peer : BOOLEAN]

BtInv ==
  /\ BtTypes
  /\ manager.initialized => stack.name = manager.name
  /\ ~manager.initialized => stack = Off
  /\ point = "begin" => ~manager.initialized
  /\ point \in PartNames => manager.initialized

LEMMA PartsAreNamed ==
  ASSUME NEW i \in DOMAIN Parts
  PROVE  /\ Parts[i] \in PartNames
         /\ i < Len(Parts) => Parts[i + 1] \in PartNames
<1>1. DOMAIN Parts = 1 .. 4 /\ Len(Parts) = 4
  BY DEF Parts
<1>2. i = 1 \/ i = 2 \/ i = 3 \/ i = 4
  BY <1>1
<1> QED BY <1>1, <1>2 DEF Parts, PartNames

\* A step of the daemon.
LEMMA DaemonKeepsBtInv ==
  ASSUME BtInv, BluetoothDaemon
  PROVE  BtInv'
<1> USE DEF BtInv, BtTypes, PartNames
<1>1. NoName \in Names /\ Name(id) \in Names
  BY DEF Names
<1>2. CASE Wake
  <2>1. target' \in Names
    BY <1>1, <1>2 DEF Wake
  <2>2. point' \in {"begin", "stop", "asleep"} /\ (point' = "begin" => ~manager.initialized)
    BY <1>2 DEF Wake
  <2> QED BY <1>2, <2>1, <2>2 DEF Wake
<1>3. CASE StopServer
  <2>1. manager' \in [name : Names, initialized : BOOLEAN, running : BOOLEAN]
        /\ manager'.name = manager.name /\ manager'.initialized = manager.initialized
    BY <1>3 DEF StopServer
  <2>2. stack' \in [name : Names, advertising : BOOLEAN, peer : BOOLEAN]
        /\ stack'.name = stack.name
    BY <1>3 DEF StopServer
  <2>3. ~manager.initialized => stack' = Off
    <3> SUFFICES ASSUME ~manager.initialized
                 PROVE  stack' = Off
      OBVIOUS
    <3>1. stack = Off /\ stack' \in {stack, [stack EXCEPT !.advertising = FALSE]}
      BY <1>3 DEF StopServer
    <3>2. /\ stack'.name = NoName /\ stack'.advertising = FALSE /\ stack'.peer = FALSE
      BY <3>1 DEF Off
    <3>3. stack' = [name |-> stack'.name, advertising |-> stack'.advertising, peer |-> stack'.peer]
      BY <2>2
    <3> QED BY <3>2, <3>3, Zenon DEF Off
  <2> QED BY <1>3, <2>1, <2>2, <2>3 DEF StopServer
<1>4. CASE Deinit
  BY <1>1, <1>4 DEF Deinit, Off
<1>5. CASE Begin
  <2>1. stack = Off
    BY <1>5 DEF Begin
  <2>2. stack' = [name |-> target, advertising |-> FALSE, peer |-> FALSE]
    BY <1>5, <2>1 DEF Begin, Off
  <2>3. manager' \in [name : Names, initialized : BOOLEAN, running : BOOLEAN]
        /\ manager'.name = target /\ manager'.initialized
    BY <1>5 DEF Begin
  <2> QED BY <1>5, <2>2, <2>3 DEF Begin
<1>6. CASE PartDone
  <2>1. PICK i \in DOMAIN Parts :
          /\ point = Parts[i]
          /\ IF i < Len(Parts)
             THEN point' = Parts[i + 1] /\ UNCHANGED <<applied, manager, stack>>
             ELSE /\ point' = "asleep" /\ applied' = target
                  /\ manager' = [manager EXCEPT !.running = TRUE]
                  /\ stack' = [stack EXCEPT !.advertising = ~stack.peer]
          /\ UNCHANGED <<id, target>>
    BY <1>6 DEF PartDone
  <2>2. manager.initialized
    BY <2>1, PartsAreNamed
  <2>3. CASE i < Len(Parts)
    BY <2>1, <2>2, <2>3, PartsAreNamed
  <2>4. CASE ~(i < Len(Parts))
    BY <2>1, <2>2, <2>4
  <2> QED BY <2>3, <2>4
<1>7. CASE PartMissing
  BY <1>7 DEF PartMissing
<1> QED BY <1>2, <1>3, <1>4, <1>5, <1>6, <1>7 DEF BluetoothDaemon

LEMMA PeerKeepsBtInv ==
  ASSUME BtInv, PeerConnects \/ PeerLeaves
  PROVE  BtInv'
<1> USE DEF BtInv, BtTypes, Off
<1>1. manager.initialized
  BY DEF PeerConnects, PeerLeaves
<1>2. /\ stack' \in [name : Names, advertising : BOOLEAN, peer : BOOLEAN]
      /\ stack'.name = stack.name
  BY DEF PeerConnects, PeerLeaves
<1> QED BY <1>1, <1>2 DEF PeerConnects, PeerLeaves

THEOREM BluetoothCorrect == Spec => []BtInv
<1>1. Init => BtInv
  BY DEF Init, BtInv, BtTypes, Names, PartNames, Off
<1>2. BtInv /\ [Next]_vars => BtInv'
  <2> SUFFICES ASSUME BtInv, [Next]_vars
               PROVE  BtInv'
    OBVIOUS
  <2>1. CASE UNCHANGED btvars
    BY <2>1 DEF btvars, BtInv, BtTypes
  <2>2. CASE LearnId
    BY <2>2 DEF LearnId, BtInv, BtTypes
  <2>3. CASE LinkChanges \/ HealthDaemon
    <3>1. UNCHANGED btvars
      BY <2>3 DEF LinkChanges, HealthDaemon, LinkLost, LinkFound, CheckRssi, ReadRssi, ReadChannel,
                  CheckQuality, ReadQuality, GradeLink, CheckRead, Read
    <3> QED BY <2>1, <3>1
  <2>4. CASE UNCHANGED vars
    BY <2>1, <2>4 DEF vars
  <2> QED BY <2>2, <2>3, <2>4, DaemonKeepsBtInv, PeerKeepsBtInv DEF Next
<1> QED BY <1>1, <1>2, PTL DEF Spec

\* The library never advertises a name the manager has moved on from, wherever
\* a peer comes or goes while the server is renamed (bluetooth.cpp:41-73,
\* bluetooth_server.cpp:24-32).
THEOREM AdvertisesOwnNameAlways == Spec => []AdvertisesOwnName
<1>1. BtInv => AdvertisesOwnName
  BY DEF BtInv, AdvertisesOwnName, Off
<1> QED BY <1>1, BluetoothCorrect, PTL

-----------------------------------------------------------------------------
(* Health. *)

Readings == {"rssi", "quality", "channel"}
Rounds ==
  {"asleep", "rssi", "reading rssi", "channel", "quality", "reading quality", "grade"}

HealthTypes ==
  /\ link \in Links
  /\ round \in Rounds
  /\ health \in [Metrics -> {"unknown", "ok", "warning", "error"}]
  /\ DOMAIN got = Readings

RoundInv ==
  calm =>
    /\ round = "asleep" => Agrees
    /\ round # "asleep" => link.up /\ health["connected"] = "ok"
    /\ round \in {"channel", "quality", "reading quality", "grade"} => got["rssi"] = link.rssi
    /\ round \in {"quality", "reading quality", "grade"} => got["channel"] = link.channel
    /\ round = "grade" => got["quality"] = Quality(link.rssi)

HealthInv == HealthTypes /\ RoundInv

\* The thresholds of the quality are thresholds of the signal strength, except
\* where 8 bits are not enough (wifi.cpp:199-206).
LEMMA QualityFollowsLevel ==
  ASSUME NEW rssi \in -127 .. -1, rssi \notin -36 .. -31
  PROVE  /\ Quality(rssi) \in Int
         /\ Quality(rssi) >= 50 <=> rssi >= -75
         /\ Quality(rssi) < 30 <=> rssi < -85
<1>1. CASE rssi <= -100
  BY <1>1 DEF Quality
<1>2. CASE rssi >= -30
  BY <1>2 DEF Quality
<1>3. CASE rssi > -100 /\ rssi < -36
  <2>1. 2 * (rssi + 100) \in 0 .. 127
    BY <1>3
  <2>2. Int8(2 * (rssi + 100)) = 2 * (rssi + 100)
    BY <2>1 DEF Int8
  <2>3. Quality(rssi) = 2 * (rssi + 100)
    BY <1>3, <2>2 DEF Quality
  <2> QED BY <1>3, <2>3
<1> QED BY <1>1, <1>2, <1>3

LEMMA GradeFacts ==
  ASSUME NEW n \in Int, NEW error \in Int, NEW warning \in Int, error < warning
  PROVE  /\ Grade(n, error, warning) = "ok" <=> n >= warning
         /\ Grade(n, error, warning) = "error" <=> n < error
BY DEF Grade

LEMMA LinkRange ==
  ASSUME link \in Links, link.up
  PROVE  link.rssi \in -127 .. -1 /\ link.channel # 0
BY LevelsAssumption, ChannelsAssumption DEF Links, NoLink

LEMMA LevelGrades ==
  ASSUME NEW rssi \in -127 .. -1
  PROVE  /\ Grade(rssi, -80, -70) = "ok" <=> rssi >= -70
         /\ Grade(rssi, -80, -70) = "error" <=> rssi < -80
BY GradeFacts

LEMMA QualityGrades ==
  ASSUME NEW rssi \in -127 .. -1, rssi \notin -36 .. -31
  PROVE  /\ Grade(Quality(rssi), 30, 50) = "ok" <=> rssi >= -75
         /\ Grade(Quality(rssi), 30, 50) = "error" <=> rssi < -85
<1>1. PICK q \in Int : q = Quality(rssi)
  BY QualityFollowsLevel
<1>2. (q >= 50 <=> rssi >= -75) /\ (q < 30 <=> rssi < -85)
  BY <1>1, QualityFollowsLevel
<1>3. (Grade(q, 30, 50) = "ok" <=> q >= 50) /\ (Grade(q, 30, 50) = "error" <=> q < 30)
  BY GradeFacts
<1> QED BY <1>1, <1>2, <1>3, Zenon

LEMMA HealthDaemonKeepsHealthInv ==
  ASSUME HealthInv, HealthDaemon
  PROVE  HealthInv'
<1> USE DEF HealthInv, HealthTypes, RoundInv, Rounds, linkvars
<1>1. CASE LinkLost
  <2>1. \A m \in Metrics : health'[m] = "error"
    BY <1>1 DEF LinkLost
  <2>2. health' \in [Metrics -> {"unknown", "ok", "warning", "error"}]
    BY <1>1 DEF LinkLost
  <2>3. ~link.up /\ link' = link /\ round' = "asleep" /\ got' = got
    BY <1>1 DEF LinkLost
  <2>4. Agrees'
    BY <2>1, <2>3, Zenon DEF Agrees
  <2> QED BY <2>2, <2>3, <2>4
<1>2. CASE LinkFound
  BY <1>2 DEF LinkFound, Metrics
<1>3. CASE CheckRssi
  BY <1>3 DEF CheckRssi, CheckRead, Readings
<1>4. CASE ReadRssi
  BY <1>4 DEF ReadRssi, Read, Readings
<1>5. CASE ReadChannel
  BY <1>5 DEF ReadChannel, Readings
<1>6. CASE CheckQuality
  BY <1>6 DEF CheckQuality, CheckRead, Readings
<1>7. CASE ReadQuality
  BY <1>7 DEF ReadQuality, Read, Readings
<1>8. CASE GradeLink
  <2>1. /\ round = "grade" /\ round' = "asleep" /\ UNCHANGED linkvars
        /\ DOMAIN got' = DOMAIN got
    BY <1>8 DEF GradeLink
  <2>2. /\ health'["connected"] = health["connected"]
        /\ health'["rssi"] = Grade(got["rssi"], -80, -70)
        /\ health'["quality"] = Grade(got["quality"], 30, 50)
        /\ health'["channel"] = IF got["channel"] = 0 THEN "error" ELSE "ok"
    BY <1>8 DEF GradeLink, Metrics
  <2>3. health' \in [Metrics -> {"unknown", "ok", "warning", "error"}]
    <3>1. \A n, e, w : Grade(n, e, w) \in {"unknown", "ok", "warning", "error"}
      BY DEF Grade
    <3> QED BY <1>8, <3>1 DEF GradeLink
  <2>4. calm => Agrees'
    <3> SUFFICES ASSUME calm
                 PROVE  Agrees'
      OBVIOUS
    <3>1. /\ link.up /\ link' = link /\ health["connected"] = "ok"
          /\ got["rssi"] = link.rssi /\ got["channel"] = link.channel
          /\ got["quality"] = Quality(link.rssi)
      BY <2>1
    <3>2. link.rssi \in -127 .. -1 /\ link.channel # 0
      BY <3>1, LinkRange
    <3>3. /\ health'["rssi"] = "ok" <=> link.rssi >= -70
          /\ health'["rssi"] = "error" <=> link.rssi < -80
      <4>1. health'["rssi"] = Grade(link.rssi, -80, -70)
        BY <2>2, <3>1
      <4>2. /\ Grade(link.rssi, -80, -70) = "ok" <=> link.rssi >= -70
            /\ Grade(link.rssi, -80, -70) = "error" <=> link.rssi < -80
        BY <3>2, LevelGrades, Zenon
      <4> QED BY <4>1, <4>2, Zenon
    <3>4. link.rssi \notin -36 .. -31 =>
            /\ health'["quality"] = "ok" <=> link.rssi >= -75
            /\ health'["quality"] = "error" <=> link.rssi < -85
      <4>1. health'["quality"] = Grade(Quality(link.rssi), 30, 50)
        BY <2>2, <3>1, Zenon
      <4> QED BY <3>2, <4>1, QualityGrades, Zenon
    <3>5. health'["channel"] = "ok"
      BY <2>2, <3>1, <3>2, Zenon
    <3> QED BY <2>2, <3>1, <3>3, <3>4, <3>5 DEF Agrees
  <2> QED BY <2>1, <2>3, <2>4
<1> QED BY <1>1, <1>2, <1>3, <1>4, <1>5, <1>6, <1>7, <1>8 DEF HealthDaemon

THEOREM HealthCorrect == Spec => []HealthInv
<1>1. Init => HealthInv
  BY DEF Init, HealthInv, HealthTypes, RoundInv, Rounds, Readings
<1>2. HealthInv /\ [Next]_vars => HealthInv'
  <2> SUFFICES ASSUME HealthInv, [Next]_vars
               PROVE  HealthInv'
    OBVIOUS
  <2>1. CASE UNCHANGED <<linkvars, healthvars>>
    BY <2>1 DEF linkvars, healthvars, HealthInv, HealthTypes, RoundInv, Agrees
  <2>2. CASE LinkChanges
    BY <2>2 DEF LinkChanges, healthvars, HealthInv, HealthTypes, RoundInv
  <2>3. CASE LearnId \/ BluetoothDaemon \/ PeerConnects \/ PeerLeaves
    <3>1. UNCHANGED <<linkvars, healthvars>>
      BY <2>3 DEF LearnId, BluetoothDaemon, Wake, StopServer, Deinit, Begin, PartDone, PartMissing,
                  PeerConnects, PeerLeaves
    <3> QED BY <2>1, <3>1
  <2>4. CASE UNCHANGED vars
    BY <2>1, <2>4 DEF vars
  <2> QED BY <2>2, <2>3, <2>4, HealthDaemonKeepsHealthInv DEF Next
<1> QED BY <1>1, <1>2, PTL DEF Spec

\* A round in which the link did not change grades the link as it is, for every
\* signal strength the driver can report (healthWiFiDaemon.cpp:14-131).
THEOREM CalmRoundAgreesAlways == Spec => []CalmRoundAgrees
<1>1. HealthInv => CalmRoundAgrees
  BY DEF HealthInv, RoundInv, CalmRoundAgrees
<1> QED BY <1>1, HealthCorrect, PTL
=============================================================================
