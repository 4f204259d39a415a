------------------------ MODULE IdProvisioningProofs ------------------------
(***************************************************************************)
(* Theorems about the device-ID registry and the robots that ask it for    *)
(* their ids, for every set of robots, teams and time stamps and every     *)
(* bound on the ids.                                                       *)
(*                                                                         *)
(* The registry: LiveIdsUnique is not inductive: a file with a repeated    *)
(* id, or a counter at or below an id in use, would break it one step      *)
(* later.  RegistryInv adds what rules that out: the file's ids are        *)
(* unique, the counter is above every id in memory and on disk, and a file *)
(* being written holds only rows of the table.                             *)
(*                                                                         *)
(* The robots and the registry together: the registry's own invariants     *)
(* carry over, because every step of the composition is a step of the      *)
(* server or leaves it alone.  What is new is HeldInv: a robot only ever   *)
(* holds, or is about to be told, an id granted to it.  With a well-run    *)
(* server the grants are one-to-one, so the robots see the service that    *)
(* IdAuthority promises.                                                   *)
(***************************************************************************)
EXTENDS IdProvisioning, TLAPS

-----------------------------------------------------------------------------
(* The dictionary operators. *)

\* What it is to be a registry, without the union over the sets of keys.
LEMMA RegistryMember ==
  ASSUME NEW reg
  PROVE  reg \in Registry <=> (DOMAIN reg \subseteq Macs /\ reg \in [DOMAIN reg -> Row])
<1>1. ASSUME reg \in Registry
      PROVE  DOMAIN reg \subseteq Macs /\ reg \in [DOMAIN reg -> Row]
  <2>1. PICK S \in SUBSET Macs : reg \in [S -> Row]
    BY <1>1 DEF Registry
  <2>2. DOMAIN reg = S
    BY <2>1
  <2> QED BY <2>1, <2>2
<1>2. ASSUME DOMAIN reg \subseteq Macs, reg \in [DOMAIN reg -> Row]
      PROVE  reg \in Registry
  BY <1>2 DEF Registry
<1> QED BY <1>1, <1>2

\* The empty dictionary is a registry without ids.
LEMMA NoRowsFacts == NoRows \in Registry /\ DOMAIN NoRows = {} /\ Ids(NoRows) = {}
<1>1. DOMAIN NoRows = {} /\ NoRows \in [{} -> Row]
  BY DEF NoRows
<1> QED BY <1>1, RegistryMember DEF Ids

\* Put adds or replaces one row and leaves the others alone.
LEMMA PutFacts ==
  ASSUME NEW reg \in Registry, NEW m \in Macs, NEW row \in Row
  PROVE  /\ Put(reg, m, row) \in Registry
         /\ DOMAIN Put(reg, m, row) = DOMAIN reg \cup {m}
         /\ Put(reg, m, row)[m] = row
         /\ \A n \in DOMAIN reg \ {m} : Put(reg, m, row)[n] = reg[n]
<1>1. DOMAIN reg \subseteq Macs /\ reg \in [DOMAIN reg -> Row]
  BY RegistryMember
<1>2. DOMAIN Put(reg, m, row) = DOMAIN reg \cup {m}
  BY DEF Put
<1>3. \A n \in DOMAIN reg \cup {m} : Put(reg, m, row)[n] \in Row
  BY <1>1 DEF Put
<1>4. Put(reg, m, row) \in [DOMAIN reg \cup {m} -> Row]
  BY <1>3 DEF Put
<1>5. Put(reg, m, row) \in Registry
  BY <1>1, <1>2, <1>4, RegistryMember
<1> QED BY <1>2, <1>5 DEF Put

\* Removing keys leaves the other rows alone.
LEMMA RestrictFacts ==
  ASSUME NEW reg \in Registry, NEW S \in SUBSET DOMAIN reg
  PROVE  /\ Restrict(reg, S) \in Registry
         /\ DOMAIN Restrict(reg, S) = S
         /\ \A n \in S : Restrict(reg, S)[n] = reg[n]
<1>1. DOMAIN reg \subseteq Macs /\ reg \in [DOMAIN reg -> Row]
  BY RegistryMember
<1>2. DOMAIN Restrict(reg, S) = S /\ \A n \in S : Restrict(reg, S)[n] = reg[n]
  BY DEF Restrict
<1>3. Restrict(reg, S) \in [S -> Row]
  BY <1>1 DEF Restrict
<1> QED BY <1>1, <1>2, <1>3, RegistryMember

\* Updating a row keeps its id; a heartbeat keeps its team as well.
LEMMA RefreshFacts ==
  ASSUME NEW row \in Row, NEW t \in Teams, NEW now \in Times
  PROVE  /\ [row EXCEPT !.team_id = t, !.last_seen = now] \in Row
         /\ [row EXCEPT !.team_id = t, !.last_seen = now].device_id = row.device_id
         /\ [row EXCEPT !.last_seen = now] \in Row
         /\ [row EXCEPT !.last_seen = now].device_id = row.device_id
         /\ [row EXCEPT !.last_seen = now].team_id = row.team_id
BY DEF Row

\* The ids of the rows are in range.
LEMMA IdRange ==
  ASSUME NEW reg \in Registry, NEW m \in DOMAIN reg
  PROVE  m \in Macs /\ reg[m] \in Row /\ reg[m].device_id \in 1 .. MaxId
BY RegistryMember DEF Row

-----------------------------------------------------------------------------
(* Type correctness. *)

\* Every variable of the registry keeps its type: in particular the file is
\* always a table of rows and the counter stays within its bound.
THEOREM TypeCorrect == Spec => []TypeOK
<1> USE MaxIdAssumption
<1>1. Init => TypeOK
  <2>1. 1 \in 1 .. MaxId + 1
    OBVIOUS
  <2> QED BY <2>1, NoRowsFacts DEF Init, TypeOK
<1>2. TypeOK /\ [Next]_vars => TypeOK'
  <2> SUFFICES ASSUME TypeOK, [Next]_vars
               PROVE  TypeOK'
    OBVIOUS
  <2> USE DEF TypeOK
  <2>1. CASE Start
    BY <2>1 DEF Start
  <2>2. CASE StartFails
    BY <2>2 DEF StartFails, vars
  <2>3. CASE Routes
    <3>1. ASSUME NEW m \in Macs, NEW t \in Teams, NEW now \in Times, AssignKnown(m, t, now)
          PROVE  TypeOK'
      <4>1. devices' \in Registry
        <5> DEFINE row == [devices[m] EXCEPT !.team_id = t, !.last_seen = now]
        <5>1. devices[m] \in Row
          BY <3>1, IdRange DEF AssignKnown
        <5>2. row \in Row
          BY <5>1, RefreshFacts
        <5>3. devices' = Put(devices, m, row)
          BY <3>1 DEF AssignKnown
        <5> HIDE DEF row
        <5> QED BY <5>2, <5>3, PutFacts
      <4>2. <<m, devices[m].device_id>> \in Macs \X (1 .. MaxId)
        BY <3>1, IdRange DEF AssignKnown
      <4> QED BY <3>1, <4>1, <4>2 DEF AssignKnown
    <3>2. ASSUME NEW m \in Macs, NEW t \in Teams, NEW now \in Times, AssignNew(m, t, now)
          PROVE  TypeOK'
      <4>1. [device_id |-> next_id, team_id |-> t, last_seen |-> now] \in Row
        BY <3>2 DEF AssignNew, Row
      <4>2. devices' \in Registry
        BY <3>2, <4>1, PutFacts DEF AssignNew
      <4> QED BY <3>2, <4>2 DEF AssignNew
    <3>3. ASSUME NEW m \in Macs, NEW i \in Ids(devices), NEW now \in Times, HeartbeatDevice(m, i, now)
          PROVE  TypeOK'
      <4>1. devices' \in Registry
        <5> DEFINE row == [devices[m] EXCEPT !.last_seen = now]
        <5>1. devices[m] \in Row
          BY <3>3, IdRange DEF HeartbeatDevice
        <5>2. row \in Row
          BY <5>1 DEF Row
        <5>3. devices' = Put(devices, m, row)
          BY <3>3 DEF HeartbeatDevice
        <5> HIDE DEF row
        <5> QED BY <5>2, <5>3, PutFacts
      <4> QED BY <3>3, <4>1 DEF HeartbeatDevice
    <3> QED BY <2>3, <3>1, <3>2, <3>3 DEF Routes
  <2>4. ASSUME NEW m \in Macs, RemoveDevice(m)
        PROVE  TypeOK'
    BY <2>4, RestrictFacts DEF RemoveDevice
  <2>5. ASSUME NEW who \in {"thread", "main"}, SaveBegin(who)
        PROVE  TypeOK'
    BY <2>5, NoRowsFacts DEF SaveBegin
  <2>6. CASE SaveRow
    <3>1. PICK m \in Unwritten : csv' = Put(csv, m, devices[m])
      BY <2>6 DEF SaveRow
    <3>2. csv' \in Registry
      BY <3>1, IdRange, PutFacts DEF Unwritten
    <3> QED BY <2>6, <3>2 DEF SaveRow
  <2>7. CASE SaveEnd
    BY <2>7 DEF SaveEnd, Return
  <2>8. CASE SaveFails
    BY <2>8 DEF SaveFails, Return
  <2>9. CASE Stop
    BY <2>9 DEF Stop
  <2>10. CASE SkipFinalSave \/ \E who \in {"thread", "main"} : OpenFails(who)
    BY <2>10 DEF SkipFinalSave, OpenFails
  <2>11. CASE Exit \/ Crash
    <3>1. 1 \in 1 .. MaxId + 1
      OBVIOUS
    <3>2. torn' \in BOOLEAN
      BY <2>11, Zenon DEF Exit, Crash, Die
    <3> QED BY <2>11, <3>1, <3>2, NoRowsFacts DEF Exit, Crash, Die
  <2>12. CASE UNCHANGED vars
    BY <2>12 DEF vars
  <2> QED BY <2>1, <2>2, <2>3, <2>4, <2>5, <2>6, <2>7, <2>8, <2>9, <2>10, <2>11, <2>12 DEF Next
<1> QED BY <1>1, <1>2, PTL DEF Spec

-----------------------------------------------------------------------------
(* What the routes that serve a robot have in common. *)

\* A request of a robot leaves every other row's id alone, gives the robot
\* its own id or the counter's, and changes ids or teams only with the dirty
\* flag set.
RouteOf(m) ==
  /\ CanServe
  /\ UNCHANGED <<server, saver, csv, torn>>
  /\ DOMAIN devices' = DOMAIN devices \cup {m}
  /\ \A n \in DOMAIN devices : devices'[n].device_id = devices[n].device_id
  /\ IF m \in DOMAIN devices
       THEN next_id' = next_id
       ELSE /\ next_id' = next_id + 1
            /\ next_id <= MaxId
            /\ devices'[m].device_id = next_id
  /\ granted \subseteq granted'
  /\ granted' \subseteq granted \cup {<<m, devices'[m].device_id>>}
  /\ m \notin DOMAIN devices => <<m, next_id>> \in granted'
  /\ \/ dirty'
     \/ /\ dirty' = dirty
        /\ m \in DOMAIN devices
        /\ \A n \in DOMAIN devices : devices'[n].team_id = devices[n].team_id

LEMMA RouteEffect ==
  ASSUME TypeOK, Routes
  PROVE  \E m \in Macs : RouteOf(m)
<1>0. devices \in Registry
  BY DEF TypeOK
<1>1. ASSUME NEW m \in Macs, NEW t \in Teams, NEW now \in Times, AssignKnown(m, t, now)
      PROVE  RouteOf(m)
  <2> DEFINE row == [devices[m] EXCEPT !.team_id = t, !.last_seen = now]
  <2>1. m \in DOMAIN devices /\ devices[m] \in Row
    BY <1>0, <1>1, IdRange DEF AssignKnown
  <2>2. row \in Row /\ row.device_id = devices[m].device_id
    BY <2>1, RefreshFacts
  <2>3. devices' = Put(devices, m, row)
    BY <1>1 DEF AssignKnown
  <2>4. /\ DOMAIN devices' = DOMAIN devices \cup {m}
        /\ devices'[m] = row
        /\ \A n \in DOMAIN devices \ {m} : devices'[n] = devices[n]
    <3>1. row \in Row
      BY <2>2
    <3> HIDE DEF row
    <3>2. /\ DOMAIN Put(devices, m, row) = DOMAIN devices \cup {m}
          /\ Put(devices, m, row)[m] = row
          /\ \A n \in DOMAIN devices \ {m} : Put(devices, m, row)[n] = devices[n]
      BY <1>0, <3>1, PutFacts, Zenon
    <3> QED BY <2>3, <3>2
  <2>5. \A n \in DOMAIN devices : devices'[n].device_id = devices[n].device_id
    <3> HIDE DEF row
    <3> QED BY <2>2, <2>4
  <2>6. granted' = granted \cup {<<m, devices'[m].device_id>>}
    BY <1>1, <2>1, <2>5 DEF AssignKnown
  <2>7. dirty' = TRUE /\ CanServe /\ UNCHANGED <<server, next_id, saver, csv, torn>>
    BY <1>1 DEF AssignKnown
  <2> HIDE DEF row
  <2> QED BY <2>1, <2>4, <2>5, <2>6, <2>7 DEF RouteOf
<1>2. ASSUME NEW m \in Macs, NEW t \in Teams, NEW now \in Times, AssignNew(m, t, now)
      PROVE  RouteOf(m)
  <2> DEFINE row == [device_id |-> next_id, team_id |-> t, last_seen |-> now]
  <2>1. row \in Row /\ row.device_id = next_id
    BY <1>2, MaxIdAssumption DEF AssignNew, Row, TypeOK
  <2>2. devices' = Put(devices, m, row)
    BY <1>2 DEF AssignNew
  <2>3. /\ DOMAIN devices' = DOMAIN devices \cup {m}
        /\ devices'[m] = row
        /\ \A n \in DOMAIN devices \ {m} : devices'[n] = devices[n]
    <3>1. row \in Row
      BY <2>1
    <3> HIDE DEF row
    <3>2. /\ DOMAIN Put(devices, m, row) = DOMAIN devices \cup {m}
          /\ Put(devices, m, row)[m] = row
          /\ \A n \in DOMAIN devices \ {m} : Put(devices, m, row)[n] = devices[n]
      BY <1>0, <3>1, PutFacts, Zenon
    <3> QED BY <2>2, <3>2
  <2>4. /\ m \notin DOMAIN devices /\ next_id <= MaxId /\ next_id' = next_id + 1
        /\ granted' = granted \cup {<<m, next_id>>}
        /\ dirty' = TRUE /\ CanServe /\ UNCHANGED <<server, saver, csv, torn>>
    BY <1>2 DEF AssignNew
  <2> HIDE DEF row
  <2> QED BY <2>1, <2>3, <2>4 DEF RouteOf
<1>3. ASSUME NEW m \in Macs, NEW i \in Ids(devices), NEW now \in Times, HeartbeatDevice(m, i, now)
      PROVE  RouteOf(m)
  <2> DEFINE row == [devices[m] EXCEPT !.last_seen = now]
  <2>1. m \in DOMAIN devices /\ devices[m] \in Row
    BY <1>0, <1>3, IdRange DEF HeartbeatDevice
  <2>2. /\ row \in Row
        /\ row.device_id = devices[m].device_id
        /\ row.team_id = devices[m].team_id
    BY <2>1 DEF Row
  <2>3. devices' = Put(devices, m, row)
    BY <1>3 DEF HeartbeatDevice
  <2>4. /\ DOMAIN devices' = DOMAIN devices \cup {m}
        /\ devices'[m] = row
        /\ \A n \in DOMAIN devices \ {m} : devices'[n] = devices[n]
    <3>1. row \in Row
      BY <2>2
    <3> HIDE DEF row
    <3>2. /\ DOMAIN Put(devices, m, row) = DOMAIN devices \cup {m}
          /\ Put(devices, m, row)[m] = row
          /\ \A n \in DOMAIN devices \ {m} : Put(devices, m, row)[n] = devices[n]
      BY <1>0, <3>1, PutFacts, Zenon
    <3> QED BY <2>3, <3>2
  <2>5. CanServe /\ UNCHANGED <<server, next_id, dirty, saver, csv, torn, granted>>
    BY <1>3 DEF HeartbeatDevice
  <2> HIDE DEF row
  <2> QED BY <2>1, <2>2, <2>4, <2>5 DEF RouteOf
<1> QED BY <1>1, <1>2, <1>3 DEF Routes

-----------------------------------------------------------------------------
(* Safety across crashes, deletions and failed saves. *)

LEMMA RegistryInvInit == Init => RegistryInv
BY NoRowsFacts DEF Init, RegistryInv, Serving, IdsUnique, WritingInv, LiveIdsUnique,
   FileIdsReserved, CleanMeansSaved

\* A request of a robot: the table gains at most the counter's id, which no
\* other row of the table and no row of the file has.
LEMMA RegistryInvRoutes ==
  ASSUME TypeOK, RegistryInv, NEW m \in Macs, RouteOf(m)
  PROVE  RegistryInv'
<1> USE DEF RegistryInv
<1>1. /\ Serving /\ Serving' /\ saver = "none"
      /\ saver' = "none" /\ server' = server /\ csv' = csv /\ torn' = torn
      /\ DOMAIN devices' = DOMAIN devices \cup {m}
  BY DEF RouteOf, CanServe, Serving
<1>2. \A n \in DOMAIN devices : devices'[n].device_id = devices[n].device_id
  BY DEF RouteOf
<1>3. /\ m \in DOMAIN devices => next_id' = next_id
      /\ m \notin DOMAIN devices => devices'[m].device_id = next_id /\ next_id' = next_id + 1
  BY DEF RouteOf
<1>4. next_id \in Int /\ \A n \in DOMAIN devices : devices[n].device_id \in Int
  BY IdRange, MaxIdAssumption DEF TypeOK
<1>5. \A n \in DOMAIN csv : csv[n].device_id \in Int
  BY IdRange, MaxIdAssumption DEF TypeOK
<1>6. \A n \in DOMAIN devices' : devices'[n].device_id < next_id'
  BY <1>1, <1>2, <1>3, <1>4
<1>7. \A n \in DOMAIN csv' : csv'[n].device_id < next_id'
  BY <1>1, <1>3, <1>4, <1>5
<1>8. LiveIdsUnique'
  BY <1>1, <1>2, <1>3, <1>4 DEF LiveIdsUnique
<1>9. FileIdsReserved'
  BY <1>1, <1>2, <1>3, <1>4, <1>5 DEF FileIdsReserved
<1>10. CleanMeansSaved'
  <2> SUFFICES ASSUME ~dirty'
               PROVE  SameAssignments(devices, csv)' /\ ~torn'
    BY DEF CleanMeansSaved
  <2>1. /\ ~dirty /\ m \in DOMAIN devices
        /\ \A n \in DOMAIN devices : devices'[n].team_id = devices[n].team_id
    BY DEF RouteOf
  <2> QED BY <1>1, <1>2, <2>1 DEF CleanMeansSaved, SameAssignments
<1>11. IdsUnique(csv)'
  BY <1>1 DEF IdsUnique
<1>12. WritingInv'
  BY <1>1 DEF WritingInv
<1>13. (server = "down" => saver = "none")'
  BY <1>1
<1> QED BY <1>6, <1>7, <1>8, <1>9, <1>10, <1>11, <1>12, <1>13

\* One row more in the file, a copy of the table's.
LEMMA SaveRowEffect ==
  ASSUME TypeOK, SaveRow
  PROVE  \E m \in DOMAIN devices :
           /\ DOMAIN csv' = DOMAIN csv \cup {m}
           /\ csv'[m] = devices[m]
           /\ \A n \in DOMAIN csv \ {m} : csv'[n] = csv[n]
<1>1. PICK m \in Unwritten : csv' = Put(csv, m, devices[m])
  BY DEF SaveRow
<1>2. devices \in Registry /\ csv \in Registry
  BY DEF TypeOK
<1>3. m \in DOMAIN devices /\ m \in Macs /\ devices[m] \in Row
  BY <1>2, IdRange DEF Unwritten
<1>4. /\ DOMAIN Put(csv, m, devices[m]) = DOMAIN csv \cup {m}
      /\ Put(csv, m, devices[m])[m] = devices[m]
      /\ \A n \in DOMAIN csv \ {m} : Put(csv, m, devices[m])[n] = csv[n]
  <2> DEFINE row == devices[m]
  <2>1. row \in Row /\ m \in Macs /\ csv \in Registry
    BY <1>2, <1>3
  <2> HIDE DEF row
  <2>2. /\ DOMAIN Put(csv, m, row) = DOMAIN csv \cup {m}
        /\ Put(csv, m, row)[m] = row
        /\ \A n \in DOMAIN csv \ {m} : Put(csv, m, row)[n] = csv[n]
    BY <2>1, PutFacts, Zenon
  <2> QED BY <2>2 DEF row
<1> QED BY <1>1, <1>3, <1>4

\* The steps of save_csv: the file only ever gains rows of the table.
LEMMA RegistryInvSave ==
  ASSUME TypeOK, RegistryInv,
         (\E who \in {"thread", "main"} : SaveBegin(who)) \/ SaveRow \/ SaveEnd \/ SaveFails
  PROVE  RegistryInv'
<1> USE DEF RegistryInv
<1>1. ASSUME NEW who \in {"thread", "main"}, SaveBegin(who)
      PROVE  RegistryInv'
  <2>1. /\ csv' = NoRows /\ torn' = FALSE /\ saver' = who /\ dirty
        /\ UNCHANGED <<server, devices, next_id, dirty>> /\ Serving /\ Serving'
    BY <1>1 DEF SaveBegin, MaySave, Serving
  <2>2. DOMAIN csv' = {}
    BY <2>1, NoRowsFacts
  <2> QED BY <2>1, <2>2 DEF IdsUnique, WritingInv, LiveIdsUnique, FileIdsReserved,
                            CleanMeansSaved, Serving
<1>2. CASE SaveRow
  <2>1. PICK m \in DOMAIN devices :
          /\ DOMAIN csv' = DOMAIN csv \cup {m}
          /\ csv'[m] = devices[m]
          /\ \A n \in DOMAIN csv \ {m} : csv'[n] = csv[n]
    BY <1>2, SaveRowEffect
  <2>2. saver # "none" /\ UNCHANGED <<server, devices, next_id, dirty, saver, torn>>
    BY <1>2 DEF SaveRow
  <2>5. /\ DOMAIN csv' \subseteq DOMAIN devices
        /\ \A n \in DOMAIN csv' : csv'[n] = devices[n]
    BY <2>1, <2>2 DEF WritingInv
  <2>6. Serving /\ Serving' /\ dirty /\ ~torn
    BY <2>2 DEF WritingInv, Serving
  <2>7. WritingInv'
    BY <2>2, <2>5, <2>6 DEF WritingInv
  <2>8. IdsUnique(csv)' /\ FileIdsReserved' /\ LiveIdsUnique'
    BY <2>2, <2>5 DEF IdsUnique, FileIdsReserved, LiveIdsUnique
  <2>9. \A n \in DOMAIN csv' : csv'[n].device_id < next_id'
    BY <2>2, <2>5, <2>6
  <2> QED BY <2>2, <2>6, <2>7, <2>8, <2>9 DEF CleanMeansSaved, WritingInv, Serving
<1>3. CASE SaveEnd
  <2>1. /\ saver # "none" /\ Unwritten = {} /\ saver' = "none"
        /\ UNCHANGED <<devices, next_id, csv, torn>>
    BY <1>3 DEF SaveEnd, Return
  <2>2. Serving /\ ~torn /\ DOMAIN csv = DOMAIN devices /\ \A m \in DOMAIN csv : csv[m] = devices[m]
    BY <2>1 DEF WritingInv, Unwritten
  <2>3. server' \in {server, "final"} /\ server' # "down"
    BY <1>3, <2>2 DEF SaveEnd, Return, Serving
  <2>4. CleanMeansSaved'
    BY <2>1, <2>2 DEF CleanMeansSaved, SameAssignments
  <2> QED BY <2>1, <2>2, <2>3, <2>4 DEF IdsUnique, WritingInv, LiveIdsUnique, FileIdsReserved, Serving
<1>4. CASE SaveFails
  <2>1. saver # "none" /\ saver' = "none" /\ UNCHANGED <<devices, next_id, csv, dirty>>
    BY <1>4 DEF SaveFails, Return
  <2>2. Serving /\ dirty
    BY <2>1 DEF WritingInv
  <2>3. server' \in {server, "final"} /\ server' # "down"
    BY <1>4, <2>2 DEF SaveFails, Return, Serving
  <2>4. CleanMeansSaved'
    BY <2>1, <2>2 DEF CleanMeansSaved
  <2> QED BY <2>1, <2>2, <2>3, <2>4 DEF IdsUnique, WritingInv, LiveIdsUnique, FileIdsReserved, Serving
<1> QED BY <1>1, <1>2, <1>3, <1>4

\* The other steps either shrink the table, or load it from the file, or lose
\* the process and keep the file.
LEMMA RegistryInvStep ==
  ASSUME TypeOK, RegistryInv, [Next]_vars
  PROVE  RegistryInv'
<1> USE DEF RegistryInv
<1>1. CASE Start
  <2>1. /\ devices' = csv /\ csv' = csv /\ saver' = saver /\ server' = "up" /\ torn' = torn
        /\ ~torn /\ saver = "none"
        /\ \A i \in Ids(csv) : i < next_id'
    BY <1>1 DEF Start, IsNextId
  <2>2. \A m \in DOMAIN csv : csv[m].device_id < next_id'
    BY <2>1 DEF Ids
  <2>3. Serving' /\ LiveIdsUnique' /\ IdsUnique(csv)' /\ FileIdsReserved'
    BY <2>1 DEF Serving, LiveIdsUnique, IdsUnique, FileIdsReserved
  <2>4. CleanMeansSaved' /\ WritingInv'
    BY <2>1 DEF CleanMeansSaved, SameAssignments, WritingInv
  <2> QED BY <2>1, <2>2, <2>3, <2>4
<1>2. CASE StartFails
  BY <1>2 DEF StartFails, vars, Serving, IdsUnique, WritingInv, LiveIdsUnique,
     FileIdsReserved, CleanMeansSaved, SameAssignments
<1>3. CASE Routes
  BY <1>3, RouteEffect, RegistryInvRoutes
<1>4. ASSUME NEW m \in Macs, RemoveDevice(m)
      PROVE  RegistryInv'
  <2>1. /\ saver = "none" /\ dirty' = TRUE /\ Serving
        /\ UNCHANGED <<server, next_id, saver, csv, torn>>
        /\ devices' = Restrict(devices, DOMAIN devices \ {m})
    BY <1>4 DEF RemoveDevice, CanServe
  <2>2. /\ DOMAIN devices' = DOMAIN devices \ {m}
        /\ \A n \in DOMAIN devices' : devices'[n] = devices[n]
    BY <2>1, RestrictFacts DEF TypeOK
  <2>3. LiveIdsUnique'
    BY <2>2 DEF LiveIdsUnique
  <2>4. FileIdsReserved'
    BY <2>1, <2>2 DEF FileIdsReserved
  <2>5. IdsUnique(csv)'
    BY <2>1 DEF IdsUnique
  <2> QED BY <2>1, <2>2, <2>3, <2>4, <2>5 DEF WritingInv, CleanMeansSaved, Serving
<1>5. CASE (\E who \in {"thread", "main"} : SaveBegin(who)) \/ SaveRow \/ SaveEnd \/ SaveFails
  BY <1>5, RegistryInvSave
<1>6. CASE Stop \/ SkipFinalSave \/ \E who \in {"thread", "main"} : OpenFails(who)
  <2>1. /\ UNCHANGED <<devices, next_id, dirty, saver, csv, torn>>
        /\ Serving /\ Serving' /\ server' # "down"
    BY <1>6 DEF Stop, SkipFinalSave, OpenFails, MaySave, Serving
  <2> QED BY <2>1 DEF IdsUnique, WritingInv, LiveIdsUnique, FileIdsReserved,
                      CleanMeansSaved, SameAssignments
<1>7. CASE Exit \/ Crash
  <2>1. server' = "down" /\ devices' = NoRows /\ saver' = "none" /\ csv' = csv
    BY <1>7 DEF Exit, Crash, Die
  <2>2. ~Serving'
    BY <2>1 DEF Serving
  <2>3. DOMAIN devices' = {}
    BY <2>1, NoRowsFacts
  <2> QED BY <2>1, <2>2, <2>3 DEF IdsUnique, WritingInv, LiveIdsUnique, FileIdsReserved,
                                  CleanMeansSaved
<1>8. CASE UNCHANGED vars
  BY <1>8 DEF vars, Serving, IdsUnique, WritingInv, LiveIdsUnique, FileIdsReserved,
     CleanMeansSaved, SameAssignments
<1> QED BY <1>1, <1>2, <1>3, <1>4, <1>5, <1>6, <1>7, <1>8 DEF Next

\* RegistryInv holds in every reachable state.
THEOREM RegistryCorrect == Spec => []RegistryInv
<1>1. TypeOK /\ RegistryInv /\ [Next]_vars => RegistryInv'
  BY RegistryInvStep
<1> QED BY <1>1, RegistryInvInit, TypeCorrect, PTL DEF Spec

\* No two robots of the table ever share an id, through any sequence of
\* requests, deletions, failed or interrupted saves, crashes and restarts.
THEOREM LiveIdsUniqueAlways == Spec => []LiveIdsUnique
<1>1. RegistryInv => LiveIdsUnique
  BY DEF RegistryInv
<1> QED BY <1>1, RegistryCorrect, PTL

\* No id of the file is ever given to another robot while the server lives.
THEOREM FileIdsReservedAlways == Spec => []FileIdsReserved
<1>1. RegistryInv => FileIdsReserved
  BY DEF RegistryInv
<1> QED BY <1>1, RegistryCorrect, PTL

\* A clear dirty flag always means that the ids and teams are on disk.
THEOREM CleanMeansSavedAlways == Spec => []CleanMeansSaved
<1>1. RegistryInv => CleanMeansSaved
  BY DEF RegistryInv
<1> QED BY <1>1, RegistryCorrect, PTL

-----------------------------------------------------------------------------
(* The well-run server. *)

\* A well-run server is a server: every step it takes is one of Next's.
LEMMA StableIsSpec == StableSpec => Spec
<1>1. [StableNext]_vars => [Next]_vars
  BY DEF StableNext, Next
<1> QED BY <1>1, PTL DEF StableSpec, Spec

LEMMA GrantsInvStep ==
  ASSUME TypeOK, TypeOK', RegistryInv, RegistryInv', GrantsInv, [StableNext]_vars
  PROVE  GrantsInv'
<1>0. /\ saver = "main" => server = "stopping"
      /\ server = "final" => saver = "none" /\ ~dirty
      /\ ~torn
  BY DEF GrantsInv
<1>1. CASE Start
  <2>1. /\ ~Serving /\ Serving' /\ devices' = csv /\ granted' = granted /\ saver' = saver
        /\ saver = "none" /\ torn' = torn /\ server' = "up"
    BY <1>1 DEF Start, Serving, RegistryInv
  <2> QED BY <2>1, <1>0 DEF GrantsInv
<1>2. CASE server = "up" /\ Routes
  <2>1. PICK m \in Macs : RouteOf(m)
    BY <1>2, RouteEffect
  <2>2. /\ Serving /\ Serving' /\ saver' = "none" /\ server' = "up" /\ torn' = torn
        /\ DOMAIN devices' = DOMAIN devices \cup {m}
        /\ \A n \in DOMAIN devices : devices'[n].device_id = devices[n].device_id
        /\ granted' \subseteq granted \cup {<<m, devices'[m].device_id>>}
    BY <1>2, <2>1 DEF RouteOf, CanServe, Serving
  <2>3. \A g \in granted : g[1] \in DOMAIN devices /\ devices[g[1]].device_id = g[2]
    BY <2>2 DEF GrantsInv
  <2>4. \A g \in granted' : g[1] \in DOMAIN devices' /\ devices'[g[1]].device_id = g[2]
    BY <2>2, <2>3
  <2> QED BY <2>2, <2>4, <1>0 DEF GrantsInv
<1>3. CASE (server = "up" /\ SaveBegin("thread")) \/ SaveBegin("main") \/ SaveRow
  <2>1. /\ UNCHANGED <<server, devices, granted>>
        /\ Serving /\ Serving'
        /\ ~torn'
        /\ saver' = "main" => server' = "stopping"
        /\ server' = "final" => saver' = "none" /\ ~dirty'
    BY <1>0, <1>3 DEF SaveBegin, SaveRow, MaySave, Serving, RegistryInv, WritingInv
  <2> QED BY <2>1 DEF GrantsInv
<1>4. CASE SaveEnd
  <2>1. /\ UNCHANGED <<devices, granted, torn>>
        /\ saver # "none" /\ saver' = "none" /\ dirty' = FALSE
        /\ Serving /\ server' \in {server, "final"}
    BY <1>4 DEF SaveEnd, Return, RegistryInv, WritingInv
  <2>2. Serving'
    BY <2>1 DEF Serving
  <2> QED BY <2>1, <2>2, <1>0 DEF GrantsInv
<1>5. CASE Stop \/ SkipFinalSave
  <2>1. /\ UNCHANGED <<devices, granted, torn, saver, dirty>>
        /\ Serving /\ Serving'
        /\ \/ server' = "stopping" /\ server = "up"
           \/ server' = "final" /\ saver = "none" /\ ~dirty
    BY <1>5 DEF Stop, SkipFinalSave, Serving
  <2> QED BY <2>1, <1>0 DEF GrantsInv
<1>6. CASE Exit
  <2>1. /\ server = "final" /\ saver = "none" /\ ~dirty /\ Serving
        /\ server' = "down" /\ saver' = "none" /\ UNCHANGED <<csv, granted>> /\ torn' = torn
    BY <1>6, <1>0 DEF Exit, Die, Serving
  <2>2. DOMAIN devices = DOMAIN csv /\ \A m \in DOMAIN devices : devices[m].device_id = csv[m].device_id
    BY <2>1 DEF RegistryInv, CleanMeansSaved, SameAssignments
  <2>3. ~Serving'
    BY <2>1 DEF Serving
  <2> QED BY <2>1, <2>2, <2>3, <1>0 DEF GrantsInv
<1>7. CASE UNCHANGED vars
  BY <1>7 DEF vars, GrantsInv, Serving
<1> QED BY <1>1, <1>2, <1>3, <1>4, <1>5, <1>6, <1>7 DEF StableNext

\* A well-run server has a row for every id it ever gave out: in its table
\* while it is there, in its file while it is not.
THEOREM GrantsCorrect == StableSpec => []GrantsInv
<1>1. Init => GrantsInv
  BY DEF Init, GrantsInv
<1>2. TypeOK /\ TypeOK' /\ RegistryInv /\ RegistryInv' /\ GrantsInv /\ [StableNext]_vars => GrantsInv'
  BY GrantsInvStep
<1> QED BY <1>1, <1>2, TypeCorrect, RegistryCorrect, StableIsSpec, PTL DEF StableSpec

\* A well-run server gives each robot one id for ever and each id to one robot
\* for ever: its grants are the rows it has, and those have unique ids.
THEOREM GrantsInjectiveAlways == StableSpec => []GrantsInjective
<1>1. TypeOK /\ RegistryInv /\ GrantsInv => GrantsInjective
  <2> SUFFICES ASSUME TypeOK, RegistryInv, GrantsInv, NEW g \in granted, NEW h \in granted
               PROVE  g[1] = h[1] <=> g[2] = h[2]
    BY DEF GrantsInjective
  <2> DEFINE reg == IF Serving THEN devices ELSE csv
  <2>1. /\ g[1] \in DOMAIN reg /\ reg[g[1]].device_id = g[2]
        /\ h[1] \in DOMAIN reg /\ reg[h[1]].device_id = h[2]
    BY DEF GrantsInv
  <2>2. \A m, n \in DOMAIN reg : reg[m].device_id = reg[n].device_id => m = n
    BY DEF RegistryInv, LiveIdsUnique, IdsUnique
  <2> HIDE DEF reg
  <2> QED BY <2>1, <2>2
<1> QED BY <1>1, GrantsCorrect, TypeCorrect, RegistryCorrect, StableIsSpec, PTL

-----------------------------------------------------------------------------
(* Rows and grants. *)

\* Every row, in the table or in the file, was granted to its robot.
RowsGranted ==
  /\ \A m \in DOMAIN devices : <<m, devices[m].device_id>> \in granted
  /\ \A m \in DOMAIN csv : <<m, csv[m].device_id>> \in granted

\* The server never makes up a row: deletions, half-written files and crashes
\* leave only ids it answered (dhcpid.py:44-80, 100-127).
THEOREM RowsGrantedAlways == Spec => []RowsGranted
<1>1. Init => RowsGranted
  BY NoRowsFacts DEF Init, RowsGranted
<1>2. TypeOK /\ RowsGranted /\ [Next]_vars => RowsGranted'
  <2> SUFFICES ASSUME TypeOK, RowsGranted, [Next]_vars
               PROVE  RowsGranted'
    OBVIOUS
  <2> USE DEF RowsGranted
  <2>1. CASE Routes
    <3>1. PICK m \in Macs : RouteOf(m)
      BY <2>1, RouteEffect
    <3>2. \A n \in DOMAIN devices' : <<n, devices'[n].device_id>> \in granted'
      BY <3>1 DEF RouteOf
    <3> QED BY <3>1, <3>2 DEF RouteOf
  <2>2. ASSUME NEW m \in Macs, RemoveDevice(m)
        PROVE  RowsGranted'
    <3>1. /\ DOMAIN devices' = DOMAIN devices \ {m}
          /\ \A n \in DOMAIN devices' : devices'[n] = devices[n]
      BY <2>2, RestrictFacts DEF RemoveDevice, TypeOK
    <3> QED BY <2>2, <3>1 DEF RemoveDevice
  <2>3. CASE SaveRow
    <3>1. PICK m \in DOMAIN devices :
            /\ DOMAIN csv' = DOMAIN csv \cup {m}
            /\ csv'[m] = devices[m]
            /\ \A n \in DOMAIN csv \ {m} : csv'[n] = csv[n]
      BY <2>3, SaveRowEffect
    <3> QED BY <2>3, <3>1 DEF SaveRow
  <2>4. ASSUME NEW who \in {"thread", "main"}, SaveBegin(who)
        PROVE  RowsGranted'
    BY <2>4, NoRowsFacts DEF SaveBegin
  <2>5. CASE Exit \/ Crash
    BY <2>5, NoRowsFacts DEF Exit, Crash, Die
  <2>6. CASE Start
    BY <2>6 DEF Start
  <2>7. UNCHANGED <<devices, csv, granted>> => RowsGranted'
    OBVIOUS
  <2>8. CASE SaveEnd \/ SaveFails \/ Stop \/ SkipFinalSave \/ StartFails \/ UNCHANGED vars
             \/ \E who \in {"thread", "main"} : OpenFails(who)
    BY <2>7, <2>8 DEF SaveEnd, SaveFails, Stop, SkipFinalSave, StartFails, OpenFails, vars
  <2> QED BY <2>1, <2>2, <2>3, <2>4, <2>5, <2>6, <2>8 DEF Next
<1> QED BY <1>1, <1>2, TypeCorrect, PTL DEF Spec

-----------------------------------------------------------------------------
(* The robots and the registry together. *)

\* An id a robot holds or is being sent was granted to it.
HeldInv ==
  \A m \in Macs :
    /\ bot_id[m] > 0 => <<m, bot_id[m]>> \in granted
    /\ answer[m] > 0 => <<m, answer[m]>> \in granted

-----------------------------------------------------------------------------
(* Steps of the composition are steps of the server. *)

LEMMA ExecuteIdIsRoute ==
  ASSUME NEW m \in Macs, ExecuteId(m)
  PROVE  Routes
<1>1. TeamOf[m] \in Teams
  BY TeamOfAssumption
<1> QED BY <1>1 DEF ExecuteId, Routes

LEMMA ServedIsRoute == Served => Routes \/ UNCHANGED vars
<1> SUFFICES ASSUME NEW m \in Macs, ServeId(m) \/ ServeLateId(m) \/ ServeHeartbeat(m)
             PROVE  Routes \/ UNCHANGED vars
  BY DEF Served
<1>1. CASE ServeId(m) \/ ServeLateId(m)
  BY <1>1, ExecuteIdIsRoute DEF ServeId, ServeLateId
<1>2. CASE ServeHeartbeat(m)
  <2>1. ASSUME NEW now \in Times, HeartbeatDevice(m, bot_id[m], now)
        PROVE  Routes
    <3>1. bot_id[m] \in Ids(devices)
      BY <2>1 DEF HeartbeatDevice, Ids
    <3> QED BY <2>1, <3>1 DEF Routes
  <2> QED BY <1>2, <2>1 DEF ServeHeartbeat
<1> QED BY <1>1, <1>2

LEMMA BotsLeaveServer == Bots \/ (\E m \in Macs : AnswerBodyLost(m)) => UNCHANGED vars
BY DEF Bots, AskId, LearnId, AskIdFails, SendHeartbeat, HeartbeatDone, PowerOff, AnswerBodyLost

LEMMA ProvIsSpec == ProvSpec => Spec
<1>1. ProvInit => Init
  BY DEF ProvInit
<1>2. [ProvNext]_provVars => [Next]_vars
  BY ServedIsRoute, BotsLeaveServer DEF ProvNext, Persistence, Next, provVars
<1> QED BY <1>1, <1>2, PTL DEF ProvSpec, Spec

LEMMA ProvStableIsStable == ProvStableSpec => StableSpec
<1>1. ProvInit => Init
  BY DEF ProvInit
<1>2. [ProvStableNext]_provVars => [StableNext]_vars
  BY ServedIsRoute, BotsLeaveServer DEF ProvStableNext, StableNext, provVars
<1> QED BY <1>1, <1>2, PTL DEF ProvStableSpec, StableSpec

LEMMA ProvStableIsProv == ProvStableSpec => ProvSpec
<1>1. [ProvStableNext]_provVars => [ProvNext]_provVars
  BY DEF ProvStableNext, ProvNext, Persistence
<1> QED BY <1>1, PTL DEF ProvStableSpec, ProvSpec

-----------------------------------------------------------------------------
(* What a robot holds. *)

\* The id in the table after GET /id was granted and is in range.
LEMMA ExecuteIdAnswers ==
  ASSUME TypeOK', RowsGranted', NEW m \in Macs, ExecuteId(m)
  PROVE  /\ devices'[m].device_id \in 1 .. MaxId
         /\ <<m, devices'[m].device_id>> \in granted'
<1>1. m \in DOMAIN devices'
  BY DEF ExecuteId, AssignKnown, AssignNew, Put
<1>2. devices' \in Registry
  BY DEF TypeOK
<1> QED BY <1>1, <1>2, IdRange DEF RowsGranted

LEMMA GrantsStay ==
  ASSUME TypeOK, [Next]_vars
  PROVE  granted \subseteq granted'
<1>1. CASE Routes
  BY <1>1, RouteEffect DEF RouteOf
<1> QED BY <1>1 DEF Next, vars, Start, StartFails, RemoveDevice, SaveBegin, OpenFails, SaveRow, SaveEnd,
            SaveFails, Stop, SkipFinalSave, Exit, Crash, Die

ProvInv == BotTypeOK /\ HeldInv

\* A step of a robot that ends its call, with the id it then has.
LEMMA CallEnds ==
  ASSUME ProvInv, UNCHANGED vars, NEW m \in Macs, Hangup(m),
         NEW i \in -1 .. MaxId, i > 0 => <<m, i>> \in granted,
         bot_id' = [bot_id EXCEPT ![m] = i],
         NEW p \in {"off", "delay"}, task' = [task EXCEPT ![m] = p]
  PROVE  ProvInv'
<1> USE DEF ProvInv, BotTypeOK
<1>1. TypeOK'
  BY DEF TypeOK, vars
<1>2. /\ task' \in [Macs -> {"off", "delay", "id", "heartbeat"}]
      /\ call' \in [Macs -> {"none", "sent", "answered"}]
      /\ bot_id' \in [Macs -> -1 .. MaxId]
  BY DEF Hangup
<1>3. answer' \in [Macs -> 0 .. MaxId] /\ late' \subseteq Macs
  BY MaxIdAssumption DEF Hangup
<1>4. granted' = granted
  BY DEF vars
<1>5. HeldInv'
  BY <1>4 DEF HeldInv, Hangup
<1> QED BY <1>1, <1>2, <1>3, <1>5

LEMMA BotsKeepProvInv ==
  ASSUME ProvInv, Bots \/ \E m \in Macs : AnswerBodyLost(m)
  PROVE  ProvInv'
<1> USE MaxIdAssumption
<1>0. UNCHANGED vars
  BY BotsLeaveServer
<1>1. PICK m \in Macs :
        \/ AskId(m) \/ LearnId(m) \/ AskIdFails(m) \/ AnswerBodyLost(m)
        \/ SendHeartbeat(m) \/ HeartbeatDone(m) \/ PowerOff(m)
  BY DEF Bots
<1>2. CASE AskId(m) \/ SendHeartbeat(m)
  <2>1. TypeOK' /\ granted' = granted
    BY <1>0 DEF ProvInv, BotTypeOK, TypeOK, vars
  <2>2. UNCHANGED <<bot_id, answer, late>>
    BY <1>2 DEF AskId, SendHeartbeat
  <2>3. /\ task' \in [Macs -> {"off", "delay", "id", "heartbeat"}]
        /\ call' \in [Macs -> {"none", "sent", "answered"}]
    BY <1>2 DEF AskId, SendHeartbeat, ProvInv, BotTypeOK
  <2> QED BY <2>1, <2>2, <2>3 DEF ProvInv, BotTypeOK, HeldInv
<1>3. CASE LearnId(m)
  <2>1. answer[m] > 0 => <<m, answer[m]>> \in granted
    BY DEF ProvInv, HeldInv
  <2>2. answer[m] \in 0 .. MaxId
    BY DEF ProvInv, BotTypeOK
  <2>3. answer[m] \in -1 .. MaxId
    BY <2>2
  <2> QED BY <1>0, <1>3, <2>1, <2>3, CallEnds DEF LearnId
<1>4. CASE AskIdFails(m)
  <2>1. -1 \in -1 .. MaxId /\ ~(-1 > 0)
    OBVIOUS
  <2> QED BY <1>0, <1>4, <2>1, CallEnds DEF AskIdFails
<1>5. CASE AnswerBodyLost(m)
  <2>1. 0 \in -1 .. MaxId /\ ~(0 > 0)
    OBVIOUS
  <2> QED BY <1>0, <1>5, <2>1, CallEnds DEF AnswerBodyLost
<1>6. CASE HeartbeatDone(m)
  <2>1. bot_id[m] > 0 => <<m, bot_id[m]>> \in granted
    BY DEF ProvInv, HeldInv
  <2>2. bot_id[m] \in -1 .. MaxId
    BY DEF ProvInv, BotTypeOK
  <2>3. bot_id' = [bot_id EXCEPT ![m] = bot_id[m]]
    BY <1>6 DEF HeartbeatDone, ProvInv, BotTypeOK
  <2> QED BY <1>0, <1>6, <2>1, <2>2, <2>3, CallEnds DEF HeartbeatDone
<1>7. CASE PowerOff(m)
  <2>1. 0 \in -1 .. MaxId /\ ~(0 > 0)
    OBVIOUS
  <2> QED BY <1>0, <1>7, <2>1, CallEnds DEF PowerOff
<1> QED BY <1>1, <1>2, <1>3, <1>4, <1>5, <1>6, <1>7

LEMMA ServedKeepsProvInv ==
  ASSUME ProvInv, TypeOK', RowsGranted', Served
  PROVE  ProvInv'
<1> USE DEF ProvInv, BotTypeOK
<1>0. granted \subseteq granted'
  <2>1. [Next]_vars
    BY ServedIsRoute DEF Next
  <2> QED BY <2>1, GrantsStay
<1>1. PICK m \in Macs : ServeId(m) \/ ServeLateId(m) \/ ServeHeartbeat(m)
  BY DEF Served
<1>2. CASE ServeId(m)
  <2> DEFINE i == devices'[m].device_id
  <2>1. i \in 1 .. MaxId /\ <<m, i>> \in granted'
    BY <1>2, ExecuteIdAnswers DEF ServeId
  <2>2. answer' = [answer EXCEPT ![m] = i] /\ UNCHANGED <<task, bot_id, late>>
    BY <1>2 DEF ServeId
  <2>3. call' \in [Macs -> {"none", "sent", "answered"}]
    BY <1>2 DEF ServeId
  <2> HIDE DEF i
  <2>4. answer' \in [Macs -> 0 .. MaxId]
    BY <2>1, <2>2, MaxIdAssumption
  <2>5. HeldInv'
    BY <1>0, <2>1, <2>2 DEF HeldInv
  <2> QED BY <2>2, <2>3, <2>4, <2>5
<1>3. CASE ServeLateId(m)
  BY <1>0, <1>3 DEF ServeLateId, HeldInv
<1>4. CASE ServeHeartbeat(m)
  BY <1>0, <1>4 DEF ServeHeartbeat, HeldInv
<1> QED BY <1>1, <1>2, <1>3, <1>4

\* Whatever robots, network and server do - crashes, deletions and lost bodies
\* included - the types hold and a robot only holds an id that was granted to
\* it (gid.cpp:33-42, dhcpid.py:44-80).
THEOREM ProvisioningCorrect == ProvSpec => []ProvInv
<1>1. ProvInit /\ TypeOK => ProvInv
  BY MaxIdAssumption DEF ProvInit, ProvInv, BotTypeOK, HeldInv
<1>2. ProvInv /\ TypeOK' /\ RowsGranted' /\ [ProvNext]_provVars => ProvInv'
  <2> SUFFICES ASSUME ProvInv, TypeOK', RowsGranted', [ProvNext]_provVars
               PROVE  ProvInv'
    OBVIOUS
  <2>1. CASE Bots \/ \E m \in Macs : AnswerBodyLost(m)
    BY <2>1, BotsKeepProvInv
  <2>2. CASE Served
    BY <2>2, ServedKeepsProvInv
  <2>3. ASSUME UNCHANGED botVars, [Next]_vars
        PROVE  ProvInv'
    <3>1. granted \subseteq granted'
      BY <2>3, GrantsStay DEF ProvInv, BotTypeOK
    <3> QED BY <2>3, <3>1 DEF botVars, ProvInv, BotTypeOK, HeldInv
  <2> QED BY <2>1, <2>2, <2>3 DEF ProvNext, Persistence, Next, provVars
<1> QED BY <1>1, <1>2, ProvIsSpec, TypeCorrect, RowsGrantedAlways, PTL DEF ProvSpec

-----------------------------------------------------------------------------
(* With a well-run server. *)

\* README.md:107: no two robots run with the same id at the same time.
THEOREM NoSharedIdAlways == ProvStableSpec => []NoSharedId
<1>1. ProvInv /\ GrantsInjective => NoSharedId
  <2> SUFFICES ASSUME ProvInv, GrantsInjective, NEW m \in Macs, NEW n \in Macs,
                      bot_id[m] > 0, bot_id[m] = bot_id[n]
               PROVE  m = n
    BY DEF NoSharedId
  <2>1. <<m, bot_id[m]>> \in granted /\ <<n, bot_id[n]>> \in granted
    BY DEF ProvInv, HeldInv
  <2> QED BY <2>1 DEF GrantsInjective
<1> QED BY <1>1, ProvisioningCorrect, GrantsInjectiveAlways, ProvStableIsProv, ProvStableIsStable, PTL

\* A heartbeat is never rejected: while the server serves, its table has every
\* running robot under the id the robot runs with (dhcpid.py:259-266).
THEOREM HeldIdIsKnownAlways == ProvStableSpec => []HeldIdIsKnown
<1>1. ProvInv /\ GrantsInv => HeldIdIsKnown
  <2> SUFFICES ASSUME ProvInv, GrantsInv, server = "up", NEW m \in Macs, bot_id[m] > 0
               PROVE  Known(m)
    BY DEF HeldIdIsKnown
  <2>1. <<m, bot_id[m]>> \in granted
    BY DEF ProvInv, HeldInv
  <2> QED BY <2>1 DEF GrantsInv, Known, Serving
<1> QED BY <1>1, ProvisioningCorrect, GrantsCorrect, ProvStableIsProv, ProvStableIsStable, PTL

-----------------------------------------------------------------------------
(* The refinement of IdAuthority. *)

HeldIds == [m \in Macs |-> IF bot_id[m] > 0 THEN bot_id[m] ELSE 0]

\* A robot whose DEVICE_ID becomes i learns i or forgets what it had.
LEMMA NewIdStep ==
  ASSUME NEW m \in Macs, BotTypeOK, UNCHANGED granted, NEW i \in -1 .. MaxId,
         bot_id' = [bot_id EXCEPT ![m] = i], i > 0 => <<m, i>> \in granted
  PROVE  Authority!Next
<1>1. \A n \in Macs : bot_id'[n] = IF n = m THEN i ELSE bot_id[n]
  BY DEF BotTypeOK
<1>2. HeldIds' = [HeldIds EXCEPT ![m] = IF i > 0 THEN i ELSE 0]
  BY <1>1 DEF HeldIds
<1>3. CASE i > 0
  <2>1. Authority!Learn(m, i)
    BY <1>2, <1>3 DEF Authority!Learn, HeldIds
  <2> QED BY <1>3, <2>1, MaxIdAssumption DEF Authority!Next
<1>4. CASE ~(i > 0)
  <2>1. Authority!Forget(m)
    BY <1>2, <1>4 DEF Authority!Forget, HeldIds
  <2> QED BY <2>1 DEF Authority!Next
<1> QED BY <1>3, <1>4

\* A request of a robot decides the robot's number or nothing: a new id is
\* above every id of the table, which has all the grants.
LEMMA RouteStep ==
  ASSUME TypeOK, RegistryInv, GrantsInv, RowsGranted, Routes, UNCHANGED bot_id
  PROVE  Authority!Next \/ UNCHANGED <<granted, HeldIds>>
<1>1. PICK m \in Macs : RouteOf(m)
  BY RouteEffect
<1>2. UNCHANGED HeldIds
  BY DEF HeldIds
<1>3. Serving
  BY <1>1 DEF RouteOf, CanServe
<1>4. CASE m \in DOMAIN devices
  <2>1. devices'[m].device_id = devices[m].device_id
    BY <1>1, <1>4 DEF RouteOf
  <2>2. <<m, devices[m].device_id>> \in granted
    BY <1>4 DEF RowsGranted
  <2> QED BY <1>1, <1>2, <2>1, <2>2 DEF RouteOf
<1>5. CASE m \notin DOMAIN devices
  <2>1. /\ next_id <= MaxId /\ devices'[m].device_id = next_id
        /\ granted' = granted \cup {<<m, next_id>>}
    BY <1>1, <1>5 DEF RouteOf
  <2>2. next_id \in 1 .. MaxId
    BY <2>1, MaxIdAssumption DEF TypeOK
  <2>3. ASSUME NEW g \in granted
        PROVE  g[1] # m /\ g[2] # next_id
    <3>1. g[1] \in DOMAIN devices /\ devices[g[1]].device_id = g[2]
      BY <1>3 DEF GrantsInv
    <3>2. devices[g[1]].device_id < next_id
      BY <1>3, <3>1 DEF RegistryInv
    <3>3. devices[g[1]].device_id \in 1 .. MaxId
      BY <3>1, IdRange DEF TypeOK
    <3> QED BY <1>5, <2>2, <3>1, <3>2, <3>3
  <2>4. Authority!Assign(m, next_id)
    BY <1>2, <2>1, <2>3 DEF Authority!Assign, HeldIds
  <2> QED BY <2>2, <2>4 DEF Authority!Next
<1> QED BY <1>4, <1>5

LEMMA StepRefines ==
  ASSUME ProvInv, RegistryInv, GrantsInv, RowsGranted, [ProvStableNext]_provVars
  PROVE  Authority!Next \/ UNCHANGED <<granted, HeldIds>>
<1> USE MaxIdAssumption
<1>0. BotTypeOK /\ TypeOK
  BY DEF ProvInv, BotTypeOK
<1>1. CASE Bots
  <2>1. UNCHANGED granted
    BY <1>1, BotsLeaveServer DEF vars
  <2>2. PICK m \in Macs :
          \/ LearnId(m) \/ AskIdFails(m) \/ PowerOff(m)
          \/ AskId(m) \/ SendHeartbeat(m) \/ HeartbeatDone(m)
    BY <1>1 DEF Bots
  <2>3. CASE LearnId(m)
    <3>1. answer[m] \in 0 .. MaxId /\ (answer[m] > 0 => <<m, answer[m]>> \in granted)
      BY <1>0 DEF ProvInv, BotTypeOK, HeldInv
    <3>2. answer[m] \in -1 .. MaxId
      BY <3>1
    <3> QED BY <1>0, <2>1, <2>3, <3>1, <3>2, NewIdStep DEF LearnId
  <2>4. CASE AskIdFails(m)
    <3>1. -1 \in -1 .. MaxId /\ ~(-1 > 0)
      OBVIOUS
    <3> QED BY <1>0, <2>1, <2>4, <3>1, NewIdStep DEF AskIdFails
  <2>5. CASE PowerOff(m)
    <3>1. 0 \in -1 .. MaxId /\ ~(0 > 0)
      OBVIOUS
    <3> QED BY <1>0, <2>1, <2>5, <3>1, NewIdStep DEF PowerOff
  <2>6. CASE AskId(m) \/ SendHeartbeat(m) \/ HeartbeatDone(m)
    BY <2>1, <2>6 DEF AskId, SendHeartbeat, HeartbeatDone, HeldIds
  <2> QED BY <2>2, <2>3, <2>4, <2>5, <2>6
<1>2. CASE Served
  <2>1. UNCHANGED bot_id
    BY <1>2 DEF Served, ServeId, ServeLateId, ServeHeartbeat
  <2>2. CASE Routes
    BY <1>0, <2>1, <2>2, RouteStep
  <2>3. CASE UNCHANGED vars
    BY <2>1, <2>3 DEF vars, HeldIds
  <2> QED BY <1>2, <2>2, <2>3, ServedIsRoute
<1>3. CASE /\ \/ Start \/ SaveBegin("thread") \/ SaveBegin("main")
              \/ SaveRow \/ SaveEnd \/ Stop \/ SkipFinalSave \/ Exit
           /\ UNCHANGED botVars
  <2>1. UNCHANGED granted
    BY <1>3 DEF Start, SaveBegin, SaveRow, SaveEnd, Stop, SkipFinalSave, Exit, Die
  <2> QED BY <1>3, <2>1 DEF botVars, HeldIds
<1>4. CASE UNCHANGED provVars
  BY <1>4 DEF provVars, vars, botVars, HeldIds
<1> QED BY <1>1, <1>2, <1>3, <1>4 DEF ProvStableNext

\* Robots and a well-run server together implement IdAuthority: a number has
\* one owner for ever, and a robot holds its own number or none, through lost
\* and late requests, reboots of the robots and restarts of the server.
THEOREM AuthorityRefined == ProvStableSpec => RefinesAuthority
<1>1. ProvInit => Authority!Init
  BY DEF ProvInit, Init, Authority!Init
<1>2. ProvInv /\ RegistryInv /\ GrantsInv /\ RowsGranted /\ [ProvStableNext]_provVars
        => [Authority!Next]_(Authority!authorityVars)
  BY StepRefines DEF Authority!authorityVars, HeldIds
<1> QED BY <1>1, <1>2, ProvisioningCorrect, RegistryCorrect, GrantsCorrect, RowsGrantedAlways,
           ProvStableIsProv, ProvStableIsStable, StableIsSpec, PTL
           DEF ProvStableSpec, RefinesAuthority, Authority!Spec
=============================================================================
