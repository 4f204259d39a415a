------------------------------- MODULE DhcpId -------------------------------
(***************************************************************************)
(* The device-ID registry of the server (server/microservice/dhcpid.py):   *)
(* an in-memory table of robots keyed by MAC address, guarded by one lock, *)
(* and the CSV file a background thread, a route and the shutdown path     *)
(* rewrite in place.                                                       *)
(*                                                                         *)
(* Every route that changes the table holds the lock for its whole body,   *)
(* so it is one action; save_csv holds the lock too, but a crash may hit   *)
(* the file between any two of its writes, so it is a step per row.        *)
(***************************************************************************)
EXTENDS Integers, Functions

CONSTANTS
  Macs,     \* MAC addresses of the robots
  Teams,    \* team ids a robot may ask for
  Times,    \* time stamps, told apart only by equality
  MaxId     \* bound on the ids handed out (the code's counter is unbounded)

ASSUME MaxIdAssumption == MaxId \in Nat \ {0}

VARIABLES
  server,   \* "down", "up", "stopping" (HTTP loop left), "final" (last save done)
  devices,  \* _devices: MAC -> row, a dict
  next_id,  \* _next_id
  dirty,    \* _dirty
  saver,    \* who is inside save_csv with the lock: "none", "thread" or "main"
  csv,      \* the rows of the file, MAC -> row (no file = no rows)
  torn,     \* the file ends in half a row
  granted   \* history: <<mac, id>> for every id ever answered by GET /id

vars == <<server, devices, next_id, dirty, saver, csv, torn, granted>>

Row == [device_id : 1 .. MaxId, team_id : Teams, last_seen : Times]

\* A dict (or a file) keyed by MAC.
Registry == UNION {[S -> Row] : S \in SUBSET Macs}

NoRows == [m \in {} |-> 0]

Put(reg, m, row) ==
  [n \in DOMAIN reg \cup {m} |-> IF n = m THEN row ELSE reg[n]]

Ids(reg) == {reg[m].device_id : m \in DOMAIN reg}

Serving == server \in {"up", "stopping", "final"}

TypeOK ==
  /\ server \in {"down", "up", "stopping", "final"}
  /\ devices \in Registry
  /\ next_id \in 1 .. MaxId + 1
  /\ dirty \in BOOLEAN
  /\ saver \in {"none", "thread", "main"}
  /\ csv \in Registry
  /\ torn \in BOOLEAN
  /\ granted \subseteq Macs \X (1 .. MaxId)

-----------------------------------------------------------------------------
(***************************************************************************)
(* Start-up: load_csv before the HTTP loop and the save thread.            *)
(***************************************************************************)

\* load_csv keeps the counter above the highest id it loads (>=, so that the
\* highest id itself is never handed out again).
IsNextId_atHighest(n, ids) ==
  /\ \A i \in ids : i <= n
  /\ n = 1 \/ n \in ids

IsNextId(n, ids) ==
  /\ \A i \in ids : i < n
  /\ n = 1 \/ n - 1 \in ids

Init ==
  /\ server = "down"
  /\ devices = NoRows
  /\ next_id = 1
  /\ dirty = FALSE
  /\ saver = "none"
  /\ csv = NoRows
  /\ torn = FALSE
  /\ granted = {}

Start ==
  /\ server = "down"
  /\ ~torn
  /\ server' = "up"
  /\ devices' = csv
  /\ next_id' \in 1 .. MaxId + 1
  /\ IsNextId(next_id', Ids(csv))
  /\ UNCHANGED <<dirty, saver, csv, torn, granted>>

\* int(None) raises on half a row: load_csv is outside any try, the process
\* ends before it serves and the file stays as it is.
StartFails ==
  /\ server = "down"
  /\ torn
  /\ UNCHANGED vars

-----------------------------------------------------------------------------
(***************************************************************************)
(* The routes.  Requests still running when the HTTP loop is left are      *)
(* daemon threads that nobody joins, so the routes stay possible until the *)
(* process is gone.                                                        *)
(***************************************************************************)

CanServe == Serving /\ saver = "none"

\* GET /id/<mac>/<teamid> of a MAC in the table.
AssignKnown_newId(m, t, now) ==
  /\ CanServe
  /\ m \in DOMAIN devices
  /\ next_id <= MaxId
  /\ devices' = Put(devices, m, [device_id |-> next_id, team_id |-> t, last_seen |-> now])
  /\ next_id' = next_id + 1
  /\ dirty' = TRUE
  /\ granted' = granted \cup {<<m, next_id>>}
  /\ UNCHANGED <<server, saver, csv, torn>>

AssignKnown(m, t, now) ==
  /\ CanServe
  /\ m \in DOMAIN devices
  /\ devices' = Put(devices, m, [devices[m] EXCEPT !.team_id = t, !.last_seen = now])
  /\ dirty' = TRUE
  /\ granted' = granted \cup {<<m, devices[m].device_id>>}
  /\ UNCHANGED <<server, next_id, saver, csv, torn>>

\* GET /id/<mac>/<teamid> of a MAC that is not in the table.

AssignNew_notDirty(m, t, now) ==
  /\ CanServe
  /\ m \notin DOMAIN devices
  /\ next_id <= MaxId
  /\ devices' = Put(devices, m, [device_id |-> next_id, team_id |-> t, last_seen |-> now])
  /\ next_id' = next_id + 1
  /\ granted' = granted \cup {<<m, next_id>>}
  /\ UNCHANGED <<server, dirty, saver, csv, torn>>

AssignNew(m, t, now) ==
  /\ CanServe
  /\ m \notin DOMAIN devices
  /\ next_id <= MaxId
  /\ devices' = Put(devices, m, [device_id |-> next_id, team_id |-> t, last_seen |-> now])
  /\ next_id' = next_id + 1
  /\ dirty' = TRUE
  /\ granted' = granted \cup {<<m, next_id>>}
  /\ UNCHANGED <<server, saver, csv, torn>>

\* DELETE /devices/<mac>.
RemoveDevice_freesId(m) ==
  /\ CanServe
  /\ m \in DOMAIN devices
  /\ devices' = Restrict(devices, DOMAIN devices \ {m})
  /\ next_id' = devices[m].device_id
  /\ dirty' = TRUE
  /\ UNCHANGED <<server, saver, csv, torn, granted>>

RemoveDevice(m) ==
  /\ CanServe
  /\ m \in DOMAIN devices
  /\ devices' = Restrict(devices, DOMAIN devices \ {m})
  /\ dirty' = TRUE
  /\ UNCHANGED <<server, next_id, saver, csv, torn, granted>>

\* GET /heartbeat/<mac>/<id> with the id of the table.  Its `_dirty = True`
\* assigns a local variable: the function has no `global _dirty`.
HeartbeatDevice(m, i, now) ==
  /\ CanServe
  /\ m \in DOMAIN devices
  /\ devices[m].device_id = i
  /\ devices' = Put(devices, m, [devices[m] EXCEPT !.last_seen = now])
  /\ UNCHANGED <<server, next_id, dirty, saver, csv, torn, granted>>

Routes ==
  \/ \E m \in Macs, t \in Teams, now \in Times : AssignKnown(m, t, now)
  \/ \E m \in Macs, t \in Teams, now \in Times : AssignNew(m, t, now)
  \/ \E m \in Macs : \E i \in Ids(devices), now \in Times : HeartbeatDevice(m, i, now)

-----------------------------------------------------------------------------
(***************************************************************************)
(* save_csv: truncate the file, write one row after the other, clear the   *)
(* flag.  A dict keeps insertion order, which is the order of the ids.     *)
(***************************************************************************)

MaySave(who) ==
  \/ who = "thread" /\ Serving
  \/ who = "main" /\ server = "stopping"

SaveBegin(who) ==
  /\ MaySave(who)
  /\ saver = "none"
  /\ dirty
  /\ saver' = who
  /\ csv' = NoRows
  /\ torn' = FALSE
  /\ UNCHANGED <<server, devices, next_id, dirty, granted>>

\* The file cannot be opened for writing (no directory, no permission): what
\* is on disk stays and the flag stays set.
OpenFails(who) ==
  /\ MaySave(who)
  /\ saver = "none"
  /\ dirty
  /\ server' = IF who = "main" THEN "final" ELSE server
  /\ UNCHANGED <<devices, next_id, dirty, saver, csv, torn, granted>>

Unwritten == DOMAIN devices \ DOMAIN csv

SaveRow ==
  /\ saver # "none"
  /\ \E m \in Unwritten :
       /\ \A n \in Unwritten : devices[m].device_id <= devices[n].device_id
       /\ csv' = Put(csv, m, devices[m])
  /\ UNCHANGED <<server, devices, next_id, dirty, saver, torn, granted>>

\* save_csv returned: the shutdown path goes on to leave the process.
Return ==
  /\ saver' = "none"
  /\ server' = IF saver = "main" THEN "final" ELSE server

SaveEnd ==
  /\ saver # "none"
  /\ Unwritten = {}
  /\ dirty' = FALSE
  /\ Return
  /\ UNCHANGED <<devices, next_id, csv, torn, granted>>

\* A write raises (disk full): what was flushed stays in the file and the
\* flag stays set.
SaveFails ==
  /\ saver # "none"
  /\ torn' \in BOOLEAN
  /\ Return
  /\ UNCHANGED <<devices, next_id, dirty, csv, granted>>

-----------------------------------------------------------------------------
(***************************************************************************)
(* Leaving: Ctrl-C ends run_http and main does one last save; SIGTERM, a   *)
(* power cut of the process or kill -9 ends it where it stands.            *)
(***************************************************************************)

Stop ==
  /\ server = "up"
  /\ server' = "stopping"
  /\ UNCHANGED <<devices, next_id, dirty, saver, csv, torn, granted>>

\* The last save finds nothing to do.
SkipFinalSave_ifDirty ==
  /\ server = "stopping"
  /\ saver = "none"
  /\ server' = "final"
  /\ UNCHANGED <<devices, next_id, dirty, saver, csv, torn, granted>>

SkipFinalSave ==
  /\ server = "stopping"
  /\ saver = "none"
  /\ ~dirty
  /\ server' = "final"
  /\ UNCHANGED <<devices, next_id, dirty, saver, csv, torn, granted>>

\* The process is gone: its memory is lost, a write it was in may leave half
\* a row behind.
Die ==
  /\ server' = "down"
  /\ devices' = NoRows
  /\ next_id' = 1
  /\ dirty' = FALSE
  /\ saver' = "none"
  /\ torn' \in (IF saver = "none" THEN {torn} ELSE BOOLEAN)
  /\ UNCHANGED <<csv, granted>>

Exit == server = "final" /\ Die

Crash == Serving /\ Die

-----------------------------------------------------------------------------
Next ==
  \/ Start
  \/ StartFails
  \/ Routes
  \/ \E m \in Macs : RemoveDevice(m)
  \/ \E who \in {"thread", "main"} : SaveBegin(who) \/ OpenFails(who)
  \/ SaveRow
  \/ SaveEnd
  \/ SaveFails
  \/ Stop
  \/ SkipFinalSave
  \/ Exit
  \/ Crash

Spec == Init /\ [][Next]_vars

\* A well-run server: nobody deletes a robot, the disk works, the process is
\* only ended through the shutdown path, with no request in flight.
StableNext ==
  \/ Start
  \/ server = "up" /\ Routes
  \/ server = "up" /\ SaveBegin("thread")
  \/ SaveBegin("main")
  \/ SaveRow
  \/ SaveEnd
  \/ Stop
  \/ SkipFinalSave
  \/ Exit

StableSpec == Init /\ [][StableNext]_vars

-----------------------------------------------------------------------------
(***************************************************************************)
(* Properties.                                                             *)
(***************************************************************************)

\* No two robots of the table share a device id, whatever file the server was
\* started from (dhcpid.py:53-61 against load_csv's counter, l.120-122).
LiveIdsUnique ==
  \A m, n \in DOMAIN devices :
    devices[m].device_id = devices[n].device_id => m = n

\* While a server lives, an id in the file belongs to the same robot in the
\* table or to none: no id is recycled under a row already on disk, even after
\* deletions and failed saves.
FileIdsReserved ==
  Serving =>
    \A m \in DOMAIN csv, n \in DOMAIN devices :
      csv[m].device_id = devices[n].device_id => m = n

\* Between saves a clear dirty flag means that the ids and the teams on disk
\* are those in memory and the file can be loaded (dhcpid.py:33, 129-131).
SameAssignments(reg, file) ==
  /\ DOMAIN reg = DOMAIN file
  /\ \A m \in DOMAIN reg :
       /\ reg[m].device_id = file[m].device_id
       /\ reg[m].team_id = file[m].team_id

CleanMeansSaved ==
  Serving /\ saver = "none" /\ ~dirty => SameAssignments(devices, csv) /\ ~torn

\* What makes the three inductive: a process that is down remembers nothing,
\* the file's ids are unique, the counter is above every id in memory and on
\* disk, and a file being written holds only rows of the table.
IdsUnique(reg) ==
  \A m, n \in DOMAIN reg : reg[m].device_id = reg[n].device_id => m = n

WritingInv ==
  saver # "none" =>
    /\ Serving
    /\ dirty
    /\ ~torn
    /\ DOMAIN csv \subseteq DOMAIN devices
    /\ \A m \in DOMAIN csv : csv[m] = devices[m]

RegistryInv ==
  /\ server = "down" => saver = "none"
  /\ Serving => \A m \in DOMAIN devices : devices[m].device_id < next_id
  /\ Serving => \A m \in DOMAIN csv : csv[m].device_id < next_id
  /\ IdsUnique(csv)
  /\ WritingInv
  /\ LiveIdsUnique
  /\ FileIdsReserved
  /\ CleanMeansSaved

\* A well-run server gives each robot one id for ever and each id to one robot
\* for ever, across any number of restarts.
GrantsInjective ==
  \A g, h \in granted : g[1] = h[1] <=> g[2] = h[2]

\* What makes it inductive: every grant is a row of the table while the server
\* is there and of the file while it is not, which needs the last save to be
\* complete whenever the process ends.
GrantsInv ==
  /\ saver = "main" => server = "stopping"
  /\ server = "final" => saver = "none" /\ ~dirty
  /\ ~torn
  /\ \A g \in granted :
       LET reg == IF Serving THEN devices ELSE csv
       IN  g[1] \in DOMAIN reg /\ reg[g[1]].device_id = g[2]

\* A well-run server that gave out an id has it on disk sooner or later, or
\* was told to stop, whose last save then takes over.
GrantReachesDisk ==
  \A m \in Macs : m \in DOMAIN devices ~> m \in DOMAIN csv \/ server # "up"
=============================================================================
