------------------------------- MODULE FsTests -------------------------------
(***************************************************************************)
(* The file-system self-test (unittest/components/fs) and the mounts it    *)
(* shares with the configuration loader.  Three tasks run the same checks  *)
(* on the same paths: the boot among its required tests, the optional test *)
(* task the boot deletes again whatever it is doing, and the serial worker *)
(* ("fs test", "ut fs"), which the supervisor deletes when it takes too    *)
(* long.  What a deleted run leaves - files, half-written ones, an open    *)
(* handle, a mount - is what the next run finds; a power cut leaves files. *)
(*                                                                         *)
(* A check is a sequence of calls; a call that fails leaves through the    *)
(* clean-up the code has at that place.                                    *)
(***************************************************************************)
EXTENDS Naturals, Sequences, FiniteSets

CONSTANTS Cycles,      \* cycles of the handle test (128)
          Directories, \* whether the file system knows directories (SPIFFS does
                       \* not): the cases to look at
          Incidents,   \* failing calls, deleted serial workers and restarts, at
                       \* most; a run that overlaps another counts twice
          RunBudget    \* "fs test" commands, at most

VARIABLES dirs,    \* this file system knows directories
          files,   \* partition -> name -> content, for the names that exist
          mounts,  \* registrations at /config, oldest first (which serves)
          partitionMounted,  \* the loader's: it has mounted the partition
          phase,   \* of the boot
          todo,    \* runner -> the calls its check has left
          next,    \* runner -> number of the check after this one
          mine,    \* runner -> what its check mounted: label, "" nothing
          handle,  \* runner -> its open file
          bad,     \* runner -> its check has failed
          ok,      \* runner -> no check of this run has failed
          trouble, \* runner -> a call failed or another run was under way
          leaked,  \* partition -> handles nobody can close any more
          report,  \* what the last finished run reported, its trouble, and how many
                   \* workers had been deleted by then
          kills,   \* serial workers deleted in this boot
          incidents, runs

ASSUME FsAssumption == Cycles \in Nat \ {0}

runvars == <<todo, next, mine, handle, bad, ok, trouble>>
budget == <<kills, incidents, runs>>
vars == <<dirs, files, mounts, partitionMounted, phase, runvars, leaked, report, budget>>

Runners == {"boot", "optional", "serial"}
Partitions == {"config", "storage"}
DIR == <<"dir">>
NoFile == [part |-> "", name |-> "", mode |-> "r", alive |-> FALSE]
None == [n \in {} |-> <<>>]

-----------------------------------------------------------------------------
(* The calls, each with what is cleaned up when it fails.                  *)

Ensure              == [do |-> "detect"]
Undetect            == [do |-> "undetect"]
MountConfig         == [do |-> "config"]
MountGeneric        == [do |-> "generic"]
Clean(f)            == [do |-> "clean", name |-> f]
Open(f, mode, bail) == [do |-> "open", name |-> f, mode |-> mode, bail |-> bail]
Put(at, what, bail) == [do |-> "put", offset |-> at, what |-> what, stop |-> TRUE,
                        bail |-> bail]
Add(what, bail)     == Put(99, <<what>>, bail)   \* at the end
Verify(want, bail)  == [do |-> "verify", want |-> want, bail |-> bail]
Close               == [do |-> "close"]
Rename(f, g, bail)  == [do |-> "rename", name |-> f, to |-> g, bail |-> bail]
Remove(f, bail)     == [do |-> "remove", name |-> f, bail |-> bail]
Gone(f, bail)       == [do |-> "is", name |-> f, there |-> FALSE, bail |-> bail]
There(f, bail)      == [do |-> "is", name |-> f, there |-> TRUE, bail |-> bail]
Mkdir(f, skip, bail) == [do |-> "mkdir", name |-> f, skip |-> skip, bail |-> bail]
Rmdir(f, want, bail) == [do |-> "rmdir", name |-> f, want |-> want, stop |-> TRUE,
                         bail |-> bail]
Missing             == [do |-> "missing", bail |-> <<>>]
Release             == [do |-> "release"]
OrNote(call)        == [call EXCEPT !.stop = FALSE]   \* judged with what follows
Judge(bail)         == [do |-> "judge", bail |-> bail]

Cleans(names) == [i \in DOMAIN names |-> Clean(names[i])]

-----------------------------------------------------------------------------
(* The six checks.                                                         *)

MountCheck == <<Ensure, Open("probe", "w", <<>>), OrNote(Add("m", <<>>)), Close,
                [do |-> "discard", name |-> "probe"], Judge(<<>>), Release>>

Pattern == <<"A", "B", "A", "C">>
FileCheck ==
  <<Ensure, Clean("bin"), Clean("done")>> \o
  <<Open("bin", "w", <<>>), Put(0, <<"A", "A", "A">>, <<"bin">>), Put(1, <<"B">>, <<"bin">>),
    Put(3, <<"C">>, <<"bin">>), Close,
    Open("bin", "r", <<"bin">>), Verify(Pattern, <<"bin">>), Close,
    Rename("bin", "done", <<"bin">>), Gone("bin", <<"bin", "done">>),
    There("done", <<"bin", "done">>), Remove("done", <<>>), Gone("done", <<>>), Release>>

Tree == <<"txt", "nested", "dir">>
DirectoryCheck ==
  <<Ensure>> \o Cleans(Tree) \o
  <<Mkdir("dir", TRUE, <<>>), Mkdir("nested", FALSE, <<"dir">>),
    Open("txt", "w", <<"nested", "dir">>), Add("m", Tree), Close, Rmdir("nested", FALSE, Tree),
    There("txt", Tree), Clean("txt"), OrNote(Rmdir("nested", TRUE, <<>>)),
    OrNote(Rmdir("dir", TRUE, <<>>)), Judge(<<"nested", "dir">>), Release>>

ErrorCheck == <<Ensure, Missing, Clean("missing"), Release>>

(* Faulty variant: the file stays after the comparison.                    *)
PersistenceCheck_leaves ==
  <<Ensure, Clean("persist"), Open("persist", "w", <<>>), Add("p", <<"persist">>), Close,
    Open("persist", "r", <<"persist">>), Verify(<<"p">>, <<"persist">>), Close, Release>>
PersistenceCheck ==
  <<Ensure, Clean("persist"), Open("persist", "w", <<>>), Add("p", <<"persist">>), Close,
    Open("persist", "r", <<"persist">>), Verify(<<"p">>, <<"persist">>), Close,
    Clean("persist"), Release>>

Cycle(i) == CASE i % 3 = 1 -> Open("cycle", "a", <<"cycle">>)
              [] i % 3 = 2 -> Add("c", <<"cycle">>) [] OTHER -> Close
CycleEnd == <<Open("cycle", "r", <<"cycle">>), Verify([i \in 1..Cycles |-> "c"], <<"cycle">>),
              Close, Clean("cycle"), Release>>
(* Faulty variant: the file of an earlier run is not removed first.        *)
HandleCycleCheck_appends == <<Ensure>> \o [i \in 1..(3 * Cycles) |-> Cycle(i)] \o CycleEnd
HandleCycleCheck == <<Ensure, Clean("cycle")>> \o [i \in 1..(3 * Cycles) |-> Cycle(i)] \o CycleEnd

Checks == <<MountCheck, FileCheck, DirectoryCheck, ErrorCheck, PersistenceCheck,
            HandleCycleCheck>>

-----------------------------------------------------------------------------
(* The file system behind /config.                                         *)

Active(r) == todo[r] # <<>>
Op(r) == Head(todo[r])
At(r, what) == Active(r) /\ Op(r).do = what
Mounted(p) == \E i \in DOMAIN mounts : mounts[i].part = p
Here == mounts[1].part
Exists(f) == mounts # <<>> /\ f \in DOMAIN files[Here]
OpenHandles(p) == leaked[p] + Cardinality({r \in Runners : handle[r].part = p})
Free == mounts # <<>> /\ OpenHandles(Here) < mounts[1].max
Inside(f) == {g \in DOMAIN files[Here] : <<f, g>> \in {<<"dir", "nested">>, <<"nested", "txt">>}}
Keyed(table, f, content) ==
  [n \in DOMAIN table \cup {f} |-> IF n = f THEN content ELSE table[n]]
Without(f) == [files EXCEPT ![Here] = [n \in DOMAIN @ \ {f} |-> @[n]]]
With(f, content) == [files EXCEPT ![Here] = Keyed(@, f, content)]
Register(p, label, max) == Append(mounts, [part |-> p, label |-> label, max |-> max])
Unregister(p) == LET i == CHOOSE i \in DOMAIN mounts : mounts[i].part = p
                 IN  SubSeq(mounts, 1, i - 1) \o SubSeq(mounts, i + 1, Len(mounts))
Stale(p, f) == [r \in Runners |-> IF handle[r].part = p /\ (f = "*" \/ handle[r].name = f)
                                  THEN [handle[r] EXCEPT !.alive = FALSE] ELSE handle[r]]

Init ==
  /\ dirs \in Directories
  /\ files = [p \in Partitions |-> None] /\ mounts = <<>> /\ partitionMounted = FALSE
  /\ phase = "tests"
  /\ todo = [r \in Runners |-> <<>>] /\ next = [r \in Runners |-> 0]
  /\ mine = [r \in Runners |-> ""] /\ handle = [r \in Runners |-> NoFile]
  /\ bad = [r \in Runners |-> FALSE] /\ ok = [r \in Runners |-> TRUE]
  /\ trouble = [r \in Runners |-> FALSE] /\ leaked = [p \in Partitions |-> 0]
  /\ report = [ok |-> TRUE, trouble |-> FALSE, kills |-> 0]
  /\ kills = 0 /\ incidents = 0 /\ runs = 0

Done(r) == todo' = [todo EXCEPT ![r] = Tail(@)]
Instead(r, call) == todo' = [todo EXCEPT ![r] = <<call>> \o Tail(@)]

(* Faulty variant: the early return forgets the fclose.                    *)
WayOut_keepsOpen(r, bail) == Cleans(bail) \o <<Release>>

(* The way out of a check: close, clean up, release; then the next check.  *)
WayOut(r, bail) ==
  (IF handle[r] = NoFile THEN <<>> ELSE <<Close>>) \o Cleans(bail) \o <<Release>>

Out(r) == todo' = [todo EXCEPT ![r] = WayOut(r, Op(r).bail)] /\ bad' = [bad EXCEPT ![r] = TRUE]
NoBail(r) == todo' = [todo EXCEPT ![r] = <<Release>>] /\ bad' = [bad EXCEPT ![r] = TRUE]
Incident == incidents < Incidents /\ incidents' = incidents + 1
Overlap == incidents + 1 < Incidents /\ incidents' = incidents + 2
Same(r) == incidents' = incidents /\ trouble' = trouble
Fault(r) == Incident /\ trouble' = [trouble EXCEPT ![r] = TRUE]

Rest == UNCHANGED <<partitionMounted, phase, next, ok, report, kills, runs>>

-----------------------------------------------------------------------------
(* ensureFsContext: use what is mounted at /config, else mount the         *)
(* partition, else the generic one (the first, "storage").                 *)

DetectMount(r) ==
  /\ At(r, "detect")
  /\ \/ /\ Free /\ Same(r) /\ Instead(r, Undetect)
        /\ files' = IF Exists("tmp") THEN files ELSE With("tmp", <<>>)
        /\ handle' = [handle EXCEPT ![r] = [part |-> Here, name |-> "tmp", mode |-> "a",
                                            alive |-> TRUE]]
     \/ /\ IF Free THEN Fault(r) ELSE Same(r)
        /\ Instead(r, MountConfig) /\ UNCHANGED <<files, handle>>
  /\ Rest /\ UNCHANGED <<mounts, mine, bad, leaked>>

DropDetectFile(r) ==
  /\ At(r, "undetect")
  /\ Same(r) /\ Done(r)
  /\ files' = IF Exists("tmp") THEN Without("tmp") ELSE files
  /\ handle' = [(IF mounts # <<>> THEN Stale(Here, "tmp") ELSE handle) EXCEPT ![r] = NoFile]
  /\ Rest /\ UNCHANGED <<mounts, mine, bad, leaked>>

(* Faulty variant: "already mounted" is taken for a mount of one's own.    *)
MountConfigPartition_owns(r) ==
  /\ At(r, "config")
  /\ \/ /\ Same(r) /\ Done(r)
        /\ mounts' = IF Mounted("config") THEN mounts ELSE Register("config", "config", 8)
        /\ mine' = [mine EXCEPT ![r] = "config"]
     \/ /\ ~Mounted("config") /\ Fault(r)
        /\ Instead(r, MountGeneric) /\ UNCHANGED <<mounts, mine>>
  /\ Rest /\ UNCHANGED <<files, handle, bad, leaked>>

(* A partition that is registered already is refused: ESP_ERR_INVALID_STATE. *)
MountConfigPartition(r) ==
  /\ At(r, "config")
  /\ \/ /\ ~Mounted("config") /\ Same(r) /\ Done(r)
        /\ mounts' = Register("config", "config", 8)
        /\ mine' = [mine EXCEPT ![r] = "config"]
     \/ /\ IF Mounted("config") THEN Same(r) ELSE Fault(r)
        /\ Instead(r, MountGeneric) /\ UNCHANGED <<mounts, mine>>
  /\ Rest /\ UNCHANGED <<files, handle, bad, leaked>>

MountGenericPartition(r) ==
  /\ At(r, "generic")
  /\ \/ /\ ~Mounted("storage") /\ Same(r) /\ Done(r) /\ bad' = bad
        /\ mounts' = Register("storage", "generic", 8)
        /\ mine' = [mine EXCEPT ![r] = "generic"]
     \/ /\ Mounted("storage") /\ Same(r) /\ Done(r)      \* "__external__"
        /\ UNCHANGED <<mounts, mine, bad>>
     \/ /\ ~Mounted("storage") /\ Fault(r) /\ NoBail(r)
        /\ UNCHANGED <<mounts, mine>>
  /\ Rest /\ UNCHANGED <<files, handle, leaked>>

(* releaseFsContext, and on to the next check of the suite.                *)
ReleaseMount(r) ==
  /\ At(r, "release")
  /\ LET p == IF mine[r] = "config" THEN "config" ELSE "storage"
         gone == mine[r] # ""
         lost == IF handle[r] # NoFile THEN handle[r].part ELSE "-"
         over == next[r] > Len(Checks)
         passed == ok[r] /\ ~bad[r]
     IN  /\ mounts' = IF gone /\ Mounted(p) THEN Unregister(p) ELSE mounts
         /\ handle' = [(IF gone THEN Stale(p, "*") ELSE handle) EXCEPT ![r] = NoFile]
         /\ leaked' = [q \in Partitions |-> IF gone /\ q = p THEN 0
                                            ELSE leaked[q] + (IF q = lost THEN 1 ELSE 0)]
         /\ ok' = [ok EXCEPT ![r] = passed]
         /\ todo' = [todo EXCEPT ![r] = IF over THEN <<>> ELSE Checks[next[r]]]
         /\ next' = [next EXCEPT ![r] = IF over THEN 0 ELSE @ + 1]
         /\ report' = IF over THEN [ok |-> passed, trouble |-> trouble[r], kills |-> kills]
                       ELSE report
  /\ mine' = [mine EXCEPT ![r] = ""] /\ bad' = [bad EXCEPT ![r] = FALSE]
  /\ UNCHANGED <<files, partitionMounted, phase, trouble, budget>>

-----------------------------------------------------------------------------
(* The calls of the checks.                                                *)

Keeps == Rest /\ UNCHANGED <<mounts, mine, leaked>>

(* cleanupPathIfExists: remove, else rmdir, else only a warning.           *)
CleanPath(r) ==
  /\ At(r, "clean")
  /\ \/ /\ Same(r)
        /\ IF Exists(Op(r).name) /\ Inside(Op(r).name) = {}
             THEN files' = Without(Op(r).name) /\ handle' = Stale(Here, Op(r).name)
             ELSE UNCHANGED <<files, handle>>
     \/ Exists(Op(r).name) /\ Fault(r) /\ UNCHANGED <<files, handle>>
  /\ Done(r)
  /\ Keeps /\ UNCHANGED bad

OpenFile(r) ==
  /\ At(r, "open")
  /\ LET f == Op(r).name
         can == Free /\ (Op(r).mode = "r" => Exists(f))
     IN  \/ /\ can /\ Same(r) /\ Done(r) /\ bad' = bad
            /\ handle' = [handle EXCEPT ![r] = [part |-> Here, name |-> f, mode |-> Op(r).mode,
                                                alive |-> TRUE]]
            /\ files' = IF Op(r).mode = "w" \/ (Op(r).mode = "a" /\ ~Exists(f))
                        THEN With(f, <<>>) ELSE files
         \/ /\ (IF can THEN Fault(r) ELSE Same(r)) /\ Out(r)
            /\ UNCHANGED <<files, handle>>
  /\ Keeps

(* A write through a handle whose file or mount is gone fails.             *)
Content(r) == files[handle[r].part][handle[r].name]
Usable(r) == handle[r].alive /\ handle[r].name \in DOMAIN files[handle[r].part]
PutItem(r) ==
  /\ At(r, "put")
  /\ LET old == Content(r)
         k == IF Op(r).offset = 99 THEN Len(old) ELSE Op(r).offset
         n == Len(Op(r).what)
         can == Usable(r) /\ k <= Len(old)
         new == SubSeq(old, 1, k) \o Op(r).what \o SubSeq(old, k + n + 1, Len(old))
     IN  \/ /\ can /\ Same(r) /\ Done(r) /\ bad' = bad
            /\ files' = [files EXCEPT ![handle[r].part] = Keyed(@, handle[r].name, new)]
         \/ /\ (IF can THEN Fault(r) ELSE Same(r)) /\ files' = files
            /\ IF Op(r).stop THEN Out(r) ELSE Done(r) /\ bad' = [bad EXCEPT ![r] = TRUE]
  /\ Keeps /\ UNCHANGED handle

(* Read back and compare, byte by byte or by the size.                     *)
VerifyFile(r) ==
  /\ At(r, "verify")
  /\ LET right == Usable(r) /\ Content(r) = Op(r).want
     IN  \/ right /\ Same(r) /\ Done(r) /\ bad' = bad
         \/ (IF right THEN Fault(r) ELSE Same(r)) /\ Out(r)
  /\ Keeps /\ UNCHANGED <<files, handle>>

CloseFile(r) ==
  /\ At(r, "close")
  /\ handle' = [handle EXCEPT ![r] = NoFile]
  /\ Same(r) /\ Done(r) /\ Keeps /\ UNCHANGED <<files, bad>>

RenameFile(r) ==
  /\ At(r, "rename")
  /\ LET f == Op(r).name
         can == Exists(f) /\ ~Exists(Op(r).to)
     IN  \/ /\ can /\ Same(r) /\ Done(r) /\ bad' = bad
            /\ files' = [files EXCEPT ![Here] = Keyed([n \in DOMAIN @ \ {f} |-> @[n]],
                                                      Op(r).to, @[f])]
            /\ handle' = [s \in Runners |-> IF handle[s].name = f
                                            THEN [handle[s] EXCEPT !.name = Op(r).to]
                                            ELSE handle[s]]
         \/ (IF can THEN Fault(r) ELSE Same(r)) /\ Out(r) /\ UNCHANGED <<files, handle>>
  /\ Keeps

RemoveFile(r) ==
  /\ At(r, "remove")
  /\ LET can == Exists(Op(r).name)
     IN  \/ /\ can /\ Same(r) /\ Done(r) /\ bad' = bad
            /\ files' = Without(Op(r).name) /\ handle' = Stale(Here, Op(r).name)
         \/ (IF can THEN Fault(r) ELSE Same(r)) /\ Out(r) /\ UNCHANGED <<files, handle>>
  /\ Keeps

(* removeOk of the mount check: removed, or not there any more.            *)
DiscardFile(r) ==
  /\ At(r, "discard")
  /\ \/ /\ Same(r) /\ bad' = bad
        /\ files' = IF Exists(Op(r).name) THEN Without(Op(r).name) ELSE files
     \/ Exists(Op(r).name) /\ Fault(r) /\ bad' = [bad EXCEPT ![r] = TRUE] /\ files' = files
  /\ Done(r) /\ Keeps /\ UNCHANGED handle

Look(r) ==
  /\ At(r, "is")
  /\ Same(r)
  /\ IF Exists(Op(r).name) = Op(r).there THEN Done(r) /\ bad' = bad ELSE Out(r)
  /\ Keeps /\ UNCHANGED <<files, handle>>

(* A file system without directories ends the directory check well.        *)
MakeDirectory(r) ==
  /\ At(r, "mkdir")
  /\ LET can == mounts # <<>> /\ ~Exists(Op(r).name)
     IN  \/ /\ ~dirs /\ Op(r).skip /\ Same(r)
            /\ todo' = [todo EXCEPT ![r] = <<Release>>] /\ bad' = bad /\ files' = files
         \/ /\ dirs /\ can /\ Same(r) /\ Done(r) /\ bad' = bad
            /\ files' = With(Op(r).name, DIR)
         \/ /\ dirs /\ (IF can THEN Fault(r) ELSE Same(r)) /\ Out(r) /\ files' = files
  /\ Keeps /\ UNCHANGED handle

RemoveDirectory(r) ==
  /\ At(r, "rmdir")
  /\ LET can == Exists(Op(r).name) /\ Inside(Op(r).name) = {}
         Judged(got) == IF got = Op(r).want THEN Done(r) /\ bad' = bad
                        ELSE IF Op(r).stop THEN Out(r)
                        ELSE Done(r) /\ bad' = [bad EXCEPT ![r] = TRUE]
     IN  \/ can /\ Same(r) /\ files' = Without(Op(r).name) /\ Judged(TRUE)
         \/ (IF can THEN Fault(r) ELSE Same(r)) /\ files' = files /\ Judged(FALSE)
  /\ Keeps /\ UNCHANGED handle

(* Opening and removing what nobody created is refused, as it should be.   *)
TryMissing(r) ==
  /\ At(r, "missing")
  /\ Same(r) /\ Done(r) /\ Keeps /\ UNCHANGED <<files, handle, bad>>

JudgeCheck(r) ==
  /\ At(r, "judge")
  /\ Same(r) /\ IF bad[r] THEN Out(r) ELSE Done(r) /\ bad' = bad
  /\ Keeps /\ UNCHANGED <<files, handle>>

RunStep(r) ==
  \/ DetectMount(r) \/ DropDetectFile(r) \/ MountConfigPartition(r)
  \/ MountGenericPartition(r) \/ ReleaseMount(r) \/ CleanPath(r) \/ OpenFile(r) \/ PutItem(r)
  \/ VerifyFile(r) \/ CloseFile(r) \/ RenameFile(r) \/ RemoveFile(r) \/ DiscardFile(r)
  \/ Look(r) \/ MakeDirectory(r) \/ RemoveDirectory(r) \/ TryMissing(r) \/ JudgeCheck(r)

-----------------------------------------------------------------------------
(* The tasks that run the suite.                                           *)

Begin(r) ==
  /\ todo' = [todo EXCEPT ![r] = Checks[1]] /\ next' = [next EXCEPT ![r] = 2]
  /\ ok' = [ok EXCEPT ![r] = TRUE] /\ bad' = [bad EXCEPT ![r] = FALSE]
  /\ LET busy == \E s \in Runners \ {r} : Active(s)
     IN  trouble' = [s \in Runners |-> IF s = r THEN busy ELSE trouble[s] \/ Active(s)]
Quiet == UNCHANGED <<files, mounts, mine, handle, leaked, report>>
NoRun == UNCHANGED runvars

(* A required run is due, or the counter lets it be skipped.               *)
RequiredTests ==
  /\ phase = "tests"
  /\ \/ phase' = "testing" /\ Begin("boot") /\ UNCHANGED <<mine, handle>>
     \/ phase' = "loading" /\ NoRun
  /\ UNCHANGED <<files, mounts, partitionMounted, leaked, report, budget>>

RequiredDone ==
  /\ phase = "testing" /\ ~Active("boot") /\ ok["boot"]
  /\ phase' = "loading"
  /\ Quiet /\ UNCHANGED <<partitionMounted, todo, next, bad, ok, trouble, budget>>

(* mountConfigPartition, from the boot and from "config reload".           *)
LoadMount ==
  /\ ~partitionMounted
  /\ \/ ~Mounted("config") /\ mounts' = Register("config", "config", 4)
        /\ partitionMounted' = TRUE /\ incidents' = incidents
     \/ (IF Mounted("config") THEN incidents' = incidents ELSE Incident)
        /\ UNCHANGED <<mounts, partitionMounted>>

LoadConfig ==
  /\ phase = "loading" /\ LoadMount /\ phase' = "serial"
  /\ NoRun /\ UNCHANGED <<files, leaked, report, kills, runs>>
ConfigReload ==
  /\ phase \in {"serial", "optional", "up"} /\ ~Active("serial") /\ LoadMount
  /\ phase' = phase
  /\ trouble' = [r \in Runners |-> trouble[r] \/ Active(r)]
  /\ UNCHANGED <<files, todo, next, mine, handle, bad, ok, leaked, report, kills, runs>>

StartOptional ==
  /\ phase = "serial" /\ phase' = "optional" /\ Begin("optional")
  /\ IF Active("serial") THEN Overlap ELSE incidents' = incidents
  /\ Quiet /\ UNCHANGED <<partitionMounted, kills, runs>>

FsTestCommand ==
  /\ phase \in {"serial", "optional", "up"} /\ ~Active("serial") /\ runs < RunBudget
  /\ IF Active("optional") THEN Overlap ELSE incidents' = incidents
  /\ Begin("serial") /\ runs' = runs + 1
  /\ Quiet /\ UNCHANGED <<partitionMounted, phase, kills>>

-----------------------------------------------------------------------------
(* vTaskDelete and power cuts.                                             *)

(* What was still in the buffer of an open file is lost.                   *)
Prefixes(s) == {SubSeq(s, 1, n) : n \in 0..Len(s)}
Torn(h) == IF h.alive /\ h.name \in DOMAIN files[h.part] /\ h.mode # "r"
           THEN {[files EXCEPT ![h.part] = Keyed(@, h.name, s)] :
                   s \in Prefixes(files[h.part][h.name])}
           ELSE {files}

Delete(r) ==
  /\ files' \in Torn(handle[r])
  /\ leaked' = [p \in Partitions |-> leaked[p] + (IF handle[r].part = p THEN 1 ELSE 0)]
  /\ todo' = [todo EXCEPT ![r] = <<>>] /\ next' = [next EXCEPT ![r] = 0]
  /\ mine' = [mine EXCEPT ![r] = ""] /\ handle' = [handle EXCEPT ![r] = NoFile]
  /\ UNCHANGED <<mounts, partitionMounted, bad, ok, trouble, report>>

(* The boot deletes the optional test task, finished or not.               *)
DeleteOptional ==
  /\ phase = "optional" /\ phase' = "up" /\ Delete("optional")
  /\ UNCHANGED budget

SupervisorKills ==
  /\ Active("serial") /\ Incident /\ Delete("serial") /\ kills' = kills + 1
  /\ UNCHANGED <<phase, runs>>

(* A restart: after failed required tests, or the power is cut.            *)
Reboot ==
  /\ Incident /\ kills' = 0
  /\ files' \in UNION {Torn(handle[r]) : r \in Runners}
  /\ mounts' = <<>> /\ partitionMounted' = FALSE /\ phase' = "tests"
  /\ todo' = [r \in Runners |-> <<>>] /\ next' = [r \in Runners |-> 0]
  /\ mine' = [r \in Runners |-> ""] /\ handle' = [r \in Runners |-> NoFile]
  /\ bad' = [r \in Runners |-> FALSE] /\ ok' = [r \in Runners |-> TRUE]
  /\ trouble' = [r \in Runners |-> FALSE] /\ leaked' = [p \in Partitions |-> 0]
  /\ UNCHANGED <<report, runs>>

Next ==
  /\ \/ \E r \in Runners : RunStep(r)
     \/ RequiredTests \/ RequiredDone \/ LoadConfig \/ ConfigReload \/ StartOptional
     \/ FsTestCommand \/ DeleteOptional \/ SupervisorKills \/ Reboot
  /\ dirs' = dirs
Spec == Init /\ [][Next]_vars

-----------------------------------------------------------------------------
(* Properties.                                                             *)

(* A run of the suite that had the file system to itself and no failing    *)
(* call passes, whatever files, half-written ones included, handles and    *)
(* mounts the deleted and cut off runs before it have left.  Only the      *)
(* handles can run out: the loader's mount has four, and the optional task *)
(* and three deleted workers may have lost one each.                       *)
LoneRunPasses == report.trouble \/ report.ok \/ report.kills > 2

(* And it removes what they left: nothing of the tests is in the partition *)
(* it ran on, save the probe of the mount detection, which a run that finds *)
(* nothing mounted never looks for.                                        *)
RunsClean ==
  [][\A r \in Runners :
       (ReleaseMount(r) /\ todo'[r] = <<>> /\ report'.ok /\ ~report'.trouble)
       => DOMAIN files[Here] \subseteq {"tmp"}]_vars

(* However a check ends, it has closed what it opened: handles are lost    *)
(* only with the tasks that are deleted (the optional one of each boot and *)
(* the serial workers), so that the four of the loader's mount last.       *)
HandlesClosed ==
  leaked["config"] + leaked["storage"] <= kills + (IF phase = "up" THEN 1 ELSE 0)

(* The tests never unmount what the loader has mounted.                    *)
MountKept == partitionMounted => Mounted("config")
=============================================================================
