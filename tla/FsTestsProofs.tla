--------------------------- MODULE FsTestsProofs ---------------------------
(***************************************************************************)
(* Theorems about the file-system self-test, for every number of cycles of *)
(* the handle test, of failing calls, deletions and restarts.              *)
(*                                                                         *)
(* The loader's mount survives because a run only releases what it mounted *)
(* itself, and a partition is registered once: MountInv says that whoever  *)
(* mounted /config, a run or the loader, is alone in having done so.       *)
(*                                                                         *)
(* That every check closes what it opens holds by the text of the checks,  *)
(* but a failing call may leave them anywhere: Tidy marks the places of a  *)
(* script at which a file may be open, so that none is where the check     *)
(* mounts, releases or ends.                                               *)
(*                                                                         *)
(* That a run passes which was alone and which no call failed is shown by  *)
(* running each check by hand once, over what is known of the files: names *)
(* that are gone, names that are there, what is in the file last opened (a *)
(* View).  Leads says which calls succeed where a view holds and what is   *)
(* known then, Runnable that the rest of a check is made of such calls.  A *)
(* check is Runnable from what the checks before it have removed alone, so *)
(* nothing an earlier run has left can make it fail.                       *)
(***************************************************************************)
EXTENDS FsTests, FiniteSetTheorems, TLAPS

-----------------------------------------------------------------------------
(* The registrations.                                                      *)

Registrations == [part : Partitions, label : {"config", "generic"}, max : {4, 8}]

MountInv ==
  /\ mounts \in Seq(Registrations)
  /\ mine = [r \in Runners |-> mine[r]]
  /\ partitionMounted => Mounted("config")
  /\ \A r \in Runners : mine[r] = "config" =>
       /\ Mounted("config") /\ ~partitionMounted
       /\ \A s \in Runners : mine[s] = "config" => s = r

LEMMA RegisterMounts ==
  ASSUME mounts \in Seq(Registrations), NEW p \in Partitions,
         NEW label \in {"config", "generic"}, NEW max \in {4, 8},
         mounts' = Register(p, label, max)
  PROVE  /\ mounts' \in Seq(Registrations)
         /\ Mounted(p)'
         /\ \A q : Mounted(q) => Mounted(q)'
<1> DEFINE m == [part |-> p, label |-> label, max |-> max]
<1>1. m \in Registrations /\ m.part = p
  BY DEF Registrations
<1>2. mounts' = Append(mounts, m)
  BY DEF Register
<1> HIDE DEF m
<1>3. /\ mounts' \in Seq(Registrations) /\ Len(mounts') = Len(mounts) + 1
      /\ mounts'[Len(mounts) + 1] = m
      /\ \A i \in 1..Len(mounts) : mounts'[i] = mounts[i]
  BY <1>1, <1>2
<1>4. /\ DOMAIN mounts = 1..Len(mounts) /\ DOMAIN mounts' = 1..Len(mounts')
      /\ Len(mounts) \in Nat
  BY <1>3
<1>5. Mounted(p)'
  <2>1. Len(mounts) + 1 \in DOMAIN mounts'
    BY <1>3, <1>4
  <2> QED BY <1>1, <1>3, <2>1 DEF Mounted
<1>6. ASSUME NEW q, Mounted(q)
      PROVE  Mounted(q)'
  <2>1. PICK i \in DOMAIN mounts : mounts[i].part = q
    BY <1>6 DEF Mounted
  <2>2. i \in DOMAIN mounts' /\ mounts'[i] = mounts[i]
    BY <1>3, <1>4
  <2> QED BY <2>1, <2>2 DEF Mounted
<1> QED BY <1>3, <1>5, <1>6

\* A concatenation, by its elements.
LEMMA Joined ==
  ASSUME NEW S, NEW a \in Seq(S), NEW b \in Seq(S)
  PROVE  /\ a \o b \in Seq(S) /\ Len(a \o b) = Len(a) + Len(b)
         /\ \A k \in 1..Len(a) : (a \o b)[k] = a[k]
         /\ \A k \in 1..Len(b) : (a \o b)[Len(a) + k] = b[k]
  OBVIOUS

LEMMA PartsOf ==
  ASSUME NEW S, NEW s \in Seq(S), NEW i \in 1..Len(s)
  PROVE  /\ SubSeq(s, 1, i - 1) \in Seq(S) /\ Len(SubSeq(s, 1, i - 1)) = i - 1
         /\ \A k \in 1..(i - 1) : SubSeq(s, 1, i - 1)[k] = s[k]
         /\ SubSeq(s, i + 1, Len(s)) \in Seq(S) /\ Len(SubSeq(s, i + 1, Len(s))) = Len(s) - i
         /\ \A k \in 1..(Len(s) - i) : SubSeq(s, i + 1, Len(s))[k] = s[i + k]
<1>0. Len(s) \in Nat /\ i \in Nat /\ i <= Len(s) /\ 1 <= i
  OBVIOUS
<1>1. /\ SubSeq(s, 1, i - 1) \in Seq(S) /\ Len(SubSeq(s, 1, i - 1)) = i - 1
      /\ \A k \in 1..(i - 1) : SubSeq(s, 1, i - 1)[k] = s[k]
  BY <1>0
<1>2. /\ SubSeq(s, i + 1, Len(s)) \in Seq(S) /\ Len(SubSeq(s, i + 1, Len(s))) = Len(s) - i
      /\ \A k \in 1..(Len(s) - i) : SubSeq(s, i + 1, Len(s))[k] = s[i + k]
  BY <1>0
<1> QED BY <1>1, <1>2

\* t is s without its i-th element.
Skips(s, i, t) ==
  /\ Len(t) = Len(s) - 1
  /\ \A k \in 1..(i - 1) : t[k] = s[k]
  /\ \A k \in 1..(Len(s) - i) : t[(i - 1) + k] = s[i + k]

LEMMA WithoutOne ==
  ASSUME NEW S, NEW s \in Seq(S), NEW i \in 1..Len(s)
  PROVE  /\ SubSeq(s, 1, i - 1) \o SubSeq(s, i + 1, Len(s)) \in Seq(S)
         /\ Skips(s, i, SubSeq(s, 1, i - 1) \o SubSeq(s, i + 1, Len(s)))
<1> DEFINE a == SubSeq(s, 1, i - 1)
           b == SubSeq(s, i + 1, Len(s))
<1>0. Len(s) \in Nat /\ i \in Nat /\ i <= Len(s) /\ 1 <= i
  OBVIOUS
<1>1. a \in Seq(S) /\ b \in Seq(S)
  BY PartsOf
<1>2. /\ Len(a) = i - 1 /\ \A k \in 1..(i - 1) : a[k] = s[k]
      /\ Len(b) = Len(s) - i /\ \A k \in 1..(Len(s) - i) : b[k] = s[i + k]
  BY PartsOf
<1> HIDE DEF a, b
<1>3. /\ a \o b \in Seq(S) /\ Len(a \o b) = Len(a) + Len(b)
      /\ \A k \in 1..Len(a) : (a \o b)[k] = a[k]
      /\ \A k \in 1..Len(b) : (a \o b)[Len(a) + k] = b[k]
  BY <1>1, Joined
<1> DEFINE t == a \o b
<1>4. /\ t \in Seq(S) /\ Len(t) = Len(a) + Len(b)
      /\ \A k \in 1..Len(a) : t[k] = a[k]
      /\ \A k \in 1..Len(b) : t[Len(a) + k] = b[k]
  BY <1>3
<1> HIDE DEF t
<1>5. Len(t) = Len(s) - 1
  BY <1>0, <1>2, <1>4
<1>6. \A k \in 1..(i - 1) : t[k] = s[k]
  BY <1>2, <1>4
<1>7. \A k \in 1..(Len(s) - i) : t[(i - 1) + k] = s[i + k]
  BY <1>2, <1>4
<1>8. t \in Seq(S) /\ Skips(s, i, t)
  BY <1>4, <1>5, <1>6, <1>7 DEF Skips
<1> QED BY <1>8, Zenon DEF t, a, b

LEMMA OthersStay ==
  ASSUME NEW s, NEW t, Len(s) \in Nat, NEW i \in 1..Len(s), Skips(s, i, t)
  PROVE  \A j \in 1..Len(s) : j # i => \E k \in 1..Len(t) : t[k] = s[j]
<1> SUFFICES ASSUME NEW j \in 1..Len(s), j # i
             PROVE  \E k \in 1..Len(t) : t[k] = s[j]
  OBVIOUS
<1>0. i \in Nat /\ i <= Len(s) /\ 1 <= i /\ j \in Nat
  OBVIOUS
<1>1. CASE j < i
  <2>1. j \in 1..Len(t) /\ j \in 1..(i - 1)
    BY <1>0, <1>1 DEF Skips
  <2> QED BY <2>1 DEF Skips
<1>2. CASE j > i
  <2>1. j - i \in 1..(Len(s) - i) /\ i + (j - i) = j /\ (i - 1) + (j - i) \in 1..Len(t)
    BY <1>0, <1>2 DEF Skips
  <2> QED BY <2>1 DEF Skips
<1> QED BY <1>0, <1>1, <1>2

LEMMA UnregisterKeeps ==
  ASSUME mounts \in Seq(Registrations), NEW p, Mounted(p), mounts' = Unregister(p)
  PROVE  /\ mounts' \in Seq(Registrations)
         /\ \A q : q # p /\ Mounted(q) => Mounted(q)'
<1>1. PICK i \in DOMAIN mounts :
        /\ mounts[i].part = p
        /\ mounts' = SubSeq(mounts, 1, i - 1) \o SubSeq(mounts, i + 1, Len(mounts))
  <2>1. \E j \in DOMAIN mounts : mounts[j].part = p
    BY DEF Mounted
  <2>2. PICK i \in DOMAIN mounts :
          /\ i = CHOOSE j \in DOMAIN mounts : mounts[j].part = p
          /\ mounts[i].part = p
    BY <2>1, Zenon
  <2> QED BY <2>2, Zenon DEF Unregister
<1>2. DOMAIN mounts = 1..Len(mounts)
  OBVIOUS
<1>3. /\ mounts' \in Seq(Registrations)
      /\ \A j \in 1..Len(mounts) : j # i => \E k \in 1..Len(mounts') : mounts'[k] = mounts[j]
  <2>1. i \in 1..Len(mounts)
    BY <1>1, <1>2
  <2>2. mounts' \in Seq(Registrations) /\ Skips(mounts, i, mounts')
    BY <1>1, <2>1, WithoutOne, Zenon
  <2>3. Len(mounts) \in Nat
    OBVIOUS
  <2> QED BY <2>1, <2>2, <2>3, OthersStay
<1>4. DOMAIN mounts' = 1..Len(mounts')
  BY <1>3
<1>5. ASSUME NEW q, q # p, Mounted(q)
      PROVE  Mounted(q)'
  <2>1. PICK j \in DOMAIN mounts : mounts[j].part = q
    BY <1>5 DEF Mounted
  <2>2. j \in 1..Len(mounts) /\ j # i
    BY <1>1, <1>2, <1>5, <2>1
  <2>3. PICK k \in 1..Len(mounts') : mounts'[k] = mounts[j]
    BY <1>3, <2>2
  <2> QED BY <1>4, <2>1, <2>3 DEF Mounted
<1> QED BY <1>3, <1>5

-----------------------------------------------------------------------------
(* The loader's mount.                                                     *)

LEMMA SameMounts ==
  ASSUME MountInv, UNCHANGED <<mounts, mine, partitionMounted>>
  PROVE  MountInv'
<1>1. Mounted("config")' <=> Mounted("config")
  BY DEF Mounted
<1> QED BY <1>1 DEF MountInv

\* Whoever mounts the configuration partition is the only one to have done so.
LEMMA MountNew ==
  ASSUME MountInv, ~Mounted("config"), NEW max \in {4, 8},
         mounts' = Register("config", "config", max)
  PROVE  /\ mounts' \in Seq(Registrations) /\ Mounted("config")'
         /\ ~partitionMounted /\ \A r \in Runners : mine[r] # "config"
<1>1. "config" \in Partitions /\ "config" \in {"config", "generic"}
  BY DEF Partitions
<1>2. mounts' \in Seq(Registrations) /\ Mounted("config")'
  BY <1>1, RegisterMounts DEF MountInv
<1>3. ~partitionMounted /\ \A r \in Runners : mine[r] # "config"
  BY DEF MountInv
<1> QED BY <1>2, <1>3

LEMMA MineSet ==
  ASSUME MountInv, NEW r \in Runners, NEW m, mine' = [mine EXCEPT ![r] = m]
  PROVE  /\ mine' = [s \in Runners |-> mine'[s]] /\ mine'[r] = m
         /\ \A s \in Runners : s # r => mine'[s] = mine[s]
BY DEF MountInv

LEMMA MountConfigKeeps ==
  ASSUME MountInv, NEW r \in Runners, MountConfigPartition(r)
  PROVE  MountInv'
<1>0. partitionMounted' = partitionMounted
  BY DEF MountConfigPartition, Rest
<1>1. CASE ~Mounted("config") /\ mounts' = Register("config", "config", 8)
           /\ mine' = [mine EXCEPT ![r] = "config"]
  <2>1. /\ mounts' \in Seq(Registrations) /\ Mounted("config")'
        /\ ~partitionMounted /\ \A s \in Runners : mine[s] # "config"
    BY <1>1, MountNew
  <2>2. /\ mine' = [s \in Runners |-> mine'[s]]
        /\ \A s \in Runners : s # r => mine'[s] = mine[s]
    BY <1>1, MineSet
  <2>3. \A s \in Runners : mine'[s] = "config" => s = r
    BY <2>1, <2>2
  <2> QED BY <1>0, <2>1, <2>2, <2>3 DEF MountInv
<1>2. CASE UNCHANGED <<mounts, mine>>
  BY <1>0, <1>2, SameMounts
<1> QED BY <1>1, <1>2 DEF MountConfigPartition

LEMMA MountGenericKeeps ==
  ASSUME MountInv, NEW r \in Runners, MountGenericPartition(r)
  PROVE  MountInv'
<1>0. partitionMounted' = partitionMounted
  BY DEF MountGenericPartition, Rest
<1>1. CASE mounts' = Register("storage", "generic", 8)
           /\ mine' = [mine EXCEPT ![r] = "generic"]
  <2>0. "storage" \in Partitions /\ "generic" \in {"config", "generic"} /\ 8 \in {4, 8}
    BY DEF Partitions
  <2>1. mounts' \in Seq(Registrations) /\ (Mounted("config") => Mounted("config")')
    BY <1>1, <2>0, RegisterMounts DEF MountInv
  <2>2. /\ mine' = [s \in Runners |-> mine'[s]] /\ mine'[r] = "generic"
        /\ \A s \in Runners : s # r => mine'[s] = mine[s]
    BY <1>1, MineSet
  <2>3. \A s \in Runners : mine'[s] = "config" => mine[s] = "config"
    BY <2>2
  <2> QED BY <1>0, <2>1, <2>2, <2>3 DEF MountInv
<1>2. CASE UNCHANGED <<mounts, mine>>
  BY <1>0, <1>2, SameMounts
<1> QED BY <1>1, <1>2 DEF MountGenericPartition

\* A run unregisters its own mount, so never the one somebody else relies on.
LEMMA ReleaseKeeps ==
  ASSUME MountInv, NEW r \in Runners, ReleaseMount(r)
  PROVE  MountInv'
<1> DEFINE p == IF mine[r] = "config" THEN "config" ELSE "storage"
<1>0. /\ partitionMounted' = partitionMounted /\ mine' = [mine EXCEPT ![r] = ""]
      /\ mounts' = IF mine[r] # "" /\ Mounted(p) THEN Unregister(p) ELSE mounts
  BY DEF ReleaseMount
<1>1. /\ mine' = [s \in Runners |-> mine'[s]] /\ mine'[r] = ""
      /\ \A s \in Runners : s # r => mine'[s] = mine[s]
  BY <1>0, MineSet
<1>2. mounts' \in Seq(Registrations) /\ (\A q : q # p /\ Mounted(q) => Mounted(q)')
  <2>1. CASE mounts' = mounts
    BY <2>1 DEF MountInv, Mounted
  <2>2. CASE Mounted(p) /\ mounts' = Unregister(p)
    <3> HIDE DEF p
    <3> QED BY <2>2, UnregisterKeeps DEF MountInv
  <2> QED BY <1>0, <2>1, <2>2
<1>3. CASE mine[r] = "config"
  <2>1. ~partitionMounted /\ \A s \in Runners : mine'[s] # "config"
    <3>1. ~partitionMounted /\ \A s \in Runners : mine[s] = "config" => s = r
      BY <1>3 DEF MountInv
    <3> QED BY <1>1, <3>1
  <2> QED BY <1>0, <1>1, <1>2, <2>1 DEF MountInv
<1>4. CASE mine[r] # "config"
  <2>1. Mounted("config") => Mounted("config")'
    BY <1>2, <1>4
  <2>2. \A s \in Runners : mine'[s] = "config" => mine[s] = "config"
    BY <1>1
  <2> QED BY <1>0, <1>1, <1>2, <2>1, <2>2 DEF MountInv
<1> QED BY <1>3, <1>4

LEMMA RunStepMounts ==
  ASSUME MountInv, NEW r \in Runners, RunStep(r)
  PROVE  MountInv'
<1>1. CASE MountConfigPartition(r)
  BY <1>1, MountConfigKeeps
<1>2. CASE MountGenericPartition(r)
  BY <1>2, MountGenericKeeps
<1>3. CASE ReleaseMount(r)
  BY <1>3, ReleaseKeeps
<1>4. CASE DetectMount(r) \/ DropDetectFile(r)
  BY <1>4, SameMounts DEF DetectMount, DropDetectFile, Rest
<1>5. CASE CleanPath(r) \/ OpenFile(r) \/ PutItem(r) \/ VerifyFile(r) \/ CloseFile(r)
           \/ RenameFile(r) \/ RemoveFile(r) \/ DiscardFile(r) \/ Look(r) \/ MakeDirectory(r)
           \/ RemoveDirectory(r) \/ TryMissing(r) \/ JudgeCheck(r)
  <2>1. Keeps
    BY <1>5 DEF CleanPath, OpenFile, PutItem, VerifyFile, CloseFile, RenameFile, RemoveFile,
      DiscardFile, Look, MakeDirectory, RemoveDirectory, TryMissing, JudgeCheck
  <2> QED BY <2>1, SameMounts DEF Keeps, Rest
<1> QED BY <1>1, <1>2, <1>3, <1>4, <1>5 DEF RunStep

LEMMA LoadMounts ==
  ASSUME MountInv, LoadMount, mine' = mine
  PROVE  MountInv'
<1>1. CASE ~Mounted("config") /\ mounts' = Register("config", "config", 4) /\ partitionMounted'
  <2>1. /\ mounts' \in Seq(Registrations) /\ Mounted("config")'
        /\ ~partitionMounted /\ \A r \in Runners : mine[r] # "config"
    BY <1>1, MountNew
  <2>2. mine = [r \in Runners |-> mine[r]]
    BY DEF MountInv
  <2> QED BY <1>1, <2>1, <2>2 DEF MountInv
<1>2. CASE UNCHANGED <<mounts, partitionMounted>>
  BY <1>2, SameMounts
<1> QED BY <1>1, <1>2 DEF LoadMount

LEMMA DeleteKeepsMounts ==
  ASSUME MountInv, NEW r \in Runners, Delete(r)
  PROVE  MountInv'
<1>1. UNCHANGED <<mounts, partitionMounted>> /\ mine' = [mine EXCEPT ![r] = ""]
  BY DEF Delete
<1>2. /\ mine' = [s \in Runners |-> mine'[s]]
      /\ \A s \in Runners : mine'[s] = "config" => mine[s] = "config"
  BY <1>1, MineSet
<1>3. Mounted("config")' <=> Mounted("config")
  BY <1>1 DEF Mounted
<1> QED BY <1>1, <1>2, <1>3 DEF MountInv

LEMMA MountInit == ASSUME Init PROVE MountInv
<1>1. mine = [r \in Runners |-> mine[r]] /\ \A r \in Runners : mine[r] # "config"
  BY DEF Init
<1>2. mounts \in Seq(Registrations)
  <2>1. mounts = <<>>
    BY DEF Init
  <2> QED BY <2>1
<1>3. ~partitionMounted
  BY DEF Init
<1> QED BY <1>1, <1>2, <1>3 DEF MountInv

LEMMA MountNext ==
  ASSUME MountInv, [Next]_vars
  PROVE  MountInv'
<1>1. ASSUME NEW r \in Runners, RunStep(r)
      PROVE  MountInv'
  BY <1>1, RunStepMounts
<1>2. CASE RequiredTests
  BY <1>2, SameMounts DEF RequiredTests, NoRun, runvars
<1>3. CASE RequiredDone
  BY <1>3, SameMounts DEF RequiredDone, Quiet
<1>4. CASE LoadConfig
  BY <1>4, LoadMounts DEF LoadConfig, NoRun, runvars
<1>5. CASE ConfigReload
  BY <1>5, LoadMounts DEF ConfigReload
<1>6. CASE StartOptional
  BY <1>6, SameMounts DEF StartOptional, Quiet
<1>7. CASE FsTestCommand
  BY <1>7, SameMounts DEF FsTestCommand, Quiet
<1>8. CASE DeleteOptional \/ SupervisorKills
  BY <1>8, DeleteKeepsMounts DEF DeleteOptional, SupervisorKills, Runners
<1>9. CASE Reboot
  <2>1. /\ mounts' = <<>> /\ partitionMounted' = FALSE /\ mine' = [r \in Runners |-> ""]
    BY <1>9 DEF Reboot
  <2>2. mine' = [r \in Runners |-> mine'[r]] /\ \A r \in Runners : mine'[r] # "config"
    BY <2>1
  <2>3. mounts' = <<>>
    BY <2>1
  <2>4. mounts' \in Seq(Registrations)
    BY <2>3
  <2> QED BY <2>1, <2>2, <2>4 DEF MountInv
<1>10. CASE UNCHANGED vars
  BY <1>10, SameMounts DEF vars, runvars
<1> QED BY <1>1, <1>2, <1>3, <1>4, <1>5, <1>6, <1>7, <1>8, <1>9, <1>10 DEF Next

(* Whoever has mounted the configuration partition, a check or the loader  *)
(* (fs_common.cpp, config/load.cpp), is alone in having done so.           *)
THEOREM MountsCorrect == Spec => []MountInv
BY MountInit, MountNext, PTL DEF Spec

(* A run of the tests only unregisters what it has registered itself       *)
(* (cleanupMount), so what the loader has mounted stays mounted.           *)
THEOREM MountKeptAlways == Spec => []MountKept
<1>1. MountInv => MountKept
  BY DEF MountInv, MountKept
<1> QED BY MountsCorrect, <1>1, PTL

-----------------------------------------------------------------------------
(* The scripts.                                                            *)

\* Calls at which no file may be open: they mount, or they end the check.
Needy(c) == c.do \in {"release", "detect", "config", "generic", "mkdir"}
Closer(c) == c.do \in {"close", "undetect"}

Script(s) == \E S : s \in Seq(S)

\* The names the tests use.
Names == {"tmp", "probe", "bin", "done", "txt", "nested", "dir", "missing", "persist", "cycle"}

\* What a call that can fail needs: what to clean up, a name to rename; and no call
\* creates a file of another name.
Sound(c) ==
  /\ c.do \in {"open", "put", "verify", "rename", "remove", "is", "mkdir", "rmdir", "judge"}
       => Script(c.bail)
  /\ c.do = "rename" => c.name # "" /\ c.to \in Names
  /\ c.do \in {"open", "mkdir"} => c.name \in Names

Ends(s, j) == j = Len(s) + 1 \/ Needy(s[j])
Shut(s, i, j) == \E k \in (i + 1)..(j - 1) : Closer(s[k])

\* No file is open at a needy call, nor at the end: h is the one open before.
Tidy(s, h) ==
  /\ Script(s)
  /\ \A i \in 1..Len(s) : Sound(s[i])
  /\ \A j \in 1..(Len(s) + 1) : Ends(s, j) =>
       /\ h # NoFile => Shut(s, 0, j)
       /\ \A i \in 1..(j - 1) : s[i].do = "open" => Shut(s, i, j)

LEMMA TidyEmpty == ASSUME NEW h PROVE Tidy(<<>>, h) <=> h = NoFile
<1>1. Script(<<>>)
  BY DEF Script
<1>2. Len(<<>>) = 0 /\ (\A j \in 1..1 : j = 1) /\ 1 \in 1..1 /\ Ends(<<>>, 1)
  BY DEF Ends
<1>3. ASSUME h = NoFile PROVE Tidy(<<>>, h)
  BY <1>1, <1>2, <1>3 DEF Tidy
<1>4. ASSUME Tidy(<<>>, h) PROVE h = NoFile
  <2>1. h # NoFile => Shut(<<>>, 0, 1)
    BY <1>2, <1>4 DEF Tidy
  <2>2. ~Shut(<<>>, 0, 1)
    BY DEF Shut
  <2> QED BY <2>1, <2>2
<1> QED BY <1>3, <1>4

LEMMA TidyNeedy ==
  ASSUME NEW s, NEW h, Tidy(s, h), s # <<>>, Needy(Head(s))
  PROVE  h = NoFile
<1>1. Len(s) \in Nat /\ Len(s) >= 1 /\ Head(s) = s[1]
  <2>1. PICK S : s \in Seq(S)
    BY DEF Tidy, Script
  <2> QED BY <2>1
<1>2. 1 \in 1..(Len(s) + 1) /\ Ends(s, 1)
  BY <1>1 DEF Ends
<1>3. h # NoFile => Shut(s, 0, 1)
  BY <1>2 DEF Tidy
<1>4. ~Shut(s, 0, 1)
  BY DEF Shut
<1> QED BY <1>3, <1>4

\* One call later: only an open file or an opening call leaves one open.
LEMMA TidyTail ==
  ASSUME NEW s, NEW h, NEW g, Tidy(s, h), s # <<>>,
         g = NoFile \/ Head(s).do = "open" \/ (h # NoFile /\ ~Closer(Head(s)))
  PROVE  Tidy(Tail(s), g)
<1> DEFINE t == Tail(s)
<1>1. PICK S : s \in Seq(S)
  BY DEF Tidy, Script
<1>2. /\ t \in Seq(S) /\ Len(s) \in Nat /\ Len(s) >= 1 /\ Len(t) = Len(s) - 1
      /\ Head(s) = s[1] /\ \A i \in 1..Len(t) : t[i] = s[i + 1]
  BY <1>1
<1> HIDE DEF t
<1>3. \A i \in 1..Len(t) : Sound(t[i])
  BY <1>2 DEF Tidy
<1>4. ASSUME NEW i \in Nat, NEW j \in 1..(Len(t) + 1), i < j, Shut(s, i + 1, j + 1)
      PROVE  Shut(t, i, j)
  <2>1. PICK k \in (i + 2)..j : Closer(s[k])
    BY <1>2, <1>4 DEF Shut
  <2>2. k - 1 \in (i + 1)..(j - 1) /\ k - 1 \in 1..Len(t)
    BY <1>2, <2>1
  <2>3. t[k - 1] = s[k]
    BY <1>2, <2>2
  <2> QED BY <2>1, <2>2, <2>3 DEF Shut
<1>5. ASSUME NEW j \in 1..(Len(t) + 1), Ends(t, j)
      PROVE  /\ g # NoFile => Shut(t, 0, j)
             /\ \A i \in 1..(j - 1) : t[i].do = "open" => Shut(t, i, j)
  <2>1. j + 1 \in 1..(Len(s) + 1) /\ Ends(s, j + 1)
    BY <1>2, <1>5 DEF Ends
  <2>2. /\ h # NoFile => Shut(s, 0, j + 1)
        /\ \A i \in 1..j : s[i].do = "open" => Shut(s, i, j + 1)
    BY <2>1 DEF Tidy
  <2>3. ASSUME g # NoFile PROVE Shut(t, 0, j)
    <3>1. Shut(s, 1, j + 1)
      <4>1. CASE Head(s).do = "open"
        BY <1>2, <2>2, <4>1
      <4>2. CASE h # NoFile /\ ~Closer(Head(s))
        <5>1. PICK k \in 1..j : Closer(s[k])
          BY <2>2, <4>2 DEF Shut
        <5>2. k # 1
          BY <1>2, <4>2, <5>1
        <5> QED BY <5>1, <5>2 DEF Shut
      <4> QED BY <2>3, <4>1, <4>2
    <3> QED BY <1>2, <1>4, <3>1
  <2>4. ASSUME NEW i \in 1..(j - 1), t[i].do = "open" PROVE Shut(t, i, j)
    <3>1. i \in Nat /\ i < j /\ i \in 1..Len(t) /\ i + 1 \in 1..j
      BY <1>2
    <3>2. Shut(s, i + 1, j + 1)
      BY <1>2, <2>2, <2>4, <3>1
    <3> QED BY <1>4, <3>1, <3>2
  <2> QED BY <2>3, <2>4
<1>6. Script(t)
  BY <1>2 DEF Script
<1>7. Tidy(t, g)
  BY <1>3, <1>5, <1>6 DEF Tidy
<1> QED BY <1>7 DEF t

LEMMA TidyOne ==
  ASSUME NEW c, NEW h, Sound(c), c.do # "open", h = NoFile \/ Closer(c)
  PROVE  Tidy(<<c>>, h)
<1> DEFINE s == <<c>>
<1>1. Script(s) /\ Len(s) = 1 /\ s[1] = c
  <2>1. s \in Seq({c})
    OBVIOUS
  <2> QED BY <2>1 DEF Script
<1> HIDE DEF s
<1>2. \A i \in 1..Len(s) : Sound(s[i])
  BY <1>1
<1>3. ASSUME NEW j \in 1..(Len(s) + 1), Ends(s, j)
      PROVE  /\ h # NoFile => Shut(s, 0, j)
             /\ \A i \in 1..(j - 1) : s[i].do = "open" => Shut(s, i, j)
  <2>1. j \in {1, 2} /\ \A i \in 1..(j - 1) : i = 1
    BY <1>1
  <2>2. ASSUME h # NoFile PROVE Shut(s, 0, j)
    <3>1. Closer(s[1])
      BY <1>1, <2>2
    <3>2. j # 1
      <4>1. ~Needy(s[1])
        BY <3>1 DEF Closer, Needy
      <4> QED BY <1>1, <1>3, <4>1 DEF Ends
    <3> QED BY <2>1, <3>1, <3>2 DEF Shut
  <2>3. \A i \in 1..(j - 1) : s[i].do # "open"
    BY <1>1, <2>1
  <2> QED BY <2>2, <2>3
<1>4. Tidy(s, h)
  BY <1>1, <1>2, <1>3 DEF Tidy
<1> QED BY <1>4 DEF s

LEMMA Wider == ASSUME NEW S, NEW T, NEW s \in Seq(S) PROVE s \in Seq(S \cup T)
<1>1. /\ Len(s) \in Nat /\ DOMAIN s = 1..Len(s) /\ s = [i \in DOMAIN s |-> s[i]]
      /\ \A i \in 1..Len(s) : s[i] \in S \cup T
  OBVIOUS
<1> QED BY <1>1

\* One script after the other.
LEMMA TidyJoin ==
  ASSUME NEW a, NEW b, NEW h, Tidy(a, h), Tidy(b, NoFile)
  PROVE  Tidy(a \o b, h)
<1> DEFINE t == a \o b
<1>1. PICK S : a \in Seq(S) /\ b \in Seq(S)
  <2>1. PICK S : a \in Seq(S)
    BY DEF Tidy, Script
  <2>2. PICK T : b \in Seq(T)
    BY DEF Tidy, Script
  <2>3. a \in Seq(S \cup T)
    BY <2>1, Wider
  <2>4. b \in Seq(T \cup S) /\ T \cup S = S \cup T
    BY <2>2, Wider
  <2> QED BY <2>3, <2>4
<1>2. /\ t \in Seq(S) /\ Len(t) = Len(a) + Len(b)
      /\ \A k \in 1..Len(a) : t[k] = a[k]
      /\ \A k \in 1..Len(b) : t[Len(a) + k] = b[k]
  BY <1>1, Joined
<1>3. Len(a) \in Nat /\ Len(b) \in Nat
  BY <1>1
<1> HIDE DEF t
<1> DEFINE n == Len(a)
           m == Len(b)
<1>4. \A i \in 1..(n + m) : i \notin 1..n => i - n \in 1..m /\ t[i] = b[i - n]
  <2> SUFFICES ASSUME NEW i \in 1..(n + m), i \notin 1..n
               PROVE  i - n \in 1..m /\ t[i] = b[i - n]
    OBVIOUS
  <2>1. i - n \in 1..m /\ n + (i - n) = i
    BY <1>3
  <2> QED BY <1>2, <2>1
<1>5. \A i \in 1..Len(t) : Sound(t[i])
  <2> SUFFICES ASSUME NEW i \in 1..(n + m) PROVE Sound(t[i])
    BY <1>2
  <2>1. CASE i \in 1..n
    BY <1>2, <2>1 DEF Tidy
  <2>2. CASE i \notin 1..n
    BY <1>4, <2>2 DEF Tidy
  <2> QED BY <2>1, <2>2
\* Places in the first script, and its end.
<1>6. ASSUME NEW i \in Nat, NEW j \in 1..(n + 1), Shut(a, i, j)
      PROVE  Shut(t, i, j)
  <2>1. PICK k \in (i + 1)..(j - 1) : Closer(a[k])
    BY <1>6 DEF Shut
  <2>2. k \in 1..n
    BY <1>3, <2>1
  <2> QED BY <1>2, <2>1, <2>2 DEF Shut
<1>7. ASSUME NEW j \in 1..n, Ends(t, j)
      PROVE  /\ h # NoFile => Shut(t, 0, j)
             /\ \A i \in 1..(j - 1) : t[i].do = "open" => Shut(t, i, j)
  <2>1. j \in 1..(n + 1) /\ Ends(a, j) /\ \A i \in 1..(j - 1) : i \in Nat /\ i \in 1..n
    BY <1>2, <1>3, <1>7 DEF Ends
  <2>2. /\ h # NoFile => Shut(a, 0, j)
        /\ \A i \in 1..(j - 1) : a[i].do = "open" => Shut(a, i, j)
    BY <2>1 DEF Tidy
  <2> QED BY <1>2, <1>6, <2>1, <2>2
\* At the end of the first script whatever it opened is closed, so it is later on.
<1>8. ASSUME NEW i \in Nat, NEW j \in (n + 1)..(n + m + 1), Shut(a, i, n + 1)
      PROVE  Shut(t, i, j)
  <2>1. Shut(t, i, n + 1)
    <3>1. n + 1 \in 1..(n + 1)
      BY <1>3
    <3> QED BY <1>6, <1>8, <3>1
  <2>2. PICK k \in (i + 1)..n : Closer(t[k])
    BY <1>3, <2>1 DEF Shut
  <2>3. k \in (i + 1)..(j - 1)
    BY <1>3, <2>2
  <2> QED BY <2>2, <2>3 DEF Shut
<1>9. ASSUME NEW j \in (n + 1)..(n + m + 1), Ends(t, j)
      PROVE  /\ h # NoFile => Shut(t, 0, j)
             /\ \A i \in 1..(j - 1) : t[i].do = "open" => Shut(t, i, j)
  <2>1. n + 1 \in 1..(n + 1) /\ Ends(a, n + 1)
    BY <1>3 DEF Ends
  <2>2. /\ h # NoFile => Shut(a, 0, n + 1)
        /\ \A i \in 1..n : a[i].do = "open" => Shut(a, i, n + 1)
    BY <1>3, <2>1 DEF Tidy
  <2>3. ASSUME NEW i \in 1..(j - 1), t[i].do = "open" PROVE Shut(t, i, j)
    <3>1. CASE i \in 1..n
      BY <1>2, <1>8, <2>2, <2>3, <3>1
    <3>2. CASE i \notin 1..n
      <4>0. /\ i \in 1..(n + m) /\ j - n \in 1..(m + 1) /\ i - n \in 1..((j - n) - 1)
            /\ i - n \in Nat
        BY <1>3, <3>2
      <4>1. b[i - n].do = "open"
        BY <1>4, <2>3, <3>2, <4>0
      <4>2. Ends(b, j - n)
        <5>1. CASE j = n + m + 1
          BY <1>3, <5>1 DEF Ends
        <5>2. CASE j # n + m + 1
          <6>1. j \in 1..(n + m) /\ j \notin 1..n
            BY <1>3, <5>2
          <6>2. Needy(t[j]) /\ t[j] = b[j - n]
            BY <1>2, <1>4, <2>3, <1>9, <5>2, <6>1 DEF Ends
          <6> QED BY <6>2 DEF Ends
        <5> QED BY <5>1, <5>2
      <4>3. Shut(b, i - n, j - n)
        BY <4>0, <4>1, <4>2 DEF Tidy
      <4>4. PICK k \in ((i - n) + 1)..((j - n) - 1) : Closer(b[k])
        BY <4>3 DEF Shut
      <4>5. k \in 1..m /\ n + k \in (i + 1)..(j - 1)
        BY <1>3, <3>2, <4>4
      <4>6. t[n + k] = b[k]
        BY <1>2, <4>5
      <4> QED BY <4>4, <4>5, <4>6 DEF Shut
    <3> QED BY <3>1, <3>2
  <2>4. h # NoFile => Shut(t, 0, j)
    BY <1>8, <2>2
  <2> QED BY <2>3, <2>4
<1>10. ASSUME NEW j \in 1..(Len(t) + 1), Ends(t, j)
       PROVE  /\ h # NoFile => Shut(t, 0, j)
              /\ \A i \in 1..(j - 1) : t[i].do = "open" => Shut(t, i, j)
  <2>1. j \in 1..n \/ j \in (n + 1)..(n + m + 1)
    BY <1>2, <1>3
  <2> QED BY <1>7, <1>9, <1>10, <2>1
<1>11. Script(t)
  BY <1>2 DEF Script
<1>12. Tidy(t, h)
  BY <1>5, <1>10, <1>11 DEF Tidy
<1> QED BY <1>12 DEF t

\* Calls that open nothing and need nothing.
LEMMA TidyPlain ==
  ASSUME NEW s, Script(s), \A i \in 1..Len(s) : Sound(s[i]) /\ s[i].do # "open"
  PROVE  Tidy(s, NoFile)
<1>1. Len(s) \in Nat
  BY DEF Script
<1> QED BY <1>1 DEF Tidy

LEMMA TidyCleans ==
  ASSUME NEW names, Script(names)
  PROVE  Tidy(Cleans(names), NoFile)
<1> DEFINE s == Cleans(names)
<1>1. /\ Len(names) \in Nat /\ DOMAIN names = 1..Len(names)
  BY DEF Script
<1>2. s = [i \in 1..Len(names) |-> Clean(names[i])]
  BY <1>1 DEF Cleans
<1> HIDE DEF s
<1>3. s \in Seq({Clean(names[i]) : i \in 1..Len(names)}) /\ Len(s) = Len(names)
  BY <1>1, <1>2
<1>4. \A i \in 1..Len(s) : Sound(s[i]) /\ s[i].do # "open"
  BY <1>2, <1>3 DEF Clean, Sound
<1>5. Tidy(s, NoFile)
  BY <1>3, <1>4, TidyPlain DEF Script
<1> QED BY <1>5 DEF s

LEMMA TidyRelease == Tidy(<<Release>>, NoFile)
<1>1. Sound(Release) /\ Release.do # "open"
  BY DEF Release, Sound
<1> QED BY <1>1, TidyOne

\* The way out closes what is open.
LEMMA TidyWayOut ==
  ASSUME NEW r, NEW names, Script(names)
  PROVE  Tidy(WayOut(r, names), handle[r])
<1> DEFINE first == IF handle[r] = NoFile THEN <<>> ELSE <<Close>>
<1>1. Tidy(first, handle[r])
  <2>1. CASE handle[r] = NoFile
    BY <2>1, TidyEmpty
  <2>2. CASE handle[r] # NoFile
    <3>1. Sound(Close) /\ Close.do # "open" /\ Closer(Close)
      BY DEF Close, Sound, Closer
    <3> QED BY <2>2, <3>1, TidyOne
  <2> QED BY <2>1, <2>2
<1> HIDE DEF first
<1>2. Tidy(first \o Cleans(names), handle[r])
  BY <1>1, TidyCleans, TidyJoin
<1>3. Tidy((first \o Cleans(names)) \o <<Release>>, handle[r])
  BY <1>2, TidyRelease, TidyJoin
<1> QED BY <1>3 DEF first, WayOut

\* A call put in the place of the one that is due.
LEMMA TidyInstead ==
  ASSUME NEW s, NEW h, NEW c, NEW g, Tidy(s, h), s # <<>>, Tidy(<<c>>, g)
  PROVE  Tidy(<<c>> \o Tail(s), g)
<1>1. Tidy(Tail(s), NoFile)
  BY TidyTail
<1> QED BY <1>1, TidyJoin

-----------------------------------------------------------------------------
(* The checks.                                                             *)

\* Where a piece opens, and where it is needy.
Placed(s, opens, needs) ==
  /\ \A i \in 1..Len(s) : /\ Sound(s[i])
                          /\ s[i].do = "open" => i \in opens
                          /\ Needy(s[i]) => i \in needs
  /\ \A i \in opens : \A j \in needs \cup {Len(s) + 1} : i < j => Shut(s, i, j)

LEMMA TidyPiece ==
  ASSUME NEW s, NEW opens, NEW needs, Script(s), Placed(s, opens, needs)
  PROVE  Tidy(s, NoFile)
<1>1. Len(s) \in Nat
  BY DEF Script
<1>2. ASSUME NEW j \in 1..(Len(s) + 1), Ends(s, j), NEW i \in 1..(j - 1), s[i].do = "open"
      PROVE  Shut(s, i, j)
  <2>1. i \in 1..Len(s) /\ i < j
    BY <1>1
  <2>2. j \in needs \cup {Len(s) + 1}
    BY <1>1, <1>2 DEF Ends, Placed
  <2> QED BY <1>2, <2>1, <2>2 DEF Placed
<1> QED BY <1>2 DEF Tidy, Placed

LEMMA ShortScripts ==
  ASSUME NEW x, NEW y, NEW z
  PROVE  Script(<<>>) /\ Script(<<x>>) /\ Script(<<x, y>>) /\ Script(<<x, y, z>>)
<1>1. Script(<<>>)
  BY DEF Script
<1>2. Script(<<x>>)
  <2>1. <<x>> \in Seq({x})
    OBVIOUS
  <2> QED BY <2>1 DEF Script
<1>3. Script(<<x, y>>)
  <2>1. <<x, y>> \in Seq({x, y})
    OBVIOUS
  <2> QED BY <2>1 DEF Script
<1>4. Script(<<x, y, z>>)
  <2>1. <<x, y, z>> \in Seq({x, y, z})
    OBVIOUS
  <2> QED BY <2>1 DEF Script
<1> QED BY <1>1, <1>2, <1>3, <1>4

LEMMA MountCheckTidy == Tidy(MountCheck, NoFile)
<1> DEFINE s == MountCheck
<1>1. /\ s[1] = Ensure /\ s[2] = Open("probe", "w", <<>>) /\ s[3] = OrNote(Add("m", <<>>))
      /\ s[4] = Close /\ s[5] = [do |-> "discard", name |-> "probe"] /\ s[6] = Judge(<<>>)
      /\ s[7] = Release /\ Len(s) = 7
  BY DEF MountCheck
<1>2. Script(s)
  <2>1. s \in Seq({Ensure, Open("probe", "w", <<>>), OrNote(Add("m", <<>>)), Close,
                   [do |-> "discard", name |-> "probe"], Judge(<<>>), Release})
    BY DEF MountCheck
  <2> QED BY <2>1 DEF Script
<1> HIDE DEF s
<1>3. /\ s[1].do = "detect" /\ s[2].do = "open" /\ s[3].do = "put" /\ s[4].do = "close"
      /\ s[5].do = "discard" /\ s[6].do = "judge" /\ s[7].do = "release"
  BY <1>1 DEF Ensure, Open, OrNote, Add, Put, Close, Judge, Release
<1>4. /\ s[2].bail = <<>> /\ s[3].bail = <<>> /\ s[6].bail = <<>>
      /\ s[2].name \in Names
  BY <1>1 DEF Ensure, Open, OrNote, Add, Put, Close, Judge, Release, Names
<1>5. \A i \in 1..7 : i = 1 \/ i = 2 \/ i = 3 \/ i = 4 \/ i = 5 \/ i = 6 \/ i = 7
  OBVIOUS
<1>6. \A i \in 1..7 : /\ Sound(s[i])
                      /\ s[i].do = "open" => i \in {2}
                      /\ Needy(s[i]) => i \in {1, 7}
  BY <1>3, <1>4, <1>5, ShortScripts DEF Sound, Needy
<1>7. Closer(s[4])
  BY <1>3 DEF Closer
<1>8. \A i \in {2} : \A j \in {1, 7} \cup {7 + 1} : i < j => Shut(s, i, j)
  BY <1>7 DEF Shut
<1>9. Placed(s, {2}, {1, 7})
  <2>1. Len(s) = 7
    BY <1>1
  <2> QED BY <1>6, <1>8, <2>1 DEF Placed
<1>11. Tidy(s, NoFile)
  BY <1>2, <1>9, TidyPiece
<1> QED BY <1>11 DEF s

LEMMA ErrorCheckTidy == Tidy(ErrorCheck, NoFile)
<1> DEFINE s == ErrorCheck
<1>1. /\ s[1] = Ensure /\ s[2] = Missing /\ s[3] = Clean("missing") /\ s[4] = Release
      /\ Len(s) = 4
  BY DEF ErrorCheck
<1>2. Script(s)
  <2>1. s \in Seq({Ensure, Missing, Clean("missing"), Release})
    BY DEF ErrorCheck
  <2> QED BY <2>1 DEF Script
<1> HIDE DEF s
<1>3. /\ s[1].do = "detect" /\ s[2].do = "missing" /\ s[3].do = "clean"
      /\ s[4].do = "release"
  BY <1>1 DEF Ensure, Missing, Clean, Release
<1>5. \A i \in 1..4 : i = 1 \/ i = 2 \/ i = 3 \/ i = 4
  OBVIOUS
<1>6. \A i \in 1..4 : /\ Sound(s[i])
                      /\ s[i].do = "open" => i \in {}
                      /\ Needy(s[i]) => i \in {1, 4}
  BY <1>3, <1>5, ShortScripts DEF Sound, Needy
<1>8. \A i \in {} : \A j \in {1, 4} \cup {4 + 1} : i < j => Shut(s, i, j)
  OBVIOUS
<1>9. Placed(s, {}, {1, 4})
  <2>1. Len(s) = 4
    BY <1>1
  <2> QED BY <1>6, <1>8, <2>1 DEF Placed
<1>11. Tidy(s, NoFile)
  BY <1>2, <1>9, TidyPiece
<1> QED BY <1>11 DEF s

LEMMA PersistenceCheckTidy == Tidy(PersistenceCheck, NoFile)
<1> DEFINE s == PersistenceCheck
<1>1. /\ s[1] = Ensure /\ s[2] = Clean("persist") /\ s[3] = Open("persist", "w", <<>>)
      /\ s[4] = Add("p", <<"persist">>) /\ s[5] = Close
      /\ s[6] = Open("persist", "r", <<"persist">>)
      /\ s[7] = Verify(<<"p">>, <<"persist">>) /\ s[8] = Close /\ s[9] = Clean("persist")
      /\ s[10] = Release /\ Len(s) = 10
  BY DEF PersistenceCheck
<1>2. Script(s)
  <2>1. s \in Seq({Ensure, Clean("persist"), Open("persist", "w", <<>>),
                   Add("p", <<"persist">>), Close, Open("persist", "r", <<"persist">>),
                   Verify(<<"p">>, <<"persist">>), Release})
    BY DEF PersistenceCheck
  <2> QED BY <2>1 DEF Script
<1> HIDE DEF s
<1>3. /\ s[1].do = "detect" /\ s[2].do = "clean" /\ s[3].do = "open" /\ s[4].do = "put"
      /\ s[5].do = "close" /\ s[6].do = "open" /\ s[7].do = "verify" /\ s[8].do = "close"
      /\ s[9].do = "clean" /\ s[10].do = "release"
  BY <1>1 DEF Ensure, Clean, Open, Add, Put, Verify, Close, Release
<1>4. /\ s[3].bail = <<>> /\ s[4].bail = <<"persist">> /\ s[6].bail = <<"persist">>
      /\ s[7].bail = <<"persist">> /\ s[3].name \in Names /\ s[6].name \in Names
  BY <1>1 DEF Ensure, Clean, Open, Add, Put, Verify, Close, Release, Names
<1>5. \A i \in 1..10 : i = 1 \/ i = 2 \/ i = 3 \/ i = 4 \/ i = 5 \/ i = 6 \/ i = 7 \/ i = 8
          \/ i = 9 \/
        i = 10
  OBVIOUS
<1>6. \A i \in 1..10 : /\ Sound(s[i])
                       /\ s[i].do = "open" => i \in {3, 6}
                       /\ Needy(s[i]) => i \in {1, 10}
  <2>1. /\ Script(<<>>) /\ Script(<<"persist">>)
    BY ShortScripts, Zenon
  <2>2. /\ Script(s[3].bail) /\ Script(s[4].bail) /\ Script(s[6].bail)
        /\ Script(s[7].bail)
    BY <1>4, <2>1
  <2>3. /\ Sound(s[1]) /\ Sound(s[2]) /\ Sound(s[3]) /\ Sound(s[4]) /\ Sound(s[5])
        /\ Sound(s[6]) /\ Sound(s[7]) /\ Sound(s[8]) /\ Sound(s[9]) /\ Sound(s[10])
    BY <1>3, <1>4, <2>2 DEF Sound
  <2>4. \A i \in 1..10 : Sound(s[i])
    BY <1>5, <2>3
  <2>5. \A i \in 1..10 : s[i].do = "open" => i \in {3, 6}
    BY <1>3, <1>5
  <2>6. \A i \in 1..10 : Needy(s[i]) => i \in {1, 10}
    BY <1>3, <1>5 DEF Needy
  <2> QED BY <2>4, <2>5, <2>6
<1>7. Closer(s[5]) /\ Closer(s[8])
  BY <1>3 DEF Closer
<1>8. \A i \in {3, 6} : \A j \in {1, 10} \cup {10 + 1} : i < j => Shut(s, i, j)
  BY <1>7 DEF Shut
<1>9. Placed(s, {3, 6}, {1, 10})
  <2>1. Len(s) = 10
    BY <1>1
  <2> QED BY <1>6, <1>8, <2>1 DEF Placed
<1>11. Tidy(s, NoFile)
  BY <1>2, <1>9, TidyPiece
<1> QED BY <1>11 DEF s

LEMMA CycleEndTidy == Tidy(CycleEnd, NoFile)
<1> DEFINE s == CycleEnd
<1>1. /\ s[1] = Open("cycle", "r", <<"cycle">>)
      /\ s[2] = Verify([i \in 1..Cycles |-> "c"], <<"cycle">>) /\ s[3] = Close
      /\ s[4] = Clean("cycle") /\ s[5] = Release /\ Len(s) = 5
  BY DEF CycleEnd
<1>2. Script(s)
  <2>1. s \in Seq({Open("cycle", "r", <<"cycle">>),
                   Verify([i \in 1..Cycles |-> "c"], <<"cycle">>), Close, Clean("cycle"),
                   Release})
    BY DEF CycleEnd
  <2> QED BY <2>1 DEF Script
<1> HIDE DEF s
<1>3. /\ s[1].do = "open" /\ s[2].do = "verify" /\ s[3].do = "close" /\ s[4].do = "clean"
      /\ s[5].do = "release"
  BY <1>1 DEF Open, Verify, Close, Clean, Release
<1>4. /\ s[1].bail = <<"cycle">> /\ s[2].bail = <<"cycle">> /\ s[1].name \in Names
  BY <1>1 DEF Open, Verify, Close, Clean, Release, Names
<1>5. \A i \in 1..5 : i = 1 \/ i = 2 \/ i = 3 \/ i = 4 \/ i = 5
  OBVIOUS
<1>6. \A i \in 1..5 : /\ Sound(s[i])
                      /\ s[i].do = "open" => i \in {1}
                      /\ Needy(s[i]) => i \in {5}
  BY <1>3, <1>4, <1>5, ShortScripts DEF Sound, Needy
<1>7. Closer(s[3])
  BY <1>3 DEF Closer
<1>8. \A i \in {1} : \A j \in {5} \cup {5 + 1} : i < j => Shut(s, i, j)
  BY <1>7 DEF Shut
<1>9. Placed(s, {1}, {5})
  <2>1. Len(s) = 5
    BY <1>1
  <2> QED BY <1>6, <1>8, <2>1 DEF Placed
<1>11. Tidy(s, NoFile)
  BY <1>2, <1>9, TidyPiece
<1> QED BY <1>11 DEF s

(* What is left of two checks when nothing is open yet.                    *)
FilePiece ==
  <<Open("bin", "w", <<>>), Put(0, <<"A", "A", "A">>, <<"bin">>),
    Put(1, <<"B">>, <<"bin">>), Put(3, <<"C">>, <<"bin">>), Close,
    Open("bin", "r", <<"bin">>), Verify(Pattern, <<"bin">>), Close,
    Rename("bin", "done", <<"bin">>), Gone("bin", <<"bin", "done">>),
    There("done", <<"bin", "done">>), Remove("done", <<>>),
    Gone("done", <<>>), Release>>
DirectoryPiece ==
  <<Mkdir("dir", TRUE, <<>>), Mkdir("nested", FALSE, <<"dir">>),
    Open("txt", "w", <<"nested", "dir">>), Add("m", Tree), Close,
    Rmdir("nested", FALSE, Tree), There("txt", Tree), Clean("txt"),
    OrNote(Rmdir("nested", TRUE, <<>>)), OrNote(Rmdir("dir", TRUE, <<>>)),
    Judge(<<"nested", "dir">>), Release>>

LEMMA FilePieceTidy == Tidy(FilePiece, NoFile)
<1> DEFINE s == FilePiece
<1>1. /\ s[1] = Open("bin", "w", <<>>) /\ s[2] = Put(0, <<"A", "A", "A">>, <<"bin">>)
      /\ s[3] = Put(1, <<"B">>, <<"bin">>) /\ s[4] = Put(3, <<"C">>, <<"bin">>)
      /\ s[5] = Close /\ s[6] = Open("bin", "r", <<"bin">>)
      /\ s[7] = Verify(Pattern, <<"bin">>) /\ s[8] = Close
      /\ s[9] = Rename("bin", "done", <<"bin">>) /\ s[10] = Gone("bin", <<"bin", "done">>)
      /\ s[11] = There("done", <<"bin", "done">>) /\ s[12] = Remove("done", <<>>)
      /\ s[13] = Gone("done", <<>>) /\ s[14] = Release /\ Len(s) = 14
  BY DEF FilePiece
<1>2. Script(s)
  <2>1. s \in Seq({Open("bin", "w", <<>>), Put(0, <<"A", "A", "A">>, <<"bin">>),
                   Put(1, <<"B">>, <<"bin">>), Put(3, <<"C">>, <<"bin">>), Close,
                   Open("bin", "r", <<"bin">>), Verify(Pattern, <<"bin">>),
                   Rename("bin", "done", <<"bin">>), Gone("bin", <<"bin", "done">>),
                   There("done", <<"bin", "done">>), Remove("done", <<>>),
                   Gone("done", <<>>), Release})
    BY DEF FilePiece
  <2> QED BY <2>1 DEF Script
<1> HIDE DEF s
<1>3. /\ s[1].do = "open" /\ s[2].do = "put" /\ s[3].do = "put" /\ s[4].do = "put"
      /\ s[5].do = "close" /\ s[6].do = "open" /\ s[7].do = "verify" /\ s[8].do = "close"
      /\ s[9].do = "rename" /\ s[10].do = "is" /\ s[11].do = "is" /\ s[12].do = "remove"
      /\ s[13].do = "is" /\ s[14].do = "release"
  BY <1>1 DEF Open, Put, Verify, Close, Rename, Gone, There, Remove, Release
<1>4. /\ s[1].bail = <<>> /\ s[2].bail = <<"bin">> /\ s[3].bail = <<"bin">>
      /\ s[4].bail = <<"bin">> /\ s[6].bail = <<"bin">> /\ s[7].bail = <<"bin">>
      /\ s[9].bail = <<"bin">> /\ s[10].bail = <<"bin", "done">>
      /\ s[11].bail = <<"bin", "done">> /\ s[12].bail = <<>> /\ s[13].bail = <<>>
  BY <1>1 DEF Open, Put, Verify, Close, Rename, Gone, There, Remove, Release
<1>10. /\ s[9].name # "" /\ s[9].to \in Names
       /\ s[1].name \in Names /\ s[6].name \in Names
  BY <1>1 DEF Rename, Open, Names
<1>5. \A i \in 1..14 : i = 1 \/ i = 2 \/ i = 3 \/ i = 4 \/ i = 5 \/ i = 6 \/ i = 7 \/ i = 8
          \/ i = 9 \/
        i = 10 \/ i = 11 \/ i = 12 \/ i = 13 \/ i = 14
  OBVIOUS
<1>6. \A i \in 1..14 : /\ Sound(s[i])
                       /\ s[i].do = "open" => i \in {1, 6}
                       /\ Needy(s[i]) => i \in {14}
  <2>1. /\ Script(<<>>) /\ Script(<<"bin">>) /\ Script(<<"bin", "done">>)
    BY ShortScripts, Zenon
  <2>2. /\ Script(s[1].bail) /\ Script(s[2].bail) /\ Script(s[3].bail)
        /\ Script(s[4].bail) /\ Script(s[6].bail) /\ Script(s[7].bail)
        /\ Script(s[9].bail) /\ Script(s[10].bail) /\ Script(s[11].bail)
        /\ Script(s[12].bail) /\ Script(s[13].bail)
    BY <1>4, <2>1
  <2>3. /\ Sound(s[1]) /\ Sound(s[2]) /\ Sound(s[3]) /\ Sound(s[4]) /\ Sound(s[5])
        /\ Sound(s[6]) /\ Sound(s[7]) /\ Sound(s[8]) /\ Sound(s[9]) /\ Sound(s[10])
        /\ Sound(s[11]) /\ Sound(s[12]) /\ Sound(s[13]) /\ Sound(s[14])
    BY <1>3, <2>2, <1>10 DEF Sound
  <2>4. \A i \in 1..14 : Sound(s[i])
    BY <1>5, <2>3
  <2>5. \A i \in 1..14 : s[i].do = "open" => i \in {1, 6}
    BY <1>3, <1>5
  <2>6. \A i \in 1..14 : Needy(s[i]) => i \in {14}
    BY <1>3, <1>5 DEF Needy
  <2> QED BY <2>4, <2>5, <2>6
<1>7. Closer(s[5]) /\ Closer(s[8])
  BY <1>3 DEF Closer
<1>8. \A i \in {1, 6} : \A j \in {14} \cup {14 + 1} : i < j => Shut(s, i, j)
  BY <1>7 DEF Shut
<1>9. Placed(s, {1, 6}, {14})
  <2>1. Len(s) = 14
    BY <1>1
  <2> QED BY <1>6, <1>8, <2>1 DEF Placed
<1>11. Tidy(s, NoFile)
  BY <1>2, <1>9, TidyPiece
<1> QED BY <1>11 DEF s

LEMMA DirectoryPieceTidy == Tidy(DirectoryPiece, NoFile)
<1> DEFINE s == DirectoryPiece
<1>1. /\ s[1] = Mkdir("dir", TRUE, <<>>) /\ s[2] = Mkdir("nested", FALSE, <<"dir">>)
      /\ s[3] = Open("txt", "w", <<"nested", "dir">>) /\ s[4] = Add("m", Tree)
      /\ s[5] = Close /\ s[6] = Rmdir("nested", FALSE, Tree) /\ s[7] = There("txt", Tree)
      /\ s[8] = Clean("txt") /\ s[9] = OrNote(Rmdir("nested", TRUE, <<>>))
      /\ s[10] = OrNote(Rmdir("dir", TRUE, <<>>)) /\ s[11] = Judge(<<"nested", "dir">>)
      /\ s[12] = Release /\ Len(s) = 12
  BY DEF DirectoryPiece
<1>2. Script(s)
  <2>1. s \in Seq({Mkdir("dir", TRUE, <<>>), Mkdir("nested", FALSE, <<"dir">>),
                   Open("txt", "w", <<"nested", "dir">>), Add("m", Tree), Close,
                   Rmdir("nested", FALSE, Tree), There("txt", Tree), Clean("txt"),
                   OrNote(Rmdir("nested", TRUE, <<>>)), OrNote(Rmdir("dir", TRUE, <<>>)),
                   Judge(<<"nested", "dir">>), Release})
    BY DEF DirectoryPiece
  <2> QED BY <2>1 DEF Script
<1> HIDE DEF s
<1>3. /\ s[1].do = "mkdir" /\ s[2].do = "mkdir" /\ s[3].do = "open" /\ s[4].do = "put"
      /\ s[5].do = "close" /\ s[6].do = "rmdir" /\ s[7].do = "is" /\ s[8].do = "clean"
      /\ s[9].do = "rmdir" /\ s[10].do = "rmdir" /\ s[11].do = "judge"
      /\ s[12].do = "release"
  BY <1>1 DEF Mkdir, Open, Add, Put, Close, Rmdir, There, Clean, OrNote, Judge, Release
<1>4. /\ s[1].bail = <<>> /\ s[2].bail = <<"dir">> /\ s[3].bail = <<"nested", "dir">>
      /\ s[4].bail = Tree /\ s[6].bail = Tree /\ s[7].bail = Tree /\ s[9].bail = <<>>
      /\ s[10].bail = <<>> /\ s[11].bail = <<"nested", "dir">>
      /\ s[1].name \in Names /\ s[2].name \in Names /\ s[3].name \in Names
  BY <1>1 DEF Mkdir, Open, Add, Put, Close, Rmdir, There, Clean, OrNote, Judge, Release, Names
<1>5. \A i \in 1..12 : i = 1 \/ i = 2 \/ i = 3 \/ i = 4 \/ i = 5 \/ i = 6 \/ i = 7 \/ i = 8
          \/ i = 9 \/
        i = 10 \/ i = 11 \/ i = 12
  OBVIOUS
<1>6. \A i \in 1..12 : /\ Sound(s[i])
                       /\ s[i].do = "open" => i \in {3}
                       /\ Needy(s[i]) => i \in {1, 2, 12}
  <2>1. /\ Script(<<>>) /\ Script(<<"dir">>) /\ Script(<<"nested", "dir">>)
        /\ Script(Tree)
    BY ShortScripts, Zenon DEF Tree
  <2>2. /\ Script(s[1].bail) /\ Script(s[2].bail) /\ Script(s[3].bail)
        /\ Script(s[4].bail) /\ Script(s[6].bail) /\ Script(s[7].bail)
        /\ Script(s[9].bail) /\ Script(s[10].bail) /\ Script(s[11].bail)
    BY <1>4, <2>1
  <2>3. /\ Sound(s[1]) /\ Sound(s[2]) /\ Sound(s[3]) /\ Sound(s[4]) /\ Sound(s[5])
        /\ Sound(s[6]) /\ Sound(s[7]) /\ Sound(s[8]) /\ Sound(s[9]) /\ Sound(s[10])
        /\ Sound(s[11]) /\ Sound(s[12])
    BY <1>3, <1>4, <2>2 DEF Sound
  <2>4. \A i \in 1..12 : Sound(s[i])
    BY <1>5, <2>3
  <2>5. \A i \in 1..12 : s[i].do = "open" => i \in {3}
    BY <1>3, <1>5
  <2>6. \A i \in 1..12 : Needy(s[i]) => i \in {1, 2, 12}
    BY <1>3, <1>5 DEF Needy
  <2> QED BY <2>4, <2>5, <2>6
<1>7. Closer(s[5])
  BY <1>3 DEF Closer
<1>8. \A i \in {3} : \A j \in {1, 2, 12} \cup {12 + 1} : i < j => Shut(s, i, j)
  BY <1>7 DEF Shut
<1>9. Placed(s, {3}, {1, 2, 12})
  <2>1. Len(s) = 12
    BY <1>1
  <2> QED BY <1>6, <1>8, <2>1 DEF Placed
<1>11. Tidy(s, NoFile)
  BY <1>2, <1>9, TidyPiece
<1> QED BY <1>11 DEF s

\* Every cycle of the handle test closes the file it opens.
LEMMA CyclesTidy == Tidy([i \in 1..(3 * Cycles) |-> Cycle(i)], NoFile)
<1> DEFINE n == 3 * Cycles
           s == [i \in 1..n |-> Cycle(i)]
<1>1. n \in Nat /\ Len(s) = n /\ Script(s) /\ \A i \in 1..n : s[i] = Cycle(i)
  <2>1. n \in Nat
    BY FsAssumption
  <2> HIDE DEF n
  <2>2. s \in Seq({Cycle(i) : i \in 1..n}) /\ Len(s) = n
    BY <2>1
  <2>3. Script(s)
    BY <2>2 DEF Script
  <2>4. \A i \in 1..n : s[i] = Cycle(i)
    OBVIOUS
  <2> QED BY <2>1, <2>2, <2>3, <2>4
<1>2. ASSUME NEW i \in 1..n, i % 3 = 1
      PROVE  i + 2 \in 1..n /\ (i + 2) % 3 = 0
  BY <1>2, FsAssumption
<1>3. \A i \in Nat : /\ Cycle(i).do \in {"open", "put", "close"}
                     /\ Cycle(i).do = "open" => i % 3 = 1
                     /\ Cycle(i).do # "close" => Cycle(i).bail = <<"cycle">>
                     /\ Cycle(i).do = "open" => Cycle(i).name \in Names
                     /\ i % 3 = 0 => Cycle(i).do = "close"
  BY DEF Cycle, Open, Add, Put, Close, Names
<1> HIDE DEF s, n
<1>4. ASSUME NEW i \in 1..n
      PROVE  Sound(s[i]) /\ ~Needy(s[i])
  <2>1. i \in Nat /\ s[i] = Cycle(i)
    BY <1>1
  <2>2. /\ s[i].do \in {"open", "put", "close"}
        /\ s[i].do # "close" => s[i].bail = <<"cycle">>
        /\ s[i].do = "open" => s[i].name \in Names
    BY <1>3, <2>1
  <2> QED BY <2>2, ShortScripts DEF Sound, Needy
<1>5. ASSUME NEW i \in 1..n, s[i].do = "open"
      PROVE  Shut(s, i, n + 1)
  <2>1. i \in Nat /\ s[i] = Cycle(i)
    BY <1>1
  <2>2. i % 3 = 1
    BY <1>3, <1>5, <2>1
  <2>3. i + 2 \in 1..n /\ (i + 2) % 3 = 0 /\ i + 2 \in Nat
    BY <1>1, <1>2, <2>2
  <2>4. Closer(s[i + 2])
    BY <1>1, <1>3, <2>3 DEF Closer
  <2>5. i + 2 \in (i + 1)..((n + 1) - 1)
    BY <1>1, <2>3
  <2> QED BY <2>4, <2>5 DEF Shut
<1>6. \A j \in 1..(n + 1) : Ends(s, j) => j = n + 1
  BY <1>1, <1>4 DEF Ends
<1>7. \A i \in 1..((n + 1) - 1) : i \in 1..n
  BY <1>1
<1>8. Tidy(s, NoFile)
  BY <1>1, <1>4, <1>5, <1>6, <1>7 DEF Tidy
<1> QED BY <1>8 DEF s, n

LEMMA EnsureTidy == Tidy(<<Ensure>>, NoFile)
<1>1. Sound(Ensure) /\ Ensure.do # "open"
  BY DEF Ensure, Sound
<1> QED BY <1>1, TidyOne

LEMMA FileCheckTidy == Tidy(FileCheck, NoFile)
<1> DEFINE a == <<Ensure, Clean("bin"), Clean("done")>>
<1>1. /\ a[1] = Ensure /\ a[2] = Clean("bin") /\ a[3] = Clean("done") /\ Len(a) = 3
      /\ Script(a)
  BY ShortScripts
<1>2. FileCheck = a \o FilePiece
  BY DEF FileCheck, FilePiece
<1> HIDE DEF a
<1>3. a[1].do = "detect" /\ a[2].do = "clean" /\ a[3].do = "clean"
  BY <1>1 DEF Ensure, Clean
<1>4. \A i \in 1..3 : i = 1 \/ i = 2 \/ i = 3
  OBVIOUS
<1>5. \A i \in 1..3 : Sound(a[i]) /\ a[i].do # "open"
  BY <1>3, <1>4 DEF Sound
<1>6. Tidy(a, NoFile)
  BY <1>1, <1>5, TidyPlain
<1> QED BY <1>2, <1>6, FilePieceTidy, TidyJoin

LEMMA DirectoryCheckTidy == Tidy(DirectoryCheck, NoFile)
<1>1. Script(Tree)
  BY ShortScripts DEF Tree
<1>2. Tidy(<<Ensure>> \o Cleans(Tree), NoFile)
  BY <1>1, EnsureTidy, TidyCleans, TidyJoin
<1>3. DirectoryCheck = (<<Ensure>> \o Cleans(Tree)) \o DirectoryPiece
  BY DEF DirectoryCheck, DirectoryPiece
<1> QED BY <1>2, <1>3, DirectoryPieceTidy, TidyJoin

LEMMA HandleCycleCheckTidy == Tidy(HandleCycleCheck, NoFile)
<1> DEFINE a == <<Ensure, Clean("cycle")>>
           b == [i \in 1..(3 * Cycles) |-> Cycle(i)]
<1>1. a[1] = Ensure /\ a[2] = Clean("cycle") /\ Len(a) = 2 /\ Script(a)
  BY ShortScripts
<1>2. HandleCycleCheck = (a \o b) \o CycleEnd
  BY DEF HandleCycleCheck
<1>3. Tidy(b, NoFile)
  BY CyclesTidy
<1> HIDE DEF a, b
<1>4. a[1].do = "detect" /\ a[2].do = "clean"
  BY <1>1 DEF Ensure, Clean
<1>5. \A i \in 1..2 : i = 1 \/ i = 2
  OBVIOUS
<1>6. \A i \in 1..2 : Sound(a[i]) /\ a[i].do # "open"
  BY <1>4, <1>5 DEF Sound
<1>7. Tidy(a, NoFile)
  BY <1>1, <1>6, TidyPlain
<1>8. Tidy(a \o b, NoFile)
  BY <1>3, <1>7, TidyJoin
<1> QED BY <1>2, <1>8, CycleEndTidy, TidyJoin

\* However many cycles the handle test has.
LEMMA ChecksTidy == Len(Checks) = 6 /\ \A i \in 1..6 : Tidy(Checks[i], NoFile)
<1>1. /\ Len(Checks) = 6
      /\ Checks[1] = MountCheck /\ Checks[2] = FileCheck /\ Checks[3] = DirectoryCheck
      /\ Checks[4] = ErrorCheck /\ Checks[5] = PersistenceCheck
      /\ Checks[6] = HandleCycleCheck
  BY DEF Checks
<1>2. \A i \in 1..6 : i = 1 \/ i = 2 \/ i = 3 \/ i = 4 \/ i = 5 \/ i = 6
  OBVIOUS
<1> QED BY <1>1, <1>2, MountCheckTidy, FileCheckTidy, DirectoryCheckTidy, ErrorCheckTidy,
  PersistenceCheckTidy, HandleCycleCheckTidy

-----------------------------------------------------------------------------
(* The handles.                                                            *)

HandleInv ==
  /\ todo = [r \in Runners |-> todo[r]] /\ handle = [r \in Runners |-> handle[r]]
  /\ next = [r \in Runners |-> next[r]] /\ leaked = [p \in Partitions |-> leaked[p]]
  /\ \A r \in Runners : Tidy(todo[r], handle[r])
  /\ \A r \in Runners : next[r] \in Nat /\ (Active(r) => next[r] > 0)
  /\ Active("boot") => phase = "testing"
  /\ Active("optional") => phase = "optional"
  /\ \A p \in Partitions : leaked[p] \in Nat
  /\ kills \in Nat
  /\ HandlesClosed

\* What a call of r's check does to the scripts and the open files.
StepTidy(r) ==
  /\ todo' = [s \in Runners |-> todo'[s]] /\ handle' = [s \in Runners |-> handle'[s]]
  /\ Tidy(todo'[r], handle'[r])
  /\ \A s \in Runners \ {r} : todo'[s] = todo[s] /\ (handle[s] = NoFile => handle'[s] = NoFile)

LEMMA TodoSet ==
  ASSUME HandleInv, NEW r \in Runners, NEW x, todo' = [todo EXCEPT ![r] = x]
  PROVE  /\ todo' = [s \in Runners |-> todo'[s]] /\ todo'[r] = x
         /\ \A s \in Runners \ {r} : todo'[s] = todo[s]
BY DEF HandleInv

LEMMA HandleSet ==
  ASSUME HandleInv, NEW r \in Runners, NEW h, handle' = [handle EXCEPT ![r] = h]
  PROVE  /\ handle' = [s \in Runners |-> handle'[s]] /\ handle'[r] = h
         /\ \A s \in Runners : s # r => handle'[s] = handle[s]
BY DEF HandleInv

LEMMA DueCall ==
  ASSUME HandleInv, NEW r \in Runners, Active(r)
  PROVE  /\ Tidy(todo[r], handle[r]) /\ todo[r] # <<>>
         /\ Op(r) = Head(todo[r]) /\ Sound(Op(r))
         /\ Needy(Op(r)) => handle[r] = NoFile
<1>1. Tidy(todo[r], handle[r]) /\ todo[r] # <<>>
  BY DEF HandleInv, Active
<1>2. PICK S : todo[r] \in Seq(S)
  BY <1>1 DEF Tidy, Script
<1>3. 1 \in 1..Len(todo[r]) /\ Head(todo[r]) = todo[r][1]
  BY <1>1, <1>2
<1>4. Sound(Op(r))
  BY <1>1, <1>3 DEF Tidy, Op
<1>5. Needy(Op(r)) => handle[r] = NoFile
  BY <1>1, TidyNeedy DEF Op
<1> QED BY <1>1, <1>4, <1>5 DEF Op

LEMMA DoneTidy ==
  ASSUME HandleInv, NEW r \in Runners, Active(r), Done(r),
         handle' = [s \in Runners |-> handle'[s]],
         \A s \in Runners : s # r /\ handle[s] = NoFile => handle'[s] = NoFile,
         \/ handle'[r] = NoFile \/ Op(r).do = "open"
         \/ handle[r] # NoFile /\ ~Closer(Op(r))
  PROVE  StepTidy(r)
<1>1. /\ todo' = [s \in Runners |-> todo'[s]] /\ todo'[r] = Tail(todo[r])
      /\ \A s \in Runners \ {r} : todo'[s] = todo[s]
  BY TodoSet DEF Done
<1>2. /\ Tidy(todo[r], handle[r]) /\ todo[r] # <<>> /\ Op(r) = Head(todo[r])
  BY DueCall
<1>3. Tidy(Tail(todo[r]), handle'[r])
  BY <1>2, TidyTail
<1> QED BY <1>1, <1>3 DEF StepTidy

LEMMA DoneSame ==
  ASSUME HandleInv, NEW r \in Runners, Active(r), Done(r), handle' = handle, ~Closer(Op(r))
  PROVE  StepTidy(r)
<1>1. handle' = [s \in Runners |-> handle'[s]]
  BY DEF HandleInv
<1> QED BY <1>1, DoneTidy

LEMMA OutTidy ==
  ASSUME HandleInv, NEW r \in Runners, Active(r), Out(r), handle' = handle,
         Op(r).do \in {"open", "put", "verify", "rename", "remove", "is", "mkdir", "rmdir",
                       "judge"}
  PROVE  StepTidy(r)
<1>1. /\ todo' = [s \in Runners |-> todo'[s]] /\ todo'[r] = WayOut(r, Op(r).bail)
      /\ \A s \in Runners \ {r} : todo'[s] = todo[s]
  BY TodoSet DEF Out
<1>2. Script(Op(r).bail)
  BY DueCall DEF Sound
<1>3. Tidy(todo'[r], handle'[r])
  BY <1>1, <1>2, TidyWayOut
<1>4. handle' = [s \in Runners |-> handle'[s]]
  BY DEF HandleInv
<1> QED BY <1>1, <1>3, <1>4 DEF StepTidy

LEMMA ReleaseNext ==
  ASSUME HandleInv, NEW r \in Runners, Active(r), Needy(Op(r)), handle' = handle,
         todo' = [todo EXCEPT ![r] = <<Release>>]
  PROVE  StepTidy(r)
<1>1. /\ todo' = [s \in Runners |-> todo'[s]] /\ todo'[r] = <<Release>>
      /\ \A s \in Runners \ {r} : todo'[s] = todo[s]
  BY TodoSet
<1>2. handle[r] = NoFile
  BY DueCall
<1>3. Tidy(todo'[r], handle'[r])
  BY <1>1, <1>2, TidyRelease
<1>4. handle' = [s \in Runners |-> handle'[s]]
  BY DEF HandleInv
<1> QED BY <1>1, <1>3, <1>4 DEF StepTidy

LEMMA InsteadTidy ==
  ASSUME HandleInv, NEW r \in Runners, Active(r), NEW c, Instead(r, c),
         handle' = [s \in Runners |-> handle'[s]],
         \A s \in Runners : s # r => handle'[s] = handle[s], Tidy(<<c>>, handle'[r])
  PROVE  StepTidy(r)
<1>1. /\ todo' = [s \in Runners |-> todo'[s]] /\ todo'[r] = <<c>> \o Tail(todo[r])
      /\ \A s \in Runners \ {r} : todo'[s] = todo[s]
  BY TodoSet DEF Instead
<1>2. Tidy(todo[r], handle[r]) /\ todo[r] # <<>>
  BY DueCall
<1>3. Tidy(todo'[r], handle'[r])
  BY <1>1, <1>2, TidyInstead
<1> QED BY <1>1, <1>3 DEF StepTidy

\* A handle that loses its file is still one to close.
LEMMA StaleKeeps ==
  ASSUME HandleInv, NEW p \in Partitions, NEW f
  PROVE  /\ Stale(p, f) = [s \in Runners |-> Stale(p, f)[s]]
         /\ \A s \in Runners : handle[s] = NoFile => Stale(p, f)[s] = NoFile
<1>1. NoFile.part # p
  BY DEF NoFile, Partitions
<1> QED BY <1>1 DEF Stale

LEMMA HereIsOne ==
  ASSUME mounts \in Seq(Registrations), mounts # <<>>
  PROVE  Here \in Partitions
<1>1. mounts[1] \in Registrations
  OBVIOUS
<1> QED BY <1>1 DEF Here, Registrations

LEMMA DetectTidy ==
  ASSUME HandleInv, NEW r \in Runners, DetectMount(r)
  PROVE  StepTidy(r)
<1>0. Active(r) /\ Needy(Op(r))
  BY DEF DetectMount, At, Needy
<1>1. CASE /\ Instead(r, Undetect)
           /\ handle' = [handle EXCEPT ![r] = [part |-> Here, name |-> "tmp", mode |-> "a",
                                               alive |-> TRUE]]
  <2>1. handle' = [s \in Runners |-> handle'[s]]
        /\ \A s \in Runners : s # r => handle'[s] = handle[s]
    BY <1>1, HandleSet
  <2>2. Tidy(<<Undetect>>, handle'[r])
    <3>1. Sound(Undetect) /\ Undetect.do # "open" /\ Closer(Undetect)
      BY DEF Undetect, Sound, Closer
    <3> QED BY <3>1, TidyOne
  <2> QED BY <1>0, <1>1, <2>1, <2>2, InsteadTidy
<1>2. CASE Instead(r, MountConfig) /\ handle' = handle
  <2>1. handle' = [s \in Runners |-> handle'[s]]
    BY <1>2 DEF HandleInv
  <2>2. Tidy(<<MountConfig>>, handle'[r])
    <3>1. Sound(MountConfig) /\ MountConfig.do # "open"
      BY DEF MountConfig, Sound
    <3>2. handle'[r] = NoFile
      BY <1>0, <1>2, DueCall
    <3> QED BY <3>1, <3>2, TidyOne
  <2> QED BY <1>0, <1>2, <2>1, <2>2, InsteadTidy
<1> QED BY <1>1, <1>2 DEF DetectMount

LEMMA UndetectTidy ==
  ASSUME HandleInv, mounts \in Seq(Registrations), NEW r \in Runners, DropDetectFile(r)
  PROVE  StepTidy(r)
<1> DEFINE old == IF mounts # <<>> THEN Stale(Here, "tmp") ELSE handle
<1>1. Active(r) /\ Done(r) /\ handle' = [old EXCEPT ![r] = NoFile]
  BY DEF DropDetectFile, At
<1>2. old = [s \in Runners |-> old[s]] /\ \A s \in Runners : handle[s] = NoFile => old[s] = NoFile
  <2>1. CASE mounts # <<>>
    BY <2>1, HereIsOne, StaleKeeps
  <2>2. CASE mounts = <<>>
    BY <2>2 DEF HandleInv
  <2> QED BY <2>1, <2>2
<1> HIDE DEF old
<1>3. /\ handle' = [s \in Runners |-> handle'[s]] /\ handle'[r] = NoFile
      /\ \A s \in Runners : s # r /\ handle[s] = NoFile => handle'[s] = NoFile
  BY <1>1, <1>2
<1> QED BY <1>1, <1>3, DoneTidy

LEMMA MountTidy ==
  ASSUME HandleInv, NEW r \in Runners, MountConfigPartition(r) \/ MountGenericPartition(r)
  PROVE  StepTidy(r)
<1>0. Active(r) /\ Needy(Op(r)) /\ ~Closer(Op(r)) /\ handle' = handle
  BY DEF MountConfigPartition, MountGenericPartition, At, Needy, Closer
<1>1. CASE Done(r)
  BY <1>0, <1>1, DoneSame
<1>2. CASE Instead(r, MountGeneric)
  <2>1. handle' = [s \in Runners |-> handle'[s]]
    BY <1>0 DEF HandleInv
  <2>2. Tidy(<<MountGeneric>>, handle'[r])
    <3>1. Sound(MountGeneric) /\ MountGeneric.do # "open"
      BY DEF MountGeneric, Sound
    <3>2. handle'[r] = NoFile
      BY <1>0, DueCall
    <3> QED BY <3>1, <3>2, TidyOne
  <2> QED BY <1>0, <1>2, <2>1, <2>2, InsteadTidy
<1>3. CASE NoBail(r)
  BY <1>0, <1>3, ReleaseNext DEF NoBail
<1> QED BY <1>1, <1>2, <1>3 DEF MountConfigPartition, MountGenericPartition

\* A removed file stays open where it is open.
LEMMA RemovalTidy ==
  ASSUME HandleInv, NEW r \in Runners, Active(r), Done(r), ~Closer(Op(r)),
         NEW p \in Partitions, NEW f, handle' = Stale(p, f)
  PROVE  StepTidy(r)
<1>1. /\ handle' = [s \in Runners |-> handle'[s]]
      /\ \A s \in Runners : handle[s] = NoFile => handle'[s] = NoFile
  BY StaleKeeps
<1> QED BY <1>1, DoneTidy

LEMMA CleanTidy ==
  ASSUME HandleInv, mounts \in Seq(Registrations), NEW r \in Runners, CleanPath(r)
  PROVE  StepTidy(r)
<1>1. Active(r) /\ Done(r) /\ ~Closer(Op(r))
  BY DEF CleanPath, At, Closer
<1>2. CASE handle' = handle
  BY <1>1, <1>2, DoneSame
<1>3. CASE mounts # <<>> /\ handle' = Stale(Here, Op(r).name)
  BY <1>1, <1>3, HereIsOne, RemovalTidy
<1> QED BY <1>2, <1>3 DEF CleanPath, Exists

LEMMA RemoveTidy ==
  ASSUME HandleInv, mounts \in Seq(Registrations), NEW r \in Runners, RemoveFile(r)
  PROVE  StepTidy(r)
<1>1. Active(r) /\ Op(r).do = "remove" /\ ~Closer(Op(r))
  BY DEF RemoveFile, At, Closer
<1>2. CASE Out(r) /\ handle' = handle
  BY <1>1, <1>2, OutTidy
<1>3. CASE Done(r) /\ mounts # <<>> /\ handle' = Stale(Here, Op(r).name)
  BY <1>1, <1>3, HereIsOne, RemovalTidy
<1> QED BY <1>2, <1>3 DEF RemoveFile, Exists

LEMMA OpenTidy ==
  ASSUME HandleInv, NEW r \in Runners, OpenFile(r)
  PROVE  StepTidy(r)
<1>1. Active(r) /\ Op(r).do = "open"
  BY DEF OpenFile, At
<1>2. CASE Out(r) /\ handle' = handle
  BY <1>1, <1>2, OutTidy
<1>3. CASE Done(r) /\ handle' = [handle EXCEPT ![r] = [part |-> Here, name |-> Op(r).name,
                                   mode |-> Op(r).mode, alive |-> TRUE]]
  <2>1. /\ handle' = [s \in Runners |-> handle'[s]]
        /\ \A s \in Runners : s # r => handle'[s] = handle[s]
    BY <1>3, HandleSet
  <2> QED BY <1>1, <1>3, <2>1, DoneTidy
<1> QED BY <1>2, <1>3 DEF OpenFile

LEMMA CloseTidy ==
  ASSUME HandleInv, NEW r \in Runners, CloseFile(r)
  PROVE  StepTidy(r)
<1>1. Active(r) /\ Done(r) /\ handle' = [handle EXCEPT ![r] = NoFile]
  BY DEF CloseFile, At
<1>2. /\ handle' = [s \in Runners |-> handle'[s]] /\ handle'[r] = NoFile
      /\ \A s \in Runners : s # r => handle'[s] = handle[s]
  BY <1>1, HandleSet
<1> QED BY <1>1, <1>2, DoneTidy

LEMMA RenameTidy ==
  ASSUME HandleInv, NEW r \in Runners, RenameFile(r)
  PROVE  StepTidy(r)
<1>1. Active(r) /\ Op(r).do = "rename" /\ ~Closer(Op(r))
  BY DEF RenameFile, At, Closer
<1>2. CASE Out(r) /\ handle' = handle
  BY <1>1, <1>2, OutTidy
<1>3. CASE Done(r) /\ handle' = [s \in Runners |-> IF handle[s].name = Op(r).name
                                                  THEN [handle[s] EXCEPT !.name = Op(r).to]
                                                  ELSE handle[s]]
  <2>1. NoFile.name # Op(r).name
    BY <1>1, DueCall DEF NoFile, Sound
  <2>2. /\ handle' = [s \in Runners |-> handle'[s]]
        /\ \A s \in Runners : handle[s] = NoFile => handle'[s] = NoFile
    BY <1>3, <2>1
  <2> QED BY <1>1, <1>3, <2>2, DoneTidy
<1> QED BY <1>2, <1>3 DEF RenameFile

\* The calls that leave every handle as it is.
LEMMA QuietTidy ==
  ASSUME HandleInv, NEW r \in Runners,
         \/ PutItem(r) \/ VerifyFile(r) \/ DiscardFile(r) \/ Look(r)
         \/ MakeDirectory(r) \/ RemoveDirectory(r) \/ TryMissing(r) \/ JudgeCheck(r)
  PROVE  StepTidy(r)
<1>1. Active(r) /\ ~Closer(Op(r)) /\ handle' = handle
  BY DEF PutItem, VerifyFile, DiscardFile, Look, MakeDirectory, RemoveDirectory, TryMissing,
    JudgeCheck, At, Closer
<1>2. CASE Done(r)
  BY <1>1, <1>2, DoneSame
<1>3. CASE Out(r) /\ Op(r).do \in {"put", "verify", "is", "mkdir", "rmdir", "judge"}
  BY <1>1, <1>3, OutTidy
<1>4. CASE todo' = [todo EXCEPT ![r] = <<Release>>] /\ Op(r).do = "mkdir"
  BY <1>1, <1>4, ReleaseNext DEF Needy
<1>5. CASE PutItem(r)
  BY <1>2, <1>3, <1>5 DEF PutItem, At
<1>6. CASE VerifyFile(r)
  BY <1>2, <1>3, <1>6 DEF VerifyFile, At
<1>7. CASE DiscardFile(r) \/ TryMissing(r)
  BY <1>2, <1>7 DEF DiscardFile, TryMissing
<1>8. CASE Look(r)
  BY <1>2, <1>3, <1>8 DEF Look, At
<1>9. CASE MakeDirectory(r)
  BY <1>2, <1>3, <1>4, <1>9 DEF MakeDirectory, At
<1>10. CASE RemoveDirectory(r)
  BY <1>2, <1>3, <1>10 DEF RemoveDirectory, At
<1>11. CASE JudgeCheck(r)
  BY <1>2, <1>3, <1>11 DEF JudgeCheck, At
<1> QED BY <1>5, <1>6, <1>7, <1>8, <1>9, <1>10, <1>11

LEMMA StepKeeps ==
  ASSUME HandleInv, NEW r \in Runners, Active(r), StepTidy(r),
         UNCHANGED <<next, leaked, phase, kills>>
  PROVE  HandleInv'
<1>1. \A s \in Runners : Tidy(todo'[s], handle'[s])
  <2>1. ASSUME NEW s \in Runners, s # r PROVE Tidy(todo'[s], handle'[s])
    <3>1. todo'[s] = todo[s] /\ (handle'[s] # NoFile => handle[s] # NoFile)
      BY <2>1 DEF StepTidy
    <3>2. Tidy(todo[s], handle[s])
      BY DEF HandleInv
    <3> QED BY <3>1, <3>2 DEF Tidy
  <2> QED BY <2>1 DEF StepTidy
<1>2. \A s \in Runners : Active(s)' => Active(s)
  BY DEF StepTidy, Active
<1>3. "boot" \in Runners /\ "optional" \in Runners
  BY DEF Runners
<1>4. HandlesClosed'
  BY DEF HandleInv, HandlesClosed
<1>5. \A s \in Runners : next'[s] \in Nat /\ (Active(s)' => next'[s] > 0)
  BY <1>2 DEF HandleInv
<1>6. (Active("boot")' => phase' = "testing") /\ (Active("optional")' => phase' = "optional")
  BY <1>2, <1>3 DEF HandleInv
<1> QED BY <1>1, <1>4, <1>5, <1>6 DEF HandleInv, StepTidy

\* Nothing is open when a check releases its mount, so nothing is lost.
LEMMA ReleaseHandles ==
  ASSUME HandleInv, NEW r \in Runners, ReleaseMount(r)
  PROVE  HandleInv'
<1> DEFINE p == IF mine[r] = "config" THEN "config" ELSE "storage"
           over == next[r] > Len(Checks)
           old == IF mine[r] # "" THEN Stale(p, "*") ELSE handle
<1>0. Active(r) /\ Needy(Op(r)) /\ phase' = phase /\ kills' = kills
  BY DEF ReleaseMount, At, Needy, budget
<1>1. handle[r] = NoFile
  BY <1>0, DueCall
<1>2. /\ handle' = [old EXCEPT ![r] = NoFile]
      /\ todo' = [todo EXCEPT ![r] = IF over THEN <<>> ELSE Checks[next[r]]]
      /\ next' = [next EXCEPT ![r] = IF over THEN 0 ELSE next[r] + 1]
  BY DEF ReleaseMount
<1>3. leaked' = [q \in Partitions |-> IF mine[r] # "" /\ q = p THEN 0 ELSE leaked[q]]
  <2>1. \A q \in Partitions : q # "-"
    BY DEF Partitions
  <2>2. leaked' = [q \in Partitions |-> IF mine[r] # "" /\ q = p THEN 0
                                        ELSE leaked[q] + (IF q = "-" THEN 1 ELSE 0)]
    BY <1>1 DEF ReleaseMount
  <2>3. \A q \in Partitions : leaked[q] + (IF q = "-" THEN 1 ELSE 0) = leaked[q]
    <3>1. \A q \in Partitions : leaked[q] \in Nat
      BY DEF HandleInv
    <3>2. \A n \in Nat : n + 0 = n
      OBVIOUS
    <3> QED BY <2>1, <3>1, <3>2
  <2> HIDE DEF p
  <2> QED BY <2>2, <2>3
<1>4. old = [s \in Runners |-> old[s]] /\ \A s \in Runners : handle[s] = NoFile => old[s] = NoFile
  <2>1. CASE mine[r] # ""
    <3>1. p \in Partitions
      BY DEF Partitions
    <3> HIDE DEF p
    <3> QED BY <2>1, <3>1, StaleKeeps
  <2>2. CASE mine[r] = ""
    BY <2>2 DEF HandleInv
  <2> QED BY <2>1, <2>2
<1> HIDE DEF old, p
<1>5. /\ handle' = [s \in Runners |-> handle'[s]] /\ handle'[r] = NoFile
      /\ \A s \in Runners : s # r /\ handle[s] = NoFile => handle'[s] = NoFile
  BY <1>2, <1>4
<1>6. /\ todo' = [s \in Runners |-> todo'[s]]
      /\ todo'[r] = IF over THEN <<>> ELSE Checks[next[r]]
      /\ \A s \in Runners \ {r} : todo'[s] = todo[s]
  BY <1>2, TodoSet
<1>7. next[r] \in Nat /\ next[r] > 0
  BY <1>0 DEF HandleInv
<1>8. Tidy(todo'[r], handle'[r])
  <2>1. CASE over
    BY <1>5, <1>6, <2>1, TidyEmpty
  <2>2. CASE ~over
    <3>1. next[r] \in 1..6
      BY <1>7, <2>2, ChecksTidy
    <3> QED BY <1>5, <1>6, <2>2, <3>1, ChecksTidy
  <2> QED BY <2>1, <2>2
<1>9. \A s \in Runners : Tidy(todo'[s], handle'[s])
  <2>1. ASSUME NEW s \in Runners, s # r PROVE Tidy(todo'[s], handle'[s])
    <3>1. todo'[s] = todo[s] /\ (handle'[s] # NoFile => handle[s] # NoFile)
      BY <1>5, <1>6, <2>1
    <3>2. Tidy(todo[s], handle[s])
      BY DEF HandleInv
    <3> QED BY <3>1, <3>2 DEF Tidy
  <2> QED BY <1>8, <2>1
<1>10. \A s \in Runners : Active(s)' => Active(s)
  BY <1>0, <1>6 DEF Active
<1>11. /\ next' = [s \in Runners |-> next'[s]]
       /\ \A s \in Runners : next'[s] \in Nat /\ (Active(s)' => next'[s] > 0)
  <2>0. /\ next' = [s \in Runners |-> next'[s]]
        /\ next'[r] = IF over THEN 0 ELSE next[r] + 1
        /\ \A s \in Runners : s # r => next'[s] = next[s]
    BY <1>2 DEF HandleInv
  <2>1. next'[r] \in Nat /\ (Active(r)' => next'[r] > 0)
    <3>1. CASE over
      BY <1>6, <2>0, <3>1 DEF Active
    <3>2. CASE ~over
      BY <1>7, <2>0, <3>2
    <3> QED BY <3>1, <3>2
  <2>2. ASSUME NEW s \in Runners, s # r
        PROVE  next'[s] \in Nat /\ (Active(s)' => next'[s] > 0)
    BY <1>10, <2>0, <2>2 DEF HandleInv
  <2> QED BY <2>0, <2>1, <2>2
<1>12. (Active("boot")' => phase' = "testing") /\ (Active("optional")' => phase' = "optional")
  <2>1. "boot" \in Runners /\ "optional" \in Runners
    BY DEF Runners
  <2> QED BY <1>0, <1>10, <2>1 DEF HandleInv
<1>13. /\ leaked' = [q \in Partitions |-> leaked'[q]]
       /\ \A q \in Partitions : leaked'[q] \in Nat /\ leaked'[q] <= leaked[q]
  <2>1. \A q \in Partitions : leaked[q] \in Nat
    BY DEF HandleInv
  <2>2. \A q \in Partitions : leaked'[q] = 0 \/ leaked'[q] = leaked[q]
    BY <1>3
  <2>3. leaked' = [q \in Partitions |-> leaked'[q]]
    BY <1>3
  <2> QED BY <2>1, <2>2, <2>3
<1>14. HandlesClosed'
  <2>1. "config" \in Partitions /\ "storage" \in Partitions
    BY DEF Partitions
  <2>2. leaked'["config"] <= leaked["config"] /\ leaked'["storage"] <= leaked["storage"]
    BY <1>13, <2>1
  <2>3. /\ leaked["config"] \in Nat /\ leaked["storage"] \in Nat
        /\ leaked'["config"] \in Nat /\ leaked'["storage"] \in Nat /\ kills \in Nat
    BY <1>13, <2>1 DEF HandleInv
  <2> QED BY <1>0, <2>2, <2>3 DEF HandleInv, HandlesClosed
<1> QED BY <1>0, <1>5, <1>6, <1>9, <1>11, <1>12, <1>13, <1>14 DEF HandleInv

LEMMA RunStepHandles ==
  ASSUME HandleInv, mounts \in Seq(Registrations), NEW r \in Runners, RunStep(r)
  PROVE  HandleInv'
<1>1. CASE ReleaseMount(r)
  BY <1>1, ReleaseHandles
<1>2. CASE ~ReleaseMount(r)
  <2>1. StepTidy(r)
    BY <1>2, DetectTidy, UndetectTidy, MountTidy, CleanTidy, RemoveTidy, OpenTidy, CloseTidy,
      RenameTidy, QuietTidy DEF RunStep
  <2>2. Active(r) /\ leaked' = leaked /\ Rest
    BY <1>2 DEF RunStep, At, DetectMount, DropDetectFile, MountConfigPartition,
      MountGenericPartition, CleanPath, OpenFile, PutItem, VerifyFile, CloseFile, RenameFile,
      RemoveFile, DiscardFile, Look, MakeDirectory, RemoveDirectory, TryMissing, JudgeCheck,
      Keeps
  <2> QED BY <2>1, <2>2, StepKeeps DEF Rest
<1> QED BY <1>1, <1>2

\* A run starts with nothing open: its runner was idle.
LEMMA BeginHandles ==
  ASSUME HandleInv, NEW r \in Runners, ~Active(r), Begin(r), UNCHANGED <<handle, leaked, kills>>,
         (phase' = "up") <=> (phase = "up"),
         (Active("boot") \/ r = "boot") => phase' = "testing",
         (Active("optional") \/ r = "optional") => phase' = "optional"
  PROVE  HandleInv'
<1>1. /\ todo' = [s \in Runners |-> todo'[s]] /\ todo'[r] = Checks[1]
      /\ \A s \in Runners \ {r} : todo'[s] = todo[s]
  BY TodoSet DEF Begin
<1>2. /\ next' = [s \in Runners |-> next'[s]] /\ next'[r] = 2
      /\ \A s \in Runners \ {r} : next'[s] = next[s]
  BY DEF Begin, HandleInv
<1>3. \A s \in Runners : Tidy(todo'[s], handle'[s])
  <2>1. handle[r] = NoFile
    <3>1. Tidy(<<>>, handle[r])
      BY DEF HandleInv, Active
    <3> QED BY <3>1, TidyEmpty
  <2>2. Tidy(Checks[1], NoFile)
    BY ChecksTidy
  <2> QED BY <1>1, <2>1, <2>2 DEF HandleInv
<1>4. \A s \in Runners : next'[s] \in Nat /\ (Active(s)' => next'[s] > 0)
  BY <1>1, <1>2 DEF HandleInv, Active
<1>5. (Active("boot")' => phase' = "testing") /\ (Active("optional")' => phase' = "optional")
  <2>1. \A s \in Runners : Active(s)' => Active(s) \/ s = r
    BY <1>1 DEF Active
  <2>2. "boot" \in Runners /\ "optional" \in Runners
    BY DEF Runners
  <2> QED BY <2>1, <2>2
<1>6. HandlesClosed'
  BY DEF HandleInv, HandlesClosed
<1> QED BY <1>1, <1>2, <1>3, <1>4, <1>5, <1>6 DEF HandleInv

\* A deleted task takes at most one handle with it.
LEMMA DeleteHandles ==
  ASSUME HandleInv, NEW r \in Runners, Delete(r), kills' \in Nat,
         kills + (IF phase = "up" THEN 1 ELSE 0) + 1
           <= kills' + (IF phase' = "up" THEN 1 ELSE 0),
         (r # "boot" /\ Active("boot")) => phase' = "testing",
         (r # "optional" /\ Active("optional")) => phase' = "optional"
  PROVE  HandleInv'
<1>1. /\ todo' = [s \in Runners |-> todo'[s]] /\ todo'[r] = <<>>
      /\ \A s \in Runners \ {r} : todo'[s] = todo[s]
  BY TodoSet DEF Delete
<1>2. /\ next' = [s \in Runners |-> next'[s]] /\ next'[r] = 0
      /\ \A s \in Runners \ {r} : next'[s] = next[s]
  BY DEF Delete, HandleInv
<1>3. /\ handle' = [s \in Runners |-> handle'[s]] /\ handle'[r] = NoFile
      /\ \A s \in Runners : s # r => handle'[s] = handle[s]
  BY HandleSet DEF Delete
<1>4. \A s \in Runners : Tidy(todo'[s], handle'[s])
  BY <1>1, <1>3, TidyEmpty DEF HandleInv
<1>5. \A s \in Runners : next'[s] \in Nat /\ (Active(s)' => next'[s] > 0)
  <2>1. \A s \in Runners : next[s] \in Nat /\ (Active(s) => next[s] > 0)
    BY DEF HandleInv
  <2>2. \A s \in Runners : s # r => (Active(s)' <=> Active(s))
    BY <1>1 DEF Active
  <2>3. ~Active(r)'
    BY <1>1 DEF Active
  <2> QED BY <1>2, <2>1, <2>2, <2>3
<1>6. (Active("boot")' => phase' = "testing") /\ (Active("optional")' => phase' = "optional")
  <2>1. \A s \in Runners : Active(s)' => Active(s) /\ s # r
    BY <1>1 DEF Active
  <2>2. "boot" \in Runners /\ "optional" \in Runners
    BY DEF Runners
  <2> QED BY <2>1, <2>2
<1>7. /\ leaked' = [p \in Partitions |-> leaked[p] + (IF handle[r].part = p THEN 1 ELSE 0)]
      /\ \A p \in Partitions : leaked[p] \in Nat
  BY DEF Delete, HandleInv
<1>8. HandlesClosed'
  <2>1. /\ leaked'["config"] = leaked["config"] + (IF handle[r].part = "config" THEN 1 ELSE 0)
        /\ leaked'["storage"] = leaked["storage"] + (IF handle[r].part = "storage" THEN 1 ELSE 0)
        /\ leaked["config"] \in Nat /\ leaked["storage"] \in Nat
    BY <1>7 DEF Partitions
  <2>2. leaked["config"] + leaked["storage"] <= kills + (IF phase = "up" THEN 1 ELSE 0)
        /\ kills \in Nat
    BY DEF HandleInv, HandlesClosed
  <2>3. ~(handle[r].part = "config" /\ handle[r].part = "storage")
    OBVIOUS
  <2>4. leaked'["config"] + leaked'["storage"] <= (leaked["config"] + leaked["storage"]) + 1
    <3>1. CASE handle[r].part = "config"
      BY <2>1, <2>3, <3>1
    <3>2. CASE handle[r].part # "config"
      BY <2>1, <3>2
    <3> QED BY <3>1, <3>2
  <2> DEFINE before == leaked["config"] + leaked["storage"]
             after == leaked'["config"] + leaked'["storage"]
             most == kills + (IF phase = "up" THEN 1 ELSE 0)
             then == kills' + (IF phase' = "up" THEN 1 ELSE 0)
  <2>5. before \in Nat /\ after \in Nat /\ most \in Nat /\ then \in Nat
    <3>1. leaked'["config"] \in Nat /\ leaked'["storage"] \in Nat
      BY <2>1
    <3>2. before \in Nat /\ after \in Nat
      BY <2>1, <3>1
    <3>3. most \in Nat /\ then \in Nat
      <4>1. \A n \in Nat : n + 1 \in Nat /\ n + 0 \in Nat
        OBVIOUS
      <4> QED BY <2>2, <4>1, Zenon
    <3> QED BY <3>2, <3>3
  <2>6. after <= before + 1 /\ before <= most /\ most + 1 <= then
    BY <2>2, <2>4
  <2> HIDE DEF before, after, most, then
  <2>7. after <= then
    BY <2>5, <2>6
  <2> QED BY <2>7 DEF HandlesClosed, after, then
<1>9. leaked' = [p \in Partitions |-> leaked'[p]] /\ \A p \in Partitions : leaked'[p] \in Nat
  BY <1>7
<1> QED BY <1>1, <1>2, <1>3, <1>4, <1>5, <1>6, <1>8, <1>9 DEF HandleInv

LEMMA IdleHandles ==
  ASSUME HandleInv, UNCHANGED <<todo, handle, next, leaked, kills>>,
         (phase' = "up") <=> (phase = "up"),
         Active("boot") => phase' = "testing", Active("optional") => phase' = "optional"
  PROVE  HandleInv'
<1>1. HandlesClosed' /\ \A r \in Runners : Active(r)' <=> Active(r)
  BY DEF HandleInv, HandlesClosed, Active
<1>2. "boot" \in Runners /\ "optional" \in Runners
  BY DEF Runners
<1> QED BY <1>1, <1>2 DEF HandleInv

LEMMA NothingOpen ==
  ASSUME todo = [r \in Runners |-> <<>>], next = [r \in Runners |-> 0],
         handle = [r \in Runners |-> NoFile], leaked = [p \in Partitions |-> 0],
         kills = 0, phase = "tests"
  PROVE  HandleInv
<1>1. \A r \in Runners : Tidy(todo[r], handle[r]) /\ ~Active(r)
  BY TidyEmpty DEF Active
<1>2. HandlesClosed
  BY DEF HandlesClosed, Partitions
<1>3. "boot" \in Runners /\ "optional" \in Runners
  BY DEF Runners
<1> QED BY <1>1, <1>2, <1>3 DEF HandleInv

LEMMA HandleNext ==
  ASSUME HandleInv, mounts \in Seq(Registrations), [Next]_vars
  PROVE  HandleInv'
<1>0. /\ "boot" \in Runners /\ "optional" \in Runners /\ "serial" \in Runners
      /\ Active("boot") => phase = "testing"
      /\ Active("optional") => phase = "optional"
      /\ kills \in Nat
  BY DEF Runners, HandleInv
<1>1. ASSUME NEW r \in Runners, RunStep(r)
      PROVE  HandleInv'
  BY <1>1, RunStepHandles
<1>2. CASE RequiredTests
  <2>1. phase = "tests" /\ UNCHANGED <<leaked, kills>>
    BY <1>2 DEF RequiredTests, budget
  <2>2. CASE phase' = "testing" /\ Begin("boot") /\ handle' = handle
    BY <1>0, <2>1, <2>2, BeginHandles
  <2>3. CASE phase' = "loading" /\ NoRun
    BY <1>0, <2>1, <2>3, IdleHandles DEF NoRun, runvars
  <2> QED BY <1>2, <2>2, <2>3 DEF RequiredTests
<1>3. CASE RequiredDone
  BY <1>0, <1>3, IdleHandles DEF RequiredDone, Quiet, budget
<1>4. CASE LoadConfig
  BY <1>0, <1>4, IdleHandles DEF LoadConfig, NoRun, runvars
<1>5. CASE ConfigReload
  BY <1>0, <1>5, IdleHandles DEF ConfigReload
<1>6. CASE StartOptional
  BY <1>0, <1>6, BeginHandles DEF StartOptional, Quiet
<1>7. CASE FsTestCommand
  <2>1. /\ ~Active("serial") /\ Begin("serial") /\ phase \in {"serial", "optional", "up"}
        /\ UNCHANGED <<handle, leaked, kills, phase>>
    BY <1>7 DEF FsTestCommand, Quiet
  <2> QED BY <1>0, <2>1, BeginHandles
<1>8. CASE DeleteOptional
  <2>1. phase = "optional" /\ phase' = "up" /\ Delete("optional") /\ kills' = kills
    BY <1>8 DEF DeleteOptional, budget
  <2> QED BY <1>0, <2>1, DeleteHandles
<1>9. CASE SupervisorKills
  <2>1. Delete("serial") /\ kills' = kills + 1 /\ phase' = phase
    BY <1>9 DEF SupervisorKills
  <2> QED BY <1>0, <2>1, DeleteHandles
<1>10. CASE Reboot
  <2>1. (/\ todo = [r \in Runners |-> <<>>] /\ next = [r \in Runners |-> 0]
         /\ handle = [r \in Runners |-> NoFile] /\ leaked = [p \in Partitions |-> 0]
         /\ kills = 0 /\ phase = "tests")'
    BY <1>10 DEF Reboot
  <2> QED BY <2>1, NothingOpen, PTL
<1>11. CASE UNCHANGED vars
  BY <1>0, <1>11, IdleHandles DEF vars, runvars, budget
<1> QED BY <1>1, <1>2, <1>3, <1>4, <1>5, <1>6, <1>7, <1>8, <1>9, <1>10, <1>11 DEF Next

(* Wherever a failing call leaves a check of the suite, the calls it has   *)
(* left close what it has opened before they mount, release or end         *)
(* (unittest/components/fs).                                               *)
THEOREM HandlesCorrect == Spec => []HandleInv
<1>1. Init => HandleInv
  BY NothingOpen DEF Init
<1>2. MountInv /\ HandleInv /\ [Next]_vars => HandleInv'
  BY HandleNext DEF MountInv
<1> QED BY <1>1, <1>2, MountsCorrect, PTL DEF Spec

(* Handles are lost only with tasks that are deleted: the optional one of  *)
(* each boot and the serial workers the supervisor gave up on.             *)
THEOREM HandlesClosedAlways == Spec => []HandlesClosed
<1>1. HandleInv => HandlesClosed
  BY DEF HandleInv
<1> QED BY HandlesCorrect, <1>1, PTL

-----------------------------------------------------------------------------
(* What a run that is alone knows of the files.                            *)

\* Names that do not exist, names that do, the file last opened and what is in it,
\* whether it is open, and whether the file system turned out to know directories.
View(gone, there, file, text, open, tree) ==
  [gone |-> gone, there |-> there, file |-> file, text |-> text, open |-> open, tree |-> tree]

Still(v, w) == w.gone \subseteq v.gone /\ w.there \subseteq v.there
Drops(f, v, w) == w.gone \subseteq v.gone \cup {f} /\ w.there \subseteq v.there \ {f}
Makes(f, v, w) == w.gone \subseteq v.gone \ {f} /\ w.there \subseteq v.there \cup {f}
SameFile(v, w) == w.file = v.file /\ w.text = v.text /\ (w.tree => v.tree)
Bare(f, v) == (f = "dir" => "nested" \in v.gone) /\ (f = "nested" => "txt" \in v.gone)

Written(at, what, old) ==
  LET k == IF at = 99 THEN Len(old) ELSE at
  IN  SubSeq(old, 1, k) \o what \o SubSeq(old, k + Len(what) + 1, Len(old))

\* Call c succeeds where v is known, and then w is.
LeadsFile(c, v, w) ==
  \/ /\ c.do = "open" /\ ~v.open /\ w.open
     /\ c.mode = "w" \/ (c.mode = "a" /\ c.name \in v.gone)
     /\ Makes(c.name, v, w) /\ w.file = c.name /\ w.text = <<>> /\ (w.tree => v.tree)
  \/ /\ c.do = "open" /\ ~v.open /\ w.open /\ c.mode \in {"a", "r"}
     /\ c.name \in v.there /\ c.name = v.file
     /\ Still(v, w) /\ SameFile(v, w)
  \/ /\ c.do = "put" /\ v.open /\ w.open
     /\ Len(v.text) \in Nat /\ (c.offset = 99 \/ c.offset <= Len(v.text))
     /\ v.file \in v.there /\ w.text = Written(c.offset, c.what, v.text)
     /\ Still(v, w) /\ w.file = v.file /\ (w.tree => v.tree)
  \/ /\ c.do = "verify" /\ v.open /\ w.open /\ v.file \in v.there /\ v.text = c.want
     /\ Still(v, w) /\ SameFile(v, w)
  \/ /\ c.do = "close" /\ v.open /\ ~w.open
     /\ Still(v, w) /\ SameFile(v, w)
LeadsName(c, v, w, G) ==
  /\ ~v.open /\ ~w.open
  /\ \/ /\ c.do \in {"clean", "discard"} /\ Bare(c.name, v)
        /\ Drops(c.name, v, w) /\ SameFile(v, w)
     \/ /\ c.do = "remove" /\ c.name \in v.there
        /\ Drops(c.name, v, w) /\ SameFile(v, w)
     \/ /\ c.do = "rename" /\ c.name \in v.there /\ c.to \in v.gone /\ c.name = v.file
        /\ c.name # c.to /\ w.file = c.to /\ w.text = v.text /\ (w.tree => v.tree)
        /\ w.gone \subseteq (v.gone \cup {c.name}) \ {c.to}
        /\ w.there \subseteq (v.there \cup {c.to}) \ {c.name}
     \/ /\ c.do = "is"
        /\ \/ c.there = TRUE /\ c.name \in v.there
           \/ c.there = FALSE /\ c.name \in v.gone
        /\ Still(v, w) /\ SameFile(v, w)
     \/ /\ c.do = "mkdir" /\ c.name \in v.gone /\ c.name # v.file
        /\ \/ c.skip /\ G \subseteq v.gone
           \/ ~c.skip /\ v.tree
        /\ Makes(c.name, v, w) /\ w.file = v.file /\ w.text = v.text
     \/ /\ c.do = "rmdir" /\ c.want = TRUE /\ c.name \in v.there /\ Bare(c.name, v)
        /\ Drops(c.name, v, w) /\ SameFile(v, w)
     \/ /\ c.do = "rmdir" /\ c.want = FALSE /\ c.name = "nested" /\ "txt" \in v.there
        /\ Still(v, w) /\ SameFile(v, w)
     \/ /\ c.do \in {"missing", "judge"}
        /\ Still(v, w) /\ SameFile(v, w)
Leads(c, v, w, G) == LeadsFile(c, v, w) \/ LeadsName(c, v, w, G)

\* The rest of a check succeeds where v is known, and leaves nothing named in G.
Runnable(t, v, G) ==
  /\ Script(t) /\ Len(t) >= 1
  /\ \E V : /\ V[1] = v
            /\ \A i \in 1..(Len(t) - 1) : Leads(t[i], V[i], V[i + 1], G)
            /\ t[Len(t)].do = "release" /\ G \subseteq V[Len(t)].gone /\ ~V[Len(t)].open

LEMMA ScriptTail ==
  ASSUME NEW t, Script(t), t # <<>>
  PROVE  /\ Script(Tail(t)) /\ Len(t) \in Nat /\ Len(t) >= 1 /\ Len(Tail(t)) = Len(t) - 1
         /\ Head(t) = t[1] /\ \A i \in 1..Len(Tail(t)) : Tail(t)[i] = t[i + 1]
<1>1. PICK S : t \in Seq(S)
  BY DEF Script
<1>2. Tail(t) \in Seq(S)
  BY <1>1
<1>3. Script(Tail(t))
  BY <1>2 DEF Script
<1>4. /\ Len(t) \in Nat /\ Len(t) >= 1 /\ Len(Tail(t)) = Len(t) - 1
      /\ Head(t) = t[1] /\ \A i \in 1..Len(Tail(t)) : Tail(t)[i] = t[i + 1]
  BY <1>1
<1> QED BY <1>3, <1>4

LEMMA RunnableEnd ==
  ASSUME NEW t, NEW v, NEW G, Runnable(t, v, G)
  PROVE  /\ t # <<>> /\ Script(t)
         /\ Len(t) = 1 => Head(t).do = "release" /\ G \subseteq v.gone /\ ~v.open
         /\ Len(t) # 1 => \E w : Leads(Head(t), v, w, G) /\ Runnable(Tail(t), w, G)
<1>1. Script(t) /\ Len(t) >= 1
  BY DEF Runnable
<1>2. PICK V :
        /\ V[1] = v
        /\ \A i \in 1..(Len(t) - 1) : Leads(t[i], V[i], V[i + 1], G)
        /\ t[Len(t)].do = "release" /\ G \subseteq V[Len(t)].gone /\ ~V[Len(t)].open
  BY DEF Runnable
<1>3. t # <<>>
  <2>1. Len(<<>>) = 0
    OBVIOUS
  <2> QED BY <1>1, <2>1
<1>4. /\ Script(Tail(t)) /\ Len(t) \in Nat /\ Len(Tail(t)) = Len(t) - 1
      /\ Head(t) = t[1] /\ \A i \in 1..Len(Tail(t)) : Tail(t)[i] = t[i + 1]
  BY <1>1, <1>3, ScriptTail
<1>5. CASE Len(t) = 1
  BY <1>1, <1>2, <1>3, <1>4, <1>5
<1>6. CASE Len(t) # 1
  <2> DEFINE u == Tail(t)
             n == Len(t)
             W == [i \in 1..(n - 1) |-> V[i + 1]]
  <2>1. n \in Nat /\ n >= 2 /\ Script(u) /\ Len(u) = n - 1
        /\ \A i \in 1..(n - 1) : u[i] = t[i + 1]
    BY <1>1, <1>4, <1>6
  <2>2. \A i \in 1..(n - 1) : W[i] = V[i + 1]
    OBVIOUS
  <2> HIDE DEF u, n, W
  <2>3. W[1] = V[2] /\ W[n - 1] = V[n]
    BY <2>1, <2>2
  <2>4. ASSUME NEW i \in 1..((n - 1) - 1) PROVE Leads(u[i], W[i], W[i + 1], G)
    <3>1. i + 1 \in 1..(n - 1) /\ i \in 1..(n - 1) /\ (i + 1) + 1 = i + 2
      BY <2>1
    <3>2. Leads(t[i + 1], V[i + 1], V[(i + 1) + 1], G)
      BY <1>2, <3>1 DEF n
    <3>3. u[i] = t[i + 1] /\ W[i] = V[i + 1] /\ W[i + 1] = V[(i + 1) + 1]
      BY <2>1, <2>2, <3>1
    <3> QED BY <3>2, <3>3
  <2>5. u[n - 1].do = "release" /\ G \subseteq W[n - 1].gone /\ ~W[n - 1].open
    <3>1. u[n - 1] = t[n] /\ W[n - 1] = V[n]
      BY <2>1, <2>3
    <3> QED BY <1>2, <3>1 DEF n
  <2>6. Runnable(u, V[2], G)
    <3>1. Script(u) /\ Len(u) >= 1 /\ Len(u) = n - 1
      BY <2>1
    <3>2. /\ W[1] = V[2]
          /\ \A i \in 1..(Len(u) - 1) : Leads(u[i], W[i], W[i + 1], G)
          /\ u[Len(u)].do = "release" /\ G \subseteq W[Len(u)].gone /\ ~W[Len(u)].open
      BY <2>3, <2>4, <2>5, <3>1
    <3> QED BY <3>1, <3>2, Zenon DEF Runnable
  <2>7. Leads(Head(t), v, V[2], G)
    <3>1. 1 \in 1..(Len(t) - 1) /\ 1 + 1 = 2
      BY <2>1 DEF n
    <3> QED BY <1>2, <1>4, <3>1
  <2> QED BY <1>1, <1>3, <1>6, <2>6, <2>7 DEF u
<1> QED BY <1>5, <1>6

-----------------------------------------------------------------------------
(* The checks, run by hand.                                                *)

\* What the first checks of a run have removed.
Left(k) ==
  CASE k = 0 -> {} [] k = 1 -> {"probe"} [] k = 2 -> {"probe", "bin", "done"}
    [] k = 3 -> {"probe", "bin", "done", "txt", "nested", "dir"}
    [] k = 4 -> {"probe", "bin", "done", "txt", "nested", "dir", "missing"}
    [] k = 5 -> {"probe", "bin", "done", "txt", "nested", "dir", "missing", "persist"}
    [] k = 6 -> {"probe", "bin", "done", "txt", "nested", "dir", "missing", "persist", "cycle"}

LEMMA RunsThrough ==
  ASSUME NEW s, Script(s), NEW n \in Nat \ {0}, Len(s) = n + 1, NEW V, NEW G,
         \A i \in 1..(n - 1) : Leads(s[i + 1], V[i], V[i + 1], G),
         s[n + 1].do = "release", G \subseteq V[n].gone, ~V[n].open
  PROVE  Runnable(Tail(s), V[1], G)
<1>1. s # <<>>
  <2>1. Len(<<>>) = 0
    OBVIOUS
  <2> QED BY <2>1
<1> DEFINE t == Tail(s)
<1>2. Script(t) /\ Len(t) = n /\ \A i \in 1..n : t[i] = s[i + 1]
  <2>1. /\ Script(t) /\ Len(t) = Len(s) - 1 /\ \A i \in 1..Len(t) : t[i] = s[i + 1]
    BY <1>1, ScriptTail
  <2>2. Len(t) = n
    BY <2>1
  <2> QED BY <2>1, <2>2
<1> HIDE DEF t
<1>3. \A i \in 1..(Len(t) - 1) : Leads(t[i], V[i], V[i + 1], G)
  <2> SUFFICES ASSUME NEW i \in 1..(n - 1) PROVE Leads(t[i], V[i], V[i + 1], G)
    BY <1>2
  <2>1. i \in 1..n
    OBVIOUS
  <2> QED BY <1>2, <2>1
<1>4. t[Len(t)].do = "release" /\ G \subseteq V[Len(t)].gone /\ ~V[Len(t)].open
  <2>1. n \in 1..n
    OBVIOUS
  <2> QED BY <1>2, <2>1
<1>5. Len(t) >= 1 /\ V[1] = V[1]
  BY <1>2
<1>6. Runnable(t, V[1], G)
  BY <1>2, <1>3, <1>4, <1>5, Zenon DEF Runnable
<1> QED BY <1>6 DEF t

LEMMA PairJoin ==
  ASSUME NEW a, NEW b, Script(a), Script(b)
  PROVE  /\ Len(a \o b) = Len(a) + Len(b) /\ Script(a \o b)
         /\ \A k \in 1..Len(a) : (a \o b)[k] = a[k]
         /\ \A k \in 1..Len(b) : (a \o b)[Len(a) + k] = b[k]
<1>1. PICK S : a \in Seq(S)
  BY DEF Script
<1>2. PICK Q : b \in Seq(Q)
  BY DEF Script
<1>3. a \in Seq(S \cup Q)
  BY <1>1, Wider
<1>4. b \in Seq(Q \cup S) /\ Q \cup S = S \cup Q
  BY <1>2, Wider
<1>5. b \in Seq(S \cup Q)
  BY <1>4, Zenon
<1> DEFINE U == S \cup Q
<1>6. a \in Seq(U) /\ b \in Seq(U)
  BY <1>3, <1>5
<1> HIDE DEF U
<1>7. a \o b \in Seq(U)
  BY <1>6
<1> QED BY <1>6, <1>7, Joined DEF Script

LEMMA SameSeq ==
  ASSUME NEW S, NEW a \in Seq(S), NEW b \in Seq(S), Len(a) = Len(b),
         \A i \in 1..Len(a) : a[i] = b[i]
  PROVE  a = b
OBVIOUS

LEMMA EndOf ==
  ASSUME NEW S, NEW s \in Seq(S), NEW j \in Nat
  PROVE  /\ SubSeq(s, j + 1, Len(s)) \in Seq(S)
         /\ j <= Len(s) => /\ Len(SubSeq(s, j + 1, Len(s))) = Len(s) - j
                           /\ \A i \in 1..(Len(s) - j) : SubSeq(s, j + 1, Len(s))[i] = s[j + i]
         /\ j > Len(s) => Len(SubSeq(s, j + 1, Len(s))) = 0
<1>0. Len(s) \in Nat
  OBVIOUS
<1>1. SubSeq(s, j + 1, Len(s)) \in Seq(S)
  BY <1>0
<1>2. ASSUME j <= Len(s)
      PROVE  /\ Len(SubSeq(s, j + 1, Len(s))) = Len(s) - j
             /\ \A i \in 1..(Len(s) - j) : SubSeq(s, j + 1, Len(s))[i] = s[j + i]
  BY <1>0, <1>2
<1>3. ASSUME j > Len(s) PROVE Len(SubSeq(s, j + 1, Len(s))) = 0
  BY <1>0, <1>3
<1> QED BY <1>1, <1>2, <1>3

\* w is old with what put at k.
Splices(old, k, what, w) ==
  /\ k + Len(what) <= Len(old) => Len(w) = Len(old)
  /\ k + Len(what) > Len(old) => Len(w) = k + Len(what)
  /\ \A i \in 1..k : w[i] = old[i]
  /\ \A i \in 1..Len(what) : w[k + i] = what[i]
  /\ \A i \in (k + Len(what) + 1)..Len(old) : w[i] = old[i]

LEMMA WrittenIs ==
  ASSUME NEW at, NEW S, NEW old \in Seq(S), NEW what \in Seq(S),
         NEW k \in 0..Len(old), at = 99 => k = Len(old), at # 99 => k = at,
         NEW w \in Seq(S), Splices(old, k, what, w)
  PROVE  Written(at, what, old) = w
<1> DEFINE n == Len(what)
           m == Len(old)
           a == SubSeq(old, 1, k)
           z == SubSeq(old, k + n + 1, m)
<1>0. n \in Nat /\ m \in Nat /\ k \in Nat /\ k <= m /\ k + n \in Nat
  OBVIOUS
<1>1. Written(at, what, old) = (a \o what) \o z
  BY DEF Written
<1>2. a \in Seq(S) /\ Len(a) = k /\ \A i \in 1..k : a[i] = old[i]
  BY <1>0
<1>3. /\ z \in Seq(S) /\ Len(z) = (IF k + n <= m THEN m - (k + n) ELSE 0)
      /\ \A i \in 1..Len(z) : z[i] = old[(k + n) + i]
  <2>1. PICK j \in Nat : j = k + n
    BY <1>0
  <2>2. z = SubSeq(old, j + 1, Len(old))
    BY <2>1
  <2> HIDE DEF z
  <2>3. /\ z \in Seq(S)
        /\ j <= m => Len(z) = m - j /\ \A i \in 1..(m - j) : z[i] = old[j + i]
        /\ j > m => Len(z) = 0
    BY <2>1, <2>2, EndOf
  <2> QED BY <1>0, <2>1, <2>3
<1> HIDE DEF a, z, n, m
<1>4. /\ a \o what \in Seq(S) /\ Len(a \o what) = Len(a) + Len(what)
      /\ \A i \in 1..Len(a) : (a \o what)[i] = a[i]
      /\ \A i \in 1..Len(what) : (a \o what)[Len(a) + i] = what[i]
  <2>1. a \in Seq(S)
    BY <1>2
  <2> QED BY <2>1, Joined
<1> DEFINE b == a \o what
<1>5. /\ b \in Seq(S) /\ Len(b) = k + n
      /\ \A i \in 1..k : b[i] = old[i]
      /\ \A i \in 1..n : b[k + i] = what[i]
  BY <1>0, <1>2, <1>4 DEF n
<1> HIDE DEF b
<1>6. /\ b \o z \in Seq(S) /\ Len(b \o z) = Len(b) + Len(z)
      /\ \A i \in 1..Len(b) : (b \o z)[i] = b[i]
      /\ \A i \in 1..Len(z) : (b \o z)[Len(b) + i] = z[i]
  <2>1. b \in Seq(S) /\ z \in Seq(S)
    BY <1>3, <1>5
  <2> QED BY <2>1, Joined
<1>7. PICK u : u = b \o z
  OBVIOUS
<1>8. Written(at, what, old) = u
  BY <1>1, <1>7 DEF b
<1>9. /\ u \in Seq(S) /\ Len(u) = (k + n) + Len(z)
      /\ \A i \in 1..(k + n) : u[i] = b[i]
      /\ \A i \in 1..Len(z) : u[(k + n) + i] = z[i]
  BY <1>5, <1>6, <1>7
<1>10. Len(u) = Len(w)
  <2>1. (k + n <= m => Len(w) = m) /\ (k + n > m => Len(w) = k + n)
    BY DEF Splices, n, m
  <2> QED BY <1>0, <1>3, <1>9, <2>1
<1>11. ASSUME NEW i \in 1..Len(u) PROVE u[i] = w[i]
  <2>0. /\ \A l \in 1..k : w[l] = old[l]
        /\ \A l \in 1..n : w[k + l] = what[l]
        /\ \A l \in (k + n + 1)..m : w[l] = old[l]
    BY DEF Splices, n, m
  <2>1. CASE i <= k
    <3>1. i \in 1..k /\ i \in 1..(k + n)
      BY <1>0, <2>1
    <3> QED BY <1>5, <1>9, <2>0, <3>1
  <2>2. CASE i > k /\ i <= k + n
    <3>1. i - k \in 1..n /\ k + (i - k) = i /\ i \in 1..(k + n)
      BY <1>0, <2>2
    <3>2. u[i] = b[i] /\ b[k + (i - k)] = what[i - k] /\ w[k + (i - k)] = what[i - k]
      BY <1>5, <1>9, <2>0, <3>1
    <3> QED BY <3>1, <3>2
  <2>3. CASE i > k + n
    <3>1. k + n <= m /\ Len(u) = m /\ Len(z) = m - (k + n)
      BY <1>0, <1>3, <1>9, <2>3
    <3>2. i - (k + n) \in 1..Len(z) /\ (k + n) + (i - (k + n)) = i /\ i \in (k + n + 1)..m
      BY <1>0, <2>3, <3>1
    <3>3. u[(k + n) + (i - (k + n))] = z[i - (k + n)]
      BY <1>9, <3>2
    <3>4. z[i - (k + n)] = old[(k + n) + (i - (k + n))]
      BY <1>3, <3>2
    <3>5. w[i] = old[i]
      BY <2>0, <3>2
    <3> QED BY <3>2, <3>3, <3>4, <3>5
  <2>4. i \in Nat
    OBVIOUS
  <2> QED BY <1>0, <2>1, <2>2, <2>3, <2>4
<1>12. u = w
  BY <1>9, <1>10, <1>11, SameSeq
<1> QED BY <1>8, <1>12

LEMMA WritesFirst == ASSUME NEW x PROVE Written(99, <<x>>, <<>>) = <<x>>
<1>1. PICK at, k, old, u, S : at = 99 /\ k = 0 /\ old = <<>> /\ u = <<x>> /\ S = {x}
  OBVIOUS
<1>2. /\ old \in Seq(S) /\ Len(old) = 0 /\ u \in Seq(S) /\ Len(u) = 1
      /\ k \in 0..Len(old) /\ (at = 99 => k = Len(old)) /\ (at # 99 => k = at)
  BY <1>1
<1>3. Splices(old, k, u, u)
  BY <1>1, <1>2 DEF Splices
<1>4. Written(at, u, old) = u
  BY <1>2, <1>3, WrittenIs
<1> QED BY <1>1, <1>4

\* The three writes of the file check: overwriting inside, and at the end.
LEMMA WritesPattern ==
  /\ Written(0, <<"A", "A", "A">>, <<>>) = <<"A", "A", "A">>
  /\ Written(1, <<"B">>, <<"A", "A", "A">>) = <<"A", "B", "A">>
  /\ Written(3, <<"C">>, <<"A", "B", "A">>) = <<"A", "B", "A", "C">>
<1>1. PICK S, e, b, d, aaa, aba, abac :
        /\ S = {"A", "B", "C"}
        /\ e = <<>> /\ b = <<"B">> /\ d = <<"C">> /\ aaa = <<"A", "A", "A">>
        /\ aba = <<"A", "B", "A">> /\ abac = <<"A", "B", "A", "C">>
  OBVIOUS
<1>2. /\ e \in Seq(S) /\ Len(e) = 0
      /\ b \in Seq(S) /\ Len(b) = 1 /\ b[1] = "B"
      /\ d \in Seq(S) /\ Len(d) = 1 /\ d[1] = "C"
      /\ aaa \in Seq(S) /\ Len(aaa) = 3 /\ aaa[1] = "A" /\ aaa[2] = "A" /\ aaa[3] = "A"
      /\ aba \in Seq(S) /\ Len(aba) = 3 /\ aba[1] = "A" /\ aba[2] = "B" /\ aba[3] = "A"
      /\ abac \in Seq(S) /\ Len(abac) = 4 /\ abac[1] = "A" /\ abac[2] = "B"
      /\ abac[3] = "A" /\ abac[4] = "C"
  BY <1>1
<1>3. \A i \in 1..3 : i = 1 \/ i = 2 \/ i = 3
  OBVIOUS
<1>4. Written(0, aaa, e) = aaa
  <2>1. PICK at, k : at = 0 /\ k = 0
    OBVIOUS
  <2>2. k \in 0..Len(e) /\ (at = 99 => k = Len(e)) /\ (at # 99 => k = at)
    BY <1>2, <2>1
  <2>3. Splices(e, k, aaa, aaa)
    BY <1>2, <2>1 DEF Splices
  <2>4. e \in Seq(S) /\ aaa \in Seq(S)
    BY <1>2
  <2>5. Written(at, aaa, e) = aaa
    BY <2>2, <2>3, <2>4, WrittenIs
  <2> QED BY <2>1, <2>5
<1>5. Written(1, b, aaa) = aba
  <2>1. PICK at, k : at = 1 /\ k = 1
    OBVIOUS
  <2>2. k \in 0..Len(aaa) /\ (at = 99 => k = Len(aaa)) /\ (at # 99 => k = at)
    BY <1>2, <2>1
  <2>3. Splices(aaa, k, b, aba)
    BY <1>2, <2>1 DEF Splices
  <2>4. aaa \in Seq(S) /\ b \in Seq(S) /\ aba \in Seq(S)
    BY <1>2
  <2>5. Written(at, b, aaa) = aba
    BY <2>2, <2>3, <2>4, WrittenIs
  <2> QED BY <2>1, <2>5
<1>6. Written(3, d, aba) = abac
  <2>1. PICK at, k : at = 3 /\ k = 3
    OBVIOUS
  <2>2. k \in 0..Len(aba) /\ (at = 99 => k = Len(aba)) /\ (at # 99 => k = at)
    BY <1>2, <2>1
  <2>3. Splices(aba, k, d, abac)
    BY <1>2, <1>3, <2>1 DEF Splices
  <2>4. aba \in Seq(S) /\ d \in Seq(S) /\ abac \in Seq(S)
    BY <1>2
  <2>5. Written(at, d, aba) = abac
    BY <2>2, <2>3, <2>4, WrittenIs
  <2> QED BY <2>1, <2>5
<1> QED BY <1>1, <1>4, <1>5, <1>6

LEMMA MountCheckRuns ==
  Runnable(Tail(MountCheck), View({}, {}, "", <<>>, FALSE, FALSE),
           {"probe"})
<1> DEFINE s == MountCheck
<1>1. /\ Len(s) = 7 /\ Script(s)
      /\ s[2] = Open("probe", "w", <<>>)
      /\ s[3] = OrNote(Add("m", <<>>))
      /\ s[4] = Close
      /\ s[5] = [do |-> "discard", name |-> "probe"]
      /\ s[6] = Judge(<<>>)
      /\ s[7] = Release
  <2>1. Script(s)
    BY MountCheckTidy DEF Tidy
  <2> QED BY <2>1 DEF MountCheck
<1> HIDE DEF s
<1>2. PICK V : V = <<View({}, {}, "", <<>>, FALSE, FALSE),
                   View({}, {"probe"}, "probe", <<>>, TRUE, FALSE),
                   View({}, {"probe"}, "probe", <<"m">>, TRUE, FALSE),
                   View({}, {"probe"}, "probe", <<"m">>, FALSE, FALSE),
                   View({"probe"}, {}, "probe", <<"m">>, FALSE, FALSE),
                   View({"probe"}, {}, "probe", <<"m">>, FALSE, FALSE)>>
  OBVIOUS
<1>3. /\ V[1] = View({}, {}, "", <<>>, FALSE, FALSE)
      /\ V[2] = View({}, {"probe"}, "probe", <<>>, TRUE, FALSE)
      /\ V[3] = View({}, {"probe"}, "probe", <<"m">>, TRUE, FALSE)
      /\ V[4] = View({}, {"probe"}, "probe", <<"m">>, FALSE, FALSE)
      /\ V[5] = View({"probe"}, {}, "probe", <<"m">>, FALSE, FALSE)
      /\ V[6] = View({"probe"}, {}, "probe", <<"m">>, FALSE, FALSE)
  BY <1>2
<1>4. Leads(s[2], V[1], V[2], {"probe"})
  <2>1. s[2].do = "open" /\ s[2].name = "probe" /\ s[2].mode = "w"
    BY <1>1 DEF Open
  <2>2. PICK v : v = V[1]
    OBVIOUS
  <2>3. PICK w : w = V[2]
    OBVIOUS
  <2>4. /\ v = View({}, {}, "", <<>>, FALSE, FALSE)
        /\ w = View({}, {"probe"}, "probe", <<>>, TRUE, FALSE)
    BY <1>3, <2>2, <2>3, Zenon
  <2> HIDE DEF s
  <2>7. Leads(s[2], v, w, {"probe"})
    BY <2>1, <2>4 DEF Leads, LeadsFile, Still, SameFile, Makes, View
  <2> QED BY <2>2, <2>3, <2>7, Zenon
<1>5. Leads(s[3], V[2], V[3], {"probe"})
  <2>1. s[3].do = "put" /\ s[3].offset = 99 /\ s[3].what = <<"m">>
    BY <1>1 DEF OrNote, Add, Put
  <2>2. PICK v : v = V[2]
    OBVIOUS
  <2>3. PICK w : w = V[3]
    OBVIOUS
  <2>4. /\ v = View({}, {"probe"}, "probe", <<>>, TRUE, FALSE)
        /\ w = View({}, {"probe"}, "probe", <<"m">>, TRUE, FALSE)
    BY <1>3, <2>2, <2>3, Zenon
  <2> HIDE DEF s
  <2>5. Written(s[3].offset, s[3].what, v.text) = w.text
    <3>1. v.text = <<>> /\ w.text = <<"m">>
      BY <2>4 DEF View
    <3>2. Written(99, <<"m">>, <<>>) = <<"m">>
      BY WritesFirst
    <3> QED BY <2>1, <3>1, <3>2, Zenon
  <2>6. Len(v.text) \in Nat /\ (s[3].offset = 99 \/ s[3].offset <= Len(v.text))
    BY <2>1, <2>4 DEF View
  <2>7. Leads(s[3], v, w, {"probe"})
    BY <2>1, <2>4, <2>5, <2>6 DEF Leads, LeadsFile, Still, View
  <2> QED BY <2>2, <2>3, <2>7, Zenon
<1>6. Leads(s[4], V[3], V[4], {"probe"})
  <2>1. s[4].do = "close"
    BY <1>1 DEF Close
  <2>2. PICK v : v = V[3]
    OBVIOUS
  <2>3. PICK w : w = V[4]
    OBVIOUS
  <2>4. /\ v = View({}, {"probe"}, "probe", <<"m">>, TRUE, FALSE)
        /\ w = View({}, {"probe"}, "probe", <<"m">>, FALSE, FALSE)
    BY <1>3, <2>2, <2>3, Zenon
  <2> HIDE DEF s
  <2>7. Leads(s[4], v, w, {"probe"})
    BY <2>1, <2>4 DEF Leads, LeadsFile, Still, SameFile, Makes, View
  <2> QED BY <2>2, <2>3, <2>7, Zenon
<1>7. Leads(s[5], V[4], V[5], {"probe"})
  <2>1. s[5].do = "discard" /\ s[5].name = "probe"
    BY <1>1
  <2>2. PICK v : v = V[4]
    OBVIOUS
  <2>3. PICK w : w = V[5]
    OBVIOUS
  <2>4. /\ v = View({}, {"probe"}, "probe", <<"m">>, FALSE, FALSE)
        /\ w = View({"probe"}, {}, "probe", <<"m">>, FALSE, FALSE)
    BY <1>3, <2>2, <2>3, Zenon
  <2> HIDE DEF s
  <2>7. Leads(s[5], v, w, {"probe"})
    BY <2>1, <2>4 DEF Leads, LeadsName, Still, SameFile, Makes, Drops, Bare, View
  <2> QED BY <2>2, <2>3, <2>7, Zenon
<1>8. Leads(s[6], V[5], V[6], {"probe"})
  <2>1. s[6].do = "judge"
    BY <1>1 DEF Judge
  <2>2. PICK v : v = V[5]
    OBVIOUS
  <2>3. PICK w : w = V[6]
    OBVIOUS
  <2>4. /\ v = View({"probe"}, {}, "probe", <<"m">>, FALSE, FALSE)
        /\ w = View({"probe"}, {}, "probe", <<"m">>, FALSE, FALSE)
    BY <1>3, <2>2, <2>3, Zenon
  <2> HIDE DEF s
  <2>7. Leads(s[6], v, w, {"probe"})
    BY <2>1, <2>4 DEF Leads, LeadsName, Still, SameFile, Makes, Drops, Bare, View
  <2> QED BY <2>2, <2>3, <2>7, Zenon
<1>9. \A i \in 1..(6 - 1) : Leads(s[i + 1], V[i], V[i + 1], {"probe"})
  <2>1. \A i \in 1..(6 - 1) : i = 1 \/ i = 2 \/ i = 3 \/ i = 4 \/ i = 5
    OBVIOUS
  <2> QED BY <2>1, <1>4, <1>5, <1>6, <1>7, <1>8
<1>10. s[6 + 1].do = "release" /\ {"probe"} \subseteq V[6].gone /\ ~V[6].open
  <2>1. s[7].do = "release"
    BY <1>1 DEF Release
  <2>2. PICK v : v = V[6]
    OBVIOUS
  <2>3. v = View({"probe"}, {}, "probe", <<"m">>, FALSE, FALSE)
    BY <1>3, <2>2, Zenon
  <2>4. {"probe"} \subseteq v.gone /\ ~v.open
    BY <2>3 DEF View
  <2>5. 6 + 1 = 7
    OBVIOUS
  <2> QED BY <2>1, <2>2, <2>4, <2>5, Zenon
<1>11. Runnable(Tail(s), V[1], {"probe"})
  <2>1. 6 \in Nat \ {0} /\ Len(s) = 6 + 1
    BY <1>1
  <2> QED BY <1>1, <1>9, <1>10, <2>1, RunsThrough
<1> QED BY <1>3, <1>11 DEF s

LEMMA ErrorCheckRuns ==
  Runnable(Tail(ErrorCheck), View({"probe", "bin", "done", "txt", "nested", "dir"}, {}, "", <<>>,
      FALSE, FALSE),
           {"probe", "bin", "done", "txt", "nested", "dir", "missing"})
<1> DEFINE s == ErrorCheck
<1>1. /\ Len(s) = 4 /\ Script(s)
      /\ s[2] = Missing
      /\ s[3] = Clean("missing")
      /\ s[4] = Release
  <2>1. Script(s)
    BY ErrorCheckTidy DEF Tidy
  <2> QED BY <2>1 DEF ErrorCheck
<1> HIDE DEF s
<1>2. PICK V : V = <<View({"probe", "bin", "done", "txt", "nested", "dir"}, {}, "", <<>>, FALSE,
          FALSE),
                   View({"probe", "bin", "done", "txt", "nested", "dir"}, {}, "", <<>>, FALSE,
                       FALSE),
                   View({"probe", "bin", "done", "txt", "nested", "dir", "missing"}, {}, "",
                       <<>>, FALSE, FALSE)>>
  OBVIOUS
<1>3. /\ V[1] = View({"probe", "bin", "done", "txt", "nested", "dir"}, {}, "", <<>>, FALSE, FALSE)
      /\ V[2] = View({"probe", "bin", "done", "txt", "nested", "dir"}, {}, "", <<>>, FALSE, FALSE)
      /\ V[3] = View({"probe", "bin", "done", "txt", "nested", "dir", "missing"}, {}, "", <<>>,
             FALSE, FALSE)
  BY <1>2
<1>4. Leads(s[2], V[1], V[2], {"probe", "bin", "done", "txt", "nested", "dir", "missing"})
  <2>1. s[2].do = "missing"
    BY <1>1 DEF Missing
  <2>2. PICK v : v = V[1]
    OBVIOUS
  <2>3. PICK w : w = V[2]
    OBVIOUS
  <2>4. /\ v = View({"probe", "bin", "done", "txt", "nested", "dir"}, {}, "", <<>>, FALSE, FALSE)
        /\ w = View({"probe", "bin", "done", "txt", "nested", "dir"}, {}, "", <<>>, FALSE, FALSE)
    BY <1>3, <2>2, <2>3, Zenon
  <2> HIDE DEF s
  <2>7. Leads(s[2], v, w, {"probe", "bin", "done", "txt", "nested", "dir", "missing"})
    BY <2>1, <2>4 DEF Leads, LeadsName, Still, SameFile, Makes, Drops, Bare, View
  <2> QED BY <2>2, <2>3, <2>7, Zenon
<1>5. Leads(s[3], V[2], V[3], {"probe", "bin", "done", "txt", "nested", "dir", "missing"})
  <2>1. s[3].do = "clean" /\ s[3].name = "missing"
    BY <1>1 DEF Clean
  <2>2. PICK v : v = V[2]
    OBVIOUS
  <2>3. PICK w : w = V[3]
    OBVIOUS
  <2>4. /\ v = View({"probe", "bin", "done", "txt", "nested", "dir"}, {}, "", <<>>, FALSE, FALSE)
        /\ w = View({"probe", "bin", "done", "txt", "nested", "dir", "missing"}, {}, "", <<>>,
               FALSE, FALSE)
    BY <1>3, <2>2, <2>3, Zenon
  <2> HIDE DEF s
  <2>7. Leads(s[3], v, w, {"probe", "bin", "done", "txt", "nested", "dir", "missing"})
    BY <2>1, <2>4 DEF Leads, LeadsName, Still, SameFile, Makes, Drops, Bare, View
  <2> QED BY <2>2, <2>3, <2>7, Zenon
<1>6. \A i \in 1..(3 - 1) : Leads(s[i + 1], V[i], V[i + 1], {"probe", "bin", "done", "txt",
          "nested", "dir", "missing"})
  <2>1. \A i \in 1..(3 - 1) : i = 1 \/ i = 2
    OBVIOUS
  <2> QED BY <2>1, <1>4, <1>5
<1>7. s[3 + 1].do = "release" /\ {"probe", "bin", "done", "txt", "nested", "dir",
          "missing"} \subseteq V[3].gone /\ ~V[3].open
  <2>1. s[4].do = "release"
    BY <1>1 DEF Release
  <2>2. PICK v : v = V[3]
    OBVIOUS
  <2>3. v = View({"probe", "bin", "done", "txt", "nested", "dir", "missing"}, {}, "", <<>>,
            FALSE, FALSE)
    BY <1>3, <2>2, Zenon
  <2>4. {"probe", "bin", "done", "txt", "nested", "dir", "missing"} \subseteq v.gone /\ ~v.open
    BY <2>3 DEF View
  <2>5. 3 + 1 = 4
    OBVIOUS
  <2> QED BY <2>1, <2>2, <2>4, <2>5, Zenon
<1>8. Runnable(Tail(s), V[1], {"probe", "bin", "done", "txt", "nested", "dir", "missing"})
  <2>1. 3 \in Nat \ {0} /\ Len(s) = 3 + 1
    BY <1>1
  <2> QED BY <1>1, <1>6, <1>7, <2>1, RunsThrough
<1> QED BY <1>3, <1>8 DEF s

LEMMA PersistenceCheckRuns ==
  Runnable(Tail(PersistenceCheck), View({"probe", "bin", "done", "txt", "nested", "dir",
      "missing"}, {}, "", <<>>, FALSE, FALSE),
           {"probe", "bin", "done", "txt", "nested", "dir", "missing", "persist"})
<1> DEFINE s == PersistenceCheck
<1>1. /\ Len(s) = 10 /\ Script(s)
      /\ s[2] = Clean("persist")
      /\ s[3] = Open("persist", "w", <<>>)
      /\ s[4] = Add("p", <<"persist">>)
      /\ s[5] = Close
      /\ s[6] = Open("persist", "r", <<"persist">>)
      /\ s[7] = Verify(<<"p">>, <<"persist">>)
      /\ s[8] = Close
      /\ s[9] = Clean("persist")
      /\ s[10] = Release
  <2>1. Script(s)
    BY PersistenceCheckTidy DEF Tidy
  <2> QED BY <2>1 DEF PersistenceCheck
<1> HIDE DEF s
<1>2. PICK V : V = <<View({"probe", "bin", "done", "txt", "nested", "dir", "missing"}, {}, "",
          <<>>, FALSE, FALSE),
                   View({"probe", "bin", "done", "txt", "nested", "dir", "missing", "persist"},
                       {}, "", <<>>, FALSE, FALSE),
                   View({"probe", "bin", "done", "txt", "nested", "dir", "missing"}, {"persist"},
                       "persist", <<>>, TRUE, FALSE),
                   View({"probe", "bin", "done", "txt", "nested", "dir", "missing"}, {"persist"},
                       "persist", <<"p">>, TRUE, FALSE),
                   View({"probe", "bin", "done", "txt", "nested", "dir", "missing"}, {"persist"},
                       "persist", <<"p">>, FALSE, FALSE),
                   View({"probe", "bin", "done", "txt", "nested", "dir", "missing"}, {"persist"},
                       "persist", <<"p">>, TRUE, FALSE),
                   View({"probe", "bin", "done", "txt", "nested", "dir", "missing"}, {"persist"},
                       "persist", <<"p">>, TRUE, FALSE),
                   View({"probe", "bin", "done", "txt", "nested", "dir", "missing"}, {"persist"},
                       "persist", <<"p">>, FALSE, FALSE),
                   View({"probe", "bin", "done", "txt", "nested", "dir", "missing", "persist"},
                       {}, "persist", <<"p">>, FALSE, FALSE)>>
  OBVIOUS
<1>3. /\ V[1] = View({"probe", "bin", "done", "txt", "nested", "dir", "missing"}, {}, "", <<>>,
             FALSE, FALSE)
      /\ V[2] = View({"probe", "bin", "done", "txt", "nested", "dir", "missing", "persist"}, {},
             "", <<>>, FALSE, FALSE)
      /\ V[3] = View({"probe", "bin", "done", "txt", "nested", "dir", "missing"}, {"persist"},
             "persist", <<>>, TRUE, FALSE)
      /\ V[4] = View({"probe", "bin", "done", "txt", "nested", "dir", "missing"}, {"persist"},
             "persist", <<"p">>, TRUE, FALSE)
      /\ V[5] = View({"probe", "bin", "done", "txt", "nested", "dir", "missing"}, {"persist"},
             "persist", <<"p">>, FALSE, FALSE)
      /\ V[6] = View({"probe", "bin", "done", "txt", "nested", "dir", "missing"}, {"persist"},
             "persist", <<"p">>, TRUE, FALSE)
      /\ V[7] = View({"probe", "bin", "done", "txt", "nested", "dir", "missing"}, {"persist"},
             "persist", <<"p">>, TRUE, FALSE)
      /\ V[8] = View({"probe", "bin", "done", "txt", "nested", "dir", "missing"}, {"persist"},
             "persist", <<"p">>, FALSE, FALSE)
      /\ V[9] = View({"probe", "bin", "done", "txt", "nested", "dir", "missing", "persist"}, {},
             "persist", <<"p">>, FALSE, FALSE)
  BY <1>2
<1>4. Leads(s[2], V[1], V[2], {"probe", "bin", "done", "txt", "nested", "dir", "missing",
          "persist"})
  <2>1. s[2].do = "clean" /\ s[2].name = "persist"
    BY <1>1 DEF Clean
  <2>2. PICK v : v = V[1]
    OBVIOUS
  <2>3. PICK w : w = V[2]
    OBVIOUS
  <2>4. /\ v = View({"probe", "bin", "done", "txt", "nested", "dir", "missing"}, {}, "", <<>>,
               FALSE, FALSE)
        /\ w = View({"probe", "bin", "done", "txt", "nested", "dir", "missing", "persist"}, {},
               "", <<>>, FALSE, FALSE)
    BY <1>3, <2>2, <2>3, Zenon
  <2> HIDE DEF s
  <2>7. Leads(s[2], v, w, {"probe", "bin", "done", "txt", "nested", "dir", "missing", "persist"})
    BY <2>1, <2>4 DEF Leads, LeadsName, Still, SameFile, Makes, Drops, Bare, View
  <2> QED BY <2>2, <2>3, <2>7, Zenon
<1>5. Leads(s[3], V[2], V[3], {"probe", "bin", "done", "txt", "nested", "dir", "missing",
          "persist"})
  <2>1. s[3].do = "open" /\ s[3].name = "persist" /\ s[3].mode = "w"
    BY <1>1 DEF Open
  <2>2. PICK v : v = V[2]
    OBVIOUS
  <2>3. PICK w : w = V[3]
    OBVIOUS
  <2>4. /\ v = View({"probe", "bin", "done", "txt", "nested", "dir", "missing", "persist"}, {},
               "", <<>>, FALSE, FALSE)
        /\ w = View({"probe", "bin", "done", "txt", "nested", "dir", "missing"}, {"persist"},
               "persist", <<>>, TRUE, FALSE)
    BY <1>3, <2>2, <2>3, Zenon
  <2> HIDE DEF s
  <2>7. Leads(s[3], v, w, {"probe", "bin", "done", "txt", "nested", "dir", "missing", "persist"})
    BY <2>1, <2>4 DEF Leads, LeadsFile, Still, SameFile, Makes, View
  <2> QED BY <2>2, <2>3, <2>7, Zenon
<1>6. Leads(s[4], V[3], V[4], {"probe", "bin", "done", "txt", "nested", "dir", "missing",
          "persist"})
  <2>1. s[4].do = "put" /\ s[4].offset = 99 /\ s[4].what = <<"p">>
    BY <1>1 DEF Add, Put
  <2>2. PICK v : v = V[3]
    OBVIOUS
  <2>3. PICK w : w = V[4]
    OBVIOUS
  <2>4. /\ v = View({"probe", "bin", "done", "txt", "nested", "dir", "missing"}, {"persist"},
               "persist", <<>>, TRUE, FALSE)
        /\ w = View({"probe", "bin", "done", "txt", "nested", "dir", "missing"}, {"persist"},
               "persist", <<"p">>, TRUE, FALSE)
    BY <1>3, <2>2, <2>3, Zenon
  <2> HIDE DEF s
  <2>5. Written(s[4].offset, s[4].what, v.text) = w.text
    <3>1. v.text = <<>> /\ w.text = <<"p">>
      BY <2>4 DEF View
    <3>2. Written(99, <<"p">>, <<>>) = <<"p">>
      BY WritesFirst
    <3> QED BY <2>1, <3>1, <3>2, Zenon
  <2>6. Len(v.text) \in Nat /\ (s[4].offset = 99 \/ s[4].offset <= Len(v.text))
    BY <2>1, <2>4 DEF View
  <2>7. Leads(s[4], v, w, {"probe", "bin", "done", "txt", "nested", "dir", "missing", "persist"})
    BY <2>1, <2>4, <2>5, <2>6 DEF Leads, LeadsFile, Still, View
  <2> QED BY <2>2, <2>3, <2>7, Zenon
<1>7. Leads(s[5], V[4], V[5], {"probe", "bin", "done", "txt", "nested", "dir", "missing",
          "persist"})
  <2>1. s[5].do = "close"
    BY <1>1 DEF Close
  <2>2. PICK v : v = V[4]
    OBVIOUS
  <2>3. PICK w : w = V[5]
    OBVIOUS
  <2>4. /\ v = View({"probe", "bin", "done", "txt", "nested", "dir", "missing"}, {"persist"},
               "persist", <<"p">>, TRUE, FALSE)
        /\ w = View({"probe", "bin", "done", "txt", "nested", "dir", "missing"}, {"persist"},
               "persist", <<"p">>, FALSE, FALSE)
    BY <1>3, <2>2, <2>3, Zenon
  <2> HIDE DEF s
  <2>7. Leads(s[5], v, w, {"probe", "bin", "done", "txt", "nested", "dir", "missing", "persist"})
    BY <2>1, <2>4 DEF Leads, LeadsFile, Still, SameFile, Makes, View
  <2> QED BY <2>2, <2>3, <2>7, Zenon
<1>8. Leads(s[6], V[5], V[6], {"probe", "bin", "done", "txt", "nested", "dir", "missing",
          "persist"})
  <2>1. s[6].do = "open" /\ s[6].name = "persist" /\ s[6].mode = "r"
    BY <1>1 DEF Open
  <2>2. PICK v : v = V[5]
    OBVIOUS
  <2>3. PICK w : w = V[6]
    OBVIOUS
  <2>4. /\ v = View({"probe", "bin", "done", "txt", "nested", "dir", "missing"}, {"persist"},
               "persist", <<"p">>, FALSE, FALSE)
        /\ w = View({"probe", "bin", "done", "txt", "nested", "dir", "missing"}, {"persist"},
               "persist", <<"p">>, TRUE, FALSE)
    BY <1>3, <2>2, <2>3, Zenon
  <2> HIDE DEF s
  <2>7. Leads(s[6], v, w, {"probe", "bin", "done", "txt", "nested", "dir", "missing", "persist"})
    BY <2>1, <2>4 DEF Leads, LeadsFile, Still, SameFile, Makes, View
  <2> QED BY <2>2, <2>3, <2>7, Zenon
<1>9. Leads(s[7], V[6], V[7], {"probe", "bin", "done", "txt", "nested", "dir", "missing",
          "persist"})
  <2>1. s[7].do = "verify" /\ s[7].want = <<"p">>
    BY <1>1 DEF Verify
  <2>2. PICK v : v = V[6]
    OBVIOUS
  <2>3. PICK w : w = V[7]
    OBVIOUS
  <2>4. /\ v = View({"probe", "bin", "done", "txt", "nested", "dir", "missing"}, {"persist"},
               "persist", <<"p">>, TRUE, FALSE)
        /\ w = View({"probe", "bin", "done", "txt", "nested", "dir", "missing"}, {"persist"},
               "persist", <<"p">>, TRUE, FALSE)
    BY <1>3, <2>2, <2>3, Zenon
  <2> HIDE DEF s
  <2>7. Leads(s[7], v, w, {"probe", "bin", "done", "txt", "nested", "dir", "missing", "persist"})
    BY <2>1, <2>4 DEF Leads, LeadsFile, Still, SameFile, Makes, View
  <2> QED BY <2>2, <2>3, <2>7, Zenon
<1>10. Leads(s[8], V[7], V[8], {"probe", "bin", "done", "txt", "nested", "dir", "missing",
           "persist"})
  <2>1. s[8].do = "close"
    BY <1>1 DEF Close
  <2>2. PICK v : v = V[7]
    OBVIOUS
  <2>3. PICK w : w = V[8]
    OBVIOUS
  <2>4. /\ v = View({"probe", "bin", "done", "txt", "nested", "dir", "missing"}, {"persist"},
               "persist", <<"p">>, TRUE, FALSE)
        /\ w = View({"probe", "bin", "done", "txt", "nested", "dir", "missing"}, {"persist"},
               "persist", <<"p">>, FALSE, FALSE)
    BY <1>3, <2>2, <2>3, Zenon
  <2> HIDE DEF s
  <2>7. Leads(s[8], v, w, {"probe", "bin", "done", "txt", "nested", "dir", "missing", "persist"})
    BY <2>1, <2>4 DEF Leads, LeadsFile, Still, SameFile, Makes, View
  <2> QED BY <2>2, <2>3, <2>7, Zenon
<1>11. Leads(s[9], V[8], V[9], {"probe", "bin", "done", "txt", "nested", "dir", "missing",
           "persist"})
  <2>1. s[9].do = "clean" /\ s[9].name = "persist"
    BY <1>1 DEF Clean
  <2>2. PICK v : v = V[8]
    OBVIOUS
  <2>3. PICK w : w = V[9]
    OBVIOUS
  <2>4. /\ v = View({"probe", "bin", "done", "txt", "nested", "dir", "missing"}, {"persist"},
               "persist", <<"p">>, FALSE, FALSE)
        /\ w = View({"probe", "bin", "done", "txt", "nested", "dir", "missing", "persist"}, {},
               "persist", <<"p">>, FALSE, FALSE)
    BY <1>3, <2>2, <2>3, Zenon
  <2> HIDE DEF s
  <2>7. Leads(s[9], v, w, {"probe", "bin", "done", "txt", "nested", "dir", "missing", "persist"})
    BY <2>1, <2>4 DEF Leads, LeadsName, Still, SameFile, Makes, Drops, Bare, View
  <2> QED BY <2>2, <2>3, <2>7, Zenon
<1>12. \A i \in 1..(9 - 1) : Leads(s[i + 1], V[i], V[i + 1], {"probe", "bin", "done", "txt",
           "nested", "dir", "missing", "persist"})
  <2>1. \A i \in 1..(9 - 1) : i = 1 \/ i = 2 \/ i = 3 \/ i = 4 \/ i = 5 \/ i = 6 \/ i = 7 \/ i = 8
    OBVIOUS
  <2> QED BY <2>1, <1>4, <1>5, <1>6, <1>7, <1>8, <1>9, <1>10, <1>11
<1>13. s[9 + 1].do = "release" /\ {"probe", "bin", "done", "txt", "nested", "dir", "missing",
           "persist"} \subseteq V[9].gone /\ ~V[9].open
  <2>1. s[10].do = "release"
    BY <1>1 DEF Release
  <2>2. PICK v : v = V[9]
    OBVIOUS
  <2>3. v = View({"probe", "bin", "done", "txt", "nested", "dir", "missing", "persist"}, {},
            "persist", <<"p">>, FALSE, FALSE)
    BY <1>3, <2>2, Zenon
  <2>4. {"probe", "bin", "done", "txt", "nested", "dir", "missing",
            "persist"} \subseteq v.gone /\ ~v.open
    BY <2>3 DEF View
  <2>5. 9 + 1 = 10
    OBVIOUS
  <2> QED BY <2>1, <2>2, <2>4, <2>5, Zenon
<1>14. Runnable(Tail(s), V[1], {"probe", "bin", "done", "txt", "nested", "dir", "missing",
           "persist"})
  <2>1. 9 \in Nat \ {0} /\ Len(s) = 9 + 1
    BY <1>1
  <2> QED BY <1>1, <1>12, <1>13, <2>1, RunsThrough
<1> QED BY <1>3, <1>14 DEF s

LEMMA FileCheckRuns ==
  Runnable(Tail(FileCheck), View({"probe"}, {}, "", <<>>, FALSE, FALSE),
           {"probe", "bin", "done"})
<1> DEFINE s == FileCheck
<1>1. /\ Len(s) = 17 /\ Script(s)
      /\ s[2] = Clean("bin")
      /\ s[3] = Clean("done")
      /\ s[4] = Open("bin", "w", <<>>)
      /\ s[5] = Put(0, <<"A", "A", "A">>, <<"bin">>)
      /\ s[6] = Put(1, <<"B">>, <<"bin">>)
      /\ s[7] = Put(3, <<"C">>, <<"bin">>)
      /\ s[8] = Close
      /\ s[9] = Open("bin", "r", <<"bin">>)
      /\ s[10] = Verify(Pattern, <<"bin">>)
      /\ s[11] = Close
      /\ s[12] = Rename("bin", "done", <<"bin">>)
      /\ s[13] = Gone("bin", <<"bin", "done">>)
      /\ s[14] = There("done", <<"bin", "done">>)
      /\ s[15] = Remove("done", <<>>)
      /\ s[16] = Gone("done", <<>>)
      /\ s[17] = Release
  <2> DEFINE a == <<Ensure, Clean("bin"), Clean("done")>>
  <2>1. Script(a) /\ Len(a) = 3 /\ a[2] = Clean("bin") /\ a[3] = Clean("done")
    BY ShortScripts
  <2>2. Script(FilePiece) /\ Len(FilePiece) = 14
    BY FilePieceTidy DEF Tidy, FilePiece
  <2>3. s = a \o FilePiece
    BY DEF FileCheck, FilePiece
  <2> HIDE DEF a, s
  <2>4. /\ Len(s) = 17 /\ Script(s) /\ s[2] = a[2] /\ s[3] = a[3]
        /\ \A k \in 1..14 : s[3 + k] = FilePiece[k]
    <3>1. /\ Len(a \o FilePiece) = Len(a) + Len(FilePiece) /\ Script(a \o FilePiece)
          /\ \A k \in 1..Len(a) : (a \o FilePiece)[k] = a[k]
          /\ \A k \in 1..Len(FilePiece) : (a \o FilePiece)[Len(a) + k] = FilePiece[k]
      <4>1. Script(a) /\ Script(FilePiece)
        BY <2>1, <2>2
      <4> HIDE DEF a
      <4> QED BY <4>1, PairJoin
    <3>2. /\ Len(s) = 3 + 14 /\ Script(s) /\ \A k \in 1..3 : s[k] = a[k]
          /\ \A k \in 1..14 : s[3 + k] = FilePiece[k]
      BY <2>1, <2>2, <2>3, <3>1, Zenon
    <3>3. 2 \in 1..3 /\ 3 \in 1..3
      OBVIOUS
    <3> QED BY <3>2, <3>3
  <2>5. /\ s[4] = FilePiece[1]
        /\ s[5] = FilePiece[2]
        /\ s[6] = FilePiece[3]
        /\ s[7] = FilePiece[4]
        /\ s[8] = FilePiece[5]
        /\ s[9] = FilePiece[6]
        /\ s[10] = FilePiece[7]
        /\ s[11] = FilePiece[8]
        /\ s[12] = FilePiece[9]
        /\ s[13] = FilePiece[10]
        /\ s[14] = FilePiece[11]
        /\ s[15] = FilePiece[12]
        /\ s[16] = FilePiece[13]
        /\ s[17] = FilePiece[14]
    <3>1. /\ 1 \in 1..14 /\ 3 + 1 = 4
          /\ 2 \in 1..14 /\ 3 + 2 = 5
          /\ 3 \in 1..14 /\ 3 + 3 = 6
          /\ 4 \in 1..14 /\ 3 + 4 = 7
          /\ 5 \in 1..14 /\ 3 + 5 = 8
          /\ 6 \in 1..14 /\ 3 + 6 = 9
          /\ 7 \in 1..14 /\ 3 + 7 = 10
          /\ 8 \in 1..14 /\ 3 + 8 = 11
          /\ 9 \in 1..14 /\ 3 + 9 = 12
          /\ 10 \in 1..14 /\ 3 + 10 = 13
          /\ 11 \in 1..14 /\ 3 + 11 = 14
          /\ 12 \in 1..14 /\ 3 + 12 = 15
          /\ 13 \in 1..14 /\ 3 + 13 = 16
          /\ 14 \in 1..14 /\ 3 + 14 = 17
      OBVIOUS
    <3> QED BY <2>4, <3>1
  <2>6. /\ FilePiece[1] = Open("bin", "w", <<>>)
        /\ FilePiece[2] = Put(0, <<"A", "A", "A">>, <<"bin">>)
        /\ FilePiece[3] = Put(1, <<"B">>, <<"bin">>)
        /\ FilePiece[4] = Put(3, <<"C">>, <<"bin">>)
        /\ FilePiece[5] = Close
        /\ FilePiece[6] = Open("bin", "r", <<"bin">>)
        /\ FilePiece[7] = Verify(Pattern, <<"bin">>)
        /\ FilePiece[8] = Close
        /\ FilePiece[9] = Rename("bin", "done", <<"bin">>)
        /\ FilePiece[10] = Gone("bin", <<"bin", "done">>)
        /\ FilePiece[11] = There("done", <<"bin", "done">>)
        /\ FilePiece[12] = Remove("done", <<>>)
        /\ FilePiece[13] = Gone("done", <<>>)
        /\ FilePiece[14] = Release
    BY DEF FilePiece
  <2> QED BY <2>1, <2>4, <2>5, <2>6
<1> HIDE DEF s
<1>2. PICK V : V = <<View({"probe"}, {}, "", <<>>, FALSE, FALSE),
                   View({"probe", "bin"}, {}, "", <<>>, FALSE, FALSE),
                   View({"probe", "bin", "done"}, {}, "", <<>>, FALSE, FALSE),
                   View({"probe", "done"}, {"bin"}, "bin", <<>>, TRUE, FALSE),
                   View({"probe", "done"}, {"bin"}, "bin", <<"A", "A", "A">>, TRUE, FALSE),
                   View({"probe", "done"}, {"bin"}, "bin", <<"A", "B", "A">>, TRUE, FALSE),
                   View({"probe", "done"}, {"bin"}, "bin", <<"A", "B", "A", "C">>, TRUE, FALSE),
                   View({"probe", "done"}, {"bin"}, "bin", <<"A", "B", "A", "C">>, FALSE, FALSE),
                   View({"probe", "done"}, {"bin"}, "bin", <<"A", "B", "A", "C">>, TRUE, FALSE),
                   View({"probe", "done"}, {"bin"}, "bin", <<"A", "B", "A", "C">>, TRUE, FALSE),
                   View({"probe", "done"}, {"bin"}, "bin", <<"A", "B", "A", "C">>, FALSE, FALSE),
                   View({"probe", "bin"}, {"done"}, "done", <<"A", "B", "A", "C">>, FALSE, FALSE),
                   View({"probe", "bin"}, {"done"}, "done", <<"A", "B", "A", "C">>, FALSE, FALSE),
                   View({"probe", "bin"}, {"done"}, "done", <<"A", "B", "A", "C">>, FALSE, FALSE),
                   View({"probe", "bin", "done"}, {}, "done", <<"A", "B", "A", "C">>, FALSE, FALSE),
                   View({"probe", "bin", "done"}, {}, "done", <<"A", "B", "A", "C">>, FALSE,
                       FALSE)>>
  OBVIOUS
<1>3. /\ V[1] = View({"probe"}, {}, "", <<>>, FALSE, FALSE)
      /\ V[2] = View({"probe", "bin"}, {}, "", <<>>, FALSE, FALSE)
      /\ V[3] = View({"probe", "bin", "done"}, {}, "", <<>>, FALSE, FALSE)
      /\ V[4] = View({"probe", "done"}, {"bin"}, "bin", <<>>, TRUE, FALSE)
      /\ V[5] = View({"probe", "done"}, {"bin"}, "bin", <<"A", "A", "A">>, TRUE, FALSE)
      /\ V[6] = View({"probe", "done"}, {"bin"}, "bin", <<"A", "B", "A">>, TRUE, FALSE)
      /\ V[7] = View({"probe", "done"}, {"bin"}, "bin", <<"A", "B", "A", "C">>, TRUE, FALSE)
      /\ V[8] = View({"probe", "done"}, {"bin"}, "bin", <<"A", "B", "A", "C">>, FALSE, FALSE)
      /\ V[9] = View({"probe", "done"}, {"bin"}, "bin", <<"A", "B", "A", "C">>, TRUE, FALSE)
      /\ V[10] = View({"probe", "done"}, {"bin"}, "bin", <<"A", "B", "A", "C">>, TRUE, FALSE)
      /\ V[11] = View({"probe", "done"}, {"bin"}, "bin", <<"A", "B", "A", "C">>, FALSE, FALSE)
      /\ V[12] = View({"probe", "bin"}, {"done"}, "done", <<"A", "B", "A", "C">>, FALSE, FALSE)
      /\ V[13] = View({"probe", "bin"}, {"done"}, "done", <<"A", "B", "A", "C">>, FALSE, FALSE)
      /\ V[14] = View({"probe", "bin"}, {"done"}, "done", <<"A", "B", "A", "C">>, FALSE, FALSE)
      /\ V[15] = View({"probe", "bin", "done"}, {}, "done", <<"A", "B", "A", "C">>, FALSE, FALSE)
      /\ V[16] = View({"probe", "bin", "done"}, {}, "done", <<"A", "B", "A", "C">>, FALSE, FALSE)
  BY <1>2
<1>4. Leads(s[2], V[1], V[2], {"probe", "bin", "done"})
  <2>1. s[2].do = "clean" /\ s[2].name = "bin"
    BY <1>1 DEF Clean
  <2>2. PICK v : v = V[1]
    OBVIOUS
  <2>3. PICK w : w = V[2]
    OBVIOUS
  <2>4. /\ v = View({"probe"}, {}, "", <<>>, FALSE, FALSE)
        /\ w = View({"probe", "bin"}, {}, "", <<>>, FALSE, FALSE)
    BY <1>3, <2>2, <2>3, Zenon
  <2> HIDE DEF s
  <2>7. Leads(s[2], v, w, {"probe", "bin", "done"})
    BY <2>1, <2>4 DEF Leads, LeadsName, Still, SameFile, Makes, Drops, Bare, View
  <2> QED BY <2>2, <2>3, <2>7, Zenon
<1>5. Leads(s[3], V[2], V[3], {"probe", "bin", "done"})
  <2>1. s[3].do = "clean" /\ s[3].name = "done"
    BY <1>1 DEF Clean
  <2>2. PICK v : v = V[2]
    OBVIOUS
  <2>3. PICK w : w = V[3]
    OBVIOUS
  <2>4. /\ v = View({"probe", "bin"}, {}, "", <<>>, FALSE, FALSE)
        /\ w = View({"probe", "bin", "done"}, {}, "", <<>>, FALSE, FALSE)
    BY <1>3, <2>2, <2>3, Zenon
  <2> HIDE DEF s
  <2>7. Leads(s[3], v, w, {"probe", "bin", "done"})
    BY <2>1, <2>4 DEF Leads, LeadsName, Still, SameFile, Makes, Drops, Bare, View
  <2> QED BY <2>2, <2>3, <2>7, Zenon
<1>6. Leads(s[4], V[3], V[4], {"probe", "bin", "done"})
  <2>1. s[4].do = "open" /\ s[4].name = "bin" /\ s[4].mode = "w"
    BY <1>1 DEF Open
  <2>2. PICK v : v = V[3]
    OBVIOUS
  <2>3. PICK w : w = V[4]
    OBVIOUS
  <2>4. /\ v = View({"probe", "bin", "done"}, {}, "", <<>>, FALSE, FALSE)
        /\ w = View({"probe", "done"}, {"bin"}, "bin", <<>>, TRUE, FALSE)
    BY <1>3, <2>2, <2>3, Zenon
  <2> HIDE DEF s
  <2>7. Leads(s[4], v, w, {"probe", "bin", "done"})
    BY <2>1, <2>4 DEF Leads, LeadsFile, Still, SameFile, Makes, View
  <2> QED BY <2>2, <2>3, <2>7, Zenon
<1>7. Leads(s[5], V[4], V[5], {"probe", "bin", "done"})
  <2>1. s[5].do = "put" /\ s[5].offset = 0 /\ s[5].what = <<"A", "A", "A">>
    BY <1>1 DEF Put
  <2>2. PICK v : v = V[4]
    OBVIOUS
  <2>3. PICK w : w = V[5]
    OBVIOUS
  <2>4. /\ v = View({"probe", "done"}, {"bin"}, "bin", <<>>, TRUE, FALSE)
        /\ w = View({"probe", "done"}, {"bin"}, "bin", <<"A", "A", "A">>, TRUE, FALSE)
    BY <1>3, <2>2, <2>3, Zenon
  <2> HIDE DEF s
  <2>5. Written(s[5].offset, s[5].what, v.text) = w.text
    <3>1. v.text = <<>> /\ w.text = <<"A", "A", "A">>
      BY <2>4 DEF View
    <3>2. Written(0, <<"A", "A", "A">>, <<>>) = <<"A", "A", "A">>
      BY WritesPattern
    <3> QED BY <2>1, <3>1, <3>2, Zenon
  <2>6. Len(v.text) \in Nat /\ (s[5].offset = 99 \/ s[5].offset <= Len(v.text))
    BY <2>1, <2>4 DEF View
  <2>7. Leads(s[5], v, w, {"probe", "bin", "done"})
    BY <2>1, <2>4, <2>5, <2>6 DEF Leads, LeadsFile, Still, View
  <2> QED BY <2>2, <2>3, <2>7, Zenon
<1>8. Leads(s[6], V[5], V[6], {"probe", "bin", "done"})
  <2>1. s[6].do = "put" /\ s[6].offset = 1 /\ s[6].what = <<"B">>
    BY <1>1 DEF Put
  <2>2. PICK v : v = V[5]
    OBVIOUS
  <2>3. PICK w : w = V[6]
    OBVIOUS
  <2>4. /\ v = View({"probe", "done"}, {"bin"}, "bin", <<"A", "A", "A">>, TRUE, FALSE)
        /\ w = View({"probe", "done"}, {"bin"}, "bin", <<"A", "B", "A">>, TRUE, FALSE)
    BY <1>3, <2>2, <2>3, Zenon
  <2> HIDE DEF s
  <2>5. Written(s[6].offset, s[6].what, v.text) = w.text
    <3>1. v.text = <<"A", "A", "A">> /\ w.text = <<"A", "B", "A">>
      BY <2>4 DEF View
    <3>2. Written(1, <<"B">>, <<"A", "A", "A">>) = <<"A", "B", "A">>
      BY WritesPattern
    <3> QED BY <2>1, <3>1, <3>2, Zenon
  <2>6. Len(v.text) \in Nat /\ (s[6].offset = 99 \/ s[6].offset <= Len(v.text))
    BY <2>1, <2>4 DEF View
  <2>7. Leads(s[6], v, w, {"probe", "bin", "done"})
    BY <2>1, <2>4, <2>5, <2>6 DEF Leads, LeadsFile, Still, View
  <2> QED BY <2>2, <2>3, <2>7, Zenon
<1>9. Leads(s[7], V[6], V[7], {"probe", "bin", "done"})
  <2>1. s[7].do = "put" /\ s[7].offset = 3 /\ s[7].what = <<"C">>
    BY <1>1 DEF Put
  <2>2. PICK v : v = V[6]
    OBVIOUS
  <2>3. PICK w : w = V[7]
    OBVIOUS
  <2>4. /\ v = View({"probe", "done"}, {"bin"}, "bin", <<"A", "B", "A">>, TRUE, FALSE)
        /\ w = View({"probe", "done"}, {"bin"}, "bin", <<"A", "B", "A", "C">>, TRUE, FALSE)
    BY <1>3, <2>2, <2>3, Zenon
  <2> HIDE DEF s
  <2>5. Written(s[7].offset, s[7].what, v.text) = w.text
    <3>1. v.text = <<"A", "B", "A">> /\ w.text = <<"A", "B", "A", "C">>
      BY <2>4 DEF View
    <3>2. Written(3, <<"C">>, <<"A", "B", "A">>) = <<"A", "B", "A", "C">>
      BY WritesPattern
    <3> QED BY <2>1, <3>1, <3>2, Zenon
  <2>6. Len(v.text) \in Nat /\ (s[7].offset = 99 \/ s[7].offset <= Len(v.text))
    BY <2>1, <2>4 DEF View
  <2>7. Leads(s[7], v, w, {"probe", "bin", "done"})
    BY <2>1, <2>4, <2>5, <2>6 DEF Leads, LeadsFile, Still, View
  <2> QED BY <2>2, <2>3, <2>7, Zenon
<1>10. Leads(s[8], V[7], V[8], {"probe", "bin", "done"})
  <2>1. s[8].do = "close"
    BY <1>1 DEF Close
  <2>2. PICK v : v = V[7]
    OBVIOUS
  <2>3. PICK w : w = V[8]
    OBVIOUS
  <2>4. /\ v = View({"probe", "done"}, {"bin"}, "bin", <<"A", "B", "A", "C">>, TRUE, FALSE)
        /\ w = View({"probe", "done"}, {"bin"}, "bin", <<"A", "B", "A", "C">>, FALSE, FALSE)
    BY <1>3, <2>2, <2>3, Zenon
  <2> HIDE DEF s
  <2>7. Leads(s[8], v, w, {"probe", "bin", "done"})
    BY <2>1, <2>4 DEF Leads, LeadsFile, Still, SameFile, Makes, View
  <2> QED BY <2>2, <2>3, <2>7, Zenon
<1>11. Leads(s[9], V[8], V[9], {"probe", "bin", "done"})
  <2>1. s[9].do = "open" /\ s[9].name = "bin" /\ s[9].mode = "r"
    BY <1>1 DEF Open
  <2>2. PICK v : v = V[8]
    OBVIOUS
  <2>3. PICK w : w = V[9]
    OBVIOUS
  <2>4. /\ v = View({"probe", "done"}, {"bin"}, "bin", <<"A", "B", "A", "C">>, FALSE, FALSE)
        /\ w = View({"probe", "done"}, {"bin"}, "bin", <<"A", "B", "A", "C">>, TRUE, FALSE)
    BY <1>3, <2>2, <2>3, Zenon
  <2> HIDE DEF s
  <2>7. Leads(s[9], v, w, {"probe", "bin", "done"})
    BY <2>1, <2>4 DEF Leads, LeadsFile, Still, SameFile, Makes, View
  <2> QED BY <2>2, <2>3, <2>7, Zenon
<1>12. Leads(s[10], V[9], V[10], {"probe", "bin", "done"})
  <2>1. s[10].do = "verify" /\ s[10].want = <<"A", "B", "A", "C">>
    BY <1>1 DEF Verify, Pattern
  <2>2. PICK v : v = V[9]
    OBVIOUS
  <2>3. PICK w : w = V[10]
    OBVIOUS
  <2>4. /\ v = View({"probe", "done"}, {"bin"}, "bin", <<"A", "B", "A", "C">>, TRUE, FALSE)
        /\ w = View({"probe", "done"}, {"bin"}, "bin", <<"A", "B", "A", "C">>, TRUE, FALSE)
    BY <1>3, <2>2, <2>3, Zenon
  <2> HIDE DEF s
  <2>7. Leads(s[10], v, w, {"probe", "bin", "done"})
    BY <2>1, <2>4 DEF Leads, LeadsFile, Still, SameFile, Makes, View
  <2> QED BY <2>2, <2>3, <2>7, Zenon
<1>13. Leads(s[11], V[10], V[11], {"probe", "bin", "done"})
  <2>1. s[11].do = "close"
    BY <1>1 DEF Close
  <2>2. PICK v : v = V[10]
    OBVIOUS
  <2>3. PICK w : w = V[11]
    OBVIOUS
  <2>4. /\ v = View({"probe", "done"}, {"bin"}, "bin", <<"A", "B", "A", "C">>, TRUE, FALSE)
        /\ w = View({"probe", "done"}, {"bin"}, "bin", <<"A", "B", "A", "C">>, FALSE, FALSE)
    BY <1>3, <2>2, <2>3, Zenon
  <2> HIDE DEF s
  <2>7. Leads(s[11], v, w, {"probe", "bin", "done"})
    BY <2>1, <2>4 DEF Leads, LeadsFile, Still, SameFile, Makes, View
  <2> QED BY <2>2, <2>3, <2>7, Zenon
<1>14. Leads(s[12], V[11], V[12], {"probe", "bin", "done"})
  <2>1. s[12].do = "rename" /\ s[12].name = "bin" /\ s[12].to = "done"
    BY <1>1 DEF Rename
  <2>2. PICK v : v = V[11]
    OBVIOUS
  <2>3. PICK w : w = V[12]
    OBVIOUS
  <2>4. /\ v = View({"probe", "done"}, {"bin"}, "bin", <<"A", "B", "A", "C">>, FALSE, FALSE)
        /\ w = View({"probe", "bin"}, {"done"}, "done", <<"A", "B", "A", "C">>, FALSE, FALSE)
    BY <1>3, <2>2, <2>3, Zenon
  <2> HIDE DEF s
  <2>7. Leads(s[12], v, w, {"probe", "bin", "done"})
    BY <2>1, <2>4 DEF Leads, LeadsName, Still, SameFile, Makes, Drops, Bare, View
  <2> QED BY <2>2, <2>3, <2>7, Zenon
<1>15. Leads(s[13], V[12], V[13], {"probe", "bin", "done"})
  <2>1. s[13].do = "is" /\ s[13].name = "bin" /\ s[13].there = FALSE
    BY <1>1 DEF Gone
  <2>2. PICK v : v = V[12]
    OBVIOUS
  <2>3. PICK w : w = V[13]
    OBVIOUS
  <2>4. /\ v = View({"probe", "bin"}, {"done"}, "done", <<"A", "B", "A", "C">>, FALSE, FALSE)
        /\ w = View({"probe", "bin"}, {"done"}, "done", <<"A", "B", "A", "C">>, FALSE, FALSE)
    BY <1>3, <2>2, <2>3, Zenon
  <2> HIDE DEF s
  <2>7. Leads(s[13], v, w, {"probe", "bin", "done"})
    BY <2>1, <2>4 DEF Leads, LeadsName, Still, SameFile, Makes, Drops, Bare, View
  <2> QED BY <2>2, <2>3, <2>7, Zenon
<1>16. Leads(s[14], V[13], V[14], {"probe", "bin", "done"})
  <2>1. s[14].do = "is" /\ s[14].name = "done" /\ s[14].there = TRUE
    BY <1>1 DEF There
  <2>2. PICK v : v = V[13]
    OBVIOUS
  <2>3. PICK w : w = V[14]
    OBVIOUS
  <2>4. /\ v = View({"probe", "bin"}, {"done"}, "done", <<"A", "B", "A", "C">>, FALSE, FALSE)
        /\ w = View({"probe", "bin"}, {"done"}, "done", <<"A", "B", "A", "C">>, FALSE, FALSE)
    BY <1>3, <2>2, <2>3, Zenon
  <2> HIDE DEF s
  <2>7. Leads(s[14], v, w, {"probe", "bin", "done"})
    BY <2>1, <2>4 DEF Leads, LeadsName, Still, SameFile, Makes, Drops, Bare, View
  <2> QED BY <2>2, <2>3, <2>7, Zenon
<1>17. Leads(s[15], V[14], V[15], {"probe", "bin", "done"})
  <2>1. s[15].do = "remove" /\ s[15].name = "done"
    BY <1>1 DEF Remove
  <2>2. PICK v : v = V[14]
    OBVIOUS
  <2>3. PICK w : w = V[15]
    OBVIOUS
  <2>4. /\ v = View({"probe", "bin"}, {"done"}, "done", <<"A", "B", "A", "C">>, FALSE, FALSE)
        /\ w = View({"probe", "bin", "done"}, {}, "done", <<"A", "B", "A", "C">>, FALSE, FALSE)
    BY <1>3, <2>2, <2>3, Zenon
  <2> HIDE DEF s
  <2>7. Leads(s[15], v, w, {"probe", "bin", "done"})
    BY <2>1, <2>4 DEF Leads, LeadsName, Still, SameFile, Makes, Drops, Bare, View
  <2> QED BY <2>2, <2>3, <2>7, Zenon
<1>18. Leads(s[16], V[15], V[16], {"probe", "bin", "done"})
  <2>1. s[16].do = "is" /\ s[16].name = "done" /\ s[16].there = FALSE
    BY <1>1 DEF Gone
  <2>2. PICK v : v = V[15]
    OBVIOUS
  <2>3. PICK w : w = V[16]
    OBVIOUS
  <2>4. /\ v = View({"probe", "bin", "done"}, {}, "done", <<"A", "B", "A", "C">>, FALSE, FALSE)
        /\ w = View({"probe", "bin", "done"}, {}, "done", <<"A", "B", "A", "C">>, FALSE, FALSE)
    BY <1>3, <2>2, <2>3, Zenon
  <2> HIDE DEF s
  <2>7. Leads(s[16], v, w, {"probe", "bin", "done"})
    BY <2>1, <2>4 DEF Leads, LeadsName, Still, SameFile, Makes, Drops, Bare, View
  <2> QED BY <2>2, <2>3, <2>7, Zenon
<1>19. \A i \in 1..(16 - 1) : Leads(s[i + 1], V[i], V[i + 1], {"probe", "bin", "done"})
  <2>1. \A i \in 1..(16 - 1) : i = 1 \/ i = 2 \/ i = 3 \/ i = 4 \/ i = 5 \/ i = 6 \/ i = 7
            \/ i = 8 \/ i = 9 \/ i = 10 \/ i = 11 \/ i = 12 \/ i = 13 \/ i = 14 \/ i = 15
    OBVIOUS
  <2> QED BY <2>1, <1>4, <1>5, <1>6, <1>7, <1>8, <1>9, <1>10, <1>11, <1>12, <1>13, <1>14, <1>15,
      <1>16, <1>17, <1>18
<1>20. s[16 + 1].do = "release" /\ {"probe", "bin", "done"} \subseteq V[16].gone /\ ~V[16].open
  <2>1. s[17].do = "release"
    BY <1>1 DEF Release
  <2>2. PICK v : v = V[16]
    OBVIOUS
  <2>3. v = View({"probe", "bin", "done"}, {}, "done", <<"A", "B", "A", "C">>, FALSE, FALSE)
    BY <1>3, <2>2, Zenon
  <2>4. {"probe", "bin", "done"} \subseteq v.gone /\ ~v.open
    BY <2>3 DEF View
  <2>5. 16 + 1 = 17
    OBVIOUS
  <2> QED BY <2>1, <2>2, <2>4, <2>5, Zenon
<1>21. Runnable(Tail(s), V[1], {"probe", "bin", "done"})
  <2>1. 16 \in Nat \ {0} /\ Len(s) = 16 + 1
    BY <1>1
  <2> QED BY <1>1, <1>19, <1>20, <2>1, RunsThrough
<1> QED BY <1>3, <1>21 DEF s

LEMMA DirectoryCheckRuns ==
  Runnable(Tail(DirectoryCheck), View({"probe", "bin", "done"}, {}, "", <<>>, FALSE, FALSE),
           {"probe", "bin", "done", "txt", "nested", "dir"})
<1> DEFINE s == DirectoryCheck
<1>1. /\ Len(s) = 16 /\ Script(s)
      /\ s[2] = Clean("txt")
      /\ s[3] = Clean("nested")
      /\ s[4] = Clean("dir")
      /\ s[5] = Mkdir("dir", TRUE, <<>>)
      /\ s[6] = Mkdir("nested", FALSE, <<"dir">>)
      /\ s[7] = Open("txt", "w", <<"nested", "dir">>)
      /\ s[8] = Add("m", Tree)
      /\ s[9] = Close
      /\ s[10] = Rmdir("nested", FALSE, Tree)
      /\ s[11] = There("txt", Tree)
      /\ s[12] = Clean("txt")
      /\ s[13] = OrNote(Rmdir("nested", TRUE, <<>>))
      /\ s[14] = OrNote(Rmdir("dir", TRUE, <<>>))
      /\ s[15] = Judge(<<"nested", "dir">>)
      /\ s[16] = Release
  <2> DEFINE a == <<Ensure>> \o Cleans(Tree)
  <2>1. /\ Script(a) /\ Len(a) = 4
        /\ a[2] = Clean("txt") /\ a[3] = Clean("nested") /\ a[4] = Clean("dir")
    <3>1. Tidy(Cleans(Tree), NoFile)
      <4>1. Script(Tree)
        BY ShortScripts DEF Tree
      <4> QED BY <4>1, TidyCleans
    <3>2. /\ Script(Cleans(Tree)) /\ Len(Cleans(Tree)) = 3
          /\ Cleans(Tree)[1] = Clean("txt") /\ Cleans(Tree)[2] = Clean("nested")
          /\ Cleans(Tree)[3] = Clean("dir")
      <4> DEFINE c == Cleans(Tree)
      <4>1. c = [i \in 1..3 |-> Clean(Tree[i])]
        BY DEF Cleans, Tree
      <4>2. Tree[1] = "txt" /\ Tree[2] = "nested" /\ Tree[3] = "dir"
        BY DEF Tree
      <4>3. Script(c)
        BY <3>1 DEF Tidy
      <4> HIDE DEF c
      <4>4. c[1] = Clean(Tree[1]) /\ c[2] = Clean(Tree[2]) /\ c[3] = Clean(Tree[3])
        BY <4>1
      <4>5. DOMAIN c = 1..3
        BY <4>1
      <4>6. Len(c) = 3
        <5>1. PICK S : c \in Seq(S)
          BY <4>3 DEF Script
        <5> QED BY <4>5, <5>1
      <4>7. c[1] = Clean("txt") /\ c[2] = Clean("nested") /\ c[3] = Clean("dir")
        BY <4>2, <4>4
      <4> QED BY <4>3, <4>6, <4>7 DEF c
    <3>3. Script(<<Ensure>>) /\ Len(<<Ensure>>) = 1
      BY ShortScripts
    <3>4. /\ Len(a) = 1 + 3 /\ Script(a)
          /\ \A k \in 1..3 : a[1 + k] = Cleans(Tree)[k]
      <4>1. /\ Len(<<Ensure>> \o Cleans(Tree)) = Len(<<Ensure>>) + Len(Cleans(Tree))
            /\ Script(<<Ensure>> \o Cleans(Tree))
            /\ \A k \in 1..Len(Cleans(Tree)) :
                 (<<Ensure>> \o Cleans(Tree))[Len(<<Ensure>>) + k] = Cleans(Tree)[k]
        <5>1. PICK x, y : x = <<Ensure>> /\ y = Cleans(Tree)
          OBVIOUS
        <5>2. Script(x) /\ Script(y)
          BY <3>2, <3>3, <5>1
        <5>3. /\ Len(x \o y) = Len(x) + Len(y) /\ Script(x \o y)
              /\ \A k \in 1..Len(y) : (x \o y)[Len(x) + k] = y[k]
          BY <5>2, PairJoin
        <5> QED BY <5>1, <5>3, Zenon
      <4> QED BY <3>2, <3>3, <4>1, Zenon
    <3>5. a[2] = Cleans(Tree)[1] /\ a[3] = Cleans(Tree)[2] /\ a[4] = Cleans(Tree)[3]
      <4>1. 1 \in 1..3 /\ 2 \in 1..3 /\ 3 \in 1..3 /\ 1 + 1 = 2 /\ 1 + 2 = 3 /\ 1 + 3 = 4
        OBVIOUS
      <4> HIDE DEF a
      <4> QED BY <3>4, <4>1
    <3> HIDE DEF a
    <3> QED BY <3>2, <3>4, <3>5
  <2>2. Script(DirectoryPiece) /\ Len(DirectoryPiece) = 12
    BY DirectoryPieceTidy DEF Tidy, DirectoryPiece
  <2>3. s = a \o DirectoryPiece
    BY DEF DirectoryCheck, DirectoryPiece
  <2> HIDE DEF a, s
  <2>4. /\ Len(s) = 16 /\ Script(s) /\ s[2] = a[2] /\ s[3] = a[3] /\ s[4] = a[4]
        /\ \A k \in 1..12 : s[4 + k] = DirectoryPiece[k]
    <3>1. /\ Len(a \o DirectoryPiece) = Len(a) + Len(DirectoryPiece) /\ Script(a \o DirectoryPiece)
          /\ \A k \in 1..Len(a) : (a \o DirectoryPiece)[k] = a[k]
          /\ \A k \in 1..Len(DirectoryPiece) : (a \o DirectoryPiece)[Len(a) + k] = DirectoryPiece[k]
      <4>1. Script(a) /\ Script(DirectoryPiece)
        BY <2>1, <2>2
      <4> HIDE DEF a
      <4> QED BY <4>1, PairJoin
    <3>2. /\ Len(s) = 4 + 12 /\ Script(s) /\ \A k \in 1..4 : s[k] = a[k]
          /\ \A k \in 1..12 : s[4 + k] = DirectoryPiece[k]
      BY <2>1, <2>2, <2>3, <3>1, Zenon
    <3>3. 2 \in 1..4 /\ 3 \in 1..4 /\ 4 \in 1..4
      OBVIOUS
    <3> QED BY <3>2, <3>3
  <2>5. /\ s[5] = DirectoryPiece[1]
        /\ s[6] = DirectoryPiece[2]
        /\ s[7] = DirectoryPiece[3]
        /\ s[8] = DirectoryPiece[4]
        /\ s[9] = DirectoryPiece[5]
        /\ s[10] = DirectoryPiece[6]
        /\ s[11] = DirectoryPiece[7]
        /\ s[12] = DirectoryPiece[8]
        /\ s[13] = DirectoryPiece[9]
        /\ s[14] = DirectoryPiece[10]
        /\ s[15] = DirectoryPiece[11]
        /\ s[16] = DirectoryPiece[12]
    <3>1. /\ 1 \in 1..12 /\ 4 + 1 = 5
          /\ 2 \in 1..12 /\ 4 + 2 = 6
          /\ 3 \in 1..12 /\ 4 + 3 = 7
          /\ 4 \in 1..12 /\ 4 + 4 = 8
          /\ 5 \in 1..12 /\ 4 + 5 = 9
          /\ 6 \in 1..12 /\ 4 + 6 = 10
          /\ 7 \in 1..12 /\ 4 + 7 = 11
          /\ 8 \in 1..12 /\ 4 + 8 = 12
          /\ 9 \in 1..12 /\ 4 + 9 = 13
          /\ 10 \in 1..12 /\ 4 + 10 = 14
          /\ 11 \in 1..12 /\ 4 + 11 = 15
          /\ 12 \in 1..12 /\ 4 + 12 = 16
      OBVIOUS
    <3> QED BY <2>4, <3>1
  <2>6. /\ DirectoryPiece[1] = Mkdir("dir", TRUE, <<>>)
        /\ DirectoryPiece[2] = Mkdir("nested", FALSE, <<"dir">>)
        /\ DirectoryPiece[3] = Open("txt", "w", <<"nested", "dir">>)
        /\ DirectoryPiece[4] = Add("m", Tree)
        /\ DirectoryPiece[5] = Close
        /\ DirectoryPiece[6] = Rmdir("nested", FALSE, Tree)
        /\ DirectoryPiece[7] = There("txt", Tree)
        /\ DirectoryPiece[8] = Clean("txt")
        /\ DirectoryPiece[9] = OrNote(Rmdir("nested", TRUE, <<>>))
        /\ DirectoryPiece[10] = OrNote(Rmdir("dir", TRUE, <<>>))
        /\ DirectoryPiece[11] = Judge(<<"nested", "dir">>)
        /\ DirectoryPiece[12] = Release
    BY DEF DirectoryPiece
  <2> QED BY <2>1, <2>4, <2>5, <2>6
<1> HIDE DEF s
<1>2. PICK V : V = <<View({"probe", "bin", "done"}, {}, "", <<>>, FALSE, FALSE),
                   View({"probe", "bin", "done", "txt"}, {}, "", <<>>, FALSE, FALSE),
                   View({"probe", "bin", "done", "txt", "nested"}, {}, "", <<>>, FALSE, FALSE),
                   View({"probe", "bin", "done", "txt", "nested", "dir"}, {}, "", <<>>, FALSE,
                       FALSE),
                   View({"probe", "bin", "done", "txt", "nested"}, {"dir"}, "", <<>>, FALSE, TRUE),
                   View({"probe", "bin", "done", "txt"}, {"dir", "nested"}, "", <<>>, FALSE, TRUE),
                   View({"probe", "bin", "done"}, {"dir", "nested", "txt"}, "txt", <<>>, TRUE,
                       TRUE),
                   View({"probe", "bin", "done"}, {"dir", "nested", "txt"}, "txt", <<"m">>, TRUE,
                       TRUE),
                   View({"probe", "bin", "done"}, {"dir", "nested", "txt"}, "txt", <<"m">>,
                       FALSE, TRUE),
                   View({"probe", "bin", "done"}, {"dir", "nested", "txt"}, "txt", <<"m">>,
                       FALSE, TRUE),
                   View({"probe", "bin", "done"}, {"dir", "nested", "txt"}, "txt", <<"m">>,
                       FALSE, TRUE),
                   View({"probe", "bin", "done", "txt"}, {"dir", "nested"}, "txt", <<"m">>,
                       FALSE, TRUE),
                   View({"probe", "bin", "done", "txt", "nested"}, {"dir"}, "txt", <<"m">>,
                       FALSE, TRUE),
                   View({"probe", "bin", "done", "txt", "nested", "dir"}, {}, "txt", <<"m">>,
                       FALSE, TRUE),
                   View({"probe", "bin", "done", "txt", "nested", "dir"}, {}, "txt", <<"m">>,
                       FALSE, TRUE)>>
  OBVIOUS
<1>3. /\ V[1] = View({"probe", "bin", "done"}, {}, "", <<>>, FALSE, FALSE)
      /\ V[2] = View({"probe", "bin", "done", "txt"}, {}, "", <<>>, FALSE, FALSE)
      /\ V[3] = View({"probe", "bin", "done", "txt", "nested"}, {}, "", <<>>, FALSE, FALSE)
      /\ V[4] = View({"probe", "bin", "done", "txt", "nested", "dir"}, {}, "", <<>>, FALSE, FALSE)
      /\ V[5] = View({"probe", "bin", "done", "txt", "nested"}, {"dir"}, "", <<>>, FALSE, TRUE)
      /\ V[6] = View({"probe", "bin", "done", "txt"}, {"dir", "nested"}, "", <<>>, FALSE, TRUE)
      /\ V[7] = View({"probe", "bin", "done"}, {"dir", "nested", "txt"}, "txt", <<>>, TRUE, TRUE)
      /\ V[8] = View({"probe", "bin", "done"}, {"dir", "nested", "txt"}, "txt", <<"m">>, TRUE, TRUE)
      /\ V[9] = View({"probe", "bin", "done"}, {"dir", "nested", "txt"}, "txt", <<"m">>, FALSE,
             TRUE)
      /\ V[10] = View({"probe", "bin", "done"}, {"dir", "nested", "txt"}, "txt", <<"m">>, FALSE,
             TRUE)
      /\ V[11] = View({"probe", "bin", "done"}, {"dir", "nested", "txt"}, "txt", <<"m">>, FALSE,
             TRUE)
      /\ V[12] = View({"probe", "bin", "done", "txt"}, {"dir", "nested"}, "txt", <<"m">>, FALSE,
             TRUE)
      /\ V[13] = View({"probe", "bin", "done", "txt", "nested"}, {"dir"}, "txt", <<"m">>, FALSE,
             TRUE)
      /\ V[14] = View({"probe", "bin", "done", "txt", "nested", "dir"}, {}, "txt", <<"m">>,
             FALSE, TRUE)
      /\ V[15] = View({"probe", "bin", "done", "txt", "nested", "dir"}, {}, "txt", <<"m">>,
             FALSE, TRUE)
  BY <1>2
<1>4. Leads(s[2], V[1], V[2], {"probe", "bin", "done", "txt", "nested", "dir"})
  <2>1. s[2].do = "clean" /\ s[2].name = "txt"
    BY <1>1 DEF Clean
  <2>2. PICK v : v = V[1]
    OBVIOUS
  <2>3. PICK w : w = V[2]
    OBVIOUS
  <2>4. /\ v = View({"probe", "bin", "done"}, {}, "", <<>>, FALSE, FALSE)
        /\ w = View({"probe", "bin", "done", "txt"}, {}, "", <<>>, FALSE, FALSE)
    BY <1>3, <2>2, <2>3, Zenon
  <2> HIDE DEF s
  <2>7. Leads(s[2], v, w, {"probe", "bin", "done", "txt", "nested", "dir"})
    BY <2>1, <2>4 DEF Leads, LeadsName, Still, SameFile, Makes, Drops, Bare, View
  <2> QED BY <2>2, <2>3, <2>7, Zenon
<1>5. Leads(s[3], V[2], V[3], {"probe", "bin", "done", "txt", "nested", "dir"})
  <2>1. s[3].do = "clean" /\ s[3].name = "nested"
    BY <1>1 DEF Clean
  <2>2. PICK v : v = V[2]
    OBVIOUS
  <2>3. PICK w : w = V[3]
    OBVIOUS
  <2>4. /\ v = View({"probe", "bin", "done", "txt"}, {}, "", <<>>, FALSE, FALSE)
        /\ w = View({"probe", "bin", "done", "txt", "nested"}, {}, "", <<>>, FALSE, FALSE)
    BY <1>3, <2>2, <2>3, Zenon
  <2> HIDE DEF s
  <2>7. Leads(s[3], v, w, {"probe", "bin", "done", "txt", "nested", "dir"})
    BY <2>1, <2>4 DEF Leads, LeadsName, Still, SameFile, Makes, Drops, Bare, View
  <2> QED BY <2>2, <2>3, <2>7, Zenon
<1>6. Leads(s[4], V[3], V[4], {"probe", "bin", "done", "txt", "nested", "dir"})
  <2>1. s[4].do = "clean" /\ s[4].name = "dir"
    BY <1>1 DEF Clean
  <2>2. PICK v : v = V[3]
    OBVIOUS
  <2>3. PICK w : w = V[4]
    OBVIOUS
  <2>4. /\ v = View({"probe", "bin", "done", "txt", "nested"}, {}, "", <<>>, FALSE, FALSE)
        /\ w = View({"probe", "bin", "done", "txt", "nested", "dir"}, {}, "", <<>>, FALSE, FALSE)
    BY <1>3, <2>2, <2>3, Zenon
  <2> HIDE DEF s
  <2>7. Leads(s[4], v, w, {"probe", "bin", "done", "txt", "nested", "dir"})
    BY <2>1, <2>4 DEF Leads, LeadsName, Still, SameFile, Makes, Drops, Bare, View
  <2> QED BY <2>2, <2>3, <2>7, Zenon
<1>7. Leads(s[5], V[4], V[5], {"probe", "bin", "done", "txt", "nested", "dir"})
  <2>1. s[5].do = "mkdir" /\ s[5].name = "dir" /\ s[5].skip = TRUE
    BY <1>1 DEF Mkdir
  <2>2. PICK v : v = V[4]
    OBVIOUS
  <2>3. PICK w : w = V[5]
    OBVIOUS
  <2>4. /\ v = View({"probe", "bin", "done", "txt", "nested", "dir"}, {}, "", <<>>, FALSE, FALSE)
        /\ w = View({"probe", "bin", "done", "txt", "nested"}, {"dir"}, "", <<>>, FALSE, TRUE)
    BY <1>3, <2>2, <2>3, Zenon
  <2> HIDE DEF s
  <2>7. Leads(s[5], v, w, {"probe", "bin", "done", "txt", "nested", "dir"})
    BY <2>1, <2>4 DEF Leads, LeadsName, Still, SameFile, Makes, Drops, Bare, View
  <2> QED BY <2>2, <2>3, <2>7, Zenon
<1>8. Leads(s[6], V[5], V[6], {"probe", "bin", "done", "txt", "nested", "dir"})
  <2>1. s[6].do = "mkdir" /\ s[6].name = "nested" /\ s[6].skip = FALSE
    BY <1>1 DEF Mkdir
  <2>2. PICK v : v = V[5]
    OBVIOUS
  <2>3. PICK w : w = V[6]
    OBVIOUS
  <2>4. /\ v = View({"probe", "bin", "done", "txt", "nested"}, {"dir"}, "", <<>>, FALSE, TRUE)
        /\ w = View({"probe", "bin", "done", "txt"}, {"dir", "nested"}, "", <<>>, FALSE, TRUE)
    BY <1>3, <2>2, <2>3, Zenon
  <2> HIDE DEF s
  <2>7. Leads(s[6], v, w, {"probe", "bin", "done", "txt", "nested", "dir"})
    BY <2>1, <2>4 DEF Leads, LeadsName, Still, SameFile, Makes, Drops, Bare, View
  <2> QED BY <2>2, <2>3, <2>7, Zenon
<1>9. Leads(s[7], V[6], V[7], {"probe", "bin", "done", "txt", "nested", "dir"})
  <2>1. s[7].do = "open" /\ s[7].name = "txt" /\ s[7].mode = "w"
    BY <1>1 DEF Open
  <2>2. PICK v : v = V[6]
    OBVIOUS
  <2>3. PICK w : w = V[7]
    OBVIOUS
  <2>4. /\ v = View({"probe", "bin", "done", "txt"}, {"dir", "nested"}, "", <<>>, FALSE, TRUE)
        /\ w = View({"probe", "bin", "done"}, {"dir", "nested", "txt"}, "txt", <<>>, TRUE, TRUE)
    BY <1>3, <2>2, <2>3, Zenon
  <2> HIDE DEF s
  <2>7. Leads(s[7], v, w, {"probe", "bin", "done", "txt", "nested", "dir"})
    BY <2>1, <2>4 DEF Leads, LeadsFile, Still, SameFile, Makes, View
  <2> QED BY <2>2, <2>3, <2>7, Zenon
<1>10. Leads(s[8], V[7], V[8], {"probe", "bin", "done", "txt", "nested", "dir"})
  <2>1. s[8].do = "put" /\ s[8].offset = 99 /\ s[8].what = <<"m">>
    BY <1>1 DEF Add, Put
  <2>2. PICK v : v = V[7]
    OBVIOUS
  <2>3. PICK w : w = V[8]
    OBVIOUS
  <2>4. /\ v = View({"probe", "bin", "done"}, {"dir", "nested", "txt"}, "txt", <<>>, TRUE, TRUE)
        /\ w = View({"probe", "bin", "done"}, {"dir", "nested", "txt"}, "txt", <<"m">>, TRUE, TRUE)
    BY <1>3, <2>2, <2>3, Zenon
  <2> HIDE DEF s
  <2>5. Written(s[8].offset, s[8].what, v.text) = w.text
    <3>1. v.text = <<>> /\ w.text = <<"m">>
      BY <2>4 DEF View
    <3>2. Written(99, <<"m">>, <<>>) = <<"m">>
      BY WritesFirst
    <3> QED BY <2>1, <3>1, <3>2, Zenon
  <2>6. Len(v.text) \in Nat /\ (s[8].offset = 99 \/ s[8].offset <= Len(v.text))
    BY <2>1, <2>4 DEF View
  <2>7. Leads(s[8], v, w, {"probe", "bin", "done", "txt", "nested", "dir"})
    BY <2>1, <2>4, <2>5, <2>6 DEF Leads, LeadsFile, Still, View
  <2> QED BY <2>2, <2>3, <2>7, Zenon
<1>11. Leads(s[9], V[8], V[9], {"probe", "bin", "done", "txt", "nested", "dir"})
  <2>1. s[9].do = "close"
    BY <1>1 DEF Close
  <2>2. PICK v : v = V[8]
    OBVIOUS
  <2>3. PICK w : w = V[9]
    OBVIOUS
  <2>4. /\ v = View({"probe", "bin", "done"}, {"dir", "nested", "txt"}, "txt", <<"m">>, TRUE, TRUE)
        /\ w = View({"probe", "bin", "done"}, {"dir", "nested", "txt"}, "txt", <<"m">>, FALSE, TRUE)
    BY <1>3, <2>2, <2>3, Zenon
  <2> HIDE DEF s
  <2>7. Leads(s[9], v, w, {"probe", "bin", "done", "txt", "nested", "dir"})
    BY <2>1, <2>4 DEF Leads, LeadsFile, Still, SameFile, Makes, View
  <2> QED BY <2>2, <2>3, <2>7, Zenon
<1>12. Leads(s[10], V[9], V[10], {"probe", "bin", "done", "txt", "nested", "dir"})
  <2>1. s[10].do = "rmdir" /\ s[10].name = "nested" /\ s[10].want = FALSE
    BY <1>1 DEF Rmdir
  <2>2. PICK v : v = V[9]
    OBVIOUS
  <2>3. PICK w : w = V[10]
    OBVIOUS
  <2>4. /\ v = View({"probe", "bin", "done"}, {"dir", "nested", "txt"}, "txt", <<"m">>, FALSE, TRUE)
        /\ w = View({"probe", "bin", "done"}, {"dir", "nested", "txt"}, "txt", <<"m">>, FALSE, TRUE)
    BY <1>3, <2>2, <2>3, Zenon
  <2> HIDE DEF s
  <2>7. Leads(s[10], v, w, {"probe", "bin", "done", "txt", "nested", "dir"})
    BY <2>1, <2>4 DEF Leads, LeadsName, Still, SameFile, Makes, Drops, Bare, View
  <2> QED BY <2>2, <2>3, <2>7, Zenon
<1>13. Leads(s[11], V[10], V[11], {"probe", "bin", "done", "txt", "nested", "dir"})
  <2>1. s[11].do = "is" /\ s[11].name = "txt" /\ s[11].there = TRUE
    BY <1>1 DEF There
  <2>2. PICK v : v = V[10]
    OBVIOUS
  <2>3. PICK w : w = V[11]
    OBVIOUS
  <2>4. /\ v = View({"probe", "bin", "done"}, {"dir", "nested", "txt"}, "txt", <<"m">>, FALSE, TRUE)
        /\ w = View({"probe", "bin", "done"}, {"dir", "nested", "txt"}, "txt", <<"m">>, FALSE, TRUE)
    BY <1>3, <2>2, <2>3, Zenon
  <2> HIDE DEF s
  <2>7. Leads(s[11], v, w, {"probe", "bin", "done", "txt", "nested", "dir"})
    BY <2>1, <2>4 DEF Leads, LeadsName, Still, SameFile, Makes, Drops, Bare, View
  <2> QED BY <2>2, <2>3, <2>7, Zenon
<1>14. Leads(s[12], V[11], V[12], {"probe", "bin", "done", "txt", "nested", "dir"})
  <2>1. s[12].do = "clean" /\ s[12].name = "txt"
    BY <1>1 DEF Clean
  <2>2. PICK v : v = V[11]
    OBVIOUS
  <2>3. PICK w : w = V[12]
    OBVIOUS
  <2>4. /\ v = View({"probe", "bin", "done"}, {"dir", "nested", "txt"}, "txt", <<"m">>, FALSE, TRUE)
        /\ w = View({"probe", "bin", "done", "txt"}, {"dir", "nested"}, "txt", <<"m">>, FALSE, TRUE)
    BY <1>3, <2>2, <2>3, Zenon
  <2> HIDE DEF s
  <2>7. Leads(s[12], v, w, {"probe", "bin", "done", "txt", "nested", "dir"})
    BY <2>1, <2>4 DEF Leads, LeadsName, Still, SameFile, Makes, Drops, Bare, View
  <2> QED BY <2>2, <2>3, <2>7, Zenon
<1>15. Leads(s[13], V[12], V[13], {"probe", "bin", "done", "txt", "nested", "dir"})
  <2>1. s[13].do = "rmdir" /\ s[13].name = "nested" /\ s[13].want = TRUE
    BY <1>1 DEF OrNote, Rmdir
  <2>2. PICK v : v = V[12]
    OBVIOUS
  <2>3. PICK w : w = V[13]
    OBVIOUS
  <2>4. /\ v = View({"probe", "bin", "done", "txt"}, {"dir", "nested"}, "txt", <<"m">>, FALSE, TRUE)
        /\ w = View({"probe", "bin", "done", "txt", "nested"}, {"dir"}, "txt", <<"m">>, FALSE, TRUE)
    BY <1>3, <2>2, <2>3, Zenon
  <2> HIDE DEF s
  <2>7. Leads(s[13], v, w, {"probe", "bin", "done", "txt", "nested", "dir"})
    BY <2>1, <2>4 DEF Leads, LeadsName, Still, SameFile, Makes, Drops, Bare, View
  <2> QED BY <2>2, <2>3, <2>7, Zenon
<1>16. Leads(s[14], V[13], V[14], {"probe", "bin", "done", "txt", "nested", "dir"})
  <2>1. s[14].do = "rmdir" /\ s[14].name = "dir" /\ s[14].want = TRUE
    BY <1>1 DEF OrNote, Rmdir
  <2>2. PICK v : v = V[13]
    OBVIOUS
  <2>3. PICK w : w = V[14]
    OBVIOUS
  <2>4. /\ v = View({"probe", "bin", "done", "txt", "nested"}, {"dir"}, "txt", <<"m">>, FALSE, TRUE)
        /\ w = View({"probe", "bin", "done", "txt", "nested", "dir"}, {}, "txt", <<"m">>, FALSE,
               TRUE)
    BY <1>3, <2>2, <2>3, Zenon
  <2> HIDE DEF s
  <2>7. Leads(s[14], v, w, {"probe", "bin", "done", "txt", "nested", "dir"})
    BY <2>1, <2>4 DEF Leads, LeadsName, Still, SameFile, Makes, Drops, Bare, View
  <2> QED BY <2>2, <2>3, <2>7, Zenon
<1>17. Leads(s[15], V[14], V[15], {"probe", "bin", "done", "txt", "nested", "dir"})
  <2>1. s[15].do = "judge"
    BY <1>1 DEF Judge
  <2>2. PICK v : v = V[14]
    OBVIOUS
  <2>3. PICK w : w = V[15]
    OBVIOUS
  <2>4. /\ v = View({"probe", "bin", "done", "txt", "nested", "dir"}, {}, "txt", <<"m">>, FALSE,
               TRUE)
        /\ w = View({"probe", "bin", "done", "txt", "nested", "dir"}, {}, "txt", <<"m">>, FALSE,
               TRUE)
    BY <1>3, <2>2, <2>3, Zenon
  <2> HIDE DEF s
  <2>7. Leads(s[15], v, w, {"probe", "bin", "done", "txt", "nested", "dir"})
    BY <2>1, <2>4 DEF Leads, LeadsName, Still, SameFile, Makes, Drops, Bare, View
  <2> QED BY <2>2, <2>3, <2>7, Zenon
<1>18. \A i \in 1..(15 - 1) : Leads(s[i + 1], V[i], V[i + 1], {"probe", "bin", "done", "txt",
           "nested", "dir"})
  <2>1. \A i \in 1..(15 - 1) : i = 1 \/ i = 2 \/ i = 3 \/ i = 4 \/ i = 5 \/ i = 6 \/ i = 7
            \/ i = 8 \/ i = 9 \/ i = 10 \/ i = 11 \/ i = 12 \/ i = 13 \/ i = 14
    OBVIOUS
  <2> QED BY <2>1, <1>4, <1>5, <1>6, <1>7, <1>8, <1>9, <1>10, <1>11, <1>12, <1>13, <1>14, <1>15,
      <1>16, <1>17
<1>19. s[15 + 1].do = "release" /\ {"probe", "bin", "done", "txt", "nested",
           "dir"} \subseteq V[15].gone /\ ~V[15].open
  <2>1. s[16].do = "release"
    BY <1>1 DEF Release
  <2>2. PICK v : v = V[15]
    OBVIOUS
  <2>3. v = View({"probe", "bin", "done", "txt", "nested", "dir"}, {}, "txt", <<"m">>, FALSE, TRUE)
    BY <1>3, <2>2, Zenon
  <2>4. {"probe", "bin", "done", "txt", "nested", "dir"} \subseteq v.gone /\ ~v.open
    BY <2>3 DEF View
  <2>5. 15 + 1 = 16
    OBVIOUS
  <2> QED BY <2>1, <2>2, <2>4, <2>5, Zenon
<1>20. Runnable(Tail(s), V[1], {"probe", "bin", "done", "txt", "nested", "dir"})
  <2>1. 15 \in Nat \ {0} /\ Len(s) = 15 + 1
    BY <1>1
  <2> QED BY <1>1, <1>18, <1>19, <2>1, RunsThrough
<1> QED BY <1>3, <1>20 DEF s

\* The handle test, however many cycles it has: the file grows by one at each.
Filled(q) == [j \in 1..q |-> "c"]
Cyclic(i) ==
  View(IF i = 1 THEN Left(6) ELSE Left(5), IF i = 1 THEN {} ELSE {"cycle"},
       IF i = 1 THEN "" ELSE "cycle", Filled(i \div 3),
       IF i % 3 = 1 THEN FALSE ELSE TRUE, FALSE)

LEMMA LeftSix == Left(6) = Left(5) \cup {"cycle"} /\ "cycle" \notin Left(5)
BY DEF Left

LEMMA FilledIs ==
  ASSUME NEW q \in Nat
  PROVE  /\ Filled(q) \in Seq({"c"}) /\ Len(Filled(q)) = q
         /\ \A j \in 1..q : Filled(q)[j] = "c"
BY DEF Filled

LEMMA FilledGrows ==
  ASSUME NEW q \in Nat
  PROVE  Filled(0) = <<>> /\ Written(99, <<"c">>, Filled(q)) = Filled(q + 1)
<1>1. Filled(0) = <<>>
  <2>1. PICK a, b : a = Filled(0) /\ b = <<>>
    OBVIOUS
  <2>2. a \in Seq({"c"}) /\ b \in Seq({"c"}) /\ Len(a) = 0 /\ Len(b) = 0
    BY <2>1, FilledIs
  <2>3. a = b
    BY <2>2, SameSeq
  <2> QED BY <2>1, <2>3
<1>2. PICK S, at, old, what, w :
        S = {"c"} /\ at = 99 /\ old = Filled(q) /\ what = <<"c">> /\ w = Filled(q + 1)
  OBVIOUS
<1>3. /\ old \in Seq(S) /\ Len(old) = q /\ \A j \in 1..q : old[j] = "c"
      /\ w \in Seq(S) /\ Len(w) = q + 1 /\ \A j \in 1..(q + 1) : w[j] = "c"
  <2>1. q + 1 \in Nat
    OBVIOUS
  <2> QED BY <1>2, <2>1, FilledIs
<1>4. what \in Seq(S) /\ Len(what) = 1 /\ what[1] = "c"
  BY <1>2
<1>5. PICK k : k = q
  OBVIOUS
<1>6. k \in 0..Len(old) /\ (at = 99 => k = Len(old)) /\ (at # 99 => k = at)
  BY <1>2, <1>3, <1>5
<1>7. Splices(old, k, what, w)
  BY <1>3, <1>4, <1>5 DEF Splices
<1>8. old \in Seq(S) /\ what \in Seq(S) /\ w \in Seq(S)
  BY <1>3, <1>4
<1>9. Written(at, what, old) = w
  BY <1>6, <1>7, <1>8, WrittenIs
<1> QED BY <1>1, <1>2, <1>9

LEMMA CycleLeads ==
  ASSUME NEW i \in Nat, i >= 1, NEW G
  PROVE  Leads(Cycle(i), Cyclic(i), Cyclic(i + 1), G)
<1>1. PICK c, v, w : c = Cycle(i) /\ v = Cyclic(i) /\ w = Cyclic(i + 1)
  OBVIOUS
<1>2. i + 1 # 1
  OBVIOUS
<1>3. /\ v.gone = (IF i = 1 THEN Left(6) ELSE Left(5))
      /\ v.there = (IF i = 1 THEN {} ELSE {"cycle"})
      /\ v.file = (IF i = 1 THEN "" ELSE "cycle")
      /\ v.text = Filled(i \div 3) /\ v.open = (IF i % 3 = 1 THEN FALSE ELSE TRUE) /\ v.tree = FALSE
  BY <1>1 DEF Cyclic, View
<1>4. /\ w.gone = Left(5) /\ w.there = {"cycle"} /\ w.file = "cycle"
      /\ w.text = Filled((i + 1) \div 3) /\ w.open = (IF (i + 1) % 3 = 1 THEN FALSE ELSE TRUE)
      /\ w.tree = FALSE
  BY <1>1, <1>2 DEF Cyclic, View
<1>5. CASE i % 3 = 1
  <2>1. c.do = "open" /\ c.name = "cycle" /\ c.mode = "a"
    BY <1>1, <1>5 DEF Cycle, Open
  <2>2. (i + 1) % 3 = 2 /\ (i + 1) \div 3 = i \div 3 /\ (i = 1 => i \div 3 = 0)
    BY <1>5
  <2>3. ~v.open /\ w.open
    <3>1. v.open = FALSE
      BY <1>3, <1>5
    <3>2. w.open = TRUE
      BY <1>4, <2>2
    <3> QED BY <3>1, <3>2
  <2>4. CASE i = 1
    <3>1. w.text = <<>>
      BY <1>4, <2>2, <2>4, FilledGrows
    <3>2. "cycle" \in v.gone /\ Makes("cycle", v, w)
      BY <1>3, <1>4, <2>4, LeftSix DEF Makes
    <3>3. LeadsFile(c, v, w)
      BY <1>4, <2>1, <2>3, <3>1, <3>2 DEF LeadsFile
    <3> QED BY <1>1, <3>3 DEF Leads
  <2>5. CASE i # 1
    <3>1. "cycle" \in v.there /\ "cycle" = v.file /\ Still(v, w)
      BY <1>3, <1>4, <2>5 DEF Still
    <3>2. SameFile(v, w)
      <4>1. w.text = v.text
        BY <1>3, <1>4, <2>2
      <4> QED BY <1>3, <1>4, <2>5, <4>1 DEF SameFile
    <3>3. LeadsFile(c, v, w)
      BY <2>1, <2>3, <3>1, <3>2 DEF LeadsFile
    <3> QED BY <1>1, <3>3 DEF Leads
  <2> QED BY <2>4, <2>5
<1>6. CASE i % 3 = 2
  <2>1. c.do = "put" /\ c.offset = 99 /\ c.what = <<"c">>
    BY <1>1, <1>6 DEF Cycle, Add, Put
  <2>2. (i + 1) % 3 = 0 /\ (i + 1) \div 3 = (i \div 3) + 1 /\ i \div 3 \in Nat /\ i # 1
    BY <1>6
  <2>3. v.open /\ w.open
    BY <1>3, <1>4, <1>6, <2>2
  <2>4. w.text = Written(c.offset, c.what, v.text)
    <3>1. Written(99, <<"c">>, Filled(i \div 3)) = Filled((i \div 3) + 1)
      BY <2>2, FilledGrows
    <3>2. w.text = Filled((i \div 3) + 1) /\ v.text = Filled(i \div 3)
      BY <1>3, <1>4, <2>2
    <3> QED BY <2>1, <3>1, <3>2, Zenon
  <2>5. v.file \in v.there /\ Still(v, w) /\ w.file = v.file
    BY <1>3, <1>4, <2>2 DEF Still
  <2>6. Len(v.text) \in Nat
    BY <1>3, <2>2, FilledIs
  <2>7. LeadsFile(c, v, w)
    BY <1>4, <2>1, <2>3, <2>4, <2>5, <2>6 DEF LeadsFile
  <2> QED BY <1>1, <2>7 DEF Leads
<1>7. CASE i % 3 = 0
  <2>1. c.do = "close"
    BY <1>1, <1>7 DEF Cycle, Close
  <2>2. (i + 1) % 3 = 1 /\ (i + 1) \div 3 = i \div 3 /\ i # 1
    BY <1>7
  <2>3. v.open /\ ~w.open
    BY <1>3, <1>4, <1>7, <2>2
  <2>4. Still(v, w) /\ SameFile(v, w)
    <3>1. w.text = v.text
      BY <1>3, <1>4, <2>2
    <3> QED BY <1>3, <1>4, <2>2, <3>1 DEF Still, SameFile
  <2>5. LeadsFile(c, v, w)
    BY <2>1, <2>3, <2>4 DEF LeadsFile
  <2> QED BY <1>1, <2>5 DEF Leads
<1> QED BY <1>5, <1>6, <1>7

LEMMA CycleScript ==
  LET s == HandleCycleCheck
      m == 3 * Cycles
  IN  /\ Len(s) = m + 7 /\ Script(s) /\ Head(s) = Ensure /\ s[2] = Clean("cycle")
      /\ \A i \in 1..m : s[2 + i] = Cycle(i)
      /\ \A k \in 1..5 : s[(2 + m) + k] = CycleEnd[k]
<1> DEFINE s == HandleCycleCheck
           m == 3 * Cycles
           b == [i \in 1..m |-> Cycle(i)]
<1>0. m \in Nat
  BY FsAssumption
<1>1. PICK a : a = <<Ensure, Clean("cycle")>>
  OBVIOUS
<1>2. Script(a) /\ Len(a) = 2 /\ a[1] = Ensure /\ a[2] = Clean("cycle")
  BY <1>1, ShortScripts
<1>3. Script(b) /\ Len(b) = m /\ \A i \in 1..m : b[i] = Cycle(i)
  <2>1. Script(b)
    BY CyclesTidy DEF Tidy
  <2> HIDE DEF m
  <2>2. Len(b) = m /\ \A i \in 1..m : b[i] = Cycle(i)
    BY <1>0
  <2> QED BY <2>1, <2>2
<1>4. Script(CycleEnd) /\ Len(CycleEnd) = 5
  BY CycleEndTidy DEF Tidy, CycleEnd
<1>5. s = (a \o b) \o CycleEnd
  BY <1>1 DEF HandleCycleCheck
<1> HIDE DEF s, b, m
<1>6. /\ Len(a \o b) = Len(a) + Len(b) /\ Script(a \o b)
      /\ \A k \in 1..Len(a) : (a \o b)[k] = a[k]
      /\ \A k \in 1..Len(b) : (a \o b)[Len(a) + k] = b[k]
  <2>1. Script(a) /\ Script(b)
    BY <1>2, <1>3
  <2> QED BY <2>1, PairJoin
<1>7. PICK d : d = a \o b
  OBVIOUS
<1>8. /\ Len(d) = 2 + m /\ Script(d) /\ d[1] = Ensure /\ d[2] = Clean("cycle")
      /\ \A k \in 1..m : d[2 + k] = Cycle(k)
  <2>1. 1 \in 1..2 /\ 2 \in 1..2
    OBVIOUS
  <2>2. /\ Len(d) = 2 + m /\ Script(d) /\ \A k \in 1..2 : d[k] = a[k]
        /\ \A k \in 1..m : d[2 + k] = b[k]
    BY <1>2, <1>3, <1>6, <1>7, Zenon
  <2> QED BY <1>2, <1>3, <2>1, <2>2
<1>9. /\ Len(d \o CycleEnd) = Len(d) + Len(CycleEnd) /\ Script(d \o CycleEnd)
      /\ \A k \in 1..Len(d) : (d \o CycleEnd)[k] = d[k]
      /\ \A k \in 1..Len(CycleEnd) : (d \o CycleEnd)[Len(d) + k] = CycleEnd[k]
  <2>1. Script(d) /\ Script(CycleEnd)
    BY <1>4, <1>8
  <2> QED BY <2>1, PairJoin
<1>10. /\ Len(s) = Len(d) + 5 /\ Script(s)
       /\ \A k \in 1..Len(d) : s[k] = d[k]
       /\ \A k \in 1..5 : s[Len(d) + k] = CycleEnd[k]
  BY <1>4, <1>5, <1>7, <1>9, Zenon
<1>11. 1 \in 1..Len(d) /\ 2 \in 1..Len(d) /\ \A i \in 1..m : 2 + i \in 1..Len(d)
  BY <1>0, <1>8
<1>12. s[1] = Ensure /\ s[2] = Clean("cycle") /\ \A i \in 1..m : s[2 + i] = Cycle(i)
  BY <1>8, <1>10, <1>11
<1>13. Len(s) = m + 7 /\ \A k \in 1..5 : s[(2 + m) + k] = CycleEnd[k]
  BY <1>0, <1>8, <1>10
<1>14. Head(s) = Ensure
  <2>1. s # <<>>
    <3>1. Len(<<>>) = 0
      OBVIOUS
    <3> QED BY <1>0, <1>13, <3>1
  <2>2. Head(s) = s[1]
    BY <1>10, <2>1, ScriptTail
  <2> QED BY <1>12, <2>2
<1> QED BY <1>10, <1>12, <1>13, <1>14 DEF s, m

LEMMA HandleCycleCheckRuns ==
  Runnable(Tail(HandleCycleCheck), View(Left(5), {}, "", <<>>, FALSE, FALSE), Left(6))
<1> DEFINE s == HandleCycleCheck
           m == 3 * Cycles
           n == m + 6
<1>0. m \in Nat /\ m >= 3 /\ n \in Nat /\ m % 3 = 0 /\ m \div 3 = Cycles /\ Cycles \in Nat
  BY FsAssumption
<1>1. /\ Len(s) = n + 1 /\ Script(s) /\ s[2] = Clean("cycle")
      /\ \A i \in 1..m : s[2 + i] = Cycle(i)
      /\ \A k \in 1..5 : s[(2 + m) + k] = CycleEnd[k]
  <2>1. Len(s) = m + 7 /\ m + 7 = n + 1
    BY <1>0, CycleScript
  <2> QED BY <2>1, CycleScript
<1>2. /\ CycleEnd[1] = Open("cycle", "r", <<"cycle">>)
      /\ CycleEnd[2] = Verify(Filled(Cycles), <<"cycle">>) /\ CycleEnd[3] = Close
      /\ CycleEnd[4] = Clean("cycle") /\ CycleEnd[5] = Release
  BY DEF CycleEnd, Filled
<1> DEFINE Last(there, open) ==
             View(IF there = {} THEN Left(6) ELSE Left(5), there, "cycle", Filled(Cycles),
                  open, FALSE)
<1>3. PICK V : V = [j \in 1..n |->
                      IF j = 1 THEN View(Left(5), {}, "", <<>>, FALSE, FALSE)
                      ELSE IF j <= m + 2 THEN Cyclic(j - 1)
                      ELSE IF j <= m + 4 THEN Last({"cycle"}, TRUE)
                      ELSE IF j = m + 5 THEN Last({"cycle"}, FALSE) ELSE Last({}, FALSE)]
  OBVIOUS
<1> HIDE DEF s, m, n, Last
<1>4. /\ V[1] = View(Left(5), {}, "", <<>>, FALSE, FALSE)
      /\ \A i \in 1..(m + 1) : V[i + 1] = Cyclic(i)
      /\ V[m + 3] = Last({"cycle"}, TRUE) /\ V[m + 4] = Last({"cycle"}, TRUE)
      /\ V[m + 5] = Last({"cycle"}, FALSE) /\ V[m + 6] = Last({}, FALSE)
  <2>1. /\ 1 \in 1..n /\ m + 3 \in 1..n /\ m + 4 \in 1..n /\ m + 5 \in 1..n /\ m + 6 \in 1..n
        /\ \A i \in 1..(m + 1) : i + 1 \in 1..n /\ i + 1 # 1 /\ i + 1 <= m + 2
                                 /\ (i + 1) - 1 = i
    BY <1>0 DEF n
  <2>2. V[1] = View(Left(5), {}, "", <<>>, FALSE, FALSE)
    BY <1>3, <2>1
  <2>3. ASSUME NEW i \in 1..(m + 1) PROVE V[i + 1] = Cyclic(i)
    <3>1. PICK j : j = i + 1
      OBVIOUS
    <3>2. j \in 1..n /\ j # 1 /\ j <= m + 2 /\ j - 1 = i
      BY <2>1, <3>1
    <3>3. V[j] = Cyclic(j - 1)
      BY <1>3, <3>2
    <3> QED BY <3>1, <3>2, <3>3
  <2>4. ASSUME NEW j \in {m + 3, m + 4} PROVE V[j] = Last({"cycle"}, TRUE)
    <3>1. j \in 1..n /\ j # 1 /\ ~(j <= m + 2) /\ j <= m + 4
      BY <1>0, <2>1
    <3> QED BY <1>3, <3>1
  <2>5. V[m + 5] = Last({"cycle"}, FALSE)
    <3>1. PICK j : j = m + 5
      OBVIOUS
    <3>2. j \in 1..n /\ j # 1 /\ ~(j <= m + 2) /\ ~(j <= m + 4) /\ j = m + 5
      BY <1>0, <2>1, <3>1
    <3>3. V[j] = Last({"cycle"}, FALSE)
      BY <1>3, <3>2
    <3> QED BY <3>1, <3>3
  <2>6. V[m + 6] = Last({}, FALSE)
    <3>1. PICK j : j = m + 6
      OBVIOUS
    <3>2. j \in 1..n /\ j # 1 /\ ~(j <= m + 2) /\ ~(j <= m + 4) /\ j # m + 5
      BY <1>0, <2>1, <3>1
    <3>3. V[j] = Last({}, FALSE)
      BY <1>3, <3>2
    <3> QED BY <3>1, <3>3
  <2> QED BY <2>2, <2>3, <2>4, <2>5, <2>6
<1>5. Leads(s[2], V[1], V[2], Left(6))
  <2>1. PICK v, w : v = V[1] /\ w = V[2]
    OBVIOUS
  <2>2. w = Cyclic(1)
    <3>1. 1 \in 1..(m + 1) /\ 1 + 1 = 2
      BY <1>0
    <3> QED BY <1>4, <2>1, <3>1
  <2>3. /\ v.gone = Left(5) /\ v.there = {} /\ v.file = "" /\ v.text = <<>>
        /\ v.open = FALSE /\ v.tree = FALSE
    <3>1. v = View(Left(5), {}, "", <<>>, FALSE, FALSE)
      BY <1>4, <2>1, Zenon
    <3> QED BY <3>1 DEF View
  <2>4. /\ w.gone = Left(6) /\ w.there = {} /\ w.file = "" /\ w.text = <<>>
        /\ w.open = FALSE /\ w.tree = FALSE
    <3>1. 1 \div 3 = 0 /\ 1 % 3 = 1
      OBVIOUS
    <3>2. /\ w.gone = Left(6) /\ w.there = {} /\ w.file = "" /\ w.text = Filled(1 \div 3)
          /\ w.open = (IF 1 % 3 = 1 THEN FALSE ELSE TRUE) /\ w.tree = FALSE
      BY <2>2 DEF Cyclic, View
    <3>3. Filled(0) = <<>>
      BY FilledGrows
    <3> QED BY <3>1, <3>2, <3>3
  <2>5. s[2].do = "clean" /\ s[2].name = "cycle"
    BY <1>1 DEF Clean
  <2>6. LeadsName(s[2], v, w, Left(6))
    BY <2>3, <2>4, <2>5, LeftSix DEF LeadsName, Bare, Drops, SameFile
  <2> QED BY <2>1, <2>6 DEF Leads
<1>6. ASSUME NEW i \in 1..m PROVE Leads(s[(i + 1) + 1], V[i + 1], V[(i + 1) + 1], Left(6))
  <2>1. /\ i \in Nat /\ i >= 1 /\ i \in 1..(m + 1) /\ i + 1 \in 1..(m + 1)
        /\ 2 + i = (i + 1) + 1
    BY <1>0
  <2>2. s[(i + 1) + 1] = Cycle(i) /\ V[i + 1] = Cyclic(i) /\ V[(i + 1) + 1] = Cyclic(i + 1)
    <3>1. s[2 + i] = Cycle(i)
      BY <1>1
    <3> QED BY <1>4, <2>1, <3>1
  <2> QED BY <2>1, <2>2, CycleLeads
<1>7. /\ s[m + 3].do = "open" /\ s[m + 3].name = "cycle" /\ s[m + 3].mode = "r"
      /\ s[m + 4].do = "verify" /\ s[m + 4].want = Filled(Cycles)
      /\ s[m + 5].do = "close" /\ s[m + 6].do = "clean" /\ s[m + 6].name = "cycle"
      /\ s[m + 7].do = "release"
  <2>1. /\ (2 + m) + 1 = m + 3 /\ (2 + m) + 2 = m + 4 /\ (2 + m) + 3 = m + 5
        /\ (2 + m) + 4 = m + 6 /\ (2 + m) + 5 = m + 7
        /\ 1 \in 1..5 /\ 2 \in 1..5 /\ 3 \in 1..5 /\ 4 \in 1..5 /\ 5 \in 1..5
    BY <1>0
  <2>2. /\ s[m + 3] = CycleEnd[1] /\ s[m + 4] = CycleEnd[2] /\ s[m + 5] = CycleEnd[3]
        /\ s[m + 6] = CycleEnd[4] /\ s[m + 7] = CycleEnd[5]
    BY <1>1, <2>1
  <2> QED BY <1>2, <2>2 DEF Open, Verify, Close, Clean, Release
<1>8. Leads(s[m + 3], V[m + 2], V[m + 3], Left(6))
  <2>1. PICK v, w : v = V[m + 2] /\ w = V[m + 3]
    OBVIOUS
  <2>2. v = Cyclic(m + 1) /\ m + 1 # 1
    <3>1. m + 1 \in 1..(m + 1) /\ (m + 1) + 1 = m + 2 /\ m + 1 # 1
      BY <1>0
    <3> QED BY <1>4, <2>1, <3>1
  <2>3. /\ v.gone = Left(5) /\ v.there = {"cycle"} /\ v.file = "cycle"
        /\ v.text = Filled((m + 1) \div 3) /\ v.open = (IF (m + 1) % 3 = 1 THEN FALSE ELSE TRUE)
        /\ v.tree = FALSE
    BY <2>2 DEF Cyclic, View
  <2>4. (m + 1) \div 3 = Cycles /\ (m + 1) % 3 = 1
    BY <1>0
  <2>5. w.there = {"cycle"} /\ w.gone = Left(5) /\ w.file = "cycle"
        /\ w.text = Filled(Cycles) /\ w.open = TRUE /\ w.tree = FALSE
    <3>1. w = Last({"cycle"}, TRUE)
      BY <1>4, <2>1, Zenon
    <3> QED BY <3>1 DEF Last, View
  <2>6. LeadsFile(s[m + 3], v, w)
    BY <1>7, <2>3, <2>4, <2>5 DEF LeadsFile, Still, SameFile
  <2> QED BY <2>1, <2>6 DEF Leads
<1>9. Leads(s[m + 4], V[m + 3], V[m + 4], Left(6))
  <2>1. PICK v, w : v = V[m + 3] /\ w = V[m + 4]
    OBVIOUS
  <2>2. /\ v.there = {"cycle"} /\ v.gone = Left(5) /\ v.file = "cycle"
        /\ v.text = Filled(Cycles) /\ v.open = TRUE /\ v.tree = FALSE
    <3>1. v = Last({"cycle"}, TRUE)
      BY <1>4, <2>1, Zenon
    <3> QED BY <3>1 DEF Last, View
  <2>3. w = v
    BY <1>4, <2>1, Zenon
  <2>4. LeadsFile(s[m + 4], v, w)
    BY <1>7, <2>2, <2>3 DEF LeadsFile, Still, SameFile
  <2> QED BY <2>1, <2>4 DEF Leads
<1>10. Leads(s[m + 5], V[m + 4], V[m + 5], Left(6))
  <2>1. PICK v, w : v = V[m + 4] /\ w = V[m + 5]
    OBVIOUS
  <2>2. /\ v.there = {"cycle"} /\ v.gone = Left(5) /\ v.file = "cycle"
        /\ v.text = Filled(Cycles) /\ v.open = TRUE /\ v.tree = FALSE
    <3>1. v = Last({"cycle"}, TRUE)
      BY <1>4, <2>1, Zenon
    <3> QED BY <3>1 DEF Last, View
  <2>3. /\ w.there = {"cycle"} /\ w.gone = Left(5) /\ w.file = "cycle"
        /\ w.text = Filled(Cycles) /\ w.open = FALSE /\ w.tree = FALSE
    <3>1. w = Last({"cycle"}, FALSE)
      BY <1>4, <2>1, Zenon
    <3> QED BY <3>1 DEF Last, View
  <2>4. LeadsFile(s[m + 5], v, w)
    BY <1>7, <2>2, <2>3 DEF LeadsFile, Still, SameFile
  <2> QED BY <2>1, <2>4 DEF Leads
<1>11. Leads(s[m + 6], V[m + 5], V[m + 6], Left(6))
  <2>1. PICK v, w : v = V[m + 5] /\ w = V[m + 6]
    OBVIOUS
  <2>2. /\ v.there = {"cycle"} /\ v.gone = Left(5) /\ v.file = "cycle"
        /\ v.text = Filled(Cycles) /\ v.open = FALSE /\ v.tree = FALSE
    <3>1. v = Last({"cycle"}, FALSE)
      BY <1>4, <2>1, Zenon
    <3> QED BY <3>1 DEF Last, View
  <2>3. /\ w.there = {} /\ w.gone = Left(6) /\ w.file = "cycle"
        /\ w.text = Filled(Cycles) /\ w.open = FALSE /\ w.tree = FALSE
    <3>1. w = Last({}, FALSE)
      BY <1>4, <2>1, Zenon
    <3> QED BY <3>1 DEF Last, View
  <2>4. LeadsName(s[m + 6], v, w, Left(6))
    BY <1>7, <2>2, <2>3, LeftSix DEF LeadsName, Bare, Drops, SameFile
  <2> QED BY <2>1, <2>4 DEF Leads
<1>12. \A i \in 1..(n - 1) : Leads(s[i + 1], V[i], V[i + 1], Left(6))
  <2> SUFFICES ASSUME NEW i \in 1..(n - 1) PROVE Leads(s[i + 1], V[i], V[i + 1], Left(6))
    OBVIOUS
  <2>0. i \in 1..(m + 5) /\ i \in Nat
    BY <1>0 DEF n
  <2>1. CASE i = 1
    <3>1. i + 1 = 2
      BY <2>1
    <3> QED BY <1>5, <2>1, <3>1
  <2>2. CASE i \in 2..(m + 1)
    <3>1. PICK j \in 1..m : i = j + 1
      <4>1. i - 1 \in 1..m /\ i = (i - 1) + 1
        BY <1>0, <2>2
      <4> QED BY <4>1
    <3> QED BY <1>6, <3>1
  <2>3. CASE i = m + 2
    <3>1. i + 1 = m + 3
      BY <1>0, <2>3
    <3> QED BY <1>8, <2>3, <3>1
  <2>4. CASE i = m + 3
    <3>1. i + 1 = m + 4
      BY <1>0, <2>4
    <3> QED BY <1>9, <2>4, <3>1
  <2>5. CASE i = m + 4
    <3>1. i + 1 = m + 5
      BY <1>0, <2>5
    <3> QED BY <1>10, <2>5, <3>1
  <2>6. CASE i = m + 5
    <3>1. i + 1 = m + 6
      BY <1>0, <2>6
    <3> QED BY <1>11, <2>6, <3>1
  <2>7. i = 1 \/ i \in 2..(m + 1) \/ i = m + 2 \/ i = m + 3 \/ i = m + 4 \/ i = m + 5
    BY <1>0, <2>0
  <2> QED BY <2>1, <2>2, <2>3, <2>4, <2>5, <2>6, <2>7
<1>13. s[n + 1].do = "release" /\ Left(6) \subseteq V[n].gone /\ ~V[n].open
  <2>1. PICK v : v = V[m + 6]
    OBVIOUS
  <2>2. v.gone = Left(6) /\ v.open = FALSE
    <3>1. v = Last({}, FALSE)
      BY <1>4, <2>1, Zenon
    <3> QED BY <3>1 DEF Last, View
  <2>3. n = m + 6 /\ n + 1 = m + 7
    BY <1>0 DEF n
  <2> QED BY <1>7, <2>1, <2>2, <2>3
<1>14. Runnable(Tail(s), V[1], Left(6))
  <2>1. n \in Nat \ {0} /\ Len(s) = n + 1 /\ Script(s)
    BY <1>0, <1>1 DEF n
  <2> QED BY <1>12, <1>13, <2>1, RunsThrough
<1> QED BY <1>4, <1>14 DEF s

\* What a run knows where a check starts: the names the checks before it have removed.
Fresh(k) == View(Left(k), {}, "", <<>>, FALSE, FALSE)

LEMMA ChecksRun ==
  \A k \in 1..6 : /\ Checks[k] # <<>> /\ Head(Checks[k]) = Ensure
                  /\ Runnable(Tail(Checks[k]), Fresh(k - 1), Left(k))
<1>1. /\ Checks[1] = MountCheck /\ Checks[2] = FileCheck /\ Checks[3] = DirectoryCheck
      /\ Checks[4] = ErrorCheck /\ Checks[5] = PersistenceCheck
      /\ Checks[6] = HandleCycleCheck
  BY DEF Checks
<1>2. Runnable(Tail(MountCheck), Fresh(1 - 1), Left(1))
  <2>1. PICK v, u : v = Fresh(1 - 1) /\ u = Left(1)
    OBVIOUS
  <2>2. 1 - 1 = 0
    OBVIOUS
  <2>3. Fresh(0) = View({}, {}, "", <<>>, FALSE, FALSE)
    BY DEF Fresh, Left
  <2>4. u = {"probe"}
    BY <2>1 DEF Left
  <2> QED BY <2>1, <2>2, <2>3, <2>4, MountCheckRuns, Zenon
<1>3. Runnable(Tail(FileCheck), Fresh(2 - 1), Left(2))
  <2>1. PICK v, u : v = Fresh(2 - 1) /\ u = Left(2)
    OBVIOUS
  <2>2. 2 - 1 = 1
    OBVIOUS
  <2>3. Fresh(1) = View({"probe"}, {}, "", <<>>, FALSE, FALSE)
    BY DEF Fresh, Left
  <2>4. u = {"probe", "bin", "done"}
    BY <2>1 DEF Left
  <2> QED BY <2>1, <2>2, <2>3, <2>4, FileCheckRuns, Zenon
<1>4. Runnable(Tail(DirectoryCheck), Fresh(3 - 1), Left(3))
  <2>1. PICK v, u : v = Fresh(3 - 1) /\ u = Left(3)
    OBVIOUS
  <2>2. 3 - 1 = 2
    OBVIOUS
  <2>3. Fresh(2) = View({"probe", "bin", "done"}, {}, "", <<>>, FALSE, FALSE)
    BY DEF Fresh, Left
  <2>4. u = {"probe", "bin", "done", "txt", "nested", "dir"}
    BY <2>1 DEF Left
  <2> QED BY <2>1, <2>2, <2>3, <2>4, DirectoryCheckRuns, Zenon
<1>5. Runnable(Tail(ErrorCheck), Fresh(4 - 1), Left(4))
  <2>1. PICK v, u : v = Fresh(4 - 1) /\ u = Left(4)
    OBVIOUS
  <2>2. 4 - 1 = 3
    OBVIOUS
  <2>3. Fresh(3) = View({"probe", "bin", "done", "txt", "nested", "dir"}, {}, "", <<>>, FALSE,
            FALSE)
    BY DEF Fresh, Left
  <2>4. u = {"probe", "bin", "done", "txt", "nested", "dir", "missing"}
    BY <2>1 DEF Left
  <2> QED BY <2>1, <2>2, <2>3, <2>4, ErrorCheckRuns, Zenon
<1>6. Runnable(Tail(PersistenceCheck), Fresh(5 - 1), Left(5))
  <2>1. PICK v, u : v = Fresh(5 - 1) /\ u = Left(5)
    OBVIOUS
  <2>2. 5 - 1 = 4
    OBVIOUS
  <2>3. Fresh(4) = View({"probe", "bin", "done", "txt", "nested", "dir", "missing"}, {}, "",
            <<>>, FALSE, FALSE)
    BY DEF Fresh, Left
  <2>4. u = {"probe", "bin", "done", "txt", "nested", "dir", "missing", "persist"}
    BY <2>1 DEF Left
  <2> QED BY <2>1, <2>2, <2>3, <2>4, PersistenceCheckRuns, Zenon
<1>7. Runnable(Tail(HandleCycleCheck), Fresh(6 - 1), Left(6))
  <2>1. 6 - 1 = 5
    OBVIOUS
  <2> QED BY <2>1, HandleCycleCheckRuns DEF Fresh
<1>8. /\ Head(MountCheck) = Ensure /\ Head(FileCheck) = Ensure /\ Head(DirectoryCheck) = Ensure
      /\ Head(ErrorCheck) = Ensure /\ Head(PersistenceCheck) = Ensure
      /\ Head(HandleCycleCheck) = Ensure
  <2>1. Head(MountCheck) = Ensure
    BY DEF MountCheck
  <2>2. Head(FileCheck) = Ensure
    BY DEF FileCheck
  <2>3. Head(DirectoryCheck) = Ensure
    BY DEF DirectoryCheck
  <2>4. Head(ErrorCheck) = Ensure /\ Head(PersistenceCheck) = Ensure
    BY DEF ErrorCheck, PersistenceCheck
  <2>5. Head(HandleCycleCheck) = Ensure
    BY CycleScript
  <2> QED BY <2>1, <2>2, <2>3, <2>4, <2>5
<1>9. \A k \in 1..6 : k = 1 \/ k = 2 \/ k = 3 \/ k = 4 \/ k = 5 \/ k = 6
  OBVIOUS
<1>10. /\ MountCheck # <<>> /\ FileCheck # <<>> /\ DirectoryCheck # <<>>
       /\ ErrorCheck # <<>> /\ PersistenceCheck # <<>> /\ HandleCycleCheck # <<>>
  <2>1. MountCheck # <<>> /\ ErrorCheck # <<>> /\ PersistenceCheck # <<>>
    BY DEF MountCheck, ErrorCheck, PersistenceCheck
  <2>2. FileCheck # <<>>
    BY DEF FileCheck
  <2>3. DirectoryCheck # <<>>
    BY DEF DirectoryCheck
  <2>4. HandleCycleCheck # <<>>
    <3>1. Len(HandleCycleCheck) = 3 * Cycles + 7 /\ Len(<<>>) = 0
      BY CycleScript
    <3>2. 3 * Cycles + 7 # 0
      BY FsAssumption
    <3> QED BY <3>1, <3>2
  <2> QED BY <2>1, <2>2, <2>3, <2>4
<1> QED BY <1>1, <1>2, <1>3, <1>4, <1>5, <1>6, <1>7, <1>8, <1>9, <1>10

-----------------------------------------------------------------------------
(* Every script ends with the release, so that whoever is idle has nothing *)
(* mounted.                                                                *)

Ending(t) == t = <<>> \/ t[Len(t)].do = "release"

EndInv ==
  /\ \A r \in Runners : Ending(todo[r])
  /\ \A r \in Runners : ~Active(r) => mine[r] = ""

LEMMA EndTail ==
  ASSUME NEW t, Script(t), t # <<>>, Ending(t), Head(t).do # "release"
  PROVE  Tail(t) # <<>> /\ Ending(Tail(t))
<1>1. /\ Script(Tail(t)) /\ Len(t) \in Nat /\ Len(t) >= 1 /\ Len(Tail(t)) = Len(t) - 1
      /\ Head(t) = t[1] /\ \A i \in 1..Len(Tail(t)) : Tail(t)[i] = t[i + 1]
  BY ScriptTail
<1>2. PICK u : u = Tail(t)
  OBVIOUS
<1>3. t[Len(t)].do = "release"
  BY DEF Ending
<1>4. Len(t) # 1
  BY <1>1, <1>3
<1>5. Len(u) >= 1 /\ Len(u) \in 1..Len(u) /\ Len(u) + 1 = Len(t)
  BY <1>1, <1>2, <1>4
<1>6. u[Len(u)] = t[Len(t)]
  BY <1>1, <1>2, <1>5
<1>7. u # <<>>
  <2>1. Len(<<>>) = 0
    OBVIOUS
  <2> QED BY <1>5, <2>1
<1> QED BY <1>2, <1>3, <1>6, <1>7 DEF Ending

LEMMA InsteadIs ==
  ASSUME NEW t, Script(t), t # <<>>, NEW c
  PROVE  LET u == <<c>> \o Tail(t)
         IN  u # <<>> /\ Head(u) = c /\ Tail(u) = Tail(t) /\ Script(u)
<1>1. PICK S : t \in Seq(S)
  BY DEF Script
<1>2. Tail(t) \in Seq(S)
  BY <1>1
<1>3. PICK d, one : d = Tail(t) /\ one = <<c>>
  OBVIOUS
<1>4. d \in Seq(S) /\ one \in Seq({c}) /\ Len(one) = 1 /\ one[1] = c
  BY <1>2, <1>3
<1>5. Script(d) /\ Script(one)
  BY <1>4 DEF Script
<1>6. /\ Len(one \o d) = Len(one) + Len(d) /\ Script(one \o d)
      /\ \A k \in 1..Len(one) : (one \o d)[k] = one[k]
      /\ \A k \in 1..Len(d) : (one \o d)[Len(one) + k] = d[k]
  BY <1>5, PairJoin
<1>7. PICK u : u = one \o d
  OBVIOUS
<1>8. /\ Len(u) = 1 + Len(d) /\ Script(u) /\ u[1] = c
      /\ \A k \in 1..Len(d) : u[1 + k] = d[k]
  <2>1. 1 \in 1..1
    OBVIOUS
  <2>2. /\ Len(u) = 1 + Len(d) /\ Script(u) /\ \A k \in 1..1 : u[k] = one[k]
        /\ \A k \in 1..Len(d) : u[1 + k] = d[k]
    BY <1>4, <1>6, <1>7, Zenon
  <2> QED BY <1>4, <2>1, <2>2
<1>9. Len(d) \in Nat /\ u # <<>>
  <2>1. Len(d) \in Nat /\ Len(<<>>) = 0
    BY <1>4
  <2> QED BY <1>8, <2>1
<1>10. /\ Script(Tail(u)) /\ Len(Tail(u)) = Len(u) - 1 /\ Head(u) = u[1]
       /\ \A i \in 1..Len(Tail(u)) : Tail(u)[i] = u[i + 1]
  BY <1>8, <1>9, ScriptTail
<1>11. Tail(u) = d
  <2>1. PICK e : e = Tail(u)
    OBVIOUS
  <2>2. PICK Q : e \in Seq(Q)
    BY <1>10, <2>1 DEF Script
  <2>3. e \in Seq(Q \cup S) /\ d \in Seq(S \cup Q) /\ S \cup Q = Q \cup S
    BY <1>4, <2>2, Wider
  <2>4. PICK R : e \in Seq(R) /\ d \in Seq(R)
    BY <2>3
  <2>5. Len(e) = Len(d) /\ \A i \in 1..Len(e) : e[i] = d[i]
    <3>1. Len(e) = Len(d)
      BY <1>8, <1>9, <1>10, <2>1
    <3>2. ASSUME NEW i \in 1..Len(d) PROVE e[i] = d[i]
      <4>1. e[i] = u[i + 1] /\ u[1 + i] = d[i] /\ i + 1 = 1 + i
        BY <1>8, <1>9, <1>10, <2>1, <3>1
      <4> QED BY <4>1
    <3> QED BY <3>1, <3>2
  <2>6. e = d
    BY <2>4, <2>5, SameSeq
  <2> QED BY <2>1, <2>6
<1>12. u # <<>> /\ Head(u) = c /\ Tail(u) = d /\ Script(u)
  BY <1>8, <1>9, <1>10, <1>11
<1> QED BY <1>3, <1>7, <1>12, Zenon

LEMMA EndInstead ==
  ASSUME NEW t, Script(t), t # <<>>, Ending(t), Head(t).do # "release", NEW c
  PROVE  <<c>> \o Tail(t) # <<>> /\ Ending(<<c>> \o Tail(t))
<1>1. Tail(t) # <<>> /\ Ending(Tail(t))
  BY EndTail
<1>2. PICK u : u = <<c>> \o Tail(t)
  OBVIOUS
<1>3. u # <<>> /\ Tail(u) = Tail(t) /\ Script(u)
  BY <1>2, InsteadIs
<1>4. /\ Len(Tail(u)) = Len(u) - 1 /\ Len(u) \in Nat
      /\ \A i \in 1..Len(Tail(u)) : Tail(u)[i] = u[i + 1] 
  BY <1>3, ScriptTail
<1>5. PICK d : d = Tail(t)
  OBVIOUS
<1>6. Script(Tail(t))
  BY ScriptTail
<1>7. d # <<>> /\ Script(d) /\ d[Len(d)].do = "release"
  BY <1>1, <1>5, <1>6 DEF Ending
<1>8. Len(d) \in Nat /\ Len(d) >= 1
  BY <1>7, ScriptTail
<1>9. Len(d) \in 1..Len(d) /\ Len(d) + 1 = Len(u)
  BY <1>3, <1>4, <1>5, <1>8
<1>10. u[Len(u)] = d[Len(d)]
  BY <1>3, <1>4, <1>5, <1>9
<1>11. Ending(u)
  BY <1>7, <1>10 DEF Ending
<1> QED BY <1>2, <1>3, <1>11

\* b ends a script that it is put at the end of.
LEMMA EndJoin ==
  ASSUME NEW a, NEW b, Script(a), Script(b), b # <<>>, Ending(b)
  PROVE  a \o b # <<>> /\ Ending(a \o b)
<1>1. /\ Len(a \o b) = Len(a) + Len(b) /\ Script(a \o b)
      /\ \A k \in 1..Len(b) : (a \o b)[Len(a) + k] = b[k]
  BY PairJoin
<1>2. PICK u : u = a \o b
  OBVIOUS
<1>3. Len(a) \in Nat
  BY DEF Script
<1>4. Len(b) \in Nat /\ Len(b) >= 1
  BY ScriptTail
<1>5. /\ Len(u) = Len(a) + Len(b) /\ \A k \in 1..Len(b) : u[Len(a) + k] = b[k]
  BY <1>1, <1>2, Zenon
<1>6. Len(b) \in 1..Len(b)
  BY <1>4
<1>7. u[Len(u)] = b[Len(b)]
  BY <1>5, <1>6
<1>8. u # <<>>
  <2>1. Len(<<>>) = 0
    OBVIOUS
  <2> QED BY <1>3, <1>4, <1>5, <2>1
<1>9. u # <<>> /\ Ending(u)
  BY <1>7, <1>8 DEF Ending
<1> QED BY <1>2, <1>9

LEMMA ReleaseEnds ==
  Script(<<Release>>) /\ <<Release>> # <<>> /\ Len(<<Release>>) = 1
    /\ Head(<<Release>>).do = "release" /\ Ending(<<Release>>)
<1>1. PICK c, t : c = Release /\ t = <<c>>
  OBVIOUS
<1>2. c.do = "release"
  BY <1>1 DEF Release
<1>3. t # <<>> /\ Len(t) = 1 /\ Head(t) = c /\ t[1] = c
  BY <1>1
<1>4. Script(t)
  BY <1>1, ShortScripts
<1>5. Ending(t)
  BY <1>2, <1>3 DEF Ending
<1> QED BY <1>1, <1>2, <1>3, <1>4, <1>5

LEMMA EndOut ==
  ASSUME NEW r, NEW bail, Script(bail)
  PROVE  WayOut(r, bail) # <<>> /\ Ending(WayOut(r, bail))
<1>1. Script(Cleans(bail))
  BY TidyCleans DEF Tidy
<1>2. PICK z : z = <<Release>>
  OBVIOUS
<1>3. Script(z) /\ z # <<>> /\ Ending(z)
  BY <1>2, ReleaseEnds
<1>4. PICK b : b = Cleans(bail) \o z
  OBVIOUS
<1>5. b # <<>> /\ Ending(b)
  BY <1>1, <1>3, <1>4, EndJoin
<1>6. Script(b)
  BY <1>1, <1>3, <1>4, PairJoin
<1>7. PICK a : a = (IF handle[r] = NoFile THEN <<>> ELSE <<Close>>)
  OBVIOUS
<1>8. Script(a)
  BY <1>7, ShortScripts
<1>9. a \o b # <<>> /\ Ending(a \o b)
  BY <1>5, <1>6, <1>8, EndJoin
<1>10. WayOut(r, bail) = a \o b
  <2>1. Script(Cleans(bail)) /\ Script(z) /\ Script(a)
    BY <1>1, <1>3, <1>8
  <2>2. PICK c : c = Cleans(bail)
    OBVIOUS
  <2>3. (a \o c) \o z = a \o (c \o z)
    <3>1. PICK A, B, C : a \in Seq(A) /\ c \in Seq(B) /\ z \in Seq(C)
      BY <2>1, <2>2 DEF Script
    <3> QED BY <3>1
  <2> QED BY <1>2, <1>4, <1>7, <2>2, <2>3 DEF WayOut
<1> QED BY <1>9, <1>10

LEMMA EndChecks ==
  ASSUME NEW k \in 1..6
  PROVE  Checks[k] # <<>> /\ Ending(Checks[k]) /\ Script(Checks[k])
<1>1. Script(Checks[k]) /\ Checks[k] # <<>> /\ Runnable(Tail(Checks[k]), Fresh(k - 1), Left(k))
  BY ChecksTidy, ChecksRun DEF Tidy
<1>2. PICK t, u : t = Checks[k] /\ u = Tail(t)
  OBVIOUS
<1>3. Script(u) /\ Len(u) >= 1 /\ u[Len(u)].do = "release"
  BY <1>1, <1>2 DEF Runnable
<1>4. /\ Len(t) \in Nat /\ Len(u) = Len(t) - 1 /\ \A i \in 1..Len(u) : u[i] = t[i + 1]
  BY <1>1, <1>2, ScriptTail
<1>5. Len(u) \in 1..Len(u) /\ Len(u) + 1 = Len(t)
  BY <1>3, <1>4
<1>6. t[Len(t)] = u[Len(u)]
  BY <1>4, <1>5
<1>7. Ending(t)
  BY <1>3, <1>6 DEF Ending
<1> QED BY <1>1, <1>2, <1>7

\* What a call does to the script of its check.
Moves(r) ==
  \/ Done(r)
  \/ \E c : Instead(r, c)
  \/ /\ Out(r)
     /\ Op(r).do \in {"open", "put", "verify", "rename", "remove", "is", "mkdir", "rmdir",
                      "judge"}
  \/ todo' = [todo EXCEPT ![r] = <<Release>>]

LEMMA StepMoves ==
  ASSUME NEW r \in Runners, RunStep(r), ~ReleaseMount(r)
  PROVE  /\ Moves(r) /\ Active(r) /\ Op(r).do # "release" /\ Rest /\ leaked' = leaked
         /\ mine' = mine \/ \E m : mine' = [mine EXCEPT ![r] = m]
<1>1. CASE DetectMount(r)
  <2>1. Moves(r)
    BY <1>1 DEF DetectMount, Moves
  <2> QED BY <1>1, <2>1 DEF DetectMount, At
<1>2. CASE DropDetectFile(r)
  BY <1>2 DEF DropDetectFile, At, Moves
<1>3. CASE MountConfigPartition(r)
  <2>1. Moves(r)
    BY <1>3 DEF MountConfigPartition, Moves
  <2> QED BY <1>3, <2>1 DEF MountConfigPartition, At
<1>4. CASE MountGenericPartition(r)
  <2>1. Moves(r)
    BY <1>4 DEF MountGenericPartition, Moves, NoBail
  <2> QED BY <1>4, <2>1 DEF MountGenericPartition, At
<1>5. CASE CleanPath(r)
  BY <1>5 DEF CleanPath, At, Keeps, Moves
<1>6. CASE OpenFile(r)
  BY <1>6 DEF OpenFile, At, Keeps, Moves
<1>7. CASE PutItem(r)
  BY <1>7 DEF PutItem, At, Keeps, Moves
<1>8. CASE VerifyFile(r)
  BY <1>8 DEF VerifyFile, At, Keeps, Moves
<1>9. CASE CloseFile(r)
  BY <1>9 DEF CloseFile, At, Keeps, Moves
<1>10. CASE RenameFile(r)
  BY <1>10 DEF RenameFile, At, Keeps, Moves
<1>11. CASE RemoveFile(r)
  BY <1>11 DEF RemoveFile, At, Keeps, Moves
<1>12. CASE DiscardFile(r)
  BY <1>12 DEF DiscardFile, At, Keeps, Moves
<1>13. CASE Look(r)
  BY <1>13 DEF Look, At, Keeps, Moves
<1>14. CASE MakeDirectory(r)
  BY <1>14 DEF MakeDirectory, At, Keeps, Moves
<1>15. CASE RemoveDirectory(r)
  BY <1>15 DEF RemoveDirectory, At, Keeps, Moves
<1>16. CASE TryMissing(r)
  BY <1>16 DEF TryMissing, At, Keeps, Moves
<1>17. CASE JudgeCheck(r)
  BY <1>17 DEF JudgeCheck, At, Keeps, Moves
<1> QED BY <1>1, <1>2, <1>3, <1>4, <1>5, <1>6, <1>7, <1>8, <1>9, <1>10, <1>11, <1>12, <1>13,
  <1>14, <1>15, <1>16, <1>17 DEF RunStep

LEMMA MovesEnd ==
  ASSUME HandleInv, EndInv, NEW r \in Runners, Active(r), Moves(r), Op(r).do # "release"
  PROVE  /\ todo'[r] # <<>> /\ Ending(todo'[r])
         /\ \A s \in Runners \ {r} : todo'[s] = todo[s]
<1>1. Script(todo[r]) /\ todo[r] # <<>> /\ Op(r) = Head(todo[r]) /\ Sound(Op(r))
  BY DueCall DEF Tidy
<1>2. Ending(todo[r])
  BY DEF EndInv
<1>3. ASSUME NEW x, todo' = [todo EXCEPT ![r] = x], x # <<>>, Ending(x)
      PROVE  /\ todo'[r] # <<>> /\ Ending(todo'[r])
             /\ \A s \in Runners \ {r} : todo'[s] = todo[s]
  BY <1>3, TodoSet
<1>4. CASE Done(r)
  <2>1. Tail(todo[r]) # <<>> /\ Ending(Tail(todo[r]))
    BY <1>1, <1>2, EndTail
  <2> QED BY <1>3, <1>4, <2>1 DEF Done
<1>5. ASSUME NEW c, Instead(r, c)
      PROVE  /\ todo'[r] # <<>> /\ Ending(todo'[r])
             /\ \A s \in Runners \ {r} : todo'[s] = todo[s]
  <2>1. <<c>> \o Tail(todo[r]) # <<>> /\ Ending(<<c>> \o Tail(todo[r]))
    BY <1>1, <1>2, EndInstead
  <2> QED BY <1>3, <1>5, <2>1 DEF Instead
<1>6. CASE Out(r) /\ Script(Op(r).bail)
  <2>1. WayOut(r, Op(r).bail) # <<>> /\ Ending(WayOut(r, Op(r).bail))
    BY <1>6, EndOut
  <2> QED BY <1>3, <1>6, <2>1 DEF Out
<1>7. CASE todo' = [todo EXCEPT ![r] = <<Release>>]
  BY <1>3, <1>7, ReleaseEnds
<1>8. Done(r) \/ (\E c : Instead(r, c)) \/ (Out(r) /\ Script(Op(r).bail))
      \/ todo' = [todo EXCEPT ![r] = <<Release>>]
  BY <1>1 DEF Moves, Sound
<1> QED BY <1>4, <1>5, <1>6, <1>7, <1>8

\* The next check, or none.
LEMMA ReleaseEnding ==
  ASSUME HandleInv, MountInv, NEW r \in Runners, ReleaseMount(r)
  PROVE  /\ next[r] \in Nat /\ next[r] > 0
         /\ Ending(todo'[r]) /\ \A s \in Runners \ {r} : todo'[s] = todo[s]
         /\ todo'[r] = (IF next[r] > 6 THEN <<>> ELSE Checks[next[r]])
         /\ todo'[r] = <<>> <=> next[r] > 6
         /\ mine'[r] = "" /\ \A s \in Runners \ {r} : mine'[s] = mine[s]
<1>1. next[r] \in Nat /\ next[r] > 0
  BY DEF ReleaseMount, At, HandleInv
<1>2. todo' = [todo EXCEPT ![r] = IF next[r] > Len(Checks) THEN <<>> ELSE Checks[next[r]]]
  BY DEF ReleaseMount
<1>3. /\ todo'[r] = (IF next[r] > 6 THEN <<>> ELSE Checks[next[r]])
      /\ \A s \in Runners \ {r} : todo'[s] = todo[s]
  <2>1. Len(Checks) = 6
    BY ChecksTidy
  <2>2. PICK x : x = (IF next[r] > Len(Checks) THEN <<>> ELSE Checks[next[r]])
    OBVIOUS
  <2>3. todo'[r] = x /\ \A s \in Runners \ {r} : todo'[s] = todo[s]
    BY <1>2, <2>2, TodoSet
  <2> QED BY <2>1, <2>2, <2>3, Zenon
<1>4. Ending(todo'[r]) /\ (todo'[r] = <<>> <=> next[r] > 6)
  <2>1. CASE next[r] > 6
    BY <1>3, <2>1 DEF Ending
  <2>2. CASE ~(next[r] > 6)
    <3>1. next[r] \in 1..6
      BY <1>1, <2>2
    <3> QED BY <1>3, <2>2, <3>1, EndChecks
  <2> QED BY <2>1, <2>2
<1>5. mine'[r] = "" /\ \A s \in Runners \ {r} : mine'[s] = mine[s]
  BY DEF ReleaseMount, MountInv
<1> QED BY <1>1, <1>3, <1>4, <1>5

LEMMA StepEnds ==
  ASSUME HandleInv, MountInv, EndInv, NEW r \in Runners, RunStep(r)
  PROVE  EndInv'
<1>1. CASE ReleaseMount(r)
  BY <1>1, ReleaseEnding DEF EndInv, Active
<1>2. CASE ~ReleaseMount(r)
  <2>1. /\ Moves(r) /\ Active(r) /\ Op(r).do # "release"
        /\ mine' = mine \/ \E m : mine' = [mine EXCEPT ![r] = m]
    BY <1>2, StepMoves
  <2>2. /\ todo'[r] # <<>> /\ Ending(todo'[r]) /\ \A s \in Runners \ {r} : todo'[s] = todo[s]
    BY <2>1, MovesEnd
  <2>3. \A s \in Runners \ {r} : mine'[s] = mine[s]
    BY <2>1 DEF MountInv
  <2> QED BY <2>2, <2>3 DEF EndInv, Active
<1> QED BY <1>1, <1>2

LEMMA BeginEnds ==
  ASSUME HandleInv, EndInv, NEW r \in Runners, Begin(r), mine' = mine
  PROVE  EndInv'
<1>1. todo'[r] = Checks[1] /\ \A s \in Runners \ {r} : todo'[s] = todo[s]
  BY TodoSet DEF Begin
<1>2. Checks[1] # <<>> /\ Ending(Checks[1])
  BY EndChecks
<1> QED BY <1>1, <1>2 DEF EndInv, Active

LEMMA DeleteEnds ==
  ASSUME HandleInv, MountInv, EndInv, NEW r \in Runners, Delete(r)
  PROVE  EndInv'
<1>1. todo'[r] = <<>> /\ \A s \in Runners \ {r} : todo'[s] = todo[s]
  BY TodoSet DEF Delete
<1>2. mine'[r] = "" /\ \A s \in Runners \ {r} : mine'[s] = mine[s]
  BY DEF Delete, MountInv
<1> QED BY <1>1, <1>2 DEF EndInv, Active, Ending

LEMMA SameEnds ==
  ASSUME EndInv, UNCHANGED <<todo, mine>>
  PROVE  EndInv'
BY DEF EndInv, Active

LEMMA IdleEnds ==
  ASSUME \A r \in Runners : todo[r] = <<>> /\ mine[r] = ""
  PROVE  EndInv
BY DEF EndInv, Ending

LEMMA EndNext ==
  ASSUME HandleInv, MountInv, EndInv, [Next]_vars
  PROVE  EndInv'
<1>0. "boot" \in Runners /\ "optional" \in Runners /\ "serial" \in Runners
  BY DEF Runners
<1>1. ASSUME NEW r \in Runners, RunStep(r)
      PROVE  EndInv'
  BY <1>1, StepEnds
<1>2. CASE RequiredTests
  BY <1>0, <1>2, BeginEnds, SameEnds DEF RequiredTests, NoRun, runvars
<1>3. CASE RequiredDone
  BY <1>3, SameEnds DEF RequiredDone, Quiet
<1>4. CASE LoadConfig
  BY <1>4, SameEnds DEF LoadConfig, NoRun, runvars
<1>5. CASE ConfigReload
  BY <1>5, SameEnds DEF ConfigReload
<1>6. CASE StartOptional
  BY <1>0, <1>6, BeginEnds DEF StartOptional, Quiet
<1>7. CASE FsTestCommand
  BY <1>0, <1>7, BeginEnds DEF FsTestCommand, Quiet
<1>8. CASE DeleteOptional \/ SupervisorKills
  BY <1>0, <1>8, DeleteEnds DEF DeleteOptional, SupervisorKills
<1>9. CASE Reboot
  <2>1. (\A r \in Runners : todo[r] = <<>> /\ mine[r] = "")'
    BY <1>9 DEF Reboot
  <2> QED BY <2>1, IdleEnds, PTL
<1>10. CASE UNCHANGED vars
  BY <1>10, SameEnds DEF vars, runvars
<1> QED BY <1>1, <1>2, <1>3, <1>4, <1>5, <1>6, <1>7, <1>8, <1>9, <1>10 DEF Next

-----------------------------------------------------------------------------
(* The files.                                                              *)

\* No file has a name the tests do not use.
NamesInv ==
  /\ files = [p \in Partitions |-> files[p]]
  /\ \A p \in Partitions : DOMAIN files[p] \subseteq Names

\* What the file-system calls do to the partition they are about.
Others(p) ==
  /\ files' = [q \in Partitions |-> files'[q]]
  /\ \A q \in Partitions \ {p} : files'[q] = files[q]

LEMMA KeyedIs ==
  ASSUME NEW table, NEW f, NEW c
  PROVE  /\ DOMAIN Keyed(table, f, c) = DOMAIN table \cup {f} /\ Keyed(table, f, c)[f] = c
         /\ \A g \in DOMAIN table \ {f} : Keyed(table, f, c)[g] = table[g]
BY DEF Keyed

LEMMA WithIs ==
  ASSUME NamesInv, Here \in Partitions, NEW f, NEW c, files' = With(f, c)
  PROVE  /\ Others(Here) /\ DOMAIN files'[Here] = DOMAIN files[Here] \cup {f}
         /\ files'[Here][f] = c
         /\ \A g \in DOMAIN files[Here] \ {f} : files'[Here][g] = files[Here][g]
<1>1. PICK p, table, t : p = Here /\ table = files[Here] /\ t = Keyed(table, f, c)
  OBVIOUS
<1>2. files' = [files EXCEPT ![p] = t]
  BY <1>1 DEF With
<1>3. files'[p] = t /\ Others(p)
  BY <1>1, <1>2 DEF NamesInv, Others
<1>4. DOMAIN t = DOMAIN table \cup {f} /\ t[f] = c /\ \A g \in DOMAIN table \ {f} : t[g] = table[g]
  <2>1. t = Keyed(table, f, c)
    BY <1>1
  <2> QED BY <2>1 DEF Keyed
<1> QED BY <1>1, <1>3, <1>4

LEMMA WithoutIs ==
  ASSUME NamesInv, Here \in Partitions, NEW f, files' = Without(f)
  PROVE  /\ Others(Here) /\ DOMAIN files'[Here] = DOMAIN files[Here] \ {f}
         /\ \A g \in DOMAIN files[Here] \ {f} : files'[Here][g] = files[Here][g]
<1>1. PICK p, table, t : p = Here /\ table = files[Here]
                         /\ t = [n \in DOMAIN table \ {f} |-> table[n]]
  OBVIOUS
<1>2. DOMAIN t = DOMAIN table \ {f} /\ \A g \in DOMAIN table \ {f} : t[g] = table[g]
  BY <1>1
<1>3. files' = [files EXCEPT ![p] = t]
  BY <1>1 DEF Without
<1>4. files'[p] = t /\ Others(p)
  BY <1>1, <1>3 DEF NamesInv, Others
<1> QED BY <1>1, <1>2, <1>4

LEMMA RenamedIs ==
  ASSUME NamesInv, Here \in Partitions, NEW f, NEW g,
         files' = [files EXCEPT ![Here] = Keyed([n \in DOMAIN @ \ {f} |-> @[n]], g, @[f])]
  PROVE  /\ Others(Here) /\ DOMAIN files'[Here] = (DOMAIN files[Here] \ {f}) \cup {g}
         /\ files'[Here][g] = files[Here][f]
<1>1. PICK p, table, t : p = Here /\ table = files[Here]
                         /\ t = [n \in DOMAIN table \ {f} |-> table[n]]
  OBVIOUS
<1>2. DOMAIN t = DOMAIN table \ {f}
  BY <1>1
<1>3. PICK c, u : c = table[f] /\ u = Keyed(t, g, c)
  OBVIOUS
<1>4. files' = [files EXCEPT ![p] = u]
  BY <1>1, <1>3
<1>5. files'[p] = u /\ Others(p)
  BY <1>1, <1>4 DEF NamesInv, Others
<1>6. DOMAIN u = DOMAIN t \cup {g} /\ u[g] = c
  <2>1. u = Keyed(t, g, c)
    BY <1>3
  <2> QED BY <2>1 DEF Keyed
<1> QED BY <1>1, <1>2, <1>3, <1>5, <1>6

FileMoves ==
  \/ files' = files
  \/ Here \in Partitions /\ \E f \in Names : \E c : files' = With(f, c)
  \/ Here \in Partitions /\ \E f : files' = Without(f)
  \/ /\ Here \in Partitions
     /\ \E f : \E g \in Names :
          files' = [files EXCEPT ![Here] = Keyed([n \in DOMAIN @ \ {f} |-> @[n]], g, @[f])]
  \/ \E p : \E f \in DOMAIN files[p] : \E c : files' = [files EXCEPT ![p] = Keyed(@, f, c)]

LEMMA MovesNames ==
  ASSUME NamesInv, FileMoves
  PROVE  NamesInv'
<1>0. ASSUME NEW p \in Partitions, Others(p), DOMAIN files'[p] \subseteq Names
      PROVE  NamesInv'
  BY <1>0 DEF NamesInv, Others
<1>1. CASE files' = files
  BY <1>1 DEF NamesInv
<1>2. ASSUME Here \in Partitions, NEW f \in Names, NEW c, files' = With(f, c)
      PROVE  NamesInv'
  <2>1. Others(Here) /\ DOMAIN files'[Here] = DOMAIN files[Here] \cup {f}
    BY <1>2, WithIs
  <2>2. DOMAIN files[Here] \subseteq Names
    BY <1>2 DEF NamesInv
  <2> QED BY <1>0, <1>2, <2>1, <2>2
<1>3. ASSUME Here \in Partitions, NEW f, files' = Without(f)
      PROVE  NamesInv'
  <2>1. Others(Here) /\ DOMAIN files'[Here] = DOMAIN files[Here] \ {f}
    BY <1>3, WithoutIs
  <2>2. DOMAIN files[Here] \subseteq Names
    BY <1>3 DEF NamesInv
  <2> QED BY <1>0, <1>3, <2>1, <2>2
<1>4. ASSUME Here \in Partitions, NEW f, NEW g \in Names,
             files' = [files EXCEPT ![Here] = Keyed([n \in DOMAIN @ \ {f} |-> @[n]], g, @[f])]
      PROVE  NamesInv'
  <2>1. Others(Here) /\ DOMAIN files'[Here] = (DOMAIN files[Here] \ {f}) \cup {g}
    BY <1>4, RenamedIs
  <2>2. DOMAIN files[Here] \subseteq Names
    BY <1>4 DEF NamesInv
  <2> QED BY <1>0, <1>4, <2>1, <2>2
<1>5. ASSUME NEW p, NEW f \in DOMAIN files[p], NEW c,
             files' = [files EXCEPT ![p] = Keyed(@, f, c)]
      PROVE  NamesInv'
  <2>1. CASE p \in Partitions
    <3>1. PICK t : t = Keyed(files[p], f, c)
      OBVIOUS
    <3>2. files' = [files EXCEPT ![p] = t]
      BY <1>5, <3>1
    <3>3. Others(p) /\ DOMAIN files'[p] = DOMAIN files[p] \cup {f}
      <4>1. files'[p] = t /\ Others(p)
        BY <2>1, <3>2 DEF NamesInv, Others
      <4>2. DOMAIN t = DOMAIN files[p] \cup {f}
        BY <3>1, KeyedIs
      <4> QED BY <4>1, <4>2
    <3>4. DOMAIN files[p] \subseteq Names
      BY <2>1 DEF NamesInv
    <3> QED BY <1>0, <1>5, <2>1, <3>3, <3>4
  <2>2. CASE p \notin Partitions
    <3>1. files' = files
      BY <1>5, <2>2 DEF NamesInv
    <3> QED BY <1>1, <3>1
  <2> QED BY <2>1, <2>2
<1> QED BY <1>1, <1>2, <1>3, <1>4, <1>5 DEF FileMoves

LEMMA StepNames ==
  ASSUME HandleInv, MountInv, NEW r \in Runners, RunStep(r)
  PROVE  FileMoves
<1>1. Active(r) => Sound(Op(r))
  BY DueCall
<1>2. mounts # <<>> => Here \in Partitions
  BY HereIsOne DEF MountInv
<1>3. CASE DetectMount(r)
  <2>1. "tmp" \in Names
    BY DEF Names
  <2>2. files' = files \/ (mounts # <<>> /\ files' = With("tmp", <<>>))
    BY <1>3 DEF DetectMount, Free
  <2> QED BY <1>2, <2>1, <2>2 DEF FileMoves
<1>4. CASE DropDetectFile(r)
  <2>1. files' = files \/ (mounts # <<>> /\ files' = Without("tmp"))
    BY <1>4 DEF DropDetectFile, Exists
  <2> QED BY <1>2, <2>1 DEF FileMoves
<1>5. CASE MountConfigPartition(r) \/ MountGenericPartition(r) \/ ReleaseMount(r)
           \/ VerifyFile(r) \/ CloseFile(r) \/ Look(r) \/ TryMissing(r) \/ JudgeCheck(r)
  <2>1. files' = files
    BY <1>5 DEF MountConfigPartition, MountGenericPartition, ReleaseMount, VerifyFile, CloseFile,
      Look, TryMissing, JudgeCheck
  <2> QED BY <2>1 DEF FileMoves
<1>6. CASE CleanPath(r)
  <2>1. files' = files \/ (mounts # <<>> /\ files' = Without(Op(r).name))
    BY <1>6 DEF CleanPath, Exists
  <2> QED BY <1>2, <2>1 DEF FileMoves
<1>7. CASE OpenFile(r)
  <2>1. files' = files \/ (mounts # <<>> /\ files' = With(Op(r).name, <<>>))
    BY <1>7 DEF OpenFile, Free
  <2>2. Op(r).name \in Names
    BY <1>1, <1>7 DEF OpenFile, At, Sound
  <2> QED BY <1>2, <2>1, <2>2 DEF FileMoves
<1>8. CASE PutItem(r)
  <2>1. files' = files
        \/ \E c : /\ handle[r].name \in DOMAIN files[handle[r].part]
                  /\ files' = [files EXCEPT ![handle[r].part] = Keyed(@, handle[r].name, c)]
    BY <1>8 DEF PutItem, Usable
  <2> QED BY <2>1 DEF FileMoves
<1>9. CASE RenameFile(r)
  <2>1. \/ files' = files
        \/ mounts # <<>> /\ files' = [files EXCEPT ![Here] =
                              Keyed([n \in DOMAIN @ \ {Op(r).name} |-> @[n]], Op(r).to,
                                    @[Op(r).name])]
    BY <1>9 DEF RenameFile, Exists
  <2>2. Op(r).to \in Names
    BY <1>1, <1>9 DEF RenameFile, At, Sound
  <2> QED BY <1>2, <2>1, <2>2 DEF FileMoves
<1>10. CASE RemoveFile(r)
  <2>1. files' = files \/ (mounts # <<>> /\ files' = Without(Op(r).name))
    BY <1>10 DEF RemoveFile, Exists
  <2> QED BY <1>2, <2>1 DEF FileMoves
<1>11. CASE DiscardFile(r)
  <2>1. files' = files \/ (mounts # <<>> /\ files' = Without(Op(r).name))
    BY <1>11 DEF DiscardFile, Exists
  <2> QED BY <1>2, <2>1 DEF FileMoves
<1>12. CASE MakeDirectory(r)
  <2>1. files' = files \/ (mounts # <<>> /\ files' = With(Op(r).name, DIR))
    BY <1>12 DEF MakeDirectory
  <2>2. Op(r).name \in Names
    BY <1>1, <1>12 DEF MakeDirectory, At, Sound
  <2> QED BY <1>2, <2>1, <2>2 DEF FileMoves
<1>13. CASE RemoveDirectory(r)
  <2>1. files' = files \/ (mounts # <<>> /\ files' = Without(Op(r).name))
    BY <1>13 DEF RemoveDirectory, Exists
  <2> QED BY <1>2, <2>1 DEF FileMoves
<1> QED BY <1>3, <1>4, <1>5, <1>6, <1>7, <1>8, <1>9, <1>10, <1>11, <1>12, <1>13 DEF RunStep

\* A deleted task only loses what is in its buffer.
LEMMA TornNames ==
  ASSUME NEW h, files' \in Torn(h)
  PROVE  FileMoves /\ (~h.alive => files' = files)
<1>1. \/ files' = files
      \/ h.alive /\ h.name \in DOMAIN files[h.part]
         /\ \E c : files' = [files EXCEPT ![h.part] = Keyed(@, h.name, c)]
  BY DEF Torn
<1> QED BY <1>1 DEF FileMoves

LEMMA NamesNext ==
  ASSUME HandleInv, MountInv, NamesInv, [Next]_vars
  PROVE  NamesInv'
<1>1. ASSUME NEW r \in Runners, RunStep(r)
      PROVE  NamesInv'
  BY <1>1, StepNames, MovesNames
<1>2. CASE RequiredTests
  BY <1>2, MovesNames DEF RequiredTests, FileMoves
<1>3. CASE RequiredDone
  BY <1>3, MovesNames DEF RequiredDone, Quiet, FileMoves
<1>4. CASE LoadConfig
  BY <1>4, MovesNames DEF LoadConfig, FileMoves
<1>5. CASE ConfigReload
  BY <1>5, MovesNames DEF ConfigReload, FileMoves
<1>6. CASE StartOptional
  BY <1>6, MovesNames DEF StartOptional, Quiet, FileMoves
<1>7. CASE FsTestCommand
  BY <1>7, MovesNames DEF FsTestCommand, Quiet, FileMoves
<1>8. CASE DeleteOptional \/ SupervisorKills
  <2>1. PICK h : files' \in Torn(h)
    BY <1>8 DEF DeleteOptional, SupervisorKills, Delete
  <2> QED BY <2>1, TornNames, MovesNames
<1>9. CASE Reboot
  <2>1. PICK h : files' \in Torn(h)
    BY <1>9 DEF Reboot
  <2> QED BY <2>1, TornNames, MovesNames
<1>10. CASE UNCHANGED vars
  BY <1>10, MovesNames DEF vars, FileMoves
<1> QED BY <1>1, <1>2, <1>3, <1>4, <1>5, <1>6, <1>7, <1>8, <1>9, <1>10 DEF Next

-----------------------------------------------------------------------------
(* A call of a run that is alone does what its view says.                  *)

Fits(v, table) ==
  /\ v.gone \cap DOMAIN table = {} /\ v.there \subseteq DOMAIN table
  /\ v.file \in v.there => table[v.file] = v.text

LEMMA FitsStill ==
  ASSUME NEW v, NEW w, NEW t, Fits(v, t), Still(v, w), SameFile(v, w)
  PROVE  Fits(w, t)
BY DEF Fits, Still, SameFile

LEMMA FitsDrops ==
  ASSUME NEW v, NEW w, NEW t, NEW u, NEW f, Fits(v, t), Drops(f, v, w), SameFile(v, w),
         DOMAIN u = DOMAIN t \ {f}, \A g \in DOMAIN t \ {f} : u[g] = t[g]
  PROVE  Fits(w, u)
BY DEF Fits, Drops, SameFile

LEMMA FitsGone ==
  ASSUME NEW v, NEW w, NEW t, NEW f, Fits(v, t), Drops(f, v, w), SameFile(v, w),
         f \notin DOMAIN t
  PROVE  Fits(w, t)
BY DEF Fits, Drops, SameFile

LEMMA FitsMakes ==
  ASSUME NEW v, NEW w, NEW t, NEW u, NEW f, Fits(v, t), Makes(f, v, w),
         DOMAIN u = DOMAIN t \cup {f}, \A g \in DOMAIN t \ {f} : u[g] = t[g],
         \/ w.file = f /\ w.text = u[f]
         \/ w.file = v.file /\ w.text = v.text /\ w.file # f
  PROVE  Fits(w, u)
BY DEF Fits, Makes

LEMMA FitsWrites ==
  ASSUME NEW v, NEW w, NEW t, NEW u, Fits(v, t), Still(v, w), w.file = v.file,
         v.file \in v.there, DOMAIN u = DOMAIN t \cup {v.file}, u[v.file] = w.text
  PROVE  Fits(w, u)
BY DEF Fits, Still

LEMMA FitsRename ==
  ASSUME NEW v, NEW w, NEW t, NEW u, NEW f, NEW g, Fits(v, t), f \in v.there, f = v.file,
         f # g, w.file = g, w.text = v.text,
         w.gone \subseteq (v.gone \cup {f}) \ {g}, w.there \subseteq (v.there \cup {g}) \ {f},
         DOMAIN u = (DOMAIN t \ {f}) \cup {g}, u[g] = t[f]
  PROVE  Fits(w, u)
BY DEF Fits

\* The partition a run works on, or will once it has mounted it.
Place == IF mounts = <<>> THEN "config" ELSE Here
Roomy == mounts # <<>> /\ leaked[Here] < mounts[1].max
Holds(v) == Fits(v, files[Place]) /\ (v.tree => dirs)
Opened(r, v) ==
  /\ v.open => /\ handle[r].part = Here /\ handle[r].name = v.file /\ handle[r].alive
               /\ handle[r] # NoFile
  /\ ~v.open => handle[r] = NoFile
Alone(r) == \A s \in Runners \ {r} : ~Active(s)

Lone(r, v) ==
  /\ HandleInv /\ MountInv /\ NamesInv
  /\ Active(r) /\ Alone(r) /\ ~bad[r] /\ Roomy /\ Holds(v) /\ Opened(r, v)
Onward(r, w) ==
  /\ Done(r) /\ bad' = bad /\ mounts' = mounts /\ mine' = mine
  /\ Holds(w)' /\ Opened(r, w)'

LEMMA AloneClosed ==
  ASSUME HandleInv, NEW r \in Runners, Alone(r)
  PROVE  \A s \in Runners \ {r} : handle[s] = NoFile
<1> SUFFICES ASSUME NEW s \in Runners \ {r} PROVE handle[s] = NoFile
  OBVIOUS
<1>1. Tidy(<<>>, handle[s])
  BY DEF HandleInv, Alone, Active
<1> QED BY <1>1, TidyEmpty

LEMMA FreeIsRoomy ==
  ASSUME HandleInv, MountInv, \A s \in Runners : handle[s] = NoFile
  PROVE  Free <=> Roomy
<1>1. CASE mounts = <<>>
  BY <1>1 DEF Free, Roomy
<1>2. CASE mounts # <<>>
  <2>1. Here \in Partitions
    BY <1>2, HereIsOne DEF MountInv
  <2>2. {s \in Runners : handle[s].part = Here} = {}
    <3>1. NoFile.part # Here
      BY <2>1 DEF NoFile, Partitions
    <3>2. \A s \in Runners : handle[s] = NoFile
      OBVIOUS
    <3> QED BY <3>1, <3>2
  <2>3. Cardinality({}) = 0
    BY FS_EmptySet
  <2>4. leaked[Here] \in Nat
    BY <2>1 DEF HandleInv
  <2>5. OpenHandles(Here) = leaked[Here] + 0
    BY <2>2, <2>3, Zenon DEF OpenHandles
  <2>6. OpenHandles(Here) = leaked[Here]
    BY <2>4, <2>5
  <2> QED BY <1>2, <2>6, Zenon DEF Free, Roomy
<1> QED BY <1>1, <1>2

LEMMA LoneFree ==
  ASSUME NEW r \in Runners, NEW v, Lone(r, v)
  PROVE  /\ mounts # <<>> /\ Here \in Partitions /\ Place = Here
         /\ (~v.open => handle[r] = NoFile /\ Free)
         /\ \A f : Exists(f) <=> f \in DOMAIN files[Here]
<1>1. mounts # <<>> /\ Here \in Partitions /\ Place = Here
  BY HereIsOne DEF Lone, Roomy, MountInv, Place
<1>2. ASSUME ~v.open PROVE handle[r] = NoFile /\ Free
  <2>1. handle[r] = NoFile
    BY <1>2 DEF Lone, Opened
  <2>2. \A s \in Runners : handle[s] = NoFile
    BY <2>1, AloneClosed DEF Lone
  <2> QED BY <2>1, <2>2, FreeIsRoomy DEF Lone
<1>3. \A f : Exists(f) <=> f \in DOMAIN files[Here]
  BY <1>1 DEF Exists
<1> QED BY <1>1, <1>2, <1>3

\* What is left to show of a call that leaves the mounts alone.
LEMMA OnwardWhen ==
  ASSUME NEW r \in Runners, NEW v, NEW w, Lone(r, v), dirs' = dirs,
         Done(r), bad' = bad, Keeps, Fits(w, files[Here]'), w.tree => dirs,
         w.open => /\ handle'[r].part = Here /\ handle'[r].name = w.file /\ handle'[r].alive
                   /\ handle'[r] # NoFile,
         ~w.open => handle'[r] = NoFile
  PROVE  Onward(r, w)
<1>1. mounts' = mounts /\ mine' = mine
  BY DEF Keeps
<1>2. Here' = Here /\ Place' = Here
  BY <1>1, LoneFree DEF Here, Place
<1>3. Holds(w)'
  BY <1>2 DEF Holds
<1>4. Opened(r, w)'
  BY <1>2 DEF Opened
<1> QED BY <1>1, <1>3, <1>4 DEF Onward

LEMMA LoneOpen ==
  ASSUME NEW r \in Runners, NEW v, NEW w, Lone(r, v), dirs' = dirs,
         LeadsFile(Op(r), v, w), OpenFile(r), ~Fault(r)
  PROVE  Onward(r, w)
<1> DEFINE f == Op(r).name
<1>1. /\ mounts # <<>> /\ Here \in Partitions /\ Place = Here
      /\ \A g : Exists(g) <=> g \in DOMAIN files[Here]
  BY LoneFree
<1>2. Op(r).do = "open" /\ Keeps
  BY DEF OpenFile, At
<1>3. ~v.open /\ w.open /\ w.file = f /\ (w.tree => v.tree)
  BY <1>2 DEF LeadsFile, SameFile
<1>4. Free
  BY <1>3, LoneFree
<1>5. Fits(v, files[Here]) /\ (v.tree => dirs) /\ NamesInv /\ HandleInv
  BY <1>1 DEF Lone, Holds
<1>6. Op(r).mode = "r" => Exists(f)
  BY <1>1, <1>2, <1>5 DEF LeadsFile, Fits
<1>7. /\ Done(r) /\ bad' = bad
      /\ handle' = [handle EXCEPT ![r] = [part |-> Here, name |-> f, mode |-> Op(r).mode,
                                          alive |-> TRUE]]
      /\ files' = IF Op(r).mode = "w" \/ (Op(r).mode = "a" /\ ~Exists(f))
                  THEN With(f, <<>>) ELSE files
  BY <1>4, <1>6 DEF OpenFile
<1> HIDE DEF f
<1>8. /\ handle'[r].part = Here /\ handle'[r].name = f /\ handle'[r].alive
      /\ handle'[r] # NoFile
  <2>1. PICK h : h = [part |-> Here, name |-> f, mode |-> Op(r).mode, alive |-> TRUE]
    OBVIOUS
  <2>2. h.part = Here /\ h.name = f /\ h.alive /\ h # NoFile
    BY <2>1 DEF NoFile
  <2>3. handle'[r] = h
    BY <1>5, <1>7, <2>1, HandleSet
  <2> QED BY <2>2, <2>3
<1>9. Fits(w, files[Here]')
  <2>1. CASE /\ Op(r).mode = "w" \/ (Op(r).mode = "a" /\ f \in v.gone)
             /\ Makes(f, v, w) /\ w.text = <<>>
    <3>1. files' = With(f, <<>>)
      BY <1>1, <1>5, <1>7, <2>1 DEF Fits
    <3>2. /\ DOMAIN files'[Here] = DOMAIN files[Here] \cup {f} /\ files'[Here][f] = <<>>
          /\ \A g \in DOMAIN files[Here] \ {f} : files'[Here][g] = files[Here][g]
      BY <1>1, <1>5, <3>1, WithIs
    <3>3. PICK t, u : t = files[Here] /\ u = files'[Here]
      OBVIOUS
    <3>4. Fits(w, u)
      BY <1>3, <1>5, <2>1, <3>2, <3>3, FitsMakes
    <3>5. files[Here]' = files'[Here]
      BY <1>2 DEF Keeps, Here
    <3> QED BY <3>3, <3>4, <3>5
  <2>2. CASE Op(r).mode \in {"a", "r"} /\ f \in v.there /\ Still(v, w) /\ SameFile(v, w)
    <3>1. Exists(f)
      BY <1>1, <1>5, <2>2 DEF Fits
    <3>2. files' = files
      BY <1>7, <2>2, <3>1
    <3>3. Fits(w, files[Here])
      BY <1>5, <2>2, FitsStill
    <3>4. files[Here]' = files[Here]
      BY <1>2, <3>2 DEF Keeps, Here
    <3> QED BY <3>3, <3>4
  <2>3. \/ /\ Op(r).mode = "w" \/ (Op(r).mode = "a" /\ f \in v.gone)
           /\ Makes(f, v, w) /\ w.text = <<>>
        \/ Op(r).mode \in {"a", "r"} /\ f \in v.there /\ Still(v, w) /\ SameFile(v, w)
    BY <1>2 DEF LeadsFile, f
  <2> QED BY <2>1, <2>2, <2>3
<1>10. w.tree => dirs
  BY <1>3, <1>5
<1> QED BY <1>2, <1>3, <1>7, <1>8, <1>9, <1>10, OnwardWhen


LEMMA LonePut ==
  ASSUME NEW r \in Runners, NEW v, NEW w, Lone(r, v), dirs' = dirs,
         LeadsFile(Op(r), v, w), PutItem(r), ~Fault(r)
  PROVE  Onward(r, w)
<1>1. mounts # <<>> /\ Here \in Partitions /\ Place = Here
  BY LoneFree
<1>2. Op(r).do = "put" /\ Keeps /\ handle' = handle
  BY DEF PutItem, At
<1>3. /\ v.open /\ w.open /\ v.file \in v.there /\ Still(v, w) /\ w.file = v.file
      /\ (w.tree => v.tree) /\ w.text = Written(Op(r).offset, Op(r).what, v.text)
      /\ Len(v.text) \in Nat /\ (Op(r).offset = 99 \/ Op(r).offset <= Len(v.text))
  BY <1>2 DEF LeadsFile
<1>4. Fits(v, files[Here]) /\ (v.tree => dirs) /\ NamesInv
  BY <1>1 DEF Lone, Holds
<1>5. handle[r].part = Here /\ handle[r].name = v.file /\ handle[r].alive /\ handle[r] # NoFile
  BY <1>3 DEF Lone, Opened
<1>6. Content(r) = v.text /\ Usable(r)
  BY <1>3, <1>4, <1>5 DEF Content, Usable, Fits
<1>7. (IF Op(r).offset = 99 THEN Len(v.text) ELSE Op(r).offset) <= Len(v.text)
  BY <1>3
<1>8. /\ Done(r) /\ bad' = bad
      /\ files' = [files EXCEPT ![handle[r].part] = Keyed(@, handle[r].name, w.text)]
  BY <1>3, <1>6, <1>7 DEF PutItem, Written
<1>9. Fits(w, files[Here]')
  <2>1. PICK p, t, u : p = Here /\ t = files[Here] /\ u = Keyed(t, v.file, w.text)
    OBVIOUS
  <2>2. files' = [files EXCEPT ![p] = u]
    BY <1>5, <1>8, <2>1
  <2>3. files'[p] = u
    BY <1>1, <1>4, <2>1, <2>2 DEF NamesInv
  <2>4. DOMAIN u = DOMAIN t \cup {v.file} /\ u[v.file] = w.text
    <3>1. u = Keyed(t, v.file, w.text)
      BY <2>1
    <3> QED BY <3>1 DEF Keyed
  <2>5. Fits(w, u)
    BY <1>3, <1>4, <2>1, <2>4, FitsWrites
  <2>6. files[Here]' = files'[Here]
    BY <1>2 DEF Keeps, Here
  <2> QED BY <2>1, <2>3, <2>5, <2>6
<1>10. w.tree => dirs
  BY <1>3, <1>4
<1> QED BY <1>2, <1>3, <1>5, <1>8, <1>9, <1>10, OnwardWhen

\* A call that leaves the files alone.
LEMMA LoneReads ==
  ASSUME NEW r \in Runners, NEW v, NEW w, Lone(r, v), dirs' = dirs, Keeps, files' = files,
         Done(r), bad' = bad, Still(v, w), SameFile(v, w),
         (handle' = handle /\ (w.open <=> v.open)) \/ (handle'[r] = NoFile /\ ~w.open)
  PROVE  Onward(r, w)
<1>1. mounts # <<>> /\ Here \in Partitions /\ Place = Here
  BY LoneFree
<1>2. Fits(v, files[Here]) /\ (v.tree => dirs) /\ Opened(r, v)
  BY <1>1 DEF Lone, Holds
<1>3. Fits(w, files[Here]) /\ w.file = v.file /\ (w.tree => dirs)
  BY <1>2, FitsStill DEF SameFile
<1>4. files[Here]' = files[Here]
  BY DEF Keeps, Here
<1>5. w.open => /\ handle'[r].part = Here /\ handle'[r].name = w.file /\ handle'[r].alive
                /\ handle'[r] # NoFile
  BY <1>2, <1>3 DEF Opened
<1>6. ~w.open => handle'[r] = NoFile
  BY <1>2 DEF Opened
<1>7. Fits(w, files[Here]')
  BY <1>3, <1>4
<1> QED BY <1>3, <1>5, <1>6, <1>7, OnwardWhen

LEMMA LoneVerify ==
  ASSUME NEW r \in Runners, NEW v, NEW w, Lone(r, v), dirs' = dirs,
         LeadsFile(Op(r), v, w), VerifyFile(r), ~Fault(r)
  PROVE  Onward(r, w)
<1>1. mounts # <<>> /\ Here \in Partitions /\ Place = Here
  BY LoneFree
<1>2. Op(r).do = "verify" /\ Keeps /\ handle' = handle /\ files' = files
  BY DEF VerifyFile, At
<1>3. /\ v.open /\ w.open /\ v.file \in v.there /\ Still(v, w) /\ SameFile(v, w)
      /\ v.text = Op(r).want
  BY <1>2 DEF LeadsFile
<1>4. Fits(v, files[Here])
  BY <1>1 DEF Lone, Holds
<1>5. handle[r].part = Here /\ handle[r].name = v.file /\ handle[r].alive
  BY <1>3 DEF Lone, Opened
<1>6. Usable(r) /\ Content(r) = Op(r).want
  BY <1>3, <1>4, <1>5 DEF Content, Usable, Fits
<1>7. Done(r) /\ bad' = bad
  BY <1>6 DEF VerifyFile
<1> QED BY <1>2, <1>3, <1>7, LoneReads

LEMMA LoneClose ==
  ASSUME NEW r \in Runners, NEW v, NEW w, Lone(r, v), dirs' = dirs,
         LeadsFile(Op(r), v, w), CloseFile(r)
  PROVE  Onward(r, w)
<1>1. Op(r).do = "close" /\ Keeps /\ handle'[r] = NoFile /\ UNCHANGED <<files, bad>> /\ Done(r)
  BY HandleSet DEF CloseFile, At, Lone
<1>2. ~w.open /\ Still(v, w) /\ SameFile(v, w)
  BY <1>1 DEF LeadsFile
<1> QED BY <1>1, <1>2, LoneReads

LEMMA LoneFileCalls ==
  ASSUME NEW r \in Runners, NEW v, NEW w, Lone(r, v), dirs' = dirs,
         LeadsFile(Op(r), v, w), RunStep(r), ~Fault(r)
  PROVE  Onward(r, w)
<1>1. Op(r).do \in {"open", "put", "verify", "close"}
  BY DEF LeadsFile
<1>2. OpenFile(r) \/ PutItem(r) \/ VerifyFile(r) \/ CloseFile(r)
  BY <1>1 DEF RunStep, At, DetectMount, DropDetectFile, MountConfigPartition,
    MountGenericPartition, ReleaseMount, CleanPath, RenameFile, RemoveFile, DiscardFile, Look,
    MakeDirectory, RemoveDirectory, TryMissing, JudgeCheck
<1> QED BY <1>2, LoneOpen, LonePut, LoneVerify, LoneClose

-----------------------------------------------------------------------------
(* The calls of a lone run about files that are not open.                  *)

\* In these nothing of anybody's is open.
LEMMA LoneShut ==
  ASSUME NEW r \in Runners, NEW v, Lone(r, v), ~v.open
  PROVE  /\ handle = [s \in Runners |-> NoFile]
         /\ \A f : Stale(Here, f) = handle
<1>1. \A s \in Runners : handle[s] = NoFile
  BY AloneClosed DEF Lone, Opened
<1>2. handle = [s \in Runners |-> handle[s]]
  BY DEF Lone, HandleInv
<1>3. handle = [s \in Runners |-> NoFile]
  BY <1>1, <1>2
<1>4. ASSUME NEW f PROVE Stale(Here, f) = handle
  <2>1. NoFile.part # Here
    BY LoneFree DEF NoFile, Partitions
  <2>2. \A s \in Runners : handle[s].part # Here
    BY <1>1, <2>1
  <2>3. Stale(Here, f) = [s \in Runners |-> handle[s]]
    BY <2>2 DEF Stale
  <2> QED BY <1>2, <2>3
<1> QED BY <1>3, <1>4

\* A call about names: nothing is opened, and the files are what w says.
LEMMA LoneNames ==
  ASSUME NEW r \in Runners, NEW v, NEW w, Lone(r, v), dirs' = dirs, Keeps,
         Done(r), bad' = bad, handle' = handle, ~v.open, ~w.open, w.tree => dirs,
         Fits(w, files'[Here])
  PROVE  Onward(r, w)
<1>1. files[Here]' = files'[Here]
  BY DEF Keeps, Here
<1>2. handle'[r] = NoFile
  BY LoneShut
<1>3. Fits(w, files[Here]')
  BY <1>1
<1> QED BY <1>2, <1>3, OnwardWhen

\* A file is gone, or was not there.
LEMMA LoneDrops ==
  ASSUME NEW r \in Runners, NEW v, NEW w, NEW f, Lone(r, v), dirs' = dirs, Keeps,
         Done(r), bad' = bad, handle' = handle, ~v.open, ~w.open,
         Drops(f, v, w), SameFile(v, w),
         files' = IF Exists(f) THEN Without(f) ELSE files
  PROVE  Onward(r, w)
<1>1. /\ Here \in Partitions /\ Place = Here
      /\ \A g : Exists(g) <=> g \in DOMAIN files[Here]
  BY LoneFree
<1>2. Fits(v, files[Here]) /\ (v.tree => dirs) /\ NamesInv
  BY <1>1 DEF Lone, Holds
<1>3. Fits(w, files'[Here])
  <2>1. CASE Exists(f)
    <3>1. files' = Without(f)
      BY <2>1
    <3>2. /\ DOMAIN files'[Here] = DOMAIN files[Here] \ {f}
          /\ \A g \in DOMAIN files[Here] \ {f} : files'[Here][g] = files[Here][g]
      BY <1>1, <1>2, <3>1, WithoutIs
    <3>3. PICK t, u : t = files[Here] /\ u = files'[Here]
      OBVIOUS
    <3>4. Drops(f, v, w) /\ SameFile(v, w)
      OBVIOUS
    <3>5. Fits(w, u)
      BY <1>2, <3>2, <3>3, <3>4, FitsDrops
    <3> QED BY <3>3, <3>5
  <2>2. CASE ~Exists(f)
    <3>1. files' = files /\ f \notin DOMAIN files[Here]
      BY <1>1, <2>2
    <3>2. Drops(f, v, w) /\ SameFile(v, w)
      OBVIOUS
    <3> QED BY <1>2, <3>1, <3>2, FitsGone
  <2> QED BY <2>1, <2>2
<1>4. w.tree => dirs
  BY <1>2 DEF SameFile
<1> QED BY <1>3, <1>4, LoneNames

\* What is in a directory is known to be gone before it is removed.
LEMMA BareEmpty ==
  ASSUME NEW r \in Runners, NEW v, NEW f, Lone(r, v), Bare(f, v)
  PROVE  Inside(f) = {}
<1>1. Place = Here
  BY LoneFree
<1>2. v.gone \cap DOMAIN files[Here] = {}
  BY <1>1 DEF Lone, Holds, Fits
<1>3. ASSUME NEW g \in DOMAIN files[Here], <<f, g>> \in {<<"dir", "nested">>, <<"nested", "txt">>}
      PROVE  FALSE
  <2>1. (f = "dir" /\ g = "nested") \/ (f = "nested" /\ g = "txt")
    BY <1>3
  <2>2. g \in v.gone
    BY <2>1 DEF Bare
  <2> QED BY <1>2, <2>2
<1> QED BY <1>3 DEF Inside

LEMMA LoneClean ==
  ASSUME NEW r \in Runners, NEW v, NEW w, NEW G, Lone(r, v), dirs' = dirs,
         LeadsName(Op(r), v, w, G), CleanPath(r), ~Fault(r)
  PROVE  Onward(r, w)
<1> DEFINE f == Op(r).name
<1>1. Op(r).do = "clean" /\ Keeps /\ Done(r) /\ bad' = bad
  BY DEF CleanPath, At
<1>2. ~v.open /\ ~w.open /\ Bare(f, v) /\ Drops(f, v, w) /\ SameFile(v, w)
  BY <1>1 DEF LeadsName
<1>3. Inside(f) = {}
  BY <1>2, BareEmpty
<1>4. Stale(Here, f) = handle
  BY <1>2, LoneShut
<1>5. \/ Exists(f) /\ files' = Without(f) /\ handle' = Stale(Here, f)
      \/ ~Exists(f) /\ UNCHANGED <<files, handle>>
  BY <1>3 DEF CleanPath
<1> HIDE DEF f
<1>6. handle' = handle
  BY <1>4, <1>5
<1>7. files' = IF Exists(f) THEN Without(f) ELSE files
  BY <1>5
<1> QED BY <1>1, <1>2, <1>6, <1>7, LoneDrops

LEMMA LoneRemove ==
  ASSUME NEW r \in Runners, NEW v, NEW w, NEW G, Lone(r, v), dirs' = dirs,
         LeadsName(Op(r), v, w, G), RemoveFile(r), ~Fault(r)
  PROVE  Onward(r, w)
<1> DEFINE f == Op(r).name
<1>1. Op(r).do = "remove" /\ Keeps
  BY DEF RemoveFile, At
<1>2. ~v.open /\ ~w.open /\ f \in v.there /\ Drops(f, v, w) /\ SameFile(v, w)
  BY <1>1 DEF LeadsName
<1>3. Exists(f)
  BY <1>2, LoneFree DEF Lone, Holds, Fits
<1>4. /\ Done(r) /\ bad' = bad /\ files' = Without(f) /\ handle' = Stale(Here, f)
  BY <1>3 DEF RemoveFile
<1> HIDE DEF f
<1>5. handle' = handle
  BY <1>2, <1>4, LoneShut
<1>6. files' = IF Exists(f) THEN Without(f) ELSE files
  BY <1>3, <1>4
<1> QED BY <1>1, <1>2, <1>4, <1>5, <1>6, LoneDrops

LEMMA LoneDiscard ==
  ASSUME NEW r \in Runners, NEW v, NEW w, NEW G, Lone(r, v), dirs' = dirs,
         LeadsName(Op(r), v, w, G), DiscardFile(r), ~Fault(r)
  PROVE  Onward(r, w)
<1> DEFINE f == Op(r).name
<1>1. Op(r).do = "discard" /\ Keeps /\ Done(r) /\ handle' = handle
  BY DEF DiscardFile, At
<1>2. ~v.open /\ ~w.open /\ Drops(f, v, w) /\ SameFile(v, w)
  BY <1>1 DEF LeadsName
<1>3. bad' = bad /\ files' = IF Exists(f) THEN Without(f) ELSE files
  BY DEF DiscardFile
<1> HIDE DEF f
<1> QED BY <1>1, <1>2, <1>3, LoneDrops

LEMMA LoneRename ==
  ASSUME NEW r \in Runners, NEW v, NEW w, NEW G, Lone(r, v), dirs' = dirs,
         LeadsName(Op(r), v, w, G), RenameFile(r), ~Fault(r)
  PROVE  Onward(r, w)
<1> DEFINE f == Op(r).name
           g == Op(r).to
<1>1. Op(r).do = "rename" /\ Keeps
  BY DEF RenameFile, At
<1>2. /\ ~v.open /\ ~w.open /\ f \in v.there /\ g \in v.gone /\ f = v.file
      /\ f # g /\ w.file = g /\ w.text = v.text /\ (w.tree => v.tree)
      /\ w.gone \subseteq (v.gone \cup {f}) \ {g}
      /\ w.there \subseteq (v.there \cup {g}) \ {f}
  BY <1>1 DEF LeadsName
<1>3. /\ Here \in Partitions /\ Place = Here
      /\ \A n : Exists(n) <=> n \in DOMAIN files[Here]
  BY LoneFree
<1>4. Fits(v, files[Here]) /\ (v.tree => dirs) /\ NamesInv
  BY <1>3 DEF Lone, Holds
<1>5. Exists(f) /\ ~Exists(g)
  BY <1>2, <1>3, <1>4 DEF Fits
<1>6. /\ Done(r) /\ bad' = bad
      /\ files' = [files EXCEPT ![Here] = Keyed([n \in DOMAIN @ \ {f} |-> @[n]], g, @[f])]
      /\ handle' = [s \in Runners |-> IF handle[s].name = f
                                      THEN [handle[s] EXCEPT !.name = g] ELSE handle[s]]
  BY <1>5 DEF RenameFile
<1>7. f # ""
  BY <1>1, DueCall DEF Sound, Lone
<1> HIDE DEF f, g
<1>8. handle' = handle
  <2>1. handle = [s \in Runners |-> NoFile]
    BY <1>2, LoneShut
  <2>2. NoFile.name # f
    BY <1>7 DEF NoFile
  <2>3. \A s \in Runners : handle[s].name # f
    BY <2>1, <2>2
  <2>4. handle' = [s \in Runners |-> handle[s]]
    BY <1>6, <2>3
  <2> QED BY <2>1, <2>4
<1>9. Fits(w, files'[Here])
  <2>1. /\ DOMAIN files'[Here] = (DOMAIN files[Here] \ {f}) \cup {g}
        /\ files'[Here][g] = files[Here][f]
    BY <1>3, <1>4, <1>6, RenamedIs
  <2>2. PICK t, u : t = files[Here] /\ u = files'[Here]
    OBVIOUS
  <2>3. Fits(w, u)
    BY <1>2, <1>4, <2>1, <2>2, FitsRename
  <2> QED BY <2>2, <2>3
<1> QED BY <1>1, <1>2, <1>4, <1>6, <1>8, <1>9, LoneNames

LEMMA LoneLook ==
  ASSUME NEW r \in Runners, NEW v, NEW w, NEW G, Lone(r, v), dirs' = dirs,
         LeadsName(Op(r), v, w, G), Look(r)
  PROVE  Onward(r, w)
<1> DEFINE f == Op(r).name
<1>1. Op(r).do = "is" /\ Keeps /\ UNCHANGED <<files, handle>>
  BY DEF Look, At
<1>2. /\ ~v.open /\ ~w.open /\ Still(v, w) /\ SameFile(v, w)
      /\ \/ Op(r).there = TRUE /\ f \in v.there
         \/ Op(r).there = FALSE /\ f \in v.gone
  BY <1>1 DEF LeadsName
<1>3. Place = Here /\ \A n : Exists(n) <=> n \in DOMAIN files[Here]
  BY LoneFree
<1>4. Fits(v, files[Here])
  BY <1>3 DEF Lone, Holds
<1>5. Exists(f) = Op(r).there
  <2>1. CASE Op(r).there = TRUE /\ f \in v.there
    <3>1. Exists(f)
      BY <1>3, <1>4, <2>1 DEF Fits
    <3>2. Exists(f) = TRUE
      BY <3>1, Zenon DEF Exists
    <3> QED BY <2>1, <3>2, Zenon
  <2>2. CASE Op(r).there = FALSE /\ f \in v.gone
    <3>1. ~Exists(f)
      BY <1>3, <1>4, <2>2 DEF Fits
    <3>2. Exists(f) = FALSE
      BY <3>1, Zenon DEF Exists
    <3> QED BY <2>2, <3>2, Zenon
  <2> QED BY <1>2, <2>1, <2>2
<1>6. Done(r) /\ bad' = bad
  BY <1>5, Zenon DEF Look
<1> QED BY <1>1, <1>2, <1>6, LoneReads

LEMMA LoneRmdir ==
  ASSUME NEW r \in Runners, NEW v, NEW w, NEW G, Lone(r, v), dirs' = dirs,
         LeadsName(Op(r), v, w, G), RemoveDirectory(r), ~Fault(r)
  PROVE  Onward(r, w)
<1> DEFINE f == Op(r).name
<1>1. Op(r).do = "rmdir" /\ Keeps /\ handle' = handle
  BY DEF RemoveDirectory, At
<1>2. ~v.open /\ ~w.open
  BY DEF LeadsName
<1>3. Place = Here /\ \A n : Exists(n) <=> n \in DOMAIN files[Here]
  BY LoneFree
<1>4. Fits(v, files[Here])
  BY <1>3 DEF Lone, Holds
<1>5. CASE /\ Op(r).want = TRUE /\ f \in v.there /\ Bare(f, v)
           /\ Drops(f, v, w) /\ SameFile(v, w)
  <2>1. Exists(f) /\ Inside(f) = {}
    BY <1>3, <1>4, <1>5, BareEmpty DEF Fits
  <2>2. files' = Without(f) /\ Done(r) /\ bad' = bad
    BY <1>5, <2>1 DEF RemoveDirectory
  <2>3. files' = IF Exists(f) THEN Without(f) ELSE files
    BY <2>1, <2>2
  <2> HIDE DEF f
  <2> QED BY <1>1, <1>2, <1>5, <2>2, <2>3, LoneDrops
<1>6. CASE /\ Op(r).want = FALSE /\ f = "nested" /\ "txt" \in v.there
           /\ Still(v, w) /\ SameFile(v, w)
  <2>1. "txt" \in Inside(f)
    BY <1>4, <1>6 DEF Fits, Inside
  <2>2. Inside(f) # {}
    BY <2>1
  <2>3. files' = files /\ Done(r) /\ bad' = bad
    BY <1>6, <2>2 DEF RemoveDirectory
  <2> QED BY <1>1, <1>2, <1>6, <2>3, LoneReads
<1> QED BY <1>1, <1>5, <1>6 DEF LeadsName

\* A file system without directories ends the check well, if nothing is left then.
LEMMA LoneMkdir ==
  ASSUME NEW r \in Runners, NEW v, NEW w, NEW G, Lone(r, v), dirs' = dirs,
         LeadsName(Op(r), v, w, G), MakeDirectory(r), ~Fault(r)
  PROVE  \/ Onward(r, w)
         \/ /\ todo' = [todo EXCEPT ![r] = <<Release>>] /\ G \subseteq v.gone
            /\ ~v.open /\ Keeps /\ UNCHANGED <<bad, files, handle>>
<1> DEFINE f == Op(r).name
<1>1. Op(r).do = "mkdir" /\ Keeps /\ handle' = handle
  BY DEF MakeDirectory, At
<1>2. /\ ~v.open /\ ~w.open /\ f \in v.gone /\ f # v.file
      /\ (Op(r).skip /\ G \subseteq v.gone) \/ (~Op(r).skip /\ v.tree)
      /\ Makes(f, v, w) /\ w.file = v.file /\ w.text = v.text
  BY <1>1 DEF LeadsName
<1>3. /\ mounts # <<>> /\ Here \in Partitions /\ Place = Here
      /\ \A n : Exists(n) <=> n \in DOMAIN files[Here]
  BY LoneFree
<1>4. Fits(v, files[Here]) /\ (v.tree => dirs) /\ NamesInv
  BY <1>3 DEF Lone, Holds
<1>5. ~Exists(f)
  BY <1>2, <1>3, <1>4 DEF Fits
<1>6. CASE ~dirs
  BY <1>1, <1>2, <1>4, <1>6 DEF MakeDirectory
<1>7. CASE dirs
  <2>1. Done(r) /\ bad' = bad /\ files' = With(f, DIR)
    BY <1>3, <1>5, <1>7 DEF MakeDirectory
  <2> HIDE DEF f
  <2>2. /\ DOMAIN files'[Here] = DOMAIN files[Here] \cup {f}
        /\ \A g \in DOMAIN files[Here] \ {f} : files'[Here][g] = files[Here][g]
    BY <1>3, <1>4, <2>1, WithIs
  <2>3. PICK t, u : t = files[Here] /\ u = files'[Here]
    OBVIOUS
  <2>4. Fits(w, u)
    <3>1. w.file = v.file /\ w.text = v.text /\ w.file # f
      BY <1>2
    <3> QED BY <1>2, <1>4, <2>2, <2>3, <3>1, FitsMakes
  <2>5. Fits(w, files'[Here])
    BY <2>3, <2>4
  <2> QED BY <1>1, <1>2, <1>7, <2>1, <2>5, LoneNames
<1> QED BY <1>6, <1>7

LEMMA LoneNothing ==
  ASSUME NEW r \in Runners, NEW v, NEW w, NEW G, Lone(r, v), dirs' = dirs,
         LeadsName(Op(r), v, w, G), TryMissing(r) \/ JudgeCheck(r)
  PROVE  Onward(r, w)
<1>1. /\ Op(r).do \in {"missing", "judge"} /\ Keeps /\ UNCHANGED <<files, handle>>
  BY DEF TryMissing, JudgeCheck, At
<1>2. ~bad[r]
  BY DEF Lone
<1>3. Done(r) /\ bad' = bad
  BY <1>2 DEF TryMissing, JudgeCheck
<1>4. ~v.open /\ ~w.open /\ Still(v, w) /\ SameFile(v, w)
  BY <1>1 DEF LeadsName
<1> QED BY <1>1, <1>3, <1>4, LoneReads

\* A call that succeeds where v is known, of a run nobody disturbs.
LEMMA LoneCall ==
  ASSUME NEW r \in Runners, NEW v, NEW w, NEW G, Lone(r, v), dirs' = dirs,
         Leads(Op(r), v, w, G), RunStep(r), ~Fault(r)
  PROVE  \/ Onward(r, w)
         \/ /\ todo' = [todo EXCEPT ![r] = <<Release>>] /\ G \subseteq v.gone
            /\ ~v.open /\ Keeps /\ UNCHANGED <<bad, files, handle>>
<1>1. CASE LeadsFile(Op(r), v, w)
  BY <1>1, LoneFileCalls
<1>2. CASE LeadsName(Op(r), v, w, G)
  <2>1. Op(r).do \in {"clean", "discard", "remove", "rename", "is", "mkdir", "rmdir", "missing",
                      "judge"}
    BY <1>2 DEF LeadsName
  <2>2. \/ CleanPath(r) \/ DiscardFile(r) \/ RemoveFile(r) \/ RenameFile(r) \/ Look(r)
        \/ MakeDirectory(r) \/ RemoveDirectory(r) \/ TryMissing(r) \/ JudgeCheck(r)
    BY <2>1 DEF RunStep, At, DetectMount, DropDetectFile, MountConfigPartition,
      MountGenericPartition, ReleaseMount, OpenFile, PutItem, VerifyFile, CloseFile
  <2> QED BY <1>2, <2>2, LoneClean, LoneDiscard, LoneRemove, LoneRename, LoneLook, LoneMkdir,
        LoneRmdir, LoneNothing
<1> QED BY <1>1, <1>2 DEF Leads

-----------------------------------------------------------------------------
(* Where a run is that nobody disturbed.                                   *)

\* The mount detection finds room, or the run mounts the partition itself.
Ready == Roomy \/ (mounts = <<>> /\ leaked["config"] < 8)
Own(r) == mine[r] = "" \/ (mine[r] = "config" /\ Len(mounts) = 1 /\ mounts[1].part = "config")

\* A check is at its first call: what the checks before it remove is gone.
Begun(r) ==
  /\ Tail(todo[r]) = Tail(Checks[next[r] - 1])
  /\ Left(next[r] - 2) \cap DOMAIN files[Place] = {}
  /\ mine[r] = ""
Mounting(r) ==
  \/ At(r, "detect") /\ (Ready \/ next[r] = 2)
  \/ At(r, "undetect") /\ Roomy
  \/ At(r, "config") /\ ((mounts = <<>> /\ Ready) \/ (~Ready /\ next[r] = 2))
  \/ At(r, "generic") /\ ~Ready /\ next[r] = 2 /\ mounts # <<>>

\* It runs: what it has left succeeds.
Underway(r) ==
  /\ Roomy /\ Own(r)
  /\ \E v : Runnable(todo[r], v, Left(next[r] - 1)) /\ Holds(v) /\ Opened(r, v)

\* Its first file cannot be opened: the deleted tasks hold all the handles there are.
Doomed(r) == todo[r] = Tail(MountCheck) /\ next[r] = 2 /\ ~Ready /\ handle[r] = NoFile

Station(r) == (Begun(r) /\ Mounting(r)) \/ Underway(r) \/ Doomed(r)

Good(r) ==
  /\ HandleInv /\ MountInv /\ NamesInv
  /\ Active(r) /\ Alone(r) /\ next[r] \in 2..7 /\ ~bad[r]

LEMMA SameRoom ==
  ASSUME mounts' = mounts, leaked' = leaked
  PROVE  /\ Here' = Here /\ Place' = Place /\ (Roomy' <=> Roomy) /\ (Ready' <=> Ready)
BY DEF Here, Place, Roomy, Ready

LEMMA GoodShut ==
  ASSUME NEW r \in Runners, Good(r), handle[r] = NoFile
  PROVE  handle = [s \in Runners |-> NoFile] /\ (Free <=> Roomy)
<1>1. \A s \in Runners : handle[s] = NoFile
  BY AloneClosed DEF Good
<1>2. handle = [s \in Runners |-> NoFile]
  <2>1. handle = [s \in Runners |-> handle[s]]
    BY DEF Good, HandleInv
  <2> QED BY <1>1, <2>1
<1> QED BY <1>1, <1>2, FreeIsRoomy DEF Good

LEMMA InsteadAt ==
  ASSUME HandleInv, NEW r \in Runners, Active(r), NEW c, Instead(r, c)
  PROVE  Active(r)' /\ Op(r)' = c /\ Tail(todo'[r]) = Tail(todo[r])
<1>1. Script(todo[r]) /\ todo[r] # <<>>
  BY DueCall DEF Tidy
<1>2. PICK u : u = <<c>> \o Tail(todo[r])
  OBVIOUS
<1>3. u # <<>> /\ Head(u) = c /\ Tail(u) = Tail(todo[r])
  BY <1>1, <1>2, InsteadIs
<1>4. todo'[r] = u
  BY <1>2, TodoSet DEF Instead
<1> QED BY <1>3, <1>4 DEF Active, Op

LEMMA DoneAt ==
  ASSUME HandleInv, NEW r \in Runners, Done(r)
  PROVE  todo'[r] = Tail(todo[r])
BY TodoSet DEF Done

\* Nothing of the tests but the probe of the detection itself is made before a check runs.
LEMMA ProbeApart == ASSUME NEW k \in 0..5 PROVE "tmp" \notin Left(k)
BY DEF Left

LEMMA FitsFresh ==
  ASSUME NEW k, NEW t, Left(k) \cap DOMAIN t = {}
  PROVE  Fits(Fresh(k), t) /\ ~Fresh(k).tree /\ ~Fresh(k).open
<1>1. PICK v : v = Fresh(k)
  OBVIOUS
<1>2. v.gone = Left(k) /\ v.there = {} /\ v.tree = FALSE /\ v.open = FALSE
  BY <1>1 DEF Fresh, View
<1>3. Fits(v, t)
  BY <1>2 DEF Fits
<1> QED BY <1>1, <1>2, <1>3

\* A check starts to run once /config is there.
LEMMA GetsUnderway ==
  ASSUME NEW r \in Runners, Good(r), Begun(r), Done(r), next' = next, dirs' = dirs,
         Left(next[r] - 2) \cap DOMAIN files'[Place'] = {}, handle'[r] = NoFile,
         Roomy', Own(r)'
  PROVE  Underway(r)'
<1>1. PICK k : k = next[r] - 1
  OBVIOUS
<1>2. k \in 1..6 /\ next[r] - 1 = k /\ next[r] - 2 = k - 1
  BY <1>1 DEF Good
<1>3. todo'[r] = Tail(Checks[k])
  BY <1>2, DoneAt DEF Good, Begun
<1>4. PICK v : v = Fresh(k - 1)
  OBVIOUS
<1>5. Runnable(todo'[r], v, Left(k))
  BY <1>2, <1>3, <1>4, ChecksRun, Zenon
<1>6. Fits(v, files'[Place']) /\ ~v.tree /\ ~v.open
  BY <1>2, <1>4, FitsFresh
<1>7. Holds(v)' /\ Opened(r, v)'
  BY <1>6 DEF Holds, Opened
<1>8. Left(next[r] - 1)' = Left(k)
  BY <1>2
<1>9. Runnable(todo'[r], v, Left(next'[r] - 1))
  BY <1>2, <1>5
<1> QED BY <1>7, <1>9, Zenon DEF Underway

LEMMA DetectStays ==
  ASSUME NEW r \in Runners, Good(r), Begun(r), Mounting(r), DetectMount(r), ~Fault(r)
  PROVE  Begun(r)' /\ Mounting(r)'
<1>1. At(r, "detect") /\ UNCHANGED <<mounts, leaked, mine, next>>
  BY DEF DetectMount, Rest
<1>2. Op(r).do = "detect" /\ (Ready \/ next[r] = 2)
  BY <1>1 DEF Mounting, At
<1>3. handle[r] = NoFile
  BY <1>2, DueCall DEF Good, Needy
<1>4. Free <=> Roomy
  BY <1>3, GoodShut
<1>5. /\ Here' = Here /\ Place' = Place /\ (Roomy' <=> Roomy) /\ (Ready' <=> Ready)
  BY <1>1, SameRoom
<1>6. ASSUME NEW c, Instead(r, c), c.do \in {"undetect", "config"},
             Left(next[r] - 2) \cap DOMAIN files'[Place] = {}
      PROVE  Begun(r)' /\ (At(r, c.do))'
  <2>1. Active(r)' /\ Op(r)' = c /\ Tail(todo'[r]) = Tail(todo[r])
    BY <1>6, InsteadAt DEF Good
  <2> QED BY <1>1, <1>5, <1>6, <2>1 DEF Begun, At
<1>7. CASE Roomy
  <2>1. /\ Instead(r, Undetect)
        /\ files' = IF Exists("tmp") THEN files ELSE With("tmp", <<>>)
    BY <1>4, <1>7 DEF DetectMount
  <2>2. mounts # <<>> /\ Here \in Partitions /\ Place = Here
    BY <1>7, HereIsOne DEF Roomy, Place, Good, MountInv
  <2>3. "tmp" \notin Left(next[r] - 2)
    <3>1. next[r] - 2 \in 0..5
      BY DEF Good
    <3> QED BY <3>1, ProbeApart
  <2>4. DOMAIN files'[Here] \subseteq DOMAIN files[Here] \cup {"tmp"}
    <3>1. CASE files' = files
      BY <3>1
    <3>2. CASE files' = With("tmp", <<>>)
      BY <2>2, <3>2, WithIs DEF Good
    <3> QED BY <2>1, <3>1, <3>2
  <2>5. Left(next[r] - 2) \cap DOMAIN files'[Place] = {}
    BY <2>2, <2>3, <2>4 DEF Begun
  <2>6. Undetect.do = "undetect"
    BY DEF Undetect
  <2>7. Begun(r)' /\ (At(r, Undetect.do))'
    BY <1>6, <2>1, <2>5, <2>6
  <2> QED BY <1>5, <1>7, <2>6, <2>7 DEF Mounting
<1>8. CASE ~Roomy
  <2>1. Instead(r, MountConfig) /\ files' = files
    BY <1>4, <1>8 DEF DetectMount
  <2>2. MountConfig.do = "config"
    BY DEF MountConfig
  <2>3. Begun(r)' /\ (At(r, MountConfig.do))'
    BY <1>6, <2>1, <2>2 DEF Begun
  <2>4. (mounts = <<>> /\ Ready) \/ (~Ready /\ next[r] = 2)
    BY <1>2, <1>8 DEF Ready
  <2> QED BY <1>1, <1>5, <2>2, <2>3, <2>4 DEF Mounting
<1> QED BY <1>7, <1>8

LEMMA UndetectRuns ==
  ASSUME NEW r \in Runners, Good(r), Begun(r), Mounting(r), DropDetectFile(r), dirs' = dirs
  PROVE  Underway(r)'
<1>1. At(r, "undetect") /\ Done(r) /\ UNCHANGED <<mounts, leaked, mine, next>>
  BY DEF DropDetectFile, Rest
<1>2. Roomy
  BY <1>1 DEF Mounting, At
<1>3. /\ Here' = Here /\ Place' = Place /\ (Roomy' <=> Roomy)
  BY <1>1, SameRoom
<1>4. mounts # <<>> /\ Here \in Partitions /\ Place = Here
  BY <1>2, HereIsOne DEF Roomy, Place, Good, MountInv
<1>5. DOMAIN files'[Here] \subseteq DOMAIN files[Here]
  <2>1. CASE files' = files
    BY <2>1
  <2>2. CASE files' = Without("tmp")
    BY <1>4, <2>2, WithoutIs DEF Good
  <2> QED BY <2>1, <2>2 DEF DropDetectFile
<1>6. Left(next[r] - 2) \cap DOMAIN files'[Place'] = {}
  BY <1>3, <1>4, <1>5 DEF Begun
<1>7. handle'[r] = NoFile
  <2>1. PICK h : handle' = [h EXCEPT ![r] = NoFile] /\ DOMAIN h = Runners
    <3>1. DOMAIN Stale(Here, "tmp") = Runners /\ DOMAIN handle = Runners
      BY DEF Stale, Good, HandleInv
    <3> QED BY <3>1 DEF DropDetectFile
  <2> QED BY <2>1
<1>8. Own(r)'
  BY <1>1 DEF Own, Begun
<1> QED BY <1>1, <1>2, <1>3, <1>6, <1>7, <1>8, GetsUnderway

\* A registration comes last: the one that serves stays the one that serves.
LEMMA RegisterFirst ==
  ASSUME mounts \in Seq(Registrations), NEW p \in Partitions, NEW label \in {"config", "generic"},
         NEW max \in {4, 8}, mounts' = Register(p, label, max)
  PROVE  /\ mounts' # <<>>
         /\ mounts = <<>> => Len(mounts') = 1 /\ mounts'[1].part = p /\ mounts'[1].max = max
         /\ mounts # <<>> => mounts'[1] = mounts[1]
<1>1. PICK m : m = [part |-> p, label |-> label, max |-> max]
  OBVIOUS
<1>2. m.part = p /\ m.max = max /\ m \in Registrations
  BY <1>1 DEF Registrations
<1>3. mounts' = Append(mounts, m)
  BY <1>1 DEF Register
<1> QED BY <1>2, <1>3

\* Where the run itself mounts, or a mount is added to those there are.
LEMMA AddedMount ==
  ASSUME mounts \in Seq(Registrations), NEW p \in Partitions, NEW label \in {"config", "generic"},
         mounts' = Register(p, label, 8), leaked' = leaked, ~Ready,
         p = "config" \/ mounts # <<>>
  PROVE  ~Ready'
<1>1. /\ mounts' # <<>>
      /\ mounts = <<>> => Len(mounts') = 1 /\ mounts'[1].part = p /\ mounts'[1].max = 8
      /\ mounts # <<>> => mounts'[1] = mounts[1]
  <2>1. 8 \in {4, 8}
    OBVIOUS
  <2> QED BY <2>1, RegisterFirst
<1>2. CASE mounts = <<>>
  <2>1. Here' = "config" /\ mounts'[1].max = 8
    BY <1>1, <1>2 DEF Here
  <2>2. ~(leaked["config"] < 8)
    BY <1>2 DEF Ready
  <2>3. ~Roomy'
    BY <2>1, <2>2 DEF Roomy
  <2> QED BY <1>1, <2>3 DEF Ready
<1>3. CASE mounts # <<>>
  <2>1. Here' = Here /\ mounts'[1] = mounts[1]
    BY <1>1, <1>3 DEF Here
  <2>2. ~Roomy'
    BY <1>3, <2>1 DEF Roomy, Ready
  <2> QED BY <1>1, <2>2 DEF Ready
<1> QED BY <1>2, <1>3

LEMMA ConfigMoves ==
  ASSUME NEW r \in Runners, Good(r), Begun(r), Mounting(r), MountConfigPartition(r), ~Fault(r),
         dirs' = dirs
  PROVE  Station(r)'
<1>0. Op(r).do = "config" /\ At(r, "config") /\ UNCHANGED <<files, handle, leaked, next>>
  BY DEF MountConfigPartition, At, Rest
<1>1. (mounts = <<>> /\ Ready) \/ (~Ready /\ next[r] = 2)
  BY <1>0 DEF Mounting, At
<1>2. handle[r] = NoFile
  BY <1>0, DueCall DEF Good, Needy
<1>3. "config" \in Partitions /\ "config" \in {"config", "generic"} /\ 8 \in {4, 8}
  BY DEF Partitions
<1>4. mounts \in Seq(Registrations)
  BY DEF Good, MountInv
<1>5. CASE Done(r) /\ mounts' = Register("config", "config", 8)
           /\ mine' = [mine EXCEPT ![r] = "config"]
  <2>1. CASE mounts = <<>> /\ Ready
    <3>1. mounts' # <<>> /\ Len(mounts') = 1 /\ mounts'[1].part = "config" /\ mounts'[1].max = 8
      BY <1>3, <1>4, <1>5, <2>1, RegisterFirst
    <3>2. leaked["config"] < 8
      BY <2>1 DEF Ready, Roomy
    <3>3. Here' = "config" /\ Place' = "config" /\ Place = "config"
      BY <2>1, <3>1 DEF Here, Place
    <3>4. Roomy'
      BY <1>0, <3>1, <3>2, <3>3 DEF Roomy
    <3>5. Own(r)'
      <4>1. mine'[r] = "config"
        BY <1>5 DEF Good, MountInv
      <4> QED BY <3>1, <4>1 DEF Own
    <3>6. Left(next[r] - 2) \cap DOMAIN files'[Place'] = {}
      BY <1>0, <3>3 DEF Begun
    <3>7. Underway(r)'
      BY <1>0, <1>2, <1>5, <3>4, <3>5, <3>6, GetsUnderway
    <3> QED BY <3>7 DEF Station
  <2>2. CASE ~Ready /\ next[r] = 2
    <3>1. ~Ready'
      BY <1>0, <1>3, <1>4, <1>5, <2>2, AddedMount
    <3>2. todo'[r] = Tail(MountCheck)
      <4>1. todo'[r] = Tail(Checks[next[r] - 1])
        BY <1>5, DoneAt DEF Good, Begun
      <4>2. next[r] - 1 = 1 /\ Checks[1] = MountCheck
        BY <2>2 DEF Checks
      <4> QED BY <4>1, <4>2
    <3> QED BY <1>0, <1>2, <2>2, <3>1, <3>2 DEF Doomed, Station
  <2> QED BY <1>1, <2>1, <2>2
<1>6. CASE Mounted("config") /\ Instead(r, MountGeneric) /\ UNCHANGED <<mounts, mine>>
  <2>1. mounts # <<>>
    BY <1>6 DEF Mounted
  <2>2. Active(r)' /\ Op(r)' = MountGeneric /\ Tail(todo'[r]) = Tail(todo[r])
    BY <1>6, InsteadAt DEF Good
  <2>3. /\ Place' = Place /\ (Ready' <=> Ready)
    BY <1>0, <1>6, SameRoom
  <2>4. Begun(r)'
    BY <1>0, <1>6, <2>2, <2>3 DEF Begun
  <2>5. (At(r, "generic"))'
    BY <2>2 DEF At, MountGeneric
  <2> QED BY <1>0, <1>1, <1>6, <2>1, <2>3, <2>4, <2>5 DEF Mounting, Station
<1> QED BY <1>5, <1>6 DEF MountConfigPartition

LEMMA GenericMoves ==
  ASSUME NEW r \in Runners, Good(r), Begun(r), Mounting(r), MountGenericPartition(r), ~Fault(r)
  PROVE  Station(r)' /\ bad' = bad
<1>0. Op(r).do = "generic" /\ At(r, "generic") /\ UNCHANGED <<files, handle, leaked, next>>
  BY DEF MountGenericPartition, At, Rest
<1>1. ~Ready /\ next[r] = 2 /\ mounts # <<>>
  BY <1>0 DEF Mounting, At
<1>2. handle[r] = NoFile
  BY <1>0, DueCall DEF Good, Needy
<1>3. /\ Done(r) /\ bad' = bad
      /\ mounts' = mounts \/ mounts' = Register("storage", "generic", 8)
  BY DEF MountGenericPartition
<1>4. ~Ready'
  <2>1. CASE mounts' = mounts
    BY <1>0, <1>1, <2>1, SameRoom
  <2>2. CASE mounts' = Register("storage", "generic", 8)
    <3>1. "storage" \in Partitions /\ "generic" \in {"config", "generic"}
      BY DEF Partitions
    <3>2. mounts \in Seq(Registrations)
      BY DEF Good, MountInv
    <3> QED BY <1>0, <1>1, <2>2, <3>1, <3>2, AddedMount
  <2> QED BY <1>3, <2>1, <2>2
<1>5. todo'[r] = Tail(MountCheck)
  <2>1. todo'[r] = Tail(Checks[next[r] - 1])
    BY <1>3, DoneAt DEF Good, Begun
  <2>2. next[r] - 1 = 1 /\ Checks[1] = MountCheck
    BY <1>1 DEF Checks
  <2> QED BY <2>1, <2>2
<1> QED BY <1>0, <1>1, <1>2, <1>3, <1>4, <1>5 DEF Doomed, Station

\* Only the handles of three deleted workers and the optional task fill the mount.
LEMMA NotReady ==
  ASSUME HandleInv, MountInv, ~Ready
  PROVE  kills > 2
<1>1. /\ leaked["config"] \in Nat /\ leaked["storage"] \in Nat /\ kills \in Nat
      /\ leaked["config"] + leaked["storage"] <= kills + (IF phase = "up" THEN 1 ELSE 0)
  BY DEF HandleInv, HandlesClosed, Partitions
<1>2. leaked["config"] >= 4 \/ leaked["storage"] >= 4
  <2>1. CASE mounts = <<>>
    BY <1>1, <2>1 DEF Ready
  <2>2. CASE mounts # <<>>
    <3>1. mounts[1] \in Registrations
      BY <2>2 DEF MountInv
    <3>2. Here \in Partitions /\ mounts[1].max \in {4, 8}
      BY <3>1 DEF Registrations, Here
    <3>3. ~(leaked[Here] < mounts[1].max)
      BY <2>2 DEF Ready, Roomy
    <3> QED BY <1>1, <3>2, <3>3 DEF Partitions
  <2> QED BY <2>1, <2>2
<1>3. PICK a, b, c, d : /\ a = leaked["config"] /\ b = leaked["storage"] /\ c = kills
                        /\ d = (IF phase = "up" THEN 1 ELSE 0)
  OBVIOUS
<1>4. d \in {0, 1}
  BY <1>3
<1>5. a + b <= c + d /\ a \in Nat /\ b \in Nat /\ c \in Nat /\ (a >= 4 \/ b >= 4)
  BY <1>1, <1>2, <1>3
<1>6. c > 2
  BY <1>4, <1>5
<1> QED BY <1>3, <1>6

LEMMA DoomedOpens == ASSUME NEW r, Doomed(r) PROVE Op(r).do = "open"
<1>1. PICK t, c : t = Tail(MountCheck) /\ c = Open("probe", "w", <<>>)
  OBVIOUS
<1>2. Head(t) = c
  BY <1>1 DEF MountCheck
<1>3. c.do = "open"
  BY <1>1 DEF Open
<1>4. todo[r] = t
  BY <1>1 DEF Doomed
<1> QED BY <1>2, <1>3, <1>4 DEF Op

LEMMA DoomedFails ==
  ASSUME NEW r \in Runners, Good(r), Doomed(r), RunStep(r), ~Fault(r), DOMAIN bad = Runners
  PROVE  bad'[r] = TRUE
<1>1. Op(r).do = "open"
  BY DoomedOpens
<1>2. OpenFile(r)
  BY <1>1 DEF RunStep, At, DetectMount, DropDetectFile, MountConfigPartition,
    MountGenericPartition, ReleaseMount, CleanPath, PutItem, VerifyFile, CloseFile, RenameFile,
    RemoveFile, DiscardFile, Look, MakeDirectory, RemoveDirectory, TryMissing, JudgeCheck
<1>3. ~Free
  BY GoodShut DEF Doomed, Ready
<1>4. Out(r)
  BY <1>2, <1>3 DEF OpenFile
<1> QED BY <1>4 DEF Out

LEMMA ReleaseRunnable ==
  ASSUME NEW v, NEW G, G \subseteq v.gone, ~v.open
  PROVE  Runnable(<<Release>>, v, G)
<1>1. PICK t : t = <<Release>>
  OBVIOUS
<1>2. Script(t) /\ Len(t) = 1 /\ t[1] = Release
  BY <1>1, ReleaseEnds
<1>3. Release.do = "release"
  BY DEF Release
<1>4. PICK V : V = [i \in {1} |-> v]
  OBVIOUS
<1>5. V[1] = v
  BY <1>4
<1>6. \A i \in 1..(Len(t) - 1) : Leads(t[i], V[i], V[i + 1], G)
  BY <1>2
<1>7. t[Len(t)].do = "release" /\ G \subseteq V[Len(t)].gone /\ ~V[Len(t)].open
  BY <1>2, <1>3, <1>5
<1>8. Len(t) >= 1
  BY <1>2
<1>9. Runnable(t, v, G)
  BY <1>2, <1>5, <1>6, <1>7, <1>8, Zenon DEF Runnable
<1> QED BY <1>1, <1>9

LEMMA UnderwayCalls ==
  ASSUME NEW r \in Runners, Good(r), Underway(r), RunStep(r), ~ReleaseMount(r), ~Fault(r),
         dirs' = dirs
  PROVE  Underway(r)' /\ bad' = bad
<1>0. Op(r).do # "release" /\ next' = next /\ leaked' = leaked
  BY StepMoves DEF Rest
<1>1. PICK v : Runnable(todo[r], v, Left(next[r] - 1)) /\ Holds(v) /\ Opened(r, v)
  BY DEF Underway
<1>2. PICK G : G = Left(next[r] - 1)
  OBVIOUS
<1>3. PICK w : Leads(Op(r), v, w, G) /\ Runnable(Tail(todo[r]), w, G)
  <2>1. Runnable(todo[r], v, G)
    BY <1>1, <1>2
  <2>2. PICK t : t = todo[r]
    OBVIOUS
  <2>3. /\ Len(t) = 1 => Head(t).do = "release"
        /\ Len(t) # 1 => \E w : Leads(Head(t), v, w, G) /\ Runnable(Tail(t), w, G)
    BY <2>1, <2>2, RunnableEnd
  <2>4. Head(t) = Op(r)
    BY <2>2 DEF Op
  <2> QED BY <1>0, <2>2, <2>3, <2>4
<1>4. Lone(r, v)
  BY <1>1 DEF Good, Underway, Lone
<1>5. \/ Onward(r, w)
      \/ /\ todo' = [todo EXCEPT ![r] = <<Release>>] /\ G \subseteq v.gone
         /\ ~v.open /\ Keeps /\ UNCHANGED <<bad, files, handle>>
  BY <1>3, <1>4, LoneCall
<1>6. CASE Onward(r, w)
  <2>1. todo'[r] = Tail(todo[r])
    BY <1>6, DoneAt DEF Onward, Good
  <2>2. UNCHANGED <<mounts, mine, bad>> /\ Holds(w)' /\ Opened(r, w)'
    BY <1>6 DEF Onward
  <2>3. Roomy' /\ Own(r)'
    BY <1>0, <2>2, SameRoom DEF Underway, Own
  <2>4. Runnable(todo'[r], w, Left(next'[r] - 1))
    BY <1>0, <1>2, <1>3, <2>1
  <2>5. Underway(r)'
    BY <2>2, <2>3, <2>4, Zenon DEF Underway
  <2> QED BY <2>2, <2>5
<1>7. CASE /\ todo' = [todo EXCEPT ![r] = <<Release>>] /\ G \subseteq v.gone
           /\ ~v.open /\ Keeps /\ UNCHANGED <<bad, files, handle>>
  <2>1. todo'[r] = <<Release>>
    BY <1>7, TodoSet DEF Good
  <2>2. UNCHANGED <<mounts, mine, bad, files, handle>>
    BY <1>7 DEF Keeps
  <2>3. Roomy' /\ Own(r)' /\ Place' = Place /\ Here' = Here
    BY <1>0, <2>2, SameRoom DEF Underway, Own
  <2>4. Runnable(todo'[r], v, Left(next'[r] - 1))
    <3>1. Runnable(<<Release>>, v, G)
      BY <1>7, ReleaseRunnable
    <3> QED BY <1>0, <1>2, <2>1, <3>1
  <2>5. Holds(v)' /\ Opened(r, v)'
    BY <1>1, <2>2, <2>3 DEF Holds, Opened
  <2>6. Underway(r)'
    BY <2>3, <2>4, <2>5, Zenon DEF Underway
  <2> QED BY <2>2, <2>6
<1> QED BY <1>5, <1>6, <1>7

\* The release of a check that succeeded: its files are gone.
LEMMA StationEnds ==
  ASSUME NEW r \in Runners, Good(r), Station(r), ReleaseMount(r)
  PROVE  /\ Roomy /\ Own(r) /\ mounts # <<>> /\ Place = Here /\ handle[r] = NoFile
         /\ Left(next[r] - 1) \cap DOMAIN files[Place] = {}
<1>1. Op(r).do = "release"
  BY DEF ReleaseMount, At
<1>2. Underway(r)
  <2>1. ~Mounting(r)
    BY <1>1 DEF Mounting, At
  <2>2. ~Doomed(r)
    BY <1>1, DoomedOpens
  <2> QED BY <2>1, <2>2 DEF Station
<1>3. PICK v : Runnable(todo[r], v, Left(next[r] - 1)) /\ Holds(v)
  BY <1>2 DEF Underway
<1>4. PICK t, G : t = todo[r] /\ G = Left(next[r] - 1)
  OBVIOUS
<1>5. Runnable(t, v, G) /\ Head(t).do = "release"
  BY <1>1, <1>3, <1>4 DEF Op
<1>6. G \subseteq v.gone
  <2>1. /\ Len(t) = 1 => G \subseteq v.gone
        /\ Len(t) # 1 => \E w : Leads(Head(t), v, w, G)
    BY <1>5, RunnableEnd
  <2>2. ASSUME NEW w, Leads(Head(t), v, w, G) PROVE FALSE
    BY <1>5, <2>2 DEF Leads, LeadsFile, LeadsName
  <2> QED BY <2>1, <2>2
<1>7. G \cap DOMAIN files[Place] = {}
  BY <1>3, <1>6 DEF Holds, Fits
<1>8. handle[r] = NoFile
  BY <1>1, DueCall DEF Good, Needy
<1>9. Roomy /\ Own(r) /\ mounts # <<>> /\ Place = Here
  BY <1>2 DEF Underway, Roomy, Place
<1> QED BY <1>4, <1>7, <1>8, <1>9

\* A single mount, unregistered.
LEMMA UnregisterOne ==
  ASSUME mounts \in Seq(Registrations), Len(mounts) = 1, NEW p, mounts[1].part = p
  PROVE  Unregister(p) = <<>>
<1>1. DOMAIN mounts = {1}
  OBVIOUS
<1>2. (CHOOSE i \in DOMAIN mounts : mounts[i].part = p) = 1
  BY <1>1
<1>3. Unregister(p) = SubSeq(mounts, 1, 1 - 1) \o SubSeq(mounts, 1 + 1, Len(mounts))
  BY <1>2, Zenon DEF Unregister
<1>4. SubSeq(mounts, 1, 1 - 1) = <<>> /\ SubSeq(mounts, 1 + 1, Len(mounts)) = <<>>
  OBVIOUS
<1>5. <<>> \o <<>> = <<>>
  OBVIOUS
<1> QED BY <1>3, <1>4, <1>5

LEMMA ReleaseLeads ==
  ASSUME NEW r \in Runners, Good(r), Station(r), ReleaseMount(r), next[r] <= 6
  PROVE  Begun(r)' /\ Mounting(r)'
<1>1. /\ Roomy /\ Own(r) /\ mounts # <<>> /\ Place = Here /\ handle[r] = NoFile
      /\ Left(next[r] - 1) \cap DOMAIN files[Place] = {}
  BY StationEnds
<1>2. /\ todo'[r] = (IF next[r] > 6 THEN <<>> ELSE Checks[next[r]])
      /\ mine'[r] = ""
  BY ReleaseEnding DEF Good
<1>3. files' = files /\ next'[r] = next[r] + 1 /\ next[r] \in 2..6
  <2>1. next[r] \in 2..6 /\ DOMAIN next = Runners
    BY DEF Good, HandleInv
  <2>2. Len(Checks) = 6
    BY ChecksTidy
  <2>3. PICK x : x = (IF next[r] > Len(Checks) THEN 0 ELSE next[r] + 1)
    OBVIOUS
  <2>4. next' = [next EXCEPT ![r] = x] /\ files' = files
    BY <2>3 DEF ReleaseMount
  <2>5. x = next[r] + 1
    BY <2>1, <2>2, <2>3
  <2> QED BY <2>1, <2>4, <2>5
<1>4. PICK t : t = Checks[next[r]]
  OBVIOUS
<1>5. todo'[r] = t /\ t # <<>> /\ Head(t) = Ensure
  <2>1. next[r] \in 1..6 /\ ~(next[r] > 6)
    BY <1>3
  <2> QED BY <1>2, <1>4, <2>1, ChecksRun
<1>6. Tail(todo'[r]) = Tail(Checks[next'[r] - 1])
  <2>1. next'[r] - 1 = next[r]
    BY <1>3
  <2> QED BY <1>4, <1>5, <2>1
<1>7. (At(r, "detect"))'
  BY <1>5 DEF At, Active, Op, Ensure
<1>8. Place' = Place /\ Ready'
  <2>1. CASE mine[r] = ""
    <3>1. mounts' = mounts
      BY <2>1 DEF ReleaseMount
    <3>2. /\ leaked = [q \in Partitions |-> leaked[q]] /\ "-" \notin Partitions
          /\ \A q \in Partitions : leaked[q] \in Nat
      BY DEF Good, HandleInv, Partitions
    <3>3. leaked' = [q \in Partitions |-> leaked[q] + 0]
      <4>1. leaked' = [q \in Partitions |-> leaked[q] + (IF q = "-" THEN 1 ELSE 0)]
        BY <1>1, <2>1 DEF ReleaseMount
      <4> QED BY <3>2, <4>1
    <3>4. leaked' = leaked
      BY <3>2, <3>3
    <3> QED BY <1>1, <3>1, <3>4, SameRoom DEF Ready
  <2>2. CASE mine[r] = "config" /\ Len(mounts) = 1 /\ mounts[1].part = "config"
    <3>1. mounts \in Seq(Registrations) /\ Mounted("config")
      BY <2>2 DEF Good, MountInv
    <3>2. mounts' = Unregister("config")
      BY <2>2, <3>1 DEF ReleaseMount
    <3>3. mounts' = <<>>
      BY <2>2, <3>1, <3>2, UnregisterOne
    <3>4. leaked'["config"] = 0
      BY <2>2 DEF ReleaseMount, Partitions
    <3>5. Place' = "config" /\ Place = "config"
      BY <1>1, <2>2, <3>3 DEF Place, Here
    <3>6. 0 < 8
      OBVIOUS
    <3> QED BY <3>3, <3>4, <3>5, <3>6 DEF Ready
  <2> QED BY <1>1, <2>1, <2>2 DEF Own
<1>9. Begun(r)'
  <2>1. next'[r] - 2 = next[r] - 1
    BY <1>3
  <2>2. Left(next'[r] - 2) \cap DOMAIN files'[Place'] = {}
    BY <1>1, <1>3, <1>8, <2>1
  <2> QED BY <1>2, <1>6, <2>2 DEF Begun
<1> QED BY <1>7, <1>8, <1>9 DEF Mounting

-----------------------------------------------------------------------------
(* A run that was alone and that no call failed.                           *)

Undisturbed(r) ==
  /\ Alone(r) /\ next[r] \in 2..7
  /\ IF ok[r] /\ ~bad[r] THEN Station(r) ELSE kills > 2

LoneInv ==
  /\ trouble = [r \in Runners |-> trouble[r]]
  /\ ok = [r \in Runners |-> ok[r]] /\ bad = [r \in Runners |-> bad[r]]
  /\ Active("serial") => phase \in {"serial", "optional", "up"}
  /\ \A r \in Runners : Active(r) /\ ~trouble[r] => Undisturbed(r)
  /\ LoneRunPasses

\* What a call changes of the run's record.
LEMMA StepMarks ==
  ASSUME NEW r \in Runners, RunStep(r)
  PROVE  /\ Active(r) /\ phase' = phase /\ kills' = kills
         /\ Fault(r) \/ trouble' = trouble
         /\ ~ReleaseMount(r) => /\ ok' = ok /\ report' = report /\ next' = next
                                /\ bad' = bad \/ bad' = [bad EXCEPT ![r] = TRUE]
<1>1. CASE DetectMount(r)
  BY <1>1 DEF DetectMount, At, Rest, Same
<1>2. CASE DropDetectFile(r)
  BY <1>2 DEF DropDetectFile, At, Rest, Same
<1>3. CASE MountConfigPartition(r)
  BY <1>3 DEF MountConfigPartition, At, Rest, Same
<1>4. CASE MountGenericPartition(r)
  BY <1>4 DEF MountGenericPartition, At, Rest, Same, NoBail
<1>5. CASE ReleaseMount(r)
  BY <1>5 DEF ReleaseMount, At, budget
<1>6. CASE CleanPath(r)
  BY <1>6 DEF CleanPath, At, Keeps, Rest, Same
<1>7. CASE OpenFile(r)
  BY <1>7 DEF OpenFile, At, Keeps, Rest, Same, Out
<1>8. CASE PutItem(r)
  BY <1>8 DEF PutItem, At, Keeps, Rest, Same, Out
<1>9. CASE VerifyFile(r)
  BY <1>9 DEF VerifyFile, At, Keeps, Rest, Same, Out
<1>10. CASE CloseFile(r)
  BY <1>10 DEF CloseFile, At, Keeps, Rest, Same
<1>11. CASE RenameFile(r)
  BY <1>11 DEF RenameFile, At, Keeps, Rest, Same, Out
<1>12. CASE RemoveFile(r)
  BY <1>12 DEF RemoveFile, At, Keeps, Rest, Same, Out
<1>13. CASE DiscardFile(r)
  BY <1>13 DEF DiscardFile, At, Keeps, Rest, Same
<1>14. CASE Look(r)
  BY <1>14 DEF Look, At, Keeps, Rest, Same, Out
<1>15. CASE MakeDirectory(r)
  BY <1>15 DEF MakeDirectory, At, Keeps, Rest, Same, Out
<1>16. CASE RemoveDirectory(r)
  BY <1>16 DEF RemoveDirectory, At, Keeps, Rest, Same, Out
<1>17. CASE TryMissing(r)
  BY <1>17 DEF TryMissing, At, Keeps, Rest, Same
<1>18. CASE JudgeCheck(r)
  BY <1>18 DEF JudgeCheck, At, Keeps, Rest, Same, Out
<1> QED BY <1>1, <1>2, <1>3, <1>4, <1>5, <1>6, <1>7, <1>8, <1>9, <1>10, <1>11, <1>12, <1>13,
  <1>14, <1>15, <1>16, <1>17, <1>18 DEF RunStep

\* A call of a run that no call failed, before the release.
LEMMA CallKeeps ==
  ASSUME NEW r \in Runners, Good(r), Station(r), RunStep(r), ~ReleaseMount(r), ~Fault(r),
         DOMAIN bad = Runners, dirs' = dirs
  PROVE  (Station(r)' /\ ~bad'[r]) \/ (bad'[r] /\ kills > 2)
<1>1. ~bad[r]
  BY DEF Good
<1>2. CASE Begun(r) /\ Mounting(r)
  <2>1. Op(r).do \in {"detect", "undetect", "config", "generic"}
    BY <1>2 DEF Mounting, At
  <2>2. \/ DetectMount(r) \/ DropDetectFile(r) \/ MountConfigPartition(r)
        \/ MountGenericPartition(r)
    BY <2>1 DEF RunStep, At, ReleaseMount, CleanPath, OpenFile, PutItem, VerifyFile, CloseFile,
      RenameFile, RemoveFile, DiscardFile, Look, MakeDirectory, RemoveDirectory, TryMissing,
      JudgeCheck
  <2>3. CASE DetectMount(r)
    <3>1. Begun(r)' /\ Mounting(r)'
      BY <1>2, <2>3, DetectStays
    <3>2. bad' = bad
      BY <2>3 DEF DetectMount
    <3> QED BY <1>1, <3>1, <3>2 DEF Station
  <2>4. CASE DropDetectFile(r)
    <3>1. Underway(r)'
      BY <1>2, <2>4, UndetectRuns
    <3>2. bad' = bad
      BY <2>4 DEF DropDetectFile
    <3> QED BY <1>1, <3>1, <3>2 DEF Station
  <2>5. CASE MountConfigPartition(r)
    <3>1. Station(r)'
      BY <1>2, <2>5, ConfigMoves
    <3>2. bad' = bad
      BY <2>5 DEF MountConfigPartition
    <3> QED BY <1>1, <3>1, <3>2
  <2>6. CASE MountGenericPartition(r)
    <3>1. Station(r)' /\ bad' = bad
      BY <1>2, <2>6, GenericMoves
    <3> QED BY <1>1, <3>1
  <2> QED BY <2>2, <2>3, <2>4, <2>5, <2>6
<1>3. CASE Underway(r)
  <2>1. Underway(r)' /\ bad' = bad
    BY <1>3, UnderwayCalls
  <2> QED BY <1>1, <2>1 DEF Station
<1>4. CASE Doomed(r)
  <2>1. bad'[r] = TRUE
    BY <1>4, DoomedFails
  <2>2. kills > 2
    BY <1>4, NotReady DEF Doomed, Good
  <2> QED BY <2>1, <2>2
<1> QED BY <1>2, <1>3, <1>4 DEF Station

\* The release hands on whether the run has passed so far.
LEMMA ReleasePasses ==
  ASSUME HandleInv, MountInv, LoneInv, NEW r \in Runners, ReleaseMount(r)
  PROVE  /\ ok' = [ok EXCEPT ![r] = ok[r] /\ ~bad[r]] /\ bad' = [bad EXCEPT ![r] = FALSE]
         /\ trouble' = trouble
         /\ next[r] > 6 => /\ todo'[r] = <<>>
                           /\ report' = [ok |-> ok[r] /\ ~bad[r], trouble |-> trouble[r],
                                         kills |-> kills]
         /\ next[r] <= 6 => report' = report /\ next'[r] = next[r] + 1
<1>1. Len(Checks) = 6
  BY ChecksTidy
<1>2. ok' = [ok EXCEPT ![r] = ok[r] /\ ~bad[r]] /\ bad' = [bad EXCEPT ![r] = FALSE]
      /\ trouble' = trouble
  BY DEF ReleaseMount
<1>3. next[r] \in Nat
  BY DEF HandleInv
<1>4. CASE next[r] > 6
  <2>1. next[r] > Len(Checks)
    BY <1>1, <1>4
  <2>2. report' = [ok |-> ok[r] /\ ~bad[r], trouble |-> trouble[r], kills |-> kills]
    BY <2>1 DEF ReleaseMount
  <2>3. todo'[r] = <<>>
    BY <1>4, ReleaseEnding
  <2> QED BY <1>2, <1>3, <1>4, <2>2, <2>3
<1>5. CASE ~(next[r] > 6)
  <2>1. ~(next[r] > Len(Checks))
    BY <1>1, <1>5
  <2>2. report' = report /\ next' = [next EXCEPT ![r] = next[r] + 1]
    BY <2>1 DEF ReleaseMount
  <2>3. next'[r] = next[r] + 1
    BY <2>2 DEF HandleInv
  <2> QED BY <1>2, <1>5, <2>2, <2>3
<1> QED BY <1>4, <1>5

LEMMA StepUndisturbed ==
  ASSUME HandleInv, MountInv, NamesInv, EndInv, LoneInv, NEW r \in Runners, RunStep(r),
         dirs' = dirs, ~trouble'[r], Active(r)'
  PROVE  Undisturbed(r)'
<1>1. /\ Active(r) /\ kills' = kills
      /\ Fault(r) \/ trouble' = trouble
      /\ ~ReleaseMount(r) => /\ ok' = ok /\ next' = next
                             /\ bad' = bad \/ bad' = [bad EXCEPT ![r] = TRUE]
  BY StepMarks
<1>2. ~Fault(r) /\ ~trouble[r]
  <2>1. ~Fault(r)
    BY DEF Fault, LoneInv
  <2> QED BY <1>1, <2>1
<1>3. Alone(r) /\ next[r] \in 2..7 /\ IF ok[r] /\ ~bad[r] THEN Station(r) ELSE kills > 2
  BY <1>1, <1>2 DEF LoneInv, Undisturbed
<1>4. Alone(r)'
  <2>1. \A s \in Runners \ {r} : todo'[s] = todo[s]
    <3>1. CASE ReleaseMount(r)
      BY <3>1, ReleaseEnding
    <3>2. CASE ~ReleaseMount(r)
      BY <3>2, StepMoves, MovesEnd
    <3> QED BY <3>1, <3>2
  <2> QED BY <1>3, <2>1 DEF Alone, Active
<1>5. CASE ReleaseMount(r)
  <2>1. next[r] <= 6 /\ next'[r] = next[r] + 1
    <3>1. ~(next[r] > 6)
      BY <1>5, ReleasePasses DEF Active
    <3>2. next[r] <= 6
      BY <1>3, <3>1
    <3> QED BY <1>5, <3>2, ReleasePasses
  <2>2. next'[r] \in 2..7
    BY <1>3, <2>1
  <2>3. CASE ok[r] /\ ~bad[r]
    <3>1. Good(r) /\ Station(r)
      BY <1>1, <1>3, <2>3 DEF Good
    <3>2. Begun(r)' /\ Mounting(r)'
      BY <1>5, <2>1, <3>1, ReleaseLeads
    <3>3. ok'[r] /\ ~bad'[r]
      BY <1>5, <2>3, ReleasePasses DEF LoneInv
    <3> QED BY <1>4, <2>2, <3>2, <3>3 DEF Undisturbed, Station
  <2>4. CASE ~(ok[r] /\ ~bad[r])
    <3>1. ~ok'[r]
      BY <1>5, <2>4, ReleasePasses DEF LoneInv
    <3> QED BY <1>1, <1>3, <1>4, <2>2, <2>4, <3>1 DEF Undisturbed
  <2> QED BY <2>3, <2>4
<1>6. CASE ~ReleaseMount(r)
  <2>1. ok' = ok /\ next' = next
    BY <1>1, <1>6
  <2>2. CASE ok[r] /\ ~bad[r]
    <3>1. Good(r) /\ Station(r) /\ DOMAIN bad = Runners
      BY <1>1, <1>3, <2>2 DEF Good, LoneInv
    <3>2. (Station(r)' /\ ~bad'[r]) \/ (bad'[r] /\ kills > 2)
      BY <1>2, <1>6, <3>1, CallKeeps
    <3> QED BY <1>1, <1>3, <1>4, <2>1, <2>2, <3>2 DEF Undisturbed
  <2>3. CASE ~(ok[r] /\ ~bad[r])
    <3>1. kills > 2
      BY <1>3, <2>3
    <3>2. ~(ok'[r] /\ ~bad'[r])
      <4>1. CASE ~ok[r]
        BY <2>1, <4>1
      <4>2. CASE bad[r]
        <5>1. bad'[r]
          BY <1>1, <1>6, <4>2 DEF LoneInv
        <5> QED BY <5>1
      <4> QED BY <2>3, <4>1, <4>2
    <3> QED BY <1>1, <1>3, <1>4, <2>1, <3>1, <3>2 DEF Undisturbed
  <2> QED BY <2>2, <2>3
<1> QED BY <1>5, <1>6

LEMMA StepLone ==
  ASSUME HandleInv, MountInv, NamesInv, EndInv, LoneInv, NEW r \in Runners, RunStep(r),
         dirs' = dirs
  PROVE  LoneInv'
<1>1. /\ Active(r) /\ phase' = phase /\ kills' = kills
      /\ Fault(r) \/ trouble' = trouble
      /\ ~ReleaseMount(r) => /\ ok' = ok /\ report' = report
                             /\ bad' = bad \/ bad' = [bad EXCEPT ![r] = TRUE]
  BY StepMarks
<1>2. /\ trouble' = [s \in Runners |-> trouble'[s]]
      /\ \A s \in Runners \ {r} : trouble'[s] = trouble[s]
  BY <1>1 DEF Fault, LoneInv
<1>3. ok' = [s \in Runners |-> ok'[s]] /\ bad' = [s \in Runners |-> bad'[s]]
  <2>1. CASE ReleaseMount(r)
    <3>1. PICK b : ok' = [ok EXCEPT ![r] = b] /\ bad' = [bad EXCEPT ![r] = FALSE]
      BY <2>1, ReleasePasses
    <3> QED BY <3>1 DEF LoneInv
  <2>2. CASE ~ReleaseMount(r)
    BY <1>1, <2>2 DEF LoneInv
  <2> QED BY <2>1, <2>2
<1>4. \A s \in Runners \ {r} : todo'[s] = todo[s]
  <2>1. CASE ReleaseMount(r)
    BY <2>1, ReleaseEnding
  <2>2. CASE ~ReleaseMount(r)
    BY <2>2, StepMoves, MovesEnd
  <2> QED BY <2>1, <2>2
<1>5. Active("serial")' => phase' \in {"serial", "optional", "up"}
  <2>1. Active("serial")' => Active("serial")
    <3>1. "serial" \in Runners
      BY DEF Runners
    <3>2. CASE r = "serial"
      BY <1>1, <3>2
    <3>3. CASE r # "serial"
      BY <1>4, <3>1, <3>3 DEF Active
    <3> QED BY <3>2, <3>3
  <2> QED BY <1>1, <2>1 DEF LoneInv
<1>6. ASSUME NEW s \in Runners, Active(s)', ~trouble'[s]
      PROVE  Undisturbed(s)'
  <2>1. CASE s = r
    BY <1>6, <2>1, StepUndisturbed
  <2>2. CASE s # r
    <3>1. Active(s) /\ ~trouble[s]
      BY <1>2, <1>4, <1>6, <2>2 DEF Active
    <3>2. Alone(s)
      BY <3>1 DEF LoneInv, Undisturbed
    <3> QED BY <1>1, <2>2, <3>2 DEF Alone
  <2> QED BY <2>1, <2>2
<1>7. LoneRunPasses'
  <2>1. CASE report' = report
    BY <2>1 DEF LoneInv, LoneRunPasses
  <2>2. CASE ReleaseMount(r) /\ next[r] > 6
    <3>1. report' = [ok |-> ok[r] /\ ~bad[r], trouble |-> trouble[r], kills |-> kills]
      BY <2>2, ReleasePasses
    <3>2. report'.ok = (ok[r] /\ ~bad[r]) /\ report'.trouble = trouble[r] /\ report'.kills = kills
      BY <3>1
    <3>3. CASE ~trouble[r]
      <4>1. IF ok[r] /\ ~bad[r] THEN Station(r) ELSE kills > 2
        BY <1>1, <3>3 DEF LoneInv, Undisturbed
      <4>2. (ok[r] /\ ~bad[r]) \/ kills > 2
        BY <4>1
      <4> QED BY <3>2, <4>2, Zenon DEF LoneRunPasses
    <3> QED BY <3>2, <3>3, Zenon DEF LoneRunPasses
  <2>3. report' = report \/ (ReleaseMount(r) /\ next[r] > 6)
    <3>1. CASE ~ReleaseMount(r)
      BY <1>1, <3>1
    <3>2. CASE ReleaseMount(r)
      <4>1. next[r] \in Nat
        BY DEF HandleInv
      <4>2. next[r] > 6 \/ next[r] <= 6
        BY <4>1
      <4> QED BY <3>2, <4>2, ReleasePasses
    <3> QED BY <3>1, <3>2
  <2> QED BY <2>1, <2>2, <2>3
<1> QED BY <1>2, <1>3, <1>5, <1>6, <1>7 DEF LoneInv

-----------------------------------------------------------------------------
(* The tasks.                                                              *)

\* What a run stands on.
LEMMA StationSame ==
  ASSUME NEW r, todo'[r] = todo[r], next'[r] = next[r], mine'[r] = mine[r],
         handle'[r] = handle[r], UNCHANGED <<dirs, files, mounts, leaked>>
  PROVE  Station(r)' <=> Station(r)
<1>1. /\ Here' = Here /\ Place' = Place /\ (Roomy' <=> Roomy) /\ (Ready' <=> Ready)
  BY SameRoom
<1>2. Begun(r)' <=> Begun(r)
  BY <1>1 DEF Begun
<1>3. Mounting(r)' <=> Mounting(r)
  BY <1>1 DEF Mounting, At, Active, Op
<1>4. Underway(r)' <=> Underway(r)
  <2>1. \A v : (Holds(v)' <=> Holds(v)) /\ (Opened(r, v)' <=> Opened(r, v))
    BY <1>1 DEF Holds, Opened
  <2>2. Own(r)' <=> Own(r)
    BY DEF Own
  <2>3. (Roomy' <=> Roomy) /\ todo'[r] = todo[r] /\ next'[r] = next[r]
    BY <1>1
  <2> QED BY <2>1, <2>2, <2>3, Zenon DEF Underway
<1>5. Doomed(r)' <=> Doomed(r)
  BY <1>1 DEF Doomed
<1> QED BY <1>2, <1>3, <1>4, <1>5 DEF Station

\* Nothing happens to the runs that go on.
LEMMA LoneSame ==
  ASSUME LoneInv, UNCHANGED <<dirs, files, mounts, leaked, bad, ok, trouble, report, kills>>,
         \A r \in Runners : Active(r)' => /\ todo'[r] = todo[r] /\ next'[r] = next[r]
                                          /\ mine'[r] = mine[r] /\ handle'[r] = handle[r],
         Active("serial")' => phase' \in {"serial", "optional", "up"}
  PROVE  LoneInv'
<1>1. ASSUME NEW r \in Runners, Active(r)', ~trouble'[r]
      PROVE  Undisturbed(r)'
  <2>1. /\ todo'[r] = todo[r] /\ next'[r] = next[r]
        /\ mine'[r] = mine[r] /\ handle'[r] = handle[r]
    BY <1>1
  <2>2. Undisturbed(r)
    BY <1>1, <2>1 DEF LoneInv, Active
  <2>3. Station(r)' <=> Station(r)
    BY <2>1, StationSame
  <2>4. Alone(r)'
    <3>1. ASSUME NEW s \in Runners \ {r}, Active(s)' PROVE FALSE
      <4>1. todo'[s] = todo[s]
        BY <3>1
      <4>2. Active(s)
        BY <3>1, <4>1 DEF Active
      <4> QED BY <2>2, <4>2 DEF Undisturbed, Alone
    <3> QED BY <3>1 DEF Alone
  <2>5. /\ ok'[r] = ok[r] /\ bad'[r] = bad[r] /\ kills' = kills
    OBVIOUS
  <2> QED BY <2>1, <2>2, <2>3, <2>4, <2>5, Zenon DEF Undisturbed
<1>2. LoneRunPasses'
  BY DEF LoneInv, LoneRunPasses
<1> QED BY <1>1, <1>2 DEF LoneInv

\* A run that starts while nobody else runs.
LEMMA BeginLone ==
  ASSUME HandleInv, EndInv, LoneInv, NEW r \in Runners, ~Active(r), Begin(r),
         UNCHANGED <<files, mine, report>>,
         r = "serial" => phase' \in {"serial", "optional", "up"},
         Active("serial") => phase' \in {"serial", "optional", "up"}
  PROVE  LoneInv'
<1>1. /\ todo'[r] = Checks[1] /\ (\A s \in Runners \ {r} : todo'[s] = todo[s])
      /\ next'[r] = 2
  BY TodoSet DEF Begin, HandleInv
<1>2. /\ ok' = [s \in Runners |-> ok'[s]] /\ ok'[r] = TRUE
      /\ bad' = [s \in Runners |-> bad'[s]] /\ bad'[r] = FALSE
  BY DEF Begin, LoneInv
<1>3. PICK busy : /\ busy <=> \E s \in Runners \ {r} : Active(s)
                  /\ trouble' = [s \in Runners |-> IF s = r THEN busy
                                                    ELSE trouble[s] \/ Active(s)]
  BY Zenon DEF Begin
<1>4. Active("serial")' => phase' \in {"serial", "optional", "up"}
  BY <1>1 DEF Active, Runners
<1>5. ASSUME NEW s \in Runners, Active(s)', ~trouble'[s]
      PROVE  Undisturbed(s)'
  <2>1. s = r
    <3>1. s # r => trouble'[s] = (trouble[s] \/ Active(s)) /\ Active(s)
      BY <1>1, <1>3, <1>5 DEF Active
    <3> QED BY <1>5, <3>1
  <2>2. ~busy
    BY <1>3, <1>5, <2>1
  <2>3. Alone(r)'
    BY <1>1, <1>3, <2>2 DEF Alone, Active
  <2>4. mine'[r] = ""
    BY DEF EndInv
  <2>5. Begun(r)'
    <3>1. next'[r] - 1 = 1 /\ next'[r] - 2 = 0
      BY <1>1
    <3>2. Left(0) = {}
      BY DEF Left
    <3>3. Tail(todo'[r]) = Tail(Checks[next'[r] - 1])
      BY <1>1, <3>1
    <3>4. Left(next'[r] - 2) \cap DOMAIN files'[Place'] = {}
      BY <3>1, <3>2
    <3> QED BY <2>4, <3>3, <3>4 DEF Begun
  <2>6. Mounting(r)'
    <3>1. Checks[1] # <<>> /\ Head(Checks[1]) = Ensure
      BY ChecksRun
    <3>2. (At(r, "detect"))'
      BY <1>1, <3>1 DEF At, Active, Op, Ensure
    <3> QED BY <1>1, <3>2 DEF Mounting
  <2> QED BY <1>1, <1>2, <2>1, <2>3, <2>5, <2>6 DEF Undisturbed, Station
<1>6. LoneRunPasses'
  BY DEF LoneInv, LoneRunPasses
<1> QED BY <1>2, <1>3, <1>4, <1>5, <1>6 DEF LoneInv

LEMMA NobodyLone ==
  ASSUME trouble = [r \in Runners |-> trouble[r]], ok = [r \in Runners |-> ok[r]],
         bad = [r \in Runners |-> bad[r]], \A r \in Runners : ~Active(r), LoneRunPasses
  PROVE  LoneInv
BY DEF LoneInv, Runners

LEMMA DeleteLone ==
  ASSUME HandleInv, MountInv, EndInv, LoneInv, NEW q \in Runners, Delete(q), dirs' = dirs,
         kills' = kills \/ Active(q),
         Active("serial")' => phase' \in {"serial", "optional", "up"}
  PROVE  LoneInv'
<1>1. /\ todo'[q] = <<>> /\ \A s \in Runners \ {q} : todo'[s] = todo[s]
  BY TodoSet DEF Delete
<1>2. UNCHANGED <<mounts, bad, ok, trouble, report>>
  BY DEF Delete
<1>3. /\ trouble' = [r \in Runners |-> trouble'[r]] /\ ok' = [r \in Runners |-> ok'[r]]
      /\ bad' = [r \in Runners |-> bad'[r]] /\ LoneRunPasses'
  BY <1>2 DEF LoneInv, LoneRunPasses
<1>4. ASSUME NEW r \in Runners, Active(r)', ~trouble'[r]
      PROVE  Undisturbed(r)'
  <2>1. r # q /\ Active(r) /\ ~trouble[r] /\ todo'[r] = todo[r]
    BY <1>1, <1>2, <1>4 DEF Active
  <2>2. Undisturbed(r) /\ ~Active(q)
    BY <2>1 DEF LoneInv, Undisturbed, Alone
  <2>3. handle[q] = NoFile
    BY <2>1, <2>2, AloneClosed DEF Undisturbed
  <2>4. files' = files /\ leaked' = leaked
    <3>1. PICK h : h = handle[q]
      OBVIOUS
    <3>2. ~h.alive /\ h.part \notin Partitions
      <4>1. NoFile.alive = FALSE /\ NoFile.part = ""
        BY DEF NoFile
      <4>2. h.alive = FALSE /\ h.part = ""
        BY <2>3, <3>1, <4>1
      <4> QED BY <4>2 DEF Partitions
    <3>3. files' \in Torn(h)
          /\ leaked' = [p \in Partitions |-> leaked[p] + (IF h.part = p THEN 1 ELSE 0)]
      BY <3>1 DEF Delete
    <3>4. files' = files
      BY <3>2, <3>3, TornNames
    <3>5. leaked = [p \in Partitions |-> leaked[p]] /\ \A p \in Partitions : leaked[p] \in Nat
      BY DEF HandleInv
    <3>6. leaked' = [p \in Partitions |-> leaked[p]]
      BY <3>2, <3>3, <3>5
    <3> QED BY <3>4, <3>5, <3>6
  <2>5. next'[r] = next[r] /\ mine'[r] = mine[r] /\ handle'[r] = handle[r]
    BY <2>1 DEF Delete, HandleInv, MountInv
  <2>6. Station(r)' <=> Station(r)
    BY <1>2, <2>1, <2>4, <2>5, StationSame
  <2>7. Alone(r)'
    BY <1>1, <2>2 DEF Undisturbed, Alone, Active
  <2>8. ok'[r] = ok[r] /\ bad'[r] = bad[r] /\ kills' = kills
    BY <1>2, <2>2
  <2> QED BY <2>2, <2>5, <2>6, <2>7, <2>8, Zenon DEF Undisturbed
<1> QED BY <1>3, <1>4 DEF LoneInv

LEMMA LoneNext ==
  ASSUME HandleInv, MountInv, NamesInv, EndInv, LoneInv, [Next]_vars
  PROVE  LoneInv'
<1>0. /\ "boot" \in Runners /\ "optional" \in Runners /\ "serial" \in Runners
      /\ (Active("boot") => phase = "testing") /\ (Active("optional") => phase = "optional")
      /\ (Active("serial") => phase \in {"serial", "optional", "up"})
      /\ \A r \in Runners : r \in {"boot", "optional", "serial"}
  BY DEF Runners, HandleInv, LoneInv
<1>d. dirs' = dirs
  BY DEF Next, vars
<1>1. ASSUME NEW r \in Runners, RunStep(r)
      PROVE  LoneInv'
  BY <1>1, <1>d, StepLone
<1>2. CASE RequiredTests
  <2>1. phase = "tests" /\ UNCHANGED <<files, mounts, leaked, report, kills>>
    BY <1>2 DEF RequiredTests, budget
  <2>2. CASE Begin("boot") /\ UNCHANGED <<mine, handle>>
    BY <1>0, <2>1, <2>2, BeginLone
  <2>3. CASE NoRun
    <3>1. UNCHANGED <<todo, next, mine, handle, bad, ok, trouble>>
      BY <2>3 DEF NoRun, runvars
    <3>2. ~Active("serial")'
      BY <1>0, <2>1, <3>1 DEF Active
    <3> QED BY <1>d, <2>1, <3>1, <3>2, LoneSame
  <2> QED BY <1>2, <2>2, <2>3 DEF RequiredTests
<1>3. CASE RequiredDone
  <2>1. phase = "testing" /\ UNCHANGED <<todo, next, mine, handle, bad, ok, trouble>>
        /\ UNCHANGED <<files, mounts, leaked, report, kills>>
    BY <1>3 DEF RequiredDone, Quiet, budget
  <2>2. ~Active("serial")'
    BY <1>0, <2>1 DEF Active
  <2> QED BY <1>d, <2>1, <2>2, LoneSame
<1>4. CASE LoadConfig
  <2>1. phase = "loading" /\ UNCHANGED <<todo, bad, ok, trouble, report>>
    BY <1>4 DEF LoadConfig, NoRun, runvars
  <2>2. \A r \in Runners : ~Active(r)'
    BY <1>0, <2>1 DEF Active
  <2>3. /\ trouble' = [r \in Runners |-> trouble'[r]] /\ ok' = [r \in Runners |-> ok'[r]]
        /\ bad' = [r \in Runners |-> bad'[r]] /\ LoneRunPasses'
    BY <2>1 DEF LoneInv, LoneRunPasses
  <2> QED BY <1>0, <2>2, <2>3 DEF LoneInv
<1>5. CASE ConfigReload
  <2>1. /\ UNCHANGED <<phase, todo, bad, ok, report>>
        /\ trouble' = [r \in Runners |-> trouble[r] \/ Active(r)]
    BY <1>5 DEF ConfigReload
  <2>2. \A r \in Runners : Active(r)' => trouble'[r]
    BY <2>1 DEF Active
  <2>3. /\ ok' = [r \in Runners |-> ok'[r]] /\ bad' = [r \in Runners |-> bad'[r]]
        /\ LoneRunPasses' /\ trouble' = [r \in Runners |-> trouble'[r]]
    BY <2>1 DEF LoneInv, LoneRunPasses
  <2>4. Active("serial")' => phase' \in {"serial", "optional", "up"}
    BY <1>0, <2>1 DEF Active
  <2> QED BY <2>2, <2>3, <2>4 DEF LoneInv
<1>6. CASE StartOptional
  <2>1. phase = "serial" /\ phase' = "optional" /\ Begin("optional")
        /\ UNCHANGED <<files, mine, report>>
    BY <1>6 DEF StartOptional, Quiet
  <2> QED BY <1>0, <2>1, BeginLone
<1>7. CASE FsTestCommand
  <2>1. phase \in {"serial", "optional", "up"} /\ phase' = phase /\ Begin("serial")
        /\ ~Active("serial") /\ UNCHANGED <<files, mine, report>>
    BY <1>7 DEF FsTestCommand, Quiet
  <2> QED BY <1>0, <2>1, BeginLone
<1>8. CASE DeleteOptional
  <2>1. Delete("optional") /\ kills' = kills /\ phase' = "up"
    BY <1>8 DEF DeleteOptional, budget
  <2> QED BY <1>0, <1>d, <2>1, DeleteLone
<1>9. CASE SupervisorKills
  <2>1. Delete("serial") /\ Active("serial")
    BY <1>9 DEF SupervisorKills
  <2>2. ~Active("serial")'
    BY <1>0, <2>1, TodoSet DEF Delete, Active
  <2> QED BY <1>0, <1>d, <2>1, <2>2, DeleteLone
<1>10. CASE Reboot
  <2>1. (/\ trouble = [r \in Runners |-> trouble[r]] /\ ok = [r \in Runners |-> ok[r]]
         /\ bad = [r \in Runners |-> bad[r]] /\ \A r \in Runners : ~Active(r))'
    BY <1>10 DEF Reboot, Active
  <2>2. LoneRunPasses'
    BY <1>10 DEF Reboot, LoneInv, LoneRunPasses
  <2> QED BY <2>1, <2>2, NobodyLone, PTL
<1>11. CASE UNCHANGED vars
  <2>1. UNCHANGED <<todo, next, mine, handle, bad, ok, trouble>>
        /\ UNCHANGED <<dirs, files, mounts, leaked, report, kills, phase>>
    BY <1>11 DEF vars, runvars, budget
  <2>2. Active("serial")' => phase' \in {"serial", "optional", "up"}
    BY <1>0, <2>1 DEF Active
  <2> QED BY <2>1, <2>2, LoneSame
<1> QED BY <1>1, <1>2, <1>3, <1>4, <1>5, <1>6, <1>7, <1>8, <1>9, <1>10, <1>11 DEF Next

LEMMA LoneInit == ASSUME Init PROVE EndInv /\ NamesInv /\ LoneInv
<1>1. EndInv
  BY IdleEnds DEF Init
<1>2. NamesInv
  BY DEF Init, NamesInv, None
<1>3. (\A r \in Runners : ~Active(r)) /\ LoneRunPasses
  BY DEF Init, Active, LoneRunPasses
<1>4. LoneInv
  BY <1>3, NobodyLone DEF Init
<1> QED BY <1>1, <1>2, <1>4

(* A run of the file-system self-test that had the file system to itself   *)
(* and no failing call is where its checks lead, each of which finds gone  *)
(* what the checks before it removed; or the handles ran out               *)
(* (unittest/components/fs).                                               *)
THEOREM LoneRunsFollow == Spec => [](EndInv /\ NamesInv /\ LoneInv)
<1>1. Init => EndInv /\ NamesInv /\ LoneInv
  BY LoneInit
<1>2. MountInv /\ HandleInv /\ EndInv /\ NamesInv /\ LoneInv /\ [Next]_vars
        => (EndInv /\ NamesInv /\ LoneInv)'
  BY EndNext, NamesNext, LoneNext
<1> QED BY <1>1, <1>2, MountsCorrect, HandlesCorrect, PTL DEF Spec

(* Such a run passes, whatever the deleted and cut off runs before it have *)
(* left, unless three deleted workers hold handles (runFsTest, fs.cpp).    *)
THEOREM LoneRunPassesAlways == Spec => []LoneRunPasses
<1>1. LoneInv => LoneRunPasses
  BY DEF LoneInv
<1> QED BY LoneRunsFollow, <1>1, PTL

LEMMA PassedClean ==
  ASSUME HandleInv, MountInv, NamesInv, LoneInv, NEW r \in Runners, ReleaseMount(r),
         todo'[r] = <<>>, report'.ok, ~report'.trouble
  PROVE  DOMAIN files[Here] \subseteq {"tmp"}
<1>1. next[r] > 6 /\ Active(r)
  BY ReleaseEnding DEF ReleaseMount, At
<1>2. report' = [ok |-> ok[r] /\ ~bad[r], trouble |-> trouble[r], kills |-> kills]
  BY <1>1, ReleasePasses
<1>3. ok[r] /\ ~bad[r] /\ ~trouble[r]
  <2>1. report'.ok = (ok[r] /\ ~bad[r]) /\ report'.trouble = trouble[r]
    BY <1>2
  <2> QED BY <2>1
<1>4. Undisturbed(r)
  BY <1>1, <1>3 DEF LoneInv
<1>5. Good(r) /\ Station(r) /\ next[r] = 7
  BY <1>1, <1>3, <1>4 DEF Undisturbed, Good
<1>6. mounts # <<>> /\ Place = Here /\ Left(next[r] - 1) \cap DOMAIN files[Place] = {}
  BY <1>5, StationEnds
<1>7. Left(6) \cap DOMAIN files[Here] = {}
  <2>1. next[r] - 1 = 6
    BY <1>5
  <2> QED BY <1>6, <2>1
<1>8. DOMAIN files[Here] \subseteq Names
  BY <1>6, HereIsOne DEF NamesInv, MountInv
<1>9. Names = Left(6) \cup {"tmp"}
  BY DEF Names, Left
<1> QED BY <1>7, <1>8, <1>9

(* And it has removed what they left in the partition it ran on.           *)
THEOREM RunsCleanAlways == Spec => RunsClean
<1>1. MountInv /\ HandleInv /\ NamesInv /\ LoneInv =>
        [\A r \in Runners :
           (ReleaseMount(r) /\ todo'[r] = <<>> /\ report'.ok /\ ~report'.trouble)
           => DOMAIN files[Here] \subseteq {"tmp"}]_vars
  BY PassedClean
<1> QED BY <1>1, MountsCorrect, HandlesCorrect, LoneRunsFollow, PTL DEF RunsClean
=============================================================================
