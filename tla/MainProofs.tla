----------------------------- MODULE MainProofs -----------------------------
(***************************************************************************)
(* Theorems about the loops that run from boot to reboot: the required     *)
(* unit tests of the boot, for every circle and every encoding of the      *)
(* force flag above it, the main loop behind the online lock, and the      *)
(* serial supervisor, for every timeout and every width of its counter.    *)
(*                                                                         *)
(* The counter in flash decides alone whether a boot may skip the tests,   *)
(* so the argument is that a critical failure and a pending request both   *)
(* leave it at a value that must run (CounterInv), and that the only step  *)
(* that lowers it, Store, comes after all four tests.  A write that is     *)
(* refused leaves the counter where it was, which only delays the tests.   *)
(*                                                                         *)
(* That at most one update begins while the lock is engaged is not         *)
(* inductive: one more could begin if app_main stood behind the gate       *)
(* again.  LateInv adds that it does not, because the way back to "ready"  *)
(* leads through Gate, which looks at locked.                              *)
(*                                                                         *)
(* What the supervisor compares is a difference modulo Wrap of two         *)
(* readings between which a tick may fall; ClockInv relates it to quiet,   *)
(* the ticks that really passed.                                           *)
(***************************************************************************)
EXTENDS RequiredTests, OnlineLock, SerialSupervisor, TLAPS

-----------------------------------------------------------------------------
(* The required unit tests.                                                *)

\* Every variable keeps its type; the counter never leaves 0 .. ForceNow.
THEOREM TypeCorrect == Spec => []TypeOK
<1> USE CircleAssumption, ForceAssumption, MaxSkipsAssumption
<1>1. Init => TypeOK
  <2>1. 0 \in 0 .. ForceNow /\ 0 \in 0 .. MaxSkips
    OBVIOUS
  <2> QED BY <2>1, Zenon DEF Init, TypeOK, Phases
<1>2. TypeOK /\ [Next]_vars => TypeOK'
  <2> SUFFICES ASSUME TypeOK, [Next]_vars
               PROVE  TypeOK'
    OBVIOUS
  <2> USE DEF TypeOK, Phases
  <2>1. CASE PowerOn
    BY <2>1 DEF PowerOn, history
  <2>2. CASE Skip
    BY <2>2 DEF Skip, MaySkip, SetUInt, OneMore
  <2>3. CASE RunTests
    BY <2>3 DEF RunTests, history
  <2>4. CASE CriticalTest("rtos", "ram") \/ CriticalTest("ram", "cert")
    BY <2>4 DEF CriticalTest, history
  <2>5. CASE OtherTest("cert", "fs") \/ OtherTest("fs", "store")
    BY <2>5 DEF OtherTest, history
  <2>6. CASE Store
    <3>1. 0 \in 0 .. ForceNow /\ 0 \in 0 .. MaxSkips
      OBVIOUS
    <3>2. lastRUT' \in 0 .. ForceNow
      BY <2>6, <3>1, Zenon DEF Store, SetUInt
    <3> QED BY <2>6, <3>1, <3>2, Zenon DEF Store
  <2>7. CASE Verdict
    BY <2>7 DEF Verdict, history
  <2>8. CASE InitDone
    BY <2>8 DEF InitDone, history
  <2>9. CASE Restart \/ PowerCut
    BY <2>9 DEF Restart, PowerCut, history
  <2>10. CASE ForceTests
    BY <2>10 DEF ForceTests
  <2>11. ASSUME NEW n \in 0 .. ForceNow, SetCounter(n)
         PROVE  TypeOK'
    <3>1. pending' \in BOOLEAN
      BY <2>11, Zenon DEF SetCounter
    <3> QED BY <2>11, <3>1 DEF SetCounter
  <2>12. CASE UNCHANGED vars
    BY <2>12 DEF vars, history
  <2> QED BY <2>1, <2>2, <2>3, <2>4, <2>5, <2>6, <2>7, <2>8, <2>9, <2>10, <2>11, <2>12 DEF Next
<1> QED BY <1>1, <1>2, PTL DEF Spec

\* A step of the boot or of the serial console keeps the counter telling the
\* truth.
LEMMA CounterInvStep ==
  ASSUME TypeOK, CounterInv, [Next]_vars
  PROVE  CounterInv'
<1> USE CircleAssumption, ForceAssumption, MaxSkipsAssumption DEF TypeOK, CounterInv, MustRun, TestPhases
<1>1. CASE PowerOn
  BY <1>1 DEF PowerOn, history
<1>2. CASE Skip
  <2>1. /\ phase = "read" /\ lastRun = lastRUT /\ lastRun # ForceNow /\ lastRun <= Circle
        /\ phase' = "init" /\ skips' = OneMore(skips)
        /\ UNCHANGED <<lastRun, critical, pending>>
    BY <1>2 DEF Skip, MaySkip
  <2>2. ~critical /\ ~pending
    BY <2>1
  <2>3. CASE lastRUT' = lastRun + 1 /\ missed' = missed
    <3>1. skips' <= lastRUT' + missed' /\ skips' <= Circle + 1 + missed'
      BY <2>1, <2>3 DEF OneMore
    <3> QED BY <2>1, <2>2, <3>1
  <2>4. CASE lastRUT' = lastRUT /\ missed' = OneMore(missed)
    <3>1. skips' <= lastRUT' + missed' /\ skips' <= Circle + 1 + missed'
      BY <2>1, <2>4 DEF OneMore
    <3> QED BY <2>1, <2>2, <3>1
  <2> QED BY <1>2, <2>3, <2>4 DEF Skip, SetUInt
<1>3. CASE RunTests
  BY <1>3 DEF RunTests, MaySkip, history
<1>4. CASE CriticalTest("rtos", "ram") \/ CriticalTest("ram", "cert")
  BY <1>4 DEF CriticalTest, history
<1>5. CASE OtherTest("cert", "fs") \/ OtherTest("fs", "store")
  BY <1>5 DEF OtherTest, history
<1>6. CASE Store
  BY <1>6 DEF Store, SetUInt
<1>7. CASE Verdict
  BY <1>7 DEF Verdict, history
<1>8. CASE InitDone
  BY <1>8 DEF InitDone, history
<1>9. CASE Restart \/ PowerCut
  BY <1>9 DEF Restart, PowerCut, history
<1>10. CASE ForceTests
  BY <1>10 DEF ForceTests, SerialUp
<1>11. ASSUME NEW n \in 0 .. ForceNow, SetCounter(n)
       PROVE  CounterInv'
  BY <1>11 DEF SetCounter, SerialUp
<1>12. CASE UNCHANGED vars
  BY <1>12 DEF vars, history
<1> QED BY <1>1, <1>2, <1>3, <1>4, <1>5, <1>6, <1>7, <1>8, <1>9, <1>10, <1>11, <1>12 DEF Next

THEOREM CounterCorrect == Spec => []CounterInv
<1>1. Init => CounterInv
  BY CircleAssumption DEF Init, CounterInv, TestPhases
<1>2. TypeOK /\ CounterInv /\ [Next]_vars => CounterInv'
  BY CounterInvStep
<1> QED BY <1>1, <1>2, TypeCorrect, PTL DEF Spec

\* A failed RTOS or RAM test keeps the system down until a run passes both.
THEOREM CriticalFailureSticksAlways == Spec => []CriticalFailureSticks
<1>1. CounterInv => CriticalFailureSticks
  BY DEF CounterInv, CriticalFailureSticks
<1> QED BY <1>1, CounterCorrect, PTL

\* At most Circle + 1 boots in a row skip the tests, and one for each refused write.
THEOREM BoundedGapAlways == Spec => []BoundedGap
<1>1. CounterInv => BoundedGap
  BY DEF CounterInv, BoundedGap
<1> QED BY <1>1, CounterCorrect, PTL

\* No boot gets past the test stage with a request of "rut" unanswered.
THEOREM ForcedRunHonouredAlways == Spec => ForcedRunHonoured
<1>1. TypeOK /\ CounterInv /\ [Next]_vars
        => [phase # "init" /\ phase' = "init" => ~pending']_vars
  <2> SUFFICES ASSUME TypeOK, CounterInv, Next, phase # "init", phase' = "init"
               PROVE  ~pending'
    OBVIOUS
  <2>1. CASE Skip
    <3>1. ~MustRun(lastRUT)
      BY <2>1, CircleAssumption, ForceAssumption DEF Skip, MaySkip, CounterInv, MustRun, TypeOK
    <3>2. ~pending
      BY <3>1 DEF CounterInv
    <3> QED BY <2>1, <3>2, Zenon DEF Skip
  <2>2. CASE Verdict
    BY <2>2 DEF Verdict, CounterInv, history
  <2>3. CASE PowerOn \/ RunTests \/ Store \/ InitDone \/ Restart \/ PowerCut
    BY <2>3 DEF PowerOn, RunTests, Store, InitDone, Restart, PowerCut
  <2>4. CASE CriticalTest("rtos", "ram") \/ CriticalTest("ram", "cert")
    BY <2>4 DEF CriticalTest
  <2>5. CASE OtherTest("cert", "fs") \/ OtherTest("fs", "store")
    BY <2>5 DEF OtherTest
  <2>6. CASE ForceTests \/ \E n \in 0 .. ForceNow : SetCounter(n)
    BY <2>6 DEF ForceTests, SetCounter
  <2> QED BY <2>1, <2>2, <2>3, <2>4, <2>5, <2>6 DEF Next
<1> QED BY <1>1, TypeCorrect, CounterCorrect, PTL DEF Spec, ForcedRunHonoured

-----------------------------------------------------------------------------
(* The online lock.                                                        *)

LateInv ==
  /\ late \in 0 .. 1
  /\ locked /\ late = 1 => app # "ready"

LockInv == LockTypeOK /\ LateInv

\* A step of the daemon's loop.
LEMMA DaemonKeepsLockInv ==
  ASSUME LockInv, Daemon
  PROVE  LockInv'
<1> USE DEF LockInv, LockTypeOK, LateInv, appVars, daemonVars, lockVars
<1>1. CASE Sample
  BY <1>1 DEF Sample
<1>2. CASE Decide
  BY <1>2 DEF Decide
<1>3. CASE Engage
  <2>1. CASE locked
    BY <1>3, <2>1 DEF Engage
  <2>2. CASE ~locked
    BY <1>3, <2>2 DEF Engage
  <2> QED BY <2>1, <2>2
<1>4. CASE Disengage
  BY <1>4 DEF Disengage
<1>5. CASE RaiseFlag
  BY <1>5 DEF RaiseFlag
<1> QED BY <1>1, <1>2, <1>3, <1>4, <1>5 DEF Daemon

\* A step of app_main.
LEMMA AppKeepsLockInv ==
  ASSUME LockInv, App
  PROVE  LockInv'
<1> USE DEF LockInv, LockTypeOK, LateInv, AppPoints, appVars, daemonVars,
            lockVars
<1>1. CASE InitLock
  BY <1>1 DEF InitLock
<1>2. CASE ReadFlag
  BY <1>2 DEF ReadFlag
<1>3. CASE ClearFlag
  BY <1>3 DEF ClearFlag
<1>4. CASE LockEvent
  BY <1>4 DEF LockEvent
<1>5. CASE Gate
  BY <1>5 DEF Gate
<1>6. CASE WaitOver \/ NoDeviceId \/ EndUpdate
  BY <1>6 DEF WaitOver, NoDeviceId, EndUpdate
<1>7. CASE BeginUpdate
  <2>1. CASE locked
    <3>1. late = 0
      BY <1>7, <2>1 DEF BeginUpdate
    <3> QED BY <1>7, <2>1, <3>1 DEF BeginUpdate
  <2>2. CASE ~locked
    BY <1>7, <2>2 DEF BeginUpdate
  <2> QED BY <2>1, <2>2
<1> QED BY <1>1, <1>2, <1>3, <1>4, <1>5, <1>6, <1>7 DEF App

THEOREM LockCorrect == LockSpec => []LockInv
<1>1. LockInit => LockInv
  <2> SUFFICES ASSUME LockInit
               PROVE  LockInv
    OBVIOUS
  <2>1. 0 \in 0 .. 1 /\ 0 \in 0 .. 2 /\ 0 # 1
    OBVIOUS
  <2>2. app \in AppPoints /\ daemon \in {"sleep", "decide", "engage", "disengage", "flag"}
    BY Zenon DEF LockInit, AppPoints
  <2> QED BY <2>1, <2>2, Zenon DEF LockInit, LockInv, LockTypeOK, LateInv
<1>2. LockInv /\ [LockNext]_lockModel => LockInv'
  <2> SUFFICES ASSUME LockInv, [LockNext]_lockModel
               PROVE  LockInv'
    OBVIOUS
  <2>1. CASE LinkChanges
    BY <2>1 DEF LinkChanges, LockInv, LockTypeOK, LateInv, appVars, daemonVars,
                lockVars
  <2>2. CASE UNCHANGED lockModel
    BY <2>2 DEF lockModel, LockInv, LockTypeOK, LateInv, appVars, daemonVars,
                lockVars
  <2> QED BY <2>1, <2>2, DaemonKeepsLockInv, AppKeepsLockInv DEF LockNext
<1> QED BY <1>1, <1>2, PTL DEF LockSpec

\* While the lock stays engaged at most one update is begun, however the daemon
\* and the main loop interleave (main.cpp:418-445).
THEOREM AtMostOneLateUpdateAlways == LockSpec => []AtMostOneLateUpdate
<1>1. LockInv => AtMostOneLateUpdate
  BY DEF LockInv, LateInv, AtMostOneLateUpdate
<1> QED BY <1>1, LockCorrect, PTL
-----------------------------------------------------------------------------
(* The serial supervisor.                                                  *)

\* Reading a is n ticks after reading b.
After(a, b, n) == a - b = n \/ a - b = n - Wrap

\* How long a worker may have been quiet at each point of the supervisor's loop.
QuietInv ==
  /\ sup = "boot" => quiet = 0
  /\ sup = "none" /\ quiet # 0 => quiet = 1 /\ worker = "poll" /\ heartbeat # tick
  /\ sup = "sleep" /\ ~due => quiet <= Stall
  /\ sup = "sleep" /\ due => quiet <= Stall + 1
  /\ sup \in {"read", "decide"} /\ ~due => quiet <= Stall + 1

ClockInv ==
  /\ sup \notin {"boot", "none"} /\ worker # "none" => After(tick, heartbeat, quiet)
  /\ sup \in {"read", "decide"} =>
       /\ ~due => now = tick
       /\ due => After(tick, now, 1) /\ (worker # "none" => quiet >= 1)
  /\ sup = "decide" => seen = heartbeat

SupInv == SupervisorTypeOK /\ HandleIsWorker /\ QuietInv /\ ClockInv

-----------------------------------------------------------------------------
(* The arithmetic of a counter that wraps around. *)

LEMMA DifferenceModWrap ==
  ASSUME NEW d \in Int, NEW n \in 0 .. Wrap - 1, d = n \/ d = n - Wrap
  PROVE  d % Wrap = n
<1>1. Wrap \in Nat \ {0}
  BY WrapAssumption, StallAssumption
<1>2. CASE d = n
  BY <1>1, <1>2
<1>3. CASE d = n - Wrap
  BY <1>1, <1>3
<1> QED BY <1>2, <1>3

LEMMA NextTick ==
  ASSUME NEW a \in Ticks
  PROVE  /\ (a + 1) % Wrap \in Ticks
         /\ After((a + 1) % Wrap, a, 1)
         /\ (a + 1) % Wrap # a
<1>1. Wrap \in Nat \ {0} /\ Wrap > 3
  BY WrapAssumption, StallAssumption
<1>2. CASE a = Wrap - 1
  <2>1. (a + 1) % Wrap = 0
    BY <1>1, <1>2
  <2> QED BY <1>1, <1>2, <2>1 DEF After, Ticks
<1>3. CASE a # Wrap - 1
  <2>1. (a + 1) % Wrap = a + 1
    BY <1>1, <1>3 DEF Ticks
  <2> QED BY <1>1, <1>3, <2>1 DEF After, Ticks
<1> QED BY <1>2, <1>3

\* One tick later the distance to any earlier reading is one more.
LEMMA DistanceGrows ==
  ASSUME NEW a \in Ticks, NEW b \in Ticks, NEW n \in 0 .. Wrap - 2, After(a, b, n)
  PROVE  After((a + 1) % Wrap, b, n + 1)
<1>1. Wrap \in Nat \ {0} /\ Wrap > 3
  BY WrapAssumption, StallAssumption
<1>2. CASE a = Wrap - 1
  <2>1. (a + 1) % Wrap = 0
    BY <1>1, <1>2
  <2> QED BY <1>1, <1>2, <2>1 DEF After, Ticks
<1>3. CASE a # Wrap - 1
  <2>1. (a + 1) % Wrap = a + 1
    BY <1>1, <1>3 DEF Ticks
  <2> QED BY <1>1, <1>3, <2>1 DEF After, Ticks
<1> QED BY <1>2, <1>3

\* What the supervisor computes is the time the worker was quiet, or one tick
\* less when a tick fell between its readings.
LEMMA ComparedIsQuiet ==
  ASSUME SupInv, sup = "decide", worker # "none"
  PROVE  (now - seen) % Wrap = IF due THEN quiet - 1 ELSE quiet
<1> USE DEF SupInv, SupervisorTypeOK, QuietInv, ClockInv, Ticks, After
<1>1. Wrap \in Nat /\ Stall \in Nat /\ Wrap > Stall + 3
  BY WrapAssumption, StallAssumption
<1>2. now - seen \in Int /\ quiet \in 0 .. Wrap - 1
  BY <1>1
<1>3. CASE due
  <2>1. quiet >= 1 /\ quiet - 1 \in 0 .. Wrap - 1
    BY <1>1, <1>3
  <2>2. now - seen = quiet - 1 \/ now - seen = quiet - 1 - Wrap
    BY <1>1, <1>3, <2>1
  <2> QED BY <1>2, <1>3, <2>1, <2>2, DifferenceModWrap
<1>4. CASE ~due
  <2>1. now - seen = quiet \/ now - seen = quiet - Wrap
    BY <1>1, <1>4
  <2> QED BY <1>2, <1>4, <2>1, DifferenceModWrap
<1> QED BY <1>3, <1>4
-----------------------------------------------------------------------------
(* The invariant is inductive. *)

LEMMA CreateKeepsSupInv ==
  ASSUME SupInv, NEW made \in BOOLEAN, Create(made)
  PROVE  SupInv'
<1> USE DEF SupInv, SupervisorTypeOK, HandleIsWorker, QuietInv, ClockInv, After, Ticks
<1>1. Wrap \in Nat /\ Stall \in Nat /\ Wrap > Stall + 3
  BY WrapAssumption, StallAssumption
<1>2. CASE made
  BY <1>1, <1>2 DEF Create, CreateWorker
<1>3. CASE ~made
  BY <1>1, <1>3 DEF Create, CreateWorker
<1> QED BY <1>2, <1>3

LEMMA WorkerKeepsSupInv ==
  ASSUME SupInv, Round \/ CommandDone
  PROVE  SupInv'
<1> USE DEF SupInv, SupervisorTypeOK, HandleIsWorker, QuietInv, ClockInv, After, Ticks,
        WorkerMayRun, supVars, workerVars
<1>1. Wrap \in Nat /\ Stall \in Nat /\ Wrap > Stall + 3
  BY WrapAssumption, StallAssumption
<1>2. CASE Round
  BY <1>1, <1>2 DEF Round
<1>3. CASE CommandDone
  BY <1>1, <1>3 DEF CommandDone
<1> QED BY <1>2, <1>3

\* The readings and the two ways to leave the worker alone or not to find it.
LEMMA SupervisorKeepsSupInv ==
  ASSUME SupInv, Supervisor
  PROVE  SupInv'
<1> USE DEF SupInv, SupervisorTypeOK, HandleIsWorker, QuietInv, ClockInv, Ticks, workerVars
<1>1. Wrap \in Nat /\ Stall \in Nat /\ Wrap > Stall + 3
  BY WrapAssumption, StallAssumption
<1>2. CASE ReadNow
  BY <1>1, <1>2 DEF ReadNow, After
<1>3. CASE ReadHeartbeat
  BY <1>1, <1>3 DEF ReadHeartbeat, After
<1>4. CASE LeaveAlone
  <2>1. (now - seen) % Wrap <= Stall
    <3>1. (now - seen) % Wrap \in Int
      BY <1>1
    <3> QED BY <1>1, <1>4, <3>1 DEF LeaveAlone, Stalled
  <2>2. quiet <= IF due THEN Stall + 1 ELSE Stall
    BY <1>1, <1>4, <2>1, ComparedIsQuiet DEF LeaveAlone
  <2> QED BY <1>1, <1>4, <2>2 DEF LeaveAlone, After
<1>5. CASE Kill
  BY <1>1, <1>5 DEF Kill
<1>6. CASE NoWorker
  BY <1>1, <1>6 DEF NoWorker
<1> QED BY <1>2, <1>3, <1>4, <1>5, <1>6, CreateKeepsSupInv DEF Supervisor

LEMMA TickKeepsSupInv ==
  ASSUME SupInv, TickPasses
  PROVE  SupInv'
<1>1. Wrap \in Nat /\ Stall \in Nat /\ Wrap > Stall + 3
  BY WrapAssumption, StallAssumption
<1>2. tick \in Ticks /\ heartbeat \in Ticks /\ now \in Ticks
  BY DEF SupInv, SupervisorTypeOK
<1>3. tick' \in Ticks /\ After(tick', tick, 1) /\ tick' # tick
  BY <1>2, NextTick DEF TickPasses
<1>4. sup \in {"none", "sleep", "read"} /\ ~due /\ sup' = sup
  BY DEF TickPasses, OnTime
<1>5. worker' = worker /\ handle' = handle /\ heartbeat' = heartbeat /\ now' = now /\ seen' = seen
  BY DEF TickPasses, workerVars
<1>6. quiet' = IF Unsupervised \/ worker = "none" THEN 0 ELSE quiet + 1
  BY DEF TickPasses
<1>7. due' = (sup # "none")
  BY DEF TickPasses
<1>8. quiet \in 0 .. Stall + 1
  BY <1>1, <1>4 DEF SupInv, SupervisorTypeOK, QuietInv
<1>9. sup = "none" => quiet' = 0 \/ (quiet' = 1 /\ worker = "poll" /\ heartbeat # tick')
  <2> SUFFICES ASSUME sup = "none", worker = "poll"
               PROVE  quiet' = 1 /\ heartbeat # tick'
    BY <1>6 DEF Unsupervised, SupInv, SupervisorTypeOK
  <2>1. heartbeat = tick
    BY DEF TickPasses, OnTime
  <2>2. quiet = 0
    BY <2>1 DEF SupInv, QuietInv
  <2> QED BY <1>3, <1>6, <2>1, <2>2 DEF Unsupervised
<1>10. quiet' \in 0 .. quiet + 1
  BY <1>6, <1>8
<1>11. SupervisorTypeOK'
  <2>1. quiet' \in 0 .. Stall + 2
    BY <1>1, <1>8, <1>10
  <2>2. due' \in BOOLEAN
    BY <1>7
  <2> QED BY <1>3, <1>4, <1>5, <2>1, <2>2 DEF SupInv, SupervisorTypeOK
<1>12. HandleIsWorker'
  BY <1>5 DEF SupInv, HandleIsWorker
<1>13. QuietInv'
  <2>1. sup \in {"sleep", "read"} => due'
    BY <1>7
  <2>2. sup = "sleep" => quiet' <= Stall + 1
    BY <1>1, <1>4, <1>8, <1>10 DEF SupInv, QuietInv
  <2> QED BY <1>4, <1>5, <1>9, <2>1, <2>2 DEF QuietInv
<1>14. ClockInv'
  <2>1. sup # "none" /\ worker # "none" => After(tick', heartbeat, quiet + 1) /\ quiet' = quiet + 1
    <3> SUFFICES ASSUME sup # "none", worker # "none"
                 PROVE  After(tick', heartbeat, quiet + 1) /\ quiet' = quiet + 1
      OBVIOUS
    <3>1. After(tick, heartbeat, quiet)
      BY <1>4 DEF SupInv, ClockInv
    <3>2. quiet \in 0 .. Wrap - 2
      BY <1>1, <1>8
    <3>3. After(tick', heartbeat, quiet + 1)
      BY <1>2, <3>1, <3>2, DistanceGrows DEF TickPasses
    <3> QED BY <1>6, <3>3 DEF Unsupervised
  <2>2. sup = "read" => now = tick
    BY <1>4 DEF SupInv, ClockInv
  <2>3. sup = "read" => After(tick', now, 1)
    BY <1>3, <2>2
  <2>4. sup = "read" /\ worker # "none" => quiet' >= 1
    BY <1>8, <2>1
  <2> QED BY <1>4, <1>5, <1>7, <2>1, <2>3, <2>4 DEF ClockInv, After
<1> QED BY <1>11, <1>12, <1>13, <1>14 DEF SupInv

THEOREM SupervisorCorrect == SupervisorSpec => []SupInv
<1>1. SupervisorInit => SupInv
  <2> SUFFICES ASSUME SupervisorInit
               PROVE  SupInv
    OBVIOUS
  <2>1. 0 \in Ticks /\ 0 \in 0 .. Stall + 2
    BY WrapAssumption, StallAssumption DEF Ticks
  <2> QED BY <2>1, Zenon DEF SupervisorInit, SupInv, SupervisorTypeOK, HandleIsWorker,
                             QuietInv, ClockInv
<1>2. SupInv /\ [SupervisorNext]_supervisorModel => SupInv'
  <2> SUFFICES ASSUME SupInv, [SupervisorNext]_supervisorModel
               PROVE  SupInv'
    OBVIOUS
  <2>1. CASE StartDaemon
    <3>1. Wrap \in Nat /\ Stall \in Nat /\ Wrap > Stall + 3
      BY WrapAssumption, StallAssumption
    <3>2. PICK made \in BOOLEAN : CreateWorker(made)
      BY <2>1 DEF StartDaemon
    <3>3. handle' = made /\ (handle' <=> worker' # "none") /\ worker' \in {"none", "poll"}
      BY <3>2 DEF CreateWorker
    <3> QED BY <2>1, <3>1, <3>2, <3>3 DEF StartDaemon, CreateWorker, SupInv,
             SupervisorTypeOK, HandleIsWorker, QuietInv, ClockInv, After, Ticks
  <2>2. CASE UNCHANGED supervisorModel
    BY <2>2 DEF supervisorModel, workerVars, supVars, SupInv, SupervisorTypeOK,
         HandleIsWorker, QuietInv, ClockInv, After
  <2> QED BY <2>1, <2>2, WorkerKeepsSupInv, SupervisorKeepsSupInv, TickKeepsSupInv
          DEF SupervisorNext
<1> QED BY <1>1, <1>2, PTL DEF SupervisorSpec

-----------------------------------------------------------------------------
(* The theorems. *)

\* There is never a worker without a handle or a handle without a worker
\* (serialInputDaemon.cpp:46-55, 104-112).
THEOREM HandleIsWorkerAlways == SupervisorSpec => []HandleIsWorker
<1>1. SupInv => HandleIsWorker
  BY DEF SupInv
<1> QED BY <1>1, SupervisorCorrect, PTL

\* A stuck worker is deleted within two periods of its deadline, whatever the
\* width of the tick counter (serialInputDaemon.cpp:85-101).
THEOREM DeletedInTimeAlways == SupervisorSpec => []DeletedInTime
<1>1. SupInv => DeletedInTime
  <2> SUFFICES ASSUME SupInv, sup \in {"sleep", "read", "decide"}
               PROVE  quiet <= Stall + 2
    BY DEF DeletedInTime
  <2> QED BY StallAssumption DEF SupInv, SupervisorTypeOK
<1> QED BY <1>1, SupervisorCorrect, PTL

\* A worker that is deleted was quiet for longer than the timeout, although a
\* tick may fall between the two readings (serialInputDaemon.cpp:85-101).
THEOREM OnlyStalledDeletedAlways == SupervisorSpec => OnlyStalledDeleted
<1>1. SupInv /\ [SupervisorNext]_supervisorModel
        => [sup = "decide" /\ sup' = "create" /\ handle => quiet > Stall]_supervisorModel
  <2> SUFFICES ASSUME SupInv, SupervisorNext, sup = "decide", sup' = "create", handle
               PROVE  quiet > Stall
    BY DEF supervisorModel
  <2>1. Kill
    BY DEF SupervisorNext, StartDaemon, Round, CommandDone, WorkerMayRun, Supervisor, ReadNow,
           ReadHeartbeat,
           LeaveAlone, NoWorker, Create, TickPasses, OnTime, supVars
  <2>2. worker # "none"
    BY DEF SupInv, HandleIsWorker
  <2>3. (IF due THEN quiet - 1 ELSE quiet) > Stall
    BY <2>1, <2>2, ComparedIsQuiet DEF Kill, Stalled
  <2> QED BY <2>3, StallAssumption DEF SupInv, SupervisorTypeOK
<1> QED BY <1>1, SupervisorCorrect, PTL DEF SupervisorSpec, OnlyStalledDeleted
=============================================================================
