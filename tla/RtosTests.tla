------------------------------ MODULE RtosTests ------------------------------
(***************************************************************************)
(* The RTOS self-test (unittest/components/RTOS) that the boot runs before *)
(* it admits the robot: the tests that start helper tasks.  One runner,    *)
(* the boot task, works through the tests one after another; each test     *)
(* keeps its context on the runner's stack, starts helpers that get a      *)
(* pointer to it, and joins them with task notifications.  A test is a     *)
(* pair of scripts, the runner's and its helpers', one entry per access to *)
(* shared state, with relative jumps in the helpers' and absolute ones in  *)
(* the runner's.                                                           *)
(*                                                                         *)
(* A helper that outlives its test works on a dead frame: its step may do  *)
(* nothing, still find the runner's handle there and notify it, or land in *)
(* the frame of another test (wild: nothing after it is claimed).          *)
(***************************************************************************)
EXTENDS Naturals, Sequences, FiniteSets

CONSTANTS Order,        \* the tests in the order the suites run them
          Slots,        \* helpers a test has at most: 1..n
          Rounds,       \* rounds of a counting worker (400, 200 and 500 in the code)
          Enough,       \* helpers the stress test wants at least (16 of 100)
          FaultBudget   \* refused creations and expiries before the answer, at most

VARIABLES test,     \* index in Order, Len(Order) + 1 when the suite is over
          at,       \* the runner's place in its script
          joined,   \* answers counted by the join in progress
          pc,       \* slot -> 0 not created, place in its body, beyond it: ended
          tmp,      \* slot -> the value it read last
          marks,    \* slot -> results it has written to the context
          shared,   \* the counters "value" and "done" of the context
          added,    \* increments of "value" carried out
          lock,     \* mutex 1 or 2 -> its holder (a slot, 0 nobody, RUNNER)
          arrived,  \* slots that set their bit in the event group
          woken,    \* the waiter has a pending notification
          go,       \* the context's run flag
          note,     \* the runner's own notification value
          bad,      \* the test has decided to fail
          strays,   \* helpers whose test has returned
          callers,  \* those of them that have not notified the runner yet
          faults,   \* faults so far
          wild,     \* a dead frame or a stale handle was used with effect
          result    \* verdict of the last test: "none", "pass", "fail"

ctx == <<joined, pc, tmp, marks, shared, added, lock, arrived, woken, go, bad>>
vars == <<test, at, ctx, note, strays, callers, faults, wild, result>>

RUNNER == 100

-----------------------------------------------------------------------------
(* The entries of the scripts.                                             *)

Create(to)          == [do |-> "create", to |-> to]
Spawn(some, enough) == [do |-> "spawn", some |-> some, enough |-> enough]
Join(n, mode, to)   == [do |-> "join", n |-> n, mode |-> mode, to |-> to]
Pause(till)         == [do |-> "pause", till |-> till]
Check(data, v, d, timed) == [do |-> "check", data |-> data, value |-> v, done |-> d,
                             timed |-> timed]
Counted(v, d)       == Check(TRUE, v, d, FALSE)
Checked             == Counted(0, 0)
Kill                == [do |-> "kill"]
Simple(op)          == [do |-> op]

Mark          == [do |-> "mark"]
Touch         == [do |-> "touch"]
Spin          == [do |-> "spin"]
Notify        == [do |-> "notify"]
Take(l, skip, meant) == [do |-> "take", lock |-> l, skip |-> skip, meant |-> meant]
Release(l, skip) == [do |-> "release", lock |-> l, skip |-> skip]
Read(v)       == [do |-> "read", of |-> v]
Write(v)      == [do |-> "write", of |-> v]
Arrive        == [do |-> "arrive"]
Meet(skip)    == [do |-> "meet", skip |-> skip]
Await(skip)   == [do |-> "await", skip |-> skip]

All(body) == [h \in Slots |-> body]

(* One test: the runner's script, the helpers' bodies, and how many tests  *)
(* a failure goes on by (2: the next one is part of the same function).    *)
Test(run, body) == [run |-> run, body |-> body, fail |-> 1]
First(run, body) == [run |-> run, body |-> body, fail |-> 2]

-----------------------------------------------------------------------------
(* The tests.                                                              *)

OneShot == <<Mark, Notify>>
Probe == First(<<Create(3), Join(1, "round", 3), Checked>>, All(OneShot))

PriorityLoop ==
  Test(<<Create(8), Pause("any"), Simple("sample"), Create(7), Pause("started"),
         Simple("stop"), Pause("stopped"), Checked>>,
       [h \in Slots |-> IF h = 1 THEN <<Spin>> ELSE <<Mark, Touch>>])

Preemption == Test(<<Create(3), Join(1, "round", 3), Check(TRUE, 0, 0, TRUE)>>, All(OneShot))

RoundRobin ==
  Test(<<Create(5), Create(5), Pause("started"), Simple("stop"), Pause("stopped"),
         Checked>>, All(<<Spin>>))

Integrity ==
  Test(<<Create(4), Create(4), Join(2, "count", 4), Counted(0, 2)>>,
       All(<<Mark, Read("done"), Write("done"), Notify>>))

Wcet == Test(<<Create(5), Pause("any"), Simple("stop"), Pause("stopped"),
               Check(FALSE, 0, 0, TRUE)>>,
             All(<<Spin>>))

ConditionVariable ==
  Test(<<Create(6), Join(1, "round", 6), Simple("ready"), Simple("wake"),
         Join(1, "round", 6), Checked>>,
       All(<<Mark, Notify, Await(3), Mark, Notify, Mark>>))
(* Faulty variant: the own mutex is given before the other one is taken.   *)
CircularBody_givesFirst ==
  <<Take("own", 8, FALSE), Mark, Arrive, Meet(4), Release("own", 1), Take("other", 2, TRUE),
    Release("other", 1), Mark, Mark, Notify>>
CircularBody ==
  <<Take("own", 8, FALSE), Mark, Arrive, Meet(4), Take("other", 2, TRUE),
    Release("other", 2), Mark, Release("own", 1), Mark, Notify>>
CircularWait ==
  Test(<<Create(5), Create(5), Join(2, "round", 5), Checked, Kill>>,
       All(CircularBody))

PriorityInversion ==
  Test(<<Simple("lock"), Create(6), Pause("any"), Simple("unlock"), Join(1, "round", 0),
         Checked>>,
       All(<<Take("one", 3, FALSE), Mark, Release("one", 1), Notify>>))

Starvation ==
  Test(<<Create(6), Create(6), Pause("started"), Simple("stop"), Pause("stopped"),
         Checked>>, All(<<Spin>>))

StaticAllocation ==
  Test(<<Create(3), Join(1, "round", 4), Checked, Kill>>,
       All(<<Mark, Mark, Notify>>))
(* Faulty variant: the counter is updated without the mutex.               *)
CountRound_unlocked == <<Touch, Read("value"), Write("value"), Touch>>
(* One round of a counting worker; a round whose take expires is skipped.  *)
CountRound == <<Take("one", 4, FALSE), Read("value"), Write("value"), Release("one", 1)>>
CountBody == [i \in 1..(4 * Rounds) |-> CountRound[((i - 1) % 4) + 1]]

SharedMemory ==
  Test(<<Create(4), Create(4), Join(2, "round", 0), Counted(2 * Rounds, 2)>>,
       All(CountBody \o <<Read("done"), Write("done"), Notify>>))

TaskMigration == Test(<<Create(3), Join(1, "round", 3), Checked>>, All(OneShot))

InterCore == Test(<<Create(3), Join(1, "round", 3), Check(FALSE, 0, 0, FALSE)>>, All(OneShot))

CrossCore ==
  Test(<<Create(2), Create(3), Simple("unless"), Join(2, "round", 0),
         Counted(2 * Rounds, 0)>>, All(CountBody \o <<Notify>>))
(* Faulty variant: one answer is taken for both workers.                   *)
Concurrency_oneAnswer ==
  Test(<<Create(5), Create(5), Join(1, "sum", 4), Counted(2 * Rounds, 0), Kill>>,
       All(CountBody \o <<Notify>>))
Concurrency ==
  Test(<<Create(5), Create(5), Join(2, "sum", 4), Counted(2 * Rounds, 0), Kill>>,
       All(CountBody \o <<Notify>>))

HundredPlus == Test(<<Spawn(FALSE, Enough), Join(0, "sum", 3), Checked>>,
                    All(<<Notify>>))

RapidCreateDelete == First(<<Create(3), Join(1, "round", 4), Checked, Kill>>,
                           All(<<Notify>>))

RapidAgain == [RapidCreateDelete EXCEPT !.fail = 1]

CreationPatterns == First(<<Spawn(TRUE, 0), Join(0, "sum", 3), Checked>>,
                          All(<<Notify>>))
PatternsAgain == [CreationPatterns EXCEPT !.fail = 1]

(* The suites (RTOS.cpp), without the tests that start no helper.          *)
Scheduler == <<Probe, PriorityLoop, Preemption, RoundRobin, Integrity>>
DeadlockStarvation == <<CircularWait, PriorityInversion, Starvation>>
RtosOrder ==
  Scheduler \o <<Wcet, ConditionVariable>> \o DeadlockStarvation \o
  <<StaticAllocation, SharedMemory, TaskMigration, InterCore, CrossCore, HundredPlus,
    RapidCreateDelete, RapidAgain, Concurrency>> \o
  <<Integrity, Integrity>> \o                                   \* port layer
  Scheduler \o <<SharedMemory, StaticAllocation, Wcet>> \o      \* hardware simulation
  <<CreationPatterns, PatternsAgain>> \o                        \* fuzz
  DeadlockStarvation \o <<PriorityInversion>>                   \* formal verification

(* The tests a suite can run; no suite runs any other.                     *)
Tests ==
  {Probe, PriorityLoop, Preemption, RoundRobin, Integrity, Wcet, ConditionVariable,
   CircularWait, PriorityInversion, Starvation, StaticAllocation, SharedMemory,
   TaskMigration, InterCore, CrossCore, Concurrency, HundredPlus, RapidCreateDelete,
   RapidAgain, CreationPatterns, PatternsAgain}

ASSUME RtosAssumption ==
  /\ {1, 2} \subseteq Slots /\ Slots \subseteq Nat \ {0} /\ IsFiniteSet(Slots)
  /\ Enough \in 0..Cardinality(Slots)
  /\ Rounds \in Nat
  /\ Order \in Seq(Tests)

-----------------------------------------------------------------------------
(* Where everybody is.                                                     *)

Running == test <= Len(Order) /\ ~wild
Op == Order[test].run[at]
Body(h) == Order[test].body[h]
Used == {h \in Slots : pc[h] > 0}
Live == {h \in Used : pc[h] <= Len(Body(h))}
HelperOp(h) == Body(h)[pc[h]]
LockOf(h, l) == CASE l = "own" -> h [] l = "other" -> 3 - h [] OTHER -> 1
MayNotify(h) == \E i \in pc[h]..Len(Body(h)) : Body(h)[i] = Notify
TotalMarks(h) ==
  IF Body(h) = <<Spin>> THEN 1 ELSE Cardinality({i \in DOMAIN Body(h) : Body(h)[i] = Mark})
Worked(h) == marks[h] = TotalMarks(h)

MayFault == faults < FaultBudget
Fault == MayFault /\ faults' = faults + 1

Fresh ==
  /\ joined' = 0 /\ woken' = FALSE /\ go' = TRUE /\ bad' = FALSE /\ added' = 0
  /\ pc' = [h \in Slots |-> 0] /\ tmp' = [h \in Slots |-> 0]
  /\ marks' = [h \in Slots |-> 0] /\ arrived' = {}
  /\ shared' = [value |-> 0, done |-> 0] /\ lock' = <<0, 0>>

Init ==
  /\ test = 1 /\ at = 1 /\ note = 0 /\ strays = 0 /\ callers = 0 /\ faults = 0 /\ wild = FALSE
  /\ result = "none"
  /\ joined = 0 /\ woken = FALSE /\ go = TRUE /\ bad = FALSE /\ added = 0
  /\ pc = [h \in Slots |-> 0] /\ tmp = [h \in Slots |-> 0]
  /\ marks = [h \in Slots |-> 0] /\ arrived = {}
  /\ shared = [value |-> 0, done |-> 0] /\ lock = <<0, 0>>

(* The test returns: its frame dies, the helpers still running do not.     *)
Return(verdict, left) ==
  /\ test' = test + (IF verdict = "pass" THEN 1 ELSE Order[test].fail)
  /\ at' = 1 /\ result' = verdict
  /\ strays' = strays + Cardinality(left)
  /\ callers' = callers + Cardinality({h \in left : MayNotify(h)})
  /\ Fresh

-----------------------------------------------------------------------------
(* The runner.                                                             *)

Goto(n) == at' = n
Jump(n) == at' = n /\ bad' = TRUE

CreateHelper ==
  /\ Running /\ Op.do \in {"create", "spawn"}
  /\ Used # Slots
  /\ LET h == CHOOSE x \in Slots \ Used : \A y \in Slots \ Used : x <= y
     IN  pc' = [pc EXCEPT ![h] = 1]
  /\ at' = IF Op.do = "create" THEN at + 1 ELSE at
  /\ UNCHANGED <<test, joined, tmp, marks, shared, added, lock, arrived, woken, go, bad,
                 note, strays, callers, faults, wild, result>>

(* xTaskCreate fails; a test with a run flag clears it first.              *)
CreateRefused ==
  /\ Running /\ Op.do = "create"
  /\ Fault /\ Jump(Op.to) /\ go' = FALSE
  /\ UNCHANGED <<test, joined, pc, tmp, marks, shared, added, lock, arrived, woken,
                 note, strays, callers, wild, result>>

(* The creation loop ends: as many as wanted, or one refused.              *)
SpawnEnds ==
  /\ Running /\ Op.do = "spawn"
  /\ \/ Used = Slots /\ faults' = faults
     \/ Op.some /\ Used # {} /\ faults' = faults
     \/ Used # Slots /\ Fault
  /\ IF Cardinality(Used) < Op.enough THEN Jump(at + 2) ELSE Goto(at + 1) /\ bad' = bad
  /\ UNCHANGED <<test, joined, pc, tmp, marks, shared, added, lock, arrived, woken, go,
                 note, strays, callers, wild, result>>

Wanted == IF Op.n = 0 THEN Cardinality(Used) ELSE Op.n
Step(n) == IF n >= Wanted THEN joined' = 0 /\ Goto(at + 1) ELSE joined' = n /\ at' = at

(* ulTaskNotifyTake returns: pdTRUE clears the value, pdFALSE takes one.   *)
JoinAnswer ==
  /\ Running /\ Op.do = "join" /\ Wanted > 0
  /\ note > 0
  /\ note' = IF Op.mode = "count" THEN note - 1 ELSE 0
  /\ Step(joined + (IF Op.mode = "sum" THEN note ELSE 1))
  /\ UNCHANGED <<test, pc, tmp, marks, shared, added, lock, arrived, woken, go, bad,
                 strays, callers, faults, wild, result>>

JoinNothing ==
  /\ Running /\ Op.do = "join" /\ Wanted = 0
  /\ Goto(at + 1)
  /\ UNCHANGED <<test, ctx, note, strays, callers, faults, wild, result>>

(* Faulty variant: portMAX_DELAY.                                          *)
JoinExpires_never == FALSE /\ UNCHANGED vars

(* It expires: certain once nobody is left to notify, a fault before.      *)
JoinExpires ==
  /\ Running /\ Op.do = "join" /\ Wanted > 0
  /\ note = 0
  /\ IF Live = {} THEN faults' = faults ELSE Fault
  /\ bad' = TRUE
  /\ IF Op.to = 0 THEN Step(joined + 1) ELSE joined' = 0 /\ Goto(Op.to)
  /\ UNCHANGED <<test, pc, tmp, marks, shared, added, lock, arrived, woken, go,
                 note, strays, callers, wild, result>>

(* A delay of a few ticks in place of a join: long enough, or not.         *)
Settled ==
  CASE Op.till = "started" -> \A h \in Used : marks[h] > 0
    [] Op.till = "stopped" -> Live = {}
    [] OTHER -> TRUE
PauseEnds ==
  /\ Running /\ Op.do = "pause"
  /\ IF Settled THEN faults' = faults ELSE Fault
  /\ Goto(at + 1)
  /\ UNCHANGED <<test, ctx, note, strays, callers, wild, result>>

StopHelpers ==
  /\ Running /\ Op.do = "stop"
  /\ go' = FALSE /\ Goto(at + 1)
  /\ UNCHANGED <<test, joined, pc, tmp, marks, shared, added, lock, arrived, woken, bad,
                 note, strays, callers, faults, wild, result>>

(* lowBeforeHigh: from here on the low helper has to make progress again.  *)
SampleCounter ==
  /\ Running /\ Op.do = "sample"
  /\ marks' = [marks EXCEPT ![1] = 0] /\ Goto(at + 1)
  /\ UNCHANGED <<test, joined, pc, tmp, shared, added, lock, arrived, woken, go, bad,
                 note, strays, callers, faults, wild, result>>

RunnerLocks ==
  /\ Running /\ Op.do \in {"lock", "unlock"}
  /\ lock' = [lock EXCEPT ![1] = IF Op.do = "lock" THEN RUNNER ELSE 0] /\ Goto(at + 1)
  /\ UNCHANGED <<test, joined, pc, tmp, marks, shared, added, arrived, woken, go, bad,
                 note, strays, callers, faults, wild, result>>

WaiterReady ==
  /\ Running /\ Op.do = "ready"
  /\ IF marks[1] > 0 THEN Goto(at + 1) /\ bad' = bad ELSE Jump(6)
  /\ UNCHANGED <<test, joined, pc, tmp, marks, shared, added, lock, arrived, woken, go,
                 note, strays, callers, faults, wild, result>>

(* The waiter that gave up has deleted itself: its handle is stale.        *)
WakeWaiter ==
  /\ Running /\ Op.do = "wake"
  /\ woken' = TRUE /\ wild' = (1 \notin Live) /\ Goto(at + 1)
  /\ UNCHANGED <<test, joined, pc, tmp, marks, shared, added, lock, arrived, go, bad,
                 note, strays, callers, faults, result>>

(* if (!created): both creations were tried before it is looked at.        *)
UnlessCreated ==
  /\ Running /\ Op.do = "unless"
  /\ at' = IF bad THEN at + 2 ELSE at + 1
  /\ UNCHANGED <<test, ctx, note, strays, callers, faults, wild, result>>

Passes ==
  /\ ~bad
  /\ Op.data => /\ \A h \in Used : Worked(h)
                /\ shared.value = Op.value /\ shared.done = Op.done
CheckResult ==
  /\ Running /\ Op.do = "check"
  /\ \/ Return(IF Passes THEN "pass" ELSE "fail", Live) /\ faults' = faults
     \/ Op.timed /\ Passes /\ Fault /\ Return("fail", Live)   \* too slow
  /\ UNCHANGED <<note, wild>>

(* vTaskDelete of every helper created, the ones that ended included.      *)
KillHelpers ==
  /\ Running /\ Op.do = "kill"
  /\ wild' = (Used # Live)
  /\ Return("fail", {})
  /\ UNCHANGED <<note, faults>>

Runner ==
  \/ CreateHelper \/ CreateRefused \/ SpawnEnds \/ JoinAnswer \/ JoinNothing
  \/ JoinExpires \/ PauseEnds \/ StopHelpers \/ SampleCounter \/ RunnerLocks
  \/ WaiterReady \/ WakeWaiter \/ UnlessCreated \/ CheckResult \/ KillHelpers

-----------------------------------------------------------------------------
(* The helpers.                                                            *)

At(h, op) == test <= Len(Order) /\ ~wild /\ h \in Live /\ HelperOp(h).do = op
Hop(h, n) == pc' = [pc EXCEPT ![h] = pc[h] + n]
HelperKeeps == UNCHANGED <<test, at, joined, go, bad, strays, callers, wild, result>>

WriteResult(h) ==
  /\ At(h, "mark") \/ At(h, "touch")
  /\ marks' = [marks EXCEPT ![h] = @ + (IF HelperOp(h).do = "mark" THEN 1 ELSE 0)]
  /\ Hop(h, 1) /\ HelperKeeps
  /\ UNCHANGED <<tmp, shared, added, lock, arrived, woken, note, faults>>

(* while (ctx->run) { counter++; delay or yield }                          *)
SpinOnce(h) ==
  /\ At(h, "spin")
  /\ IF go THEN marks' = [marks EXCEPT ![h] = 1] /\ pc' = pc
           ELSE marks' = marks /\ Hop(h, 1)
  /\ HelperKeeps
  /\ UNCHANGED <<tmp, shared, added, lock, arrived, woken, note, faults>>

NotifyRunner(h) ==
  /\ At(h, "notify")
  /\ note' = note + 1 /\ Hop(h, 1) /\ HelperKeeps
  /\ UNCHANGED <<tmp, marks, shared, added, lock, arrived, woken, faults>>

TakeLock(h) ==
  /\ At(h, "take")
  /\ LET l == LockOf(h, HelperOp(h).lock)
     IN  lock[l] = 0 /\ lock' = [lock EXCEPT ![l] = h]
  /\ Hop(h, 1) /\ HelperKeeps
  /\ UNCHANGED <<tmp, marks, shared, added, arrived, woken, note, faults>>

TakeExpires(h) ==
  /\ At(h, "take")
  /\ lock[LockOf(h, HelperOp(h).lock)] # 0
  /\ IF HelperOp(h).meant THEN faults' = faults ELSE Fault
  /\ Hop(h, HelperOp(h).skip) /\ HelperKeeps
  /\ UNCHANGED <<tmp, marks, shared, added, lock, arrived, woken, note>>

ReleaseLock(h) ==
  /\ At(h, "release")
  /\ lock' = [lock EXCEPT ![LockOf(h, HelperOp(h).lock)] = 0]
  /\ Hop(h, HelperOp(h).skip) /\ HelperKeeps
  /\ UNCHANGED <<tmp, marks, shared, added, arrived, woken, note, faults>>

ReadCounter(h) ==
  /\ At(h, "read")
  /\ tmp' = [tmp EXCEPT ![h] = shared[HelperOp(h).of]]
  /\ Hop(h, 1) /\ HelperKeeps
  /\ UNCHANGED <<marks, shared, added, lock, arrived, woken, note, faults>>

WriteCounter(h) ==
  /\ At(h, "write")
  /\ shared' = [shared EXCEPT ![HelperOp(h).of] = tmp[h] + 1]
  /\ added' = added + (IF HelperOp(h).of = "value" THEN 1 ELSE 0)
  /\ Hop(h, 1) /\ HelperKeeps
  /\ UNCHANGED <<tmp, marks, lock, arrived, woken, note, faults>>

ArriveAtBarrier(h) ==
  /\ At(h, "arrive")
  /\ arrived' = arrived \union {h} /\ Hop(h, 1) /\ HelperKeeps
  /\ UNCHANGED <<tmp, marks, shared, added, lock, woken, note, faults>>

MeetAtBarrier(h) ==
  /\ At(h, "meet")
  /\ IF {1, 2} \subseteq arrived THEN Hop(h, 1) /\ faults' = faults
     ELSE Hop(h, HelperOp(h).skip) /\ Fault
  /\ HelperKeeps
  /\ UNCHANGED <<tmp, marks, shared, added, lock, arrived, woken, note>>

AwaitSignal(h) ==
  /\ At(h, "await")
  /\ IF woken THEN Hop(h, 1) /\ faults' = faults
              ELSE Hop(h, HelperOp(h).skip) /\ Fault
  /\ woken' = FALSE /\ HelperKeeps
  /\ UNCHANGED <<tmp, marks, shared, added, lock, arrived, note>>

HelperStep(h) ==
  \/ WriteResult(h) \/ SpinOnce(h) \/ NotifyRunner(h) \/ TakeLock(h) \/ TakeExpires(h)
  \/ ReleaseLock(h) \/ ReadCounter(h) \/ WriteCounter(h) \/ ArriveAtBarrier(h)
  \/ MeetAtBarrier(h) \/ AwaitSignal(h)

(* A helper whose test has returned works on what is now someone else's    *)
(* frame: no effect, a notification of the runner, or damage.              *)
StrayRuns ==
  /\ test <= Len(Order) /\ ~wild /\ strays > 0
  /\ strays' = strays - 1
  /\ \/ callers > 0 /\ callers' = callers - 1 /\ note' = note + 1 /\ wild' = FALSE
     \/ callers > 0 /\ callers' = callers - 1 /\ note' = note /\ wild' \in BOOLEAN
     \/ strays > callers /\ callers' = callers /\ note' = note /\ wild' \in BOOLEAN
  /\ UNCHANGED <<test, at, ctx, faults, result>>

Next == Runner \/ StrayRuns \/ \E h \in Slots : HelperStep(h)

Fairness == WF_vars(Runner) /\ \A h \in Slots : WF_vars(HelperStep(h))
Spec == Init /\ [][Next]_vars /\ Fairness

-----------------------------------------------------------------------------
(* Properties.                                                             *)

(* A test that reports success has been answered by all its helpers and    *)
(* leaves none of them and no notification behind, as long as no creation  *)
(* was refused and no wait expired before the answer: the joins of the     *)
(* suites take exactly the notifications their helpers give.               *)
PassIsClean ==
  [][(CheckResult /\ result' = "pass" /\ faults = 0) => (Live = {} /\ note = 0)]_vars

(* No increment under the mutex is lost, whichever takes expire            *)
(* (sharedWorker, crossCoreWorker, counterWorker): the counter differs     *)
(* from the rounds carried out by nothing.                                 *)
LockedCountExact == Running => shared.value = added

(* Two tasks that wait for each other's mutex can not both get it: at most *)
(* one of them finds the second mutex free, after the other gave up.       *)
NeverBothAcquire ==
  (Running /\ Order[test] = CircularWait)
     => ~(\A h \in {1, 2} : pc[h] > 0 /\ pc[h] <= Len(Body(h)) /\ HelperOp(h).do = "release"
                            /\ HelperOp(h).lock = "other")

(* The boot task gets through the suite: every wait for a helper expires   *)
(* if nobody answers (unless a stray helper damages a frame).              *)
SuiteEnds == <>(wild \/ test > Len(Order))
=============================================================================
