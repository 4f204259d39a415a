-------------------------- MODULE RtosTestsProofs --------------------------
(***************************************************************************)
(* Theorems about the RTOS self-test, for every suite, every number of     *)
(* helpers and of rounds, and any faults.                                  *)
(*                                                                         *)
(* That no increment is lost says nothing of who may write the counter:    *)
(* CountInv adds that a worker between its take and its release holds the  *)
(* mutex, so that what it has read is still the value when it writes.      *)
(* That two tasks never hold both mutexes of the circular wait needs to    *)
(* know which locks a task holds at each line of its body: GrabInv.        *)
(*                                                                         *)
(* That a test which passes leaves nobody behind is a matter of the whole  *)
(* run: CleanInv says, for each form a run can have, how many of its       *)
(* helpers have ended, and that the notifications are theirs and no one    *)
(* else's.                                                                 *)
(***************************************************************************)
EXTENDS RtosTests, FiniteSetTheorems, SequenceTheorems, WellFoundedInduction, TLAPS

T == Order[test]

-----------------------------------------------------------------------------
(* The entries of the scripts.                                             *)

\* An entry of a helper's body that moves on by a number and touches only the
\* counters there are.
OpFits(op) ==
  /\ op.do \in {"take", "release", "meet", "await"} => op.skip \in Nat
  /\ op.do \in {"read", "write"} => op.of \in {"value", "done"}

\* An entry that does not write the counter under the mutex.
Uncounted(op) == op.do = "write" => op.of = "done"

Fits(b) == Len(b) \in Nat /\ \A i \in 1..Len(b) : OpFits(b[i])
Untouched(b) == \A i \in 1..Len(b) : Uncounted(b[i])

LEMMA EntriesFit ==
  /\ OpFits(Mark) /\ OpFits(Touch) /\ OpFits(Spin) /\ OpFits(Notify) /\ OpFits(Arrive)
  /\ \A v \in {"value", "done"} : OpFits(Read(v)) /\ OpFits(Write(v))
  /\ \A n \in Nat : OpFits(Meet(n)) /\ OpFits(Await(n))
  /\ \A n \in Nat : \A l, b : OpFits(Take(l, n, b)) /\ OpFits(Release(l, n))
BY DEF OpFits, Mark, Touch, Spin, Notify, Arrive, Read, Write, Meet, Await, Take, Release

LEMMA EntriesUncounted ==
  /\ Uncounted(Mark) /\ Uncounted(Touch) /\ Uncounted(Spin) /\ Uncounted(Notify)
  /\ Uncounted(Arrive) /\ Uncounted(Read("done")) /\ Uncounted(Write("done"))
  /\ Uncounted(Read("value"))
  /\ \A n : Uncounted(Meet(n)) /\ Uncounted(Await(n))
  /\ \A n, l, b : Uncounted(Take(l, n, b)) /\ Uncounted(Release(l, n))
BY DEF Uncounted, Mark, Touch, Spin, Notify, Arrive, Read, Write, Meet, Await, Take, Release

-----------------------------------------------------------------------------
(* The bodies.                                                             *)

SpinBody == <<Spin>>
MeterBody == <<Mark, Touch>>
IntegrityBody == <<Mark, Read("done"), Write("done"), Notify>>
WaiterBody == <<Mark, Notify, Await(3), Mark, Notify, Mark>>
InversionBody == <<Take("one", 3, FALSE), Mark, Release("one", 1), Notify>>
StaticBody == <<Mark, Mark, Notify>>
NotifyBody == <<Notify>>

PlainBodies ==
  {OneShot, SpinBody, MeterBody, IntegrityBody, WaiterBody, CircularBody, InversionBody,
   StaticBody, NotifyBody}

LEMMA PlainBodiesFit ==
  ASSUME NEW b \in PlainBodies
  PROVE  Fits(b) /\ Untouched(b)
<1> USE EntriesFit, EntriesUncounted
<1>0. 1 \in Nat /\ 2 \in Nat /\ 3 \in Nat /\ 4 \in Nat /\ 8 \in Nat
  OBVIOUS
<1>1. CASE b = OneShot
  BY <1>1 DEF OneShot, Fits, Untouched
<1>2. CASE b = SpinBody
  BY <1>2 DEF SpinBody, Fits, Untouched
<1>3. CASE b = MeterBody
  BY <1>3 DEF MeterBody, Fits, Untouched
<1>4. CASE b = IntegrityBody
  BY <1>4 DEF IntegrityBody, Fits, Untouched
<1>5. CASE b = WaiterBody
  BY <1>0, <1>5 DEF WaiterBody, Fits, Untouched
<1>6. CASE b = CircularBody
  <2>1. /\ OpFits(Take("own", 8, FALSE)) /\ OpFits(Take("other", 2, TRUE))
    BY <1>0
  <2>2. OpFits(Release("other", 2)) /\ OpFits(Release("own", 1)) /\ OpFits(Meet(4))
    BY <1>0
  <2>3. Len(b) = 10
    BY <1>6 DEF CircularBody
  <2>4. /\ b[1] = Take("own", 8, FALSE) /\ b[2] = Mark /\ b[3] = Arrive /\ b[4] = Meet(4)
        /\ b[5] = Take("other", 2, TRUE) /\ b[6] = Release("other", 2) /\ b[7] = Mark
        /\ b[8] = Release("own", 1) /\ b[9] = Mark /\ b[10] = Notify
    BY <1>6 DEF CircularBody
  <2>5. /\ OpFits(b[1]) /\ OpFits(b[2]) /\ OpFits(b[3]) /\ OpFits(b[4]) /\ OpFits(b[5])
        /\ OpFits(b[6]) /\ OpFits(b[7]) /\ OpFits(b[8]) /\ OpFits(b[9]) /\ OpFits(b[10])
    BY <2>1, <2>2, <2>4, Zenon
  <2>6. /\ Uncounted(b[1]) /\ Uncounted(b[2]) /\ Uncounted(b[3]) /\ Uncounted(b[4])
        /\ Uncounted(b[5]) /\ Uncounted(b[6]) /\ Uncounted(b[7]) /\ Uncounted(b[8])
        /\ Uncounted(b[9]) /\ Uncounted(b[10])
    BY <2>4, Zenon
  <2> QED BY <2>3, <2>5, <2>6 DEF Fits, Untouched
<1>7. CASE b = InversionBody
  <2>1. OpFits(Take("one", 3, FALSE)) /\ OpFits(Release("one", 1))
    BY <1>0
  <2>2. Len(b) = 4
    BY <1>7 DEF InversionBody
  <2>3. b[1] = Take("one", 3, FALSE) /\ b[2] = Mark /\ b[3] = Release("one", 1) /\ b[4] = Notify
    BY <1>7 DEF InversionBody
  <2>4. OpFits(b[1]) /\ OpFits(b[2]) /\ OpFits(b[3]) /\ OpFits(b[4])
    BY <2>1, <2>3, Zenon
  <2>5. Uncounted(b[1]) /\ Uncounted(b[2]) /\ Uncounted(b[3]) /\ Uncounted(b[4])
    BY <2>3, Zenon
  <2> QED BY <2>2, <2>4, <2>5 DEF Fits, Untouched
<1>8. CASE b = StaticBody
  BY <1>8 DEF StaticBody, Fits, Untouched
<1>9. CASE b = NotifyBody
  BY <1>9 DEF NotifyBody, Fits, Untouched
<1> QED
  BY <1>1, <1>2, <1>3, <1>4, <1>5, <1>6, <1>7, <1>8, <1>9 DEF PlainBodies

-----------------------------------------------------------------------------
(* The workers that count under the mutex.                                 *)

SharedBody == CountBody \o <<Read("done"), Write("done"), Notify>>
CrossBody == CountBody \o <<Notify>>
CountingBodies == {SharedBody, CrossBody}
Counting == {SharedMemory, CrossCore, Concurrency}

\* The place in a round of an entry of CountBody.
Phase(i) == (i - 1) % 4

LEMMA Phases ==
  ASSUME NEW i \in Nat \ {0}
  PROVE  /\ Phase(i) \in 0..3
         /\ Phase(i) = 0 => Phase(i + 1) = 1
         /\ Phase(i) = 1 => Phase(i + 1) = 2
         /\ Phase(i) = 2 => Phase(i + 1) = 3
         /\ Phase(i) = 3 => Phase(i + 1) = 0
         /\ Phase(i + 4) = Phase(i)
BY DEF Phase

LEMMA CountBodyIs ==
  /\ CountBody \in Seq({CountRound[j] : j \in 1..4})
  /\ Len(CountBody) = 4 * Rounds
  /\ \A i \in 1..(4 * Rounds) : CountBody[i] = CountRound[Phase(i) + 1]
<1>1. 4 * Rounds \in Nat
  BY RtosAssumption
<1>2. \A i \in 1..(4 * Rounds) : CountBody[i] = CountRound[Phase(i) + 1]
  BY DEF CountBody, Phase
<1>3. \A i \in 1..(4 * Rounds) : Phase(i) + 1 \in 1..4
  BY <1>1, Phases
<1>4. CountBody \in [1..(4 * Rounds) -> {CountRound[j] : j \in 1..4}]
  BY <1>2, <1>3 DEF CountBody
<1> QED BY <1>1, <1>2, <1>4

LEMMA CountingBody ==
  ASSUME NEW b \in CountingBodies
  PROVE  /\ Len(b) \in Nat
         /\ \A i \in 1..(4 * Rounds) :
              /\ i \in 1..Len(b)
              /\ Phase(i) = 0 => b[i] = Take("one", 4, FALSE)
              /\ Phase(i) = 1 => b[i] = Read("value")
              /\ Phase(i) = 2 => b[i] = Write("value")
              /\ Phase(i) = 3 => b[i] = Release("one", 1)
         /\ \A i \in 1..Len(b) : i > 4 * Rounds => b[i] \in {Read("done"), Write("done"), Notify}
<1> DEFINE tail == IF b = CrossBody THEN <<Notify>> ELSE <<Read("done"), Write("done"), Notify>>
           Entries == {CountRound[j] : j \in 1..4} \cup {Read("done"), Write("done"), Notify}
<1>0. 4 * Rounds \in Nat
  BY RtosAssumption
<1>1. b = CountBody \o tail
  BY DEF CountingBodies, SharedBody, CrossBody
<1>2. /\ tail \in Seq(Entries) /\ Len(tail) \in Nat
      /\ \A j \in 1..Len(tail) : tail[j] \in {Read("done"), Write("done"), Notify}
  <2>1. Notify \in Entries /\ Read("done") \in Entries /\ Write("done") \in Entries
    OBVIOUS
  <2> HIDE DEF Entries
  <2>2. CASE b = CrossBody
    <3>1. tail = <<Notify>>
      BY <2>2
    <3> HIDE DEF tail
    <3> QED BY <2>1, <3>1
  <2>3. CASE b # CrossBody
    <3>1. tail = <<Read("done"), Write("done"), Notify>>
      BY <2>3
    <3> HIDE DEF tail
    <3> QED BY <2>1, <3>1
  <2> QED BY <2>2, <2>3
<1>3. CountBody \in Seq(Entries)
  BY CountBodyIs
<1> HIDE DEF tail, Entries
<1>4. Len(b) = 4 * Rounds + Len(tail)
  BY <1>1, <1>2, <1>3, CountBodyIs, ConcatProperties
<1>5. \A i \in 1..(4 * Rounds) : b[i] = CountBody[i]
  BY <1>0, <1>1, <1>2, <1>3, CountBodyIs, ConcatProperties
<1>6. \A i \in 1..Len(b) : i > 4 * Rounds => b[i] = tail[i - 4 * Rounds]
  BY <1>0, <1>1, <1>2, <1>3, <1>4, CountBodyIs, ConcatProperties
<1>7. /\ CountRound[1] = Take("one", 4, FALSE) /\ CountRound[2] = Read("value")
      /\ CountRound[3] = Write("value") /\ CountRound[4] = Release("one", 1)
  BY DEF CountRound
<1>8. \A i \in 1..(4 * Rounds) : b[i] = CountRound[Phase(i) + 1]
  BY <1>5, CountBodyIs
<1>9. ASSUME NEW i \in 1..Len(b), i > 4 * Rounds
      PROVE  b[i] \in {Read("done"), Write("done"), Notify}
  <2>1. i - 4 * Rounds \in 1..Len(tail)
    BY <1>0, <1>2, <1>4, <1>9
  <2> QED BY <1>2, <1>6, <1>9, <2>1
<1>10. ASSUME NEW i \in 1..(4 * Rounds)
       PROVE  /\ i \in 1..Len(b)
              /\ Phase(i) = 0 => b[i] = Take("one", 4, FALSE)
              /\ Phase(i) = 1 => b[i] = Read("value")
              /\ Phase(i) = 2 => b[i] = Write("value")
              /\ Phase(i) = 3 => b[i] = Release("one", 1)
  <2>1. i \in 1..Len(b)
    BY <1>0, <1>2, <1>4, <1>10
  <2>2. b[i] = CountRound[Phase(i) + 1]
    BY <1>8
  <2>3. 0 + 1 = 1 /\ 1 + 1 = 2 /\ 2 + 1 = 3 /\ 3 + 1 = 4
    OBVIOUS
  <2> QED BY <1>7, <2>1, <2>2, <2>3, Zenon
<1>11. Len(b) \in Nat
  BY <1>0, <1>2, <1>4
<1> QED BY <1>9, <1>10, <1>11

LEMMA CountingBodiesFit ==
  ASSUME NEW b \in CountingBodies
  PROVE  Fits(b)
<1> SUFFICES ASSUME NEW i \in 1..Len(b)
             PROVE  OpFits(b[i])
  BY CountingBody DEF Fits
<1>0. 4 * Rounds \in Nat /\ 1 \in Nat /\ 4 \in Nat
  BY RtosAssumption
<1>1. CASE i <= 4 * Rounds
  <2>1. i \in 1..(4 * Rounds) /\ i \in Nat \ {0}
    BY <1>0, <1>1
  <2>2. Phase(i) = 0 \/ Phase(i) = 1 \/ Phase(i) = 2 \/ Phase(i) = 3
    BY <2>1, Phases
  <2>3. /\ Phase(i) = 0 => b[i] = Take("one", 4, FALSE)
        /\ Phase(i) = 1 => b[i] = Read("value")
        /\ Phase(i) = 2 => b[i] = Write("value")
        /\ Phase(i) = 3 => b[i] = Release("one", 1)
    BY <2>1, CountingBody
  <2>4. /\ OpFits(Take("one", 4, FALSE)) /\ OpFits(Release("one", 1))
        /\ OpFits(Read("value")) /\ OpFits(Write("value"))
    BY <1>0, EntriesFit
  <2> QED BY <2>2, <2>3, <2>4, Zenon
<1>2. CASE ~(i <= 4 * Rounds)
  <2>1. i > 4 * Rounds
    BY <1>0, <1>2
  <2>2. b[i] \in {Read("done"), Write("done"), Notify}
    BY <2>1, CountingBody, Zenon
  <2> QED BY <2>2, EntriesFit
<1> QED BY <1>1, <1>2

-----------------------------------------------------------------------------
(* The tests.                                                              *)

Fails(t) == t.fail \in {1, 2}
Bodies(t, B) == \A h \in Slots : t.body[h] \in B

LEMMA PlainTests ==
  ASSUME NEW t \in Tests \ Counting
  PROVE  Fails(t) /\ Bodies(t, PlainBodies)
<1>1. CASE t \in {Probe, Preemption, TaskMigration, InterCore}
  <2>1. \A run : Fails(Test(run, All(OneShot))) /\ Bodies(Test(run, All(OneShot)), PlainBodies)
    BY DEF Test, All, Fails, Bodies, PlainBodies
  <2>2. \A run : Fails(First(run, All(OneShot))) /\ Bodies(First(run, All(OneShot)), PlainBodies)
    BY DEF First, All, Fails, Bodies, PlainBodies
  <2> QED BY <1>1, <2>1, <2>2 DEF Probe, Preemption, TaskMigration, InterCore
<1>2. CASE t \in {RoundRobin, Wcet, Starvation}
  <2>1. \A run : Fails(Test(run, All(<<Spin>>))) /\ Bodies(Test(run, All(<<Spin>>)), PlainBodies)
    BY DEF Test, All, Fails, Bodies, PlainBodies, SpinBody
  <2> QED BY <1>2, <2>1 DEF RoundRobin, Wcet, Starvation
<1>3. CASE t = PriorityLoop
  BY <1>3 DEF PriorityLoop, Test, Fails, Bodies, PlainBodies, SpinBody, MeterBody
<1>4. CASE t = Integrity
  BY <1>4 DEF Integrity, Test, All, Fails, Bodies, PlainBodies, IntegrityBody
<1>5. CASE t = ConditionVariable
  BY <1>5 DEF ConditionVariable, Test, All, Fails, Bodies, PlainBodies, WaiterBody
<1>6. CASE t = CircularWait
  BY <1>6 DEF CircularWait, Test, All, Fails, Bodies, PlainBodies
<1>7. CASE t = PriorityInversion
  BY <1>7 DEF PriorityInversion, Test, All, Fails, Bodies, PlainBodies, InversionBody
<1>8. CASE t = StaticAllocation
  BY <1>8 DEF StaticAllocation, Test, All, Fails, Bodies, PlainBodies, StaticBody
<1>9. CASE t \in {HundredPlus, RapidCreateDelete, CreationPatterns, RapidAgain, PatternsAgain}
  <2>1. \A run : Fails(Test(run, All(<<Notify>>))) /\ Bodies(Test(run, All(<<Notify>>)), PlainBodies)
    BY DEF Test, All, Fails, Bodies, PlainBodies, NotifyBody
  <2>2. \A run : Fails(First(run, All(<<Notify>>))) /\ Bodies(First(run, All(<<Notify>>)), PlainBodies)
    BY DEF First, All, Fails, Bodies, PlainBodies, NotifyBody
  <2>3. \A run : /\ Fails([First(run, All(<<Notify>>)) EXCEPT !.fail = 1])
                 /\ Bodies([First(run, All(<<Notify>>)) EXCEPT !.fail = 1], PlainBodies)
    BY DEF First, All, Fails, Bodies, PlainBodies, NotifyBody
  <2> QED BY <1>9, <2>1, <2>2, <2>3 DEF HundredPlus, RapidCreateDelete, CreationPatterns,
                                       RapidAgain, PatternsAgain
<1> QED
  BY <1>1, <1>2, <1>3, <1>4, <1>5, <1>6, <1>7, <1>8, <1>9 DEF Tests, Counting

LEMMA CountingTests ==
  ASSUME NEW t \in Counting
  PROVE  Fails(t) /\ Bodies(t, CountingBodies)
<1>1. CASE t = SharedMemory
  BY <1>1 DEF SharedMemory, Test, All, Fails, Bodies, CountingBodies, SharedBody
<1>2. CASE t = CrossCore
  BY <1>2 DEF CrossCore, Test, All, Fails, Bodies, CountingBodies, CrossBody
<1>3. CASE t = Concurrency
  BY <1>3 DEF Concurrency, Test, All, Fails, Bodies, CountingBodies, CrossBody
<1> QED BY <1>1, <1>2, <1>3 DEF Counting

\* Where the runner of these tests goes, and that it never touches the mutex.
Guarded == Counting \cup {CircularWait}
RunFits(run) ==
  \A i \in 1..Len(run) :
    /\ run[i].do \in {"create", "join", "check", "kill", "unless"}
    /\ run[i].do \in {"create", "join", "unless"} => i + 1 \in 1..Len(run)
    /\ run[i].do = "unless" => i + 2 \in 1..Len(run)
    /\ run[i].do \in {"create", "join"} => run[i].to = 0 \/ run[i].to \in 1..Len(run)
    /\ run[i].do = "create" => run[i].to # 0

LEMMA GuardedRuns ==
  ASSUME NEW t \in Guarded
  PROVE  RunFits(t.run) /\ 1 \in 1..Len(t.run)
<1> USE DEF Create, Join, Counted, Checked, Check, Kill, Simple, RunFits
<1>1. CASE t = SharedMemory
  BY <1>1 DEF SharedMemory, Test
<1>2. CASE t = CrossCore
  BY <1>2 DEF CrossCore, Test
<1>3. CASE t = Concurrency
  BY <1>3 DEF Concurrency, Test
<1>4. CASE t = CircularWait
  BY <1>4 DEF CircularWait, Test
<1> QED BY <1>1, <1>2, <1>3, <1>4 DEF Guarded, Counting

-----------------------------------------------------------------------------
(* The inductive invariant.                                                *)

Types ==
  /\ pc \in [Slots -> Nat] /\ tmp \in [Slots -> Nat]
  /\ shared \in [value : Nat, done : Nat]
  /\ lock \in [1..2 -> Nat]

\* A worker of these tests that has taken the mutex and not given it back.
Holds(h) == pc[h] \in 1..(4 * Rounds) /\ Phase(pc[h]) # 0
CountInv ==
  \A h \in Slots : Holds(h) => /\ lock[1] = h
                               /\ Phase(pc[h]) = 2 => tmp[h] = shared.value

\* The lines of CircularBody between which the own mutex, then both, are held.
GrabInv ==
  \A h \in {1, 2} : /\ pc[h] \in 2..8 => lock[h] = h
                    /\ pc[h] = 6 => lock[3 - h] = h

Core ==
  /\ Types
  /\ shared.value = added
  /\ T \in Guarded => at \in 1..Len(T.run)
  /\ T \in Counting => CountInv
  /\ T = CircularWait => GrabInv

RtosInv == test \in Nat \ {0} /\ (Running => Core)

LEMMA TestNow ==
  ASSUME test \in Nat \ {0}, Running
  PROVE  T \in Tests
<1>1. Order \in Seq(Tests) /\ Len(Order) \in Nat
  BY RtosAssumption
<1>2. test \in 1..Len(Order)
  BY <1>1 DEF Running
<1> QED BY <1>1, <1>2 DEF T

\* What a helper is about to do.
LEMMA Entry ==
  ASSUME test \in Nat \ {0}, Running, Types, NEW h \in Slots, h \in Live
  PROVE  /\ pc[h] \in 1..Len(Body(h))
         /\ OpFits(HelperOp(h))
         /\ T \notin Counting => Uncounted(HelperOp(h))
         /\ T \in Counting => Body(h) \in CountingBodies
<1>1. T \in Tests /\ Body(h) = T.body[h]
  BY TestNow DEF Body, T
<1>2. pc[h] \in Nat /\ pc[h] > 0 /\ pc[h] <= Len(Body(h))
  BY DEF Live, Used, Types
<1>3. CASE T \in Counting
  <2>1. Body(h) \in CountingBodies
    BY <1>1, <1>3, CountingTests DEF Bodies
  <2>2. Fits(Body(h))
    BY <2>1, CountingBodiesFit
  <2>3. pc[h] \in 1..Len(Body(h))
    BY <1>2, <2>2 DEF Fits
  <2> QED BY <1>3, <2>1, <2>2, <2>3 DEF Fits, HelperOp
<1>4. CASE T \notin Counting
  <2>1. Body(h) \in PlainBodies
    BY <1>1, <1>4, PlainTests DEF Bodies
  <2>2. Fits(Body(h)) /\ Untouched(Body(h))
    BY <2>1, PlainBodiesFit
  <2>3. pc[h] \in 1..Len(Body(h))
    BY <1>2, <2>2 DEF Fits
  <2> QED BY <1>4, <2>2, <2>3 DEF Fits, Untouched, HelperOp
<1> QED BY <1>3, <1>4

-----------------------------------------------------------------------------
(* The helpers' steps.                                                     *)

LEMMA HelperTypes ==
  ASSUME test \in Nat \ {0}, Running, Types, NEW h \in Slots, HelperStep(h)
  PROVE  Types' /\ test' = test /\ at' = at
<1> DEFINE op == HelperOp(h)
<1>0. test' = test /\ at' = at
  BY DEF HelperStep, HelperKeeps, WriteResult, SpinOnce, NotifyRunner, TakeLock, TakeExpires,
         ReleaseLock, ReadCounter, WriteCounter, ArriveAtBarrier, MeetAtBarrier, AwaitSignal
<1>1. h \in Live
  BY DEF HelperStep, At, WriteResult, SpinOnce, NotifyRunner, TakeLock, TakeExpires,
         ReleaseLock, ReadCounter, WriteCounter, ArriveAtBarrier, MeetAtBarrier, AwaitSignal
<1>2. OpFits(op)
  BY <1>1, Entry
<1>3. pc[h] \in Nat /\ h \in Nat /\ tmp[h] \in Nat
  BY RtosAssumption DEF Types
<1>4. \A n \in Nat : [pc EXCEPT ![h] = pc[h] + n] \in [Slots -> Nat]
  BY <1>3 DEF Types
<1> USE DEF Types
<1> HIDE DEF op
<1>5. CASE WriteResult(h) \/ NotifyRunner(h) \/ ArriveAtBarrier(h)
  BY <1>0, <1>4, <1>5 DEF Hop, WriteResult, NotifyRunner, ArriveAtBarrier
<1>6. CASE SpinOnce(h)
  BY <1>0, <1>4, <1>6 DEF Hop, SpinOnce
<1>7. CASE TakeLock(h)
  <2>1. lock' \in [1..2 -> Nat]
    BY <1>3, <1>7 DEF TakeLock
  <2> QED BY <1>0, <1>4, <1>7, <2>1 DEF Hop, TakeLock
<1>8. CASE TakeExpires(h)
  <2>1. op.skip \in Nat
    BY <1>2, <1>8 DEF TakeExpires, At, OpFits, op
  <2> QED BY <1>0, <1>4, <1>8, <2>1 DEF Hop, TakeExpires, op
<1>9. CASE ReleaseLock(h)
  <2>1. op.skip \in Nat
    BY <1>2, <1>9 DEF ReleaseLock, At, OpFits, op
  <2>2. lock' \in [1..2 -> Nat]
    BY <1>9 DEF ReleaseLock
  <2> QED BY <1>0, <1>4, <1>9, <2>1, <2>2 DEF Hop, ReleaseLock, op
<1>10. CASE ReadCounter(h)
  <2>1. op.of \in {"value", "done"}
    BY <1>2, <1>10 DEF ReadCounter, At, OpFits, op
  <2>2. shared[op.of] \in Nat
    BY <2>1
  <2>3. tmp' \in [Slots -> Nat]
    BY <1>10, <2>2 DEF ReadCounter, op
  <2> QED BY <1>0, <1>4, <1>10, <2>3 DEF Hop, ReadCounter
<1>11. CASE WriteCounter(h)
  <2>1. op.of \in {"value", "done"}
    BY <1>2, <1>11 DEF WriteCounter, At, OpFits, op
  <2>2. shared' = [shared EXCEPT ![op.of] = tmp[h] + 1]
    BY <1>11 DEF WriteCounter, op
  <2>3. shared' \in [value : Nat, done : Nat]
    BY <1>3, <2>1, <2>2
  <2> QED BY <1>0, <1>4, <1>11, <2>3 DEF Hop, WriteCounter
<1>12. CASE MeetAtBarrier(h)
  <2>1. op.skip \in Nat
    BY <1>2, <1>12 DEF MeetAtBarrier, At, OpFits, op
  <2> QED BY <1>0, <1>4, <1>12, <2>1 DEF Hop, MeetAtBarrier, op
<1>13. CASE AwaitSignal(h)
  <2>1. op.skip \in Nat
    BY <1>2, <1>13 DEF AwaitSignal, At, OpFits, op
  <2> QED BY <1>0, <1>4, <1>13, <2>1 DEF Hop, AwaitSignal, op
<1> QED
  BY <1>0, <1>5, <1>6, <1>7, <1>8, <1>9, <1>10, <1>11, <1>12, <1>13 DEF HelperStep

\* Outside the counting tests nobody writes the counter.
LEMMA PlainHelperCounts ==
  ASSUME test \in Nat \ {0}, Running, Types, shared.value = added, T \notin Counting,
         NEW h \in Slots, HelperStep(h)
  PROVE  (shared.value = added)'
<1>1. CASE WriteCounter(h)
  <2>1. h \in Live /\ HelperOp(h).do = "write"
    BY <1>1 DEF WriteCounter, At
  <2>2. HelperOp(h).of = "done"
    BY <2>1, Entry DEF Uncounted
  <2>3. shared' = [shared EXCEPT !["done"] = tmp[h] + 1] /\ added' = added + 0
    BY <1>1, <2>2 DEF WriteCounter
  <2>4. shared'.value = shared.value
    BY <2>3 DEF Types
  <2>5. added \in Nat
    BY DEF Types
  <2> QED BY <2>3, <2>4, <2>5
<1>2. CASE ~WriteCounter(h)
  BY <1>2 DEF HelperStep, WriteResult, SpinOnce, NotifyRunner, TakeLock, TakeExpires,
         ReleaseLock, ReadCounter, ArriveAtBarrier, MeetAtBarrier, AwaitSignal
<1> QED BY <1>1, <1>2

\* What a counting worker is about to do, by the line it is at.
LEMMA CountingOp ==
  ASSUME test \in Nat \ {0}, Running, Types, T \in Counting, NEW h \in Slots, h \in Live
  PROVE  LET op == HelperOp(h)  p == pc[h]  inside == p \in 1..(4 * Rounds)
         IN  /\ op.do \in {"take", "release", "read", "write", "notify"}
             /\ op.do = "take" => inside /\ Phase(p) = 0 /\ op.skip = 4 /\ op.lock = "one"
             /\ op.do = "release" => inside /\ Phase(p) = 3 /\ op.skip = 1 /\ op.lock = "one"
             /\ op.do = "read" => \/ op.of = "value" /\ inside /\ Phase(p) = 1
                                  \/ op.of = "done" /\ p > 4 * Rounds
             /\ op.do = "write" => \/ op.of = "value" /\ inside /\ Phase(p) = 2
                                   \/ op.of = "done" /\ p > 4 * Rounds
             /\ op.do = "notify" => p > 4 * Rounds
<1> DEFINE op == HelperOp(h)
           p == pc[h]
<1>1. /\ Body(h) \in CountingBodies /\ p \in 1..Len(Body(h)) /\ op = Body(h)[p]
  BY Entry DEF HelperOp
<1>2. 4 * Rounds \in Nat /\ p \in Nat \ {0}
  BY <1>1, RtosAssumption DEF Types
<1> HIDE DEF op, p
<1>3. CASE p \in 1..(4 * Rounds)
  <2>1. /\ Phase(p) = 0 => op = Take("one", 4, FALSE)
        /\ Phase(p) = 1 => op = Read("value")
        /\ Phase(p) = 2 => op = Write("value")
        /\ Phase(p) = 3 => op = Release("one", 1)
    BY <1>1, <1>3, CountingBody
  <2>2. Phase(p) = 0 \/ Phase(p) = 1 \/ Phase(p) = 2 \/ Phase(p) = 3
    BY <1>2, Phases
  <2>3. CASE Phase(p) = 0
    BY <1>3, <2>1, <2>3 DEF Take, op, p
  <2>4. CASE Phase(p) = 1
    BY <1>3, <2>1, <2>4 DEF Read, op, p
  <2>5. CASE Phase(p) = 2
    BY <1>3, <2>1, <2>5 DEF Write, op, p
  <2>6. CASE Phase(p) = 3
    BY <1>3, <2>1, <2>6 DEF Release, op, p
  <2> QED BY <2>2, <2>3, <2>4, <2>5, <2>6
<1>4. CASE p \notin 1..(4 * Rounds)
  <2>1. p > 4 * Rounds
    BY <1>2, <1>4
  <2>2. op \in {Read("done"), Write("done"), Notify}
    BY <1>1, <2>1, CountingBody
  <2> QED BY <2>1, <2>2 DEF Read, Write, Notify, op, p
<1> QED BY <1>3, <1>4

LEMMA CountingHelperCounts ==
  ASSUME test \in Nat \ {0}, Running, Types, shared.value = added, T \in Counting, CountInv,
         NEW h \in Slots, HelperStep(h)
  PROVE  (shared.value = added)' /\ CountInv'
<1> DEFINE op == HelperOp(h)
           p == pc[h]
           N == 4 * Rounds
<1>0. /\ h \in Live /\ h \in Nat \ {0} /\ N \in Nat /\ p \in Nat \ {0}
      /\ added \in Nat /\ tmp[h] \in Nat
  <2>1. h \in Live
    BY DEF HelperStep, At, WriteResult, SpinOnce, NotifyRunner, TakeLock, TakeExpires,
           ReleaseLock, ReadCounter, WriteCounter, ArriveAtBarrier, MeetAtBarrier, AwaitSignal
  <2> QED BY <2>1, RtosAssumption DEF Types, Live, Used
<1>1. /\ op.do \in {"take", "release", "read", "write", "notify"}
      /\ op.do = "take" => p \in 1..N /\ Phase(p) = 0 /\ op.skip = 4 /\ op.lock = "one"
      /\ op.do = "release" => p \in 1..N /\ Phase(p) = 3 /\ op.skip = 1 /\ op.lock = "one"
      /\ op.do = "read" => \/ op.of = "value" /\ p \in 1..N /\ Phase(p) = 1
                           \/ op.of = "done" /\ p > N
      /\ op.do = "write" => \/ op.of = "value" /\ p \in 1..N /\ Phase(p) = 2
                            \/ op.of = "done" /\ p > N
      /\ op.do = "notify" => p > N
  BY <1>0, CountingOp
<1>2. /\ Phase(p) = 0 => Phase(p + 1) = 1
      /\ Phase(p) = 1 => Phase(p + 1) = 2
      /\ Phase(p) = 2 => Phase(p + 1) = 3
      /\ Phase(p) = 3 => Phase(p + 1) = 0
      /\ Phase(p + 4) = Phase(p)
  BY <1>0, Phases
<1>3. \A k \in Slots : k \in Nat \ {0} /\ pc[k] \in Nat /\ tmp[k] \in Nat
  BY RtosAssumption DEF Types
<1>4. \A k \in Slots : Holds(k) => lock[1] = k /\ (Phase(pc[k]) = 2 => tmp[k] = shared.value)
  BY DEF CountInv
<1>5. LockOf(h, "one") = 1
  BY DEF LockOf
<1>6. 1 \in DOMAIN lock /\ "value" \in DOMAIN shared /\ "done" \in DOMAIN shared
      /\ DOMAIN pc = Slots /\ DOMAIN tmp = Slots
  BY DEF Types
<1> HIDE DEF op, p, N
\* what is left to show, helper by helper
<1>7. ASSUME (shared.value = added)',
             \A k \in Slots : Holds(k)' => /\ lock'[1] = k
                                           /\ Phase(pc'[k]) = 2 => tmp'[k] = shared'.value
      PROVE  (shared.value = added)' /\ CountInv'
  BY <1>7 DEF CountInv
<1>8. CASE NotifyRunner(h)
  <2>1. /\ op.do = "notify" /\ pc' = [pc EXCEPT ![h] = p + 1]
        /\ UNCHANGED <<tmp, shared, added, lock>>
    BY <1>8 DEF NotifyRunner, At, Hop, op, p
  <2>2. ~Holds(h)'
    BY <1>0, <1>1, <1>6, <2>1 DEF Holds, N
  <2> QED BY <1>3, <1>4, <1>6, <1>7, <2>1, <2>2 DEF Holds
<1>9. CASE TakeLock(h)
  <2>1. op.do = "take" /\ op.lock = "one"
    BY <1>1, <1>9 DEF TakeLock, At, op
  <2>2. /\ pc' = [pc EXCEPT ![h] = p + 1] /\ lock[1] = 0 /\ lock' = [lock EXCEPT ![1] = h]
        /\ UNCHANGED <<tmp, shared, added>>
    BY <1>5, <1>9, <2>1 DEF TakeLock, Hop, op, p
  <2>3. pc'[h] = p + 1 /\ lock'[1] = h /\ Phase(pc'[h]) = 1
    BY <1>1, <1>2, <1>6, <2>1, <2>2
  <2>4. \A k \in Slots : ~Holds(k)
    BY <1>3, <1>4, <2>2
  <2>5. \A k \in Slots \ {h} : ~Holds(k)'
    BY <1>6, <2>2, <2>4 DEF Holds
  <2> QED BY <1>7, <2>2, <2>3, <2>5
<1>10. CASE TakeExpires(h)
  <2>1. op.do = "take" /\ op.skip = 4
    BY <1>1, <1>10 DEF TakeExpires, At, op
  <2>2. /\ pc' = [pc EXCEPT ![h] = p + 4] /\ UNCHANGED <<tmp, shared, added, lock>>
    BY <1>10, <2>1 DEF TakeExpires, Hop, op, p
  <2>3. ~Holds(h)'
    BY <1>1, <1>2, <1>6, <2>1, <2>2 DEF Holds
  <2> QED BY <1>3, <1>4, <1>6, <1>7, <2>2, <2>3 DEF Holds
<1>11. CASE ReleaseLock(h)
  <2>1. op.do = "release" /\ op.skip = 1 /\ op.lock = "one"
    BY <1>1, <1>11 DEF ReleaseLock, At, op
  <2>2. /\ pc' = [pc EXCEPT ![h] = p + 1] /\ UNCHANGED <<tmp, shared, added>>
    BY <1>11, <2>1 DEF ReleaseLock, Hop, op, p
  <2>3. ~Holds(h)'
    BY <1>1, <1>2, <1>6, <2>1, <2>2 DEF Holds
  <2>4. Holds(h)
    BY <1>1, <2>1 DEF Holds, p, N
  <2>5. \A k \in Slots \ {h} : ~Holds(k)
    BY <1>4, <2>4
  <2>6. \A k \in Slots \ {h} : ~Holds(k)'
    BY <1>6, <2>2, <2>5 DEF Holds
  <2> QED BY <1>7, <2>2, <2>3, <2>6
<1>12. CASE ReadCounter(h)
  <2>1. /\ op.do = "read" /\ pc' = [pc EXCEPT ![h] = p + 1]
        /\ tmp' = [tmp EXCEPT ![h] = shared[op.of]] /\ UNCHANGED <<shared, added, lock>>
    BY <1>12 DEF ReadCounter, At, Hop, op, p
  <2>2. \A k \in Slots \ {h} : Holds(k)' => /\ lock'[1] = k
                                            /\ Phase(pc'[k]) = 2 => tmp'[k] = shared'.value
    BY <1>4, <1>6, <2>1 DEF Holds
  <2>3. CASE op.of = "value" /\ p \in 1..N /\ Phase(p) = 1
    <3>1. Holds(h)
      BY <2>3 DEF Holds, p, N
    <3>2. lock'[1] = h /\ tmp'[h] = shared'.value
      BY <1>4, <1>6, <2>1, <2>3, <3>1
    <3> QED BY <1>7, <2>1, <2>2, <3>2
  <2>4. CASE p > N
    <3>1. ~Holds(h)'
      BY <1>0, <1>6, <2>1, <2>4 DEF Holds, N
    <3> QED BY <1>7, <2>1, <2>2, <3>1
  <2> QED BY <1>1, <2>1, <2>3, <2>4
<1>13. CASE WriteCounter(h)
  <2>1. /\ op.do = "write" /\ pc' = [pc EXCEPT ![h] = p + 1] /\ UNCHANGED <<tmp, lock>>
        /\ shared' = [shared EXCEPT ![op.of] = tmp[h] + 1]
        /\ added' = added + (IF op.of = "value" THEN 1 ELSE 0)
    BY <1>13 DEF WriteCounter, At, Hop, op, p
  <2>2. CASE op.of = "value" /\ p \in 1..N /\ Phase(p) = 2
    <3>1. Holds(h) /\ lock[1] = h /\ tmp[h] = shared.value
      BY <1>4, <2>2 DEF Holds, p, N
    <3>2. shared'.value = added'
      BY <1>0, <1>6, <2>1, <2>2, <3>1
    <3>3. pc'[h] = p + 1 /\ Phase(pc'[h]) = 3 /\ lock'[1] = h
      BY <1>2, <1>6, <2>1, <2>2, <3>1
    <3>4. \A k \in Slots \ {h} : ~Holds(k)'
      BY <1>4, <1>6, <2>1, <3>1 DEF Holds
    <3> QED BY <1>7, <3>2, <3>3, <3>4
  <2>3. CASE op.of = "done" /\ p > N
    <3>1. ~Holds(h)'
      BY <1>0, <1>6, <2>1, <2>3 DEF Holds, N
    <3>2. shared'.value = shared.value /\ added' = added
      BY <1>0, <1>6, <2>1, <2>3
    <3>3. \A k \in Slots \ {h} : Holds(k)' => /\ lock'[1] = k
                                              /\ Phase(pc'[k]) = 2 => tmp'[k] = shared'.value
      BY <1>4, <1>6, <2>1, <3>2 DEF Holds
    <3> QED BY <1>7, <3>1, <3>2, <3>3
  <2> QED BY <1>1, <2>1, <2>2, <2>3
<1>14. CASE WriteResult(h) \/ SpinOnce(h) \/ ArriveAtBarrier(h) \/ MeetAtBarrier(h) \/ AwaitSignal(h)
  <2>1. op.do \in {"mark", "touch", "spin", "arrive", "meet", "await"}
    BY <1>14 DEF WriteResult, SpinOnce, ArriveAtBarrier, MeetAtBarrier, AwaitSignal, At, op
  <2> QED BY <1>1, <2>1
<1> QED
  BY <1>8, <1>9, <1>10, <1>11, <1>12, <1>13, <1>14 DEF HelperStep

\* What a task of the circular wait is about to do, by the line it is at.
LEMMA CircularOp ==
  ASSUME T = CircularWait, NEW h \in Slots, pc[h] \in 1..Len(Body(h))
  PROVE  LET op == HelperOp(h)  p == pc[h]
         IN  /\ p \in 1..10
             /\ op.do = "take" => \/ p = 1 /\ op.lock = "own" /\ op.skip = 8
                                  \/ p = 5 /\ op.lock = "other" /\ op.skip = 2
             /\ op.do = "release" => \/ p = 6 /\ op.lock = "other" /\ op.skip = 2
                                     \/ p = 8 /\ op.lock = "own" /\ op.skip = 1
             /\ op.do = "meet" => p = 4 /\ op.skip = 4
             /\ op.do = "mark" => p \in {2, 7, 9}
             /\ op.do = "arrive" => p = 3
             /\ op.do = "notify" => p = 10
             /\ op.do \in {"take", "release", "meet", "mark", "arrive", "notify"}
<1> DEFINE b == CircularBody
           p == pc[h]
           op == HelperOp(h)
<1>1. T.body[h] = b
  BY DEF CircularWait, Test, All
<1>2. p \in 1..Len(b) /\ op = b[p]
  BY <1>1 DEF Body, T, HelperOp
<1>3. Len(b) = 10
  BY DEF CircularBody
<1>4. /\ b[1] = Take("own", 8, FALSE) /\ b[2] = Mark /\ b[3] = Arrive /\ b[4] = Meet(4)
      /\ b[5] = Take("other", 2, TRUE) /\ b[6] = Release("other", 2) /\ b[7] = Mark
      /\ b[8] = Release("own", 1) /\ b[9] = Mark /\ b[10] = Notify
  BY DEF CircularBody
<1> HIDE DEF b, p, op
<1>5. p \in 1..10
  BY <1>2, <1>3
<1>6. CASE p = 1
  BY <1>2, <1>4, <1>6 DEF Take, op, p
<1>7. CASE p \in {2, 7, 9}
  BY <1>2, <1>4, <1>7 DEF Mark, op, p
<1>8. CASE p = 3
  BY <1>2, <1>4, <1>8 DEF Arrive, op, p
<1>9. CASE p = 4
  BY <1>2, <1>4, <1>9 DEF Meet, op, p
<1>10. CASE p = 5
  BY <1>2, <1>4, <1>10 DEF Take, op, p
<1>11. CASE p = 6
  BY <1>2, <1>4, <1>11 DEF Release, op, p
<1>12. CASE p = 8
  BY <1>2, <1>4, <1>12 DEF Release, op, p
<1>13. CASE p = 10
  BY <1>2, <1>4, <1>13 DEF Notify, op, p
<1> QED BY <1>5, <1>6, <1>7, <1>8, <1>9, <1>10, <1>11, <1>12, <1>13

LEMMA CircularHelperGrabs ==
  ASSUME test \in Nat \ {0}, Running, Types, T = CircularWait, GrabInv,
         NEW h \in Slots, HelperStep(h)
  PROVE  GrabInv'
<1> DEFINE op == HelperOp(h)
           p == pc[h]
           l == LockOf(h, op.lock)
<1>0. h \in Live /\ h \in Nat \ {0} /\ 1 \in Slots /\ 2 \in Slots
  BY RtosAssumption DEF HelperStep, At, WriteResult, SpinOnce, NotifyRunner, TakeLock, TakeExpires,
         ReleaseLock, ReadCounter, WriteCounter, ArriveAtBarrier, MeetAtBarrier, AwaitSignal
<1>1. /\ p \in 1..10
      /\ op.do = "take" => \/ p = 1 /\ op.lock = "own" /\ op.skip = 8
                           \/ p = 5 /\ op.lock = "other" /\ op.skip = 2
      /\ op.do = "release" => \/ p = 6 /\ op.lock = "other" /\ op.skip = 2
                              \/ p = 8 /\ op.lock = "own" /\ op.skip = 1
      /\ op.do = "meet" => p = 4 /\ op.skip = 4
      /\ op.do = "mark" => p \in {2, 7, 9}
      /\ op.do = "arrive" => p = 3
      /\ op.do = "notify" => p = 10
      /\ op.do \in {"take", "release", "meet", "mark", "arrive", "notify"}
  BY <1>0, Entry, CircularOp
<1>2. /\ op.lock = "own" => l = h
      /\ op.lock = "other" => l = 3 - h
  BY DEF LockOf
<1>3. /\ DOMAIN pc = Slots /\ DOMAIN lock = 1..2
      /\ lock[1] \in Nat /\ lock[2] \in Nat /\ pc[1] \in Nat /\ pc[2] \in Nat
  BY <1>0 DEF Types
<1>4. \A k \in {1, 2} : (pc[k] \in 2..8 => lock[k] = k) /\ (pc[k] = 6 => lock[3 - k] = k)
  BY DEF GrabInv
<1> HIDE DEF op, p, l
<1>5. ASSUME \A k \in {1, 2} : (pc'[k] \in 2..8 => lock'[k] = k) /\ (pc'[k] = 6 => lock'[3 - k] = k)
      PROVE  GrabInv'
  BY <1>5 DEF GrabInv
<1>6. CASE TakeLock(h)
  <2>1. /\ op.do = "take" /\ pc' = [pc EXCEPT ![h] = p + 1]
        /\ lock[l] = 0 /\ lock' = [lock EXCEPT ![l] = h]
    BY <1>6 DEF TakeLock, At, Hop, op, p, l
  <2>2. CASE h \in {1, 2}
    <3>1. CASE h = 1
      BY <1>1, <1>2, <1>3, <1>4, <1>5, <2>1, <3>1 DEF p
    <3>2. CASE h = 2
      BY <1>1, <1>2, <1>3, <1>4, <1>5, <2>1, <3>2 DEF p
    <3> QED BY <2>2, <3>1, <3>2
  <2>3. CASE h \notin {1, 2}
    <3>1. l \notin 1..2
      BY <1>0, <1>1, <1>2, <2>1, <2>3
    <3>2. lock' = lock /\ pc'[1] = pc[1] /\ pc'[2] = pc[2]
      BY <1>3, <2>1, <2>3, <3>1 DEF Types
    <3> QED BY <1>4, <1>5, <3>2
  <2> QED BY <2>2, <2>3
<1>7. CASE ReleaseLock(h)
  <2>1. /\ op.do = "release" /\ pc' = [pc EXCEPT ![h] = p + op.skip]
        /\ lock' = [lock EXCEPT ![l] = 0]
    BY <1>7 DEF ReleaseLock, At, Hop, op, p, l
  <2>2. CASE h \in {1, 2}
    <3>1. CASE h = 1
      BY <1>1, <1>2, <1>3, <1>4, <1>5, <2>1, <3>1 DEF p
    <3>2. CASE h = 2
      BY <1>1, <1>2, <1>3, <1>4, <1>5, <2>1, <3>2 DEF p
    <3> QED BY <2>2, <3>1, <3>2
  <2>3. CASE h \notin {1, 2}
    <3>1. l \notin 1..2
      BY <1>0, <1>1, <1>2, <2>1, <2>3
    <3>2. lock' = lock /\ pc'[1] = pc[1] /\ pc'[2] = pc[2]
      BY <1>3, <2>1, <2>3, <3>1 DEF Types
    <3> QED BY <1>4, <1>5, <3>2
  <2> QED BY <2>2, <2>3
<1>8. CASE TakeExpires(h)
  <2>1. op.do = "take" /\ pc' = [pc EXCEPT ![h] = p + op.skip] /\ lock' = lock
    BY <1>8 DEF TakeExpires, At, Hop, op, p
  <2> QED BY <1>0, <1>1, <1>3, <1>4, <1>5, <2>1 DEF p
<1>9. CASE MeetAtBarrier(h)
  <2>1. /\ op.do = "meet" /\ lock' = lock
        /\ \E n \in {1, 4} : pc' = [pc EXCEPT ![h] = p + n]
    BY <1>1, <1>9 DEF MeetAtBarrier, At, Hop, op, p
  <2> QED BY <1>0, <1>1, <1>3, <1>4, <1>5, <2>1 DEF p
<1>10. CASE WriteResult(h) \/ ArriveAtBarrier(h) \/ NotifyRunner(h)
  <2>1. /\ op.do \in {"mark", "arrive", "notify"} \/ op.do = "touch"
        /\ lock' = lock /\ pc' = [pc EXCEPT ![h] = p + 1]
    BY <1>10 DEF WriteResult, ArriveAtBarrier, NotifyRunner, At, Hop, op, p
  <2> QED BY <1>0, <1>1, <1>3, <1>4, <1>5, <2>1 DEF p
<1>11. CASE SpinOnce(h) \/ ReadCounter(h) \/ WriteCounter(h) \/ AwaitSignal(h)
  <2>1. op.do \in {"spin", "read", "write", "await"}
    BY <1>11 DEF SpinOnce, ReadCounter, WriteCounter, AwaitSignal, At, op
  <2> QED BY <1>1, <2>1
<1> QED
  BY <1>6, <1>7, <1>8, <1>9, <1>10, <1>11 DEF HelperStep

LEMMA HelperKeepsCore ==
  ASSUME test \in Nat \ {0}, Running, Core, NEW h \in Slots, HelperStep(h)
  PROVE  test' = test /\ Core'
<1>1. Types' /\ test' = test /\ at' = at
  BY HelperTypes DEF Core
<1>2. T' = T
  BY <1>1 DEF T
<1>3. T' \in Guarded => at' \in 1..Len(T'.run)
  BY <1>1, <1>2 DEF Core
<1>4. CASE T \in Counting
  BY <1>1, <1>2, <1>3, <1>4, CountingHelperCounts, CircularHelperGrabs DEF Core
<1>5. CASE T \notin Counting
  BY <1>1, <1>2, <1>3, <1>5, PlainHelperCounts, CircularHelperGrabs DEF Core
<1> QED BY <1>4, <1>5

-----------------------------------------------------------------------------
(* The runner's steps.                                                     *)

\* A test begins on a fresh frame.
LEMMA FreshCore ==
  ASSUME Fresh, at' = 1
  PROVE  Core'
<1>1. /\ pc' = [h \in Slots |-> 0] /\ tmp' = [h \in Slots |-> 0]
      /\ shared' = [value |-> 0, done |-> 0] /\ lock' = <<0, 0>> /\ added' = 0
  BY DEF Fresh
<1>2. Types'
  BY <1>1 DEF Types
<1>3. CountInv' /\ GrabInv'
  BY <1>1, RtosAssumption DEF CountInv, Holds, GrabInv
<1>4. \A t \in Guarded : 1 \in 1..Len(t.run)
  BY GuardedRuns
<1> QED BY <1>1, <1>2, <1>3, <1>4 DEF Core

\* A step of the runner in the frame of one test: helpers are created, nothing
\* is counted, and the mutexes are taken only outside the guarded tests.
LEMMA FrameCore ==
  ASSUME Core, test' = test, UNCHANGED <<tmp, shared, added>>,
         pc' = pc \/ \E h : pc' = [pc EXCEPT ![h] = 1],
         lock' \in [1..2 -> Nat],
         T \in Guarded => at' \in 1..Len(T.run) /\ lock' = lock
  PROVE  Core'
<1>1. T' = T
  BY DEF T
<1>2. Types'
  <2>1. pc' \in [Slots -> Nat]
    BY DEF Core, Types
  <2> QED BY <2>1 DEF Core, Types
<1>3. \A h \in Slots : pc'[h] = pc[h] \/ pc'[h] = 1
  BY DEF Core, Types
<1>4. Phase(1) = 0
  BY DEF Phase
<1>5. T \in Counting => CountInv'
  BY <1>3, <1>4 DEF Core, CountInv, Holds, Guarded
<1>6. T = CircularWait => GrabInv'
  <2>1. 1 \in Slots /\ 2 \in Slots
    BY RtosAssumption
  <2> QED BY <1>3, <2>1 DEF Core, GrabInv, Guarded
<1> QED BY <1>1, <1>2, <1>5, <1>6 DEF Core

\* A test returns, and its frame goes with it.
LEMMA ReturnCore ==
  ASSUME test \in Nat \ {0}, Running, NEW verdict, NEW left, Return(verdict, left)
  PROVE  test' \in Nat \ {0} /\ Core'
<1>1. T.fail \in {1, 2}
  <2>1. T \in Tests
    BY TestNow
  <2> QED BY <2>1, PlainTests, CountingTests DEF Fails
<1>2. test' = test + 1 \/ test' = test + T.fail
  BY DEF Return, T
<1>3. test' \in Nat \ {0}
  BY <1>1, <1>2
<1> QED BY <1>3, FreshCore DEF Return

LEMMA RunnerKeepsCore ==
  ASSUME test \in Nat \ {0}, Running, Core, Runner
  PROVE  test' \in Nat \ {0} /\ Core'
<1>0. /\ lock \in [1..2 -> Nat]
      /\ T \in Guarded => at \in 1..Len(T.run) /\ RunFits(T.run)
  BY GuardedRuns DEF Core, Types
<1>1. /\ Op = T.run[at]
      /\ T \in Guarded =>
           /\ Op.do \in {"create", "join", "check", "kill", "unless"}
           /\ Op.do \in {"create", "join", "unless"} => at + 1 \in 1..Len(T.run)
           /\ Op.do = "unless" => at + 2 \in 1..Len(T.run)
           /\ Op.do \in {"create", "join"} => Op.to = 0 \/ Op.to \in 1..Len(T.run)
           /\ Op.do = "create" => Op.to # 0
  BY <1>0 DEF Op, T, RunFits
\* the steps within the frame of a test
<1>2. ASSUME test' = test, UNCHANGED <<tmp, shared, added, lock>>,
             pc' = pc \/ \E h : pc' = [pc EXCEPT ![h] = 1],
             T \in Guarded => at' \in 1..Len(T.run)
      PROVE  test' \in Nat \ {0} /\ Core'
  BY <1>0, <1>2, FrameCore
<1>3. CASE CreateHelper
  <2>1. pc' = pc \/ \E h : pc' = [pc EXCEPT ![h] = 1]
    BY <1>3 DEF CreateHelper
  <2>2. T \in Guarded => at' \in 1..Len(T.run)
    BY <1>1, <1>3 DEF CreateHelper
  <2>3. test' = test /\ UNCHANGED <<tmp, shared, added, lock>>
    BY <1>3 DEF CreateHelper
  <2> QED BY <1>2, <2>1, <2>2, <2>3
<1>4. CASE CreateRefused
  BY <1>1, <1>2, <1>4 DEF CreateRefused, Jump
<1>5. CASE SpawnEnds
  <2>1. Op.do = "spawn" /\ UNCHANGED <<test, tmp, shared, added, lock, pc>>
    BY <1>5 DEF SpawnEnds
  <2>2. T \notin Guarded
    BY <1>1, <2>1
  <2> QED BY <1>2, <2>1, <2>2
<1>6. CASE JoinAnswer
  <2>1. Op.do = "join" /\ UNCHANGED <<test, tmp, shared, added, lock, pc>>
    BY <1>6 DEF JoinAnswer
  <2>2. at' = at + 1 \/ at' = at
    BY <1>6 DEF JoinAnswer, Step, Goto
  <2> QED BY <1>0, <1>1, <1>2, <2>1, <2>2
<1>7. CASE JoinNothing
  BY <1>1, <1>2, <1>7 DEF JoinNothing, Goto, ctx
<1>8. CASE JoinExpires
  <2>1. Op.do = "join" /\ UNCHANGED <<test, tmp, shared, added, lock, pc>>
    BY <1>8 DEF JoinExpires
  <2>2. at' = at + 1 \/ at' = at \/ (Op.to # 0 /\ at' = Op.to)
    BY <1>8 DEF JoinExpires, Step, Goto
  <2> QED BY <1>0, <1>1, <1>2, <2>1, <2>2
<1>9. CASE PauseEnds \/ StopHelpers \/ SampleCounter \/ WaiterReady \/ WakeWaiter
  <2>1. /\ Op.do \in {"pause", "stop", "sample", "ready", "wake"}
        /\ UNCHANGED <<test, tmp, shared, added, lock, pc>>
    BY <1>9 DEF PauseEnds, StopHelpers, SampleCounter, WaiterReady, WakeWaiter, ctx
  <2>2. T \notin Guarded
    BY <1>1, <2>1
  <2> QED BY <1>2, <2>1, <2>2
<1>10. CASE RunnerLocks
  <2>1. /\ Op.do \in {"lock", "unlock"} /\ UNCHANGED <<test, tmp, shared, added, pc>>
        /\ \E n \in {RUNNER, 0} : lock' = [lock EXCEPT ![1] = n]
    BY <1>10 DEF RunnerLocks
  <2>2. T \notin Guarded
    BY <1>1, <2>1
  <2>3. lock' \in [1..2 -> Nat]
    BY <1>0, <2>1 DEF RUNNER
  <2> QED BY <2>1, <2>2, <2>3, FrameCore
<1>11. CASE UnlessCreated
  <2>1. Op.do = "unless" /\ UNCHANGED <<test, tmp, shared, added, lock, pc>>
    BY <1>11 DEF UnlessCreated, ctx
  <2>2. at' = at + 1 \/ at' = at + 2
    BY <1>11 DEF UnlessCreated
  <2> QED BY <1>1, <1>2, <2>1, <2>2
<1>12. CASE CheckResult
  BY <1>12, ReturnCore DEF CheckResult
<1>13. CASE KillHelpers
  BY <1>13, ReturnCore DEF KillHelpers
<1> QED
  BY <1>3, <1>4, <1>5, <1>6, <1>7, <1>8, <1>9, <1>10, <1>11, <1>12, <1>13 DEF Runner

-----------------------------------------------------------------------------
(* The theorems.                                                           *)

\* What every test of every suite keeps, whatever is refused, expires or is left
\* running: the values of the context and, where a mutex guards them, who holds it.
THEOREM SelfTestCorrect == Spec => []RtosInv
<1>1. Init => RtosInv
  <2> SUFFICES ASSUME Init
               PROVE  RtosInv
    OBVIOUS
  <2>1. /\ test = 1 /\ at = 1 /\ pc = [h \in Slots |-> 0] /\ tmp = [h \in Slots |-> 0]
        /\ shared = [value |-> 0, done |-> 0] /\ lock = <<0, 0>> /\ added = 0
    BY DEF Init
  <2>2. Types
    BY <2>1 DEF Types
  <2>3. CountInv /\ GrabInv
    BY <2>1, RtosAssumption DEF CountInv, Holds, GrabInv
  <2>4. \A t \in Guarded : 1 \in 1..Len(t.run)
    BY GuardedRuns
  <2> QED BY <2>1, <2>2, <2>3, <2>4 DEF RtosInv, Core
<1>2. RtosInv /\ [Next]_vars => RtosInv'
  <2> SUFFICES ASSUME RtosInv, [Next]_vars
               PROVE  RtosInv'
    OBVIOUS
  <2>1. CASE Runner
    <3>1. Running
      BY <2>1 DEF Runner, CreateHelper, CreateRefused, SpawnEnds, JoinAnswer, JoinNothing,
             JoinExpires, PauseEnds, StopHelpers, SampleCounter, RunnerLocks, WaiterReady,
             WakeWaiter, UnlessCreated, CheckResult, KillHelpers
    <3> QED BY <2>1, <3>1, RunnerKeepsCore DEF RtosInv
  <2>2. ASSUME NEW h \in Slots, HelperStep(h)
        PROVE  RtosInv'
    <3>1. Running
      BY <2>2 DEF Running, HelperStep, At, WriteResult, SpinOnce, NotifyRunner, TakeLock,
             TakeExpires, ReleaseLock, ReadCounter, WriteCounter, ArriveAtBarrier,
             MeetAtBarrier, AwaitSignal
    <3> QED BY <2>2, <3>1, HelperKeepsCore DEF RtosInv
  <2>3. CASE StrayRuns \/ UNCHANGED vars
    <3>1. UNCHANGED <<test, at, ctx>>
      BY <2>3 DEF StrayRuns, vars
    <3>2. Running' => Running
      BY <2>3, <3>1 DEF StrayRuns, vars, Running
    <3>3. Core => Core'
      BY <3>1 DEF ctx, Core, T, Types, CountInv, Holds, GrabInv
    <3> QED BY <3>1, <3>2, <3>3 DEF RtosInv
  <2> QED BY <2>1, <2>2, <2>3 DEF Next
<1> QED BY <1>1, <1>2, PTL DEF Spec

\* No increment made under the mutex is lost, with any number of workers and of
\* rounds and whichever takes expire (sharedWorker, crossCoreWorker, counterWorker).
THEOREM LockedCountExactAlways == Spec => []LockedCountExact
<1>1. RtosInv => LockedCountExact
  BY DEF RtosInv, Core, LockedCountExact
<1> QED BY <1>1, SelfTestCorrect, PTL

\* The two tasks of the circular wait never hold the other's mutex at once,
\* wherever their takes expire (circular_wait.cpp).
THEOREM NeverBothAcquireAlways == Spec => []NeverBothAcquire
<1>1. RtosInv => NeverBothAcquire
  <2> SUFFICES ASSUME RtosInv, Running, T = CircularWait,
                      \A h \in {1, 2} : /\ pc[h] > 0 /\ pc[h] <= Len(Body(h))
                                        /\ HelperOp(h).do = "release"
                                        /\ HelperOp(h).lock = "other"
               PROVE  FALSE
    BY DEF NeverBothAcquire, T
  <2>1. 1 \in Slots /\ 2 \in Slots /\ pc[1] \in Nat /\ pc[2] \in Nat
    BY RtosAssumption DEF RtosInv, Core, Types
  <2>2. \A h \in {1, 2} : pc[h] \in 1..Len(Body(h))
    <3>1. \A h \in {1, 2} : h \in Live
      BY <2>1 DEF Live, Used
    <3> QED BY <2>1, <3>1, Entry DEF RtosInv, Core
  <2>3. \A h \in {1, 2} : pc[h] = 6
    BY <2>1, <2>2, CircularOp
  <2>4. lock[3 - 1] = 1 /\ lock[2] = 2
    BY <2>3 DEF RtosInv, Core, GrabInv
  <2> QED BY <2>4
<1> QED BY <1>1, SelfTestCorrect, PTL

-----------------------------------------------------------------------------
(* A test that passes is clean: the bodies of the helpers.                 *)

Answering ==
  {Probe, Preemption, Integrity, CircularWait, PriorityInversion, StaticAllocation,
   SharedMemory, TaskMigration, InterCore, CrossCore, Concurrency, HundredPlus,
   RapidCreateDelete, RapidAgain, CreationPatterns, PatternsAgain}
Spinning == {PriorityLoop, RoundRobin, Wcet, Starvation}

LEMMA TestKinds == Tests = Answering \cup Spinning \cup {ConditionVariable}
  BY DEF Tests, Answering, Spinning

\* The last thing such a helper does, and does once, is to notify the runner;
\* no jump of its body leads beyond that.
Before(n, i, op) ==
  /\ op.do \in {"mark", "take", "release", "read", "write", "arrive", "meet"}
  /\ op.do \in {"take", "release", "meet"} => op.skip \in Nat /\ i + op.skip <= n
Answers(b) ==
  /\ Len(b) \in Nat \ {0} /\ b[Len(b)].do = "notify"
  /\ \A i \in 1..(Len(b) - 1) : Before(Len(b), i, b[i])

AnswerBodies == {OneShot, IntegrityBody, CircularBody, InversionBody, StaticBody, NotifyBody}

LEMMA EntriesBefore ==
  /\ \A n, i : /\ Before(n, i, Mark) /\ Before(n, i, Arrive)
               /\ \A v : Before(n, i, Read(v)) /\ Before(n, i, Write(v))
  /\ \A n, i, k \in Nat : i + k <= n =>
       /\ Before(n, i, Meet(k))
       /\ \A l, m : Before(n, i, Take(l, k, m)) /\ Before(n, i, Release(l, k))
BY DEF Before, Mark, Arrive, Read, Write, Meet, Take, Release

LEMMA PlainAnswers ==
  ASSUME NEW b \in AnswerBodies
  PROVE  Answers(b)
<1>0. Notify.do = "notify"
  BY DEF Notify
<1>1. CASE b = OneShot
  <2>1. Len(b) = 2 /\ b[1] = Mark /\ b[2] = Notify
    BY <1>1 DEF OneShot
  <2> QED BY <1>0, <2>1, EntriesBefore DEF Answers
<1>2. CASE b = IntegrityBody
  <2>1. Len(b) = 4 /\ b[1] = Mark /\ b[2] = Read("done") /\ b[3] = Write("done") /\ b[4] = Notify
    BY <1>2 DEF IntegrityBody
  <2>2. Before(4, 1, b[1]) /\ Before(4, 2, b[2]) /\ Before(4, 3, b[3])
    BY <2>1, EntriesBefore, Zenon
  <2> QED BY <1>0, <2>1, <2>2 DEF Answers
<1>3. CASE b = CircularBody
  <2>1. Len(b) = 10
    BY <1>3 DEF CircularBody
  <2>2. /\ b[1] = Take("own", 8, FALSE) /\ b[2] = Mark /\ b[3] = Arrive /\ b[4] = Meet(4)
        /\ b[5] = Take("other", 2, TRUE) /\ b[6] = Release("other", 2) /\ b[7] = Mark
        /\ b[8] = Release("own", 1) /\ b[9] = Mark /\ b[10] = Notify
    BY <1>3 DEF CircularBody
  <2>3. /\ Before(10, 1, Take("own", 8, FALSE)) /\ Before(10, 4, Meet(4))
        /\ Before(10, 5, Take("other", 2, TRUE)) /\ Before(10, 6, Release("other", 2))
        /\ Before(10, 8, Release("own", 1))
    BY DEF Before, Take, Meet, Release
  <2>4. /\ Before(10, 1, b[1]) /\ Before(10, 2, b[2]) /\ Before(10, 3, b[3])
        /\ Before(10, 4, b[4]) /\ Before(10, 5, b[5]) /\ Before(10, 6, b[6])
        /\ Before(10, 7, b[7]) /\ Before(10, 8, b[8]) /\ Before(10, 9, b[9])
    BY <2>2, <2>3, EntriesBefore, Zenon
  <2>5. b[10].do = "notify"
    BY <1>0, <2>2, Zenon
  <2> QED BY <2>1, <2>4, <2>5 DEF Answers
<1>4. CASE b = InversionBody
  <2>1. Len(b) = 4
    BY <1>4 DEF InversionBody
  <2>2. b[1] = Take("one", 3, FALSE) /\ b[2] = Mark /\ b[3] = Release("one", 1) /\ b[4] = Notify
    BY <1>4 DEF InversionBody
  <2>3. Before(4, 1, Take("one", 3, FALSE)) /\ Before(4, 3, Release("one", 1))
    BY DEF Before, Take, Release
  <2>4. Before(4, 1, b[1]) /\ Before(4, 2, b[2]) /\ Before(4, 3, b[3])
    BY <2>2, <2>3, EntriesBefore, Zenon
  <2>5. b[4].do = "notify"
    BY <1>0, <2>2, Zenon
  <2> QED BY <2>1, <2>4, <2>5 DEF Answers
<1>5. CASE b = StaticBody
  <2>1. Len(b) = 3 /\ b[1] = Mark /\ b[2] = Mark /\ b[3] = Notify
    BY <1>5 DEF StaticBody
  <2> QED BY <1>0, <2>1, EntriesBefore DEF Answers
<1>6. CASE b = NotifyBody
  <2>1. Len(b) = 1 /\ b[1] = Notify
    BY <1>6 DEF NotifyBody
  <2> QED BY <1>0, <2>1 DEF Answers
<1> QED BY <1>1, <1>2, <1>3, <1>4, <1>5, <1>6 DEF AnswerBodies

LEMMA Joining ==
  ASSUME NEW S, NEW a \in Seq(S), NEW b \in Seq(S)
  PROVE  /\ Len(a \o b) = Len(a) + Len(b)
         /\ \A k \in 1..Len(b) : (a \o b)[Len(a) + k] = b[k]
  OBVIOUS

LEMMA CountingTail ==
  ASSUME NEW b \in CountingBodies
  PROVE  \E k \in {1, 3} :
           /\ Len(b) = 4 * Rounds + k /\ b[4 * Rounds + k] = Notify
           /\ k = 3 => /\ b[4 * Rounds + 1] = Read("done")
                       /\ b[4 * Rounds + 2] = Write("done")
<1> DEFINE Entries == {CountRound[j] : j \in 1..4} \cup {Read("done"), Write("done"), Notify}
<1>1. 4 * Rounds \in Nat
  BY RtosAssumption
<1>2. CountBody \in Seq(Entries) /\ Len(CountBody) = 4 * Rounds
  BY CountBodyIs
<1>3. Notify \in Entries /\ Read("done") \in Entries /\ Write("done") \in Entries
  OBVIOUS
<1> HIDE DEF Entries
<1>4. CASE b = CrossBody
  <2>1. <<Notify>> \in Seq(Entries) /\ Len(<<Notify>>) = 1 /\ <<Notify>>[1] = Notify
    BY <1>3
  <2>2. b = CountBody \o <<Notify>>
    BY <1>4 DEF CrossBody
  <2>3. Len(b) = 4 * Rounds + 1 /\ b[4 * Rounds + 1] = Notify
    <3>1. PICK u : u = <<Notify>>
      OBVIOUS
    <3>2. u \in Seq(Entries) /\ Len(u) = 1 /\ u[1] = Notify /\ b = CountBody \o u
      BY <2>1, <2>2, <3>1
    <3>3. Len(b) = Len(CountBody) + Len(u) /\ b[Len(CountBody) + 1] = u[1]
      BY <1>2, <3>2, Joining
    <3> QED BY <1>2, <3>2, <3>3
  <2> QED BY <2>3
<1>5. CASE b = SharedBody
  <2>1. PICK u : u = <<Read("done"), Write("done"), Notify>>
    OBVIOUS
  <2>2. /\ u \in Seq(Entries) /\ Len(u) = 3 /\ u[1] = Read("done") /\ u[2] = Write("done")
        /\ u[3] = Notify
    BY <1>3, <2>1
  <2>3. b = CountBody \o u
    BY <1>5, <2>1 DEF SharedBody
  <2>4. /\ Len(b) = 4 * Rounds + 3
        /\ \A i \in 1..3 : b[4 * Rounds + i] = u[i]
    <3>1. /\ Len(b) = Len(CountBody) + Len(u)
          /\ \A i \in 1..Len(u) : b[Len(CountBody) + i] = u[i]
      <4>1. u \in Seq(Entries) /\ CountBody \in Seq(Entries)
        BY <1>2, <2>2
      <4> QED BY <2>3, <4>1, Joining, Zenon
    <3> QED BY <1>2, <2>2, <3>1
  <2> QED BY <2>2, <2>4
<1> QED BY <1>4, <1>5 DEF CountingBodies

LEMMA CountingAnswers ==
  ASSUME NEW b \in CountingBodies
  PROVE  Answers(b)
<1>1. PICK k \in {1, 3} :
        /\ Len(b) = 4 * Rounds + k /\ b[4 * Rounds + k] = Notify
        /\ k = 3 => /\ b[4 * Rounds + 1] = Read("done")
                    /\ b[4 * Rounds + 2] = Write("done")
  BY CountingTail
<1> DEFINE N == 4 * Rounds
<1>2. N \in Nat /\ Rounds \in Nat /\ Len(b) = N + k
  BY <1>1, RtosAssumption
<1>3. ASSUME NEW i \in 1..(Len(b) - 1)
      PROVE  Before(Len(b), i, b[i])
  <2>1. CASE i <= N
    <3>1. i \in 1..(4 * Rounds) /\ i \in Nat \ {0}
      BY <1>2, <2>1
    <3>2. Phase(i) = 0 \/ Phase(i) = 1 \/ Phase(i) = 2 \/ Phase(i) = 3
      BY <3>1, Phases
    <3>3. /\ Phase(i) = 0 => b[i] = Take("one", 4, FALSE)
          /\ Phase(i) = 1 => b[i] = Read("value")
          /\ Phase(i) = 2 => b[i] = Write("value")
          /\ Phase(i) = 3 => b[i] = Release("one", 1)
      BY <3>1, CountingBody
    <3>4. Phase(i) = 0 => i + 4 <= Len(b)
      BY <1>2, <3>1 DEF Phase
    <3>5. i \in Nat /\ Len(b) \in Nat /\ i + 1 <= Len(b) /\ 4 \in Nat /\ 1 \in Nat
      BY <1>2, <3>1
    <3>6. Phase(i) = 0 => Before(Len(b), i, Take("one", 4, FALSE))
      BY <3>4, <3>5, EntriesBefore
    <3>7. Before(Len(b), i, Release("one", 1))
      BY <3>5, EntriesBefore
    <3> QED BY <3>2, <3>3, <3>6, <3>7, EntriesBefore, Zenon
  <2>2. CASE ~(i <= N)
    <3>1. k = 3 /\ (i = N + 1 \/ i = N + 2)
      BY <1>2, <2>2
    <3>2. b[i] = Read("done") \/ b[i] = Write("done")
      BY <1>1, <3>1
    <3> QED BY <3>2, EntriesBefore, Zenon
  <2> QED BY <2>1, <2>2
<1>4. Len(b) \in Nat \ {0} /\ b[Len(b)].do = "notify"
  BY <1>1, <1>2 DEF Notify
<1> QED BY <1>3, <1>4 DEF Answers

LEMMA AnsweringBodies ==
  ASSUME NEW t \in Answering, NEW h \in Slots
  PROVE  Answers(t.body[h])
<1>1. CASE t \in {SharedMemory, CrossCore, Concurrency}
  BY <1>1, CountingTests, CountingAnswers DEF Bodies, Counting
<1>2. CASE t \in {Probe, Preemption, TaskMigration, InterCore}
  <2>1. \A run : /\ Test(run, All(OneShot)).body[h] = OneShot
                 /\ First(run, All(OneShot)).body[h] = OneShot
    BY DEF Test, First, All
  <2>2. t.body[h] = OneShot
    BY <1>2, <2>1 DEF Probe, Preemption, TaskMigration, InterCore
  <2> QED BY <2>2, PlainAnswers DEF AnswerBodies
<1>3. CASE t \in {HundredPlus, RapidCreateDelete, RapidAgain, CreationPatterns, PatternsAgain}
  <2>1. \A run : /\ Test(run, All(<<Notify>>)).body[h] = NotifyBody
                 /\ First(run, All(<<Notify>>)).body[h] = NotifyBody
                 /\ [First(run, All(<<Notify>>)) EXCEPT !.fail = 1].body[h] = NotifyBody
    BY DEF Test, First, All, NotifyBody
  <2>2. t.body[h] = NotifyBody
    BY <1>3, <2>1 DEF HundredPlus, RapidCreateDelete, RapidAgain, CreationPatterns, PatternsAgain
  <2> QED BY <2>2, PlainAnswers DEF AnswerBodies
<1>4. CASE t = Integrity
  <2>1. t.body[h] = IntegrityBody
    BY <1>4 DEF Integrity, Test, All, IntegrityBody
  <2> QED BY <2>1, PlainAnswers DEF AnswerBodies
<1>5. CASE t = CircularWait
  <2>1. t.body[h] = CircularBody
    BY <1>5 DEF CircularWait, Test, All
  <2> QED BY <2>1, PlainAnswers DEF AnswerBodies
<1>6. CASE t = PriorityInversion
  <2>1. t.body[h] = InversionBody
    BY <1>6 DEF PriorityInversion, Test, All, InversionBody
  <2> QED BY <2>1, PlainAnswers DEF AnswerBodies
<1>7. CASE t = StaticAllocation
  <2>1. t.body[h] = StaticBody
    BY <1>7 DEF StaticAllocation, Test, All, StaticBody
  <2> QED BY <2>1, PlainAnswers DEF AnswerBodies
<1> QED BY <1>1, <1>2, <1>3, <1>4, <1>5, <1>6, <1>7 DEF Answering

-----------------------------------------------------------------------------
(* The runs.                                                               *)

\* The runner creates its helpers, as many as c counts, joins as many at j, and
\* only then looks at the result or deletes them.
CreatesAt(run, j, c, i) ==
  /\ run[i].do \in {"create", "spawn", "lock", "unlock", "pause", "unless"}
  /\ run[i].do = "create" => c[i + 1] = c[i] + 1
  /\ run[i].do \in {"lock", "unlock", "pause", "unless"} => c[i + 1] = c[i]
  /\ run[i].do = "spawn" => /\ run[j].n = 0
                            /\ run[i].enough = 0 \/ (run[i].enough = Enough /\ ~run[i].some)
Joins(run, j, c) ==
  /\ Len(run) \in Nat /\ j \in 2..(Len(run) - 1)
  /\ c \in [1..j -> Nat] /\ c[1] = 0
  /\ \A i \in 1..(j - 1) : CreatesAt(run, j, c, i)
  /\ run[j].do = "join" /\ (run[j].n = 0 \/ run[j].n = c[j])
  /\ run[j].to = 0 \/ run[j].to \in (j + 1)..Len(run)
  /\ \A i \in (j + 1)..Len(run) : run[i].do \in {"check", "kill"}

LEMMA OneHelperJoins ==
  ASSUME NEW run, Len(run) \in 3..4, run[1].do = "create", run[2].do = "join", run[2].n = 1,
         run[2].to \in 3..Len(run), \A i \in 3..Len(run) : run[i].do \in {"check", "kill"}
  PROVE  \E j, c : Joins(run, j, c)
<1> DEFINE c == [i \in 1..2 |-> i - 1]
<1>1. c \in [1..2 -> Nat] /\ c[1] = 0 /\ c[2] = 1
  OBVIOUS
<1> HIDE DEF c
<1>2. \A i \in 1..1 : CreatesAt(run, 2, c, i)
  BY <1>1 DEF CreatesAt
<1>3. 1..1 = 1..(2 - 1) /\ 2 + 1 = 3 /\ 2 \in 2..(Len(run) - 1) /\ Len(run) \in Nat
  OBVIOUS
<1>4. Joins(run, 2, c)
  BY <1>1, <1>2, <1>3 DEF Joins
<1> QED BY <1>4

LEMMA TwoHelpersJoin ==
  ASSUME NEW run, Len(run) \in 4..5, run[1].do = "create", run[2].do = "create",
         run[3].do = "join", run[3].n = 2, run[3].to = 0 \/ run[3].to \in 4..Len(run),
         \A i \in 4..Len(run) : run[i].do \in {"check", "kill"}
  PROVE  \E j, c : Joins(run, j, c)
<1> DEFINE c == [i \in 1..3 |-> i - 1]
<1>1. c \in [1..3 -> Nat] /\ c[1] = 0 /\ c[2] = 1 /\ c[3] = 2
  OBVIOUS
<1> HIDE DEF c
<1>2. \A i \in 1..2 : CreatesAt(run, 3, c, i)
  BY <1>1 DEF CreatesAt
<1>3. 1..2 = 1..(3 - 1) /\ 3 + 1 = 4 /\ 3 \in 2..(Len(run) - 1) /\ Len(run) \in Nat
  OBVIOUS
<1>4. Joins(run, 3, c)
  BY <1>1, <1>2, <1>3 DEF Joins
<1> QED BY <1>4

LEMMA SpawnedJoin ==
  ASSUME NEW run, Len(run) = 3, run[1].do = "spawn", run[2].do = "join", run[2].n = 0,
         run[1].enough = 0 \/ (run[1].enough = Enough /\ ~run[1].some),
         run[2].to = 3, run[3].do = "check"
  PROVE  \E j, c : Joins(run, j, c)
<1> DEFINE c == [i \in 1..2 |-> 0]
<1>1. c \in [1..2 -> Nat] /\ c[1] = 0 /\ c[2] = 0
  OBVIOUS
<1> HIDE DEF c
<1>2. \A i \in 1..1 : CreatesAt(run, 2, c, i)
  BY <1>1 DEF CreatesAt
<1>3. /\ 1..1 = 1..(2 - 1) /\ 2 + 1 = 3 /\ 2 \in 2..(Len(run) - 1) /\ Len(run) \in Nat
      /\ \A i \in 3..Len(run) : i = 3
  OBVIOUS
<1>4. Joins(run, 2, c)
  BY <1>1, <1>2, <1>3 DEF Joins
<1> QED BY <1>4

LEMMA AnsweringRuns ==
  ASSUME NEW t \in Answering
  PROVE  \E j, c : Joins(t.run, j, c)
<1> DEFINE run == t.run
<1> USE DEF Create, Join, Counted, Checked, Check, Kill, Simple, Spawn, Pause
<1>1. CASE t \in {Probe, Preemption, TaskMigration, InterCore}
  <2>1. /\ Len(run) = 3 /\ run[1].do = "create" /\ run[2].do = "join" /\ run[2].n = 1
        /\ run[2].to = 3 /\ run[3].do = "check"
    BY <1>1 DEF Probe, Preemption, TaskMigration, InterCore, Test, First
  <2> HIDE DEF run
  <2> QED BY <2>1, OneHelperJoins DEF run
<1>2. CASE t = StaticAllocation
  <2>1. /\ Len(run) = 4 /\ run[1].do = "create" /\ run[2].do = "join" /\ run[2].n = 1
        /\ run[2].to = 4 /\ run[3].do = "check" /\ run[4].do = "kill"
    BY <1>2 DEF StaticAllocation, Test
  <2> HIDE DEF run
  <2>2. \A i \in 3..Len(run) : run[i].do \in {"check", "kill"}
    BY <2>1
  <2> QED BY <2>1, <2>2, OneHelperJoins DEF run
<1>3. CASE t \in {RapidCreateDelete, RapidAgain}
  <2>1. /\ Len(run) = 4 /\ run[1].do = "create" /\ run[2].do = "join" /\ run[2].n = 1
        /\ run[2].to = 4 /\ run[3].do = "check" /\ run[4].do = "kill"
    BY <1>3 DEF RapidCreateDelete, RapidAgain, First
  <2> HIDE DEF run
  <2>2. \A i \in 3..Len(run) : run[i].do \in {"check", "kill"}
    BY <2>1
  <2> QED BY <2>1, <2>2, OneHelperJoins DEF run
<1>4. CASE t \in {Integrity, SharedMemory}
  <2>1. /\ Len(run) = 4 /\ run[1].do = "create" /\ run[2].do = "create" /\ run[3].do = "join"
        /\ run[3].n = 2 /\ run[3].to \in {0, 4} /\ run[4].do = "check"
    BY <1>4 DEF Integrity, SharedMemory, Test
  <2> HIDE DEF run
  <2>2. \A i \in 4..Len(run) : run[i].do \in {"check", "kill"}
    BY <2>1
  <2>3. run[3].to = 0 \/ run[3].to \in 4..Len(run)
    BY <2>1
  <2>4. Len(run) \in 4..5
    BY <2>1
  <2>5. \E j, c : Joins(run, j, c)
    BY <2>1, <2>2, <2>3, <2>4, TwoHelpersJoin
  <2> QED BY <2>5 DEF run
<1>5. CASE t \in {CircularWait, Concurrency}
  <2>1. /\ Len(run) = 5 /\ run[1].do = "create" /\ run[2].do = "create" /\ run[3].do = "join"
        /\ run[3].n = 2 /\ run[3].to \in {4, 5} /\ run[4].do = "check" /\ run[5].do = "kill"
    BY <1>5 DEF CircularWait, Concurrency, Test
  <2> HIDE DEF run
  <2>2. \A i \in 4..Len(run) : run[i].do \in {"check", "kill"}
    BY <2>1
  <2>3. run[3].to \in 4..Len(run) /\ Len(run) \in 4..5
    BY <2>1
  <2>4. \E j, c : Joins(run, j, c)
    BY <2>1, <2>2, <2>3, TwoHelpersJoin
  <2> QED BY <2>4 DEF run
<1>6. CASE t \in {HundredPlus, CreationPatterns, PatternsAgain}
  <2>1. /\ Len(run) = 3 /\ run[1].do = "spawn" /\ run[2].do = "join" /\ run[2].n = 0
        /\ run[1].enough = 0 \/ (run[1].enough = Enough /\ ~run[1].some)
        /\ run[2].to = 3 /\ run[3].do = "check"
    BY <1>6 DEF HundredPlus, CreationPatterns, PatternsAgain, Test, First
  <2> HIDE DEF run
  <2> QED BY <2>1, SpawnedJoin DEF run
<1>7. CASE t = CrossCore
  <2>1. /\ Len(run) = 5 /\ run[1].do = "create" /\ run[2].do = "create" /\ run[3].do = "unless"
        /\ run[4].do = "join" /\ run[4].n = 2 /\ run[4].to = 0 /\ run[5].do = "check"
    BY <1>7 DEF CrossCore, Test
  <2> DEFINE c == [i \in 1..4 |-> IF i = 1 THEN 0 ELSE IF i = 2 THEN 1 ELSE 2]
  <2>2. c \in [1..4 -> Nat] /\ c[1] = 0 /\ c[2] = 1 /\ c[3] = 2 /\ c[4] = 2
    OBVIOUS
  <2> HIDE DEF c, run
  <2>3. CreatesAt(run, 4, c, 1) /\ CreatesAt(run, 4, c, 2) /\ CreatesAt(run, 4, c, 3)
    BY <2>1, <2>2 DEF CreatesAt
  <2>4. \A i \in 1..(4 - 1) : CreatesAt(run, 4, c, i)
    BY <2>3
  <2>5. /\ 4 \in 2..(Len(run) - 1) /\ Len(run) \in Nat
        /\ \A i \in (4 + 1)..Len(run) : run[i].do \in {"check", "kill"}
    BY <2>1
  <2>6. Joins(run, 4, c)
    BY <2>1, <2>2, <2>4, <2>5 DEF Joins
  <2> QED BY <2>6 DEF run
<1>8. CASE t = PriorityInversion
  <2>1. /\ Len(run) = 6 /\ run[1].do = "lock" /\ run[2].do = "create" /\ run[3].do = "pause"
        /\ run[4].do = "unlock" /\ run[5].do = "join" /\ run[5].n = 1 /\ run[5].to = 0
        /\ run[6].do = "check"
    BY <1>8 DEF PriorityInversion, Test
  <2> DEFINE c == [i \in 1..5 |-> IF i <= 2 THEN 0 ELSE 1]
  <2>2. c \in [1..5 -> Nat] /\ c[1] = 0 /\ c[2] = 0 /\ c[3] = 1 /\ c[4] = 1 /\ c[5] = 1
    OBVIOUS
  <2> HIDE DEF c, run
  <2>3. /\ CreatesAt(run, 5, c, 1) /\ CreatesAt(run, 5, c, 2) /\ CreatesAt(run, 5, c, 3)
        /\ CreatesAt(run, 5, c, 4)
    BY <2>1, <2>2 DEF CreatesAt
  <2>4. \A i \in 1..(5 - 1) : CreatesAt(run, 5, c, i)
    BY <2>3
  <2>5. /\ 5 \in 2..(Len(run) - 1) /\ Len(run) \in Nat
        /\ \A i \in (5 + 1)..Len(run) : run[i].do \in {"check", "kill"}
    BY <2>1
  <2>6. Joins(run, 5, c)
    BY <2>1, <2>2, <2>4, <2>5 DEF Joins
  <2> QED BY <2>6 DEF run
<1> QED BY <1>1, <1>2, <1>3, <1>4, <1>5, <1>6, <1>7, <1>8 DEF Answering

\* The runner of the spinning helpers clears their flag and waits at q until they
\* have ended.
Stops(run, q) ==
  /\ Len(run) \in Nat /\ q \in 1..(Len(run) - 1)
  /\ run[q].do = "pause" /\ run[q].till = "stopped"
  /\ \A i \in 1..(q - 1) : run[i].do \in {"create", "pause", "sample", "stop"}
  /\ \A i \in (q + 1)..Len(run) : run[i].do = "check"

Silent(b) == \A i \in 1..Len(b) : b[i].do \in {"spin", "mark", "touch"}

LEMMA SpinningTests ==
  ASSUME NEW t \in Spinning
  PROVE  (\E q : Stops(t.run, q)) /\ \A h \in Slots : Silent(t.body[h])
<1> DEFINE run == t.run
<1> USE DEF Create, Counted, Checked, Check, Simple, Pause
<1>1. CASE t = PriorityLoop
  <2>1. /\ Len(run) = 8 /\ run[1].do = "create" /\ run[2].do = "pause" /\ run[3].do = "sample"
        /\ run[4].do = "create" /\ run[5].do = "pause" /\ run[6].do = "stop"
        /\ run[7].do = "pause" /\ run[7].till = "stopped" /\ run[8].do = "check"
    BY <1>1 DEF PriorityLoop, Test
  <2>2. Stops(run, 7)
    <3> HIDE DEF run
    <3> QED BY <2>1 DEF Stops
  <2>3. \A h \in Slots : t.body[h] = <<Spin>> \/ t.body[h] = <<Mark, Touch>>
    BY <1>1 DEF PriorityLoop, Test
  <2>4. Silent(<<Spin>>) /\ Silent(<<Mark, Touch>>)
    BY DEF Silent, Spin, Mark, Touch
  <2> QED BY <2>2, <2>3, <2>4
<1>2. CASE t \in {RoundRobin, Starvation}
  <2>1. /\ Len(run) = 6 /\ run[1].do = "create" /\ run[2].do = "create" /\ run[3].do = "pause"
        /\ run[4].do = "stop" /\ run[5].do = "pause" /\ run[5].till = "stopped"
        /\ run[6].do = "check"
    BY <1>2 DEF RoundRobin, Starvation, Test
  <2>2. Stops(run, 5)
    <3> HIDE DEF run
    <3> QED BY <2>1 DEF Stops
  <2>3. \A h \in Slots : t.body[h] = <<Spin>>
    BY <1>2 DEF RoundRobin, Starvation, Test, All
  <2>4. Silent(<<Spin>>)
    BY DEF Silent, Spin
  <2> QED BY <2>2, <2>3, <2>4
<1>3. CASE t = Wcet
  <2>1. /\ Len(run) = 5 /\ run[1].do = "create" /\ run[2].do = "pause" /\ run[3].do = "stop"
        /\ run[4].do = "pause" /\ run[4].till = "stopped" /\ run[5].do = "check"
    BY <1>3 DEF Wcet, Test
  <2>2. Stops(run, 4)
    <3> HIDE DEF run
    <3> QED BY <2>1 DEF Stops
  <2>3. \A h \in Slots : t.body[h] = <<Spin>>
    BY <1>3 DEF Wcet, Test, All
  <2>4. Silent(<<Spin>>)
    BY DEF Silent, Spin
  <2> QED BY <2>2, <2>3, <2>4
<1> QED BY <1>1, <1>2, <1>3 DEF Spinning

-----------------------------------------------------------------------------
(* While nothing is refused and nothing expires before the answer.         *)

Ended == Used \ Live

\* A helper that ended has given one notification: it waits or has been counted.
\* Once the join is behind, all have ended and none waits.
Answered(j, c) ==
  /\ at \in 1..Len(T.run) /\ note \in Nat /\ joined \in Nat
  /\ at < j => joined = 0 /\ ~bad
  /\ at <= j => /\ joined + note <= Cardinality(Ended)
                /\ T.run[j].n # 0 => Cardinality(Used) = c[at]
  /\ at > j => Live = {} /\ note = 0

\* Nobody notifies, and after the wait all have ended.
Stopped(q) == at \in 1..Len(T.run) /\ note = 0 /\ (at > q => Live = {})

\* The waiter of the condition variable notifies twice and is joined twice.
Waited ==
  /\ at \in 1..6 /\ joined = 0 /\ marks \in [Slots -> Nat]
  /\ Used = (IF at = 1 THEN {} ELSE {1})
  /\ marks[1] = (IF pc[1] <= 1 THEN 0 ELSE IF pc[1] <= 4 THEN 1 ELSE IF pc[1] <= 6 THEN 2 ELSE 3)
  /\ at < 5 => ~woken /\ pc[1] <= 3
  /\ at = 1 => note = 0
  /\ at = 2 => note = (IF pc[1] = 3 THEN 1 ELSE 0)
  /\ at \in {3, 4} => pc[1] = 3 /\ note = 0
  /\ at = 5 => \/ pc[1] = 3 /\ woken /\ note = 0
               \/ pc[1] \in {4, 5} /\ note = 0
               \/ pc[1] \in {6, 7} /\ note = 1
  /\ at = 6 => pc[1] \in {6, 7} /\ note = 0

Orderly ==
  /\ T \in Answering => \E j, c : Joins(T.run, j, c) /\ Answered(j, c)
  /\ T \in Spinning => \E q : Stops(T.run, q) /\ Stopped(q)
  /\ T = ConditionVariable => Waited

CleanInv ==
  /\ faults \in Nat
  /\ faults = 0 /\ Running => callers = 0 /\ Orderly

LEMMA HelperSets ==
  ASSUME Types
  PROVE  /\ Used \in SUBSET Slots /\ Live \in SUBSET Used /\ Ended \in SUBSET Used
         /\ IsFiniteSet(Used) /\ IsFiniteSet(Ended) /\ IsFiniteSet(Slots)
         /\ Cardinality(Used) \in Nat /\ Cardinality(Ended) \in Nat
         /\ Cardinality(Ended) <= Cardinality(Used)
         /\ Cardinality(Ended) = Cardinality(Used) => Live = {}
         /\ Live = {} => Ended = Used
<1>1. /\ Used \in SUBSET Slots /\ Live \in SUBSET Used /\ Ended \in SUBSET Used
      /\ IsFiniteSet(Slots)
  BY RtosAssumption DEF Used, Live, Ended
<1>2. IsFiniteSet(Used)
  BY <1>1, FS_Subset
<1>3. /\ IsFiniteSet(Ended) /\ Cardinality(Ended) <= Cardinality(Used)
      /\ Cardinality(Used) = Cardinality(Ended) => Used = Ended
  BY <1>1, <1>2, FS_Subset
<1>4. Used = Ended => Live = {}
  BY <1>1 DEF Ended
<1>5. Live = {} => Ended = Used
  BY DEF Ended
<1>6. Cardinality(Used) \in Nat /\ Cardinality(Ended) \in Nat
  BY <1>2, <1>3, FS_CardinalityType
<1> QED BY <1>1, <1>2, <1>3, <1>4, <1>5, <1>6

\* What a step of a helper does to the runner.
LEMMA HelperFrame ==
  ASSUME NEW h \in Slots, HelperStep(h), faults \in Nat, Types
  PROVE  /\ h \in Live /\ test' = test /\ at' = at /\ joined' = joined /\ bad' = bad
         /\ callers' = callers /\ wild' = wild /\ Running /\ faults' \in Nat
         /\ faults' = 0 => faults = 0 /\ faults' = faults
         /\ ~NotifyRunner(h) => note' = note
         /\ Op' = Op /\ T' = T /\ \A k \in Slots : Body(k)' = Body(k)
<1>1. h \in Live /\ Running
  BY DEF HelperStep, At, Running, WriteResult, SpinOnce, NotifyRunner, TakeLock, TakeExpires,
         ReleaseLock, ReadCounter, WriteCounter, ArriveAtBarrier, MeetAtBarrier, AwaitSignal
<1>2. HelperKeeps
  BY DEF HelperStep, WriteResult, SpinOnce, NotifyRunner, TakeLock, TakeExpires,
         ReleaseLock, ReadCounter, WriteCounter, ArriveAtBarrier, MeetAtBarrier, AwaitSignal
<1>3. faults' = faults \/ faults' = faults + 1
  BY DEF Fault, HelperStep, WriteResult, SpinOnce, NotifyRunner, TakeLock, TakeExpires,
         ReleaseLock, ReadCounter, WriteCounter, ArriveAtBarrier, MeetAtBarrier, AwaitSignal
<1>4. ~NotifyRunner(h) => note' = note
  BY DEF HelperStep, WriteResult, SpinOnce, TakeLock, TakeExpires,
         ReleaseLock, ReadCounter, WriteCounter, ArriveAtBarrier, MeetAtBarrier, AwaitSignal
<1> QED BY <1>1, <1>2, <1>3, <1>4 DEF HelperKeeps, Op, T, Body

\* A helper that answers goes on in its body or, with its notification, ends.
LEMMA AnsweringStep ==
  ASSUME test \in Nat \ {0}, Types, T \in Answering, faults \in Nat,
         NEW h \in Slots, HelperStep(h)
  PROVE  /\ Used' = Used
         /\ \/ note' = note /\ Live' = Live
            \/ note' = note + 1 /\ h \in Live /\ Live' = Live \ {h}
<1> DEFINE n == Len(Body(h))
           p == pc[h]
           op == HelperOp(h)
<1>1. /\ h \in Live /\ Body(h)' = Body(h) /\ \A k \in Slots : Body(k)' = Body(k)
      /\ ~NotifyRunner(h) => note' = note
  BY HelperFrame
<1>2. p \in Nat /\ p > 0 /\ p <= n /\ op = Body(h)[p]
  BY <1>1 DEF Live, Used, HelperOp, Types
<1>3. Answers(Body(h))
  BY AnsweringBodies DEF Body, T
<1>4. /\ n \in Nat \ {0} /\ (p = n => op.do = "notify")
      /\ p # n => Before(n, p, op)
  BY <1>2, <1>3 DEF Answers
<1>5. \A k \in Slots : pc[k] \in Nat
  BY DEF Types
<1> HIDE DEF n, p, op
<1>6. ASSUME NEW k \in Nat, k + p <= n, pc' = [pc EXCEPT ![h] = p + k]
      PROVE  Used' = Used /\ Live' = Live
  <2>1. pc'[h] = p + k /\ \A x \in Slots \ {h} : pc'[x] = pc[x]
    BY <1>6 DEF Types
  <2>2. pc[h] = p /\ Len(Body(h)) = n /\ p + k > 0 /\ p + k <= n
    BY <1>2, <1>4, <1>6 DEF p, n
  <2>3. Used' = Used
    <3>1. \A x \in Slots : pc'[x] > 0 <=> pc[x] > 0
      BY <1>2, <2>1, <2>2
    <3> QED BY <3>1 DEF Used
  <2>4. \A x \in Slots : pc'[x] <= Len(Body(x)) <=> pc[x] <= Len(Body(x))
    BY <1>2, <2>1, <2>2
  <2>5. Live' = Live
    BY <1>1, <2>3, <2>4, Zenon DEF Live, Used
  <2> QED BY <2>3, <2>5
<1>7. CASE NotifyRunner(h)
  <2>1. op.do = "notify" /\ note' = note + 1 /\ pc' = [pc EXCEPT ![h] = p + 1]
    BY <1>7 DEF NotifyRunner, At, Hop, op, p
  <2>2. p = n
    BY <1>4, <2>1 DEF Before
  <2>3. pc'[h] = n + 1 /\ \A x \in Slots \ {h} : pc'[x] = pc[x]
    BY <2>1, <2>2 DEF Types
  <2>4. Used' = Used
    <3>1. \A x \in Slots : pc'[x] > 0 <=> pc[x] > 0
      BY <1>2, <1>4, <2>3 DEF p
    <3> QED BY <3>1 DEF Used
  <2>5. /\ ~(pc'[h] <= Len(Body(h)))
        /\ \A x \in Slots \ {h} : pc'[x] <= Len(Body(x)) <=> pc[x] <= Len(Body(x))
    BY <1>4, <2>3 DEF n
  <2>6. Live' = Live \ {h}
    BY <1>1, <2>4, <2>5 DEF Live, Used
  <2> QED BY <1>1, <2>1, <2>4, <2>6
<1>8. CASE ~NotifyRunner(h)
  <2>1. op.do # "notify"
    BY <1>8 DEF HelperStep, At, WriteResult, SpinOnce, NotifyRunner, TakeLock, TakeExpires,
       ReleaseLock, ReadCounter, WriteCounter, ArriveAtBarrier, MeetAtBarrier, AwaitSignal, op
  <2>2. /\ op.do \in {"mark", "take", "release", "read", "write", "arrive", "meet"}
        /\ op.do \in {"take", "release", "meet"} => op.skip \in Nat /\ p + op.skip <= n
        /\ p + 1 <= n
    BY <1>2, <1>4, <2>1 DEF Before
  <2>3. \/ pc' = [pc EXCEPT ![h] = p + 1]
        \/ op.do \in {"take", "release", "meet"} /\ pc' = [pc EXCEPT ![h] = p + op.skip]
    BY <1>8, <2>2 DEF HelperStep, At, Hop, WriteResult, SpinOnce, TakeLock, TakeExpires,
       ReleaseLock, ReadCounter, WriteCounter, ArriveAtBarrier, MeetAtBarrier, AwaitSignal,
       op, p
  <2>4. PICK k \in Nat : k + p <= n /\ pc' = [pc EXCEPT ![h] = p + k]
    BY <1>2, <2>2, <2>3
  <2>5. Used' = Used /\ Live' = Live
    BY <1>6, <2>4
  <2> QED BY <1>1, <1>8, <2>5
<1> QED BY <1>7, <1>8

LEMMA AnsweredHelper ==
  ASSUME test \in Nat \ {0}, Types, Types', T \in Answering, faults \in Nat,
         NEW j, NEW c, Joins(T.run, j, c), Answered(j, c),
         NEW h \in Slots, HelperStep(h)
  PROVE  Answered(j, c)'
<1>1. /\ h \in Live /\ test' = test /\ at' = at /\ joined' = joined /\ bad' = bad /\ T' = T
  BY HelperFrame
<1>2. /\ Used' = Used
      /\ \/ note' = note /\ Live' = Live
         \/ note' = note + 1 /\ h \in Live /\ Live' = Live \ {h}
  BY AnsweringStep
<1>3. ~(at > j) /\ j \in Nat /\ at \in Nat
  BY <1>1 DEF Answered, Joins
<1>4. joined + note <= Cardinality(Ended) /\ note \in Nat /\ joined \in Nat
  BY <1>3 DEF Answered
<1>5. note' \in Nat /\ joined' + note' <= Cardinality(Ended')
  <2>1. CASE note' = note /\ Live' = Live
    BY <1>1, <1>2, <1>4, <2>1 DEF Ended
  <2>2. CASE note' = note + 1 /\ Live' = Live \ {h}
    <3>1. Ended' = Ended \cup {h} /\ h \notin Ended
      BY <1>1, <1>2, <2>2, HelperSets DEF Ended
    <3>2. Cardinality(Ended') = Cardinality(Ended) + 1 /\ Cardinality(Ended) \in Nat
      BY <3>1, HelperSets, FS_AddElement
    <3> QED BY <1>1, <1>4, <2>2, <3>2
  <2> QED BY <1>2, <2>1, <2>2
<1> QED BY <1>1, <1>2, <1>3, <1>5 DEF Answered

LEMMA StoppedHelper ==
  ASSUME test \in Nat \ {0}, Types, T \in Spinning, faults \in Nat,
         NEW q, Stops(T.run, q), Stopped(q), NEW h \in Slots, HelperStep(h)
  PROVE  Stopped(q)'
<1>1. /\ h \in Live /\ at' = at /\ T' = T /\ (~NotifyRunner(h) => note' = note)
  BY HelperFrame
<1>2. ~(at > q)
  BY <1>1 DEF Stopped
<1>3. ~NotifyRunner(h)
  <2>1. Silent(Body(h)) /\ pc[h] \in 1..Len(Body(h))
    <3>1. Running
      BY HelperFrame
    <3> QED BY <1>1, <3>1, Entry, SpinningTests DEF Body, T
  <2> QED BY <2>1 DEF NotifyRunner, At, HelperOp, Silent
<1> QED BY <1>1, <1>2, <1>3 DEF Stopped

LEMMA WaiterEntries ==
  ASSUME T = ConditionVariable, NEW h \in Slots
  PROVE  /\ Body(h) = WaiterBody /\ Len(WaiterBody) = 6
         /\ WaiterBody[1].do = "mark" /\ WaiterBody[2].do = "notify"
         /\ WaiterBody[3].do = "await" /\ WaiterBody[4].do = "mark"
         /\ WaiterBody[5].do = "notify" /\ WaiterBody[6].do = "mark"
<1>1. Body(h) = WaiterBody
  BY DEF ConditionVariable, Test, All, Body, T, WaiterBody
<1>2. Len(WaiterBody) = 6
  BY DEF WaiterBody
<1>3. /\ WaiterBody[1] = Mark /\ WaiterBody[2] = Notify /\ WaiterBody[3] = Await(3)
      /\ WaiterBody[4] = Mark /\ WaiterBody[5] = Notify /\ WaiterBody[6] = Mark
  BY DEF WaiterBody
<1>4. Mark.do = "mark" /\ Notify.do = "notify" /\ Await(3).do = "await"
  BY DEF Mark, Notify, Await
<1> QED BY <1>1, <1>2, <1>3, <1>4, Zenon

LEMMA WaitedHelper ==
  ASSUME test \in Nat \ {0}, Types, T = ConditionVariable, faults \in Nat, faults' = 0,
         Waited, NEW h \in Slots, HelperStep(h)
  PROVE  Waited'
<1>1. /\ h \in Live /\ at' = at /\ joined' = joined /\ faults' = faults /\ faults = 0
  BY HelperFrame
<1>2. h = 1 /\ at # 1 /\ 1 \in Slots
  BY <1>1 DEF Live, Waited
<1> DEFINE p == pc[1]
           op == HelperOp(1)
<1>3. /\ p \in 1..6 /\ op = WaiterBody[p]
  <2>1. p \in Nat /\ p > 0 /\ p <= 6
    BY <1>1, <1>2, WaiterEntries DEF Live, Used, Types
  <2> QED BY <1>2, <2>1, WaiterEntries DEF HelperOp
<1>4. /\ p \in {1, 4, 6} <=> op.do = "mark"
      /\ p \in {2, 5} <=> op.do = "notify"
      /\ p = 3 <=> op.do = "await"
      /\ op.do \in {"mark", "notify", "await"}
  <2>1. p = 1 \/ p = 2 \/ p = 3 \/ p = 4 \/ p = 5 \/ p = 6
    BY <1>3
  <2> HIDE DEF p, op
  <2> QED BY <1>2, <1>3, <2>1, WaiterEntries
<1>5. pc \in [Slots -> Nat] /\ marks \in [Slots -> Nat] /\ note \in Nat /\ at \in 2..6
  BY <1>2 DEF Types, Waited
<1> HIDE DEF op
<1>6. ASSUME pc' = [pc EXCEPT ![1] = p + 1]
      PROVE  Used' = {1} /\ pc'[1] = p + 1
  <2>1. pc'[1] = p + 1 /\ \A x \in Slots \ {1} : pc'[x] = pc[x]
    BY <1>2, <1>5, <1>6
  <2>2. \A x \in Slots : pc[x] > 0 <=> x = 1
    BY <1>2, <1>3 DEF Waited, Used
  <2>3. \A x \in Slots : pc'[x] > 0 <=> x = 1
    BY <1>3, <2>1, <2>2
  <2> QED BY <1>2, <2>1, <2>3 DEF Used
<1>7. CASE p \in {1, 4, 6}
  <2>1. /\ pc' = [pc EXCEPT ![1] = p + 1] /\ marks' = [marks EXCEPT ![1] = @ + 1]
        /\ note' = note /\ woken' = woken
    BY <1>2, <1>4, <1>7 DEF HelperStep, At, Hop, WriteResult, SpinOnce, NotifyRunner, TakeLock,
       TakeExpires, ReleaseLock, ReadCounter, WriteCounter, ArriveAtBarrier, MeetAtBarrier,
       AwaitSignal, op
  <2>2. Used' = {1} /\ pc'[1] = p + 1 /\ marks'[1] = marks[1] + 1 /\ marks' \in [Slots -> Nat]
    BY <1>2, <1>5, <1>6, <2>1
  <2> QED BY <1>1, <1>2, <1>5, <1>7, <2>1, <2>2 DEF Waited
<1>8. CASE p \in {2, 5}
  <2>1. /\ pc' = [pc EXCEPT ![1] = p + 1] /\ marks' = marks
        /\ note' = note + 1 /\ woken' = woken
    BY <1>2, <1>4, <1>8 DEF HelperStep, At, Hop, WriteResult, SpinOnce, NotifyRunner, TakeLock,
       TakeExpires, ReleaseLock, ReadCounter, WriteCounter, ArriveAtBarrier, MeetAtBarrier,
       AwaitSignal, op
  <2> QED BY <1>1, <1>2, <1>5, <1>6, <1>8, <2>1 DEF Waited
<1>9. CASE p = 3
  <2>1. AwaitSignal(1)
    BY <1>2, <1>4, <1>9 DEF HelperStep, At, WriteResult, SpinOnce, NotifyRunner, TakeLock,
       TakeExpires, ReleaseLock, ReadCounter, WriteCounter, ArriveAtBarrier, MeetAtBarrier, op
  <2>2. woken /\ pc' = [pc EXCEPT ![1] = p + 1] /\ marks' = marks /\ note' = note
    BY <1>1, <2>1 DEF AwaitSignal, Fault, Hop
  <2>3. at = 5
    BY <1>5, <1>9, <2>2 DEF Waited
  <2> QED BY <1>1, <1>2, <1>5, <1>6, <1>9, <2>2, <2>3 DEF Waited
<1> QED BY <1>3, <1>7, <1>8, <1>9

LEMMA OrderlyHelper ==
  ASSUME test \in Nat \ {0}, Types, Types', faults \in Nat, faults' = 0, Orderly,
         NEW h \in Slots, HelperStep(h)
  PROVE  Orderly'
<1>1. T' = T
  BY HelperFrame
<1>2. T \in Answering => \E j, c : Joins(T'.run, j, c) /\ Answered(j, c)'
  BY <1>1, AnsweredHelper DEF Orderly
<1>3. T \in Spinning => \E q : Stops(T'.run, q) /\ Stopped(q)'
  BY <1>1, StoppedHelper DEF Orderly
<1>4. T = ConditionVariable => Waited'
  BY WaitedHelper DEF Orderly
<1> QED BY <1>1, <1>2, <1>3, <1>4 DEF Orderly

-----------------------------------------------------------------------------
(* The runner's steps on such a test.                                      *)

LessThan == {p \in Nat \X Nat : p[1] < p[2]}
LEMMA FirstNumber ==
  ASSUME NEW S \in SUBSET Nat, S # {}
  PROVE  \E x \in S : \A y \in S : x <= y
<1>1. IsWellFoundedOn(LessThan, Nat)
  BY NatLessThanWellFounded, Zenon DEF OpToRel, LessThan
<1>2. PICK x \in S : \A y \in S : <<y, x>> \notin LessThan
  BY <1>1, WFMin
<1>3. ASSUME NEW y \in S PROVE x <= y
  <2>1. y \in Nat /\ x \in Nat /\ <<y, x>> \notin LessThan
    BY <1>2
  <2> QED BY <2>1 DEF LessThan
<1> QED BY <1>2, <1>3

LEMMA Creates ==
  ASSUME Types, CreateHelper
  PROVE  \E h \in Slots \ Used :
           /\ pc' = [pc EXCEPT ![h] = 1] /\ Used' = Used \cup {h}
           /\ \A x \in Slots \ Used : h <= x
           /\ Cardinality(Used') = Cardinality(Used) + 1
<1> DEFINE h == CHOOSE x \in Slots \ Used : \A y \in Slots \ Used : x <= y
<1>1. Slots \ Used # {} /\ Slots \ Used \in SUBSET Nat
  BY RtosAssumption, HelperSets DEF CreateHelper
<1>2. h \in Slots \ Used /\ \A x \in Slots \ Used : h <= x
  BY <1>1, FirstNumber
<1>3. pc' = [pc EXCEPT ![h] = 1]
  BY DEF CreateHelper
<1> HIDE DEF h
<1>4. pc'[h] = 1 /\ \A x \in Slots \ {h} : pc'[x] = pc[x]
  BY <1>2, <1>3 DEF Types
<1>5. Used' = Used \cup {h}
  BY <1>2, <1>4 DEF Used
<1>6. Cardinality(Used') = Cardinality(Used) + 1
  BY <1>2, <1>5, HelperSets, FS_AddElement
<1> QED BY <1>2, <1>3, <1>5, <1>6

LEMMA AnsweringCreates ==
  ASSUME test \in Nat \ {0}, Types, CreateHelper, T \in Answering
  PROVE  Cardinality(Used') = Cardinality(Used) + 1 /\ Ended' = Ended
<1>1. PICK h \in Slots \ Used : /\ pc' = [pc EXCEPT ![h] = 1] /\ Used' = Used \cup {h}
                                /\ Cardinality(Used') = Cardinality(Used) + 1
  BY Creates
<1>2. \A k \in Slots : Body(k)' = Body(k)
  BY DEF CreateHelper, Body
<1>3. pc'[h] = 1 /\ \A x \in Slots \ {h} : pc'[x] = pc[x]
  BY <1>1 DEF Types
<1>4. 1 <= Len(Body(h))
  BY AnsweringBodies DEF Body, T, Answers
<1>5. Used \in SUBSET Slots
  BY HelperSets
<1>6. Live' = Live \cup {h}
  <2>1. \A x \in Used : x \in Slots \ {h}
    BY <1>1, <1>5
  <2>2. Live' = {x \in Used \cup {h} : pc'[x] <= Len(Body(x))}
    <3>1. \A x \in Used \cup {h} : Body(x)' = Body(x)
      BY <1>1, <1>2, <1>5
    <3> QED BY <1>1, <3>1 DEF Live
  <2>3. \A x \in Used : pc'[x] <= Len(Body(x)) <=> pc[x] <= Len(Body(x))
    BY <1>3, <2>1
  <2>4. pc'[h] <= Len(Body(h))
    BY <1>3, <1>4
  <2> QED BY <2>2, <2>3, <2>4 DEF Live
<1>7. Ended' = Ended
  BY <1>1, <1>6 DEF Ended
<1> QED BY <1>1, <1>7

\* What the runner leaves alone while it stays in the test.
LEMMA RunnerFrame ==
  ASSUME Runner, Running, faults = 0, faults' = 0
  PROVE  /\ ~CheckResult /\ ~KillHelpers => test' = test /\ callers' = callers /\ T' = T
         /\ ~CreateRefused
<1>1. ~Fault
  BY DEF Fault
<1>2. ~CreateRefused
  BY <1>1 DEF CreateRefused
<1> QED
  BY <1>2 DEF Runner, T, CreateHelper, SpawnEnds, JoinAnswer, JoinNothing, JoinExpires, PauseEnds,
     StopHelpers, SampleCounter, RunnerLocks, WaiterReady, WakeWaiter, UnlessCreated

\* Nobody is left when a test returns.
LEMMA CleanReturn ==
  ASSUME CheckResult \/ KillHelpers, faults = 0, faults' = 0, Live = {}, callers = 0
  PROVE  Fresh /\ at' = 1 /\ callers' = 0 /\ note' = note
<1>1. PICK verdict : Return(verdict, {})
  BY DEF CheckResult, KillHelpers, Fault
<1>2. {h \in {} : MayNotify(h)} = {}
  OBVIOUS
<1>3. callers' = callers + Cardinality({})
  BY <1>1, <1>2 DEF Return
<1>4. callers' = 0
  BY <1>3, FS_EmptySet
<1>5. note' = note
  BY DEF CheckResult, KillHelpers
<1> QED BY <1>1, <1>4, <1>5 DEF Return

LEMMA FreshOrderly ==
  ASSUME Fresh, at' = 1, note' = 0
  PROVE  Orderly'
<1>1. /\ pc' = [h \in Slots |-> 0] /\ joined' = 0 /\ bad' = FALSE /\ woken' = FALSE
      /\ marks' = [h \in Slots |-> 0]
  BY DEF Fresh
<1>2. Used' = {}
  BY <1>1 DEF Used
<1>3. Live' = {} /\ Ended' = {}
  BY <1>2 DEF Live, Ended
<1>4. Cardinality({}) = 0
  BY FS_EmptySet
<1>5. ASSUME T' \in Answering
      PROVE  \E j, c : Joins(T'.run, j, c) /\ Answered(j, c)'
  <2>1. PICK j, c : Joins(T'.run, j, c)
    BY <1>5, AnsweringRuns
  <2>2. 1 < j /\ j \in Nat /\ c[1] = 0 /\ 1 \in 1..Len(T'.run)
    BY <2>1 DEF Joins
  <2>3. Answered(j, c)'
    BY <1>1, <1>2, <1>3, <1>4, <2>2 DEF Answered
  <2> QED BY <2>1, <2>3
<1>6. ASSUME T' \in Spinning
      PROVE  \E q : Stops(T'.run, q) /\ Stopped(q)'
  <2>1. PICK q : Stops(T'.run, q)
    BY <1>6, SpinningTests
  <2>2. ~(1 > q) /\ 1 \in 1..Len(T'.run)
    BY <2>1 DEF Stops
  <2>3. Stopped(q)'
    BY <2>2 DEF Stopped
  <2> QED BY <2>1, <2>3
<1>7. Waited'
  <2>1. marks'[1] = 0 /\ pc'[1] = 0 /\ marks' \in [Slots -> Nat]
    BY <1>1, RtosAssumption
  <2> QED BY <1>1, <1>2, <2>1 DEF Waited
<1> QED BY <1>5, <1>6, <1>7 DEF Orderly

\* The test goes on, or it has returned with nobody and nothing left.
Leaves == Fresh /\ at' = 1 /\ callers' = 0 /\ note' = 0

LEMMA SameHelpers ==
  ASSUME pc' = pc, test' = test
  PROVE  Used' = Used /\ Live' = Live /\ Ended' = Ended /\ T' = T
  BY DEF Used, Live, Ended, Body, T

\* Before the join.
LEMMA AnsweredBefore ==
  ASSUME test \in Nat \ {0}, Types, Running, T \in Answering, faults = 0, faults' = 0,
         NEW j, NEW c, Joins(T.run, j, c), Answered(j, c), Runner, at < j
  PROVE  T' = T /\ callers' = callers /\ Answered(j, c)'
<1>1. /\ at \in 1..(j - 1) /\ j \in Nat /\ j < Len(T.run) /\ Len(T.run) \in Nat /\ at \in Nat
      /\ CreatesAt(T.run, j, c, at) /\ Op = T.run[at]
  BY DEF Answered, Joins, Op, T
<1>2. Op.do \in {"create", "spawn", "lock", "unlock", "pause", "unless"}
  BY <1>1 DEF CreatesAt
<1>3. CreateHelper \/ SpawnEnds \/ RunnerLocks \/ PauseEnds \/ UnlessCreated
  BY <1>2, RunnerFrame DEF Runner, JoinAnswer, JoinNothing, JoinExpires, StopHelpers,
     SampleCounter, WaiterReady, WakeWaiter, CheckResult, KillHelpers
<1>4. test' = test /\ callers' = callers /\ T' = T
  BY <1>3, RunnerFrame DEF CreateHelper, SpawnEnds, RunnerLocks, PauseEnds, UnlessCreated,
     CheckResult, KillHelpers
<1>5. /\ joined = 0 /\ ~bad /\ note \in Nat /\ joined + note <= Cardinality(Ended)
      /\ T.run[j].n # 0 => Cardinality(Used) = c[at]
  BY <1>1 DEF Answered
<1>6. ASSUME note' = note, joined' = joined, ~bad', at' \in {at, at + 1},
             Cardinality(Ended') = Cardinality(Ended),
             T.run[j].n # 0 => Cardinality(Used') = c[at']
      PROVE  Answered(j, c)'
  <2>1. at' \in 1..Len(T.run) /\ at' <= j /\ ~(at' > j)
    BY <1>1, <1>6
  <2> QED BY <1>4, <1>5, <1>6, <2>1 DEF Answered
<1>7. CASE CreateHelper
  <2>1. /\ Cardinality(Used') = Cardinality(Used) + 1 /\ Ended' = Ended
    BY <1>7, AnsweringCreates
  <2>2. note' = note /\ joined' = joined /\ bad' = bad
    BY <1>7 DEF CreateHelper
  <2>3. CASE Op.do = "create"
    <3>1. at' = at + 1
      BY <1>7, <2>3 DEF CreateHelper
    <3>2. c[at + 1] = c[at] + 1
      BY <1>1, <2>3 DEF CreatesAt
    <3> QED BY <1>4, <1>5, <1>6, <2>1, <2>2, <3>1, <3>2
  <2>4. CASE Op.do = "spawn"
    <3>1. at' = at
      BY <1>7, <2>4 DEF CreateHelper
    <3>2. T.run[j].n = 0
      BY <1>1, <2>4 DEF CreatesAt
    <3> QED BY <1>4, <1>5, <1>6, <2>1, <2>2, <3>1, <3>2
  <2> QED BY <1>7, <2>3, <2>4 DEF CreateHelper
<1>8. CASE SpawnEnds
  <2>1. /\ Op.do = "spawn" /\ pc' = pc /\ note' = note /\ joined' = joined
        /\ Used = Slots \/ (Op.some /\ Used # {})
    BY <1>8 DEF SpawnEnds, Fault
  <2>2. T.run[j].n = 0 /\ (Op.enough = 0 \/ (Op.enough = Enough /\ ~Op.some))
    BY <1>1, <2>1 DEF CreatesAt
  <2>3. ~(Cardinality(Used) < Op.enough)
    <3>1. Cardinality(Used) \in Nat
      BY HelperSets
    <3>2. Enough <= Cardinality(Slots) /\ Enough \in Nat /\ Cardinality(Slots) \in Nat
      BY HelperSets, FS_CardinalityType, RtosAssumption
    <3>3. CASE Op.enough = 0
      BY <3>1, <3>3
    <3>4. CASE Op.enough = Enough /\ Used = Slots
      BY <3>2, <3>4
    <3> QED BY <2>1, <2>2, <3>3, <3>4
  <2>4. at' = at + 1 /\ bad' = bad
    BY <1>8, <2>3 DEF SpawnEnds, Goto
  <2> QED BY <1>4, <1>5, <1>6, <2>1, <2>2, <2>4, SameHelpers
<1>9. CASE RunnerLocks \/ PauseEnds \/ UnlessCreated
  <2>1. /\ pc' = pc /\ note' = note /\ joined' = joined /\ bad' = bad /\ at' = at + 1
        /\ Op.do \in {"lock", "unlock", "pause", "unless"}
    BY <1>5, <1>9 DEF RunnerLocks, PauseEnds, UnlessCreated, Goto, ctx
  <2>2. c[at + 1] = c[at]
    BY <1>1, <2>1 DEF CreatesAt
  <2> QED BY <1>4, <1>5, <1>6, <2>1, <2>2, SameHelpers
<1> QED BY <1>3, <1>4, <1>7, <1>8, <1>9

\* At the join: the last answer is there only when the last helper has ended, and
\* then no other notification is.
LEMMA AnsweredJoin ==
  ASSUME test \in Nat \ {0}, Types, Running, T \in Answering, faults = 0, faults' = 0,
         NEW j, NEW c, Joins(T.run, j, c), Answered(j, c), Runner, at = j
  PROVE  T' = T /\ callers' = callers /\ Answered(j, c)'
<1>1. /\ j \in Nat /\ j < Len(T.run) /\ Len(T.run) \in Nat /\ j > 1
      /\ Op = T.run[j] /\ Op.do = "join" /\ (Op.n = 0 \/ Op.n = c[j])
      /\ Op.to = 0 \/ Op.to \in (j + 1)..Len(T.run)
  BY DEF Answered, Joins, Op, T
<1>2. JoinAnswer \/ JoinNothing \/ JoinExpires
  BY <1>1 DEF Runner, CreateHelper, CreateRefused, SpawnEnds, PauseEnds, RunnerLocks,
     UnlessCreated, StopHelpers, SampleCounter, WaiterReady, WakeWaiter, CheckResult, KillHelpers
<1>3. test' = test /\ callers' = callers /\ pc' = pc
  BY <1>2 DEF JoinAnswer, JoinNothing, JoinExpires, ctx
<1>4. Used' = Used /\ Live' = Live /\ Ended' = Ended /\ T' = T
  BY <1>3, SameHelpers
<1> SUFFICES Answered(j, c)'
  BY <1>3, <1>4
<1>5. /\ note \in Nat /\ joined \in Nat /\ joined + note <= Cardinality(Ended)
      /\ T.run[j].n # 0 => Cardinality(Used) = c[j]
  BY <1>1 DEF Answered
<1>6. Wanted = Cardinality(Used)
  BY <1>1, <1>5 DEF Wanted
<1>7. /\ Cardinality(Used) \in Nat /\ Cardinality(Ended) \in Nat
      /\ Cardinality(Ended) <= Cardinality(Used)
      /\ Cardinality(Ended) = Cardinality(Used) => Live = {}
      /\ Live = {} => Ended = Used
  BY HelperSets
\* it stays at the join
<1>8. ASSUME at' = j, note' \in Nat, joined' \in Nat, joined' + note' <= Cardinality(Ended)
      PROVE  Answered(j, c)'
  BY <1>1, <1>4, <1>5, <1>8 DEF Answered
\* or leaves it behind
<1>9. ASSUME at' \in (j + 1)..Len(T.run), note' = 0, joined' \in Nat, Live = {}
      PROVE  Answered(j, c)'
  BY <1>1, <1>4, <1>9 DEF Answered
<1>10. CASE JoinAnswer
  <2>1. PICK k \in 1..note : note' \in 0..(note - k) /\ Step(joined + k)
    <3>1. note > 0 /\ 1 \in 1..note /\ note \in 1..note
      BY <1>5, <1>10 DEF JoinAnswer
    <3>2. CASE Op.mode = "count"
      <4>1. note' \in 0..(note - 1) /\ Step(joined + 1)
        BY <1>5, <1>10, <3>1, <3>2 DEF JoinAnswer
      <4> QED BY <3>1, <4>1
    <3>3. CASE Op.mode = "sum"
      <4>1. note' \in 0..(note - note) /\ Step(joined + note)
        BY <1>5, <1>10, <3>1, <3>3 DEF JoinAnswer
      <4> QED BY <3>1, <4>1
    <3>4. CASE Op.mode \notin {"count", "sum"}
      <4>1. note' \in 0..(note - 1) /\ Step(joined + 1)
        BY <1>5, <1>10, <3>1, <3>4 DEF JoinAnswer
      <4> QED BY <3>1, <4>1
    <3> QED BY <3>2, <3>3, <3>4
  <2>2. CASE joined + k >= Wanted
    <3>1. joined' = 0 /\ at' = at + 1
      BY <2>1, <2>2 DEF Step, Goto
    <3>2. Cardinality(Ended) = Cardinality(Used) /\ note' = 0
      BY <1>5, <1>6, <1>7, <2>1, <2>2
    <3>3. at' \in (j + 1)..Len(T.run)
      BY <1>1, <3>1
    <3> QED BY <1>7, <1>9, <3>1, <3>2, <3>3
  <2>3. CASE ~(joined + k >= Wanted)
    <3>1. joined' = joined + k /\ at' = j
      BY <2>1, <2>3 DEF Step
    <3>2. note' \in Nat /\ joined' \in Nat /\ joined' + note' <= Cardinality(Ended)
      BY <1>5, <1>7, <2>1, <3>1
    <3> QED BY <1>8, <3>1, <3>2
  <2> QED BY <2>2, <2>3
<1>11. CASE JoinNothing
  <2>1. Wanted = 0 /\ at' = at + 1 /\ note' = note /\ joined' = joined
    BY <1>11 DEF JoinNothing, Goto, ctx
  <2>2. note = 0 /\ Live = {}
    BY <1>5, <1>6, <1>7, <2>1
  <2>3. at' \in (j + 1)..Len(T.run)
    BY <1>1, <2>1
  <2> QED BY <1>5, <1>9, <2>1, <2>2, <2>3
<1>12. CASE JoinExpires
  <2>1. Live = {} /\ note = 0 /\ note' = 0
    BY <1>12 DEF JoinExpires, Fault
  <2>2. \/ joined' = 0 /\ at' \in (j + 1)..Len(T.run)
        \/ joined' = joined + 1 /\ at' = j /\ ~(joined + 1 >= Wanted)
    <3>1. at + 1 \in (j + 1)..Len(T.run)
      BY <1>1
    <3> QED BY <1>1, <1>12, <3>1 DEF JoinExpires, Step, Goto
  <2>3. CASE joined' = 0 /\ at' \in (j + 1)..Len(T.run)
    BY <1>9, <2>1, <2>3
  <2>4. CASE joined' = joined + 1 /\ at' = j /\ ~(joined + 1 >= Wanted)
    <3>1. note' \in Nat /\ joined' \in Nat /\ joined' + note' <= Cardinality(Ended)
      BY <1>5, <1>6, <1>7, <2>1, <2>4
    <3> QED BY <1>8, <2>4, <3>1
  <2> QED BY <2>2, <2>3, <2>4
<1> QED BY <1>2, <1>10, <1>11, <1>12

LEMMA AnsweredRunner ==
  ASSUME test \in Nat \ {0}, Types, Running, T \in Answering, faults = 0, faults' = 0,
         callers = 0, NEW j, NEW c, Joins(T.run, j, c), Answered(j, c), Runner
  PROVE  \/ T' = T /\ callers' = 0 /\ Answered(j, c)'
         \/ Leaves
<1>1. at \in Nat /\ j \in Nat
  BY DEF Answered, Joins
<1>2. CASE at < j
  BY <1>2, AnsweredBefore
<1>3. CASE at = j
  BY <1>3, AnsweredJoin
<1>4. CASE at > j
  <2>1. at \in (j + 1)..Len(T.run) /\ Live = {} /\ note = 0
    BY <1>1, <1>4 DEF Answered
  <2>2. Op.do \in {"check", "kill"}
    BY <2>1 DEF Joins, Op, T
  <2>3. CheckResult \/ KillHelpers
    BY <2>2 DEF Runner, CreateHelper, CreateRefused, SpawnEnds, JoinAnswer, JoinNothing,
       JoinExpires, PauseEnds, StopHelpers, SampleCounter, RunnerLocks, WaiterReady, WakeWaiter,
       UnlessCreated
  <2> QED BY <2>1, <2>3, CleanReturn DEF Leaves
<1> QED BY <1>1, <1>2, <1>3, <1>4

LEMMA StoppedRunner ==
  ASSUME test \in Nat \ {0}, Types, Running, T \in Spinning, faults = 0, faults' = 0,
         callers = 0, NEW q, Stops(T.run, q), Stopped(q), Runner
  PROVE  \/ T' = T /\ callers' = 0 /\ Stopped(q)'
         \/ Leaves
<1>1. /\ at \in 1..Len(T.run) /\ note = 0 /\ q \in Nat /\ q < Len(T.run) /\ Len(T.run) \in Nat
      /\ Op = T.run[at]
  BY DEF Stopped, Stops, Op, T
<1>2. CASE at < q
  <2>1. Op.do \in {"create", "pause", "sample", "stop"} /\ at \in 1..(q - 1)
    BY <1>1, <1>2 DEF Stops
  <2>2. CreateHelper \/ PauseEnds \/ SampleCounter \/ StopHelpers
    BY <2>1, RunnerFrame DEF Runner, SpawnEnds, JoinAnswer, JoinNothing, JoinExpires,
       RunnerLocks, WaiterReady, WakeWaiter, UnlessCreated, CheckResult, KillHelpers
  <2>3. /\ at' = at + 1 /\ note' = note /\ test' = test /\ callers' = callers
    BY <2>1, <2>2 DEF CreateHelper, PauseEnds, SampleCounter, StopHelpers, Goto, ctx
  <2>4. ~(at' > q) /\ at' \in 1..Len(T.run)
    BY <1>1, <2>1, <2>3
  <2> QED BY <1>1, <2>3, <2>4 DEF Stopped, T
<1>3. CASE at = q
  <2>1. Op.do = "pause" /\ Op.till = "stopped"
    BY <1>1, <1>3 DEF Stops
  <2>2. PauseEnds
    BY <2>1 DEF Runner, CreateHelper, CreateRefused, SpawnEnds, JoinAnswer, JoinNothing,
       JoinExpires, SampleCounter, StopHelpers,
       RunnerLocks, WaiterReady, WakeWaiter, UnlessCreated, CheckResult, KillHelpers
  <2>3. Settled
    BY <2>2 DEF PauseEnds, Fault
  <2>4. Live = {}
    BY <2>1, <2>3 DEF Settled
  <2>5. /\ at' = at + 1 /\ note' = note /\ test' = test /\ callers' = callers /\ pc' = pc
    BY <2>2 DEF PauseEnds, Goto, ctx
  <2>6. Live' = {} /\ T' = T
    BY <2>4, <2>5, SameHelpers
  <2>7. at' \in 1..Len(T.run)
    BY <1>1, <1>3, <2>5
  <2> QED BY <1>1, <2>5, <2>6, <2>7 DEF Stopped
<1>4. CASE at > q
  <2>1. at \in (q + 1)..Len(T.run) /\ Live = {}
    BY <1>1, <1>4 DEF Stopped
  <2>2. Op.do = "check"
    BY <1>1, <2>1 DEF Stops
  <2>3. CheckResult
    BY <2>2 DEF Runner, CreateHelper, CreateRefused, SpawnEnds, JoinAnswer, JoinNothing,
       JoinExpires, PauseEnds, StopHelpers, SampleCounter, RunnerLocks, WaiterReady, WakeWaiter,
       UnlessCreated, KillHelpers
  <2> QED BY <1>1, <2>1, <2>3, CleanReturn DEF Leaves
<1> QED BY <1>1, <1>2, <1>3, <1>4

LEMMA WaitedRunner ==
  ASSUME test \in Nat \ {0}, Types, Running, T = ConditionVariable, faults = 0, faults' = 0,
         callers = 0, Waited, Runner
  PROVE  \/ T' = T /\ callers' = 0 /\ Waited'
         \/ Leaves
<1> DEFINE run == ConditionVariable.run
<1>1. /\ run[1].do = "create"
      /\ run[2].do = "join" /\ run[2].n = 1 /\ run[2].mode = "round"
      /\ run[3].do = "ready" /\ run[4].do = "wake"
      /\ run[5].do = "join" /\ run[5].n = 1 /\ run[5].mode = "round"
      /\ run[6].do = "check"
  BY DEF ConditionVariable, Test, Create, Join, Simple, Checked, Counted, Check
<1> HIDE DEF run
<1>2. Op = run[at] /\ at \in 1..6 /\ joined = 0 /\ 1 \in Slots /\ pc[1] \in Nat
  BY RtosAssumption DEF Op, T, run, Waited, Types
<1> USE DEF Runner, CreateHelper, CreateRefused, SpawnEnds, JoinAnswer, JoinNothing, JoinExpires,
            PauseEnds, StopHelpers, SampleCounter, RunnerLocks, WaiterReady, WakeWaiter,
            UnlessCreated, CheckResult, KillHelpers
<1>3. CASE at = 1
  <2>1. CreateHelper
    BY <1>1, <1>2, <1>3, RunnerFrame
  <2>2. PICK h \in Slots \ Used : /\ pc' = [pc EXCEPT ![h] = 1] /\ Used' = Used \cup {h}
                                  /\ \A x \in Slots \ Used : h <= x
    BY <2>1, Creates
  <2>3. Used = {}
    BY <1>3 DEF Waited
  <2>4. h = 1
    BY <1>2, <2>2, <2>3, RtosAssumption
  <2>5. /\ at' = 2 /\ pc'[1] = 1 /\ Used' = {1} /\ pc[1] = 0
        /\ UNCHANGED <<test, joined, marks, woken, note, callers>>
    BY <1>1, <1>2, <1>3, <2>1, <2>2, <2>3, <2>4 DEF Types, Used
  <2> QED BY <1>3, <2>5 DEF Waited, T
<1>4. CASE at = 2 \/ at = 5
  <2>1. /\ Op.do = "join" /\ Op.n = 1 /\ Op.mode = "round" /\ Wanted = 1
    BY <1>1, <1>2, <1>4 DEF Wanted
  <2>2. JoinAnswer \/ JoinExpires
    BY <2>1
  <2>3. Used = {1} /\ Body(1) = WaiterBody /\ Len(WaiterBody) = 6
    BY <1>2, <1>4, WaiterEntries DEF Waited
  <2>4. ~JoinExpires
    <3> SUFFICES ASSUME JoinExpires PROVE FALSE
      OBVIOUS
    <3>1. Live = {} /\ note = 0
      BY DEF Fault
    <3>2. ~(pc[1] <= 6)
      <4>1. 1 \in Used /\ 1 \notin Live
        BY <2>3, <3>1
      <4>2. 1 \in Used /\ pc[1] <= Len(Body(1)) => 1 \in Live
        BY DEF Live
      <4> QED BY <2>3, <4>1, <4>2, Zenon
    <3>3. at < 5 => pc[1] <= 3
      BY DEF Waited
    <3>4. at = 5 => pc[1] = 3 \/ pc[1] \in {4, 5} \/ note = 1
      BY DEF Waited
    <3> QED BY <1>2, <1>4, <3>1, <3>2, <3>3, <3>4
  <2>5. note > 0 /\ note' = 0 /\ Step(joined + 1)
    BY <2>1, <2>2, <2>4
  <2>6. joined' = 0 /\ at' = at + 1
    BY <1>2, <2>1, <2>5 DEF Step, Goto
  <2>7. UNCHANGED <<test, pc, marks, woken, callers>>
    BY <2>2, <2>4
  <2>8. Used' = Used /\ T' = T
    BY <2>7, SameHelpers
  <2> QED BY <1>4, <2>5, <2>6, <2>7, <2>8 DEF Waited
<1>5. CASE at = 3
  <2>1. WaiterReady
    BY <1>1, <1>2, <1>5
  <2>2. marks[1] > 0
    BY <1>5 DEF Waited
  <2>3. at' = 4 /\ UNCHANGED <<test, joined, pc, marks, woken, note, callers>>
    BY <1>5, <2>1, <2>2 DEF Goto
  <2>4. Used' = Used /\ T' = T
    BY <2>3, SameHelpers
  <2> QED BY <1>5, <2>3, <2>4 DEF Waited
<1>6. CASE at = 4
  <2>1. WakeWaiter
    BY <1>1, <1>2, <1>6
  <2>2. at' = 5 /\ woken' = TRUE /\ UNCHANGED <<test, joined, pc, marks, note, callers>>
    BY <1>6, <2>1 DEF Goto
  <2>3. Used' = Used /\ T' = T
    BY <2>2, SameHelpers
  <2> QED BY <1>6, <2>2, <2>3 DEF Waited
<1>7. CASE at = 6
  <2>1. CheckResult
    BY <1>1, <1>2, <1>7
  <2>2. PICK verdict : Return(verdict, Live)
    BY <2>1 DEF Fault
  <2>3. note' = 0
    BY <1>7, <2>1 DEF Waited
  <2>4. {h \in Live : MayNotify(h)} = {}
    <3>1. \A h \in Live : h = 1 /\ pc[1] \in {6, 7} /\ pc[1] <= 6
      BY <1>2, <1>7, WaiterEntries DEF Live, Waited
    <3>2. ~MayNotify(1) \/ Live = {}
      <4> SUFFICES ASSUME 1 \in Live PROVE ~MayNotify(1)
        BY <3>1
      <4>1. pc[1]..Len(Body(1)) = {6} /\ Body(1)[6] = Mark
        <5>1. WaiterBody[6] = Mark
          BY DEF WaiterBody
        <5>2. pc[1]..6 = {6}
          BY <3>1
        <5>3. Body(1) = WaiterBody /\ Len(WaiterBody) = 6
          BY <1>2, WaiterEntries
        <5> QED BY <5>1, <5>2, <5>3, Zenon
      <4> QED BY <4>1 DEF MayNotify, Mark, Notify
    <3> QED BY <3>1, <3>2
  <2>5. callers' = callers + Cardinality({})
    BY <2>2, <2>4 DEF Return
  <2>6. callers' = 0
    BY <2>5, FS_EmptySet
  <2> QED BY <2>2, <2>3, <2>6 DEF Return, Leaves
<1> QED BY <1>2, <1>3, <1>4, <1>5, <1>6, <1>7

\* The three kinds of tests have nothing in common.
LEMMA AnsweringIsNoOther ==
  /\ \A t \in Answering : t \notin Spinning /\ t # ConditionVariable
  /\ ConditionVariable \notin Spinning
<1>1. ASSUME NEW t \in Answering PROVE t \notin Spinning
  <2>1. Answers(t.body[1])
    BY AnsweringBodies, RtosAssumption
  <2>2. t \in Spinning => Silent(t.body[1])
    BY SpinningTests, RtosAssumption
  <2>3. ~(Answers(t.body[1]) /\ Silent(t.body[1]))
    BY DEF Answers, Silent
  <2> QED BY <2>1, <2>2, <2>3
<1>2. ConditionVariable.body[1] = WaiterBody
  BY RtosAssumption DEF ConditionVariable, Test, All, WaiterBody
<1>3. Len(WaiterBody) = 6 /\ WaiterBody[3].do = "await" /\ WaiterBody[2].do = "notify"
  BY DEF WaiterBody, Await, Notify
<1>4. ~Answers(WaiterBody) /\ ~Silent(WaiterBody)
  BY <1>3 DEF Answers, Silent, Before
<1>5. ConditionVariable \notin Spinning
  BY <1>2, <1>4, SpinningTests, RtosAssumption
<1>6. ConditionVariable \notin Answering
  BY <1>2, <1>4, AnsweringBodies, RtosAssumption
<1> QED BY <1>1, <1>5, <1>6

\* The marks of the waiter.
LEMMA WaiterMarks ==
  /\ WaiterBody # <<Spin>>
  /\ Cardinality({i \in DOMAIN WaiterBody : WaiterBody[i] = Mark}) = 3
<1>1. /\ Len(WaiterBody) = 6 /\ DOMAIN WaiterBody = 1..6
      /\ WaiterBody[1] = Mark /\ WaiterBody[2] = Notify /\ WaiterBody[3] = Await(3)
      /\ WaiterBody[4] = Mark /\ WaiterBody[5] = Notify /\ WaiterBody[6] = Mark
  BY DEF WaiterBody
<1>2. Notify # Mark /\ Await(3) # Mark
  <2>1. Mark.do = "mark" /\ Notify.do = "notify" /\ Await(3).do = "await"
    BY DEF Mark, Notify, Await
  <2> QED BY <2>1
<1>3. {i \in DOMAIN WaiterBody : WaiterBody[i] = Mark} = ({1} \cup {4}) \cup {6}
  BY <1>1, <1>2
<1>4. /\ IsFiniteSet({1}) /\ Cardinality({1}) = 1
  BY FS_Singleton
<1>5. IsFiniteSet({1} \cup {4}) /\ Cardinality({1} \cup {4}) = 2
  BY <1>4, FS_AddElement
<1>6. Cardinality(({1} \cup {4}) \cup {6}) = 3
  BY <1>5, FS_AddElement
<1>7. Len(<<Spin>>) = 1
  OBVIOUS
<1> QED BY <1>1, <1>3, <1>6, <1>7

LEMMA StartsOrderly ==
  ASSUME pc = [h \in Slots |-> 0], joined = 0, bad = FALSE, woken = FALSE, note = 0,
         marks = [h \in Slots |-> 0], at = 1
  PROVE  Orderly
<1>1. Used = {}
  BY DEF Used
<1>2. Live = {} /\ Ended = {}
  BY <1>1 DEF Live, Ended
<1>3. Cardinality({}) = 0
  BY FS_EmptySet
<1>4. ASSUME T \in Answering
      PROVE  \E j, c : Joins(T.run, j, c) /\ Answered(j, c)
  <2>1. PICK j, c : Joins(T.run, j, c)
    BY <1>4, AnsweringRuns
  <2>2. 1 < j /\ j \in Nat /\ c[1] = 0 /\ 1 \in 1..Len(T.run)
    BY <2>1 DEF Joins
  <2>3. Answered(j, c)
    BY <1>1, <1>2, <1>3, <2>2 DEF Answered
  <2> QED BY <2>1, <2>3
<1>5. ASSUME T \in Spinning
      PROVE  \E q : Stops(T.run, q) /\ Stopped(q)
  <2>1. PICK q : Stops(T.run, q)
    BY <1>5, SpinningTests
  <2>2. Stopped(q)
    BY <2>1 DEF Stops, Stopped
  <2> QED BY <2>1, <2>2
<1>6. Waited
  <2>1. marks[1] = 0 /\ pc[1] = 0 /\ marks \in [Slots -> Nat]
    BY RtosAssumption
  <2> QED BY <1>1, <2>1 DEF Waited
<1> QED BY <1>4, <1>5, <1>6 DEF Orderly

LEMMA OrderlyRunner ==
  ASSUME test \in Nat \ {0}, Types, Running, faults = 0, faults' = 0, callers = 0, Orderly,
         Runner
  PROVE  callers' = 0 /\ Orderly'
<1>1. CASE Leaves
  BY <1>1, FreshOrderly DEF Leaves
<1>2. CASE ~Leaves
  <2>1. CASE T \in Answering
    <3>1. PICK j, c : Joins(T.run, j, c) /\ Answered(j, c)
      BY <2>1 DEF Orderly
    <3>2. T' = T /\ callers' = 0 /\ Answered(j, c)'
      BY <1>2, <2>1, <3>1, AnsweredRunner
    <3>3. T' \notin Spinning /\ T' # ConditionVariable
      BY <2>1, <3>1, <3>2, AnsweringIsNoOther
    <3>4. Joins(T'.run, j, c)
      BY <3>1, <3>2
    <3> QED BY <3>2, <3>3, <3>4 DEF Orderly
  <2>2. CASE T \in Spinning
    <3>1. PICK q : Stops(T.run, q) /\ Stopped(q)
      BY <2>2 DEF Orderly
    <3>2. T' = T /\ callers' = 0 /\ Stopped(q)'
      BY <1>2, <2>2, <3>1, StoppedRunner
    <3>3. T' \notin Answering /\ T' # ConditionVariable
      BY <2>2, <3>2, AnsweringIsNoOther
    <3>4. Stops(T'.run, q)
      BY <3>1, <3>2
    <3> QED BY <3>2, <3>3, <3>4 DEF Orderly
  <2>3. CASE T = ConditionVariable
    <3>1. T' = T /\ callers' = 0 /\ Waited'
      BY <1>2, <2>3, WaitedRunner DEF Orderly
    <3>2. T' \notin Answering /\ T' \notin Spinning
      BY <2>3, <3>1, AnsweringIsNoOther
    <3> QED BY <3>1, <3>2 DEF Orderly
  <2>4. T \in Tests
    BY TestNow
  <2> QED BY <2>1, <2>2, <2>3, <2>4, TestKinds
<1> QED BY <1>1, <1>2

LEMMA FaultsCount ==
  ASSUME faults \in Nat, [Next]_vars
  PROVE  faults' \in Nat /\ (faults' = 0 => faults = 0)
<1>1. faults' = faults \/ faults' = faults + 1
  BY DEF Next, vars, Runner, StrayRuns, HelperStep, Fault, CreateHelper, CreateRefused, SpawnEnds,
     JoinAnswer, JoinNothing, JoinExpires, PauseEnds, StopHelpers, SampleCounter, RunnerLocks,
     WaiterReady, WakeWaiter, UnlessCreated, CheckResult, KillHelpers, WriteResult, SpinOnce,
     NotifyRunner, TakeLock, TakeExpires, ReleaseLock, ReadCounter, WriteCounter,
     ArriveAtBarrier, MeetAtBarrier, AwaitSignal
<1> QED BY <1>1

\* Until something is refused or expires too early, no helper outlives its test and
\* at every place of a test the notifications are those of the helpers that ended.
THEOREM RunsOrderly == Spec => []CleanInv
<1>1. Init => CleanInv
  <2> SUFFICES ASSUME Init PROVE CleanInv
    OBVIOUS
  <2>1. /\ pc = [h \in Slots |-> 0] /\ joined = 0 /\ bad = FALSE /\ woken = FALSE /\ note = 0
        /\ marks = [h \in Slots |-> 0] /\ at = 1 /\ test = 1 /\ callers = 0 /\ faults = 0
    BY DEF Init
  <2>2. Orderly
    BY <2>1, StartsOrderly
  <2> QED BY <2>1, <2>2 DEF CleanInv
<1>2. RtosInv /\ RtosInv' /\ CleanInv /\ [Next]_vars => CleanInv'
  <2> SUFFICES ASSUME RtosInv, RtosInv', CleanInv, [Next]_vars
               PROVE  CleanInv'
    OBVIOUS
  <2>0. faults' \in Nat
    BY FaultsCount DEF CleanInv
  <2> SUFFICES ASSUME faults' = 0, Running'
               PROVE  callers' = 0 /\ Orderly'
    BY <2>0 DEF CleanInv
  <2>1. faults = 0 /\ faults \in Nat
    BY FaultsCount DEF CleanInv
  <2>2. test \in Nat \ {0} /\ Types' /\ (Running => callers = 0 /\ Orderly /\ Types)
    BY <2>1 DEF RtosInv, Core, CleanInv
  <2>3. CASE Runner
    <3>1. Running
      BY <2>3 DEF Runner, CreateHelper, CreateRefused, SpawnEnds, JoinAnswer, JoinNothing,
             JoinExpires, PauseEnds, StopHelpers, SampleCounter, RunnerLocks, WaiterReady,
             WakeWaiter, UnlessCreated, CheckResult, KillHelpers
    <3> QED BY <2>1, <2>2, <2>3, <3>1, OrderlyRunner
  <2>4. ASSUME NEW h \in Slots, HelperStep(h)
        PROVE  callers' = 0 /\ Orderly'
    <3>1. Running
      BY <2>4 DEF Running, HelperStep, At, WriteResult, SpinOnce, NotifyRunner, TakeLock,
             TakeExpires, ReleaseLock, ReadCounter, WriteCounter, ArriveAtBarrier,
             MeetAtBarrier, AwaitSignal
    <3>2. callers' = callers
      BY <2>1, <2>2, <2>4, <3>1, HelperFrame
    <3> QED BY <2>1, <2>2, <2>4, <3>1, <3>2, OrderlyHelper
  <2>5. CASE StrayRuns \/ UNCHANGED vars
    <3>1. Running /\ UNCHANGED <<test, at, ctx>>
      BY <2>5 DEF StrayRuns, vars, Running
    <3>2. callers = 0 /\ Orderly
      BY <2>2, <3>1
    <3>3. callers' = 0 /\ note' = note
      BY <2>5, <3>2 DEF StrayRuns, vars
    <3>4. Used' = Used /\ Live' = Live /\ Ended' = Ended /\ T' = T
      BY <3>1, SameHelpers DEF ctx
    <3>5. /\ \A j, c : Answered(j, c) => Answered(j, c)'
          /\ \A q : Stopped(q) => Stopped(q)'
          /\ Waited => Waited'
      BY <3>1, <3>3, <3>4 DEF ctx, Answered, Stopped, Waited
    <3> QED BY <3>2, <3>3, <3>4, <3>5 DEF Orderly
  <2> QED BY <2>3, <2>4, <2>5 DEF Next
<1> QED BY <1>1, <1>2, SelfTestCorrect, PTL DEF Spec

\* A test that reports success has been answered by all its helpers and leaves
\* neither a helper nor a notification behind, in any order of the tests, as long
\* as no creation was refused and no wait expired before the answer.
THEOREM PassIsCleanAlways == Spec => PassIsClean
<1>1. ASSUME RtosInv, CleanInv, CheckResult, result' = "pass", faults = 0
      PROVE  Live = {} /\ note = 0
  <2>1. Running /\ Op.do = "check" /\ Passes
    BY <1>1 DEF CheckResult, Return
  <2>2. Orderly /\ T \in Tests /\ Op = T.run[at]
    BY <1>1, <2>1, TestNow DEF CleanInv, RtosInv, Op, T
  <2>3. CASE T \in Answering
    <3>1. PICK j, c : Joins(T.run, j, c) /\ Answered(j, c)
      BY <2>2, <2>3 DEF Orderly
    <3>2. at # j /\ at \in 1..Len(T.run) /\ j \in Nat /\ at \notin 1..(j - 1)
      <4>1. /\ at \in 1..Len(T.run) /\ j \in Nat /\ T.run[j].do = "join"
            /\ \A i \in 1..(j - 1) : CreatesAt(T.run, j, c, i)
        BY <3>1 DEF Answered, Joins
      <4>2. T.run[at].do = "check"
        BY <2>1, <2>2
      <4>3. ~CreatesAt(T.run, j, c, at)
        BY <4>2 DEF CreatesAt
      <4> QED BY <4>1, <4>2, <4>3
    <3>3. at > j
      BY <3>2
    <3> QED BY <3>1, <3>3 DEF Answered
  <2>4. CASE T \in Spinning
    <3>1. PICK q : Stops(T.run, q) /\ Stopped(q)
      BY <2>2, <2>4 DEF Orderly
    <3>2. at # q /\ at \in 1..Len(T.run) /\ q \in Nat /\ at \notin 1..(q - 1)
      BY <2>1, <2>2, <3>1 DEF Stopped, Stops
    <3>3. at > q
      BY <3>2
    <3> QED BY <3>1, <3>3 DEF Stopped
  <2>5. CASE T = ConditionVariable
    <3>1. /\ Waited /\ Body(1) = WaiterBody /\ Len(WaiterBody) = 6
      BY <2>2, <2>5, WaiterEntries, RtosAssumption DEF Orderly
    <3>2. at = 6 /\ Op.data
      BY <2>1, <2>2, <2>5, <3>1 DEF Waited, ConditionVariable, Test, Create, Join, Simple,
         Checked, Counted, Check
    <3>3. Used = {1} /\ note = 0 /\ Worked(1)
      BY <2>1, <3>1, <3>2 DEF Waited, Passes
    <3>4. TotalMarks(1) = 3
      BY <3>1, WaiterMarks DEF TotalMarks
    <3>5. pc[1] = 7
      BY <3>1, <3>2, <3>3, <3>4 DEF Worked, Waited
    <3>6. ~(pc[1] <= Len(Body(1)))
      <4>1. Len(Body(1)) = 6
        BY <3>1, Zenon
      <4>2. pc[1] <= Len(Body(1)) <=> 7 <= 6
        BY <3>5, <4>1, Zenon
      <4>3. ~(7 <= 6)
        OBVIOUS
      <4> QED BY <4>2, <4>3, Zenon
    <3> QED BY <3>3, <3>6 DEF Live
  <2> QED BY <2>2, <2>3, <2>4, <2>5, TestKinds
<1>2. RtosInv /\ CleanInv => [(CheckResult /\ result' = "pass" /\ faults = 0)
                                => (Live = {} /\ note = 0)]_vars
  BY <1>1
<1> QED BY <1>2, SelfTestCorrect, RunsOrderly, PTL DEF PassIsClean
=============================================================================
