----------------------------- MODULE ObjectTests -----------------------------
(***************************************************************************)
(* The self-tests that start no helper: those of the kernel objects (mutex,*)
(* semaphores, event flags, queues, mailbox) and of the heaps (dynamic     *)
(* allocation, forced failure, RAM and PSRAM fill), run one after another  *)
(* while the other tasks go on allocating.  A test is a script of calls    *)
(* with the answer it expects; every script ends with the deletion of what *)
(* it created, where an early return jumps to.                             *)
(*                                                                         *)
(* What the tests are for is part of the model: `defect` is something the  *)
(* kernel may do wrong, and the verdict has to tell.                       *)
(***************************************************************************)
EXTENDS Naturals, Sequences, FiniteSets

CONSTANTS Order,      \* the tests, in the order they run
          Capacity,   \* pool -> units of memory it has
          Pressure,   \* units the corruption test reserves at most (CORRUPT_TEST)
          FirstChunk, \* units of the first chunk size the fill tests try
          Defects,    \* defects the kernel may have, "none" among them
          Noise       \* allocations and releases of other tasks, at most

VARIABLES test, at,   \* the test and the place in its script
          obj,        \* name -> the kernel object [cap, items], or Absent
          bits,       \* bits set in the event group
          held,       \* units of the blocks the test holds, newest first
          chunk,      \* chunk size of a fill test
          grew,       \* it allocated at this size
          seen,       \* the number the test remembers
          free,       \* pool -> units nobody holds
          others,     \* pool -> units other tasks hold
          reserved,   \* units the corruption test holds
          noise,      \* operations of other tasks so far
          refused,    \* an allocation has failed
          defect,     \* the defect of this kernel
          bad,        \* the test has decided to fail
          ok          \* verdict so far

mem == <<held, free, others, reserved, noise>>
vars == <<test, at, obj, bits, mem, chunk, grew, seen, refused, defect, bad, ok>>

Absent == [cap |-> 0, items |-> <<>>]
ANY == 99
Names == {"a", "b"}
Pools == DOMAIN Capacity

-----------------------------------------------------------------------------
(* The calls.  An answer is 0 for a failure, else the value; 1 is pdTRUE.  *)

New(o, cap, items)    == [do |-> "new", on |-> o, cap |-> cap, items |-> items]
Need                  == [do |-> "need"]
Send(o, v, want)      == [do |-> "send", on |-> o, value |-> v, want |-> want, stop |-> TRUE]
Overwrite(o, v, want) == [do |-> "over", on |-> o, value |-> v, want |-> want, stop |-> FALSE]
Receive(o, want)      == [do |-> "recv", on |-> o, want |-> want, stop |-> TRUE]
Count(o, want)        == [do |-> "count", on |-> o, want |-> want, stop |-> TRUE]
SetBit(b)             == [do |-> "set", bit |-> b]
WaitAll(want)         == [do |-> "wait", want |-> want, stop |-> TRUE]
Noted(call)           == [call EXCEPT !.stop = FALSE]   \* ok = ... && ok, and go on
Random(n)             == [do |-> "random", on |-> "a", rounds |-> n]
Block(n)              == [do |-> "block", units |-> n, pool |-> "internal"]
Release(k)            == [do |-> "release", which |-> k]
Look                  == [do |-> "look"]
Overask               == [do |-> "force"]
Compare               == [do |-> "compare"]
Fill(p)               == [do |-> "fill", pool |-> p]
Verify                == [do |-> "verify"]
Cleanup(names)        == [do |-> "cleanup", names |-> names]

GiveAs(o, want) == Send(o, 1, want)
Lasting(calls, names) == calls \o <<Cleanup(names)>>

-----------------------------------------------------------------------------
(* The tests.                                                              *)

IsrToTask == Lasting(<<New("a", 1, <<>>), New("b", 4, <<>>), Need, GiveAs("a", 1),
                       Send("b", 7, 1), Receive("a", 1), Receive("b", 7)>>, {"a", "b"})

Mutex == Lasting(<<New("a", 1, <<1>>), Need, Receive("a", 1), GiveAs("a", 1)>>, {"a"})
(* Faulty variant: only one of the two semaphores is deleted.              *)
Semaphore_deletesOne ==
  Lasting(<<New("a", 1, <<>>), New("b", 3, <<>>), Need, GiveAs("a", ANY), Receive("a", 1),
            GiveAs("b", ANY), GiveAs("b", ANY), GiveAs("b", ANY), Count("b", 3),
            GiveAs("b", 0), Count("b", 3)>>, {"a"})

Semaphore ==
  Lasting(<<New("a", 1, <<>>), New("b", 3, <<>>), Need, GiveAs("a", ANY), Receive("a", 1),
            GiveAs("b", ANY), GiveAs("b", ANY), GiveAs("b", ANY), Count("b", 3),
            GiveAs("b", 0), Count("b", 3)>>, {"a", "b"})

EventFlags == Lasting(<<New("a", 1, <<>>), Need, SetBit(1), WaitAll(0), SetBit(2),
                        WaitAll(1)>>, {"a"})
(* Faulty variant: the items are counted, their order is not looked at.    *)
Queue_anyOrder ==
  Lasting(<<New("a", 3, <<>>), Need>> \o
          [i \in 1..3 |-> Noted(Send("a", i, 1))] \o
          <<Noted(Send("a", 4, 0)), Noted(Receive("a", ANY)), Noted(Send("a", 4, 1)),
            Noted(Receive("a", ANY)), Noted(Receive("a", ANY)), Noted(Receive("a", ANY)),
            Noted(Receive("a", 0))>>, {"a"})

Queue ==
  Lasting(<<New("a", 3, <<>>), Need>> \o
          [i \in 1..3 |-> Noted(Send("a", i, 1))] \o
          <<Noted(Send("a", 4, 0)), Noted(Receive("a", 1)), Noted(Send("a", 4, 1)),
            Noted(Receive("a", 2)), Noted(Receive("a", 3)), Noted(Receive("a", 4)),
            Noted(Receive("a", 0))>>, {"a"})

Mailbox == Lasting(<<New("a", 1, <<>>), Need, Overwrite("a", 1, 1), Overwrite("a", 2, 1),
                     Noted(Receive("a", 2)), Noted(Receive("a", 0))>>, {"a"})

MaximumQueue == Lasting(<<New("a", 3, <<>>), Need>> \o [i \in 1..3 |-> Send("a", i, 1)] \o
                        <<Send("a", 4, 0)>>, {"a"})

ErrorBranch == Lasting(<<New("a", 1, <<>>), Need, Send("a", 1, 1), Send("a", 2, 0)>>, {"a"})

RandomSemaphore == Lasting(<<New("a", 1, <<>>), Need, Random(3)>>, {"a"})

(* Blocks are taken, every other one given back and taken again.           *)
DynamicAllocation ==
  Lasting(<<Block(1), Block(1), Block(1), Release(3), Release(1), Block(1), Block(1)>>, {})

(* More than is free is asked for: it must be refused.                     *)
ForcedFail == Lasting(<<Look, Overask>>, {})

MemorySafety == Lasting(<<Look, Block(1), Release(1), Compare>>, {})

RamFill == Lasting(<<Fill("internal"), Verify>>, {})
PsramFill == Lasting(<<Fill("psram"), Verify>>, {})

ObjectOrder ==
  <<IsrToTask, Mutex, Semaphore, EventFlags, DynamicAllocation, Queue, Mailbox, ForcedFail,
    MaximumQueue, MemorySafety, ErrorBranch, RandomSemaphore, RamFill, PsramFill>>

Scripts ==
  {IsrToTask, Mutex, Semaphore, EventFlags, DynamicAllocation, Queue, Mailbox, ForcedFail,
   MaximumQueue, MemorySafety, ErrorBranch, RandomSemaphore, RamFill, PsramFill}

ASSUME ObjectAssumption ==
  /\ Order \in Seq(Scripts)
  /\ Capacity \in [Pools -> Nat] /\ {"internal", "psram"} \subseteq Pools
  /\ Pressure \in 0..Capacity["internal"]
  /\ FirstChunk \in Nat

(* The test that must notice a defect; the suites run it for every one.    *)
Reveals(script, d) ==
  \/ d = "overflow" /\ script = ErrorBranch
  \/ d = "lost" /\ script = IsrToTask
  \/ d = "stale" /\ script = Mailbox
  \/ d = "lifo" /\ script = Queue
  \/ d = "keeps" /\ script = Mailbox
  \/ d = "any" /\ script = EventFlags
  \/ d = "cell" /\ script = RamFill

ASSUME SuiteAssumption ==
  \A d \in Defects \ {"none"} : \E t \in DOMAIN Order : Reveals(Order[t], d)

-----------------------------------------------------------------------------
Running == test <= Len(Order)
Op == Order[test][at]
Ending == Len(Order[test])
Sum(s) == LET f[i \in 0..Len(s)] == IF i = 0 THEN 0 ELSE f[i - 1] + s[i] IN f[Len(s)]
Full(o) == Len(obj[o].items) >= obj[o].cap
Drop(s, k) == SubSeq(s, 1, k - 1) \o SubSeq(s, k + 1, Len(s))
PoolOf == IF Order[test][1].do = "fill" THEN Order[test][1].pool ELSE "internal"
Created == {o \in Names : obj[o].cap > 0}

(* Where an answer leads: on, on with a failing verdict, or out.           *)
Answer(got) ==
  IF Op.want = ANY \/ got = Op.want THEN at' = at + 1 /\ bad' = bad
  ELSE at' = (IF Op.stop THEN Ending ELSE at + 1) /\ bad' = TRUE

Init ==
  /\ test = 1 /\ at = 1
  /\ obj = [o \in Names |-> Absent] /\ bits = {} /\ held = <<>>
  /\ chunk = FirstChunk /\ grew = FALSE /\ seen = 0
  /\ reserved \in 0..Pressure
  /\ free = [Capacity EXCEPT !["internal"] = @ - reserved]
  /\ others = [p \in Pools |-> 0]
  /\ noise = 0 /\ refused = FALSE /\ defect \in Defects /\ bad = FALSE /\ ok = TRUE

Idle == UNCHANGED <<test, reserved, others, noise, defect, ok>>

(* A kernel object takes a unit of internal memory, or stays null.         *)
CreateObject ==
  /\ Running /\ Op.do = "new"
  /\ IF free["internal"] > 0
       THEN /\ obj' = [obj EXCEPT ![Op.on] = [cap |-> Op.cap, items |-> Op.items]]
            /\ free' = [free EXCEPT !["internal"] = @ - 1] /\ refused' = refused
       ELSE UNCHANGED <<obj, free>> /\ refused' = TRUE
  /\ at' = at + 1
  /\ Idle /\ UNCHANGED <<bits, held, chunk, grew, seen, bad>>

NeedObjects ==
  /\ Running /\ Op.do = "need"
  /\ LET wanted == {Order[test][i].on : i \in {j \in 1..(at - 1) : Order[test][j].do = "new"}}
     IN  IF wanted \subseteq Created THEN at' = at + 1 /\ bad' = bad
                                     ELSE at' = Ending /\ bad' = TRUE
  /\ Idle /\ UNCHANGED <<obj, bits, held, free, chunk, grew, seen, refused>>

(* xQueueSend, xSemaphoreGive: refused when full.                          *)
SendItem ==
  /\ Running /\ Op.do = "send"
  /\ IF Full(Op.on) /\ defect # "overflow"
       THEN obj' = obj /\ Answer(0)
       ELSE /\ obj' = IF defect = "lost" THEN obj
                      ELSE [obj EXCEPT ![Op.on].items = Append(@, Op.value)]
            /\ Answer(1)
  /\ Idle /\ UNCHANGED <<bits, held, free, chunk, grew, seen, refused>>

(* xQueueOverwrite: the single slot takes the new value.                   *)
OverwriteItem ==
  /\ Running /\ Op.do = "over"
  /\ obj' = IF defect = "stale" /\ Full(Op.on) THEN obj
            ELSE [obj EXCEPT ![Op.on].items = <<Op.value>>]
  /\ Answer(1)
  /\ Idle /\ UNCHANGED <<bits, held, free, chunk, grew, seen, refused>>

(* xQueueReceive, xSemaphoreTake: the oldest item, or nothing in time.     *)
ReceiveItem ==
  /\ Running /\ Op.do = "recv"
  /\ LET items == obj[Op.on].items
         k == IF defect = "lifo" THEN Len(items) ELSE 1
     IN  IF items = <<>> THEN obj' = obj /\ Answer(0)
         ELSE /\ obj' = IF defect = "keeps" THEN obj
                        ELSE [obj EXCEPT ![Op.on].items = Drop(items, k)]
              /\ Answer(items[k])
  /\ Idle /\ UNCHANGED <<bits, held, free, chunk, grew, seen, refused>>

CountItems ==
  /\ Running /\ Op.do = "count"
  /\ Answer(Len(obj[Op.on].items))
  /\ Idle /\ UNCHANGED <<obj, bits, held, free, chunk, grew, seen, refused>>

SetEventBit ==
  /\ Running /\ Op.do = "set"
  /\ bits' = bits \union {Op.bit} /\ at' = at + 1
  /\ Idle /\ UNCHANGED <<obj, held, free, chunk, grew, seen, refused, bad>>

WaitAllBits ==
  /\ Running /\ Op.do = "wait"
  /\ Answer(IF {1, 2} \subseteq bits \/ (defect = "any" /\ bits # {}) THEN 1 ELSE 0)
  /\ Idle /\ UNCHANGED <<obj, bits, held, free, chunk, grew, seen, refused>>

(* Gives and takes in an arbitrary order; seen is tokenAvailable in the    *)
(* units and the rounds gone in the tens.                                  *)
RandomRound ==
  /\ Running /\ Op.do = "random"
  /\ LET token == seen % 10
         round == (seen \div 10) + 1
         there == obj["a"].items # <<>>
         On(t) == IF round = Op.rounds THEN at' = at + 1 /\ seen' = 0 /\ bad' = bad
                  ELSE at' = at /\ seen' = 10 * round + t /\ bad' = bad
     IN  \/ /\ obj' = IF defect = "lost" \/ (Full("a") /\ defect # "overflow") THEN obj
                      ELSE [obj EXCEPT !["a"].items = Append(@, 1)]
            /\ On(1)
         \/ /\ obj' = IF there /\ defect # "keeps"
                        THEN [obj EXCEPT !["a"].items = Tail(@)] ELSE obj
            /\ IF there = (token = 1) THEN On(0)
               ELSE at' = Ending /\ seen' = 0 /\ bad' = TRUE
  /\ Idle /\ UNCHANGED <<bits, held, free, chunk, grew, refused>>

-----------------------------------------------------------------------------
(* The heap.                                                               *)

AllocateBlock ==
  /\ Running /\ Op.do = "block"
  /\ IF free[Op.pool] >= Op.units
       THEN /\ held' = <<Op.units>> \o held /\ at' = at + 1
            /\ free' = [free EXCEPT ![Op.pool] = @ - Op.units]
            /\ UNCHANGED <<refused, bad>>
       ELSE /\ at' = Ending /\ bad' = TRUE /\ refused' = TRUE
            /\ UNCHANGED <<held, free>>
  /\ Idle /\ UNCHANGED <<obj, bits, chunk, grew, seen>>

ReleaseBlock ==
  /\ Running /\ Op.do = "release"
  /\ free' = [free EXCEPT !["internal"] = @ + held[Op.which]]
  /\ held' = Drop(held, Op.which) /\ at' = at + 1
  /\ Idle /\ UNCHANGED <<obj, bits, chunk, grew, seen, refused, bad>>

LookAtFree ==
  /\ Running /\ Op.do = "look"
  /\ seen' = free["internal"] /\ at' = at + 1
  /\ Idle /\ UNCHANGED <<obj, bits, held, free, chunk, grew, refused, bad>>

(* The refusal is what the test wants; others may have freed in between.   *)
ForceFailure ==
  /\ Running /\ Op.do = "force"
  /\ bad' = (free["internal"] >= seen + 1) /\ at' = at + 1
  /\ Idle /\ UNCHANGED <<obj, bits, held, free, chunk, grew, seen, refused>>

CompareFree ==
  /\ Running /\ Op.do = "compare"
  /\ bad' = (free["internal"] < seen) /\ at' = at + 1
  /\ Idle /\ UNCHANGED <<obj, bits, held, free, chunk, grew, seen, refused>>

(* One block of the current size is linked in; when the size is exhausted  *)
(* it is tried once more if it gave anything, else the size is halved.     *)
FillBlock ==
  /\ Running /\ Op.do = "fill" /\ chunk > 0 /\ free[Op.pool] >= chunk
  /\ held' = <<chunk>> \o held /\ free' = [free EXCEPT ![Op.pool] = @ - chunk]
  /\ grew' = TRUE
  /\ Idle /\ UNCHANGED <<at, obj, bits, chunk, seen, refused, bad>>
(* Faulty variant: the chunk size is not halved.                           *)
FillSmaller_same ==
  /\ Running /\ Op.do = "fill" /\ chunk > 0 /\ free[Op.pool] < chunk
  /\ chunk' = chunk /\ grew' = FALSE
  /\ Idle /\ UNCHANGED <<at, obj, bits, held, free, seen, refused, bad>>

FillSmaller ==
  /\ Running /\ Op.do = "fill" /\ chunk > 0 /\ free[Op.pool] < chunk
  /\ chunk' = (IF grew THEN chunk ELSE chunk \div 2) /\ grew' = FALSE
  /\ Idle /\ UNCHANGED <<at, obj, bits, held, free, seen, refused, bad>>

FillEnds ==
  /\ Running /\ Op.do = "fill" /\ chunk = 0
  /\ IF held = <<>> THEN at' = Ending /\ bad' = TRUE /\ refused' = TRUE
                    ELSE at' = at + 1 /\ UNCHANGED <<bad, refused>>
  /\ chunk' = FirstChunk
  /\ Idle /\ UNCHANGED <<obj, bits, held, free, grew, seen>>

(* Both patterns are written and read back over every block of the chain.  *)
VerifyBlocks ==
  /\ Running /\ Op.do = "verify"
  /\ bad' = (defect = "cell") /\ at' = at + 1
  /\ Idle /\ UNCHANGED <<obj, bits, held, free, chunk, grew, seen, refused>>

-----------------------------------------------------------------------------
(* The end of a test: what it created is deleted, the verdict recorded.    *)
CleanUp ==
  /\ Running /\ Op.do = "cleanup"
  /\ obj' = [o \in Names |-> IF o \in Op.names THEN Absent ELSE obj[o]]
  /\ free' = [p \in Pools |-> free[p] + (IF p = PoolOf THEN Sum(held) ELSE 0)
                + (IF p = "internal" THEN Cardinality(Created \intersect Op.names) ELSE 0)]
  /\ held' = <<>> /\ bits' = {} /\ seen' = 0
  /\ test' = test + 1 /\ at' = 1 /\ ok' = (ok /\ ~bad) /\ bad' = FALSE
  /\ UNCHANGED <<chunk, grew, refused, reserved, others, noise, defect>>

(* The reserve of the corruption test is given back after the tests.       *)
CleanupAfterTests ==
  /\ ~Running /\ reserved > 0
  /\ free' = [free EXCEPT !["internal"] = @ + reserved] /\ reserved' = 0
  /\ UNCHANGED <<test, at, obj, bits, held, chunk, grew, seen, others, noise, refused,
                 defect, bad, ok>>

(* Other tasks allocate and free: LCD, sensors, WiFi.                      *)
OthersAllocate(p) ==
  /\ noise < Noise /\ free[p] > 0
  /\ free' = [free EXCEPT ![p] = @ - 1] /\ others' = [others EXCEPT ![p] = @ + 1]
  /\ noise' = noise + 1
  /\ UNCHANGED <<test, at, obj, bits, held, chunk, grew, seen, reserved, refused, defect,
                 bad, ok>>
OthersFree(p) ==
  /\ noise < Noise /\ others[p] > 0
  /\ free' = [free EXCEPT ![p] = @ + 1] /\ others' = [others EXCEPT ![p] = @ - 1]
  /\ noise' = noise + 1
  /\ UNCHANGED <<test, at, obj, bits, held, chunk, grew, seen, reserved, refused, defect,
                 bad, ok>>

Tester ==
  \/ CreateObject \/ NeedObjects \/ SendItem \/ OverwriteItem \/ ReceiveItem \/ CountItems
  \/ SetEventBit \/ WaitAllBits \/ RandomRound \/ AllocateBlock \/ ReleaseBlock
  \/ LookAtFree \/ ForceFailure \/ CompareFree \/ FillBlock \/ FillSmaller \/ FillEnds
  \/ VerifyBlocks \/ CleanUp \/ CleanupAfterTests
Next == Tester \/ \E p \in Pools : OthersAllocate(p) \/ OthersFree(p)
Spec == Init /\ [][Next]_vars /\ WF_vars(Tester)

-----------------------------------------------------------------------------
(* Properties.                                                             *)

(* Between two tests every unit of memory is free, in the reserve or with  *)
(* another task: whichever call failed, the test gave back what it had     *)
(* (Clean up resources after tests, unittest/README.md:96).                *)
NothingLeaks ==
  (at = 1 /\ held = <<>>) => \A p \in Pools :
    free[p] + others[p] + (IF p = "internal" THEN reserved ELSE 0) = Capacity[p]

(* The verdict tells the kernel: with nothing refused and no other task    *)
(* allocating in between, the suite passes if and only if there is no      *)
(* defect.                                                                 *)
VerdictTells ==
  (~Running /\ ~refused /\ noise = 0) => (ok <=> defect = "none")

(* The fill tests come to an end although others free while they allocate, *)
(* and the reserve is given back.                                          *)
TestsEnd == <>[](~Running /\ reserved = 0)
=============================================================================
