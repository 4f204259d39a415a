--------------------------- MODULE RequiredTests ---------------------------
(***************************************************************************)
(* When the firmware runs its required unit tests: booting() reads the     *)
(* boot counter lastRUT from flash, runRequiredUnitTests() skips or runs   *)
(* the four tests and stores the counter, a failure restarts the chip      *)
(* (main.cpp).  Power may fail between any two steps; the serial commands  *)
(* "rut" and "nvs set lastRUT" write the counter while the system is up.   *)
(*                                                                         *)
(* A write of the counter may be refused (no session, no room): the flash  *)
(* keeps the old value, and only "nvs set" looks at the result.  The       *)
(* counter can always be read.                                             *)
(***************************************************************************)
EXTENDS Integers

CONSTANTS
  Circle,  \* rut_circle of the configuration, or the default
  ForceNow, \* kForceRequiredUnitTestsNow, 0xFFFFFFFF in the code
  MaxSkips \* bound on the history counter of skipped runs

ASSUME CircleAssumption == Circle \in Nat \ {0}
ASSUME ForceAssumption == ForceNow \in Nat /\ ForceNow > Circle + 1
ASSUME MaxSkipsAssumption == MaxSkips \in Nat /\ MaxSkips > Circle + 1

VARIABLES
  phase,    \* where the chip is, see Phases
  lastRUT,  \* the counter in flash
  lastRun,  \* booting()'s copy of it
  ok,       \* runRequiredUnitTests()'s local
  critical, \* history: the RTOS or the RAM test failed in the latest required run
  pending,  \* history: "rut" was accepted and no required run has begun since
  skips,    \* history: boots that skipped the tests since the counter was last reset
  missed    \* history: those of them whose write of the counter was refused

history == <<critical, pending, skips, missed>>
vars == <<phase, lastRUT, lastRun, ok, history>>

Phases ==
  {"off", "read", "rtos", "ram", "cert", "fs", "store", "verdict",
   "init", "running", "restart"}

TypeOK ==
  /\ phase \in Phases
  /\ lastRUT \in 0 .. ForceNow
  /\ lastRun \in 0 .. ForceNow
  /\ ok \in BOOLEAN /\ critical \in BOOLEAN /\ pending \in BOOLEAN
  /\ skips \in 0 .. MaxSkips /\ missed \in 0 .. MaxSkips

Init ==
  /\ phase = "off"
  /\ lastRUT = 0   \* the key is absent on a new chip: getUInt's fallback
  /\ lastRun = 0
  /\ ok = TRUE
  /\ critical = FALSE /\ pending = FALSE
  /\ skips = 0 /\ missed = 0

-----------------------------------------------------------------------------
(* The boot. *)

PowerOn ==
  /\ phase = "off"
  /\ phase' = "read"
  /\ lastRun' = lastRUT
  /\ ok' = TRUE
  /\ UNCHANGED <<lastRUT, history>>

\* NVSStore::setUInt: a refused write changes nothing.
SetUInt(n, stored) == lastRUT' = IF stored THEN n ELSE lastRUT

OneMore(n) == IF n < MaxSkips THEN n + 1 ELSE n

MaySkip_late == lastRun # ForceNow /\ lastRun <= Circle + 1

MaySkip == lastRun # ForceNow /\ lastRun <= Circle

Skip_countsDown ==
  /\ phase = "read"
  /\ MaySkip
  /\ lastRUT' = lastRun - 1
  /\ phase' = "init"
  /\ skips' = OneMore(skips)
  /\ UNCHANGED <<lastRun, ok, critical, pending, missed>>

\* The counter goes up before anything else of this boot happens, if it does:
\* nobody looks.
Skip ==
  /\ phase = "read"
  /\ MaySkip
  /\ \E stored \in BOOLEAN :
       /\ SetUInt(lastRun + 1, stored)
       /\ missed' = IF stored THEN missed ELSE OneMore(missed)
  /\ phase' = "init"
  /\ skips' = OneMore(skips)
  /\ UNCHANGED <<lastRun, ok, critical, pending>>

RunTests_storesFirst ==
  /\ phase = "read"
  /\ ~MaySkip
  /\ lastRUT' = 0
  /\ phase' = "rtos"
  /\ UNCHANGED <<lastRun, ok, history>>

RunTests ==
  /\ phase = "read"
  /\ ~MaySkip
  /\ phase' = "rtos"
  /\ UNCHANGED <<lastRUT, lastRun, ok, history>>

\* The RTOS and the RAM test restart the chip at once when they fail.
CriticalTest(test, next) ==
  /\ phase = test
  /\ \/ phase' = next /\ UNCHANGED history
     \/ /\ phase' = "restart"
        /\ critical' = TRUE
        /\ UNCHANGED <<pending, skips, missed>>
  /\ UNCHANGED <<lastRUT, lastRun, ok>>

\* The certification and the file-system test only count.
OtherTest(test, next) ==
  /\ phase = test
  /\ phase' = next
  /\ ok' \in {ok, FALSE}
  /\ UNCHANGED <<lastRUT, lastRun, history>>

\* The run is over: the counter restarts whatever the outcome, or stays where
\* it made the tests run.
Store ==
  /\ phase = "store"
  /\ \E stored \in BOOLEAN : SetUInt(0, stored)
  /\ phase' = "verdict"
  /\ critical' = FALSE
  /\ pending' = FALSE
  /\ skips' = 0 /\ missed' = 0
  /\ UNCHANGED <<lastRun, ok>>

Verdict ==
  /\ phase = "verdict"
  /\ phase' = IF ok THEN "init" ELSE "restart"
  /\ UNCHANGED <<lastRUT, lastRun, ok, history>>

\* The rest of booting(), which ends in initUnitTests().
InitDone ==
  /\ phase = "init"
  /\ phase' \in {"running", "restart"}
  /\ UNCHANGED <<lastRUT, lastRun, ok, history>>

Restart ==
  /\ phase = "restart"
  /\ phase' = "off"
  /\ UNCHANGED <<lastRUT, lastRun, ok, history>>

PowerCut ==
  /\ phase # "off"
  /\ phase' = "off"
  /\ UNCHANGED <<lastRUT, lastRun, ok, history>>

-----------------------------------------------------------------------------
(* Serial commands: the daemon is started in the rest of booting().  One   *)
(* whose write is refused changes nothing.                                 *)

SerialUp == phase \in {"init", "running"}

\* "rut"
ForceTests ==
  /\ SerialUp
  /\ lastRUT' = ForceNow
  /\ pending' = TRUE
  /\ UNCHANGED <<phase, lastRun, ok, critical, skips, missed>>

\* "nvs set lastRUT <n>"; a value that is not a number is read back as 0.
SetCounter(n) ==
  /\ SerialUp
  /\ lastRUT' = n
  /\ pending' = (n = ForceNow)
  /\ skips' = 0 /\ missed' = 0
  /\ UNCHANGED <<phase, lastRun, ok, critical>>

Next ==
  \/ PowerOn \/ Skip \/ RunTests
  \/ CriticalTest("rtos", "ram") \/ CriticalTest("ram", "cert")
  \/ OtherTest("cert", "fs") \/ OtherTest("fs", "store")
  \/ Store \/ Verdict \/ InitDone \/ Restart \/ PowerCut
  \/ ForceTests \/ \E n \in 0 .. ForceNow : SetCounter(n)

Spec == Init /\ [][Next]_vars

-----------------------------------------------------------------------------
(* Properties. *)

\* A failed RTOS or RAM test keeps the system down until a run passes both,
\* across restarts and power cuts at any step (main.cpp:62-67, 100-101).
CriticalFailureSticks == phase \in {"init", "running"} => ~critical

\* A run asked for by "rut" is never forgotten: no later boot gets past the
\* test stage before one has run to its end (main.cpp:89-105 with the power
\* failing anywhere, command_registry_handlers.cpp:76-82).
ForcedRunHonoured ==
  [][phase # "init" /\ phase' = "init" => ~pending']_vars

\* At most Circle + 1 boots in a row skip the tests, and one more for each boot
\* whose write of the counter was refused (main.cpp:93-95).
BoundedGap == skips <= Circle + 1 + missed

\* What makes them inductive: a critical failure or a pending request leaves
\* the counter in flash at a value that does not skip.
MustRun(n) == n = ForceNow \/ n > Circle

TestPhases == {"rtos", "ram", "cert", "fs", "store"}

CounterInv ==
  /\ critical => MustRun(lastRUT) /\ phase \notin {"init", "running", "verdict"}
  /\ pending => MustRun(lastRUT)
  /\ phase = "read" => lastRun = lastRUT
  /\ phase \in TestPhases => MustRun(lastRUT)
  /\ phase = "verdict" => ~pending
  /\ skips <= lastRUT + missed
  /\ skips <= Circle + 1 + missed
=============================================================================
