---------------------------- MODULE MCObjectTests ----------------------------
EXTENDS ObjectTests
MCOrder == ObjectOrder
MCCapacity == [internal |-> 4, psram |-> 3]
MCDefects == {"none", "overflow", "lost", "stale", "lifo", "keeps", "any", "cell"}
=============================================================================
