----------------------------- MODULE IdAuthority -----------------------------
(***************************************************************************)
(* What the device-ID service promises its robots: a robot gets a number   *)
(* nobody else has or ever had, keeps it for ever, and may forget it and   *)
(* learn it again.                                                         *)
(***************************************************************************)
EXTENDS Integers

CONSTANTS Robots, Numbers

VARIABLES
  owned,  \* the <<robot, number>> pairs decided so far
  held    \* the number each robot believes it has, 0 for none

authorityVars == <<owned, held>>

Init ==
  /\ owned = {}
  /\ held = [r \in Robots |-> 0]

\* A number without owner goes to a robot without number.
Assign(r, n) ==
  /\ \A o \in owned : o[1] # r /\ o[2] # n
  /\ owned' = owned \cup {<<r, n>>}
  /\ UNCHANGED held

\* The robot hears of the number it owns.
Learn(r, n) ==
  /\ <<r, n>> \in owned
  /\ held' = [held EXCEPT ![r] = n]
  /\ UNCHANGED owned

Forget(r) ==
  /\ held' = [held EXCEPT ![r] = 0]
  /\ UNCHANGED owned

Next ==
  \E r \in Robots :
    \/ \E n \in Numbers : Assign(r, n) \/ Learn(r, n)
    \/ Forget(r)

Spec == Init /\ [][Next]_authorityVars
=============================================================================
