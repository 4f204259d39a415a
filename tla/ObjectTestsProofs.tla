------------------------ MODULE ObjectTestsProofs ------------------------
(***************************************************************************)
(* That the self-tests of the kernel objects and of the heaps give back    *)
(* what they took, and that their verdict tells the kernel, for every order*)
(* of the tests, every size of the heaps and every other task.             *)
(*                                                                         *)
(* Each script deletes at its end what it asked for before it (Returns,    *)
(* proved of the scripts one by one), and no call of it takes a unit that  *)
(* is not an object of the test or a block in its list (UnitsInv).         *)
(*                                                                         *)
(* The verdict: what the objects hold before each call of a script is a    *)
(* function of the place and of the defect (Follows, a run of the script   *)
(* by hand, one lemma per script).  Under a sound kernel no call of the    *)
(* run is answered otherwise than the script wants (SoundInv); under a     *)
(* defect the run of the test that reveals it has such a call (CaughtInv). *)
(***************************************************************************)
EXTENDS ObjectTests, FiniteSetTheorems, SequenceTheorems, WellFoundedInduction, TLAPS

-----------------------------------------------------------------------------
(* Sums.                                                                   *)

LessThan == {p \in Nat \X Nat : p[1] < p[2]}
LEMMA LessThanWellFounded == IsWellFoundedOn(LessThan, Nat)
  BY NatLessThanWellFounded, Zenon DEF OpToRel, LessThan

LEMMA LeastNumber ==
  ASSUME NEW T \in SUBSET Nat, T # {}
  PROVE  \E m \in T : \A k \in T : m <= k
<1>1. PICK x \in T : \A y \in T : ~ (<<y, x>> \in LessThan)
  BY LessThanWellFounded, WFMin
<1>2. ASSUME NEW k \in T PROVE x <= k
  <2>1. k \in Nat /\ x \in Nat /\ <<k, x>> \notin LessThan
    BY <1>1
  <2> QED BY <2>1 DEF LessThan
<1> QED BY <1>1, <1>2

\* Counting up from 1 to n by ones.
LEMMA CountsUp ==
  ASSUME NEW n \in Nat, n # 0, NEW B, 1 \in B, \A i \in 2 .. n : i - 1 \in B => i \in B
  PROVE  n \in B
<1> SUFFICES ASSUME n \notin B PROVE FALSE
  OBVIOUS
<1> DEFINE T == (1 .. n) \ B
<1>1. T \in SUBSET Nat /\ n \in T
  OBVIOUS
<1>2. PICK m \in T : \A k \in T : m <= k
  <2> HIDE DEF T
  <2> QED BY <1>1, LeastNumber
<1>3. m \in 2 .. n /\ m \notin B /\ m - 1 \in 1 .. n /\ ~(m <= m - 1)
  OBVIOUS
<1>4. m - 1 \in B
  BY <1>2, <1>3
<1> QED BY <1>3, <1>4

LEMMA Joined ==
  ASSUME NEW S, NEW a \in Seq(S), NEW b \in Seq(S)
  PROVE  /\ a \o b \in Seq(S) /\ Len(a \o b) = Len(a) + Len(b)
         /\ \A k \in 1..Len(a) : (a \o b)[k] = a[k]
         /\ \A k \in 1..Len(b) : (a \o b)[Len(a) + k] = b[k]
  OBVIOUS

LEMMA PartsOf ==
  ASSUME NEW S, NEW s \in Seq(S), NEW i \in 1..Len(s)
  PROVE  /\ SubSeq(s, 1, i - 1) \in Seq(S) /\ Len(SubSeq(s, 1, i - 1)) = i - 1
         /\ \A k \in 1..(i - 1) : SubSeq(s, 1, i - 1)[k] = s[k]
         /\ SubSeq(s, i + 1, Len(s)) \in Seq(S) /\ Len(SubSeq(s, i + 1, Len(s))) = Len(s) - i
         /\ \A k \in 1..(Len(s) - i) : SubSeq(s, i + 1, Len(s))[k] = s[i + k]
<1>0. Len(s) \in Nat /\ i \in Nat /\ i <= Len(s) /\ 1 <= i
  OBVIOUS
<1>1. /\ SubSeq(s, 1, i - 1) \in Seq(S) /\ Len(SubSeq(s, 1, i - 1)) = i - 1
      /\ \A k \in 1..(i - 1) : SubSeq(s, 1, i - 1)[k] = s[k]
  BY <1>0
<1>2. /\ SubSeq(s, i + 1, Len(s)) \in Seq(S) /\ Len(SubSeq(s, i + 1, Len(s))) = Len(s) - i
      /\ \A k \in 1..(Len(s) - i) : SubSeq(s, i + 1, Len(s))[k] = s[i + k]
  BY <1>0
<1> QED BY <1>1, <1>2

\* t is s without its i-th element.
Skips(s, i, t) ==
  /\ Len(t) = Len(s) - 1
  /\ \A k \in 1..(i - 1) : t[k] = s[k]
  /\ \A k \in 1..(Len(s) - i) : t[(i - 1) + k] = s[i + k]

LEMMA WithoutOne ==
  ASSUME NEW S, NEW s \in Seq(S), NEW i \in 1..Len(s)
  PROVE  /\ SubSeq(s, 1, i - 1) \o SubSeq(s, i + 1, Len(s)) \in Seq(S)
         /\ Skips(s, i, SubSeq(s, 1, i - 1) \o SubSeq(s, i + 1, Len(s)))
<1> DEFINE a == SubSeq(s, 1, i - 1)
           b == SubSeq(s, i + 1, Len(s))
<1>0. Len(s) \in Nat /\ i \in Nat /\ i <= Len(s) /\ 1 <= i
  OBVIOUS
<1>1. a \in Seq(S) /\ b \in Seq(S)
  BY PartsOf
<1>2. /\ Len(a) = i - 1 /\ \A k \in 1..(i - 1) : a[k] = s[k]
      /\ Len(b) = Len(s) - i /\ \A k \in 1..(Len(s) - i) : b[k] = s[i + k]
  BY PartsOf
<1> HIDE DEF a, b
<1>3. /\ a \o b \in Seq(S) /\ Len(a \o b) = Len(a) + Len(b)
      /\ \A k \in 1..Len(a) : (a \o b)[k] = a[k]
      /\ \A k \in 1..Len(b) : (a \o b)[Len(a) + k] = b[k]
  BY <1>1, Joined
<1> DEFINE t == a \o b
<1>4. /\ t \in Seq(S) /\ Len(t) = Len(a) + Len(b)
      /\ \A k \in 1..Len(a) : t[k] = a[k]
      /\ \A k \in 1..Len(b) : t[Len(a) + k] = b[k]
  BY <1>3
<1> HIDE DEF t
<1>5. Len(t) = Len(s) - 1
  BY <1>0, <1>2, <1>4
<1>6. \A k \in 1..(i - 1) : t[k] = s[k]
  BY <1>2, <1>4
<1>7. \A k \in 1..(Len(s) - i) : t[(i - 1) + k] = s[i + k]
  BY <1>2, <1>4
<1>8. t \in Seq(S) /\ Skips(s, i, t)
  BY <1>4, <1>5, <1>6, <1>7 DEF Skips
<1> QED BY <1>8, Zenon DEF t, a, b

\* f counts up the elements of s.
SumSteps(s, f) ==
  /\ f \in [0..Len(s) -> Nat] /\ f[0] = 0
  /\ \A i \in 1..Len(s) : f[i] = f[i - 1] + s[i]

LEMMA RunningSum ==
  ASSUME NEW s \in Seq(Nat)
  PROVE  \E f : SumSteps(s, f)
<1> DEFINE To(f, n) == /\ f \in [0..n -> Nat] /\ f[0] = 0
                       /\ \A i \in 1..n : f[i] = f[i - 1] + s[i]
           B == {n \in 0..Len(s) : \E f : To(f, n)}
<1>0. Len(s) \in Nat /\ \A i \in 1..Len(s) : s[i] \in Nat
  OBVIOUS
<1>1. ASSUME NEW n \in 1..Len(s), n - 1 \in B PROVE n \in B
  <2>1. PICK f : To(f, n - 1)
    BY <1>1
  <2> DEFINE g == [i \in 0..n |-> IF i = n THEN f[n - 1] + s[n] ELSE f[i]]
  <2>2. g \in [0..n -> Nat]
    BY <1>0, <2>1
  <2>3. g[0] = 0
    BY <2>1
  <2>4. ASSUME NEW i \in 1..n PROVE g[i] = g[i - 1] + s[i]
    <3>1. CASE i = n
      BY <3>1
    <3>2. CASE i # n
      BY <3>2, <2>1
    <3> QED BY <3>1, <3>2
  <2>5. To(g, n)
    <3> HIDE DEF g
    <3> QED BY <2>2, <2>3, <2>4
  <2> HIDE DEF g, To
  <2> QED BY <1>0, <2>5
<1>2. 0 \in B
  <2> DEFINE g == [i \in 0..0 |-> 0]
  <2>1. To(g, 0)
    OBVIOUS
  <2> HIDE DEF g, To
  <2> QED BY <1>0, <2>1
<1>3. Len(s) \in B
  <2> HIDE DEF B
  <2>1. CASE Len(s) = 0
    BY <2>1, <1>2
  <2>2. CASE Len(s) # 0
    <3>1. 1 \in B
      BY <1>0, <1>1, <1>2, <2>2
    <3>2. \A i \in 2..Len(s) : i - 1 \in B => i \in B
      BY <1>0, <1>1
    <3> QED BY <1>0, <2>2, <3>1, <3>2, CountsUp
  <2> QED BY <2>1, <2>2
<1> QED BY <1>3 DEF SumSteps

LEMMA SumIs ==
  ASSUME NEW s \in Seq(Nat), NEW f, SumSteps(s, f)
  PROVE  Sum(s) = f[Len(s)] /\ Sum(s) \in Nat
<1> DEFINE Def(g) == g = [i \in 0..Len(s) |-> IF i = 0 THEN 0 ELSE g[i - 1] + s[i]]
           h == CHOOSE g : Def(g)
<1>0. Len(s) \in Nat /\ \A i \in 1..Len(s) : s[i] \in Nat
  OBVIOUS
<1>1. Def(f)
  <2>1. f = [i \in 0..Len(s) |-> f[i]]
    BY DEF SumSteps
  <2>2. ASSUME NEW i \in 0..Len(s) PROVE f[i] = IF i = 0 THEN 0 ELSE f[i - 1] + s[i]
    BY <1>0 DEF SumSteps
  <2>3. [i \in 0..Len(s) |-> f[i]] = [i \in 0..Len(s) |-> IF i = 0 THEN 0 ELSE f[i - 1] + s[i]]
    BY <2>2, Zenon
  <2> QED BY <2>1, <2>3, Zenon
<1>2. Def(h)
  BY <1>1, Zenon
<1>3. Sum(s) = h[Len(s)]
  BY Zenon DEF Sum
<1>4. \A i \in 0..Len(s) : h[i] = IF i = 0 THEN 0 ELSE h[i - 1] + s[i]
  BY <1>2, Zenon
<1> HIDE DEF h
<1> DEFINE B == {n \in 0..Len(s) : h[n] = f[n]}
<1>5. h[0] = f[0]
  BY <1>0, <1>4 DEF SumSteps
<1>6. ASSUME NEW n \in 1..Len(s), n - 1 \in B PROVE n \in B
  <2>1. h[n] = h[n - 1] + s[n]
    BY <1>0, <1>4
  <2>2. f[n] = f[n - 1] + s[n]
    BY DEF SumSteps
  <2> QED BY <1>0, <1>6, <2>1, <2>2
<1>7. Len(s) \in B
  <2>0. 0 \in B
    BY <1>0, <1>5
  <2> HIDE DEF B
  <2>1. CASE Len(s) = 0
    BY <2>1, <2>0
  <2>2. CASE Len(s) # 0
    <3>1. 1 \in B
      BY <1>0, <1>6, <2>0, <2>2
    <3>2. \A i \in 2..Len(s) : i - 1 \in B => i \in B
      BY <1>0, <1>6
    <3> QED BY <1>0, <2>2, <3>1, <3>2, CountsUp
  <2> QED BY <2>1, <2>2
<1>8. h[Len(s)] = f[Len(s)]
  BY <1>7
<1>9. f[Len(s)] \in Nat
  BY <1>0 DEF SumSteps
<1> QED BY <1>3, <1>8, <1>9

LEMMA SumNat == ASSUME NEW s \in Seq(Nat) PROVE Sum(s) \in Nat
  BY RunningSum, SumIs

LEMMA SumNone == Sum(<<>>) = 0
<1> DEFINE s == <<>>
<1>0. s \in Seq(Nat) /\ Len(s) = 0
  OBVIOUS
<1> HIDE DEF s
<1>1. PICK f : SumSteps(s, f)
  BY <1>0, RunningSum
<1>2. Sum(s) = f[0]
  BY <1>0, <1>1, SumIs
<1>3. Sum(s) = 0
  BY <1>1, <1>2 DEF SumSteps
<1> QED BY <1>3 DEF s

LEMMA SumMore ==
  ASSUME NEW s \in Seq(Nat), NEW x \in Nat
  PROVE  /\ <<x>> \o s \in Seq(Nat) /\ Len(<<x>> \o s) = Len(s) + 1
         /\ Sum(<<x>> \o s) = x + Sum(s)
<1> DEFINE t == <<x>> \o s
<1>1. t \in Seq(Nat) /\ Len(t) = Len(s) + 1 /\ Len(s) \in Nat
  OBVIOUS
<1>2. t[1] = x /\ \A k \in 1..Len(s) : t[k + 1] = s[k]
  OBVIOUS
<1>3. PICK f : SumSteps(s, f)
  BY RunningSum
<1> HIDE DEF t
<1> DEFINE g == [i \in 0..Len(t) |-> IF i = 0 THEN 0 ELSE x + f[i - 1]]
<1>4. g \in [0..Len(t) -> Nat] /\ g[0] = 0
  BY <1>1, <1>3 DEF SumSteps
<1>5. ASSUME NEW i \in 1..Len(t) PROVE g[i] = g[i - 1] + t[i]
  <2>1. CASE i = 1
    BY <1>1, <1>2, <1>3, <2>1 DEF SumSteps
  <2>2. CASE i # 1
    <3>1. i - 1 \in 1..Len(s) /\ i \in 0..Len(t) /\ i - 1 \in 0..Len(t) /\ i # 0 /\ i - 1 # 0
      BY <1>1, <2>2
    <3>2. t[i] = s[i - 1]
      BY <1>2, <3>1
    <3>3. f[i - 1] = f[(i - 1) - 1] + s[i - 1]
      BY <1>3, <3>1 DEF SumSteps
    <3>4. f[(i - 1) - 1] \in Nat /\ s[i - 1] \in Nat
      <4>1. (i - 1) - 1 \in 0..Len(s)
        BY <1>1, <3>1
      <4>2. \A j \in 0..Len(s) : f[j] \in Nat
        BY <1>3 DEF SumSteps
      <4>3. \A j \in 1..Len(s) : s[j] \in Nat
        OBVIOUS
      <4> QED BY <3>1, <4>1, <4>2, <4>3
    <3>5. g[i] = x + f[i - 1] /\ g[i - 1] = x + f[(i - 1) - 1]
      BY <3>1
    <3> HIDE DEF g
    <3> QED BY <3>2, <3>3, <3>4, <3>5
  <2> QED BY <2>1, <2>2
<1>6. g[Len(t)] = x + f[Len(s)]
  BY <1>1
<1> HIDE DEF g
<1>7. SumSteps(t, g)
  BY <1>4, <1>5 DEF SumSteps
<1>8. Sum(t) = g[Len(t)] /\ Sum(s) = f[Len(s)]
  BY <1>1, <1>3, <1>7, SumIs
<1>9. Sum(t) = x + Sum(s)
  BY <1>6, <1>8
<1> QED BY <1>1, <1>9 DEF t

LEMMA SumLess ==
  ASSUME NEW s \in Seq(Nat), NEW k \in 1..Len(s)
  PROVE  /\ Drop(s, k) \in Seq(Nat) /\ Len(Drop(s, k)) = Len(s) - 1
         /\ s[k] \in Nat /\ Sum(Drop(s, k)) + s[k] = Sum(s)
<1> DEFINE t == Drop(s, k)
<1>0. t \in Seq(Nat) /\ Skips(s, k, t)
  BY WithoutOne DEF Drop
<1> HIDE DEF t
<1>1. Len(s) \in Nat /\ k \in Nat /\ Len(t) = Len(s) - 1 /\ \A i \in 1..Len(s) : s[i] \in Nat
  BY <1>0 DEF Skips
<1>2. /\ \A i \in 1..(k - 1) : t[i] = s[i]
      /\ \A i \in k..(Len(s) - 1) : t[i] = s[i + 1]
  <2>1. ASSUME NEW i \in k..(Len(s) - 1) PROVE t[i] = s[i + 1]
    <3>1. i - k + 1 \in 1..(Len(s) - k)
      BY <1>1
    <3>2. t[(k - 1) + (i - k + 1)] = s[k + (i - k + 1)]
      BY <1>0, <3>1 DEF Skips
    <3>3. (k - 1) + (i - k + 1) = i /\ k + (i - k + 1) = i + 1
      BY <1>1
    <3> QED BY <3>2, <3>3
  <2> QED BY <1>0, <2>1 DEF Skips
<1>3. PICK f : SumSteps(s, f)
  BY RunningSum
<1>4. PICK f2 : SumSteps(t, f2)
  BY <1>0, RunningSum
<1>5. /\ f[0] = 0 /\ \A i \in 1..Len(s) : f[i] = f[i - 1] + s[i]
      /\ f2[0] = 0 /\ \A i \in 1..Len(t) : f2[i] = f2[i - 1] + t[i]
      /\ \A i \in 0..Len(s) : f[i] \in Nat
      /\ \A i \in 0..Len(t) : f2[i] \in Nat
  BY <1>3, <1>4 DEF SumSteps
\* up to the element that is left out the two sums agree, from there on they
\* differ by it
<1> DEFINE B == {n \in 1..Len(s) : IF n < k THEN f2[n] = f[n] ELSE f2[n - 1] + s[k] = f[n]}
<1>6. 1 \in B
  <2>1. CASE 1 < k
    <3>1. 1 \in 1..Len(t) /\ 1 \in 1..(k - 1) /\ 1 \in 1..Len(s) /\ 1 - 1 = 0
      BY <1>1, <2>1
    <3>2. t[1] = s[1] /\ f2[1] = f2[0] + t[1] /\ f[1] = f[0] + s[1]
      BY <1>2, <1>5, <3>1
    <3>3. f2[1] = f[1]
      BY <1>5, <3>2
    <3> QED BY <2>1, <3>1, <3>3
  <2>2. CASE ~(1 < k)
    BY <1>1, <1>2, <1>5, <2>2
  <2> QED BY <2>1, <2>2
<1>7. ASSUME NEW n \in 2..Len(s), n - 1 \in B PROVE n \in B
  <2>0. /\ n \in 1..Len(s) /\ n - 1 \in 1..Len(s) /\ n - 1 \in 1..Len(t) /\ n - 2 \in 0..Len(t)
        /\ (n - 1) - 1 = n - 2 /\ n - 1 \in 0..Len(s)
    BY <1>1
  <2>1. f[n] = f[n - 1] + s[n] /\ f2[n - 1] = f2[n - 2] + t[n - 1]
    BY <1>5, <2>0
  <2>2. /\ f[n - 1] \in Nat /\ s[n] \in Nat /\ s[k] \in Nat
        /\ f2[n - 1] \in Nat /\ f2[n - 2] \in Nat
    BY <1>1, <1>5, <2>0
  <2>3. IF n - 1 < k THEN f2[n - 1] = f[n - 1] ELSE f2[n - 2] + s[k] = f[n - 1]
    BY <1>7, <2>0
  <2>4. CASE n < k
    <3>1. n \in 1..Len(t) /\ n \in 1..(k - 1) /\ n - 1 < k
      BY <1>1, <2>0, <2>4
    <3>2. f2[n] = f2[n - 1] + t[n] /\ t[n] = s[n]
      BY <1>2, <1>5, <3>1
    <3>3. f2[n] = f[n]
      BY <2>1, <2>3, <3>1, <3>2
    <3> QED BY <2>0, <2>4, <3>3
  <2>5. CASE n = k
    <3>1. f2[n - 1] + s[k] = f[n]
      BY <1>1, <2>1, <2>3, <2>5
    <3> QED BY <1>1, <2>0, <2>5, <3>1
  <2>6. CASE n > k
    <3>1. n - 1 \in k..(Len(s) - 1) /\ (n - 1) + 1 = n /\ ~(n - 1 < k) /\ ~(n < k)
      BY <1>1, <2>6
    <3>2. t[n - 1] = s[n]
      BY <1>2, <3>1
    <3>3. f2[n - 1] + s[k] = f[n]
      <4>1. f2[n - 2] + s[k] = f[n - 1]
        BY <2>3, <3>1
      <4>2. f2[n - 1] = f2[n - 2] + s[n]
        BY <2>1, <3>2, Zenon
      <4>3. (f2[n - 2] + s[n]) + s[k] = (f2[n - 2] + s[k]) + s[n]
        BY <2>2
      <4> QED BY <2>1, <4>1, <4>2, <4>3, Zenon
    <3> QED BY <2>0, <3>1, <3>3
  <2> QED BY <1>1, <2>0, <2>4, <2>5, <2>6
<1>8. Len(s) \in B
  <2> HIDE DEF B
  <2>1. Len(s) # 0 /\ \A i \in 2..Len(s) : i - 1 \in B => i \in B
    BY <1>1, <1>7
  <2> QED BY <1>1, <1>6, <2>1, CountsUp
<1>9. f2[Len(s) - 1] + s[k] = f[Len(s)]
  BY <1>1, <1>8
<1>10. Sum(s) = f[Len(s)] /\ Sum(t) = f2[Len(t)]
  BY <1>0, <1>3, <1>4, SumIs
<1>11. Sum(t) + s[k] = Sum(s)
  BY <1>1, <1>9, <1>10
<1> QED BY <1>0, <1>1, <1>11 DEF t

-----------------------------------------------------------------------------
(* What holds of every reachable state.                                    *)

\* s takes its blocks one at a time and gives back only what it holds: h tells
\* how many blocks it holds at each place.
Holds(s, h) ==
  /\ h \in [1..Len(s) -> Nat] /\ h[1] = 0
  /\ \A i \in 1..(Len(s) - 1) :
       h[i + 1] = IF s[i].do = "block" THEN h[i] + 1
                  ELSE IF s[i].do = "release" THEN h[i] - 1 ELSE h[i]
  /\ \A i \in 1..(Len(s) - 1) : s[i].do = "release" => s[i].which \in 1..h[i]

HeldAt(s) == CHOOSE h \in [1..Len(s) -> Nat] : Holds(s, h)

\* The objects s has asked for before place n.
AskedBefore(s, n) == {s[i].on : i \in {j \in 1..(n - 1) : s[j].do = "new"}}

\* A script that gives back what it takes.
Returns(s) ==
  /\ Len(s) \in Nat \ {0} /\ s = [i \in 1..Len(s) |-> s[i]]
  /\ \A i \in 1..Len(s) : s[i].do = "cleanup" <=> i = Len(s)
  /\ s[Len(s)].names \subseteq Names
  /\ \A i \in 1..Len(s) : s[i].do = "new" =>
       /\ s[i].on \in s[Len(s)].names /\ s[i].cap \in Nat \ {0}
       /\ \A j \in 1..(i - 1) : s[j].do = "new" => s[j].on # s[i].on
  /\ \A i \in 1..Len(s) : s[i].do = "block" =>
       s[1].do # "fill" /\ s[i].pool = "internal" /\ s[i].units \in Nat
  /\ \A i \in 1..Len(s) : s[i].do = "release" => s[1].do # "fill"
  /\ \A i \in 1..Len(s) : s[i].do = "fill" => i = 1 /\ s[i].pool \in Pools
  /\ \E h \in [1..Len(s) -> Nat] : Holds(s, h)

Script == Order[test]

TypeInv ==
  /\ obj = [o \in Names |-> [cap |-> obj[o].cap, items |-> obj[o].items]]
  /\ \A o \in Names : obj[o].cap \in Nat
  /\ held \in Seq(Nat) /\ chunk \in Nat /\ reserved \in Nat
  /\ free \in [Pools -> Nat] /\ others \in [Pools -> Nat]

\* Where the tester is, and what it may have there.
PlaceInv ==
  /\ test \in 1..(Len(Order) + 1)
  /\ at \in Nat \ {0} /\ (Running => at <= Ending)
  /\ Running => Created \subseteq AskedBefore(Script, at)
  /\ Running /\ at # Ending /\ Script[1].do # "fill" => Len(held) = HeldAt(Script)[at]
  /\ ~Running => held = <<>> /\ Created = {}

\* What the test holds of pool p.
Mine(p) == (IF p = PoolOf THEN Sum(held) ELSE 0)
           + (IF p = "internal" THEN Cardinality(Created) ELSE 0)

UnitsInv ==
  \A p \in Pools :
    free[p] + others[p] + (IF p = "internal" THEN reserved ELSE 0)
      + (IF Running THEN Mine(p) ELSE 0) = Capacity[p]

ObjectInv == TypeInv /\ PlaceInv /\ UnitsInv

-----------------------------------------------------------------------------
(* The scripts.                                                            *)

PlainCalls == {"need", "send", "over", "recv", "count", "set", "wait", "random", "look",
               "force", "compare", "verify"}

Finite(s) == Len(s) \in Nat /\ s = [i \in 1..Len(s) |-> s[i]]

Plain(s) == Finite(s) /\ \A i \in 1..Len(s) : s[i].do \in PlainCalls

\* s asks for objects among names in its first two calls, each once.
Asks(s, names) ==
  /\ Finite(s)
  /\ \A i \in 1..Len(s) :
       \/ s[i].do \in PlainCalls
       \/ /\ s[i].do = "new" /\ s[i].on \in names /\ s[i].cap \in Nat \ {0}
          /\ i = 1 \/ (i = 2 /\ s[1].on # s[2].on)

LEMMA JoinedCalls ==
  ASSUME NEW a, NEW b, Finite(a), Finite(b)
  PROVE  /\ Finite(a \o b) /\ Len(a \o b) = Len(a) + Len(b)
         /\ \A k \in 1..Len(a) : (a \o b)[k] = a[k]
         /\ \A k \in 1..Len(b) : (a \o b)[Len(a) + k] = b[k]
<1> DEFINE S == {a[i] : i \in 1..Len(a)} \cup {b[i] : i \in 1..Len(b)}
<1>1. a \in Seq(S)
  BY DEF Finite
<1>2. b \in Seq(S)
  BY DEF Finite
<1> HIDE DEF S
<1>3. /\ a \o b \in Seq(S) /\ Len(a \o b) = Len(a) + Len(b)
      /\ \A k \in 1..Len(a) : (a \o b)[k] = a[k]
      /\ \A k \in 1..Len(b) : (a \o b)[Len(a) + k] = b[k]
  BY <1>1, <1>2, Joined
<1> DEFINE t == a \o b
<1> HIDE DEF t
<1>4. t \in Seq(S) => Finite(t)
  BY DEF Finite
<1> QED BY <1>3, <1>4 DEF t

\* Where k of a joined sequence comes from.
LEMMA FromOneOf ==
  ASSUME NEW m \in Nat, NEW n \in Nat, NEW k \in 1..(m + n)
  PROVE  k \in 1..m \/ \E j \in 1..n : k = m + j
<1>1. CASE k <= m
  BY <1>1
<1>2. CASE k > m
  <2>1. k - m \in 1..n /\ k = m + (k - m)
    BY <1>2
  <2> QED BY <2>1
<1> QED BY <1>1, <1>2

LEMMA AsksThen ==
  ASSUME NEW a, NEW b, NEW names, Asks(a, names), Plain(b)
  PROVE  Asks(a \o b, names)
<1> DEFINE t == a \o b
<1>1. /\ Finite(t) /\ Len(t) = Len(a) + Len(b)
      /\ \A k \in 1..Len(a) : t[k] = a[k]
      /\ \A k \in 1..Len(b) : t[Len(a) + k] = b[k]
      /\ Len(a) \in Nat /\ Len(b) \in Nat
  BY JoinedCalls DEF Asks, Plain, Finite
<1> HIDE DEF t
<1>2. ASSUME NEW i \in 1..Len(t)
      PROVE  \/ t[i].do \in PlainCalls
             \/ /\ t[i].do = "new" /\ t[i].on \in names /\ t[i].cap \in Nat \ {0}
                /\ i = 1 \/ (i = 2 /\ t[1].on # t[2].on)
  <2>1. CASE i \in 1..Len(a)
    <3>1. t[i] = a[i] /\ (i = 2 => t[1] = a[1])
      BY <1>1, <2>1
    <3>2. \/ a[i].do \in PlainCalls
          \/ /\ a[i].do = "new" /\ a[i].on \in names /\ a[i].cap \in Nat \ {0}
             /\ i = 1 \/ (i = 2 /\ a[1].on # a[2].on)
      BY <2>1 DEF Asks
    <3> QED BY <3>1, <3>2
  <2>2. CASE \E j \in 1..Len(b) : i = Len(a) + j
    BY <1>1, <2>2 DEF Plain
  <2> QED BY <1>1, <2>1, <2>2, FromOneOf
<1>3. Asks(t, names)
  BY <1>1, <1>2 DEF Asks
<1> QED BY <1>3 DEF t

LEMMA OneMoreCall ==
  ASSUME NEW calls, Finite(calls), NEW call
  PROVE  /\ Finite(calls \o <<call>>) /\ Len(calls \o <<call>>) = Len(calls) + 1
         /\ Len(calls) \in Nat
         /\ \A k \in 1..Len(calls) : (calls \o <<call>>)[k] = calls[k]
         /\ (calls \o <<call>>)[Len(calls) + 1] = call
<1>1. PICK c : c = <<call>>
  OBVIOUS
<1>2. Finite(c) /\ Len(c) = 1 /\ c[1] = call /\ 1 \in 1..1
  BY <1>1 DEF Finite
<1>3. /\ Finite(calls \o c) /\ Len(calls \o c) = Len(calls) + Len(c)
      /\ \A k \in 1..Len(calls) : (calls \o c)[k] = calls[k]
      /\ \A k \in 1..Len(c) : (calls \o c)[Len(calls) + k] = c[k]
  <2>1. Finite(c)
    BY <1>2
  <2> QED BY <2>1, JoinedCalls
<1>4. (calls \o c)[Len(calls) + 1] = call /\ Len(calls \o c) = Len(calls) + 1
  BY <1>2, <1>3, Zenon
<1>5. Len(calls) \in Nat
  BY DEF Finite
<1> QED BY <1>1, <1>3, <1>4, <1>5, Zenon

\* A script that asks and then only uses deletes all it has asked for.
LEMMA LastingReturns ==
  ASSUME NEW calls, NEW names \in SUBSET Names, Asks(calls, names)
  PROVE  Returns(Lasting(calls, names))
<1> DEFINE c == Cleanup(names)
           s == calls \o <<c>>
           n == Len(calls)
<1>1. c.do = "cleanup" /\ c.names = names
  BY DEF Cleanup
<1> HIDE DEF c
<1>2. /\ Finite(s) /\ Len(s) = n + 1 /\ n \in Nat
      /\ \A k \in 1..n : s[k] = calls[k]
      /\ s[n + 1] = c
  BY OneMoreCall DEF Asks
<1> HIDE DEF s
<1>3. \A k \in 1..n :
        /\ s[k].do \in PlainCalls \cup {"new"}
        /\ s[k].do = "new" => /\ s[k].on \in names /\ s[k].cap \in Nat \ {0}
                              /\ k = 1 \/ (k = 2 /\ s[1].on # s[2].on)
  <2> SUFFICES ASSUME NEW k \in 1..n
               PROVE  /\ s[k].do \in PlainCalls \cup {"new"}
                      /\ s[k].do = "new" => /\ s[k].on \in names /\ s[k].cap \in Nat \ {0}
                                            /\ k = 1 \/ (k = 2 /\ s[1].on # s[2].on)
    OBVIOUS
  <2>1. s[k] = calls[k] /\ (k = 2 => s[1] = calls[1])
    BY <1>2
  <2>2. \/ calls[k].do \in PlainCalls
        \/ /\ calls[k].do = "new" /\ calls[k].on \in names /\ calls[k].cap \in Nat \ {0}
           /\ k = 1 \/ (k = 2 /\ calls[1].on # calls[2].on)
    BY DEF Asks
  <2>3. "new" \notin PlainCalls
    BY DEF PlainCalls
  <2> QED BY <2>1, <2>2, <2>3
<1>4. /\ s[n + 1].do = "cleanup" /\ s[n + 1].names = names
      /\ "cleanup" \notin PlainCalls /\ "block" \notin PlainCalls /\ "fill" \notin PlainCalls
      /\ "release" \notin PlainCalls
  BY <1>1, <1>2 DEF PlainCalls
<1> HIDE DEF n
<1>5. \A i \in 1..Len(s) : i \in 1..n \/ i = n + 1
  BY <1>2
<1>6. \A i \in 1..Len(s) : s[i].do = "cleanup" <=> i = Len(s)
  <2> SUFFICES ASSUME NEW i \in 1..Len(s) PROVE s[i].do = "cleanup" <=> i = Len(s)
    OBVIOUS
  <2>1. CASE i \in 1..n
    <3>1. i # Len(s)
      BY <1>2, <2>1
    <3> QED BY <1>3, <1>4, <2>1, <3>1
  <2>2. CASE i = n + 1
    BY <1>2, <1>4, <2>2
  <2> QED BY <1>5, <2>1, <2>2
<1>7. \A i \in 1..Len(s) :
         s[i].do # "block" /\ s[i].do # "fill" /\ s[i].do # "release"
  BY <1>3, <1>4, <1>5
<1>8. \A i \in 1..Len(s) : s[i].do = "new" =>
       /\ s[i].on \in names /\ s[i].cap \in Nat \ {0}
       /\ \A j \in 1..(i - 1) : s[j].do = "new" => s[j].on # s[i].on
  <2> SUFFICES ASSUME NEW i \in 1..Len(s), s[i].do = "new"
               PROVE  /\ s[i].on \in names /\ s[i].cap \in Nat \ {0}
                      /\ \A j \in 1..(i - 1) : s[j].do = "new" => s[j].on # s[i].on
    OBVIOUS
  <2>1. i \in 1..n
    BY <1>4, <1>5
  <2>2. /\ s[i].on \in names /\ s[i].cap \in Nat \ {0}
        /\ i = 1 \/ (i = 2 /\ s[1].on # s[2].on)
    BY <1>3, <2>1
  <2>3. ASSUME NEW j \in 1..(i - 1) PROVE i = 2 /\ j = 1
    BY <2>2
  <2> QED BY <2>2, <2>3
<1>9. \E h \in [1..Len(s) -> Nat] : Holds(s, h)
  <2> DEFINE h == [i \in 1..Len(s) |-> 0]
  <2>1. h \in [1..Len(s) -> Nat] /\ 1 \in 1..Len(s) /\ \A i \in 1..Len(s) : h[i] = 0
    BY <1>2
  <2> HIDE DEF h
  <2>2. \A i \in 1..(Len(s) - 1) : i \in 1..Len(s) /\ i + 1 \in 1..Len(s)
    BY <1>2
  <2>3. Holds(s, h)
    BY <1>7, <2>1, <2>2 DEF Holds
  <2> QED BY <2>1, <2>3
<1>10. Len(s) \in Nat \ {0} /\ s = [i \in 1..Len(s) |-> s[i]] /\ Len(s) = n + 1
  BY <1>2 DEF Finite
<1>11. Returns(s)
  BY <1>4, <1>6, <1>7, <1>8, <1>9, <1>10 DEF Returns
<1> QED BY <1>11 DEF s, c, Lasting

LEMMA IsrToTaskReturns == Returns(IsrToTask)
<1> DEFINE calls == <<New("a", 1, <<>>), New("b", 4, <<>>), Need, GiveAs("a", 1),
                      Send("b", 7, 1), Receive("a", 1), Receive("b", 7)>>
<1>1. Finite(calls) /\ Len(calls) = 7
  BY DEF Finite
<1>2. /\ calls[1].do = "new" /\ calls[1].on = "a" /\ calls[1].cap = 1
      /\ calls[2].do = "new" /\ calls[2].on = "b" /\ calls[2].cap = 4
  BY DEF New
<1>3. \A i \in 3..7 : calls[i].do \in PlainCalls
  BY DEF Need, GiveAs, Send, Receive, PlainCalls
<1> HIDE DEF calls
<1>4. Asks(calls, {"a", "b"})
  BY <1>1, <1>2, <1>3 DEF Asks
<1> QED BY <1>4, LastingReturns DEF IsrToTask, calls, Names

LEMMA MutexReturns == Returns(Mutex)
<1> DEFINE calls == <<New("a", 1, <<1>>), Need, Receive("a", 1), GiveAs("a", 1)>>
<1>1. Finite(calls) /\ Len(calls) = 4
  BY DEF Finite
<1>2. /\ calls[1].do = "new" /\ calls[1].on = "a" /\ calls[1].cap = 1
  BY DEF New
<1>3. \A i \in 2..4 : calls[i].do \in PlainCalls
  BY DEF Need, Receive, GiveAs, Send, PlainCalls
<1> HIDE DEF calls
<1>4. Asks(calls, {"a"})
  BY <1>1, <1>2, <1>3 DEF Asks
<1> QED BY <1>4, LastingReturns DEF Mutex, calls, Names

LEMMA SemaphoreReturns == Returns(Semaphore)
<1> DEFINE calls == <<New("a", 1, <<>>), New("b", 3, <<>>), Need, GiveAs("a", ANY),
                      Receive("a", 1), GiveAs("b", ANY), GiveAs("b", ANY), GiveAs("b", ANY),
                      Count("b", 3), GiveAs("b", 0), Count("b", 3)>>
<1>1. Finite(calls) /\ Len(calls) = 11
  BY DEF Finite
<1>2. /\ calls[1].do = "new" /\ calls[1].on = "a" /\ calls[1].cap = 1
      /\ calls[2].do = "new" /\ calls[2].on = "b" /\ calls[2].cap = 3
  BY DEF New
<1>3. \A i \in 3..11 : calls[i].do \in PlainCalls
  BY DEF Need, Receive, GiveAs, Send, Count, PlainCalls
<1> HIDE DEF calls
<1>4. Asks(calls, {"a", "b"})
  BY <1>1, <1>2, <1>3 DEF Asks
<1> QED BY <1>4, LastingReturns DEF Semaphore, calls, Names

LEMMA EventFlagsReturns == Returns(EventFlags)
<1> DEFINE calls == <<New("a", 1, <<>>), Need, SetBit(1), WaitAll(0), SetBit(2), WaitAll(1)>>
<1>1. Finite(calls) /\ Len(calls) = 6
  BY DEF Finite
<1>2. /\ calls[1].do = "new" /\ calls[1].on = "a" /\ calls[1].cap = 1
  BY DEF New
<1>3. \A i \in 2..6 : calls[i].do \in PlainCalls
  BY DEF Need, SetBit, WaitAll, PlainCalls
<1> HIDE DEF calls
<1>4. Asks(calls, {"a"})
  BY <1>1, <1>2, <1>3 DEF Asks
<1> QED BY <1>4, LastingReturns DEF EventFlags, calls, Names

LEMMA MailboxReturns == Returns(Mailbox)
<1> DEFINE calls == <<New("a", 1, <<>>), Need, Overwrite("a", 1, 1), Overwrite("a", 2, 1),
                      Noted(Receive("a", 2)), Noted(Receive("a", 0))>>
<1>1. Finite(calls) /\ Len(calls) = 6
  BY DEF Finite
<1>2. /\ calls[1].do = "new" /\ calls[1].on = "a" /\ calls[1].cap = 1
  BY DEF New
<1>3. \A i \in 2..6 : calls[i].do \in PlainCalls
  BY DEF Need, Overwrite, Noted, Receive, PlainCalls
<1> HIDE DEF calls
<1>4. Asks(calls, {"a"})
  BY <1>1, <1>2, <1>3 DEF Asks
<1> QED BY <1>4, LastingReturns DEF Mailbox, calls, Names

LEMMA ErrorBranchReturns == Returns(ErrorBranch)
<1> DEFINE calls == <<New("a", 1, <<>>), Need, Send("a", 1, 1), Send("a", 2, 0)>>
<1>1. Finite(calls) /\ Len(calls) = 4
  BY DEF Finite
<1>2. /\ calls[1].do = "new" /\ calls[1].on = "a" /\ calls[1].cap = 1
  BY DEF New
<1>3. \A i \in 2..4 : calls[i].do \in PlainCalls
  BY DEF Need, Send, PlainCalls
<1> HIDE DEF calls
<1>4. Asks(calls, {"a"})
  BY <1>1, <1>2, <1>3 DEF Asks
<1> QED BY <1>4, LastingReturns DEF ErrorBranch, calls, Names

LEMMA RandomSemaphoreReturns == Returns(RandomSemaphore)
<1> DEFINE calls == <<New("a", 1, <<>>), Need, Random(3)>>
<1>1. Finite(calls) /\ Len(calls) = 3
  BY DEF Finite
<1>2. /\ calls[1].do = "new" /\ calls[1].on = "a" /\ calls[1].cap = 1
  BY DEF New
<1>3. \A i \in 2..3 : calls[i].do \in PlainCalls
  BY DEF Need, Random, PlainCalls
<1> HIDE DEF calls
<1>4. Asks(calls, {"a"})
  BY <1>1, <1>2, <1>3 DEF Asks
<1> QED BY <1>4, LastingReturns DEF RandomSemaphore, calls, Names

LEMMA ForcedFailReturns == Returns(ForcedFail)
<1> DEFINE calls == <<Look, Overask>>
<1>1. Finite(calls) /\ Len(calls) = 2
  BY DEF Finite
<1>3. \A i \in 1..2 : calls[i].do \in PlainCalls
  BY DEF Look, Overask, PlainCalls
<1> HIDE DEF calls
<1>4. Asks(calls, {})
  BY <1>1, <1>3 DEF Asks
<1> QED BY <1>4, LastingReturns DEF ForcedFail, calls, Names

LEMMA MaximumQueueReturns == Returns(MaximumQueue)
<1>1. PICK asks : asks = <<New("a", 3, <<>>), Need>>
  OBVIOUS
<1>2. PICK sends : sends = [i \in 1..3 |-> Send("a", i, 1)]
  OBVIOUS
<1>3. PICK more : more = <<Send("a", 4, 0)>>
  OBVIOUS
<1>4. Asks(asks, {"a"})
  BY <1>1 DEF Asks, Finite, New, Need, PlainCalls
<1>5. Plain(sends)
  <2>1. Len(sends) = 3
    BY <1>2
  <2> QED BY <1>2, <2>1 DEF Plain, Finite, Send, PlainCalls
<1>6. Plain(more)
  BY <1>3 DEF Plain, Finite, Send, PlainCalls
<1>7. Asks((asks \o sends) \o more, {"a"})
  <2>1. PICK first : first = asks \o sends
    OBVIOUS
  <2>2. Asks(first, {"a"})
    BY <1>4, <1>5, <2>1, AsksThen
  <2>3. Asks(first \o more, {"a"})
    BY <1>6, <2>2, AsksThen
  <2> QED BY <2>1, <2>3, Zenon
<1>8. Returns(Lasting((asks \o sends) \o more, {"a"}))
  <2>1. {"a"} \in SUBSET Names
    BY DEF Names
  <2> QED BY <1>7, <2>1, LastingReturns
<1> QED BY <1>1, <1>2, <1>3, <1>8, Zenon DEF MaximumQueue

LEMMA QueueReturns == Returns(Queue)
<1>1. PICK asks : asks = <<New("a", 3, <<>>), Need>>
  OBVIOUS
<1>2. PICK sends : sends = [i \in 1..3 |-> Noted(Send("a", i, 1))]
  OBVIOUS
<1>3. PICK more :
        more = <<Noted(Send("a", 4, 0)), Noted(Receive("a", 1)), Noted(Send("a", 4, 1)),
                 Noted(Receive("a", 2)), Noted(Receive("a", 3)), Noted(Receive("a", 4)),
                 Noted(Receive("a", 0))>>
  OBVIOUS
<1>4. Asks(asks, {"a"})
  BY <1>1 DEF Asks, Finite, New, Need, PlainCalls
<1>5. Plain(sends)
  <2>1. Len(sends) = 3
    BY <1>2
  <2> QED BY <1>2, <2>1 DEF Plain, Finite, Noted, Send, PlainCalls
<1>6. Plain(more)
  <2>1. Finite(more) /\ Len(more) = 7
    BY <1>3 DEF Finite
  <2>2. \A i \in 1..7 : more[i].do \in PlainCalls
    BY <1>3 DEF Noted, Send, Receive, PlainCalls
  <2> QED BY <2>1, <2>2 DEF Plain
<1>7. Asks((asks \o sends) \o more, {"a"})
  <2>1. PICK first : first = asks \o sends
    OBVIOUS
  <2>2. Asks(first, {"a"})
    BY <1>4, <1>5, <2>1, AsksThen
  <2>3. Asks(first \o more, {"a"})
    BY <1>6, <2>2, AsksThen
  <2> QED BY <2>1, <2>3, Zenon
<1>8. Returns(Lasting((asks \o sends) \o more, {"a"}))
  <2>1. {"a"} \in SUBSET Names
    BY DEF Names
  <2> QED BY <1>7, <2>1, LastingReturns
<1> QED BY <1>1, <1>2, <1>3, <1>8, Zenon DEF Queue

\* The scripts of the heap. A block is held from the call that takes it to the
\* release or to the end.
LEMMA DynamicAllocationReturns == Returns(DynamicAllocation)
<1>0. PICK calls : calls = <<Block(1), Block(1), Block(1), Release(3), Release(1), Block(1),
                            Block(1)>>
  OBVIOUS
<1>1. Finite(calls) /\ Len(calls) = 7
  BY <1>0 DEF Finite
<1>2. /\ \A i \in {1, 2, 3, 6, 7} :
            calls[i] = [do |-> "block", units |-> 1, pool |-> "internal"]
      /\ calls[4] = [do |-> "release", which |-> 3]
      /\ calls[5] = [do |-> "release", which |-> 1]
  BY <1>0 DEF Block, Release
<1> DEFINE s == calls \o <<Cleanup({})>>
<1>3. Finite(s) /\ Len(s) = 8 /\ s[8] = Cleanup({}) /\ \A i \in 1..7 : s[i] = calls[i]
  <2>1. PICK call : call = Cleanup({})
    OBVIOUS
  <2>2. /\ Finite(calls \o <<call>>) /\ Len(calls \o <<call>>) = Len(calls) + 1
        /\ \A k \in 1..Len(calls) : (calls \o <<call>>)[k] = calls[k]
        /\ (calls \o <<call>>)[Len(calls) + 1] = call
    <3>1. Finite(calls)
      BY <1>1
    <3> QED BY <3>1, OneMoreCall
  <2>3. s = calls \o <<call>>
    BY <2>1
  <2> HIDE DEF s
  <2> QED BY <1>1, <2>1, <2>2, <2>3
<1> HIDE DEF s
<1>4. /\ \A i \in {1, 2, 3, 6, 7} : s[i] = [do |-> "block", units |-> 1, pool |-> "internal"]
      /\ s[4] = [do |-> "release", which |-> 3] /\ s[5] = [do |-> "release", which |-> 1]
      /\ s[8] = [do |-> "cleanup", names |-> {}]
  BY <1>2, <1>3 DEF Cleanup
<1>5. \E h \in [1..Len(s) -> Nat] : Holds(s, h)
  <2> DEFINE h == [i \in 1..8 |-> CASE i = 1 -> 0 [] i \in {2, 6} -> 1
                                     [] i \in {3, 5, 7} -> 2 [] i \in {4, 8} -> 3]
  <2>1. /\ h \in [1..8 -> Nat] /\ h[1] = 0 /\ h[2] = 1 /\ h[3] = 2 /\ h[4] = 3
        /\ h[5] = 2 /\ h[6] = 1 /\ h[7] = 2 /\ h[8] = 3
    OBVIOUS
  <2> HIDE DEF h
  <2>2. Holds(s, h)
    BY <1>3, <1>4, <2>1 DEF Holds
  <2> QED BY <1>3, <2>1, <2>2
<1>6. Returns(s)
  BY <1>3, <1>4, <1>5 DEF Returns, Finite
<1> QED BY <1>0, <1>6 DEF s, DynamicAllocation, Lasting

LEMMA MemorySafetyReturns == Returns(MemorySafety)
<1>0. PICK calls : calls = <<Look, Block(1), Release(1), Compare>>
  OBVIOUS
<1>1. Finite(calls) /\ Len(calls) = 4
  BY <1>0 DEF Finite
<1>2. /\ calls[1].do = "look" /\ calls[2] = [do |-> "block", units |-> 1, pool |-> "internal"]
      /\ calls[3] = [do |-> "release", which |-> 1] /\ calls[4].do = "compare"
  BY <1>0 DEF Look, Block, Release, Compare
<1> DEFINE s == calls \o <<Cleanup({})>>
<1>3. Finite(s) /\ Len(s) = 5 /\ s[5] = Cleanup({}) /\ \A i \in 1..4 : s[i] = calls[i]
  <2>1. PICK call : call = Cleanup({})
    OBVIOUS
  <2>2. /\ Finite(calls \o <<call>>) /\ Len(calls \o <<call>>) = Len(calls) + 1
        /\ \A k \in 1..Len(calls) : (calls \o <<call>>)[k] = calls[k]
        /\ (calls \o <<call>>)[Len(calls) + 1] = call
    <3>1. Finite(calls)
      BY <1>1
    <3> QED BY <3>1, OneMoreCall
  <2>3. s = calls \o <<call>>
    BY <2>1
  <2> HIDE DEF s
  <2> QED BY <1>1, <2>1, <2>2, <2>3
<1> HIDE DEF s
<1>4. /\ s[1].do = "look" /\ s[2] = [do |-> "block", units |-> 1, pool |-> "internal"]
      /\ s[3] = [do |-> "release", which |-> 1] /\ s[4].do = "compare"
      /\ s[5] = [do |-> "cleanup", names |-> {}]
  BY <1>2, <1>3 DEF Cleanup
<1>5. \E h \in [1..Len(s) -> Nat] : Holds(s, h)
  <2> DEFINE h == [i \in 1..5 |-> IF i = 3 THEN 1 ELSE 0]
  <2>1. /\ h \in [1..5 -> Nat] /\ h[1] = 0 /\ h[2] = 0 /\ h[3] = 1 /\ h[4] = 0 /\ h[5] = 0
    OBVIOUS
  <2> HIDE DEF h
  <2>2. Holds(s, h)
    BY <1>3, <1>4, <2>1 DEF Holds
  <2> QED BY <1>3, <2>1, <2>2
<1>6. Returns(s)
  BY <1>3, <1>4, <1>5 DEF Returns, Finite
<1> QED BY <1>0, <1>6 DEF s, MemorySafety, Lasting

LEMMA FillReturns ==
  ASSUME NEW p \in Pools
  PROVE  Returns(Lasting(<<Fill(p), Verify>>, {}))
<1>0. PICK calls : calls = <<Fill(p), Verify>>
  OBVIOUS
<1>1. Finite(calls) /\ Len(calls) = 2
  BY <1>0 DEF Finite
<1>2. calls[1] = [do |-> "fill", pool |-> p] /\ calls[2].do = "verify"
  BY <1>0 DEF Fill, Verify
<1> DEFINE s == calls \o <<Cleanup({})>>
<1>3. Finite(s) /\ Len(s) = 3 /\ s[3] = Cleanup({}) /\ \A i \in 1..2 : s[i] = calls[i]
  <2>1. PICK call : call = Cleanup({})
    OBVIOUS
  <2>2. /\ Finite(calls \o <<call>>) /\ Len(calls \o <<call>>) = Len(calls) + 1
        /\ \A k \in 1..Len(calls) : (calls \o <<call>>)[k] = calls[k]
        /\ (calls \o <<call>>)[Len(calls) + 1] = call
    <3>1. Finite(calls)
      BY <1>1
    <3> QED BY <3>1, OneMoreCall
  <2>3. s = calls \o <<call>>
    BY <2>1
  <2> HIDE DEF s
  <2> QED BY <1>1, <2>1, <2>2, <2>3
<1> HIDE DEF s
<1>4. /\ s[1] = [do |-> "fill", pool |-> p] /\ s[2].do = "verify"
      /\ s[3] = [do |-> "cleanup", names |-> {}]
  BY <1>2, <1>3 DEF Cleanup
<1>5. \E h \in [1..Len(s) -> Nat] : Holds(s, h)
  <2> DEFINE h == [i \in 1..3 |-> 0]
  <2>1. h \in [1..3 -> Nat] /\ h[1] = 0 /\ h[2] = 0 /\ h[3] = 0
    OBVIOUS
  <2> HIDE DEF h
  <2>2. Holds(s, h)
    BY <1>3, <1>4, <2>1 DEF Holds
  <2> QED BY <1>3, <2>1, <2>2
<1>6. Returns(s)
  BY <1>3, <1>4, <1>5 DEF Returns, Finite
<1> QED BY <1>0, <1>6 DEF s, Lasting

LEMMA ScriptsReturn == \A s \in Scripts : Returns(s)
<1>1. Returns(RamFill) /\ Returns(PsramFill)
  BY ObjectAssumption, FillReturns DEF RamFill, PsramFill
<1> QED BY <1>1, IsrToTaskReturns, MutexReturns, SemaphoreReturns, EventFlagsReturns,
           DynamicAllocationReturns, QueueReturns, MailboxReturns, ForcedFailReturns,
           MaximumQueueReturns, MemorySafetyReturns, ErrorBranchReturns,
           RandomSemaphoreReturns, Zenon DEF Scripts

-----------------------------------------------------------------------------
(* The script that runs, and the objects there are.                        *)

LEMMA ScriptNow ==
  ASSUME Running, test \in 1..(Len(Order) + 1)
  PROVE  Returns(Script) /\ Op = Script[at] /\ Ending = Len(Script) /\ test \in 1..Len(Order)
<1>1. Order \in Seq(Scripts) /\ Len(Order) \in Nat
  BY ObjectAssumption
<1>2. test \in 1..Len(Order)
  BY <1>1 DEF Running
<1>3. Order[test] \in Scripts
  BY <1>1, <1>2
<1> QED BY <1>2, <1>3, ScriptsReturn DEF Script, Op, Ending

LEMMA HeldHolds ==
  ASSUME NEW s, Returns(s)
  PROVE  HeldAt(s) \in [1..Len(s) -> Nat] /\ Holds(s, HeldAt(s))
<1>1. \E h \in [1..Len(s) -> Nat] : Holds(s, h)
  BY DEF Returns
<1> QED BY <1>1, Zenon DEF HeldAt

LEMMA NamesFinite == \A S \in SUBSET Names : IsFiniteSet(S) /\ Cardinality(S) \in Nat
<1>1. IsFiniteSet(Names)
  <2>1. Names = {"a"} \cup {"b"}
    BY DEF Names
  <2>2. IsFiniteSet({"a"})
    BY FS_Singleton
  <2> QED BY <2>1, <2>2, FS_AddElement
<1> QED BY <1>1, FS_Subset, FS_CardinalityType

\* n is m with other items in the objects.
SameCaps(m, n) == n = [o \in Names |-> [cap |-> m[o].cap, items |-> n[o].items]]

LEMMA OtherItems ==
  ASSUME NEW m, SameCaps(m, m), NEW o, NEW x
  PROVE  SameCaps(m, [m EXCEPT ![o].items = x])
<1> DEFINE n == [m EXCEPT ![o].items = x]
<1>1. ASSUME NEW q \in Names
      PROVE  n[q] = [cap |-> m[q].cap, items |-> n[q].items]
  <2>1. m[q] = [cap |-> m[q].cap, items |-> m[q].items]
    BY DEF SameCaps
  <2>2. n[q] = IF q = o THEN [m[q] EXCEPT !.items = x] ELSE m[q]
    BY DEF SameCaps
  <2>3. [m[q] EXCEPT !.items = x] = [cap |-> m[q].cap, items |-> x]
    BY <2>1
  <2> QED BY <2>1, <2>2, <2>3
<1>2. n = [q \in Names |-> n[q]]
  BY DEF SameCaps
<1>3. [q \in Names |-> n[q]] = [q \in Names |-> [cap |-> m[q].cap, items |-> n[q].items]]
  BY <1>1, Zenon
<1> QED BY <1>2, <1>3, Zenon DEF SameCaps

LEMMA SameCreated ==
  ASSUME SameCaps(obj, obj')
  PROVE  /\ Created' = Created /\ SameCaps(obj', obj')
         /\ \A o \in Names : obj'[o].cap = obj[o].cap
<1>1. ASSUME NEW o \in Names PROVE obj'[o].cap = obj[o].cap
  <2>1. obj'[o] = [cap |-> obj[o].cap, items |-> obj'[o].items]
    BY Zenon DEF SameCaps
  <2> QED BY <2>1
<1>2. Created' = Created
  BY <1>1 DEF Created
<1>3. SameCaps(obj', obj')
  <2>1. [o \in Names |-> [cap |-> obj[o].cap, items |-> obj'[o].items]]
        = [o \in Names |-> [cap |-> obj'[o].cap, items |-> obj'[o].items]]
    BY <1>1, Zenon
  <2> QED BY <2>1, Zenon DEF SameCaps
<1> QED BY <1>1, <1>2, <1>3

LEMMA AskedMore ==
  ASSUME NEW s, NEW i \in Nat, NEW j \in Nat, i <= j
  PROVE  AskedBefore(s, i) \subseteq AskedBefore(s, j)
  BY DEF AskedBefore

-----------------------------------------------------------------------------
(* The calls that take nothing and give nothing.                           *)

LEMMA Onward ==
  ASSUME PlaceInv, Running, Op.do # "cleanup"
  PROVE  /\ at \in 1..(Ending - 1) /\ Ending \in Nat /\ at + 1 <= Ending /\ at + 1 \in Nat
         /\ at + 1 \in 1..Ending
<1>1. Returns(Script) /\ Op = Script[at] /\ Ending = Len(Script)
  BY ScriptNow DEF PlaceInv
<1>2. Ending \in Nat /\ at \in 1..Ending
  BY <1>1 DEF Returns, PlaceInv
<1>3. at # Ending
  BY <1>1, <1>2 DEF Returns
<1> QED BY <1>2, <1>3

LEMMA QuietStep ==
  ASSUME ObjectInv, Running, Op.do \notin {"cleanup", "block", "release"},
         UNCHANGED <<test, held, free, others, reserved>>,
         SameCaps(obj, obj'), chunk' \in Nat, at' \in {at, at + 1, Ending}
  PROVE  ObjectInv'
<1> USE DEF ObjectInv
<1>1. Created' = Created /\ SameCaps(obj', obj') /\ \A o \in Names : obj'[o].cap = obj[o].cap
  BY SameCreated
<1>2. TypeInv'
  BY <1>1 DEF TypeInv, SameCaps
<1>3. at \in 1..(Ending - 1) /\ Ending \in Nat
  BY Onward
<1>4. Script' = Script /\ Running' = Running /\ Ending' = Ending /\ PoolOf' = PoolOf
  BY DEF Script, Running, Ending, PoolOf
<1>5. at' \in Nat \ {0} /\ at <= at' /\ at' <= Ending
  BY <1>3
<1>6. Created' \subseteq AskedBefore(Script', at')
  <2>1. AskedBefore(Script, at) \subseteq AskedBefore(Script, at')
    BY <1>3, <1>5, AskedMore
  <2> QED BY <1>1, <1>4, <2>1 DEF PlaceInv
<1>7. ASSUME at' # Ending, Script[1].do # "fill"
      PROVE  Len(held) = HeldAt(Script)[at']
  <2>1. Len(held) = HeldAt(Script)[at]
    BY <1>3, <1>7 DEF PlaceInv
  <2>2. CASE at' = at
    BY <2>1, <2>2
  <2>3. CASE at' = at + 1
    <3>1. Returns(Script) /\ Op = Script[at] /\ Ending = Len(Script)
      BY ScriptNow DEF PlaceInv
    <3>2. HeldAt(Script)[at + 1] = HeldAt(Script)[at]
      BY <1>3, <3>1, HeldHolds DEF Holds
    <3> QED BY <2>1, <2>3, <3>2
  <2> QED BY <1>7, <2>2, <2>3
<1>8. PlaceInv'
  BY <1>4, <1>5, <1>6, <1>7 DEF PlaceInv
<1>9. UnitsInv'
  BY <1>1, <1>4 DEF UnitsInv, Mine
<1> QED BY <1>2, <1>8, <1>9

LEMMA AnswerLeads ==
  ASSUME NEW got, Answer(got)
  PROVE  at' \in {at + 1, Ending}
  BY DEF Answer

LEMMA QuietSteps ==
  ASSUME ObjectInv,
         \/ NeedObjects \/ SendItem \/ OverwriteItem \/ ReceiveItem \/ CountItems
         \/ SetEventBit \/ WaitAllBits \/ RandomRound \/ LookAtFree \/ ForceFailure
         \/ CompareFree \/ FillSmaller \/ FillEnds \/ VerifyBlocks
  PROVE  ObjectInv'
<1>1. SameCaps(obj, obj) /\ chunk \in Nat /\ FirstChunk \in Nat
  BY ObjectAssumption DEF ObjectInv, TypeInv, SameCaps
<1>2. CASE NeedObjects
  BY <1>1, <1>2, QuietStep DEF NeedObjects, Idle
<1>3. CASE SendItem
  <2>1. SameCaps(obj, obj')
    <3>1. \/ obj' = obj
          \/ obj' = [obj EXCEPT ![Op.on].items = Append(obj[Op.on].items, Op.value)]
      BY <1>3, Zenon DEF SendItem
    <3>2. SameCaps(obj, [obj EXCEPT ![Op.on].items = Append(obj[Op.on].items, Op.value)])
      BY <1>1, OtherItems, Zenon
    <3> QED BY <1>1, <3>1, <3>2, Zenon
  <2>2. at' \in {at + 1, Ending}
    BY <1>3, AnswerLeads DEF SendItem
  <2> QED BY <1>1, <1>3, <2>1, <2>2, QuietStep DEF SendItem, Idle
<1>4. CASE OverwriteItem
  <2>1. SameCaps(obj, obj')
    BY <1>1, <1>4, OtherItems DEF OverwriteItem
  <2>2. at' \in {at + 1, Ending}
    BY <1>4, AnswerLeads DEF OverwriteItem
  <2> QED BY <1>1, <1>4, <2>1, <2>2, QuietStep DEF OverwriteItem, Idle
<1>5. CASE ReceiveItem
  <2>1. SameCaps(obj, obj')
    <3> DEFINE k == IF defect = "lifo" THEN Len(obj[Op.on].items) ELSE 1
    <3>1. \/ obj' = obj
          \/ obj' = [obj EXCEPT ![Op.on].items = Drop(obj[Op.on].items, k)]
      BY <1>5, Zenon DEF ReceiveItem
    <3>2. SameCaps(obj, [obj EXCEPT ![Op.on].items = Drop(obj[Op.on].items, k)])
      BY <1>1, OtherItems, Zenon
    <3> QED BY <1>1, <3>1, <3>2, Zenon
  <2>2. at' \in {at + 1, Ending}
    BY <1>5, AnswerLeads DEF ReceiveItem
  <2> QED BY <1>1, <1>5, <2>1, <2>2, QuietStep DEF ReceiveItem, Idle
<1>6. CASE CountItems
  <2>1. at' \in {at + 1, Ending}
    BY <1>6, AnswerLeads DEF CountItems
  <2> QED BY <1>1, <1>6, <2>1, QuietStep DEF CountItems, Idle
<1>7. CASE SetEventBit
  BY <1>1, <1>7, QuietStep DEF SetEventBit, Idle
<1>8. CASE WaitAllBits
  <2>1. at' \in {at + 1, Ending}
    BY <1>8, AnswerLeads DEF WaitAllBits
  <2> QED BY <1>1, <1>8, <2>1, QuietStep DEF WaitAllBits, Idle
<1>9. CASE RandomRound
  <2>1. SameCaps(obj, obj')
    <3>1. \/ obj' = obj
          \/ obj' = [obj EXCEPT !["a"].items = Append(obj["a"].items, 1)]
          \/ obj' = [obj EXCEPT !["a"].items = Tail(obj["a"].items)]
      BY <1>9, Zenon DEF RandomRound
    <3>2. /\ SameCaps(obj, [obj EXCEPT !["a"].items = Append(obj["a"].items, 1)])
          /\ SameCaps(obj, [obj EXCEPT !["a"].items = Tail(obj["a"].items)])
      BY <1>1, OtherItems, Zenon
    <3> QED BY <1>1, <3>1, <3>2, Zenon
  <2>2. at' \in {at, at + 1, Ending}
    BY <1>9 DEF RandomRound
  <2> QED BY <1>1, <1>9, <2>1, <2>2, QuietStep DEF RandomRound, Idle
<1>10. CASE LookAtFree
  BY <1>1, <1>10, QuietStep DEF LookAtFree, Idle
<1>11. CASE ForceFailure
  BY <1>1, <1>11, QuietStep DEF ForceFailure, Idle
<1>12. CASE CompareFree
  BY <1>1, <1>12, QuietStep DEF CompareFree, Idle
<1>13. CASE FillSmaller
  <2>1. chunk' \in Nat
    BY <1>1, <1>13 DEF FillSmaller
  <2> QED BY <1>1, <1>13, <2>1, QuietStep DEF FillSmaller, Idle
<1>14. CASE FillEnds
  BY <1>1, <1>14, QuietStep DEF FillEnds, Idle
<1>15. CASE VerifyBlocks
  BY <1>1, <1>15, QuietStep DEF VerifyBlocks, Idle
<1> QED BY <1>2, <1>3, <1>4, <1>5, <1>6, <1>7, <1>8, <1>9, <1>10, <1>11, <1>12, <1>13,
           <1>14, <1>15

-----------------------------------------------------------------------------
(* The calls that take or give.                                            *)

LEMMA HeldStep ==
  ASSUME PlaceInv, Running, Op.do # "cleanup", Script[1].do # "fill"
  PROVE  /\ Len(held) = HeldAt(Script)[at] /\ Len(held) \in Nat
         /\ HeldAt(Script)[at + 1] = IF Op.do = "block" THEN Len(held) + 1
                                     ELSE IF Op.do = "release" THEN Len(held) - 1
                                     ELSE Len(held)
         /\ Op.do = "release" => Op.which \in 1..Len(held)
<1>1. Returns(Script) /\ Op = Script[at] /\ Ending = Len(Script)
  BY ScriptNow DEF PlaceInv
<1>2. at \in 1..(Ending - 1) /\ Ending \in Nat
  BY Onward
<1>3. Len(held) = HeldAt(Script)[at]
  BY <1>2 DEF PlaceInv
<1>4. HeldAt(Script) \in [1..Len(Script) -> Nat] /\ Holds(Script, HeldAt(Script))
  BY <1>1, HeldHolds
<1>5. /\ HeldAt(Script)[at + 1] = IF Script[at].do = "block" THEN HeldAt(Script)[at] + 1
                                  ELSE IF Script[at].do = "release" THEN HeldAt(Script)[at] - 1
                                  ELSE HeldAt(Script)[at]
      /\ Script[at].do = "release" => Script[at].which \in 1..HeldAt(Script)[at]
  BY <1>1, <1>2, <1>4, Zenon DEF Holds
<1>6. HeldAt(Script)[at] \in Nat
  BY <1>1, <1>2, <1>4
<1> QED BY <1>1, <1>3, <1>5, <1>6

LEMMA CreateKeeps == ASSUME ObjectInv, CreateObject PROVE ObjectInv'
<1> USE DEF ObjectInv
<1>1. CASE ~(free["internal"] > 0)
  <2>1. SameCaps(obj, obj')
    BY <1>1 DEF CreateObject, TypeInv, SameCaps
  <2> QED BY <1>1, <2>1, QuietStep DEF CreateObject, Idle, TypeInv
<1>2. CASE free["internal"] > 0
  <2> DEFINE on == Op.on
             new == [cap |-> Op.cap, items |-> Op.items]
  <2>0. /\ Running /\ Op.do = "new" /\ obj' = [obj EXCEPT ![on] = new]
        /\ free' = [free EXCEPT !["internal"] = @ - 1] /\ at' = at + 1
        /\ UNCHANGED <<test, held, others, reserved, chunk>>
    BY <1>2 DEF CreateObject, Idle
  <2>1. Returns(Script) /\ Op = Script[at] /\ Ending = Len(Script)
    BY <2>0, ScriptNow DEF PlaceInv
  <2>2. /\ at \in 1..(Ending - 1) /\ Ending \in Nat /\ at + 1 <= Ending /\ at + 1 \in Nat
        /\ at \in 1..Ending
    <3>1. at \in 1..(Ending - 1) /\ Ending \in Nat /\ at + 1 <= Ending /\ at + 1 \in Nat
      BY <2>0, Onward
    <3> QED BY <3>1
  <2>3. /\ on \in Names /\ new.cap \in Nat \ {0}
        /\ \A j \in 1..(at - 1) : Script[j].do = "new" => Script[j].on # on
    BY <2>0, <2>1, <2>2 DEF Returns
  <2>4. on \notin AskedBefore(Script, at) /\ on \in AskedBefore(Script, at + 1)
    <3>1. on \notin AskedBefore(Script, at)
      BY <2>3 DEF AskedBefore
    <3>2. at \in {j \in 1..((at + 1) - 1) : Script[j].do = "new"} /\ on = Script[at].on
      BY <2>0, <2>1, <2>2
    <3>3. on \in AskedBefore(Script, at + 1)
      BY <3>2, Zenon DEF AskedBefore
    <3> QED BY <3>1, <3>3
  <2>5. Script' = Script /\ Running' = Running /\ Ending' = Ending /\ PoolOf' = PoolOf
    BY <2>0 DEF Script, Running, Ending, PoolOf
  <2>6. /\ Created' = Created \cup {on} /\ on \notin Created
    <3>1. on \notin Created
      BY <2>0, <2>4 DEF PlaceInv
    <3>2. ASSUME NEW o \in Names PROVE obj'[o].cap > 0 <=> obj[o].cap > 0 \/ o = on
      BY <2>0, <2>3, <3>2 DEF TypeInv
    <3> QED BY <2>3, <3>1, <3>2 DEF Created
  <2>7. TypeInv'
    <3>1. ASSUME NEW o \in Names
          PROVE  obj'[o] = [cap |-> obj'[o].cap, items |-> obj'[o].items] /\ obj'[o].cap \in Nat
      <4>1. obj[o] = [cap |-> obj[o].cap, items |-> obj[o].items] /\ obj[o].cap \in Nat
        BY Zenon DEF TypeInv
      <4>2. obj'[o] = IF o = on THEN new ELSE obj[o]
        BY <2>0 DEF TypeInv
      <4> QED BY <2>3, <4>1, <4>2
    <3>2. obj' = [o \in Names |-> obj'[o]]
      BY <2>0 DEF TypeInv
    <3>3. [o \in Names |-> obj'[o]]
          = [o \in Names |-> [cap |-> obj'[o].cap, items |-> obj'[o].items]]
      BY <3>1, Zenon
    <3>4. obj' = [o \in Names |-> [cap |-> obj'[o].cap, items |-> obj'[o].items]]
      BY <3>2, <3>3, Zenon
    <3>5. free' \in [Pools -> Nat]
      <4>1. free \in [Pools -> Nat] /\ "internal" \in Pools
        BY ObjectAssumption DEF TypeInv
      <4>2. free["internal"] - 1 \in Nat
        BY <1>2, <4>1
      <4> QED BY <2>0, <4>1, <4>2
    <3> QED BY <2>0, <3>1, <3>4, <3>5 DEF TypeInv
  <2>8. PlaceInv'
    <3>1. Created' \subseteq AskedBefore(Script', at')
      <4>1. AskedBefore(Script, at) \subseteq AskedBefore(Script, at + 1)
        BY <2>2, AskedMore
      <4> QED BY <2>0, <2>4, <2>5, <2>6, <4>1 DEF PlaceInv
    <3>2. ASSUME Script[1].do # "fill"
          PROVE  Len(held) = HeldAt(Script)[at + 1]
      BY <2>0, <3>2, HeldStep
    <3> QED BY <2>0, <2>2, <2>5, <3>1, <3>2 DEF PlaceInv
  <2>9. UnitsInv'
    <3>1. Created \in SUBSET Names
      BY DEF Created
    <3>2. Cardinality(Created') = Cardinality(Created) + 1 /\ Cardinality(Created) \in Nat
      BY <2>6, <3>1, NamesFinite, FS_AddElement
    <3> SUFFICES ASSUME NEW p \in Pools
                 PROVE  free'[p] + others'[p] + (IF p = "internal" THEN reserved' ELSE 0)
                          + Mine(p)' = Capacity[p]
      BY <2>0, <2>5 DEF UnitsInv
    <3>3. free[p] + others[p] + (IF p = "internal" THEN reserved ELSE 0) + Mine(p) = Capacity[p]
      BY <2>0 DEF UnitsInv
    <3>4. Mine(p)' = Mine(p) + IF p = "internal" THEN 1 ELSE 0
      <4>1. Sum(held) \in Nat
        BY SumNat DEF TypeInv
      <4> QED BY <2>0, <2>5, <3>2, <4>1 DEF Mine
    <3>5. free'[p] = IF p = "internal" THEN free[p] - 1 ELSE free[p]
      BY <2>0 DEF TypeInv
    <3>6. free[p] \in Nat /\ others[p] \in Nat /\ reserved \in Nat
      BY DEF TypeInv
    <3>7. Mine(p) \in Nat
      <4>1. Sum(held) \in Nat
        BY SumNat DEF TypeInv
      <4> QED BY <3>2, <4>1 DEF Mine
    <3> QED BY <2>0, <3>3, <3>4, <3>5, <3>6, <3>7
  <2> QED BY <2>7, <2>8, <2>9
<1> QED BY <1>1, <1>2

\* A block of units is put at the head of the list.
LEMMA TakeBlock ==
  ASSUME ObjectInv, Running, Op.do \in {"block", "fill"}, NEW units \in Nat,
         free[PoolOf] >= units, PoolOf \in Pools,
         UNCHANGED <<test, obj, others, reserved, chunk>>,
         held' = <<units>> \o held,
         free' = [free EXCEPT ![PoolOf] = @ - units],
         IF Op.do = "block" THEN at' = at + 1 /\ Script[1].do # "fill"
                            ELSE at' = at /\ Script[1].do = "fill"
  PROVE  ObjectInv'
<1> USE DEF ObjectInv
<1>1. /\ held \in Seq(Nat) /\ held' \in Seq(Nat) /\ Len(held') = Len(held) + 1
      /\ Sum(held') = units + Sum(held) /\ Sum(held) \in Nat /\ Len(held) \in Nat
  <2>1. held \in Seq(Nat)
    BY DEF TypeInv
  <2>2. Sum(held) \in Nat /\ Len(held) \in Nat
    BY <2>1, SumNat
  <2> QED BY <2>1, <2>2, SumMore
<1>2. Script' = Script /\ Running' = Running /\ Ending' = Ending /\ PoolOf' = PoolOf
      /\ Created' = Created
  BY DEF Script, Running, Ending, PoolOf, Created
<1>3. TypeInv'
  <2>1. free \in [Pools -> Nat]
    BY DEF TypeInv
  <2>2. free[PoolOf] - units \in Nat
    BY <2>1
  <2>3. free' \in [Pools -> Nat]
    BY <2>1, <2>2
  <2> QED BY <1>1, <2>3 DEF TypeInv
<1>4. PlaceInv'
  <2>1. /\ at \in 1..(Ending - 1) /\ Ending \in Nat /\ at + 1 <= Ending /\ at + 1 \in Nat
    BY Onward
  <2>2. AskedBefore(Script, at) \subseteq AskedBefore(Script, at + 1)
    BY <2>1, AskedMore
  <2>3. CASE Op.do = "block"
    <3>1. at' = at + 1 /\ Len(held') = HeldAt(Script)[at + 1]
      BY <1>1, <2>3, HeldStep
    <3> QED BY <1>2, <2>1, <2>2, <3>1 DEF PlaceInv
  <2>4. CASE Op.do # "block"
    BY <1>2, <2>1, <2>4 DEF PlaceInv
  <2> QED BY <2>3, <2>4
<1>5. UnitsInv'
  <2>1. Cardinality(Created) \in Nat
    <3>1. Created \in SUBSET Names
      BY DEF Created
    <3> QED BY <3>1, NamesFinite
  <2> SUFFICES ASSUME NEW p \in Pools
               PROVE  free'[p] + others'[p] + (IF p = "internal" THEN reserved' ELSE 0)
                        + Mine(p)' = Capacity[p]
    BY <1>2 DEF UnitsInv
  <2>2. free[p] + others[p] + (IF p = "internal" THEN reserved ELSE 0) + Mine(p) = Capacity[p]
    BY DEF UnitsInv
  <2>3. Mine(p)' = Mine(p) + (IF p = PoolOf THEN units ELSE 0) /\ Mine(p) \in Nat
    BY <1>1, <1>2, <2>1 DEF Mine
  <2>4. free'[p] = free[p] - IF p = PoolOf THEN units ELSE 0
    BY DEF TypeInv
  <2>5. free[p] \in Nat /\ others[p] \in Nat /\ reserved \in Nat
    BY DEF TypeInv
  <2> QED BY <2>2, <2>3, <2>4, <2>5
<1> QED BY <1>3, <1>4, <1>5

LEMMA AllocateKeeps == ASSUME ObjectInv, AllocateBlock PROVE ObjectInv'
<1>1. Running /\ Op.do = "block" /\ test \in 1..(Len(Order) + 1)
  BY DEF AllocateBlock, ObjectInv, PlaceInv
<1>2. Returns(Script) /\ Op = Script[at] /\ at \in 1..Len(Script)
  <2>1. Returns(Script) /\ Op = Script[at] /\ Ending = Len(Script)
    BY <1>1, ScriptNow
  <2> QED BY <1>1, <2>1 DEF ObjectInv, PlaceInv, Returns
<1>3. Script[1].do # "fill" /\ Op.pool = "internal" /\ Op.units \in Nat
  BY <1>1, <1>2 DEF Returns
<1>4. PoolOf = "internal" /\ PoolOf \in Pools
  BY <1>3, ObjectAssumption DEF PoolOf, Script
<1>5. CASE free[Op.pool] >= Op.units
  <2>1. /\ held' = <<Op.units>> \o held /\ at' = at + 1
        /\ free' = [free EXCEPT ![PoolOf] = @ - Op.units] /\ free[PoolOf] >= Op.units
        /\ UNCHANGED <<test, obj, others, reserved, chunk>>
    BY <1>3, <1>4, <1>5 DEF AllocateBlock, Idle
  <2> QED BY <1>1, <1>3, <1>4, <2>1, TakeBlock
<1>6. CASE ~(free[Op.pool] >= Op.units)
  <2>1. /\ at' = Ending
        /\ UNCHANGED <<test, obj, held, free, others, reserved, chunk>>
    BY <1>6 DEF AllocateBlock, Idle
  <2> USE DEF ObjectInv
  <2>2. Script' = Script /\ Running' = Running /\ Ending' = Ending /\ PoolOf' = PoolOf
        /\ Created' = Created
    BY <2>1 DEF Script, Running, Ending, PoolOf, Created
  <2>3. TypeInv'
    BY <2>1 DEF TypeInv
  <2>4. PlaceInv'
    <3>1. at \in 1..(Ending - 1) /\ Ending \in Nat
      BY <1>1, Onward
    <3>2. AskedBefore(Script, at) \subseteq AskedBefore(Script, Ending)
      BY <3>1, AskedMore
    <3>3. Ending \in Nat \ {0}
      BY <3>1
    <3> QED BY <1>1, <2>1, <2>2, <3>2, <3>3 DEF PlaceInv
  <2>5. UnitsInv'
    BY <2>1, <2>2 DEF UnitsInv, Mine
  <2> QED BY <2>3, <2>4, <2>5
<1> QED BY <1>5, <1>6

LEMMA FillKeeps == ASSUME ObjectInv, FillBlock PROVE ObjectInv'
<1>1. Running /\ Op.do = "fill" /\ test \in 1..(Len(Order) + 1)
  BY DEF FillBlock, ObjectInv, PlaceInv
<1>2. Returns(Script) /\ Op = Script[at] /\ at \in 1..Len(Script)
  <2>1. Returns(Script) /\ Op = Script[at] /\ Ending = Len(Script)
    BY <1>1, ScriptNow
  <2> QED BY <1>1, <2>1 DEF ObjectInv, PlaceInv, Returns
<1>3. at = 1 /\ Script[1].do = "fill" /\ Op.pool \in Pools
  BY <1>1, <1>2 DEF Returns
<1>4. PoolOf = Op.pool
  BY <1>2, <1>3 DEF PoolOf, Script
<1>5. /\ held' = <<chunk>> \o held /\ at' = at /\ chunk \in Nat
      /\ free' = [free EXCEPT ![PoolOf] = @ - chunk] /\ free[PoolOf] >= chunk
      /\ UNCHANGED <<test, obj, others, reserved, chunk>>
  BY <1>4 DEF FillBlock, Idle, ObjectInv, TypeInv
<1> QED BY <1>1, <1>3, <1>4, <1>5, TakeBlock

LEMMA ReleaseKeeps == ASSUME ObjectInv, ReleaseBlock PROVE ObjectInv'
<1> USE DEF ObjectInv
<1>1. /\ Running /\ Op.do = "release" /\ test \in 1..(Len(Order) + 1)
      /\ free' = [free EXCEPT !["internal"] = @ + held[Op.which]]
      /\ held' = Drop(held, Op.which) /\ at' = at + 1
      /\ UNCHANGED <<test, obj, others, reserved, chunk>>
  BY DEF ReleaseBlock, Idle, PlaceInv
<1>2. Returns(Script) /\ Op = Script[at] /\ at \in 1..Len(Script)
  <2>1. Returns(Script) /\ Op = Script[at] /\ Ending = Len(Script)
    BY <1>1, ScriptNow
  <2> QED BY <1>1, <2>1 DEF PlaceInv, Returns
<1>3. Script[1].do # "fill" /\ PoolOf = "internal" /\ "internal" \in Pools
  BY <1>1, <1>2, ObjectAssumption DEF Returns, PoolOf, Script
<1>4. /\ Op.which \in 1..Len(held) /\ Len(held) \in Nat
      /\ HeldAt(Script)[at + 1] = Len(held) - 1
  BY <1>1, <1>3, HeldStep
<1> DEFINE units == held[Op.which]
<1>5. /\ held' \in Seq(Nat) /\ Len(held') = Len(held) - 1
      /\ units \in Nat /\ Sum(held') + units = Sum(held)
      /\ Sum(held) \in Nat /\ Sum(held') \in Nat
  <2>1. held \in Seq(Nat)
    BY DEF TypeInv
  <2>2. /\ held' \in Seq(Nat) /\ Len(held') = Len(held) - 1
        /\ units \in Nat /\ Sum(held') + units = Sum(held)
    BY <1>1, <1>4, <2>1, SumLess
  <2> QED BY <2>1, <2>2, SumNat
<1>6. free' = [free EXCEPT !["internal"] = @ + units]
  BY <1>1
<1> HIDE DEF units
<1>7. Script' = Script /\ Running' = Running /\ Ending' = Ending /\ PoolOf' = PoolOf
      /\ Created' = Created
  BY <1>1 DEF Script, Running, Ending, PoolOf, Created
<1>8. TypeInv'
  <2>1. free \in [Pools -> Nat] /\ free["internal"] + units \in Nat
    BY <1>3, <1>5 DEF TypeInv
  <2>2. free' \in [Pools -> Nat]
    BY <1>6, <2>1
  <2> QED BY <1>1, <1>5, <2>2 DEF TypeInv
<1>9. PlaceInv'
  <2>1. /\ at \in 1..(Ending - 1) /\ Ending \in Nat /\ at + 1 <= Ending /\ at + 1 \in Nat
    BY <1>1, Onward
  <2>2. AskedBefore(Script, at) \subseteq AskedBefore(Script, at + 1)
    BY <2>1, AskedMore
  <2> QED BY <1>1, <1>4, <1>5, <1>7, <2>1, <2>2 DEF PlaceInv
<1>10. UnitsInv'
  <2>1. Cardinality(Created) \in Nat
    <3>1. Created \in SUBSET Names
      BY DEF Created
    <3> QED BY <3>1, NamesFinite
  <2> SUFFICES ASSUME NEW p \in Pools
               PROVE  free'[p] + others'[p] + (IF p = "internal" THEN reserved' ELSE 0)
                        + Mine(p)' = Capacity[p]
    BY <1>1, <1>7 DEF UnitsInv
  <2>2. free[p] + others[p] + (IF p = "internal" THEN reserved ELSE 0) + Mine(p) = Capacity[p]
    BY <1>1 DEF UnitsInv
  <2>3. Mine(p)' + (IF p = "internal" THEN units ELSE 0) = Mine(p) /\ Mine(p)' \in Nat
    BY <1>3, <1>5, <1>7, <2>1 DEF Mine
  <2>4. free'[p] = free[p] + IF p = "internal" THEN units ELSE 0
    BY <1>5, <1>6 DEF TypeInv
  <2>5. free[p] \in Nat /\ others[p] \in Nat /\ reserved \in Nat
    BY DEF TypeInv
  <2>6. others' = others /\ reserved' = reserved /\ Mine(p) \in Nat
    BY <1>1, <1>5, <2>3
  <2>7. CASE p = "internal"
    BY <1>5, <2>2, <2>3, <2>4, <2>5, <2>6, <2>7
  <2>8. CASE p # "internal"
    BY <2>2, <2>3, <2>4, <2>5, <2>6, <2>8
  <2> QED BY <2>7, <2>8
<1> QED BY <1>8, <1>9, <1>10

\* All that the test has taken is given back at once.
LEMMA CleanUpKeeps == ASSUME ObjectInv, CleanUp PROVE ObjectInv'
<1> USE DEF ObjectInv
<1>1. /\ Running /\ Op.do = "cleanup" /\ test \in 1..(Len(Order) + 1)
      /\ obj' = [o \in Names |-> IF o \in Op.names THEN Absent ELSE obj[o]]
      /\ free' = [p \in Pools |-> free[p] + (IF p = PoolOf THEN Sum(held) ELSE 0)
                + (IF p = "internal" THEN Cardinality(Created \intersect Op.names) ELSE 0)]
      /\ held' = <<>> /\ test' = test + 1 /\ at' = 1
      /\ UNCHANGED <<chunk, reserved, others>>
  BY Zenon DEF CleanUp, PlaceInv
<1>2. /\ Returns(Script) /\ Op = Script[at] /\ at = Len(Script) /\ Len(Script) \in Nat \ {0}
      /\ test \in 1..Len(Order)
  <2>1. Returns(Script) /\ Op = Script[at] /\ Ending = Len(Script) /\ test \in 1..Len(Order)
    BY <1>1, ScriptNow
  <2>2. at \in 1..Len(Script)
    BY <1>1, <2>1 DEF PlaceInv, Returns
  <2>3. at = Len(Script)
    BY <1>1, <2>1, <2>2 DEF Returns
  <2> QED BY <2>1, <2>3 DEF Returns
<1>3. Created \subseteq Op.names
  <2>1. AskedBefore(Script, at) \subseteq Script[at].names
    BY <1>2 DEF AskedBefore, Returns
  <2> QED BY <1>1, <1>2, <2>1 DEF PlaceInv
<1>4. Created' = {} /\ Created \intersect Op.names = Created
  <2>1. ASSUME NEW o \in Names PROVE ~(obj'[o].cap > 0)
    <3>1. CASE o \in Op.names
      BY <1>1, <3>1 DEF Absent
    <3>2. CASE o \notin Op.names
      BY <1>1, <1>3, <3>2 DEF Created
    <3> QED BY <3>1, <3>2
  <2> QED BY <1>3, <2>1 DEF Created
<1>5. Sum(held) \in Nat /\ Cardinality(Created) \in Nat
  <2>1. Created \in SUBSET Names
    BY DEF Created
  <2> QED BY <2>1, NamesFinite, SumNat DEF TypeInv
<1>6. \A p \in Pools : free'[p] = free[p] + Mine(p) /\ Mine(p) \in Nat
  <2>1. ASSUME NEW p \in Pools
        PROVE  free'[p] = free[p] + (IF p = PoolOf THEN Sum(held) ELSE 0)
                            + (IF p = "internal" THEN Cardinality(Created) ELSE 0)
    BY <1>1, <1>4
  <2>2. ASSUME NEW p \in Pools PROVE free[p] \in Nat
    BY DEF TypeInv
  <2> QED BY <1>5, <2>1, <2>2 DEF Mine
<1>7. TypeInv'
  <2>1. ASSUME NEW o \in Names
        PROVE  obj'[o] = [cap |-> obj'[o].cap, items |-> obj'[o].items] /\ obj'[o].cap \in Nat
    <3>1. obj[o] = [cap |-> obj[o].cap, items |-> obj[o].items] /\ obj[o].cap \in Nat
      BY Zenon DEF TypeInv
    <3>2. obj'[o] = IF o \in Op.names THEN Absent ELSE obj[o]
      BY <1>1
    <3> QED BY <3>1, <3>2 DEF Absent
  <2>2. obj' = [o \in Names |-> obj'[o]]
    BY <1>1
  <2>3. [o \in Names |-> obj'[o]]
        = [o \in Names |-> [cap |-> obj'[o].cap, items |-> obj'[o].items]]
    BY <2>1, Zenon
  <2>4. obj' = [o \in Names |-> [cap |-> obj'[o].cap, items |-> obj'[o].items]]
    BY <2>2, <2>3, Zenon
  <2>5. free' \in [Pools -> Nat]
    <3>1. ASSUME NEW p \in Pools PROVE free'[p] \in Nat
      <4>1. free[p] \in Nat
        BY DEF TypeInv
      <4> QED BY <1>6, <4>1
    <3>2. free' = [p \in Pools |-> free'[p]]
      BY <1>1
    <3> QED BY <3>1, <3>2
  <2>6. held' \in Seq(Nat)
    BY <1>1
  <2> QED BY <1>1, <2>1, <2>4, <2>5, <2>6 DEF TypeInv
<1>8. PlaceInv'
  <2>1. Len(Order) \in Nat
    BY ObjectAssumption
  <2>2. test' \in 1..(Len(Order) + 1)
    BY <1>1, <1>2, <2>1
  <2>3. Len(held') = 0
    BY <1>1
  <2>4. ASSUME Running'
        PROVE  /\ 1 <= Ending' /\ (1 # Ending' => HeldAt(Script')[1] = 0)
    <3>1. test' \in 1..Len(Order)
      BY <2>1, <2>2, <2>4 DEF Running
    <3>2. Script' \in Scripts
      BY <3>1, ObjectAssumption DEF Script
    <3>3. Returns(Script') /\ Ending' = Len(Script')
      BY <3>2, ScriptsReturn DEF Ending, Script
    <3>4. Holds(Script', HeldAt(Script'))
      BY <3>3, HeldHolds
    <3> QED BY <3>3, <3>4 DEF Returns, Holds
  <2> QED BY <1>1, <1>4, <2>2, <2>3, <2>4 DEF PlaceInv
<1>9. UnitsInv'
  <2> SUFFICES ASSUME NEW p \in Pools
               PROVE  free'[p] + others'[p] + (IF p = "internal" THEN reserved' ELSE 0)
                        + (IF Running' THEN Mine(p)' ELSE 0) = Capacity[p]
    BY DEF UnitsInv
  <2>1. free[p] + others[p] + (IF p = "internal" THEN reserved ELSE 0) + Mine(p) = Capacity[p]
    BY <1>1 DEF UnitsInv
  <2>2. Mine(p)' = 0
    <3>1. Sum(held') = 0 /\ Cardinality(Created') = 0
      BY <1>1, <1>4, SumNone, FS_EmptySet
    <3> QED BY <3>1 DEF Mine
  <2>3. free[p] \in Nat /\ others[p] \in Nat /\ reserved \in Nat
    BY DEF TypeInv
  <2>4. free'[p] = free[p] + Mine(p) /\ Mine(p) \in Nat
    BY <1>6
  <2>5. others' = others /\ reserved' = reserved
    BY <1>1
  <2> HIDE DEF ObjectInv
  <2> QED BY <2>1, <2>2, <2>3, <2>4, <2>5
<1> QED BY <1>7, <1>8, <1>9

\* The reserve and the other tasks.
LEMMA OutsideKeeps ==
  ASSUME ObjectInv,
         CleanupAfterTests \/ \E p \in Pools : OthersAllocate(p) \/ OthersFree(p)
  PROVE  ObjectInv'
<1> USE DEF ObjectInv
<1>1. UNCHANGED <<test, at, obj, held, chunk>>
  BY DEF CleanupAfterTests, OthersAllocate, OthersFree
<1>2. /\ Script' = Script /\ Running' = Running /\ Ending' = Ending /\ PoolOf' = PoolOf
      /\ Created' = Created
  BY <1>1 DEF Script, Running, Ending, PoolOf, Created
<1>3. PlaceInv'
  BY <1>1, <1>2 DEF PlaceInv
<1>4. /\ free \in [Pools -> Nat] /\ others \in [Pools -> Nat] /\ reserved \in Nat
      /\ "internal" \in Pools
  BY ObjectAssumption DEF TypeInv
<1> DEFINE Rest(q) == IF Running THEN Mine(q) ELSE 0
<1>5. \A q \in Pools : Rest(q)' = Rest(q) /\ Rest(q) \in Nat
  <2>1. Sum(held) \in Nat /\ Cardinality(Created) \in Nat
    <3>1. Created \in SUBSET Names
      BY DEF Created
    <3> QED BY <3>1, NamesFinite, SumNat DEF TypeInv
  <2> QED BY <1>1, <1>2, <2>1 DEF Mine
<1>6. \A q \in Pools :
        free[q] + others[q] + (IF q = "internal" THEN reserved ELSE 0) + Rest(q) = Capacity[q]
  BY DEF UnitsInv
<1> HIDE DEF Rest
<1>7. ASSUME free' \in [Pools -> Nat], others' \in [Pools -> Nat], reserved' \in Nat,
             \A q \in Pools :
               free'[q] + others'[q] + (IF q = "internal" THEN reserved' ELSE 0)
               = free[q] + others[q] + (IF q = "internal" THEN reserved ELSE 0)
      PROVE  ObjectInv'
  <2>1. TypeInv'
    BY <1>1, <1>7 DEF TypeInv
  <2>2. \A q \in Pools :
          free'[q] + others'[q] + (IF q = "internal" THEN reserved' ELSE 0) + Rest(q)'
          = Capacity[q]
    BY <1>5, <1>6, <1>7, Zenon
  <2>3. UnitsInv'
    BY <2>2 DEF UnitsInv, Rest
  <2> QED BY <1>3, <2>1, <2>3
<1>8. CASE CleanupAfterTests
  <2>1. /\ free' = [free EXCEPT !["internal"] = @ + reserved]
        /\ reserved' = 0 /\ others' = others
    BY <1>8 DEF CleanupAfterTests
  <2>2. free["internal"] + reserved \in Nat
    BY <1>4
  <2>3. free' \in [Pools -> Nat] /\ others' \in [Pools -> Nat] /\ reserved' \in Nat
    BY <1>4, <2>1, <2>2
  <2>4. ASSUME NEW q \in Pools
        PROVE  free'[q] + others'[q] + (IF q = "internal" THEN reserved' ELSE 0)
               = free[q] + others[q] + (IF q = "internal" THEN reserved ELSE 0)
    <3>1. free'[q] = (IF q = "internal" THEN free[q] + reserved ELSE free[q])
      BY <1>4, <2>1
    <3>2. free[q] \in Nat /\ others[q] \in Nat
      BY <1>4
    <3> QED BY <1>4, <2>1, <3>1, <3>2
  <2> QED BY <1>7, <2>3, <2>4
<1>9. ASSUME NEW p \in Pools, OthersAllocate(p) PROVE ObjectInv'
  <2>1. /\ free' = [free EXCEPT ![p] = @ - 1] /\ others' = [others EXCEPT ![p] = @ + 1]
        /\ reserved' = reserved /\ free[p] > 0
    BY <1>9 DEF OthersAllocate
  <2>2. free[p] - 1 \in Nat /\ others[p] + 1 \in Nat
    BY <1>4, <2>1
  <2>3. free' \in [Pools -> Nat] /\ others' \in [Pools -> Nat] /\ reserved' \in Nat
    BY <1>4, <2>1, <2>2
  <2>4. ASSUME NEW q \in Pools
        PROVE  free'[q] + others'[q] + (IF q = "internal" THEN reserved' ELSE 0)
               = free[q] + others[q] + (IF q = "internal" THEN reserved ELSE 0)
    <3>1. /\ free'[q] = (IF q = p THEN free[q] - 1 ELSE free[q])
          /\ others'[q] = (IF q = p THEN others[q] + 1 ELSE others[q])
      BY <1>4, <2>1
    <3>2. free[q] \in Nat /\ others[q] \in Nat
      BY <1>4
    <3>3. free'[q] + others'[q] = free[q] + others[q]
      BY <3>1, <3>2
    <3> QED BY <2>1, <3>3
  <2> QED BY <1>7, <2>3, <2>4
<1>10. ASSUME NEW p \in Pools, OthersFree(p) PROVE ObjectInv'
  <2>1. /\ free' = [free EXCEPT ![p] = @ + 1] /\ others' = [others EXCEPT ![p] = @ - 1]
        /\ reserved' = reserved /\ others[p] > 0
    BY <1>10 DEF OthersFree
  <2>2. free[p] + 1 \in Nat /\ others[p] - 1 \in Nat
    BY <1>4, <2>1
  <2>3. free' \in [Pools -> Nat] /\ others' \in [Pools -> Nat] /\ reserved' \in Nat
    BY <1>4, <2>1, <2>2
  <2>4. ASSUME NEW q \in Pools
        PROVE  free'[q] + others'[q] + (IF q = "internal" THEN reserved' ELSE 0)
               = free[q] + others[q] + (IF q = "internal" THEN reserved ELSE 0)
    <3>1. /\ free'[q] = (IF q = p THEN free[q] + 1 ELSE free[q])
          /\ others'[q] = (IF q = p THEN others[q] - 1 ELSE others[q])
      BY <1>4, <2>1
    <3>2. free[q] \in Nat /\ others[q] \in Nat
      BY <1>4
    <3>3. free'[q] + others'[q] = free[q] + others[q]
      BY <3>1, <3>2
    <3> QED BY <2>1, <3>3
  <2> QED BY <1>7, <2>3, <2>4
<1> QED BY <1>8, <1>9, <1>10

-----------------------------------------------------------------------------
(* The theorems.                                                           *)

LEMMA ObjectInit == ASSUME Init PROVE ObjectInv
<1>1. /\ test = 1 /\ at = 1 /\ obj = [o \in Names |-> Absent] /\ held = <<>>
      /\ chunk = FirstChunk /\ reserved \in 0..Pressure
      /\ free = [Capacity EXCEPT !["internal"] = @ - reserved]
      /\ others = [p \in Pools |-> 0]
  BY DEF Init
<1>2. /\ Order \in Seq(Scripts) /\ Len(Order) \in Nat /\ Capacity \in [Pools -> Nat]
      /\ "internal" \in Pools /\ Pressure \in 0..Capacity["internal"] /\ FirstChunk \in Nat
  BY ObjectAssumption
<1>3. /\ Capacity["internal"] \in Nat /\ reserved \in Nat
      /\ Capacity["internal"] - reserved \in Nat
  BY <1>1, <1>2
<1>4. Created = {}
  BY <1>1 DEF Created, Absent
<1>5. TypeInv
  <2>1. \A o \in Names : obj[o] = [cap |-> 0, items |-> <<>>]
    BY <1>1 DEF Absent
  <2>2. obj = [o \in Names |-> obj[o]]
    BY <1>1
  <2>3. ASSUME NEW o \in Names
        PROVE  obj[o] = [cap |-> obj[o].cap, items |-> obj[o].items] /\ obj[o].cap \in Nat
    BY <2>1
  <2>4. [o \in Names |-> obj[o]]
        = [o \in Names |-> [cap |-> obj[o].cap, items |-> obj[o].items]]
    BY <2>3, Zenon
  <2>5. obj = [o \in Names |-> [cap |-> obj[o].cap, items |-> obj[o].items]]
    BY <2>2, <2>4, Zenon
  <2>6. free \in [Pools -> Nat] /\ others \in [Pools -> Nat] /\ held \in Seq(Nat)
    BY <1>1, <1>2, <1>3
  <2> QED BY <1>1, <1>2, <1>3, <2>3, <2>5, <2>6 DEF TypeInv
<1>6. PlaceInv
  <2>1. ASSUME Running
        PROVE  1 <= Ending /\ (1 # Ending => HeldAt(Script)[1] = 0)
    <3>1. Returns(Script) /\ Ending = Len(Script)
      BY <1>1, <1>2, <2>1, ScriptNow
    <3>2. Holds(Script, HeldAt(Script))
      BY <3>1, HeldHolds
    <3> QED BY <3>1, <3>2 DEF Returns, Holds
  <2>2. Len(held) = 0 /\ test \in 1..(Len(Order) + 1)
    BY <1>1, <1>2
  <2> QED BY <1>1, <1>4, <2>1, <2>2 DEF PlaceInv
<1>7. UnitsInv
  <2> SUFFICES ASSUME NEW p \in Pools
               PROVE  free[p] + others[p] + (IF p = "internal" THEN reserved ELSE 0)
                        + (IF Running THEN Mine(p) ELSE 0) = Capacity[p]
    BY DEF UnitsInv
  <2>1. Mine(p) = 0
    <3>1. Sum(held) = 0 /\ Cardinality(Created) = 0
      BY <1>1, <1>4, SumNone, FS_EmptySet
    <3> QED BY <3>1 DEF Mine
  <2>2. /\ others[p] = 0
        /\ free[p] = (IF p = "internal" THEN Capacity[p] - reserved ELSE Capacity[p])
    BY <1>1, <1>2
  <2>3. Capacity[p] \in Nat
    BY <1>2
  <2> QED BY <1>3, <2>1, <2>2, <2>3
<1> QED BY <1>5, <1>6, <1>7 DEF ObjectInv

LEMMA ObjectNext == ASSUME ObjectInv, [Next]_vars PROVE ObjectInv'
<1>1. CASE UNCHANGED vars
  <2>1. UNCHANGED <<test, at, obj, held, free, others, reserved, chunk>>
    BY <1>1 DEF vars, mem
  <2> QED BY <2>1 DEF ObjectInv, TypeInv, PlaceInv, UnitsInv, Mine, Script, Running, Ending,
                      PoolOf, Created
<1>2. CASE Next
  BY <1>2, QuietSteps, CreateKeeps, AllocateKeeps, FillKeeps, ReleaseKeeps, CleanUpKeeps,
     OutsideKeeps, Zenon DEF Next, Tester
<1> QED BY <1>1, <1>2

\* Every unit of a heap is free, in the reserve, with another task, in an object of
\* the running test or in a block of its list, and the test deletes the objects it
\* has asked for (unittest/tests: each test's clean up).
THEOREM ObjectsCorrect == Spec => []ObjectInv
<1>1. Init => ObjectInv
  BY ObjectInit
<1>2. ObjectInv /\ [Next]_vars => ObjectInv'
  BY ObjectNext
<1> QED BY <1>1, <1>2, PTL DEF Spec

\* Between two tests nothing is missing from a heap, whichever call failed, whatever
\* the kernel does wrong and however much the other tasks take meanwhile.
THEOREM NothingLeaksAlways == Spec => []NothingLeaks
<1>1. ObjectInv => NothingLeaks
  <2> SUFFICES ASSUME ObjectInv, at = 1, held = <<>>, NEW p \in Pools
               PROVE  free[p] + others[p] + (IF p = "internal" THEN reserved ELSE 0)
                      = Capacity[p]
    BY DEF NothingLeaks
  <2>1. Created = {}
    <3>1. AskedBefore(Script, 1) = {}
      BY DEF AskedBefore
    <3> QED BY <3>1 DEF ObjectInv, PlaceInv
  <2>2. Mine(p) = 0
    <3>1. Sum(held) = 0 /\ Cardinality(Created) = 0
      BY <2>1, SumNone, FS_EmptySet
    <3> QED BY <3>1 DEF Mine
  <2>3. free[p] \in Nat /\ others[p] \in Nat /\ reserved \in Nat
    BY DEF ObjectInv, TypeInv
  <2>4. free[p] + others[p] + (IF p = "internal" THEN reserved ELSE 0)
          + (IF Running THEN Mine(p) ELSE 0) = Capacity[p]
    BY DEF ObjectInv, UnitsInv
  <2> QED BY <2>2, <2>3, <2>4
<1> QED BY <1>1, ObjectsCorrect, PTL

-----------------------------------------------------------------------------
(* What the calls on kernel objects answer and leave, call by call.        *)

\* The state a script expects: the objects it has created, and the event bits.
Nothing == [obj |-> [o \in {} |-> Absent], bits |-> {}]
Box(c, s) == [cap |-> c, items |-> s]
NewBox(op) == Box(op.cap, op.items)
One(c, s) == [obj |-> [o \in {"a"} |-> Box(c, s)], bits |-> {}]
Two(c, s, k, t) ==
  [obj |-> [o \in {"a", "b"} |-> IF o = "a" THEN Box(c, s) ELSE Box(k, t)], bits |-> {}]
Flags(c, s, b) == [obj |-> [o \in {"a"} |-> Box(c, s)], bits |-> b]

Has(x) == DOMAIN x.obj
InSlot(x, op) == x.obj[op.on].items
Filled(x, op) == Len(x.obj[op.on].items) >= x.obj[op.on].cap

\* What a kernel with defect d answers.
Reply(d, op, x) ==
  CASE op.do = "send"  -> IF Filled(x, op) /\ d # "overflow" THEN 0 ELSE 1
    [] op.do = "over"  -> 1
    [] op.do = "recv"  -> IF InSlot(x, op) = <<>> THEN 0
                          ELSE InSlot(x, op)[IF d = "lifo" THEN Len(InSlot(x, op)) ELSE 1]
    [] op.do = "count" -> Len(InSlot(x, op))
    [] op.do = "wait"  -> IF {1, 2} \subseteq x.bits \/ (d = "any" /\ x.bits # {})
                          THEN 1 ELSE 0

\* What it puts into the object of the call.
Items(d, op, x) ==
  CASE op.do = "send" -> IF (Filled(x, op) /\ d # "overflow") \/ d = "lost" THEN InSlot(x, op)
                         ELSE Append(InSlot(x, op), op.value)
    [] op.do = "over" -> IF d = "stale" /\ Filled(x, op) THEN InSlot(x, op)
                         ELSE <<op.value>>
    [] op.do = "recv" -> IF InSlot(x, op) = <<>> \/ d = "keeps" THEN InSlot(x, op)
                         ELSE Drop(InSlot(x, op),
                                   IF d = "lifo" THEN Len(InSlot(x, op)) ELSE 1)
    [] OTHER          -> InSlot(x, op)

Holding(x, o, box) == [q \in Has(x) \cup {o} |-> IF q = o THEN box ELSE x.obj[q]]

Asking == {"send", "over", "recv", "count"}
Effect(d, op, x) ==
  CASE op.do = "new" -> [obj |-> Holding(x, op.on, NewBox(op)), bits |-> x.bits]
    [] op.do = "set" -> [obj |-> x.obj, bits |-> x.bits \cup {op.bit}]
    [] op.do \in Asking ->
         [obj |-> Holding(x, op.on, Box(x.obj[op.on].cap, Items(d, op, x))), bits |-> x.bits]
    [] OTHER -> x

Fits(d, op, x) == op.want = ANY \/ Reply(d, op, x) = op.want

\* The kernel goes from x to y with call i of script s.
Tries(d, s, i, x) ==
  \/ s[i].do = "new" /\ s[i].on \in Names
  \/ s[i].do = "need" /\ AskedBefore(s, i) \subseteq {o \in Has(x) : x.obj[o].cap > 0}
  \/ s[i].do = "set" \/ s[i].do = "wait"
  \/ s[i].do \in Asking /\ s[i].on \in Has(x)
Judges(op) == op.do \in Asking \cup {"wait"}
Goes(d, s, i, x, y) ==
  /\ Tries(d, s, i, x) /\ y = Effect(d, s[i], x)
  /\ Judges(s[i]) => Fits(d, s[i], x)

\* Up to place n script s goes as it should on a kernel with defect d.
Follows(s, d, st, n) ==
  /\ n \in 1..Len(s) /\ st[1] = Nothing
  /\ \A i \in 1..(n - 1) : Goes(d, s, i, st[i], st[i + 1])

\* The answer to call i gives the kernel away.
Balks(d, s, i, x) == Tries(d, s, i, x) /\ Judges(s[i]) /\ ~Fits(d, s[i], x)

\* At place n the script notices.
Notices(s, d, st, n) == Follows(s, d, st, n) /\ Balks(d, s, n, st[n])

\* The objects and bits are what x says.
Matches(x) ==
  /\ Has(x) \subseteq Names /\ x.bits = bits
  /\ \A o \in Has(x) : x.obj[o] = obj[o]

LEMMA PutItems ==
  ASSUME TypeInv, NEW o \in Names, NEW s
  PROVE  /\ [obj EXCEPT ![o].items = s][o] = Box(obj[o].cap, s)
         /\ \A q \in Names \ {o} : [obj EXCEPT ![o].items = s][q] = obj[q]
<1>1. obj = [q \in Names |-> [cap |-> obj[q].cap, items |-> obj[q].items]]
  BY DEF TypeInv
<1>2. obj[o] = [cap |-> obj[o].cap, items |-> obj[o].items]
  BY <1>1
<1>3. [obj[o] EXCEPT !.items = s] = [cap |-> obj[o].cap, items |-> s]
  BY <1>2
<1>4. /\ [obj EXCEPT ![o].items = s][o] = [obj[o] EXCEPT !.items = s]
      /\ \A q \in Names \ {o} : [obj EXCEPT ![o].items = s][q] = obj[q]
  BY <1>1
<1> QED BY <1>3, <1>4, Zenon DEF Box

LEMMA MatchesPut ==
  ASSUME NEW x, Matches(x), NEW o \in Names, NEW b, bits' = bits,
         obj'[o] = b, \A q \in Names \ {o} : obj'[q] = obj[q]
  PROVE  Matches([obj |-> Holding(x, o, b), bits |-> x.bits])'
<1> DEFINE y == [obj |-> Holding(x, o, b), bits |-> x.bits]
<1>1. Has(y) = Has(x) \cup {o} /\ y.bits = x.bits
      /\ \A q \in Has(y) : y.obj[q] = IF q = o THEN b ELSE x.obj[q]
  BY DEF Has, Holding
<1> HIDE DEF y
<1>2. Has(y) \subseteq Names /\ y.bits = bits'
  BY <1>1 DEF Matches
<1>3. \A q \in Has(y) : y.obj[q] = obj'[q]
  BY <1>1 DEF Matches
<1> QED BY <1>2, <1>3 DEF Matches, y

\* A call does to the objects and the verdict what Effect and Fits say.
Led(x, y) ==
  /\ Matches(y)'
  /\ Judges(Op) /\ ~Fits(defect, Op, x) => bad' = TRUE
  /\ ~(Judges(Op) /\ ~Fits(defect, Op, x)) => at' = at + 1 /\ bad' = bad

LEMMA AnswerFits ==
  ASSUME NEW x, Judges(Op), Answer(Reply(defect, Op, x))
  PROVE  /\ ~Fits(defect, Op, x) => bad' = TRUE
         /\ Fits(defect, Op, x) => at' = at + 1 /\ bad' = bad
  BY DEF Answer, Fits

LEMMA NewLeads ==
  ASSUME TypeInv, CreateObject, ~refused', NEW x, Matches(x), Op.on \in Names,
         NEW y, y = Effect(defect, Op, x)
  PROVE  Led(x, y)
<1>1. /\ Op.do = "new" /\ at' = at + 1 /\ bad' = bad /\ bits' = bits
      /\ obj' = [obj EXCEPT ![Op.on] = NewBox(Op)]
  BY DEF CreateObject, NewBox, Box
<1>2. obj'[Op.on] = NewBox(Op) /\ \A q \in Names \ {Op.on} : obj'[q] = obj[q]
  BY <1>1 DEF TypeInv
<1>3. PICK o : o = Op.on
  OBVIOUS
<1>4. PICK b : b = NewBox(Op)
  OBVIOUS
<1>5. Matches([obj |-> Holding(x, o, b), bits |-> x.bits])'
  <2>1. o \in Names /\ bits' = bits
    BY <1>1, <1>3
  <2>2. obj'[o] = b /\ \A q \in Names \ {o} : obj'[q] = obj[q]
    BY <1>2, <1>3, <1>4, Zenon
  <2> QED BY <2>1, <2>2, MatchesPut
<1>6. y = [obj |-> Holding(x, o, b), bits |-> x.bits]
  BY <1>1, <1>3, <1>4 DEF Effect, Asking
<1>7. ~Judges(Op)
  BY <1>1 DEF Judges, Asking
<1> QED BY <1>1, <1>5, <1>6, <1>7, Zenon DEF Led

LEMMA NeedLeads ==
  ASSUME PlaceInv, NeedObjects, NEW x, Matches(x), AskedBefore(Script, at) \subseteq Created,
         NEW y, y = Effect(defect, Op, x)
  PROVE  Led(x, y)
<1>1. Op.do = "need" /\ UNCHANGED <<obj, bits>>
  BY DEF NeedObjects
<1>2. at' = at + 1 /\ bad' = bad
  BY DEF NeedObjects, AskedBefore, Script
<1>3. y = x /\ ~Judges(Op)
  BY <1>1 DEF Effect, Judges, Asking
<1>4. Matches(y)'
  BY <1>1, <1>3 DEF Matches
<1> QED BY <1>2, <1>3, <1>4 DEF Led

LEMMA SetLeads ==
  ASSUME SetEventBit, NEW x, Matches(x), NEW y, y = Effect(defect, Op, x)
  PROVE  Led(x, y)
<1>1. Op.do = "set" /\ obj' = obj /\ bits' = bits \cup {Op.bit} /\ at' = at + 1 /\ bad' = bad
  BY DEF SetEventBit
<1>2. y = [obj |-> x.obj, bits |-> x.bits \cup {Op.bit}] /\ ~Judges(Op)
  BY <1>1 DEF Effect, Judges, Asking
<1>3. y.obj = x.obj /\ y.bits = x.bits \cup {Op.bit}
  BY <1>2
<1>4. Matches(y)'
  BY <1>1, <1>3 DEF Matches, Has
<1> QED BY <1>1, <1>2, <1>4 DEF Led

LEMMA WaitLeads ==
  ASSUME WaitAllBits, NEW x, Matches(x), NEW y, y = Effect(defect, Op, x)
  PROVE  Led(x, y)
<1>1. Op.do = "wait" /\ UNCHANGED <<obj, bits>> /\ Judges(Op)
  BY DEF WaitAllBits, Judges, Asking
<1>2. Answer(Reply(defect, Op, x))
  <2>1. Reply(defect, Op, x)
        = IF {1, 2} \subseteq x.bits \/ (defect = "any" /\ x.bits # {}) THEN 1 ELSE 0
    BY <1>1 DEF Reply
  <2>2. x.bits = bits
    BY DEF Matches
  <2> QED BY <2>1, <2>2, Zenon DEF WaitAllBits
<1>3. y = x
  BY <1>1 DEF Effect, Asking
<1>4. Matches(y)'
  BY <1>1, <1>3 DEF Matches
<1> QED BY <1>1, <1>2, <1>4, AnswerFits DEF Led

\* The object of a call.
LEMMA InPlace ==
  ASSUME TypeInv, NEW x, Matches(x), Op.on \in Has(x)
  PROVE  /\ Op.on \in Names /\ x.obj[Op.on] = obj[Op.on]
         /\ InSlot(x, Op) = obj[Op.on].items
         /\ Filled(x, Op) <=> Full(Op.on)
  BY DEF Matches, InSlot, Filled, Full

LEMMA Unmoved ==
  ASSUME TypeInv, NEW x, Matches(x), Op.on \in Has(x), NEW s,
         obj' = [obj EXCEPT ![Op.on].items = s], obj' = obj
  PROVE  s = InSlot(x, Op)
<1>1. PICK o : o = Op.on
  OBVIOUS
<1>2. o \in Names /\ InSlot(x, Op) = obj[o].items
  BY <1>1, InPlace
<1>3. [obj EXCEPT ![o].items = s][o] = Box(obj[o].cap, s)
  BY <1>2, PutItems
<1>4. obj[o] = Box(obj[o].cap, s)
  BY <1>1, <1>3, Zenon
<1> QED BY <1>2, <1>4 DEF Box

LEMMA CallLeads ==
  ASSUME TypeInv, NEW x, Matches(x), Op.on \in Has(x), Op.do \in Asking, bits' = bits,
         obj' = obj \/ obj' = [obj EXCEPT ![Op.on].items = Items(defect, Op, x)],
         obj' = obj => Items(defect, Op, x) = InSlot(x, Op),
         Answer(Reply(defect, Op, x)),
         NEW y, y = Effect(defect, Op, x)
  PROVE  Led(x, y)
<1>1. PICK o : o = Op.on
  OBVIOUS
<1>2. PICK s : s = Items(defect, Op, x)
  OBVIOUS
<1>3. PICK b : b = Box(x.obj[o].cap, s)
  OBVIOUS
<1>4. o \in Names /\ x.obj[o] = obj[o] /\ InSlot(x, Op) = obj[o].items
  BY <1>1, InPlace
<1>5. obj'[o] = b /\ \A q \in Names \ {o} : obj'[q] = obj[q]
  <2>1. CASE obj' = obj
    <3>1. obj[o] = [cap |-> obj[o].cap, items |-> obj[o].items]
      BY <1>4 DEF TypeInv
    <3>2. s = obj[o].items
      BY <1>2, <1>4, <2>1
    <3>3. obj[o] = b
      BY <1>3, <1>4, <3>1, <3>2 DEF Box
    <3> QED BY <2>1, <3>3
  <2>2. CASE obj' = [obj EXCEPT ![Op.on].items = Items(defect, Op, x)]
    <3>1. obj' = [obj EXCEPT ![o].items = s]
      BY <1>1, <1>2, <2>2, Zenon
    <3>2. /\ [obj EXCEPT ![o].items = s][o] = Box(obj[o].cap, s)
          /\ \A q \in Names \ {o} : [obj EXCEPT ![o].items = s][q] = obj[q]
      BY <1>4, PutItems
    <3> QED BY <1>3, <1>4, <3>1, <3>2, Zenon
  <2> QED BY <2>1, <2>2
<1>6. Matches([obj |-> Holding(x, o, b), bits |-> x.bits])'
  BY <1>4, <1>5, MatchesPut
<1>7. y = [obj |-> Holding(x, o, b), bits |-> x.bits]
  <2>1. Op.do # "new" /\ Op.do # "set"
    BY DEF Asking
  <2> QED BY <1>1, <1>2, <1>3, <2>1 DEF Effect
<1>8. Judges(Op)
  BY DEF Judges
<1>9. Matches(y)'
  BY <1>6, <1>7, Zenon
<1> QED BY <1>8, <1>9, AnswerFits DEF Led

LEMMA SendLeads ==
  ASSUME TypeInv, SendItem, NEW x, Matches(x), Op.on \in Has(x),
         NEW y, y = Effect(defect, Op, x)
  PROVE  Led(x, y)
<1>1. Op.do = "send" /\ Op.do \in Asking /\ bits' = bits
  BY DEF SendItem, Asking
<1>2. /\ Reply(defect, Op, x) = IF Filled(x, Op) /\ defect # "overflow" THEN 0 ELSE 1
      /\ Items(defect, Op, x)
         = IF (Filled(x, Op) /\ defect # "overflow") \/ defect = "lost" THEN InSlot(x, Op)
           ELSE Append(InSlot(x, Op), Op.value)
  BY <1>1 DEF Reply, Items
<1>3. InSlot(x, Op) = obj[Op.on].items /\ (Filled(x, Op) <=> Full(Op.on))
  BY InPlace
<1>4. CASE Full(Op.on) /\ defect # "overflow"
  <2>1. obj' = obj /\ Answer(0)
    BY <1>4, Zenon DEF SendItem
  <2>2. Reply(defect, Op, x) = 0 /\ Items(defect, Op, x) = InSlot(x, Op)
    BY <1>2, <1>3, <1>4, Zenon
  <2> QED BY <1>1, <2>1, <2>2, CallLeads
<1>5. CASE ~(Full(Op.on) /\ defect # "overflow") /\ defect = "lost"
  <2>1. obj' = obj /\ Answer(1)
    BY <1>5, Zenon DEF SendItem
  <2>2. Reply(defect, Op, x) = 1 /\ Items(defect, Op, x) = InSlot(x, Op)
    BY <1>2, <1>3, <1>5, Zenon
  <2> QED BY <1>1, <2>1, <2>2, CallLeads
<1>6. CASE ~(Full(Op.on) /\ defect # "overflow") /\ defect # "lost"
  <2>1. obj' = [obj EXCEPT ![Op.on].items = Append(obj[Op.on].items, Op.value)] /\ Answer(1)
    BY <1>6, Zenon DEF SendItem
  <2>2. Reply(defect, Op, x) = 1 /\ Items(defect, Op, x) = Append(obj[Op.on].items, Op.value)
    BY <1>2, <1>3, <1>6, Zenon
  <2>3. obj' = [obj EXCEPT ![Op.on].items = Items(defect, Op, x)] /\ Answer(Reply(defect, Op, x))
    BY <2>1, <2>2, Zenon
  <2>4. obj' = obj => Items(defect, Op, x) = InSlot(x, Op)
    BY <1>3, <2>3, Unmoved
  <2> QED BY <1>1, <2>3, <2>4, CallLeads
<1> QED BY <1>4, <1>5, <1>6, Zenon

LEMMA OverwriteLeads ==
  ASSUME TypeInv, OverwriteItem, NEW x, Matches(x), Op.on \in Has(x),
         NEW y, y = Effect(defect, Op, x)
  PROVE  Led(x, y)
<1>1. Op.do = "over" /\ Op.do \in Asking /\ bits' = bits /\ Answer(1)
  BY DEF OverwriteItem, Asking
<1>2. /\ Reply(defect, Op, x) = 1
      /\ Items(defect, Op, x) = IF defect = "stale" /\ Filled(x, Op) THEN InSlot(x, Op)
                                ELSE <<Op.value>>
  BY <1>1 DEF Reply, Items
<1>3. InSlot(x, Op) = obj[Op.on].items /\ (Filled(x, Op) <=> Full(Op.on))
  BY InPlace
<1>4. Answer(Reply(defect, Op, x))
  BY <1>1, <1>2, Zenon
<1>5. CASE defect = "stale" /\ Full(Op.on)
  <2>1. obj' = obj
    BY <1>5, Zenon DEF OverwriteItem
  <2>2. Items(defect, Op, x) = InSlot(x, Op)
    BY <1>2, <1>3, <1>5, Zenon
  <2> QED BY <1>1, <1>4, <2>1, <2>2, CallLeads
<1>6. CASE ~(defect = "stale" /\ Full(Op.on))
  <2>1. obj' = [obj EXCEPT ![Op.on].items = <<Op.value>>]
    BY <1>6, Zenon DEF OverwriteItem
  <2>2. Items(defect, Op, x) = <<Op.value>>
    BY <1>2, <1>3, <1>6, Zenon
  <2>3. obj' = [obj EXCEPT ![Op.on].items = Items(defect, Op, x)]
    BY <2>1, <2>2, Zenon
  <2>4. obj' = obj => Items(defect, Op, x) = InSlot(x, Op)
    BY <2>3, Unmoved
  <2> QED BY <1>1, <1>4, <2>3, <2>4, CallLeads
<1> QED BY <1>5, <1>6, Zenon

LEMMA ReceiveLeads ==
  ASSUME TypeInv, ReceiveItem, NEW x, Matches(x), Op.on \in Has(x),
         NEW y, y = Effect(defect, Op, x)
  PROVE  Led(x, y)
<1> DEFINE k == IF defect = "lifo" THEN Len(InSlot(x, Op)) ELSE 1
<1>1. Op.do = "recv" /\ Op.do \in Asking /\ bits' = bits
  BY DEF ReceiveItem, Asking
<1>2. /\ Reply(defect, Op, x) = IF InSlot(x, Op) = <<>> THEN 0 ELSE InSlot(x, Op)[k]
      /\ Items(defect, Op, x) = IF InSlot(x, Op) = <<>> \/ defect = "keeps" THEN InSlot(x, Op)
                                ELSE Drop(InSlot(x, Op), k)
  BY <1>1 DEF Reply, Items
<1>3. InSlot(x, Op) = obj[Op.on].items
  BY InPlace
<1>4. CASE obj[Op.on].items = <<>>
  <2>1. obj' = obj /\ Answer(0)
    BY <1>4, Zenon DEF ReceiveItem
  <2>2. Reply(defect, Op, x) = 0 /\ Items(defect, Op, x) = InSlot(x, Op)
    BY <1>2, <1>3, <1>4, Zenon
  <2> QED BY <1>1, <2>1, <2>2, CallLeads
<1>5. CASE obj[Op.on].items # <<>>
  <2>1. /\ obj' = IF defect = "keeps" THEN obj
                  ELSE [obj EXCEPT ![Op.on].items = Drop(obj[Op.on].items, k)]
        /\ Answer(obj[Op.on].items[k])
    BY <1>3, <1>5, Zenon DEF ReceiveItem
  <2>2. Answer(Reply(defect, Op, x))
    BY <1>2, <1>3, <1>5, <2>1, Zenon
  <2>3. CASE defect = "keeps"
    <3>1. obj' = obj /\ Items(defect, Op, x) = InSlot(x, Op)
      BY <1>2, <2>1, <2>3, Zenon
    <3> QED BY <1>1, <2>2, <3>1, CallLeads
  <2>4. CASE defect # "keeps"
    <3>1. Items(defect, Op, x) = Drop(obj[Op.on].items, k)
      BY <1>2, <1>3, <1>5, <2>4, Zenon
    <3>2. obj' = [obj EXCEPT ![Op.on].items = Items(defect, Op, x)]
      BY <2>1, <2>4, <3>1, Zenon
    <3>3. obj' = obj => Items(defect, Op, x) = InSlot(x, Op)
      BY <3>2, Unmoved
    <3> QED BY <1>1, <2>2, <3>2, <3>3, CallLeads
  <2> QED BY <2>3, <2>4
<1> QED BY <1>4, <1>5

LEMMA CountLeads ==
  ASSUME TypeInv, CountItems, NEW x, Matches(x), Op.on \in Has(x),
         NEW y, y = Effect(defect, Op, x)
  PROVE  Led(x, y)
<1>1. Op.do = "count" /\ Op.do \in Asking /\ UNCHANGED <<obj, bits>>
      /\ Answer(Len(obj[Op.on].items))
  BY DEF CountItems, Asking
<1>2. Reply(defect, Op, x) = Len(InSlot(x, Op)) /\ Items(defect, Op, x) = InSlot(x, Op)
  BY <1>1 DEF Reply, Items
<1>3. InSlot(x, Op) = obj[Op.on].items
  BY InPlace
<1>4. Answer(Reply(defect, Op, x))
  BY <1>1, <1>2, <1>3, Zenon
<1> QED BY <1>1, <1>2, <1>4, CallLeads

KernelCalls == Asking \cup {"new", "need", "set", "wait"}

\* The action that takes the call at hand.
LEMMA CallDue ==
  ASSUME Tester, Running
  PROVE  /\ Op.do = "new" => CreateObject
         /\ Op.do = "need" => NeedObjects
         /\ Op.do = "send" => SendItem
         /\ Op.do = "over" => OverwriteItem
         /\ Op.do = "recv" => ReceiveItem
         /\ Op.do = "count" => CountItems
         /\ Op.do = "set" => SetEventBit
         /\ Op.do = "wait" => WaitAllBits
         /\ Op.do = "random" => RandomRound
         /\ Op.do = "block" => AllocateBlock
         /\ Op.do = "release" => ReleaseBlock
         /\ Op.do = "look" => LookAtFree
         /\ Op.do = "force" => ForceFailure
         /\ Op.do = "compare" => CompareFree
         /\ Op.do = "fill" => FillBlock \/ FillSmaller \/ FillEnds
         /\ Op.do = "verify" => VerifyBlocks
         /\ Op.do = "cleanup" => CleanUp
         /\ Op.do \in {"new", "need", "send", "over", "recv", "count", "set", "wait",
                       "random", "block", "release", "look", "force", "compare", "fill",
                       "verify", "cleanup"}
  BY DEF Tester, CreateObject, NeedObjects, SendItem, OverwriteItem, ReceiveItem,
     CountItems, SetEventBit, WaitAllBits, RandomRound, AllocateBlock, ReleaseBlock,
     LookAtFree, ForceFailure, CompareFree, FillBlock, FillSmaller, FillEnds, VerifyBlocks,
     CleanUp, CleanupAfterTests

\* What the call at hand does to objects, bits and verdict is what Effect and Fits say.
LEMMA KernelLeads ==
  ASSUME ObjectInv, Tester, Running, ~refused', NEW x, Matches(x),
         Tries(defect, Script, at, x), NEW y, y = Effect(defect, Op, x)
  PROVE  Led(x, y)
<1>0. TypeInv /\ PlaceInv /\ Op = Script[at]
  BY ScriptNow DEF ObjectInv, PlaceInv
<1>1. CASE Op.do = "new"
  <2>1. CreateObject
    BY <1>1, CallDue
  <2>2. Op.on \in Names
    BY <1>0, <1>1 DEF Tries, Asking
  <2> QED BY <1>0, <2>1, <2>2, NewLeads
<1>2. CASE Op.do = "need"
  <2>1. NeedObjects
    BY <1>2, CallDue
  <2>2. AskedBefore(Script, at) \subseteq {o \in Has(x) : x.obj[o].cap > 0}
    BY <1>0, <1>2 DEF Tries, Asking
  <2>3. AskedBefore(Script, at) \subseteq Created
    BY <2>2 DEF Matches, Created
  <2> QED BY <1>0, <2>1, <2>3, NeedLeads
<1>3. CASE Op.do = "set" \/ Op.do = "wait"
  <2>1. SetEventBit \/ WaitAllBits
    BY <1>3, CallDue
  <2> QED BY <2>1, SetLeads, WaitLeads
<1>4. CASE Op.do \in Asking
  <2>1. SendItem \/ OverwriteItem \/ ReceiveItem \/ CountItems
    BY <1>4, CallDue DEF Asking
  <2>2. Op.on \in Has(x)
    BY <1>0, <1>4 DEF Tries, Asking
  <2> QED BY <1>0, <2>1, <2>2, SendLeads, OverwriteLeads, ReceiveLeads, CountLeads
<1> QED BY <1>0, <1>1, <1>2, <1>3, <1>4 DEF Tries

-----------------------------------------------------------------------------
(* The same, for calls that are known.                                     *)

Puts(x, o, b) == [obj |-> Holding(x, o, b), bits |-> x.bits]

\* What call i of s does in state x, and whether the answer is the expected one.
Call(d, s, i, x, y, fits) ==
  Tries(d, s, i, x) /\ y = Effect(d, s[i], x) /\ (Judges(s[i]) => (Fits(d, s[i], x) <=> fits))

SendAnswer(d, c, t) == IF Len(t) >= c /\ d # "overflow" THEN 0 ELSE 1
Sent(d, c, t, v) == IF (Len(t) >= c /\ d # "overflow") \/ d = "lost" THEN t ELSE Append(t, v)
Oldest(d, t) == IF d = "lifo" THEN Len(t) ELSE 1
TakeAnswer(d, t) == IF t = <<>> THEN 0 ELSE t[Oldest(d, t)]
Left(d, t) == IF t = <<>> \/ d = "keeps" THEN t ELSE Drop(t, Oldest(d, t))

LEMMA SendCall ==
  ASSUME NEW d, NEW s, NEW i, NEW x, NEW o \in Has(x), NEW c, NEW t, x.obj[o] = Box(c, t),
         NEW v, NEW w, s[i] = Send(o, v, w) \/ s[i] = Noted(Send(o, v, w))
  PROVE  Call(d, s, i, x, Puts(x, o, Box(c, Sent(d, c, t, v))), w = ANY \/ w = SendAnswer(d, c, t))
<1> DEFINE op == s[i]
<1>1. op.do = "send" /\ op.on = o /\ op.value = v /\ op.want = w
  BY DEF Send, Noted
<1> HIDE DEF op
<1>2. x.obj[o].cap = c /\ x.obj[o].items = t
  BY DEF Box
<1>3. InSlot(x, op) = t /\ (Filled(x, op) <=> Len(t) >= c)
  BY <1>1, <1>2 DEF InSlot, Filled
<1>4. Items(d, op, x) = Sent(d, c, t, v) /\ Reply(d, op, x) = SendAnswer(d, c, t)
  BY <1>1, <1>3 DEF Items, Reply, Sent, SendAnswer
<1>5. Effect(d, op, x) = Puts(x, o, Box(c, Sent(d, c, t, v)))
  BY <1>1, <1>2, <1>4 DEF Effect, Puts, Asking
<1>6. Fits(d, op, x) <=> w = ANY \/ w = SendAnswer(d, c, t)
  BY <1>1, <1>4 DEF Fits
<1>7. Tries(d, s, i, x)
  BY <1>1 DEF Tries, Asking, op
<1> QED BY <1>5, <1>6, <1>7 DEF Call, op

Overwritten(d, c, t, v) == IF d = "stale" /\ Len(t) >= c THEN t ELSE <<v>>
LEMMA OverwriteCall ==
  ASSUME NEW d, NEW s, NEW i, NEW x, NEW o \in Has(x), NEW c, NEW t, x.obj[o] = Box(c, t),
         NEW v, NEW w, s[i] = Overwrite(o, v, w),
         NEW u, u = Overwritten(d, c, t, v)
  PROVE  Call(d, s, i, x, Puts(x, o, Box(c, u)), w = ANY \/ w = 1)
<1> DEFINE op == s[i]
<1>1. op.do = "over" /\ op.on = o /\ op.value = v /\ op.want = w
  BY DEF Overwrite
<1> HIDE DEF op
<1>2. x.obj[o].cap = c /\ x.obj[o].items = t
  BY DEF Box
<1>3. InSlot(x, op) = t /\ (Filled(x, op) <=> Len(t) >= c)
  BY <1>1, <1>2 DEF InSlot, Filled
<1>4. Items(d, op, x) = u /\ Reply(d, op, x) = 1
  BY <1>1, <1>3 DEF Items, Reply, Overwritten
<1>5. Effect(d, op, x) = Puts(x, o, Box(c, u))
  BY <1>1, <1>2, <1>4 DEF Effect, Puts, Asking
<1>6. Fits(d, op, x) <=> w = ANY \/ w = 1
  BY <1>1, <1>4 DEF Fits
<1>7. Tries(d, s, i, x)
  BY <1>1 DEF Tries, Asking, op
<1> QED BY <1>5, <1>6, <1>7 DEF Call, op

LEMMA ReceiveCall ==
  ASSUME NEW d, NEW s, NEW i, NEW x, NEW o \in Has(x), NEW c, NEW t, x.obj[o] = Box(c, t),
         NEW w, s[i] = Receive(o, w) \/ s[i] = Noted(Receive(o, w))
  PROVE  Call(d, s, i, x, Puts(x, o, Box(c, Left(d, t))), w = ANY \/ w = TakeAnswer(d, t))
<1> DEFINE op == s[i]
<1>1. op.do = "recv" /\ op.on = o /\ op.want = w
  BY DEF Receive, Noted
<1> HIDE DEF op
<1>2. x.obj[o].cap = c /\ x.obj[o].items = t
  BY DEF Box
<1>3. InSlot(x, op) = t
  BY <1>1, <1>2 DEF InSlot
<1>4. Items(d, op, x) = Left(d, t) /\ Reply(d, op, x) = TakeAnswer(d, t)
  BY <1>1, <1>3 DEF Items, Reply, Left, TakeAnswer, Oldest
<1>5. Effect(d, op, x) = Puts(x, o, Box(c, Left(d, t)))
  BY <1>1, <1>2, <1>4 DEF Effect, Puts, Asking
<1>6. Fits(d, op, x) <=> w = ANY \/ w = TakeAnswer(d, t)
  BY <1>1, <1>4 DEF Fits
<1>7. Tries(d, s, i, x)
  BY <1>1 DEF Tries, Asking, op
<1> QED BY <1>5, <1>6, <1>7 DEF Call, op

LEMMA CountCall ==
  ASSUME NEW d, NEW s, NEW i, NEW x, NEW o \in Has(x), NEW c, NEW t, x.obj[o] = Box(c, t),
         NEW w, s[i] = Count(o, w)
  PROVE  Call(d, s, i, x, Puts(x, o, Box(c, t)), w = ANY \/ w = Len(t))
<1> DEFINE op == s[i]
<1>1. op.do = "count" /\ op.on = o /\ op.want = w
  BY DEF Count
<1> HIDE DEF op
<1>2. x.obj[o].cap = c /\ x.obj[o].items = t
  BY DEF Box
<1>3. InSlot(x, op) = t
  BY <1>1, <1>2 DEF InSlot
<1>4. Items(d, op, x) = t /\ Reply(d, op, x) = Len(t)
  BY <1>1, <1>3 DEF Items, Reply
<1>5. Effect(d, op, x) = Puts(x, o, Box(c, t))
  BY <1>1, <1>2, <1>4 DEF Effect, Puts, Asking
<1>6. Fits(d, op, x) <=> w = ANY \/ w = Len(t)
  BY <1>1, <1>4 DEF Fits
<1>7. Tries(d, s, i, x)
  BY <1>1 DEF Tries, Asking, op
<1> QED BY <1>5, <1>6, <1>7 DEF Call, op

LEMMA NewCall ==
  ASSUME NEW d, NEW s, NEW i, NEW x, NEW o \in Names, NEW c, NEW t, s[i] = New(o, c, t)
  PROVE  Call(d, s, i, x, Puts(x, o, Box(c, t)), TRUE)
<1> DEFINE op == s[i]
<1>1. op.do = "new" /\ op.on = o /\ NewBox(op) = Box(c, t)
  BY DEF New, NewBox
<1> HIDE DEF op
<1>2. Effect(d, op, x) = Puts(x, o, Box(c, t)) /\ ~Judges(op)
  BY <1>1 DEF Effect, Puts, Asking, Judges
<1>3. Tries(d, s, i, x)
  BY <1>1 DEF Tries, Asking, op
<1> QED BY <1>2, <1>3 DEF Call, op

LEMMA NeedCall ==
  ASSUME NEW d, NEW s, NEW i, NEW x, s[i] = Need,
         AskedBefore(s, i) \subseteq {o \in Has(x) : x.obj[o].cap > 0}
  PROVE  Call(d, s, i, x, x, TRUE)
<1>1. s[i].do = "need"
  BY DEF Need
<1> QED BY <1>1 DEF Call, Effect, Judges, Tries, Asking

LEMMA SetCall ==
  ASSUME NEW d, NEW s, NEW i, NEW b, s[i] = SetBit(b), NEW c, NEW t, NEW f
  PROVE  Call(d, s, i, Flags(c, t, f), Flags(c, t, f \cup {b}), TRUE)
<1>1. s[i].do = "set" /\ s[i].bit = b
  BY DEF SetBit
<1>2. Effect(d, s[i], Flags(c, t, f)) = Flags(c, t, f \cup {b}) /\ ~Judges(s[i])
  BY <1>1 DEF Effect, Flags, Asking, Judges
<1> QED BY <1>1, <1>2 DEF Call, Tries

LEMMA WaitCall ==
  ASSUME NEW d, NEW s, NEW i, NEW w, s[i] = WaitAll(w), NEW x
  PROVE  Call(d, s, i, x, x,
              w = ANY \/ w = IF {1, 2} \subseteq x.bits \/ (d = "any" /\ x.bits # {})
                             THEN 1 ELSE 0)
<1>1. s[i].do = "wait" /\ s[i].want = w
  BY DEF WaitAll
<1>2. Effect(d, s[i], x) = x
  BY <1>1 DEF Effect, Asking
<1>3. Reply(d, s[i], x) = IF {1, 2} \subseteq x.bits \/ (d = "any" /\ x.bits # {})
                          THEN 1 ELSE 0
  BY <1>1 DEF Reply
<1> QED BY <1>1, <1>2, <1>3 DEF Call, Tries, Fits

\* The states the scripts pass.
LEMMA FirstBox == \A c, t : Puts(Nothing, "a", Box(c, t)) = One(c, t)
<1> SUFFICES ASSUME NEW c, NEW t PROVE Puts(Nothing, "a", Box(c, t)) = One(c, t)
  OBVIOUS
<1>1. PICK b : b = Box(c, t)
  OBVIOUS
<1>2. Holding(Nothing, "a", b) = [o \in {"a"} |-> b]
  BY DEF Holding, Nothing, Has
<1> QED BY <1>1, <1>2 DEF Puts, One, Nothing

LEMMA OneBox ==
  ASSUME NEW c, NEW t
  PROVE  /\ "a" \in Has(One(c, t)) /\ One(c, t).obj["a"] = Box(c, t) /\ One(c, t).bits = {}
         /\ \A u : Puts(One(c, t), "a", Box(c, u)) = One(c, u)
         /\ \A k, u : Puts(One(c, t), "b", Box(k, u)) = Two(c, t, k, u)
         /\ Flags(c, t, {}) = One(c, t)
         /\ c > 0 => "a" \in {o \in Has(One(c, t)) : One(c, t).obj[o].cap > 0}
<1>1. "a" \in Has(One(c, t)) /\ One(c, t).obj["a"] = Box(c, t) /\ One(c, t).bits = {}
  BY DEF Has, One
<1>2. ASSUME NEW u PROVE Puts(One(c, t), "a", Box(c, u)) = One(c, u)
  <2>1. PICK b : b = Box(c, u)
    OBVIOUS
  <2>2. Holding(One(c, t), "a", b) = [o \in {"a"} |-> b]
    BY DEF Holding, One, Has
  <2> QED BY <2>1, <2>2 DEF Puts, One
<1>3. ASSUME NEW k, NEW u PROVE Puts(One(c, t), "b", Box(k, u)) = Two(c, t, k, u)
  <2>1. PICK b : b = Box(k, u)
    OBVIOUS
  <2>2. PICK e : e = Box(c, t)
    OBVIOUS
  <2>3. Holding(One(c, t), "b", b) = [o \in {"a", "b"} |-> IF o = "a" THEN e ELSE b]
    BY <2>2 DEF Holding, One, Has
  <2> QED BY <2>1, <2>2, <2>3 DEF Puts, One, Two
<1>4. Flags(c, t, {}) = One(c, t)
  BY DEF Flags, One
<1> QED BY <1>1, <1>2, <1>3, <1>4 DEF Box

LEMMA TwoBoxes ==
  ASSUME NEW c, NEW t, NEW k, NEW u
  PROVE  /\ {"a", "b"} \subseteq Has(Two(c, t, k, u))
         /\ Two(c, t, k, u).obj["a"] = Box(c, t) /\ Two(c, t, k, u).obj["b"] = Box(k, u)
         /\ \A r : Puts(Two(c, t, k, u), "a", Box(c, r)) = Two(c, r, k, u)
         /\ \A r : Puts(Two(c, t, k, u), "b", Box(k, r)) = Two(c, t, k, r)
         /\ c > 0 /\ k > 0 =>
              {"a", "b"} \subseteq {o \in Has(Two(c, t, k, u)) : Two(c, t, k, u).obj[o].cap > 0}
<1> DEFINE x == Two(c, t, k, u)
<1>1. Has(x) = {"a", "b"} /\ x.obj["a"] = Box(c, t) /\ x.obj["b"] = Box(k, u) /\ x.bits = {}
  BY DEF Has, Two
<1> HIDE DEF x
<1>2. ASSUME NEW r PROVE Puts(x, "a", Box(c, r)) = Two(c, r, k, u)
  <2>1. PICK b : b = Box(c, r)
    OBVIOUS
  <2>2. PICK e : e = Box(k, u)
    OBVIOUS
  <2>3. Holding(x, "a", b) = [o \in {"a", "b"} |-> IF o = "a" THEN b ELSE e]
    BY <1>1, <2>2 DEF Holding
  <2> QED BY <1>1, <2>1, <2>2, <2>3 DEF Puts, Two
<1>3. ASSUME NEW r PROVE Puts(x, "b", Box(k, r)) = Two(c, t, k, r)
  <2>1. PICK b : b = Box(k, r)
    OBVIOUS
  <2>2. PICK e : e = Box(c, t)
    OBVIOUS
  <2>3. Holding(x, "b", b) = [o \in {"a", "b"} |-> IF o = "a" THEN e ELSE b]
    BY <1>1, <2>2 DEF Holding
  <2> QED BY <1>1, <2>1, <2>2, <2>3 DEF Puts, Two
<1>4. c > 0 /\ k > 0 => {"a", "b"} \subseteq {o \in Has(x) : x.obj[o].cap > 0}
  BY <1>1 DEF Box
<1> QED BY <1>1, <1>2, <1>3, <1>4 DEF x

LEMMA FlagBox ==
  ASSUME NEW c, NEW t, NEW f
  PROVE  Flags(c, t, f).bits = f
  BY DEF Flags

LEMMA CallGoes ==
  ASSUME NEW d, NEW s, NEW i, NEW x, NEW y, NEW fits
  PROVE  /\ Call(d, s, i, x, y, fits) /\ fits => Goes(d, s, i, x, y)
         /\ Call(d, s, i, x, y, fits) /\ ~fits /\ Judges(s[i]) => Balks(d, s, i, x)
  BY DEF Call, Goes, Balks

LEMMA SendGoes ==
  ASSUME NEW d, NEW s, NEW i, NEW x, NEW o \in Has(x), NEW c, NEW t, x.obj[o] = Box(c, t),
         NEW v, NEW w, s[i] = Send(o, v, w) \/ s[i] = Noted(Send(o, v, w)),
         w = ANY \/ w = SendAnswer(d, c, t)
  PROVE  Goes(d, s, i, x, Puts(x, o, Box(c, Sent(d, c, t, v))))
  BY SendCall, CallGoes

LEMMA ReceiveGoes ==
  ASSUME NEW d, NEW s, NEW i, NEW x, NEW o \in Has(x), NEW c, NEW t, x.obj[o] = Box(c, t),
         NEW w, s[i] = Receive(o, w) \/ s[i] = Noted(Receive(o, w)),
         w = ANY \/ w = TakeAnswer(d, t)
  PROVE  Goes(d, s, i, x, Puts(x, o, Box(c, Left(d, t))))
  BY ReceiveCall, CallGoes

LEMMA SendBalks ==
  ASSUME NEW d, NEW s, NEW i, NEW x, NEW o \in Has(x), NEW c, NEW t, x.obj[o] = Box(c, t),
         NEW v, NEW w, s[i] = Send(o, v, w) \/ s[i] = Noted(Send(o, v, w)),
         w # ANY, w # SendAnswer(d, c, t)
  PROVE  Balks(d, s, i, x)
<1>1. Call(d, s, i, x, Puts(x, o, Box(c, Sent(d, c, t, v))), w = ANY \/ w = SendAnswer(d, c, t))
  BY SendCall
<1>2. Judges(s[i])
  BY DEF Send, Noted, Judges, Asking
<1> QED BY <1>1, <1>2, CallGoes

LEMMA ReceiveBalks ==
  ASSUME NEW d, NEW s, NEW i, NEW x, NEW o \in Has(x), NEW c, NEW t, x.obj[o] = Box(c, t),
         NEW w, s[i] = Receive(o, w) \/ s[i] = Noted(Receive(o, w)),
         w # ANY, w # TakeAnswer(d, t)
  PROVE  Balks(d, s, i, x)
<1>1. Call(d, s, i, x, Puts(x, o, Box(c, Left(d, t))), w = ANY \/ w = TakeAnswer(d, t))
  BY ReceiveCall
<1>2. Judges(s[i])
  BY DEF Receive, Noted, Judges, Asking
<1> QED BY <1>1, <1>2, CallGoes

\* One object.
LEMMA OneNew ==
  ASSUME NEW d, NEW s, NEW c, NEW t, s[1] = New("a", c, t)
  PROVE  Goes(d, s, 1, Nothing, One(c, t))
<1>1. Call(d, s, 1, Nothing, Puts(Nothing, "a", Box(c, t)), TRUE)
  BY NewCall DEF Names
<1> QED BY <1>1, FirstBox, CallGoes, Zenon

LEMMA OneNeed ==
  ASSUME NEW d, NEW s, NEW c, NEW t, s[1] = New("a", c, t), s[2] = Need, c > 0
  PROVE  Goes(d, s, 2, One(c, t), One(c, t))
<1>1. AskedBefore(s, 2) \subseteq {"a"}
  BY DEF AskedBefore, New
<1>2. AskedBefore(s, 2) \subseteq {o \in Has(One(c, t)) : One(c, t).obj[o].cap > 0}
  BY <1>1, OneBox
<1>3. Call(d, s, 2, One(c, t), One(c, t), TRUE)
  BY <1>2, NeedCall
<1> QED BY <1>3, CallGoes

LEMMA OneSend ==
  ASSUME NEW d, NEW s, NEW i, NEW c, NEW t, NEW v, NEW w,
         s[i] = Send("a", v, w) \/ s[i] = Noted(Send("a", v, w))
  PROVE  /\ w = ANY \/ w = SendAnswer(d, c, t) =>
              Goes(d, s, i, One(c, t), One(c, Sent(d, c, t, v)))
         /\ w # ANY /\ w # SendAnswer(d, c, t) => Balks(d, s, i, One(c, t))
<1>1. PICK x : x = One(c, t)
  OBVIOUS
<1>2. /\ "a" \in Has(x) /\ x.obj["a"] = Box(c, t)
      /\ \A u : Puts(x, "a", Box(c, u)) = One(c, u)
  BY <1>1, OneBox
<1>3. ASSUME w = ANY \/ w = SendAnswer(d, c, t)
      PROVE  Goes(d, s, i, x, Puts(x, "a", Box(c, Sent(d, c, t, v))))
  BY <1>2, <1>3, SendGoes
<1>4. ASSUME w # ANY, w # SendAnswer(d, c, t) PROVE Balks(d, s, i, x)
  BY <1>2, <1>4, SendBalks
<1> QED BY <1>1, <1>2, <1>3, <1>4, Zenon

LEMMA OneReceive ==
  ASSUME NEW d, NEW s, NEW i, NEW c, NEW t, NEW w,
         s[i] = Receive("a", w) \/ s[i] = Noted(Receive("a", w))
  PROVE  /\ w = ANY \/ w = TakeAnswer(d, t) => Goes(d, s, i, One(c, t), One(c, Left(d, t)))
         /\ w # ANY /\ w # TakeAnswer(d, t) => Balks(d, s, i, One(c, t))
<1>1. PICK x : x = One(c, t)
  OBVIOUS
<1>2. /\ "a" \in Has(x) /\ x.obj["a"] = Box(c, t)
      /\ \A u : Puts(x, "a", Box(c, u)) = One(c, u)
  BY <1>1, OneBox
<1>3. ASSUME w = ANY \/ w = TakeAnswer(d, t)
      PROVE  Goes(d, s, i, x, Puts(x, "a", Box(c, Left(d, t))))
  BY <1>2, <1>3, ReceiveGoes, Zenon
<1>4. ASSUME w # ANY, w # TakeAnswer(d, t) PROVE Balks(d, s, i, x)
  BY <1>2, <1>4, ReceiveBalks
<1> QED BY <1>1, <1>2, <1>3, <1>4, Zenon

LEMMA OneOverwrite ==
  ASSUME NEW d, NEW s, NEW i, NEW c, NEW t, NEW v, s[i] = Overwrite("a", v, 1)
  PROVE  Goes(d, s, i, One(c, t), One(c, Overwritten(d, c, t, v)))
<1>1. PICK x : x = One(c, t)
  OBVIOUS
<1>2. PICK u : u = Overwritten(d, c, t, v)
  OBVIOUS
<1>3. /\ "a" \in Has(x) /\ x.obj["a"] = Box(c, t) /\ Puts(x, "a", Box(c, u)) = One(c, u)
  BY <1>1, OneBox
<1>4. Call(d, s, i, x, Puts(x, "a", Box(c, u)), 1 = ANY \/ 1 = 1)
  BY <1>2, <1>3, OverwriteCall
<1> QED BY <1>1, <1>2, <1>3, <1>4, CallGoes, Zenon

\* An event group.
LEMMA FlagSet ==
  ASSUME NEW d, NEW s, NEW i, NEW b, s[i] = SetBit(b), NEW c, NEW t, NEW f
  PROVE  Goes(d, s, i, Flags(c, t, f), Flags(c, t, f \cup {b}))
  BY SetCall, CallGoes

FlagAnswer(d, f) == IF {1, 2} \subseteq f \/ (d = "any" /\ f # {}) THEN 1 ELSE 0
LEMMA FlagWait ==
  ASSUME NEW d, NEW s, NEW i, NEW w, s[i] = WaitAll(w), NEW c, NEW t, NEW f
  PROVE  /\ w = ANY \/ w = FlagAnswer(d, f) => Goes(d, s, i, Flags(c, t, f), Flags(c, t, f))
         /\ w # ANY /\ w # FlagAnswer(d, f) => Balks(d, s, i, Flags(c, t, f))
<1>1. PICK x : x = Flags(c, t, f)
  OBVIOUS
<1>2. x.bits = f
  BY <1>1, FlagBox
<1>3. Call(d, s, i, x, x,
           w = ANY \/ w = IF {1, 2} \subseteq x.bits \/ (d = "any" /\ x.bits # {})
                          THEN 1 ELSE 0)
  BY WaitCall
<1>4. Call(d, s, i, x, x, w = ANY \/ w = FlagAnswer(d, f))
  BY <1>2, <1>3, Zenon DEF FlagAnswer
<1>5. Judges(s[i])
  BY DEF WaitAll, Judges
<1> QED BY <1>1, <1>4, <1>5, CallGoes

\* Two objects.
LEMMA TwoNew ==
  ASSUME NEW d, NEW s, NEW c, NEW t, NEW k, NEW u, s[2] = New("b", k, u)
  PROVE  Goes(d, s, 2, One(c, t), Two(c, t, k, u))
<1>1. Call(d, s, 2, One(c, t), Puts(One(c, t), "b", Box(k, u)), TRUE)
  BY NewCall DEF Names
<1>2. Puts(One(c, t), "b", Box(k, u)) = Two(c, t, k, u)
  BY OneBox
<1> QED BY <1>1, <1>2, CallGoes, Zenon

LEMMA TwoNeed ==
  ASSUME NEW d, NEW s, NEW c, NEW t, NEW k, NEW u, s[1] = New("a", c, t),
         s[2] = New("b", k, u), s[3] = Need, c > 0, k > 0
  PROVE  Goes(d, s, 3, Two(c, t, k, u), Two(c, t, k, u))
<1>1. AskedBefore(s, 3) \subseteq {"a", "b"}
  BY DEF AskedBefore, New
<1>2. PICK x : x = Two(c, t, k, u)
  OBVIOUS
<1>3. AskedBefore(s, 3) \subseteq {o \in Has(x) : x.obj[o].cap > 0}
  <2>1. {"a", "b"} \subseteq {o \in Has(x) : x.obj[o].cap > 0}
    BY <1>2, TwoBoxes
  <2> QED BY <1>1, <2>1, Zenon
<1>4. Call(d, s, 3, x, x, TRUE)
  BY <1>3, NeedCall
<1> QED BY <1>2, <1>4, CallGoes

LEMMA TwoSend ==
  ASSUME NEW d, NEW s, NEW i, NEW c, NEW t, NEW k, NEW u, NEW v, NEW w
  PROVE  /\ s[i] = Send("a", v, w) /\ (w = ANY \/ w = SendAnswer(d, c, t)) =>
              Goes(d, s, i, Two(c, t, k, u), Two(c, Sent(d, c, t, v), k, u))
         /\ s[i] = Send("b", v, w) /\ (w = ANY \/ w = SendAnswer(d, k, u)) =>
              Goes(d, s, i, Two(c, t, k, u), Two(c, t, k, Sent(d, k, u, v)))
<1>1. PICK x : x = Two(c, t, k, u)
  OBVIOUS
<1>2. /\ {"a", "b"} \subseteq Has(x) /\ x.obj["a"] = Box(c, t) /\ x.obj["b"] = Box(k, u)
      /\ \A r : Puts(x, "a", Box(c, r)) = Two(c, r, k, u)
      /\ \A r : Puts(x, "b", Box(k, r)) = Two(c, t, k, r)
  BY <1>1, TwoBoxes
<1>3. ASSUME s[i] = Send("a", v, w), w = ANY \/ w = SendAnswer(d, c, t)
      PROVE  Goes(d, s, i, x, Puts(x, "a", Box(c, Sent(d, c, t, v))))
  BY <1>2, <1>3, SendGoes
<1>4. ASSUME s[i] = Send("b", v, w), w = ANY \/ w = SendAnswer(d, k, u)
      PROVE  Goes(d, s, i, x, Puts(x, "b", Box(k, Sent(d, k, u, v))))
  BY <1>2, <1>4, SendGoes
<1> QED BY <1>1, <1>2, <1>3, <1>4, Zenon

LEMMA TwoReceive ==
  ASSUME NEW d, NEW s, NEW i, NEW c, NEW t, NEW k, NEW u, NEW w
  PROVE  /\ s[i] = Receive("a", w) =>
              /\ w = ANY \/ w = TakeAnswer(d, t) =>
                   Goes(d, s, i, Two(c, t, k, u), Two(c, Left(d, t), k, u))
              /\ w # ANY /\ w # TakeAnswer(d, t) => Balks(d, s, i, Two(c, t, k, u))
         /\ s[i] = Receive("b", w) /\ (w = ANY \/ w = TakeAnswer(d, u)) =>
              Goes(d, s, i, Two(c, t, k, u), Two(c, t, k, Left(d, u)))
<1>1. PICK x : x = Two(c, t, k, u)
  OBVIOUS
<1>2. /\ {"a", "b"} \subseteq Has(x) /\ x.obj["a"] = Box(c, t) /\ x.obj["b"] = Box(k, u)
      /\ \A r : Puts(x, "a", Box(c, r)) = Two(c, r, k, u)
      /\ \A r : Puts(x, "b", Box(k, r)) = Two(c, t, k, r)
  BY <1>1, TwoBoxes
<1>3. ASSUME s[i] = Receive("a", w)
      PROVE  /\ w = ANY \/ w = TakeAnswer(d, t) =>
                  Goes(d, s, i, x, Puts(x, "a", Box(c, Left(d, t))))
             /\ w # ANY /\ w # TakeAnswer(d, t) => Balks(d, s, i, x)
  <2>1. ASSUME w = ANY \/ w = TakeAnswer(d, t)
        PROVE  Goes(d, s, i, x, Puts(x, "a", Box(c, Left(d, t))))
    BY <1>2, <1>3, <2>1, ReceiveGoes, Zenon
  <2>2. ASSUME w # ANY, w # TakeAnswer(d, t) PROVE Balks(d, s, i, x)
    BY <1>2, <1>3, <2>2, ReceiveBalks
  <2> QED BY <2>1, <2>2
<1>4. ASSUME s[i] = Receive("b", w), w = ANY \/ w = TakeAnswer(d, u)
      PROVE  Goes(d, s, i, x, Puts(x, "b", Box(k, Left(d, u))))
  BY <1>2, <1>4, ReceiveGoes
<1> QED BY <1>1, <1>2, <1>3, <1>4, Zenon

LEMMA TwoCount ==
  ASSUME NEW d, NEW s, NEW i, NEW c, NEW t, NEW k, NEW u, NEW w,
         s[i] = Count("b", w), w = Len(u)
  PROVE  Goes(d, s, i, Two(c, t, k, u), Two(c, t, k, u))
<1>1. PICK x : x = Two(c, t, k, u)
  OBVIOUS
<1>2. "b" \in Has(x) /\ x.obj["b"] = Box(k, u) /\ Puts(x, "b", Box(k, u)) = Two(c, t, k, u)
  BY <1>1, TwoBoxes
<1>3. Call(d, s, i, x, Puts(x, "b", Box(k, u)), w = ANY \/ w = Len(u))
  BY <1>2, CountCall
<1> QED BY <1>1, <1>2, <1>3, CallGoes, Zenon
LEMMA DropFirst ==
  ASSUME NEW S, NEW s \in Seq(S), Len(s) # 0
  PROVE  Drop(s, 1) = Tail(s)
<1> DEFINE t == Drop(s, 1)
<1>1. t \in Seq(S) /\ Skips(s, 1, t)
  BY WithoutOne DEF Drop
<1> HIDE DEF t
<1>2. Len(t) = Len(s) - 1 /\ \A k \in 1..(Len(s) - 1) : t[k] = s[k + 1]
  <2>1. ASSUME NEW k \in 1..(Len(s) - 1) PROVE t[k] = s[k + 1]
    <3>1. t[(1 - 1) + k] = s[1 + k] /\ (1 - 1) + k = k /\ 1 + k = k + 1
      BY <1>1 DEF Skips
    <3> QED BY <3>1
  <2> QED BY <1>1, <2>1 DEF Skips
<1>3. PICK r : r = Tail(s)
  OBVIOUS
<1>4. r \in Seq(S) /\ Len(r) = Len(s) - 1 /\ \A k \in 1..(Len(s) - 1) : r[k] = s[k + 1]
  BY <1>3
<1>5. t = r
  <2>1. Len(s) - 1 \in Nat
    OBVIOUS
  <2>2. t = [k \in 1..(Len(s) - 1) |-> t[k]] /\ r = [k \in 1..(Len(s) - 1) |-> r[k]]
    BY <1>1, <1>2, <1>4
  <2>3. \A k \in 1..(Len(s) - 1) : t[k] = r[k]
    BY <1>2, <1>4
  <2>4. [k \in 1..(Len(s) - 1) |-> t[k]] = [k \in 1..(Len(s) - 1) |-> r[k]]
    BY <2>3, Zenon
  <2> QED BY <2>2, <2>4, Zenon
<1> QED BY <1>3, <1>5 DEF t

LEMMA Dropped ==
  ASSUME NEW e, NEW f, NEW g
  PROVE  Drop(<<e>>, 1) = <<>> /\ Drop(<<e, f>>, 1) = <<f>> /\ Drop(<<e, f, g>>, 1) = <<f, g>>
<1>1. ASSUME NEW s \in Seq({e, f, g}), Len(s) # 0 PROVE Drop(s, 1) = Tail(s)
  BY <1>1, DropFirst
<1>2. <<e>> \in Seq({e, f, g}) /\ Len(<<e>>) = 1 /\ Tail(<<e>>) = <<>>
  OBVIOUS
<1>3. <<e, f>> \in Seq({e, f, g}) /\ Len(<<e, f>>) = 2 /\ Tail(<<e, f>>) = <<f>>
  OBVIOUS
<1>4. <<e, f, g>> \in Seq({e, f, g}) /\ Len(<<e, f, g>>) = 3 /\ Tail(<<e, f, g>>) = <<f, g>>
  OBVIOUS
<1>5. PICK u : u = <<e>>
  OBVIOUS
<1>6. PICK v : v = <<e, f>>
  OBVIOUS
<1>7. PICK w : w = <<e, f, g>>
  OBVIOUS
<1>8. Drop(u, 1) = Tail(u) /\ Drop(v, 1) = Tail(v) /\ Drop(w, 1) = Tail(w)
  <2>1. u \in Seq({e, f, g}) /\ Len(u) # 0
    BY <1>2, <1>5
  <2>2. v \in Seq({e, f, g}) /\ Len(v) # 0
    BY <1>3, <1>6
  <2>3. w \in Seq({e, f, g}) /\ Len(w) # 0
    BY <1>4, <1>7
  <2> QED BY <1>1, <2>1, <2>2, <2>3
<1> QED BY <1>2, <1>3, <1>4, <1>5, <1>6, <1>7, <1>8, Zenon

-----------------------------------------------------------------------------
(* The scripts, call by call.                                              *)

LEMMA LastingCalls ==
  ASSUME NEW calls, Finite(calls), NEW names
  PROVE  /\ Len(Lasting(calls, names)) = Len(calls) + 1
         /\ \A k \in 1..Len(calls) : Lasting(calls, names)[k] = calls[k]
         /\ Lasting(calls, names)[Len(calls) + 1] = Cleanup(names)
<1>1. PICK c : c = Cleanup(names)
  OBVIOUS
<1>2. /\ Len(calls \o <<c>>) = Len(calls) + 1
      /\ \A k \in 1..Len(calls) : (calls \o <<c>>)[k] = calls[k]
      /\ (calls \o <<c>>)[Len(calls) + 1] = c
  BY OneMoreCall
<1> QED BY <1>1, <1>2, Zenon DEF Lasting

LEMMA IsrToTaskCalls ==
  /\ Len(IsrToTask) = 8
  /\ IsrToTask[1] = New("a", 1, <<>>)
  /\ IsrToTask[2] = New("b", 4, <<>>)
  /\ IsrToTask[3] = Need
  /\ IsrToTask[4] = Send("a", 1, 1)
  /\ IsrToTask[5] = Send("b", 7, 1)
  /\ IsrToTask[6] = Receive("a", 1)
  /\ IsrToTask[7] = Receive("b", 7)
  /\ IsrToTask[8] = Cleanup({"a", "b"})
<1> DEFINE calls ==
      <<New("a", 1, <<>>), New("b", 4, <<>>), Need, Send("a", 1, 1), Send("b", 7, 1),
        Receive("a", 1), Receive("b", 7)>>
<1>1. Finite(calls) /\ Len(calls) = 7
  BY DEF Finite
<1>2. /\ calls[1] = New("a", 1, <<>>)
      /\ calls[2] = New("b", 4, <<>>)
      /\ calls[3] = Need
      /\ calls[4] = Send("a", 1, 1)
      /\ calls[5] = Send("b", 7, 1)
      /\ calls[6] = Receive("a", 1)
      /\ calls[7] = Receive("b", 7)
  OBVIOUS
<1>3. IsrToTask = Lasting(calls, {"a", "b"})
  BY Zenon DEF IsrToTask, GiveAs, calls
<1> HIDE DEF calls
<1>4. PICK names : names = {"a", "b"}
  OBVIOUS
<1>5. /\ Len(Lasting(calls, names)) = Len(calls) + 1
      /\ \A k \in 1..Len(calls) : Lasting(calls, names)[k] = calls[k]
      /\ Lasting(calls, names)[Len(calls) + 1] = Cleanup(names)
  BY <1>1, LastingCalls
<1>6. IsrToTask = Lasting(calls, names) /\ Len(calls) = 7
  BY <1>1, <1>3, <1>4, Zenon
<1>7. Len(IsrToTask) = 8 /\ IsrToTask[8] = Cleanup(names) /\ \A k \in 1..7 : IsrToTask[k] = calls[k]
  BY <1>5, <1>6
<1> QED BY <1>2, <1>4, <1>7

LEMMA MutexCalls ==
  /\ Len(Mutex) = 5
  /\ Mutex[1] = New("a", 1, <<1>>)
  /\ Mutex[2] = Need
  /\ Mutex[3] = Receive("a", 1)
  /\ Mutex[4] = Send("a", 1, 1)
  /\ Mutex[5] = Cleanup({"a"})
<1> DEFINE calls ==
      <<New("a", 1, <<1>>), Need, Receive("a", 1), Send("a", 1, 1)>>
<1>1. Finite(calls) /\ Len(calls) = 4
  BY DEF Finite
<1>2. /\ calls[1] = New("a", 1, <<1>>)
      /\ calls[2] = Need
      /\ calls[3] = Receive("a", 1)
      /\ calls[4] = Send("a", 1, 1)
  OBVIOUS
<1>3. Mutex = Lasting(calls, {"a"})
  BY Zenon DEF Mutex, GiveAs, calls
<1> HIDE DEF calls
<1>4. PICK names : names = {"a"}
  OBVIOUS
<1>5. /\ Len(Lasting(calls, names)) = Len(calls) + 1
      /\ \A k \in 1..Len(calls) : Lasting(calls, names)[k] = calls[k]
      /\ Lasting(calls, names)[Len(calls) + 1] = Cleanup(names)
  BY <1>1, LastingCalls
<1>6. Mutex = Lasting(calls, names) /\ Len(calls) = 4
  BY <1>1, <1>3, <1>4, Zenon
<1>7. Len(Mutex) = 5 /\ Mutex[5] = Cleanup(names) /\ \A k \in 1..4 : Mutex[k] = calls[k]
  BY <1>5, <1>6
<1> QED BY <1>2, <1>4, <1>7

LEMMA SemaphoreCalls ==
  /\ Len(Semaphore) = 12
  /\ Semaphore[1] = New("a", 1, <<>>)
  /\ Semaphore[2] = New("b", 3, <<>>)
  /\ Semaphore[3] = Need
  /\ Semaphore[4] = Send("a", 1, ANY)
  /\ Semaphore[5] = Receive("a", 1)
  /\ Semaphore[6] = Send("b", 1, ANY)
  /\ Semaphore[7] = Send("b", 1, ANY)
  /\ Semaphore[8] = Send("b", 1, ANY)
  /\ Semaphore[9] = Count("b", 3)
  /\ Semaphore[10] = Send("b", 1, 0)
  /\ Semaphore[11] = Count("b", 3)
  /\ Semaphore[12] = Cleanup({"a", "b"})
<1> DEFINE calls ==
      <<New("a", 1, <<>>), New("b", 3, <<>>), Need, Send("a", 1, ANY), Receive("a", 1),
        Send("b", 1, ANY), Send("b", 1, ANY), Send("b", 1, ANY), Count("b", 3),
        Send("b", 1, 0), Count("b", 3)>>
<1>1. Finite(calls) /\ Len(calls) = 11
  BY DEF Finite
<1>2. /\ calls[1] = New("a", 1, <<>>)
      /\ calls[2] = New("b", 3, <<>>)
      /\ calls[3] = Need
      /\ calls[4] = Send("a", 1, ANY)
      /\ calls[5] = Receive("a", 1)
      /\ calls[6] = Send("b", 1, ANY)
      /\ calls[7] = Send("b", 1, ANY)
      /\ calls[8] = Send("b", 1, ANY)
      /\ calls[9] = Count("b", 3)
      /\ calls[10] = Send("b", 1, 0)
      /\ calls[11] = Count("b", 3)
  OBVIOUS
<1>3. Semaphore = Lasting(calls, {"a", "b"})
  BY Zenon DEF Semaphore, GiveAs, calls
<1> HIDE DEF calls
<1>4. PICK names : names = {"a", "b"}
  OBVIOUS
<1>5. /\ Len(Lasting(calls, names)) = Len(calls) + 1
      /\ \A k \in 1..Len(calls) : Lasting(calls, names)[k] = calls[k]
      /\ Lasting(calls, names)[Len(calls) + 1] = Cleanup(names)
  BY <1>1, LastingCalls
<1>6. Semaphore = Lasting(calls, names) /\ Len(calls) = 11
  BY <1>1, <1>3, <1>4, Zenon
<1>7. Len(Semaphore) = 12 /\ Semaphore[12] = Cleanup(names) /\ \A k \in 1..11 : Semaphore[k] = calls[k]
  BY <1>5, <1>6
<1> QED BY <1>2, <1>4, <1>7

LEMMA EventFlagsCalls ==
  /\ Len(EventFlags) = 7
  /\ EventFlags[1] = New("a", 1, <<>>)
  /\ EventFlags[2] = Need
  /\ EventFlags[3] = SetBit(1)
  /\ EventFlags[4] = WaitAll(0)
  /\ EventFlags[5] = SetBit(2)
  /\ EventFlags[6] = WaitAll(1)
  /\ EventFlags[7] = Cleanup({"a"})
<1> DEFINE calls ==
      <<New("a", 1, <<>>), Need, SetBit(1), WaitAll(0), SetBit(2), WaitAll(1)>>
<1>1. Finite(calls) /\ Len(calls) = 6
  BY DEF Finite
<1>2. /\ calls[1] = New("a", 1, <<>>)
      /\ calls[2] = Need
      /\ calls[3] = SetBit(1)
      /\ calls[4] = WaitAll(0)
      /\ calls[5] = SetBit(2)
      /\ calls[6] = WaitAll(1)
  OBVIOUS
<1>3. EventFlags = Lasting(calls, {"a"})
  BY Zenon DEF EventFlags, GiveAs, calls
<1> HIDE DEF calls
<1>4. PICK names : names = {"a"}
  OBVIOUS
<1>5. /\ Len(Lasting(calls, names)) = Len(calls) + 1
      /\ \A k \in 1..Len(calls) : Lasting(calls, names)[k] = calls[k]
      /\ Lasting(calls, names)[Len(calls) + 1] = Cleanup(names)
  BY <1>1, LastingCalls
<1>6. EventFlags = Lasting(calls, names) /\ Len(calls) = 6
  BY <1>1, <1>3, <1>4, Zenon
<1>7. Len(EventFlags) = 7 /\ EventFlags[7] = Cleanup(names) /\ \A k \in 1..6 : EventFlags[k] = calls[k]
  BY <1>5, <1>6
<1> QED BY <1>2, <1>4, <1>7

LEMMA MailboxCalls ==
  /\ Len(Mailbox) = 7
  /\ Mailbox[1] = New("a", 1, <<>>)
  /\ Mailbox[2] = Need
  /\ Mailbox[3] = Overwrite("a", 1, 1)
  /\ Mailbox[4] = Overwrite("a", 2, 1)
  /\ Mailbox[5] = Noted(Receive("a", 2))
  /\ Mailbox[6] = Noted(Receive("a", 0))
  /\ Mailbox[7] = Cleanup({"a"})
<1> DEFINE calls ==
      <<New("a", 1, <<>>), Need, Overwrite("a", 1, 1), Overwrite("a", 2, 1),
        Noted(Receive("a", 2)), Noted(Receive("a", 0))>>
<1>1. Finite(calls) /\ Len(calls) = 6
  BY DEF Finite
<1>2. /\ calls[1] = New("a", 1, <<>>)
      /\ calls[2] = Need
      /\ calls[3] = Overwrite("a", 1, 1)
      /\ calls[4] = Overwrite("a", 2, 1)
      /\ calls[5] = Noted(Receive("a", 2))
      /\ calls[6] = Noted(Receive("a", 0))
  OBVIOUS
<1>3. Mailbox = Lasting(calls, {"a"})
  BY Zenon DEF Mailbox, GiveAs, calls
<1> HIDE DEF calls
<1>4. PICK names : names = {"a"}
  OBVIOUS
<1>5. /\ Len(Lasting(calls, names)) = Len(calls) + 1
      /\ \A k \in 1..Len(calls) : Lasting(calls, names)[k] = calls[k]
      /\ Lasting(calls, names)[Len(calls) + 1] = Cleanup(names)
  BY <1>1, LastingCalls
<1>6. Mailbox = Lasting(calls, names) /\ Len(calls) = 6
  BY <1>1, <1>3, <1>4, Zenon
<1>7. Len(Mailbox) = 7 /\ Mailbox[7] = Cleanup(names) /\ \A k \in 1..6 : Mailbox[k] = calls[k]
  BY <1>5, <1>6
<1> QED BY <1>2, <1>4, <1>7

LEMMA ErrorBranchCalls ==
  /\ Len(ErrorBranch) = 5
  /\ ErrorBranch[1] = New("a", 1, <<>>)
  /\ ErrorBranch[2] = Need
  /\ ErrorBranch[3] = Send("a", 1, 1)
  /\ ErrorBranch[4] = Send("a", 2, 0)
  /\ ErrorBranch[5] = Cleanup({"a"})
<1> DEFINE calls ==
      <<New("a", 1, <<>>), Need, Send("a", 1, 1), Send("a", 2, 0)>>
<1>1. Finite(calls) /\ Len(calls) = 4
  BY DEF Finite
<1>2. /\ calls[1] = New("a", 1, <<>>)
      /\ calls[2] = Need
      /\ calls[3] = Send("a", 1, 1)
      /\ calls[4] = Send("a", 2, 0)
  OBVIOUS
<1>3. ErrorBranch = Lasting(calls, {"a"})
  BY Zenon DEF ErrorBranch, GiveAs, calls
<1> HIDE DEF calls
<1>4. PICK names : names = {"a"}
  OBVIOUS
<1>5. /\ Len(Lasting(calls, names)) = Len(calls) + 1
      /\ \A k \in 1..Len(calls) : Lasting(calls, names)[k] = calls[k]
      /\ Lasting(calls, names)[Len(calls) + 1] = Cleanup(names)
  BY <1>1, LastingCalls
<1>6. ErrorBranch = Lasting(calls, names) /\ Len(calls) = 4
  BY <1>1, <1>3, <1>4, Zenon
<1>7. Len(ErrorBranch) = 5 /\ ErrorBranch[5] = Cleanup(names) /\ \A k \in 1..4 : ErrorBranch[k] = calls[k]
  BY <1>5, <1>6
<1> QED BY <1>2, <1>4, <1>7

LEMMA RandomSemaphoreCalls ==
  /\ Len(RandomSemaphore) = 4
  /\ RandomSemaphore[1] = New("a", 1, <<>>)
  /\ RandomSemaphore[2] = Need
  /\ RandomSemaphore[3] = Random(3)
  /\ RandomSemaphore[4] = Cleanup({"a"})
<1> DEFINE calls ==
      <<New("a", 1, <<>>), Need, Random(3)>>
<1>1. Finite(calls) /\ Len(calls) = 3
  BY DEF Finite
<1>2. /\ calls[1] = New("a", 1, <<>>)
      /\ calls[2] = Need
      /\ calls[3] = Random(3)
  OBVIOUS
<1>3. RandomSemaphore = Lasting(calls, {"a"})
  BY Zenon DEF RandomSemaphore, GiveAs, calls
<1> HIDE DEF calls
<1>4. PICK names : names = {"a"}
  OBVIOUS
<1>5. /\ Len(Lasting(calls, names)) = Len(calls) + 1
      /\ \A k \in 1..Len(calls) : Lasting(calls, names)[k] = calls[k]
      /\ Lasting(calls, names)[Len(calls) + 1] = Cleanup(names)
  BY <1>1, LastingCalls
<1>6. RandomSemaphore = Lasting(calls, names) /\ Len(calls) = 3
  BY <1>1, <1>3, <1>4, Zenon
<1>7. Len(RandomSemaphore) = 4 /\ RandomSemaphore[4] = Cleanup(names) /\ \A k \in 1..3 : RandomSemaphore[k] = calls[k]
  BY <1>5, <1>6
<1> QED BY <1>2, <1>4, <1>7

LEMMA DynamicAllocationCalls ==
  /\ Len(DynamicAllocation) = 8
  /\ DynamicAllocation[1] = Block(1)
  /\ DynamicAllocation[2] = Block(1)
  /\ DynamicAllocation[3] = Block(1)
  /\ DynamicAllocation[4] = Release(3)
  /\ DynamicAllocation[5] = Release(1)
  /\ DynamicAllocation[6] = Block(1)
  /\ DynamicAllocation[7] = Block(1)
  /\ DynamicAllocation[8] = Cleanup({})
<1> DEFINE calls ==
      <<Block(1), Block(1), Block(1), Release(3), Release(1), Block(1), Block(1)>>
<1>1. Finite(calls) /\ Len(calls) = 7
  BY DEF Finite
<1>2. /\ calls[1] = Block(1)
      /\ calls[2] = Block(1)
      /\ calls[3] = Block(1)
      /\ calls[4] = Release(3)
      /\ calls[5] = Release(1)
      /\ calls[6] = Block(1)
      /\ calls[7] = Block(1)
  OBVIOUS
<1>3. DynamicAllocation = Lasting(calls, {})
  BY Zenon DEF DynamicAllocation, GiveAs, calls
<1> HIDE DEF calls
<1>4. PICK names : names = {}
  OBVIOUS
<1>5. /\ Len(Lasting(calls, names)) = Len(calls) + 1
      /\ \A k \in 1..Len(calls) : Lasting(calls, names)[k] = calls[k]
      /\ Lasting(calls, names)[Len(calls) + 1] = Cleanup(names)
  BY <1>1, LastingCalls
<1>6. DynamicAllocation = Lasting(calls, names) /\ Len(calls) = 7
  BY <1>1, <1>3, <1>4, Zenon
<1>7. Len(DynamicAllocation) = 8 /\ DynamicAllocation[8] = Cleanup(names) /\ \A k \in 1..7 : DynamicAllocation[k] = calls[k]
  BY <1>5, <1>6
<1> QED BY <1>2, <1>4, <1>7

LEMMA ForcedFailCalls ==
  /\ Len(ForcedFail) = 3
  /\ ForcedFail[1] = Look
  /\ ForcedFail[2] = Overask
  /\ ForcedFail[3] = Cleanup({})
<1> DEFINE calls ==
      <<Look, Overask>>
<1>1. Finite(calls) /\ Len(calls) = 2
  BY DEF Finite
<1>2. /\ calls[1] = Look
      /\ calls[2] = Overask
  OBVIOUS
<1>3. ForcedFail = Lasting(calls, {})
  BY Zenon DEF ForcedFail, GiveAs, calls
<1> HIDE DEF calls
<1>4. PICK names : names = {}
  OBVIOUS
<1>5. /\ Len(Lasting(calls, names)) = Len(calls) + 1
      /\ \A k \in 1..Len(calls) : Lasting(calls, names)[k] = calls[k]
      /\ Lasting(calls, names)[Len(calls) + 1] = Cleanup(names)
  BY <1>1, LastingCalls
<1>6. ForcedFail = Lasting(calls, names) /\ Len(calls) = 2
  BY <1>1, <1>3, <1>4, Zenon
<1>7. Len(ForcedFail) = 3 /\ ForcedFail[3] = Cleanup(names) /\ \A k \in 1..2 : ForcedFail[k] = calls[k]
  BY <1>5, <1>6
<1> QED BY <1>2, <1>4, <1>7

LEMMA MemorySafetyCalls ==
  /\ Len(MemorySafety) = 5
  /\ MemorySafety[1] = Look
  /\ MemorySafety[2] = Block(1)
  /\ MemorySafety[3] = Release(1)
  /\ MemorySafety[4] = Compare
  /\ MemorySafety[5] = Cleanup({})
<1> DEFINE calls ==
      <<Look, Block(1), Release(1), Compare>>
<1>1. Finite(calls) /\ Len(calls) = 4
  BY DEF Finite
<1>2. /\ calls[1] = Look
      /\ calls[2] = Block(1)
      /\ calls[3] = Release(1)
      /\ calls[4] = Compare
  OBVIOUS
<1>3. MemorySafety = Lasting(calls, {})
  BY Zenon DEF MemorySafety, GiveAs, calls
<1> HIDE DEF calls
<1>4. PICK names : names = {}
  OBVIOUS
<1>5. /\ Len(Lasting(calls, names)) = Len(calls) + 1
      /\ \A k \in 1..Len(calls) : Lasting(calls, names)[k] = calls[k]
      /\ Lasting(calls, names)[Len(calls) + 1] = Cleanup(names)
  BY <1>1, LastingCalls
<1>6. MemorySafety = Lasting(calls, names) /\ Len(calls) = 4
  BY <1>1, <1>3, <1>4, Zenon
<1>7. Len(MemorySafety) = 5 /\ MemorySafety[5] = Cleanup(names) /\ \A k \in 1..4 : MemorySafety[k] = calls[k]
  BY <1>5, <1>6
<1> QED BY <1>2, <1>4, <1>7

LEMMA RamFillCalls ==
  /\ Len(RamFill) = 3
  /\ RamFill[1] = Fill("internal")
  /\ RamFill[2] = Verify
  /\ RamFill[3] = Cleanup({})
<1> DEFINE calls ==
      <<Fill("internal"), Verify>>
<1>1. Finite(calls) /\ Len(calls) = 2
  BY DEF Finite
<1>2. /\ calls[1] = Fill("internal")
      /\ calls[2] = Verify
  OBVIOUS
<1>3. RamFill = Lasting(calls, {})
  BY Zenon DEF RamFill, GiveAs, calls
<1> HIDE DEF calls
<1>4. PICK names : names = {}
  OBVIOUS
<1>5. /\ Len(Lasting(calls, names)) = Len(calls) + 1
      /\ \A k \in 1..Len(calls) : Lasting(calls, names)[k] = calls[k]
      /\ Lasting(calls, names)[Len(calls) + 1] = Cleanup(names)
  BY <1>1, LastingCalls
<1>6. RamFill = Lasting(calls, names) /\ Len(calls) = 2
  BY <1>1, <1>3, <1>4, Zenon
<1>7. Len(RamFill) = 3 /\ RamFill[3] = Cleanup(names) /\ \A k \in 1..2 : RamFill[k] = calls[k]
  BY <1>5, <1>6
<1> QED BY <1>2, <1>4, <1>7

LEMMA PsramFillCalls ==
  /\ Len(PsramFill) = 3
  /\ PsramFill[1] = Fill("psram")
  /\ PsramFill[2] = Verify
  /\ PsramFill[3] = Cleanup({})
<1> DEFINE calls ==
      <<Fill("psram"), Verify>>
<1>1. Finite(calls) /\ Len(calls) = 2
  BY DEF Finite
<1>2. /\ calls[1] = Fill("psram")
      /\ calls[2] = Verify
  OBVIOUS
<1>3. PsramFill = Lasting(calls, {})
  BY Zenon DEF PsramFill, GiveAs, calls
<1> HIDE DEF calls
<1>4. PICK names : names = {}
  OBVIOUS
<1>5. /\ Len(Lasting(calls, names)) = Len(calls) + 1
      /\ \A k \in 1..Len(calls) : Lasting(calls, names)[k] = calls[k]
      /\ Lasting(calls, names)[Len(calls) + 1] = Cleanup(names)
  BY <1>1, LastingCalls
<1>6. PsramFill = Lasting(calls, names) /\ Len(calls) = 2
  BY <1>1, <1>3, <1>4, Zenon
<1>7. Len(PsramFill) = 3 /\ PsramFill[3] = Cleanup(names) /\ \A k \in 1..2 : PsramFill[k] = calls[k]
  BY <1>5, <1>6
<1> QED BY <1>2, <1>4, <1>7

\* t is what a and b make together.
Joins(a, b, t) ==
  /\ Finite(t) /\ Len(t) = Len(a) + Len(b)
  /\ \A k \in 1..Len(a) : t[k] = a[k]
  /\ \A k \in 1..Len(b) : t[Len(a) + k] = b[k]

LEMMA JoinedAs ==
  ASSUME NEW a, NEW b, Finite(a), Finite(b), NEW t, t = a \o b
  PROVE  Joins(a, b, t)
<1>1. /\ Finite(a \o b) /\ Len(a \o b) = Len(a) + Len(b)
      /\ \A k \in 1..Len(a) : (a \o b)[k] = a[k]
      /\ \A k \in 1..Len(b) : (a \o b)[Len(a) + k] = b[k]
  BY JoinedCalls
<1> QED BY <1>1, Zenon DEF Joins

\* A script in three parts.
Parts(a, b, c, names, t) ==
  /\ Len(t) = Len(c) + 6 /\ t[Len(c) + 6] = Cleanup(names)
  /\ \A k \in 1..2 : t[k] = a[k]
  /\ \A k \in 1..3 : t[2 + k] = b[k]
  /\ \A k \in 1..Len(c) : t[5 + k] = c[k]

LEMMA PartedCalls ==
  ASSUME NEW a, NEW b, NEW c, Finite(a), Finite(b), Finite(c), Len(a) = 2, Len(b) = 3,
         NEW names, NEW t, t = Lasting((a \o b) \o c, names)
  PROVE  Parts(a, b, c, names, t)
<1>1. PICK ab : ab = a \o b
  OBVIOUS
<1>2. /\ Finite(ab) /\ Len(ab) = 5 /\ \A k \in 1..2 : ab[k] = a[k]
      /\ \A k \in 1..3 : ab[2 + k] = b[k]
  <2>1. Joins(a, b, ab)
    BY <1>1, JoinedAs
  <2> QED BY <2>1 DEF Joins
<1>3. PICK s : s = ab \o c
  OBVIOUS
<1>4. /\ Finite(s) /\ Len(s) = 5 + Len(c) /\ \A k \in 1..5 : s[k] = ab[k]
      /\ \A k \in 1..Len(c) : s[5 + k] = c[k]
  <2>1. Joins(ab, c, s)
    BY <1>2, <1>3, JoinedAs
  <2> QED BY <1>2, <2>1 DEF Joins
<1>5. t = Lasting(s, names)
  BY <1>1, <1>3, Zenon
<1>6. /\ Len(t) = Len(s) + 1
      /\ \A k \in 1..Len(s) : t[k] = s[k]
      /\ t[Len(s) + 1] = Cleanup(names)
  BY <1>4, <1>5, LastingCalls
<1>7. Len(c) \in Nat
  BY DEF Finite
<1>8. /\ Len(t) = Len(c) + 6
      /\ \A k \in 1..5 : t[k] = ab[k]
      /\ \A k \in 1..Len(c) : t[5 + k] = c[k]
      /\ t[Len(c) + 6] = Cleanup(names)
  <2>1. \A k \in 1..5 : t[k] = ab[k]
    BY <1>4, <1>6, <1>7
  <2>2. ASSUME NEW k \in 1..Len(c) PROVE t[5 + k] = c[k]
    <3>1. 5 + k \in 1..Len(s)
      BY <1>4, <1>7
    <3> QED BY <1>4, <1>6, <3>1
  <2>3. Len(s) + 1 = Len(c) + 6
    BY <1>4, <1>7
  <2> QED BY <1>6, <2>1, <2>2, <2>3
<1>9. /\ \A k \in 1..2 : t[k] = a[k]
      /\ \A k \in 1..3 : t[2 + k] = b[k]
  BY <1>2, <1>8
<1> QED BY <1>8, <1>9 DEF Parts

LEMMA QueueCalls ==
  /\ Len(Queue) = 13
  /\ Queue[1] = New("a", 3, <<>>)
  /\ Queue[2] = Need
  /\ Queue[3] = Noted(Send("a", 1, 1))
  /\ Queue[4] = Noted(Send("a", 2, 1))
  /\ Queue[5] = Noted(Send("a", 3, 1))
  /\ Queue[6] = Noted(Send("a", 4, 0))
  /\ Queue[7] = Noted(Receive("a", 1))
  /\ Queue[8] = Noted(Send("a", 4, 1))
  /\ Queue[9] = Noted(Receive("a", 2))
  /\ Queue[10] = Noted(Receive("a", 3))
  /\ Queue[11] = Noted(Receive("a", 4))
  /\ Queue[12] = Noted(Receive("a", 0))
  /\ Queue[13] = Cleanup({"a"})
<1>1. PICK asks : asks = <<New("a", 3, <<>>), Need>>
  OBVIOUS
<1>2. PICK sends : sends = [i \in 1..3 |-> Noted(Send("a", i, 1))]
  OBVIOUS
<1>3. PICK more :
        more = <<Noted(Send("a", 4, 0)), Noted(Receive("a", 1)), Noted(Send("a", 4, 1)),
                 Noted(Receive("a", 2)), Noted(Receive("a", 3)), Noted(Receive("a", 4)),
                 Noted(Receive("a", 0))>>
  OBVIOUS
<1>4. PICK names : names = {"a"}
  OBVIOUS
<1>5. Finite(asks) /\ Len(asks) = 2 /\ asks[1] = New("a", 3, <<>>) /\ asks[2] = Need
  BY <1>1 DEF Finite
<1>6. /\ Finite(sends) /\ Len(sends) = 3
      /\ sends[1] = Noted(Send("a", 1, 1))
      /\ sends[2] = Noted(Send("a", 2, 1))
      /\ sends[3] = Noted(Send("a", 3, 1))
  BY <1>2 DEF Finite
<1>7. Finite(more) /\ Len(more) = 7
  BY <1>3 DEF Finite
<1>8. /\ more[1] = Noted(Send("a", 4, 0))
      /\ more[2] = Noted(Receive("a", 1))
      /\ more[3] = Noted(Send("a", 4, 1))
      /\ more[4] = Noted(Receive("a", 2))
      /\ more[5] = Noted(Receive("a", 3))
      /\ more[6] = Noted(Receive("a", 4))
      /\ more[7] = Noted(Receive("a", 0))
  BY <1>3
<1>9. Queue = Lasting((asks \o sends) \o more, names)
  BY <1>1, <1>2, <1>3, <1>4, Zenon DEF Queue
<1>10. PICK script : script = Queue
  OBVIOUS
<1>11. Parts(asks, sends, more, names, script)
  <2>1. /\ script = Lasting((asks \o sends) \o more, names)
        /\ Finite(asks) /\ Finite(sends) /\ Finite(more) /\ Len(asks) = 2 /\ Len(sends) = 3
    BY <1>5, <1>6, <1>7, <1>9, <1>10, Zenon
  <2> QED BY <2>1, PartedCalls
<1>12. /\ Queue[1] = asks[1] /\ Queue[2] = asks[2]
       /\ Queue[3] = sends[1] /\ Queue[4] = sends[2] /\ Queue[5] = sends[3]
       /\ Len(Queue) = 13 /\ Queue[13] = Cleanup({"a"})
  BY <1>4, <1>7, <1>10, <1>11 DEF Parts
<1>13. /\ Queue[6] = more[1]
       /\ Queue[7] = more[2]
       /\ Queue[8] = more[3]
       /\ Queue[9] = more[4]
       /\ Queue[10] = more[5]
       /\ Queue[11] = more[6]
       /\ Queue[12] = more[7]
  BY <1>7, <1>10, <1>11 DEF Parts
<1> QED BY <1>5, <1>6, <1>8, <1>12, <1>13

LEMMA MaximumQueueCalls ==
  /\ Len(MaximumQueue) = 7
  /\ MaximumQueue[1] = New("a", 3, <<>>)
  /\ MaximumQueue[2] = Need
  /\ MaximumQueue[3] = Send("a", 1, 1)
  /\ MaximumQueue[4] = Send("a", 2, 1)
  /\ MaximumQueue[5] = Send("a", 3, 1)
  /\ MaximumQueue[6] = Send("a", 4, 0)
  /\ MaximumQueue[7] = Cleanup({"a"})
<1>1. PICK asks : asks = <<New("a", 3, <<>>), Need>>
  OBVIOUS
<1>2. PICK sends : sends = [i \in 1..3 |-> Send("a", i, 1)]
  OBVIOUS
<1>3. PICK more :
        more = <<Send("a", 4, 0)>>
  OBVIOUS
<1>4. PICK names : names = {"a"}
  OBVIOUS
<1>5. Finite(asks) /\ Len(asks) = 2 /\ asks[1] = New("a", 3, <<>>) /\ asks[2] = Need
  BY <1>1 DEF Finite
<1>6. /\ Finite(sends) /\ Len(sends) = 3
      /\ sends[1] = Send("a", 1, 1)
      /\ sends[2] = Send("a", 2, 1)
      /\ sends[3] = Send("a", 3, 1)
  BY <1>2 DEF Finite
<1>7. Finite(more) /\ Len(more) = 1
  BY <1>3 DEF Finite
<1>8. /\ more[1] = Send("a", 4, 0)
  BY <1>3
<1>9. MaximumQueue = Lasting((asks \o sends) \o more, names)
  BY <1>1, <1>2, <1>3, <1>4, Zenon DEF MaximumQueue
<1>10. PICK script : script = MaximumQueue
  OBVIOUS
<1>11. Parts(asks, sends, more, names, script)
  <2>1. /\ script = Lasting((asks \o sends) \o more, names)
        /\ Finite(asks) /\ Finite(sends) /\ Finite(more) /\ Len(asks) = 2 /\ Len(sends) = 3
    BY <1>5, <1>6, <1>7, <1>9, <1>10, Zenon
  <2> QED BY <2>1, PartedCalls
<1>12. /\ MaximumQueue[1] = asks[1] /\ MaximumQueue[2] = asks[2]
       /\ MaximumQueue[3] = sends[1] /\ MaximumQueue[4] = sends[2] /\ MaximumQueue[5] = sends[3]
       /\ Len(MaximumQueue) = 7 /\ MaximumQueue[7] = Cleanup({"a"})
  BY <1>4, <1>7, <1>10, <1>11 DEF Parts
<1>13. /\ MaximumQueue[6] = more[1]
  BY <1>7, <1>10, <1>11 DEF Parts
<1> QED BY <1>5, <1>6, <1>8, <1>12, <1>13

LEMMA Appended ==
  ASSUME NEW e, NEW f, NEW g
  PROVE  /\ Append(<<>>, e) = <<e>> /\ Append(<<e>>, f) = <<e, f>>
         /\ Append(<<e, f>>, g) = <<e, f, g>>
<1>1. ASSUME NEW s \in Seq({e, f, g}), NEW t \in Seq({e, f, g}), NEW v \in {e, f, g},
             Len(t) = Len(s) + 1, \A k \in 1..Len(s) : t[k] = s[k], t[Len(s) + 1] = v
      PROVE  Append(s, v) = t
  <2>1. PICK r : r = Append(s, v)
    OBVIOUS
  <2>2. /\ r \in Seq({e, f, g}) /\ Len(r) = Len(s) + 1
        /\ \A k \in 1..Len(s) : r[k] = s[k]
        /\ r[Len(s) + 1] = v
    BY <2>1
  <2>3. Len(s) \in Nat
    OBVIOUS
  <2>4. \A k \in 1..(Len(s) + 1) : r[k] = t[k]
    BY <1>1, <2>2, <2>3
  <2>5. /\ r = [k \in 1..(Len(s) + 1) |-> r[k]]
        /\ t = [k \in 1..(Len(s) + 1) |-> t[k]]
    BY <1>1, <2>2
  <2>6. [k \in 1..(Len(s) + 1) |-> r[k]] = [k \in 1..(Len(s) + 1) |-> t[k]]
    BY <2>4, Zenon
  <2> QED BY <2>1, <2>5, <2>6, Zenon
<1>2. PICK a : a = <<>>
  OBVIOUS
<1>3. PICK b : b = <<e>>
  OBVIOUS
<1>4. PICK c : c = <<e, f>>
  OBVIOUS
<1>5. PICK h : h = <<e, f, g>>
  OBVIOUS
<1>6. a \in Seq({e, f, g}) /\ Len(a) = 0
  BY <1>2
<1>7. b \in Seq({e, f, g}) /\ Len(b) = 1 /\ b[1] = e
  BY <1>3
<1>8. c \in Seq({e, f, g}) /\ Len(c) = 2 /\ c[1] = e /\ c[2] = f
  BY <1>4
<1>9. h \in Seq({e, f, g}) /\ Len(h) = 3 /\ h[1] = e /\ h[2] = f /\ h[3] = g
  BY <1>5
<1>10. Append(a, e) = b
  <2>1. Len(b) = Len(a) + 1 /\ (\A k \in 1..Len(a) : b[k] = a[k]) /\ b[Len(a) + 1] = e
    BY <1>6, <1>7
  <2> QED BY <1>1, <1>6, <1>7, <2>1
<1>11. Append(b, f) = c
  <2>1. Len(c) = Len(b) + 1 /\ (\A k \in 1..Len(b) : c[k] = b[k]) /\ c[Len(b) + 1] = f
    BY <1>7, <1>8
  <2> QED BY <1>1, <1>7, <1>8, <2>1
<1>12. Append(c, g) = h
  <2>1. Len(h) = Len(c) + 1 /\ (\A k \in 1..Len(c) : h[k] = c[k]) /\ h[Len(c) + 1] = g
    BY <1>8, <1>9
  <2> QED BY <1>1, <1>8, <1>9, <2>1
<1> QED BY <1>2, <1>3, <1>4, <1>5, <1>10, <1>11, <1>12, Zenon

-----------------------------------------------------------------------------
(* On a sound kernel every answer is the expected one.                     *)

LEMMA DropOne == \A e : Drop(<<e>>, 1) = <<>>
  BY Dropped, Zenon
LEMMA DropTwo == \A e, f : Drop(<<e, f>>, 1) = <<f>>
  BY Dropped, Zenon
LEMMA DropThree == \A e, f, g : Drop(<<e, f, g>>, 1) = <<f, g>>
  BY Dropped, Zenon

\* What a kernel answers, by what the object holds.
Crowded(c, t) == Len(t) >= c
LEMMA Room ==
  ASSUME NEW d, NEW c, NEW t, NEW v, ~Crowded(c, t), d # "lost"
  PROVE  SendAnswer(d, c, t) = 1 /\ Sent(d, c, t, v) = Append(t, v)
  BY Zenon DEF SendAnswer, Sent, Crowded
LEMMA NoRoom ==
  ASSUME NEW d, NEW c, NEW t, NEW v, Crowded(c, t), d # "overflow"
  PROVE  SendAnswer(d, c, t) = 0 /\ Sent(d, c, t, v) = t
  BY Zenon DEF SendAnswer, Sent, Crowded
LEMMA Overflows ==
  ASSUME NEW d, NEW c, NEW t, NEW v, d = "overflow", d # "lost"
  PROVE  SendAnswer(d, c, t) = 1 /\ Sent(d, c, t, v) = Append(t, v)
  BY Zenon DEF SendAnswer, Sent, Crowded
LEMMA Loses ==
  ASSUME NEW d, NEW c, NEW t, NEW v, ~Crowded(c, t), d = "lost"
  PROVE  SendAnswer(d, c, t) = 1 /\ Sent(d, c, t, v) = t
  BY Zenon DEF SendAnswer, Sent, Crowded
LEMMA TakesNone ==
  ASSUME NEW d
  PROVE  TakeAnswer(d, <<>>) = 0 /\ Left(d, <<>>) = <<>>
  BY Zenon DEF TakeAnswer, Left
LEMMA Takes ==
  ASSUME NEW d, NEW t, t # <<>>, d # "lifo", d # "keeps"
  PROVE  TakeAnswer(d, t) = t[1] /\ Left(d, t) = Drop(t, 1)
  BY Zenon DEF TakeAnswer, Left, Oldest
LEMMA TakesLast ==
  ASSUME NEW d, NEW t, t # <<>>, d = "lifo"
  PROVE  TakeAnswer(d, t) = t[Len(t)]
  BY Zenon DEF TakeAnswer, Oldest
LEMMA Keeps ==
  ASSUME NEW d, NEW t, t # <<>>, d = "keeps", d # "lifo"
  PROVE  TakeAnswer(d, t) = t[1] /\ Left(d, t) = t
  BY Zenon DEF TakeAnswer, Left, Oldest

LEMMA IsrToTaskRuns ==
  \E st : Follows(IsrToTask, "none", st, 8)
<1>1. PICK s : s = IsrToTask
  OBVIOUS
<1>2. /\ Len(s) = 8
      /\ s[1] = New("a", 1, <<>>)
      /\ s[2] = New("b", 4, <<>>)
      /\ s[3] = Need
      /\ s[4] = Send("a", 1, 1)
      /\ s[5] = Send("b", 7, 1)
      /\ s[6] = Receive("a", 1)
      /\ s[7] = Receive("b", 7)
  BY <1>1, IsrToTaskCalls, Zenon
<1>3. PICK st :
        st = <<Nothing, One(1, <<>>), Two(1, <<>>, 4, <<>>), Two(1, <<>>, 4, <<>>),
              Two(1, <<1>>, 4, <<>>), Two(1, <<1>>, 4, <<7>>), Two(1, <<>>, 4, <<7>>),
              Two(1, <<>>, 4, <<>>)>>
  OBVIOUS
<1>4. PICK d : d = "none"
  OBVIOUS
<1>5. d # "overflow" /\ d # "lost" /\ d # "lifo" /\ d # "keeps"
  BY <1>4, Zenon
<1>6. Goes(d, s, 1, Nothing, One(1, <<>>))
  BY <1>2, OneNew
<1>7. Goes(d, s, 2, One(1, <<>>), Two(1, <<>>, 4, <<>>))
  BY <1>2, TwoNew
<1>8. Goes(d, s, 3, Two(1, <<>>, 4, <<>>), Two(1, <<>>, 4, <<>>))
  BY <1>2, TwoNeed
<1>9. Goes(d, s, 4, Two(1, <<>>, 4, <<>>), Two(1, <<1>>, 4, <<>>))
  <2>1. PICK t : t = <<>>
    OBVIOUS
  <2>2. ~Crowded(1, t)
    BY <2>1 DEF Crowded
  <2>3. SendAnswer(d, 1, t) = 1 /\ Sent(d, 1, t, 1) = Append(t, 1)
    BY <1>5, <2>2, Room
  <2>4. Append(<<>>, 1) = <<1>>
    BY Appended, Zenon
  <2>5. SendAnswer(d, 1, <<>>) = 1 /\ Sent(d, 1, <<>>, 1) = <<1>>
    BY <2>1, <2>3, <2>4, Zenon
  <2> QED BY <1>2, <2>5, TwoSend
<1>10. Goes(d, s, 5, Two(1, <<1>>, 4, <<>>), Two(1, <<1>>, 4, <<7>>))
  <2>1. PICK t : t = <<>>
    OBVIOUS
  <2>2. ~Crowded(4, t)
    BY <2>1 DEF Crowded
  <2>3. SendAnswer(d, 4, t) = 1 /\ Sent(d, 4, t, 7) = Append(t, 7)
    BY <1>5, <2>2, Room
  <2>4. Append(<<>>, 7) = <<7>>
    BY Appended, Zenon
  <2>5. SendAnswer(d, 4, <<>>) = 1 /\ Sent(d, 4, <<>>, 7) = <<7>>
    BY <2>1, <2>3, <2>4, Zenon
  <2> QED BY <1>2, <2>5, TwoSend
<1>11. Goes(d, s, 6, Two(1, <<1>>, 4, <<7>>), Two(1, <<>>, 4, <<7>>))
  <2>1. <<1>> # <<>> /\ <<1>>[1] = 1
    OBVIOUS
  <2>2. TakeAnswer(d, <<1>>) = 1 /\ Left(d, <<1>>) = Drop(<<1>>, 1)
    BY <1>5, <2>1, Takes, Zenon
  <2>3. Drop(<<1>>, 1) = <<>>
    BY DropOne, Zenon
  <2>4. TakeAnswer(d, <<1>>) = 1 /\ Left(d, <<1>>) = <<>>
    BY <2>2, <2>3, Zenon
  <2> QED BY <1>2, <2>4, TwoReceive
<1>12. Goes(d, s, 7, Two(1, <<>>, 4, <<7>>), Two(1, <<>>, 4, <<>>))
  <2>1. <<7>> # <<>> /\ <<7>>[1] = 7
    OBVIOUS
  <2>2. TakeAnswer(d, <<7>>) = 7 /\ Left(d, <<7>>) = Drop(<<7>>, 1)
    BY <1>5, <2>1, Takes, Zenon
  <2>3. Drop(<<7>>, 1) = <<>>
    BY DropOne, Zenon
  <2>4. TakeAnswer(d, <<7>>) = 7 /\ Left(d, <<7>>) = <<>>
    BY <2>2, <2>3, Zenon
  <2> QED BY <1>2, <2>4, TwoReceive
<1>13. /\ st[1] = Nothing
      /\ st[2] = One(1, <<>>)
      /\ st[3] = Two(1, <<>>, 4, <<>>)
      /\ st[4] = Two(1, <<>>, 4, <<>>)
      /\ st[5] = Two(1, <<1>>, 4, <<>>)
      /\ st[6] = Two(1, <<1>>, 4, <<7>>)
      /\ st[7] = Two(1, <<>>, 4, <<7>>)
      /\ st[8] = Two(1, <<>>, 4, <<>>)
  BY <1>3
<1>14. ASSUME NEW i \in 1..7 PROVE Goes(d, s, i, st[i], st[i + 1])
  <2>1. Goes(d, s, 1, st[1], st[1 + 1])
    BY <1>6, <1>13
  <2>2. Goes(d, s, 2, st[2], st[2 + 1])
    BY <1>7, <1>13
  <2>3. Goes(d, s, 3, st[3], st[3 + 1])
    BY <1>8, <1>13
  <2>4. Goes(d, s, 4, st[4], st[4 + 1])
    BY <1>9, <1>13
  <2>5. Goes(d, s, 5, st[5], st[5 + 1])
    BY <1>10, <1>13
  <2>6. Goes(d, s, 6, st[6], st[6 + 1])
    BY <1>11, <1>13
  <2>7. Goes(d, s, 7, st[7], st[7 + 1])
    BY <1>12, <1>13
  <2> QED BY <2>1, <2>2, <2>3, <2>4, <2>5, <2>6, <2>7
<1>15. Follows(s, d, st, 8)
  BY <1>2, <1>13, <1>14 DEF Follows
<1> QED BY <1>1, <1>4, <1>15, Zenon

LEMMA MutexRuns ==
  \E st : Follows(Mutex, "none", st, 5)
<1>1. PICK s : s = Mutex
  OBVIOUS
<1>2. /\ Len(s) = 5
      /\ s[1] = New("a", 1, <<1>>)
      /\ s[2] = Need
      /\ s[3] = Receive("a", 1)
      /\ s[4] = Send("a", 1, 1)
  BY <1>1, MutexCalls, Zenon
<1>3. PICK st :
        st = <<Nothing, One(1, <<1>>), One(1, <<1>>), One(1, <<>>), One(1, <<1>>)>>
  OBVIOUS
<1>4. PICK d : d = "none"
  OBVIOUS
<1>5. d # "overflow" /\ d # "lost" /\ d # "lifo" /\ d # "keeps"
  BY <1>4, Zenon
<1>6. Goes(d, s, 1, Nothing, One(1, <<1>>))
  BY <1>2, OneNew
<1>7. Goes(d, s, 2, One(1, <<1>>), One(1, <<1>>))
  BY <1>2, OneNeed
<1>8. Goes(d, s, 3, One(1, <<1>>), One(1, <<>>))
  <2>1. <<1>> # <<>> /\ <<1>>[1] = 1
    OBVIOUS
  <2>2. TakeAnswer(d, <<1>>) = 1 /\ Left(d, <<1>>) = Drop(<<1>>, 1)
    BY <1>5, <2>1, Takes, Zenon
  <2>3. Drop(<<1>>, 1) = <<>>
    BY DropOne, Zenon
  <2>4. TakeAnswer(d, <<1>>) = 1 /\ Left(d, <<1>>) = <<>>
    BY <2>2, <2>3, Zenon
  <2> QED BY <1>2, <2>4, OneReceive
<1>9. Goes(d, s, 4, One(1, <<>>), One(1, <<1>>))
  <2>1. PICK t : t = <<>>
    OBVIOUS
  <2>2. ~Crowded(1, t)
    BY <2>1 DEF Crowded
  <2>3. SendAnswer(d, 1, t) = 1 /\ Sent(d, 1, t, 1) = Append(t, 1)
    BY <1>5, <2>2, Room
  <2>4. Append(<<>>, 1) = <<1>>
    BY Appended, Zenon
  <2>5. SendAnswer(d, 1, <<>>) = 1 /\ Sent(d, 1, <<>>, 1) = <<1>>
    BY <2>1, <2>3, <2>4, Zenon
  <2> QED BY <1>2, <2>5, OneSend
<1>10. /\ st[1] = Nothing
      /\ st[2] = One(1, <<1>>)
      /\ st[3] = One(1, <<1>>)
      /\ st[4] = One(1, <<>>)
      /\ st[5] = One(1, <<1>>)
  BY <1>3
<1>11. ASSUME NEW i \in 1..4 PROVE Goes(d, s, i, st[i], st[i + 1])
  <2>1. Goes(d, s, 1, st[1], st[1 + 1])
    BY <1>6, <1>10
  <2>2. Goes(d, s, 2, st[2], st[2 + 1])
    BY <1>7, <1>10
  <2>3. Goes(d, s, 3, st[3], st[3 + 1])
    BY <1>8, <1>10
  <2>4. Goes(d, s, 4, st[4], st[4 + 1])
    BY <1>9, <1>10
  <2> QED BY <2>1, <2>2, <2>3, <2>4
<1>12. Follows(s, d, st, 5)
  BY <1>2, <1>10, <1>11 DEF Follows
<1> QED BY <1>1, <1>4, <1>12, Zenon

LEMMA SemaphoreRuns ==
  \E st : Follows(Semaphore, "none", st, 12)
<1>1. PICK s : s = Semaphore
  OBVIOUS
<1>2. /\ Len(s) = 12
      /\ s[1] = New("a", 1, <<>>)
      /\ s[2] = New("b", 3, <<>>)
      /\ s[3] = Need
      /\ s[4] = Send("a", 1, ANY)
      /\ s[5] = Receive("a", 1)
      /\ s[6] = Send("b", 1, ANY)
      /\ s[7] = Send("b", 1, ANY)
      /\ s[8] = Send("b", 1, ANY)
      /\ s[9] = Count("b", 3)
      /\ s[10] = Send("b", 1, 0)
      /\ s[11] = Count("b", 3)
  BY <1>1, SemaphoreCalls, Zenon
<1>3. PICK st :
        st = <<Nothing, One(1, <<>>), Two(1, <<>>, 3, <<>>), Two(1, <<>>, 3, <<>>),
              Two(1, <<1>>, 3, <<>>), Two(1, <<>>, 3, <<>>), Two(1, <<>>, 3, <<1>>),
              Two(1, <<>>, 3, <<1, 1>>), Two(1, <<>>, 3, <<1, 1, 1>>),
              Two(1, <<>>, 3, <<1, 1, 1>>), Two(1, <<>>, 3, <<1, 1, 1>>),
              Two(1, <<>>, 3, <<1, 1, 1>>)>>
  OBVIOUS
<1>4. PICK d : d = "none"
  OBVIOUS
<1>5. d # "overflow" /\ d # "lost" /\ d # "lifo" /\ d # "keeps"
  BY <1>4, Zenon
<1>6. Goes(d, s, 1, Nothing, One(1, <<>>))
  BY <1>2, OneNew
<1>7. Goes(d, s, 2, One(1, <<>>), Two(1, <<>>, 3, <<>>))
  BY <1>2, TwoNew
<1>8. Goes(d, s, 3, Two(1, <<>>, 3, <<>>), Two(1, <<>>, 3, <<>>))
  BY <1>2, TwoNeed
<1>9. Goes(d, s, 4, Two(1, <<>>, 3, <<>>), Two(1, <<1>>, 3, <<>>))
  <2>1. PICK t : t = <<>>
    OBVIOUS
  <2>2. ~Crowded(1, t)
    BY <2>1 DEF Crowded
  <2>3. SendAnswer(d, 1, t) = 1 /\ Sent(d, 1, t, 1) = Append(t, 1)
    BY <1>5, <2>2, Room
  <2>4. Append(<<>>, 1) = <<1>>
    BY Appended, Zenon
  <2>5. SendAnswer(d, 1, <<>>) = 1 /\ Sent(d, 1, <<>>, 1) = <<1>>
    BY <2>1, <2>3, <2>4, Zenon
  <2> QED BY <1>2, <2>5, TwoSend
<1>10. Goes(d, s, 5, Two(1, <<1>>, 3, <<>>), Two(1, <<>>, 3, <<>>))
  <2>1. <<1>> # <<>> /\ <<1>>[1] = 1
    OBVIOUS
  <2>2. TakeAnswer(d, <<1>>) = 1 /\ Left(d, <<1>>) = Drop(<<1>>, 1)
    BY <1>5, <2>1, Takes, Zenon
  <2>3. Drop(<<1>>, 1) = <<>>
    BY DropOne, Zenon
  <2>4. TakeAnswer(d, <<1>>) = 1 /\ Left(d, <<1>>) = <<>>
    BY <2>2, <2>3, Zenon
  <2> QED BY <1>2, <2>4, TwoReceive
<1>11. Goes(d, s, 6, Two(1, <<>>, 3, <<>>), Two(1, <<>>, 3, <<1>>))
  <2>1. PICK t : t = <<>>
    OBVIOUS
  <2>2. ~Crowded(3, t)
    BY <2>1 DEF Crowded
  <2>3. SendAnswer(d, 3, t) = 1 /\ Sent(d, 3, t, 1) = Append(t, 1)
    BY <1>5, <2>2, Room
  <2>4. Append(<<>>, 1) = <<1>>
    BY Appended, Zenon
  <2>5. SendAnswer(d, 3, <<>>) = 1 /\ Sent(d, 3, <<>>, 1) = <<1>>
    BY <2>1, <2>3, <2>4, Zenon
  <2> QED BY <1>2, <2>5, TwoSend
<1>12. Goes(d, s, 7, Two(1, <<>>, 3, <<1>>), Two(1, <<>>, 3, <<1, 1>>))
  <2>1. PICK t : t = <<1>>
    OBVIOUS
  <2>2. ~Crowded(3, t)
    BY <2>1 DEF Crowded
  <2>3. SendAnswer(d, 3, t) = 1 /\ Sent(d, 3, t, 1) = Append(t, 1)
    BY <1>5, <2>2, Room
  <2>4. Append(<<1>>, 1) = <<1, 1>>
    BY Appended, Zenon
  <2>5. SendAnswer(d, 3, <<1>>) = 1 /\ Sent(d, 3, <<1>>, 1) = <<1, 1>>
    BY <2>1, <2>3, <2>4, Zenon
  <2> QED BY <1>2, <2>5, TwoSend
<1>13. Goes(d, s, 8, Two(1, <<>>, 3, <<1, 1>>), Two(1, <<>>, 3, <<1, 1, 1>>))
  <2>1. PICK t : t = <<1, 1>>
    OBVIOUS
  <2>2. ~Crowded(3, t)
    BY <2>1 DEF Crowded
  <2>3. SendAnswer(d, 3, t) = 1 /\ Sent(d, 3, t, 1) = Append(t, 1)
    BY <1>5, <2>2, Room
  <2>4. Append(<<1, 1>>, 1) = <<1, 1, 1>>
    BY Appended, Zenon
  <2>5. SendAnswer(d, 3, <<1, 1>>) = 1 /\ Sent(d, 3, <<1, 1>>, 1) = <<1, 1, 1>>
    BY <2>1, <2>3, <2>4, Zenon
  <2> QED BY <1>2, <2>5, TwoSend
<1>14. Goes(d, s, 9, Two(1, <<>>, 3, <<1, 1, 1>>), Two(1, <<>>, 3, <<1, 1, 1>>))
  <2>1. Len(<<1, 1, 1>>) = 3
    OBVIOUS
  <2> QED BY <1>2, <2>1, TwoCount
<1>15. Goes(d, s, 10, Two(1, <<>>, 3, <<1, 1, 1>>), Two(1, <<>>, 3, <<1, 1, 1>>))
  <2>1. PICK t : t = <<1, 1, 1>>
    OBVIOUS
  <2>2. Crowded(3, t)
    BY <2>1 DEF Crowded
  <2>3. SendAnswer(d, 3, t) = 0 /\ Sent(d, 3, t, 1) = t
    BY <1>5, <2>2, NoRoom
  <2>5. SendAnswer(d, 3, <<1, 1, 1>>) = 0 /\ Sent(d, 3, <<1, 1, 1>>, 1) = <<1, 1, 1>>
    BY <2>1, <2>3, Zenon
  <2> QED BY <1>2, <2>5, TwoSend
<1>16. Goes(d, s, 11, Two(1, <<>>, 3, <<1, 1, 1>>), Two(1, <<>>, 3, <<1, 1, 1>>))
  <2>1. Len(<<1, 1, 1>>) = 3
    OBVIOUS
  <2> QED BY <1>2, <2>1, TwoCount
<1>17. /\ st[1] = Nothing
      /\ st[2] = One(1, <<>>)
      /\ st[3] = Two(1, <<>>, 3, <<>>)
      /\ st[4] = Two(1, <<>>, 3, <<>>)
      /\ st[5] = Two(1, <<1>>, 3, <<>>)
      /\ st[6] = Two(1, <<>>, 3, <<>>)
      /\ st[7] = Two(1, <<>>, 3, <<1>>)
      /\ st[8] = Two(1, <<>>, 3, <<1, 1>>)
      /\ st[9] = Two(1, <<>>, 3, <<1, 1, 1>>)
      /\ st[10] = Two(1, <<>>, 3, <<1, 1, 1>>)
      /\ st[11] = Two(1, <<>>, 3, <<1, 1, 1>>)
      /\ st[12] = Two(1, <<>>, 3, <<1, 1, 1>>)
  BY <1>3
<1>18. ASSUME NEW i \in 1..11 PROVE Goes(d, s, i, st[i], st[i + 1])
  <2>1. Goes(d, s, 1, st[1], st[1 + 1])
    BY <1>6, <1>17
  <2>2. Goes(d, s, 2, st[2], st[2 + 1])
    BY <1>7, <1>17
  <2>3. Goes(d, s, 3, st[3], st[3 + 1])
    BY <1>8, <1>17
  <2>4. Goes(d, s, 4, st[4], st[4 + 1])
    BY <1>9, <1>17
  <2>5. Goes(d, s, 5, st[5], st[5 + 1])
    BY <1>10, <1>17
  <2>6. Goes(d, s, 6, st[6], st[6 + 1])
    BY <1>11, <1>17
  <2>7. Goes(d, s, 7, st[7], st[7 + 1])
    BY <1>12, <1>17
  <2>8. Goes(d, s, 8, st[8], st[8 + 1])
    BY <1>13, <1>17
  <2>9. Goes(d, s, 9, st[9], st[9 + 1])
    BY <1>14, <1>17
  <2>10. Goes(d, s, 10, st[10], st[10 + 1])
    BY <1>15, <1>17
  <2>11. Goes(d, s, 11, st[11], st[11 + 1])
    BY <1>16, <1>17
  <2> QED BY <2>1, <2>2, <2>3, <2>4, <2>5, <2>6, <2>7, <2>8, <2>9, <2>10, <2>11
<1>19. Follows(s, d, st, 12)
  BY <1>2, <1>17, <1>18 DEF Follows
<1> QED BY <1>1, <1>4, <1>19, Zenon

LEMMA EventFlagsRuns ==
  \E st : Follows(EventFlags, "none", st, 7)
<1>1. PICK s : s = EventFlags
  OBVIOUS
<1>2. /\ Len(s) = 7
      /\ s[1] = New("a", 1, <<>>)
      /\ s[2] = Need
      /\ s[3] = SetBit(1)
      /\ s[4] = WaitAll(0)
      /\ s[5] = SetBit(2)
      /\ s[6] = WaitAll(1)
  BY <1>1, EventFlagsCalls, Zenon
<1>3. PICK st :
        st = <<Nothing, Flags(1, <<>>, {}), Flags(1, <<>>, {}), Flags(1, <<>>, {1}),
              Flags(1, <<>>, {1}), Flags(1, <<>>, {1, 2}), Flags(1, <<>>, {1, 2})>>
  OBVIOUS
<1>4. PICK d : d = "none"
  OBVIOUS
<1>5. d # "overflow" /\ d # "lost" /\ d # "lifo" /\ d # "keeps"
  BY <1>4, Zenon
<1>6. Goes(d, s, 1, Nothing, Flags(1, <<>>, {}))
  <2>1. Goes(d, s, 1, Nothing, One(1, <<>>))
    BY <1>2, OneNew
  <2> QED BY <2>1, OneBox, Zenon
<1>7. Goes(d, s, 2, Flags(1, <<>>, {}), Flags(1, <<>>, {}))
  <2>1. Goes(d, s, 2, One(1, <<>>), One(1, <<>>))
    BY <1>2, OneNeed
  <2> QED BY <2>1, OneBox, Zenon
<1>8. Goes(d, s, 3, Flags(1, <<>>, {}), Flags(1, <<>>, {1}))
  <2>1. {} \cup {1} = {1}
    OBVIOUS
  <2> QED BY <1>2, <2>1, FlagSet, Zenon
<1>9. Goes(d, s, 4, Flags(1, <<>>, {1}), Flags(1, <<>>, {1}))
  <2>1. ~({1, 2} \subseteq {1}) /\ {1} # {}
    OBVIOUS
  <2>2. FlagAnswer(d, {1}) = 0
    BY <1>4, <1>5, <2>1, Zenon DEF FlagAnswer
  <2> QED BY <1>2, <2>2, FlagWait
<1>10. Goes(d, s, 5, Flags(1, <<>>, {1}), Flags(1, <<>>, {1, 2}))
  <2>1. {1} \cup {2} = {1, 2}
    OBVIOUS
  <2> QED BY <1>2, <2>1, FlagSet, Zenon
<1>11. Goes(d, s, 6, Flags(1, <<>>, {1, 2}), Flags(1, <<>>, {1, 2}))
  <2>1. ({1, 2} \subseteq {1, 2}) /\ {1, 2} # {}
    OBVIOUS
  <2>2. FlagAnswer(d, {1, 2}) = 1
    BY <1>4, <1>5, <2>1, Zenon DEF FlagAnswer
  <2> QED BY <1>2, <2>2, FlagWait
<1>12. /\ st[1] = Nothing
      /\ st[2] = Flags(1, <<>>, {})
      /\ st[3] = Flags(1, <<>>, {})
      /\ st[4] = Flags(1, <<>>, {1})
      /\ st[5] = Flags(1, <<>>, {1})
      /\ st[6] = Flags(1, <<>>, {1, 2})
      /\ st[7] = Flags(1, <<>>, {1, 2})
  BY <1>3
<1>13. ASSUME NEW i \in 1..6 PROVE Goes(d, s, i, st[i], st[i + 1])
  <2>1. Goes(d, s, 1, st[1], st[1 + 1])
    BY <1>6, <1>12
  <2>2. Goes(d, s, 2, st[2], st[2 + 1])
    BY <1>7, <1>12
  <2>3. Goes(d, s, 3, st[3], st[3 + 1])
    BY <1>8, <1>12
  <2>4. Goes(d, s, 4, st[4], st[4 + 1])
    BY <1>9, <1>12
  <2>5. Goes(d, s, 5, st[5], st[5 + 1])
    BY <1>10, <1>12
  <2>6. Goes(d, s, 6, st[6], st[6 + 1])
    BY <1>11, <1>12
  <2> QED BY <2>1, <2>2, <2>3, <2>4, <2>5, <2>6
<1>14. Follows(s, d, st, 7)
  BY <1>2, <1>12, <1>13 DEF Follows
<1> QED BY <1>1, <1>4, <1>14, Zenon

LEMMA QueueRuns ==
  \E st : Follows(Queue, "none", st, 13)
<1>1. PICK s : s = Queue
  OBVIOUS
<1>2. /\ Len(s) = 13
      /\ s[1] = New("a", 3, <<>>)
      /\ s[2] = Need
      /\ s[3] = Noted(Send("a", 1, 1))
      /\ s[4] = Noted(Send("a", 2, 1))
      /\ s[5] = Noted(Send("a", 3, 1))
      /\ s[6] = Noted(Send("a", 4, 0))
      /\ s[7] = Noted(Receive("a", 1))
      /\ s[8] = Noted(Send("a", 4, 1))
      /\ s[9] = Noted(Receive("a", 2))
      /\ s[10] = Noted(Receive("a", 3))
      /\ s[11] = Noted(Receive("a", 4))
      /\ s[12] = Noted(Receive("a", 0))
  BY <1>1, QueueCalls, Zenon
<1>3. PICK st :
        st = <<Nothing, One(3, <<>>), One(3, <<>>), One(3, <<1>>), One(3, <<1, 2>>),
              One(3, <<1, 2, 3>>), One(3, <<1, 2, 3>>), One(3, <<2, 3>>),
              One(3, <<2, 3, 4>>), One(3, <<3, 4>>), One(3, <<4>>), One(3, <<>>),
              One(3, <<>>)>>
  OBVIOUS
<1>4. PICK d : d = "none"
  OBVIOUS
<1>5. d # "overflow" /\ d # "lost" /\ d # "lifo" /\ d # "keeps"
  BY <1>4, Zenon
<1>6. Goes(d, s, 1, Nothing, One(3, <<>>))
  BY <1>2, OneNew
<1>7. Goes(d, s, 2, One(3, <<>>), One(3, <<>>))
  BY <1>2, OneNeed
<1>8. Goes(d, s, 3, One(3, <<>>), One(3, <<1>>))
  <2>1. PICK t : t = <<>>
    OBVIOUS
  <2>2. ~Crowded(3, t)
    BY <2>1 DEF Crowded
  <2>3. SendAnswer(d, 3, t) = 1 /\ Sent(d, 3, t, 1) = Append(t, 1)
    BY <1>5, <2>2, Room
  <2>4. Append(<<>>, 1) = <<1>>
    BY Appended, Zenon
  <2>5. SendAnswer(d, 3, <<>>) = 1 /\ Sent(d, 3, <<>>, 1) = <<1>>
    BY <2>1, <2>3, <2>4, Zenon
  <2> QED BY <1>2, <2>5, OneSend
<1>9. Goes(d, s, 4, One(3, <<1>>), One(3, <<1, 2>>))
  <2>1. PICK t : t = <<1>>
    OBVIOUS
  <2>2. ~Crowded(3, t)
    BY <2>1 DEF Crowded
  <2>3. SendAnswer(d, 3, t) = 1 /\ Sent(d, 3, t, 2) = Append(t, 2)
    BY <1>5, <2>2, Room
  <2>4. Append(<<1>>, 2) = <<1, 2>>
    BY Appended, Zenon
  <2>5. SendAnswer(d, 3, <<1>>) = 1 /\ Sent(d, 3, <<1>>, 2) = <<1, 2>>
    BY <2>1, <2>3, <2>4, Zenon
  <2> QED BY <1>2, <2>5, OneSend
<1>10. Goes(d, s, 5, One(3, <<1, 2>>), One(3, <<1, 2, 3>>))
  <2>1. PICK t : t = <<1, 2>>
    OBVIOUS
  <2>2. ~Crowded(3, t)
    BY <2>1 DEF Crowded
  <2>3. SendAnswer(d, 3, t) = 1 /\ Sent(d, 3, t, 3) = Append(t, 3)
    BY <1>5, <2>2, Room
  <2>4. Append(<<1, 2>>, 3) = <<1, 2, 3>>
    BY Appended, Zenon
  <2>5. SendAnswer(d, 3, <<1, 2>>) = 1 /\ Sent(d, 3, <<1, 2>>, 3) = <<1, 2, 3>>
    BY <2>1, <2>3, <2>4, Zenon
  <2> QED BY <1>2, <2>5, OneSend
<1>11. Goes(d, s, 6, One(3, <<1, 2, 3>>), One(3, <<1, 2, 3>>))
  <2>1. PICK t : t = <<1, 2, 3>>
    OBVIOUS
  <2>2. Crowded(3, t)
    BY <2>1 DEF Crowded
  <2>3. SendAnswer(d, 3, t) = 0 /\ Sent(d, 3, t, 4) = t
    BY <1>5, <2>2, NoRoom
  <2>5. SendAnswer(d, 3, <<1, 2, 3>>) = 0 /\ Sent(d, 3, <<1, 2, 3>>, 4) = <<1, 2, 3>>
    BY <2>1, <2>3, Zenon
  <2> QED BY <1>2, <2>5, OneSend
<1>12. Goes(d, s, 7, One(3, <<1, 2, 3>>), One(3, <<2, 3>>))
  <2>1. <<1, 2, 3>> # <<>> /\ <<1, 2, 3>>[1] = 1
    OBVIOUS
  <2>2. TakeAnswer(d, <<1, 2, 3>>) = 1 /\ Left(d, <<1, 2, 3>>) = Drop(<<1, 2, 3>>, 1)
    BY <1>5, <2>1, Takes, Zenon
  <2>3. Drop(<<1, 2, 3>>, 1) = <<2, 3>>
    BY DropThree, Zenon
  <2>4. TakeAnswer(d, <<1, 2, 3>>) = 1 /\ Left(d, <<1, 2, 3>>) = <<2, 3>>
    BY <2>2, <2>3, Zenon
  <2> QED BY <1>2, <2>4, OneReceive
<1>13. Goes(d, s, 8, One(3, <<2, 3>>), One(3, <<2, 3, 4>>))
  <2>1. PICK t : t = <<2, 3>>
    OBVIOUS
  <2>2. ~Crowded(3, t)
    BY <2>1 DEF Crowded
  <2>3. SendAnswer(d, 3, t) = 1 /\ Sent(d, 3, t, 4) = Append(t, 4)
    BY <1>5, <2>2, Room
  <2>4. Append(<<2, 3>>, 4) = <<2, 3, 4>>
    BY Appended, Zenon
  <2>5. SendAnswer(d, 3, <<2, 3>>) = 1 /\ Sent(d, 3, <<2, 3>>, 4) = <<2, 3, 4>>
    BY <2>1, <2>3, <2>4, Zenon
  <2> QED BY <1>2, <2>5, OneSend
<1>14. Goes(d, s, 9, One(3, <<2, 3, 4>>), One(3, <<3, 4>>))
  <2>1. <<2, 3, 4>> # <<>> /\ <<2, 3, 4>>[1] = 2
    OBVIOUS
  <2>2. TakeAnswer(d, <<2, 3, 4>>) = 2 /\ Left(d, <<2, 3, 4>>) = Drop(<<2, 3, 4>>, 1)
    BY <1>5, <2>1, Takes, Zenon
  <2>3. Drop(<<2, 3, 4>>, 1) = <<3, 4>>
    BY DropThree, Zenon
  <2>4. TakeAnswer(d, <<2, 3, 4>>) = 2 /\ Left(d, <<2, 3, 4>>) = <<3, 4>>
    BY <2>2, <2>3, Zenon
  <2> QED BY <1>2, <2>4, OneReceive
<1>15. Goes(d, s, 10, One(3, <<3, 4>>), One(3, <<4>>))
  <2>1. <<3, 4>> # <<>> /\ <<3, 4>>[1] = 3
    OBVIOUS
  <2>2. TakeAnswer(d, <<3, 4>>) = 3 /\ Left(d, <<3, 4>>) = Drop(<<3, 4>>, 1)
    BY <1>5, <2>1, Takes, Zenon
  <2>3. Drop(<<3, 4>>, 1) = <<4>>
    BY DropTwo, Zenon
  <2>4. TakeAnswer(d, <<3, 4>>) = 3 /\ Left(d, <<3, 4>>) = <<4>>
    BY <2>2, <2>3, Zenon
  <2> QED BY <1>2, <2>4, OneReceive
<1>16. Goes(d, s, 11, One(3, <<4>>), One(3, <<>>))
  <2>1. <<4>> # <<>> /\ <<4>>[1] = 4
    OBVIOUS
  <2>2. TakeAnswer(d, <<4>>) = 4 /\ Left(d, <<4>>) = Drop(<<4>>, 1)
    BY <1>5, <2>1, Takes, Zenon
  <2>3. Drop(<<4>>, 1) = <<>>
    BY DropOne, Zenon
  <2>4. TakeAnswer(d, <<4>>) = 4 /\ Left(d, <<4>>) = <<>>
    BY <2>2, <2>3, Zenon
  <2> QED BY <1>2, <2>4, OneReceive
<1>17. Goes(d, s, 12, One(3, <<>>), One(3, <<>>))
  <2>1. TakeAnswer(d, <<>>) = 0 /\ Left(d, <<>>) = <<>>
    BY <1>5, TakesNone, Zenon
  <2> QED BY <1>2, <2>1, OneReceive
<1>18. /\ st[1] = Nothing
      /\ st[2] = One(3, <<>>)
      /\ st[3] = One(3, <<>>)
      /\ st[4] = One(3, <<1>>)
      /\ st[5] = One(3, <<1, 2>>)
      /\ st[6] = One(3, <<1, 2, 3>>)
      /\ st[7] = One(3, <<1, 2, 3>>)
      /\ st[8] = One(3, <<2, 3>>)
      /\ st[9] = One(3, <<2, 3, 4>>)
      /\ st[10] = One(3, <<3, 4>>)
      /\ st[11] = One(3, <<4>>)
      /\ st[12] = One(3, <<>>)
      /\ st[13] = One(3, <<>>)
  BY <1>3
<1>19. ASSUME NEW i \in 1..12 PROVE Goes(d, s, i, st[i], st[i + 1])
  <2>1. Goes(d, s, 1, st[1], st[1 + 1])
    BY <1>6, <1>18
  <2>2. Goes(d, s, 2, st[2], st[2 + 1])
    BY <1>7, <1>18
  <2>3. Goes(d, s, 3, st[3], st[3 + 1])
    BY <1>8, <1>18
  <2>4. Goes(d, s, 4, st[4], st[4 + 1])
    BY <1>9, <1>18
  <2>5. Goes(d, s, 5, st[5], st[5 + 1])
    BY <1>10, <1>18
  <2>6. Goes(d, s, 6, st[6], st[6 + 1])
    BY <1>11, <1>18
  <2>7. Goes(d, s, 7, st[7], st[7 + 1])
    BY <1>12, <1>18
  <2>8. Goes(d, s, 8, st[8], st[8 + 1])
    BY <1>13, <1>18
  <2>9. Goes(d, s, 9, st[9], st[9 + 1])
    BY <1>14, <1>18
  <2>10. Goes(d, s, 10, st[10], st[10 + 1])
    BY <1>15, <1>18
  <2>11. Goes(d, s, 11, st[11], st[11 + 1])
    BY <1>16, <1>18
  <2>12. Goes(d, s, 12, st[12], st[12 + 1])
    BY <1>17, <1>18
  <2> QED BY <2>1, <2>2, <2>3, <2>4, <2>5, <2>6, <2>7, <2>8, <2>9, <2>10, <2>11, <2>12
<1>20. Follows(s, d, st, 13)
  BY <1>2, <1>18, <1>19 DEF Follows
<1> QED BY <1>1, <1>4, <1>20, Zenon

LEMMA MailboxRuns ==
  \E st : Follows(Mailbox, "none", st, 7)
<1>1. PICK s : s = Mailbox
  OBVIOUS
<1>2. /\ Len(s) = 7
      /\ s[1] = New("a", 1, <<>>)
      /\ s[2] = Need
      /\ s[3] = Overwrite("a", 1, 1)
      /\ s[4] = Overwrite("a", 2, 1)
      /\ s[5] = Noted(Receive("a", 2))
      /\ s[6] = Noted(Receive("a", 0))
  BY <1>1, MailboxCalls, Zenon
<1>3. PICK st :
        st = <<Nothing, One(1, <<>>), One(1, <<>>), One(1, <<1>>), One(1, <<2>>),
              One(1, <<>>), One(1, <<>>)>>
  OBVIOUS
<1>4. PICK d : d = "none"
  OBVIOUS
<1>5. d # "overflow" /\ d # "lost" /\ d # "lifo" /\ d # "keeps"
  BY <1>4, Zenon
<1>6. Goes(d, s, 1, Nothing, One(1, <<>>))
  BY <1>2, OneNew
<1>7. Goes(d, s, 2, One(1, <<>>), One(1, <<>>))
  BY <1>2, OneNeed
<1>8. Goes(d, s, 3, One(1, <<>>), One(1, <<1>>))
  <2>1. Len(<<>>) = 0 /\ ~(0 >= 1)
    OBVIOUS
  <2>2. Overwritten(d, 1, <<>>, 1) = <<1>>
    BY <1>4, <1>5, <2>1, Zenon DEF Overwritten
  <2> QED BY <1>2, <2>2, OneOverwrite
<1>9. Goes(d, s, 4, One(1, <<1>>), One(1, <<2>>))
  <2>1. Len(<<1>>) = 1 /\ (1 >= 1)
    OBVIOUS
  <2>2. Overwritten(d, 1, <<1>>, 2) = <<2>>
    BY <1>4, <1>5, <2>1, Zenon DEF Overwritten
  <2> QED BY <1>2, <2>2, OneOverwrite
<1>10. Goes(d, s, 5, One(1, <<2>>), One(1, <<>>))
  <2>1. <<2>> # <<>> /\ <<2>>[1] = 2
    OBVIOUS
  <2>2. TakeAnswer(d, <<2>>) = 2 /\ Left(d, <<2>>) = Drop(<<2>>, 1)
    BY <1>5, <2>1, Takes, Zenon
  <2>3. Drop(<<2>>, 1) = <<>>
    BY DropOne, Zenon
  <2>4. TakeAnswer(d, <<2>>) = 2 /\ Left(d, <<2>>) = <<>>
    BY <2>2, <2>3, Zenon
  <2> QED BY <1>2, <2>4, OneReceive
<1>11. Goes(d, s, 6, One(1, <<>>), One(1, <<>>))
  <2>1. TakeAnswer(d, <<>>) = 0 /\ Left(d, <<>>) = <<>>
    BY <1>5, TakesNone, Zenon
  <2> QED BY <1>2, <2>1, OneReceive
<1>12. /\ st[1] = Nothing
      /\ st[2] = One(1, <<>>)
      /\ st[3] = One(1, <<>>)
      /\ st[4] = One(1, <<1>>)
      /\ st[5] = One(1, <<2>>)
      /\ st[6] = One(1, <<>>)
      /\ st[7] = One(1, <<>>)
  BY <1>3
<1>13. ASSUME NEW i \in 1..6 PROVE Goes(d, s, i, st[i], st[i + 1])
  <2>1. Goes(d, s, 1, st[1], st[1 + 1])
    BY <1>6, <1>12
  <2>2. Goes(d, s, 2, st[2], st[2 + 1])
    BY <1>7, <1>12
  <2>3. Goes(d, s, 3, st[3], st[3 + 1])
    BY <1>8, <1>12
  <2>4. Goes(d, s, 4, st[4], st[4 + 1])
    BY <1>9, <1>12
  <2>5. Goes(d, s, 5, st[5], st[5 + 1])
    BY <1>10, <1>12
  <2>6. Goes(d, s, 6, st[6], st[6 + 1])
    BY <1>11, <1>12
  <2> QED BY <2>1, <2>2, <2>3, <2>4, <2>5, <2>6
<1>14. Follows(s, d, st, 7)
  BY <1>2, <1>12, <1>13 DEF Follows
<1> QED BY <1>1, <1>4, <1>14, Zenon

LEMMA MaximumQueueRuns ==
  \E st : Follows(MaximumQueue, "none", st, 7)
<1>1. PICK s : s = MaximumQueue
  OBVIOUS
<1>2. /\ Len(s) = 7
      /\ s[1] = New("a", 3, <<>>)
      /\ s[2] = Need
      /\ s[3] = Send("a", 1, 1)
      /\ s[4] = Send("a", 2, 1)
      /\ s[5] = Send("a", 3, 1)
      /\ s[6] = Send("a", 4, 0)
  BY <1>1, MaximumQueueCalls, Zenon
<1>3. PICK st :
        st = <<Nothing, One(3, <<>>), One(3, <<>>), One(3, <<1>>), One(3, <<1, 2>>),
              One(3, <<1, 2, 3>>), One(3, <<1, 2, 3>>)>>
  OBVIOUS
<1>4. PICK d : d = "none"
  OBVIOUS
<1>5. d # "overflow" /\ d # "lost" /\ d # "lifo" /\ d # "keeps"
  BY <1>4, Zenon
<1>6. Goes(d, s, 1, Nothing, One(3, <<>>))
  BY <1>2, OneNew
<1>7. Goes(d, s, 2, One(3, <<>>), One(3, <<>>))
  BY <1>2, OneNeed
<1>8. Goes(d, s, 3, One(3, <<>>), One(3, <<1>>))
  <2>1. PICK t : t = <<>>
    OBVIOUS
  <2>2. ~Crowded(3, t)
    BY <2>1 DEF Crowded
  <2>3. SendAnswer(d, 3, t) = 1 /\ Sent(d, 3, t, 1) = Append(t, 1)
    BY <1>5, <2>2, Room
  <2>4. Append(<<>>, 1) = <<1>>
    BY Appended, Zenon
  <2>5. SendAnswer(d, 3, <<>>) = 1 /\ Sent(d, 3, <<>>, 1) = <<1>>
    BY <2>1, <2>3, <2>4, Zenon
  <2> QED BY <1>2, <2>5, OneSend
<1>9. Goes(d, s, 4, One(3, <<1>>), One(3, <<1, 2>>))
  <2>1. PICK t : t = <<1>>
    OBVIOUS
  <2>2. ~Crowded(3, t)
    BY <2>1 DEF Crowded
  <2>3. SendAnswer(d, 3, t) = 1 /\ Sent(d, 3, t, 2) = Append(t, 2)
    BY <1>5, <2>2, Room
  <2>4. Append(<<1>>, 2) = <<1, 2>>
    BY Appended, Zenon
  <2>5. SendAnswer(d, 3, <<1>>) = 1 /\ Sent(d, 3, <<1>>, 2) = <<1, 2>>
    BY <2>1, <2>3, <2>4, Zenon
  <2> QED BY <1>2, <2>5, OneSend
<1>10. Goes(d, s, 5, One(3, <<1, 2>>), One(3, <<1, 2, 3>>))
  <2>1. PICK t : t = <<1, 2>>
    OBVIOUS
  <2>2. ~Crowded(3, t)
    BY <2>1 DEF Crowded
  <2>3. SendAnswer(d, 3, t) = 1 /\ Sent(d, 3, t, 3) = Append(t, 3)
    BY <1>5, <2>2, Room
  <2>4. Append(<<1, 2>>, 3) = <<1, 2, 3>>
    BY Appended, Zenon
  <2>5. SendAnswer(d, 3, <<1, 2>>) = 1 /\ Sent(d, 3, <<1, 2>>, 3) = <<1, 2, 3>>
    BY <2>1, <2>3, <2>4, Zenon
  <2> QED BY <1>2, <2>5, OneSend
<1>11. Goes(d, s, 6, One(3, <<1, 2, 3>>), One(3, <<1, 2, 3>>))
  <2>1. PICK t : t = <<1, 2, 3>>
    OBVIOUS
  <2>2. Crowded(3, t)
    BY <2>1 DEF Crowded
  <2>3. SendAnswer(d, 3, t) = 0 /\ Sent(d, 3, t, 4) = t
    BY <1>5, <2>2, NoRoom
  <2>5. SendAnswer(d, 3, <<1, 2, 3>>) = 0 /\ Sent(d, 3, <<1, 2, 3>>, 4) = <<1, 2, 3>>
    BY <2>1, <2>3, Zenon
  <2> QED BY <1>2, <2>5, OneSend
<1>12. /\ st[1] = Nothing
      /\ st[2] = One(3, <<>>)
      /\ st[3] = One(3, <<>>)
      /\ st[4] = One(3, <<1>>)
      /\ st[5] = One(3, <<1, 2>>)
      /\ st[6] = One(3, <<1, 2, 3>>)
      /\ st[7] = One(3, <<1, 2, 3>>)
  BY <1>3
<1>13. ASSUME NEW i \in 1..6 PROVE Goes(d, s, i, st[i], st[i + 1])
  <2>1. Goes(d, s, 1, st[1], st[1 + 1])
    BY <1>6, <1>12
  <2>2. Goes(d, s, 2, st[2], st[2 + 1])
    BY <1>7, <1>12
  <2>3. Goes(d, s, 3, st[3], st[3 + 1])
    BY <1>8, <1>12
  <2>4. Goes(d, s, 4, st[4], st[4 + 1])
    BY <1>9, <1>12
  <2>5. Goes(d, s, 5, st[5], st[5 + 1])
    BY <1>10, <1>12
  <2>6. Goes(d, s, 6, st[6], st[6 + 1])
    BY <1>11, <1>12
  <2> QED BY <2>1, <2>2, <2>3, <2>4, <2>5, <2>6
<1>14. Follows(s, d, st, 7)
  BY <1>2, <1>12, <1>13 DEF Follows
<1> QED BY <1>1, <1>4, <1>14, Zenon

LEMMA ErrorBranchRuns ==
  \E st : Follows(ErrorBranch, "none", st, 5)
<1>1. PICK s : s = ErrorBranch
  OBVIOUS
<1>2. /\ Len(s) = 5
      /\ s[1] = New("a", 1, <<>>)
      /\ s[2] = Need
      /\ s[3] = Send("a", 1, 1)
      /\ s[4] = Send("a", 2, 0)
  BY <1>1, ErrorBranchCalls, Zenon
<1>3. PICK st :
        st = <<Nothing, One(1, <<>>), One(1, <<>>), One(1, <<1>>), One(1, <<1>>)>>
  OBVIOUS
<1>4. PICK d : d = "none"
  OBVIOUS
<1>5. d # "overflow" /\ d # "lost" /\ d # "lifo" /\ d # "keeps"
  BY <1>4, Zenon
<1>6. Goes(d, s, 1, Nothing, One(1, <<>>))
  BY <1>2, OneNew
<1>7. Goes(d, s, 2, One(1, <<>>), One(1, <<>>))
  BY <1>2, OneNeed
<1>8. Goes(d, s, 3, One(1, <<>>), One(1, <<1>>))
  <2>1. PICK t : t = <<>>
    OBVIOUS
  <2>2. ~Crowded(1, t)
    BY <2>1 DEF Crowded
  <2>3. SendAnswer(d, 1, t) = 1 /\ Sent(d, 1, t, 1) = Append(t, 1)
    BY <1>5, <2>2, Room
  <2>4. Append(<<>>, 1) = <<1>>
    BY Appended, Zenon
  <2>5. SendAnswer(d, 1, <<>>) = 1 /\ Sent(d, 1, <<>>, 1) = <<1>>
    BY <2>1, <2>3, <2>4, Zenon
  <2> QED BY <1>2, <2>5, OneSend
<1>9. Goes(d, s, 4, One(1, <<1>>), One(1, <<1>>))
  <2>1. PICK t : t = <<1>>
    OBVIOUS
  <2>2. Crowded(1, t)
    BY <2>1 DEF Crowded
  <2>3. SendAnswer(d, 1, t) = 0 /\ Sent(d, 1, t, 2) = t
    BY <1>5, <2>2, NoRoom
  <2>5. SendAnswer(d, 1, <<1>>) = 0 /\ Sent(d, 1, <<1>>, 2) = <<1>>
    BY <2>1, <2>3, Zenon
  <2> QED BY <1>2, <2>5, OneSend
<1>10. /\ st[1] = Nothing
      /\ st[2] = One(1, <<>>)
      /\ st[3] = One(1, <<>>)
      /\ st[4] = One(1, <<1>>)
      /\ st[5] = One(1, <<1>>)
  BY <1>3
<1>11. ASSUME NEW i \in 1..4 PROVE Goes(d, s, i, st[i], st[i + 1])
  <2>1. Goes(d, s, 1, st[1], st[1 + 1])
    BY <1>6, <1>10
  <2>2. Goes(d, s, 2, st[2], st[2 + 1])
    BY <1>7, <1>10
  <2>3. Goes(d, s, 3, st[3], st[3 + 1])
    BY <1>8, <1>10
  <2>4. Goes(d, s, 4, st[4], st[4 + 1])
    BY <1>9, <1>10
  <2> QED BY <2>1, <2>2, <2>3, <2>4
<1>12. Follows(s, d, st, 5)
  BY <1>2, <1>10, <1>11 DEF Follows
<1> QED BY <1>1, <1>4, <1>12, Zenon

LEMMA OverflowNoticed ==
  \E st : Notices(ErrorBranch, "overflow", st, 4)
<1>1. PICK s : s = ErrorBranch
  OBVIOUS
<1>2. /\ Len(s) = 5
      /\ s[1] = New("a", 1, <<>>)
      /\ s[2] = Need
      /\ s[3] = Send("a", 1, 1)
      /\ s[4] = Send("a", 2, 0)
  BY <1>1, ErrorBranchCalls, Zenon
<1>3. PICK st :
        st = <<Nothing, One(1, <<>>), One(1, <<>>), One(1, <<1>>)>>
  OBVIOUS
<1>4. PICK d : d = "overflow"
  OBVIOUS
<1>5. d = "overflow" /\ d # "lost" /\ d # "lifo" /\ d # "keeps"
  BY <1>4, Zenon
<1>6. Goes(d, s, 1, Nothing, One(1, <<>>))
  BY <1>2, OneNew
<1>7. Goes(d, s, 2, One(1, <<>>), One(1, <<>>))
  BY <1>2, OneNeed
<1>8. Goes(d, s, 3, One(1, <<>>), One(1, <<1>>))
  <2>1. PICK t : t = <<>>
    OBVIOUS
  <2>2. ~Crowded(1, t)
    BY <2>1 DEF Crowded
  <2>3. SendAnswer(d, 1, t) = 1 /\ Sent(d, 1, t, 1) = Append(t, 1)
    BY <1>5, <2>2, Room
  <2>4. Append(<<>>, 1) = <<1>>
    BY Appended, Zenon
  <2>5. SendAnswer(d, 1, <<>>) = 1 /\ Sent(d, 1, <<>>, 1) = <<1>>
    BY <2>1, <2>3, <2>4, Zenon
  <2> QED BY <1>2, <2>5, OneSend
<1>9. Balks(d, s, 4, One(1, <<1>>))
  <2>1. PICK t : t = <<1>>
    OBVIOUS
  <2>2. Crowded(1, t)
    BY <2>1 DEF Crowded
  <2>3. SendAnswer(d, 1, t) = 1
    BY <1>5, <2>2, Overflows
  <2>4. 0 # ANY /\ 0 # SendAnswer(d, 1, t)
    BY <2>3 DEF ANY
  <2>5. s[4] = Send("a", 2, 0) \/ s[4] = Noted(Send("a", 2, 0))
    BY <1>2
  <2>6. Balks(d, s, 4, One(1, t))
    BY <2>4, <2>5, OneSend
  <2> QED BY <2>1, <2>6, Zenon
<1>10. /\ st[1] = Nothing
      /\ st[2] = One(1, <<>>)
      /\ st[3] = One(1, <<>>)
      /\ st[4] = One(1, <<1>>)
  BY <1>3
<1>11. ASSUME NEW i \in 1..3 PROVE Goes(d, s, i, st[i], st[i + 1])
  <2>1. Goes(d, s, 1, st[1], st[1 + 1])
    BY <1>6, <1>10
  <2>2. Goes(d, s, 2, st[2], st[2 + 1])
    BY <1>7, <1>10
  <2>3. Goes(d, s, 3, st[3], st[3 + 1])
    BY <1>8, <1>10
  <2> QED BY <2>1, <2>2, <2>3
<1>12. Follows(s, d, st, 4)
  BY <1>2, <1>10, <1>11 DEF Follows
<1>13. Balks(d, s, 4, st[4])
  BY <1>9, <1>10, Zenon
<1> QED BY <1>1, <1>4, <1>12, <1>13, Zenon DEF Notices

LEMMA LostNoticed ==
  \E st : Notices(IsrToTask, "lost", st, 6)
<1>1. PICK s : s = IsrToTask
  OBVIOUS
<1>2. /\ Len(s) = 8
      /\ s[1] = New("a", 1, <<>>)
      /\ s[2] = New("b", 4, <<>>)
      /\ s[3] = Need
      /\ s[4] = Send("a", 1, 1)
      /\ s[5] = Send("b", 7, 1)
      /\ s[6] = Receive("a", 1)
  BY <1>1, IsrToTaskCalls, Zenon
<1>3. PICK st :
        st = <<Nothing, One(1, <<>>), Two(1, <<>>, 4, <<>>), Two(1, <<>>, 4, <<>>),
              Two(1, <<>>, 4, <<>>), Two(1, <<>>, 4, <<>>)>>
  OBVIOUS
<1>4. PICK d : d = "lost"
  OBVIOUS
<1>5. d # "overflow" /\ d = "lost" /\ d # "lifo" /\ d # "keeps"
  BY <1>4, Zenon
<1>6. Goes(d, s, 1, Nothing, One(1, <<>>))
  BY <1>2, OneNew
<1>7. Goes(d, s, 2, One(1, <<>>), Two(1, <<>>, 4, <<>>))
  BY <1>2, TwoNew
<1>8. Goes(d, s, 3, Two(1, <<>>, 4, <<>>), Two(1, <<>>, 4, <<>>))
  BY <1>2, TwoNeed
<1>9. Goes(d, s, 4, Two(1, <<>>, 4, <<>>), Two(1, <<>>, 4, <<>>))
  <2>1. PICK t : t = <<>>
    OBVIOUS
  <2>2. ~Crowded(1, t)
    BY <2>1 DEF Crowded
  <2>3. SendAnswer(d, 1, t) = 1 /\ Sent(d, 1, t, 1) = t
    BY <1>5, <2>2, Loses
  <2>5. SendAnswer(d, 1, <<>>) = 1 /\ Sent(d, 1, <<>>, 1) = <<>>
    BY <2>1, <2>3, Zenon
  <2> QED BY <1>2, <2>5, TwoSend
<1>10. Goes(d, s, 5, Two(1, <<>>, 4, <<>>), Two(1, <<>>, 4, <<>>))
  <2>1. PICK t : t = <<>>
    OBVIOUS
  <2>2. ~Crowded(4, t)
    BY <2>1 DEF Crowded
  <2>3. SendAnswer(d, 4, t) = 1 /\ Sent(d, 4, t, 7) = t
    BY <1>5, <2>2, Loses
  <2>5. SendAnswer(d, 4, <<>>) = 1 /\ Sent(d, 4, <<>>, 7) = <<>>
    BY <2>1, <2>3, Zenon
  <2> QED BY <1>2, <2>5, TwoSend
<1>11. Balks(d, s, 6, Two(1, <<>>, 4, <<>>))
  <2>1. TakeAnswer(d, <<>>) = 0
    BY <1>5, TakesNone, Zenon
  <2>2. 1 # ANY /\ 1 # TakeAnswer(d, <<>>)
    BY <2>1 DEF ANY
  <2> QED BY <1>2, <2>2, TwoReceive, Zenon
<1>12. /\ st[1] = Nothing
      /\ st[2] = One(1, <<>>)
      /\ st[3] = Two(1, <<>>, 4, <<>>)
      /\ st[4] = Two(1, <<>>, 4, <<>>)
      /\ st[5] = Two(1, <<>>, 4, <<>>)
      /\ st[6] = Two(1, <<>>, 4, <<>>)
  BY <1>3
<1>13. ASSUME NEW i \in 1..5 PROVE Goes(d, s, i, st[i], st[i + 1])
  <2>1. Goes(d, s, 1, st[1], st[1 + 1])
    BY <1>6, <1>12
  <2>2. Goes(d, s, 2, st[2], st[2 + 1])
    BY <1>7, <1>12
  <2>3. Goes(d, s, 3, st[3], st[3 + 1])
    BY <1>8, <1>12
  <2>4. Goes(d, s, 4, st[4], st[4 + 1])
    BY <1>9, <1>12
  <2>5. Goes(d, s, 5, st[5], st[5 + 1])
    BY <1>10, <1>12
  <2> QED BY <2>1, <2>2, <2>3, <2>4, <2>5
<1>14. Follows(s, d, st, 6)
  BY <1>2, <1>12, <1>13 DEF Follows
<1>15. Balks(d, s, 6, st[6])
  BY <1>11, <1>12, Zenon
<1> QED BY <1>1, <1>4, <1>14, <1>15, Zenon DEF Notices

LEMMA StaleNoticed ==
  \E st : Notices(Mailbox, "stale", st, 5)
<1>1. PICK s : s = Mailbox
  OBVIOUS
<1>2. /\ Len(s) = 7
      /\ s[1] = New("a", 1, <<>>)
      /\ s[2] = Need
      /\ s[3] = Overwrite("a", 1, 1)
      /\ s[4] = Overwrite("a", 2, 1)
      /\ s[5] = Noted(Receive("a", 2))
  BY <1>1, MailboxCalls, Zenon
<1>3. PICK st :
        st = <<Nothing, One(1, <<>>), One(1, <<>>), One(1, <<1>>), One(1, <<1>>)>>
  OBVIOUS
<1>4. PICK d : d = "stale"
  OBVIOUS
<1>5. d # "overflow" /\ d # "lost" /\ d # "lifo" /\ d # "keeps"
  BY <1>4, Zenon
<1>6. Goes(d, s, 1, Nothing, One(1, <<>>))
  BY <1>2, OneNew
<1>7. Goes(d, s, 2, One(1, <<>>), One(1, <<>>))
  BY <1>2, OneNeed
<1>8. Goes(d, s, 3, One(1, <<>>), One(1, <<1>>))
  <2>1. Len(<<>>) = 0 /\ ~(0 >= 1)
    OBVIOUS
  <2>2. Overwritten(d, 1, <<>>, 1) = <<1>>
    BY <1>4, <1>5, <2>1, Zenon DEF Overwritten
  <2> QED BY <1>2, <2>2, OneOverwrite
<1>9. Goes(d, s, 4, One(1, <<1>>), One(1, <<1>>))
  <2>1. Len(<<1>>) = 1 /\ (1 >= 1)
    OBVIOUS
  <2>2. Overwritten(d, 1, <<1>>, 2) = <<1>>
    BY <1>4, <1>5, <2>1, Zenon DEF Overwritten
  <2> QED BY <1>2, <2>2, OneOverwrite
<1>10. Balks(d, s, 5, One(1, <<1>>))
  <2>1. <<1>> # <<>> /\ <<1>>[1] = 1
    OBVIOUS
  <2>2. TakeAnswer(d, <<1>>) = 1
    BY <1>5, <2>1, Takes, Zenon
  <2>3. 2 # ANY /\ 2 # TakeAnswer(d, <<1>>)
    BY <2>2 DEF ANY
  <2> QED BY <1>2, <2>3, OneReceive, Zenon
<1>11. /\ st[1] = Nothing
      /\ st[2] = One(1, <<>>)
      /\ st[3] = One(1, <<>>)
      /\ st[4] = One(1, <<1>>)
      /\ st[5] = One(1, <<1>>)
  BY <1>3
<1>12. ASSUME NEW i \in 1..4 PROVE Goes(d, s, i, st[i], st[i + 1])
  <2>1. Goes(d, s, 1, st[1], st[1 + 1])
    BY <1>6, <1>11
  <2>2. Goes(d, s, 2, st[2], st[2 + 1])
    BY <1>7, <1>11
  <2>3. Goes(d, s, 3, st[3], st[3 + 1])
    BY <1>8, <1>11
  <2>4. Goes(d, s, 4, st[4], st[4 + 1])
    BY <1>9, <1>11
  <2> QED BY <2>1, <2>2, <2>3, <2>4
<1>13. Follows(s, d, st, 5)
  BY <1>2, <1>11, <1>12 DEF Follows
<1>14. Balks(d, s, 5, st[5])
  BY <1>10, <1>11, Zenon
<1> QED BY <1>1, <1>4, <1>13, <1>14, Zenon DEF Notices

LEMMA LifoNoticed ==
  \E st : Notices(Queue, "lifo", st, 7)
<1>1. PICK s : s = Queue
  OBVIOUS
<1>2. /\ Len(s) = 13
      /\ s[1] = New("a", 3, <<>>)
      /\ s[2] = Need
      /\ s[3] = Noted(Send("a", 1, 1))
      /\ s[4] = Noted(Send("a", 2, 1))
      /\ s[5] = Noted(Send("a", 3, 1))
      /\ s[6] = Noted(Send("a", 4, 0))
      /\ s[7] = Noted(Receive("a", 1))
  BY <1>1, QueueCalls, Zenon
<1>3. PICK st :
        st = <<Nothing, One(3, <<>>), One(3, <<>>), One(3, <<1>>), One(3, <<1, 2>>),
              One(3, <<1, 2, 3>>), One(3, <<1, 2, 3>>)>>
  OBVIOUS
<1>4. PICK d : d = "lifo"
  OBVIOUS
<1>5. d # "overflow" /\ d # "lost" /\ d = "lifo" /\ d # "keeps"
  BY <1>4, Zenon
<1>6. Goes(d, s, 1, Nothing, One(3, <<>>))
  BY <1>2, OneNew
<1>7. Goes(d, s, 2, One(3, <<>>), One(3, <<>>))
  BY <1>2, OneNeed
<1>8. Goes(d, s, 3, One(3, <<>>), One(3, <<1>>))
  <2>1. PICK t : t = <<>>
    OBVIOUS
  <2>2. ~Crowded(3, t)
    BY <2>1 DEF Crowded
  <2>3. SendAnswer(d, 3, t) = 1 /\ Sent(d, 3, t, 1) = Append(t, 1)
    BY <1>5, <2>2, Room
  <2>4. Append(<<>>, 1) = <<1>>
    BY Appended, Zenon
  <2>5. SendAnswer(d, 3, <<>>) = 1 /\ Sent(d, 3, <<>>, 1) = <<1>>
    BY <2>1, <2>3, <2>4, Zenon
  <2> QED BY <1>2, <2>5, OneSend
<1>9. Goes(d, s, 4, One(3, <<1>>), One(3, <<1, 2>>))
  <2>1. PICK t : t = <<1>>
    OBVIOUS
  <2>2. ~Crowded(3, t)
    BY <2>1 DEF Crowded
  <2>3. SendAnswer(d, 3, t) = 1 /\ Sent(d, 3, t, 2) = Append(t, 2)
    BY <1>5, <2>2, Room
  <2>4. Append(<<1>>, 2) = <<1, 2>>
    BY Appended, Zenon
  <2>5. SendAnswer(d, 3, <<1>>) = 1 /\ Sent(d, 3, <<1>>, 2) = <<1, 2>>
    BY <2>1, <2>3, <2>4, Zenon
  <2> QED BY <1>2, <2>5, OneSend
<1>10. Goes(d, s, 5, One(3, <<1, 2>>), One(3, <<1, 2, 3>>))
  <2>1. PICK t : t = <<1, 2>>
    OBVIOUS
  <2>2. ~Crowded(3, t)
    BY <2>1 DEF Crowded
  <2>3. SendAnswer(d, 3, t) = 1 /\ Sent(d, 3, t, 3) = Append(t, 3)
    BY <1>5, <2>2, Room
  <2>4. Append(<<1, 2>>, 3) = <<1, 2, 3>>
    BY Appended, Zenon
  <2>5. SendAnswer(d, 3, <<1, 2>>) = 1 /\ Sent(d, 3, <<1, 2>>, 3) = <<1, 2, 3>>
    BY <2>1, <2>3, <2>4, Zenon
  <2> QED BY <1>2, <2>5, OneSend
<1>11. Goes(d, s, 6, One(3, <<1, 2, 3>>), One(3, <<1, 2, 3>>))
  <2>1. PICK t : t = <<1, 2, 3>>
    OBVIOUS
  <2>2. Crowded(3, t)
    BY <2>1 DEF Crowded
  <2>3. SendAnswer(d, 3, t) = 0 /\ Sent(d, 3, t, 4) = t
    BY <1>5, <2>2, NoRoom
  <2>5. SendAnswer(d, 3, <<1, 2, 3>>) = 0 /\ Sent(d, 3, <<1, 2, 3>>, 4) = <<1, 2, 3>>
    BY <2>1, <2>3, Zenon
  <2> QED BY <1>2, <2>5, OneSend
<1>12. Balks(d, s, 7, One(3, <<1, 2, 3>>))
  <2>1. <<1, 2, 3>> # <<>> /\ Len(<<1, 2, 3>>) = 3 /\ <<1, 2, 3>>[3] = 3
    OBVIOUS
  <2>2. TakeAnswer(d, <<1, 2, 3>>) = 3
    BY <1>5, <2>1, TakesLast, Zenon
  <2>3. 1 # ANY /\ 1 # TakeAnswer(d, <<1, 2, 3>>)
    BY <2>2 DEF ANY
  <2> QED BY <1>2, <2>3, OneReceive, Zenon
<1>13. /\ st[1] = Nothing
      /\ st[2] = One(3, <<>>)
      /\ st[3] = One(3, <<>>)
      /\ st[4] = One(3, <<1>>)
      /\ st[5] = One(3, <<1, 2>>)
      /\ st[6] = One(3, <<1, 2, 3>>)
      /\ st[7] = One(3, <<1, 2, 3>>)
  BY <1>3
<1>14. ASSUME NEW i \in 1..6 PROVE Goes(d, s, i, st[i], st[i + 1])
  <2>1. Goes(d, s, 1, st[1], st[1 + 1])
    BY <1>6, <1>13
  <2>2. Goes(d, s, 2, st[2], st[2 + 1])
    BY <1>7, <1>13
  <2>3. Goes(d, s, 3, st[3], st[3 + 1])
    BY <1>8, <1>13
  <2>4. Goes(d, s, 4, st[4], st[4 + 1])
    BY <1>9, <1>13
  <2>5. Goes(d, s, 5, st[5], st[5 + 1])
    BY <1>10, <1>13
  <2>6. Goes(d, s, 6, st[6], st[6 + 1])
    BY <1>11, <1>13
  <2> QED BY <2>1, <2>2, <2>3, <2>4, <2>5, <2>6
<1>15. Follows(s, d, st, 7)
  BY <1>2, <1>13, <1>14 DEF Follows
<1>16. Balks(d, s, 7, st[7])
  BY <1>12, <1>13, Zenon
<1> QED BY <1>1, <1>4, <1>15, <1>16, Zenon DEF Notices

LEMMA KeepsNoticed ==
  \E st : Notices(Mailbox, "keeps", st, 6)
<1>1. PICK s : s = Mailbox
  OBVIOUS
<1>2. /\ Len(s) = 7
      /\ s[1] = New("a", 1, <<>>)
      /\ s[2] = Need
      /\ s[3] = Overwrite("a", 1, 1)
      /\ s[4] = Overwrite("a", 2, 1)
      /\ s[5] = Noted(Receive("a", 2))
      /\ s[6] = Noted(Receive("a", 0))
  BY <1>1, MailboxCalls, Zenon
<1>3. PICK st :
        st = <<Nothing, One(1, <<>>), One(1, <<>>), One(1, <<1>>), One(1, <<2>>),
              One(1, <<2>>)>>
  OBVIOUS
<1>4. PICK d : d = "keeps"
  OBVIOUS
<1>5. d # "overflow" /\ d # "lost" /\ d # "lifo" /\ d = "keeps"
  BY <1>4, Zenon
<1>6. Goes(d, s, 1, Nothing, One(1, <<>>))
  BY <1>2, OneNew
<1>7. Goes(d, s, 2, One(1, <<>>), One(1, <<>>))
  BY <1>2, OneNeed
<1>8. Goes(d, s, 3, One(1, <<>>), One(1, <<1>>))
  <2>1. Len(<<>>) = 0 /\ ~(0 >= 1)
    OBVIOUS
  <2>2. Overwritten(d, 1, <<>>, 1) = <<1>>
    BY <1>4, <1>5, <2>1, Zenon DEF Overwritten
  <2> QED BY <1>2, <2>2, OneOverwrite
<1>9. Goes(d, s, 4, One(1, <<1>>), One(1, <<2>>))
  <2>1. Len(<<1>>) = 1 /\ (1 >= 1)
    OBVIOUS
  <2>2. Overwritten(d, 1, <<1>>, 2) = <<2>>
    BY <1>4, <1>5, <2>1, Zenon DEF Overwritten
  <2> QED BY <1>2, <2>2, OneOverwrite
<1>10. Goes(d, s, 5, One(1, <<2>>), One(1, <<2>>))
  <2>1. <<2>> # <<>> /\ <<2>>[1] = 2
    OBVIOUS
  <2>2. TakeAnswer(d, <<2>>) = 2 /\ Left(d, <<2>>) = <<2>>
    BY <1>5, <2>1, Keeps, Zenon
  <2> QED BY <1>2, <2>2, OneReceive
<1>11. Balks(d, s, 6, One(1, <<2>>))
  <2>1. <<2>> # <<>> /\ <<2>>[1] = 2
    OBVIOUS
  <2>2. TakeAnswer(d, <<2>>) = 2
    BY <1>5, <2>1, Keeps, Zenon
  <2>3. 0 # ANY /\ 0 # TakeAnswer(d, <<2>>)
    BY <2>2 DEF ANY
  <2> QED BY <1>2, <2>3, OneReceive, Zenon
<1>12. /\ st[1] = Nothing
      /\ st[2] = One(1, <<>>)
      /\ st[3] = One(1, <<>>)
      /\ st[4] = One(1, <<1>>)
      /\ st[5] = One(1, <<2>>)
      /\ st[6] = One(1, <<2>>)
  BY <1>3
<1>13. ASSUME NEW i \in 1..5 PROVE Goes(d, s, i, st[i], st[i + 1])
  <2>1. Goes(d, s, 1, st[1], st[1 + 1])
    BY <1>6, <1>12
  <2>2. Goes(d, s, 2, st[2], st[2 + 1])
    BY <1>7, <1>12
  <2>3. Goes(d, s, 3, st[3], st[3 + 1])
    BY <1>8, <1>12
  <2>4. Goes(d, s, 4, st[4], st[4 + 1])
    BY <1>9, <1>12
  <2>5. Goes(d, s, 5, st[5], st[5 + 1])
    BY <1>10, <1>12
  <2> QED BY <2>1, <2>2, <2>3, <2>4, <2>5
<1>14. Follows(s, d, st, 6)
  BY <1>2, <1>12, <1>13 DEF Follows
<1>15. Balks(d, s, 6, st[6])
  BY <1>11, <1>12, Zenon
<1> QED BY <1>1, <1>4, <1>14, <1>15, Zenon DEF Notices

LEMMA AnyNoticed ==
  \E st : Notices(EventFlags, "any", st, 4)
<1>1. PICK s : s = EventFlags
  OBVIOUS
<1>2. /\ Len(s) = 7
      /\ s[1] = New("a", 1, <<>>)
      /\ s[2] = Need
      /\ s[3] = SetBit(1)
      /\ s[4] = WaitAll(0)
  BY <1>1, EventFlagsCalls, Zenon
<1>3. PICK st :
        st = <<Nothing, Flags(1, <<>>, {}), Flags(1, <<>>, {}), Flags(1, <<>>, {1})>>
  OBVIOUS
<1>4. PICK d : d = "any"
  OBVIOUS
<1>5. d # "overflow" /\ d # "lost" /\ d # "lifo" /\ d # "keeps"
  BY <1>4, Zenon
<1>6. Goes(d, s, 1, Nothing, Flags(1, <<>>, {}))
  <2>1. Goes(d, s, 1, Nothing, One(1, <<>>))
    BY <1>2, OneNew
  <2> QED BY <2>1, OneBox, Zenon
<1>7. Goes(d, s, 2, Flags(1, <<>>, {}), Flags(1, <<>>, {}))
  <2>1. Goes(d, s, 2, One(1, <<>>), One(1, <<>>))
    BY <1>2, OneNeed
  <2> QED BY <2>1, OneBox, Zenon
<1>8. Goes(d, s, 3, Flags(1, <<>>, {}), Flags(1, <<>>, {1}))
  <2>1. {} \cup {1} = {1}
    OBVIOUS
  <2> QED BY <1>2, <2>1, FlagSet, Zenon
<1>9. Balks(d, s, 4, Flags(1, <<>>, {1}))
  <2>1. ~({1, 2} \subseteq {1}) /\ {1} # {}
    OBVIOUS
  <2>2. FlagAnswer(d, {1}) = 1
    BY <1>4, <1>5, <2>1, Zenon DEF FlagAnswer
  <2>3. 0 # ANY /\ 0 # FlagAnswer(d, {1})
    BY <2>2 DEF ANY
  <2> QED BY <1>2, <2>3, FlagWait
<1>10. /\ st[1] = Nothing
      /\ st[2] = Flags(1, <<>>, {})
      /\ st[3] = Flags(1, <<>>, {})
      /\ st[4] = Flags(1, <<>>, {1})
  BY <1>3
<1>11. ASSUME NEW i \in 1..3 PROVE Goes(d, s, i, st[i], st[i + 1])
  <2>1. Goes(d, s, 1, st[1], st[1 + 1])
    BY <1>6, <1>10
  <2>2. Goes(d, s, 2, st[2], st[2 + 1])
    BY <1>7, <1>10
  <2>3. Goes(d, s, 3, st[3], st[3 + 1])
    BY <1>8, <1>10
  <2> QED BY <2>1, <2>2, <2>3
<1>12. Follows(s, d, st, 4)
  BY <1>2, <1>10, <1>11 DEF Follows
<1>13. Balks(d, s, 4, st[4])
  BY <1>9, <1>10, Zenon
<1> QED BY <1>1, <1>4, <1>12, <1>13, Zenon DEF Notices

-----------------------------------------------------------------------------
(* The verdict tells the kernel.                                           *)

ObjectScripts ==
  {IsrToTask, Mutex, Semaphore, EventFlags, Queue, Mailbox, MaximumQueue, ErrorBranch}
LookScripts == {ForcedFail, MemorySafety}

\* The objects and bits are what st says of the place the tester has come to.
Stands(st) == \A x : x = st[at] => Matches(x)

\* The token of the random test, and the semaphore it stands for.
Token(s, box) == \/ s % 10 = 0 /\ box = Box(1, <<>>)
                 \/ s % 10 = 1 /\ box = Box(1, <<1>>)

\* On a sound kernel that refuses nothing, with no other task at work.
Expected ==
  /\ Script \in ObjectScripts =>
       \E st : Follows(Script, "none", st, Len(Script)) /\ Stands(st)
  /\ Script = RandomSemaphore =>
       /\ at <= 2 => seen = 0
       /\ at = 2 => obj["a"] = Box(1, <<>>)
       /\ at = 3 => Token(seen, obj["a"])
       /\ seen \in Nat
  /\ Script \in LookScripts /\ at > 1 =>
       seen + others["internal"] + reserved = Capacity["internal"] /\ seen \in Nat

\* The test that reveals the defect has yet to come to the place where it does.
Closing ==
  \/ defect = "cell" /\ at <= 2
  \/ \E st, n : Notices(Script, defect, st, n) /\ at <= n /\ Stands(st)

SoundInv ==
  defect = "none" /\ ~refused /\ noise = 0 => ok /\ ~bad /\ (Running => Expected)

\* Once a revealing test is over the verdict is lost.
CaughtInv ==
  ~refused => \A t \in DOMAIN Order : Reveals(Order[t], defect) =>
    /\ t < test => ~ok
    /\ t = test => bad \/ Closing

TellInv == noise \in Nat /\ defect \in Defects /\ SoundInv /\ CaughtInv

\* A call other than the deletions stays in the test.
LEMMA SameTest ==
  ASSUME Tester, Running, Op.do # "cleanup"
  PROVE  UNCHANGED <<test, reserved, others, noise, defect, ok>>
  BY DEF Tester, Idle, CreateObject, NeedObjects, SendItem, OverwriteItem, ReceiveItem,
     CountItems, SetEventBit, WaitAllBits, RandomRound, AllocateBlock, ReleaseBlock,
     LookAtFree, ForceFailure, CompareFree, FillBlock, FillSmaller, FillEnds, VerifyBlocks,
     CleanUp, CleanupAfterTests

\* What was refused stays refused, and no call counts as noise.
LEMMA StaysRefused ==
  ASSUME Next, noise \in Nat
  PROVE  /\ refused => refused'
         /\ noise' \in Nat /\ (noise' = 0 => noise = 0) /\ defect' = defect
         /\ Tester => noise' = noise
<1>1. CASE Tester
  BY <1>1 DEF Tester, Idle, CreateObject, NeedObjects, SendItem, OverwriteItem, ReceiveItem,
     CountItems, SetEventBit, WaitAllBits, RandomRound, AllocateBlock, ReleaseBlock,
     LookAtFree, ForceFailure, CompareFree, FillBlock, FillSmaller, FillEnds, VerifyBlocks,
     CleanUp, CleanupAfterTests
<1>2. CASE ~Tester /\ \E p \in Pools : OthersAllocate(p) \/ OthersFree(p)
  BY <1>2 DEF OthersAllocate, OthersFree
<1> QED BY <1>1, <1>2 DEF Next

\* A test that has decided to fail does not change its mind, but for three calls.
LEMMA StaysBad ==
  ASSUME Tester, Running, bad = TRUE, Op.do \notin {"cleanup", "force", "compare", "verify"}
  PROVE  bad' = TRUE
  BY DEF Tester, Answer, CreateObject, NeedObjects, SendItem, OverwriteItem, ReceiveItem,
     CountItems, SetEventBit, WaitAllBits, RandomRound, AllocateBlock, ReleaseBlock,
     LookAtFree, ForceFailure, CompareFree, FillBlock, FillSmaller, FillEnds, VerifyBlocks,
     CleanUp, CleanupAfterTests

\* A script that goes as it should takes the tester from place to place.
LEMMA FollowsOn ==
  ASSUME ObjectInv, Tester, Running, ~refused', NEW st, NEW n,
         Follows(Script, defect, st, n), at < n, Stands(st)
  PROVE  at' = at + 1 /\ bad' = bad /\ Stands(st)' /\ Op.do # "cleanup"
<1>1. n \in Nat /\ at \in 1..(n - 1) /\ Op = Script[at]
  BY ScriptNow DEF Follows, ObjectInv, PlaceInv, Returns
<1>2. PICK x : x = st[at]
  OBVIOUS
<1>3. PICK y : y = st[at + 1]
  OBVIOUS
<1>4. Matches(x)
  BY <1>2 DEF Stands
<1>5. Goes(defect, Script, at, x, y)
  BY <1>1, <1>2, <1>3, Zenon DEF Follows
<1>6. /\ Tries(defect, Script, at, x) /\ y = Effect(defect, Op, x)
      /\ Judges(Op) => Fits(defect, Op, x)
  BY <1>1, <1>5 DEF Goes
<1>7. Led(x, y)
  BY <1>4, <1>6, KernelLeads
<1>8. at' = at + 1 /\ bad' = bad /\ Matches(y)'
  BY <1>6, <1>7 DEF Led
<1>9. Stands(st)'
  BY <1>3, <1>8, Zenon DEF Stands
<1>10. Op.do # "cleanup"
  BY <1>1, <1>6 DEF Tries, Asking
<1> QED BY <1>8, <1>9, <1>10

LEMMA NoticesThen ==
  ASSUME ObjectInv, Tester, Running, ~refused', NEW st, NEW n,
         Notices(Script, defect, st, n), at = n, Stands(st)
  PROVE  bad' = TRUE /\ Op.do # "cleanup"
<1>1. Op = Script[at]
  BY ScriptNow DEF ObjectInv, PlaceInv
<1>2. PICK x : x = st[at]
  OBVIOUS
<1>3. Matches(x)
  BY <1>2 DEF Stands
<1>4. Balks(defect, Script, at, x)
  BY <1>2, Zenon DEF Notices
<1>5. Tries(defect, Script, at, x) /\ Judges(Op) /\ ~Fits(defect, Op, x)
  BY <1>1, <1>4 DEF Balks
<1>6. PICK y : y = Effect(defect, Op, x)
  OBVIOUS
<1>7. Led(x, y)
  BY <1>3, <1>5, <1>6, KernelLeads
<1>8. Op.do # "cleanup"
  BY <1>1, <1>5 DEF Tries, Asking
<1> QED BY <1>5, <1>7, <1>8 DEF Led

LEMMA ObjectScriptsRun ==
  \A s \in ObjectScripts : \E st : Follows(s, "none", st, Len(s))
<1>1. \E st : Follows(IsrToTask, "none", st, Len(IsrToTask))
  BY IsrToTaskRuns, IsrToTaskCalls, Zenon
<1>2. \E st : Follows(Mutex, "none", st, Len(Mutex))
  BY MutexRuns, MutexCalls, Zenon
<1>3. \E st : Follows(Semaphore, "none", st, Len(Semaphore))
  BY SemaphoreRuns, SemaphoreCalls, Zenon
<1>4. \E st : Follows(EventFlags, "none", st, Len(EventFlags))
  BY EventFlagsRuns, EventFlagsCalls, Zenon
<1>5. \E st : Follows(Queue, "none", st, Len(Queue))
  BY QueueRuns, QueueCalls, Zenon
<1>6. \E st : Follows(Mailbox, "none", st, Len(Mailbox))
  BY MailboxRuns, MailboxCalls, Zenon
<1>7. \E st : Follows(MaximumQueue, "none", st, Len(MaximumQueue))
  BY MaximumQueueRuns, MaximumQueueCalls, Zenon
<1>8. \E st : Follows(ErrorBranch, "none", st, Len(ErrorBranch))
  BY ErrorBranchRuns, ErrorBranchCalls, Zenon
<1> QED BY <1>1, <1>2, <1>3, <1>4, <1>5, <1>6, <1>7, <1>8, Zenon DEF ObjectScripts

LEMMA DefectNoticed ==
  ASSUME NEW s, NEW d, Reveals(s, d), d # "cell"
  PROVE  s \in ObjectScripts /\ \E st, n : Notices(s, d, st, n)
<1>1. s \in ObjectScripts
  BY Zenon DEF Reveals, ObjectScripts
<1>2. \E st, n : Notices(s, d, st, n)
  BY OverflowNoticed, LostNoticed, StaleNoticed, LifoNoticed, KeepsNoticed,
     AnyNoticed, Zenon DEF Reveals
<1> QED BY <1>1, <1>2

LEMMA CellNoticed ==
  ASSUME NEW s, Reveals(s, "cell")
  PROVE  s = RamFill
  BY DEF Reveals

\* No call of these tests takes back a decision to fail.
LEMMA ObjectScriptsStay ==
  \A s \in ObjectScripts : \A i \in 1..Len(s) : s[i].do \notin {"force", "compare", "verify"}
<1>1. \A i \in 1..Len(IsrToTask) : IsrToTask[i].do \notin {"force", "compare", "verify"}
  <2>1. Len(IsrToTask) = 8
    BY IsrToTaskCalls
  <2>2. /\ IsrToTask[1].do \notin {"force", "compare", "verify"}
        /\ IsrToTask[2].do \notin {"force", "compare", "verify"}
        /\ IsrToTask[3].do \notin {"force", "compare", "verify"}
        /\ IsrToTask[4].do \notin {"force", "compare", "verify"}
        /\ IsrToTask[5].do \notin {"force", "compare", "verify"}
        /\ IsrToTask[6].do \notin {"force", "compare", "verify"}
        /\ IsrToTask[7].do \notin {"force", "compare", "verify"}
        /\ IsrToTask[8].do \notin {"force", "compare", "verify"}
    BY IsrToTaskCalls DEF New, Need, Send, Receive, Cleanup
  <2> QED BY <2>1, <2>2
<1>2. \A i \in 1..Len(Mutex) : Mutex[i].do \notin {"force", "compare", "verify"}
  <2>1. Len(Mutex) = 5
    BY MutexCalls
  <2>2. /\ Mutex[1].do \notin {"force", "compare", "verify"}
        /\ Mutex[2].do \notin {"force", "compare", "verify"}
        /\ Mutex[3].do \notin {"force", "compare", "verify"}
        /\ Mutex[4].do \notin {"force", "compare", "verify"}
        /\ Mutex[5].do \notin {"force", "compare", "verify"}
    BY MutexCalls DEF New, Need, Send, Receive, Cleanup
  <2> QED BY <2>1, <2>2
<1>3. \A i \in 1..Len(Semaphore) : Semaphore[i].do \notin {"force", "compare", "verify"}
  <2>1. Len(Semaphore) = 12
    BY SemaphoreCalls
  <2>2. /\ Semaphore[1].do \notin {"force", "compare", "verify"}
        /\ Semaphore[2].do \notin {"force", "compare", "verify"}
        /\ Semaphore[3].do \notin {"force", "compare", "verify"}
        /\ Semaphore[4].do \notin {"force", "compare", "verify"}
        /\ Semaphore[5].do \notin {"force", "compare", "verify"}
        /\ Semaphore[6].do \notin {"force", "compare", "verify"}
        /\ Semaphore[7].do \notin {"force", "compare", "verify"}
        /\ Semaphore[8].do \notin {"force", "compare", "verify"}
        /\ Semaphore[9].do \notin {"force", "compare", "verify"}
        /\ Semaphore[10].do \notin {"force", "compare", "verify"}
        /\ Semaphore[11].do \notin {"force", "compare", "verify"}
        /\ Semaphore[12].do \notin {"force", "compare", "verify"}
    BY SemaphoreCalls DEF New, Need, Send, Receive, Count, Cleanup
  <2> QED BY <2>1, <2>2
<1>4. \A i \in 1..Len(EventFlags) : EventFlags[i].do \notin {"force", "compare", "verify"}
  <2>1. Len(EventFlags) = 7
    BY EventFlagsCalls
  <2>2. /\ EventFlags[1].do \notin {"force", "compare", "verify"}
        /\ EventFlags[2].do \notin {"force", "compare", "verify"}
        /\ EventFlags[3].do \notin {"force", "compare", "verify"}
        /\ EventFlags[4].do \notin {"force", "compare", "verify"}
        /\ EventFlags[5].do \notin {"force", "compare", "verify"}
        /\ EventFlags[6].do \notin {"force", "compare", "verify"}
        /\ EventFlags[7].do \notin {"force", "compare", "verify"}
    BY EventFlagsCalls DEF New, Need, SetBit, WaitAll, Cleanup
  <2> QED BY <2>1, <2>2
<1>5. \A i \in 1..Len(Queue) : Queue[i].do \notin {"force", "compare", "verify"}
  <2>1. Len(Queue) = 13
    BY QueueCalls
  <2>2. /\ Queue[1].do \notin {"force", "compare", "verify"}
        /\ Queue[2].do \notin {"force", "compare", "verify"}
        /\ Queue[3].do \notin {"force", "compare", "verify"}
        /\ Queue[4].do \notin {"force", "compare", "verify"}
        /\ Queue[5].do \notin {"force", "compare", "verify"}
        /\ Queue[6].do \notin {"force", "compare", "verify"}
        /\ Queue[7].do \notin {"force", "compare", "verify"}
        /\ Queue[8].do \notin {"force", "compare", "verify"}
        /\ Queue[9].do \notin {"force", "compare", "verify"}
        /\ Queue[10].do \notin {"force", "compare", "verify"}
        /\ Queue[11].do \notin {"force", "compare", "verify"}
        /\ Queue[12].do \notin {"force", "compare", "verify"}
        /\ Queue[13].do \notin {"force", "compare", "verify"}
    BY QueueCalls DEF New, Need, Send, Receive, Noted, Cleanup
  <2> QED BY <2>1, <2>2
<1>6. \A i \in 1..Len(Mailbox) : Mailbox[i].do \notin {"force", "compare", "verify"}
  <2>1. Len(Mailbox) = 7
    BY MailboxCalls
  <2>2. /\ Mailbox[1].do \notin {"force", "compare", "verify"}
        /\ Mailbox[2].do \notin {"force", "compare", "verify"}
        /\ Mailbox[3].do \notin {"force", "compare", "verify"}
        /\ Mailbox[4].do \notin {"force", "compare", "verify"}
        /\ Mailbox[5].do \notin {"force", "compare", "verify"}
        /\ Mailbox[6].do \notin {"force", "compare", "verify"}
        /\ Mailbox[7].do \notin {"force", "compare", "verify"}
    BY MailboxCalls DEF New, Need, Overwrite, Receive, Noted, Cleanup
  <2> QED BY <2>1, <2>2
<1>7. \A i \in 1..Len(MaximumQueue) : MaximumQueue[i].do \notin {"force", "compare", "verify"}
  <2>1. Len(MaximumQueue) = 7
    BY MaximumQueueCalls
  <2>2. /\ MaximumQueue[1].do \notin {"force", "compare", "verify"}
        /\ MaximumQueue[2].do \notin {"force", "compare", "verify"}
        /\ MaximumQueue[3].do \notin {"force", "compare", "verify"}
        /\ MaximumQueue[4].do \notin {"force", "compare", "verify"}
        /\ MaximumQueue[5].do \notin {"force", "compare", "verify"}
        /\ MaximumQueue[6].do \notin {"force", "compare", "verify"}
        /\ MaximumQueue[7].do \notin {"force", "compare", "verify"}
    BY MaximumQueueCalls DEF New, Need, Send, Cleanup
  <2> QED BY <2>1, <2>2
<1>8. \A i \in 1..Len(ErrorBranch) : ErrorBranch[i].do \notin {"force", "compare", "verify"}
  <2>1. Len(ErrorBranch) = 5
    BY ErrorBranchCalls
  <2>2. /\ ErrorBranch[1].do \notin {"force", "compare", "verify"}
        /\ ErrorBranch[2].do \notin {"force", "compare", "verify"}
        /\ ErrorBranch[3].do \notin {"force", "compare", "verify"}
        /\ ErrorBranch[4].do \notin {"force", "compare", "verify"}
        /\ ErrorBranch[5].do \notin {"force", "compare", "verify"}
    BY ErrorBranchCalls DEF New, Need, Send, Cleanup
  <2> QED BY <2>1, <2>2
<1> QED BY <1>1, <1>2, <1>3, <1>4, <1>5, <1>6, <1>7, <1>8, Zenon DEF ObjectScripts

LEMMA FreshStart ==
  ASSUME at' = 1, bits' = {}, NEW st, st[1] = Nothing
  PROVE  Stands(st)'
<1>1. Has(Nothing) = {} /\ Nothing.bits = {}
  BY DEF Has, Nothing
<1>2. Matches(Nothing)'
  BY <1>1 DEF Matches
<1> QED BY <1>2, Zenon DEF Stands

\* The fill test with a bad cell.
LEMMA CellStep ==
  ASSUME ObjectInv, Tester, Running, ~refused', Script = RamFill, defect = "cell",
         bad = TRUE \/ at <= 2
  PROVE  /\ Op.do = "cleanup" => bad = TRUE
         /\ Op.do # "cleanup" => bad' = TRUE \/ at' <= 2
<1>1. /\ Len(Script) = 3 /\ Script[1].do = "fill" /\ Script[2].do = "verify"
      /\ Script[3].do = "cleanup" /\ Op = Script[at] /\ at \in Nat \ {0} /\ at <= 3
  <2>1. Op = Script[at] /\ Ending = Len(Script)
    BY ScriptNow DEF ObjectInv, PlaceInv
  <2> QED BY <2>1, RamFillCalls DEF Fill, Verify, Cleanup, ObjectInv, PlaceInv
<1>2. CASE at = 1
  <2>1. FillBlock \/ FillSmaller \/ FillEnds
    BY <1>1, <1>2, CallDue
  <2>2. at' \in {at, at + 1}
    BY <2>1 DEF FillBlock, FillSmaller, FillEnds
  <2> QED BY <1>1, <1>2, <2>2
<1>3. CASE at = 2
  <2>1. VerifyBlocks
    BY <1>1, <1>3, CallDue
  <2> QED BY <1>1, <1>3, <2>1 DEF VerifyBlocks
<1>4. CASE at = 3
  BY <1>1, <1>4
<1>5. at = 1 \/ at = 2 \/ at = 3
  BY <1>1
<1> QED BY <1>2, <1>3, <1>4, <1>5, Zenon

\* A call that does not end the test.
LEMMA ClosesIn ==
  ASSUME ObjectInv, Tester, Running, ~refused', Reveals(Script, defect), bad = TRUE \/ Closing
  PROVE  /\ Op.do = "cleanup" => bad = TRUE
         /\ Op.do # "cleanup" => bad' = TRUE \/ Closing'
<1>1. ASSUME Op.do # "cleanup" PROVE Script' = Script /\ defect' = defect
  BY <1>1, SameTest DEF Script
<1>2. CASE defect = "cell" /\ (bad = TRUE \/ at <= 2)
  <2>1. Script = RamFill
    BY <1>2, CellNoticed
  <2>2. /\ Op.do = "cleanup" => bad = TRUE
        /\ Op.do # "cleanup" => bad' = TRUE \/ at' <= 2
    BY <1>2, <2>1, CellStep
  <2> QED BY <1>1, <1>2, <2>2 DEF Closing
<1>3. CASE defect # "cell" /\ bad = TRUE
  <2>1. Script \in ObjectScripts
    BY <1>3, DefectNoticed
  <2>2. Op = Script[at] /\ at \in 1..Len(Script)
    BY ScriptNow DEF ObjectInv, PlaceInv, Returns
  <2>3. Op.do \notin {"force", "compare", "verify"}
    BY <2>1, <2>2, ObjectScriptsStay
  <2> QED BY <1>3, <2>3, StaysBad
<1>4. CASE \E st, n : Notices(Script, defect, st, n) /\ at <= n /\ Stands(st)
  <2>1. PICK st, n : Notices(Script, defect, st, n) /\ at <= n /\ Stands(st)
    BY <1>4
  <2>2. Follows(Script, defect, st, n) /\ n \in Nat /\ at \in Nat
    BY <2>1, ScriptNow DEF Notices, Follows, ObjectInv, PlaceInv, Returns
  <2>3. CASE at < n
    <3>1. at' = at + 1 /\ Stands(st)' /\ Op.do # "cleanup"
      BY <2>1, <2>2, <2>3, FollowsOn
    <3>2. at' <= n
      BY <2>2, <2>3, <3>1
    <3>3. Notices(Script', defect', st, n)
      BY <1>1, <2>1, <3>1
    <3> QED BY <3>1, <3>2, <3>3 DEF Closing
  <2>4. CASE at = n
    BY <2>1, <2>4, NoticesThen
  <2>5. at < n \/ at = n
    BY <2>1, <2>2
  <2> QED BY <2>3, <2>4, <2>5, Zenon
<1> QED BY <1>2, <1>3, <1>4 DEF Closing

LEMMA CaughtStill ==
  ASSUME CaughtInv, UNCHANGED <<test, at, obj, bits, defect, bad, ok>>, refused => refused'
  PROVE  CaughtInv'
<1>1. Closing => Closing'
  <2>1. \A st : Stands(st) => Stands(st)'
    BY DEF Stands, Matches
  <2> QED BY <2>1 DEF Closing, Script
<1> QED BY <1>1 DEF CaughtInv

LEMMA CaughtCall ==
  ASSUME ObjectInv, TellInv, Tester, Running, Op.do # "cleanup"
  PROVE  CaughtInv'
<1> SUFFICES ASSUME ~refused', NEW t \in DOMAIN Order, Reveals(Order[t], defect')
             PROVE  (t < test' => ~ok') /\ (t = test' => bad' \/ Closing')
  BY DEF CaughtInv
<1>1. test' = test /\ ok' = ok /\ defect' = defect /\ ~refused
  BY SameTest, StaysRefused DEF Next, TellInv
<1>2. (t < test => ~ok) /\ (t = test => bad \/ Closing)
  BY <1>1 DEF TellInv, CaughtInv
<1>3. ASSUME t = test PROVE bad' \/ Closing'
  <2>1. Reveals(Script, defect) /\ (bad = TRUE \/ Closing)
    BY <1>1, <1>2, <1>3 DEF Script
  <2> QED BY <2>1, ClosesIn
<1> QED BY <1>1, <1>2, <1>3

LEMMA CaughtEnd ==
  ASSUME ObjectInv, TellInv, Tester, Running, Op.do = "cleanup"
  PROVE  CaughtInv'
<1> SUFFICES ASSUME ~refused', NEW t \in DOMAIN Order, Reveals(Order[t], defect')
             PROVE  (t < test' => ~ok') /\ (t = test' => bad' \/ Closing')
  BY DEF CaughtInv
<1>1. CleanUp
  BY CallDue
<1>2. /\ test' = test + 1 /\ at' = 1 /\ ok' = (ok /\ ~bad) /\ bits' = {}
      /\ defect' = defect /\ ~refused
  BY <1>1 DEF CleanUp
<1>3. (t < test => ~ok) /\ (t = test => bad \/ Closing)
  BY <1>2 DEF TellInv, CaughtInv
<1>4. t \in Nat /\ test \in Nat
  <2>1. Order \in Seq(Scripts)
    BY ObjectAssumption
  <2> QED BY <2>1 DEF ObjectInv, PlaceInv
<1>5. ASSUME t < test' PROVE ~ok'
  <2>1. CASE t = test
    <3>1. Reveals(Script, defect) /\ (bad = TRUE \/ Closing)
      BY <1>2, <1>3, <2>1 DEF Script
    <3>2. bad = TRUE
      BY <3>1, ClosesIn
    <3> QED BY <1>2, <3>2
  <2>2. CASE t < test
    BY <1>2, <1>3, <2>2
  <2> QED BY <1>2, <1>4, <1>5, <2>1, <2>2
<1>6. ASSUME t = test' PROVE Closing'
  <2>1. Reveals(Script', defect')
    BY <1>6 DEF Script
  <2>2. CASE defect = "cell"
    BY <1>2, <2>2 DEF Closing
  <2>3. CASE defect # "cell"
    <3>1. PICK st, n : Notices(Script', defect', st, n)
      BY <1>2, <2>1, <2>3, DefectNoticed
    <3>2. st[1] = Nothing /\ 1 <= n
      BY <3>1 DEF Notices, Follows
    <3>3. Stands(st)'
      BY <1>2, <3>2, FreshStart
    <3> QED BY <1>2, <3>1, <3>2, <3>3 DEF Closing
  <2> QED BY <2>2, <2>3
<1> QED BY <1>5, <1>6

LEMMA ObjectScriptsBegin ==
  \A s \in ObjectScripts : s[1].do = "new" /\ s[3].do # "random"
<1>1. /\ IsrToTask[1].do = "new" /\ IsrToTask[3].do # "random"
      /\ Mutex[1].do = "new" /\ Mutex[3].do # "random"
      /\ Semaphore[1].do = "new" /\ Semaphore[3].do # "random"
  BY IsrToTaskCalls, MutexCalls, SemaphoreCalls DEF New, Need, Receive
<1>2. /\ EventFlags[1].do = "new" /\ EventFlags[3].do # "random"
      /\ Mailbox[1].do = "new" /\ Mailbox[3].do # "random"
      /\ ErrorBranch[1].do = "new" /\ ErrorBranch[3].do # "random"
  BY EventFlagsCalls, MailboxCalls, ErrorBranchCalls DEF New, SetBit, Overwrite, Send
<1>3. /\ Queue[1].do = "new" /\ Queue[3].do # "random"
      /\ MaximumQueue[1].do = "new" /\ MaximumQueue[3].do # "random"
  BY QueueCalls, MaximumQueueCalls DEF New, Send, Noted
<1> QED BY <1>1, <1>2, <1>3, Zenon DEF ObjectScripts

\* Which test a call belongs to.
LEMMA OtherScripts ==
  /\ \A s \in ObjectScripts : s # RandomSemaphore /\ s \notin LookScripts
  /\ RandomSemaphore \notin LookScripts
<1>1. RandomSemaphore[1].do = "new" /\ RandomSemaphore[3].do = "random"
  BY RandomSemaphoreCalls DEF New, Random
<1>2. ForcedFail[1].do = "look" /\ MemorySafety[1].do = "look"
  BY ForcedFailCalls, MemorySafetyCalls DEF Look
<1>3. \A s \in LookScripts : s[1].do = "look"
  BY <1>2, Zenon DEF LookScripts
<1> QED BY <1>1, <1>3, ObjectScriptsBegin

LEMMA TokenMoves ==
  ASSUME TypeInv, RandomRound, defect = "none", seen \in Nat, Token(seen, obj["a"])
  PROVE  /\ bad' = bad /\ at' \in {at, at + 1} /\ seen' \in Nat
         /\ at' = at => Token(seen', obj'["a"])
<1> DEFINE round == (seen \div 10) + 1
           there == obj["a"].items # <<>>
           On(t) == IF round = Op.rounds THEN at' = at + 1 /\ seen' = 0 /\ bad' = bad
                    ELSE at' = at /\ seen' = 10 * round + t /\ bad' = bad
           GivesIt == /\ obj' = IF Full("a") THEN obj
                                ELSE [obj EXCEPT !["a"].items = Append(obj["a"].items, 1)]
                      /\ On(1)
           TakesIt == /\ obj' = IF there THEN [obj EXCEPT !["a"].items = Tail(obj["a"].items)]
                                ELSE obj
                      /\ IF there = (seen % 10 = 1) THEN On(0)
                         ELSE at' = Ending /\ seen' = 0 /\ bad' = TRUE
<1>1. GivesIt \/ TakesIt
  BY DEF RandomRound
<1>2. round \in Nat
  OBVIOUS
<1>3. ASSUME NEW t \in {0, 1}, On(t), Token(t, obj'["a"])
      PROVE  /\ bad' = bad /\ at' \in {at, at + 1} /\ seen' \in Nat
             /\ at' = at => Token(seen', obj'["a"])
  <2>1. CASE round = Op.rounds
    <3>1. at' = at + 1 /\ seen' = 0 /\ bad' = bad
      BY <1>3, <2>1
    <3> QED BY <3>1
  <2>2. CASE round # Op.rounds
    <3>1. at' = at /\ seen' = 10 * round + t /\ bad' = bad
      BY <1>3, <2>2
    <3> HIDE DEF round
    <3>2. (10 * round + t) % 10 = t % 10 /\ 10 * round + t \in Nat
      BY <1>2
    <3> QED BY <1>3, <3>1, <3>2 DEF Token
  <2> QED BY <2>1, <2>2
<1> HIDE DEF On
<1>4. CASE seen % 10 = 0 /\ obj["a"] = Box(1, <<>>)
  <2>1. ~there /\ ~Full("a") /\ obj["a"].items = <<>> /\ obj["a"].cap = 1
    BY <1>4 DEF Box, Full
  <2>2. CASE GivesIt
    <3>1. obj' = [obj EXCEPT !["a"].items = Append(obj["a"].items, 1)] /\ On(1)
      BY <2>1, <2>2, Zenon
    <3>2. PICK u : u = Append(obj["a"].items, 1)
      OBVIOUS
    <3>3. u = <<1>>
      BY <2>1, <3>2, Appended, Zenon
    <3>4. obj' = [obj EXCEPT !["a"].items = u]
      BY <3>1, <3>2, Zenon
    <3>5. [obj EXCEPT !["a"].items = u]["a"] = Box(obj["a"].cap, u)
      BY PutItems DEF Names
    <3>6. obj'["a"] = Box(1, <<1>>)
      BY <2>1, <3>3, <3>4, <3>5, Zenon
    <3> QED BY <1>3, <3>1, <3>6 DEF Token
  <2>3. CASE TakesIt
    <3>1. obj' = obj /\ On(0)
      BY <1>4, <2>1, <2>3
    <3>2. Token(0, obj'["a"])
      BY <1>4, <3>1 DEF Token
    <3> QED BY <1>3, <3>1, <3>2
  <2> QED BY <1>1, <2>2, <2>3
<1>5. CASE seen % 10 = 1 /\ obj["a"] = Box(1, <<1>>)
  <2>1. there /\ Full("a") /\ obj["a"].items = <<1>> /\ obj["a"].cap = 1
    BY <1>5 DEF Box, Full
  <2>2. CASE GivesIt
    <3>1. obj' = obj /\ On(1)
      BY <2>1, <2>2, Zenon
    <3>2. Token(1, obj'["a"])
      BY <1>5, <3>1 DEF Token
    <3> QED BY <1>3, <3>1, <3>2
  <2>3. CASE TakesIt
    <3>1. obj' = [obj EXCEPT !["a"].items = Tail(obj["a"].items)] /\ On(0)
      BY <1>5, <2>1, <2>3
    <3>2. PICK u : u = Tail(obj["a"].items)
      OBVIOUS
    <3>3. u = <<>>
      <4>1. Tail(<<1>>) = <<>>
        OBVIOUS
      <4> QED BY <2>1, <3>2, <4>1, Zenon
    <3>4. obj' = [obj EXCEPT !["a"].items = u]
      BY <3>1, <3>2, Zenon
    <3>5. [obj EXCEPT !["a"].items = u]["a"] = Box(obj["a"].cap, u)
      BY PutItems DEF Names
    <3>6. obj'["a"] = Box(1, <<>>)
      BY <2>1, <3>3, <3>4, <3>5, Zenon
    <3> QED BY <1>3, <3>1, <3>6 DEF Token
  <2> QED BY <1>1, <2>2, <2>3
<1> QED BY <1>4, <1>5 DEF Token

LEMMA RandomExpected ==
  ASSUME ObjectInv, Tester, Running, ~refused', defect = "none", Script = RandomSemaphore,
         Expected, Op.do # "cleanup"
  PROVE  bad' = bad /\ Expected'
<1>1. /\ Len(Script) = 4 /\ Script[1] = New("a", 1, <<>>) /\ Script[2] = Need
      /\ Script[3] = Random(3) /\ Script[4] = Cleanup({"a"})
  BY RandomSemaphoreCalls
<1>2. /\ Op = Script[at] /\ at \in 1..3 /\ Script' = Script
      /\ Script \notin ObjectScripts /\ Script \notin LookScripts
  <2>1. at \in 1..(Ending - 1) /\ Op = Script[at] /\ Ending = Len(Script)
    BY Onward, ScriptNow DEF ObjectInv, PlaceInv
  <2>2. Script' = Script
    BY SameTest DEF Script
  <2> QED BY <1>1, <2>1, <2>2, OtherScripts
<1>3. /\ at <= 2 => seen = 0
      /\ at = 2 => obj["a"] = Box(1, <<>>)
      /\ at = 3 => Token(seen, obj["a"])
      /\ seen \in Nat
  BY DEF Expected
<1> SUFFICES /\ bad' = bad /\ at' \in Nat /\ seen' \in Nat
             /\ at' <= 2 => seen' = 0
             /\ at' = 2 => obj'["a"] = Box(1, <<>>)
             /\ at' = 3 => Token(seen', obj'["a"])
  BY <1>2 DEF Expected
<1>4. CASE at = 1
  <2>1. Op.do = "new" /\ Op.on = "a" /\ Op.cap = 1 /\ Op.items = <<>>
    BY <1>1, <1>2, <1>4 DEF New
  <2>2. CreateObject
    BY <2>1, CallDue
  <2>3. /\ obj' = [obj EXCEPT !["a"] = [cap |-> 1, items |-> <<>>]]
        /\ at' = 2 /\ bad' = bad /\ seen' = seen
    BY <1>4, <2>1, <2>2 DEF CreateObject
  <2>4. obj'["a"] = Box(1, <<>>)
    BY <2>3 DEF ObjectInv, TypeInv, Names, Box
  <2> QED BY <1>3, <1>4, <2>3, <2>4
<1>5. CASE at = 2
  <2>1. Op.do = "need" /\ NeedObjects
    BY <1>1, <1>2, <1>5, CallDue DEF Need
  <2>2. AskedBefore(Script, 2) \subseteq {"a"}
    BY <1>1 DEF AskedBefore, New
  <2>3. "a" \in Created
    BY <1>3, <1>5 DEF Created, Names, Box
  <2>4. AskedBefore(Script, 2) \subseteq Created
    BY <2>2, <2>3
  <2>5. at' = 3 /\ bad' = bad /\ UNCHANGED <<obj, seen>>
    BY <1>5, <2>1, <2>4 DEF NeedObjects, AskedBefore, Script
  <2>6. Token(0, obj["a"])
    BY <1>3, <1>5 DEF Token
  <2> QED BY <1>3, <1>5, <2>5, <2>6
<1>6. CASE at = 3
  <2>1. RandomRound
    BY <1>1, <1>2, <1>6, CallDue DEF Random
  <2>2. /\ bad' = bad /\ at' \in {at, at + 1} /\ seen' \in Nat
        /\ at' = at => Token(seen', obj'["a"])
    BY <1>3, <1>6, <2>1, TokenMoves DEF ObjectInv
  <2> QED BY <1>6, <2>2
<1> QED BY <1>2, <1>4, <1>5, <1>6

LEMMA SameRest ==
  \A f, o, r, m, s \in Nat : \A c : f + o + r + m = c /\ s + o + r = c => s = f + m
  OBVIOUS

\* While nobody else allocates, what the heap tests remember is what is free
\* and what they hold.
LEMMA LookExpected ==
  ASSUME ObjectInv, Tester, Running, ~refused', Script \in LookScripts, Expected,
         Op.do # "cleanup", ~bad
  PROVE  ~bad' /\ Expected'
<1>1. /\ Len(ForcedFail) = 3 /\ ForcedFail[1].do = "look" /\ ForcedFail[2].do = "force"
      /\ ForcedFail[3].do = "cleanup"
  BY ForcedFailCalls DEF Look, Overask, Cleanup
<1>2. /\ Len(MemorySafety) = 5 /\ MemorySafety[1].do = "look" /\ MemorySafety[2].do = "block"
      /\ MemorySafety[3].do = "release" /\ MemorySafety[4].do = "compare"
      /\ MemorySafety[5].do = "cleanup"
  BY MemorySafetyCalls DEF Look, Block, Release, Compare, Cleanup
<1>3. Script = ForcedFail \/ Script = MemorySafety
  BY DEF LookScripts
<1>4. /\ Op = Script[at] /\ at \in 1..(Len(Script) - 1) /\ Script' = Script /\ Returns(Script)
      /\ Script \notin ObjectScripts /\ Script # RandomSemaphore /\ Script[1].do = "look"
  <2>1. at \in 1..(Ending - 1) /\ Op = Script[at] /\ Ending = Len(Script) /\ Returns(Script)
    BY Onward, ScriptNow DEF ObjectInv, PlaceInv
  <2>2. Script' = Script
    BY SameTest DEF Script
  <2> QED BY <1>1, <1>2, <1>3, <2>1, <2>2, OtherScripts
<1>5. /\ at > 1 => seen + others["internal"] + reserved = Capacity["internal"]
      /\ at > 1 => seen \in Nat
  BY DEF Expected
<1>6. Created = {} /\ Len(held) = HeldAt(Script)[at]
  <2>1. \A i \in 1..Len(Script) : Script[i].do # "new"
    BY <1>1, <1>2, <1>3
  <2>2. Created = {}
    BY <1>4, <2>1 DEF ObjectInv, PlaceInv, AskedBefore
  <2>3. at # Ending
    BY Onward DEF ObjectInv
  <2> QED BY <1>4, <2>2, <2>3 DEF ObjectInv, PlaceInv
<1>7. /\ free["internal"] \in Nat /\ others["internal"] \in Nat /\ reserved \in Nat
      /\ Capacity["internal"] \in Nat
  BY ObjectAssumption DEF ObjectInv, TypeInv
<1>8. /\ Sum(held) \in Nat
      /\ free["internal"] + others["internal"] + reserved + Sum(held) = Capacity["internal"]
  <2>1. Sum(held) \in Nat
    BY SumNat DEF ObjectInv, TypeInv
  <2>2. PoolOf = "internal"
    BY <1>4 DEF PoolOf, Script
  <2>3. Mine("internal") = Sum(held)
    BY <1>6, <2>1, <2>2, FS_EmptySet DEF Mine
  <2> QED BY <1>7, <2>1, <2>3, ObjectAssumption DEF ObjectInv, UnitsInv
<1>9. ASSUME HeldAt(Script)[at] = 0 PROVE Sum(held) = 0
  <2>1. held = <<>>
    BY <1>6, <1>9 DEF ObjectInv, TypeInv
  <2> QED BY <2>1, SumNone
<1>10. /\ HeldAt(Script) \in [1..Len(Script) -> Nat] /\ HeldAt(Script)[1] = 0
       /\ \A i \in 1..(Len(Script) - 1) : HeldAt(Script)[i + 1]
            = IF Script[i].do = "block" THEN HeldAt(Script)[i] + 1
              ELSE IF Script[i].do = "release" THEN HeldAt(Script)[i] - 1
                   ELSE HeldAt(Script)[i]
  BY <1>4, HeldHolds DEF Holds
<1>11. UNCHANGED <<others, reserved>>
  BY SameTest
<1> SUFFICES /\ ~bad' /\ seen' \in Nat
             /\ seen' + others["internal"] + reserved = Capacity["internal"]
  BY <1>4, <1>11 DEF Expected
<1>12. CASE at = 1
  <2>1. LookAtFree
    BY <1>4, <1>12, CallDue
  <2>2. seen' = free["internal"] /\ bad' = bad
    BY <2>1 DEF LookAtFree
  <2>3. Sum(held) = 0
    BY <1>9, <1>10, <1>12
  <2> QED BY <1>7, <1>8, <2>2, <2>3
<1>13. CASE at # 1 /\ Script = ForcedFail
  <2>1. at = 2 /\ Op.do = "force"
    BY <1>1, <1>4, <1>13
  <2>2. ForceFailure
    BY <2>1, CallDue
  <2>3. bad' = (free["internal"] >= seen + 1) /\ seen' = seen
    BY <2>2 DEF ForceFailure
  <2>4. seen + others["internal"] + reserved = Capacity["internal"] /\ seen \in Nat
    BY <1>5, <2>1
  <2>5. seen = free["internal"] + Sum(held)
    BY <1>7, <1>8, <2>4, SameRest
  <2>6. ~(free["internal"] >= seen + 1)
    BY <1>7, <1>8, <2>4, <2>5
  <2>7. ~bad'
    BY <2>3, <2>6
  <2> QED BY <2>3, <2>4, <2>7
<1>14. CASE at # 1 /\ Script = MemorySafety
  <2>0. Len(Script) = 5
    BY <1>2, <1>14
  <2>1. /\ at \in {2, 3, 4} /\ seen \in Nat
        /\ seen + others["internal"] + reserved = Capacity["internal"]
    <3>1. at \in {2, 3, 4}
      BY <1>4, <1>14, <2>0
    <3> QED BY <1>5, <3>1
  <2>2. CASE at \in {2, 3}
    <3>1. AllocateBlock \/ ReleaseBlock
      BY <1>2, <1>4, <1>14, <2>2, CallDue
    <3>2. bad' = bad /\ seen' = seen
      BY <3>1 DEF AllocateBlock, ReleaseBlock
    <3> QED BY <2>1, <3>2
  <2>3. CASE at = 4
    <3>1. CompareFree
      BY <1>2, <1>4, <1>14, <2>3, CallDue
    <3>2. bad' = (free["internal"] < seen) /\ seen' = seen
      BY <3>1 DEF CompareFree
    <3>3. HeldAt(Script)[4] = 0
      <4>1. /\ Script[1].do = "look" /\ Script[2].do = "block" /\ Script[3].do = "release"
            /\ 1 \in 1..(Len(Script) - 1) /\ 2 \in 1..(Len(Script) - 1)
            /\ 3 \in 1..(Len(Script) - 1)
        <5>1. Script[1].do = "look" /\ Script[2].do = "block" /\ Script[3].do = "release"
          BY <1>2, <1>14
        <5> QED BY <2>0, <5>1
      <4>2. HeldAt(Script)[1 + 1] = HeldAt(Script)[1]
        BY <1>10, <4>1
      <4>3. HeldAt(Script)[2 + 1] = HeldAt(Script)[2] + 1
        BY <1>10, <4>1
      <4>4. HeldAt(Script)[3 + 1] = HeldAt(Script)[3] - 1
        BY <1>10, <4>1
      <4>5. HeldAt(Script)[1] = 0
        BY <1>10
      <4> QED BY <4>2, <4>3, <4>4, <4>5
    <3>4. Sum(held) = 0
      BY <1>9, <2>3, <3>3
    <3>5. seen = free["internal"] + Sum(held)
      BY <1>7, <1>8, <2>1, SameRest
    <3>6. ~(free["internal"] < seen)
      BY <1>7, <3>4, <3>5
    <3>7. ~bad'
      BY <3>2, <3>6
    <3> QED BY <2>1, <3>2, <3>7
  <2> QED BY <2>1, <2>2, <2>3
<1> QED BY <1>3, <1>12, <1>13, <1>14

LEMMA ObjectExpected ==
  ASSUME ObjectInv, Tester, Running, ~refused', defect = "none", Script \in ObjectScripts,
         Expected, Op.do # "cleanup"
  PROVE  bad' = bad /\ Expected'
<1>1. PICK st : Follows(Script, "none", st, Len(Script)) /\ Stands(st)
  BY DEF Expected
<1>2. /\ at < Len(Script) /\ at \in Nat /\ Script' = Script
      /\ Script # RandomSemaphore /\ Script \notin LookScripts
  <2>1. at \in 1..(Ending - 1) /\ Ending \in Nat /\ Ending = Len(Script)
    BY Onward, ScriptNow DEF ObjectInv, PlaceInv
  <2>2. Script' = Script
    BY SameTest DEF Script
  <2> QED BY <2>1, <2>2, OtherScripts
<1>3. bad' = bad /\ Stands(st)'
  <2>1. Follows(Script, defect, st, Len(Script))
    BY <1>1
  <2> QED BY <1>1, <1>2, <2>1, FollowsOn
<1> QED BY <1>1, <1>2, <1>3 DEF Expected

\* The tests that only allocate: a failing one was refused something.
LEMMA HeapExpected ==
  ASSUME ObjectInv, Tester, Running, ~refused', defect = "none", Expected,
         Script \in {DynamicAllocation, RamFill, PsramFill}, Op.do # "cleanup", ~bad
  PROVE  ~bad' /\ Expected'
<1>1. /\ Op = Script[at] /\ at \in 1..(Len(Script) - 1) /\ Script' = Script
  <2>1. at \in 1..(Ending - 1) /\ Op = Script[at] /\ Ending = Len(Script)
    BY Onward, ScriptNow DEF ObjectInv, PlaceInv
  <2>2. Script' = Script
    BY SameTest DEF Script
  <2> QED BY <2>1, <2>2
<1>2. /\ Len(DynamicAllocation) = 8
      /\ \A i \in 1..7 : DynamicAllocation[i].do \in {"block", "release"}
  BY DynamicAllocationCalls DEF Block, Release
<1>3. /\ Len(RamFill) = 3 /\ RamFill[1].do = "fill" /\ RamFill[2].do = "verify"
      /\ Len(PsramFill) = 3 /\ PsramFill[1].do = "fill" /\ PsramFill[2].do = "verify"
  BY RamFillCalls, PsramFillCalls DEF Fill, Verify
<1>4. /\ Script[1].do \in {"block", "release", "fill"}
      /\ Op.do \in {"block", "release", "fill", "verify"}
  <2>1. CASE Script = DynamicAllocation
    <3>1. \A i \in 1..7 : Script[i].do \in {"block", "release"}
      BY <1>2, <2>1
    <3>2. at \in 1..7 /\ 1 \in 1..7 /\ Op = Script[at]
      <4>1. Len(Script) = 8
        BY <1>2, <2>1
      <4> QED BY <1>1, <4>1
    <3>3. Script[1].do \in {"block", "release"} /\ Script[at].do \in {"block", "release"}
      BY <3>1, <3>2
    <3> QED BY <3>2, <3>3
  <2>2. CASE Script \in {RamFill, PsramFill}
    <3>1. Len(Script) = 3 /\ Script[1].do = "fill" /\ Script[2].do = "verify"
      BY <1>3, <2>2
    <3>2. at = 1 \/ at = 2
      BY <1>1, <3>1
    <3> QED BY <1>1, <3>1, <3>2
  <2> QED BY <2>1, <2>2
<1>5. AllocateBlock \/ ReleaseBlock \/ FillBlock \/ FillSmaller \/ FillEnds \/ VerifyBlocks
  BY <1>4, CallDue
<1>6. ~bad'
  BY <1>5 DEF AllocateBlock, ReleaseBlock, FillBlock, FillSmaller, FillEnds, VerifyBlocks
<1>7. Script \notin ObjectScripts /\ Script # RandomSemaphore /\ Script \notin LookScripts
  <2>1. RandomSemaphore[1].do = "new"
    BY RandomSemaphoreCalls DEF New
  <2>2. ForcedFail[1].do = "look" /\ MemorySafety[1].do = "look"
    BY ForcedFailCalls, MemorySafetyCalls DEF Look
  <2>3. \A s \in LookScripts : s[1].do = "look"
    BY <2>2, Zenon DEF LookScripts
  <2> QED BY <1>4, <2>1, <2>3, ObjectScriptsBegin
<1> QED BY <1>1, <1>6, <1>7 DEF Expected

LEMMA SoundCall ==
  ASSUME ObjectInv, TellInv, Tester, Running, Op.do # "cleanup"
  PROVE  SoundInv'
<1> SUFFICES ASSUME defect' = "none", ~refused', noise' = 0
             PROVE  ok' /\ ~bad' /\ (Running' => Expected')
  BY DEF SoundInv
<1>1. test' = test /\ ok' = ok /\ defect' = defect /\ noise' = noise /\ ~refused
  BY SameTest, StaysRefused DEF Next, TellInv
<1>2. ok /\ ~bad /\ Expected
  BY <1>1 DEF TellInv, SoundInv
<1>3. Script \in Scripts
  <2>1. Order \in Seq(Scripts)
    BY ObjectAssumption
  <2>2. test \in 1..Len(Order)
    BY ScriptNow DEF ObjectInv, PlaceInv
  <2> QED BY <2>1, <2>2 DEF Script
<1>4. \/ Script \in ObjectScripts \/ Script = RandomSemaphore \/ Script \in LookScripts
      \/ Script \in {DynamicAllocation, RamFill, PsramFill}
  BY <1>3, Zenon DEF Scripts, ObjectScripts, LookScripts
<1>5. ~bad' /\ Expected'
  <2>1. CASE Script \in ObjectScripts
    BY <1>1, <1>2, <2>1, ObjectExpected
  <2>2. CASE Script = RandomSemaphore
    BY <1>1, <1>2, <2>2, RandomExpected
  <2>3. CASE Script \in LookScripts
    BY <1>1, <1>2, <2>3, LookExpected
  <2>4. CASE Script \in {DynamicAllocation, RamFill, PsramFill}
    BY <1>1, <1>2, <2>4, HeapExpected
  <2> QED BY <1>4, <2>1, <2>2, <2>3, <2>4
<1> QED BY <1>1, <1>2, <1>5

LEMMA ExpectedFirst ==
  ASSUME at' = 1, bits' = {}, seen' = 0
  PROVE  Expected'
<1>1. ASSUME Script' \in ObjectScripts
      PROVE  \E st : Follows(Script', "none", st, Len(Script')) /\ Stands(st)'
  <2>1. PICK st : Follows(Script', "none", st, Len(Script'))
    BY <1>1, ObjectScriptsRun
  <2>2. st[1] = Nothing
    BY <2>1 DEF Follows
  <2> QED BY <2>1, <2>2, FreshStart
<1> QED BY <1>1 DEF Expected

LEMMA SoundEnd ==
  ASSUME ObjectInv, TellInv, Tester, Running, Op.do = "cleanup"
  PROVE  SoundInv'
<1>1. CleanUp
  BY CallDue
<1>2. /\ at' = 1 /\ ok' = (ok /\ ~bad) /\ bad' = FALSE /\ bits' = {} /\ seen' = 0
      /\ UNCHANGED <<defect, refused, noise>>
  BY <1>1 DEF CleanUp
<1>3. Expected'
  BY <1>2, ExpectedFirst
<1> QED BY <1>2, <1>3 DEF TellInv, SoundInv

LEMMA SoundStill ==
  ASSUME SoundInv, UNCHANGED <<test, at, obj, bits, seen, others, reserved, defect, bad, ok>>,
         refused => refused', noise' = 0 => noise = 0
  PROVE  SoundInv'
<1>1. Expected => Expected'
  <2>1. \A st : Stands(st) => Stands(st)'
    BY DEF Stands, Matches
  <2> QED BY <2>1 DEF Expected, Script
<1> QED BY <1>1 DEF SoundInv, Running

\* Another task has allocated or freed: nothing is said of a sound kernel any more.
LEMMA NoisyStep ==
  ASSUME TellInv, \E p \in Pools : OthersAllocate(p) \/ OthersFree(p)
  PROVE  /\ SoundInv' /\ noise' \in Nat /\ refused' = refused
         /\ UNCHANGED <<test, at, obj, bits, defect, bad, ok>>
<1>1. noise' = noise + 1 /\ noise \in Nat
  BY DEF OthersAllocate, OthersFree, TellInv
<1>2. noise' # 0 /\ noise' \in Nat
  BY <1>1
<1>3. refused' = refused /\ UNCHANGED <<test, at, obj, bits, defect, bad, ok>>
  BY DEF OthersAllocate, OthersFree
<1> QED BY <1>2, <1>3 DEF SoundInv

LEMMA TellInit == ASSUME Init PROVE TellInv
<1>1. /\ test = 1 /\ at = 1 /\ bits = {} /\ seen = 0 /\ noise = 0 /\ ok = TRUE /\ bad = FALSE
      /\ defect \in Defects
  BY DEF Init
<1>2. ASSUME NEW st, st[1] = Nothing PROVE Stands(st)
  <2>1. Has(Nothing) = {} /\ Nothing.bits = {}
    BY DEF Has, Nothing
  <2>2. Matches(Nothing)
    BY <1>1, <2>1 DEF Matches
  <2> QED BY <1>1, <1>2, <2>2, Zenon DEF Stands
<1>3. Expected
  <2>1. ASSUME Script \in ObjectScripts
        PROVE  \E st : Follows(Script, "none", st, Len(Script)) /\ Stands(st)
    <3>1. PICK st : Follows(Script, "none", st, Len(Script))
      BY <2>1, ObjectScriptsRun
    <3>2. st[1] = Nothing
      BY <3>1 DEF Follows
    <3> QED BY <1>2, <3>1, <3>2
  <2> QED BY <1>1, <2>1 DEF Expected
<1>4. CaughtInv
  <2> SUFFICES ASSUME NEW t \in DOMAIN Order, Reveals(Order[t], defect)
               PROVE  ~(t < test) /\ (t = test => Closing)
    BY DEF CaughtInv
  <2>1. ~(t < test)
    <3>1. t \in 1..Len(Order)
      BY ObjectAssumption
    <3> QED BY <1>1, <3>1
  <2>2. ASSUME t = test PROVE Closing
    <3>1. Reveals(Script, defect)
      BY <2>2 DEF Script
    <3>2. CASE defect = "cell"
      BY <1>1, <3>2 DEF Closing
    <3>3. CASE defect # "cell"
      <4>1. PICK st, n : Notices(Script, defect, st, n)
        BY <3>1, <3>3, DefectNoticed
      <4>2. st[1] = Nothing /\ 1 <= n
        BY <4>1 DEF Notices, Follows
      <4> QED BY <1>1, <1>2, <4>1, <4>2 DEF Closing
    <3> QED BY <3>2, <3>3
  <2> QED BY <2>1, <2>2
<1> QED BY <1>1, <1>3, <1>4 DEF TellInv, SoundInv

LEMMA TellNext == ASSUME ObjectInv, TellInv, [Next]_vars PROVE TellInv'
<1>1. CASE Next
  <2>1. noise' \in Nat /\ defect' \in Defects /\ (refused => refused') /\ (noise' = 0 => noise = 0)
    BY <1>1, StaysRefused DEF TellInv
  <2>2. CASE Tester /\ Running
    BY <2>1, <2>2, CaughtCall, CaughtEnd, SoundCall, SoundEnd DEF TellInv
  <2>3. CASE Tester /\ ~Running
    <3>1. CleanupAfterTests
      BY <2>3 DEF Tester, CreateObject, NeedObjects, SendItem, OverwriteItem, ReceiveItem,
         CountItems, SetEventBit, WaitAllBits, RandomRound, AllocateBlock, ReleaseBlock,
         LookAtFree, ForceFailure, CompareFree, FillBlock, FillSmaller, FillEnds,
         VerifyBlocks, CleanUp
    <3>2. UNCHANGED <<test, at, obj, bits, seen, noise, refused, defect, bad, ok>>
      BY <3>1 DEF CleanupAfterTests
    <3>3. CaughtInv'
      BY <3>2, CaughtStill DEF TellInv
    <3>4. SoundInv'
      BY <2>3, <3>2 DEF TellInv, SoundInv, Running
    <3> QED BY <2>1, <3>3, <3>4 DEF TellInv
  <2>4. CASE \E p \in Pools : OthersAllocate(p) \/ OthersFree(p)
    <3>1. SoundInv' /\ refused' = refused /\ UNCHANGED <<test, at, obj, bits, defect, bad, ok>>
      BY <2>4, NoisyStep
    <3>2. CaughtInv'
      BY <3>1, CaughtStill DEF TellInv
    <3> QED BY <2>1, <3>1, <3>2 DEF TellInv
  <2> QED BY <1>1, <2>2, <2>3, <2>4 DEF Next
<1>2. CASE UNCHANGED vars
  <2>1. /\ UNCHANGED <<test, at, obj, bits, seen, others, reserved, defect, bad, ok>>
        /\ refused' = refused /\ noise' = noise
    BY <1>2 DEF vars, mem
  <2>2. CaughtInv' /\ SoundInv'
    BY <2>1, CaughtStill, SoundStill DEF TellInv
  <2> QED BY <2>1, <2>2 DEF TellInv
<1> QED BY <1>1, <1>2

\* On a sound kernel every answer is the expected one, and the test that reveals a
\* defect comes to the place where it does: in every state of every run.
THEOREM TellsCorrect == Spec => []TellInv
<1>1. Init => TellInv
  BY TellInit
<1>2. ObjectInv /\ TellInv /\ [Next]_vars => TellInv'
  BY TellNext
<1> QED BY <1>1, <1>2, ObjectsCorrect, PTL DEF Spec

\* The verdict tells the kernel: if nothing was refused and no other task allocated
\* in between, the suite passes if and only if the kernel has no defect.
THEOREM VerdictTellsAlways == Spec => []VerdictTells
<1>1. ObjectInv /\ TellInv => VerdictTells
  <2> SUFFICES ASSUME ObjectInv, TellInv, ~Running, ~refused, noise = 0
               PROVE  ok <=> defect = "none"
    BY DEF VerdictTells
  <2>1. CASE defect = "none"
    BY <2>1 DEF TellInv, SoundInv
  <2>2. CASE defect # "none"
    <3>1. defect \in Defects \ {"none"}
      BY <2>2 DEF TellInv
    <3>2. PICK t \in DOMAIN Order : Reveals(Order[t], defect)
      BY <3>1, SuiteAssumption
    <3>3. t < test
      <4>1. t \in 1..Len(Order) /\ Len(Order) \in Nat
        BY ObjectAssumption
      <4> QED BY <4>1 DEF Running, ObjectInv, PlaceInv
    <3>4. ~ok
      BY <3>2, <3>3 DEF TellInv, CaughtInv
    <3> QED BY <2>2, <3>4
  <2> QED BY <2>1, <2>2
<1> QED BY <1>1, ObjectsCorrect, TellsCorrect, PTL
=============================================================================
