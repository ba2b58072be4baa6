--------------------------- MODULE ProgressProofs ---------------------------
(***************************************************************************)
(* Proofs about the two mechanisms that the others wait on: the per-CPU    *)
(* reference counter (ocf_env_refcnt.c), for any number of CPUs and any    *)
(* bounds, and the queue and cleaner threads (threads.c), for any number   *)
(* of requests pushed and kicks made.                                      *)
(*                                                                         *)
(* The counter.  The argument rests on one accounting fact: the counts not *)
(* collected yet add up to the references outside the sum and the          *)
(* countdown.  A sum over the CPUs is handled through its sequence of      *)
(* partial sums, so that a change of one CPU's count shifts the partial    *)
(* sums from that CPU on.                                                  *)
(*                                                                         *)
(* The threads.  Life ties the caller's side of create, start and stop to  *)
(* the thread's side, its structure, the stop flag and the completion: the *)
(* completion a stop waits for can only come from the exit of the thread,  *)
(* since the one of the start was consumed and reinit_completion came      *)
(* before the flag.  Work ties the cleaner to the queue: one request of a  *)
(* cleaner run is on the queue at most, while the cleaner has not been     *)
(* completed, and the queue thread decides to exit only when the queue is  *)
(* empty and nobody is left who could push.                                *)
(***************************************************************************)
EXTENDS EnvRefcnt, CasThreads, TLAPS

-----------------------------------------------------------------------------
(* The reference counter. *)

\* The least-number principle, the one fact that the lemmas take from the
\* library; it is proved at the end of the module.
WellOrdered == \A T \in SUBSET Nat : T # {} => \E i \in T : \A j \in T : i <= j

\* g are the partial sums of w over the CPUs 1, 2, ..., N.
PartialSums(g, w) ==
    /\ g \in [0..N -> Int]
    /\ g[0] = 0
    /\ \A i \in CPU : g[i] = g[i-1] + w[i]

HasSum(w, s) == \E g : PartialSums(g, w) /\ g[N] = s

\* A family of zeros sums up to zero.
LEMMA ZerosSumUp == HasSum([c \in CPU |-> 0], 0)
<1> DEFINE g == [i \in 0..N |-> 0]
<1>1. PartialSums(g, [c \in CPU |-> 0]) /\ g[N] = 0
  BY NAssumption DEF PartialSums, CPU
<1> QED  BY Zenon, <1>1 DEF HasSum

\* ... and to nothing else: look at the first partial sum that is not zero.
LEMMA ZerosSumOnlyToZero ==
  ASSUME WellOrdered, NEW w, NEW s, HasSum(w, s), \A c \in CPU : w[c] = 0
  PROVE  s = 0
<1>1. PICK g : PartialSums(g, w) /\ g[N] = s
  BY DEF HasSum
<1> DEFINE T == {i \in 0..N : g[i] # 0}
<1>2. CASE T = {}
  BY <1>1, <1>2, NAssumption
<1>3. CASE T # {}
  <2>1. PICK i \in T : \A j \in T : i <= j
    <3>1. T \subseteq Nat
      BY NAssumption
    <3> HIDE DEF T
    <3> QED  BY <1>3, <3>1, Zenon DEF WellOrdered
  <2>2. i \in CPU
    BY <1>1, NAssumption DEF PartialSums, CPU
  <2>3. i - 1 \in 0..N
    BY <2>2, NAssumption DEF CPU
  <2>4. ~(i <= i - 1)
    BY <2>2 DEF CPU
  <2>5. g[i - 1] = 0
    BY <2>1, <2>3, <2>4, Zenon
  <2>6. g[i] = 0
    BY <1>1, <2>2, <2>5 DEF PartialSums
  <2> QED  BY <2>6
<1> QED  BY <1>2, <1>3

\* Changing one summand changes the sum by as much.
LEMMA SumUpdate ==
  ASSUME NEW w, NEW v, NEW s, NEW t \in Int, NEW c \in CPU, HasSum(w, s),
         v[c] = w[c] + t, \A i \in CPU \ {c} : v[i] = w[i],
         \A i \in CPU : w[i] \in Int
  PROVE  s \in Int /\ HasSum(v, s + t)
<1>1. PICK g : PartialSums(g, w) /\ g[N] = s
  BY DEF HasSum
<1> DEFINE h == [i \in 0..N |-> IF i >= c THEN g[i] + t ELSE g[i]]
<1>2. h \in [0..N -> Int] /\ s \in Int
  BY <1>1, NAssumption, SMTT(30) DEF PartialSums, CPU
<1>3. h[0] = 0 /\ h[N] = s + t
  BY <1>1, NAssumption DEF PartialSums, CPU
<1>4. ASSUME NEW i \in CPU PROVE h[i] = h[i-1] + v[i]
  <2>1. i \in 0..N /\ i - 1 \in 0..N /\ g[i] \in Int /\ g[i-1] \in Int
    BY <1>1, NAssumption, SMTT(30) DEF PartialSums, CPU
  <2>2. g[i] = g[i-1] + w[i]
    BY <1>1 DEF PartialSums
  <2>3. CASE i = c
    BY <2>1, <2>2, <2>3 DEF CPU
  <2>4. CASE i # c
    BY <2>1, <2>2, <2>4 DEF CPU
  <2> QED  BY <2>3, <2>4
<1>5. PartialSums(h, v) /\ h[N] = s + t
  BY <1>2, <1>3, <1>4, Zenon DEF PartialSums
<1> QED  BY Zenon, <1>2, <1>5 DEF HasSum

\* Partial sums are unique: look at the first that differs.
LEMMA PartialSumsUnique ==
  ASSUME WellOrdered, NEW g, NEW h, NEW w, PartialSums(g, w), h[0] = 0,
         \A i \in CPU : h[i] = h[i-1] + w[i]
  PROVE  h[N] = g[N]
<1> DEFINE T == {i \in 0..N : h[i] # g[i]}
<1>1. CASE T = {}
  BY <1>1, NAssumption
<1>2. CASE T # {}
  <2>1. PICK i \in T : \A j \in T : i <= j
    <3>1. T \subseteq Nat
      BY NAssumption
    <3> HIDE DEF T
    <3> QED  BY <1>2, <3>1, Zenon DEF WellOrdered
  <2>2. i \in CPU
    BY NAssumption DEF PartialSums, CPU
  <2>3. i - 1 \in 0..N
    BY <2>2, NAssumption DEF CPU
  <2>4. ~(i <= i - 1)
    BY <2>2 DEF CPU
  <2>5. h[i - 1] = g[i - 1]
    BY <2>1, <2>3, <2>4, Zenon
  <2>6. h[i] = h[i - 1] + w[i] /\ g[i] = g[i - 1] + w[i]
    BY <2>2, Zenon DEF PartialSums
  <2> QED  BY <2>5, <2>6, Zenon
<1> QED  BY <1>1, <1>2

\* Equal summands have equal sums.
LEMMA SumSame ==
  ASSUME NEW w, NEW v, NEW s, HasSum(w, s), \A i \in CPU : v[i] = w[i]
  PROVE  HasSum(v, s)
  BY Zenon DEF HasSum, PartialSums

-----------------------------------------------------------------------------
Weights == [c \in CPU |-> Uncollected(c)]

\* RefsAccounted with the sum in the form the proofs use.
Accounted == HasSum(Weights, live + decs - sum - countdown)

\* Where the flags and the work items stand in each phase.
Phases ==
    /\ initializing =>
         /\ fcount > 0
         /\ \A c \in CPU : /\ work[c] \in {"none", "freeze", "freezing"}
                           /\ freeze[c] <=> work[c] # "freeze"
    /\ ~initializing => sum = 0
    /\ fcount > 0 /\ ~initializing => \A c \in CPU : freeze[c] /\ work[c] = "none"
    /\ fcount = 0 =>
         /\ countdown <= 0
         /\ \A c \in CPU : /\ work[c] \in {"none", "unfreeze", "unfreezing"}
                           /\ freeze[c] <=> work[c] # "none"
                           /\ work[c] = "unfreezing" => counter[c] = 0
    /\ reg # "idle" => fcount > 0

\* A thread that decided in this period finds the counter still at zero.
Deciders == firing.now > 0 => Zeroed

IInv == TypeOK /\ Accounted /\ Phases /\ Deciders

\* In the frozen phase the countdown alone is the number of references.
LEMMA FrozenCountdown ==
  ASSUME WellOrdered, TypeOK, Accounted, Phases, fcount > 0, ~initializing
  PROVE  live + decs = countdown
<1>1. \A c \in CPU : Weights[c] = 0
  BY DEF Weights, Uncollected, Phases
<1>2. sum = 0
  BY DEF Phases
<1>3. live + decs - sum - countdown = 0
  BY <1>1, ZerosSumOnlyToZero DEF Accounted
<1> QED  BY <1>2, <1>3 DEF TypeOK

\* The partial sums exist, so the recursive definition of the model's sum has
\* them for its value.
LEMMA AccountedRefs ==
  ASSUME WellOrdered, TypeOK, Accounted
  PROVE  RefsAccounted
<1> DEFINE s == live + decs - sum - countdown
           F(f) == [n \in 0..N |-> IF n = 0 THEN 0 ELSE f[n-1] + Uncollected(n)]
<1>1. PICK g : PartialSums(g, Weights) /\ g[N] = s
  BY DEF Accounted, HasSum
<1>2. g = F(g)
  <2>1. g \in [0..N -> Int] /\ g[0] = 0
    BY <1>1 DEF PartialSums
  <2>2. ASSUME NEW n \in 0..N, n # 0 PROVE g[n] = g[n-1] + Uncollected(n)
    <3>1. n \in CPU
      BY <2>2, NAssumption DEF CPU
    <3>2. Weights[n] = Uncollected(n)
      BY <3>1 DEF Weights
    <3> QED  BY <1>1, <3>1, <3>2, Zenon DEF PartialSums
  <2> QED  BY <2>1, <2>2
<1> DEFINE u == CHOOSE f : f = F(f)
<1>3. UncollectedUpTo = u
  BY Zenon DEF UncollectedUpTo
<1>4. u = F(u)
  <2> HIDE DEF F
  <2> QED  BY <1>2, Zenon
<1> HIDE DEF u
<1>5. u[0] = 0
  BY <1>4, NAssumption
<1>6. ASSUME NEW i \in CPU PROVE u[i] = u[i-1] + Weights[i]
  <2>1. i \in 0..N /\ i # 0
    BY NAssumption DEF CPU
  <2>2. Weights[i] = Uncollected(i)
    BY DEF Weights
  <2> QED  BY <1>4, <2>1, <2>2, Zenon
<1>7. u[N] = s
  BY <1>1, <1>5, <1>6, PartialSumsUnique
<1> QED  BY <1>3, <1>7, SMT DEF RefsAccounted, TypeOK

\* What zeroed reports is true of the references, in any IInv state.
LEMMA ZeroedNoRefs ==
  ASSUME WellOrdered, TypeOK, Accounted, Phases, Zeroed
  PROVE  live = 0 /\ decs = 0
  BY FrozenCountdown DEF Zeroed, TypeOK

LEMMA InitIInv == Init => IInv
<1> SUFFICES ASSUME Init PROVE IInv
  OBVIOUS
<1>1. TypeOK
  <2>1. freeze \in [CPU -> BOOLEAN] /\ initializing \in BOOLEAN
    BY Zenon DEF Init
  <2>2. /\ counter \in [CPU -> Int] /\ fcount \in Nat /\ countdown \in Int
        /\ sum \in Int /\ armed \in 0..CB_ARMED /\ live \in Nat /\ decs \in Nat
        /\ firing \in [now : Nat, stale : Nat]
    BY DEF Init, CB_ARMED
  <2>3. work \in [CPU -> {"none", "freeze", "freezing", "unfreeze", "unfreezing"}]
    BY DEF Init
  <2>4. reg \in {"idle", "arming", "check"}
    BY DEF Init
  <2> QED  BY <2>1, <2>2, <2>3, <2>4 DEF TypeOK
<1>2. Accounted
  <2>1. Weights = [c \in CPU |-> 0]
    BY DEF Weights, Uncollected, Init
  <2> QED  BY <2>1, ZerosSumUp DEF Accounted, Init
<1>3. Phases /\ Deciders
  BY SMTT(30) DEF Init, Phases, Deciders, Zeroed
<1> QED  BY <1>1, <1>2, <1>3 DEF IInv

\* Every step keeps the types.
LEMMA NextTypeOK == TypeOK /\ [Next]_vars => TypeOK'
<1> SUFFICES ASSUME TypeOK, [Next]_vars PROVE TypeOK'
  OBVIOUS
<1> USE DEF TypeOK, pcpuVars, freezeVars, cbVars, CB_ARMED
<1>1. ASSUME NEW c \in CPU, env_refcnt_inc(c) PROVE TypeOK'
  BY <1>1 DEF env_refcnt_inc
<1>2. ASSUME NEW c \in CPU, env_refcnt_dec(c) PROVE TypeOK'
  BY <1>2 DEF env_refcnt_dec
<1>3. ASSUME NEW c \in CPU, freeze_pcpu(c) PROVE TypeOK'
  <2>1. freeze' \in [CPU -> BOOLEAN]
    BY Zenon, <1>3 DEF freeze_pcpu
  <2>2. work' \in [CPU -> {"none", "freeze", "freezing", "unfreeze", "unfreezing"}]
    BY <1>3 DEF freeze_pcpu
  <2>3. counter' \in [CPU -> Int] /\ sum' \in Int
    BY <1>3 DEF freeze_pcpu
  <2> QED  BY <1>3, <2>1, <2>2, <2>3 DEF freeze_pcpu
<1>4. ASSUME NEW c \in CPU, unfreeze_pcpu(c) PROVE TypeOK'
  <2>1. freeze' \in [CPU -> BOOLEAN]
    BY Zenon, <1>4 DEF unfreeze_pcpu
  <2>2. work' \in [CPU -> {"none", "freeze", "freezing", "unfreeze", "unfreezing"}]
    BY <1>4 DEF unfreeze_pcpu
  <2>3. counter' \in [CPU -> Int] /\ sum' \in Int
    BY <1>4 DEF unfreeze_pcpu
  <2> QED  BY <1>4, <2>1, <2>2, <2>3 DEF unfreeze_pcpu
<1>5. CASE DecCountdown
  BY <1>5 DEF DecCountdown, Decide
<1>6. ASSUME NEW k \in {"now", "stale"}, call_freeze_cb(k) PROVE TypeOK'
  BY <1>6 DEF call_freeze_cb
<1>7. CASE FreezeFirst
  <2>1. work' \in [CPU -> {"none", "freeze", "freezing", "unfreeze", "unfreezing"}]
    BY <1>7 DEF FreezeFirst
  <2>2. initializing' \in BOOLEAN
    BY <1>7 DEF FreezeFirst
  <2>3. fcount' \in Nat /\ sum' \in Int
    BY <1>7 DEF FreezeFirst
  <2>4. UNCHANGED <<counter, freeze, countdown, armed, reg, live, decs, firing>>
    BY <1>7 DEF FreezeFirst
  <2> QED  BY <2>1, <2>2, <2>3, <2>4
<1>8. CASE FreezeNested
  BY <1>8 DEF FreezeNested
<1>9. CASE FreezeFinish
  <2>1. firing' \in [now : Nat, stale : Nat]
    BY <1>9 DEF FreezeFinish, Decide
  <2>2. initializing' \in BOOLEAN
    BY Zenon, <1>9 DEF FreezeFinish
  <2>3. countdown' \in Int /\ sum' \in Int
    BY <1>9 DEF FreezeFinish
  <2> QED  BY <1>9, <2>1, <2>2, <2>3 DEF FreezeFinish
<1>10. CASE RegisterBegin
  BY <1>10 DEF RegisterBegin
<1>11. CASE RegisterArm
  BY <1>11 DEF RegisterArm
<1>12. CASE RegisterCheck
  BY <1>12 DEF RegisterCheck, Decide
<1>13. CASE UnfreezeNested
  BY <1>13 DEF UnfreezeNested
<1>14. CASE UnfreezeLast
  BY <1>14 DEF UnfreezeLast
<1>15. CASE UNCHANGED vars
  BY <1>15 DEF vars
<1> QED
  BY <1>1, <1>2, <1>3, <1>4, <1>5, <1>6, <1>7, <1>8, <1>9, <1>10, <1>11,
     <1>12, <1>13, <1>14, <1>15, ZenonT(60) DEF Next

\* Every step keeps the phases apart.
LEMMA NextPhases == TypeOK /\ Phases /\ Accounted /\ [Next]_vars => Phases'
<1> SUFFICES ASSUME TypeOK, Phases, Accounted, [Next]_vars PROVE Phases'
  OBVIOUS
<1> USE DEF TypeOK, Phases, pcpuVars, freezeVars, cbVars
<1>1. ASSUME NEW c \in CPU, env_refcnt_inc(c) PROVE Phases'
  BY <1>1, Zenon DEF env_refcnt_inc
<1>2. ASSUME NEW c \in CPU, env_refcnt_dec(c) PROVE Phases'
  BY <1>2, Zenon DEF env_refcnt_dec
<1>3. ASSUME NEW c \in CPU, freeze_pcpu(c) PROVE Phases'
  BY <1>3 DEF freeze_pcpu
<1>4. ASSUME NEW c \in CPU, unfreeze_pcpu(c) PROVE Phases'
  BY <1>4, Zenon DEF unfreeze_pcpu
<1>5. CASE DecCountdown
  BY <1>5 DEF DecCountdown
<1>6. ASSUME NEW k \in {"now", "stale"}, call_freeze_cb(k) PROVE Phases'
  BY <1>6, Zenon DEF call_freeze_cb
<1>7. CASE FreezeFirst
  BY <1>7 DEF FreezeFirst, Notified
<1>8. CASE FreezeNested
  BY <1>8 DEF FreezeNested
<1>9. CASE FreezeFinish
  BY <1>9 DEF FreezeFinish, Notified
<1>10. CASE RegisterBegin
  BY <1>10 DEF RegisterBegin, Returned
<1>11. CASE RegisterArm
  BY <1>11 DEF RegisterArm
<1>12. CASE RegisterCheck
  BY <1>12, Zenon DEF RegisterCheck
<1>13. CASE UnfreezeNested
  BY <1>13 DEF UnfreezeNested
<1>14. CASE UnfreezeLast
  BY <1>14 DEF UnfreezeLast, Zeroed
<1>15. CASE UNCHANGED vars
  BY <1>15, Zenon DEF vars
<1> QED
  BY ZenonT(30), <1>1, <1>2, <1>3, <1>4, <1>5, <1>6, <1>7, <1>8, <1>9, <1>10, <1>11,
     <1>12, <1>13, <1>14, <1>15 DEF Next

-----------------------------------------------------------------------------
\* Every step keeps the references accounted for.  A get or put on an open
\* CPU moves one weight and one reference; a work item moves a weight into
\* the sum; the settling of a freeze moves the sum into the countdown.
LEMMA NextAccounted == TypeOK /\ Phases /\ Accounted /\ [Next]_vars => Accounted'
<1> SUFFICES ASSUME TypeOK, Phases, Accounted, [Next]_vars PROVE Accounted'
  OBVIOUS
<1> DEFINE s == live + decs - sum - countdown
<1>s. s \in Int
  BY DEF TypeOK
<1>w. \A i \in CPU : Weights[i] \in Int
  BY DEF TypeOK, Weights, Uncollected
<1>same. ASSUME UNCHANGED <<counter, freeze, work>>, s' = s PROVE Accounted'
  <2>1. Weights' = Weights
    BY <1>same DEF Weights, Uncollected
  <2> QED  BY <1>same, <2>1 DEF Accounted
<1>one. ASSUME NEW c \in CPU, NEW t \in Int,
               Uncollected(c)' = Uncollected(c) + t, s' = s + t,
               \A i \in CPU \ {c} : Uncollected(i)' = Uncollected(i)
        PROVE Accounted'
  <2>1. Weights'[c] = Weights[c] + t /\ \A i \in CPU \ {c} : Weights'[i] = Weights[i]
    BY <1>one DEF Weights
  <2>2. HasSum(Weights', s + t)
    BY <1>w, <2>1, SumUpdate DEF Accounted
  <2> QED  BY <1>one, <2>2 DEF Accounted
<1> USE DEF TypeOK, pcpuVars, freezeVars, cbVars
<1>1. ASSUME NEW c \in CPU, env_refcnt_inc(c) PROVE Accounted'
  <2>1. Uncollected(c)' = Uncollected(c) + 1 /\ s' = s + 1
    BY <1>1 DEF env_refcnt_inc, Uncollected
  <2>2. \A i \in CPU \ {c} : Uncollected(i)' = Uncollected(i)
    BY <1>1 DEF env_refcnt_inc, Uncollected
  <2> QED  BY <1>one, <2>1, <2>2
<1>2. ASSUME NEW c \in CPU, env_refcnt_dec(c) PROVE Accounted'
  <2>1. CASE freeze[c]
    <3>1. UNCHANGED <<counter, freeze, work>> /\ s' = s
      BY <1>2, <2>1 DEF env_refcnt_dec
    <3> QED  BY <1>same, <3>1
  <2>2. CASE ~freeze[c]
    <3>1. Uncollected(c)' = Uncollected(c) - 1 /\ s' = s - 1
      BY <1>2, <2>2 DEF env_refcnt_dec, Uncollected
    <3>2. \A i \in CPU \ {c} : Uncollected(i)' = Uncollected(i)
      BY <1>2, <2>2, Zenon DEF env_refcnt_dec, Uncollected
    <3>3. Uncollected(c)' = Uncollected(c) + (-1) /\ s' = s + (-1)
      BY <1>s, <3>1 DEF Uncollected
    <3> QED  BY <1>one, <3>2, <3>3
  <2> QED  BY <2>1, <2>2
<1>3. ASSUME NEW c \in CPU, freeze_pcpu(c) PROVE Accounted'
  <2>2. \A i \in CPU \ {c} : Uncollected(i)' = Uncollected(i)
    BY <1>3 DEF freeze_pcpu, Uncollected
  <2>3. CASE work[c] = "freeze"
    <3>1. Uncollected(c)' = Uncollected(c) /\ s' = s
      BY <1>3, <2>3, Zenon DEF freeze_pcpu, Uncollected
    <3>2. Uncollected(c)' = Uncollected(c) + 0 /\ s' = s + 0
      BY <1>s, <3>1 DEF Uncollected
    <3> QED  BY <1>one, <2>2, <3>2
  <2>4. CASE work[c] = "freezing"
    <3>0. initializing /\ freeze[c]
      BY <2>4 DEF Phases
    <3>1. Uncollected(c) = counter[c] /\ Uncollected(c)' = 0 /\ s' = s - counter[c]
      BY <1>3, <2>4, <3>0 DEF freeze_pcpu, Uncollected
    <3>2. Uncollected(c)' = Uncollected(c) + (-counter[c]) /\ s' = s + (-counter[c])
      BY <1>s, <3>1, SMTT(30)
    <3> QED  BY <1>one, <2>2, <3>2
  <2> QED  BY <1>3, <2>3, <2>4, Zenon DEF freeze_pcpu
<1>4. ASSUME NEW c \in CPU, unfreeze_pcpu(c) PROVE Accounted'
  <2>0. fcount = 0 /\ freeze[c]
    BY <1>4 DEF unfreeze_pcpu, Phases
  <2>1. Uncollected(c)' = Uncollected(c) /\ s' = s
    BY <1>4, <2>0, Zenon DEF unfreeze_pcpu, Uncollected, Phases
  <2>2. \A i \in CPU \ {c} : Uncollected(i)' = Uncollected(i)
    BY <1>4, Zenon DEF unfreeze_pcpu, Uncollected
  <2>3. Uncollected(c)' = Uncollected(c) + 0 /\ s' = s + 0
    BY <1>s, <2>1 DEF Uncollected
  <2> QED  BY <1>one, <2>2, <2>3
<1>5. CASE DecCountdown
  BY <1>same, <1>5 DEF DecCountdown
<1>6. ASSUME NEW k \in {"now", "stale"}, call_freeze_cb(k) PROVE Accounted'
  BY <1>same, <1>6 DEF call_freeze_cb
<1>7. CASE FreezeFirst
  <2>1. \A i \in CPU : Uncollected(i)' = Uncollected(i)
    BY <1>7 DEF FreezeFirst, Uncollected, Notified, Phases
  <2>2. Weights' = Weights
    BY <2>1, Zenon DEF Weights
  <2>3. s' = s
    BY <1>7 DEF FreezeFirst, Phases
  <2> QED  BY <2>2, <2>3, Zenon DEF Accounted
<1>8. CASE FreezeNested
  BY <1>same, <1>8 DEF FreezeNested
<1>9. CASE FreezeFinish
  <2>1. s' = s /\ UNCHANGED <<counter, freeze, work>>
    BY <1>9 DEF FreezeFinish
  <2> QED  BY <1>same, <2>1
<1>10. CASE RegisterBegin
  BY <1>same, <1>10 DEF RegisterBegin
<1>11. CASE RegisterArm
  BY <1>same, <1>11, Zenon DEF RegisterArm
<1>12. CASE RegisterCheck
  BY <1>same, <1>12, Zenon DEF RegisterCheck
<1>13. CASE UnfreezeNested
  BY <1>same, <1>13, Zenon DEF UnfreezeNested
<1>14. CASE UnfreezeLast
  <2>1. \A i \in CPU : Uncollected(i)' = Uncollected(i)
    BY <1>14, Zenon DEF UnfreezeLast, Zeroed, Uncollected, Phases
  <2>2. Weights' = Weights
    BY <2>1 DEF Weights
  <2>3. s' = s
    BY <1>14, Zenon DEF UnfreezeLast
  <2> QED  BY <2>2, <2>3 DEF Accounted
<1>15. CASE UNCHANGED vars
  BY <1>same, <1>15, SMTT(30) DEF vars
<1> QED
  BY <1>1, <1>2, <1>3, <1>4, <1>5, <1>6, <1>7, <1>8, <1>9, <1>10, <1>11,
     <1>12, <1>13, <1>14, <1>15, Zenon DEF Next

\* Every step keeps the deciders of this period at a zeroed counter.
LEMMA NextDeciders ==
  ASSUME WellOrdered
  PROVE  IInv /\ [Next]_vars => Deciders'
<1> SUFFICES ASSUME IInv, [Next]_vars PROVE Deciders'
  OBVIOUS
<1> USE DEF IInv, TypeOK, Deciders, Zeroed, pcpuVars, freezeVars, cbVars
<1>1. ASSUME NEW c \in CPU, env_refcnt_inc(c) PROVE Deciders'
  BY <1>1 DEF env_refcnt_inc
<1>2. ASSUME NEW c \in CPU, env_refcnt_dec(c) PROVE Deciders'
  BY <1>2 DEF env_refcnt_dec
<1>3. ASSUME NEW c \in CPU, freeze_pcpu(c) PROVE Deciders'
  BY <1>3 DEF freeze_pcpu
<1>4. ASSUME NEW c \in CPU, unfreeze_pcpu(c) PROVE Deciders'
  BY <1>4 DEF unfreeze_pcpu
<1>5. CASE DecCountdown
  <2>1. firing.now = 0
    BY <1>5, ZeroedNoRefs DEF DecCountdown
  <2> QED  BY <1>5, <2>1 DEF DecCountdown, Decide, Phases
<1>6. ASSUME NEW k \in {"now", "stale"}, call_freeze_cb(k) PROVE Deciders'
  BY <1>6 DEF call_freeze_cb
<1>7. CASE FreezeFirst
  BY <1>7 DEF FreezeFirst
<1>8. CASE FreezeNested
  BY <1>8 DEF FreezeNested
<1>9. CASE FreezeFinish
  BY <1>9 DEF FreezeFinish, Decide, Phases
<1>10. CASE RegisterBegin
  BY <1>10 DEF RegisterBegin
<1>11. CASE RegisterArm
  BY <1>11 DEF RegisterArm
<1>12. CASE RegisterCheck
  BY <1>12, Zenon DEF RegisterCheck, Decide, Phases
<1>13. CASE UnfreezeNested
  BY <1>13 DEF UnfreezeNested
<1>14. CASE UnfreezeLast
  BY <1>14, Zenon DEF UnfreezeLast
<1>15. CASE UNCHANGED vars
  BY <1>15 DEF vars
<1> QED
  BY <1>1, <1>2, <1>3, <1>4, <1>5, <1>6, <1>7, <1>8, <1>9, <1>10, <1>11,
     <1>12, <1>13, <1>14, <1>15, ZenonT(60) DEF Next

\* Every step is a step of the gate over a plain count, or none of its steps.
LEMMA GateStep ==
  ASSUME WellOrdered, IInv, [Next]_vars
  PROVE  [Abstract!AbsNext]_(Abstract!absVars)
<1>1. live \in Nat /\ decs \in Nat /\ fcount \in Nat
  BY Zenon DEF IInv, TypeOK
<1>2. ASSUME UNCHANGED <<fcount, initializing, live, decs>>
      PROVE  UNCHANGED Abstract!absVars
  BY <1>2, Zenon DEF Abstract!absVars
<1>3. ASSUME NEW c \in CPU, env_refcnt_inc(c) PROVE Abstract!AbsNext
  <2>1. ~(fcount > 0 /\ ~initializing)
    BY <1>3, Zenon DEF IInv, Phases, env_refcnt_inc
  <2>2. live' = live + 1 /\ decs' = decs /\ UNCHANGED <<fcount, initializing>>
    BY <1>3, Zenon DEF env_refcnt_inc, freezeVars
  <2>3. live' + decs' = live + decs + 1
    BY <1>1, <2>2
  <2> QED  BY <2>1, <2>2, <2>3, Zenon DEF Abstract!AbsNext, Abstract!Take
<1>4. ASSUME NEW c \in CPU, env_refcnt_dec(c)
      PROVE  Abstract!AbsNext \/ UNCHANGED Abstract!absVars
  <2>1. /\ live > 0 /\ live' = live - 1 /\ UNCHANGED <<fcount, initializing>>
        /\ decs' = decs \/ decs' = decs + 1
    BY <1>4, Zenon DEF env_refcnt_dec, freezeVars
  <2>2. CASE decs' = decs
    <3>1. live + decs > 0 /\ live' + decs' = live + decs - 1
      BY <1>1, <2>1, <2>2
    <3>2. Abstract!GiveBack
      BY <1>1, <2>1, <3>1 DEF Abstract!GiveBack
    <3> QED  BY <3>2, Zenon DEF Abstract!AbsNext
  <2>3. CASE decs' = decs + 1
    <3>1. live' + decs' = live + decs
      BY <1>1, <2>1, <2>3
    <3> QED  BY <2>1, <3>1, Zenon DEF Abstract!absVars
  <2> QED  BY <2>1, <2>2, <2>3, Zenon
<1>5. ASSUME NEW c \in CPU, freeze_pcpu(c) \/ unfreeze_pcpu(c)
      PROVE  UNCHANGED Abstract!absVars
  BY <1>2, <1>5, Zenon DEF freeze_pcpu, unfreeze_pcpu, freezeVars
<1>6. CASE DecCountdown
  <2>1. /\ decs > 0 /\ decs' = decs - 1 /\ live' = live
        /\ UNCHANGED <<fcount, initializing>>
    BY <1>6, Zenon DEF DecCountdown
  <2>2. live + decs > 0 /\ live' + decs' = live + decs - 1
    BY <1>1, <2>1
  <2>3. Abstract!GiveBack
    BY <1>1, <2>1, <2>2 DEF Abstract!GiveBack
  <2> QED  BY <2>3, Zenon DEF Abstract!AbsNext
<1>7. ASSUME NEW k \in {"now", "stale"}, call_freeze_cb(k)
      PROVE  UNCHANGED Abstract!absVars
  BY <1>2, <1>7, Zenon DEF call_freeze_cb, freezeVars
<1>8. CASE FreezeFirst
  <2>1. fcount = 0 /\ initializing' /\ UNCHANGED <<live, decs>>
    BY <1>8, Zenon DEF FreezeFirst
  <2>2. ~(fcount > 0)
    BY <2>1
  <2> QED  BY <2>1, <2>2, Zenon DEF Abstract!absVars
<1>9. CASE FreezeNested \/ UnfreezeNested
  <2>1. fcount > 0 /\ fcount' > 0
    BY <1>1, <1>9 DEF FreezeNested, UnfreezeNested
  <2>2. UNCHANGED <<initializing, live, decs>>
    BY <1>9, Zenon DEF FreezeNested, UnfreezeNested
  <2> QED  BY <2>1, <2>2, Zenon DEF Abstract!absVars
<1>10. CASE FreezeFinish
  <2>1. fcount > 0 /\ initializing /\ ~initializing' /\ UNCHANGED <<fcount, live, decs>>
    BY <1>10, Zenon DEF IInv, Phases, FreezeFinish
  <2> QED  BY <2>1, Zenon DEF Abstract!AbsNext, Abstract!Shut
<1>11. CASE RegisterBegin \/ RegisterArm \/ RegisterCheck
  BY <1>2, <1>11, Zenon DEF RegisterBegin, RegisterArm, RegisterCheck, freezeVars
<1>12. CASE UnfreezeLast
  <2>1. live = 0 /\ decs = 0
    BY <1>12, ZeroedNoRefs, Zenon DEF IInv, UnfreezeLast
  <2>2. fcount > 0 /\ ~initializing /\ fcount' = 0 /\ UNCHANGED <<live, decs>>
    BY <1>12, Zenon DEF UnfreezeLast, Zeroed
  <2>3. ~(fcount' > 0) /\ live + decs = 0
    BY <2>1, <2>2
  <2> QED  BY <2>2, <2>3, Zenon DEF Abstract!AbsNext, Abstract!Lift
<1>13. CASE UNCHANGED vars
  BY <1>2, <1>13, Zenon DEF vars
<1> QED
  BY ZenonT(60), <1>3, <1>4, <1>5, <1>6, <1>7, <1>8, <1>9, <1>10, <1>11, <1>12,
     <1>13 DEF Next

-----------------------------------------------------------------------------
(* The threads. *)

\* The bounds of the model are natural numbers.
ThrBoundsNat == MaxPush \in Nat /\ MaxKick \in Nat

Loop(t) == IF t = "queue"
           THEN {"check", "queued", "asleep", "run", "loop"}
           ELSE {"check", "queued", "asleep", "top", "clean", "kick", "wait"}

\* The thread exists and its structure is allocated.
Running == {"starting", "up", "stop", "stop wake", "stop wait"}

\* For each position of the caller: the thread, its structure, the pointer
\* to it, the stop flag and the completion.
Life(t) ==
    /\ mgr[t] = "none" => /\ thr[t] = "none" /\ info[t] = "none" /\ compl[t] = 0
                          /\ ~priv[t] /\ ~stop[t]
    /\ mgr[t] = "created" => /\ thr[t] = "new" /\ info[t] = "alloc" /\ compl[t] = 0
                             /\ ~priv[t] /\ ~stop[t]
    /\ mgr[t] \in Running => info[t] = "alloc"
    /\ mgr[t] \in {"starting", "up"} => priv[t]
    /\ mgr[t] \in Running /\ t = "cleaner" => priv[t]
    /\ mgr[t] = "starting" => /\ ~stop[t]
                              /\ \/ thr[t] = "start" /\ compl[t] = 0
                                 \/ thr[t] \in Loop(t) /\ compl[t] = 1
    /\ mgr[t] \in {"up", "stop"} => ~stop[t] /\ thr[t] \in Loop(t) /\ compl[t] = 0
    /\ mgr[t] \in {"stop wake", "stop wait"} =>
            /\ stop[t]
            /\ \/ thr[t] \in Loop(t) \cup {"exit"} /\ compl[t] = 0
               \/ thr[t] = "gone" /\ compl[t] = 1
    /\ mgr[t] = "down" => thr[t] \in {"none", "gone"} /\ compl[t] = 0

\* A cleaner exists only beside a queue that is up, and kicks under way only
\* for a thread that is up.
Order ==
    /\ mgr["queue"] # "up" => mgr["cleaner"] \in {"none", "down"}
    /\ kicks > 0 => mgr["queue"] = "up"
    /\ ckick > 0 => mgr["cleaner"] = "up"

OneClean == \A i, j \in DOMAIN queue : queue[i] = "clean" /\ queue[j] = "clean" => i = j

\* The requests and the cleaner that waits for one of them.
Work ==
    /\ OneClean
    /\ Queued("clean") => thr["cleaner"] \in {"kick", "wait"} /\ sync = 0
    /\ sync > 0 => thr["cleaner"] \in {"kick", "wait"}
    /\ thr["queue"] \in {"exit", "gone"} => queue = <<>>

\* The bounds.
Counts ==
    /\ kicks <= pushed /\ ckick <= ckicks
    /\ Len(queue) <= pushed + 1
    /\ ~Queued("clean") => Len(queue) <= pushed

\* ThrTypeOK in parts: what the steps of the threads change, the counters, and
\* the queue.
ThreadTypes ==
    /\ mgr \in [Threads -> {"none", "created", "starting", "up", "stop",
                            "stop wake", "stop wait", "down"}]
    /\ thr \in [Threads -> {"none", "new", "start", "check", "queued", "asleep",
                            "run", "loop", "top", "clean", "kick", "wait",
                            "exit", "gone"}]
    /\ info \in [Threads -> {"none", "alloc", "freed"}]
    /\ priv \in [Threads -> BOOLEAN]
    /\ stop \in [Threads -> BOOLEAN]
    /\ kicked \in BOOLEAN /\ ms \in {"sleep", "disable"} /\ owed \in BOOLEAN
Completions == compl \in [Threads -> {0, 1}] /\ sync \in {0, 1}
Numbers ==
    /\ pushed \in 0..MaxPush /\ kicks \in 0..MaxPush
    /\ ckicks \in 0..MaxKick /\ ckick \in 0..MaxKick
Requests == queue \in Seq({"io", "clean"})

\* The inductive invariant.
ThrInv ==
    /\ ThreadTypes /\ Completions /\ Numbers /\ Requests
    /\ \A t \in Threads : Life(t)
    /\ Order /\ Work /\ Counts
    /\ faults = {}

-----------------------------------------------------------------------------
(* Steps that leave the queue and the counters alone.                      *)

\* What is said of the queue holds of it as long as nobody touches it.
LEMMA QueueKept ==
    ASSUME queue' = queue
    PROVE  /\ OneClean' <=> OneClean
           /\ Queued("clean")' <=> Queued("clean")
           /\ Requests' <=> Requests
BY Zenon DEF OneClean, Queued, Requests

\* The counts stay right when neither the queue nor a counter changes.
LEMMA CountsKept ==
    ASSUME Counts, Numbers, UNCHANGED ocf
    PROVE  Counts' /\ Numbers'
BY QueueKept DEF Counts, Numbers, ocf

\* What the position of a thread and of its caller say of the rest.
LEMMA Alive ==
    ASSUME ThrInv, NEW t \in Threads
    PROVE  /\ thr[t] \in Loop(t) \cup {"start", "exit"} =>
                info[t] = "alloc" /\ mgr[t] \in Running
           /\ thr[t] = "start" => mgr[t] = "starting" /\ priv[t] /\ compl[t] = 0
           /\ thr[t] = "exit" => mgr[t] \in {"stop wake", "stop wait"} /\ compl[t] = 0
           /\ mgr[t] = "starting" /\ compl[t] > 0 => thr[t] \in Loop(t) /\ compl[t] = 1
           /\ mgr[t] = "stop wait" /\ compl[t] > 0 => thr[t] = "gone" /\ compl[t] = 1
<1> USE DEF ThrInv
<1>1. /\ Life(t) /\ compl[t] \in {0, 1}
      /\ mgr[t] \in Running \cup {"none", "created", "down"}
    BY Zenon DEF ThreadTypes, Completions, Running
<1>2. thr[t] \in Loop(t) \cup {"start", "exit"} => mgr[t] \notin {"none", "created", "down"}
    BY <1>1, Zenon DEF Life, Loop
<1>3. thr[t] = "start" => mgr[t] = "starting"
    BY <1>1, Zenon DEF Life, Loop, Running
<1>4. thr[t] = "exit" => mgr[t] \in {"stop wake", "stop wait"}
    BY <1>1, Zenon DEF Life, Loop, Running
<1>5. compl[t] > 0 => compl[t] = 1
    BY <1>1
<1>6. compl[t] = 1 => compl[t] # 0
    OBVIOUS
<1>7. mgr[t] = "starting" /\ compl[t] = 1 => thr[t] \in Loop(t)
    BY <1>1, <1>6, Zenon DEF Life
<1>8. mgr[t] = "stop wait" /\ compl[t] = 1 => thr[t] = "gone"
    BY <1>1, <1>6, Zenon DEF Life
<1>9. thr[t] = "exit" => compl[t] = 0
    BY <1>1, <1>4, Zenon DEF Life
<1>10. thr[t] = "start" => priv[t] /\ compl[t] = 0
    BY <1>1, <1>3, Zenon DEF Life, Loop
<1>11. mgr[t] \in Running => info[t] = "alloc"
    BY <1>1, Zenon DEF Life
<1>12. QED
    BY <1>1, <1>2, <1>3, <1>4, <1>5, <1>7, <1>8, <1>9, <1>10, <1>11, Zenon

\* A cleaner that runs has a queue that is up.
LEMMA CleanerAlive ==
    ASSUME ThrInv, thr["cleaner"] \in Loop("cleaner")
    PROVE  /\ priv["cleaner"] /\ info["cleaner"] = "alloc"
           /\ priv["queue"] /\ info["queue"] = "alloc" /\ mgr["queue"] = "up"
           /\ thr["queue"] \in Loop("queue")
<1> USE DEF ThrInv, Threads
<1>1. mgr["cleaner"] \in Running /\ info["cleaner"] = "alloc"
    BY Alive, Zenon
<1>2. mgr["queue"] = "up"
    BY <1>1, Zenon DEF Order, Running
<1>3. QED
    BY <1>1, <1>2, Zenon DEF Life, Running

\* No step of a thread that runs meets a structure that is gone.
LEMMA UseIsSafe ==
    ASSUME NEW t \in Threads, info[t] = "alloc"
    PROVE  /\ Use(t) = {}
           /\ priv[t] => UsePriv(t) = {}
BY Zenon DEF Use, UsePriv, Fault

\* A request of others at the end of the queue.
LEMMA PushedIo ==
    ASSUME Requests, queue' = Append(queue, "io")
    PROVE  /\ Requests' /\ Len(queue') = Len(queue) + 1 /\ Len(queue) \in Nat
           /\ OneClean => OneClean'
           /\ Queued("clean")' <=> Queued("clean")
<1>1. /\ Len(queue) \in Nat /\ Requests' /\ Len(queue') = Len(queue) + 1
      /\ DOMAIN queue = 1 .. Len(queue) /\ DOMAIN queue' = 1 .. Len(queue) + 1
    BY DEF Requests
<1>2. /\ queue'[Len(queue) + 1] = "io"
      /\ \A i \in 1 .. Len(queue) : queue'[i] = queue[i]
    BY DEF Requests
<1>3. QED
    BY <1>1, <1>2 DEF OneClean, Queued

\* The request of a cleaner run at the end of the queue.
LEMMA PushedClean ==
    ASSUME Requests, ~Queued("clean"), queue' = Append(queue, "clean")
    PROVE  /\ Requests' /\ Len(queue') = Len(queue) + 1 /\ Len(queue) \in Nat
           /\ OneClean' /\ Queued("clean")'
<1>1. /\ Len(queue) \in Nat /\ Requests' /\ Len(queue') = Len(queue) + 1
      /\ DOMAIN queue = 1 .. Len(queue) /\ DOMAIN queue' = 1 .. Len(queue) + 1
    BY DEF Requests
<1>2. /\ queue'[Len(queue) + 1] = "clean"
      /\ \A i \in 1 .. Len(queue) : queue'[i] = queue[i]
    BY DEF Requests
<1>3. QED
    BY <1>1, <1>2 DEF OneClean, Queued

\* The first request taken off the queue.
LEMMA TakenOff ==
    ASSUME Requests, OneClean, queue # <<>>, queue' = Tail(queue)
    PROVE  /\ Requests' /\ OneClean'
           /\ Len(queue) \in Nat /\ Len(queue') = Len(queue) - 1
           /\ Queued("clean")' => Queued("clean")
           /\ Head(queue) = "clean" => Queued("clean") /\ ~Queued("clean")'
           /\ Head(queue) # "clean" => (Queued("clean")' <=> Queued("clean"))
<1>1. /\ Len(queue) \in Nat /\ Len(queue) > 0 /\ Requests'
      /\ Len(queue') = Len(queue) - 1
      /\ DOMAIN queue = 1 .. Len(queue) /\ DOMAIN queue' = 1 .. Len(queue) - 1
    BY DEF Requests
<1>2. Head(queue) = queue[1] /\ \A i \in 1 .. Len(queue) - 1 : queue'[i] = queue[i + 1]
    BY <1>1 DEF Requests
<1>3. OneClean'
    BY <1>1, <1>2 DEF OneClean
<1>4. Queued("clean")' => Queued("clean")
    BY <1>1, <1>2 DEF Queued
<1>5. Head(queue) = "clean" => Queued("clean") /\ ~Queued("clean")'
    BY <1>1, <1>2 DEF Queued, OneClean
<1>6. ASSUME Head(queue) # "clean", Queued("clean") PROVE Queued("clean")'
    <2>1. PICK i \in 1 .. Len(queue) : queue[i] = "clean"
        BY <1>1, <1>6 DEF Queued
    <2>2. i - 1 \in 1 .. Len(queue) - 1 /\ queue'[i - 1] = "clean"
        BY <1>1, <1>2, <1>6, <2>1
    <2>3. QED
        BY <1>1, <2>2, Zenon DEF Queued
<1>7. QED
    BY <1>1, <1>3, <1>4, <1>5, <1>6


\* _cas_create_thread keeps the invariant.
LEMMA CreateKeeps ==
    ASSUME ThrInv, ThrBoundsNat, NEW t \in Threads, create_thread(t)
    PROVE  ThrInv'
<1> USE DEF ThrInv, Threads
<1>1. faults' = {}
    BY Zenon DEF create_thread
<1>2. ThreadTypes'
    <2>1. CASE Call(t, "created") /\ Goto(t, "new") /\ info' = [info EXCEPT ![t] = "alloc"]
        BY <2>1, Zenon DEF ThreadTypes, create_thread, Goto, Call
    <2>2. CASE Call(t, "down") /\ UNCHANGED <<info, thr>>
        BY <2>2, Zenon DEF ThreadTypes, create_thread, Call
    <2>3. QED
        BY <2>1, <2>2 DEF create_thread
<1>3. Completions'
    BY Zenon DEF Completions, create_thread
<1>4. Numbers' /\ Counts'
    BY CountsKept, Zenon DEF create_thread, ocf
<1>5. Requests'
    BY QueueKept, Zenon DEF create_thread, ocf
<1>6. ASSUME NEW u \in Threads PROVE Life(u)'
    <2>1. CASE Call(t, "created") /\ Goto(t, "new") /\ info' = [info EXCEPT ![t] = "alloc"]
        BY <2>1, ZenonT(60) DEF ThreadTypes, create_thread, Goto, Call, Life, Running
    <2>2. CASE Call(t, "down") /\ UNCHANGED <<info, thr>>
        BY <2>2, ZenonT(60) DEF ThreadTypes, create_thread, Call, Life, Running
    <2>3. QED
        BY <2>1, <2>2 DEF create_thread
<1>7. Order'
    BY Zenon DEF ThreadTypes, create_thread, ocf, Call, Order
<1>8. Work'
    BY QueueKept, Zenon DEF ThreadTypes, create_thread, ocf, Goto, Work, Life
<1>9. QED
    BY <1>1, <1>2, <1>3, <1>4, <1>5, <1>6, <1>7, <1>8, Zenon

\* _cas_start_thread up to wake_up_process.
LEMMA StartKeeps ==
    ASSUME ThrInv, ThrBoundsNat, NEW t \in Threads, start_thread(t)
    PROVE  ThrInv'
<1> USE DEF ThrInv, Threads
<1>1. faults' = {}
    BY DEF start_thread
<1>2. ThreadTypes'
    BY Zenon DEF ThreadTypes, start_thread, Goto, Call
<1>3. Completions'
    BY Zenon DEF Completions, start_thread
<1>4. Numbers' /\ Counts'
    BY CountsKept, Zenon DEF start_thread, ocf
<1>5. Requests'
    BY QueueKept DEF start_thread, ocf
<1>6. ASSUME NEW u \in Threads PROVE Life(u)'
    BY ZenonT(60) DEF ThreadTypes, start_thread, Goto, Call, Life
<1>7. Order'
    BY DEF start_thread, ocf, Call, Order
<1>8. Work'
    BY QueueKept, Zenon DEF ThreadTypes, start_thread, ocf, Goto, Work, Life
<1>9. QED
    BY <1>1, <1>2, <1>3, <1>4, <1>5, <1>6, <1>7, <1>8

\* The end of a start: the completion consumed is that of the thread's entry.
LEMMA StartedKeeps ==
    ASSUME ThrInv, ThrBoundsNat, NEW t \in Threads, Started(t)
    PROVE  ThrInv'
<1> USE DEF ThrInv, Threads
<1>0. compl[t] = 1
    BY Alive, Zenon DEF Started
<1>a. compl' = [compl EXCEPT ![t] = 0]
    <2>1. compl' = [compl EXCEPT ![t] = compl[t] - 1]
        BY DEF Started
    <2>2. compl[t] - 1 = 0
        BY <1>0
    <2>3. QED
        BY <2>1, <2>2, Zenon
<1>1. faults' = {}
    BY DEF Started
<1>2. ThreadTypes'
    BY Zenon DEF ThreadTypes, Started, Call
<1>3. Completions'
    BY <1>a, Zenon DEF Completions, Started
<1>4. Numbers' /\ Counts'
    BY CountsKept, Zenon DEF Started, ocf
<1>5. Requests'
    BY QueueKept DEF Started, ocf
<1>6. ASSUME NEW u \in Threads PROVE Life(u)'
    <2>1. mgr[t] = "starting" /\ mgr' = [mgr EXCEPT ![t] = "up"] /\ thr[t] \in Loop(t)
        BY Alive, Zenon DEF Started, Call
    <2>2. UNCHANGED <<thr, info, priv, stop>>
        BY DEF Started
    <2>3. QED
        BY <1>a, <2>1, <2>2, ZenonT(60) DEF ThreadTypes, Completions, Life, Running
<1>7. Order'
    BY DEF Started, ocf, Call, Order
<1>8. Work'
    BY QueueKept DEF Started, ocf, Work
<1>9. QED
    BY <1>1, <1>2, <1>3, <1>4, <1>5, <1>6, <1>7, <1>8

\* The beginning of a stop, when no kick is under way and, for the queue, no
\* cleaner is left.
LEMMA StopKeeps ==
    ASSUME ThrInv, ThrBoundsNat, NEW t \in Threads, stop_thread(t)
    PROVE  ThrInv'
<1> USE DEF ThrInv, Threads
<1>1. faults' = {}
    BY Alive, UseIsSafe, Zenon DEF stop_thread, Life
<1>2. ThreadTypes'
    BY Zenon DEF ThreadTypes, stop_thread, Call
<1>3. Completions'
    BY Zenon DEF Completions, stop_thread
<1>4. Numbers' /\ Counts'
    BY CountsKept, Zenon DEF stop_thread, ocf
<1>5. Requests'
    BY QueueKept, SMTT(30) DEF stop_thread, ocf
<1>6. ASSUME NEW u \in Threads PROVE Life(u)'
    BY Alive, ZenonT(60) DEF ThreadTypes, Completions, stop_thread, Call, Life, Order
<1>7. Order'
    <2>1. mgr' = [mgr EXCEPT ![t] = "stop"] /\ UNCHANGED <<kicks, ckick>> /\ mgr[t] = "up"
        BY DEF stop_thread, ocf, Call
    <2>2. CASE t = "queue"
        <3>1. mgr["cleaner"] \in {"none", "down"} /\ kicks = 0
            BY <2>2 DEF stop_thread
        <3>2. mgr'["queue"] = "stop" /\ mgr'["cleaner"] = mgr["cleaner"]
            BY <2>1, <2>2, Zenon DEF ThreadTypes
        <3>3. ~(kicks' > 0)
            BY <2>1, <3>1
        <3>4. QED
            BY <2>1, <3>1 DEF Order
    <2>3. CASE t = "cleaner"
        <3>1. ckick = 0
            BY <2>3 DEF stop_thread
        <3>2. mgr'["cleaner"] = "stop" /\ mgr'["queue"] = mgr["queue"]
            BY <2>1, <2>3, Zenon DEF ThreadTypes
        <3>3. ~(ckick' > 0)
            BY <2>1, <3>1, SMTT(30)
        <3>4. QED
            BY <2>1, <2>3, <3>3 DEF Order
    <2>4. QED
        BY <2>2, <2>3
<1>8. Work'
    BY QueueKept DEF stop_thread, ocf, Work
<1>9. QED
    BY <1>1, <1>2, <1>3, <1>4, <1>5, <1>6, <1>7, <1>8

\* The stop flag.
LEMMA FlagKeeps ==
    ASSUME ThrInv, ThrBoundsNat, NEW t \in Threads, StopFlag(t)
    PROVE  ThrInv'
<1> USE DEF ThrInv, Threads
<1>1. faults' = {}
    BY Zenon DEF StopFlag
<1>2. ThreadTypes'
    BY Zenon DEF ThreadTypes, StopFlag, Call
<1>3. Completions'
    BY Zenon DEF Completions, StopFlag
<1>4. Numbers' /\ Counts'
    BY CountsKept, Zenon DEF StopFlag, ocf
<1>5. Requests'
    BY QueueKept, Zenon DEF StopFlag, ocf
<1>6. ASSUME NEW u \in Threads PROVE Life(u)'
    BY Alive, ZenonT(60) DEF ThreadTypes, StopFlag, Call, Life, Order
<1>7. Order'
    BY Zenon DEF ThreadTypes, StopFlag, ocf, Call, Order
<1>8. Work'
    BY QueueKept, Zenon DEF StopFlag, ocf, Work
<1>9. QED
    BY <1>1, <1>2, <1>3, <1>4, <1>5, <1>6, <1>7, <1>8

\* The wake-up of a stop.
LEMMA StopWakeKeeps ==
    ASSUME ThrInv, ThrBoundsNat, NEW t \in Threads, StopWake(t)
    PROVE  ThrInv'
<1> USE DEF ThrInv, Threads
<1>1. faults' = {}
    BY UseIsSafe, Zenon DEF StopWake, Life, Running
<1>2. ThreadTypes'
    BY Zenon DEF ThreadTypes, StopWake, Call, Woken
<1>3. Completions'
    BY Zenon DEF Completions, StopWake
<1>4. Numbers' /\ Counts'
    BY CountsKept, Zenon DEF StopWake, ocf
<1>5. Requests'
    BY QueueKept, Zenon DEF StopWake, ocf
<1>6. ASSUME NEW u \in Threads PROVE Life(u)'
    BY ZenonT(60) DEF ThreadTypes, StopWake, Call, Life, Running, Loop, Woken
<1>7. Order'
    BY Zenon DEF ThreadTypes, StopWake, ocf, Call, Order
<1>8. Work'
    BY QueueKept, Zenon DEF ThreadTypes, StopWake, ocf, Work, Woken
<1>9. QED
    BY <1>1, <1>2, <1>3, <1>4, <1>5, <1>6, <1>7, <1>8

\* The end of a stop: the completion it consumes is that of the thread's exit,
\* so nobody uses the structure that is freed.
LEMMA StoppedKeeps ==
    ASSUME ThrInv, ThrBoundsNat, NEW t \in Threads, Stopped(t)
    PROVE  ThrInv'
<1> USE DEF ThrInv, Threads
<1>0. compl[t] = 1
    BY Alive, Zenon DEF Stopped
<1>a. compl' = [compl EXCEPT ![t] = 0]
    <2>1. compl' = [compl EXCEPT ![t] = compl[t] - 1]
        BY Zenon DEF Stopped
    <2>2. compl[t] - 1 = 0
        BY <1>0
    <2>3. QED
        BY <2>1, <2>2, Zenon
<1>1. faults' = {}
    BY Zenon DEF Stopped
<1>2. ThreadTypes'
    BY Zenon DEF ThreadTypes, Stopped, Call
<1>3. Completions'
    BY <1>a, ZenonT(60) DEF Completions, Stopped
<1>4. Numbers' /\ Counts'
    BY CountsKept, Zenon DEF Stopped, ocf
<1>5. Requests'
    BY QueueKept, Zenon DEF Stopped, ocf
<1>6. ASSUME NEW u \in Threads PROVE Life(u)'
    <2>1. mgr[t] = "stop wait" /\ mgr' = [mgr EXCEPT ![t] = "down"] /\ thr[t] = "gone"
        BY Alive, Zenon DEF Stopped, Call
    <2>2. /\ info' = [info EXCEPT ![t] = "freed"] /\ priv' = [priv EXCEPT ![t] = FALSE]
          /\ UNCHANGED <<thr, stop>>
        BY Zenon DEF Stopped
    <2>3. QED
        BY <1>a, <2>1, <2>2, ZenonT(60) DEF ThreadTypes, Completions, Life, Running
<1>7. Order'
    BY Zenon DEF ThreadTypes, Stopped, ocf, Call, Order
<1>8. Work'
    BY QueueKept, Zenon DEF Stopped, ocf, Work
<1>9. QED
    BY <1>1, <1>2, <1>3, <1>4, <1>5, <1>6, <1>7, <1>8

\* A thread's entry.
LEMMA EntryKeeps ==
    ASSUME ThrInv, ThrBoundsNat, NEW t \in Threads, ThreadStart(t)
    PROVE  ThrInv'
<1> USE DEF ThrInv, Threads
<1>0. compl[t] = 0
    BY Alive, Zenon DEF ThreadStart
<1>a. compl' = [compl EXCEPT ![t] = 1]
    <2>1. compl' = [compl EXCEPT ![t] = compl[t] + 1]
        BY DEF ThreadStart
    <2>2. compl[t] + 1 = 1
        BY <1>0
    <2>3. QED
        BY <2>1, <2>2, Zenon
<1>1. faults' = {}
    BY Alive, UseIsSafe, Zenon DEF ThreadStart
<1>2. ThreadTypes'
    BY Zenon DEF ThreadTypes, ThreadStart, Goto
<1>3. Completions'
    BY <1>a, Zenon DEF Completions, ThreadStart
<1>4. Numbers' /\ Counts'
    BY CountsKept, Zenon DEF ThreadStart, ocf
<1>5. Requests'
    BY QueueKept DEF ThreadStart, ocf
<1>6. ASSUME NEW u \in Threads PROVE Life(u)'
    BY <1>a, ZenonT(60) DEF ThreadTypes, Completions, ThreadStart, Goto, Life, Loop
<1>7. Order'
    BY DEF ThreadStart, ocf, Order
<1>8. Work'
    BY QueueKept DEF ThreadStart, ocf, Goto, Work
<1>9. QED
    BY <1>1, <1>2, <1>3, <1>4, <1>5, <1>6, <1>7, <1>8

\* The wait for work.
LEMMA WaitKeeps ==
    ASSUME ThrInv, ThrBoundsNat, NEW t \in Threads, ThreadWait(t)
    PROVE  ThrInv'
<1> USE DEF ThrInv, Threads
<1>1. faults' = {}
    BY Alive, UseIsSafe, Zenon DEF ThreadWait, Loop
<1>2. ThreadTypes'
    BY Zenon DEF ThreadTypes, ThreadWait, Goto
<1>3. Completions'
    BY DEF Completions, ThreadWait
<1>4. Numbers' /\ Counts'
    BY CountsKept DEF ThreadWait, ocf
<1>5. Requests'
    BY QueueKept DEF ThreadWait, ocf
<1>6. ASSUME NEW u \in Threads PROVE Life(u)'
    BY ZenonT(60) DEF ThreadTypes, ThreadWait, Goto, Life, Loop
<1>7. Order'
    BY DEF ThreadWait, ocf, Order
<1>8. Work'
    BY QueueKept DEF ThreadWait, ocf, Goto, Work
<1>9. QED
    BY <1>1, <1>2, <1>3, <1>4, <1>5, <1>6, <1>7, <1>8

\* The exit: the queue is empty and the structure still there.
LEMMA ExitKeeps ==
    ASSUME ThrInv, ThrBoundsNat, NEW t \in Threads, ThreadExit(t)
    PROVE  ThrInv'
<1> USE DEF ThrInv, Threads
<1>0. compl[t] = 0
    BY Alive, Zenon DEF ThreadExit
<1>a. compl' = [compl EXCEPT ![t] = 1]
    <2>1. compl' = [compl EXCEPT ![t] = compl[t] + 1]
        BY Zenon DEF ThreadExit
    <2>2. compl[t] + 1 = 1
        BY <1>0
    <2>3. QED
        BY <2>1, <2>2, Zenon
<1>1. faults' = {}
    BY Alive, UseIsSafe, Zenon DEF ThreadExit, Pending, Fault, Work
<1>2. ThreadTypes'
    BY Zenon DEF ThreadTypes, ThreadExit, Goto
<1>3. Completions'
    BY <1>a, ZenonT(60) DEF Completions, ThreadExit
<1>4. Numbers' /\ Counts'
    BY CountsKept, Zenon DEF ThreadExit, ocf
<1>5. Requests'
    BY QueueKept, Zenon DEF ThreadExit, ocf
<1>6. ASSUME NEW u \in Threads PROVE Life(u)'
    BY <1>a, Alive, ZenonT(60) DEF ThreadTypes, Completions, ThreadExit, Goto, Life
<1>7. Order'
    BY Zenon DEF ThreadExit, ocf, Order
<1>8. Work'
    BY QueueKept, Zenon DEF ThreadTypes, ThreadExit, ocf, Goto, Work
<1>9. QED
    BY <1>1, <1>2, <1>3, <1>4, <1>5, <1>6, <1>7, <1>8

\* A request of the queue; that of a cleaner run completes the cleaner, which
\* waits and so still has its structure.
LEMMA QueueRunKeeps ==
    ASSUME ThrInv, ThrBoundsNat, QueueRun
    PROVE  ThrInv'
<1> USE DEF ThrInv, Threads
<1>a. OneClean /\ (queue # <<>> /\ Head(queue) = "clean" => Queued("clean"))
    BY DEF Work, Queued, Requests
<1>b. Queued("clean") => thr["cleaner"] \in {"kick", "wait"} /\ sync = 0 /\ sync + 1 = 1
    BY DEF Work
<1>c. \/ queue # <<>> /\ queue' = Tail(queue) /\ Head(queue) = "clean" /\ sync' = 1 /\ thr' = thr
      \/ queue # <<>> /\ queue' = Tail(queue) /\ Head(queue) # "clean" /\ sync' = sync /\ thr' = thr
      \/ queue' = queue /\ sync' = sync /\ thr' = [thr EXCEPT !["queue"] = "loop"]
    BY <1>a, <1>b DEF QueueRun, Pending, cleaner_complete, Goto
<1>1. faults' = {}
    <2>1. queue # <<>> /\ Head(queue) = "clean" => UsePriv("cleaner") = {}
        BY <1>a, <1>b, CleanerAlive, UseIsSafe DEF Loop
    <2>2. QED
        BY <2>1 DEF QueueRun, Pending, cleaner_complete
<1>2. ThreadTypes'
    BY ZenonT(60) DEF ThreadTypes, QueueRun, cleaner_complete, Goto
<1>3. Completions'
    BY <1>c DEF Completions, QueueRun
<1>4. Numbers' /\ Counts'
    BY <1>c, QueueKept DEF QueueRun, Counts, Numbers
<1>5. Requests'
    BY <1>a, <1>c, QueueKept, TakenOff, SMTT(30)
<1>6. ASSUME NEW u \in Threads PROVE Life(u)'
    BY ZenonT(60) DEF ThreadTypes, QueueRun, Goto, Life, Loop
<1>7. Order'
    BY DEF QueueRun, Order
<1>8. Work'
    BY <1>c, QueueKept, TakenOff, Zenon DEF Work, ThreadTypes
<1>9. QED
    BY <1>1, <1>2, <1>3, <1>4, <1>5, <1>6, <1>7, <1>8

\* The end of a turn of the queue thread.
LEMMA QueueLoopKeeps ==
    ASSUME ThrInv, ThrBoundsNat, QueueLoop
    PROVE  ThrInv'
<1> USE DEF ThrInv, Threads
<1>1. faults' = {}
    BY Alive, UseIsSafe, Zenon DEF QueueLoop, Loop
<1>2. ThreadTypes'
    BY Zenon DEF ThreadTypes, QueueLoop, Goto
<1>3. Completions'
    BY DEF Completions, QueueLoop
<1>4. Numbers' /\ Counts'
    BY CountsKept, SMTT(30) DEF QueueLoop, ocf
<1>5. Requests'
    BY QueueKept, SMTT(30) DEF QueueLoop, ocf
<1>6. ASSUME NEW u \in Threads PROVE Life(u)'
    BY ZenonT(60) DEF ThreadTypes, QueueLoop, Goto, Life, Loop
<1>7. Order'
    BY Zenon DEF QueueLoop, ocf, Order
<1>8. Work'
    BY QueueKept, SMTT(30) DEF QueueLoop, Pending, ocf, Goto, Work
<1>9. QED
    BY <1>1, <1>2, <1>3, <1>4, <1>5, <1>6, <1>7, <1>8

\* The top of the cleaner's loop.
LEMMA TopKeeps ==
    ASSUME ThrInv, ThrBoundsNat, CleanerTop
    PROVE  ThrInv'
<1> USE DEF ThrInv, Threads
<1>a. ~Queued("clean") /\ ~(sync > 0)
    BY DEF CleanerTop, Work
<1>1. faults' = {}
    BY Alive, UseIsSafe, Zenon DEF CleanerTop, Loop
<1>2. ThreadTypes'
    BY ZenonT(60) DEF ThreadTypes, CleanerTop, Goto
<1>3. Completions'
    BY DEF Completions, CleanerTop
<1>4. Numbers' /\ Counts'
    BY CountsKept DEF CleanerTop, ocf
<1>5. Requests'
    BY QueueKept DEF CleanerTop, ocf
<1>6. ASSUME NEW u \in Threads PROVE Life(u)'
    BY ZenonT(60) DEF ThreadTypes, CleanerTop, Goto, Life, Loop
<1>7. Order'
    BY Zenon DEF CleanerTop, ocf, Order
<1>8. Work'
    <2>1. queue' = queue /\ thr'["queue"] = thr["queue"]
        BY Zenon DEF CleanerTop, Goto, ocf, ThreadTypes
    <2>2. ~(sync' > 0)
        BY <1>a, SMTT(30) DEF CleanerTop
    <2>3. QED
        BY <1>a, <2>1, <2>2, QueueKept DEF Work
<1>9. QED
    BY <1>1, <1>2, <1>3, <1>4, <1>5, <1>6, <1>7, <1>8

\* A cleaner run, completed at once or through the queue.
LEMMA CleanerRunKeeps ==
    ASSUME ThrInv, ThrBoundsNat, CleanerRun
    PROVE  ThrInv'
<1> USE DEF ThrInv, Threads
<1>a. ~Queued("clean") /\ sync = 0 /\ sync + 1 = 1 /\ thr["queue"] \in Loop("queue")
    BY CleanerAlive, SMTT(30) DEF CleanerRun, Work, Completions, Loop
<1>b. \/ queue' = queue /\ sync' = 1 /\ thr' = [thr EXCEPT !["cleaner"] = "wait"]
      \/ queue' = Append(queue, "clean") /\ sync' = sync /\ thr' = [thr EXCEPT !["cleaner"] = "kick"]
    BY <1>a, Zenon DEF CleanerRun, cleaner_complete, Goto
<1>1. faults' = {}
    BY CleanerAlive, UseIsSafe DEF CleanerRun, cleaner_complete, Loop
<1>2. ThreadTypes'
    BY ZenonT(60) DEF ThreadTypes, CleanerRun, cleaner_complete, Goto
<1>3. Completions'
    BY <1>b DEF Completions, CleanerRun
<1>4. Numbers' /\ Counts'
    BY <1>a, PushedClean DEF CleanerRun, Counts, Numbers
<1>5. Requests'
    BY <1>a, <1>b, QueueKept, PushedClean
<1>6. ASSUME NEW u \in Threads PROVE Life(u)'
    BY ZenonT(60) DEF ThreadTypes, CleanerRun, Goto, Life, Loop
<1>7. Order'
    BY DEF CleanerRun, Order
<1>8. Work'
    BY <1>a, <1>b, QueueKept, PushedClean, ZenonT(60) DEF Work, ThreadTypes, Loop
<1>9. QED
    BY <1>1, <1>2, <1>3, <1>4, <1>5, <1>6, <1>7, <1>8

\* The cleaner's kick of the queue, which is up as long as the cleaner is.
LEMMA KicksQueueKeeps ==
    ASSUME ThrInv, ThrBoundsNat, CleanerKicksQueue
    PROVE  ThrInv'
<1> USE DEF ThrInv, Threads
<1>1. faults' = {}
    BY Alive, UseIsSafe, ZenonT(60) DEF CleanerKicksQueue, Life, Order
<1>2. ThreadTypes'
    BY Zenon DEF ThreadTypes, CleanerKicksQueue, Woken
<1>3. Completions'
    BY Zenon DEF Completions, CleanerKicksQueue
<1>4. Numbers' /\ Counts'
    BY CountsKept, Zenon DEF CleanerKicksQueue
<1>5. Requests'
    BY QueueKept, SMTT(30) DEF CleanerKicksQueue, ocf
<1>6. ASSUME NEW u \in Threads PROVE Life(u)'
    BY ZenonT(60) DEF ThreadTypes, CleanerKicksQueue, Life, Loop, Woken
<1>7. Order'
    BY DEF CleanerKicksQueue, ocf, Order
<1>8. Work'
    BY QueueKept, Zenon DEF ThreadTypes, CleanerKicksQueue, ocf, Work, Woken
<1>9. QED
    BY <1>1, <1>2, <1>3, <1>4, <1>5, <1>6, <1>7, <1>8

\* The end of a cleaner run.
LEMMA SleepKeeps ==
    ASSUME ThrInv, ThrBoundsNat, CleanerSleep
    PROVE  ThrInv'
<1> USE DEF ThrInv, Threads
<1>a. sync' = 0 /\ ~Queued("clean")
    BY DEF CleanerSleep, Completions, Work
<1>1. faults' = {}
    BY Alive, UseIsSafe, Zenon DEF CleanerSleep, Loop
<1>2. ThreadTypes'
    BY Zenon DEF ThreadTypes, CleanerSleep, Goto
<1>3. Completions'
    BY DEF Completions, CleanerSleep
<1>4. Numbers' /\ Counts'
    BY CountsKept, Zenon DEF CleanerSleep, ocf
<1>5. Requests'
    BY QueueKept, SMTT(30) DEF CleanerSleep, ocf
<1>6. ASSUME NEW u \in Threads PROVE Life(u)'
    BY ZenonT(60) DEF ThreadTypes, CleanerSleep, Goto, Life, Loop
<1>7. Order'
    BY Zenon DEF CleanerSleep, ocf, Order
<1>8. Work'
    <2>1. queue' = queue /\ thr'["queue"] = thr["queue"]
        BY DEF CleanerSleep, Goto, ocf
    <2>2. ~(sync' > 0)
        BY <1>a, SMTT(30) DEF CleanerSleep
    <2>3. QED
        BY <1>a, <2>1, QueueKept DEF Work
<1>9. QED
    BY <1>1, <1>2, <1>3, <1>4, <1>5, <1>6, <1>7, <1>8

\* The timeout of the cleaner's sleep.
LEMMA TimeoutKeeps ==
    ASSUME ThrInv, ThrBoundsNat, CleanerTimeout
    PROVE  ThrInv'
<1> USE DEF ThrInv, Threads
<1>1. faults' = {}
    BY DEF CleanerTimeout
<1>2. ThreadTypes'
    BY Zenon DEF ThreadTypes, CleanerTimeout, Goto
<1>3. Completions'
    BY Zenon DEF Completions, CleanerTimeout
<1>4. Numbers' /\ Counts'
    BY CountsKept, Zenon DEF CleanerTimeout
<1>5. Requests'
    BY QueueKept, SMTT(30) DEF CleanerTimeout, ocf
<1>6. ASSUME NEW u \in Threads PROVE Life(u)'
    BY ZenonT(60) DEF ThreadTypes, CleanerTimeout, Goto, Life, Loop
<1>7. Order'
    BY Zenon DEF CleanerTimeout, ocf, Order
<1>8. Work'
    BY QueueKept, SMTT(30) DEF CleanerTimeout, ocf, Goto, Work
<1>9. QED
    BY <1>1, <1>2, <1>3, <1>4, <1>5, <1>6, <1>7, <1>8

\* A push by others.
LEMMA PushKeeps ==
    ASSUME ThrInv, ThrBoundsNat, OcfPush
    PROVE  ThrInv'
<1> USE DEF ThrInv, Threads
<1>1. faults' = {}
    BY DEF OcfPush
<1>2. ThreadTypes'
    BY Zenon DEF ThreadTypes, OcfPush
<1>3. Completions'
    BY Zenon DEF Completions, OcfPush
<1>4. Numbers' /\ Counts'
    BY PushedIo DEF OcfPush, Counts, Numbers, ThrBoundsNat
<1>5. Requests'
    BY PushedIo, SMTT(30) DEF OcfPush
<1>6. ASSUME NEW u \in Threads PROVE Life(u)'
    BY ZenonT(60) DEF OcfPush, Life
<1>7. Order'
    BY DEF OcfPush, Order
<1>8. Work'
    BY PushedIo, ZenonT(60) DEF OcfPush, Work, Life, Loop
<1>9. QED
    BY <1>1, <1>2, <1>3, <1>4, <1>5, <1>6, <1>7, <1>8

\* A kick of the queue.
LEMMA KickKeeps ==
    ASSUME ThrInv, ThrBoundsNat, kick_queue_thread
    PROVE  ThrInv'
<1> USE DEF ThrInv, Threads
<1>1. faults' = {}
    BY Alive, UseIsSafe, ZenonT(60) DEF kick_queue_thread, Life, Order
<1>2. ThreadTypes'
    BY Zenon DEF ThreadTypes, kick_queue_thread, Woken
<1>3. Completions'
    BY Zenon DEF Completions, kick_queue_thread
<1>4. Numbers' /\ Counts'
    BY QueueKept DEF kick_queue_thread, Counts, Numbers, ThrBoundsNat
<1>5. Requests'
    BY QueueKept, SMTT(30) DEF kick_queue_thread
<1>6. ASSUME NEW u \in Threads PROVE Life(u)'
    BY ZenonT(60) DEF ThreadTypes, kick_queue_thread, Life, Loop, Woken
<1>7. Order'
    BY DEF kick_queue_thread, Order
<1>8. Work'
    <2>1. queue' = queue /\ sync' = sync /\ thr' = Woken("queue")
        BY Zenon DEF kick_queue_thread
    <2>2. ASSUME NEW u \in Threads
          PROVE  thr'[u] = thr[u] \/ (thr[u] \in {"queued", "asleep"} /\ thr'[u] = "check")
        <3>1. PICK S : thr \in [Threads -> S]
            BY Zenon DEF ThreadTypes
        <3>2. \/ thr' = thr
              \/ thr["queue"] \in {"queued", "asleep"} /\ thr' = [thr EXCEPT !["queue"] = "check"]
            BY <2>1, Zenon DEF Woken
        <3> HIDE DEF ThrInv, Threads
        <3>3. CASE thr' = thr
            BY <3>3, Zenon
        <3>4. CASE thr["queue"] \in {"queued", "asleep"} /\ thr' = [thr EXCEPT !["queue"] = "check"]
            BY <3>1, <3>4
        <3> QED  BY <3>2, <3>3, <3>4, Zenon
    <2>3. Work /\ (OneClean' <=> OneClean) /\ (Queued("clean")' <=> Queued("clean"))
        BY <2>1, QueueKept, Zenon
    <2> HIDE DEF ThrInv
    <2> QED  BY <2>1, <2>2, <2>3, SMTT(30) DEF Work
<1>9. QED
    BY <1>1, <1>2, <1>3, <1>4, <1>5, <1>6, <1>7, <1>8

\* A kick of the cleaner: the flag ...
LEMMA KickCleanerKeeps ==
    ASSUME ThrInv, ThrBoundsNat, kick_cleaner_thread
    PROVE  ThrInv'
<1> USE DEF ThrInv, Threads
<1>1. faults' = {}
    BY Alive, UseIsSafe, ZenonT(60) DEF kick_cleaner_thread, Life
<1>2. ThreadTypes'
    BY Zenon DEF ThreadTypes, kick_cleaner_thread
<1>3. Completions'
    BY Zenon DEF Completions, kick_cleaner_thread
<1>4. Numbers' /\ Counts'
    BY QueueKept DEF kick_cleaner_thread, Counts, Numbers, ThrBoundsNat
<1>5. Requests'
    BY QueueKept, SMTT(30) DEF kick_cleaner_thread
<1>6. ASSUME NEW u \in Threads PROVE Life(u)'
    BY Zenon DEF kick_cleaner_thread, Life
<1>7. Order'
    BY Zenon DEF kick_cleaner_thread, Order
<1>8. Work'
    BY QueueKept, Zenon DEF kick_cleaner_thread, Work
<1>9. QED
    BY <1>1, <1>2, <1>3, <1>4, <1>5, <1>6, <1>7, <1>8

\* ... and the wake-up.
LEMMA KickWakeKeeps ==
    ASSUME ThrInv, ThrBoundsNat, KickCleanerWake
    PROVE  ThrInv'
<1> USE DEF ThrInv, Threads
<1>1. faults' = {}
    BY Alive, UseIsSafe, ZenonT(60) DEF KickCleanerWake, Life, Order
<1>2. ThreadTypes'
    BY Zenon DEF ThreadTypes, KickCleanerWake, Woken
<1>3. Completions'
    BY Zenon DEF Completions, KickCleanerWake
<1>4. Numbers' /\ Counts'
    BY QueueKept, SMTT(30) DEF KickCleanerWake, Counts, Numbers, ThrBoundsNat
<1>5. Requests'
    BY QueueKept, SMTT(30) DEF KickCleanerWake
<1>6. ASSUME NEW u \in Threads PROVE Life(u)'
    BY ZenonT(60) DEF ThreadTypes, KickCleanerWake, Life, Loop, Woken
<1>7. Order'
    BY DEF KickCleanerWake, Order
<1>8. Work'
    <2>1. queue' = queue /\ sync' = sync /\ thr' = Woken("cleaner")
        BY Zenon DEF KickCleanerWake
    <2>2. ASSUME NEW u \in Threads
          PROVE  thr'[u] = thr[u] \/ (thr[u] \in {"queued", "asleep"} /\ thr'[u] = "check")
        <3>1. PICK S : thr \in [Threads -> S]
            BY Zenon DEF ThreadTypes
        <3>2. \/ thr' = thr
              \/ thr["cleaner"] \in {"queued", "asleep"} /\ thr' = [thr EXCEPT !["cleaner"] = "check"]
            BY <2>1, Zenon DEF Woken
        <3> HIDE DEF ThrInv, Threads
        <3>3. CASE thr' = thr
            BY <3>3, Zenon
        <3>4. CASE thr["cleaner"] \in {"queued", "asleep"} /\ thr' = [thr EXCEPT !["cleaner"] = "check"]
            BY <3>1, <3>4
        <3> QED  BY <3>2, <3>3, <3>4, Zenon
    <2>3. Work /\ (OneClean' <=> OneClean) /\ (Queued("clean")' <=> Queued("clean"))
        BY <2>1, QueueKept, Zenon
    <2> HIDE DEF ThrInv
    <2> QED  BY <2>1, <2>2, <2>3, SMTT(30) DEF Work
<1>9. QED
    BY <1>1, <1>2, <1>3, <1>4, <1>5, <1>6, <1>7, <1>8

-----------------------------------------------------------------------------
(* The theorems about the threads.                                         *)

\* The parts of the invariant give the type invariant and the rest.
LEMMA InvariantImplies ==
    ASSUME ThrInv, ThrBoundsNat
    PROVE  ThreadsSafe
<1> USE DEF ThrInv
<1>1. compl \in [Threads -> 0..1] /\ sync \in 0..1
    <2>1. 0..1 = {0, 1}
        OBVIOUS
    <2>2. QED
        BY <2>1 DEF Completions
<1>2. Len(queue) <= MaxPush + 1
    BY DEF Counts, Numbers, ThrBoundsNat
<1>3. ThrTypeOK
    BY <1>1, <1>2, ZenonT(60) DEF ThrTypeOK, ThreadTypes, Numbers, Requests
<1>4. StopIsFinal
    BY Zenon DEF StopIsFinal, Life, Threads, Work
<1>5. QED
    BY <1>3, <1>4 DEF ThreadsSafe, NoUseAfterFree, NoRequestLeft

\* A step that changes nothing.
LEMMA StutterKeeps ==
    ASSUME ThrInv, UNCHANGED thrVars
    PROVE  ThrInv'
<1> USE DEF ThrInv, thrVars
<1>1. ThreadTypes' /\ Completions' /\ faults' = {}
    BY Zenon DEF ThreadTypes, Completions
<1>2. Numbers' /\ Counts' /\ Requests'
    BY CountsKept, QueueKept, ZenonT(60) DEF ocf
<1>3. ASSUME NEW u \in Threads PROVE Life(u)'
    BY <1>3, Zenon DEF Life
<1>4. Order' /\ Work'
    BY QueueKept DEF Order, Work
<1>5. QED
    BY <1>1, <1>2, <1>3, <1>4

\* The positions of callers and threads, their structures, flags and
\* completions, and the requests agree in every reachable state (threads.c).
THEOREM ThreadsInvariant == ThrBoundsNat => (ThrSpec => []ThrInv)
<1> SUFFICES ASSUME ThrBoundsNat PROVE ThrSpec => []ThrInv
    OBVIOUS
<1>1. ThrInit => ThrInv
    <2> SUFFICES ASSUME ThrInit PROVE ThrInv
        OBVIOUS
    <2>1. ThreadTypes /\ faults = {}
        BY Zenon DEF ThrInit, ThreadTypes
    <2>2. Completions /\ Requests
        BY DEF ThrInit, Completions, Requests
    <2>3. Numbers
        BY SMTT(30) DEF ThrInit, Numbers, ThrBoundsNat
    <2>4. ASSUME NEW t \in Threads PROVE Life(t)
        <3>1. /\ mgr[t] = "none" /\ thr[t] = "none" /\ info[t] = "none"
              /\ compl[t] = 0 /\ ~priv[t] /\ ~stop[t]
            BY <2>4, Zenon DEF ThrInit
        <3> QED  BY <3>1, ZenonT(60) DEF Life, Running
    <2>5. Order /\ Work
        BY DEF ThrInit, Order, Work, OneClean, Queued, Threads
    <2>6. Counts
        BY DEF ThrInit, Counts
    <2>7. QED
        BY <2>1, <2>2, <2>3, <2>4, <2>5, <2>6 DEF ThrInv
<1>2. ThrInv /\ [ThrNext]_thrVars => ThrInv'
    <2> SUFFICES ASSUME ThrInv, [ThrNext]_thrVars PROVE ThrInv'
        OBVIOUS
    <2>1. ASSUME NEW t \in Threads, create_thread(t) \/ stop_thread(t) PROVE ThrInv'
        BY <2>1, CreateKeeps, StopKeeps, Zenon
    <2>2. ASSUME NEW t \in Threads, Manager(t) PROVE ThrInv'
        BY <2>2, StartKeeps, StartedKeeps, FlagKeeps, StopWakeKeeps, StoppedKeeps,
           Zenon DEF Manager

    <2>3. ASSUME NEW t \in Threads, Thread(t) PROVE ThrInv'
        BY <2>3, EntryKeeps, WaitKeeps, ExitKeeps, QueueRunKeeps, QueueLoopKeeps,
           TopKeeps, CleanerRunKeeps, KicksQueueKeeps, SleepKeeps, TimeoutKeeps, Zenon
           DEF Thread

    <2>4. CASE OcfPush \/ kick_cleaner_thread \/ Kicks
        BY <2>4, PushKeeps, KickCleanerKeeps, KickKeeps, KickWakeKeeps DEF Kicks
    <2>5. CASE UNCHANGED thrVars
        BY <2>5, StutterKeeps
    <2>6. QED
        BY <2>1, <2>2, <2>3, <2>4, <2>5 DEF ThrNext
<1>3. QED
    BY <1>1, <1>2, PTL DEF ThrSpec

\* No stop, kick, wait or completion meets a thread structure that is freed,
\* the queue thread leaves no request behind, and a thread whose stop has
\* returned is gone (threads.c), for any number of requests and kicks.
THEOREM ThreadsAreSafe == ThrBoundsNat => (ThrSpec => []ThreadsSafe)
<1> SUFFICES ASSUME ThrBoundsNat PROVE ThrSpec => []ThreadsSafe
    OBVIOUS
<1>1. ThrSpec => []ThrInv
    BY ThreadsInvariant
<1>2. ThrInv => ThreadsSafe
    BY InvariantImplies
<1>3. QED
    BY <1>1, <1>2, PTL

-----------------------------------------------------------------------------
(* The theorems about the counter.                                         *)

INSTANCE WellFoundedInduction

LEMMA WellOrderedHolds == WellOrdered
<1> SUFFICES ASSUME NEW T \in SUBSET Nat, T # {}
             PROVE  \E i \in T : \A j \in T : i <= j
  BY Zenon DEF WellOrdered
<1>1. PICK i \in T : \A j \in T : ~(<<j, i>> \in OpToRel(<, Nat))
  BY WFMin, NatLessThanWellFounded, Zenon
<1>2. ASSUME NEW j \in T PROVE i <= j
  <2>1. OpToRel(<, Nat) = {ss \in Nat \X Nat : ss[1] < ss[2]}
    BY Zenon DEF OpToRel
  <2>2. j < i => <<j, i>> \in {ss \in Nat \X Nat : ss[1] < ss[2]}
    OBVIOUS
  <2>3. ~(j < i)
    BY <1>1, <2>1, <2>2, Zenon
  <2> QED  BY <2>3
<1> QED  BY <1>2

\* The types and the accounting hold in every reachable state, for any
\* number of CPUs and whatever gets, puts, freezes, unfreezes and work items
\* of ocf_env_refcnt.c interleave.
THEOREM InductiveInvariant == Spec => []IInv
<1>1. IInv /\ [Next]_vars => IInv'
  BY NextTypeOK, NextPhases, NextAccounted, NextDeciders, WellOrderedHolds, Zenon
     DEF IInv
<1> QED  BY InitIInv, <1>1, PTL DEF Spec

\* The variables keep their types; in particular armed never exceeds ARMED,
\* the condition of the BUG_ON in env_refcnt_register_zero_cb.
THEOREM TypeCorrect == Spec => []TypeOK
<1>1. IInv => TypeOK
  BY DEF IInv
<1> QED  BY <1>1, InductiveInvariant, PTL

\* No reference is lost or counted twice while a freeze or an unfreeze is
\* under way: the private counts, the sum and the countdown of
\* ocf_env_refcnt.c make up the references held and the puts on their way.
THEOREM ReferencesAccounted == Spec => []RefsAccounted
<1>1. IInv => RefsAccounted
  BY AccountedRefs, WellOrderedHolds, Zenon DEF IInv
<1> QED  BY <1>1, InductiveInvariant, PTL

\* env_refcnt_zeroed is truthful.
THEOREM ZeroedIsTruthful == Spec => []ZeroedMeansNoRefs
<1>1. IInv => ZeroedMeansNoRefs
  BY ZeroedNoRefs, WellOrderedHolds, Zenon DEF IInv, ZeroedMeansNoRefs
<1> QED  BY <1>1, InductiveInvariant, PTL

\* A completed freeze closes every CPU until the last unfreeze.
THEOREM FrozenIsClosed == Spec => []FrozenAdmitsNone
<1>1. IInv => FrozenAdmitsNone
  BY DEF IInv, Phases, FrozenAdmitsNone
<1> QED  BY <1>1, InductiveInvariant, PTL

\* A callback called by a thread that decided in the present freeze period
\* is called with no reference left.
THEOREM CallbackIsAtZero == Spec => CallbackAtZero
<1>1. IInv /\ [Next]_vars =>
        [call_freeze_cb("now") /\ armed = CB_ARMED => live = 0 /\ decs = 0]_vars
  <2> SUFFICES ASSUME IInv, call_freeze_cb("now") PROVE live = 0 /\ decs = 0
    BY Zenon
  <2>1. Zeroed
    BY DEF IInv, Deciders, call_freeze_cb
  <2> QED  BY <2>1, ZeroedNoRefs, WellOrderedHolds, Zenon DEF IInv
<1> QED  BY <1>1, InductiveInvariant, PTL DEF Spec, CallbackAtZero

\* The per-CPU counter implements the gate over a plain count.
THEOREM RefinesGate == Spec => ImplementsGate
<1>1. Init => Abstract!AbsInit
  <2>1. Init => live + decs = 0
    BY DEF Init
  <2>2. Init => ~(fcount > 0)
    BY DEF Init
  <2> QED
    BY Zenon, <2>1, <2>2 DEF Abstract!AbsInit
<1>2. IInv /\ [Next]_vars => [Abstract!AbsNext]_(Abstract!absVars)
  BY GateStep, WellOrderedHolds, Zenon
<1> QED
  BY <1>1, <1>2, InductiveInvariant, PTL DEF Spec, ImplementsGate, Abstract!AbsSpec
=============================================================================
