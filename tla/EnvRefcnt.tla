----------------------------- MODULE EnvRefcnt ------------------------------
(***************************************************************************)
(* The freezable per-CPU reference counter of the cache module             *)
(* (modules/cas_cache/ocf_env_refcnt.c).                                   *)
(*                                                                         *)
(* While the counter is open every CPU counts on its own.  A freeze sends  *)
(* one work item to every CPU; the item raises the CPU's freeze flag and   *)
(* then adds its private count to a sum.  From then on a put arriving on   *)
(* that CPU goes to the shared countdown under the lock.  When the         *)
(* countdown is zero after the freeze has completed, the registered        *)
(* callback fires.                                                         *)
(*                                                                         *)
(* Threads are anonymous and kept as counts: `live` references are held,   *)
(* `decs` puts have read a raised flag and have not taken the lock yet,    *)
(* `firing` threads have decided to call the callback and have not reached *)
(* the compare-and-exchange.  A work item and a get or put on the same CPU *)
(* interleave statement by statement; a get or put itself does not: it     *)
(* runs with preemption disabled and touches its own CPU only.             *)
(***************************************************************************)
EXTENDS Integers

CONSTANTS
    N,            \* CPUs
    MaxRefs,      \* bound: references held at the same time
    MaxCounter,   \* bound: magnitude of one CPU's private count
    MaxFreeze,    \* bound: nesting of freeze calls
    MaxFiring     \* bound: threads on their way to the callback

ASSUME NAssumption == N \in Nat \ {0}
ASSUME BoundsAssumption == {MaxRefs, MaxCounter, MaxFreeze, MaxFiring} \subseteq Nat

CPU == 1..N

VARIABLES
    counter,       \* pcpu->counter
    freeze,        \* pcpu->freeze
    work,          \* the CPU's notification work item: where it stands
    fcount,        \* rc->freeze.counter
    countdown,     \* rc->freeze.countdown
    initializing,  \* rc->freeze.initializing
    sum,           \* ctx.sum of the freeze in progress
    armed,         \* rc->callback.armed
    reg,           \* where the thread inside register_zero_cb stands
    live,          \* references held by callers
    decs,          \* puts between reading the flag and taking the lock
    firing         \* deciders, by the freeze period the decision is from

pcpuVars == <<counter, freeze, work>>
freezeVars == <<fcount, countdown, initializing, sum>>
cbVars == <<armed, reg, firing>>
vars == <<counter, freeze, work, fcount, countdown, initializing, sum,
          armed, reg, live, decs, firing>>

CB_ARMING == 1
CB_ARMED == 2

\* do_on_cpus has returned once every work item has run (to_notify is 0).
Notified == \A c \in CPU : work[c] = "none"

\* Freeze calls that have returned and are not offset yet.
Returned == fcount - (IF initializing THEN 1 ELSE 0)

\* env_refcnt_zeroed
Zeroed == fcount > 0 /\ ~initializing /\ countdown = 0

Init ==
    /\ counter = [c \in CPU |-> 0]
    /\ freeze = [c \in CPU |-> FALSE]
    /\ work = [c \in CPU |-> "none"]
    /\ fcount = 0
    /\ countdown = 0
    /\ initializing = FALSE
    /\ sum = 0
    /\ armed = 0
    /\ reg = "idle"
    /\ live = 0
    /\ decs = 0
    /\ firing = [now |-> 0, stale |-> 0]

\* A thread that found the countdown finished joins the deciders.
Decide(finished) ==
    firing' = IF finished THEN [firing EXCEPT !.now = @ + 1] ELSE firing

-----------------------------------------------------------------------------
\* A get succeeds on a CPU whose flag is down; elsewhere it fails and
\* changes nothing.
env_refcnt_inc(c) ==
    /\ ~freeze[c]
    /\ live < MaxRefs /\ counter[c] < MaxCounter
    /\ counter' = [counter EXCEPT ![c] = @ + 1]
    /\ live' = live + 1
    /\ UNCHANGED <<freeze, work, freezeVars, cbVars, decs>>

\* A put, on any CPU: the private count goes down, possibly below zero, or
\* the flag is up and the put is now on its way to the countdown.
env_refcnt_dec(c) ==
    /\ live > 0
    /\ live' = live - 1
    /\ \/ /\ ~freeze[c]
          /\ counter[c] > -MaxCounter
          /\ counter' = [counter EXCEPT ![c] = @ - 1]
          /\ UNCHANGED decs
       \/ /\ freeze[c]
          /\ decs' = decs + 1
          /\ UNCHANGED counter
    /\ UNCHANGED <<freeze, work, freezeVars, cbVars>>

\* The second half of a put on a frozen CPU, under the lock.
DecCountdown ==
    /\ decs > 0
    /\ decs' = decs - 1
    /\ countdown' = countdown - 1
    /\ Decide(~initializing /\ countdown - 1 = 0)
    /\ UNCHANGED <<pcpuVars, fcount, initializing, sum, armed, reg, live>>

\* The compare-and-exchange that hands the callback to one decider.
call_freeze_cb(k) ==
    /\ firing[k] > 0
    /\ firing' = [firing EXCEPT ![k] = @ - 1]
    /\ armed' = IF armed = CB_ARMED THEN 0 ELSE armed
    /\ UNCHANGED <<pcpuVars, freezeVars, reg, live, decs>>

-----------------------------------------------------------------------------
\* The first freeze queues a work item on every CPU.  Callers do not freeze
\* while an unfreeze is still notifying CPUs (do_on_cpus insists on it).
FreezeFirst ==
    /\ fcount = 0 /\ Notified
    /\ firing.stale < MaxFiring
    /\ fcount' = 1
    /\ initializing' = TRUE
    /\ sum' = 0
    /\ work' = [c \in CPU |-> "freeze"]
    /\ UNCHANGED <<counter, freeze, countdown, cbVars, live, decs>>

\* A freeze of a counter already being frozen only counts.
FreezeNested ==
    /\ fcount > 0 /\ fcount < MaxFreeze
    /\ fcount' = fcount + 1
    /\ UNCHANGED <<pcpuVars, countdown, initializing, sum, cbVars, live, decs>>

FreezePcpuSumFirst(c) ==
    /\ \/ /\ work[c] = "freeze"
          /\ sum' = sum + counter[c]
          /\ work' = [work EXCEPT ![c] = "freezing"]
          /\ UNCHANGED freeze
       \/ /\ work[c] = "freezing"
          /\ freeze' = [freeze EXCEPT ![c] = TRUE]
          /\ work' = [work EXCEPT ![c] = "none"]
          /\ UNCHANGED sum
    /\ UNCHANGED <<counter, fcount, countdown, initializing, cbVars, live, decs>>

\* The work item on one CPU, in its two statements.
freeze_pcpu(c) ==
    /\ \/ /\ work[c] = "freeze"
          /\ freeze' = [freeze EXCEPT ![c] = TRUE]
          /\ work' = [work EXCEPT ![c] = "freezing"]
          /\ UNCHANGED sum
       \/ /\ work[c] = "freezing"
          /\ sum' = sum + counter[c]
          /\ work' = [work EXCEPT ![c] = "none"]
          /\ UNCHANGED freeze
    /\ UNCHANGED <<counter, fcount, countdown, initializing, cbVars, live, decs>>

\* The freezer resumes after the last work item and settles the countdown.
FreezeFinish ==
    /\ initializing /\ Notified
    /\ countdown' = countdown + sum
    /\ initializing' = FALSE
    /\ sum' = 0
    /\ Decide(countdown + sum = 0)
    /\ UNCHANGED <<pcpuVars, fcount, armed, reg, live, decs>>

-----------------------------------------------------------------------------
\* A caller whose freeze has returned registers its callback; the previous
\* one has fired, so that armed + 1 is ARMING and the BUG_ON stays quiet.
RegisterBegin ==
    /\ Returned > 0
    /\ firing.now + firing.stale < MaxFiring
    /\ reg = "idle" /\ armed = 0
    /\ armed' = armed + 1
    /\ reg' = "arming"
    /\ UNCHANGED <<pcpuVars, freezeVars, live, decs, firing>>

RegisterArm ==
    /\ reg = "arming"
    /\ armed' = CB_ARMED
    /\ reg' = "check"
    /\ UNCHANGED <<pcpuVars, freezeVars, live, decs, firing>>

RegisterUnchecked ==
    /\ reg = "check"
    /\ reg' = "idle"
    /\ UNCHANGED <<pcpuVars, freezeVars, armed, live, decs, firing>>

RegisterCheckIgnoringInit ==
    /\ reg = "check"
    /\ reg' = "idle"
    /\ Decide(countdown = 0)
    /\ UNCHANGED <<pcpuVars, freezeVars, armed, live, decs>>

\* Armed, the caller looks for a countdown that had finished before.
RegisterCheck ==
    /\ reg = "check"
    /\ reg' = "idle"
    /\ Decide(countdown = 0 /\ ~initializing)
    /\ UNCHANGED <<pcpuVars, freezeVars, armed, live, decs>>

-----------------------------------------------------------------------------
\* An unfreeze that leaves other freezes in place only counts.
UnfreezeNested ==
    /\ Returned > 0 /\ fcount > 1
    /\ fcount' = fcount - 1
    /\ UNCHANGED <<pcpuVars, countdown, initializing, sum, cbVars, live, decs>>

\* The last unfreeze.  Its caller has seen the counter zeroed and has no
\* callback outstanding.  A decider that has not fired yet is stale now.
UnfreezeLast ==
    /\ fcount = 1 /\ Zeroed
    /\ armed = 0 /\ reg = "idle"
    /\ fcount' = 0
    /\ armed' = 0
    /\ work' = [c \in CPU |-> "unfreeze"]
    /\ firing' = [now |-> 0, stale |-> firing.now + firing.stale]
    /\ UNCHANGED <<counter, freeze, countdown, initializing, sum, reg, live, decs>>

UnfreezePcpuFlagFirst(c) ==
    /\ \/ /\ work[c] = "unfreeze"
          /\ freeze' = [freeze EXCEPT ![c] = FALSE]
          /\ work' = [work EXCEPT ![c] = "unfreezing"]
          /\ UNCHANGED counter
       \/ /\ work[c] = "unfreezing"
          /\ counter' = [counter EXCEPT ![c] = 0]
          /\ work' = [work EXCEPT ![c] = "none"]
          /\ UNCHANGED freeze
    /\ UNCHANGED <<freezeVars, cbVars, live, decs>>

\* The work item of an unfreeze, in its two statements.
unfreeze_pcpu(c) ==
    /\ \/ /\ work[c] = "unfreeze"
          /\ counter' = [counter EXCEPT ![c] = 0]
          /\ work' = [work EXCEPT ![c] = "unfreezing"]
          /\ UNCHANGED freeze
       \/ /\ work[c] = "unfreezing"
          /\ freeze' = [freeze EXCEPT ![c] = FALSE]
          /\ work' = [work EXCEPT ![c] = "none"]
          /\ UNCHANGED counter
    /\ UNCHANGED <<freezeVars, cbVars, live, decs>>

-----------------------------------------------------------------------------
Next ==
    \/ \E c \in CPU : \/ env_refcnt_inc(c)
                      \/ env_refcnt_dec(c)
                      \/ freeze_pcpu(c)
                      \/ unfreeze_pcpu(c)
    \/ DecCountdown
    \/ \E k \in {"now", "stale"} : call_freeze_cb(k)
    \/ FreezeFirst \/ FreezeNested \/ FreezeFinish
    \/ RegisterBegin \/ RegisterArm \/ RegisterCheck
    \/ UnfreezeNested \/ UnfreezeLast

Spec == Init /\ [][Next]_vars

\* Work queues run their items, a thread inside a call finishes it, and the
\* holders of references (requests in flight) give them back.
Fairness ==
    /\ \A c \in CPU : WF_vars(freeze_pcpu(c)) /\ WF_vars(unfreeze_pcpu(c))
    /\ WF_vars(\E c \in CPU : env_refcnt_dec(c))
    /\ WF_vars(DecCountdown)
    /\ WF_vars(FreezeFinish)
    /\ WF_vars(RegisterArm) /\ WF_vars(RegisterCheck)
    /\ WF_vars(call_freeze_cb("now")) /\ WF_vars(call_freeze_cb("stale"))

FairSpec == Spec /\ Fairness

-----------------------------------------------------------------------------
\* Type invariant.  armed stays within ARMED: the BUG_ON on concurrent
\* arming in env_refcnt_register_zero_cb is not reached.
TypeOK ==
    /\ counter \in [CPU -> Int]
    /\ freeze \in [CPU -> BOOLEAN]
    /\ work \in [CPU -> {"none", "freeze", "freezing", "unfreeze", "unfreezing"}]
    /\ fcount \in Nat
    /\ countdown \in Int
    /\ initializing \in BOOLEAN
    /\ sum \in Int
    /\ armed \in 0..CB_ARMED
    /\ reg \in {"idle", "arming", "check"}
    /\ live \in Nat
    /\ decs \in Nat
    /\ firing \in [now : Nat, stale : Nat]

\* A CPU's count that the countdown does not stand for yet: the count of a
\* CPU whose freeze item has run is in the sum, the count of one whose
\* unfreeze item has not run is void.
Uncollected(c) ==
    IF freeze[c] /\ work[c] \in {"none", "unfreeze"} THEN 0 ELSE counter[c]

\* ... and the sum of these counts over the first CPUs.
UncollectedUpTo[n \in 0..N] ==
    IF n = 0 THEN 0 ELSE UncollectedUpTo[n-1] + Uncollected(n)

\* No reference is lost or counted twice, wherever a freeze or an unfreeze
\* stands: private counts not collected yet, the sum under way and the
\* countdown together are the references held plus the puts still on their
\* way to the lock.
RefsAccounted == live + decs = UncollectedUpTo[N] + sum + countdown

\* env_refcnt_zeroed answers true only when every reference is gone and no
\* put is still on its way.
ZeroedMeansNoRefs == Zeroed => live = 0 /\ decs = 0

\* Once a freeze has completed, and until the last unfreeze, no CPU admits
\* a reference.
FrozenAdmitsNone ==
    fcount > 0 /\ ~initializing => \A c \in CPU : freeze[c] /\ work[c] = "none"

\* A callback called by a thread that decided in the present freeze period
\* is called when no reference is left (header: "to be called when
\* reference counter drops to 0").
CallbackAtZero ==
    [][call_freeze_cb("now") /\ armed = CB_ARMED => live = 0 /\ decs = 0]_vars

\* A registered callback fires.
CallbackFires == armed # 0 ~> armed = 0

\* The counter implements a gate over one plain count.
Abstract == INSTANCE AbstractRefcnt
                WITH refs <- live + decs, shut <- fcount > 0 /\ ~initializing
ImplementsGate == Abstract!AbsSpec

=============================================================================
