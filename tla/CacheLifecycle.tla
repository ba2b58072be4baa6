--------------------------- MODULE CacheLifecycle ---------------------------
(***************************************************************************)
(* The life of one cache instance: cache_mngt_init_instance (and           *)
(* cache_mngt_connect_cache, which has the same shape) starts it,          *)
(* cache_mngt_exit_instance stops it                                       *)
(* (modules/cas_cache/layer_cache_management.c).                           *)
(*                                                                         *)
(* Both prepare a thread that is to release the cache before they start    *)
(* what cannot be undone: cas_lazy_thread_create makes a thread that       *)
(* sleeps until it is told either to run its function or to end.  A start  *)
(* that fails, or whose caller is interrupted by a signal, is rolled back  *)
(* by its thread; a stop is finished by its thread.  Either is woken by    *)
(* the completion of ocf_mngt_cache_stop.                                  *)
(*                                                                         *)
(* The completion context of a start is allocated by the start; the one of *)
(* a stop lives in the cache's private data.  The first flush of a stop    *)
(* and its wait for the cache lock are modelled by MngtAsync and are one   *)
(* step here.                                                              *)
(***************************************************************************)
EXTENDS Naturals, FiniteSets

CONSTANT Stoppers    \* calls of cache_mngt_exit_instance

ASSUME StoppersAssumption == "start" \notin Stoppers

Procs == {"start"} \cup Stoppers

VARIABLES
    pc,        \* where each call stands
    ret,       \* what it returned
    rc,        \* result it goes on with
    ctx,       \* contexts: attach context of the start, stop_context
    clt,       \* lazy thread structure of each call: none, alloc, freed
    flag,      \* its run and stop flags
    lazy,      \* where the lazy thread stands
    cache,     \* OCF's view: none, present, attached, removed
    lock,      \* calls the cache lock is held for
    refs,      \* calls a reference found by name is held for
    held,      \* resources of the instance: priv, queue, cls, volume
    modrefs,   \* references to the module
    op,        \* the OCF operation under way
    misused    \* misuse of freed memory

lifeVars == <<pc, ret, rc, ctx, clt, flag, lazy, cache, lock, refs, held, modrefs,
              op, misused>>

NoContext == [alloc |-> FALSE, result |-> "none", cmpl |-> FALSE]
FreshContext == [NoContext EXCEPT !.alloc = TRUE]
NoOp == [kind |-> "none", for |-> "start"]

\* The context a call shares with its completion.
Ctx(p) == IF p = "start" THEN "attach" ELSE "stop"

LifeInit ==
    /\ pc = [p \in Procs |-> "idle"]
    /\ ret = [p \in Procs |-> "none"]
    /\ rc = [p \in Procs |-> "ok"]
    /\ ctx = [c \in {"attach", "stop"} |-> NoContext]
    /\ clt = [p \in Procs |-> "none"]
    /\ flag = [p \in Procs |-> "none"]
    /\ lazy = [p \in Procs |-> "none"]
    /\ cache = "none"
    /\ lock = {}
    /\ refs = {}
    /\ held = {}
    /\ modrefs = 0
    /\ op = NoOp
    /\ misused = {}

-----------------------------------------------------------------------------
Enter(p, l) == pc' = [pc EXCEPT ![p] = l]
Return(p, r) == Enter(p, "done") /\ ret' = [ret EXCEPT ![p] = r]

Misuse(what, happens) == IF happens THEN {what} ELSE {}
UseOf(c) == Misuse("context", ~ctx[c].alloc)

\* _cache_mngt_async_callee_set_result: the context afterwards.
callee_set_result(c, error) ==
    [ctx[c] EXCEPT !.result = CASE @ = "interrupted" -> @
                                [] OTHER -> IF error THEN "error" ELSE "ok",
                   !.cmpl = TRUE]

\* _cache_mngt_async_caller_set_result: the result the caller goes on with.
caller_set_result(p) ==
    IF ctx[Ctx(p)].result # "none" THEN ctx[Ctx(p)].result ELSE rc[p]

-----------------------------------------------------------------------------
(* The lazy thread. *)

\* cas_lazy_thread_create
LazyThreadCreated(p) ==
    /\ clt' = [clt EXCEPT ![p] = "alloc"]
    /\ lazy' = [lazy EXCEPT ![p] = "check"]

\* wait_event_interruptible: the condition is checked, then again after the
\* thread has queued itself, and only then does it sleep.
LazyThreadWait(p) ==
    /\ lazy[p] \in {"check", "queued"}
    /\ lazy' = [lazy EXCEPT ![p] = CASE flag[p] # "none" -> "awake"
                                     [] lazy[p] = "check" -> "queued"
                                     [] OTHER -> "asleep"]
    /\ UNCHANGED <<pc, ret, rc, ctx, clt, flag, cache, lock, refs, held, modrefs,
                   op, misused>>

\* The structure is freed before the thread ends or runs its function.
LazyThreadAwake(p) ==
    /\ lazy[p] = "awake"
    /\ clt' = [clt EXCEPT ![p] = "freed"]
    /\ lazy' = [lazy EXCEPT ![p] = IF flag[p] = "stop" THEN "done" ELSE "run"]
    /\ UNCHANGED <<pc, ret, rc, ctx, flag, cache, lock, refs, held, modrefs, op,
                   misused>>

\* wake_up(&clt->wq), the second statement of cas_lazy_thread_stop and
\* cas_lazy_thread_wake_up.
WakeUp(p) ==
    /\ lazy' = [lazy EXCEPT ![p] = IF @ \in {"queued", "asleep"} THEN "check" ELSE @]
    /\ misused' = misused \cup Misuse("late wake-up", clt[p] = "freed")

\* The first statement of each.
SetFlag(p, f) == flag' = [flag EXCEPT ![p] = f]

-----------------------------------------------------------------------------
(* cache_mngt_init_instance *)

\* The checks, the context and the rollback thread.  Every early return
\* gives back what it has: the volume, the module and the context.
StartPrepare ==
    /\ pc["start"] = "idle"
    /\ \/ /\ Enter("start", "create")
          /\ modrefs' = modrefs + 1
          /\ ctx' = [ctx EXCEPT !["attach"] = FreshContext]
          /\ LazyThreadCreated("start")
          /\ held' = held \cup {"volume"}
          /\ UNCHANGED ret
       \/ /\ Return("start", "error")
          /\ UNCHANGED <<modrefs, ctx, clt, lazy, held>>
    /\ UNCHANGED <<rc, flag, cache, lock, refs, op, misused>>

\* ocf_mngt_cache_start returns the new instance locked.
StartCache ==
    /\ pc["start"] = "create"
    /\ \/ /\ Enter("start", "priv")
          /\ cache' = "present"
          /\ lock' = {"start"}
       \/ /\ Enter("start", "not created")
          /\ UNCHANGED <<cache, lock>>
    /\ UNCHANGED <<ret, rc, ctx, clt, flag, lazy, refs, held, modrefs, op, misused>>

\* Private data with the stop context, and the queues.
StartPriv ==
    /\ pc["start"] = "priv"
    /\ \/ /\ Enter("start", "attach")
          /\ held' = held \cup {"priv", "queue"}
          /\ ctx' = [ctx EXCEPT !["stop"] = FreshContext]
       \/ /\ Enter("start", "rollback")
          /\ \/ held' = held \ {"volume"} /\ UNCHANGED ctx
             \/ /\ held' = (held \ {"volume"}) \cup {"priv"}
                /\ ctx' = [ctx EXCEPT !["stop"] = FreshContext]
    /\ UNCHANGED <<ret, rc, clt, flag, lazy, cache, lock, refs, modrefs, op, misused>>

\* ocf_mngt_cache_attach or ocf_mngt_cache_load
StartAttach ==
    /\ pc["start"] = "attach"
    /\ Enter("start", "wait attach")
    /\ op' = [kind |-> "attach", for |-> "start"]
    /\ UNCHANGED <<ret, rc, ctx, clt, flag, lazy, cache, lock, refs, held, modrefs, misused>>

\* wait_for_completion_interruptible: completed, or a signal came first.
Wait(p) ==
    /\ \/ pc[p] = "wait attach" /\ Enter(p, "set attach")
       \/ pc[p] = "wait rollback" /\ Enter(p, "set rollback")
       \/ pc[p] = "wait stop" /\ Enter(p, "set stop")
    /\ \/ ctx[Ctx(p)].cmpl /\ rc' = [rc EXCEPT ![p] = "ok"]
       \/ rc' = [rc EXCEPT ![p] = "interrupted"]
    /\ UNCHANGED <<ret, ctx, clt, flag, lazy, cache, lock, refs, held, modrefs, op, misused>>

\* An interrupted caller leaves the rollback to the completion.
StartResult ==
    LET r == caller_set_result("start") IN
    /\ pc["start"] = "set attach"
    /\ \/ /\ r = "interrupted"
          /\ ctx' = [ctx EXCEPT !["attach"].result = r]
          /\ Return("start", r)
       \/ /\ r # "interrupted"
          /\ Enter("start", IF r = "ok" THEN "finalize" ELSE "rollback")
          /\ UNCHANGED <<ctx, ret>>
    /\ misused' = misused \cup UseOf("attach")
    /\ UNCHANGED <<rc, clt, flag, lazy, cache, lock, refs, held, modrefs, op>>

\* _cache_start_finalize: the classifier, then the exported objects.
StartFinalize ==
    /\ pc["start"] = "finalize"
    /\ \/ Enter("start", "started") /\ held' = held \cup {"cls"}
       \/ Enter("start", "rollback") /\ held' \in {held, held \cup {"cls"}}
    /\ UNCHANGED <<ret, rc, ctx, clt, flag, lazy, cache, lock, refs, modrefs, op, misused>>

\* cas_lazy_thread_stop of a start that needs no rollback, and of a stop
\* that is given up: the flag ...
EndThread(p) ==
    /\ pc[p] \in {"started", "not created", "busy"}
    /\ Enter(p, CASE pc[p] = "started" -> "end started"
                  [] pc[p] = "not created" -> "end not created"
                  [] OTHER -> "end busy")
    /\ SetFlag(p, "stop")
    /\ UNCHANGED <<ret, rc, ctx, clt, lazy, cache, lock, refs, held, modrefs, op, misused>>

StartEndPutsModule ==
    /\ WakeUp("start")
    /\ ctx' = [ctx EXCEPT !["attach"] = NoContext]
    /\ \/ pc["start"] = "end started" /\ lock' = lock \ {"start"} /\ Return("start", "ok")
       \/ pc["start"] = "end not created" /\ UNCHANGED lock /\ Return("start", "error")
    /\ held' = held \ {"volume"}
    /\ modrefs' = modrefs - 1
    /\ UNCHANGED <<rc, clt, flag, cache, refs, op>>

\* ... then the wake-up, and what the start still holds.
StartEnd ==
    /\ WakeUp("start")
    /\ ctx' = [ctx EXCEPT !["attach"] = NoContext]
    /\ \/ /\ pc["start"] = "end started"
          /\ lock' = lock \ {"start"}
          /\ Return("start", "ok")
          /\ UNCHANGED <<held, modrefs>>
       \/ /\ pc["start"] = "end not created"
          /\ held' = held \ {"volume"}
          /\ modrefs' = modrefs - 1
          /\ Return("start", "error")
          /\ UNCHANGED lock
    /\ UNCHANGED <<rc, clt, flag, cache, refs, op>>

\* The error path stops the cache and waits for the rollback thread.
StartRollback ==
    /\ pc["start"] = "rollback"
    /\ Enter("start", "wait rollback")
    /\ ctx' = [ctx EXCEPT !["attach"] = FreshContext]
    /\ op' = [kind |-> "stop", for |-> "start"]
    /\ misused' = misused \cup UseOf("attach")
    /\ UNCHANGED <<ret, rc, clt, flag, lazy, cache, lock, refs, held, modrefs>>

RollbackResultFrees ==
    /\ pc["start"] = "set rollback"
    /\ ctx' = [ctx EXCEPT !["attach"] = NoContext]
    /\ Return("start", "error")
    /\ misused' = misused \cup UseOf("attach")
    /\ UNCHANGED <<rc, clt, flag, lazy, cache, lock, refs, held, modrefs, op>>

RollbackResult ==
    LET r == caller_set_result("start") IN
    /\ pc["start"] = "set rollback"
    /\ ctx' = [ctx EXCEPT !["attach"] = IF r = "interrupted" THEN [@ EXCEPT !.result = r]
                                                             ELSE NoContext]
    /\ Return("start", "error")
    /\ misused' = misused \cup UseOf("attach")
    /\ UNCHANGED <<rc, clt, flag, lazy, cache, lock, refs, held, modrefs, op>>

-----------------------------------------------------------------------------
(* cache_mngt_exit_instance *)

\* ocf_mngt_cache_get_by_name
StopGet(p) ==
    /\ pc[p] = "idle"
    /\ \/ /\ cache \in {"present", "attached"}
          /\ Enter(p, "lock")
          /\ refs' = refs \cup {p}
          /\ UNCHANGED ret
       \/ /\ cache \notin {"present", "attached"}
          /\ Return(p, "error")
          /\ UNCHANGED refs
    /\ UNCHANGED <<rc, ctx, clt, flag, lazy, cache, lock, held, modrefs, op, misused>>

\* The first flush and the lock; OCF refuses the lock of a stopped cache.
StopLock(p) ==
    /\ pc[p] = "lock"
    /\ \/ /\ cache # "removed" /\ lock = {}
          /\ Enter(p, "prepare")
          /\ lock' = {p}
          /\ UNCHANGED <<ret, refs>>
       \/ /\ Return(p, "error")
          /\ refs' = refs \ {p}
          /\ UNCHANGED lock
    /\ UNCHANGED <<rc, ctx, clt, flag, lazy, cache, held, modrefs, op, misused>>

\* The finish thread is created ahead of the point of no return.
StopPrepare(p) ==
    /\ pc[p] = "prepare"
    /\ \/ /\ Enter(p, "exp objs")
          /\ LazyThreadCreated(p)
          /\ UNCHANGED <<ret, lock, refs>>
       \/ /\ Return(p, "error")
          /\ lock' = lock \ {p}
          /\ refs' = refs \ {p}
          /\ UNCHANGED <<clt, lazy>>
    /\ misused' = misused \cup UseOf("stop") \cup Misuse("priv", "priv" \notin held)
    /\ UNCHANGED <<rc, ctx, flag, cache, held, modrefs, op>>

\* The exported objects are destroyed, unless one is in use, the cache is
\* flushed again and OCF is asked to stop it.
StopExpObjs(p) ==
    /\ pc[p] = "exp objs"
    /\ \/ /\ Enter(p, "wait stop")
          /\ ctx' = [ctx EXCEPT !["stop"] = FreshContext]
          /\ op' = [kind |-> "stop", for |-> p]
       \/ /\ Enter(p, "busy")
          /\ UNCHANGED <<ctx, op>>
    /\ UNCHANGED <<ret, rc, clt, flag, lazy, cache, lock, refs, held, modrefs, misused>>

StopGiveUpKeepsReference(p) ==
    /\ pc[p] = "end busy"
    /\ WakeUp(p)
    /\ lock' = lock \ {p}
    /\ Return(p, "error")
    /\ UNCHANGED <<rc, ctx, clt, flag, cache, refs, held, modrefs, op>>

StopGiveUp(p) ==
    /\ pc[p] = "end busy"
    /\ WakeUp(p)
    /\ lock' = lock \ {p}
    /\ refs' = refs \ {p}
    /\ Return(p, "error")
    /\ UNCHANGED <<rc, ctx, clt, flag, cache, held, modrefs, op>>

StopResult(p) ==
    LET r == caller_set_result(p) IN
    /\ pc[p] = "set stop"
    /\ ctx' = [ctx EXCEPT !["stop"] = IF r = "interrupted" THEN [@ EXCEPT !.result = r]
                                                           ELSE NoContext]
    /\ Return(p, r)
    /\ misused' = misused \cup UseOf("stop")
    /\ UNCHANGED <<rc, clt, flag, lazy, cache, lock, refs, held, modrefs, op>>

-----------------------------------------------------------------------------
(* OCF, its completions and the functions of the lazy threads. *)

\* The attach or load ends, well or badly.
OcfAttach ==
    /\ op.kind = "attach"
    /\ op' = [op EXCEPT !.kind = "attach ended"]
    /\ cache' \in {cache, "attached"}
    /\ UNCHANGED <<pc, ret, rc, ctx, clt, flag, lazy, lock, refs, held, modrefs, misused>>

\* _cache_mngt_start_complete: when the caller is gone the cache is stopped.
start_complete ==
    LET c == callee_set_result("attach", cache # "attached") IN
    /\ op.kind = "attach ended"
    /\ held' = held \ {"volume"}
    /\ ctx' = [ctx EXCEPT !["attach"] = c]
    /\ op' = IF c.result = "interrupted" THEN [kind |-> "stop", for |-> "start"] ELSE NoOp
    /\ misused' = misused \cup UseOf("attach")
    /\ UNCHANGED <<pc, ret, rc, clt, flag, lazy, cache, lock, refs, modrefs>>

\* ocf_mngt_cache_stop removes the instance.
OcfStop ==
    /\ op.kind = "stop"
    /\ op' = [op EXCEPT !.kind = "stop ended"]
    /\ cache' = "removed"
    /\ UNCHANGED <<pc, ret, rc, ctx, clt, flag, lazy, lock, refs, held, modrefs, misused>>

\* _cache_mngt_cache_stop_rollback_complete, _cache_mngt_cache_stop_complete:
\* cas_lazy_thread_wake_up sets the flag ...
stop_complete ==
    /\ op.kind = "stop ended"
    /\ SetFlag(op.for, "run")
    /\ op' = [op EXCEPT !.kind = "wake-up"]
    /\ misused' = misused \cup UseOf(Ctx(op.for))
    /\ UNCHANGED <<pc, ret, rc, ctx, clt, lazy, cache, lock, refs, held, modrefs>>

\* ... and wakes the thread.
stop_complete_wake ==
    /\ op.kind = "wake-up"
    /\ WakeUp(op.for)
    /\ op' = NoOp
    /\ UNCHANGED <<pc, ret, rc, ctx, clt, flag, cache, lock, refs, held, modrefs>>

ThreadReleaseKeepsClassifier(p) ==
    /\ lazy[p] = "run"
    /\ lazy' = [lazy EXCEPT ![p] = "tell"]
    /\ held' = held \ (IF p = "start" THEN {"priv", "queue"} ELSE {"cls", "priv", "queue"})
    /\ ctx' = IF p = "start" THEN [ctx EXCEPT !["stop"] = NoContext] ELSE ctx
    /\ lock' = lock \ {p}
    /\ refs' = refs \ {p}
    /\ UNCHANGED <<pc, ret, rc, clt, flag, cache, modrefs, op, misused>>

\* cache_start_rollback and exit_instance_finish: release the instance ...
ThreadRelease(p) ==
    /\ lazy[p] = "run"
    /\ lazy' = [lazy EXCEPT ![p] = "tell"]
    /\ held' = held \ {"cls", "priv", "queue"}
    /\ ctx' = IF p = "start" THEN [ctx EXCEPT !["stop"] = NoContext] ELSE ctx
    /\ lock' = lock \ {p}
    /\ refs' = refs \ {p}
    /\ misused' = misused \cup UseOf(Ctx(p))
                        \cup Misuse("priv", p # "start" /\ "priv" \notin held)
                        \cup Misuse("unlock", p \notin lock)
    /\ UNCHANGED <<pc, ret, rc, clt, flag, cache, modrefs, op>>

ThreadTellKeepsModule(p) ==
    /\ lazy[p] = "tell"
    /\ lazy' = [lazy EXCEPT ![p] = "done"]
    /\ \E error \in BOOLEAN :
        LET c == callee_set_result(Ctx(p), error) IN
        /\ ctx' = [ctx EXCEPT ![Ctx(p)] = IF c.result = "interrupted" THEN NoContext ELSE c]
        /\ modrefs' = IF c.result = "interrupted" THEN modrefs ELSE modrefs - 1
    /\ misused' = misused \cup UseOf(Ctx(p))
    /\ UNCHANGED <<pc, ret, rc, clt, flag, cache, lock, refs, held, op>>

\* ... and tell the caller, or free the context of a caller that is gone;
\* then drop the module and exit.
ThreadTell(p) ==
    /\ lazy[p] = "tell"
    /\ lazy' = [lazy EXCEPT ![p] = "done"]
    /\ \E error \in BOOLEAN :
        LET c == callee_set_result(Ctx(p), error) IN
        ctx' = [ctx EXCEPT ![Ctx(p)] = IF c.result = "interrupted" THEN NoContext ELSE c]
    /\ modrefs' = modrefs - 1
    /\ misused' = misused \cup UseOf(Ctx(p)) \cup Misuse("module", modrefs = 0)
    /\ UNCHANGED <<pc, ret, rc, clt, flag, cache, lock, refs, held, op>>

-----------------------------------------------------------------------------
Start == \/ StartPrepare \/ StartCache \/ StartPriv \/ StartAttach
         \/ StartResult \/ StartFinalize \/ StartEnd \/ StartRollback
         \/ RollbackResult

Stop(p) == \/ StopGet(p) \/ StopLock(p) \/ StopPrepare(p) \/ StopExpObjs(p)
           \/ StopGiveUp(p) \/ StopResult(p)

Lazy(p) == \/ LazyThreadWait(p) \/ LazyThreadAwake(p)
           \/ ThreadRelease(p) \/ ThreadTell(p)

Ocf == \/ OcfAttach \/ start_complete \/ OcfStop \/ stop_complete
       \/ stop_complete_wake

\* No call is running, no operation under way and no thread alive.
Quiet == /\ \A p \in Procs : pc[p] \in {"idle", "done"} /\ lazy[p] \in {"none", "done"}
         /\ op = NoOp

LifeNext == \/ Start
            \/ \E p \in Stoppers : Stop(p)
            \/ \E p \in Procs : Wait(p) \/ EndThread(p) \/ Lazy(p)
            \/ Ocf
            \/ (Quiet /\ UNCHANGED lifeVars)

LifeSpec == LifeInit /\ [][LifeNext]_lifeVars

\* Calls that were made go on, threads are scheduled and OCF completes what
\* it was asked for.  Signals need not come, so a wait ends for sure only
\* when it is completed.
LifeFairness ==
    /\ WF_lifeVars(Start /\ pc["start"] # "idle")
    /\ \A p \in Stoppers : WF_lifeVars(Stop(p) /\ pc[p] # "idle")
    /\ \A p \in Procs : /\ WF_lifeVars(Wait(p) /\ ctx[Ctx(p)].cmpl)
                        /\ WF_lifeVars(EndThread(p))
                        /\ WF_lifeVars(Lazy(p))
    /\ WF_lifeVars(Ocf)

LifeFairSpec == LifeSpec /\ LifeFairness

-----------------------------------------------------------------------------
\* Type invariant.
LifeTypeOK ==
    /\ pc \in [Procs -> {"idle", "create", "priv", "attach", "wait attach",
                         "set attach", "finalize", "started", "end started",
                         "not created", "end not created", "rollback",
                         "wait rollback", "set rollback", "lock", "prepare",
                         "exp objs", "busy", "end busy", "wait stop",
                         "set stop", "done"}]
    /\ ret \in [Procs -> {"none", "ok", "error", "interrupted"}]
    /\ rc \in [Procs -> {"ok", "interrupted"}]
    /\ ctx \in [{"attach", "stop"} ->
                [alloc : BOOLEAN, cmpl : BOOLEAN,
                 result : {"none", "ok", "error", "interrupted"}]]
    /\ clt \in [Procs -> {"none", "alloc", "freed"}]
    /\ flag \in [Procs -> {"none", "run", "stop"}]
    /\ lazy \in [Procs -> {"none", "check", "queued", "asleep", "awake", "run",
                          "tell", "done"}]
    /\ cache \in {"none", "present", "attached", "removed"}
    /\ lock \subseteq Procs /\ Cardinality(lock) <= 1
    /\ refs \subseteq Stoppers
    /\ held \subseteq {"priv", "queue", "cls", "volume"}
    /\ modrefs \in 0..1
    /\ op \in [kind : {"none", "attach", "attach ended", "stop", "stop ended",
                       "wake-up"}, for : Procs]
    /\ misused \subseteq {"context", "priv", "unlock", "module", "late wake-up"}

\* Neither caller, completion nor lazy thread uses a context or private data
\* that another of them has freed, unlocks a cache it has not locked or
\* drops a module reference twice, whenever signals interrupt the waits.
NoFault == misused \subseteq {"late wake-up"}

\* Once everything is quiet nothing is left over: a cache that runs holds
\* one module reference, its private data, queue and classifier; any other
\* outcome of start and stop has released all of it, the contexts and the
\* lazy threads included.
NothingLeaks ==
    Quiet =>
    /\ lock = {} /\ refs = {} /\ ~ctx["attach"].alloc
    /\ \A p \in Procs : clt[p] # "alloc"
    /\ IF cache = "attached"
       THEN held = {"priv", "queue", "cls"} /\ modrefs = 1 /\ ctx["stop"].alloc
       ELSE held = {} /\ modrefs = 0 /\ ~ctx["stop"].alloc /\ cache # "present"

\* The module cannot be unloaded under an instance, its private data or a
\* thread that runs a function of the module for it.
ModulePinned ==
    \/ cache \in {"present", "attached"} \/ held # {} \/ lock # {}
    \/ \E p \in Procs : lazy[p] \in {"run", "tell"}
    => modrefs > 0

\* A start that did not succeed, for an error or an interruption at any
\* point, is rolled back in the end: no trace of the cache remains.
StartRollsBack ==
    ret["start"] \in {"error", "interrupted"}
        ~> [](cache \in {"none", "removed"} /\ held = {} /\ modrefs = 0)

\* A stop whose caller was interrupted is finished by its thread.
StopFinishes ==
    \A p \in Stoppers : ret[p] = "interrupted" ~> [](cache = "removed" /\ held = {} /\ modrefs = 0)

\* All of the safety of start and stop: nothing is misused or left over, and
\* the module stays loaded as long as it is needed.
LifecycleSafe == LifeTypeOK /\ NoFault /\ NothingLeaks /\ ModulePinned

\* All of the liveness: a start that failed and a stop that was interrupted
\* leave nothing behind in the end.
EndsClean == StartRollsBack /\ StopFinishes
=============================================================================
