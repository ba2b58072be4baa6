-------------------------- MODULE LifecycleProofs ---------------------------
(***************************************************************************)
(* Proofs about the life of a cache instance, between                      *)
(* cache_mngt_init_instance and cache_mngt_exit_instance, for any number   *)
(* of stops at the same time.                                              *)
(*                                                                         *)
(* LifecycleSafe looks at the whole: nothing misused, left over or         *)
(* unpinned.  The invariant names the one call that owns the instance and  *)
(* lists the rows it may be in: what of the instance exists, where the     *)
(* lazy thread stands, what OCF is doing and who will free the context.    *)
(* Every other call is beside it: over, waiting for the lock or not begun, *)
(* with its thread absent or told to end.  An interrupted caller is done   *)
(* while it still owns the instance, through its thread.                   *)
(***************************************************************************)
EXTENDS CacheLifecycle, TLAPS

Calls ==
    /\ pc \in [Procs -> {"idle", "create", "priv", "attach", "wait attach",
                         "set attach", "finalize", "started", "end started",
                         "not created", "end not created", "rollback",
                         "wait rollback", "set rollback", "lock", "prepare",
                         "exp objs", "busy", "end busy", "wait stop",
                         "set stop", "done"}]
    /\ ret \in [Procs -> {"none", "ok", "error", "interrupted"}]
    /\ rc \in [Procs -> {"ok", "interrupted"}]
    /\ refs \subseteq Stoppers

Threads ==
    /\ clt \in [Procs -> {"none", "alloc", "freed"}]
    /\ flag \in [Procs -> {"none", "run", "stop"}]
    /\ lazy \in [Procs -> {"none", "check", "queued", "asleep", "awake", "run",
                           "tell", "done"}]

Records ==
    /\ ctx \in [{"attach", "stop"} ->
                [alloc : BOOLEAN, cmpl : BOOLEAN,
                 result : {"none", "ok", "error", "interrupted"}]]
    /\ op \in [kind : {"none", "attach", "attach ended", "stop", "stop ended",
                       "wake-up"}, for : Procs]

Typed == Calls /\ Threads /\ Records

-----------------------------------------------------------------------------
(* Where the lazy thread of a call stands. *)

Sleepy == {"check", "queued", "asleep"}

\* It has not been created.
Absent(p) == lazy[p] = "none" /\ clt[p] = "none" /\ flag[p] = "none"

\* It waits to be told what to do.
Waiting(p) == lazy[p] \in Sleepy /\ clt[p] = "alloc" /\ flag[p] = "none"

\* It was told to end.
Told(p) == /\ flag[p] = "stop"
           /\ \/ lazy[p] \in Sleepy \cup {"awake"} /\ clt[p] = "alloc"
              \/ lazy[p] = "done" /\ clt[p] = "freed"

\* It was told to run its function.
Called(p) == /\ flag[p] = "run"
             /\ \/ lazy[p] \in Sleepy \cup {"awake"} /\ clt[p] = "alloc"
                \/ lazy[p] \in {"run", "tell", "done"} /\ clt[p] = "freed"

-----------------------------------------------------------------------------
(* The call that owns the instance and what the others may be doing. *)

\* The waits a completion ends, of the attach or of the stop of the cache.
Waits(p, what) ==
    IF p # "start" THEN {"wait stop", "set stop"}
    ELSE IF what = "attach" THEN {"wait attach", "set attach"}
    ELSE {"wait rollback", "set rollback"}

\* Nobody has answered yet: the caller waits or has been interrupted, and the
\* context is there for the answer.
Pending(p, what) ==
    /\ ctx[Ctx(p)].alloc
    /\ \/ /\ pc[p] \in Waits(p, what)
          /\ ctx[Ctx(p)].result = "none" /\ ~ctx[Ctx(p)].cmpl
          /\ pc[p] \in {"wait attach", "wait rollback", "wait stop"} \/ rc[p] = "interrupted"
       \/ pc[p] = "done" /\ ctx[Ctx(p)].result = "interrupted"

\* The answer is there, or was not wanted any more.
Answered(p) ==
    \/ /\ pc[p] \in Waits(p, "stop")
       /\ ctx[Ctx(p)].alloc /\ ctx[Ctx(p)].cmpl /\ ctx[Ctx(p)].result \in {"ok", "error"}
    \/ pc[p] = "done" /\ ~ctx[Ctx(p)].alloc

\* The cache runs.
Running ==
    /\ cache = "attached" /\ held = {"priv", "queue", "cls"} /\ modrefs = 1
    /\ op = NoOp /\ ctx["stop"].alloc /\ ~ctx["attach"].alloc

\* OCF has been asked to stop the cache for p, and p's thread is told ...
Halting(p) ==
    \/ op.kind = "stop" /\ op.for = p /\ Waiting(p) /\ cache \in {"present", "attached"}
    \/ op.kind = "stop ended" /\ op.for = p /\ Waiting(p) /\ cache = "removed"
    \/ op.kind = "wake-up" /\ op.for = p /\ Called(p) /\ cache = "removed"
    \/ op = NoOp /\ Called(p) /\ cache = "removed"

\* ... to release what there is ...
Releasing(p) ==
    IF lazy[p] \in {"tell", "done"}
    THEN /\ lock = {} /\ held = {} /\ p \notin refs
         /\ p = "start" => ~ctx["stop"].alloc
    ELSE /\ lock = {p}
         /\ p = "start" => held \subseteq {"priv", "queue", "cls"}
         /\ p # "start" => p \in refs /\ held = {"priv", "queue", "cls"}

\* ... and to answer the caller.
Answering(p) ==
    IF lazy[p] = "done" THEN modrefs = 0 /\ Answered(p)
                        ELSE modrefs = 1 /\ Pending(p, "stop")

Ending(p) == Halting(p) /\ Releasing(p) /\ Answering(p)

\* The start has nothing yet, or has failed before it had anything.
Nothing ==
    /\ pc["start"] \in {"idle", "done"} /\ cache = "none" /\ lock = {} /\ held = {}
    /\ modrefs = 0 /\ op = NoOp /\ ~ctx["attach"].alloc /\ ~ctx["stop"].alloc
    /\ Absent("start") \/ (pc["start"] = "done" /\ Told("start"))

\* The start before the instance exists ...
Creating ==
    /\ pc["start"] \in {"create", "not created", "end not created"}
    /\ cache = "none" /\ lock = {} /\ held = {"volume"} /\ modrefs = 1 /\ op = NoOp
    /\ ctx["attach"] = FreshContext /\ ~ctx["stop"].alloc
    /\ IF pc["start"] = "end not created" THEN Told("start") ELSE Waiting("start")

\* ... and when it is there.
Locked == cache \in {"present", "attached"} /\ lock = {"start"} /\ modrefs = 1

Preparing ==
    /\ Locked /\ cache = "present" /\ op = NoOp /\ Waiting("start")
    /\ ctx["attach"] = FreshContext
    /\ \/ pc["start"] = "priv" /\ held = {"volume"}
       \/ /\ pc["start"] = "attach" /\ held = {"volume", "priv", "queue"}
          /\ ctx["stop"].alloc

Attaching ==
    /\ Locked /\ held = {"volume", "priv", "queue"} /\ Waiting("start")
    /\ op.kind \in {"attach", "attach ended"} /\ op.for = "start"
    /\ op.kind = "attach" => cache = "present"
    /\ ctx["stop"].alloc /\ Pending("start", "attach")

Attached ==
    /\ Locked /\ op = NoOp /\ ctx["attach"].alloc /\ ctx["stop"].alloc
    /\ \/ /\ pc["start"] \in {"wait attach", "set attach"} /\ held = {"priv", "queue"}
          /\ ctx["attach"].cmpl /\ Waiting("start")
          /\ ctx["attach"].result = IF cache = "attached" THEN "ok" ELSE "error"
       \/ /\ pc["start"] = "finalize" /\ held = {"priv", "queue"}
          /\ cache = "attached" /\ Waiting("start")
       \/ /\ pc["start"] \in {"started", "end started"} /\ held = {"priv", "queue", "cls"}
          /\ cache = "attached"
          /\ IF pc["start"] = "started" THEN Waiting("start") ELSE Told("start")

Failed ==
    /\ pc["start"] = "rollback" /\ Locked /\ op = NoOp /\ Waiting("start")
    /\ ctx["attach"].alloc /\ held \subseteq {"priv", "queue", "cls"}

Up == pc["start"] = "done" /\ Told("start") /\ Running /\ lock = {}

\* A stop that has the lock and can still give up.
Stopping(p) ==
    /\ Running /\ lock = {p} /\ p \in refs
    /\ \/ pc[p] = "prepare" /\ Absent(p)
       \/ pc[p] \in {"exp objs", "busy"} /\ Waiting(p)
       \/ pc[p] = "end busy" /\ Told(p)

Owner(p) ==
    \/ Ending(p)
    \/ /\ p = "start"
       /\ \/ Nothing \/ Creating \/ Preparing \/ Attaching \/ Attached
          \/ Failed \/ Up
    \/ p # "start" /\ Stopping(p)

\* A call beside the owner: a start that is over, a stop that waits for the
\* lock, has not begun or was given up.
Beside(q) ==
    /\ Absent(q) \/ Told(q)
    /\ q = "start" => pc[q] = "done" /\ Told(q) /\ ~ctx["attach"].alloc
    /\ q # "start" => /\ pc[q] \in {"idle", "lock", "done"}
                      /\ pc[q] # "done" => Absent(q)
                      /\ q \in refs <=> pc[q] = "lock"
                      /\ pc[q] = "lock" => cache # "none"

Owned == \E p \in Procs : Owner(p) /\ \A q \in Procs \ {p} : Beside(q)

LifeInv == Typed /\ NoFault /\ Owned

-----------------------------------------------------------------------------
(* What a step of one call leaves to the others. *)

Apart(p) ==
    \A q \in Procs \ {p} :
        /\ pc'[q] = pc[q] /\ lazy'[q] = lazy[q] /\ clt'[q] = clt[q]
        /\ flag'[q] = flag[q] /\ (q \in refs' <=> q \in refs)

\* What is said of a call beside the owner survives the steps of another
\* call, as long as they do not bring the attach context back.
LEMMA BesideStays ==
  ASSUME NEW p \in Procs, NEW q \in Procs \ {p}, Apart(p), Beside(q),
         q = "start" => ~ctx'["attach"].alloc, cache # "none" => cache' # "none"
  PROVE  Beside(q)'
<1>1. /\ pc'[q] = pc[q] /\ lazy'[q] = lazy[q] /\ clt'[q] = clt[q]
      /\ flag'[q] = flag[q] /\ (q \in refs' <=> q \in refs)
  BY Zenon DEF Apart
<1>2. Absent(q)' \/ Told(q)'
  BY <1>1, Zenon DEF Beside, Absent, Told
<1>3. q = "start" => pc'[q] = "done" /\ Told(q)' /\ ~ctx'["attach"].alloc
  BY <1>1, Zenon DEF Beside, Told
<1>4. q # "start" => /\ pc'[q] \in {"idle", "lock", "done"}
                     /\ pc'[q] # "done" => Absent(q)'
                     /\ q \in refs' <=> pc'[q] = "lock"
                     /\ pc'[q] = "lock" => cache' # "none"
  BY <1>1, Zenon DEF Beside, Absent
<1> QED  BY <1>2, <1>3, <1>4, Zenon DEF Beside

\* A step of the owner.
LEMMA OwnerSteps ==
  ASSUME NEW p \in Procs, \A q \in Procs \ {p} : Beside(q), Apart(p), Owner(p)',
         p # "start" => ~ctx'["attach"].alloc, cache # "none" => cache' # "none"
  PROVE  Owned'
<1>1. ASSUME NEW q \in Procs \ {p} PROVE Beside(q)'
  BY <1>1, BesideStays, Zenon
<1> QED  BY <1>1, Zenon DEF Owned, Procs

\* A call that is not the owner of the instance leaves the owner alone.
LEMMA OwnerStays ==
  ASSUME NEW p \in Procs, Owner(p), UNCHANGED <<rc, ctx, cache, lock, held, modrefs, op>>,
         pc'[p] = pc[p], lazy'[p] = lazy[p], clt'[p] = clt[p], flag'[p] = flag[p],
         p \in refs' <=> p \in refs
  PROVE  Owner(p)'
<1>0. /\ Absent(p)' <=> Absent(p)
      /\ Waiting(p)' <=> Waiting(p)
      /\ Told(p)' <=> Told(p)
      /\ Called(p)' <=> Called(p)
      /\ Running' <=> Running
  BY Zenon DEF Absent, Waiting, Told, Called, Running
<1>1. ASSUME NEW w PROVE Pending(p, w)' <=> Pending(p, w)
  BY Zenon DEF Pending
<1>2. Answered(p)' <=> Answered(p)
  BY Zenon DEF Answered
<1>3. CASE Ending(p)
  BY <1>0, <1>1, <1>2, <1>3, Zenon DEF Owner, Ending, Halting, Releasing, Answering
<1>4. CASE p # "start" /\ Stopping(p)
  BY <1>0, <1>4, Zenon DEF Owner, Stopping
<1>5. ASSUME p = "start" PROVE Locked' <=> Locked
  BY Zenon DEF Locked
<1>6. CASE p = "start" /\ (Nothing \/ Creating \/ Preparing)
  BY <1>0, <1>5, <1>6, Zenon DEF Owner, Nothing, Creating, Preparing
<1>7. CASE p = "start" /\ (Attaching \/ Attached)
  BY <1>0, <1>1, <1>5, <1>7, Zenon DEF Owner, Attaching, Attached
<1>8. CASE p = "start" /\ (Failed \/ Up)
  BY <1>0, <1>5, <1>8, Zenon DEF Owner, Failed, Up
<1> QED  BY <1>3, <1>4, <1>6, <1>7, <1>8, Zenon DEF Owner

\* A step of another call.
LEMMA OtherSteps ==
  ASSUME NEW o \in Procs, Owner(o), \A q \in Procs \ {o} : Beside(q),
         NEW p \in Procs \ {o}, Apart(p), Beside(p)',
         UNCHANGED <<rc, ctx, cache, lock, held, modrefs, op>>
  PROVE  Owned'
<1>1. Owner(o)'
  BY OwnerStays, Zenon DEF Apart
<1>2. ASSUME NEW q \in Procs \ {o}, q # p PROVE Beside(q)'
  <2>1. q = "start" => ~ctx'["attach"].alloc
    BY <1>2, Zenon DEF Beside
  <2> QED  BY <1>2, <2>1, BesideStays, Zenon
<1> QED  BY <1>1, <1>2, Zenon DEF Owned

-----------------------------------------------------------------------------
(* Who the owner is, from where somebody stands. *)

\* A start that is not over owns the instance.
LEMMA OwnerStart ==
  ASSUME Owned, pc["start"] # "done"
  PROVE  Owner("start") /\ \A q \in Procs \ {"start"} : Beside(q)
  BY Zenon DEF Owned, Beside, Procs

\* So does a stop that has the lock,
LEMMA OwnerStop ==
  ASSUME Owned, NEW p \in Stoppers, pc[p] \notin {"idle", "lock", "done"}
  PROVE  /\ Ending(p) \/ Stopping(p)
         /\ \A q \in Procs \ {p} : Beside(q)
         /\ ~ctx["attach"].alloc
  BY StoppersAssumption, Zenon DEF Owned, Beside, Procs, Owner

\* and a call whose thread sleeps or was told to run.
LEMMA OwnerThread ==
  ASSUME Owned, NEW p \in Procs, Waiting(p) \/ Called(p)
  PROVE  /\ Owner(p) /\ \A q \in Procs \ {p} : Beside(q)
         /\ p # "start" => ~ctx["attach"].alloc
<1>1. ~Beside(p)
  BY Zenon DEF Beside, Waiting, Called, Absent, Told
<1> QED  BY <1>1, Zenon DEF Owned, Beside, Procs

LEMMA SomeOp == ASSUME op.kind # "none" PROVE op # NoOp
  BY DEF NoOp

\* An OCF operation is under way for the owner only.
LEMMA OwnerOp ==
  ASSUME Owned, op.kind # "none"
  PROVE  /\ op.for \in Procs
         /\ op.kind \in {"attach", "attach ended"} => Attaching
         /\ op.kind \notin {"attach", "attach ended"} => Ending(op.for)
         /\ \A q \in Procs \ {op.for} : Beside(q)
         /\ op.for # "start" => ~ctx["attach"].alloc
<1>1. PICK p \in Procs : Owner(p) /\ \A q \in Procs \ {p} : Beside(q)
  BY Zenon DEF Owned
<1>2. op # NoOp
  BY SomeOp, Zenon
<1>3. \/ Ending(p) /\ op.for = p /\ op.kind \in {"stop", "stop ended", "wake-up"}
      \/ Attaching /\ p = "start" /\ op.for = p /\ op.kind \in {"attach", "attach ended"}
  BY <1>1, <1>2, Zenon DEF Owner, Ending, Halting, Nothing, Creating, Preparing, Attaching, Attached,
     Failed, Up, Running, Stopping
<1> QED  BY <1>1, <1>3, Zenon DEF Beside, Procs

-----------------------------------------------------------------------------
(* The start. *)

\* What is known of the start before it is over.
LEMMA StartRow ==
  ASSUME Owned, pc["start"] # "done"
  PROVE  /\ pc["start"] = "idle" => Nothing
         /\ pc["start"] \in {"create", "not created", "end not created"} => Creating
         /\ pc["start"] \in {"priv", "attach"} => Preparing
         /\ pc["start"] \in {"wait attach", "set attach"} => Attaching \/ Attached
         /\ pc["start"] \in {"finalize", "started", "end started"} => Attached
         /\ pc["start"] = "rollback" => Failed
         /\ pc["start"] \in {"wait rollback", "set rollback"} => Ending("start")
<1>1. Owner("start")
  BY OwnerStart, Zenon
<1>2. CASE Ending("start")
  <2>1. pc["start"] \in {"wait rollback", "set rollback"}
    BY <1>2, Zenon DEF Ending, Answering, Answered, Pending, Waits
  <2> QED  BY <1>2, <2>1, Zenon
<1>3. CASE Nothing \/ Creating \/ Preparing \/ Failed \/ Up
  BY <1>3, Zenon DEF Nothing, Creating, Preparing, Failed, Up
<1>4. CASE Attaching
  <2>1. pc["start"] \in {"wait attach", "set attach"}
    BY <1>4, Zenon DEF Attaching, Pending, Waits
  <2> QED  BY <1>4, <2>1, Zenon
<1>5. CASE Attached
  BY <1>5, Zenon DEF Attached
<1> QED  BY <1>1, <1>2, <1>3, <1>4, <1>5, Zenon DEF Owner

-----------------------------------------------------------------------------
(* The steps of cache_mngt_init_instance keep the invariant. *)

LEMMA StartPrepareKeeps ==
  ASSUME LifeInv, StartPrepare
  PROVE  NoFault' /\ Owned'
<1>1. Nothing /\ pc["start"] = "idle" /\ Absent("start")
  BY StartRow, Zenon DEF LifeInv, StartPrepare, Nothing, Told
<1>2. Apart("start")
  <2>1. /\ UNCHANGED <<refs, flag>>
        /\ pc' = [pc EXCEPT !["start"] = "create"] \/ pc' = [pc EXCEPT !["start"] = "done"]
        /\ lazy' = lazy \/ lazy' = [lazy EXCEPT !["start"] = "check"]
        /\ clt' = clt \/ clt' = [clt EXCEPT !["start"] = "alloc"]
    BY Zenon DEF StartPrepare, Enter, Return, LazyThreadCreated
  <2>2. \A q \in Procs \ {"start"} : pc'[q] = pc[q] /\ flag'[q] = flag[q]
    BY <2>1 DEF LifeInv, Typed, Calls, Threads
  <2>3. \A q \in Procs \ {"start"} : lazy'[q] = lazy[q]
    <3>1. CASE lazy' = lazy
      BY <3>1, Zenon
    <3>2. CASE lazy' = [lazy EXCEPT !["start"] = "check"]
      BY <3>2 DEF LifeInv, Typed, Threads
    <3> QED  BY <2>1, <3>1, <3>2, Zenon
  <2>4. \A q \in Procs \ {"start"} : clt'[q] = clt[q]
    <3>1. CASE clt' = clt
      BY <3>1, Zenon
    <3>2. CASE clt' = [clt EXCEPT !["start"] = "alloc"]
      BY <3>2 DEF LifeInv, Typed, Threads
    <3> QED  BY <2>1, <3>1, <3>2, Zenon
  <2> QED  BY <2>1, <2>2, <2>3, <2>4, Zenon DEF Apart
<1>3. NoFault'
  BY Zenon DEF LifeInv, NoFault, StartPrepare
<1>4. CASE Enter("start", "create")
  <2>1. /\ pc'["start"] = "create" /\ cache' = "none" /\ lock' = {} /\ held' = {"volume"}
        /\ modrefs' = 1 /\ op' = NoOp /\ ctx'["attach"] = FreshContext
        /\ ctx'["stop"] = ctx["stop"]
        /\ lazy'["start"] = "check" /\ clt'["start"] = "alloc" /\ flag'["start"] = "none"
    <3>1. /\ pc' = [pc EXCEPT !["start"] = "create"] /\ flag' = flag
          /\ cache' = cache /\ lock' = lock /\ op' = op
      BY <1>4, Zenon DEF StartPrepare, Enter
    <3>2. pc'["start"] # "done"
      BY <3>1 DEF LifeInv, Typed, Calls, Procs
    <3>3. /\ modrefs' = modrefs + 1 /\ ctx' = [ctx EXCEPT !["attach"] = FreshContext]
          /\ clt' = [clt EXCEPT !["start"] = "alloc"]
          /\ lazy' = [lazy EXCEPT !["start"] = "check"]
          /\ held' = held \cup {"volume"}
      <4>1. ~Return("start", "error")
        BY <3>2 DEF LifeInv, Typed, Calls, Procs, Return, Enter
      <4> QED  BY <4>1, Zenon DEF StartPrepare, LazyThreadCreated
    <3>4. pc'["start"] = "create" /\ flag'["start"] = "none"
      BY <1>1, <3>1 DEF LifeInv, Typed, Calls, Threads, Absent, Procs
    <3>5. lazy'["start"] = "check"
      BY <3>3 DEF LifeInv, Typed, Threads, Procs
    <3>6. clt'["start"] = "alloc"
      BY <3>3 DEF LifeInv, Typed, Threads, Procs
    <3>7. ctx'["attach"] = FreshContext /\ ctx'["stop"] = ctx["stop"]
      BY <3>3 DEF LifeInv, Typed, Records
    <3> QED  BY <1>1, <3>1, <3>3, <3>4, <3>5, <3>6, <3>7 DEF Nothing
  <2>2. Waiting("start")'
    BY <2>1, Zenon DEF Waiting, Sleepy
  <2>3. Creating'
    BY <1>1, <2>1, <2>2, Zenon DEF Creating, Nothing
  <2> QED  BY <1>2, <2>1, <2>3, OwnerSteps, OwnerStart, <1>1, <1>3, Zenon DEF Owner, LifeInv, Procs, Nothing
<1>5. CASE Return("start", "error") /\ UNCHANGED <<modrefs, ctx, clt, lazy, held>>
  <2>1. pc'["start"] = "done" /\ Absent("start")'
    BY <1>1, <1>5 DEF LifeInv, Typed, Calls, StartPrepare, Enter, Return, Absent, Procs
  <2>2. Nothing'
    BY <1>1, <1>5, <2>1, Zenon DEF Nothing, StartPrepare
  <2> QED  BY <1>2, <2>1, <2>2, OwnerSteps, OwnerStart, <1>1, <1>3, Zenon DEF Owner, LifeInv, Procs, Nothing
<1> QED  BY <1>4, <1>5, Zenon DEF StartPrepare

LEMMA StartCacheKeeps ==
  ASSUME LifeInv, StartCache
  PROVE  NoFault' /\ Owned'
<1>1. Creating /\ pc["start"] = "create"
  BY StartRow, Zenon DEF LifeInv, StartCache
<1>2. Apart("start")
  BY DEF LifeInv, Typed, Calls, StartCache, Apart, Enter
<1>3. NoFault'
  BY Zenon DEF LifeInv, NoFault, StartCache
<1>4. /\ pc'["start"] \in {"priv", "not created"}
      /\ Waiting("start")'
  BY <1>1 DEF LifeInv, Typed, Calls, StartCache, Enter, Creating, Waiting, Procs
<1>5. Preparing' \/ Creating'
  <2>1. CASE Enter("start", "priv") /\ cache' = "present" /\ lock' = {"start"}
    <3>1. pc'["start"] = "priv"
      BY <2>1 DEF LifeInv, Typed, Calls, Enter, Procs
    <3> QED  BY <1>1, <1>4, <2>1, <3>1, Zenon DEF StartCache, Creating, Preparing, Locked
  <2>2. CASE Enter("start", "not created") /\ UNCHANGED <<cache, lock>>
    <3>1. pc'["start"] = "not created"
      BY <2>2 DEF LifeInv, Typed, Calls, Enter, Procs
    <3> QED  BY <1>1, <1>4, <2>2, <3>1, Zenon DEF StartCache, Creating
  <2> QED  BY <2>1, <2>2, Zenon DEF StartCache
<1>6. cache # "none" => cache' # "none"
  BY <1>1, Zenon DEF Creating
<1> QED  BY <1>1, <1>2, <1>3, <1>5, <1>6, OwnerSteps, OwnerStart, Zenon DEF Owner, LifeInv, Procs

LEMMA StartPrivKeeps ==
  ASSUME LifeInv, StartPriv
  PROVE  NoFault' /\ Owned'
<1>1. Preparing /\ pc["start"] = "priv" /\ held = {"volume"}
  BY StartRow, Zenon DEF LifeInv, StartPriv, Preparing
<1>2. Apart("start")
  BY DEF LifeInv, Typed, Calls, StartPriv, Apart, Enter
<1>3. NoFault'
  BY Zenon DEF LifeInv, NoFault, StartPriv
<1>4. Waiting("start")' /\ Locked'
  BY <1>1, Zenon DEF StartPriv, Preparing, Waiting, Locked
<1>5. ctx'["attach"] = ctx["attach"]
  BY DEF LifeInv, Typed, Records, StartPriv
<1>6. Preparing' \/ Failed'
  <2>1. CASE /\ Enter("start", "attach") /\ held' = held \cup {"priv", "queue"}
             /\ ctx' = [ctx EXCEPT !["stop"] = FreshContext]
    <3>1. pc'["start"] = "attach" /\ held' = {"volume", "priv", "queue"} /\ ctx'["stop"].alloc
      BY <1>1, <2>1 DEF LifeInv, Typed, Records, Calls, Enter, Procs, FreshContext, NoContext
    <3> QED  BY <1>1, <1>4, <1>5, <3>1, Zenon DEF StartPriv, Preparing
  <2>2. CASE Enter("start", "rollback") /\ held' \in {{}, {"priv"}}
    <3>1. pc'["start"] = "rollback" /\ held' \subseteq {"priv", "queue", "cls"}
      BY <2>2 DEF LifeInv, Typed, Calls, Enter, Procs
    <3>2. ctx'["attach"].alloc /\ op' = NoOp
      BY <1>1, <1>5 DEF Preparing, StartPriv, FreshContext, NoContext
    <3> QED  BY <1>4, <3>1, <3>2, Zenon DEF Failed
  <2>3. \/ /\ Enter("start", "attach") /\ held' = held \cup {"priv", "queue"}
           /\ ctx' = [ctx EXCEPT !["stop"] = FreshContext]
        \/ Enter("start", "rollback") /\ held' \in {{}, {"priv"}}
    BY <1>1 DEF StartPriv
  <2> QED  BY <2>1, <2>2, <2>3, Zenon
<1>7. cache' = cache
  BY Zenon DEF StartPriv
<1> QED  BY <1>1, <1>2, <1>3, <1>6, <1>7, OwnerSteps, OwnerStart, Zenon DEF Owner, LifeInv, Procs

LEMMA StartAttachKeeps ==
  ASSUME LifeInv, StartAttach
  PROVE  NoFault' /\ Owned'
<1>1. Preparing /\ pc["start"] = "attach"
  BY StartRow, Zenon DEF LifeInv, StartAttach
<1>2. Apart("start")
  BY DEF LifeInv, Typed, Calls, StartAttach, Apart, Enter
<1>3. NoFault'
  BY Zenon DEF LifeInv, NoFault, StartAttach
<1>4. Waiting("start")' /\ Locked'
  BY <1>1, Zenon DEF StartAttach, Preparing, Waiting, Locked
<1>5. pc'["start"] = "wait attach" /\ op'.kind = "attach" /\ op'.for = "start"
  BY DEF LifeInv, Typed, Records, Calls, StartAttach, Enter, Procs
<1>6. Pending("start", "attach")'
  <2>1. ctx["attach"].alloc /\ ctx["attach"].result = "none" /\ ~ctx["attach"].cmpl
    BY <1>1 DEF Preparing, FreshContext, NoContext
  <2> QED  BY <1>5, <2>1, Zenon DEF Pending, Waits, Ctx, StartAttach
<1>7. Attaching'
  BY <1>1, <1>4, <1>5, <1>6, Zenon DEF Attaching, Preparing, StartAttach
<1>8. cache' = cache
  BY Zenon DEF StartAttach
<1> QED  BY <1>1, <1>2, <1>3, <1>7, <1>8, OwnerSteps, OwnerStart, Zenon DEF Owner, LifeInv, Procs

-----------------------------------------------------------------------------
(* Waits. *)

\* A call that has begun and is not over owns the instance.
LEMMA OwnerBusy ==
  ASSUME Owned, NEW p \in Procs, pc[p] \notin {"idle", "lock", "done"}
  PROVE  /\ Owner(p) /\ \A q \in Procs \ {p} : Beside(q)
         /\ p # "start" => ~ctx["attach"].alloc
<1>1. ~Beside(p)
  BY Zenon DEF Beside
<1> QED  BY <1>1, Zenon DEF Owned, Beside, Procs

\* A call at one of the waits.
LEMMA WaitRow ==
  ASSUME NEW p \in Procs, Owner(p),
         pc[p] \in {"wait attach", "set attach", "wait rollback", "set rollback", "wait stop",
                    "set stop"}
  PROVE  \/ p = "start" /\ pc[p] \in Waits(p, "attach") /\ (Attaching \/ Attached)
         \/ pc[p] \in Waits(p, "stop") /\ Ending(p)
<1>1. CASE Ending(p)
  BY <1>1, Zenon DEF Ending, Answering, Answered, Pending
<1>2. CASE p = "start" /\ Attaching
  BY <1>2, Zenon DEF Attaching, Pending
<1>3. CASE p = "start" /\ Attached
  BY <1>3, Zenon DEF Attached, Waits
<1>4. ~(p = "start" /\ (Nothing \/ Creating \/ Preparing \/ Failed \/ Up))
  BY Zenon DEF Nothing, Creating, Preparing, Failed, Up
<1>5. ~Stopping(p)
  BY Zenon DEF Stopping
<1> QED  BY <1>1, <1>2, <1>3, <1>4, <1>5, Zenon DEF Owner

LEMMA WaitKeeps ==
  ASSUME LifeInv, NEW p \in Procs, Wait(p)
  PROVE  NoFault' /\ Owned'
<1>1. /\ pc[p] \in {"wait attach", "wait rollback", "wait stop"}
      /\ UNCHANGED <<ctx, clt, flag, lazy, cache, lock, refs, held, modrefs, op, misused>>
  BY Zenon DEF Wait
<1>2. /\ pc'[p] = CASE pc[p] = "wait attach" -> "set attach"
                    [] pc[p] = "wait rollback" -> "set rollback"
                    [] OTHER -> "set stop"
      /\ \A q \in Procs \ {p} : pc'[q] = pc[q]
  BY DEF LifeInv, Typed, Calls, Wait, Enter
<1>3. ctx[Ctx(p)].cmpl \/ rc'[p] = "interrupted"
  BY DEF LifeInv, Typed, Records, Calls, Wait
<1>4. Apart(p)
  BY <1>1, <1>2, Zenon DEF Apart
<1>5. Owner(p)
  BY <1>1, OwnerBusy, Zenon DEF LifeInv
<1>6. ASSUME NEW w, pc[p] \in Waits(p, w), Pending(p, w) PROVE Pending(p, w)'
  <2>1. pc'[p] \in Waits(p, w)
    BY <1>1, <1>2, <1>6 DEF Waits
  <2>2. ctx[Ctx(p)].alloc /\ ctx[Ctx(p)].result = "none" /\ ~ctx[Ctx(p)].cmpl
    BY <1>1, <1>6, Zenon DEF Pending
  <2> QED  BY <1>1, <1>3, <2>1, <2>2, Zenon DEF Pending
<1>7. ASSUME p = "start", pc[p] \in Waits(p, "attach"), Attaching PROVE Owner(p)'
  BY <1>1, <1>6, <1>7, Zenon DEF Attaching, Locked, Waiting, Owner
<1>8. ASSUME p = "start", pc[p] \in Waits(p, "attach"), Attached PROVE Owner(p)'
  <2>1. pc["start"] = "wait attach" /\ pc'["start"] = "set attach"
    BY <1>1, <1>2, <1>8 DEF Waits
  <2> QED  BY <1>1, <1>8, <2>1, Zenon DEF Attached, Locked, Waiting, Owner
<1>9. ASSUME pc[p] \in Waits(p, "stop"), Ending(p) PROVE Owner(p)'
  <2>1. Halting(p)' /\ Releasing(p)'
    BY <1>1, <1>9, Zenon DEF Ending, Halting, Releasing, Waiting, Called
  <2>2. Answered(p) => Answered(p)'
    <3>1. pc'[p] \in Waits(p, "stop")
      BY <1>1, <1>2, <1>9 DEF Waits
    <3>2. pc[p] # "done"
      BY <1>1
    <3> QED  BY <1>1, <3>1, <3>2, Zenon DEF Answered
  <2> QED  BY <1>1, <1>6, <1>9, <2>1, <2>2, Zenon DEF Ending, Answering, Owner
<1>10. Owner(p)'
  BY <1>1, <1>5, <1>7, <1>8, <1>9, WaitRow, Zenon
<1> QED  BY <1>1, <1>4, <1>10, OwnerBusy, OwnerSteps, Zenon DEF LifeInv, NoFault

-----------------------------------------------------------------------------
(* The start goes on. *)

LEMMA StartResultKeeps ==
  ASSUME LifeInv, StartResult
  PROVE  NoFault' /\ Owned'
<1>1. pc["start"] = "set attach" /\ (Attaching \/ Attached)
  BY StartRow, Zenon DEF LifeInv, StartResult
<1>2. /\ UNCHANGED <<rc, clt, flag, lazy, cache, lock, refs, held, modrefs, op>>
      /\ misused' = misused \cup UseOf("attach")
  BY Zenon DEF StartResult
<1>3. ctx["attach"].alloc
  BY <1>1, Zenon DEF Attaching, Attached, Pending, Ctx
<1>4. NoFault'
  BY <1>2, <1>3 DEF LifeInv, NoFault, UseOf, Misuse
<1>5. Locked' /\ (Waiting("start")' <=> Waiting("start"))
  BY <1>1, <1>2, Zenon DEF Attaching, Attached, Locked, Waiting
<1>6. Apart("start")
  BY DEF LifeInv, Typed, Calls, StartResult, Apart, Enter, Return
<1>7. CASE Attaching
  <2>1. ctx["attach"].result = "none" /\ ~ctx["attach"].cmpl /\ rc["start"] = "interrupted"
    BY <1>1, <1>7, Zenon DEF Attaching, Pending, Ctx
  <2>2. caller_set_result("start") = "interrupted"
    BY <2>1 DEF caller_set_result, Ctx
  <2>3. /\ ctx' = [ctx EXCEPT !["attach"].result = "interrupted"]
        /\ pc' = [pc EXCEPT !["start"] = "done"]
    BY <2>2, Zenon DEF StartResult, Return, Enter
  <2>4. /\ ctx'["attach"].alloc /\ ctx'["attach"].result = "interrupted"
        /\ ctx'["stop"] = ctx["stop"]
    <3>1. ctx["attach"] \in [alloc : BOOLEAN, cmpl : BOOLEAN,
                              result : {"none", "ok", "error", "interrupted"}]
      BY Zenon DEF LifeInv, Typed, Records
    <3>2. /\ ctx'["attach"] = [ctx["attach"] EXCEPT !.result = "interrupted"]
          /\ ctx'["stop"] = ctx["stop"]
      BY <2>3, Zenon DEF LifeInv, Typed, Records
    <3> QED  BY <1>3, <3>1, <3>2
  <2>5. pc'["start"] = "done"
    BY <2>3 DEF LifeInv, Typed, Calls, Procs
  <2>6. Attaching'
    BY <1>2, <1>5, <1>7, <2>4, <2>5, Zenon DEF Attaching, Pending, Ctx
  <2> QED  BY <1>1, <1>2, <1>4, <1>6, <2>6, OwnerSteps, OwnerStart, Zenon DEF Owner, LifeInv, Procs
<1>8. CASE Attached
  <2>1. /\ ctx["attach"].result = IF cache = "attached" THEN "ok" ELSE "error"
        /\ Waiting("start") /\ held = {"priv", "queue"} /\ ctx["stop"].alloc /\ op = NoOp
    BY <1>1, <1>8, Zenon DEF Attached
  <2>2. caller_set_result("start") = IF cache = "attached" THEN "ok" ELSE "error"
    BY <2>1 DEF caller_set_result, Ctx
  <2>3. /\ ctx' = ctx
        /\ pc' = [pc EXCEPT !["start"] = IF cache = "attached" THEN "finalize" ELSE "rollback"]
    <3>1. caller_set_result("start") # "interrupted"
      BY <2>2
    <3>2. (caller_set_result("start") = "ok") <=> cache = "attached"
      BY <2>2
    <3> QED  BY <3>1, <3>2 DEF StartResult, Enter
  <2>4. pc'["start"] = IF cache = "attached" THEN "finalize" ELSE "rollback"
    BY <2>3 DEF LifeInv, Typed, Calls, Procs
  <2>5. CASE cache = "attached"
    <3>1. Attached'
      BY <1>2, <1>3, <1>5, <2>1, <2>3, <2>4, <2>5, Zenon DEF Attached
    <3> QED  BY <1>1, <1>2, <1>4, <1>6, <3>1, OwnerSteps, OwnerStart, Zenon DEF Owner, LifeInv, Procs
  <2>6. CASE cache # "attached"
    <3>1. held \subseteq {"priv", "queue", "cls"}
      BY <2>1
    <3>2. Failed'
      BY <1>2, <1>3, <1>5, <2>1, <2>3, <2>4, <2>6, <3>1, Zenon DEF Failed
    <3> QED  BY <1>1, <1>2, <1>4, <1>6, <3>2, OwnerSteps, OwnerStart, Zenon DEF Owner, LifeInv, Procs
  <2> QED  BY <2>5, <2>6
<1> QED  BY <1>1, <1>7, <1>8

LEMMA StartFinalizeKeeps ==
  ASSUME LifeInv, StartFinalize
  PROVE  NoFault' /\ Owned'
<1>1. Attached /\ pc["start"] = "finalize"
  BY StartRow, Zenon DEF LifeInv, StartFinalize
<1>2. UNCHANGED <<ret, rc, ctx, clt, flag, lazy, cache, lock, refs, modrefs, op, misused>>
  BY Zenon DEF StartFinalize
<1>3. Apart("start")
  BY DEF LifeInv, Typed, Calls, StartFinalize, Apart, Enter
<1>4. /\ held = {"priv", "queue"} /\ cache = "attached" /\ Waiting("start") /\ Locked
      /\ op = NoOp /\ ctx["attach"].alloc /\ ctx["stop"].alloc
  BY <1>1, Zenon DEF Attached
<1>5. Locked' /\ Waiting("start")'
  BY <1>2, <1>4, Zenon DEF Locked, Waiting
<1>6. \/ pc'["start"] = "started" /\ held' = {"priv", "queue", "cls"}
      \/ pc'["start"] = "rollback" /\ held' \subseteq {"priv", "queue", "cls"}
  <2>1. \/ pc' = [pc EXCEPT !["start"] = "started"] /\ held' = held \cup {"cls"}
        \/ /\ pc' = [pc EXCEPT !["start"] = "rollback"]
           /\ held' = held \/ held' = held \cup {"cls"}
    BY Zenon DEF StartFinalize, Enter
  <2>2. /\ held \cup {"cls"} = {"priv", "queue", "cls"}
        /\ held \subseteq {"priv", "queue", "cls"}
    BY <1>4
  <2>3. ASSUME NEW l, pc' = [pc EXCEPT !["start"] = l] PROVE pc'["start"] = l
    BY <2>3 DEF LifeInv, Typed, Calls, Procs
  <2> QED  BY <2>1, <2>2, <2>3, Zenon
<1>7. Attached' \/ Failed'
  BY <1>2, <1>4, <1>5, <1>6, Zenon DEF Attached, Failed
<1> QED  BY <1>1, <1>2, <1>3, <1>7, OwnerSteps, OwnerStart, Zenon DEF Owner, LifeInv, Procs, NoFault

\* A call that tells its thread to end.
LEMMA EndRow ==
  ASSUME NEW p \in Procs, Owner(p), pc[p] \in {"started", "not created", "busy"}
  PROVE  \/ p = "start" /\ pc[p] = "started" /\ Attached
         \/ p = "start" /\ pc[p] = "not created" /\ Creating
         \/ p # "start" /\ pc[p] = "busy" /\ Stopping(p)
<1>1. ~Ending(p)
  BY Zenon DEF Ending, Answering, Answered, Pending, Waits
<1>2. ~(p = "start" /\ (Nothing \/ Preparing \/ Failed \/ Up))
  BY Zenon DEF Nothing, Preparing, Failed, Up
<1>3. ~(p = "start" /\ Attaching)
  BY Zenon DEF Attaching, Pending, Waits
<1>4. p = "start" /\ Creating => pc[p] = "not created"
  BY Zenon DEF Creating
<1>5. p = "start" /\ Attached => pc[p] = "started"
  BY Zenon DEF Attached
<1>6. Stopping(p) => pc[p] = "busy"
  BY Zenon DEF Stopping
<1> QED  BY <1>1, <1>2, <1>3, <1>4, <1>5, <1>6, Zenon DEF Owner

LEMMA EndThreadKeeps ==
  ASSUME LifeInv, NEW p \in Procs, EndThread(p)
  PROVE  NoFault' /\ Owned'
<1>1. /\ pc[p] \in {"started", "not created", "busy"}
      /\ UNCHANGED <<ret, rc, ctx, clt, lazy, cache, lock, refs, held, modrefs, op, misused>>
  BY Zenon DEF EndThread
<1>2. /\ pc'[p] = CASE pc[p] = "started" -> "end started"
                    [] pc[p] = "not created" -> "end not created"
                    [] OTHER -> "end busy"
      /\ \A q \in Procs \ {p} : pc'[q] = pc[q]
  BY DEF LifeInv, Typed, Calls, EndThread, Enter
<1>3. flag'[p] = "stop" /\ \A q \in Procs \ {p} : flag'[q] = flag[q]
  BY DEF LifeInv, Typed, Threads, EndThread, SetFlag
<1>4. Apart(p)
  BY <1>1, <1>2, <1>3, Zenon DEF Apart
<1>5. Owner(p)
  BY <1>1, OwnerBusy, Zenon DEF LifeInv
<1>6. Waiting(p) => Told(p)'
  BY <1>1, <1>3, Zenon DEF Waiting, Told
<1>7. ASSUME p = "start", pc[p] = "started", Attached PROVE Owner(p)'
  <2>1. pc'["start"] = "end started"
    BY <1>2, <1>7
  <2>2. Told("start")'
    BY <1>6, <1>7, Zenon DEF Attached
  <2> QED  BY <1>1, <1>7, <2>1, <2>2, Zenon DEF Attached, Locked, Owner
<1>8. ASSUME p = "start", pc[p] = "not created", Creating PROVE Owner(p)'
  <2>1. pc'["start"] = "end not created"
    BY <1>2, <1>8
  <2>2. Told("start")'
    BY <1>6, <1>8, Zenon DEF Creating
  <2> QED  BY <1>1, <1>8, <2>1, <2>2, Zenon DEF Creating, Owner
<1>9. ASSUME p # "start", pc[p] = "busy", Stopping(p) PROVE Owner(p)'
  <2>1. pc'[p] = "end busy"
    BY <1>2, <1>9
  <2>2. Told(p)'
    BY <1>6, <1>9, Zenon DEF Stopping
  <2> QED  BY <1>1, <1>9, <2>1, <2>2, Zenon DEF Stopping, Running, Owner
<1>10. Owner(p)'
  BY <1>1, <1>5, <1>7, <1>8, <1>9, EndRow, Zenon
<1> QED  BY <1>1, <1>4, <1>10, OwnerBusy, OwnerSteps, Zenon DEF LifeInv, NoFault

\* A wake-up leaves the thread where it is but for its sleep.
LEMMA WakeUpStays ==
  ASSUME Typed, NoFault, NEW p \in Procs, WakeUp(p), UNCHANGED <<clt, flag>>
  PROVE  /\ Told(p) => Told(p)'
         /\ Called(p) => Called(p)'
         /\ lazy[p] \in {"run", "tell", "done"} => lazy'[p] = lazy[p]
         /\ lazy[p] \notin {"run", "tell", "done"} => lazy'[p] \notin {"run", "tell", "done"}
         /\ \A q \in Procs \ {p} : lazy'[q] = lazy[q]
         /\ NoFault'
<1>1. /\ lazy'[p] = IF lazy[p] \in {"queued", "asleep"} THEN "check" ELSE lazy[p]
      /\ \A q \in Procs \ {p} : lazy'[q] = lazy[q]
  BY DEF Typed, Threads, WakeUp
<1>2. NoFault'
  BY DEF NoFault, WakeUp, Misuse
<1>3. (Told(p) => Told(p)') /\ (Called(p) => Called(p)')
  BY <1>1 DEF Told, Called, Sleepy
<1> QED  BY <1>1, <1>2, <1>3

LEMMA StartEndKeeps ==
  ASSUME LifeInv, StartEnd
  PROVE  NoFault' /\ Owned'
<1>1. /\ pc["start"] \in {"end started", "end not created"}
      /\ UNCHANGED <<rc, clt, flag, cache, refs, op>> /\ WakeUp("start")
      /\ ctx' = [ctx EXCEPT !["attach"] = NoContext]
      /\ pc' = [pc EXCEPT !["start"] = "done"]
  BY Zenon DEF StartEnd, Return, Enter
<1>2. pc'["start"] = "done" /\ \A q \in Procs \ {"start"} : pc'[q] = pc[q]
  BY <1>1 DEF LifeInv, Typed, Calls, Procs
<1>3. ~ctx'["attach"].alloc /\ ctx'["stop"] = ctx["stop"]
  BY <1>1 DEF LifeInv, Typed, Records, NoContext
<1>4. /\ NoFault' /\ (Told("start") => Told("start")')
      /\ \A q \in Procs \ {"start"} : lazy'[q] = lazy[q]
  BY <1>1, WakeUpStays, Zenon DEF LifeInv, Procs
<1>5. Apart("start")
  BY <1>1, <1>2, <1>4, Zenon DEF Apart
<1>6. Up' \/ Nothing'
  <2>1. CASE pc["start"] = "end started"
    <3>1. Attached /\ Told("start")
      BY <2>1, StartRow, Zenon DEF LifeInv, Attached
    <3>2. lock' = {} /\ UNCHANGED <<held, modrefs>>
      BY <2>1, <3>1 DEF StartEnd, Attached, Locked
    <3>3. Running'
      BY <1>1, <1>3, <2>1, <3>1, <3>2, Zenon DEF Running, Attached, Locked
    <3> QED  BY <1>2, <1>4, <3>1, <3>2, <3>3, Zenon DEF Up
  <2>2. CASE pc["start"] = "end not created"
    <3>1. Creating /\ Told("start")
      BY <2>2, StartRow, Zenon DEF LifeInv, Creating
    <3>2. lock' = {} /\ held' = {} /\ modrefs' = 0
      <4>1. lock' = lock /\ held' = held \ {"volume"} /\ modrefs' = modrefs - 1
        BY <2>2 DEF StartEnd
      <4>2. lock = {} /\ held = {"volume"} /\ modrefs = 1
        BY <3>1, Zenon DEF Creating
      <4> QED  BY <4>1, <4>2
    <3> QED  BY <1>1, <1>2, <1>3, <1>4, <3>1, <3>2, Zenon DEF Nothing, Creating
  <2> QED  BY <1>1, <2>1, <2>2, Zenon
<1> QED  BY <1>1, <1>4, <1>5, <1>6, OwnerSteps, OwnerStart, Zenon DEF Owner, LifeInv, Procs

LEMMA StartRollbackKeeps ==
  ASSUME LifeInv, StartRollback
  PROVE  NoFault' /\ Owned'
<1>1. Failed /\ pc["start"] = "rollback" /\ ctx["attach"].alloc
  BY StartRow, Zenon DEF LifeInv, StartRollback, Failed
<1>2. UNCHANGED <<ret, rc, clt, flag, lazy, cache, lock, refs, held, modrefs>>
  BY Zenon DEF StartRollback
<1>3. NoFault'
  BY <1>1 DEF LifeInv, NoFault, StartRollback, UseOf, Misuse
<1>4. Apart("start") /\ pc'["start"] = "wait rollback"
  BY DEF LifeInv, Typed, Calls, StartRollback, Apart, Enter, Procs
<1>5. /\ ctx'["attach"].alloc /\ ctx'["attach"].result = "none" /\ ~ctx'["attach"].cmpl
      /\ op'.kind = "stop" /\ op'.for = "start"
  BY DEF LifeInv, Typed, Records, StartRollback, FreshContext, NoContext
<1>6. Waiting("start")' /\ lazy'["start"] \notin {"tell", "done"}
  BY <1>1, <1>2, Zenon DEF Failed, Waiting, Sleepy
<1>7. Halting("start")'
  BY <1>1, <1>2, <1>5, <1>6, Zenon DEF Halting, Failed, Locked
<1>8. Releasing("start")'
  BY <1>1, <1>2, <1>6, Zenon DEF Releasing, Failed, Locked
<1>9. Answering("start")'
  BY <1>1, <1>2, <1>4, <1>5, <1>6, Zenon DEF Answering, Pending, Waits, Ctx, Failed, Locked
<1> QED  BY <1>1, <1>2, <1>3, <1>4, <1>7, <1>8, <1>9, OwnerSteps, OwnerStart, Zenon
         DEF Owner, Ending, LifeInv, Procs

LEMMA RollbackResultKeeps ==
  ASSUME LifeInv, RollbackResult
  PROVE  NoFault' /\ Owned'
<1>1. pc["start"] = "set rollback" /\ Ending("start")
  BY StartRow, Zenon DEF LifeInv, RollbackResult
<1>2. /\ UNCHANGED <<rc, clt, flag, lazy, cache, lock, refs, held, modrefs, op>>
      /\ misused' = misused \cup UseOf("attach")
      /\ pc' = [pc EXCEPT !["start"] = "done"]
  BY Zenon DEF RollbackResult, Return, Enter
<1>3. ctx["attach"].alloc
  BY <1>1, Zenon DEF Ending, Answering, Answered, Pending, Ctx
<1>4. NoFault'
  BY <1>2, <1>3 DEF LifeInv, NoFault, UseOf, Misuse
<1>5. pc'["start"] = "done" /\ \A q \in Procs \ {"start"} : pc'[q] = pc[q]
  BY <1>2 DEF LifeInv, Typed, Calls, Procs
<1>6. Apart("start")
  BY <1>2, <1>5, Zenon DEF Apart
<1>7. Halting("start")'
  BY <1>1, <1>2, Zenon DEF Ending, Halting, Waiting, Called
<1>8. ctx["attach"] \in [alloc : BOOLEAN, cmpl : BOOLEAN,
                         result : {"none", "ok", "error", "interrupted"}]
  BY Zenon DEF LifeInv, Typed, Records
<1>9. ctx'["stop"] = ctx["stop"]
  BY Zenon DEF LifeInv, Typed, Records, RollbackResult
<1>10. Releasing("start")'
  BY <1>1, <1>2, <1>9, Zenon DEF Ending, Releasing
<1>11. Answering("start")'
  <2>1. CASE lazy["start"] = "done"
    <3>1. ctx["attach"].result \in {"ok", "error"} /\ modrefs = 0
      BY <1>1, <2>1, Zenon DEF Ending, Answering, Answered, Ctx
    <3>2. caller_set_result("start") # "interrupted"
      BY <3>1 DEF caller_set_result, Ctx
    <3>3. ctx'["attach"] = NoContext
      BY <3>2, Zenon DEF LifeInv, Typed, Records, RollbackResult
    <3>4. ~ctx'["attach"].alloc
      BY <3>3 DEF NoContext
    <3> QED  BY <1>2, <1>5, <2>1, <3>1, <3>4, Zenon DEF Answering, Answered, Ctx
  <2>2. CASE lazy["start"] # "done"
    <3>1. ctx["attach"].result = "none" /\ modrefs = 1 /\ rc["start"] = "interrupted"
      BY <1>1, <2>2, Zenon DEF Ending, Answering, Pending, Ctx
    <3>2. caller_set_result("start") = "interrupted"
      BY <3>1 DEF caller_set_result, Ctx
    <3>3. ctx'["attach"] = [ctx["attach"] EXCEPT !.result = "interrupted"]
      BY <3>2, Zenon DEF LifeInv, Typed, Records, RollbackResult
    <3>4. ctx'["attach"].alloc /\ ctx'["attach"].result = "interrupted"
      BY <1>3, <1>8, <3>3
    <3> QED  BY <1>2, <1>5, <2>2, <3>1, <3>4, Zenon DEF Answering, Pending, Ctx
  <2> QED  BY <2>1, <2>2
<1> QED  BY <1>1, <1>2, <1>4, <1>6, <1>7, <1>10, <1>11, OwnerSteps, OwnerStart, Zenon
         DEF Owner, Ending, LifeInv, Procs

-----------------------------------------------------------------------------
(* The stops. *)

-----------------------------------------------------------------------------
(* So do the steps of cache_mngt_exit_instance ... *)

\* A stop that has not got the lock or is over is nobody's business.
LEMMA StopBeside ==
  ASSUME Owned, NEW p \in Stoppers, pc[p] \in {"idle", "lock"}
  PROVE  \E o \in Procs \ {p} : Owner(o) /\ \A q \in Procs \ {o} : Beside(q)
<1>1. p # "start"
  BY StoppersAssumption
<1>2. ~Owner(p)
  BY <1>1, Zenon DEF Owner, Ending, Answering, Answered, Pending, Waits, Stopping
<1> QED  BY <1>2, Zenon DEF Owned

LEMMA StopGetKeeps ==
  ASSUME LifeInv, NEW p \in Stoppers, StopGet(p)
  PROVE  NoFault' /\ Owned'
<1>0. p \in Procs /\ p # "start"
  BY StoppersAssumption, Zenon DEF Procs
<1>1. PICK o \in Procs \ {p} : Owner(o) /\ \A q \in Procs \ {o} : Beside(q)
  BY StopBeside, Zenon DEF LifeInv, StopGet
<1>2. UNCHANGED <<rc, ctx, clt, flag, lazy, cache, lock, held, modrefs, op, misused>>
  BY Zenon DEF StopGet
<1>3. Beside(p) /\ pc[p] = "idle"
  BY <1>0, <1>1, Zenon DEF StopGet
<1>4. /\ Apart(p)
      /\ \/ pc'[p] = "lock" /\ p \in refs' /\ cache # "none"
         \/ pc'[p] = "done" /\ p \notin refs'
  <2>1. CASE Enter(p, "lock") /\ refs' = refs \cup {p} /\ cache \in {"present", "attached"}
    BY <1>0, <1>2, <2>1 DEF LifeInv, Typed, Calls, Enter, Apart
  <2>2. CASE Return(p, "error") /\ refs' = refs
    <3>1. p \notin refs
      BY <1>0, <1>3, Zenon DEF Beside
    <3> QED  BY <1>0, <1>2, <2>2, <3>1 DEF LifeInv, Typed, Calls, Enter, Return, Apart
  <2> QED  BY <2>1, <2>2, Zenon DEF StopGet
<1>5. Absent(p)'
  BY <1>0, <1>2, <1>3, Zenon DEF Beside, Absent
<1>6. Beside(p)'
  BY <1>0, <1>2, <1>4, <1>5, Zenon DEF Beside
<1> QED  BY <1>0, <1>1, <1>2, <1>4, <1>6, OtherSteps, Zenon DEF LifeInv, NoFault

LEMMA StopLockKeeps ==
  ASSUME LifeInv, NEW p \in Stoppers, StopLock(p)
  PROVE  NoFault' /\ Owned'
<1>0. p \in Procs /\ p # "start"
  BY StoppersAssumption, Zenon DEF Procs
<1>1. PICK o \in Procs \ {p} : Owner(o) /\ \A q \in Procs \ {o} : Beside(q)
  BY StopBeside, Zenon DEF LifeInv, StopLock
<1>2. UNCHANGED <<rc, ctx, clt, flag, lazy, cache, held, modrefs, op, misused>>
  BY Zenon DEF StopLock
<1>3. Beside(p) /\ pc[p] = "lock" /\ p \in refs /\ cache # "none"
  BY <1>0, <1>1, Zenon DEF StopLock, Beside
<1>4. CASE /\ cache # "removed" /\ lock = {} /\ Enter(p, "prepare") /\ lock' = {p}
           /\ refs' = refs
  <2>1. Up /\ o = "start"
    <3>1. ~Ending(o)
      BY <1>4, Zenon DEF Ending, Halting, Releasing, Waiting, Sleepy
    <3>2. ~Stopping(o)
      BY <1>4 DEF Stopping
    <3>3. ~Nothing /\ ~Creating
      BY <1>3, Zenon DEF Nothing, Creating
    <3>4. ~Locked
      BY <1>4 DEF Locked
    <3> QED  BY <1>1, <3>1, <3>2, <3>3, <3>4, Zenon DEF Owner, Preparing, Attaching, Attached,
             Failed
  <2>2. pc'[p] = "prepare" /\ \A q \in Procs \ {p} : pc'[q] = pc[q]
    BY <1>0, <1>4 DEF LifeInv, Typed, Calls, Enter
  <2>3. Apart(p)
    BY <1>2, <1>4, <2>2, Zenon DEF Apart
  <2>4. Running' /\ ~ctx'["attach"].alloc
    BY <1>2, <2>1, Zenon DEF Up, Running
  <2>5. Absent(p)'
    BY <1>0, <1>2, <1>3, Zenon DEF Beside, Absent
  <2>6. Owner(p)'
    BY <1>0, <1>3, <1>4, <2>2, <2>4, <2>5, Zenon DEF Owner, Stopping
  <2>7. ASSUME NEW q \in Procs \ {p} PROVE Beside(q)
    <3>1. CASE q = "start"
      BY <2>1, <3>1, Zenon DEF Up, Running, Beside
    <3>2. CASE q # "start"
      BY <1>1, <2>1, <2>7, <3>2, Zenon
    <3> QED  BY <3>1, <3>2
  <2> QED  BY <1>0, <1>2, <2>3, <2>4, <2>6, <2>7, OwnerSteps, Zenon DEF LifeInv, NoFault
<1>5. CASE Return(p, "error") /\ refs' = refs \ {p} /\ lock' = lock
  <2>1. Apart(p) /\ pc'[p] = "done" /\ p \notin refs'
    BY <1>0, <1>2, <1>5 DEF LifeInv, Typed, Calls, Enter, Return, Apart
  <2>2. Absent(p)' \/ Told(p)'
    BY <1>2, <1>3, Zenon DEF Beside, Absent, Told
  <2>3. Beside(p)'
    BY <1>0, <2>1, <2>2, Zenon DEF Beside
  <2> QED  BY <1>0, <1>1, <1>2, <1>5, <2>1, <2>3, OtherSteps, Zenon DEF LifeInv, NoFault
<1> QED  BY <1>4, <1>5, Zenon DEF StopLock

\* Where a stop that has begun stands.
LEMMA StopRow ==
  ASSUME Owned, NEW p \in Stoppers, pc[p] \notin {"idle", "lock", "done"}
  PROVE  /\ p \in Procs /\ p # "start"
         /\ pc[p] \in {"prepare", "exp objs", "busy", "end busy"} => Stopping(p)
         /\ pc[p] \in {"wait stop", "set stop"} => Ending(p)
         /\ \A q \in Procs \ {p} : Beside(q)
         /\ Beside("start") /\ ~ctx["attach"].alloc
<1>1. p \in Procs /\ p # "start"
  BY StoppersAssumption, Zenon DEF Procs
<1>2. Ending(p) => pc[p] \in {"wait stop", "set stop", "done"}
  BY <1>1, Zenon DEF Ending, Answering, Answered, Pending, Waits
<1>3. Stopping(p) => pc[p] \in {"prepare", "exp objs", "busy", "end busy"}
  BY Zenon DEF Stopping
<1> QED  BY <1>1, <1>2, <1>3, OwnerStop, Zenon DEF Procs

\* A stop that is given up leaves the cache as it was.
LEMMA GivenUp ==
  ASSUME Owned, NEW p \in Stoppers, Stopping(p), pc[p] \notin {"idle", "lock", "done"},
         Apart(p), pc'[p] = "done", p \notin refs', Absent(p)' \/ Told(p)', lock' = {},
         UNCHANGED <<ctx, cache, held, modrefs, op>>
  PROVE  Owned'
<1>1. Up'
  <2>1. Beside("start") /\ p # "start"
    BY StopRow, Zenon
  <2>2. pc["start"] = "done" /\ Told("start")
    BY <2>1, Zenon DEF Beside
  <2> QED  BY <2>1, <2>2, Zenon DEF Up, Running, Stopping, Apart, Told, Procs
<1>2. Beside(p)'
  BY StopRow, Zenon DEF Beside
<1>3. ASSUME NEW q \in Procs \ {"start"}, q # p PROVE Beside(q)'
  BY <1>3, StopRow, BesideStays, Zenon
<1>4. Owner("start")' /\ \A q \in Procs \ {"start"} : Beside(q)'
  BY <1>1, <1>2, <1>3, Zenon DEF Owner
<1> QED  BY <1>4, Zenon DEF Owned, Procs

LEMMA StopPrepareKeeps ==
  ASSUME LifeInv, NEW p \in Stoppers, StopPrepare(p)
  PROVE  NoFault' /\ Owned'
<1>1. pc[p] = "prepare" /\ UNCHANGED <<rc, ctx, flag, cache, held, modrefs, op>>
  BY Zenon DEF StopPrepare
<1>2. /\ p \in Procs /\ p # "start" /\ Stopping(p) /\ ~ctx["attach"].alloc
      /\ \A q \in Procs \ {p} : Beside(q)
  BY <1>1, StopRow, Zenon DEF LifeInv
<1>3. Running /\ Absent(p) /\ lock = {p} /\ p \in refs
  BY <1>1, <1>2, Zenon DEF Stopping
<1>4. NoFault'
  <2>1. ctx["stop"].alloc /\ "priv" \in held
    BY <1>3 DEF Running
  <2>2. misused' = misused \cup UseOf("stop") \cup Misuse("priv", "priv" \notin held)
    BY Zenon DEF StopPrepare
  <2> QED  BY <2>1, <2>2 DEF LifeInv, NoFault, UseOf, Misuse
<1>5. CASE Enter(p, "exp objs") /\ LazyThreadCreated(p) /\ UNCHANGED <<lock, refs>>
  <2>1. pc'[p] = "exp objs" /\ \A q \in Procs \ {p} : pc'[q] = pc[q]
    BY <1>2, <1>5 DEF LifeInv, Typed, Calls, Enter
  <2>2. lazy'[p] = "check" /\ \A q \in Procs \ {p} : lazy'[q] = lazy[q]
    BY <1>2, <1>5 DEF LifeInv, Typed, Threads, LazyThreadCreated
  <2>3. clt'[p] = "alloc" /\ \A q \in Procs \ {p} : clt'[q] = clt[q]
    BY <1>2, <1>5 DEF LifeInv, Typed, Threads, LazyThreadCreated
  <2>4. Apart(p)
    BY <1>1, <1>5, <2>1, <2>2, <2>3, Zenon DEF Apart
  <2>5. Waiting(p)'
    BY <1>1, <1>3, <2>2, <2>3, Zenon DEF Waiting, Absent, Sleepy
  <2>6. Stopping(p)'
    BY <1>1, <1>3, <1>5, <2>1, <2>5, Zenon DEF Stopping, Running
  <2> QED  BY <1>1, <1>2, <1>4, <2>4, <2>6, OwnerSteps, Zenon DEF Owner
<1>6. CASE /\ Return(p, "error") /\ lock' = lock \ {p} /\ refs' = refs \ {p}
           /\ UNCHANGED <<clt, lazy>>
  <2>1. Apart(p) /\ pc'[p] = "done" /\ p \notin refs' /\ lock' = {}
    BY <1>1, <1>2, <1>3, <1>6 DEF LifeInv, Typed, Calls, Enter, Return, Apart
  <2>2. Absent(p)'
    BY <1>1, <1>3, <1>6, Zenon DEF Absent
  <2> QED  BY <1>1, <1>2, <1>4, <2>1, <2>2, GivenUp, Zenon DEF LifeInv
<1> QED  BY <1>5, <1>6, Zenon DEF StopPrepare

LEMMA StopExpObjsKeeps ==
  ASSUME LifeInv, NEW p \in Stoppers, StopExpObjs(p)
  PROVE  NoFault' /\ Owned'
<1>1. /\ pc[p] = "exp objs"
      /\ UNCHANGED <<ret, rc, clt, flag, lazy, cache, lock, refs, held, modrefs, misused>>
  BY Zenon DEF StopExpObjs
<1>2. /\ p \in Procs /\ p # "start" /\ Stopping(p) /\ ~ctx["attach"].alloc
      /\ \A q \in Procs \ {p} : Beside(q)
  BY <1>1, StopRow, Zenon DEF LifeInv
<1>3. Running /\ Waiting(p) /\ lock = {p} /\ p \in refs
  BY <1>1, <1>2, Zenon DEF Stopping
<1>4. Waiting(p)' /\ lazy'[p] \notin {"tell", "done"}
  BY <1>1, <1>3, Zenon DEF Waiting, Sleepy
<1>5. CASE /\ Enter(p, "wait stop") /\ ctx' = [ctx EXCEPT !["stop"] = FreshContext]
           /\ op' = [kind |-> "stop", for |-> p]
  <2>1. Apart(p) /\ pc'[p] = "wait stop"
    BY <1>1, <1>2, <1>5 DEF LifeInv, Typed, Calls, Enter, Apart
  <2>2. /\ ctx'["stop"].alloc /\ ctx'["stop"].result = "none" /\ ~ctx'["stop"].cmpl
        /\ ctx'["attach"] = ctx["attach"]
    BY <1>5 DEF LifeInv, Typed, Records, FreshContext, NoContext
  <2>3. op'.kind = "stop" /\ op'.for = p
    BY <1>5
  <2>4. Halting(p)'
    BY <1>1, <1>3, <1>4, <2>3, Zenon DEF Halting, Running
  <2>5. Releasing(p)'
    BY <1>1, <1>2, <1>3, <1>4, Zenon DEF Releasing, Running
  <2>6. Answering(p)'
    BY <1>1, <1>2, <1>3, <1>4, <2>1, <2>2, Zenon DEF Answering, Pending, Waits, Ctx, Running
  <2> QED  BY <1>1, <1>2, <2>1, <2>2, <2>4, <2>5, <2>6, OwnerSteps, Zenon
           DEF Owner, Ending, LifeInv, NoFault
<1>6. CASE Enter(p, "busy") /\ UNCHANGED <<ctx, op>>
  <2>1. Apart(p) /\ pc'[p] = "busy"
    BY <1>1, <1>2, <1>6 DEF LifeInv, Typed, Calls, Enter, Apart
  <2>2. Stopping(p)'
    BY <1>1, <1>3, <1>4, <1>6, <2>1, Zenon DEF Stopping, Running
  <2> QED  BY <1>1, <1>2, <1>6, <2>1, <2>2, OwnerSteps, Zenon DEF Owner, LifeInv, NoFault
<1> QED  BY <1>5, <1>6, Zenon DEF StopExpObjs

LEMMA StopGiveUpKeeps ==
  ASSUME LifeInv, NEW p \in Stoppers, StopGiveUp(p)
  PROVE  NoFault' /\ Owned'
<1>1. /\ pc[p] = "end busy" /\ WakeUp(p) /\ lock' = lock \ {p} /\ refs' = refs \ {p}
      /\ pc' = [pc EXCEPT ![p] = "done"]
      /\ UNCHANGED <<rc, ctx, clt, flag, cache, held, modrefs, op>>
  BY Zenon DEF StopGiveUp, Return, Enter
<1>2. p \in Procs /\ Stopping(p)
  BY <1>1, StopRow, Zenon DEF LifeInv
<1>3. Told(p) /\ lock = {p}
  BY <1>1, <1>2, Zenon DEF Stopping
<1>4. /\ NoFault' /\ Told(p)'
      /\ \A q \in Procs \ {p} : lazy'[q] = lazy[q]
  BY <1>1, <1>2, <1>3, WakeUpStays, Zenon DEF LifeInv
<1>5. pc'[p] = "done" /\ \A q \in Procs \ {p} : pc'[q] = pc[q]
  BY <1>1, <1>2 DEF LifeInv, Typed, Calls
<1>6. p \notin refs' /\ (\A q \in Procs \ {p} : q \in refs' <=> q \in refs) /\ lock' = {}
  BY <1>1, <1>3
<1>7. Apart(p)
  BY <1>1, <1>4, <1>5, <1>6, Zenon DEF Apart
<1> QED  BY <1>1, <1>2, <1>4, <1>5, <1>6, <1>7, GivenUp, Zenon DEF LifeInv

LEMMA StopResultKeeps ==
  ASSUME LifeInv, NEW p \in Stoppers, StopResult(p)
  PROVE  NoFault' /\ Owned'
<1>1. /\ pc[p] = "set stop"
      /\ UNCHANGED <<rc, clt, flag, lazy, cache, lock, refs, held, modrefs, op>>
      /\ misused' = misused \cup UseOf("stop")
      /\ pc' = [pc EXCEPT ![p] = "done"]
  BY Zenon DEF StopResult, Return, Enter
<1>2. /\ p \in Procs /\ p # "start" /\ Ending(p) /\ ~ctx["attach"].alloc
      /\ \A q \in Procs \ {p} : Beside(q)
  BY <1>1, StopRow, Zenon DEF LifeInv
<1>3. Ctx(p) = "stop" /\ ctx["stop"].alloc
  BY <1>1, <1>2, Zenon DEF Ending, Answering, Answered, Pending, Ctx
<1>4. NoFault'
  BY <1>1, <1>3 DEF LifeInv, NoFault, UseOf, Misuse
<1>5. pc'[p] = "done" /\ \A q \in Procs \ {p} : pc'[q] = pc[q]
  BY <1>1, <1>2 DEF LifeInv, Typed, Calls
<1>6. Apart(p)
  BY <1>1, <1>5, Zenon DEF Apart
<1>7. Halting(p)'
  BY <1>1, <1>2, Zenon DEF Ending, Halting, Waiting, Called
<1>8. ctx["stop"] \in [alloc : BOOLEAN, cmpl : BOOLEAN,
                       result : {"none", "ok", "error", "interrupted"}]
  BY Zenon DEF LifeInv, Typed, Records
<1>9. ctx'["attach"] = ctx["attach"]
  BY Zenon DEF LifeInv, Typed, Records, StopResult
<1>10. Releasing(p)'
  BY <1>1, <1>2, Zenon DEF Ending, Releasing
<1>11. Answering(p)'
  <2>1. CASE lazy[p] = "done"
    <3>1. ctx["stop"].result \in {"ok", "error"} /\ modrefs = 0
      BY <1>1, <1>2, <1>3, <2>1, Zenon DEF Ending, Answering, Answered
    <3>2. caller_set_result(p) # "interrupted"
      BY <1>3, <3>1 DEF caller_set_result
    <3>3. ctx'["stop"] = NoContext
      BY <3>2, Zenon DEF LifeInv, Typed, Records, StopResult
    <3>4. ~ctx'["stop"].alloc
      BY <3>3 DEF NoContext
    <3> QED  BY <1>1, <1>3, <1>5, <2>1, <3>1, <3>4, Zenon DEF Answering, Answered
  <2>2. CASE lazy[p] # "done"
    <3>1. ctx["stop"].result = "none" /\ modrefs = 1 /\ rc[p] = "interrupted"
      BY <1>1, <1>2, <1>3, <2>2, Zenon DEF Ending, Answering, Pending
    <3>2. caller_set_result(p) = "interrupted"
      BY <1>3, <3>1 DEF caller_set_result
    <3>3. ctx'["stop"] = [ctx["stop"] EXCEPT !.result = "interrupted"]
      BY <3>2, Zenon DEF LifeInv, Typed, Records, StopResult
    <3>4. ctx'["stop"].alloc /\ ctx'["stop"].result = "interrupted"
      BY <1>3, <1>8, <3>3
    <3> QED  BY <1>1, <1>3, <1>5, <2>2, <3>1, <3>4, Zenon DEF Answering, Pending
  <2> QED  BY <2>1, <2>2
<1> QED  BY <1>1, <1>2, <1>4, <1>6, <1>7, <1>9, <1>10, <1>11, OwnerSteps, Zenon
         DEF Owner, Ending

-----------------------------------------------------------------------------
(* OCF and its completions. *)

-----------------------------------------------------------------------------
(* ... of OCF and its completions ... *)

LEMMA OcfAttachKeeps ==
  ASSUME LifeInv, OcfAttach
  PROVE  NoFault' /\ Owned'
<1>1. /\ op.kind = "attach" /\ cache' \in {cache, "attached"}
      /\ UNCHANGED <<pc, ret, rc, ctx, clt, flag, lazy, lock, refs, held, modrefs, misused>>
  BY Zenon DEF OcfAttach
<1>2. Attaching
  BY <1>1, OwnerOp, Zenon DEF LifeInv
<1>3. op'.kind = "attach ended" /\ op'.for = "start"
  <2>1. op.for = "start"
    BY <1>2, Zenon DEF Attaching
  <2> QED  BY <2>1 DEF OcfAttach, LifeInv, Typed, Records
<1>4. Waiting("start")' /\ Pending("start", "attach")'
  BY <1>1, <1>2, Zenon DEF Attaching, Waiting, Pending
<1>5. Attaching'
  BY <1>1, <1>2, <1>3, <1>4, Zenon DEF Attaching, Locked
<1>6. Apart("start") /\ (cache # "none" => cache' # "none")
  BY <1>1, Zenon DEF Apart
<1>7. op.for = "start" /\ \A q \in Procs \ {"start"} : Beside(q)
  BY <1>1, <1>2, OwnerOp, Zenon DEF LifeInv, Attaching
<1> QED  BY <1>1, <1>5, <1>6, <1>7, OwnerSteps, Zenon DEF Owner, LifeInv, NoFault, Procs

LEMMA StartCompleteKeeps ==
  ASSUME LifeInv, start_complete
  PROVE  NoFault' /\ Owned'
<1> DEFINE c == callee_set_result("attach", cache # "attached")
<1>1. /\ op.kind = "attach ended" /\ held' = held \ {"volume"}
      /\ ctx' = [ctx EXCEPT !["attach"] = c]
      /\ op' = IF c.result = "interrupted" THEN [kind |-> "stop", for |-> "start"] ELSE NoOp
      /\ misused' = misused \cup UseOf("attach")
      /\ UNCHANGED <<pc, ret, rc, clt, flag, lazy, cache, lock, refs, modrefs>>
  BY Zenon DEF start_complete
<1>2. Attaching /\ op.for = "start" /\ \A q \in Procs \ {"start"} : Beside(q)
  BY <1>1, OwnerOp, Zenon DEF LifeInv, Attaching
<1>3. ctx["attach"] \in [alloc : BOOLEAN, cmpl : BOOLEAN,
                         result : {"none", "ok", "error", "interrupted"}]
  BY Zenon DEF LifeInv, Typed, Records
<1>4. ctx["attach"].alloc
  BY <1>2, Zenon DEF Attaching, Pending, Ctx
<1>5. /\ c.alloc /\ c.cmpl
      /\ ctx["attach"].result = "interrupted" => c.result = "interrupted"
      /\ ctx["attach"].result = "none" =>
            c.result = IF cache = "attached" THEN "ok" ELSE "error"
  BY <1>3, <1>4 DEF callee_set_result
<1> HIDE DEF c
<1>6. ctx'["attach"] = c /\ ctx'["stop"] = ctx["stop"]
  BY <1>1, Zenon DEF LifeInv, Typed, Records
<1>7. NoFault'
  BY <1>1, <1>4 DEF LifeInv, NoFault, UseOf, Misuse
<1>8. Apart("start")
  BY <1>1, Zenon DEF Apart
<1>9. held' = {"priv", "queue"} /\ held' \subseteq {"priv", "queue", "cls"}
  <2>1. held = {"volume", "priv", "queue"}
    BY <1>2, Zenon DEF Attaching
  <2> QED  BY <1>1, <2>1
<1>10. Locked' /\ Waiting("start")' /\ lazy'["start"] \notin {"tell", "done"}
  BY <1>1, <1>2, Zenon DEF Attaching, Locked, Waiting, Sleepy
<1>11. CASE pc["start"] = "done"
  <2>1. c.result = "interrupted"
    BY <1>2, <1>5, <1>11, Zenon DEF Attaching, Pending, Ctx, Waits
  <2>2. op'.kind = "stop" /\ op'.for = "start"
    BY <1>1, <2>1
  <2>3. Halting("start")'
    BY <1>10, <2>2, Zenon DEF Halting, Locked
  <2>4. Releasing("start")'
    BY <1>9, <1>10, Zenon DEF Releasing, Locked
  <2>5. Answering("start")'
    BY <1>1, <1>5, <1>6, <1>10, <1>11, <2>1, Zenon DEF Answering, Pending, Ctx, Locked
  <2> QED  BY <1>1, <1>2, <1>7, <1>8, <2>3, <2>4, <2>5, OwnerSteps, Zenon
           DEF Owner, Ending, Procs
<1>12. CASE pc["start"] # "done"
  <2>1. /\ pc["start"] \in {"wait attach", "set attach"}
        /\ c.result = IF cache = "attached" THEN "ok" ELSE "error"
    BY <1>2, <1>5, <1>12, Zenon DEF Attaching, Pending, Ctx, Waits
  <2>2. op' = NoOp
    BY <1>1, <2>1
  <2>3. Attached'
    BY <1>1, <1>2, <1>5, <1>6, <1>9, <1>10, <2>1, <2>2, Zenon DEF Attached, Attaching
  <2> QED  BY <1>1, <1>2, <1>7, <1>8, <2>3, OwnerSteps, Zenon DEF Owner, Procs
<1> QED  BY <1>11, <1>12

\* The operations of a stop belong to the owner.
LEMMA EndingRow ==
  ASSUME LifeInv, op.kind \in {"stop", "stop ended", "wake-up"}
  PROVE  /\ op.for \in Procs /\ Ending(op.for)
         /\ \A q \in Procs \ {op.for} : Beside(q)
         /\ op.for # "start" => ~ctx["attach"].alloc
  BY OwnerOp, Zenon DEF LifeInv

LEMMA OcfStopKeeps ==
  ASSUME LifeInv, OcfStop
  PROVE  NoFault' /\ Owned'
<1>0. PICK p : p = op.for
  BY Zenon
<1>1. /\ op.kind = "stop" /\ cache' = "removed"
      /\ UNCHANGED <<pc, ret, rc, ctx, clt, flag, lazy, lock, refs, held, modrefs, misused>>
  BY Zenon DEF OcfStop
<1>2. /\ p \in Procs /\ Ending(p) /\ (\A q \in Procs \ {p} : Beside(q))
      /\ p # "start" => ~ctx["attach"].alloc
  BY <1>0, <1>1, EndingRow, Zenon
<1>3. op'.kind = "stop ended" /\ op'.for = p
  BY <1>0 DEF OcfStop, LifeInv, Typed, Records
<1>4. Waiting(p)
  <2>1. op # NoOp
    BY <1>1, SomeOp, Zenon
  <2> QED  BY <1>1, <1>2, <2>1, Zenon DEF Ending, Halting
<1>5. Halting(p)'
  BY <1>1, <1>3, <1>4, Zenon DEF Halting, Waiting
<1>6. Releasing(p)'
  BY <1>1, <1>2, Zenon DEF Ending, Releasing
<1>7. Answering(p)'
  BY <1>1, <1>2, Zenon DEF Ending, Answering, Answered, Pending
<1>8. Apart(p)
  BY <1>1, Zenon DEF Apart
<1> QED  BY <1>1, <1>2, <1>5, <1>6, <1>7, <1>8, OwnerSteps, Zenon
         DEF Owner, Ending, LifeInv, NoFault

LEMMA StopCompleteKeeps ==
  ASSUME LifeInv, stop_complete
  PROVE  NoFault' /\ Owned'
<1>0. PICK p : p = op.for
  BY Zenon
<1>1. /\ op.kind = "stop ended" /\ flag' = [flag EXCEPT ![p] = "run"]
      /\ misused' = misused \cup UseOf(Ctx(p))
      /\ UNCHANGED <<pc, ret, rc, ctx, clt, lazy, cache, lock, refs, held, modrefs>>
  BY <1>0, Zenon DEF stop_complete, SetFlag
<1>2. /\ p \in Procs /\ Ending(p) /\ (\A q \in Procs \ {p} : Beside(q))
      /\ p # "start" => ~ctx["attach"].alloc
  BY <1>0, <1>1, EndingRow, Zenon
<1>3. op'.kind = "wake-up" /\ op'.for = p
  BY <1>0 DEF stop_complete, LifeInv, Typed, Records
<1>4. Waiting(p) /\ cache = "removed"
  <2>1. op # NoOp
    BY <1>1, SomeOp, Zenon
  <2> QED  BY <1>1, <1>2, <2>1, Zenon DEF Ending, Halting
<1>5. flag'[p] = "run" /\ \A q \in Procs \ {p} : flag'[q] = flag[q]
  BY <1>1, <1>2 DEF LifeInv, Typed, Threads
<1>6. Called(p)'
  BY <1>1, <1>4, <1>5, Zenon DEF Waiting, Called
<1>7. Halting(p)'
  BY <1>1, <1>3, <1>4, <1>6, Zenon DEF Halting
<1>8. Releasing(p)'
  BY <1>1, <1>2, Zenon DEF Ending, Releasing
<1>9. Answering(p)'
  BY <1>1, <1>2, Zenon DEF Ending, Answering, Answered, Pending
<1>10. Apart(p)
  BY <1>1, <1>5, Zenon DEF Apart
<1>11. NoFault'
  <2>1. lazy[p] # "done"
    BY <1>4, Zenon DEF Waiting, Sleepy
  <2>2. ctx[Ctx(p)].alloc
    BY <1>2, <2>1, Zenon DEF Ending, Answering, Pending
  <2> QED  BY <1>1, <2>2 DEF LifeInv, NoFault, UseOf, Misuse
<1> QED  BY <1>1, <1>2, <1>7, <1>8, <1>9, <1>10, <1>11, OwnerSteps, Zenon DEF Owner, Ending

LEMMA StopCompleteWakeKeeps ==
  ASSUME LifeInv, stop_complete_wake
  PROVE  NoFault' /\ Owned'
<1>0. PICK p : p = op.for
  BY Zenon
<1>1. /\ op.kind = "wake-up" /\ WakeUp(p) /\ op' = NoOp
      /\ UNCHANGED <<pc, ret, rc, ctx, clt, flag, cache, lock, refs, held, modrefs>>
  BY <1>0, Zenon DEF stop_complete_wake
<1>2. /\ p \in Procs /\ Ending(p) /\ (\A q \in Procs \ {p} : Beside(q))
      /\ p # "start" => ~ctx["attach"].alloc
  BY <1>0, <1>1, EndingRow, Zenon
<1>3. Called(p) /\ cache = "removed"
  <2>1. op # NoOp
    BY <1>1, SomeOp, Zenon
  <2> QED  BY <1>1, <1>2, <2>1, Zenon DEF Ending, Halting
<1>4. /\ NoFault' /\ Called(p)'
      /\ lazy'[p] \in {"tell", "done"} <=> lazy[p] \in {"tell", "done"}
      /\ lazy'[p] = "done" <=> lazy[p] = "done"
      /\ \A q \in Procs \ {p} : lazy'[q] = lazy[q]
  BY <1>1, <1>2, <1>3, WakeUpStays, Zenon DEF LifeInv
<1>5. Halting(p)'
  BY <1>1, <1>3, <1>4, Zenon DEF Halting
<1>6. Releasing(p)'
  BY <1>1, <1>2, <1>4, Zenon DEF Ending, Releasing
<1>7. Answering(p)'
  BY <1>1, <1>2, <1>4, Zenon DEF Ending, Answering, Answered, Pending
<1>8. Apart(p)
  BY <1>1, <1>4, Zenon DEF Apart
<1> QED  BY <1>1, <1>2, <1>4, <1>5, <1>6, <1>7, <1>8, OwnerSteps, Zenon DEF Owner, Ending

-----------------------------------------------------------------------------
(* The lazy threads. *)

-----------------------------------------------------------------------------
(* ... and of the lazy threads. *)

\* A thread at work belongs to the owner.
LEMMA RunRow ==
  ASSUME Owned, NEW p \in Procs, lazy[p] \in {"run", "tell"}
  PROVE  /\ Ending(p) /\ Called(p) /\ cache = "removed"
         /\ \A q \in Procs \ {p} : Beside(q)
         /\ p # "start" => ~ctx["attach"].alloc
<1>1. ~Absent(p) /\ ~Told(p) /\ ~Waiting(p)
  BY Zenon DEF Absent, Told, Waiting, Sleepy
<1>2. Owner(p) /\ \A q \in Procs \ {p} : Beside(q)
  BY <1>1, Zenon DEF Owned, Beside
<1>3. ~(p = "start" /\ (Nothing \/ Creating \/ Preparing \/ Attaching \/ Failed \/ Up))
  BY <1>1, Zenon DEF Nothing, Creating, Preparing, Attaching, Failed, Up
<1>4. ~(p = "start" /\ Attached)
  BY <1>1, Zenon DEF Attached
<1>5. ~Stopping(p)
  BY <1>1, Zenon DEF Stopping
<1>6. Ending(p)
  BY <1>2, <1>3, <1>4, <1>5, Zenon DEF Owner
<1>7. Called(p) /\ cache = "removed"
  BY <1>1, <1>6, Zenon DEF Ending, Halting
<1> QED  BY <1>2, <1>6, <1>7, Zenon DEF Beside, Procs

LEMMA ThreadReleaseKeeps ==
  ASSUME LifeInv, NEW p \in Procs, ThreadRelease(p)
  PROVE  NoFault' /\ Owned'
<1>1. /\ lazy[p] = "run" /\ lazy' = [lazy EXCEPT ![p] = "tell"]
      /\ held' = held \ {"cls", "priv", "queue"} /\ lock' = lock \ {p} /\ refs' = refs \ {p}
      /\ ctx' = IF p = "start" THEN [ctx EXCEPT !["stop"] = NoContext] ELSE ctx
      /\ misused' = misused \cup UseOf(Ctx(p))
                            \cup Misuse("priv", p # "start" /\ "priv" \notin held)
                            \cup Misuse("unlock", p \notin lock)
      /\ UNCHANGED <<pc, ret, rc, clt, flag, cache, modrefs, op>>
  BY Zenon DEF ThreadRelease
<1>2. /\ Ending(p) /\ Called(p) /\ cache = "removed" /\ \A q \in Procs \ {p} : Beside(q)
      /\ p # "start" => ~ctx["attach"].alloc
  BY <1>1, RunRow, Zenon DEF LifeInv
<1>3. lazy'[p] = "tell" /\ \A q \in Procs \ {p} : lazy'[q] = lazy[q]
  BY <1>1 DEF LifeInv, Typed, Threads
<1>4. /\ lock = {p}
      /\ p = "start" => held \subseteq {"priv", "queue", "cls"}
      /\ p # "start" => held = {"priv", "queue", "cls"}
  BY <1>1, <1>2, Zenon DEF Ending, Releasing
<1>5. modrefs = 1 /\ Pending(p, "stop") /\ ctx[Ctx(p)].alloc
  BY <1>1, <1>2, Zenon DEF Ending, Answering, Pending
<1>6. ctx'[Ctx(p)] = ctx[Ctx(p)] /\ (p = "start" => ctx'["stop"] = NoContext)
  BY <1>1 DEF LifeInv, Typed, Records, Ctx
<1>7. NoFault'
  <2>1. p # "start" => "priv" \in held
    BY <1>4
  <2>2. p \in lock
    BY <1>4
  <2>3. misused' = misused
    BY <1>1, <1>5, <2>1, <2>2 DEF UseOf, Misuse
  <2> QED  BY <2>3, Zenon DEF LifeInv, NoFault
<1>8. lock' = {} /\ held' = {} /\ p \notin refs' /\ (\A q \in Procs \ {p} : q \in refs' <=> q \in refs)
  BY <1>1, <1>4
<1>9. Called(p)'
  BY <1>1, <1>2, <1>3, Zenon DEF Called, Sleepy
<1>10. Halting(p)'
  BY <1>1, <1>2, <1>9, Zenon DEF Ending, Halting, Waiting, Called
<1>11. Releasing(p)'
  <2>1. p = "start" => ~ctx'["stop"].alloc
    BY <1>6 DEF NoContext
  <2> QED  BY <1>3, <1>8, <2>1, Zenon DEF Releasing
<1>12. Answering(p)'
  BY <1>1, <1>3, <1>5, <1>6, Zenon DEF Answering, Pending
<1>13. Apart(p)
  BY <1>1, <1>3, <1>8, Zenon DEF Apart
<1>14. p # "start" => ~ctx'["attach"].alloc
  BY <1>1, <1>2, Zenon
<1> QED  BY <1>1, <1>2, <1>7, <1>10, <1>11, <1>12, <1>13, <1>14, OwnerSteps, Zenon
         DEF Owner, Ending

LEMMA ThreadTellKeeps ==
  ASSUME LifeInv, NEW p \in Procs, ThreadTell(p)
  PROVE  NoFault' /\ Owned'
<1>1. /\ lazy[p] = "tell" /\ lazy' = [lazy EXCEPT ![p] = "done"] /\ modrefs' = modrefs - 1
      /\ misused' = misused \cup UseOf(Ctx(p)) \cup Misuse("module", modrefs = 0)
      /\ UNCHANGED <<pc, ret, rc, clt, flag, cache, lock, refs, held, op>>
  BY Zenon DEF ThreadTell
<1>2. /\ Ending(p) /\ Called(p) /\ cache = "removed" /\ \A q \in Procs \ {p} : Beside(q)
      /\ p # "start" => ~ctx["attach"].alloc
  BY <1>1, RunRow, Zenon DEF LifeInv
<1>3. PICK c : /\ ctx' = [ctx EXCEPT ![Ctx(p)] = IF c.result = "interrupted" THEN NoContext ELSE c]
               /\ \E error \in BOOLEAN : c = callee_set_result(Ctx(p), error)
  BY Zenon DEF ThreadTell
<1>4. lazy'[p] = "done" /\ \A q \in Procs \ {p} : lazy'[q] = lazy[q]
  BY <1>1 DEF LifeInv, Typed, Threads
<1>5. modrefs = 1 /\ Pending(p, "stop") /\ ctx[Ctx(p)].alloc
  BY <1>1, <1>2, Zenon DEF Ending, Answering, Pending
<1>6. modrefs' = 0
  BY <1>1, <1>5
<1>7. NoFault'
  <2>1. misused' = misused
    BY <1>1, <1>5 DEF UseOf, Misuse
  <2> QED  BY <2>1, Zenon DEF LifeInv, NoFault
<1>8. Ctx(p) \in {"attach", "stop"} /\ (p = "start" => Ctx(p) = "attach")
      /\ (p # "start" => Ctx(p) = "stop")
  BY DEF Ctx
<1>9. /\ ctx'[Ctx(p)] = IF c.result = "interrupted" THEN NoContext ELSE c
      /\ p = "start" => ctx'["stop"] = ctx["stop"]
      /\ p # "start" => ctx'["attach"] = ctx["attach"]
  <2>1. ctx = [x \in {"attach", "stop"} |-> ctx[x]]
    BY Zenon DEF LifeInv, Typed, Records
  <2> QED  BY <1>3, <1>8, <2>1
<1>10. /\ c.alloc /\ c.cmpl /\ c.result \in {"ok", "error", "interrupted"}
       /\ c.result = "interrupted" <=> ctx[Ctx(p)].result = "interrupted"
  <2>1. ctx[Ctx(p)] \in [alloc : BOOLEAN, cmpl : BOOLEAN,
                         result : {"none", "ok", "error", "interrupted"}]
    BY <1>8, Zenon DEF LifeInv, Typed, Records
  <2>2. PICK error \in BOOLEAN : c = callee_set_result(Ctx(p), error)
    BY <1>3, Zenon
  <2> QED  BY <1>5, <2>1, <2>2 DEF callee_set_result
<1>11. Answered(p)'
  <2>1. CASE pc[p] = "done"
    <3>1. c.result = "interrupted"
      BY <1>5, <1>10, <2>1, Zenon DEF Pending, Waits
    <3>2. ~ctx'[Ctx(p)].alloc
      BY <1>9, <3>1 DEF NoContext
    <3> QED  BY <1>1, <2>1, <3>2, Zenon DEF Answered
  <2>2. CASE pc[p] # "done"
    <3>1. pc[p] \in Waits(p, "stop") /\ c.result # "interrupted"
      BY <1>5, <1>10, <2>2, Zenon DEF Pending
    <3> QED  BY <1>1, <1>9, <1>10, <3>1, Zenon DEF Answered
  <2> QED  BY <2>1, <2>2
<1>12. Called(p)'
  BY <1>1, <1>2, <1>4, Zenon DEF Called, Sleepy
<1>13. Halting(p)'
  BY <1>1, <1>2, <1>12, Zenon DEF Ending, Halting, Waiting, Called
<1>14. Releasing(p)'
  BY <1>1, <1>2, <1>4, <1>9, Zenon DEF Ending, Releasing
<1>15. Answering(p)'
  BY <1>4, <1>6, <1>11, Zenon DEF Answering
<1>16. Apart(p)
  BY <1>1, <1>4, Zenon DEF Apart
<1> QED  BY <1>1, <1>2, <1>7, <1>9, <1>13, <1>14, <1>15, <1>16, OwnerSteps, Zenon
         DEF Owner, Ending

LEMMA LazyThreadKeeps ==
  ASSUME LifeInv, NEW p \in Procs, LazyThreadWait(p) \/ LazyThreadAwake(p)
  PROVE  NoFault' /\ Owned'
<1>1. UNCHANGED <<pc, ret, rc, ctx, flag, cache, lock, refs, held, modrefs, op, misused>>
  BY Zenon DEF LazyThreadWait, LazyThreadAwake
<1>2. \A q \in Procs \ {p} : lazy'[q] = lazy[q] /\ clt'[q] = clt[q]
  <2>1. CASE LazyThreadWait(p)
    BY <2>1 DEF LifeInv, Typed, Threads, LazyThreadWait
  <2>2. CASE LazyThreadAwake(p)
    BY <2>2 DEF LifeInv, Typed, Threads, LazyThreadAwake
  <2> QED  BY <2>1, <2>2
<1>3. /\ lazy[p] \in Sleepy \cup {"awake"}
      /\ \/ lazy'[p] \in Sleepy /\ clt'[p] = clt[p]
         \/ lazy'[p] = "awake" /\ clt'[p] = clt[p] /\ flag[p] # "none"
         \/ lazy'[p] = "done" /\ clt'[p] = "freed" /\ flag[p] = "stop"
         \/ lazy'[p] = "run" /\ clt'[p] = "freed" /\ flag[p] # "stop" /\ lazy[p] = "awake"
  <2>1. CASE LazyThreadWait(p)
    BY <2>1 DEF LifeInv, Typed, Threads, LazyThreadWait, Sleepy
  <2>2. CASE LazyThreadAwake(p)
    BY <2>2 DEF LifeInv, Typed, Threads, LazyThreadAwake, Sleepy
  <2> QED  BY <2>1, <2>2
<1>4. /\ ~Absent(p)
      /\ Waiting(p) => Waiting(p)'
      /\ Told(p) => Told(p)'
      /\ Called(p) => Called(p)'
  BY <1>1, <1>3 DEF Absent, Waiting, Told, Called, Sleepy
<1>5. Apart(p)
  BY <1>1, <1>2, Zenon DEF Apart
<1>6. PICK o \in Procs : Owner(o) /\ \A q \in Procs \ {o} : Beside(q)
  BY Zenon DEF LifeInv, Owned
<1>7. CASE o # p
  <2>1. Beside(p)'
    BY <1>1, <1>4, <1>6, <1>7, Zenon DEF Beside
  <2> QED  BY <1>1, <1>5, <1>6, <1>7, <2>1, OtherSteps, Zenon DEF LifeInv, NoFault
<1>8. ASSUME Ending(p) PROVE Owner(p)'
  <2>1. Waiting(p) \/ Called(p)
    BY <1>8, Zenon DEF Ending, Halting
  <2>2. lazy[p] \notin {"tell", "done"} /\ lazy'[p] \notin {"tell", "done"}
    BY <1>3, <2>1 DEF Waiting, Called, Sleepy
  <2>3. Halting(p)'
    BY <1>1, <1>4, <1>8, Zenon DEF Ending, Halting
  <2>4. Releasing(p)'
    BY <1>1, <1>8, <2>2, Zenon DEF Ending, Releasing
  <2>5. Answering(p)'
    BY <1>1, <1>8, <2>2, Zenon DEF Ending, Answering, Pending
  <2> QED  BY <2>3, <2>4, <2>5, Zenon DEF Owner, Ending
<1>9. ASSUME p # "start", Stopping(p) PROVE Owner(p)'
  BY <1>1, <1>4, <1>9, Zenon DEF Owner, Stopping, Running
<1>10. ASSUME p = "start", Nothing \/ Creating \/ Preparing PROVE Owner(p)'
  BY <1>1, <1>4, <1>10, Zenon DEF Owner, Nothing, Creating, Preparing, Locked
<1>11. ASSUME p = "start", Attaching \/ Attached PROVE Owner(p)'
  BY <1>1, <1>4, <1>11, Zenon DEF Owner, Attaching, Attached, Locked, Pending
<1>12. ASSUME p = "start", Failed \/ Up PROVE Owner(p)'
  BY <1>1, <1>4, <1>12, Zenon DEF Owner, Failed, Up, Locked, Running
<1>13. CASE o = p
  <2>1. Owner(p)'
    BY <1>6, <1>8, <1>9, <1>10, <1>11, <1>12, <1>13, Zenon DEF Owner
  <2>2. p # "start" => ~ctx'["attach"].alloc
    BY <1>1, <1>6, <1>13, Zenon DEF Beside, Procs
  <2> QED  BY <1>1, <1>5, <1>6, <1>13, <2>1, <2>2, OwnerSteps, Zenon DEF LifeInv, NoFault
<1> QED  BY <1>7, <1>13

-----------------------------------------------------------------------------
(* Types. *)

-----------------------------------------------------------------------------
(* The types. *)

\* The values that are put in a context.
LEMMA ContextTyped ==
  ASSUME Records, NEW c \in {"attach", "stop"}, NEW error \in BOOLEAN
  PROVE  /\ NoContext \in [alloc : BOOLEAN, cmpl : BOOLEAN,
                           result : {"none", "ok", "error", "interrupted"}]
         /\ FreshContext \in [alloc : BOOLEAN, cmpl : BOOLEAN,
                              result : {"none", "ok", "error", "interrupted"}]
         /\ [ctx[c] EXCEPT !.result = "interrupted"] \in
              [alloc : BOOLEAN, cmpl : BOOLEAN,
               result : {"none", "ok", "error", "interrupted"}]
         /\ callee_set_result(c, error) \in
              [alloc : BOOLEAN, cmpl : BOOLEAN,
               result : {"none", "ok", "error", "interrupted"}]
<1>1. ctx[c] \in [alloc : BOOLEAN, cmpl : BOOLEAN,
                  result : {"none", "ok", "error", "interrupted"}]
  BY Zenon DEF Records
<1>2. callee_set_result(c, error) = [ctx[c] EXCEPT !.result = CASE @ = "interrupted" -> @
                                [] OTHER -> IF error THEN "error" ELSE "ok", !.cmpl = TRUE]
  BY DEF callee_set_result
<1> QED  BY <1>1, <1>2 DEF NoContext, FreshContext

LEMMA ContextPut ==
  ASSUME NEW c \in {"attach", "stop"}, NEW R, NEW v \in R,
         ctx \in [{"attach", "stop"} -> R], ctx' = [ctx EXCEPT ![c] = v]
  PROVE  ctx' \in [{"attach", "stop"} -> R]
  OBVIOUS

\* Every step keeps the types: of the calls,
LEMMA CallsTyped ==
  ASSUME Typed, LifeNext
  PROVE  Calls'
<1>1. CASE StartPrepare
  BY <1>1 DEF Typed, Calls, StartPrepare, Enter, Return
<1>2. CASE StartCache
  <2>1. /\ pc' \in {[pc EXCEPT !["start"] = "priv"], [pc EXCEPT !["start"] = "not created"]}
        /\ UNCHANGED <<ret, rc, refs>>
    BY <1>2, Zenon DEF StartCache, Enter
  <2> QED  BY <2>1 DEF Typed, Calls
<1>3. CASE StartPriv
  <2>1. /\ pc' \in {[pc EXCEPT !["start"] = "attach"], [pc EXCEPT !["start"] = "rollback"]}
        /\ UNCHANGED <<ret, rc, refs>>
    BY <1>3, Zenon DEF StartPriv, Enter
  <2> QED  BY <2>1 DEF Typed, Calls
<1>4. CASE StartAttach
  BY <1>4 DEF Typed, Calls, StartAttach, Enter
<1>5. CASE StartResult
  <2>1. /\ pc' \in {[pc EXCEPT !["start"] = "done"], [pc EXCEPT !["start"] = "finalize"],
                    [pc EXCEPT !["start"] = "rollback"]}
        /\ ret' \in {ret, [ret EXCEPT !["start"] = "interrupted"]}
        /\ UNCHANGED <<rc, refs>>
    BY <1>5, Zenon DEF StartResult, Enter, Return
  <2> QED  BY <2>1 DEF Typed, Calls
<1>6. CASE StartFinalize
  BY <1>6 DEF Typed, Calls, StartFinalize, Enter
<1>7. CASE StartEnd
  <2>1. /\ pc' = [pc EXCEPT !["start"] = "done"]
        /\ ret' \in {[ret EXCEPT !["start"] = "ok"], [ret EXCEPT !["start"] = "error"]}
        /\ UNCHANGED <<rc, refs>>
    BY <1>7, Zenon DEF StartEnd, Enter, Return
  <2> QED  BY <2>1 DEF Typed, Calls
<1>8. CASE StartRollback
  BY <1>8 DEF Typed, Calls, StartRollback, Enter
<1>9. CASE RollbackResult
  BY <1>9 DEF Typed, Calls, RollbackResult, Enter, Return
<1>10. ASSUME NEW p \in Stoppers, StopGet(p) PROVE Calls'
  BY <1>10 DEF Typed, Calls, StopGet, Enter, Return, Procs
<1>11. ASSUME NEW p \in Stoppers, StopLock(p) PROVE Calls'
  BY <1>11 DEF Typed, Calls, StopLock, Enter, Return, Procs
<1>12. ASSUME NEW p \in Stoppers, StopPrepare(p) PROVE Calls'
  BY <1>12 DEF Typed, Calls, StopPrepare, Enter, Return, Procs
<1>13. ASSUME NEW p \in Stoppers, StopExpObjs(p) PROVE Calls'
  BY <1>13 DEF Typed, Calls, StopExpObjs, Enter, Procs
<1>14. ASSUME NEW p \in Stoppers, StopGiveUp(p) PROVE Calls'
  BY <1>14 DEF Typed, Calls, StopGiveUp, Enter, Return, Procs
<1>15. ASSUME NEW p \in Stoppers, StopResult(p) PROVE Calls'
  <2> DEFINE r == caller_set_result(p)
  <2>1. p \in Procs /\ Ctx(p) \in {"attach", "stop"}
    BY Zenon DEF Procs, Ctx
  <2>2. ctx[Ctx(p)].result \in {"none", "ok", "error", "interrupted"}
    <3>1. ctx[Ctx(p)] \in [alloc : BOOLEAN, cmpl : BOOLEAN,
                           result : {"none", "ok", "error", "interrupted"}]
      BY <2>1, Zenon DEF Typed, Records
    <3> QED  BY <3>1
  <2>3. rc[p] \in {"ok", "interrupted"}
    BY <2>1, Zenon DEF Typed, Calls
  <2>4. r \in {"none", "ok", "error", "interrupted"}
    BY <2>2, <2>3, Zenon DEF caller_set_result
  <2>5. /\ pc' = [pc EXCEPT ![p] = "done"] /\ ret' = [ret EXCEPT ![p] = r]
        /\ UNCHANGED <<rc, refs>>
    BY <1>15, Zenon DEF StopResult, Enter, Return
  <2> HIDE DEF r
  <2> QED  BY <2>1, <2>4, <2>5 DEF Typed, Calls
<1>16. ASSUME NEW p \in Procs, Wait(p) PROVE Calls'
  BY <1>16 DEF Typed, Calls, Wait, Enter
<1>17. ASSUME NEW p \in Procs, EndThread(p) PROVE Calls'
  BY <1>17 DEF Typed, Calls, EndThread, Enter
<1>18. ASSUME NEW p \in Procs, LazyThreadWait(p) PROVE Calls'
  BY <1>18 DEF Typed, Calls, LazyThreadWait
<1>19. ASSUME NEW p \in Procs, LazyThreadAwake(p) PROVE Calls'
  BY <1>19 DEF Typed, Calls, LazyThreadAwake
<1>20. ASSUME NEW p \in Procs, ThreadRelease(p) PROVE Calls'
  BY <1>20 DEF Typed, Calls, ThreadRelease
<1>21. ASSUME NEW p \in Procs, ThreadTell(p) PROVE Calls'
  BY <1>21 DEF Typed, Calls, ThreadTell
<1>22. CASE OcfAttach
  BY <1>22 DEF Typed, Calls, OcfAttach
<1>23. CASE start_complete
  BY <1>23 DEF Typed, Calls, start_complete
<1>24. CASE OcfStop
  BY <1>24 DEF Typed, Calls, OcfStop
<1>25. CASE stop_complete
  BY <1>25 DEF Typed, Calls, stop_complete
<1>26. CASE stop_complete_wake
  BY <1>26 DEF Typed, Calls, stop_complete_wake
<1>27. CASE UNCHANGED lifeVars
  BY <1>27, Zenon DEF Typed, Calls, lifeVars
<1> QED  BY <1>1, <1>2, <1>3, <1>4, <1>5, <1>6, <1>7, <1>8, <1>9, <1>10, <1>11, <1>12, <1>13, <1>14, <1>15, <1>16, <1>17, <1>18, <1>19, <1>20, <1>21, <1>22, <1>23, <1>24, <1>25, <1>26, <1>27, Zenon DEF LifeNext, Start, Stop, Lazy, Ocf

\* of the lazy threads,
LEMMA ThreadsTyped ==
  ASSUME Typed, LifeNext
  PROVE  Threads'
<1>1. CASE StartPrepare
  <2>1. /\ clt' \in {clt, [clt EXCEPT !["start"] = "alloc"]} /\ flag' = flag
        /\ lazy' \in {lazy, [lazy EXCEPT !["start"] = "check"]}
    BY <1>1, Zenon DEF StartPrepare, LazyThreadCreated
  <2> QED  BY <2>1 DEF Typed, Threads
<1>2. CASE StartCache
  BY <1>2 DEF Typed, Threads, StartCache
<1>3. CASE StartPriv
  BY <1>3 DEF Typed, Threads, StartPriv
<1>4. CASE StartAttach
  BY <1>4 DEF Typed, Threads, StartAttach
<1>5. CASE StartResult
  BY <1>5 DEF Typed, Threads, StartResult
<1>6. CASE StartFinalize
  BY <1>6 DEF Typed, Threads, StartFinalize
<1>7. CASE StartEnd
  BY <1>7 DEF Typed, Threads, StartEnd, WakeUp
<1>8. CASE StartRollback
  BY <1>8 DEF Typed, Threads, StartRollback
<1>9. CASE RollbackResult
  BY <1>9 DEF Typed, Threads, RollbackResult
<1>10. ASSUME NEW p \in Stoppers, StopGet(p) PROVE Threads'
  BY <1>10 DEF Typed, Threads, StopGet, Procs
<1>11. ASSUME NEW p \in Stoppers, StopLock(p) PROVE Threads'
  BY <1>11 DEF Typed, Threads, StopLock, Procs
<1>12. ASSUME NEW p \in Stoppers, StopPrepare(p) PROVE Threads'
  BY <1>12 DEF Typed, Threads, StopPrepare, LazyThreadCreated, Procs
<1>13. ASSUME NEW p \in Stoppers, StopExpObjs(p) PROVE Threads'
  BY <1>13 DEF Typed, Threads, StopExpObjs, Procs
<1>14. ASSUME NEW p \in Stoppers, StopGiveUp(p) PROVE Threads'
  BY <1>14 DEF Typed, Threads, StopGiveUp, WakeUp, Procs
<1>15. ASSUME NEW p \in Stoppers, StopResult(p) PROVE Threads'
  BY <1>15 DEF Typed, Threads, StopResult, Procs
<1>16. ASSUME NEW p \in Procs, Wait(p) PROVE Threads'
  BY <1>16 DEF Typed, Threads, Wait
<1>17. ASSUME NEW p \in Procs, EndThread(p) PROVE Threads'
  BY <1>17 DEF Typed, Threads, EndThread, SetFlag
<1>18. ASSUME NEW p \in Procs, LazyThreadWait(p) PROVE Threads'
  BY <1>18 DEF Typed, Threads, LazyThreadWait
<1>19. ASSUME NEW p \in Procs, LazyThreadAwake(p) PROVE Threads'
  BY <1>19 DEF Typed, Threads, LazyThreadAwake
<1>20. ASSUME NEW p \in Procs, ThreadRelease(p) PROVE Threads'
  BY <1>20 DEF Typed, Threads, ThreadRelease
<1>21. ASSUME NEW p \in Procs, ThreadTell(p) PROVE Threads'
  BY <1>21 DEF Typed, Threads, ThreadTell
<1>22. CASE OcfAttach
  BY <1>22 DEF Typed, Threads, OcfAttach
<1>23. CASE start_complete
  BY <1>23 DEF Typed, Threads, start_complete
<1>24. CASE OcfStop
  BY <1>24 DEF Typed, Threads, OcfStop
<1>25. CASE stop_complete
  BY <1>25 DEF Typed, Threads, stop_complete, SetFlag
<1>26. CASE stop_complete_wake
  BY <1>26 DEF Typed, Threads, stop_complete_wake, WakeUp
<1>27. CASE UNCHANGED lifeVars
  BY <1>27, Zenon DEF Typed, Threads, lifeVars
<1> QED  BY <1>1, <1>2, <1>3, <1>4, <1>5, <1>6, <1>7, <1>8, <1>9, <1>10, <1>11, <1>12, <1>13, <1>14, <1>15, <1>16, <1>17, <1>18, <1>19, <1>20, <1>21, <1>22, <1>23, <1>24, <1>25, <1>26, <1>27, Zenon DEF LifeNext, Start, Stop, Lazy, Ocf

\* and of the contexts and the OCF operation.
LEMMA RecordsTyped ==
  ASSUME Typed, LifeNext
  PROVE  Records'
<1>1. CASE StartPrepare
  <2>1. op' = op /\ ctx' \in {ctx, [ctx EXCEPT !["attach"] = FreshContext]}
    BY <1>1, Zenon DEF StartPrepare
  <2>2. op' \in [kind : {"none", "attach", "attach ended", "stop", "stop ended",
                        "wake-up"}, for : Procs]
    BY <2>1, Zenon DEF Typed, Records
  <2>3. /\ FreshContext \in [alloc : BOOLEAN, cmpl : BOOLEAN,
                            result : {"none", "ok", "error", "interrupted"}]
        /\ ctx \in [{"attach", "stop"} -> [alloc : BOOLEAN, cmpl : BOOLEAN,
                            result : {"none", "ok", "error", "interrupted"}]]
    BY ContextTyped, Zenon DEF Typed, Records
  <2> QED  BY <2>1, <2>2, <2>3, ContextPut, Zenon DEF Records
<1>2. CASE StartCache
  BY <1>2 DEF Typed, Records, StartCache
<1>3. CASE StartPriv
  <2>1. op' = op /\ ctx' \in {ctx, [ctx EXCEPT !["stop"] = FreshContext]}
    BY <1>3, Zenon DEF StartPriv
  <2>2. op' \in [kind : {"none", "attach", "attach ended", "stop", "stop ended",
                        "wake-up"}, for : Procs]
    BY <2>1, Zenon DEF Typed, Records
  <2>3. /\ FreshContext \in [alloc : BOOLEAN, cmpl : BOOLEAN,
                            result : {"none", "ok", "error", "interrupted"}]
        /\ ctx \in [{"attach", "stop"} -> [alloc : BOOLEAN, cmpl : BOOLEAN,
                            result : {"none", "ok", "error", "interrupted"}]]
    BY ContextTyped, Zenon DEF Typed, Records
  <2> QED  BY <2>1, <2>2, <2>3, ContextPut, Zenon DEF Records
<1>4. CASE StartAttach
  BY <1>4 DEF Typed, Records, StartAttach, Procs
<1>5. CASE StartResult
  <2>1. op' = op /\ ctx' \in {ctx, [ctx EXCEPT !["attach"].result = "interrupted"]}
    BY <1>5, Zenon DEF StartResult
  <2>2. op' \in [kind : {"none", "attach", "attach ended", "stop", "stop ended",
                        "wake-up"}, for : Procs]
    BY <2>1, Zenon DEF Typed, Records
  <2>3. /\ [ctx["attach"] EXCEPT !.result = "interrupted"] \in [alloc : BOOLEAN, cmpl : BOOLEAN,
                            result : {"none", "ok", "error", "interrupted"}]
        /\ ctx \in [{"attach", "stop"} -> [alloc : BOOLEAN, cmpl : BOOLEAN,
                            result : {"none", "ok", "error", "interrupted"}]]
    BY ContextTyped, Zenon DEF Typed, Records
  <2>4. ctx' \in {ctx, [ctx EXCEPT !["attach"] = [ctx["attach"] EXCEPT !.result = "interrupted"]]}
    BY <2>1, Zenon
  <2> QED  BY <2>2, <2>3, <2>4, ContextPut, Zenon DEF Records
<1>6. CASE StartFinalize
  BY <1>6 DEF Typed, Records, StartFinalize
<1>7. CASE StartEnd
  BY <1>7 DEF Typed, Records, StartEnd, NoContext
<1>8. CASE StartRollback
  BY <1>8 DEF Typed, Records, StartRollback, FreshContext, NoContext, Procs
<1>9. CASE RollbackResult
  BY <1>9 DEF Typed, Records, RollbackResult, NoContext, Ctx, caller_set_result
<1>10. ASSUME NEW p \in Stoppers, StopGet(p) PROVE Records'
  BY <1>10 DEF Typed, Records, StopGet, Procs
<1>11. ASSUME NEW p \in Stoppers, StopLock(p) PROVE Records'
  BY <1>11 DEF Typed, Records, StopLock, Procs
<1>12. ASSUME NEW p \in Stoppers, StopPrepare(p) PROVE Records'
  BY <1>12 DEF Typed, Records, StopPrepare, Procs
<1>13. ASSUME NEW p \in Stoppers, StopExpObjs(p) PROVE Records'
  <2>1. \/ ctx' = [ctx EXCEPT !["stop"] = FreshContext] /\ op' = [kind |-> "stop", for |-> p]
        \/ ctx' = ctx /\ op' = op
    BY <1>13, Zenon DEF StopExpObjs
  <2>2. [kind |-> "stop", for |-> p] \in
          [kind : {"none", "attach", "attach ended", "stop", "stop ended", "wake-up"},
           for : Procs]
    BY DEF Procs
  <2>3. /\ FreshContext \in [alloc : BOOLEAN, cmpl : BOOLEAN,
                            result : {"none", "ok", "error", "interrupted"}]
        /\ ctx \in [{"attach", "stop"} -> [alloc : BOOLEAN, cmpl : BOOLEAN,
                            result : {"none", "ok", "error", "interrupted"}]]
    BY ContextTyped, Zenon DEF Typed, Records
  <2> QED  BY <2>1, <2>2, <2>3, ContextPut, Zenon DEF Typed, Records
<1>14. ASSUME NEW p \in Stoppers, StopGiveUp(p) PROVE Records'
  BY <1>14 DEF Typed, Records, StopGiveUp, Procs
<1>15. ASSUME NEW p \in Stoppers, StopResult(p) PROVE Records'
  BY <1>15 DEF Typed, Records, StopResult, NoContext, Ctx, Procs, caller_set_result
<1>16. ASSUME NEW p \in Procs, Wait(p) PROVE Records'
  BY <1>16 DEF Typed, Records, Wait, Ctx
<1>17. ASSUME NEW p \in Procs, EndThread(p) PROVE Records'
  BY <1>17 DEF Typed, Records, EndThread
<1>18. ASSUME NEW p \in Procs, LazyThreadWait(p) PROVE Records'
  BY <1>18 DEF Typed, Records, LazyThreadWait
<1>19. ASSUME NEW p \in Procs, LazyThreadAwake(p) PROVE Records'
  BY <1>19 DEF Typed, Records, LazyThreadAwake
<1>20. ASSUME NEW p \in Procs, ThreadRelease(p) PROVE Records'
  BY <1>20 DEF Typed, Records, ThreadRelease, NoContext, Ctx
<1>21. ASSUME NEW p \in Procs, ThreadTell(p) PROVE Records'
  <2>1. op' = op /\ Ctx(p) \in {"attach", "stop"}
    BY <1>21, Zenon DEF ThreadTell, Ctx
  <2>2. PICK error \in BOOLEAN : ctx' = [ctx EXCEPT ![Ctx(p)] = 
          IF callee_set_result(Ctx(p), error).result = "interrupted" THEN NoContext
          ELSE callee_set_result(Ctx(p), error)]
    BY <1>21, Zenon DEF ThreadTell
  <2> QED  BY <2>1, <2>2, ContextTyped, Zenon DEF Typed, Records
<1>22. CASE OcfAttach
  BY <1>22 DEF Typed, Records, OcfAttach
<1>23. CASE start_complete
  BY <1>23 DEF Typed, Records, start_complete, NoOp, callee_set_result, Procs
<1>24. CASE OcfStop
  BY <1>24 DEF Typed, Records, OcfStop
<1>25. CASE stop_complete
  BY <1>25 DEF Typed, Records, stop_complete, Ctx
<1>26. CASE stop_complete_wake
  BY <1>26 DEF Typed, Records, stop_complete_wake, NoOp, Procs
<1>27. CASE UNCHANGED lifeVars
  BY <1>27, Zenon DEF Typed, Records, lifeVars
<1> QED  BY <1>1, <1>2, <1>3, <1>4, <1>5, <1>6, <1>7, <1>8, <1>9, <1>10, <1>11, <1>12, <1>13, <1>14, <1>15, <1>16, <1>17, <1>18, <1>19, <1>20, <1>21, <1>22, <1>23, <1>24, <1>25, <1>26, <1>27, Zenon DEF LifeNext, Start, Stop, Lazy, Ocf

-----------------------------------------------------------------------------
(* The invariant and what it says. *)

\* The invariant holds at first,
LEMMA LifeInitial ==
  ASSUME LifeInit
  PROVE  LifeInv
<1>1. "start" \in Procs
  BY Zenon DEF Procs
<1>2. Calls
  BY <1>1, SMT DEF LifeInit, Calls
<1>3. Threads
  BY SMT DEF LifeInit, Threads
<1>4. Records
  BY <1>1, SMT DEF LifeInit, Records, NoContext, NoOp
<1>5. NoFault
  BY Zenon DEF LifeInit, NoFault
<1>6. ASSUME NEW q \in Procs PROVE Absent(q) /\ pc[q] = "idle" /\ q \notin refs
  BY Zenon DEF LifeInit, Absent
<1>7. ~ctx["attach"].alloc /\ ~ctx["stop"].alloc
  BY DEF LifeInit, NoContext
<1>8. Nothing
  BY <1>1, <1>6, <1>7, Zenon DEF LifeInit, Nothing
<1>9. ASSUME NEW q \in Procs \ {"start"} PROVE Beside(q)
  BY <1>6, Zenon DEF Beside
<1> QED  BY <1>1, <1>2, <1>3, <1>4, <1>5, <1>8, <1>9, Zenon DEF LifeInv, Typed, Owned, Owner

\* stays when nothing happens,
LEMMA LifeIdles ==
  ASSUME LifeInv, UNCHANGED lifeVars
  PROVE  LifeInv'
<1>1. UNCHANGED <<pc, ret, rc, ctx, clt, flag, lazy, cache, lock, refs, held, modrefs, op,
                  misused>>
  BY Zenon DEF lifeVars
<1>2. PICK p \in Procs : Owner(p) /\ \A q \in Procs \ {p} : Beside(q)
  BY Zenon DEF LifeInv, Owned
<1>3. Apart(p)
  BY <1>1, Zenon DEF Apart
<1>4. Owner(p)'
  BY <1>1, <1>2, OwnerStays, Zenon
<1>5. ASSUME NEW q \in Procs \ {p} PROVE Beside(q)'
  BY <1>1, <1>2, Zenon DEF Beside, Absent, Told
<1>6. Typed' /\ NoFault'
  BY <1>1, Zenon DEF LifeInv, Typed, Calls, Threads, Records, NoFault
<1> QED  BY <1>4, <1>5, <1>6, Zenon DEF LifeInv, Owned

\* and is kept by every step.
LEMMA LifeKeeps ==
  ASSUME LifeInv, [LifeNext]_lifeVars
  PROVE  LifeInv'
<1>1. CASE UNCHANGED lifeVars
  BY <1>1, LifeIdles, Zenon
<1>2. CASE LifeNext /\ ~UNCHANGED lifeVars
  <2>1. Typed'
    BY <1>2, CallsTyped, ThreadsTyped, RecordsTyped, Zenon DEF LifeInv, Typed
  <2>2. CASE Start
    BY <2>1, <2>2, StartPrepareKeeps, StartCacheKeeps, StartPrivKeeps, StartAttachKeeps,
       StartResultKeeps, StartFinalizeKeeps, StartEndKeeps, StartRollbackKeeps,
       RollbackResultKeeps, Zenon DEF Start, LifeInv
  <2>3. ASSUME NEW p \in Stoppers, Stop(p) PROVE LifeInv'
    BY <2>1, <2>3, StopGetKeeps, StopLockKeeps, StopPrepareKeeps, StopExpObjsKeeps,
       StopGiveUpKeeps, StopResultKeeps, Zenon DEF Stop, LifeInv
  <2>4. ASSUME NEW p \in Procs, Wait(p) \/ EndThread(p) \/ Lazy(p) PROVE LifeInv'
    BY <2>1, <2>4, WaitKeeps, EndThreadKeeps, LazyThreadKeeps, ThreadReleaseKeeps,
       ThreadTellKeeps, Zenon DEF Lazy, LifeInv
  <2>5. CASE Ocf
    BY <2>1, <2>5, OcfAttachKeeps, StartCompleteKeeps, OcfStopKeeps, StopCompleteKeeps,
       StopCompleteWakeKeeps, Zenon DEF Ocf, LifeInv
  <2> QED  BY <1>2, <2>2, <2>3, <2>4, <2>5, Zenon DEF LifeNext
<1> QED  BY <1>1, <1>2, Zenon

\* The owner's row says what there is of the instance, and that the module is
\* pinned as long as there is any of it.
LEMMA OwnerShape ==
  ASSUME NEW p \in Procs, Owner(p)
  PROVE  /\ cache \in {"none", "present", "attached", "removed"}
         /\ lock = {} \/ lock = {p}
         /\ held \subseteq {"priv", "queue", "cls", "volume"}
         /\ modrefs = 0 \/ modrefs = 1
         /\ \/ cache \in {"present", "attached"} \/ held # {} \/ lock # {}
            \/ lazy[p] \in {"run", "tell"}
            => modrefs = 1
<1>1. CASE Ending(p)
  <2>1. (modrefs = 0 /\ lazy[p] = "done") \/ modrefs = 1
    BY <1>1, Zenon DEF Ending, Answering
  <2>2. /\ cache \in {"present", "attached", "removed"}
        /\ lazy[p] = "done" => cache = "removed"
    BY <1>1, Zenon DEF Ending, Halting, Waiting, Sleepy
  <2>3. /\ lock = {} \/ lock = {p}
        /\ held \subseteq {"priv", "queue", "cls", "volume"}
        /\ lazy[p] = "done" => lock = {} /\ held = {}
    BY <1>1, Zenon DEF Ending, Releasing
  <2> QED  BY <2>1, <2>2, <2>3, Zenon
<1>2. CASE p = "start" /\ Nothing
  BY <1>2, Zenon DEF Nothing, Absent, Told, Sleepy
<1>3. CASE p = "start" /\ Creating
  BY <1>3, Zenon DEF Creating
<1>4. CASE p = "start" /\ (Preparing \/ Attaching \/ Attached \/ Failed)
  <2>1. Locked
    BY <1>4, Zenon DEF Preparing, Attaching, Attached, Failed
  <2>2. held \subseteq {"priv", "queue", "cls", "volume"}
    BY <1>4, Zenon DEF Preparing, Attaching, Attached, Failed
  <2> QED  BY <1>4, <2>1, <2>2, Zenon DEF Locked
<1>5. CASE (p = "start" /\ Up) \/ Stopping(p)
  BY <1>5, Zenon DEF Up, Stopping, Running
<1> QED  BY <1>1, <1>2, <1>3, <1>4, <1>5, Zenon DEF Owner

\* In a quiet state the owner has left the instance running or nothing of it.
LEMMA OwnerQuiet ==
  ASSUME NEW p \in Procs, Owner(p), Quiet
  PROVE  /\ lock = {} /\ clt[p] # "alloc"
         /\ p # "start" => p \notin refs
         /\ p = "start" => ~ctx["attach"].alloc
         /\ IF cache = "attached"
            THEN held = {"priv", "queue", "cls"} /\ modrefs = 1 /\ ctx["stop"].alloc
            ELSE held = {} /\ modrefs = 0 /\ ~ctx["stop"].alloc /\ cache # "present"
<1>1. op.kind = "none"
  BY DEF Quiet, NoOp
<1>2. pc[p] \in {"idle", "done"} /\ lazy[p] \in {"none", "done"}
  BY Zenon DEF Quiet
<1>3. CASE Ending(p)
  <2>1. cache = "removed" /\ lazy[p] = "done" /\ clt[p] = "freed"
    BY <1>1, <1>2, <1>3, Zenon DEF Ending, Halting, Called, Sleepy
  <2>2. modrefs = 0 /\ ~ctx[Ctx(p)].alloc
    BY <1>2, <1>3, <2>1, Zenon DEF Ending, Answering, Answered, Waits
  <2>3. lock = {} /\ held = {} /\ p \notin refs /\ (p = "start" => ~ctx["stop"].alloc)
    BY <1>3, <2>1, Zenon DEF Ending, Releasing
  <2> QED  BY <2>1, <2>2, <2>3, Zenon DEF Ctx
<1>4. CASE p = "start" /\ Nothing
  BY <1>2, <1>4, Zenon DEF Nothing, Absent, Told, Sleepy
<1>5. CASE p = "start" /\ (Creating \/ Preparing \/ Failed)
  BY <1>2, <1>5, Zenon DEF Creating, Preparing, Failed
<1>6. CASE p = "start" /\ (Attaching \/ Attached)
  BY <1>1, <1>2, <1>6, Zenon DEF Attaching, Attached
<1>7. CASE p = "start" /\ Up
  BY <1>2, <1>7, Zenon DEF Up, Running, Told, Sleepy
<1>8. CASE Stopping(p)
  BY <1>2, <1>8, Zenon DEF Stopping
<1> QED  BY <1>3, <1>4, <1>5, <1>6, <1>7, <1>8, Zenon DEF Owner

\* The invariant says all that LifecycleSafe asks for.  The two facts about
\* cardinalities come from the library at the end of the module.
LEMMA LifeSafe ==
  ASSUME LifeInv, \A x : Cardinality({x}) = 1, Cardinality({}) = 0
  PROVE  LifecycleSafe
<1>1. PICK p \in Procs : Owner(p) /\ \A q \in Procs \ {p} : Beside(q)
  BY Zenon DEF LifeInv, Owned
<1>2. /\ cache \in {"none", "present", "attached", "removed"}
      /\ lock = {} \/ lock = {p}
      /\ held \subseteq {"priv", "queue", "cls", "volume"}
      /\ modrefs = 0 \/ modrefs = 1
      /\ \/ cache \in {"present", "attached"} \/ held # {} \/ lock # {}
         \/ lazy[p] \in {"run", "tell"}
         => modrefs = 1
  BY <1>1, OwnerShape, Zenon
<1>3. LifeTypeOK
  <2>1. Cardinality(lock) = 0 \/ Cardinality(lock) = 1
    BY <1>2, Zenon
  <2>2. Cardinality(lock) <= 1 /\ modrefs \in 0..1
    BY <1>2, <2>1, SMT
  <2>3. lock \subseteq Procs
    BY <1>2, Zenon
  <2>4. misused \subseteq {"context", "priv", "unlock", "module", "late wake-up"}
    BY Zenon DEF LifeInv, NoFault
  <2> QED  BY <1>2, <2>2, <2>3, <2>4, Zenon
           DEF LifeInv, Typed, Calls, Threads, Records, LifeTypeOK
<1>4. NothingLeaks
  <2> SUFFICES ASSUME Quiet
               PROVE  /\ lock = {} /\ refs = {} /\ ~ctx["attach"].alloc
                      /\ \A q \in Procs : clt[q] # "alloc"
                      /\ IF cache = "attached"
                         THEN held = {"priv", "queue", "cls"} /\ modrefs = 1 /\ ctx["stop"].alloc
                         ELSE held = {} /\ modrefs = 0 /\ ~ctx["stop"].alloc /\ cache # "present"
    BY Zenon DEF NothingLeaks
  <2>1. ASSUME NEW q \in Procs \ {p} PROVE clt[q] # "alloc" /\ (q # "start" => q \notin refs)
    <3>1. pc[q] \in {"idle", "done"} /\ lazy[q] \in {"none", "done"}
      BY Zenon DEF Quiet
    <3> QED  BY <1>1, <3>1, Zenon DEF Beside, Absent, Told, Sleepy
  <2>2. ASSUME NEW q \in Procs PROVE clt[q] # "alloc" /\ (q # "start" => q \notin refs)
    BY <1>1, <2>1, OwnerQuiet, Zenon
  <2>3. refs \subseteq Stoppers
    BY Zenon DEF LifeInv, Typed, Calls
  <2>4. refs = {}
    BY <2>2, <2>3, StoppersAssumption, Zenon DEF Procs
  <2>5. ~ctx["attach"].alloc
    BY <1>1, OwnerQuiet, Zenon DEF Beside, Procs
  <2> QED  BY <1>1, <2>2, <2>4, <2>5, OwnerQuiet, Zenon
<1>5. ModulePinned
  <2>1. ASSUME NEW q \in Procs, lazy[q] \in {"run", "tell"} PROVE q = p
    BY <1>1, <2>1, Zenon DEF Beside, Absent, Told, Sleepy
  <2>2. \/ cache \in {"present", "attached"} \/ held # {} \/ lock # {}
        \/ \E q \in Procs : lazy[q] \in {"run", "tell"}
        => modrefs = 1
    BY <1>2, <2>1, Zenon
  <2>3. modrefs = 1 => modrefs > 0
    BY SMT
  <2> QED  BY <2>2, <2>3, Zenon DEF ModulePinned
<1> QED  BY <1>3, <1>4, <1>5, Zenon DEF LifeInv, LifecycleSafe

-----------------------------------------------------------------------------
INSTANCE FiniteSetTheorems

\* However starts, stops, signals, completions and lazy threads interleave,
\* one call owns the instance and each of the others is over, waits for the
\* lock or has not begun.
THEOREM LifecycleInvariant == LifeSpec => []LifeInv
<1>1. LifeInit => LifeInv
  BY LifeInitial
<1>2. LifeInv /\ [LifeNext]_lifeVars => LifeInv'
  BY LifeKeeps
<1> QED  BY <1>1, <1>2, PTL DEF LifeSpec

\* Caller, completion and lazy thread agree on who frees the context, releases
\* the instance and drops the module: nothing is used after it was freed,
\* left over or unpinned, for any number of concurrent stops.
THEOREM LifecycleIsSafe == LifeSpec => []LifecycleSafe
<1>1. LifeInv => LifecycleSafe
  BY LifeSafe, FS_EmptySet, FS_Singleton, Zenon
<1> QED  BY <1>1, LifecycleInvariant, PTL
=============================================================================
