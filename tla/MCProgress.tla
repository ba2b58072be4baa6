----------------------------- MODULE MCProgress -----------------------------
(***************************************************************************)
(* What has to come to an end in the kernel modules, in parts that share   *)
(* no state: the counter of requests a management command freezes, the     *)
(* threads of a cache, its start and stop, and the locks and completions   *)
(* of the management commands.                                             *)
(* As in MCDataPath a behaviour chooses one part (turn) and runs it.  Two  *)
(* requests and two kicks are enough for one to arrive while a thread      *)
(* works on the other, or between its check and its sleep.                 *)
(***************************************************************************)
EXTENDS EnvRefcnt, CasThreads, CacheLifecycle, TLC

VARIABLE turn
VARIABLES apc, phase, actx, aop, failed, arc, aret, writers, readers, arefs, afaults

asyncVars == <<apc, phase, actx, aop, failed, arc, aret, writers, readers, arefs, afaults>>
allVars == <<turn, vars, thrVars, lifeVars, asyncVars>>

-----------------------------------------------------------------------------
(* attach_device against detach_cache, which flushes first.                *)
Commands == {"attach", "detach"}
Async == INSTANCE MngtAsync WITH
    Cmds <- Commands, Program <- "attach" :> <<"attach">> @@ "detach" :> <<"flush", "detach">>,
    pc <- apc, ctx <- actx, op <- aop, rc <- arc, ret <- aret, refs <- arefs, faults <- afaults

-----------------------------------------------------------------------------
AllInit ==
    /\ turn \in {"refcnt", "threads", "lifecycle", "async"}
    /\ Init /\ ThrInit /\ LifeInit /\ Async!Init

RefcntStep == /\ turn = "refcnt" /\ Next
              /\ UNCHANGED <<turn, thrVars, lifeVars, asyncVars>>
ThreadsStep == /\ turn = "threads" /\ ThrNext
               /\ UNCHANGED <<turn, vars, lifeVars, asyncVars>>
LifecycleStep == /\ turn = "lifecycle" /\ LifeNext
                 /\ UNCHANGED <<turn, vars, thrVars, asyncVars>>
AsyncStep == /\ turn = "async" /\ Async!Next
             /\ UNCHANGED <<turn, vars, thrVars, lifeVars>>

AllNext == RefcntStep \/ ThreadsStep \/ LifecycleStep \/ AsyncStep

(* The fairness of each module, for the part that runs. *)
RefcntFairness ==
    /\ \A c \in CPU : /\ WF_vars(turn = "refcnt" /\ freeze_pcpu(c))
                      /\ WF_vars(turn = "refcnt" /\ unfreeze_pcpu(c))
    /\ WF_vars(turn = "refcnt" /\ \E c \in CPU : env_refcnt_dec(c))
    /\ WF_vars(turn = "refcnt" /\ DecCountdown)
    /\ WF_vars(turn = "refcnt" /\ FreezeFinish)
    /\ WF_vars(turn = "refcnt" /\ RegisterArm)
    /\ WF_vars(turn = "refcnt" /\ RegisterCheck)
    /\ \A k \in {"now", "stale"} : WF_vars(turn = "refcnt" /\ call_freeze_cb(k))
ThreadsFairness ==
    /\ \A t \in {"queue", "cleaner"} : /\ WF_thrVars(turn = "threads" /\ Thread(t))
                                        /\ WF_thrVars(turn = "threads" /\ Manager(t))
    /\ WF_thrVars(turn = "threads" /\ Kicks)
LifecycleFairness ==
    /\ WF_lifeVars(turn = "lifecycle" /\ pc["start"] # "idle" /\ Start)
    /\ \A p \in Stoppers : WF_lifeVars(turn = "lifecycle" /\ pc[p] # "idle" /\ Stop(p))
    /\ \A p \in {"start"} \cup Stoppers :
          /\ WF_lifeVars(turn = "lifecycle" /\ ctx[Ctx(p)].cmpl /\ Wait(p))
          /\ WF_lifeVars(turn = "lifecycle" /\ EndThread(p))
          /\ WF_lifeVars(turn = "lifecycle" /\ Lazy(p))
    /\ WF_lifeVars(turn = "lifecycle" /\ Ocf)
AsyncFairness ==
    \A p \in Commands :
        /\ WF_asyncVars(/\ turn = "async" /\ (apc[p] \in {"wait lock", "wait op"} => actx[p].cmpl)
                        /\ Async!Command(p))
        /\ WF_asyncVars(turn = "async" /\ Async!Callee(p))

AllSpec ==
    /\ AllInit /\ [][AllNext]_allVars
    /\ RefcntFairness /\ ThreadsFairness /\ LifecycleFairness /\ AsyncFairness

-----------------------------------------------------------------------------
\* Every management command returns, and its operation comes to an end.
AllEnd == turn = "async" => Async!AllEnd
=============================================================================
