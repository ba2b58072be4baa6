----------------------------- MODULE MngtAsync ------------------------------
(***************************************************************************)
(* Management commands on one cache and the asynchronous OCF calls they    *)
(* wait for (modules/cas_cache/layer_cache_management.c).                  *)
(*                                                                         *)
(* A command takes a reference to the cache, takes the cache lock and runs *)
(* one or more operations of OCF.  It waits for each of them with a signal *)
(* being able to interrupt the wait; the operation then goes on without    *)
(* it.  Caller and completion share a context on the heap, and the spin    *)
(* lock in it decides which of the two cleans up.  Who releases the cache  *)
(* lock and the reference depends on the operation.                        *)
(*                                                                         *)
(* A command is a program, a sequence of phases.  Every phase locks the    *)
(* cache and runs one operation:                                           *)
(*   query   read lock, nothing asynchronous   (get_* parameters, stats)   *)
(*   update  write lock, nothing asynchronous  (set_* parameters)          *)
(*   save    write lock, then a metadata save; the caller unlocks          *)
(*   flush   read lock; a flush or purge whose completion unlocks          *)
(*   attach  write lock; the caller unlocks, the completion if interrupted *)
(*   detach  like attach, as its completion is written                     *)
(*   stop    write lock; the finish thread unlocks                         *)
(* A command has at most one context the completion may use: an            *)
(* interrupted command runs no further phase.                              *)
(***************************************************************************)
EXTENDS Integers, Sequences

CONSTANTS
    Cmds,      \* commands, each run once
    Program    \* the phases of each command

ASSUME ProgramAssumption ==
    Program \in [Cmds -> Seq({"query", "update", "save", "flush",
                              "attach", "detach", "stop"})]
ASSUME PhasesAssumption ==
    \A p \in Cmds : \/ Len(Program[p]) = 1
                    \/ Len(Program[p]) = 2 /\ Program[p][1] = "flush"

VARIABLES
    pc,        \* where the command's own thread stands
    phase,     \* which phase of its program it is in
    ctx,       \* its context: allocated?, result, completion signalled?
    op,        \* where the OCF call holding the context stands
    failed,    \* the OCF call ended with an error
    rc,        \* what the interruptible wait returned
    ret,       \* what the command returned
    writers,   \* commands the write lock is held for (at most one)
    readers,   \* commands a read lock is held for
    refs,      \* references to the cache held for the command
    faults     \* misuse of a context, the lock or a reference

vars == <<pc, phase, ctx, op, failed, rc, ret, writers, readers, refs, faults>>

Phase(p) == Program[p][phase[p]]
Nested(p) == Len(Program[p]) > 1 /\ phase[p] = 1
Locks(p) == IF Phase(p) \in {"query", "flush"} THEN "read" ELSE "write"
Holds(p) == p \in writers \cup readers

NoContext == [alloc |-> FALSE, result |-> "none", cmpl |-> FALSE]
FreshContext == [NoContext EXCEPT !.alloc = TRUE]

Init ==
    /\ pc = [p \in Cmds |-> "idle"]
    /\ phase = [p \in Cmds |-> 1]
    /\ ctx = [p \in Cmds |-> NoContext]
    /\ op = [p \in Cmds |-> "none"]
    /\ failed = [p \in Cmds |-> FALSE]
    /\ rc = [p \in Cmds |-> "ok"]
    /\ ret = [p \in Cmds |-> "none"]
    /\ writers = {}
    /\ readers = {}
    /\ refs = [p \in Cmds |-> 0]
    /\ faults = {}

-----------------------------------------------------------------------------
(* Effects shared by the actions. *)

Fault(what, happens) == IF happens THEN {what} ELSE {}

\* Unlock the cache (if asked to) and drop n references.
Release(p, unlock, n) ==
    /\ writers' = IF unlock THEN writers \ {p} ELSE writers
    /\ readers' = IF unlock THEN readers \ {p} ELSE readers
    /\ refs' = [refs EXCEPT ![p] = @ - n]

ReleaseFaults(p, unlock, n) ==
    Fault("unlock", unlock /\ ~Holds(p)) \cup Fault("put", refs[p] < n)

UseFaults(p) == Fault("use after free", ~ctx[p].alloc)

Goto(p, l) == pc' = [pc EXCEPT ![p] = l]
Return(p, r) == Goto(p, "done") /\ ret' = [ret EXCEPT ![p] = r]

\* References a command that gives up in its present phase must drop.
PutOnFailure(p) == IF Nested(p) THEN 2 ELSE 1

CalleeSetResultAlwaysOk(p, error) ==
    [ctx[p] EXCEPT !.result = IF @ = "interrupted" THEN @ ELSE "ok", !.cmpl = TRUE]

CalleeSetResultSilent(p, error) ==
    [ctx[p] EXCEPT !.result = CASE @ = "interrupted" -> @
                                [] OTHER -> IF error THEN "error" ELSE "ok"]

\* _cache_mngt_async_callee_set_result: the context afterwards.
callee_set_result(p, error) ==
    [ctx[p] EXCEPT !.result = CASE @ = "interrupted" -> @
                                [] OTHER -> IF error THEN "error" ELSE "ok",
                   !.cmpl = TRUE]

\* _cache_mngt_async_caller_set_result: the result the caller goes on with.
caller_set_result(p) ==
    IF ctx[p].result # "none" THEN ctx[p].result ELSE rc[p]

-----------------------------------------------------------------------------
(* The command's thread: reference, context, lock request. *)

\* ocf_mngt_cache_get_by_name
GetCache(p) ==
    /\ pc[p] = "idle"
    /\ \/ Goto(p, "begin") /\ refs' = [refs EXCEPT ![p] = 1] /\ UNCHANGED ret
       \/ Return(p, "error") /\ UNCHANGED refs
    /\ UNCHANGED <<phase, ctx, op, failed, rc, writers, readers, faults>>

\* Request the lock (a flush ahead of another phase takes its own
\* reference first), or fail to allocate the context.
lock_sync(p) ==
    /\ pc[p] = "begin"
    /\ \/ /\ Goto(p, "wait lock")
          /\ ctx' = [ctx EXCEPT ![p] = FreshContext]
          /\ op' = [op EXCEPT ![p] = "queued"]
          /\ refs' = [refs EXCEPT ![p] = IF Nested(p) THEN @ + 1 ELSE @]
          /\ UNCHANGED ret
       \/ /\ Return(p, "error")
          /\ refs' = [refs EXCEPT ![p] = @ - 1]
          /\ UNCHANGED <<ctx, op>>
    /\ UNCHANGED <<phase, failed, rc, writers, readers, faults>>

\* wait_for_completion_interruptible: completed, or a signal came first.
Wait(p) ==
    /\ \/ pc[p] = "wait lock" /\ Goto(p, "set lock")
       \/ pc[p] = "wait op" /\ Goto(p, "set op")
    /\ \/ ctx[p].cmpl /\ rc' = [rc EXCEPT ![p] = "ok"]
       \/ rc' = [rc EXCEPT ![p] = "interrupted"]
    /\ UNCHANGED <<phase, ctx, op, failed, ret, writers, readers, refs, faults>>

\* After the wait for the lock: go on, or drop the references and return.
LockResult(p) ==
    LET r == caller_set_result(p) IN
    /\ pc[p] = "set lock"
    /\ ctx' = [ctx EXCEPT ![p] = IF r = "interrupted" THEN [@ EXCEPT !.result = r]
                                                      ELSE NoContext]
    /\ \/ /\ r = "ok"
          /\ Goto(p, "locked")
          /\ UNCHANGED <<ret, writers, readers, refs>>
          /\ faults' = faults \cup UseFaults(p)
       \/ /\ r # "ok"
          /\ Return(p, r)
          /\ Release(p, FALSE, PutOnFailure(p))
          /\ faults' = faults \cup UseFaults(p) \cup ReleaseFaults(p, FALSE, PutOnFailure(p))
    /\ UNCHANGED <<phase, op, failed, rc>>

\* The synchronous commands: read a parameter, or change one, and return.
LockedReturn(p, r) ==
    /\ pc[p] = "locked"
    /\ Return(p, r)
    /\ Release(p, TRUE, PutOnFailure(p))
    /\ faults' = faults \cup ReleaseFaults(p, TRUE, PutOnFailure(p))
    /\ UNCHANGED <<phase, ctx, op, failed, rc>>

get_param(p) == Phase(p) = "query" /\ \E r \in {"ok", "error"} : LockedReturn(p, r)
set_param(p) == Phase(p) = "update" /\ \E r \in {"ok", "error"} : LockedReturn(p, r)

\* A check under the lock fails, or no context can be allocated.
\* set_cache_mode that finds the mode changed meanwhile gives up with success.
GiveUp(p) ==
    /\ Phase(p) \notin {"query", "update", "detach"}
    /\ \/ LockedReturn(p, "error")
       \/ Phase(p) = "save" /\ LockedReturn(p, "ok")

\* The asynchronous operation is started.
StartOp(p) ==
    /\ pc[p] = "locked"
    /\ Phase(p) \notin {"query", "update"}
    /\ Goto(p, "wait op")
    /\ ctx' = [ctx EXCEPT ![p] = FreshContext]
    /\ op' = [op EXCEPT ![p] = "running"]
    /\ UNCHANGED <<phase, failed, rc, ret, writers, readers, refs, faults>>

\* After the wait for the operation: the context, and what the caller
\* releases itself.
OpResult(p, unlock, puts) ==
    LET r == caller_set_result(p) IN
    /\ pc[p] = "set op"
    /\ ctx' = [ctx EXCEPT ![p] = IF r = "interrupted" THEN [@ EXCEPT !.result = r]
                                                      ELSE NoContext]
    /\ Release(p, unlock, puts)
    /\ faults' = faults \cup UseFaults(p) \cup ReleaseFaults(p, unlock, puts)
    /\ UNCHANGED <<op, failed, rc>>

\* A saved parameter or mode: unlocked by the caller in any case.
save_sync(p) ==
    /\ Phase(p) = "save"
    /\ OpResult(p, TRUE, 1)
    /\ Return(p, caller_set_result(p))
    /\ UNCHANGED phase

\* A flush or purge was released by its completion.  The next phase follows
\* it, or the command drops its outer reference and returns.
flush_sync(p) ==
    LET r == caller_set_result(p)
        more == phase[p] < Len(Program[p])
    IN
    /\ Phase(p) = "flush"
    /\ OpResult(p, FALSE, IF more /\ r # "ok" THEN 1 ELSE 0)
    /\ \/ /\ more /\ r = "ok"
          /\ Goto(p, "begin")
          /\ phase' = [phase EXCEPT ![p] = @ + 1]
          /\ UNCHANGED ret
       \/ /\ ~(more /\ r = "ok")
          /\ Return(p, r)
          /\ UNCHANGED phase

\* attach_device leaves everything to the completion when interrupted.
attach_device(p) ==
    LET left == caller_set_result(p) = "interrupted" IN
    /\ Phase(p) = "attach"
    /\ OpResult(p, ~left, IF left THEN 0 ELSE 1)
    /\ Return(p, caller_set_result(p))
    /\ UNCHANGED phase

\* So does detach_cache.
detach_cache(p) ==
    LET left == caller_set_result(p) = "interrupted" IN
    /\ Phase(p) = "detach"
    /\ OpResult(p, ~left, IF left THEN 0 ELSE 1)
    /\ Return(p, caller_set_result(p))
    /\ UNCHANGED phase

\* A stopped cache was released by the finish thread.
cache_stop_sync(p) ==
    /\ Phase(p) = "stop"
    /\ OpResult(p, FALSE, 0)
    /\ Return(p, caller_set_result(p))
    /\ UNCHANGED phase

-----------------------------------------------------------------------------
(* OCF and the completions it calls. *)

\* OCF grants the lock when it is free for the mode asked for ...
OcfLockGrant(p) ==
    /\ op[p] = "queued"
    /\ writers = {} /\ (Locks(p) = "write" => readers = {})
    /\ writers' = IF Locks(p) = "write" THEN {p} ELSE writers
    /\ readers' = IF Locks(p) = "read" THEN readers \cup {p} ELSE readers
    /\ op' = [op EXCEPT ![p] = "granted"]
    /\ UNCHANGED <<pc, phase, ctx, failed, rc, ret, refs, faults>>

\* ... or ends the request with an error.
OcfLockRefuse(p) ==
    /\ op[p] = "queued"
    /\ op' = [op EXCEPT ![p] = "refused"]
    /\ UNCHANGED <<pc, phase, ctx, failed, rc, ret, writers, readers, refs, faults>>

LockCompleteKeeping(p) ==
    LET c == callee_set_result(p, op[p] = "refused") IN
    /\ op[p] \in {"granted", "refused"}
    /\ ctx' = [ctx EXCEPT ![p] = IF c.result = "interrupted" THEN NoContext ELSE c]
    /\ op' = [op EXCEPT ![p] = "none"]
    /\ UNCHANGED <<pc, phase, failed, rc, ret, writers, readers, refs, faults>>

LockCompleteFreeing(p) ==
    LET c == callee_set_result(p, op[p] = "refused") IN
    /\ op[p] \in {"granted", "refused"}
    /\ ctx' = [ctx EXCEPT ![p] = [c EXCEPT !.alloc = FALSE]]
    /\ op' = [op EXCEPT ![p] = "none"]
    /\ Release(p, c.result = "interrupted" /\ op[p] = "granted", 0)
    /\ UNCHANGED <<pc, phase, failed, rc, ret, faults>>

\* _cache_mngt_lock_complete and _cache_mngt_read_lock_complete: a lock
\* nobody waits for any more is given back.
lock_complete(p) ==
    LET c == callee_set_result(p, op[p] = "refused")
        orphan == c.result = "interrupted"
    IN
    /\ op[p] \in {"granted", "refused"}
    /\ ctx' = [ctx EXCEPT ![p] = IF orphan THEN NoContext ELSE c]
    /\ op' = [op EXCEPT ![p] = "none"]
    /\ Release(p, orphan /\ op[p] = "granted", 0)
    /\ faults' = faults \cup UseFaults(p)
                        \cup ReleaseFaults(p, orphan /\ op[p] = "granted", 0)
    /\ UNCHANGED <<pc, phase, failed, rc, ret>>

\* The operation ends, well or badly.
OcfOp(p) ==
    /\ op[p] = "running"
    /\ op' = [op EXCEPT ![p] = "ended"]
    /\ \E e \in BOOLEAN : failed' = [failed EXCEPT ![p] = e]
    /\ UNCHANGED <<pc, phase, ctx, rc, ret, writers, readers, refs, faults>>

\* The completion of a flush or purge runs compl_func, and the finish thread
\* of a stop releases the cache, before they tell the caller.
ReleaseFirst(p) ==
    /\ op[p] = "ended" /\ Phase(p) \in {"flush", "stop"}
    /\ op' = [op EXCEPT ![p] = "released"]
    /\ Release(p, TRUE, 1)
    /\ faults' = faults \cup ReleaseFaults(p, TRUE, 1)
    /\ UNCHANGED <<pc, phase, ctx, failed, rc, ret>>

\* A completion tells the caller, and cleans up itself when the caller is
\* gone: it frees the context, unlocks if asked to and drops references.
Complete(p, unlock, puts) ==
    LET c == callee_set_result(p, failed[p])
        orphan == c.result = "interrupted"
        n == IF orphan THEN puts ELSE 0
    IN
    /\ ctx' = [ctx EXCEPT ![p] = IF orphan THEN NoContext ELSE c]
    /\ op' = [op EXCEPT ![p] = "none"]
    /\ Release(p, orphan /\ unlock, n)
    /\ faults' = faults \cup UseFaults(p) \cup ReleaseFaults(p, orphan /\ unlock, n)
                        \cup Fault("double free", orphan /\ Phase(p) = "detach")
    /\ UNCHANGED <<pc, phase, failed, rc, ret>>

save_sync_complete(p) == op[p] = "ended" /\ Phase(p) = "save" /\ Complete(p, FALSE, 0)

flush_complete(p) == op[p] = "released" /\ Phase(p) = "flush" /\ Complete(p, FALSE, 0)

attach_complete(p) == op[p] = "ended" /\ Phase(p) = "attach" /\ Complete(p, TRUE, 1)

\* This one frees the context a second time and keeps the reference.
detach_cache_complete(p) ==
    op[p] = "ended" /\ Phase(p) = "detach" /\ Complete(p, TRUE, 0)

exit_instance_finish(p) == op[p] = "released" /\ Phase(p) = "stop" /\ Complete(p, FALSE, 0)

-----------------------------------------------------------------------------
OpReturn(p) == \/ save_sync(p) \/ flush_sync(p) \/ attach_device(p)
               \/ detach_cache(p) \/ cache_stop_sync(p)

Command(p) == \/ GetCache(p) \/ lock_sync(p) \/ Wait(p) \/ LockResult(p)
              \/ get_param(p) \/ set_param(p) \/ GiveUp(p)
              \/ StartOp(p) \/ OpReturn(p)

Callee(p) == \/ OcfLockGrant(p) \/ lock_complete(p)
             \/ OcfOp(p) \/ ReleaseFirst(p)
             \/ save_sync_complete(p) \/ flush_complete(p) \/ attach_complete(p)
             \/ detach_cache_complete(p) \/ exit_instance_finish(p)

\* Every command has returned and every OCF call has been completed.
Over == \A p \in Cmds : pc[p] = "done" /\ op[p] = "none"

Next == \/ \E p \in Cmds : Command(p) \/ Callee(p) \/ OcfLockRefuse(p)
        \/ (Over /\ UNCHANGED vars)

Spec == Init /\ [][Next]_vars

\* Threads run, OCF completes what it was asked for and grants a lock that
\* stays free.  Signals need not come, so a waiting
\* thread moves on only when its context is completed.
Fairness ==
    \A p \in Cmds :
        /\ WF_vars(Command(p) /\ (pc[p] \in {"wait lock", "wait op"} => ctx[p].cmpl))
        /\ WF_vars(Callee(p))

FairSpec == Spec /\ Fairness

-----------------------------------------------------------------------------
\* Type invariant.
TypeOK ==
    /\ pc \in [Cmds -> {"idle", "begin", "wait lock", "set lock", "locked",
                        "wait op", "set op", "done"}]
    /\ phase \in [Cmds -> 1..2]
    /\ ctx \in [Cmds -> [alloc : BOOLEAN, cmpl : BOOLEAN,
                         result : {"none", "ok", "error", "interrupted"}]]
    /\ op \in [Cmds -> {"none", "queued", "granted", "refused",
                        "running", "ended", "released"}]
    /\ failed \in [Cmds -> BOOLEAN]
    /\ rc \in [Cmds -> {"ok", "interrupted"}]
    /\ ret \in [Cmds -> {"none", "ok", "error", "interrupted"}]
    /\ writers \subseteq Cmds
    /\ readers \subseteq Cmds
    /\ refs \in [Cmds -> 0..2]
    /\ faults \subseteq {"unlock", "put", "use after free", "double free"}

\* However the signal, the completion and the wake-up interleave, neither
\* side uses or frees a context the other has freed, and nobody unlocks the
\* cache or drops a reference without having it.
NoFault == faults = {}

\* A command that has returned and whose operation is over leaves nothing
\* behind: its context is freed, the cache lock and the reference are given
\* back, whether or not its waits were interrupted.
NothingLeaks ==
    \A p \in Cmds : pc[p] = "done" /\ op[p] = "none" =>
        ~ctx[p].alloc /\ ~Holds(p) /\ refs[p] = 0

\* The cache lock is held while a command works under it, and while an
\* operation that its caller gave up waiting for still runs.  (A save is the
\* exception: its interrupted caller unlocks the cache under it.)
WorksUnderLock ==
    /\ \A p \in Cmds :
        \/ pc[p] = "locked"
        \/ op[p] \in {"running", "ended"} /\ Phase(p) # "save"
        => p \in (IF Locks(p) = "write" THEN writers ELSE readers)
    /\ \A p, q \in Cmds : p \in writers /\ Holds(q) => p = q

\* A command reports success of an asynchronous operation only after the
\* operation has ended without an error.
SuccessIsReal ==
    [][\A p \in Cmds : OpReturn(p) /\ ret'[p] = "ok" => op[p] = "none" /\ ~failed[p]]_vars

\* Every command returns, and every lock and operation it started is
\* eventually over.
AllEnd == \A p \in Cmds : <>[](pc[p] = "done" /\ op[p] = "none")

\* An interrupted detach ends by itself ("The operation will finish
\* asynchronously."): it gives back all it holds, without misuse.
DetachFinishes ==
    \A p \in Cmds : pc[p] = "done" /\ op[p] = "none" =>
        faults = {} /\ ~ctx[p].alloc /\ ~Holds(p) /\ refs[p] = 0

=============================================================================
