-------------------------- MODULE MngtAsyncProofs ---------------------------
(***************************************************************************)
(* Proofs about MngtAsync, for any set of commands and any programs that   *)
(* do not detach the cache (an interrupted detach really misbehaves).      *)
(*                                                                         *)
(* The inductive invariant says, for every place the command's thread and  *)
(* its OCF call can jointly be in, who owns what: whether the context is   *)
(* allocated and what it says, whether the cache lock is held, and how     *)
(* many references to the cache are left to put.                           *)
(***************************************************************************)
EXTENDS MngtAsync, TLAPS

NoDetach == \A p \in Cmds : \A i \in 1..Len(Program[p]) : Program[p][i] # "detach"

ReleasedEarly(p) == Phase(p) \in {"flush", "stop"}

\* The command has a context that says r (and was signalled, or not).
Says(p, r, signalled) ==
    ctx[p].alloc /\ ctx[p].result = r /\ (ctx[p].cmpl <=> signalled)

Locking(p) ==
    /\ refs[p] = PutOnFailure(p)
    /\ pc[p] = "set lock" /\ rc[p] = "ok" => ctx[p].cmpl
    /\ \/ op[p] \in {"queued", "refused"} /\ Says(p, "none", FALSE) /\ ~Holds(p)
       \/ op[p] = "granted" /\ Says(p, "none", FALSE) /\ Holds(p)
       \/ op[p] = "none" /\ Says(p, "ok", TRUE) /\ Holds(p)
       \/ op[p] = "none" /\ Says(p, "error", TRUE) /\ ~Holds(p)

Operating(p) ==
    /\ Phase(p) \notin {"query", "update"}
    /\ pc[p] = "set op" /\ rc[p] = "ok" => ctx[p].cmpl
    /\ \/ /\ op[p] \in {"running", "ended"} /\ Says(p, "none", FALSE)
          /\ Holds(p) /\ refs[p] = PutOnFailure(p)
       \/ /\ op[p] = "released" /\ ReleasedEarly(p) /\ Says(p, "none", FALSE)
          /\ ~Holds(p) /\ refs[p] = PutOnFailure(p) - 1
       \/ /\ op[p] = "none" /\ Says(p, IF failed[p] THEN "error" ELSE "ok", TRUE)
          /\ (Holds(p) <=> ~ReleasedEarly(p))
          /\ ReleasedEarly(p) => refs[p] = PutOnFailure(p) - 1
          /\ ~ReleasedEarly(p) => refs[p] = PutOnFailure(p)

\* Once the command has returned: nothing, or what the completion it did
\* not wait for still has to clean up.
Leaving(p) ==
    \/ op[p] = "none" /\ ~ctx[p].alloc /\ ~Holds(p) /\ refs[p] = 0
    \/ /\ op[p] # "none" /\ ctx[p].alloc /\ ctx[p].result = "interrupted"
       /\ \/ op[p] \in {"queued", "refused"} /\ ~Holds(p) /\ refs[p] = 0
          \/ op[p] = "granted" /\ Holds(p) /\ refs[p] = 0
          \/ /\ op[p] \in {"running", "ended"} /\ Phase(p) = "save"
             /\ ~Holds(p) /\ refs[p] = 0
          \/ /\ op[p] \in {"running", "ended"}
             /\ Phase(p) \notin {"query", "update", "save"}
             /\ Holds(p) /\ refs[p] = 1
          \/ op[p] = "released" /\ ReleasedEarly(p) /\ ~Holds(p) /\ refs[p] = 0

Owns(p) ==
    /\ pc[p] = "idle" =>
         op[p] = "none" /\ ~ctx[p].alloc /\ ~Holds(p) /\ refs[p] = 0 /\ phase[p] = 1
    /\ pc[p] = "begin" => op[p] = "none" /\ ~ctx[p].alloc /\ ~Holds(p) /\ refs[p] = 1
    /\ pc[p] = "locked" =>
         op[p] = "none" /\ ~ctx[p].alloc /\ Holds(p) /\ refs[p] = PutOnFailure(p)
    /\ pc[p] \in {"wait lock", "set lock"} => Locking(p)
    /\ pc[p] \in {"wait op", "set op"} => Operating(p)
    /\ pc[p] = "done" => Leaving(p)

LockSound ==
    /\ \A p \in writers : Locks(p) = "write"
    /\ \A p \in readers : Locks(p) = "read"
    /\ \A p, q \in Cmds : p \in writers /\ Holds(q) => p = q

IInv ==
    /\ TypeOK
    /\ NoFault
    /\ \A p \in Cmds : phase[p] \in 1..Len(Program[p])
    /\ \A p \in Cmds : Owns(p)
    /\ LockSound

-----------------------------------------------------------------------------
(* What a step of one command leaves alone. *)

SameFor(q) ==
    /\ pc'[q] = pc[q] /\ phase'[q] = phase[q] /\ ctx'[q] = ctx[q] /\ op'[q] = op[q]
    /\ failed'[q] = failed[q] /\ rc'[q] = rc[q] /\ refs'[q] = refs[q]
    /\ q \in writers' <=> q \in writers
    /\ q \in readers' <=> q \in readers

LEMMA MoreThanOne == \A n : n > 1 => n # 1
  OBVIOUS

\* A phase that goes on with another one is a flush: only then does a
\* command hold two references (ocf_mngt_cache_get in _cache_flush_with_lock).
LEMMA NestedIsFlush ==
    ASSUME NEW p \in Cmds, Nested(p) PROVE Phase(p) = "flush"
  <1>1. Len(Program[p]) > 1 /\ phase[p] = 1
    BY DEF Nested
  <1>2. Len(Program[p]) # 1
    BY Zenon, <1>1, MoreThanOne
  <1>3. Program[p][1] = "flush"
    BY <1>2, PhasesAssumption
  <1> QED
    BY <1>1, <1>3 DEF Phase

LEMMA MoreArithmetic ==
    \A n \in {1, 2} : \A k \in 1..n : 
        /\ k \in 1..2 /\ (k < n <=> n > 1 /\ k = 1)
        /\ k < n => k + 1 \in 1..n
  OBVIOUS

LEMMA PutArithmetic ==
    \A a, b \in 0..2 : a = b \/ b = 0 =>
        /\ a - b \in 0..2
        /\ a = b => a - b = 0
        /\ b = 0 => a - b = a
  OBVIOUS

LEMMA MoreIsNested ==
    ASSUME NEW p \in Cmds, phase[p] \in 1..Len(Program[p])
    PROVE  phase[p] < Len(Program[p]) <=> Nested(p)
  <1>1. Len(Program[p]) \in {1, 2}
    BY PhasesAssumption
  <1> QED
    BY Zenon, <1>1, MoreArithmetic DEF Nested

\* A command drops one reference when it fails, or two.
LEMMA PutRange ==
    ASSUME NEW p \in Cmds
    PROVE  \/ PutOnFailure(p) = 1
           \/ PutOnFailure(p) = 2 /\ Nested(p) /\ Phase(p) = "flush"
  <1>1. CASE Nested(p)
    BY <1>1, NestedIsFlush DEF PutOnFailure
  <1>2. CASE ~Nested(p)
    BY <1>2 DEF PutOnFailure
  <1> QED
    BY <1>1, <1>2

\* The ownership of a command is a matter of its own state.
LEMMA OwnsFrame ==
    ASSUME NEW q \in Cmds, Owns(q), SameFor(q) PROVE Owns(q)'
  <1>1. Phase(q)' = Phase(q) /\ PutOnFailure(q)' = PutOnFailure(q)
    BY DEF SameFor, Phase, PutOnFailure, Nested
  <1>2. Holds(q)' <=> Holds(q)
    BY DEF SameFor, Holds
  <1>3. Locking(q) /\ pc[q] \in {"wait lock", "set lock"} => Locking(q)'
    BY Zenon, <1>1, <1>2 DEF SameFor, Locking, Says
  <1>4. Operating(q) /\ pc[q] \in {"wait op", "set op"} => Operating(q)'
    BY Zenon, <1>1, <1>2 DEF SameFor, Operating, Says, ReleasedEarly
  <1>5. Leaving(q) => Leaving(q)'
    BY <1>1, <1>2 DEF SameFor, Leaving, ReleasedEarly
  <1> QED
    BY Zenon, <1>1, <1>2, <1>3, <1>4, <1>5 DEF Owns, SameFor

\* Giving locks back cannot break the exclusion of readers and writers.
LEMMA LockFrame ==
    ASSUME LockSound, writers' \subseteq writers, readers' \subseteq readers,
           \A q \in writers' \cup readers' : phase'[q] = phase[q]
    PROVE  LockSound'
  <1>1. \A q \in writers' \cup readers' : Locks(q)' = Locks(q)
    BY DEF Locks, Phase
  <1> QED
    BY <1>1 DEF LockSound, Holds

Places == {"idle", "begin", "wait lock", "set lock", "locked", "wait op", "set op", "done"}
OpStates == {"none", "queued", "granted", "refused", "running", "ended", "released"}
Results == {"none", "ok", "error", "interrupted"}
Contexts == [alloc : BOOLEAN, cmpl : BOOLEAN, result : Results]

\* The effect of a step on the command that takes it.
Moved(p, l, k, c, o, f, r, t, n) ==
    /\ pc' = [pc EXCEPT ![p] = l] /\ phase' = [phase EXCEPT ![p] = k]
    /\ ctx' = [ctx EXCEPT ![p] = c] /\ op' = [op EXCEPT ![p] = o]
    /\ failed' = [failed EXCEPT ![p] = f] /\ rc' = [rc EXCEPT ![p] = r]
    /\ ret' = [ret EXCEPT ![p] = t] /\ refs' = [refs EXCEPT ![p] = n]

LEMMA FreshIsContext == FreshContext \in Contexts /\ NoContext \in Contexts
  BY Zenon DEF FreshContext, NoContext, Contexts, Results

\* Leaving a variable alone is setting the command's entry to what it is.
LEMMA Unmoved ==
    ASSUME TypeOK, NEW p \in Cmds
    PROVE  /\ pc = [pc EXCEPT ![p] = pc[p]] /\ phase = [phase EXCEPT ![p] = phase[p]]
           /\ ctx = [ctx EXCEPT ![p] = ctx[p]] /\ op = [op EXCEPT ![p] = op[p]]
           /\ failed = [failed EXCEPT ![p] = failed[p]] /\ rc = [rc EXCEPT ![p] = rc[p]]
           /\ ret = [ret EXCEPT ![p] = ret[p]] /\ refs = [refs EXCEPT ![p] = refs[p]]
  BY ZenonT(30) DEF TypeOK

OthersKeepLocks(p) ==
    /\ writers' \subseteq Cmds /\ readers' \subseteq Cmds
    /\ \A q \in Cmds \ {p} : /\ q \in writers' <=> q \in writers
                             /\ q \in readers' <=> q \in readers

LEMMA MovedAt ==
    ASSUME IInv, NEW p \in Cmds, NEW l, NEW k, NEW c, NEW o, NEW f, NEW r, NEW t, NEW n,
           Moved(p, l, k, c, o, f, r, t, n)
    PROVE  /\ pc'[p] = l /\ phase'[p] = k /\ ctx'[p] = c /\ op'[p] = o
           /\ failed'[p] = f /\ rc'[p] = r /\ ret'[p] = t /\ refs'[p] = n
  BY ZenonT(30) DEF Moved, IInv, TypeOK

LEMMA TypedAt ==
    ASSUME IInv, NEW p \in Cmds
    PROVE  /\ pc[p] \in Places /\ phase[p] \in 1..Len(Program[p]) /\ op[p] \in OpStates
           /\ rc[p] \in {"ok", "interrupted"} /\ ret[p] \in Results /\ refs[p] \in 0..2
           /\ ctx[p] \in Contexts /\ failed[p] \in BOOLEAN
  <1>1. ctx[p] \in Contexts
    BY Zenon DEF IInv, TypeOK, Contexts, Results
  <1>2. failed[p] \in BOOLEAN
    BY Zenon DEF IInv, TypeOK
  <1> QED
    BY Zenon, <1>1, <1>2 DEF IInv, TypeOK, Places, OpStates, Results

\* One command moves, the others keep what they own.
LEMMA MovedKeeps ==
    ASSUME IInv, NEW p \in Cmds,
           NEW l \in Places, NEW k \in 1..Len(Program[p]), NEW c \in Contexts,
           NEW o \in OpStates, NEW f \in BOOLEAN, NEW r \in {"ok", "interrupted"},
           NEW t \in Results, NEW n \in 0..2,
           Moved(p, l, k, c, o, f, r, t, n), faults' = {},
           OthersKeepLocks(p), Owns(p)', LockSound'
    PROVE  IInv'
  <1>1. k \in 1..2
    <2>1. Len(Program[p]) \in {1, 2}
      BY PhasesAssumption
    <2> QED
      BY Zenon, <2>1, MoreArithmetic
  <1>2. /\ pc' \in [Cmds -> Places] /\ op' \in [Cmds -> OpStates]
        /\ rc' \in [Cmds -> {"ok", "interrupted"}] /\ ret' \in [Cmds -> Results]
    BY Zenon DEF Moved, IInv, TypeOK, Places, OpStates, Results
  <1>3. phase' \in [Cmds -> 1..2] /\ refs' \in [Cmds -> 0..2]
    BY Zenon, <1>1 DEF Moved, IInv, TypeOK
  <1>4. ctx' \in [Cmds -> Contexts]
    BY Zenon DEF Moved, IInv, TypeOK, Contexts, Results
  <1>5. failed' \in [Cmds -> BOOLEAN]
    BY Zenon DEF Moved, IInv, TypeOK
  <1>6. TypeOK'
    BY Zenon, <1>2, <1>3, <1>4, <1>5
    DEF TypeOK, Places, OpStates, Results, Contexts, OthersKeepLocks
  <1>7. \A q \in Cmds \ {p} : SameFor(q)
    BY ZenonT(30) DEF Moved, SameFor, OthersKeepLocks, IInv, TypeOK
  <1>8. \A q \in Cmds : Owns(q)'
    BY <1>7, OwnsFrame DEF IInv
  <1>9. \A q \in Cmds : phase'[q] \in 1..Len(Program[q])
    BY ZenonT(30) DEF Moved, IInv, TypeOK
  <1> QED
    BY <1>6, <1>8, <1>9 DEF IInv, NoFault

-----------------------------------------------------------------------------
(* One lemma per action. *)

\* Taking a reference.
LEMMA GetCacheKeeps ==
    ASSUME IInv, NEW p \in Cmds, GetCache(p) PROVE IInv'
  <1>1. op[p] = "none" /\ ~ctx[p].alloc /\ ~Holds(p) /\ refs[p] = 0 /\ phase[p] = 1
    BY Zenon DEF IInv, Owns, GetCache
  <1>2. /\ writers' = writers /\ readers' = readers /\ faults' = {} /\ phase' = phase
    BY DEF IInv, NoFault, GetCache
  <1>3. LockSound' /\ OthersKeepLocks(p)
    BY Zenon, <1>2, LockFrame DEF IInv, TypeOK, OthersKeepLocks
  <1>4. ~Holds(p)'
    BY <1>1, <1>2 DEF Holds
  <1>5. CASE Moved(p, "begin", phase[p], ctx[p], op[p], failed[p], rc[p], ret[p], 1)
    <2>1. pc'[p] = "begin" /\ ctx'[p] = ctx[p] /\ op'[p] = op[p] /\ refs'[p] = 1
      BY <1>5, MovedAt
    <2>2. Owns(p)'
      BY <1>1, <1>4, <2>1 DEF Owns
    <2>3. "begin" \in Places /\ 1 \in 0..2
      BY DEF Places
    <2> QED
      BY <1>2, <1>3, <1>5, <2>2, <2>3, MovedKeeps, TypedAt
  <1>6. CASE Moved(p, "done", phase[p], ctx[p], op[p], failed[p], rc[p], "error", refs[p])
    <2>1. pc'[p] = "done" /\ ctx'[p] = ctx[p] /\ op'[p] = op[p] /\ refs'[p] = refs[p]
      BY <1>6, MovedAt
    <2>2. Owns(p)'
      BY <1>1, <1>4, <2>1 DEF Owns, Leaving
    <2>3. "done" \in Places /\ "error" \in Results
      BY DEF Places, Results
    <2> QED
      BY <1>2, <1>3, <1>6, <2>2, <2>3, MovedKeeps, TypedAt
  <1> QED
    BY <1>5, <1>6, Unmoved DEF GetCache, Goto, Return, Moved, IInv

\* Requesting the lock.
LEMMA LockSyncKeeps ==
    ASSUME IInv, NEW p \in Cmds, lock_sync(p) PROVE IInv'
  <1>1. op[p] = "none" /\ ~ctx[p].alloc /\ ~Holds(p) /\ refs[p] = 1
    BY Zenon DEF IInv, Owns, lock_sync
  <1>2. /\ writers' = writers /\ readers' = readers /\ faults' = {} /\ phase' = phase
        /\ failed' = failed /\ rc' = rc
    BY Zenon DEF IInv, NoFault, lock_sync
  <1>3. LockSound' /\ OthersKeepLocks(p)
    BY Zenon, <1>2, LockFrame DEF IInv, TypeOK, OthersKeepLocks
  <1>4. ~Holds(p)'
    BY <1>1, <1>2 DEF Holds
  <1>5. CASE Moved(p, "wait lock", phase[p], FreshContext, "queued", failed[p], rc[p],
                   ret[p], PutOnFailure(p))
    <2>1. /\ pc'[p] = "wait lock" /\ phase'[p] = phase[p] /\ ctx'[p] = FreshContext
          /\ op'[p] = "queued" /\ refs'[p] = PutOnFailure(p)
      BY <1>5, Zenon DEF Moved, IInv, TypeOK
    <2>2. FreshContext.alloc /\ FreshContext.result = "none" /\ ~FreshContext.cmpl
      BY DEF FreshContext, NoContext
    <2>3. PutOnFailure(p)' = PutOnFailure(p)
      BY Zenon, <2>1 DEF PutOnFailure, Nested
    <2>4. Owns(p)'
      <3>1. Says(p, "none", FALSE)'
        BY Zenon, <2>1, <2>2 DEF Says
      <3>2. Locking(p)'
        BY Zenon, <1>4, <2>1, <2>3, <3>1 DEF Locking
      <3> QED
        BY Zenon, <2>1, <3>2 DEF Owns
    <2>5. "wait lock" \in Places /\ "queued" \in OpStates
      BY DEF Places, OpStates
    <2>6. PutOnFailure(p) \in 0..2
      BY PutRange
    <2> QED
      BY Zenon, <1>2, <1>3, <1>5, <2>4, <2>5, <2>6, FreshIsContext, MovedKeeps, TypedAt
  <1>6. CASE Moved(p, "done", phase[p], ctx[p], op[p], failed[p], rc[p], "error", 0)
    <2>1. pc'[p] = "done" /\ ctx'[p] = ctx[p] /\ op'[p] = op[p] /\ refs'[p] = 0
      BY <1>6, MovedAt
    <2>2. Owns(p)'
      BY <1>1, <1>4, <2>1 DEF Owns, Leaving
    <2>3. "done" \in Places /\ "error" \in Results /\ 0 \in 0..2
      BY DEF Places, Results
    <2> QED
      BY <1>2, <1>3, <1>6, <2>2, <2>3, MovedKeeps, TypedAt, Zenon
  <1>7. (IF Nested(p) THEN refs[p] + 1 ELSE refs[p]) = PutOnFailure(p) /\ refs[p] - 1 = 0
    BY <1>1 DEF PutOnFailure
  <1> QED
    BY Zenon, <1>5, <1>6, <1>7, Unmoved DEF lock_sync, Goto, Return, Moved, IInv

\* Waking up, because of the completion or of a signal.
LEMMA WaitKeeps ==
    ASSUME IInv, NEW p \in Cmds, Wait(p) PROVE IInv'
  <1>1. /\ writers' = writers /\ readers' = readers /\ faults' = {} /\ phase' = phase
        /\ ctx' = ctx /\ op' = op /\ failed' = failed /\ refs' = refs
    BY Zenon DEF IInv, NoFault, Wait
  <1>2. LockSound' /\ OthersKeepLocks(p)
    BY Zenon, <1>1, LockFrame DEF IInv, TypeOK, OthersKeepLocks
  <1>3. /\ Holds(p)' <=> Holds(p)
        /\ PutOnFailure(p)' = PutOnFailure(p)
        /\ Phase(p)' = Phase(p)
    BY <1>1 DEF Holds, PutOnFailure, Nested, Phase
  <1>4. PICK r \in {"ok", "interrupted"} :
            rc' = [rc EXCEPT ![p] = r] /\ (r = "ok" => ctx[p].cmpl)
    BY Zenon DEF Wait
  <1>5. rc'[p] = r
    BY Zenon, <1>4 DEF IInv, TypeOK
  <1>6. CASE pc[p] = "wait lock"
    <2>1. Moved(p, "set lock", phase[p], ctx[p], op[p], failed[p], r, ret[p], refs[p])
      BY Zenon, <1>4, <1>6, Unmoved DEF Wait, Goto, Moved, IInv
    <2>2. pc'[p] = "set lock"
      BY ZenonT(30), <2>1, MovedAt
    <2>3. Locking(p)
      BY Zenon, <1>6 DEF IInv, Owns
    <2>4. Locking(p)'
      BY Zenon, <1>1, <1>3, <1>4, <1>5, <2>2, <2>3 DEF Locking, Says
    <2>5. Owns(p)'
      BY Zenon, <2>2, <2>4 DEF Owns
    <2>6. "set lock" \in Places
      BY DEF Places
    <2> QED
      BY Zenon, <1>1, <1>2, <2>1, <2>5, <2>6, MovedKeeps, TypedAt
  <1>7. CASE pc[p] = "wait op"
    <2>1. Moved(p, "set op", phase[p], ctx[p], op[p], failed[p], r, ret[p], refs[p])
      BY Zenon, <1>4, <1>7, Unmoved DEF Wait, Goto, Moved, IInv
    <2>2. pc'[p] = "set op"
      BY ZenonT(30), <2>1, MovedAt
    <2>3. Operating(p)
      BY Zenon, <1>7 DEF IInv, Owns
    <2>4. Operating(p)'
      BY Zenon, <1>1, <1>3, <1>4, <1>5, <2>2, <2>3 DEF Operating, Says, ReleasedEarly
    <2>5. Owns(p)'
      BY Zenon, <2>2, <2>4 DEF Owns
    <2>6. "set op" \in Places
      BY DEF Places
    <2> QED
      BY Zenon, <1>1, <1>2, <2>1, <2>5, <2>6, MovedKeeps, TypedAt
  <1> QED
    BY Zenon, <1>6, <1>7 DEF Wait

\* What the caller can find after waiting for the lock.
LEMMA LockOutcome ==
    ASSUME IInv, NEW p \in Cmds, pc[p] = "set lock"
    PROVE  /\ ctx[p].alloc /\ refs[p] = PutOnFailure(p)
           /\ \/ caller_set_result(p) = "ok" /\ op[p] = "none" /\ Holds(p)
              \/ caller_set_result(p) = "error" /\ op[p] = "none" /\ ~Holds(p)
              \/ /\ caller_set_result(p) = "interrupted"
                 /\ \/ op[p] \in {"queued", "refused"} /\ ~Holds(p)
                    \/ op[p] = "granted" /\ Holds(p)
  <1>1. Locking(p)
    BY Zenon DEF IInv, Owns
  <1>2. rc[p] \in {"ok", "interrupted"}
    BY Zenon, TypedAt
  <1> QED
    BY Zenon, <1>1, <1>2 DEF Locking, Says, caller_set_result

\* ... and after waiting for the operation.
LEMMA OpOutcome ==
    ASSUME IInv, NEW p \in Cmds, pc[p] = "set op"
    PROVE  /\ ctx[p].alloc /\ Phase(p) \notin {"query", "update"}
           /\ \/ /\ caller_set_result(p) = "interrupted"
                 /\ op[p] \in {"running", "ended"}
                 /\ Holds(p) /\ refs[p] = PutOnFailure(p)
              \/ /\ caller_set_result(p) = "interrupted" /\ op[p] = "released"
                 /\ ReleasedEarly(p) /\ ~Holds(p) /\ refs[p] = PutOnFailure(p) - 1
              \/ /\ caller_set_result(p) \in {"ok", "error"}
                 /\ op[p] = "none" /\ (Holds(p) <=> ~ReleasedEarly(p))
                 /\ ReleasedEarly(p) => refs[p] = PutOnFailure(p) - 1
                 /\ ~ReleasedEarly(p) => refs[p] = PutOnFailure(p)
  <1>1. Operating(p)
    BY Zenon DEF IInv, Owns
  <1>2. rc[p] \in {"ok", "interrupted"}
    BY Zenon, TypedAt
  <1> QED
    BY Zenon, <1>1, <1>2 DEF Operating, Says, caller_set_result

\* The context the caller leaves behind: marked for the completion, or freed.
LeftContext(p) ==
    IF caller_set_result(p) = "interrupted"
    THEN [ctx[p] EXCEPT !.result = caller_set_result(p)] ELSE NoContext

LEMMA LeftIsContext ==
    ASSUME IInv, NEW p \in Cmds, caller_set_result(p) \in Results, ctx[p].alloc
    PROVE  /\ LeftContext(p) \in Contexts
           /\ caller_set_result(p) = "interrupted" =>
                LeftContext(p).alloc /\ LeftContext(p).result = "interrupted"
           /\ caller_set_result(p) # "interrupted" => ~LeftContext(p).alloc
  <1>1. ctx[p] \in Contexts
    BY TypedAt
  <1> QED
    BY <1>1 DEF LeftContext, NoContext, Contexts, Results

\* After the wait for the lock.
LEMMA LockResultKeeps ==
    ASSUME IInv, NEW p \in Cmds, LockResult(p) PROVE IInv'
  <1> DEFINE r == caller_set_result(p)
  <1>0. pc[p] = "set lock"
    BY Zenon DEF LockResult
  <1>1. /\ ctx[p].alloc /\ refs[p] = PutOnFailure(p)
        /\ \/ r = "ok" /\ op[p] = "none" /\ Holds(p)
           \/ r = "error" /\ op[p] = "none" /\ ~Holds(p)
           \/ /\ r = "interrupted"
              /\ \/ op[p] \in {"queued", "refused"} /\ ~Holds(p)
                 \/ op[p] = "granted" /\ Holds(p)
    BY Zenon, <1>0, LockOutcome
  <1>2. PutOnFailure(p) \in 0..2
    BY PutRange
  <1>3. /\ writers' = writers /\ readers' = readers /\ phase' = phase
        /\ op' = op /\ failed' = failed /\ rc' = rc
    BY Zenon DEF LockResult, Release
  <1>4. faults' = {}
    <2>1. UseFaults(p) = {} /\ ReleaseFaults(p, FALSE, PutOnFailure(p)) = {}
      BY <1>1, <1>2 DEF UseFaults, ReleaseFaults, Fault
    <2> QED
      BY Zenon, <2>1 DEF LockResult, IInv, NoFault
  <1>5. LockSound' /\ OthersKeepLocks(p)
    BY Zenon, <1>3, LockFrame DEF IInv, TypeOK, OthersKeepLocks
  <1>6. r \in Results
    BY <1>1 DEF Results
  <1>7. /\ LeftContext(p) \in Contexts
        /\ r = "interrupted" => LeftContext(p).alloc /\ LeftContext(p).result = "interrupted"
        /\ r # "interrupted" => ~LeftContext(p).alloc
    BY <1>1, <1>6, LeftIsContext
  <1>8. ctx' = [ctx EXCEPT ![p] = LeftContext(p)]
    BY Zenon DEF LockResult, LeftContext
  <1>9. PutOnFailure(p)' = PutOnFailure(p) /\ (Holds(p)' <=> Holds(p))
    BY <1>3, Zenon DEF PutOnFailure, Nested, Holds
  <1>10. CASE r = "ok"
    <2>1. Moved(p, "locked", phase[p], LeftContext(p), op[p], failed[p], rc[p], ret[p], refs[p])
      BY Zenon, <1>3, <1>8, <1>10, Unmoved DEF LockResult, Goto, Moved, IInv
    <2>2. pc'[p] = "locked" /\ ctx'[p] = LeftContext(p) /\ op'[p] = op[p] /\ refs'[p] = refs[p]
      BY <2>1, ZenonT(30) DEF Moved, IInv, TypeOK
    <2>3. Owns(p)'
      BY <1>1, <1>7, <1>9, <1>10, <2>2 DEF Owns
    <2>4. "locked" \in Places
      BY DEF Places
    <2> QED
      BY <1>4, <1>5, <1>7, <2>1, <2>3, <2>4, MovedKeeps, TypedAt
  <1>11. CASE r # "ok"
    <2>1. refs[p] - PutOnFailure(p) = 0
      BY <1>1, <1>2
    <2>2. Moved(p, "done", phase[p], LeftContext(p), op[p], failed[p], rc[p], r, 0)
      BY Zenon, <1>3, <1>8, <1>11, <2>1, Unmoved DEF LockResult, Goto, Return,
         Release, Moved, IInv
    <2>3. pc'[p] = "done" /\ ctx'[p] = LeftContext(p) /\ op'[p] = op[p] /\ refs'[p] = 0
      BY <2>2, ZenonT(30) DEF Moved, IInv, TypeOK
    <2>4. Leaving(p)'
      BY <1>1, <1>7, <1>9, <1>11, <2>3 DEF Leaving
    <2>5. Owns(p)'
      BY <2>3, <2>4 DEF Owns
    <2>6. "done" \in Places /\ 0 \in 0..2
      BY DEF Places
    <2> QED
      BY <1>4, <1>5, <1>6, <1>7, <2>2, <2>5, <2>6, MovedKeeps, TypedAt, SMTT(30)
  <1> QED
    BY <1>10, <1>11

\* Returning with the lock held.
LEMMA LockedReturnKeeps ==
    ASSUME IInv, NEW p \in Cmds, NEW r \in Results, LockedReturn(p, r) PROVE IInv'
  <1>1. op[p] = "none" /\ ~ctx[p].alloc /\ Holds(p) /\ refs[p] = PutOnFailure(p)
    BY Zenon DEF LockedReturn, IInv, Owns
  <1>2. PutOnFailure(p) \in 0..2
    BY PutRange
  <1>3. /\ writers' = writers \ {p} /\ readers' = readers \ {p} /\ phase' = phase
        /\ refs' = [refs EXCEPT ![p] = refs[p] - PutOnFailure(p)]
    BY DEF LockedReturn, Release
  <1>4. faults' = {}
    <2>1. ReleaseFaults(p, TRUE, PutOnFailure(p)) = {}
      BY <1>1, <1>2 DEF ReleaseFaults, Fault
    <2> QED
      BY Zenon, <2>1 DEF LockedReturn, IInv, NoFault
  <1>5. LockSound' /\ OthersKeepLocks(p)
    BY Zenon, <1>3, LockFrame DEF IInv, TypeOK, OthersKeepLocks
  <1>6. refs[p] - PutOnFailure(p) = 0
    BY <1>1, <1>2
  <1>7. Moved(p, "done", phase[p], ctx[p], op[p], failed[p], rc[p], r, 0)
    BY Zenon, <1>3, <1>6, Unmoved DEF LockedReturn, Goto, Return, Moved, IInv
  <1>8. pc'[p] = "done" /\ ctx'[p] = ctx[p] /\ op'[p] = op[p] /\ refs'[p] = 0
    BY <1>7, Zenon DEF Moved, IInv, TypeOK
  <1>9. ~Holds(p)'
    BY <1>3 DEF Holds
  <1>10. Owns(p)'
    BY <1>1, <1>8, <1>9 DEF Owns, Leaving
  <1>11. "done" \in Places /\ 0 \in 0..2
    BY DEF Places
  <1> QED
    BY <1>4, <1>5, <1>7, <1>10, <1>11, MovedKeeps, TypedAt

\* Starting the asynchronous operation.
LEMMA StartOpKeeps ==
    ASSUME IInv, NEW p \in Cmds, StartOp(p) PROVE IInv'
  <1>1. Holds(p) /\ refs[p] = PutOnFailure(p) /\ Phase(p) \notin {"query", "update"}
    BY Zenon DEF StartOp, IInv, Owns
  <1>2. /\ writers' = writers /\ readers' = readers /\ phase' = phase /\ faults' = {}
    BY Zenon DEF StartOp, IInv, NoFault
  <1>3. LockSound' /\ OthersKeepLocks(p)
    BY Zenon, <1>2, LockFrame DEF IInv, TypeOK, OthersKeepLocks
  <1>4. Moved(p, "wait op", phase[p], FreshContext, "running", failed[p], rc[p], ret[p], refs[p])
    BY Zenon, Unmoved DEF StartOp, Goto, Moved, IInv
  <1>5. /\ pc'[p] = "wait op" /\ ctx'[p] = FreshContext /\ op'[p] = "running"
        /\ refs'[p] = refs[p]
    BY <1>4, Zenon DEF Moved, IInv, TypeOK
  <1>6. /\ PutOnFailure(p)' = PutOnFailure(p) /\ Phase(p)' = Phase(p) /\ Holds(p)'
    BY <1>1, <1>2 DEF PutOnFailure, Nested, Phase, Holds
  <1>7. FreshContext.alloc /\ FreshContext.result = "none" /\ ~FreshContext.cmpl
    BY DEF FreshContext, NoContext
  <1>8. Says(p, "none", FALSE)'
    BY Zenon, <1>5, <1>7 DEF Says
  <1>9. Operating(p)'
    BY Zenon, <1>1, <1>5, <1>6, <1>8 DEF Operating
  <1>10. Owns(p)'
    BY Zenon, <1>5, <1>9 DEF Owns
  <1>11. "wait op" \in Places /\ "running" \in OpStates
    BY DEF Places, OpStates
  <1> QED
    BY Zenon, <1>2, <1>3, <1>4, <1>10, <1>11, FreshIsContext, MovedKeeps, TypedAt

\* A command that returns after an operation it ran or abandoned, and what
\* it must have left to the completion by then.
LEMMA OpReturnKeeps ==
    ASSUME IInv, NEW p \in Cmds, NEW unlock \in BOOLEAN, NEW puts \in 0..2,
           OpResult(p, unlock, puts), Return(p, caller_set_result(p)), phase' = phase,
           unlock => Holds(p), puts <= refs[p],
           caller_set_result(p) # "interrupted" =>
               (Holds(p) <=> unlock) /\ refs[p] - puts = 0,
           caller_set_result(p) = "interrupted" =>
               \/ op[p] = "released" /\ ~unlock /\ refs[p] - puts = 0
               \/ /\ op[p] # "released" /\ Phase(p) = "save"
                  /\ unlock /\ refs[p] - puts = 0
               \/ /\ op[p] # "released" /\ Phase(p) # "save"
                  /\ ~unlock /\ refs[p] - puts = 1
    PROVE  IInv'
  <1> DEFINE r == caller_set_result(p)
  <1>0. pc[p] = "set op"
    BY Zenon DEF OpResult
  <1>1. /\ ctx[p].alloc /\ Phase(p) \notin {"query", "update"}
        /\ \/ r = "interrupted" /\ op[p] \in {"running", "ended"} /\ Holds(p)
           \/ r = "interrupted" /\ op[p] = "released" /\ ReleasedEarly(p) /\ ~Holds(p)
           \/ r \in {"ok", "error"} /\ op[p] = "none"
    BY Zenon, <1>0, OpOutcome
  <1>2. r \in Results
    BY <1>1, Zenon DEF Results
  <1>3. /\ LeftContext(p) \in Contexts
        /\ r = "interrupted" => LeftContext(p).alloc /\ LeftContext(p).result = "interrupted"
        /\ r # "interrupted" => ~LeftContext(p).alloc
    BY <1>1, <1>2, LeftIsContext
  <1>4. ctx' = [ctx EXCEPT ![p] = LeftContext(p)]
    BY Zenon DEF OpResult, LeftContext
  <1>5. /\ writers' = IF unlock THEN writers \ {p} ELSE writers
        /\ readers' = IF unlock THEN readers \ {p} ELSE readers
        /\ refs' = [refs EXCEPT ![p] = refs[p] - puts]
    BY Zenon DEF OpResult, Release
  <1>a. refs[p] \in 0..2
    BY TypedAt
  <1>6. refs[p] - puts \in 0..2
    BY <1>a
  <1>7. faults' = {}
    <2>1. UseFaults(p) = {}
      BY <1>1 DEF UseFaults, Fault
    <2>2. ~(refs[p] < puts)
      BY <1>a
    <2>3. ReleaseFaults(p, unlock, puts) = {}
      BY <2>2 DEF ReleaseFaults, Fault
    <2> QED
      BY Zenon, <2>1, <2>3 DEF OpResult, IInv, NoFault
  <1>8. LockSound' /\ OthersKeepLocks(p)
    BY Zenon, <1>5, LockFrame DEF IInv, TypeOK, OthersKeepLocks
  <1>9. Moved(p, "done", phase[p], LeftContext(p), op[p], failed[p], rc[p], r, refs[p] - puts)
    BY Zenon, <1>4, <1>5, Unmoved DEF OpResult, Return, Goto, Moved, IInv
  <1>10. /\ pc'[p] = "done" /\ ctx'[p] = LeftContext(p) /\ op'[p] = op[p]
         /\ refs'[p] = refs[p] - puts
    BY <1>9, Zenon DEF Moved, IInv, TypeOK
  <1>11. /\ Holds(p)' <=> Holds(p) /\ ~unlock
         /\ Phase(p)' = Phase(p) /\ (ReleasedEarly(p)' <=> ReleasedEarly(p))
    BY <1>5 DEF Holds, Phase, ReleasedEarly
  <1>12. Leaving(p)'
    <2>1. CASE r = "interrupted"
      BY ZenonT(30), <1>1, <1>3, <1>10, <1>11, <2>1 DEF Leaving
    <2>2. CASE r # "interrupted"
      BY <1>1, <1>3, <1>10, <1>11, <2>2, Zenon DEF Leaving
    <2> QED
      BY ZenonT(30), <2>1, <2>2
  <1>13. Owns(p)'
    BY <1>10, <1>12 DEF Owns
  <1>14. "done" \in Places
    BY DEF Places
  <1> QED
    BY <1>2, <1>3, <1>6, <1>7, <1>8, <1>9, <1>13, <1>14, MovedKeeps, TypedAt

\* Saving, attaching, stopping, flushing: the four ways to share the work
\* of releasing the cache.
LEMMA SaveSyncKeeps ==
    ASSUME IInv, NEW p \in Cmds, save_sync(p) PROVE IInv'
  <1>1. /\ OpResult(p, TRUE, 1) /\ Return(p, caller_set_result(p)) /\ phase' = phase
        /\ pc[p] = "set op" /\ Phase(p) = "save"
    BY Zenon DEF save_sync, OpResult
  <1>2. PutOnFailure(p) = 1 /\ ~ReleasedEarly(p)
    BY Zenon, <1>1, PutRange DEF ReleasedEarly
  <1>3. Holds(p) /\ refs[p] = 1 /\ op[p] # "released"
    BY Zenon, <1>1, <1>2, OpOutcome
  <1>4. 1 \in 0..2 /\ 1 <= refs[p] /\ refs[p] - 1 = 0
    BY <1>3
  <1> QED
    BY Zenon, <1>1, <1>3, <1>4, OpReturnKeeps

LEMMA AttachDeviceKeeps ==
    ASSUME IInv, NEW p \in Cmds, attach_device(p) PROVE IInv'
  <1> DEFINE left == caller_set_result(p) = "interrupted"
  <1>1. /\ OpResult(p, ~left, IF left THEN 0 ELSE 1)
        /\ Return(p, caller_set_result(p)) /\ phase' = phase
        /\ pc[p] = "set op" /\ Phase(p) = "attach"
    BY Zenon DEF attach_device, OpResult
  <1>2. PutOnFailure(p) = 1 /\ ~ReleasedEarly(p)
    BY Zenon, <1>1, PutRange DEF ReleasedEarly
  <1>3. Holds(p) /\ refs[p] = 1 /\ op[p] # "released"
    BY Zenon, <1>1, <1>2, OpOutcome
  <1>4. CASE left
    <2>1. OpResult(p, FALSE, 0)
      BY Zenon, <1>1, <1>4
    <2>2. 0 \in 0..2 /\ 0 <= refs[p] /\ refs[p] - 0 = 1
      BY <1>3
    <2> QED
      BY Zenon, <1>1, <1>3, <1>4, <2>1, <2>2, OpReturnKeeps
  <1>5. CASE ~left
    <2>1. OpResult(p, TRUE, 1)
      BY Zenon, <1>1, <1>5
    <2>2. 1 \in 0..2 /\ 1 <= refs[p] /\ refs[p] - 1 = 0
      BY <1>3
    <2> QED
      BY Zenon, <1>1, <1>3, <1>5, <2>1, <2>2, OpReturnKeeps
  <1> QED
    BY <1>4, <1>5

LEMMA CacheStopSyncKeeps ==
    ASSUME IInv, NEW p \in Cmds, cache_stop_sync(p) PROVE IInv'
  <1>1. /\ OpResult(p, FALSE, 0) /\ Return(p, caller_set_result(p)) /\ phase' = phase
        /\ pc[p] = "set op" /\ Phase(p) = "stop"
    BY Zenon DEF cache_stop_sync, OpResult
  <1>2. PutOnFailure(p) = 1 /\ ReleasedEarly(p)
    BY Zenon, <1>1, PutRange DEF ReleasedEarly
  <1>a. /\ caller_set_result(p) = "interrupted" => op[p] # "none"
        /\ op[p] \in {"running", "ended"} =>
             caller_set_result(p) = "interrupted" /\ refs[p] = PutOnFailure(p)
        /\ op[p] = "released" =>
             caller_set_result(p) = "interrupted" /\ refs[p] = PutOnFailure(p) - 1
        /\ op[p] = "none" => ~Holds(p) /\ refs[p] = PutOnFailure(p) - 1
        /\ op[p] \in {"running", "ended", "released", "none"}
    BY Zenon, <1>1, <1>2, OpOutcome
  <1>3. \/ caller_set_result(p) = "interrupted" /\ op[p] # "released" /\ refs[p] = 1
        \/ caller_set_result(p) = "interrupted" /\ op[p] = "released" /\ refs[p] = 0
        \/ caller_set_result(p) # "interrupted" /\ ~Holds(p) /\ refs[p] = 0
    BY <1>2, <1>a
  <1>4. /\ 0 \in 0..2 /\ 0 <= refs[p]
        /\ refs[p] = 0 => refs[p] - 0 = 0
        /\ refs[p] = 1 => refs[p] - 0 = 1
    BY <1>3
  <1> QED
    BY Zenon, <1>1, <1>3, <1>4, OpReturnKeeps

LEMMA FlushSyncKeeps ==
    ASSUME IInv, NEW p \in Cmds, flush_sync(p) PROVE IInv'
  <1> DEFINE r == caller_set_result(p)
             more == phase[p] < Len(Program[p])
  <1>1. pc[p] = "set op" /\ Phase(p) = "flush"
    BY Zenon DEF flush_sync, OpResult
  <1>2. ReleasedEarly(p)
    BY Zenon, <1>1 DEF ReleasedEarly
  <1>3. phase[p] \in 1..Len(Program[p])
    BY TypedAt
  <1>4. PutOnFailure(p) = IF more THEN 2 ELSE 1
    BY <1>3, MoreIsNested DEF PutOnFailure
  <1>a. /\ r = "interrupted" => op[p] # "none"
        /\ op[p] \in {"running", "ended"} => r = "interrupted" /\ refs[p] = PutOnFailure(p)
        /\ op[p] = "released" => r = "interrupted" /\ refs[p] = PutOnFailure(p) - 1
        /\ op[p] = "none" => ~Holds(p) /\ refs[p] = PutOnFailure(p) - 1
        /\ op[p] \in {"running", "ended", "released", "none"}
    BY Zenon, <1>1, <1>2, OpOutcome
  <1>5. \/ r = "interrupted" /\ op[p] # "released" /\ refs[p] = IF more THEN 2 ELSE 1
        \/ r = "interrupted" /\ op[p] = "released" /\ refs[p] = IF more THEN 1 ELSE 0
        \/ /\ r # "interrupted" /\ op[p] = "none" /\ ~Holds(p)
           /\ refs[p] = IF more THEN 1 ELSE 0
    BY <1>4, <1>a
  <1>6. CASE more /\ r # "ok"
    <2>1. OpResult(p, FALSE, 1) /\ Return(p, r) /\ phase' = phase
      BY Zenon, <1>6 DEF flush_sync
    <2>2. /\ 1 \in 0..2 /\ 1 <= refs[p]
          /\ r = "interrupted" /\ op[p] # "released" => refs[p] - 1 = 1
          /\ r = "interrupted" /\ op[p] = "released" => refs[p] - 1 = 0
          /\ r # "interrupted" => refs[p] - 1 = 0 /\ ~Holds(p)
      BY <1>5, <1>6
    <2> QED
      BY Zenon, <1>1, <2>1, <2>2, OpReturnKeeps
  <1>7. CASE ~more
    <2>1. OpResult(p, FALSE, 0) /\ Return(p, r) /\ phase' = phase
      BY Zenon, <1>7 DEF flush_sync
    <2>2. /\ 0 \in 0..2 /\ 0 <= refs[p]
          /\ r = "interrupted" /\ op[p] # "released" => refs[p] - 0 = 1
          /\ r = "interrupted" /\ op[p] = "released" => refs[p] - 0 = 0
          /\ r # "interrupted" => refs[p] - 0 = 0 /\ ~Holds(p)
      BY <1>5, <1>7
    <2> QED
      BY Zenon, <1>1, <2>1, <2>2, OpReturnKeeps
  <1>8. CASE more /\ r = "ok"
    <2>1. /\ OpResult(p, FALSE, 0) /\ Goto(p, "begin") /\ ret' = ret
          /\ phase' = [phase EXCEPT ![p] = phase[p] + 1]
      BY Zenon, <1>8 DEF flush_sync
    <2>2. op[p] = "none" /\ ~Holds(p) /\ refs[p] = 1 /\ refs[p] - 0 = 1
      BY <1>5, <1>8
    <2>3. /\ writers' = writers /\ readers' = readers
          /\ refs' = [refs EXCEPT ![p] = refs[p] - 0]
          /\ op' = op /\ failed' = failed /\ rc' = rc
          /\ ctx' = [ctx EXCEPT ![p] = NoContext]
      BY Zenon, <1>8, <2>1 DEF OpResult, Release
    <2>4. faults' = {}
      <3>1. ctx[p].alloc
        BY Zenon, <1>1, OpOutcome
      <3>2. UseFaults(p) = {}
        BY <3>1 DEF UseFaults, Fault
      <3>3. ReleaseFaults(p, FALSE, 0) = {}
        BY <2>2 DEF ReleaseFaults, Fault
      <3> QED
        BY Zenon, <2>1, <3>2, <3>3 DEF OpResult, IInv, NoFault
    <2>5. Moved(p, "begin", phase[p] + 1, NoContext, op[p], failed[p], rc[p], ret[p], 1)
      BY <2>1, <2>2, <2>3, Unmoved DEF Goto, Moved, IInv
    <2>6. /\ pc'[p] = "begin" /\ ctx'[p] = NoContext /\ op'[p] = op[p] /\ refs'[p] = 1
      BY <2>5, Zenon DEF Moved, IInv, TypeOK
    <2>7. ~Holds(p)'
      BY <2>2, <2>3 DEF Holds
    <2>8. Owns(p)'
      BY <2>2, <2>6, <2>7 DEF Owns, NoContext
    <2>9. OthersKeepLocks(p)
      BY Zenon, <2>3 DEF OthersKeepLocks, IInv, TypeOK
    <2>10. LockSound'
      <3>1. \A q \in writers' \cup readers' : phase'[q] = phase[q]
        BY Zenon, <2>1, <2>2, <2>3 DEF Holds, IInv, TypeOK
      <3> QED
        BY <2>3, <3>1, LockFrame DEF IInv
    <2>11. phase[p] + 1 \in 1..Len(Program[p])
      <3>1. Len(Program[p]) \in {1, 2}
        BY PhasesAssumption
      <3> QED
        BY <1>3, <1>8, <3>1, MoreArithmetic
    <2>12. "begin" \in Places /\ 1 \in 0..2
      BY DEF Places
    <2> QED
      BY <2>4, <2>5, <2>8, <2>9, <2>10, <2>11, <2>12, FreshIsContext, MovedKeeps,
         TypedAt
  <1> QED
    BY <1>6, <1>7, <1>8

-----------------------------------------------------------------------------
(* The OCF side. *)

\* Where the command's thread can be while an OCF call is under way.
LEMMA PlaceOfOp ==
    ASSUME IInv, NEW p \in Cmds
    PROVE  /\ op[p] \in {"queued", "granted", "refused"} =>
                \/ pc[p] \in {"wait lock", "set lock"} /\ Locking(p)
                \/ pc[p] = "done" /\ Leaving(p)
           /\ op[p] \in {"running", "ended", "released"} =>
                \/ pc[p] \in {"wait op", "set op"} /\ Operating(p)
                \/ pc[p] = "done" /\ Leaving(p)
  <1>1. pc[p] \in Places
    BY TypedAt
  <1>2. Owns(p)
    BY DEF IInv
  <1> QED
    BY Zenon, <1>1, <1>2 DEF Places, Owns, Locking, Operating

\* The context after the completion.
LEMMA CalleeContext ==
    ASSUME IInv, NEW p \in Cmds, NEW e \in BOOLEAN
    PROVE  /\ callee_set_result(p, e) \in Contexts
           /\ callee_set_result(p, e).cmpl
           /\ callee_set_result(p, e).alloc <=> ctx[p].alloc
           /\ ctx[p].result = "interrupted" =>
                callee_set_result(p, e).result = "interrupted"
           /\ ctx[p].result # "interrupted" =>
                callee_set_result(p, e).result = IF e THEN "error" ELSE "ok"
  <1>1. ctx[p] \in Contexts
    BY ZenonT(30), TypedAt
  <1> QED
    BY Zenon, <1>1 DEF callee_set_result, Contexts, Results

\* OCF grants the lock.
LEMMA OcfLockGrantKeeps ==
    ASSUME IInv, NEW p \in Cmds, OcfLockGrant(p) PROVE IInv'
  <1>1. op[p] = "queued"
    BY DEF OcfLockGrant
  <1>2. /\ faults' = {} /\ phase' = phase /\ pc' = pc /\ ctx' = ctx /\ rc' = rc
        /\ refs' = refs /\ failed' = failed /\ ret' = ret
        /\ op' = [op EXCEPT ![p] = "granted"]
    BY DEF OcfLockGrant, IInv, NoFault
  <1>3. ~Holds(p)
    BY Zenon, <1>1, PlaceOfOp DEF Locking, Leaving
  <1>4. /\ writers = {} /\ (Locks(p) = "write" => readers = {})
        /\ Locks(p) = "write" => writers' = {p} /\ readers' = readers
        /\ Locks(p) = "read" => writers' = writers /\ readers' = readers \cup {p}
        /\ Locks(p) \in {"read", "write"}
    BY DEF OcfLockGrant, Locks
  <1>5. OthersKeepLocks(p)
    BY Zenon, <1>4 DEF OthersKeepLocks, IInv, TypeOK
  <1>6. \A q \in Cmds : Locks(q)' = Locks(q)
    BY <1>2 DEF Locks, Phase
  <1>7. Holds(p)'
    BY <1>4 DEF Holds
  <1>8. LockSound'
    <2>1. LockSound /\ writers \subseteq Cmds /\ readers \subseteq Cmds
      BY Zenon DEF IInv, TypeOK
    <2>2. CASE Locks(p) = "write"
      BY <1>4, <1>6, <2>1, <2>2 DEF LockSound, Holds
    <2>3. CASE Locks(p) = "read"
      BY <1>4, <1>6, <2>1, <2>3, Zenon DEF LockSound, Holds
    <2> QED
      BY <1>4, <2>2, <2>3
  <1>9. Moved(p, pc[p], phase[p], ctx[p], "granted", failed[p], rc[p], ret[p], refs[p])
    BY <1>2, Unmoved, Zenon DEF Moved, IInv
  <1>10. op'[p] = "granted"
    BY <1>9, MovedAt
  <1>11. PutOnFailure(p)' = PutOnFailure(p)
    BY <1>2 DEF PutOnFailure, Nested
  <1>12. Owns(p)'
    <2>1. CASE pc[p] \in {"wait lock", "set lock"} /\ Locking(p)
      <3>1. Locking(p)'
        BY Zenon, <1>1, <1>2, <1>7, <1>10, <1>11, <2>1 DEF Locking, Says
      <3> QED
        BY Zenon, <1>2, <2>1, <3>1 DEF Owns
    <2>2. CASE pc[p] = "done" /\ Leaving(p)
      <3>1. Leaving(p)'
        BY <1>1, <1>2, <1>7, <1>10, <2>2 DEF Leaving
      <3> QED
        BY <1>2, <2>2, <3>1, Zenon DEF Owns
    <2> QED
      BY Zenon, <1>1, <2>1, <2>2, PlaceOfOp
  <1>13. "granted" \in OpStates
    BY ZenonT(30) DEF OpStates
  <1> QED
    BY <1>2, <1>5, <1>8, <1>9, <1>12, <1>13, MovedKeeps, TypedAt, Zenon

\* OCF refuses it.
LEMMA OcfLockRefuseKeeps ==
    ASSUME IInv, NEW p \in Cmds, OcfLockRefuse(p) PROVE IInv'
  <1>1. op[p] = "queued"
    BY DEF OcfLockRefuse
  <1>2. /\ faults' = {} /\ phase' = phase /\ pc' = pc /\ ctx' = ctx /\ rc' = rc
        /\ refs' = refs /\ failed' = failed /\ ret' = ret
        /\ op' = [op EXCEPT ![p] = "refused"] /\ writers' = writers /\ readers' = readers
    BY DEF OcfLockRefuse, IInv, NoFault
  <1>3. LockSound' /\ OthersKeepLocks(p)
    BY Zenon, <1>2, LockFrame DEF IInv, TypeOK, OthersKeepLocks
  <1>4. Moved(p, pc[p], phase[p], ctx[p], "refused", failed[p], rc[p], ret[p], refs[p])
    BY <1>2, Unmoved, SMTT(30) DEF Moved, IInv
  <1>5. op'[p] = "refused"
    BY <1>4, MovedAt
  <1>6. PutOnFailure(p)' = PutOnFailure(p) /\ (Holds(p)' <=> Holds(p))
    BY <1>2 DEF PutOnFailure, Nested, Holds
  <1>7. Owns(p)'
    <2>1. CASE pc[p] \in {"wait lock", "set lock"} /\ Locking(p)
      <3>1. Locking(p)'
        BY Zenon, <1>1, <1>2, <1>5, <1>6, <2>1 DEF Locking, Says
      <3> QED
        BY Zenon, <1>2, <2>1, <3>1 DEF Owns
    <2>2. CASE pc[p] = "done" /\ Leaving(p)
      <3>1. Leaving(p)'
        BY <1>1, <1>2, <1>5, <1>6, <2>2 DEF Leaving
      <3> QED
        BY <1>2, <2>2, <3>1, Zenon DEF Owns
    <2> QED
      BY Zenon, <1>1, <2>1, <2>2, PlaceOfOp
  <1>8. "refused" \in OpStates
    BY ZenonT(30) DEF OpStates
  <1> QED
    BY ZenonT(30), <1>2, <1>3, <1>4, <1>7, <1>8, MovedKeeps, TypedAt

\* The operation ends.
LEMMA OcfOpKeeps ==
    ASSUME IInv, NEW p \in Cmds, OcfOp(p) PROVE IInv'
  <1>1. op[p] = "running"
    BY DEF OcfOp
  <1>2. PICK e \in BOOLEAN : failed' = [failed EXCEPT ![p] = e]
    BY Zenon DEF OcfOp
  <1>3. /\ faults' = {} /\ phase' = phase /\ pc' = pc /\ ctx' = ctx /\ rc' = rc
        /\ refs' = refs /\ ret' = ret
        /\ op' = [op EXCEPT ![p] = "ended"] /\ writers' = writers /\ readers' = readers
    BY DEF OcfOp, IInv, NoFault
  <1>4. LockSound' /\ OthersKeepLocks(p)
    BY Zenon, <1>3, LockFrame DEF IInv, TypeOK, OthersKeepLocks
  <1>5. Moved(p, pc[p], phase[p], ctx[p], "ended", e, rc[p], ret[p], refs[p])
    BY <1>2, <1>3, Unmoved, Zenon DEF Moved, IInv
  <1>6. op'[p] = "ended"
    BY <1>5, MovedAt
  <1>7. /\ PutOnFailure(p)' = PutOnFailure(p) /\ (Holds(p)' <=> Holds(p))
        /\ Phase(p)' = Phase(p)
    BY <1>3 DEF PutOnFailure, Nested, Holds, Phase
  <1>8. Owns(p)'
    <2>1. CASE pc[p] \in {"wait op", "set op"} /\ Operating(p)
      <3>1. Operating(p)'
        BY Zenon, <1>1, <1>3, <1>6, <1>7, <2>1 DEF Operating, Says
      <3> QED
        BY Zenon, <1>3, <2>1, <3>1 DEF Owns
    <2>2. CASE pc[p] = "done" /\ Leaving(p)
      <3>1. Leaving(p)'
        BY <1>1, <1>3, <1>6, <1>7, <2>2 DEF Leaving
      <3> QED
        BY ZenonT(30), <1>3, <2>2, <3>1 DEF Owns
    <2> QED
      BY Zenon, <1>1, <2>1, <2>2, PlaceOfOp
  <1>9. "ended" \in OpStates
    BY DEF OpStates
  <1> QED
    BY <1>3, <1>4, <1>5, <1>8, <1>9, MovedKeeps, TypedAt

\* A flush or a stop releases the cache.
LEMMA ReleaseFirstKeeps ==
    ASSUME IInv, NEW p \in Cmds, ReleaseFirst(p) PROVE IInv'
  <1>1. op[p] = "ended" /\ ReleasedEarly(p) /\ Phase(p) \notin {"save", "query", "update"}
    BY DEF ReleaseFirst, ReleasedEarly
  <1>2. /\ phase' = phase /\ pc' = pc /\ ctx' = ctx /\ rc' = rc /\ ret' = ret
        /\ failed' = failed /\ refs' = [refs EXCEPT ![p] = refs[p] - 1]
        /\ op' = [op EXCEPT ![p] = "released"]
        /\ writers' = writers \ {p} /\ readers' = readers \ {p}
    BY DEF ReleaseFirst, Release
  <1>3. /\ Holds(p)
        /\ \/ pc[p] \in {"wait op", "set op"} /\ Operating(p) /\ refs[p] = PutOnFailure(p)
           \/ pc[p] = "done" /\ Leaving(p) /\ refs[p] = 1
    BY Zenon, <1>1, PlaceOfOp DEF Operating, Leaving
  <1>4. refs[p] \in 1..2 /\ refs[p] - 1 \in 0..2 /\ ~(refs[p] < 1)
    <2>1. PutOnFailure(p) \in 1..2
      BY PutRange
    <2>2. refs[p] = PutOnFailure(p) \/ refs[p] = 1
      BY Zenon, <1>3
    <2>3. refs[p] \in 1..2
      BY <2>1, <2>2
    <2> QED
      BY <2>3
  <1>5. faults' = {}
    <2>1. ReleaseFaults(p, TRUE, 1) = {}
      BY Zenon, <1>3, <1>4 DEF ReleaseFaults, Fault
    <2> QED
      BY Zenon, <2>1 DEF ReleaseFirst, IInv, NoFault
  <1>6. LockSound' /\ OthersKeepLocks(p)
    BY Zenon, <1>2, LockFrame DEF IInv, TypeOK, OthersKeepLocks
  <1>7. Moved(p, pc[p], phase[p], ctx[p], "released", failed[p], rc[p], ret[p], refs[p] - 1)
    BY <1>2, Unmoved DEF Moved, IInv
  <1>8. op'[p] = "released" /\ refs'[p] = refs[p] - 1
    BY <1>7, Zenon DEF Moved, IInv, TypeOK
  <1>9. /\ PutOnFailure(p)' = PutOnFailure(p) /\ ~Holds(p)' /\ Phase(p)' = Phase(p)
        /\ ReleasedEarly(p)'
    BY <1>1, <1>2 DEF PutOnFailure, Nested, Holds, Phase, ReleasedEarly
  <1>10. Owns(p)'
    <2>1. CASE pc[p] \in {"wait op", "set op"} /\ Operating(p) /\ refs[p] = PutOnFailure(p)
      <3>1. Operating(p)'
        BY Zenon, <1>1, <1>2, <1>8, <1>9, <2>1 DEF Operating, Says
      <3> QED
        BY Zenon, <1>2, <2>1, <3>1 DEF Owns
    <2>2. CASE pc[p] = "done" /\ Leaving(p) /\ refs[p] = 1
      <3>1. refs'[p] = 0
        BY <1>8, <2>2
      <3>2. Leaving(p)'
        BY ZenonT(30), <1>1, <1>2, <1>8, <1>9, <2>2, <3>1 DEF Leaving
      <3> QED
        BY Zenon, <1>2, <2>2, <3>2 DEF Owns
    <2> QED
      BY Zenon, <1>3, <2>1, <2>2
  <1>11. "released" \in OpStates
    BY DEF OpStates
  <1> QED
    BY Zenon, <1>4, <1>5, <1>6, <1>7, <1>10, <1>11, MovedKeeps, TypedAt

\* A call is completed for a command that is gone, or still waiting: what
\* the completion leaves in the context (c) and what it releases.
Settled(p, e, unlock, puts, c) ==
    \/ /\ pc[p] = "done" /\ ~c.alloc
       /\ (Holds(p) <=> unlock) /\ refs[p] = puts
    \/ /\ ~unlock /\ puts = 0
       /\ c.alloc /\ c.cmpl /\ c.result = IF e THEN "error" ELSE "ok"
       /\ \/ /\ pc[p] \in {"wait lock", "set lock"} /\ refs[p] = PutOnFailure(p)
             /\ (Holds(p) <=> ~e)
          \/ /\ pc[p] \in {"wait op", "set op"} /\ failed[p] = e
             /\ Phase(p) \notin {"query", "update"}
             /\ (Holds(p) <=> ~ReleasedEarly(p))
             /\ ReleasedEarly(p) => refs[p] = PutOnFailure(p) - 1
             /\ ~ReleasedEarly(p) => refs[p] = PutOnFailure(p)

LEMMA CompletionKeeps ==
    ASSUME IInv, NEW p \in Cmds, NEW e \in BOOLEAN, NEW unlock \in BOOLEAN, NEW puts \in 0..2,
           phase' = phase, pc' = pc, failed' = failed, rc' = rc, ret' = ret, faults' = {},
           op' = [op EXCEPT ![p] = "none"], Release(p, unlock, puts),
           NEW c \in Contexts, ctx' = [ctx EXCEPT ![p] = c],
           Settled(p, e, unlock, puts, c)
    PROVE  IInv'
  <1>3. PICK n \in 0..2 : /\ n = refs[p] - puts
                          /\ refs[p] = puts => n = 0
                          /\ puts = 0 => n = refs[p]
    <2>1. refs[p] \in 0..2
      BY Zenon, TypedAt
    <2>2. refs[p] = puts \/ puts = 0
      BY Zenon DEF Settled
    <2> QED
      BY <2>1, <2>2, PutArithmetic
  <1>4. /\ writers' = IF unlock THEN writers \ {p} ELSE writers
        /\ readers' = IF unlock THEN readers \ {p} ELSE readers
        /\ refs' = [refs EXCEPT ![p] = refs[p] - puts]
    BY DEF Release
  <1>5. LockSound' /\ OthersKeepLocks(p)
    BY Zenon, <1>4, LockFrame DEF IInv, TypeOK, OthersKeepLocks
  <1>6. Moved(p, pc[p], phase[p], c, "none", failed[p], rc[p], ret[p], n)
    BY <1>3, <1>4, Unmoved DEF Moved, IInv
  <1>7. ctx'[p] = c /\ op'[p] = "none" /\ refs'[p] = n
    BY <1>6, ZenonT(30) DEF Moved, IInv, TypeOK
  <1>8. /\ PutOnFailure(p)' = PutOnFailure(p) /\ Phase(p)' = Phase(p)
        /\ ReleasedEarly(p)' <=> ReleasedEarly(p)
        /\ Holds(p)' <=> Holds(p) /\ ~unlock
    BY ZenonT(30), <1>4 DEF PutOnFailure, Nested, Holds, Phase, ReleasedEarly
  <1>9. Owns(p)'
    <2>1. CASE pc[p] = "done"
      <3>1. ~ctx'[p].alloc /\ ~Holds(p)' /\ refs'[p] = 0
        BY Zenon, <1>3, <1>7, <1>8, <2>1 DEF Settled
      <3> QED
        BY Zenon, <1>7, <2>1, <3>1 DEF Owns, Leaving
    <2>2. CASE pc[p] \in {"wait lock", "set lock"}
      <3>1. Says(p, IF e THEN "error" ELSE "ok", TRUE)'
        BY Zenon, <1>7, <2>2 DEF Says, Settled
      <3>2. refs'[p] = refs[p]
        BY Zenon, <1>3, <1>7, <2>2 DEF Settled
      <3>3. Locking(p)'
        BY Zenon, <1>7, <1>8, <2>2, <3>1, <3>2 DEF Locking, Says, Settled
      <3> QED
        BY Zenon, <2>2, <3>3 DEF Owns
    <2>3. CASE pc[p] \in {"wait op", "set op"}
      <3>1. Says(p, IF e THEN "error" ELSE "ok", TRUE)'
        BY Zenon, <1>7, <2>3 DEF Says, Settled
      <3>2. refs'[p] = refs[p]
        BY Zenon, <1>3, <1>7, <2>3 DEF Settled
      <3>3. Operating(p)'
        BY Zenon, <1>7, <1>8, <2>3, <3>1, <3>2 DEF Operating, Says, Settled
      <3> QED
        BY Zenon, <2>3, <3>3 DEF Owns
    <2> QED
      BY Zenon, <2>1, <2>2, <2>3 DEF Settled
  <1>10. "none" \in OpStates
    BY DEF OpStates
  <1> QED
    <2>1. /\ pc[p] \in Places /\ phase[p] \in 1..Len(Program[p])
          /\ rc[p] \in {"ok", "interrupted"} /\ ret[p] \in Results
          /\ failed[p] \in BOOLEAN
      BY TypedAt
    <2> QED
      BY <1>5, <1>6, <1>9, <1>10, <2>1, MovedKeeps, Zenon

\* The completion of a lock request.
LEMMA LockCompleteKeeps ==
    ASSUME IInv, NEW p \in Cmds, lock_complete(p) PROVE IInv'
  <1> DEFINE e == op[p] = "refused"
             c == callee_set_result(p, e)
             orphan == c.result = "interrupted"
             new == IF orphan THEN NoContext ELSE c
             unlock == orphan /\ op[p] = "granted"
  <1>1. op[p] \in {"granted", "refused"} /\ ctx' = [ctx EXCEPT ![p] = new]
        /\ op' = [op EXCEPT ![p] = "none"] /\ Release(p, unlock, 0)
        /\ phase' = phase /\ pc' = pc /\ failed' = failed /\ rc' = rc /\ ret' = ret
    BY DEF lock_complete
  <1>2. /\ c \in Contexts /\ c.cmpl /\ (c.alloc <=> ctx[p].alloc)
        /\ ctx[p].result = "interrupted" => c.result = "interrupted"
        /\ ctx[p].result # "interrupted" => c.result = IF e THEN "error" ELSE "ok"
    BY Zenon, CalleeContext
  <1>3. \/ /\ pc[p] \in {"wait lock", "set lock"} /\ ctx[p].alloc /\ ctx[p].result = "none"
           /\ (Holds(p) <=> ~e) /\ refs[p] = PutOnFailure(p)
        \/ /\ pc[p] = "done" /\ ctx[p].alloc /\ ctx[p].result = "interrupted"
           /\ (Holds(p) <=> ~e) /\ refs[p] = 0
    BY Zenon, <1>1, PlaceOfOp DEF Locking, Leaving, Says
  <1>4. new \in Contexts
    BY <1>2, FreshIsContext
  <1>5. orphan <=> pc[p] = "done"
    BY Zenon, <1>2, <1>3
  <1>6. ctx[p].alloc /\ (unlock => Holds(p)) /\ ~(refs[p] < 0)
    <2>1. refs[p] \in 0..2
      BY TypedAt
    <2>2. ~(refs[p] < 0)
      BY <2>1
    <2> QED
      BY Zenon, <1>3, <2>2
  <1>7. faults' = {}
    <2>1. UseFaults(p) = {}
      BY <1>6 DEF UseFaults, Fault
    <2>2. ReleaseFaults(p, unlock, 0) = {}
      BY <1>6 DEF ReleaseFaults, Fault
    <2> QED
      BY <2>1, <2>2 DEF lock_complete, IInv, NoFault
  <1>8. Settled(p, e, unlock, 0, new)
    BY Zenon, <1>1, <1>2, <1>3, <1>5 DEF Settled, NoContext
  <1>9. e \in BOOLEAN /\ unlock \in BOOLEAN /\ 0 \in 0..2
    OBVIOUS
  <1> HIDE DEF e, unlock, new
  <1> QED
    BY Zenon, <1>1, <1>4, <1>7, <1>8, <1>9, CompletionKeeps

\* The completion of an operation.
LEMMA CompleteKeeps ==
    ASSUME IInv, NEW p \in Cmds, NEW u \in BOOLEAN, NEW n \in 0..2, Complete(p, u, n),
           \/ op[p] = "ended" /\ ~ReleasedEarly(p)
           \/ op[p] = "released" /\ ReleasedEarly(p),
           Phase(p) # "detach",
           pc[p] = "done" => (Holds(p) <=> u) /\ refs[p] = n
    PROVE  IInv'
  <1> DEFINE e == failed[p]
             c == callee_set_result(p, e)
             orphan == c.result = "interrupted"
             new == IF orphan THEN NoContext ELSE c
             unlock == orphan /\ u
             puts == IF orphan THEN n ELSE 0
  <1>1. /\ ctx' = [ctx EXCEPT ![p] = new]
        /\ op' = [op EXCEPT ![p] = "none"] /\ Release(p, unlock, puts)
        /\ phase' = phase /\ pc' = pc /\ failed' = failed /\ rc' = rc /\ ret' = ret
        /\ faults' = faults \cup UseFaults(p) \cup ReleaseFaults(p, unlock, puts)
                            \cup Fault("double free", orphan /\ Phase(p) = "detach")
    BY Zenon DEF Complete
  <1>2. e \in BOOLEAN
    BY TypedAt, Zenon
  <1>3. /\ c \in Contexts /\ c.cmpl /\ (c.alloc <=> ctx[p].alloc)
        /\ ctx[p].result = "interrupted" => c.result = "interrupted"
        /\ ctx[p].result # "interrupted" => c.result = IF e THEN "error" ELSE "ok"
    BY <1>2, CalleeContext
  <1>4. /\ ctx[p].alloc
        /\ \/ /\ pc[p] \in {"wait op", "set op"} /\ ctx[p].result = "none"
              /\ Phase(p) \notin {"query", "update"}
              /\ (Holds(p) <=> ~ReleasedEarly(p))
              /\ ReleasedEarly(p) => refs[p] = PutOnFailure(p) - 1
              /\ ~ReleasedEarly(p) => refs[p] = PutOnFailure(p)
           \/ pc[p] = "done" /\ ctx[p].result = "interrupted"
    BY Zenon, PlaceOfOp DEF Operating, Leaving, Says
  <1>5. new \in Contexts
    BY <1>3, FreshIsContext
  <1>6. orphan <=> pc[p] = "done"
    BY Zenon, <1>3, <1>4
  <1>7. puts \in 0..2 /\ ~(refs[p] < puts) /\ (unlock => Holds(p))
    <2>1. refs[p] \in 0..2
      BY TypedAt, Zenon
    <2>2. CASE orphan
      BY <1>6, <2>1, <2>2
    <2>3. CASE ~orphan
      BY <2>1, <2>3
    <2> QED
      BY <2>2, <2>3, Zenon
  <1>8. faults' = {}
    <2>1. UseFaults(p) = {}
      BY Zenon, <1>4 DEF UseFaults, Fault
    <2>2. ReleaseFaults(p, unlock, puts) = {}
      BY <1>7 DEF ReleaseFaults, Fault
    <2>3. Fault("double free", orphan /\ Phase(p) = "detach") = {}
      BY ZenonT(30) DEF Fault
    <2> QED
      BY Zenon, <1>1, <2>1, <2>2, <2>3 DEF IInv, NoFault
  <1>9. Settled(p, e, unlock, puts, new)
    <2>1. CASE orphan
      BY Zenon, <1>3, <1>4, <1>6, <2>1 DEF Settled, NoContext
    <2>2. CASE ~orphan
      BY Zenon, <1>3, <1>4, <1>6, <2>2 DEF Settled
    <2> QED
      BY ZenonT(30), <2>1, <2>2
  <1>10. unlock \in BOOLEAN
    OBVIOUS
  <1> HIDE DEF e, unlock, new, puts
  <1> QED
    BY Zenon, <1>1, <1>2, <1>5, <1>7, <1>8, <1>9, <1>10, CompletionKeeps

\* The completions of the operations that are not a detach.
LEMMA CompletionsKeep ==
    ASSUME IInv, NEW p \in Cmds,
           \/ save_sync_complete(p) \/ flush_complete(p)
           \/ attach_complete(p) \/ exit_instance_finish(p)
    PROVE  IInv'
  <1>0. 0 \in 0..2 /\ 1 \in 0..2
    OBVIOUS
  <1>1. CASE save_sync_complete(p)
    <2>1. op[p] = "ended" /\ Phase(p) = "save" /\ Complete(p, FALSE, 0)
      BY Zenon, <1>1 DEF save_sync_complete
    <2>2. ~ReleasedEarly(p)
      BY <2>1 DEF ReleasedEarly
    <2>3. pc[p] = "done" => ~Holds(p) /\ refs[p] = 0
      BY Zenon, <2>1, PlaceOfOp DEF Leaving
    <2> QED
      BY Zenon, <1>0, <2>1, <2>2, <2>3, CompleteKeeps
  <1>2. CASE flush_complete(p)
    <2>1. op[p] = "released" /\ Phase(p) = "flush" /\ Complete(p, FALSE, 0)
      BY Zenon, <1>2 DEF flush_complete
    <2>2. ReleasedEarly(p)
      BY <2>1 DEF ReleasedEarly
    <2>3. pc[p] = "done" => ~Holds(p) /\ refs[p] = 0
      BY Zenon, <2>1, PlaceOfOp DEF Leaving
    <2> QED
      BY Zenon, <1>0, <2>1, <2>2, <2>3, CompleteKeeps
  <1>3. CASE attach_complete(p)
    <2>1. op[p] = "ended" /\ Phase(p) = "attach" /\ Complete(p, TRUE, 1)
      BY Zenon, <1>3 DEF attach_complete
    <2>2. ~ReleasedEarly(p)
      BY <2>1 DEF ReleasedEarly
    <2>3. pc[p] = "done" => Holds(p) /\ refs[p] = 1
      BY Zenon, <2>1, PlaceOfOp DEF Leaving
    <2> QED
      BY Zenon, <1>0, <2>1, <2>2, <2>3, CompleteKeeps
  <1>4. CASE exit_instance_finish(p)
    <2>1. op[p] = "released" /\ Phase(p) = "stop" /\ Complete(p, FALSE, 0)
      BY Zenon, <1>4 DEF exit_instance_finish
    <2>2. ReleasedEarly(p)
      BY <2>1 DEF ReleasedEarly
    <2>3. pc[p] = "done" => ~Holds(p) /\ refs[p] = 0
      BY Zenon, <2>1, PlaceOfOp DEF Leaving
    <2> QED
      BY Zenon, <1>0, <2>1, <2>2, <2>3, CompleteKeeps
  <1> QED
    BY <1>1, <1>2, <1>3, <1>4

-----------------------------------------------------------------------------
(* The theorems. *)

LEMMA InitIInv == Init => IInv
  <1> SUFFICES ASSUME Init PROVE IInv
    OBVIOUS
  <1>1. ctx \in [Cmds -> Contexts]
    BY FreshIsContext DEF Init
  <1>2. failed \in [Cmds -> BOOLEAN]
    BY DEF Init
  <1>3. /\ pc \in [Cmds -> Places] /\ op \in [Cmds -> OpStates]
        /\ rc \in [Cmds -> {"ok", "interrupted"}] /\ ret \in [Cmds -> Results]
    BY DEF Init, Places, OpStates, Results
  <1>4. phase \in [Cmds -> 1..2] /\ refs \in [Cmds -> 0..2]
    BY DEF Init
  <1>5. TypeOK
    BY <1>1, <1>2, <1>3, <1>4 DEF TypeOK, Init, Contexts, Places, OpStates, Results
  <1>6. \A p \in Cmds : phase[p] \in 1..Len(Program[p])
    <2> TAKE p \in Cmds
    <2>1. Len(Program[p]) \in {1, 2}
      BY PhasesAssumption, Zenon
    <2>2. \A n \in {1, 2} : 1 \in 1..n
      OBVIOUS
    <2> QED
      BY Zenon, <2>1, <2>2 DEF Init
  <1>7. \A p \in Cmds : Owns(p)
    BY Zenon DEF Init, Owns, Holds, NoContext
  <1> QED
    BY <1>5, <1>6, <1>7 DEF IInv, Init, NoFault, LockSound, Holds

LEMMA NextIInv == NoDetach /\ IInv /\ [Next]_vars => IInv'
  <1> SUFFICES ASSUME NoDetach, IInv, [Next]_vars PROVE IInv'
    OBVIOUS
  <1>1. \A p \in Cmds : Phase(p) # "detach"
    BY DEF NoDetach, Phase, IInv
  <1>2. ASSUME NEW p \in Cmds, Command(p) PROVE IInv'
    <2>1. CASE get_param(p) \/ set_param(p) \/ GiveUp(p)
      <3>1. PICK r \in Results : LockedReturn(p, r)
        BY <2>1 DEF get_param, set_param, GiveUp, Results
      <3> QED
        BY <3>1, LockedReturnKeeps
    <2>2. CASE OpReturn(p)
      <3>1. ~detach_cache(p)
        BY <1>1 DEF detach_cache
      <3> QED
        BY <2>2, <3>1, SaveSyncKeeps, FlushSyncKeeps, AttachDeviceKeeps,
           CacheStopSyncKeeps, Zenon DEF OpReturn
    <2> QED
      BY <1>2, <2>1, <2>2, GetCacheKeeps, LockSyncKeeps, WaitKeeps, LockResultKeeps,
         StartOpKeeps, Zenon DEF Command
  <1>3. ASSUME NEW p \in Cmds, Callee(p) PROVE IInv'
    <2>1. ~detach_cache_complete(p)
      BY Zenon, <1>1 DEF detach_cache_complete
    <2> QED
      BY <1>3, <2>1, OcfLockGrantKeeps, LockCompleteKeeps, OcfOpKeeps,
         ReleaseFirstKeeps, CompletionsKeep, Zenon DEF Callee
  <1>4. CASE UNCHANGED vars
    <2>1. \A q \in Cmds : SameFor(q)
      BY <1>4 DEF vars, SameFor
    <2>2. \A q \in Cmds : Owns(q)'
      BY <2>1, OwnsFrame, Zenon DEF IInv
    <2>3. LockSound'
      BY <1>4, LockFrame DEF vars, IInv
    <2>4. TypeOK'
      BY Zenon, <1>4 DEF vars, IInv, TypeOK
    <2>5. NoFault' /\ \A p \in Cmds : phase'[p] \in 1..Len(Program[p])
      BY <1>4 DEF vars, IInv, NoFault
    <2> QED
      BY <2>2, <2>3, <2>4, <2>5, Zenon DEF IInv
  <1> QED
    BY <1>2, <1>3, <1>4, OcfLockRefuseKeeps DEF Next

THEOREM OwnershipInvariant == NoDetach => (Spec => []IInv)
  <1> SUFFICES ASSUME NoDetach PROVE Spec => []IInv
    OBVIOUS
  <1>1. IInv /\ [Next]_vars => IInv'
    BY NextIInv
  <1> QED
    BY <1>1, InitIInv, PTL DEF Spec

\* Type correctness, for any number of commands and any programs of theirs.
THEOREM TypeCorrect == NoDetach => (Spec => []TypeOK)
  <1>1. IInv => TypeOK
    BY DEF IInv
  <1> QED
    BY <1>1, OwnershipInvariant, PTL

\* Caller and completion never misuse a context, the cache lock or a
\* reference, whatever the order of signal, completion and wake-up.
THEOREM NeverMisused == NoDetach => (Spec => []NoFault)
  <1>1. IInv => NoFault
    BY Zenon DEF IInv
  <1> QED
    BY <1>1, OwnershipInvariant, PTL

\* When a command and the operation it started are over, the context, the
\* cache lock and the reference have been given back.
THEOREM NeverLeaks == NoDetach => (Spec => []NothingLeaks)
  <1>1. IInv => NothingLeaks
    BY Zenon DEF IInv, Owns, Leaving, NothingLeaks
  <1> QED
    BY <1>1, OwnershipInvariant, PTL

\* The lock covers the work of a command and of the operation it abandoned.
THEOREM AlwaysUnderLock == NoDetach => (Spec => []WorksUnderLock)
  <1>1. ASSUME IInv PROVE WorksUnderLock
    <2>1. ASSUME NEW p \in Cmds,
                 \/ pc[p] = "locked"
                 \/ op[p] \in {"running", "ended"} /\ Phase(p) # "save"
          PROVE  Holds(p)
      BY Zenon, <1>1, <2>1, PlaceOfOp DEF IInv, Owns, Operating, Leaving
    <2>2. ASSUME NEW p \in Cmds, Holds(p)
          PROVE  p \in (IF Locks(p) = "write" THEN writers ELSE readers)
      BY <1>1, <2>2 DEF IInv, LockSound, Holds
    <2> QED
      BY <1>1, <2>1, <2>2, Zenon DEF WorksUnderLock, IInv, LockSound
  <1> QED
    BY <1>1, OwnershipInvariant, PTL

\* Success is reported only for an operation that ended well.
THEOREM SuccessIsTrue == NoDetach => (Spec => SuccessIsReal)
  <1>1. ASSUME IInv, NEW p \in Cmds, OpReturn(p), ret'[p] = "ok"
        PROVE  op[p] = "none" /\ ~failed[p]
    <2>1. pc[p] = "set op"
      BY Zenon, <1>1 DEF OpReturn, save_sync, flush_sync, attach_device, detach_cache,
                  cache_stop_sync, OpResult
    <2>2. ASSUME Return(p, caller_set_result(p)) PROVE caller_set_result(p) = "ok"
      BY Zenon, <1>1, <2>2 DEF Return, IInv, TypeOK
    <2>3. caller_set_result(p) = "ok"
      BY Zenon, <1>1, <2>2 DEF OpReturn, save_sync, flush_sync, attach_device,
         detach_cache, cache_stop_sync
    <2>4. Operating(p)
      BY Zenon, <1>1, <2>1 DEF IInv, Owns
    <2>5. rc[p] = "ok" => ctx[p].cmpl
      BY Zenon, <2>1, <2>4 DEF Operating
    <2> QED
      BY Zenon, <2>3, <2>4, <2>5 DEF Operating, Says, caller_set_result
  <1>2. IInv => (\A p \in Cmds : OpReturn(p) /\ ret'[p] = "ok" => op[p] = "none" /\ ~failed[p])
    BY <1>1
  <1> QED
    BY <1>2, OwnershipInvariant, PTL DEF SuccessIsReal

=============================================================================
