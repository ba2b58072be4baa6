------------------------------- MODULE CoreIds -------------------------------
(***************************************************************************)
(* The numbering of the cores of one cache (layer_cache_management.c).     *)
(* cache_priv->core_id_bitmap says which core ids are in use; --add-core   *)
(* without an id takes one that is free.  The bitmap is kept by hand       *)
(* beside OCF's own list of cores: loading, adding and removing mark and   *)
(* clear its bits, in order with failures of OCF, of the exported object   *)
(* and of each other.                                                      *)
(*                                                                         *)
(* A core's id also stands for its device in the detached core pool.       *)
(* Lookup of a running cache and taking its lock are one step here.        *)
(***************************************************************************)
EXTENDS Naturals, FiniteSets, FiniteSetsExt

CONSTANTS Ids,      \* core ids, 0..OCF_CORE_NUM-1
          Users,    \* concurrent management commands
          AnyId     \* core_id = OCF_CORE_NUM: "choose one"

VARIABLES
    cache,      \* "absent" or "run"
    stored,     \* cores recorded on the cache device
    core,       \* per id: "none", "active", "inactive"
    bitmap,     \* cache_priv->core_id_bitmap
    pool,       \* the detached core pool
    lock,       \* the management lock: "free" or its holder
    cmd,        \* per user: [pc, kind, id, try]
    refs,       \* references on the cache held by commands
    leaked,     \* references prepare_core_cfg has forgotten
    drift       \* history: what has made the bitmap and OCF's list differ

idVars == <<cache, stored, core, bitmap, pool, lock, cmd, refs, leaked, drift>>

NoCmd == [pc |-> "idle", kind |-> "none", id |-> AnyId, try |-> FALSE]
InUse == {i \in Ids : core[i] # "none"}

IdInit ==
    /\ cache = "absent" /\ stored = {} /\ bitmap = {} /\ pool = {}
    /\ core = [i \in Ids |-> "none"]
    /\ lock = "free" /\ refs = 0 /\ leaked = 0 /\ drift = {}
    /\ cmd = [u \in Users |-> NoCmd]

-----------------------------------------------------------------------------
(* A new cache has no cores and an all-zero cache_priv.                    *)
StartNew ==
    /\ cache = "absent"
    /\ cache' = "run" /\ stored' = {} /\ bitmap' = {} /\ drift' = {} /\ leaked' = 0
    /\ UNCHANGED <<core, pool, lock, cmd, refs>>

(* OCF recreates the stored cores; those it can open (in the pool or by    *)
(* path) are active.                                                       *)
Restore == \E active \in SUBSET stored :
    /\ stored \cap pool \subseteq active
    /\ core' = [i \in Ids |-> IF i \in active THEN "active"
                              ELSE IF i \in stored THEN "inactive" ELSE "none"]
    /\ pool' = pool \ stored
    /\ cache' = "run" /\ leaked' = 0
    /\ UNCHANGED <<stored, lock, cmd, refs>>

(* Start with load: _cache_mngt_log_core_devices_loaded marks every core.  *)
StartLoad == cache = "absent" /\ stored # {} /\ Restore /\ bitmap' = stored /\ drift' = {}

(* cache_mngt_connect_cache: no core is marked. *)
Connect == cache = "absent" /\ stored # {} /\ Restore /\ bitmap' = {} /\ drift' = {"connect"}

(* Stop and disconnect. *)
Stop ==
    /\ cache = "run" /\ lock = "free" /\ refs = leaked
    /\ cache' = "absent" /\ bitmap' = {} /\ drift' = {} /\ refs' = 0 /\ leaked' = 0
    /\ core' = [i \in Ids |-> "none"]
    /\ UNCHANGED <<stored, pool, lock, cmd>>

-----------------------------------------------------------------------------
(* cache_mngt_prepare_core_cfg with an id: the lookup is given back. *)
PrepareGiven(u) ==
    /\ cmd[u].pc = "idle"
    /\ \E i \in Ids, t \in BOOLEAN :
         cmd' = [cmd EXCEPT ![u] = [NoCmd EXCEPT !.pc = "prepared", !.kind = "add",
                                                 !.id = i, !.try = t]]
    /\ UNCHANGED <<cache, stored, core, bitmap, pool, lock, refs, leaked, drift>>

(* find_free_core_id: the first free id but 0; 0 only if no other is free. *)
FindFreeCoreId(used) == Min(IF Ids \subseteq used \cup {0} THEN Ids \ used
                            ELSE Ids \ (used \cup {0}))

(* Without one: the bitmap is read with no lock held; try_add is refused.  *)
PrepareAuto(u) ==
    /\ cmd[u].pc = "idle" /\ cache = "run"
    /\ Ids \ bitmap # {}
    /\ cmd' = [cmd EXCEPT ![u] = [NoCmd EXCEPT !.pc = "prepared", !.kind = "add",
                                                 !.id = FindFreeCoreId(bitmap)]]
    /\ UNCHANGED <<cache, stored, core, bitmap, pool, lock, refs, leaked, drift>>

(* No id is free: -OCF_ERR_INVAL, and the reference is not put.  One such  *)
(* reference is enough to see; it keeps OCF's structure, not the cache.    *)
PrepareFull(u) ==
    /\ cmd[u].pc = "idle" /\ cache = "run"
    /\ Ids \ bitmap = {} /\ leaked = 0
    /\ refs' = refs + 1 /\ leaked' = 1
    /\ UNCHANGED <<cache, stored, core, bitmap, pool, lock, cmd, drift>>

Done(u) == cmd' = [cmd EXCEPT ![u] = NoCmd]
To(u, pc) == cmd' = [cmd EXCEPT ![u].pc = pc]

(* cache_mngt_add_core_to_cache finds no cache: with try_add the device    *)
(* goes to the pool.                                                       *)
AddNoCache(u) ==
    /\ cmd[u].pc = "prepared" /\ cache = "absent"
    /\ pool' = IF cmd[u].try THEN pool \cup {cmd[u].id} ELSE pool
    /\ Done(u)
    /\ UNCHANGED <<cache, stored, core, bitmap, lock, refs, leaked, drift>>

AddLock(u) ==
    /\ cmd[u].pc = "prepared" /\ cache = "run" /\ lock = "free"
    /\ lock' = u /\ refs' = refs + 1 /\ To(u, "adding")
    /\ UNCHANGED <<cache, stored, core, bitmap, pool, leaked, drift>>

Unlock(u) == lock' = "free" /\ refs' = refs - 1 /\ Done(u)

(* ocf_mngt_cache_add_core: a free id, or an inactive core tried again. *)
AddCore(u) == LET i == cmd[u].id IN
    /\ cmd[u].pc = "adding"
    /\ core[i] = IF cmd[u].try THEN "inactive" ELSE "none"
    /\ core' = [core EXCEPT ![i] = "active"]
    /\ stored' = stored \cup {i}
    /\ To(u, "export")
    /\ UNCHANGED <<cache, bitmap, pool, lock, refs, leaked, drift>>

AddCoreFails(u) ==
    /\ cmd[u].pc = "adding"
    /\ Unlock(u)
    /\ UNCHANGED <<cache, stored, core, bitmap, pool, leaked, drift>>

(* The exported object is made and the id marked. *)
AddExport(u) ==
    /\ cmd[u].pc = "export"
    /\ bitmap' = bitmap \cup {cmd[u].id}
    /\ Unlock(u)
    /\ UNCHANGED <<cache, stored, core, pool, leaked, drift>>

(* It cannot be made: the core is removed again, also one that was there   *)
(* inactive before (its bit stays); whether that worked is not looked at.  *)
AddExportFails(u) == LET i == cmd[u].id IN
    /\ cmd[u].pc = "export"
    /\ \/ /\ core' = [core EXCEPT ![i] = "none"]
          /\ stored' = stored \ {i}
          /\ drift' = IF i \in bitmap THEN drift \cup {"leftover"} ELSE drift
       \/ /\ UNCHANGED <<core, stored>>
          /\ drift' = drift \cup {"rollback"}
    /\ Unlock(u)
    /\ UNCHANGED <<cache, bitmap, pool, leaked>>

-----------------------------------------------------------------------------
(* cache_mngt_remove_core_from_cache up to the first flush, under the read *)
(* lock that is given up again.                                            *)
RemoveFlush(u) ==
    /\ cmd[u].pc = "idle" /\ cache = "run"
    /\ \E i \in Ids, k \in {"remove", "detach"} :
         cmd' = [cmd EXCEPT ![u] = [NoCmd EXCEPT !.pc = "flushed", !.kind = k, !.id = i]]
    /\ refs' = refs + 1
    /\ UNCHANGED <<cache, stored, core, bitmap, pool, lock, leaked, drift>>

(* The flush failed, or the core is not there, not active or its exported  *)
(* object is in use when the lock has been taken.                          *)
RemoveRefused(u) ==
    /\ cmd[u].pc = "flushed" /\ lock = "free"
    /\ refs' = refs - 1 /\ Done(u)
    /\ UNCHANGED <<cache, stored, core, bitmap, pool, lock, leaked, drift>>

RemoveLock(u) ==
    /\ cmd[u].pc = "flushed" /\ lock = "free" /\ core[cmd[u].id] = "active"
    /\ lock' = u /\ To(u, "removing")
    /\ UNCHANGED <<cache, stored, core, bitmap, pool, refs, leaked, drift>>

(* The second flush fails: _cache_mngt_remove_core_fallback detaches the   *)
(* core, if it can; the id stays taken.                                    *)
RemoveFallback(u) ==
    /\ cmd[u].pc = "removing"
    /\ \E s \in {"active", "inactive"} : core' = [core EXCEPT ![cmd[u].id] = s]
    /\ Unlock(u)
    /\ UNCHANGED <<cache, stored, bitmap, pool, leaked, drift>>

DetachCore(u) ==
    /\ cmd[u].pc = "removing" /\ cmd[u].kind = "detach"
    /\ core' = [core EXCEPT ![cmd[u].id] = "inactive"]
    /\ Unlock(u)
    /\ UNCHANGED <<cache, stored, bitmap, pool, leaked, drift>>

(* A bug that clears the bit whatever OCF answered.                        *)
AlwaysFreed(u, result) == TRUE

(* OCF_ERR_CORE_NOT_REMOVED: the core is still there; any other error came *)
(* after it was removed.                                                   *)
FreedBy(u, result) == result # "not_removed"

RemoveCore(u) == LET i == cmd[u].id IN
    /\ cmd[u].pc = "removing" /\ cmd[u].kind = "remove"
    /\ \E result \in {"ok", "error", "not_removed"} :
         /\ core' = IF result = "not_removed" THEN core ELSE [core EXCEPT ![i] = "none"]
         /\ stored' = IF result = "not_removed" THEN stored ELSE stored \ {i}
         /\ bitmap' = IF FreedBy(u, result) THEN bitmap \ {i} ELSE bitmap
    /\ Unlock(u)
    /\ UNCHANGED <<cache, pool, leaked, drift>>

(* cache_mngt_remove_inactive_core: here the bit is cleared on success     *)
(* only, although the core may be gone after an error too.                 *)
RemoveInactive(u) ==
    /\ cmd[u].pc = "idle" /\ cache = "run" /\ lock = "free"
    /\ \E i \in Ids : core[i] = "inactive" /\ \E result \in {"ok", "error"} :
         /\ core' = [core EXCEPT ![i] = "none"]
         /\ stored' = stored \ {i}
         /\ bitmap' = IF result = "ok" THEN bitmap \ {i} ELSE bitmap
         /\ drift' = IF result = "error" THEN drift \cup {"leftover"} ELSE drift
    /\ UNCHANGED <<cache, pool, lock, cmd, refs, leaked>>

(* cache_mngt_core_pool_remove: lookup, close and removal without a lock. *)
PoolRemove(u) ==
    /\ cmd[u].pc = "idle"
    /\ \E i \in pool : pool' = pool \ {i}
    /\ UNCHANGED <<cache, stored, core, bitmap, lock, cmd, refs, leaked, drift>>

IdNext == \/ StartNew \/ StartLoad \/ Connect \/ Stop
          \/ \E u \in Users :
               \/ PrepareGiven(u) \/ PrepareAuto(u) \/ PrepareFull(u)
               \/ AddNoCache(u) \/ AddLock(u) \/ AddCore(u) \/ AddCoreFails(u)
               \/ AddExport(u) \/ AddExportFails(u)
               \/ RemoveFlush(u) \/ RemoveRefused(u) \/ RemoveLock(u)
               \/ RemoveFallback(u) \/ DetachCore(u) \/ RemoveCore(u)
               \/ RemoveInactive(u) \/ PoolRemove(u)

IdSpec == IdInit /\ [][IdNext]_idVars

-----------------------------------------------------------------------------
(* core_id_bitmap and OCF's list of cores agree whenever no command holds  *)
(* the lock, for any order of adds, removals, detaches and their failures; *)
(* the code's exceptions are named: an id without its bit only after       *)
(* connect or a failed rollback of an add, a bit without a core only after *)
(* an error that removed an inactive core.  Every reference taken is put,  *)
(* but for the one prepare_core_cfg forgets when no id is free.            *)
IdsExact ==
    /\ lock = "free" /\ cache = "run" =>
         /\ drift \cap {"connect", "rollback"} = {} => InUse \subseteq bitmap
         /\ "leftover" \notin drift => bitmap \subseteq InUse
    /\ refs = leaked + Cardinality({u \in Users :
                          cmd[u].pc \in {"adding", "export", "flushed", "removing"}})
=============================================================================
