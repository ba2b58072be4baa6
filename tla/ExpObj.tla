------------------------------- MODULE ExpObj -------------------------------
(***************************************************************************)
(* Exported objects, the /dev/casX-Y devices (modules/cas_bd/exp_obj.c and *)
(* exp_obj_box.c), and what a cache does with those of its cores           *)
(* (modules/cas_cache/volume/vol_block_dev_top.c, and the commands of      *)
(* layer_cache_management.c that create, destroy, release and reclaim      *)
(* them).                                                                  *)
(*                                                                         *)
(* cas_cache owns the object of every core it has opened.  A disconnect    *)
(* deposits the objects in a box owned by cas_bd, where they outlive the   *)
(* cache until a connect claims them back or the administrator deletes     *)
(* them through sysfs.  Users open and close the devices all the while.    *)
(*                                                                         *)
(* Management commands are serialised by the cache lock, with one          *)
(* exception: a pass-through disconnect unfreezes the objects it has       *)
(* deposited when the lock is long gone.  At most one such disconnect is   *)
(* unfinished in a behaviour of this module.  A cache without cores has    *)
(* nothing to do here and is left out.                                     *)
(***************************************************************************)
EXTENDS Integers, FiniteSets

CONSTANTS
    Cores,        \* the cores, each with its disk and its device name
    MaxOpeners    \* bound on the openers of a device

ASSUME CoresAssumption == IsFiniteSet(Cores)
ASSUME OpenersAssumption == MaxOpeners \in Nat \ {0}

VARIABLES
    obj,       \* the exported object of a core, struct cas_exp_obj
    orphans,   \* cores with files open on an object that has been freed
    box,       \* cores whose object is in the box
    leaving,   \* cores whose object is being deleted through sysfs
    active,    \* whether the cache is running
    meta,      \* cores in the metadata of the stopped cache
    cores,     \* opened cores of the running cache
    top,       \* those with a priv_top
    disk,      \* references to the cas_disk of a core
    modrefs,   \* references to the modules held by exported objects
    phase, todo, \* phase of the command under way, cores it has yet to visit
    held,      \* core whose queue a connect has frozen
    through,   \* whether the disconnect asks for pass-through
    tail,      \* captured objects: still to unfreeze, freed meanwhile
    faults     \* misuse of freed or missing objects

cacheVars == <<active, meta, cores>>
objVars == <<obj, orphans, box, leaving, cacheVars, top, disk, modrefs, phase, todo,
             held, through, tail, faults>>

Modules == {"cas_cache", "cas_bd"}

NoObject == [st |-> "none", openers |-> 0, claimed |-> FALSE, owner |-> "none",
             mode |-> "default", depth |-> 0, frozen |-> FALSE]

ObjInit ==
    /\ obj = [c \in Cores |-> NoObject]
    /\ orphans = {} /\ box = {} /\ leaving = {}
    /\ active = TRUE /\ meta = {} /\ cores = {} /\ top = {}
    /\ disk = [c \in Cores |-> 0]
    /\ modrefs = [m \in Modules |-> 0]
    /\ phase = "idle" /\ todo = {} /\ held = {}
    /\ through = FALSE
    /\ tail = [c \in Cores |-> "none"]
    /\ faults = {}

-----------------------------------------------------------------------------
(* exp_obj.c *)

Become(c, o) == obj' = [obj EXCEPT ![c] = o]

\* cas_exp_obj_freeze_queue, cas_exp_obj_unfreeze_queue
Frozen(o) == [o EXCEPT !.depth = @ + 1, !.frozen = TRUE]
Unfrozen(o) == [o EXCEPT !.depth = IF @ = 0 THEN 0 ELSE @ - 1, !.frozen = FALSE]

\* cas_exp_obj_set_passthrough, cas_exp_obj_set_error
Routed(o, mode) == [o EXCEPT !.mode = mode]

\* try_module_get and module_put of the owners
MoveModule(from, to) == modrefs' = [m \in Modules |->
    modrefs[m] + (IF m = to THEN 1 ELSE 0) - (IF m = from THEN 1 ELSE 0)]

\* cas_disk_open, cas_disk_get, cas_disk_put
DiskRefs(S, n) == disk' = [c \in Cores |-> IF c \in S THEN disk[c] + n ELSE disk[c]]

\* Admits openers to a claimed object.
OpenThoughClaimed(c) ==
    /\ obj[c].st = "live"
    /\ obj[c].openers < MaxOpeners
    /\ Become(c, [obj[c] EXCEPT !.openers = @ + 1])
    /\ UNCHANGED <<orphans, box, leaving, cacheVars, top, disk, modrefs, phase, todo,
                   held, through, tail, faults>>

\* _cas_exp_obj_open: a claimed object refuses.
Open(c) ==
    /\ obj[c].st = "live" /\ ~obj[c].claimed
    /\ obj[c].openers < MaxOpeners
    /\ Become(c, [obj[c] EXCEPT !.openers = @ + 1])
    /\ UNCHANGED <<orphans, box, leaving, cacheVars, top, disk, modrefs, phase, todo,
                   held, through, tail, faults>>

\* _cas_exp_obj_close: the object must still be there.
Close(c) ==
    /\ \/ /\ c \in orphans
          /\ faults' = faults \cup {"closed_after_free"}
          /\ UNCHANGED obj
       \/ /\ obj[c].openers > 0
          /\ Become(c, [obj[c] EXCEPT !.openers = @ - 1])
          /\ UNCHANGED faults
    /\ UNCHANGED <<orphans, box, leaving, cacheVars, top, disk, modrefs, phase, todo,
                   held, through, tail>>

-----------------------------------------------------------------------------
(* The command under way: a loop visits the cores of todo one by one. *)

Goto(l, S) == phase' = l /\ todo' = S

Visit(c, l, S) == IF todo = {c} THEN Goto(l, S) ELSE Goto(phase, todo \ {c})

\* cas_get_priv_top finds nothing, and its caller reads the priv_top.
MissingTop(what) ==
    /\ faults' = faults \cup {what}
    /\ UNCHANGED <<obj, orphans, box, leaving, cacheVars, top, disk, modrefs, phase,
                   todo, held, through, tail>>

-----------------------------------------------------------------------------
(* Adding a core, loading a cache. *)

\* kcas_core_create_exported_object, with cas_exp_obj_create
CreateObject(c) ==
    /\ Become(c, [NoObject EXCEPT !.st = "live", !.owner = "cas_cache"])
    /\ MoveModule("none", "cas_cache")
    /\ top' = top \cup {c}

\* cache_mngt_add_core_to_cache.  Where the object cannot be created, in
\* particular because the device exists, the core is removed again.
AddCore(c) ==
    /\ phase = "idle" /\ active /\ c \notin cores
    /\ obj[c].st = "none"
    /\ CreateObject(c)
    /\ cores' = cores \cup {c}
    /\ DiskRefs({c}, 2)
    /\ UNCHANGED <<orphans, box, leaving, active, meta, phase, todo, held, through,
                   tail, faults>>

\* OCF loads the metadata and opens the cores it can, to create their
\* objects or to claim them.
LoadCores(l) ==
    /\ phase = "idle" /\ ~active
    /\ \E S \in SUBSET meta \ {{}} :
          /\ cores' = S
          /\ DiskRefs(S, 1)
          /\ Goto(l, S)
    /\ active' = TRUE
    /\ UNCHANGED <<obj, orphans, box, leaving, meta, top, modrefs, held, through,
                   tail, faults>>

\* cache_mngt_initialize_core_exported_objects.  When an object cannot be
\* created the clean-up visits all cores, this one included.
LoadCreate(c) ==
    /\ phase = "create" /\ c \in todo
    /\ \/ /\ obj[c].st = "none"
          /\ CreateObject(c)
          /\ DiskRefs({c}, 1)
          /\ Visit(c, "idle", {})
          /\ UNCHANGED <<orphans, box, leaving, cacheVars, held, through, tail, faults>>
       \/ MissingTop("cleanup")

-----------------------------------------------------------------------------
(* cache_mngt_remove_core_from_cache, with the core's flush left out. *)

\* cas_exp_obj_destroy: a new object of the core starts afresh.
DestroyObject(c) ==
    /\ Become(c, NoObject)
    /\ MoveModule(obj[c].owner, "none")
    /\ DiskRefs({c}, -1)
    /\ tail' = [tail EXCEPT ![c] = IF @ = "captured" THEN "freed" ELSE @]

\* kcas_volume_destroy_exported_object locks the object, unless it is in use,
Remove(c) ==
    /\ phase = "idle" /\ c \in cores
    /\ \/ /\ c \notin top
          /\ MissingTop("remove")
       \/ /\ c \in top
          /\ obj[c].openers = 0
          /\ Become(c, [obj[c] EXCEPT !.claimed = TRUE])
          /\ Goto("remove", {c})
          /\ UNCHANGED <<orphans, box, leaving, cacheVars, top, disk, modrefs, held,
                         through, tail, faults>>

\* dismantles it,
RemoveDismantle(c) ==
    /\ phase = "remove" /\ c \in todo
    /\ Become(c, [obj[c] EXCEPT !.st = "dismantled"])
    /\ Goto("remove_object", todo)
    /\ UNCHANGED <<orphans, box, leaving, cacheVars, top, disk, modrefs, held,
                   through, tail, faults>>

\* unlocks and destroys it; kcas_core_destroy_exported_object frees priv_top.
RemoveDestroy(c) ==
    /\ phase = "remove_object" /\ c \in todo
    /\ DestroyObject(c)
    /\ top' = top \ {c}
    /\ Goto("remove_core", todo)
    /\ UNCHANGED <<orphans, box, leaving, cacheVars, held, through, faults>>

\* OCF removes or detaches the core and closes its disk, or fails to.
RemoveFinish(c) ==
    /\ phase = "remove_core" /\ c \in todo
    /\ \/ /\ cores' = cores \ {c}
          /\ DiskRefs({c}, -1)
       \/ UNCHANGED <<cores, disk>>
    /\ Goto("idle", {})
    /\ UNCHANGED <<obj, orphans, box, leaving, active, meta, top, modrefs, held,
                   through, tail, faults>>

-----------------------------------------------------------------------------
(* kcas_cache_destroy_all_core_exported_objects, called to stop the cache. *)

Stop ==
    /\ phase = "idle" /\ active /\ cores # {}
    /\ \/ /\ ~(cores \subseteq top)
          /\ MissingTop("stop")
       \/ /\ cores \subseteq top
          /\ Goto("lock", cores)
          /\ UNCHANGED <<obj, orphans, box, leaving, cacheVars, top, disk, modrefs,
                         held, through, tail, faults>>

\* Forgets to undo the locks.
StopLockKeeping(c) ==
    /\ phase = "lock" /\ c \in todo
    /\ \/ /\ obj[c].openers = 0
          /\ Become(c, [obj[c] EXCEPT !.claimed = TRUE])
          /\ Visit(c, "dismantle", cores)
       \/ /\ obj[c].openers > 0
          /\ Goto("idle", {})
          /\ UNCHANGED obj
    /\ UNCHANGED <<orphans, box, leaving, cacheVars, top, disk, modrefs, held,
                   through, tail, faults>>

\* Waits for the device to be closed.
StopLockRetrying(c) ==
    /\ phase = "lock" /\ c \in todo
    /\ obj[c].openers = 0
    /\ Become(c, [obj[c] EXCEPT !.claimed = TRUE])
    /\ Visit(c, "dismantle", cores)
    /\ UNCHANGED <<orphans, box, leaving, cacheVars, top, disk, modrefs, held,
                   through, tail, faults>>

\* Lock all objects; the first one in use ends the attempt, and the objects
\* that were locked are unlocked.
StopLock(c) ==
    /\ phase = "lock" /\ c \in todo
    /\ \/ /\ obj[c].openers = 0
          /\ Become(c, [obj[c] EXCEPT !.claimed = TRUE])
          /\ Visit(c, "dismantle", cores)
       \/ /\ obj[c].openers > 0
          /\ Goto(IF todo = cores THEN "idle" ELSE "unlock",
                  IF todo = cores THEN {} ELSE cores \ todo)
          /\ UNCHANGED obj
    /\ UNCHANGED <<orphans, box, leaving, cacheVars, top, disk, modrefs, held,
                   through, tail, faults>>

StopUnlock(c) ==
    /\ phase = "unlock" /\ c \in todo
    /\ Become(c, [obj[c] EXCEPT !.claimed = FALSE])
    /\ Visit(c, "idle", {})
    /\ UNCHANGED <<orphans, box, leaving, cacheVars, top, disk, modrefs, held,
                   through, tail, faults>>

StopDismantle(c) ==
    /\ phase = "dismantle" /\ c \in todo
    /\ Become(c, [obj[c] EXCEPT !.st = "dismantled", !.claimed = FALSE])
    /\ Visit(c, "destroy", cores)
    /\ UNCHANGED <<orphans, box, leaving, cacheVars, top, disk, modrefs, held,
                   through, tail, faults>>

StopDestroy(c) ==
    /\ phase = "destroy" /\ c \in todo
    /\ DestroyObject(c)
    /\ Visit(c, "stop", {})
    /\ UNCHANGED <<orphans, box, leaving, cacheVars, top, held, through, faults>>

\* OCF stops the cache and closes the disks of its cores.
StopFinish ==
    /\ phase = "stop"
    /\ active' = FALSE
    /\ meta' = cores
    /\ cores' = {}
    /\ top' = {}
    /\ DiskRefs(cores, -1)
    /\ Goto("idle", {})
    /\ UNCHANGED <<obj, orphans, box, leaving, modrefs, held, through, tail, faults>>

-----------------------------------------------------------------------------
(* cache_mngt_disconnect_cache, once the cache is flushed and locked. *)

\* _cache_mngt_capture_exp_objs keeps the objects for a pass-through.
DisconnectCores ==
    /\ phase = "idle" /\ active /\ cores # {}
    /\ \A c \in Cores : tail[c] = "none"
    /\ \/ /\ ~(cores \subseteq top)
          /\ MissingTop("disconnect")
       \/ /\ cores \subseteq top
          /\ \E pass_through \in BOOLEAN :
                /\ through' = pass_through
                /\ tail' = [c \in Cores |-> IF pass_through /\ c \in cores
                                            THEN "captured" ELSE "none"]
          /\ Goto("set_pt", cores)
          /\ UNCHANGED <<obj, orphans, box, leaving, cacheVars, top, disk, modrefs,
                         held, faults>>

\* The pass-through set only where it is asked for.
SetObjectPtIfAsked(c) ==
    /\ phase = "set_pt" /\ c \in todo
    /\ Become(c, IF through THEN Routed(obj[c], "pt") ELSE obj[c])
    /\ Visit(c, "freeze", cores)
    /\ UNCHANGED <<orphans, box, leaving, cacheVars, top, disk, modrefs, held,
                   through, tail, faults>>

\* _cache_mngt_set_exp_objs_pt
SetObjectPt(c) ==
    /\ phase = "set_pt" /\ c \in todo
    /\ Become(c, Routed(obj[c], "pt"))
    /\ Visit(c, "freeze", cores)
    /\ UNCHANGED <<orphans, box, leaving, cacheVars, top, disk, modrefs, held,
                   through, tail, faults>>

\* _cache_mngt_freeze_exp_objs
FreezeObject(c) ==
    /\ phase = "freeze" /\ c \in todo
    /\ Become(c, Frozen(obj[c]))
    /\ Visit(c, "drain", {})
    /\ UNCHANGED <<orphans, box, leaving, cacheVars, top, disk, modrefs, held,
                   through, tail, faults>>

\* Drain and purge for a pass-through, then create the finish thread.  Any of
\* these may fail.
DrainAndPurge ==
    /\ phase = "drain"
    /\ \/ Goto("deposit", cores)
       \/ Goto("clear_pt", cores)
    /\ UNCHANGED <<obj, orphans, box, leaving, cacheVars, top, disk, modrefs, held,
                   through, tail, faults>>

\* err_pt_frozen: _cache_mngt_clear_exp_objs_pt, _cache_mngt_unfreeze_exp_objs
ClearObjectPt(c) ==
    /\ phase = "clear_pt" /\ c \in todo
    /\ Become(c, Routed(obj[c], "default"))
    /\ Visit(c, "unfreeze", cores)
    /\ UNCHANGED <<orphans, box, leaving, cacheVars, top, disk, modrefs, held,
                   through, tail, faults>>

UnfreezeObject(c) ==
    /\ phase = "unfreeze" /\ c \in todo
    /\ Become(c, Unfrozen(obj[c]))
    /\ faults' = faults \cup (IF obj[c].depth = 0 THEN {"unbalanced"} ELSE {})
    /\ Visit(c, "idle", {})
    /\ tail' = [tail EXCEPT ![c] = "none"]
    /\ UNCHANGED <<orphans, box, leaving, cacheVars, top, disk, modrefs, held, through>>

\* kcas_core_deposit_exported_object, with cas_exp_obj_box_deposit
DepositObject(c) ==
    /\ Become(c, [obj[c] EXCEPT !.owner = "cas_bd"])
    /\ MoveModule(obj[c].owner, "cas_bd")
    /\ box' = box \cup {c}
    /\ top' = top \ {c}

\* _cache_mngt_deposit_exp_objs; the cache is stopped next.
DepositCore(c) ==
    /\ phase = "deposit" /\ c \in todo
    /\ DepositObject(c)
    /\ Visit(c, "stop", {})
    /\ UNCHANGED <<orphans, leaving, cacheVars, disk, held, through, tail, faults>>

\* Forgets about the captured queues.
UnfreezeCapturedNever(c) ==
    /\ phase \notin {"set_pt", "freeze", "drain", "deposit", "clear_pt", "unfreeze"}
    /\ tail[c] # "none"
    /\ tail' = [tail EXCEPT ![c] = "none"]
    /\ UNCHANGED <<obj, orphans, box, leaving, cacheVars, top, disk, modrefs, phase, todo,
                   held, through, faults>>

\* _cache_mngt_unfreeze_exp_obj_list, after the stop or the interruption of
\* the wait for it: the captured pointers are used whatever has become of the
\* objects.
UnfreezeCaptured(c) ==
    /\ phase \notin {"set_pt", "freeze", "drain", "deposit", "clear_pt", "unfreeze"}
    /\ tail[c] # "none"
    /\ tail' = [tail EXCEPT ![c] = "none"]
    /\ \/ /\ tail[c] = "freed"
          /\ faults' = faults \cup {"unfrozen_after_free"}
          /\ UNCHANGED obj
       \/ /\ tail[c] = "captured"
          /\ Become(c, Unfrozen(obj[c]))
          /\ faults' = faults \cup (IF obj[c].depth = 0 THEN {"unbalanced"} ELSE {})
    /\ UNCHANGED <<orphans, box, leaving, cacheVars, top, disk, modrefs, phase, todo,
                   held, through>>

-----------------------------------------------------------------------------
(* _cache_mngt_reconnect_core_exp_objs, called by cache_mngt_connect_cache. *)

\* kcas_core_claim_exported_object, with cas_exp_obj_box_claim.  It fails if
\* the object is not in the box, or for lack of memory.
ClaimObject(c) ==
    /\ phase = "claim" /\ c \in todo
    /\ \/ /\ c \in box
          /\ box' = box \ {c}
          /\ Become(c, [obj[c] EXCEPT !.owner = "cas_cache"])
          /\ MoveModule(obj[c].owner, "cas_cache")
          /\ top' = top \cup {c}
          /\ Visit(c, "resume", cores)
       \/ /\ Goto(IF top = {} THEN "abort" ELSE "return", top)
          /\ UNCHANGED <<obj, box, top, modrefs>>
    /\ UNCHANGED <<orphans, leaving, cacheVars, disk, held, through, tail, faults>>

\* A failure returns the claimed objects to the box ...
Return(c) ==
    /\ phase = "return" /\ c \in todo
    /\ DepositObject(c)
    /\ Visit(c, "abort", {})
    /\ UNCHANGED <<orphans, leaving, cacheVars, disk, held, through, tail, faults>>

\* The disks of the cores stay open.
AbortKeepingDisks ==
    /\ phase = "abort"
    /\ active' = FALSE
    /\ cores' = {}
    /\ Goto("idle", {})
    /\ UNCHANGED <<obj, orphans, box, leaving, meta, top, disk, modrefs, held, through,
                   tail, faults>>

\* ... and the cache is stopped again.
Abort ==
    /\ phase = "abort"
    /\ active' = FALSE
    /\ cores' = {}
    /\ DiskRefs(cores, -1)
    /\ Goto("idle", {})
    /\ UNCHANGED <<obj, orphans, box, leaving, meta, top, modrefs, held, through,
                   tail, faults>>

\* Freezes a frozen queue once more.
ResumeFreezing(c) ==
    /\ phase = "resume" /\ c \in todo
    /\ Become(c, Frozen(obj[c]))
    /\ held' = {c}
    /\ Goto("reroute", todo)
    /\ UNCHANGED <<orphans, box, leaving, cacheVars, top, disk, modrefs, through,
                   tail, faults>>

\* For each object: freeze the queue, if it is not frozen from the disconnect,
ResumeObject(c) ==
    /\ phase = "resume" /\ c \in todo
    /\ Become(c, IF obj[c].frozen THEN obj[c] ELSE Frozen(obj[c]))
    /\ held' = {c}
    /\ Goto("reroute", todo)
    /\ UNCHANGED <<orphans, box, leaving, cacheVars, top, disk, modrefs, through,
                   tail, faults>>

\* route the requests to the cache again and unfreeze the queue.
RerouteObject(c) ==
    /\ phase = "reroute" /\ c \in held
    /\ Become(c, Unfrozen(Routed(obj[c], "default")))
    /\ faults' = faults \cup (IF obj[c].depth = 0 THEN {"unbalanced"} ELSE {})
    /\ held' = {}
    /\ IF todo = {c} THEN Goto("idle", {}) ELSE Goto("resume", todo \ {c})
    /\ UNCHANGED <<orphans, box, leaving, cacheVars, top, disk, modrefs, through, tail>>

-----------------------------------------------------------------------------
(* cas_exp_obj_box_delete, at any time. *)

DeleteBegin(c) ==
    /\ c \in box
    /\ box' = box \ {c}
    /\ leaving' = leaving \cup {c}
    /\ Become(c, Routed(IF obj[c].frozen THEN Unfrozen(obj[c]) ELSE obj[c], "error"))
    /\ UNCHANGED <<orphans, cacheVars, top, disk, modrefs, phase, todo, held, through,
                   tail, faults>>

\* cas_exp_obj_dismantle and cas_exp_obj_destroy, whether or not in use
DeleteEnd(c) ==
    /\ c \in leaving
    /\ leaving' = leaving \ {c}
    /\ DestroyObject(c)
    /\ orphans' = IF obj[c].openers > 0 THEN orphans \cup {c} ELSE orphans
    /\ UNCHANGED <<box, cacheVars, top, phase, todo, held, through, faults>>

-----------------------------------------------------------------------------

Users == \E c \in Cores : Open(c) \/ Close(c)

\* The steps of a command that has begun.
Command ==
    \/ StopFinish \/ DrainAndPurge \/ Abort
    \/ \E c \in Cores :
          \/ LoadCreate(c)
          \/ RemoveDismantle(c) \/ RemoveDestroy(c) \/ RemoveFinish(c)
          \/ StopLock(c) \/ StopUnlock(c) \/ StopDismantle(c) \/ StopDestroy(c)
          \/ SetObjectPt(c) \/ FreezeObject(c) \/ ClearObjectPt(c) \/ UnfreezeObject(c)
          \/ DepositCore(c) \/ ClaimObject(c) \/ Return(c)
          \/ ResumeObject(c) \/ RerouteObject(c)

Administrator ==
    \/ LoadCores("create") \/ LoadCores("claim") \/ Stop \/ DisconnectCores
    \/ \E c \in Cores : AddCore(c) \/ Remove(c) \/ DeleteBegin(c)

\* A kernel that has followed a bad pointer is not modelled any further.
Halted == faults # {} /\ UNCHANGED objVars

ObjNext ==
    \/ /\ faults = {}
       /\ \/ Users \/ Command \/ Administrator
          \/ \E c \in Cores : UnfreezeCaptured(c) \/ DeleteEnd(c)
    \/ Halted

ObjSpec == ObjInit /\ [][ObjNext]_objVars

\* A command in the kernel runs on; nobody has to start one or to close a file.
ObjFairness ==
    /\ WF_objVars(faults = {} /\ Command)
    /\ \A c \in Cores : /\ WF_objVars(faults = {} /\ UnfreezeCaptured(c))
                        /\ WF_objVars(faults = {} /\ DeleteEnd(c))

ObjLiveSpec == ObjSpec /\ ObjFairness

-----------------------------------------------------------------------------

\* Type invariant.
ObjTypeOK ==
    /\ obj \in [Cores -> [st : {"none", "live", "dismantled"}, openers : 0 .. MaxOpeners,
                          claimed : BOOLEAN, owner : Modules \cup {"none"},
                          mode : {"default", "pt", "error"}, depth : 0 .. 1,
                          frozen : BOOLEAN]]
    /\ orphans \subseteq Cores /\ box \subseteq Cores /\ leaving \subseteq Cores
    /\ active \in BOOLEAN /\ through \in BOOLEAN
    /\ meta \subseteq Cores /\ cores \subseteq Cores /\ top \subseteq cores
    /\ disk \in [Cores -> 0 .. 2]
    /\ modrefs \in [Modules -> 0 .. Cardinality(Cores)]
    /\ todo \subseteq Cores /\ held \subseteq Cores
    /\ tail \in [Cores -> {"none", "captured", "freed"}]

\* A removal or a stop of the cache never dismantles a device that is open:
\* cas_exp_obj_lock found no opener and _cas_exp_obj_open admits none since.
NeverDismantledOpen == \A c \in Cores : obj[c].st = "dismantled" => obj[c].openers = 0

\* Requests are passed to the operations of cas_cache only as long as the
\* object keeps cas_cache from being unloaded, and every object holds exactly
\* one reference, to its owner: the passing of an object to cas_bd and back
\* never leaves it without one or with two.
RoutedToOwner ==
    /\ \A c \in Cores : obj[c].st = "live" /\ obj[c].mode = "default"
                           => obj[c].owner = "cas_cache"
    /\ \A m \in Modules : modrefs[m] = Cardinality({c \in Cores : obj[c].owner = m})

\* The disk stays open exactly as long as the core or the exported object
\* uses it, whichever command takes them away and in whatever order.
DiskHeld == \A c \in Cores :
    disk[c] = (IF c \in cores THEN 1 ELSE 0) + (IF obj[c].st # "none" THEN 1 ELSE 0)

\* When no command is under way every device of the running cache can be
\* opened and serves requests through the cache, whatever failed before, and
\* a device in the box bypasses the cache.  A finished disconnect may still
\* have to unfreeze a queue.
CommandsRestore == phase = "idle" /\ faults = {} =>
    /\ \A c \in top : /\ obj[c].st = "live" /\ ~obj[c].claimed
                      /\ obj[c].mode = "default" /\ obj[c].depth = 0
    /\ \A c \in box : obj[c].st = "live" /\ ~obj[c].claimed /\ obj[c].mode = "pt"

\* The flag exp_obj->frozen, by which a connect and a delete decide whether
\* to freeze or unfreeze, tells the truth about the queue.
FrozenTrue == \A c \in Cores : obj[c].frozen <=> obj[c].depth > 0

\* The state of every exported object, its openers, the module and the disk it
\* holds agree at every step of every command (exp_obj.c).
ObjectsConsistent ==
    ObjTypeOK /\ NeverDismantledOpen /\ RoutedToOwner /\ DiskHeld /\ FrozenTrue

\* A removal that has failed can be retried, as the message of
\* _cache_mngt_remove_core_fallback asks the user to.
RemoveRetried == "remove" \notin faults

\* Every command that has begun comes to an end.
CommandsEnd == phase # "idle" ~> phase = "idle" \/ faults # {}

\* A device deposited in pass-through mode is not left frozen.
PassThroughServes == \A c \in Cores :
    (c \in box /\ tail[c] = "captured") ~> (obj[c].depth = 0 \/ faults # {})

\* Every management command that has begun ends, and no device it leaves in
\* pass-through mode stays frozen (cas_exp_obj_freeze, unfreeze).
CommandsFinish == CommandsEnd /\ PassThroughServes
=============================================================================
