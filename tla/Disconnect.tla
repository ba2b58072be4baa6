----------------------------- MODULE Disconnect -----------------------------
(***************************************************************************)
(* Requests under a disconnect and a connect of the cache                  *)
(* (cache_mngt_disconnect_cache, cache_mngt_connect_cache in               *)
(* modules/cas_cache/layer_cache_management.c; the submission path in      *)
(* modules/cas_bd/exp_obj.c and modules/cas_cache/volume/                  *)
(* vol_block_dev_top.c).                                                   *)
(*                                                                         *)
(* One core and one of its blocks.  Requests to the exported object are    *)
(* routed to the cache or, in pass-through mode, straight to the core.     *)
(* Freezing the queue of the object keeps requests out and waits for those *)
(* inside submit_bio; it does not wait for what they have started.         *)
(*                                                                         *)
(* OCF is external: a cache line that may hold the block, in write-back    *)
(* mode.  What matters of the data is whether the core's copy and the      *)
(* cache's copy are those of the last write that took effect.              *)
(***************************************************************************)
EXTENDS Naturals

CONSTANTS
    Bios,       \* requests in flight
    Ways,       \* ways to disconnect: "default", "no flush", "pass through"
    Deferral,   \* whether requests may come in interrupt context or with a flush
    SlowDisk,   \* whether a request to the core may outlast its submission
    Failures    \* whether the steps of a command may fail or be interrupted

ASSUME WaysAssumption == Ways \subseteq {"default", "no flush", "pass through"}
ASSUME SwitchesAssumption == {Deferral, SlowDisk, Failures} \subseteq BOOLEAN

VARIABLES
    pc,        \* where a request is
    kind,      \* what it wants
    fill,      \* whether the data a read miss brings to the cache is current
    excused,   \* whether a write took effect while the request was under way
    mode,      \* exp_obj->submit_bio: default or pt
    frozen,    \* whether the queue is frozen
    line,      \* the cache line: none, clean, dirty
    coreCur,   \* whether the core holds the last write
    cacheCur,  \* whether the cache line does
    noDirty,   \* ocf_mngt_cache_set_no_dirty
    running,   \* whether the cache runs
    freed,     \* requests that hold a priv_top that has been freed
    cmd, way,  \* step and way of the command under way
    stale,     \* whether a read has returned old data
    missed,    \* history: whether a write has passed by what the cache holds
    behind,    \* history: whether the cache was used again although it missed a write
    fault      \* whether a freed priv_top was used

bioVars == <<pc, kind, fill, excused>>
dataVars == <<line, coreCur, cacheCur, stale, missed, behind>>
cmdVars == <<cmd, way, noDirty, running>>
vars == <<bioVars, dataVars, cmdVars, mode, frozen, freed, fault>>

Init ==
    /\ pc = [b \in Bios |-> "idle"]
    /\ kind = [b \in Bios |-> "read"]
    /\ fill = [b \in Bios |-> FALSE]
    /\ excused = [b \in Bios |-> FALSE]
    /\ mode = "default" /\ frozen = FALSE /\ freed = {}
    /\ line = "none" /\ coreCur = TRUE /\ cacheCur = FALSE
    /\ noDirty = FALSE /\ running = TRUE
    /\ cmd = "idle" /\ way = "default"
    /\ stale = FALSE /\ missed = FALSE /\ behind = FALSE /\ fault = FALSE

At(b, l) == pc[b] = l
Move(b, l) == pc' = [pc EXCEPT ![b] = l]

\* Requests inside submit_bio, and inside OCF.
Submitting == {b \in Bios : pc[b] \in {"entered", "handler", "direct"}}
InOcf == {b \in Bios : pc[b] \in {"ocf", "fill", "flushing"}}

\* Steps of a pass-through disconnect and connect at which the cache is purged.
Purged == /\ way = "pass through"
          /\ cmd \in {"thread", "deposit", "stop", "unfreeze", "away", "claim", "hold", "settle"}
\* A write that has been sent past the cache is still on its way to the core.
Late == \E b \in Bios : pc[b] = "disk" /\ kind[b] # "read"

-----------------------------------------------------------------------------
(* A request. *)

Submit(b) ==
    /\ At(b, "idle")
    /\ \E k \in {"read", "write"} \cup (IF Deferral THEN {"flush"} ELSE {}) :
          kind' = [kind EXCEPT ![b] = k]
    /\ excused' = [excused EXCEPT ![b] = FALSE]
    /\ Move(b, "waiting")
    /\ UNCHANGED <<fill, dataVars, cmdVars, mode, frozen, freed, fault>>

\* The block layer lets a request in unless the queue is frozen.
Enter(b) ==
    /\ At(b, "waiting") /\ ~frozen
    /\ Move(b, "entered")
    /\ UNCHANGED <<kind, fill, excused, dataVars, cmdVars, mode, frozen, freed, fault>>

\* _cas_exp_obj_submit_bio reads the route once.
Route(b) ==
    /\ At(b, "entered")
    /\ Move(b, IF mode = "default" THEN "handler" ELSE "direct")
    /\ UNCHANGED <<kind, fill, excused, dataVars, cmdVars, mode, frozen, freed, fault>>

\* blkdev_handle_bio
HandledAs(b) == IF kind[b] = "flush" THEN "flushing" ELSE "ocf"

\* blkdev_submit_bio; a request for which there is no memory ends with an error.
SubmitBio(b) ==
    /\ At(b, "handler")
    /\ \/ Move(b, HandledAs(b))
       \/ Deferral /\ Move(b, "deferred")
       \/ Failures /\ Move(b, "idle")
    /\ UNCHANGED <<kind, fill, excused, dataVars, cmdVars, mode, frozen, freed, fault>>

\* blkdev_defer_bio_work, with the priv_top of when the request was deferred
DeferBioWork(b) ==
    /\ At(b, "deferred")
    /\ \/ b \notin freed /\ Move(b, HandledAs(b)) /\ UNCHANGED fault
       \/ b \in freed /\ fault' = TRUE /\ UNCHANGED pc
    /\ UNCHANGED <<kind, fill, excused, dataVars, cmdVars, mode, frozen, freed>>

\* blkdev_complete_flush defers the data of the request, if it has any.
CompleteFlush(b) ==
    /\ At(b, "flushing")
    /\ \/ Move(b, "idle") /\ UNCHANGED fault
       \/ b \notin freed /\ Move(b, "deferred") /\ UNCHANGED fault
       \/ b \in freed /\ fault' = TRUE /\ UNCHANGED pc
    /\ kind' = [kind EXCEPT ![b] = "write"]
    /\ UNCHANGED <<fill, excused, dataVars, cmdVars, mode, frozen, freed>>

-----------------------------------------------------------------------------
(* A request at the core, past the cache: _cas_exp_obj_submit_bio_pt. *)

Reads(b, current) == stale' = (stale \/ (~current /\ ~excused[b]))
WriteTakesEffect == excused' = [b \in Bios |-> TRUE]

\* A read gets what is there.  A write leaves the cache behind, what a read
\* miss has in hand included; of two writes under way at once either may count
\* as the last.
CoreAccess(b) ==
    IF kind[b] = "read"
    THEN /\ Reads(b, coreCur)
         /\ UNCHANGED <<fill, excused, line, coreCur, cacheCur, missed>>
    ELSE /\ WriteTakesEffect
         /\ coreCur' = TRUE
         /\ cacheCur' = (cacheCur /\ excused[b])
         /\ fill' = [x \in Bios |-> fill[x] /\ excused[b]]
         /\ missed' = (missed \/ ~Purged)
         /\ UNCHANGED <<line, stale>>

SubmitBioPt(b) ==
    /\ At(b, "direct")
    /\ \/ CoreAccess(b) /\ Move(b, "idle") /\ UNCHANGED behind
       \/ SlowDisk /\ Move(b, "disk") /\ UNCHANGED <<fill, excused, dataVars>>
    /\ UNCHANGED <<kind, cmdVars, mode, frozen, freed, fault>>

DiskDone(b) ==
    /\ At(b, "disk")
    /\ CoreAccess(b)
    /\ Move(b, "idle")
    /\ UNCHANGED <<behind, kind, cmdVars, mode, frozen, freed, fault>>

-----------------------------------------------------------------------------
(* OCF.  Accesses to a line exclude each other. *)

OcfReadHit(b) ==
    /\ At(b, "ocf") /\ kind[b] = "read" /\ line # "none"
    /\ Reads(b, cacheCur)
    /\ Move(b, "idle")
    /\ UNCHANGED <<kind, fill, excused, line, coreCur, cacheCur, missed, behind, cmdVars, mode,
                   frozen, freed, fault>>

OcfReadMiss(b) ==
    /\ At(b, "ocf") /\ kind[b] = "read" /\ line = "none"
    /\ \A x \in Bios : ~At(x, "fill")
    /\ Reads(b, coreCur)
    /\ fill' = [fill EXCEPT ![b] = coreCur]
    /\ Move(b, "fill")
    /\ UNCHANGED <<kind, excused, line, coreCur, cacheCur, missed, behind, cmdVars, mode,
                   frozen, freed, fault>>

OcfFill(b) ==
    /\ At(b, "fill")
    /\ line' = "clean"
    /\ cacheCur' = fill[b]
    /\ Move(b, "idle")
    /\ UNCHANGED <<kind, fill, excused, coreCur, stale, missed, behind, cmdVars, mode,
                   frozen, freed, fault>>

\* Write-back, or write-through while no dirty data may appear.
OcfWrite(b) ==
    /\ At(b, "ocf") /\ kind[b] # "read"
    /\ \A x \in Bios : ~At(x, "fill")
    /\ line' = (IF noDirty THEN "clean" ELSE "dirty")
    /\ coreCur' = noDirty
    /\ cacheCur' = TRUE
    /\ WriteTakesEffect
    /\ Move(b, "idle")
    /\ UNCHANGED <<kind, fill, stale, missed, behind, cmdVars, mode, frozen, freed, fault>>

\* Cleaning, by the cleaner or a flush, copies the dirty line to the core.
Cleaned ==
    /\ line' = (IF line = "dirty" THEN "clean" ELSE line)
    /\ coreCur' = (IF line = "dirty" THEN cacheCur ELSE coreCur)
    /\ UNCHANGED <<cacheCur, stale, missed, behind>>

OcfClean ==
    /\ running /\ line = "dirty"
    /\ Cleaned
    /\ UNCHANGED <<bioVars, cmdVars, mode, frozen, freed, fault>>

OcfEvict ==
    /\ running /\ line = "clean"
    /\ line' = "none"
    /\ UNCHANGED <<bioVars, coreCur, cacheCur, stale, missed, behind, cmdVars, mode,
                   frozen, freed, fault>>

-----------------------------------------------------------------------------
(* cache_mngt_disconnect_cache *)

Step(from, to) == cmd = from /\ cmd' = to

\* Dirty data may still appear.
DisconnectDirty(w) ==
    /\ Step("idle", IF w = "no flush" THEN "lock" ELSE "flush")
    /\ way' = w
    /\ UNCHANGED <<bioVars, dataVars, noDirty, running, mode, frozen, freed, fault>>

\* Prevent new dirty data.
Disconnect(w) ==
    /\ Step("idle", IF w = "no flush" THEN "lock" ELSE "flush")
    /\ way' = w
    /\ noDirty' = TRUE
    /\ UNCHANGED <<bioVars, dataVars, running, mode, frozen, freed, fault>>

\* _cache_flush_with_lock
Flush ==
    /\ Step("flush", "lock")
    /\ Cleaned
    /\ UNCHANGED <<bioVars, way, noDirty, running, mode, frozen, freed, fault>>

\* _cache_mngt_lock_sync, _cache_mngt_capture_exp_objs
Lock ==
    /\ Step("lock", "set pt")
    /\ UNCHANGED <<bioVars, dataVars, way, noDirty, running, mode, frozen, freed, fault>>

\* err_flush, err_lock, err_capture
GiveUp ==
    /\ Failures
    /\ cmd \in {"flush", "lock"} /\ cmd' = "idle"
    /\ noDirty' = FALSE
    /\ UNCHANGED <<bioVars, dataVars, way, running, mode, frozen, freed, fault>>

\* _cache_mngt_set_exp_objs_pt
SetPassThrough ==
    /\ Step("set pt", "freeze")
    /\ mode' = "pt"
    /\ UNCHANGED <<bioVars, dataVars, way, noDirty, running, frozen, freed, fault>>

\* _cache_mngt_freeze_exp_objs: freezing begins ...
Freeze ==
    /\ Step("freeze", "quiesce")
    /\ frozen' = TRUE
    /\ UNCHANGED <<bioVars, dataVars, way, noDirty, running, mode, freed, fault>>

\* ... and is done when nobody is inside submit_bio.
Quiesce ==
    /\ Step("quiesce", IF way = "pass through" THEN "drain" ELSE "thread")
    /\ Submitting = {}
    /\ UNCHANGED <<bioVars, dataVars, way, noDirty, running, mode, frozen, freed, fault>>

\* Does not wait.
DrainAtOnce ==
    /\ Step("drain", "purge")
    /\ UNCHANGED <<bioVars, dataVars, way, noDirty, running, mode, frozen, freed, fault>>

\* _cache_mngt_cache_drain_sync
Drain ==
    /\ Step("drain", "purge")
    /\ InOcf = {}
    /\ UNCHANGED <<bioVars, dataVars, way, noDirty, running, mode, frozen, freed, fault>>

\* Leaves the line in the cache.
PurgeNothing ==
    /\ Step("purge", "thread")
    /\ missed' = FALSE
    /\ behind' = (behind \/ \E b \in Bios : pc[b] = "deferred" \/ b \in InOcf)
    /\ UNCHANGED <<bioVars, line, coreCur, cacheCur, stale, way, noDirty, running, mode,
                   frozen, freed, fault>>

\* _cache_mngt_cache_purge_sync; a deferred request may still fill the cache.
Purge ==
    /\ Step("purge", "thread")
    /\ line' = "none"
    /\ missed' = FALSE
    /\ behind' = (behind \/ \E b \in Bios : pc[b] = "deferred" \/ b \in InOcf)
    /\ UNCHANGED <<bioVars, coreCur, cacheCur, stale, way, noDirty, running, mode,
                   frozen, freed, fault>>

\* The finish thread is created.
CreateThread ==
    /\ Step("thread", "deposit")
    /\ UNCHANGED <<bioVars, dataVars, way, noDirty, running, mode, frozen, freed, fault>>

\* cas_exp_obj_set_passthrough(false): requests go to the cache again, which
\* has missed the writes that passed it by, those under way included.
UseCache ==
    /\ mode' = "default"
    /\ behind' = (behind \/ missed \/ Late)
    /\ UNCHANGED <<line, coreCur, cacheCur, stale, missed>>

\* err_pt_frozen: the requests go to the cache again,
ClearPassThrough ==
    /\ Failures
    /\ cmd \in {"drain", "purge", "thread"} /\ cmd' = "undo"
    /\ UseCache
    /\ UNCHANGED <<bioVars, way, noDirty, running, frozen, freed, fault>>

\* the queue is unfrozen and dirty data is allowed.
Undo ==
    /\ Step("undo", "idle")
    /\ frozen' = FALSE
    /\ noDirty' = FALSE
    /\ UNCHANGED <<bioVars, dataVars, way, running, mode, freed, fault>>

\* _cache_mngt_deposit_exp_objs frees priv_top, whoever may hold it.
Deposit ==
    /\ Step("deposit", "stop")
    /\ freed' = {b \in Bios : pc[b] \in {"deferred", "flushing"}}
    /\ UNCHANGED <<bioVars, dataVars, way, noDirty, running, mode, frozen, fault>>

\* OCF stops when its requests are done, and saves what it knows of the line.
CacheStop ==
    /\ Step("stop", IF way = "pass through" /\ frozen THEN "unfreeze" ELSE "away")
    /\ InOcf = {}
    /\ running' = FALSE
    /\ noDirty' = FALSE
    /\ UNCHANGED <<bioVars, dataVars, way, mode, frozen, freed, fault>>

\* The queue stays frozen.
UnfreezeNot ==
    /\ way = "pass through"
    /\ Step("unfreeze", "away")
    /\ UNCHANGED <<bioVars, dataVars, way, noDirty, running, mode, frozen, freed, fault>>

\* _cache_mngt_unfreeze_exp_obj_list, early if the wait was interrupted
Unfreeze ==
    /\ way = "pass through"
    /\ \/ Step("unfreeze", "away")
       \/ Failures /\ frozen /\ Step("stop", "stop")
    /\ frozen' = FALSE
    /\ UNCHANGED <<bioVars, dataVars, way, noDirty, running, mode, freed, fault>>

-----------------------------------------------------------------------------
(* cache_mngt_connect_cache *)

\* OCF loads the cache.
Load ==
    /\ Step("away", "claim")
    /\ running' = TRUE
    /\ UNCHANGED <<bioVars, dataVars, way, noDirty, mode, frozen, freed, fault>>

\* kcas_core_claim_exported_object, or else the cache is stopped.
Claim ==
    /\ \/ Step("claim", "hold") /\ UNCHANGED running
       \/ Failures /\ Step("claim", "away") /\ running' = FALSE
    /\ UNCHANGED <<bioVars, dataVars, way, noDirty, mode, frozen, freed, fault>>

\* Freeze the queue if it is not frozen,
Hold ==
    /\ Step("hold", "settle")
    /\ frozen' = TRUE
    /\ UNCHANGED <<bioVars, dataVars, way, noDirty, running, mode, freed, fault>>

\* which waits for submit_bio; then route requests to the cache,
Reroute ==
    /\ Step("settle", "resume")
    /\ Submitting = {}
    /\ UseCache
    /\ UNCHANGED <<bioVars, way, noDirty, running, frozen, freed, fault>>

\* and unfreeze.
Resume ==
    /\ Step("resume", "idle")
    /\ frozen' = FALSE
    /\ UNCHANGED <<bioVars, dataVars, way, noDirty, running, mode, freed, fault>>

-----------------------------------------------------------------------------

\* What a request does once it is submitted.
Proceed(b) ==
    \/ Enter(b) \/ Route(b) \/ SubmitBio(b) \/ DeferBioWork(b) \/ CompleteFlush(b)
    \/ SubmitBioPt(b) \/ DiskDone(b)
    \/ OcfReadHit(b) \/ OcfReadMiss(b) \/ OcfFill(b) \/ OcfWrite(b)

\* What a command does once it has begun.
Continue ==
    \/ Flush \/ Lock \/ GiveUp \/ SetPassThrough \/ Freeze \/ Quiesce
    \/ Drain \/ Purge \/ CreateThread \/ ClearPassThrough \/ Undo
    \/ Deposit \/ CacheStop \/ Unfreeze
    \/ Claim \/ Hold \/ Reroute \/ Resume

Next ==
    \/ /\ ~fault
       /\ \/ \E b \in Bios : Submit(b) \/ Proceed(b)
          \/ \E w \in Ways : Disconnect(w)
          \/ Continue \/ Load \/ OcfClean \/ OcfEvict
    \/ fault /\ UNCHANGED vars

Spec == Init /\ [][Next]_vars

\* The kernel runs its threads and the disks answer.  A queue that is unfrozen
\* again and again lets a waiting request in at last, and OCF serves the
\* requests for a line in turn.
Fairness ==
    /\ WF_vars(Continue)
    /\ \A b \in Bios : SF_vars(Proceed(b))

LiveSpec == Spec /\ Fairness

-----------------------------------------------------------------------------

\* Type invariant.
TypeOK ==
    /\ pc \in [Bios -> {"idle", "waiting", "entered", "handler", "direct", "disk",
                        "deferred", "flushing", "ocf", "fill"}]
    /\ kind \in [Bios -> {"read", "write", "flush"}]
    /\ fill \in [Bios -> BOOLEAN]
    /\ mode \in {"default", "pt"}
    /\ line \in {"none", "clean", "dirty"}
    /\ way \in {"default", "no flush", "pass through"}
    /\ excused \in [Bios -> BOOLEAN]
    /\ freed \subseteq Bios
    /\ cmd \in {"idle", "flush", "lock", "set pt", "freeze", "quiesce", "drain",
               "purge", "thread", "undo", "deposit", "stop", "unfreeze", "away",
               "claim", "hold", "settle", "resume"}
    /\ {frozen, coreCur, cacheCur, noDirty, running, stale, missed, behind, fault} \subseteq BOOLEAN
    /\ running \/ InOcf = {}

\* No read of the device, through the cache or past it, returns data older
\* than the last write that took effect, across disconnects and connects,
\* unless a write takes effect while the read is under way.
NoStaleRead == ~stale

\* A read returns data older than the last write only if the cache was used
\* again although it had missed a write: a write that passed by what the cache
\* held and that no purge has followed, a write that was still on its way to
\* the core when requests were routed to the cache, or any write after a
\* deferred request has outlived the purge.  Freeze, drain, purge and the
\* order of the steps keep out every other way, on the paths that fail too.
ReadsCurrent == stale => behind

\* The cache is empty when a pass-through disconnect stops it, as the comment
\* before _cache_mngt_set_exp_objs_pt requires: what the cache still held would
\* go stale when requests pass it by.
EmptyOnStop == ~running /\ way = "pass through" => line = "none"

\* A disconnect that flushes leaves no write behind in the cache: once
\* requests pass the cache by, the core has the last write.
FlushedOnCore == mode = "pt" /\ way # "no flush" => coreCur

\* The last write that took effect is not lost: the core has it, or the cache
\* has it and knows that the core does not, across flushes, disconnects that
\* succeed or are undone, and connects.
LastWriteKept == coreCur \/ (line = "dirty" /\ cacheCur)

\* Requests never wait for ever on a device disconnected in pass-through mode.
AllServed == \A b \in Bios : pc[b] = "waiting" ~> pc[b] = "idle"
=============================================================================
