------------------------------- MODULE Startup -------------------------------
(***************************************************************************)
(* Starting and stopping the configured caches: udev events run            *)
(* open-cas-loader.py for every block device, "casctl settle" (the boot    *)
(* service) starts what the events have not and waits for the rest, and    *)
(* "casctl stop" (the shutdown service) detaches all cores, those that lie *)
(* on another core's exported object first, and stops all caches.          *)
(*                                                                         *)
(* A casadm command is one step of the kernel, which the other modules     *)
(* describe; every configured cache has its metadata on its device.        *)
(***************************************************************************)
EXTENDS Naturals, Sequences, FiniteSets, SequencesExt

CONSTANTS Caches, Cores,    \* configured: sequences of distinct names, by id
          CacheOf,          \* core -> its cache
          DiskOf,           \* cache or core -> its device
          ExpObj,           \* core -> its exported object
          Lazy              \* those with lazy_startup=true

VARIABLES
    phase,      \* "boot" or "down"
    present,    \* devices there are
    event,      \* devices with a udev event to handle; the loader finds nothing
                \* configured on the others
    running,    \* caches the kernel runs
    core,       \* per core: "none", "active", "inactive"
    pool,       \* cores in the detached core pool
    busy,       \* cores whose exported object a user holds open
    settle,     \* casctl settle: [pc, todo, wait, missing, code]
    halt,       \* casctl stop: [pc, todo, stack, failed, code]
    raised,     \* history: a casadm error has left wait_for_startup
    hindered,   \* history: what stood in casctl stop's way: cores held open, found so
                \* or opened since, or attached again; commands that failed by themselves
    reloaded    \* history: caches an event has loaded since casctl stop began

upVars == <<phase, present, event, running, core, pool, busy, settle, halt, raised,
            hindered, reloaded>>
kernelVars == <<present, event, running, core, pool>>

CacheSet == ToSet(Caches)
CoreSet == ToSet(Cores)
Configured == {DiskOf[x] : x \in CacheSet \cup CoreSet}
Disks == Configured \ {ExpObj[k] : k \in CoreSet}
Of(c) == {k \in CoreSet : CacheOf[k] = c}
NoSettle == [pc |-> "begin", todo |-> <<>>, wait |-> FALSE, missing |-> {}, code |-> 9]
NoHalt == [pc |-> "begin", todo |-> <<>>, stack |-> <<>>, failed |-> FALSE, code |-> 9]

UpInit ==
    /\ phase \in {"boot", "down"} /\ event = {} /\ pool = {} /\ halt = NoHalt
    /\ raised = FALSE /\ reloaded = {}
    /\ IF phase = "boot"
       THEN /\ present = {} /\ running = {} /\ core = [k \in CoreSet |-> "none"]
            /\ busy = {} /\ settle = NoSettle
       ELSE /\ present = Disks \cup {ExpObj[k] : k \in CoreSet} /\ running = CacheSet
            /\ core = [k \in CoreSet |-> "active"] /\ busy \in SUBSET CoreSet
            /\ settle = [NoSettle EXCEPT !.pc = "end"]
    /\ hindered = busy

-----------------------------------------------------------------------------
(* start_cache with load: the stored cores that can be opened are active.  *)
(* The exported objects it makes are new devices; ev: the other events.    *)
Opened(c) == {k \in Of(c) : k \in pool \/ DiskOf[k] \in present}
LoadCache(c, ev) ==
    /\ running' = running \cup {c}
    /\ core' = [k \in CoreSet |-> IF k \in Opened(c) THEN "active"
                                  ELSE IF k \in Of(c) THEN "inactive" ELSE core[k]]
    /\ pool' = pool \ Opened(c)
    /\ present' = present \cup {ExpObj[k] : k \in Opened(c)}
    /\ event' = ev \cup (Configured \cap {ExpObj[k] : k \in Opened(c)})

(* add_core with attach: into its cache, or into the pool before that. *)
AttachCore(k, ev) ==
    IF CacheOf[k] \in running
    THEN /\ core' = [core EXCEPT ![k] = "active"]
         /\ present' = present \cup {ExpObj[k]} /\ event' = ev \cup (Configured \cap {ExpObj[k]})
         /\ UNCHANGED <<running, pool>>
    ELSE pool' = pool \cup {k} /\ event' = ev /\ UNCHANGED <<running, core, present>>

(* What the kernel does not refuse; a device of the pool is opened again   *)
(* and stays there (cas_disk_open finds the path).  The mutant refuses a   *)
(* core whose cache is loaded already.                                     *)
AcceptedFresh(x) ==
    IF x \in CacheSet THEN x \notin running ELSE CacheOf[x] \notin running
Accepted(x) ==
    IF x \in CacheSet THEN x \notin running ELSE CacheOf[x] \in running => core[x] = "inactive"
StartDevice(x, ev) == IF x \in CacheSet THEN LoadCache(x, ev) ELSE AttachCore(x, ev)

-----------------------------------------------------------------------------
(* A disk is found at boot; a device that is there may have further events. *)
Appear ==
    /\ phase = "boot"
    /\ \E d \in Disks \ present : present' = present \cup {d} /\ event' = event \cup {d}
    /\ UNCHANGED <<phase, running, core, pool, busy, settle, halt, raised, hindered, reloaded>>

Change ==
    /\ \E d \in (present \cap Configured) \ event : event' = event \cup {d}
    /\ UNCHANGED <<phase, present, running, core, pool, busy, settle, halt, raised,
                   hindered, reloaded>>

(* Users open and close the exported objects while casctl stop runs. *)
UserOpens ==
    /\ phase = "down" /\ halt.pc # "end"
    /\ \E k \in CoreSet \ busy :
          core[k] = "active" /\ busy' = busy \cup {k} /\ hindered' = hindered \cup {k}
    /\ UNCHANGED <<phase, kernelVars, settle, halt, raised, reloaded>>

UserCloses ==
    /\ phase = "down" /\ halt.pc # "end"
    /\ \E k \in busy : busy' = busy \ {k}
    /\ UNCHANGED <<phase, kernelVars, settle, halt, raised, hindered, reloaded>>

(* open-cas-loader.py for device d: the cache or core configured on it, if *)
(* any; an error only goes to the log.                                     *)
Loader(d) ==
    /\ d \in event
    /\ \/ \E x \in CacheSet \cup CoreSet :
             /\ DiskOf[x] = d /\ Accepted(x) /\ StartDevice(x, event \ {d})
             /\ hindered' = IF phase = "down" THEN hindered \cup {x} ELSE hindered
             /\ reloaded' = IF phase = "down" THEN reloaded \cup ({x} \cap CacheSet)
                                              ELSE reloaded
       \/ /\ ~\E x \in CacheSet \cup CoreSet : DiskOf[x] = d /\ Accepted(x)
          /\ event' = event \ {d}
          /\ UNCHANGED <<present, running, core, pool, hindered, reloaded>>
    /\ UNCHANGED <<phase, busy, settle, halt, raised>>

-----------------------------------------------------------------------------
(* _get_uninitialized_devices: cores first, then caches.  The mutant takes *)
(* a core listed in its cache as set up, even when it is inactive.         *)
UninitAnyStatus ==
    SelectSeq(Cores, LAMBDA k : core[k] = "none" /\ k \notin pool)
        \o SelectSeq(Caches, LAMBDA c : c \notin running)
GetUninitialized ==
    SelectSeq(Cores, LAMBDA k : core[k] = "inactive" \/ (core[k] = "none" /\ k \notin pool))
        \o SelectSeq(Caches, LAMBDA c : c \notin running)

SettleKeeps == UNCHANGED <<phase, busy, halt, hindered, reloaded>>
Required(s) == {x \in s : x \notin Lazy}
Exits(code) == settle' = [settle EXCEPT !.pc = "end", !.todo = <<>>, !.wait = FALSE,
                                        !.code = code]

(* wait_for_startup: the first list; nothing missing is the end of it. *)
SettleList ==
    /\ settle.pc = "begin"
    /\ IF GetUninitialized = <<>> THEN Exits(0)
       ELSE settle' = [settle EXCEPT !.pc = "udevadm", !.todo = GetUninitialized,
                                     !.missing = ToSet(GetUninitialized)]
    /\ UNCHANGED <<kernelVars, raised>> /\ SettleKeeps

(* udevadm settle: until the event queue is empty. *)
UdevadmSettle ==
    /\ settle.pc = "udevadm" /\ event = {}
    /\ settle' = [settle EXCEPT !.pc = "first"]
    /\ UNCHANGED <<kernelVars, raised>> /\ SettleKeeps

(* start_device for the next one: the device may be gone from the list of  *)
(* what is missing since it was made, and then casadm fails.               *)
SettleStart ==
    /\ settle.pc \in {"first", "loop"} /\ settle.todo # <<>>
    /\ LET x == Head(settle.todo)
           next == [settle EXCEPT !.todo = Tail(@), !.wait = @ \/ (settle.pc = "loop" /\ x \notin Lazy)]
       IN \/ /\ DiskOf[x] \notin present /\ settle' = next
             /\ UNCHANGED <<kernelVars, raised>>
          \/ /\ DiskOf[x] \in present /\ Accepted(x) /\ StartDevice(x, event)
             /\ settle' = next /\ UNCHANGED raised
          \/ /\ DiskOf[x] \in present /\ ~Accepted(x)
             /\ raised' = TRUE /\ Exits(0) /\ UNCHANGED kernelVars
    /\ SettleKeeps

(* The loop, until all that is required is up or the time is over. *)
Again(s) == s.pc = "first" \/ s.wait
SettleAgain ==
    /\ settle.pc \in {"first", "loop"} /\ settle.todo = <<>> /\ Again(settle)
    /\ settle' = [settle EXCEPT !.pc = "loop", !.todo = GetUninitialized, !.wait = FALSE,
                                !.missing = ToSet(GetUninitialized)]
    /\ UNCHANGED <<kernelVars, raised>> /\ SettleKeeps

SettleReturns ==
    /\ settle.pc \in {"first", "loop"} /\ settle.todo = <<>>
    /\ Exits(IF Required(settle.missing) # {} THEN 1 ELSE 0)
    /\ UNCHANGED <<kernelVars, raised>> /\ SettleKeeps

-----------------------------------------------------------------------------
(* detach_all_cores: the active cores of one list, each after the active   *)
(* cores on its exported object; an error ends that recursion only.        *)
HaltKeeps == UNCHANGED <<phase, busy, settle, raised, reloaded>>
ActiveCores == SelectSeq(Cores, LAMBDA k : core[k] = "active")

(* "Unable to list caches.": the step is left out. *)
StopList ==
    /\ phase = "down" /\ halt.pc = "begin"
    /\ \/ halt' = [halt EXCEPT !.pc = "detach", !.todo = ActiveCores] /\ UNCHANGED hindered
       \/ /\ halt' = [halt EXCEPT !.pc = "detach", !.failed = TRUE]
          /\ hindered' = hindered \cup CoreSet
    /\ UNCHANGED kernelVars /\ HaltKeeps

(* detach_core_recursive looks at a list of its own: is the core active,   *)
(* and which active cores lie on it.  The mutant does not care for those.  *)
Above(k) == {u \in CoreSet : core[u] = "active" /\ DiskOf[u] = ExpObj[k]}
AboveIgnored(k) == <<>>
AboveList(k) == SelectSeq(Cores, LAMBDA u : u \in Above(k))
Frame(k) == [core |-> k, active |-> core[k] = "active", above |-> AboveList(k)]

StopNextCore ==
    /\ halt.pc = "detach" /\ halt.stack = <<>> /\ halt.todo # <<>>
    /\ halt' = [halt EXCEPT !.stack = <<Frame(Head(halt.todo))>>, !.todo = Tail(@)]
    /\ UNCHANGED <<kernelVars, hindered>> /\ HaltKeeps

(* Those above come first. *)
DetachDeeper ==
    /\ halt.pc = "detach" /\ halt.stack # <<>> /\ Last(halt.stack).above # <<>>
    /\ LET f == Last(halt.stack) IN
        halt' = [halt EXCEPT !.stack =
                     Front(@) \o <<[f EXCEPT !.above = Tail(@)], Frame(Head(f.above))>>]
    /\ UNCHANGED <<kernelVars, hindered>> /\ HaltKeeps

(* remove_core with detach: refused while the exported object is open. *)
Held(k) == k \in busy \/ Above(k) # {}
DetachCore ==
    /\ halt.pc = "detach" /\ halt.stack # <<>> /\ Last(halt.stack).above = <<>>
    /\ LET k == Last(halt.stack).core IN
        \/ /\ ~Last(halt.stack).active
           /\ halt' = [halt EXCEPT !.stack = Front(@)] /\ UNCHANGED kernelVars
        \/ /\ Last(halt.stack).active /\ Held(k)
           /\ halt' = [halt EXCEPT !.failed = TRUE, !.stack = <<>>]
           /\ UNCHANGED kernelVars
        \/ /\ Last(halt.stack).active /\ ~Held(k)
           /\ core' = [core EXCEPT ![k] = "inactive"] /\ present' = present \ {ExpObj[k]}
           /\ halt' = [halt EXCEPT !.stack = Front(@)]
           /\ UNCHANGED <<running, pool, event>>
    /\ UNCHANGED hindered /\ HaltKeeps

(* It may fail by itself, or the listing before it. *)
DetachFails ==
    /\ halt.pc = "detach" /\ halt.stack # <<>>
    /\ hindered' = hindered \cup {Last(halt.stack).core}
    /\ halt' = [halt EXCEPT !.failed = TRUE, !.stack = <<>>]
    /\ UNCHANGED kernelVars /\ HaltKeeps

StopCachesList ==
    /\ halt.pc = "detach" /\ halt.stack = <<>> /\ halt.todo = <<>>
    /\ \/ /\ halt' = [halt EXCEPT !.pc = "stop",
                                   !.todo = SelectSeq(Caches, LAMBDA c : c \in running)]
          /\ UNCHANGED hindered
       \/ /\ halt' = [halt EXCEPT !.pc = "stop", !.failed = TRUE]
          /\ hindered' = hindered \cup CacheSet
    /\ UNCHANGED kernelVars /\ HaltKeeps

(* stop_all_caches: a cache whose exported objects are closed stops, or    *)
(* fails to by itself.                                                     *)
StopCache ==
    /\ halt.pc = "stop" /\ halt.todo # <<>>
    /\ LET c == Head(halt.todo)  ks == {k \in Of(c) : core[k] = "active"} IN
        IF c \in running /\ \A k \in ks : ~Held(k)
        THEN /\ running' = running \ {c}
             /\ core' = [k \in CoreSet |-> IF k \in Of(c) THEN "none" ELSE core[k]]
             /\ present' = present \ {ExpObj[k] : k \in ks}
             /\ halt' = [halt EXCEPT !.todo = Tail(@)] /\ UNCHANGED <<event, pool>>
        ELSE halt' = [halt EXCEPT !.todo = Tail(@), !.failed = TRUE] /\ UNCHANGED kernelVars
    /\ UNCHANGED hindered /\ HaltKeeps

StopFails ==
    /\ halt.pc = "stop" /\ halt.todo # <<>>
    /\ hindered' = hindered \cup {Head(halt.todo)}
    /\ halt' = [halt EXCEPT !.todo = Tail(@), !.failed = TRUE]
    /\ UNCHANGED kernelVars /\ HaltKeeps

StopExit ==
    /\ halt.pc = "stop" /\ halt.todo = <<>>
    /\ halt' = [halt EXCEPT !.pc = "end", !.code = IF halt.failed THEN 1 ELSE 0]
    /\ UNCHANGED <<kernelVars, hindered>> /\ HaltKeeps

-----------------------------------------------------------------------------
Stop == \/ StopList \/ StopNextCore \/ DetachDeeper \/ DetachCore \/ DetachFails
        \/ StopCachesList \/ StopCache \/ StopFails \/ StopExit
Settle == SettleList \/ UdevadmSettle \/ SettleStart \/ SettleAgain \/ SettleReturns
UpNext ==
    \/ Appear \/ Change \/ UserOpens \/ UserCloses \/ (\E d \in present : Loader(d)) \/ Settle \/ Stop
UpFair == /\ WF_upVars(Appear) /\ WF_upVars(Stop)
          /\ \A d \in Configured : WF_upVars(Loader(d))
UpSpec == UpInit /\ [][UpNext]_upVars /\ UpFair

-----------------------------------------------------------------------------
IsUp(x) == IF x \in CacheSet THEN x \in running ELSE core[x] = "active" \/ x \in pool

(* The caches casctl stop may leave running: those it was hindered at, and *)
(* those of cores below a hindered core, at any depth.                     *)
Pinned ==
    LET Closed(s) == \A k \in CoreSet : (\E u \in s : DiskOf[u] = ExpObj[k]) => k \in s
        stuck == {k \in CoreSet : \A s \in SUBSET CoreSet :
                                     (hindered \cap CoreSet \subseteq s /\ Closed(s)) => k \in s}
    IN (hindered \cap CacheSet) \cup {CacheOf[k] : k \in stuck}

(* casctl settle and casctl stop report the truth, whatever events, users  *)
(* and failing commands do meanwhile.  Settle exits with 0 only when every *)
(* device without lazy_startup is set up, unless a casadm command failed   *)
(* under it, which it exits with 0 for too (opencas.py:828-895,            *)
(* casctl:140-156).  Stop goes on after every error: it leaves only the    *)
(* caches running that an open or reattached core pins, directly or from   *)
(* above, whose own command failed or that were loaded again; it exits     *)
(* with 0 only if all others are stopped, and with 1 only if something was *)
(* in its way (opencas.py:694-776) - which may have left nothing running.  *)
SettleStopTrue ==
    /\ (phase = "boot" /\ settle.code = 0 /\ ~raised) => \A x \in Required(CacheSet \cup CoreSet) : IsUp(x)
    /\ halt.pc = "end" =>
          /\ running \subseteq Pinned \cup reloaded
          /\ halt.code = 0 => running \subseteq reloaded
          /\ halt.code = 1 => hindered # {}

(* Once the disks are there, the udev events alone bring every cache and   *)
(* every core up, whatever the order of the events and with casctl settle  *)
(* running beside them (open-cas-loader.py:27-48).                         *)
AllComeUp == (phase = "boot") ~> [](\A c \in CacheSet : c \in running /\ \A k \in Of(c) : core[k] = "active")
=============================================================================
