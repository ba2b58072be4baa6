----------------------------- MODULE ModuleLoad -----------------------------
(***************************************************************************)
(* Loading and unloading of the two kernel modules (cas_cache/main.c,      *)
(* cas_cache/control.c, cas_bd/main.c).  Each init function acquires a     *)
(* list of resources one after another, any of which may be refused, and   *)
(* its error labels give back the ones already acquired; each exit         *)
(* function gives back everything.  Meanwhile a process may open           *)
(* /dev/cas_ctrl and issue requests: the device node exists from           *)
(* device_create on, which is before cas_init_module returns.              *)
(***************************************************************************)
EXTENDS Naturals, Sequences, SequencesExt

CONSTANT Files          \* processes that may hold the control device open

Modules == {"cas_bd", "cas_cache"}

VARIABLES
    state,      \* per module: "absent", "coming", "undoing", "live", "going"
    held,       \* per module: the resources acquired, in order
    undo,       \* per module: what the running undo or exit has still to release
    file,       \* per process: "closed", "open", "busy" (inside an ioctl)
    orphaned    \* history: a load failed although the device was open

loadVars == <<state, held, undo, file, orphaned>>

LoadInit == /\ state = [m \in Modules |-> "absent"]
            /\ held = [m \in Modules |-> << >>]
            /\ undo = [m \in Modules |-> << >>]
            /\ file = [f \in Files |-> "closed"]
            /\ orphaned = FALSE

(* What the init functions acquire, in their order. *)
BdInit == <<"major", "ida", "exp_obj_slab", "disk_slab", "delete_file">>
InitializeContext == <<"ocf_ctx", "bvec_mpool", "page_rpool", "volume_types">>
CtrlDeviceInit == <<"chrdev_region", "cdev", "class", "ctrl_device">>
CasInit == InitializeContext \o CtrlDeviceInit \o <<"netlink">>
Acquires == [m \in Modules |-> IF m = "cas_bd" THEN BdInit ELSE CasInit]

(* What the exit functions release, in their order: cas_cleanup_context    *)
(* destroys the memory pool before the reserve pool of its pages, and the  *)
(* volume types go with the OCF context.                                   *)
BdExit == <<"delete_file", "disk_slab", "exp_obj_slab", "ida", "major">>
CtrlDeviceDeinit == <<"ctrl_device", "class", "cdev", "chrdev_region">>
CleanupContext == <<"bvec_mpool", "page_rpool", "volume_types", "ocf_ctx">>
CasExit == <<"netlink">> \o CtrlDeviceDeinit \o CleanupContext
Releases == [m \in Modules |-> IF m = "cas_bd" THEN BdExit ELSE CasExit]

KeepRegion(m, got) == Reverse(SelectSeq(got, LAMBDA r : r # "chrdev_region"))

(* What the error labels release once the step after got has been refused: *)
(* inside cas_initialize_context the labels undo in reverse; after it the  *)
(* pools are released by cas_cleanup_context, in that function's order.    *)
ErrorLabels(m, got) ==
    IF m = "cas_cache" /\ Len(got) >= 4
    THEN SelectSeq(Releases[m], LAMBDA r : Contains(got, r))
    ELSE Reverse(got)

(* insmod/modprobe starts the init function; cas_cache needs the symbols   *)
(* of cas_bd.  The parameter checks of cas_init_module come before         *)
(* anything is acquired: a refusal there leaves the module absent.         *)
Insert(m) ==
    /\ state[m] = "absent"
    /\ m = "cas_cache" => state["cas_bd"] = "live"
    /\ state' = [state EXCEPT ![m] = "coming"]
    /\ orphaned' = FALSE
    /\ \A f \in Files : file[f] = "closed"
    /\ UNCHANGED <<held, undo, file>>

(* One step of the init function succeeds; after the last the module is live. *)
Acquire(m) ==
    /\ state[m] = "coming"
    /\ held' = [held EXCEPT ![m] = Append(@, Acquires[m][Len(@) + 1])]
    /\ state' = [state EXCEPT ![m] = IF Len(held'[m]) = Len(Acquires[m])
                                     THEN "live" ELSE @]
    /\ UNCHANGED <<undo, file, orphaned>>

(* One step is refused: the function jumps to the label for what it holds. *)
(* ida_init cannot fail.                                                   *)
AcquireFails(m) ==
    /\ state[m] = "coming"
    /\ Acquires[m][Len(held[m]) + 1] # "ida"
    /\ undo' = [undo EXCEPT ![m] = ErrorLabels(m, held[m])]
    /\ state' = [state EXCEPT ![m] = "undoing"]
    /\ orphaned' = (orphaned \/ (m = "cas_cache" /\ \E f \in Files : file[f] # "closed"))
    /\ UNCHANGED <<held, file>>

(* rmmod: refused while another module or an open file pins this one.      *)
Rmmod(m) ==
    /\ state[m] = "live"
    /\ m = "cas_bd" => state["cas_cache"] = "absent"
    /\ m = "cas_cache" => \A f \in Files : file[f] = "closed"
    /\ undo' = [undo EXCEPT ![m] = Releases[m]]
    /\ state' = [state EXCEPT ![m] = "going"]
    /\ UNCHANGED <<held, file, orphaned>>

(* One release of an error label or of an exit function.                   *)
Release(m) ==
    /\ state[m] \in {"undoing", "going"} /\ undo[m] # << >>
    /\ held' = [held EXCEPT ![m] = Remove(@, Head(undo[m]))]
    /\ undo' = [undo EXCEPT ![m] = Tail(@)]
    /\ UNCHANGED <<state, file, orphaned>>

Gone(m) ==
    /\ state[m] \in {"undoing", "going"} /\ undo[m] = << >>
    /\ state' = [state EXCEPT ![m] = "absent"]
    /\ UNCHANGED <<held, undo, file, orphaned>>

(* open of /dev/cas_ctrl takes a reference on the module, which the kernel *)
(* refuses only to a module on its way out.                                *)
OpenControl(f) ==
    /\ file[f] = "closed"
    /\ Contains(held["cas_cache"], "ctrl_device")
    /\ state["cas_cache"] \in {"coming", "live"}
    /\ file' = [file EXCEPT ![f] = "open"]
    /\ UNCHANGED <<state, held, undo, orphaned>>

Ioctl(f) ==
    /\ file[f] = "open"
    /\ file' = [file EXCEPT ![f] = "busy"]
    /\ UNCHANGED <<state, held, undo, orphaned>>

IoctlReturns(f) ==
    /\ file[f] = "busy"
    /\ file' = [file EXCEPT ![f] = "open"]
    /\ UNCHANGED <<state, held, undo, orphaned>>

CloseControl(f) ==
    /\ file[f] = "open"
    /\ file' = [file EXCEPT ![f] = "closed"]
    /\ UNCHANGED <<state, held, undo, orphaned>>

LoadNext == \/ \E m \in Modules : \/ Insert(m) \/ Acquire(m) \/ AcquireFails(m)
                                  \/ Rmmod(m) \/ Release(m) \/ Gone(m)
            \/ \E f \in Files : \/ OpenControl(f) \/ Ioctl(f)
                                \/ IoctlReturns(f) \/ CloseControl(f)

-----------------------------------------------------------------------------
(* What each resource is built on: it must be there when the other is      *)
(* acquired and may go only after it.                                      *)
BuiltOn == {<<"exp_obj_slab", "major">>, <<"volume_types", "ocf_ctx">>,
            <<"cdev", "chrdev_region">>, <<"ctrl_device", "class">>,
            <<"ctrl_device", "cdev">>, <<"delete_file", "exp_obj_slab">>,
            <<"delete_file", "disk_slab">>, <<"ctrl_device", "page_rpool">>,
            <<"netlink", "ocf_ctx">>, <<"ctrl_device", "bvec_mpool">>}

(* The error labels of cas_init_module, cas_ctrl_device_init,              *)
(* cas_initialize_context and cas_bd_init_module undo exactly what was     *)
(* done: an absent module holds nothing, a live one everything; nothing is *)
(* given back while something built on it is still there; and a request on *)
(* the control device always finds the OCF context, the pools and cas_bd,  *)
(* except when a load failed after the device had already been opened      *)
(* (cas_nl_init is the one step that follows device_create).               *)
LoadExact ==
    /\ \A m \in Modules :
         /\ state[m] = "absent" => held[m] = << >>
         /\ state[m] = "live" => held[m] = Acquires[m]
         /\ \A p \in BuiltOn : Contains(held[m], p[1]) => Contains(held[m], p[2])
    /\ state["cas_cache"] # "absent" => state["cas_bd"] = "live"
    /\ ~orphaned => \A f \in Files : file[f] = "busy" =>
         \A r \in {"ocf_ctx", "bvec_mpool", "page_rpool"} :
            Contains(held["cas_cache"], r)
=============================================================================
