------------------------------ MODULE Settings ------------------------------
(***************************************************************************)
(* The settings of a running cache: its mode, its cache parameters and     *)
(* the parameters of its cores, as the ioctl commands set and read them    *)
(* (layer_cache_management.c, service_ui_ioctl.c).  A setting lives in     *)
(* OCF's runtime structures and in the superblock; a command changes the   *)
(* first, then saves all of the second.  A signal ends its wait for the    *)
(* save; the save goes on all the same, and nobody waits for it.           *)
(*                                                                         *)
(* One key stands for each group of parameters the code treats alike.      *)
(***************************************************************************)
EXTENDS Naturals, FiniteSets

CONSTANTS Setters,  \* concurrent commands
          Cores,    \* cores of the cache, each with its own parameters
          Modes,    \* cache modes
          Values    \* values of parameters

Cached == {"mode", "kept", "unkept"}

ASSUME SettersAssumption == "free" \notin Setters
ASSUME CoresAssumption == Cores \cap Cached = {}

Keys == Cached \cup Cores
Saved == Keys \ {"unkept"}
Unknown == 99

VARIABLES
    val,        \* per key: the value OCF works with
    disk,       \* per saved key: the value in the superblock
    cores,      \* the cores present
    slock,      \* "free" or the user holding it for writing
    sreaders,   \* users holding it for reading
    scmd,       \* per user: [pc, keys, value, old, got]
    told,       \* per key: what the last command to touch it reported, or Unknown
    late,       \* what saves that nobody waits for may still write
    risk        \* history: keys of which such a save knows another value than val

saveVars == <<late, risk>>
setVars == <<val, disk, cores, slock, sreaders, scmd, told, late, risk>>

NoSet == [pc |-> "idle", keys |-> {}, value |-> 0, old |-> 0, got |-> <<>>]
SetDone(u) == scmd' = [scmd EXCEPT ![u] = NoSet]
SetTo(u, pc) == scmd' = [scmd EXCEPT ![u].pc = pc]

\* What a save writes.
Configuration(v) == [k \in Saved |-> v[k]]

SetInit ==
    /\ val = [k \in Keys |-> 0] /\ disk = Configuration(val)
    /\ cores = Cores /\ slock = "free" /\ sreaders = {}
    /\ scmd = [u \in Setters |-> NoSet]
    /\ told = [k \in Keys |-> Unknown]
    /\ late = {} /\ risk = {}

\* A change of these keys while a save that nobody waits for is under way.
Risked(keys) == risk' = IF late = {} THEN risk ELSE risk \cup keys

-----------------------------------------------------------------------------
(* cache_mngt_set_cache_mode before the lock: the present mode is read;    *)
(* the requested one already set is success at once, and no step here.     *)
SetMode(u) ==
    /\ scmd[u].pc = "idle"
    /\ \E m \in Modes \ {val["mode"]}, f \in BOOLEAN :
         scmd' = [scmd EXCEPT ![u] =
             [NoSet EXCEPT !.pc = IF f THEN "flush" ELSE "lock", !.keys = {"mode"},
                           !.value = m, !.old = val["mode"]]]
    /\ UNCHANGED <<val, disk, cores, slock, sreaders, told, saveVars>>

(* _cache_flush_with_lock, with the read lock held throughout. *)
FlushBegin(u) ==
    /\ scmd[u].pc = "flush" /\ slock = "free"
    /\ sreaders' = sreaders \cup {u} /\ SetTo(u, "flushing")
    /\ UNCHANGED <<val, disk, cores, slock, told, saveVars>>

FlushEnd(u) ==
    /\ scmd[u].pc = "flushing"
    /\ sreaders' = sreaders \ {u}
    /\ (scmd[u].keys = {"mode"} /\ SetTo(u, "lock")) \/ SetDone(u)
    /\ UNCHANGED <<val, disk, cores, slock, told, saveVars>>

(* cache_mngt_flush_device, flush_object and their purging brothers: the   *)
(* read lock is held until OCF has finished.                               *)
FlushDevice(u) ==
    /\ scmd[u].pc = "idle"
    /\ scmd' = [scmd EXCEPT ![u].pc = "flush"]
    /\ UNCHANGED <<val, disk, cores, slock, sreaders, told, saveVars>>

Request(u, keys, v) ==
    /\ scmd[u].pc = "idle"
    /\ scmd' = [scmd EXCEPT ![u] =
                   [NoSet EXCEPT !.pc = "lock", !.keys = keys, !.value = v]]
    /\ UNCHANGED <<val, disk, cores, slock, sreaders, told, saveVars>>

SetCacheParams(u) == \E k \in {"kept", "unkept"}, v \in Values : Request(u, {k}, v)

(* For one core, looked up now, or for all of them. *)
SetCoreParams(u) == \E keys \in {Cores} \cup {{c} : c \in cores}, v \in Values :
                        Request(u, keys, v)

ResetStats(u) == Request(u, {}, 0)

(* _cache_mngt_lock_sync; it can be interrupted. *)
Lock(u) ==
    /\ scmd[u].pc = "lock" /\ slock = "free" /\ sreaders = {}
    /\ slock' = u /\ SetTo(u, "set")
    /\ UNCHANGED <<val, disk, cores, sreaders, told, saveVars>>

LockInterrupted(u) ==
    /\ scmd[u].pc = "lock"
    /\ SetDone(u)
    /\ UNCHANGED <<val, disk, cores, slock, sreaders, told, saveVars>>

-----------------------------------------------------------------------------
(* Under the lock the mode is not the one read before: the command ends    *)
(* with result 0, without having set anything.                             *)
ModeRaced(u) ==
    /\ scmd[u].pc = "set" /\ scmd[u].keys = {"mode"} /\ val["mode"] # scmd[u].old
    /\ slock' = "free" /\ SetDone(u)
    /\ UNCHANGED <<val, disk, cores, sreaders, told, saveVars>>

ModeSet(u) ==
    /\ scmd[u].pc = "set" /\ scmd[u].keys = {"mode"} /\ val["mode"] = scmd[u].old
    /\ val' = [val EXCEPT !["mode"] = scmd[u].value]
    /\ SetTo(u, "save") /\ Risked({"mode"})
    /\ UNCHANGED <<disk, cores, slock, sreaders, told, late>>

(* The flush under the lock fails, or OCF refuses the value; resetting the *)
(* statistics touches no setting and ends here too.                        *)
SetFails(u) ==
    /\ scmd[u].pc = "set"
    /\ slock' = "free" /\ SetDone(u)
    /\ UNCHANGED <<val, disk, cores, sreaders, told, saveVars>>

(* Parameters with a save: cleaning and prefetch parameters, promotion and *)
(* prefetch policy, the sequential cut-off parameters of one or all cores; *)
(* a core removed since its lookup is written to without effect here.      *)
KeptSet(u) == LET keys == scmd[u].keys IN
    /\ scmd[u].pc = "set" /\ keys \notin {{"mode"}, {"unkept"}, {}}
    /\ val' = [k \in Keys |-> IF k \in keys \cap (Cached \cup cores) THEN scmd[u].value
                              ELSE val[k]]
    /\ told' = [k \in Keys |-> IF k \in keys THEN Unknown ELSE told[k]]
    /\ SetTo(u, "save") /\ Risked(keys)
    /\ UNCHANGED <<disk, cores, slock, sreaders, late>>

(* The cleaning policy and the promotion parameters: no save here. *)
UnkeptSet(u) ==
    /\ scmd[u].pc = "set" /\ scmd[u].keys = {"unkept"}
    /\ val' = [val EXCEPT !["unkept"] = scmd[u].value]
    /\ told' = [told EXCEPT !["unkept"] = scmd[u].value]
    /\ slock' = "free" /\ SetDone(u)
    /\ UNCHANGED <<disk, cores, sreaders, saveVars>>

(* _cache_mngt_save_sync writes the whole configuration; then the lock is  *)
(* given up and success reported.                                          *)
Save(u) ==
    /\ scmd[u].pc = "save"
    /\ disk' = Configuration(val) /\ risk' = IF late = {} THEN {} ELSE risk
    /\ told' = [k \in Keys |-> IF k \in scmd[u].keys \cap (Cached \cup cores)
                               THEN scmd[u].value ELSE told[k]]
    /\ slock' = "free" /\ SetDone(u)
    /\ UNCHANGED <<val, cores, sreaders, late>>

(* A bug that reports the failure without putting the old mode back. *)
ModeLeft(u) == val

(* After a save that failed: "Restoring old one!", for the mode only. *)
AfterFailedSave(u) ==
    IF scmd[u].keys = {"mode"} THEN [val EXCEPT !["mode"] = scmd[u].old] ELSE val

SaveFails(u) ==
    /\ scmd[u].pc = "save"
    /\ val' = AfterFailedSave(u)
    /\ slock' = "free" /\ SetDone(u)
    /\ UNCHANGED <<disk, cores, sreaders, told, saveVars>>

(* A signal ends the wait: the command does what it does after a failure,  *)
(* and the save goes on (with LateSave at once: a save that fails after it *)
(* has written).  This user gives no other command.                        *)
SaveInterrupted(u) ==
    /\ scmd[u].pc = "save"
    /\ late' = late \cup {Configuration(val)} /\ risk' = risk \cup scmd[u].keys
    /\ val' = AfterFailedSave(u)
    /\ slock' = "free" /\ scmd' = [scmd EXCEPT ![u] = [NoSet EXCEPT !.pc = "signalled"]]
    /\ UNCHANGED <<disk, cores, sreaders, told>>

(* It writes what the settings were when it began or what they are by now. *)
LateSave ==
    \E s \in late :
        /\ disk' \in {s, Configuration(val)} /\ late' = late \ {s}
        /\ UNCHANGED <<val, cores, slock, sreaders, scmd, told, risk>>

-----------------------------------------------------------------------------
(* The reading commands work under the read lock: several reads, one       *)
(* picture of what they look at.                                           *)
Collect(u, pc, keys) ==
    /\ scmd[u].pc = pc /\ slock = "free"
    /\ sreaders' = sreaders \cup {u}
    /\ scmd' = [scmd EXCEPT ![u] = [NoSet EXCEPT !.pc = "read", !.keys = keys,
                                                 !.got = [k \in keys |-> val[k]]]]
    /\ UNCHANGED <<val, disk, cores, slock, told, saveVars>>

GetInfo(u) == Collect(u, "idle", Cached \cup cores)
GetIoClassInfo(u) == Collect(u, "idle", {})
GetStats(u) == Collect(u, "idle", {})
GetCacheParams(u) == \E k \in {"kept", "unkept"} : Collect(u, "idle", {k})
GetCoreInfo(u) == \E c \in cores : Collect(u, "idle", {c})

(* Here the core is looked up before the lock is taken. *)
GetCoreParams(u) ==
    /\ scmd[u].pc = "idle"
    /\ \E c \in cores :
         scmd' = [scmd EXCEPT ![u] = [NoSet EXCEPT !.pc = "found", !.keys = {c}]]
    /\ UNCHANGED <<val, disk, cores, slock, sreaders, told, saveVars>>

ReadCoreParam(u) == Collect(u, "found", scmd[u].keys)

ReadEnd(u) ==
    /\ scmd[u].pc = "read"
    /\ sreaders' = sreaders \ {u} /\ SetDone(u)
    /\ UNCHANGED <<val, disk, cores, slock, told, saveVars>>

(* cache_mngt_update_core_uuid and add or remove of a core, under the      *)
(* lock, save the configuration as well.                                   *)
CoreChanges ==
    /\ slock = "free" /\ sreaders = {}
    /\ \E c \in Cores :
         /\ cores' = IF c \in cores THEN cores \ {c} ELSE cores \cup {c}
         /\ val' = [val EXCEPT ![c] = 0]
         /\ told' = [told EXCEPT ![c] = Unknown]
         /\ disk' = Configuration(val') /\ risk' = IF late = {} THEN {} ELSE risk \cup {c}
    /\ UNCHANGED <<slock, sreaders, scmd, late>>

(* Power is lost, at any moment, and the cache is loaded: what was saved   *)
(* is what there is.  A core changed while a save that nobody waited for   *)
(* was under way may be there or not.                                      *)
Reload ==
    /\ \E v \in Values \cup {0} :
         val' = [k \in Keys |-> IF k = "unkept" THEN v ELSE disk[k]]
    /\ late' = {} /\ risk' = {}
    /\ \E cs \in SUBSET (Cores \cap risk) : cores' = (cores \ risk) \cup cs
    /\ told' = [k \in Keys |-> IF k \in risk \cup {"unkept"} THEN Unknown ELSE told[k]]
    /\ slock' = "free" /\ sreaders' = {} /\ scmd' = [u \in Setters |-> NoSet]
    /\ UNCHANGED disk

SetNext == \/ CoreChanges \/ LateSave \/ Reload
           \/ \E u \in Setters :
                \/ SetMode(u) \/ FlushDevice(u) \/ FlushBegin(u) \/ FlushEnd(u)
                \/ SetCacheParams(u) \/ SetCoreParams(u) \/ ResetStats(u)
                \/ Lock(u) \/ LockInterrupted(u)
                \/ ModeRaced(u) \/ ModeSet(u) \/ SetFails(u) \/ KeptSet(u)
                \/ UnkeptSet(u) \/ Save(u) \/ SaveFails(u) \/ SaveInterrupted(u)
                \/ GetInfo(u) \/ GetIoClassInfo(u) \/ GetStats(u)
                \/ GetCacheParams(u) \/ GetCoreInfo(u) \/ GetCoreParams(u)
                \/ ReadCoreParam(u) \/ ReadEnd(u)

SetSpec == SetInit /\ [][SetNext]_setVars

-----------------------------------------------------------------------------
(* A setting a command has reported as made stays in force and survives a  *)
(* power loss at any moment, whatever other commands set, fail to save or  *)
(* put back in between; and what a reading command collects in several     *)
(* reads is the state of one moment.                                       *)
(*                                                                         *)
(* What the code does not promise.  The cleaning policy and the promotion  *)
(* parameters, which this layer does not save, stay in force only.  A save *)
(* whose caller stopped waiting writes settings the caller has put back,   *)
(* and what others have changed since as it was before: until the next     *)
(* save of which the end is awaited, these (risk) may be different on the  *)
(* disk.  A mode command that returns 0 because it found the mode set      *)
(* before it looked, or changed by another while it flushed, has made no   *)
(* setting and is not counted as reporting one.                            *)
SettingsKept ==
    /\ \A k \in Keys : told[k] # Unknown =>
         /\ slock = "free" => val[k] = told[k]
         /\ slock = "free" => k \in risk \cup {"unkept"} \/ disk[k] = told[k]
    /\ \A u \in Setters : scmd[u].pc = "read" =>
         scmd[u].got = [k \in scmd[u].keys |-> val[k]]
=============================================================================
