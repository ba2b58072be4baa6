------------------------------ MODULE CasDisk -------------------------------
(***************************************************************************)
(* The disks under caches and cores (modules/cas_bd/disk.c, opened and     *)
(* closed by the volumes of vol_block_dev_bottom.c and shared by exported  *)
(* objects).                                                               *)
(*                                                                         *)
(* cas_bd keeps one struct cas_disk per path in a list under a mutex.  The *)
(* mutex is dropped between the look-up and the exclusive opening of the   *)
(* device, and again between the last put and its closing, so users meet   *)
(* disks that are not yet or no longer listed; what keeps them apart is    *)
(* the kernel, which gives a device to one holder at a time, the holder    *)
(* being the struct.  A disk whose partitions were hidden for its exported *)
(* object shows them again when its last user is gone.                     *)
(***************************************************************************)
EXTENDS Integers, FiniteSets

CONSTANTS
    Users,        \* volumes and exported objects
    Paths,        \* the names devices are opened by
    DeviceOf,     \* the device a path leads to; links make it many to one
    Structs       \* room for struct cas_disk, more than there are devices

VARIABLES
    user,      \* per user: phase, path it opens and disk it has
    dsk,       \* the structs
    listed,    \* disk_global.disks
    holder,    \* per device: the struct that has it open exclusively
    hiddenParts,  \* devices whose partitions are deleted
    diskFault  \* whether a freed struct was used or a BUG_ON met

diskVars == <<user, dsk, listed, holder, hiddenParts, diskFault>>

Devices == {DeviceOf[p] : p \in Paths}
NoDisk == "none"

ASSUME UsersAssumption == IsFiniteSet(Users)
ASSUME PathsAssumption == Paths # {}
ASSUME StructsAssumption == NoDisk \notin Structs

\* struct cas_disk
FreeDisk == [alive |-> FALSE, path |-> CHOOSE p \in Paths : TRUE,
             refcount |-> 0, hidden |-> FALSE]

DiskInit ==
    /\ user = [u \in Users |-> [pc |-> "idle", path |-> FreeDisk.path, dsk |-> NoDisk]]
    /\ dsk = [s \in Structs |-> FreeDisk]
    /\ listed = {}
    /\ holder = [d \in Devices |-> NoDisk]
    /\ hiddenParts = {}
    /\ diskFault = FALSE

At(u, l) == user[u].pc = l
Go(u, l, d) == user' = [user EXCEPT ![u].pc = l, ![u].dsk = d]
Device(d) == DeviceOf[dsk[d].path]

-----------------------------------------------------------------------------

\* cas_disk_lookup
Lookup(p) == {d \in listed : dsk[d].path = p}

\* cas_disk_open up to the first unlock: a listed disk gains a reference.
OpenLookup(u, p) ==
    /\ At(u, "idle")
    /\ IF Lookup(p) # {}
       THEN \E d \in Lookup(p) :
               /\ dsk' = [dsk EXCEPT ![d].refcount = @ + 1]
               /\ Go(u, "has", d)
       ELSE /\ user' = [user EXCEPT ![u].pc = "opening", ![u].path = p]
            /\ UNCHANGED dsk
    /\ UNCHANGED <<listed, holder, hiddenParts, diskFault>>

\* cas_disk_open: no memory, or the device has a holder, and all is freed.
OpenFail(u) ==
    /\ At(u, "opening")
    /\ Go(u, "idle", NoDisk)
    /\ UNCHANGED <<dsk, listed, holder, hiddenParts, diskFault>>

\* cas_disk_open: the struct is allocated and the device opened for it.
OpenExclusive(u) ==
    LET dev == DeviceOf[user[u].path]
    IN  /\ At(u, "opening")
        /\ holder[dev] = NoDisk
        /\ \E s \in Structs :
              /\ ~dsk[s].alive
              /\ dsk' = [dsk EXCEPT ![s] = [alive |-> TRUE, path |-> user[u].path,
                                            refcount |-> 1, hidden |-> FALSE]]
              /\ holder' = [holder EXCEPT ![dev] = s]
              /\ Go(u, "adding", s)
        /\ UNCHANGED <<listed, hiddenParts, diskFault>>

\* cas_disk_open: the disk joins the list.
OpenAdd(u) ==
    /\ At(u, "adding")
    /\ listed' = listed \cup {user[u].dsk}
    /\ Go(u, "has", user[u].dsk)
    /\ UNCHANGED <<dsk, holder, hiddenParts, diskFault>>

\* cas_disk_get: an exported object joins the volume that has the disk.
DiskGet(u, v) ==
    LET d == user[u].dsk
    IN  /\ At(u, "has") /\ At(v, "idle") /\ u # v
        /\ dsk' = [dsk EXCEPT ![d].refcount = @ + 1]
        /\ diskFault' = (diskFault \/ ~dsk[d].alive \/ dsk[d].refcount <= 0)
        /\ Go(v, "has", d)
        /\ UNCHANGED <<listed, holder, hiddenParts>>

\* cas_disk_hide_parts, with _cas_del_partitions: where a partition cannot be
\* deleted the device is scanned again and nothing is hidden.
HideParts(u) ==
    LET d == user[u].dsk
    IN  /\ At(u, "has") /\ ~dsk[d].hidden
        /\ dsk' = [dsk EXCEPT ![d].hidden = TRUE]
        /\ hiddenParts' = hiddenParts \cup {Device(d)}
        /\ diskFault' = (diskFault \/ ~dsk[d].alive)
        /\ UNCHANGED <<user, listed, holder>>

\* Forgets the list when the last reference goes.
PutUnlisted(u) ==
    LET d == user[u].dsk
    IN  /\ At(u, "has")
        /\ diskFault' = (diskFault \/ ~dsk[d].alive \/ dsk[d].refcount <= 0)
        /\ dsk' = [dsk EXCEPT ![d].refcount = @ - 1]
        /\ IF dsk[d].refcount > 1 THEN Go(u, "idle", NoDisk) ELSE Go(u, "restoring", d)
        /\ UNCHANGED <<listed, holder, hiddenParts>>

\* cas_disk_put up to the unlock: the last user takes the disk off the list.
DiskPut(u) ==
    LET d == user[u].dsk
    IN  /\ At(u, "has")
        /\ diskFault' = (diskFault \/ ~dsk[d].alive \/ dsk[d].refcount <= 0)
        /\ dsk' = [dsk EXCEPT ![d].refcount = @ - 1]
        /\ IF dsk[d].refcount > 1
           THEN Go(u, "idle", NoDisk) /\ UNCHANGED listed
           ELSE Go(u, "restoring", d) /\ listed' = listed \ {d}
        /\ UNCHANGED <<holder, hiddenParts>>

\* cas_disk_restore_parts
RestoreParts(u) ==
    LET d == user[u].dsk
    IN  /\ At(u, "restoring")
        /\ hiddenParts' = IF dsk[d].hidden THEN hiddenParts \ {Device(d)} ELSE hiddenParts
        /\ dsk' = [dsk EXCEPT ![d].hidden = FALSE]
        /\ Go(u, "closing", d)
        /\ UNCHANGED <<listed, holder, diskFault>>

\* cas_disk_put: the device is closed and the struct freed.
DiskClose(u) ==
    LET d == user[u].dsk
    IN  /\ At(u, "closing")
        /\ holder' = [holder EXCEPT ![Device(d)] = NoDisk]
        /\ dsk' = [dsk EXCEPT ![d] = FreeDisk]
        /\ Go(u, "idle", NoDisk)
        /\ UNCHANGED <<listed, hiddenParts, diskFault>>

DiskNext ==
    \E u \in Users :
        \/ \E p \in Paths : OpenLookup(u, p)
        \/ OpenFail(u) \/ OpenExclusive(u) \/ OpenAdd(u)
        \/ \E v \in Users : DiskGet(u, v)
        \/ HideParts(u) \/ DiskPut(u) \/ RestoreParts(u) \/ DiskClose(u)

DiskSpec == DiskInit /\ [][DiskNext]_diskVars

-----------------------------------------------------------------------------

Sharing(d) == {u \in Users : user[u].dsk = d /\ user[u].pc \in {"adding", "has"}}

\* A disk that is in use is open, is the holder of its device and has one
\* reference per user, no freed disk is used, and partitions stay hidden only
\* on devices that are open: whatever a look-up misses between two unlocks,
\* no device has two disks, none closes under a user and none is left
\* without its partitions (cas_disk_open, cas_disk_get, cas_disk_put).
DisksExact ==
    /\ ~diskFault
    /\ \A u \in Users : user[u].dsk # NoDisk =>
          /\ dsk[user[u].dsk].alive
          /\ holder[Device(user[u].dsk)] = user[u].dsk
    /\ \A d \in listed : dsk[d].alive /\ dsk[d].refcount = Cardinality(Sharing(d))
    /\ \A dev \in hiddenParts : holder[dev] # NoDisk
=============================================================================
