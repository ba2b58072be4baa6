--------------------------- MODULE CasDiskProofs ----------------------------
(***************************************************************************)
(* Proofs about the list of disks for any number of users, paths, devices  *)
(* and structs.                                                            *)
(*                                                                         *)
(* DisksExact says nothing of disks that are not listed.  The invariant    *)
(* adds who may have such a disk: one user alone, who is about to list it  *)
(* or has taken it off the list, so that no look-up and no put of another  *)
(* user meets it.                                                          *)
(***************************************************************************)
EXTENDS CasDisk, TLAPS

Positions == {"idle", "opening", "adding", "has", "restoring", "closing"}
UserRecord == [pc : Positions, path : Paths, dsk : Structs \cup {NoDisk}]
DiskRecord == [alive : BOOLEAN, path : Paths, refcount : Int, hidden : BOOLEAN]

DiskTypeOK ==
    /\ user \in [Users -> UserRecord]
    /\ dsk \in [Structs -> DiskRecord]
    /\ listed \subseteq Structs
    /\ holder \in [Devices -> Structs \cup {NoDisk}]
    /\ hiddenParts \subseteq Devices

\* A user has a disk from opening it until closing it; a shared one is
\* listed, any other is the user's alone.
Having ==
    \A u \in Users :
        /\ user[u].dsk # NoDisk <=> user[u].pc \notin {"idle", "opening"}
        /\ user[u].dsk # NoDisk => dsk[user[u].dsk].alive
        /\ user[u].dsk # NoDisk => (user[u].pc = "has" <=> user[u].dsk \in listed)
        /\ user[u].pc \in {"adding", "restoring", "closing"} =>
              \A v \in Users \ {u} : user[v].dsk # user[u].dsk
        /\ user[u].pc = "adding" => dsk[user[u].dsk].refcount = 1
        /\ user[u].pc = "closing" => ~dsk[user[u].dsk].hidden

\* The open disks and the devices that have a holder are paired.
Holding ==
    /\ \A d \in Structs : dsk[d].alive => holder[Device(d)] = d
    /\ \A dev \in Devices : holder[dev] # NoDisk =>
          dsk[holder[dev]].alive /\ Device(holder[dev]) = dev

\* References to a listed disk are its users, and there is one.
Counted ==
    \A d \in listed : /\ dsk[d].alive
                      /\ dsk[d].refcount = Cardinality(Sharing(d))
                      /\ dsk[d].refcount > 0

\* Partitions are hidden by the disk that holds the device.
Hiding == \A dev \in hiddenParts : holder[dev] # NoDisk /\ dsk[holder[dev]].hidden

DiskInv == DiskTypeOK /\ ~diskFault /\ Having /\ Holding /\ Counted /\ Hiding

-----------------------------------------------------------------------------
(* What the lemmas use of finite sets.  They assume it and the theorem      *)
(* discharges it, so that the library's theorems are not in the way of      *)
(* every step.                                                              *)
FiniteFacts ==
    /\ \A S : IsFiniteSet(S) => Cardinality(S) \in Nat /\ (Cardinality(S) = 0 <=> S = {})
    /\ \A S : IsFiniteSet(S) => \A T \in SUBSET S : IsFiniteSet(T)
    /\ \A x : Cardinality({x}) = 1
    /\ \A S, x : IsFiniteSet(S) =>
          /\ x \notin S => Cardinality(S \cup {x}) = Cardinality(S) + 1
          /\ IsFiniteSet(S \ {x})
          /\ x \in S => Cardinality(S \ {x}) = Cardinality(S) - 1

LEMMA SharingFinite ==
  ASSUME FiniteFacts
  PROVE  \A d : IsFiniteSet(Sharing(d)) /\ Cardinality(Sharing(d)) \in Nat
  BY UsersAssumption DEF Sharing, FiniteFacts

\* Sharing with one user more, and one less.
LEMMA OneMore ==
  ASSUME FiniteFacts, NEW S, NEW T, NEW u, IsFiniteSet(S), u \notin S, T = S \cup {u}
  PROVE  Cardinality(T) = Cardinality(S) + 1
  BY DEF FiniteFacts

LEMMA OneLess ==
  ASSUME FiniteFacts, NEW S, NEW T, NEW u, IsFiniteSet(S), u \in S, T = S \ {u}
  PROVE  Cardinality(T) = Cardinality(S) - 1
  BY DEF FiniteFacts

\* What a step of one user leaves of the other users.
LEMMA GoEffect ==
  ASSUME DiskTypeOK, NEW u \in Users, NEW l \in Positions, NEW d \in Structs \cup {NoDisk},
         Go(u, l, d)
  PROVE  /\ user' \in [Users -> UserRecord]
         /\ user'[u].pc = l /\ user'[u].dsk = d /\ user'[u].path = user[u].path
         /\ \A w \in Users \ {u} : user'[w] = user[w]
<1>1. user[u] \in UserRecord
  BY DEF DiskTypeOK
<1>2. [user[u] EXCEPT !.pc = l, !.dsk = d] \in UserRecord
  BY <1>1, Zenon DEF UserRecord
<1>3. user' = [user EXCEPT ![u] = [user[u] EXCEPT !.pc = l, !.dsk = d]]
  BY Zenon DEF Go, DiskTypeOK
<1>4. user' \in [Users -> UserRecord]
  BY <1>2, <1>3 DEF DiskTypeOK
<1>5. user'[u] = [user[u] EXCEPT !.pc = l, !.dsk = d]
  BY <1>3 DEF DiskTypeOK
<1>6. user'[u].pc = l /\ user'[u].dsk = d /\ user'[u].path = user[u].path
  BY <1>1, <1>5 DEF UserRecord
<1> QED  BY <1>3, <1>4, <1>6 DEF DiskTypeOK

\* What a change of a count or of the hidden flag leaves of a disk.
LEMMA CountEffect ==
  ASSUME DiskTypeOK, NEW d \in Structs, NEW n \in Int,
         dsk' = [dsk EXCEPT ![d].refcount = n]
  PROVE  /\ dsk' \in [Structs -> DiskRecord]
         /\ dsk'[d].refcount = n
         /\ \A e \in Structs : /\ dsk'[e].alive = dsk[e].alive
                               /\ dsk'[e].hidden = dsk[e].hidden
                               /\ dsk'[e].path = dsk[e].path
         /\ \A e \in Structs \ {d} : dsk'[e] = dsk[e]
<1>1. dsk[d] \in DiskRecord
  BY DEF DiskTypeOK
<1>2. [dsk[d] EXCEPT !.refcount = n] \in DiskRecord
  BY <1>1 DEF DiskRecord
<1>3. dsk' = [dsk EXCEPT ![d] = [dsk[d] EXCEPT !.refcount = n]]
  BY DEF DiskTypeOK
<1>4. dsk' \in [Structs -> DiskRecord]
  BY <1>2, <1>3 DEF DiskTypeOK
<1>5. dsk'[d] = [dsk[d] EXCEPT !.refcount = n] /\ \A e \in Structs \ {d} : dsk'[e] = dsk[e]
  BY <1>3 DEF DiskTypeOK
<1>6. /\ dsk'[d].refcount = n /\ dsk'[d].alive = dsk[d].alive
      /\ dsk'[d].hidden = dsk[d].hidden /\ dsk'[d].path = dsk[d].path
  BY <1>1, <1>5 DEF DiskRecord
<1> QED  BY <1>4, <1>5, <1>6

LEMMA HiddenEffect ==
  ASSUME DiskTypeOK, NEW d \in Structs, NEW h \in BOOLEAN,
         dsk' = [dsk EXCEPT ![d].hidden = h]
  PROVE  /\ dsk' \in [Structs -> DiskRecord]
         /\ dsk'[d].hidden = h
         /\ \A e \in Structs : /\ dsk'[e].alive = dsk[e].alive
                               /\ dsk'[e].refcount = dsk[e].refcount
                               /\ dsk'[e].path = dsk[e].path
         /\ \A e \in Structs \ {d} : dsk'[e] = dsk[e]
<1>1. dsk[d] \in DiskRecord
  BY DEF DiskTypeOK
<1>2. [dsk[d] EXCEPT !.hidden = h] \in DiskRecord
  BY <1>1 DEF DiskRecord
<1>3. dsk' = [dsk EXCEPT ![d] = [dsk[d] EXCEPT !.hidden = h]]
  BY DEF DiskTypeOK
<1>4. dsk' \in [Structs -> DiskRecord]
  BY <1>2, <1>3 DEF DiskTypeOK
<1>5. dsk'[d] = [dsk[d] EXCEPT !.hidden = h] /\ \A e \in Structs \ {d} : dsk'[e] = dsk[e]
  BY <1>3 DEF DiskTypeOK
<1>6. /\ dsk'[d].hidden = h /\ dsk'[d].alive = dsk[d].alive
      /\ dsk'[d].refcount = dsk[d].refcount /\ dsk'[d].path = dsk[d].path
  BY <1>1, <1>5 DEF DiskRecord
<1> QED  BY <1>4, <1>5, <1>6

LEMMA InitDiskInv == DiskInit => DiskInv
<1> SUFFICES ASSUME DiskInit PROVE DiskInv
  OBVIOUS
<1>1. FreeDisk.path \in Paths
  BY PathsAssumption DEF FreeDisk
<1>2. FreeDisk \in [alive : BOOLEAN, path : Paths, refcount : Int, hidden : BOOLEAN]
  BY <1>1 DEF FreeDisk
<1>3. DiskTypeOK
  BY <1>1, <1>2 DEF DiskInit, DiskTypeOK, UserRecord, DiskRecord, Positions
<1>4. Having
  BY DEF DiskInit, Having
<1>5. Holding
  BY StructsAssumption DEF DiskInit, Holding, FreeDisk
<1> QED  BY <1>3, <1>4, <1>5 DEF DiskInit, DiskInv, Counted, Hiding

\* Everything a listed disk's user needs to know of it.
LEMMA HasListed ==
  ASSUME DiskInv, NEW u \in Users, user[u].pc = "has"
  PROVE  /\ user[u].dsk \in listed /\ user[u].dsk \in Structs
         /\ dsk[user[u].dsk].alive /\ dsk[user[u].dsk].refcount > 0
         /\ dsk[user[u].dsk].refcount \in Int
  BY DEF DiskInv, Having, Counted, DiskTypeOK, DiskRecord

\* A user that has a disk has one of the structs.
LEMMA HasStruct ==
  ASSUME DiskInv, NEW u \in Users, user[u].pc \in {"adding", "restoring", "closing"}
  PROVE  /\ user[u].dsk \in Structs /\ user[u].dsk \notin listed /\ dsk[user[u].dsk].alive
         /\ \A v \in Users \ {u} : user[v].dsk # user[u].dsk
  BY DEF DiskInv, Having, DiskTypeOK, UserRecord

-----------------------------------------------------------------------------
\* A user joins a listed disk, by a look-up or by cas_disk_get.
LEMMA JoinKeeps ==
  ASSUME FiniteFacts, DiskInv, NEW u \in Users, NEW d \in listed, user[u].pc = "idle",
         dsk' = [dsk EXCEPT ![d].refcount = @ + 1], Go(u, "has", d),
         ~diskFault', UNCHANGED <<listed, holder, hiddenParts>>
  PROVE  DiskInv'
<1> USE DEF DiskInv
<1>1. d \in Structs /\ dsk[d].alive /\ dsk[d].refcount \in Int
  BY DEF DiskTypeOK, DiskRecord, Counted
<1>2. /\ user' \in [Users -> UserRecord]
      /\ user'[u].pc = "has" /\ user'[u].dsk = d
      /\ \A w \in Users \ {u} : user'[w] = user[w]
  BY <1>1, GoEffect DEF Positions
<1> DEFINE n == dsk[d].refcount + 1
<1>3. n \in Int /\ dsk' = [dsk EXCEPT ![d].refcount = n]
  BY <1>1
<1>4. /\ dsk' \in [Structs -> DiskRecord]
      /\ dsk'[d].refcount = dsk[d].refcount + 1
      /\ \A e \in Structs : /\ dsk'[e].alive = dsk[e].alive
                            /\ dsk'[e].hidden = dsk[e].hidden
                            /\ dsk'[e].path = dsk[e].path
      /\ \A e \in Structs \ {d} : dsk'[e] = dsk[e]
  <2>1. n = dsk[d].refcount + 1
    OBVIOUS
  <2> HIDE DEF n
  <2> QED  BY <1>1, <1>3, <2>1, CountEffect, ZenonT(60)
<1>5. DiskTypeOK'
  BY <1>2, <1>4, Zenon DEF DiskTypeOK
<1>6. Having'
  <2> SUFFICES ASSUME NEW w \in Users PROVE Having!(w)'
    BY DEF Having
  <2>1. CASE w = u
    BY <1>1, <1>2, <1>4, <2>1, StructsAssumption, SMTT(30)
  <2>2. CASE w # u
    <3>1. user'[w] = user[w] /\ user[w].dsk \in Structs \cup {NoDisk}
      BY <1>2, <2>2 DEF DiskTypeOK, UserRecord
    <3>2. user[w].pc \in {"adding", "restoring", "closing"} => user[w].dsk # d
      BY HasStruct
    <3> QED  BY <1>1, <1>2, <1>4, <3>1, <3>2 DEF Having
  <2> QED  BY <2>1, <2>2, Zenon
<1>7. Holding'
  BY <1>4, StructsAssumption DEF DiskTypeOK, Holding, Device
<1>8. Counted'
  <2>1. Sharing(d)' = Sharing(d) \cup {u}
    BY <1>2 DEF Sharing
  <2>2. u \notin Sharing(d)
    BY DEF Sharing
  <2>3. Cardinality(Sharing(d)') = Cardinality(Sharing(d)) + 1
    BY <2>1, <2>2, SharingFinite, OneMore
  <2>4. \A e \in listed \ {d} : Sharing(e)' = Sharing(e)
    BY <1>2, StructsAssumption DEF Sharing, DiskTypeOK
  <2>5. dsk'[d].refcount = Cardinality(Sharing(d)') /\ dsk'[d].refcount > 0 /\ dsk'[d].alive
    BY <1>1, <1>4, <2>3 DEF Counted
  <2> QED  BY <1>4, <2>4, <2>5 DEF Counted, DiskTypeOK
<1>9. Hiding'
  BY <1>4, StructsAssumption DEF DiskTypeOK, Hiding
<1> QED  BY <1>5, <1>6, <1>7, <1>8, <1>9

LEMMA OpenLookupKeeps ==
  ASSUME FiniteFacts, DiskInv, NEW u \in Users, NEW p \in Paths, OpenLookup(u, p)
  PROVE  DiskInv'
<1>1. CASE Lookup(p) # {}
  <2>1. PICK d \in listed : dsk' = [dsk EXCEPT ![d].refcount = @ + 1] /\ Go(u, "has", d)
    BY <1>1 DEF OpenLookup, Lookup
  <2>2. ~diskFault'
    BY DEF OpenLookup, DiskInv
  <2> QED  BY <2>1, <2>2, JoinKeeps, Zenon DEF OpenLookup, At
<1>2. CASE Lookup(p) = {}
  <2> USE DEF DiskInv
  <2>1. user' = [user EXCEPT ![u].pc = "opening", ![u].path = p]
    BY <1>2 DEF OpenLookup
  <2>2. user[u].pc = "idle" /\ UNCHANGED <<dsk, listed, holder, hiddenParts, diskFault>>
    BY <1>2 DEF OpenLookup, At
  <2>3. user[u] \in UserRecord
    BY DEF DiskTypeOK
  <2>4. [user[u] EXCEPT !.pc = "opening", !.path = p] \in UserRecord
    BY <2>3, Zenon DEF UserRecord, Positions
  <2>5. user' = [user EXCEPT ![u] = [user[u] EXCEPT !.pc = "opening", !.path = p]]
    BY <2>1, Zenon DEF DiskTypeOK
  <2>6. /\ user' \in [Users -> UserRecord]
        /\ user'[u] = [user[u] EXCEPT !.pc = "opening", !.path = p]
        /\ \A w \in Users \ {u} : user'[w] = user[w]
    BY <2>4, <2>5 DEF DiskTypeOK
  <2>7. user'[u].pc = "opening" /\ user'[u].dsk = user[u].dsk
    BY <2>3, <2>6 DEF UserRecord
  <2>8. DiskTypeOK'
    BY <2>2, <2>6, Zenon DEF DiskTypeOK
  <2>9. Having'
    <3>1. user[u].dsk = NoDisk
      BY <2>2 DEF Having
    <3>2. \A w \in Users : user'[w].dsk = user[w].dsk
      BY <2>6, <2>7, Zenon
    <3> SUFFICES ASSUME NEW w \in Users PROVE Having!(w)'
      BY DEF Having
    <3>3. CASE w = u
      BY <2>2, <2>7, <3>1, <3>2, <3>3, SMTT(30)
    <3>4. CASE w # u
      BY <2>2, <2>6, <3>2, <3>4 DEF Having
    <3> QED  BY <3>3, <3>4
  <2>10. \A d : Sharing(d)' = Sharing(d)
    BY <2>2, <2>6, <2>7, SMTT(30), ZenonT(60) DEF Sharing
  <2>11. Counted'
    BY <2>2, <2>10 DEF Counted
  <2>12. Holding' /\ Hiding'
    BY <2>2 DEF Holding, Hiding, Device
  <2> QED  BY <2>2, <2>8, <2>9, <2>11, <2>12
<1> QED  BY <1>1, <1>2

LEMMA OpenFailKeeps ==
  ASSUME DiskInv, NEW u \in Users, OpenFail(u)
  PROVE  DiskInv'
<1> USE DEF DiskInv
<1>1. user[u].pc = "opening" /\ UNCHANGED <<dsk, listed, holder, hiddenParts, diskFault>>
  BY DEF OpenFail, At
<1>2. /\ user' \in [Users -> UserRecord]
      /\ user'[u].pc = "idle" /\ user'[u].dsk = NoDisk
      /\ \A w \in Users \ {u} : user'[w] = user[w]
  BY GoEffect DEF OpenFail, Positions
<1>3. user[u].dsk = NoDisk
  BY <1>1 DEF Having
<1>4. \A w \in Users : user'[w].dsk = user[w].dsk
  BY <1>2, <1>3
<1>5. Having'
  <2> SUFFICES ASSUME NEW w \in Users PROVE Having!(w)'
    BY DEF Having
  <2>1. CASE w = u
    BY <1>2, <2>1
  <2>2. CASE w # u
    BY <1>1, <1>2, <1>4, <2>2 DEF Having
  <2> QED  BY <2>1, <2>2
<1>6. \A d : Sharing(d)' = Sharing(d)
  BY <1>1, <1>2, <1>3 DEF Sharing
<1>7. Counted'
  BY <1>1, <1>6 DEF Counted
<1>8. DiskTypeOK' /\ Holding' /\ Hiding'
  BY <1>1, <1>2 DEF DiskTypeOK, Holding, Hiding, Device
<1> QED  BY <1>1, <1>5, <1>7, <1>8

\* The new struct is nobody else's, and its device had no holder.
LEMMA OpenExclusiveKeeps ==
  ASSUME DiskInv, NEW u \in Users, OpenExclusive(u)
  PROVE  DiskInv'
<1> USE DEF DiskInv
<1> DEFINE p == user[u].path
           new == [alive |-> TRUE, path |-> p, refcount |-> 1, hidden |-> FALSE]
<1>1. /\ user[u].pc = "opening" /\ holder[DeviceOf[p]] = NoDisk
      /\ UNCHANGED <<listed, hiddenParts, diskFault>>
  BY DEF OpenExclusive, At
<1>2. PICK s \in Structs : /\ ~dsk[s].alive
                           /\ dsk' = [dsk EXCEPT ![s] = new]
                           /\ holder' = [holder EXCEPT ![DeviceOf[p]] = s]
                           /\ Go(u, "adding", s)
  BY Zenon DEF OpenExclusive
<1>3. p \in Paths /\ DeviceOf[p] \in Devices /\ user[u].dsk = NoDisk
  BY <1>1 DEF DiskTypeOK, UserRecord, Devices, Having
<1>4. new \in DiskRecord
  BY <1>3 DEF DiskRecord
<1>5. /\ user' \in [Users -> UserRecord]
      /\ user'[u].pc = "adding" /\ user'[u].dsk = s
      /\ \A w \in Users \ {u} : user'[w] = user[w]
  BY <1>2, GoEffect DEF Positions
<1>6. /\ dsk' \in [Structs -> DiskRecord] /\ dsk'[s] = new
      /\ \A e \in Structs \ {s} : dsk'[e] = dsk[e]
  BY <1>2, <1>4 DEF DiskTypeOK
<1>7. /\ holder' \in [Devices -> Structs \cup {NoDisk}]
      /\ holder'[DeviceOf[p]] = s
      /\ \A dev \in Devices \ {DeviceOf[p]} : holder'[dev] = holder[dev]
  BY <1>2, <1>3 DEF DiskTypeOK
<1> HIDE DEF p
<1>8. \A w \in Users : user[w].dsk # s
  BY <1>2, StructsAssumption DEF Having
<1>9. s \notin listed
  BY <1>2 DEF Counted
<1>10. DiskTypeOK'
  BY <1>1, <1>5, <1>6, <1>7, SMTT(30) DEF DiskTypeOK
<1>11. Having'
  <2> SUFFICES ASSUME NEW w \in Users PROVE Having!(w)'
    BY DEF Having
  <2>1. CASE w = u
    BY <1>1, <1>2, <1>5, <1>6, <1>8, <1>9, <2>1, StructsAssumption, SMTT(30)
  <2>2. CASE w # u
    <3>1. user'[w] = user[w] /\ user[w].dsk # s /\ user[w].dsk \in Structs \cup {NoDisk}
      BY <1>5, <1>8, <2>2 DEF DiskTypeOK, UserRecord
    <3>2. \A v \in Users \ {w} : user[v].dsk # user[w].dsk => user'[v].dsk # user'[w].dsk
      BY <1>5, <3>1
    <3> QED  BY <1>1, <1>6, <3>1, <3>2 DEF Having
  <2> QED  BY <2>1, <2>2, SMTT(30)
<1>12. Holding'
  <2>1. ASSUME NEW d \in Structs, dsk'[d].alive PROVE holder'[Device(d)'] = d
    <3>1. CASE d = s
      BY <1>6, <1>7, <3>1 DEF Device
    <3>2. CASE d # s
      <4>1. dsk'[d] = dsk[d] /\ Device(d)' = Device(d) /\ holder[Device(d)] = d
        BY <1>6, <2>1, <3>2 DEF Holding, Device
      <4>2. Device(d) \in Devices
        BY DEF DiskTypeOK, DiskRecord, Device, Devices
      <4> QED  BY <1>1, <1>7, <4>1, <4>2, StructsAssumption, SMTT(30) DEF p
    <3> QED  BY <3>1, <3>2
  <2>2. ASSUME NEW dev \in Devices, holder'[dev] # NoDisk
        PROVE  dsk'[holder'[dev]].alive /\ DeviceOf[dsk'[holder'[dev]].path] = dev
    <3>1. CASE dev = DeviceOf[p]
      BY <1>6, <1>7, <3>1, SMTT(30)
    <3>2. CASE dev # DeviceOf[p]
      <4>1. holder'[dev] = holder[dev] /\ dsk[holder[dev]].alive /\ holder[dev] \in Structs
        BY <1>7, <2>2, <3>2 DEF Holding, DiskTypeOK
      <4> QED  BY <1>2, <1>6, <2>2, <4>1 DEF Holding, Device
    <3> QED  BY <3>1, <3>2
  <2> QED  BY <2>1, <2>2 DEF Holding, Device
<1>13. Counted'
  <2>1. \A e \in listed : Sharing(e)' = Sharing(e)
    BY <1>3, <1>5, <1>9, StructsAssumption, SMTT(30) DEF Sharing, DiskTypeOK
  <2> QED  BY <1>1, <1>6, <1>9, <2>1 DEF Counted, DiskTypeOK
<1>14. Hiding'
  BY <1>1, <1>2, <1>6, <1>7 DEF Hiding, DiskTypeOK, Holding, p
<1> QED  BY <1>1, <1>10, <1>11, <1>12, <1>13, <1>14

\* The opener was the only one with the disk, so its one reference is right.
LEMMA OpenAddKeeps ==
  ASSUME FiniteFacts, DiskInv, NEW u \in Users, OpenAdd(u)
  PROVE  DiskInv'
<1> USE DEF DiskInv
<1>0. PICK d : d = user[u].dsk
  OBVIOUS
<1>1. /\ user[u].pc = "adding" /\ listed' = listed \cup {d} /\ Go(u, "has", d)
      /\ UNCHANGED <<dsk, holder, hiddenParts, diskFault>>
  BY <1>0 DEF OpenAdd, At
<1>2. /\ d \in Structs /\ d \notin listed /\ dsk[d].alive
      /\ \A v \in Users \ {u} : user[v].dsk # d
  BY <1>0, <1>1, HasStruct
<1>3. dsk[d].refcount = 1
  BY <1>0, <1>1 DEF Having
<1>4. /\ user' \in [Users -> UserRecord]
      /\ user'[u].pc = "has" /\ user'[u].dsk = d
      /\ \A w \in Users \ {u} : user'[w] = user[w]
  BY <1>1, <1>2, GoEffect DEF Positions
<1>5. DiskTypeOK'
  BY <1>1, <1>2, <1>4, SMTT(30) DEF DiskTypeOK
<1>6. Having'
  <2> SUFFICES ASSUME NEW w \in Users PROVE Having!(w)'
    BY Zenon DEF Having
  <2>1. CASE w = u
    BY <1>1, <1>2, <1>4, <2>1, StructsAssumption, Zenon
  <2>2. CASE w # u
    <3>1. user'[w] = user[w] /\ user[w].dsk # d
      BY <1>2, <1>4, <2>2
    <3>2. \A v \in Users \ {w} : user[v].dsk # user[w].dsk => user'[v].dsk # user'[w].dsk
      BY <1>4, <3>1
    <3> QED  BY <1>1, <3>1, <3>2 DEF Having
  <2> QED  BY <2>1, <2>2
<1>7. Counted'
  <2>1. Sharing(d)' = {u}
    BY <1>2, <1>4 DEF Sharing
  <2>2. Cardinality(Sharing(d)') = 1
    BY <2>1, Zenon DEF FiniteFacts
  <2>3. \A e \in listed : Sharing(e)' = Sharing(e)
    BY <1>0, <1>1, <1>2, <1>4 DEF Sharing
  <2>4. dsk' = dsk /\ dsk[d].refcount > 0
    BY <1>1, <1>3
  <2> QED  BY <1>1, <1>2, <1>3, <2>2, <2>3, <2>4 DEF Counted
<1>8. Holding' /\ Hiding'
  BY <1>1 DEF Holding, Hiding, Device
<1> QED  BY <1>1, <1>5, <1>6, <1>7, <1>8

\* BUG_ON stays quiet: a shared disk is listed and has a reference.
LEMMA DiskGetKeeps ==
  ASSUME FiniteFacts, DiskInv, NEW u \in Users, NEW v \in Users, DiskGet(u, v)
  PROVE  DiskInv'
<1> DEFINE d == user[u].dsk
<1>1. /\ user[u].pc = "has" /\ user[v].pc = "idle" /\ Go(v, "has", d)
      /\ dsk' = [dsk EXCEPT ![d].refcount = @ + 1]
      /\ diskFault' = (diskFault \/ ~dsk[d].alive \/ dsk[d].refcount <= 0)
      /\ UNCHANGED <<listed, holder, hiddenParts>>
  BY SMTT(30) DEF DiskGet, At
<1>2. d \in listed /\ dsk[d].alive /\ dsk[d].refcount > 0 /\ dsk[d].refcount \in Int
  BY <1>1, HasListed
<1>3. ~(dsk[d].refcount <= 0)
  BY <1>2
<1> HIDE DEF d
<1>4. ~diskFault'
  BY <1>1, <1>2, <1>3, ZenonT(60) DEF DiskInv
<1> QED  BY <1>1, <1>2, <1>4, JoinKeeps, Zenon

LEMMA HidePartsKeeps ==
  ASSUME DiskInv, NEW u \in Users, HideParts(u)
  PROVE  DiskInv'
<1> USE DEF DiskInv
<1>0. PICK d : d = user[u].dsk
  OBVIOUS
<1>1. /\ user[u].pc = "has" /\ dsk' = [dsk EXCEPT ![d].hidden = TRUE]
      /\ hiddenParts' = hiddenParts \cup {Device(d)}
      /\ diskFault' = (diskFault \/ ~dsk[d].alive)
      /\ UNCHANGED <<user, listed, holder>>
  BY <1>0, Zenon DEF HideParts, At
<1>2. d \in listed /\ d \in Structs /\ dsk[d].alive
  BY <1>0, <1>1, HasListed, Zenon
<1>3. holder[Device(d)] = d /\ Device(d) \in Devices
  BY <1>2 DEF Holding, Device, Devices, DiskTypeOK, DiskRecord
<1>4. \A w \in Users : user[w].dsk = d => user[w].pc # "closing"
  BY <1>2 DEF Having
<1>5. /\ dsk' \in [Structs -> DiskRecord]
      /\ dsk'[d].hidden = TRUE
      /\ \A e \in Structs : /\ dsk'[e].alive = dsk[e].alive
                            /\ dsk'[e].refcount = dsk[e].refcount
                            /\ dsk'[e].path = dsk[e].path
      /\ \A e \in Structs \ {d} : dsk'[e] = dsk[e]
  BY <1>1, <1>2, HiddenEffect, Zenon
<1>6. DiskTypeOK' /\ ~diskFault'
  BY <1>1, <1>2, <1>3, <1>5, Zenon DEF DiskTypeOK
<1>7. Having'
  <2> SUFFICES ASSUME NEW w \in Users PROVE Having!(w)'
    BY DEF Having
  <2>1. user[w].dsk \in Structs \cup {NoDisk}
    BY DEF DiskTypeOK, UserRecord
  <2>2. user[w].pc = "closing" => user[w].dsk # d /\ user[w].dsk # NoDisk
    BY <1>4 DEF Having
  <2> QED  BY <1>1, <1>4, <1>5, <2>1, <2>2 DEF Having
<1>8. Holding'
  BY <1>1, <1>5, StructsAssumption DEF Holding, Device, DiskTypeOK
<1>9. Counted'
  <2>1. \A e : Sharing(e)' = Sharing(e)
    BY <1>1 DEF Sharing
  <2> QED  BY <1>1, <1>5, <2>1 DEF Counted, DiskTypeOK
<1>10. Hiding'
  <2> SUFFICES ASSUME NEW dev \in hiddenParts' PROVE holder[dev] # NoDisk /\ dsk'[holder[dev]].hidden
    BY <1>1 DEF Hiding
  <2>1. CASE dev = Device(d)
    BY <1>2, <1>3, <1>5, <2>1, StructsAssumption
  <2>2. CASE dev # Device(d)
    <3>1. dev \in hiddenParts /\ holder[dev] \in Structs /\ dsk[holder[dev]].hidden
      BY <1>1, <2>2 DEF Hiding, DiskTypeOK
    <3> QED  BY <1>5, <3>1, StructsAssumption
  <2> QED  BY <2>1, <2>2
<1> QED  BY <1>6, <1>7, <1>8, <1>9, <1>10

\* A put that leaves references leaves the disk to the other users.
LEMMA PutSharedKeeps ==
  ASSUME FiniteFacts, DiskInv, NEW u \in Users, DiskPut(u), dsk[user[u].dsk].refcount > 1
  PROVE  DiskInv'
<1> USE DEF DiskInv
<1>0. PICK d : d = user[u].dsk
  BY Zenon
<1>1. /\ user[u].pc = "has" /\ dsk[d].refcount > 1
      /\ dsk' = [dsk EXCEPT ![d].refcount = @ - 1]
      /\ diskFault' = (diskFault \/ ~dsk[d].alive \/ dsk[d].refcount <= 0)
      /\ Go(u, "idle", NoDisk)
      /\ UNCHANGED <<listed, holder, hiddenParts>>
  BY <1>0, Zenon DEF DiskPut, At
<1>2. d \in listed /\ d \in Structs /\ dsk[d].alive /\ dsk[d].refcount \in Int
  BY <1>0, <1>1, HasListed
<1>3. /\ user' \in [Users -> UserRecord]
      /\ user'[u].pc = "idle" /\ user'[u].dsk = NoDisk
      /\ \A w \in Users \ {u} : user'[w] = user[w]
  BY <1>1, GoEffect DEF Positions
<1> DEFINE n == dsk[d].refcount - 1
<1>4. n \in Int /\ n > 0 /\ dsk' = [dsk EXCEPT ![d].refcount = n]
  BY <1>1, <1>2
<1>5. n = dsk[d].refcount - 1
  OBVIOUS
<1> HIDE DEF n
<1>6. /\ dsk' \in [Structs -> DiskRecord]
      /\ dsk'[d].refcount = n
      /\ \A e \in Structs : /\ dsk'[e].alive = dsk[e].alive
                            /\ dsk'[e].hidden = dsk[e].hidden
                            /\ dsk'[e].path = dsk[e].path
      /\ \A e \in Structs \ {d} : dsk'[e] = dsk[e]
  BY <1>2, <1>4, CountEffect, Zenon
<1>7. ~(dsk[d].refcount <= 0)
  BY <1>1, <1>2
<1>8. DiskTypeOK' /\ ~diskFault'
  BY <1>1, <1>2, <1>3, <1>6, <1>7, ZenonT(60) DEF DiskTypeOK
<1>9. Having'
  <2> SUFFICES ASSUME NEW w \in Users PROVE Having!(w)'
    BY DEF Having
  <2>1. CASE w = u
    BY <1>3, <2>1, Zenon
  <2>2. CASE w # u
    <3>1. user'[w] = user[w] /\ user[w].dsk \in Structs \cup {NoDisk}
      BY <1>3, <2>2, SMTT(30) DEF DiskTypeOK, UserRecord
    <3>2. user[w].pc \in {"adding", "restoring", "closing"} =>
             user[w].dsk # d /\ user[w].dsk # NoDisk
      BY <1>2, HasStruct, StructsAssumption, Zenon
    <3> QED  BY <1>1, <1>2, <1>3, <1>6, <3>1, <3>2 DEF Having
  <2> QED  BY <2>1, <2>2, Zenon
<1>10. Holding' /\ Hiding'
  BY <1>1, <1>6, StructsAssumption DEF DiskTypeOK, Holding, Hiding, Device
<1>11. Counted'
  <2>1. Sharing(d)' = Sharing(d) \ {u}
    BY <1>0, <1>2, <1>3, StructsAssumption, Zenon DEF Sharing
  <2>2. u \in Sharing(d)
    BY <1>0, <1>1 DEF Sharing
  <2>3. Cardinality(Sharing(d)') = Cardinality(Sharing(d)) - 1
    BY <2>1, <2>2, SharingFinite, OneLess
  <2>4. \A e \in listed \ {d} : Sharing(e)' = Sharing(e) /\ e \in Structs
    BY <1>0, <1>3, StructsAssumption DEF Sharing, DiskTypeOK
  <2>5. dsk'[d].refcount = Cardinality(Sharing(d)') /\ dsk'[d].refcount > 0 /\ dsk'[d].alive
    BY <1>2, <1>4, <1>5, <1>6, <2>3, SMTT(30) DEF Counted
  <2> QED  BY <1>1, <1>6, <2>4, <2>5, SMTT(30) DEF Counted
<1> QED  BY <1>8, <1>9, <1>10, <1>11

\* The last reference is the caller's, so no other user has the disk.
LEMMA LastUser ==
  ASSUME FiniteFacts, DiskInv, NEW u \in Users, user[u].pc = "has",
         dsk[user[u].dsk].refcount <= 1
  PROVE  \A v \in Users \ {u} : user[v].dsk # user[u].dsk
<1> USE DEF DiskInv
<1>0. PICK d : d = user[u].dsk
  OBVIOUS
<1>1. d \in listed /\ d \in Structs /\ dsk[d].refcount \in Int /\ dsk[d].refcount = 1
  BY <1>0, HasListed
<1>2. Cardinality(Sharing(d)) = 1 /\ IsFiniteSet(Sharing(d)) /\ u \in Sharing(d)
  BY <1>0, <1>1, SharingFinite, Zenon DEF Counted, Sharing
<1>3. Cardinality(Sharing(d) \ {u}) = 0 /\ IsFiniteSet(Sharing(d) \ {u})
  BY <1>2, OneLess DEF FiniteFacts
<1>4. Sharing(d) \ {u} = {}
  BY <1>3, Zenon DEF FiniteFacts
<1> SUFFICES ASSUME NEW v \in Users \ {u}, user[v].dsk = d PROVE FALSE
  BY <1>0
<1>5. user[v].pc \in Positions /\ user[v].dsk # NoDisk
  BY <1>1, StructsAssumption DEF DiskTypeOK, UserRecord
<1>6. user[v].pc # "has" /\ user[v].pc # "adding"
  BY <1>4 DEF Sharing
<1>7. user[v].pc = "has"
  BY <1>1, <1>5 DEF Having
<1> QED  BY <1>6, <1>7

LEMMA PutLastKeeps ==
  ASSUME FiniteFacts, DiskInv, NEW u \in Users, DiskPut(u), ~(dsk[user[u].dsk].refcount > 1)
  PROVE  DiskInv'
<1> USE DEF DiskInv
<1>0. PICK d : d = user[u].dsk
  BY Zenon
<1>1. /\ user[u].pc = "has" /\ ~(dsk[d].refcount > 1)
      /\ dsk' = [dsk EXCEPT ![d].refcount = @ - 1]
      /\ diskFault' = (diskFault \/ ~dsk[d].alive \/ dsk[d].refcount <= 0)
      /\ Go(u, "restoring", d) /\ listed' = listed \ {d}
      /\ UNCHANGED <<holder, hiddenParts>>
  BY <1>0, Zenon DEF DiskPut, At
<1>2. /\ d \in listed /\ d \in Structs /\ dsk[d].alive
      /\ dsk[d].refcount \in Int /\ dsk[d].refcount > 0
  BY <1>0, <1>1, HasListed, Zenon
<1>3. \A v \in Users \ {u} : user[v].dsk # d
  BY <1>0, <1>1, <1>2, LastUser, SMTT(30)
<1>4. /\ user' \in [Users -> UserRecord]
      /\ user'[u].pc = "restoring" /\ user'[u].dsk = d
      /\ \A w \in Users \ {u} : user'[w] = user[w]
  BY <1>1, <1>2, GoEffect DEF Positions
<1> DEFINE n == dsk[d].refcount - 1
<1>5. n \in Int /\ dsk' = [dsk EXCEPT ![d].refcount = n] /\ ~(dsk[d].refcount <= 0)
  BY <1>1, <1>2
<1> HIDE DEF n
<1>6. /\ dsk' \in [Structs -> DiskRecord]
      /\ \A e \in Structs : /\ dsk'[e].alive = dsk[e].alive
                            /\ dsk'[e].hidden = dsk[e].hidden
                            /\ dsk'[e].path = dsk[e].path
      /\ \A e \in Structs \ {d} : dsk'[e] = dsk[e]
  BY <1>2, <1>5, CountEffect, Zenon
<1>7. DiskTypeOK' /\ ~diskFault'
  BY <1>1, <1>2, <1>4, <1>5, <1>6, ZenonT(60) DEF DiskTypeOK
<1>8. Having'
  <2> SUFFICES ASSUME NEW w \in Users PROVE Having!(w)'
    BY Zenon DEF Having
  <2>1. CASE w = u
    BY <1>1, <1>2, <1>3, <1>4, <1>6, <2>1, StructsAssumption, SMTT(30)
  <2>2. CASE w # u
    <3>1. user'[w] = user[w] /\ user[w].dsk \in Structs \cup {NoDisk} /\ user[w].dsk # d
      BY <1>3, <1>4, <2>2, Zenon DEF DiskTypeOK, UserRecord
    <3>2. user[w].pc \in {"adding", "restoring", "closing"} => user[w].dsk # NoDisk
      BY HasStruct, StructsAssumption, Zenon
    <3> QED  BY <1>1, <1>2, <1>4, <1>6, <3>1, <3>2, SMTT(30) DEF Having
  <2> QED  BY <2>1, <2>2, Zenon
<1>9. Holding' /\ Hiding'
  BY <1>1, <1>6, StructsAssumption DEF DiskTypeOK, Holding, Hiding, Device
<1>10. Counted'
  <2>1. \A e \in listed \ {d} : Sharing(e)' = Sharing(e) /\ e \in Structs
    BY <1>0, <1>4, SMTT(30) DEF Sharing, DiskTypeOK
  <2> QED  BY <1>1, <1>6, <2>1 DEF Counted
<1> QED  BY <1>7, <1>8, <1>9, <1>10, SMTT(30)

\* The partitions of a device are shown by the disk that hid them.
LEMMA RestorePartsKeeps ==
  ASSUME DiskInv, NEW u \in Users, RestoreParts(u)
  PROVE  DiskInv'
<1> USE DEF DiskInv
<1>0. PICK d : d = user[u].dsk
  OBVIOUS
<1>1. /\ user[u].pc = "restoring" /\ dsk' = [dsk EXCEPT ![d].hidden = FALSE]
      /\ hiddenParts' = IF dsk[d].hidden THEN hiddenParts \ {Device(d)} ELSE hiddenParts
      /\ Go(u, "closing", d)
      /\ UNCHANGED <<listed, holder, diskFault>>
  BY <1>0 DEF RestoreParts, At
<1>2. /\ d \in Structs /\ d \notin listed /\ dsk[d].alive
      /\ \A v \in Users \ {u} : user[v].dsk # d
  BY <1>0, <1>1, HasStruct
<1>3. /\ user' \in [Users -> UserRecord]
      /\ user'[u].pc = "closing" /\ user'[u].dsk = d
      /\ \A w \in Users \ {u} : user'[w] = user[w]
  BY <1>1, <1>2, GoEffect DEF Positions
<1>4. /\ dsk' \in [Structs -> DiskRecord]
      /\ dsk'[d].hidden = FALSE
      /\ \A e \in Structs : /\ dsk'[e].alive = dsk[e].alive
                            /\ dsk'[e].refcount = dsk[e].refcount
                            /\ dsk'[e].path = dsk[e].path
      /\ \A e \in Structs \ {d} : dsk'[e] = dsk[e]
  BY <1>1, <1>2, HiddenEffect, Zenon
<1>5. hiddenParts' \subseteq hiddenParts
  BY <1>1
<1>6. DiskTypeOK' /\ ~diskFault'
  BY <1>1, <1>3, <1>4, <1>5, SMTT(30) DEF DiskTypeOK
<1>7. Having'
  <2> SUFFICES ASSUME NEW w \in Users PROVE Having!(w)'
    BY DEF Having
  <2>1. CASE w = u
    BY <1>1, <1>2, <1>3, <1>4, <2>1, StructsAssumption, SMTT(30)
  <2>2. CASE w # u
    <3>1. user'[w] = user[w] /\ user[w].dsk \in Structs \cup {NoDisk} /\ user[w].dsk # d
      BY <1>2, <1>3, <2>2, SMTT(30) DEF DiskTypeOK, UserRecord
    <3>2. user[w].pc \in {"adding", "restoring", "closing"} => user[w].dsk # NoDisk
      BY HasStruct, StructsAssumption
    <3> QED  BY <1>1, <1>2, <1>3, <1>4, <3>1, <3>2, SMTT(30) DEF Having
  <2> QED  BY <2>1, <2>2
<1>8. Holding'
  BY <1>1, <1>4, StructsAssumption DEF Holding, Device, DiskTypeOK
<1>9. Counted'
  <2>1. \A e \in listed : Sharing(e)' = Sharing(e) /\ e \in Structs
    BY <1>0, <1>2, <1>3, SMTT(30) DEF Sharing, DiskTypeOK
  <2> QED  BY <1>1, <1>4, <2>1 DEF Counted
<1>10. Hiding'
  <2> SUFFICES ASSUME NEW dev \in hiddenParts'
               PROVE  holder[dev] # NoDisk /\ dsk'[holder[dev]].hidden
    BY <1>1 DEF Hiding
  <2>1. /\ dev \in hiddenParts /\ dev \in Devices /\ holder[dev] \in Structs
        /\ dsk[holder[dev]].hidden
    BY <1>5 DEF Hiding, DiskTypeOK
  <2>2. holder[dev] # d
    <3> SUFFICES ASSUME holder[dev] = d PROVE FALSE
      OBVIOUS
    <3>1. Device(d) = dev /\ dsk[d].hidden
      BY <2>1, StructsAssumption, SMTT(30) DEF Holding
    <3> QED  BY <1>1, <3>1
  <2> QED  BY <1>4, <2>1, <2>2, StructsAssumption
<1> QED  BY <1>6, <1>7, <1>8, <1>9, <1>10

\* A disk that closes has shown its partitions and is nobody else's.
LEMMA DiskCloseKeeps ==
  ASSUME DiskInv, NEW u \in Users, DiskClose(u)
  PROVE  DiskInv'
<1> USE DEF DiskInv
<1>0. PICK d : d = user[u].dsk
  OBVIOUS
<1>a. PICK dev0 : dev0 = Device(d)
  OBVIOUS
<1>1. /\ user[u].pc = "closing" /\ dsk' = [dsk EXCEPT ![d] = FreeDisk]
      /\ holder' = [holder EXCEPT ![dev0] = NoDisk]
      /\ Go(u, "idle", NoDisk)
      /\ UNCHANGED <<listed, hiddenParts, diskFault>>
  BY <1>0, <1>a, Zenon DEF DiskClose, At
<1>2. /\ d \in Structs /\ d \notin listed /\ dsk[d].alive /\ ~dsk[d].hidden
      /\ \A v \in Users \ {u} : user[v].dsk # d
  BY <1>0, <1>1, HasStruct, Zenon DEF Having
<1>3. dev0 \in Devices /\ holder[dev0] = d
  BY <1>a, <1>2, Zenon DEF Holding, Device, Devices, DiskTypeOK, DiskRecord
<1>4. /\ user' \in [Users -> UserRecord]
      /\ user'[u].pc = "idle" /\ user'[u].dsk = NoDisk
      /\ \A w \in Users \ {u} : user'[w] = user[w]
  BY <1>1, GoEffect DEF Positions
<1>5. FreeDisk \in DiskRecord /\ FreeDisk.alive = FALSE
  <2>1. FreeDisk.path \in Paths
    BY PathsAssumption DEF FreeDisk
  <2> QED  BY <2>1 DEF FreeDisk, DiskRecord
<1>6. /\ dsk' \in [Structs -> DiskRecord] /\ dsk'[d].alive = FALSE
      /\ \A e \in Structs \ {d} : dsk'[e] = dsk[e]
  BY <1>1, <1>2, <1>5, SMTT(30) DEF DiskTypeOK
<1>7. /\ holder' \in [Devices -> Structs \cup {NoDisk}] /\ holder'[dev0] = NoDisk
      /\ \A dev \in Devices \ {dev0} : holder'[dev] = holder[dev]
  BY <1>1, <1>3, Zenon DEF DiskTypeOK
<1>8. DiskTypeOK' /\ ~diskFault'
  BY <1>1, <1>4, <1>6, <1>7, Zenon DEF DiskTypeOK
<1>9. Having'
  <2> SUFFICES ASSUME NEW w \in Users PROVE Having!(w)'
    BY DEF Having
  <2>1. CASE w = u
    BY <1>4, <2>1
  <2>2. CASE w # u
    <3>1. user'[w] = user[w] /\ user[w].dsk \in Structs \cup {NoDisk} /\ user[w].dsk # d
      BY <1>2, <1>4, <2>2, Zenon DEF DiskTypeOK, UserRecord
    <3>2. user[w].pc \in {"adding", "restoring", "closing"} => user[w].dsk # NoDisk
      BY HasStruct, StructsAssumption
    <3> QED  BY <1>1, <1>2, <1>4, <1>6, <3>1, <3>2, SMTT(30) DEF Having
  <2> QED  BY <2>1, <2>2
<1>10. Holding'
  <2>1. ASSUME NEW e \in Structs, dsk'[e].alive PROVE holder'[Device(e)'] = e
    <3>1. e # d /\ dsk'[e] = dsk[e]
      BY <1>6, <2>1, Zenon
    <3>2. Device(e)' = Device(e) /\ holder[Device(e)] = e /\ Device(e) \in Devices
      BY <2>1, <3>1 DEF Holding, Device, Devices, DiskTypeOK, DiskRecord
    <3>3. Device(e) # dev0
      BY <1>3, <3>1, <3>2, Zenon
    <3> QED  BY <1>7, <3>2, <3>3, SMTT(30)
  <2>2. ASSUME NEW dev \in Devices, holder'[dev] # NoDisk
        PROVE  dsk'[holder'[dev]].alive /\ DeviceOf[dsk'[holder'[dev]].path] = dev
    <3>1. dev # dev0 /\ holder'[dev] = holder[dev] /\ holder[dev] \in Structs
      BY <1>7, <2>2 DEF DiskTypeOK
    <3>2. dsk[holder[dev]].alive /\ Device(holder[dev]) = dev
      BY <2>2, <3>1, SMTT(30) DEF Holding
    <3>3. holder[dev] # d
      BY <1>a, <3>1, <3>2, Zenon
    <3> QED  BY <1>6, <3>1, <3>2, <3>3 DEF Device
  <2> QED  BY <2>1, <2>2 DEF Holding, Device
<1>11. Counted'
  <2>1. \A e \in listed : Sharing(e)' = Sharing(e) /\ e \in Structs /\ e # d
    BY <1>0, <1>1, <1>2, <1>4 DEF Sharing, DiskTypeOK
  <2> QED  BY <1>1, <1>6, <2>1, Zenon DEF Counted
<1>12. Hiding'
  <2> SUFFICES ASSUME NEW dev \in hiddenParts
               PROVE  holder'[dev] # NoDisk /\ dsk'[holder'[dev]].hidden
    BY <1>1 DEF Hiding
  <2>1. /\ dev \in Devices /\ holder[dev] \in Structs /\ holder[dev] # d
        /\ dsk[holder[dev]].hidden
    BY <1>2 DEF Hiding, DiskTypeOK
  <2>2. dev # dev0
    BY <1>3, <2>1, Zenon
  <2> QED  BY <1>6, <1>7, <2>1, <2>2, StructsAssumption, Zenon
<1> QED  BY <1>8, <1>9, <1>10, <1>11, <1>12

-----------------------------------------------------------------------------
LEMMA StutterKeeps ==
  ASSUME DiskInv, UNCHANGED diskVars
  PROVE  DiskInv'
<1>1. DiskTypeOK' /\ ~diskFault'
  BY Zenon DEF diskVars, DiskInv, DiskTypeOK
<1>2. Having' /\ Holding'
  BY Zenon DEF diskVars, DiskInv, Having, Holding, Sharing, Device
<1>3. Counted' /\ Hiding'
  BY Zenon DEF diskVars, DiskInv, Counted, Hiding, Sharing, Device
<1> QED  BY <1>1, <1>2, <1>3, Zenon DEF DiskInv

-----------------------------------------------------------------------------
INSTANCE FiniteSetTheorems

LEMMA FiniteFactsHold == FiniteFacts
<1>1. ASSUME NEW S, IsFiniteSet(S), NEW T \in SUBSET S PROVE IsFiniteSet(T)
  BY <1>1, FS_Subset
<1>2. ASSUME NEW S, IsFiniteSet(S)
      PROVE  Cardinality(S) \in Nat /\ (Cardinality(S) = 0 <=> S = {})
  BY <1>2, FS_CardinalityType, FS_EmptySet
<1>3. ASSUME NEW S, NEW x, IsFiniteSet(S)
      PROVE  /\ x \notin S => Cardinality(S \cup {x}) = Cardinality(S) + 1
             /\ IsFiniteSet(S \ {x})
             /\ x \in S => Cardinality(S \ {x}) = Cardinality(S) - 1
  BY <1>3, FS_AddElement, FS_RemoveElement
<1>4. \A x : Cardinality({x}) = 1
  BY FS_Singleton, Zenon
<1> QED  BY <1>1, <1>2, <1>3, <1>4, Zenon DEF FiniteFacts

\* Every operation of disk.c keeps the list, the counts, the holders and the
\* hidden partitions in step, whatever the other users do between its
\* unlocks.
THEOREM DisksInvariant == DiskSpec => []DiskInv
<1>1. DiskInv /\ [DiskNext]_diskVars => DiskInv'
  <2> SUFFICES ASSUME DiskInv, [DiskNext]_diskVars PROVE DiskInv'
    OBVIOUS
  <2>1. CASE UNCHANGED diskVars
    BY <2>1, StutterKeeps
  <2>2. CASE DiskNext
    <3> PICK u \in Users :
          \/ \E p \in Paths : OpenLookup(u, p)
          \/ OpenFail(u) \/ OpenExclusive(u) \/ OpenAdd(u)
          \/ \E v \in Users : DiskGet(u, v)
          \/ HideParts(u) \/ DiskPut(u) \/ RestoreParts(u) \/ DiskClose(u)
      BY <2>2 DEF DiskNext
    <3>1. CASE \E p \in Paths : OpenLookup(u, p)
      BY <3>1, OpenLookupKeeps, FiniteFactsHold, Zenon
    <3>2. CASE OpenFail(u)
      BY <3>2, OpenFailKeeps
    <3>3. CASE OpenExclusive(u)
      BY <3>3, OpenExclusiveKeeps, Zenon
    <3>4. CASE OpenAdd(u)
      BY <3>4, OpenAddKeeps, FiniteFactsHold, Zenon
    <3>5. CASE \E v \in Users : DiskGet(u, v)
      BY <3>5, DiskGetKeeps, FiniteFactsHold, Zenon
    <3>6. CASE HideParts(u)
      BY <3>6, HidePartsKeeps, Zenon
    <3>7. CASE DiskPut(u)
      BY <3>7, PutSharedKeeps, PutLastKeeps, FiniteFactsHold, Zenon
    <3>8. CASE RestoreParts(u)
      BY <3>8, RestorePartsKeeps, Zenon
    <3>9. CASE DiskClose(u)
      BY <3>9, DiskCloseKeeps
    <3> QED  BY <3>1, <3>2, <3>3, <3>4, <3>5, <3>6, <3>7, <3>8, <3>9, SMTT(30)
  <2> QED  BY <2>1, <2>2
<1> QED  BY <1>1, InitDiskInv, PTL DEF DiskSpec

\* cas_disk_open, cas_disk_get and cas_disk_put: for any number of users,
\* paths and devices, a disk in use is open and holds its device, a listed
\* disk has one reference per user, no freed disk is used and partitions
\* are hidden only on devices that are open.
THEOREM DisksCorrect == DiskSpec => []DisksExact
<1>1. DiskInv => DisksExact
  BY DEF DiskInv, DisksExact, Having, Holding, Counted, Hiding, DiskTypeOK, UserRecord
<1> QED  BY <1>1, DisksInvariant, PTL
=============================================================================
