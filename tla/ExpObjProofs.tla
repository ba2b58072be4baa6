---------------------------- MODULE ExpObjProofs ----------------------------
(***************************************************************************)
(* Proofs about the exported objects for any set of cores and any number   *)
(* of openers.                                                             *)
(*                                                                         *)
(* ObjectsConsistent and CommandsRestore speak of what an object looks     *)
(* like.  That follows only from where the command under way stands and    *)
(* which cores it has visited, so the invariant is a table with a row for  *)
(* every phase: what holds of the objects still to visit, and what of the  *)
(* others.                                                                 *)
(*                                                                         *)
(* A command may take or drop a reference to a module or a disk only where *)
(* the table says what the object is: whether it exists, and who owns it.  *)
(* The references to a module are counted as a cardinality, which one      *)
(* object that changes hands moves by one.                                 *)
(***************************************************************************)
EXTENDS ExpObj, TLAPS

Object == [st : {"none", "live", "dismantled"}, openers : 0 .. MaxOpeners,
           claimed : BOOLEAN, owner : Modules \cup {"none"},
           mode : {"default", "pt", "error"}, depth : 0 .. 1, frozen : BOOLEAN]

\* The types of the variables besides the objects and the references.
Types ==
    /\ orphans \subseteq Cores /\ box \subseteq Cores /\ leaving \subseteq Cores
    /\ meta \subseteq Cores /\ cores \subseteq Cores /\ top \subseteq cores
    /\ active \in BOOLEAN /\ through \in BOOLEAN
    /\ todo \subseteq Cores /\ held \subseteq todo
    /\ tail \in [Cores -> {"none", "captured", "freed"}]

\* The parts of an object agree with each other and with its place: with a
\* priv_top, in the box, or about to be deleted.
Fits(o, c) ==
    /\ o.st = "none" => o = NoObject
    /\ o.owner = "none" => o.st = "none"
    /\ o.owner = "cas_cache" => c \in top
    /\ o.owner = "cas_bd" <=> c \in box \/ c \in leaving
    /\ c \in box => o.mode = "pt"
    /\ c \in leaving => o.mode = "error"
    /\ c \in box \/ c \in leaving => o.st = "live" /\ ~o.claimed
    /\ o.st = "dismantled" \/ o.claimed => o.openers = 0
    /\ o.frozen <=> o.depth > 0

Shapes == \A c \in Cores : Fits(obj[c], c)

\* An object of the cache.
Owned(o, st, mode) == o.owner = "cas_cache" /\ o.st = st /\ o.mode = mode

Serving(o) == Owned(o, "live", "default") /\ ~o.claimed /\ o.depth = 0
Locked(o) == Owned(o, "live", "default") /\ o.claimed /\ o.depth = 0
Dismantled(o) == Owned(o, "dismantled", "default") /\ o.depth = 0
Bypassed(o) == Owned(o, "live", "pt") /\ ~o.claimed
Routing(o) == Owned(o, "live", "default") /\ ~o.claimed

Rest == cores \ todo

Stopping == {"lock", "unlock", "dismantle", "destroy"}
Disconnecting == {"set_pt", "freeze", "drain", "clear_pt", "unfreeze"}
Removing == {"remove", "remove_object", "remove_core"}
Connecting == {"claim", "return", "abort", "resume", "reroute"}
Phases == {"idle", "create", "stop", "deposit"} \cup Stopping \cup Disconnecting
            \cup Removing \cup Connecting

\* Which cores have a priv_top, and which the command has yet to visit.
Sets ==
    /\ phase \in Phases
    /\ ~active => phase = "idle" /\ cores = {}
    /\ phase = "idle" => todo = {}
    /\ phase # "reroute" => held = {}
    /\ todo \subseteq cores
    /\ phase \in Stopping \cup Disconnecting \cup {"resume", "reroute"} => top = cores
    /\ phase \in {"create", "claim"} => top = Rest
    /\ phase \in {"deposit", "return"} => top = todo
    /\ phase = "abort" => top = {}
    /\ phase \in Removing => \E c \in cores : todo = {c}
    /\ phase \in {"remove", "remove_object"} => todo \subseteq top
    /\ phase = "remove_core" => todo \cap top = {}

\* What an object of the cache looks like, visited or not.
Row(o, c) ==
    /\ phase \in {"idle", "create", "remove_core"} => Serving(o)
    /\ phase \in {"remove", "unlock"} => IF c \in todo THEN Locked(o) ELSE Serving(o)
    /\ phase = "remove_object" => IF c \in todo THEN Dismantled(o) ELSE Serving(o)
    /\ phase = "lock" => IF c \in todo THEN Serving(o) ELSE Locked(o)
    /\ phase = "dismantle" =>
         IF c \in todo THEN Locked(o) ELSE Dismantled(o) /\ ~o.claimed
    /\ phase = "destroy" =>
         IF c \in todo THEN Dismantled(o) /\ ~o.claimed ELSE o = NoObject
    /\ phase = "stop" => o.owner = "none"
    /\ phase = "set_pt" =>
         IF c \in todo THEN Serving(o) ELSE Bypassed(o) /\ o.depth = 0
    /\ phase = "freeze" => Bypassed(o) /\ o.depth = (IF c \in todo THEN 0 ELSE 1)
    /\ phase \in {"drain", "deposit"} => Bypassed(o) /\ o.depth = 1
    /\ phase = "clear_pt" =>
         /\ IF c \in todo THEN Bypassed(o) ELSE Routing(o)
         /\ o.depth = 1
    /\ phase = "unfreeze" => Routing(o) /\ o.depth = (IF c \in todo THEN 1 ELSE 0)
    /\ phase \in {"claim", "return"} => Bypassed(o)
    /\ phase \in {"resume", "reroute"} => IF c \in todo THEN Bypassed(o) ELSE Serving(o)

Rows == \A c \in top : Row(obj[c], c)

Objects == obj \in [Cores -> Object] /\ Types /\ Shapes /\ Sets /\ Rows

-----------------------------------------------------------------------------
(* Objects. *)

LEMMA NoObjectFields ==
    /\ NoObject \in Object
    /\ NoObject.st = "none" /\ NoObject.openers = 0 /\ NoObject.claimed = FALSE
    /\ NoObject.owner = "none" /\ NoObject.mode = "default" /\ NoObject.depth = 0
    /\ NoObject.frozen = FALSE
  BY OpenersAssumption DEF NoObject, Object

SameBut(p, o, fields) ==
    /\ "st" \in fields \/ p.st = o.st
    /\ "openers" \in fields \/ p.openers = o.openers
    /\ "claimed" \in fields \/ p.claimed = o.claimed
    /\ "owner" \in fields \/ p.owner = o.owner
    /\ "mode" \in fields \/ p.mode = o.mode
    /\ "depth" \in fields \/ p.depth = o.depth
    /\ "frozen" \in fields \/ p.frozen = o.frozen

LEMMA EqualObjects ==
  ASSUME NEW p \in Object, NEW o \in Object, SameBut(p, o, {"depth", "frozen"}),
         p.depth = o.depth, p.frozen <=> o.frozen
  PROVE  p = o
  BY DEF Object, SameBut

LEMMA CreatedFields ==
  ASSUME NEW p, p = [NoObject EXCEPT !.st = "live", !.owner = "cas_cache"]
  PROVE  /\ p \in Object /\ SameBut(p, NoObject, {"st", "owner"})
         /\ p.st = "live" /\ p.owner = "cas_cache"
<1>1. PICK o \in Object : o = NoObject
  BY NoObjectFields
<1>2. p = [o EXCEPT !.st = "live", !.owner = "cas_cache"]
  BY <1>1, Zenon
<1>3. /\ p \in Object /\ SameBut(p, o, {"st", "owner"})
      /\ p.st = "live" /\ p.owner = "cas_cache"
  BY <1>2, Zenon DEF Object, SameBut, Modules
<1> QED  BY <1>1, <1>3, Zenon

LEMMA OpenersFields ==
  ASSUME NEW o \in Object, NEW n \in 0 .. MaxOpeners, NEW p, p = [o EXCEPT !.openers = n]
  PROVE  p \in Object /\ SameBut(p, o, {"openers"}) /\ p.openers = n
  BY DEF Object, SameBut

LEMMA ClaimedFields ==
  ASSUME NEW o \in Object, NEW b \in BOOLEAN, NEW p, p = [o EXCEPT !.claimed = b]
  PROVE  p \in Object /\ SameBut(p, o, {"claimed"}) /\ p.claimed = b
  BY DEF Object, SameBut

LEMMA LockFields ==
  ASSUME NEW o \in Object, NEW p, p = [o EXCEPT !.claimed = TRUE]
  PROVE  p \in Object /\ SameBut(p, o, {"claimed"}) /\ p.claimed
<1>1. p \in Object /\ SameBut(p, o, {"claimed"}) /\ p.claimed = TRUE
  BY ClaimedFields, Zenon
<1> QED  BY <1>1

LEMMA UnlockFields ==
  ASSUME NEW o \in Object, NEW p, p = [o EXCEPT !.claimed = FALSE]
  PROVE  p \in Object /\ SameBut(p, o, {"claimed"}) /\ ~p.claimed
<1>1. p \in Object /\ SameBut(p, o, {"claimed"}) /\ p.claimed = FALSE
  BY ClaimedFields, Zenon
<1> QED  BY <1>1

LEMMA DismantledFields ==
  ASSUME NEW o \in Object, NEW p, p = [o EXCEPT !.st = "dismantled"]
  PROVE  p \in Object /\ SameBut(p, o, {"st"}) /\ p.st = "dismantled"
  BY DEF Object, SameBut

LEMMA UnlockedFields ==
  ASSUME NEW o \in Object, NEW p, p = [o EXCEPT !.st = "dismantled", !.claimed = FALSE]
  PROVE  p \in Object /\ SameBut(p, o, {"st", "claimed"}) /\ p.st = "dismantled" /\ ~p.claimed
  BY Zenon DEF Object, SameBut

LEMMA OwnerFields ==
  ASSUME NEW o \in Object, NEW m \in Modules, NEW p, p = [o EXCEPT !.owner = m]
  PROVE  p \in Object /\ SameBut(p, o, {"owner"}) /\ p.owner = m
  BY DEF Object, SameBut

LEMMA RoutedFields ==
  ASSUME NEW o \in Object, NEW m \in {"default", "pt", "error"}, NEW p, p = Routed(o, m)
  PROVE  p \in Object /\ SameBut(p, o, {"mode"}) /\ p.mode = m
  BY DEF Object, SameBut, Routed

LEMMA QueueFields ==
  ASSUME NEW o \in Object, NEW n \in 0 .. 1, NEW b \in BOOLEAN,
         NEW p, p = [o EXCEPT !.depth = n, !.frozen = b]
  PROVE  p \in Object /\ SameBut(p, o, {"depth", "frozen"}) /\ p.depth = n /\ p.frozen = b
  BY Zenon DEF Object, SameBut

LEMMA FrozenFields ==
  ASSUME NEW o \in Object, o.depth = 0, NEW p, p = Frozen(o)
  PROVE  p \in Object /\ SameBut(p, o, {"depth", "frozen"}) /\ p.depth = 1 /\ p.frozen
<1>1. o.depth + 1 = 1 /\ 1 \in 0 .. 1
  OBVIOUS
<1>2. PICK n \in 0 .. 1 : n = 1
  OBVIOUS
<1>3. p = [o EXCEPT !.depth = n, !.frozen = TRUE]
  BY <1>1, <1>2, Zenon DEF Frozen
<1>4. p \in Object /\ SameBut(p, o, {"depth", "frozen"}) /\ p.depth = n /\ p.frozen
  BY <1>3, Zenon DEF Object, SameBut
<1> QED  BY <1>2, <1>4

LEMMA UnfrozenFields ==
  ASSUME NEW o \in Object, NEW p, p = Unfrozen(o)
  PROVE  p \in Object /\ SameBut(p, o, {"depth", "frozen"}) /\ p.depth = 0 /\ ~p.frozen
<1>1. (IF o.depth = 0 THEN 0 ELSE o.depth - 1) = 0
  BY DEF Object
<1>2. PICK n \in 0 .. 1 : n = 0
  OBVIOUS
<1>3. p = [o EXCEPT !.depth = n, !.frozen = FALSE]
  BY <1>1, <1>2, Zenon DEF Unfrozen
<1> QED  BY <1>2, <1>3, QueueFields, Zenon

\* The row of an object is the row of the core that has it.
LEMMA RowOf ==
  ASSUME NEW d, NEW p, obj'[d] = p, Row(p, d)'
  PROVE  Row(obj[d], d)'
  BY DEF Row

\* One object changes, and with it the places of its core; the rows of the
\* others still hold.
LEMMA OneObject ==
  ASSUME Objects, NEW c \in Cores, NEW o \in Object, Become(c, o),
         Types', Sets', Fits(o, c)', c \in top' => Row(o, c)',
         \A d \in Cores \ {c} : /\ d \in box' <=> d \in box
                                /\ d \in leaving' <=> d \in leaving
                                /\ d \in top' <=> d \in top,
         \A d \in Cores \ {c}, p \in Object : d \in top /\ Row(p, d) => Row(p, d)'
  PROVE  Objects'
<1>1. obj' \in [Cores -> Object] /\ obj'[c] = o /\ \A d \in Cores \ {c} : obj'[d] = obj[d]
  BY DEF Objects, Become
<1>2. Shapes'
  <2>1. ASSUME NEW d \in Cores, d # c PROVE Fits(obj[d], d)'
    BY <1>1, <2>1 DEF Objects, Shapes, Fits
  <2>2. Fits(obj[c], c)'
    BY <1>1 DEF Fits
  <2> QED  BY <2>1, <2>2 DEF Shapes
<1>3. ASSUME NEW d \in top' PROVE Row(obj[d], d)'
  <2>0. d \in Cores
    BY <1>3 DEF Types
  <2>1. CASE d = c
    BY <1>1, <1>3, <2>1, RowOf, Zenon
  <2>2. CASE d # c
    <3>1. PICK p \in Object : p = obj[d]
      BY <2>0 DEF Objects
    <3>2. d \in top /\ Row(p, d)
      BY <2>0, <2>2, <3>1, <1>3 DEF Objects, Rows
    <3>3. Row(p, d)'
      BY <2>0, <2>2, <3>2
    <3>4. obj'[d] = p
      BY <1>1, <2>0, <2>2, <3>1
    <3> QED  BY <3>3, <3>4, RowOf, Zenon
  <2> QED  BY <2>1, <2>2
<1> QED  BY <1>1, <1>2, <1>3 DEF Objects, Rows

\* A row holds until the phase changes or the core is visited.
LEMMA RowStays ==
  ASSUME NEW d, NEW p, phase' = phase, d \in todo' <=> d \in todo, Row(p, d)
  PROVE  Row(p, d)'
  BY DEF Row

\* The rows of the phases in which the objects serve.
LEMMA RowServing ==
  ASSUME NEW d, NEW p, Serving(p), phase' \in {"idle", "create", "remove_core"}
  PROVE  Row(p, d)'
  BY DEF Row

\* No object changes.
LEMMA NoneChanged ==
  ASSUME Objects, UNCHANGED <<obj, box, leaving>>, Types', Sets',
         \A d \in Cores : obj[d].owner = "cas_cache" => d \in top',
         \A d \in top', p \in Object : p = obj[d] => Row(p, d)'
  PROVE  Objects'
<1>1. Shapes'
  BY DEF Objects, Shapes, Fits
<1>2. ASSUME NEW d \in top' PROVE Row(obj[d], d)'
  <2>1. PICK p \in Object : p = obj[d]
    BY <1>2 DEF Objects, Types
  <2>2. Row(p, d)'
    BY <1>2, <2>1
  <2> QED  BY <2>1, <2>2 DEF Row
<1> QED  BY <1>1, <1>2, Zenon DEF Objects, Rows

LEMMA SameObjects ==
  ASSUME Objects,
         UNCHANGED <<obj, orphans, box, leaving, cacheVars, top, phase, todo, held,
                     through, tail>>
  PROVE  Objects'
<1>1. Types' /\ Sets'
  BY DEF Objects, Types, Sets, Rest, cacheVars
<1>2. \A d \in Cores : obj[d].owner = "cas_cache" => d \in top'
  BY DEF Objects, Shapes, Fits
<1>3. ASSUME NEW d \in top', NEW p \in Object, p = obj[d] PROVE Row(p, d)'
  BY <1>3, Zenon DEF Objects, Rows, Row
<1> QED  BY <1>1, <1>2, <1>3, NoneChanged

-----------------------------------------------------------------------------
(* Users. *)

\* Where only the openers of an object change every row still holds.
LEMMA OnlyOpeners ==
  ASSUME Objects, NEW c \in Cores, NEW o \in Object, Become(c, o),
         SameBut(o, obj[c], {"openers"}), obj[c].st = "live", ~obj[c].claimed,
         UNCHANGED <<orphans, box, leaving, cacheVars, top, phase, todo, held,
         through, tail>>
  PROVE  Objects'
<1>1. Fits(o, c)'
  BY NoObjectFields DEF Objects, Shapes, Fits, SameBut, Object
<1>2. Types' /\ Sets'
  BY SMTT(30) DEF Objects, Types, Sets, Rest, cacheVars
<1>3. ASSUME c \in top' PROVE Row(o, c)'
  <2>1. Row(obj[c], c)
    BY <1>3, Zenon DEF Objects, Rows
  <2> QED  BY <2>1, NoObjectFields DEF Row, Owned, Serving, Locked, Dismantled,
              Bypassed, Routing, SameBut
<1>4. \A d \in Cores \ {c}, p \in Object : d \in top /\ Row(p, d) => Row(p, d)'
  BY RowStays, Zenon
<1> QED  BY <1>1, <1>2, <1>3, <1>4, OneObject

LEMMA UsersObjects == ASSUME Objects, Users PROVE Objects'
<1> SUFFICES ASSUME NEW c \in Cores, Open(c) \/ Close(c) PROVE Objects'
  BY Zenon DEF Users
<1>o. obj[c] \in Object
  BY DEF Objects
<1>1. CASE Open(c)
  <2>1. PICK o : o = [obj[c] EXCEPT !.openers = obj[c].openers + 1]
    BY Zenon
  <2>2. obj[c].openers + 1 \in 0 .. MaxOpeners
    BY <1>1, <1>o, OpenersAssumption DEF Open, Object
  <2>3. o \in Object /\ SameBut(o, obj[c], {"openers"})
    BY <1>o, <2>1, <2>2, OpenersFields
  <2> QED  BY <1>1, <2>1, <2>3, OnlyOpeners DEF Open
<1>2. CASE Close(c)
  <2>1. CASE UNCHANGED obj
    BY <1>2, <2>1, SameObjects DEF Close
  <2>2. CASE obj[c].openers > 0 /\ Become(c, [obj[c] EXCEPT !.openers = obj[c].openers - 1])
    <3>1. PICK o : o = [obj[c] EXCEPT !.openers = obj[c].openers - 1]
      BY Zenon
    <3>2. obj[c].openers - 1 \in 0 .. MaxOpeners
      BY <2>2, <1>o, OpenersAssumption DEF Object
    <3>3. o \in Object /\ SameBut(o, obj[c], {"openers"})
      BY <1>o, <3>1, <3>2, OpenersFields
    <3>4. obj[c].st = "live" /\ ~obj[c].claimed
      BY <2>2, <1>o, NoObjectFields DEF Objects, Shapes, Fits, Object
    <3> QED  BY <1>2, <2>2, <3>1, <3>3, <3>4, OnlyOpeners DEF Close
  <2> QED  BY <1>2, <2>1, <2>2, Zenon DEF Close
<1> QED  BY <1>1, <1>2

-----------------------------------------------------------------------------
(* Adding a core, loading a cache. *)

LEMMA CreateObjectEffect ==
  ASSUME Objects, NEW c \in Cores, obj[c].st = "none", CreateObject(c),
         UNCHANGED <<box, leaving>>
  PROVE  \E o \in Object : Become(c, o) /\ Serving(o) /\ Fits(o, c)'
<1>1. PICK o : o = [NoObject EXCEPT !.st = "live", !.owner = "cas_cache"]
  OBVIOUS
<1>2. /\ o \in Object /\ SameBut(o, NoObject, {"st", "owner"})
      /\ o.st = "live" /\ o.owner = "cas_cache"
  BY <1>1, CreatedFields
<1>3. Become(c, o) /\ c \in top'
  BY <1>1 DEF CreateObject
<1>4. c \notin box /\ c \notin leaving
  BY NoObjectFields, Zenon DEF Objects, Shapes, Fits
<1>5. Serving(o)
  BY <1>2, NoObjectFields, Zenon DEF Serving, Owned, SameBut
<1>6. Fits(o, c)'
  BY <1>2, <1>3, <1>4, NoObjectFields DEF Fits, SameBut
<1> QED  BY <1>2, <1>3, <1>5, <1>6

LEMMA AddCoreObjects ==
  ASSUME Objects, NEW c \in Cores, AddCore(c)
  PROVE  Objects'
<1>1. PICK o \in Object : Become(c, o) /\ Serving(o) /\ Fits(o, c)'
  BY CreateObjectEffect DEF AddCore
<1>2. Types' /\ Sets'
  BY DEF Objects, AddCore, CreateObject, Types, Sets, Rest, Removing, Stopping,
         Disconnecting
<1>3. Row(o, c)'
  <2>1. phase' = "idle"
    BY Zenon DEF AddCore
  <2>2. phase' \in {"idle", "create", "remove_core"}
    BY <2>1, Zenon
  <2> QED  BY <1>1, <2>2, RowServing, Zenon
<1>4. \A d \in Cores \ {c}, p \in Object : d \in top /\ Row(p, d) => Row(p, d)'
  BY RowStays, Zenon DEF AddCore
<1> QED  BY <1>1, <1>2, <1>3, <1>4, OneObject DEF AddCore, CreateObject

LEMMA LoadCoresObjects ==
  ASSUME Objects, NEW l \in {"create", "claim"}, LoadCores(l)
  PROVE  Objects'
<1>1. cores = {} /\ top = {} /\ phase' = l /\ cores' = todo' /\ top' = {}
  BY Zenon DEF Objects, LoadCores, Types, Sets, Goto
<1>2. Types'
  BY DEF Objects, LoadCores, Types, Sets, Goto
<1>3. Sets'
  BY <1>1, <1>2, Zenon DEF Objects, LoadCores, Types, Sets, Rest, Removing, Stopping,
                    Disconnecting, Connecting, Phases
<1>4. \A d \in Cores : obj[d].owner = "cas_cache" => d \in top'
  BY <1>1 DEF Objects, Shapes, Fits
<1> QED  BY <1>1, <1>2, <1>3, <1>4, NoneChanged DEF LoadCores

LEMMA MissingTopObjects ==
  ASSUME Objects, NEW what, MissingTop(what)
  PROVE  Objects'
  BY SameObjects, Zenon DEF MissingTop

LEMMA LoadCreateObjects ==
  ASSUME Objects, NEW c \in Cores, LoadCreate(c)
  PROVE  Objects'
<1>1. CASE obj[c].st = "none" /\ CreateObject(c) /\ ~MissingTop("cleanup")
  <2>1. PICK o \in Object : Become(c, o) /\ Serving(o) /\ Fits(o, c)'
    BY <1>1, CreateObjectEffect, Zenon DEF LoadCreate
  <2>2. Types' /\ Sets'
    BY <1>1, SMTT(30) DEF Objects, LoadCreate, CreateObject, Types, Sets, Rest,
       Removing, Stopping, Disconnecting, Phases, Visit, Goto, cacheVars
  <2>3. Row(o, c)'
    <3>1. phase' \in {"idle", "create", "remove_core"}
      BY <1>1, Zenon DEF LoadCreate, Visit, Goto
    <3> QED  BY <2>1, <3>1, RowServing, Zenon
  <2>4. \A d \in Cores \ {c}, p \in Object : d \in top /\ Row(p, d) => Row(p, d)'
    <3>1. phase = "create" /\ phase' \in {"idle", "create", "remove_core"}
      BY <1>1, Zenon DEF LoadCreate, Visit, Goto
    <3>2. \A d \in Cores \ {c}, p \in Object : Row(p, d) => Serving(p)
      BY <3>1, Zenon DEF Row
    <3> QED  BY <3>1, <3>2, RowServing, Zenon
  <2> QED  BY <1>1, <2>1, <2>2, <2>3, <2>4, OneObject DEF LoadCreate, CreateObject
<1>2. CASE MissingTop("cleanup")
  BY <1>2, MissingTopObjects, Zenon
<1> QED  BY <1>1, <1>2 DEF LoadCreate

-----------------------------------------------------------------------------
(* Removing a core. *)

\* The object is destroyed.
LEMMA DestroyObjectEffect ==
  ASSUME Objects, NEW c \in Cores, DestroyObject(c), c \notin box', c \notin leaving'
  PROVE  /\ Become(c, NoObject) /\ NoObject \in Object /\ Fits(NoObject, c)'
         /\ tail' \in [Cores -> {"none", "captured", "freed"}]
<1>1. Fits(NoObject, c)'
  BY NoObjectFields DEF Fits
<1>2. tail' \in [Cores -> {"none", "captured", "freed"}]
  BY DEF Objects, Types, DestroyObject
<1> QED  BY <1>1, <1>2, NoObjectFields DEF DestroyObject

\* An object in its place is not in the box.
LEMMA OwnedPlace ==
  ASSUME Objects, NEW c \in Cores, obj[c].owner = "cas_cache"
  PROVE  c \in top /\ c \notin box /\ c \notin leaving
  BY DEF Objects, Shapes, Fits

\* A change of the lock, the state, the route or the queue.
LEMMA FitsStill ==
  ASSUME Objects, NEW c \in Cores, NEW o \in Object, obj[c].owner = "cas_cache",
         SameBut(o, obj[c], {"st", "claimed", "mode", "depth", "frozen"}), o.st # "none",
         o.st = "dismantled" \/ o.claimed => o.openers = 0, o.frozen <=> o.depth > 0,
         UNCHANGED <<box, leaving, top>>
  PROVE  Fits(o, c)'
  BY OwnedPlace DEF Fits, SameBut

LEMMA RemoveObjects ==
  ASSUME Objects, NEW c \in Cores, Remove(c)
  PROVE  Objects'
<1>1. CASE c \in top /\ ~MissingTop("remove")
  <2>1. obj[c] \in Object /\ Serving(obj[c]) /\ (obj[c].frozen <=> obj[c].depth > 0)
    BY <1>1 DEF Objects, Rows, Row, Remove, Shapes, Fits
  <2>2. PICK o : o = [obj[c] EXCEPT !.claimed = TRUE]
    BY Zenon
  <2>3. o \in Object /\ SameBut(o, obj[c], {"claimed"}) /\ o.claimed
    BY <2>1, <2>2, LockFields
  <2>4. Types' /\ Sets'
    BY <1>1 DEF Objects, Remove, Types, Sets, Rest, Removing, Stopping, Disconnecting,
                Phases, Goto, cacheVars
  <2>5. Fits(o, c)' /\ Row(o, c)'
    BY <1>1, <2>1, <2>3, FitsStill DEF Remove, Row, Serving, Locked, Owned, Goto,
       SameBut
  <2>6. \A d \in Cores \ {c}, p \in Object : d \in top /\ Row(p, d) => Row(p, d)'
    BY <1>1 DEF Remove, Row, Goto
  <2> QED  BY <1>1, <2>2, <2>3, <2>4, <2>5, <2>6, OneObject DEF Remove
<1>2. CASE MissingTop("remove")
  BY <1>2, MissingTopObjects, Zenon
<1> QED  BY <1>1, <1>2 DEF Remove

LEMMA RemoveDismantleObjects ==
  ASSUME Objects, NEW c \in Cores, RemoveDismantle(c)
  PROVE  Objects'
<1>1. c \in top /\ obj[c] \in Object /\ (obj[c].frozen <=> obj[c].depth > 0)
  BY DEF Objects, RemoveDismantle, Shapes, Fits, Sets, Stopping, Disconnecting
<1>2. Locked(obj[c])
  BY <1>1 DEF Objects, Rows, Row, RemoveDismantle, Shapes, Fits
<1>3. PICK o : o = [obj[c] EXCEPT !.st = "dismantled"]
  BY Zenon
<1>4. o \in Object /\ SameBut(o, obj[c], {"st"}) /\ o.st = "dismantled"
  BY <1>1, <1>2, <1>3, DismantledFields
<1>5. Types' /\ Sets'
  BY <1>1 DEF Objects, RemoveDismantle, Types, Sets, Rest, Removing, Stopping,
     Disconnecting, Connecting, Phases, Visit, Goto, cacheVars
<1>6. Fits(o, c)'
  BY <1>1, <1>2, <1>4, FitsStill, Zenon DEF RemoveDismantle, Serving, Locked,
     Dismantled, Bypassed, Routing, Owned, SameBut, Objects, Shapes, Fits
<1>7. Row(o, c)'
  BY <1>1, <1>2, <1>4, Zenon DEF RemoveDismantle, Row, Serving, Locked, Dismantled,
     Bypassed, Routing, Owned, Visit, Goto, SameBut
<1>8. \A d \in Cores \ {c}, p \in Object : d \in top /\ Row(p, d) => Row(p, d)'
  BY DEF RemoveDismantle, Row, Visit, Goto, Objects, Sets, Removing, Stopping,
         Disconnecting
<1> QED  BY <1>3, <1>4, <1>5, <1>6, <1>7, <1>8, OneObject DEF RemoveDismantle

-----------------------------------------------------------------------------
(* Stopping the cache. *)

LEMMA StopUnlockObjects ==
  ASSUME Objects, NEW c \in Cores, StopUnlock(c)
  PROVE  Objects'
<1>1. c \in top /\ obj[c] \in Object /\ (obj[c].frozen <=> obj[c].depth > 0)
  BY Zenon DEF Objects, StopUnlock, Shapes, Fits, Sets, Stopping, Disconnecting
<1>2. Locked(obj[c])
  BY <1>1, Zenon DEF Objects, Rows, Row, StopUnlock, Shapes, Fits
<1>3. PICK o : o = [obj[c] EXCEPT !.claimed = FALSE]
  BY Zenon
<1>4. o \in Object /\ SameBut(o, obj[c], {"claimed"}) /\ ~o.claimed
  BY <1>1, <1>2, <1>3, UnlockFields
<1>5. Types' /\ Sets'
  BY <1>1 DEF Objects, StopUnlock, Types, Sets, Rest, Removing, Stopping,
     Disconnecting, Connecting, Phases, Visit, Goto, cacheVars
<1>6. Fits(o, c)'
  BY <1>1, <1>2, <1>4, FitsStill, Zenon DEF StopUnlock, Serving, Locked, Dismantled,
     Bypassed, Routing, Owned, SameBut, Objects, Shapes, Fits
<1>7. Row(o, c)'
  BY <1>1, <1>2, <1>4, Zenon DEF StopUnlock, Row, Serving, Locked, Dismantled, Bypassed,
     Routing, Owned, Visit, Goto, SameBut
<1>8. \A d \in Cores \ {c}, p \in Object : d \in top /\ Row(p, d) => Row(p, d)'
  BY DEF StopUnlock, Row, Visit, Goto, Objects, Sets, Removing, Stopping, Disconnecting
<1> QED  BY <1>3, <1>4, <1>5, <1>6, <1>7, <1>8, OneObject DEF StopUnlock

LEMMA StopDismantleObjects ==
  ASSUME Objects, NEW c \in Cores, StopDismantle(c)
  PROVE  Objects'
<1>1. c \in top /\ obj[c] \in Object /\ (obj[c].frozen <=> obj[c].depth > 0)
  BY Zenon DEF Objects, StopDismantle, Shapes, Fits, Sets, Stopping, Disconnecting
<1>2. Locked(obj[c])
  BY <1>1, Zenon DEF Objects, Rows, Row, StopDismantle, Shapes, Fits
<1>3. PICK o : o = [obj[c] EXCEPT !.st = "dismantled", !.claimed = FALSE]
  OBVIOUS
<1>4. o \in Object /\ SameBut(o, obj[c], {"st", "claimed"}) /\ o.st = "dismantled" /\ ~o.claimed
  BY <1>1, <1>2, <1>3, UnlockedFields, ZenonT(60)
<1>5. Types' /\ Sets'
  BY <1>1 DEF Objects, StopDismantle, Types, Sets, Rest, Removing, Stopping,
     Disconnecting, Connecting, Phases, Visit, Goto, cacheVars
<1>6. Fits(o, c)'
  BY <1>1, <1>2, <1>4, FitsStill, Zenon DEF StopDismantle, Serving, Locked, Dismantled,
                                     Bypassed, Routing, Owned, SameBut, Objects, Shapes,
                                     Fits
<1>7. Row(o, c)'
  BY <1>1, <1>2, <1>4, Zenon DEF StopDismantle, Objects, Types, Row, Serving, Locked,
                          Dismantled, Bypassed, Routing, Owned,
                          Visit, Goto, SameBut
<1>8. \A d \in Cores \ {c}, p \in Object : d \in top /\ Row(p, d) => Row(p, d)'
  BY DEF StopDismantle, Row, Visit, Goto, Objects, Sets, Removing, Stopping,
     Disconnecting
<1> QED  BY <1>3, <1>4, <1>5, <1>6, <1>7, <1>8, OneObject DEF StopDismantle

-----------------------------------------------------------------------------
(* Disconnecting the cache. *)

LEMMA SetObjectPtObjects ==
  ASSUME Objects, NEW c \in Cores, SetObjectPt(c)
  PROVE  Objects'
<1>1. c \in top /\ obj[c] \in Object /\ (obj[c].frozen <=> obj[c].depth > 0)
  BY Zenon DEF Objects, SetObjectPt, Shapes, Fits, Sets, Stopping, Disconnecting
<1>2. Serving(obj[c])
  BY <1>1, Zenon DEF Objects, Rows, Row, SetObjectPt, Shapes, Fits
<1>3. PICK o : o = Routed(obj[c], "pt")
  OBVIOUS
<1>4. o \in Object /\ SameBut(o, obj[c], {"mode"}) /\ o.mode = "pt"
  BY <1>1, <1>2, <1>3, RoutedFields, Zenon
<1>5. Types' /\ Sets'
  BY <1>1, Zenon DEF Objects, SetObjectPt, Types, Sets, Rest, Removing, Stopping,
     Disconnecting, Connecting, Phases, Visit, Goto, cacheVars
<1>6. Fits(o, c)'
  <2>1. /\ obj[c].owner = "cas_cache" /\ obj[c].st = "live" /\ ~obj[c].claimed
        /\ UNCHANGED <<box, leaving, top>>
    BY <1>2, Zenon DEF SetObjectPt, Serving, Owned
  <2>2. /\ SameBut(o, obj[c], {"st", "claimed", "mode", "depth", "frozen"})
        /\ o.st = obj[c].st /\ o.claimed = obj[c].claimed
        /\ o.depth = obj[c].depth /\ o.frozen = obj[c].frozen
    BY <1>4, Zenon DEF SameBut
  <2> QED  BY <1>1, <1>4, <2>1, <2>2, FitsStill, ZenonT(60)
<1>7. Row(o, c)'
  BY <1>1, <1>2, <1>4, SMTT(30) DEF SetObjectPt, Objects, Types, Row, Serving, Locked,
     Dismantled, Bypassed, Routing, Owned, Visit, Goto, SameBut
<1>8. \A d \in Cores \ {c}, p \in Object : d \in top /\ Row(p, d) => Row(p, d)'
  <2> SUFFICES ASSUME NEW d \in Cores \ {c}, NEW p \in Object, d \in top, Row(p, d)
               PROVE  Row(p, d)'
    BY Zenon
  <2>1. phase = "set_pt" /\ c \in todo
    BY Zenon DEF SetObjectPt
  <2>2. CASE todo = {c}
    <3>1. phase' = "freeze" /\ todo' = cores
      BY <2>2, Zenon DEF SetObjectPt, Visit, Goto
    <3>2. Bypassed(p) /\ p.depth = 0
      BY <2>1, <2>2, ZenonT(60) DEF Row
    <3>3. d \in todo'
      BY <2>1, <3>1, Zenon DEF Objects, Sets, Disconnecting
    <3> QED  BY <3>1, <3>2, <3>3, ZenonT(60) DEF Row
  <2>3. CASE todo # {c}
    <3>1. phase' = phase /\ todo' = todo \ {c}
      BY <2>3, Zenon DEF SetObjectPt, Visit, Goto
    <3> QED  BY <3>1, RowStays, Zenon
  <2> QED  BY <2>2, <2>3, Zenon
<1> QED  BY <1>3, <1>4, <1>5, <1>6, <1>7, <1>8, OneObject DEF SetObjectPt

LEMMA FreezeObjectObjects ==
  ASSUME Objects, NEW c \in Cores, FreezeObject(c)
  PROVE  Objects'
<1>1. c \in top /\ obj[c] \in Object /\ (obj[c].frozen <=> obj[c].depth > 0)
  BY Zenon DEF Objects, FreezeObject, Shapes, Fits, Sets, Stopping, Disconnecting
<1>2. Bypassed(obj[c]) /\ obj[c].depth = 0
  BY <1>1, Zenon DEF Objects, Rows, Row, FreezeObject, Shapes, Fits
<1>3. PICK o : o = Frozen(obj[c])
  BY SMTT(30)
<1>4. o \in Object /\ SameBut(o, obj[c], {"depth", "frozen"}) /\ o.depth = 1 /\ o.frozen
  BY <1>1, <1>2, <1>3, FrozenFields, Zenon
<1>5. Types' /\ Sets'
  BY <1>1, SMTT(30) DEF Objects, FreezeObject, Types, Sets, Rest, Removing, Stopping,
     Disconnecting, Connecting, Phases, Visit, Goto, cacheVars
<1>6. Fits(o, c)'
  <2>1. /\ obj[c].owner = "cas_cache" /\ obj[c].st = "live" /\ ~obj[c].claimed
        /\ UNCHANGED <<box, leaving, top>>
    BY <1>2, Zenon DEF FreezeObject, Bypassed, Owned
  <2>2. /\ SameBut(o, obj[c], {"st", "claimed", "mode", "depth", "frozen"})
        /\ o.st = obj[c].st /\ o.claimed = obj[c].claimed
    BY <1>4, Zenon DEF SameBut
  <2>3. o.frozen <=> o.depth > 0
    BY <1>4
  <2> QED  BY <1>4, <2>1, <2>2, <2>3, FitsStill, ZenonT(60)
<1>7. Row(o, c)'
  BY <1>1, <1>2, <1>4, ZenonT(60) DEF FreezeObject, Row, Serving, Locked, Dismantled,
     Bypassed, Routing, Owned, Visit, Goto, SameBut
<1>8. \A d \in Cores \ {c}, p \in Object : d \in top /\ Row(p, d) => Row(p, d)'
  BY DEF FreezeObject, Row, Visit, Goto, Objects, Sets, Removing, Stopping,
     Disconnecting
<1> QED  BY <1>3, <1>4, <1>5, <1>6, <1>7, <1>8, OneObject, Zenon DEF FreezeObject

LEMMA ClearObjectPtObjects ==
  ASSUME Objects, NEW c \in Cores, ClearObjectPt(c)
  PROVE  Objects'
<1>1. c \in top /\ obj[c] \in Object /\ (obj[c].frozen <=> obj[c].depth > 0)
  BY Zenon DEF Objects, ClearObjectPt, Shapes, Fits, Sets, Stopping, Disconnecting
<1>2. Bypassed(obj[c]) /\ obj[c].depth = 1
  BY <1>1, Zenon DEF Objects, Rows, Row, ClearObjectPt, Shapes, Fits
<1>3. PICK o : o = Routed(obj[c], "default")
  OBVIOUS
<1>4. o \in Object /\ SameBut(o, obj[c], {"mode"}) /\ o.mode = "default"
  BY <1>1, <1>2, <1>3, RoutedFields, SMTT(30)
<1>5. Types' /\ Sets'
  BY <1>1, Zenon DEF Objects, ClearObjectPt, Types, Sets, Rest, Removing, Stopping,
     Disconnecting, Connecting, Phases, Visit, Goto, cacheVars
<1>6. Fits(o, c)'
  BY <1>1, <1>2, <1>4, FitsStill, ZenonT(60) DEF ClearObjectPt, Serving, Locked,
     Dismantled, Bypassed, Routing, Owned, SameBut, Objects, Shapes, Fits
<1>7. Row(o, c)'
  BY <1>1, <1>2, <1>4, ZenonT(60) DEF ClearObjectPt, Objects, Types, Row, Serving,
     Locked, Dismantled, Bypassed, Routing, Owned, Visit, Goto, SameBut
<1>8. \A d \in Cores \ {c}, p \in Object : d \in top /\ Row(p, d) => Row(p, d)'
  BY SMTT(30) DEF ClearObjectPt, Row, Visit, Goto, Objects, Sets, Removing, Stopping,
     Disconnecting
<1> QED  BY <1>3, <1>4, <1>5, <1>6, <1>7, <1>8, OneObject, SMTT(30) DEF ClearObjectPt

LEMMA UnfreezeObjectObjects ==
  ASSUME Objects, NEW c \in Cores, UnfreezeObject(c)
  PROVE  Objects'
<1>1. c \in top /\ obj[c] \in Object /\ (obj[c].frozen <=> obj[c].depth > 0)
  BY Zenon DEF Objects, UnfreezeObject, Shapes, Fits, Sets, Stopping, Disconnecting
<1>2. Routing(obj[c])
  BY <1>1, Zenon DEF Objects, Rows, Row, UnfreezeObject, Shapes, Fits
<1>3. PICK o : o = Unfrozen(obj[c])
  BY Zenon
<1>4. o \in Object /\ SameBut(o, obj[c], {"depth", "frozen"}) /\ o.depth = 0 /\ ~o.frozen
  BY <1>1, <1>2, <1>3, UnfrozenFields, SMTT(30)
<1>5. Types' /\ Sets'
  BY <1>1, Zenon DEF Objects, UnfreezeObject, Types, Sets, Rest, Removing,
     Stopping, Disconnecting, Connecting, Phases, Visit, Goto, cacheVars
<1>6. Fits(o, c)'
  <2>1. /\ obj[c].owner = "cas_cache" /\ obj[c].st = "live" /\ ~obj[c].claimed
        /\ UNCHANGED <<box, leaving, top>>
    BY <1>2, Zenon DEF UnfreezeObject, Routing, Owned
  <2>2. /\ SameBut(o, obj[c], {"st", "claimed", "mode", "depth", "frozen"})
        /\ o.st = obj[c].st /\ o.claimed = obj[c].claimed
    BY <1>4, Zenon DEF SameBut
  <2>3. o.frozen <=> o.depth > 0
    BY <1>4
  <2> QED  BY <1>4, <2>1, <2>2, <2>3, FitsStill, ZenonT(60)
<1>7. Row(o, c)'
  BY <1>1, <1>2, <1>4, ZenonT(60) DEF UnfreezeObject, Row, Serving, Locked, Dismantled,
     Bypassed, Routing, Owned, Visit, Goto, SameBut
<1>8. \A d \in Cores \ {c}, p \in Object : d \in top /\ Row(p, d) => Row(p, d)'
  <2> SUFFICES ASSUME NEW d \in Cores \ {c}, NEW p \in Object, d \in top, Row(p, d)
               PROVE  Row(p, d)'
    BY Zenon
  <2>1. phase = "unfreeze" /\ c \in todo
    BY Zenon DEF UnfreezeObject
  <2>2. CASE todo = {c}
    <3>1. phase' = "idle"
      BY <2>2, Zenon DEF UnfreezeObject, Visit, Goto
    <3>2. Routing(p) /\ p.depth = 0
      BY <2>1, <2>2, ZenonT(60) DEF Row
    <3>3. Serving(p)
      BY <3>2, Zenon DEF Serving, Routing, Owned
    <3> QED  BY <3>1, <3>3, ZenonT(60) DEF Row
  <2>3. CASE todo # {c}
    <3>1. phase' = phase /\ todo' = todo \ {c}
      BY <2>3, Zenon DEF UnfreezeObject, Visit, Goto
    <3> QED  BY <3>1, RowStays, Zenon
  <2> QED  BY <2>2, <2>3, Zenon
<1> QED  BY <1>3, <1>4, <1>5, <1>6, <1>7, <1>8, OneObject, ZenonT(60) DEF UnfreezeObject

LEMMA RemoveDestroyObjects ==
  ASSUME Objects, NEW c \in Cores, RemoveDestroy(c)
  PROVE  Objects'
<1>1. c \in top /\ Dismantled(obj[c])
  BY DEF Objects, RemoveDestroy, Sets, Rows, Row
<1>2. c \notin box /\ c \notin leaving
  BY <1>1, OwnedPlace DEF Dismantled, Owned
<1>3. /\ Become(c, NoObject) /\ NoObject \in Object /\ Fits(NoObject, c)'
      /\ tail' \in [Cores -> {"none", "captured", "freed"}]
  BY <1>2, DestroyObjectEffect, Zenon DEF RemoveDestroy
<1>4. Types' /\ Sets'
  BY <1>3, Zenon DEF Objects, RemoveDestroy, Types, Sets, Rest, Removing, Stopping,
     Disconnecting, Phases, Goto, cacheVars
<1>5. \A d \in Cores \ {c}, p \in Object : d \in top /\ Row(p, d) => Row(p, d)'
  BY DEF Objects, RemoveDestroy, Row, Goto, Sets, Removing
<1> QED  BY <1>3, <1>4, <1>5, OneObject, SMTT(30) DEF RemoveDestroy

LEMMA RemoveFinishObjects ==
  ASSUME Objects, NEW c \in Cores, RemoveFinish(c)
  PROVE  Objects'
<1>1. Types' /\ Sets'
  BY Zenon DEF Objects, RemoveFinish, Types, Sets, Rest, Removing, Stopping,
     Disconnecting, Phases, Goto
<1>2. \A d \in top', p \in Object : p = obj[d] => Row(p, d)'
  BY Zenon DEF Objects, RemoveFinish, Rows, Row, Goto
<1>3. \A d \in Cores : obj[d].owner = "cas_cache" => d \in top'
  BY Zenon DEF Objects, Shapes, Fits, RemoveFinish
<1> QED  BY <1>1, <1>2, <1>3, NoneChanged, ZenonT(60) DEF RemoveFinish

LEMMA StopObjects ==
  ASSUME Objects, Stop
  PROVE  Objects'
<1>1. CASE MissingTop("stop")
  BY <1>1, MissingTopObjects
<1>2. CASE cores \subseteq top /\ ~MissingTop("stop")
  <2>1. Types' /\ Sets'
    BY <1>2, ZenonT(60) DEF Objects, Stop, Types, Sets, Rest, Removing, Stopping,
       Disconnecting, Phases, Goto, cacheVars
  <2>2. \A d \in top', p \in Object : p = obj[d] => Row(p, d)'
    BY <1>2 DEF Objects, Stop, Types, Rows, Row, Goto
  <2>3. \A d \in Cores : obj[d].owner = "cas_cache" => d \in top'
    BY <1>2, Zenon DEF Objects, Shapes, Fits, Stop
  <2> QED  BY <1>2, <2>1, <2>2, <2>3, NoneChanged, ZenonT(60) DEF Stop
<1> QED  BY <1>1, <1>2 DEF Stop

LEMMA StopLockObjects ==
  ASSUME Objects, NEW c \in Cores, StopLock(c)
  PROVE  Objects'
<1>1. /\ c \in top /\ c \in cores /\ top = cores /\ obj[c] \in Object
      /\ (obj[c].frozen <=> obj[c].depth > 0) /\ Serving(obj[c])
  BY DEF Objects, StopLock, Types, Shapes, Fits, Sets, Stopping, Rows, Row
<1>2. Types'
  BY DEF Objects, StopLock, Types, Sets, Visit, Goto, cacheVars
<1>3. CASE obj[c].openers = 0 /\ Become(c, [obj[c] EXCEPT !.claimed = TRUE])
           /\ Visit(c, "dismantle", cores)
  <2>1. PICK o : o = [obj[c] EXCEPT !.claimed = TRUE]
    BY Zenon
  <2>2. o \in Object /\ SameBut(o, obj[c], {"claimed"}) /\ o.claimed
    BY <1>1, <2>1, LockFields
  <2>3. Sets'
    BY <1>1, <1>3, Zenon DEF Objects, StopLock, Sets, Rest, Removing, Stopping,
       Disconnecting, Phases, Visit, Goto, cacheVars
  <2>4. Fits(o, c)' /\ Row(o, c)'
    BY <1>1, <1>3, <2>2, FitsStill DEF StopLock, Row, Serving, Locked, Owned, Visit,
                                       Goto, SameBut
  <2>5. \A d \in Cores \ {c}, p \in Object : d \in top /\ Row(p, d) => Row(p, d)'
    BY <1>1, <1>3 DEF StopLock, Row, Visit, Goto
  <2> QED  BY <1>2, <1>3, <2>1, <2>2, <2>3, <2>4, <2>5, OneObject DEF StopLock
<1>4. CASE UNCHANGED obj /\ Goto(IF todo = cores THEN "idle" ELSE "unlock",
                                 IF todo = cores THEN {} ELSE cores \ todo)
  <2>1. Sets'
    BY <1>1, <1>4, Zenon DEF Objects, StopLock, Sets, Rest, Removing, Stopping,
       Disconnecting, Phases, Goto, cacheVars
  <2>2. \A d \in top', p \in Object : p = obj[d] => Row(p, d)'
    BY <1>1, <1>4 DEF Objects, StopLock, Rows, Row, Goto
  <2>3. \A d \in Cores : obj[d].owner = "cas_cache" => d \in top'
    BY Zenon DEF Objects, Shapes, Fits, StopLock
  <2> QED  BY <1>2, <1>4, <2>1, <2>2, <2>3, NoneChanged DEF StopLock
<1> QED  BY <1>3, <1>4 DEF StopLock

LEMMA StopDestroyObjects ==
  ASSUME Objects, NEW c \in Cores, StopDestroy(c)
  PROVE  Objects'
<1>1. c \in top /\ Dismantled(obj[c])
  BY Zenon DEF Objects, StopDestroy, Sets, Stopping, Rows, Row
<1>2. c \notin box /\ c \notin leaving
  BY <1>1, OwnedPlace DEF Dismantled, Owned
<1>3. /\ Become(c, NoObject) /\ NoObject \in Object /\ Fits(NoObject, c)'
      /\ tail' \in [Cores -> {"none", "captured", "freed"}]
  BY <1>2, DestroyObjectEffect, SMTT(30) DEF StopDestroy
<1>4. Types' /\ Sets'
  BY <1>1, <1>3, Zenon DEF Objects, StopDestroy, Types, Sets, Rest, Removing,
     Stopping, Disconnecting, Phases, Visit, Goto, cacheVars
<1>5. Row(NoObject, c)'
  BY NoObjectFields, Zenon DEF StopDestroy, Row, Visit, Goto
<1>6. \A d \in Cores \ {c}, p \in Object : d \in top /\ Row(p, d) => Row(p, d)'
  <2> SUFFICES ASSUME NEW d \in Cores \ {c}, NEW p \in Object, d \in top, Row(p, d)
               PROVE  Row(p, d)'
    BY Zenon
  <2>1. phase = "destroy" /\ c \in todo
    BY Zenon DEF StopDestroy
  <2>2. CASE todo = {c}
    <3>1. phase' = "stop"
      BY <2>2, Zenon DEF StopDestroy, Visit, Goto
    <3>2. p = NoObject
      BY <2>1, <2>2, ZenonT(60) DEF Row
    <3>3. p.owner = "none"
      BY <3>2, NoObjectFields, Zenon
    <3> QED  BY <3>1, <3>3, ZenonT(60) DEF Row
  <2>3. CASE todo # {c}
    <3>1. phase' = phase /\ todo' = todo \ {c}
      BY <2>3, Zenon DEF StopDestroy, Visit, Goto
    <3> QED  BY <3>1, RowStays, Zenon
  <2> QED  BY <2>2, <2>3, Zenon
<1> QED  BY <1>3, <1>4, <1>5, <1>6, OneObject, SMTT(30) DEF StopDestroy

LEMMA StopFinishObjects ==
  ASSUME Objects, StopFinish
  PROVE  Objects'
<1>1. Types' /\ Sets'
  BY Zenon DEF Objects, StopFinish, Types, Sets, Rest, Removing, Stopping,
     Disconnecting, Phases, Goto
<1>2. \A d \in Cores : obj[d].owner # "cas_cache"
  BY DEF Objects, StopFinish, Shapes, Fits, Rows, Row
<1> QED  BY <1>1, <1>2, NoneChanged DEF StopFinish

LEMMA DisconnectCoresObjects ==
  ASSUME Objects, DisconnectCores
  PROVE  Objects'
<1>1. CASE MissingTop("disconnect")
  BY <1>1, MissingTopObjects, SMTT(30)
<1>2. CASE cores \subseteq top /\ ~MissingTop("disconnect")
  <2>1. tail' \in [Cores -> {"none", "captured", "freed"}] /\ through' \in BOOLEAN
    BY <1>2, Zenon DEF DisconnectCores
  <2>5. phase' = "set_pt" /\ todo' = cores
    BY <1>2 DEF DisconnectCores, Goto
  <2>6. Types'
    BY <1>2, <2>1, <2>5, Zenon DEF Objects, DisconnectCores, Types, Sets, cacheVars
  <2>7. Sets'
    BY <1>2, <2>5, ZenonT(60) DEF Objects, DisconnectCores, Types, Sets, Rest,
       Removing, Stopping, Disconnecting, Phases, cacheVars
  <2>3. \A d \in top', p \in Object : p = obj[d] => Row(p, d)'
    BY <1>2 DEF Objects, DisconnectCores, Types, Rows, Row, Goto
  <2>4. \A d \in Cores : obj[d].owner = "cas_cache" => d \in top'
    BY <1>2 DEF Objects, Shapes, Fits, DisconnectCores
  <2> QED  BY <1>2, <2>6, <2>7, <2>3, <2>4, NoneChanged DEF DisconnectCores
<1> QED  BY <1>1, <1>2 DEF DisconnectCores

LEMMA DrainAndPurgeObjects ==
  ASSUME Objects, DrainAndPurge
  PROVE  Objects'
<1>1. Types' /\ Sets'
  BY Zenon DEF Objects, DrainAndPurge, Types, Sets, Rest, Removing, Stopping,
     Disconnecting, Phases, Goto, cacheVars
<1>2. \A d \in top', p \in Object : p = obj[d] => Row(p, d)'
  BY ZenonT(60) DEF Objects, DrainAndPurge, Types, Sets, Rows, Row, Goto, cacheVars,
     Disconnecting
<1>3. \A d \in Cores : obj[d].owner = "cas_cache" => d \in top'
  BY DEF Objects, Shapes, Fits, DrainAndPurge
<1> QED  BY <1>1, <1>2, <1>3, NoneChanged DEF DrainAndPurge

\* An object moves to the box.
LEMMA DepositObjectEffect ==
  ASSUME Objects, NEW c \in Cores, Bypassed(obj[c]), DepositObject(c), UNCHANGED leaving
  PROVE  \E o \in Object : Become(c, o) /\ Fits(o, c)' /\ c \notin top'
<1>1. obj[c] \in Object /\ (obj[c].frozen <=> obj[c].depth > 0)
  BY DEF Objects, Shapes, Fits
<1>2. PICK o : o = [obj[c] EXCEPT !.owner = "cas_bd"]
  BY Zenon
<1>3. o \in Object /\ SameBut(o, obj[c], {"owner"}) /\ o.owner = "cas_bd"
  BY <1>1, <1>2, OwnerFields DEF Modules
<1>4. Fits(o, c)'
  BY <1>1, <1>3, OwnedPlace DEF DepositObject, Fits, Bypassed, Owned, SameBut
<1> QED  BY <1>2, <1>3, <1>4 DEF DepositObject

LEMMA DepositCoreObjects ==
  ASSUME Objects, NEW c \in Cores, DepositCore(c)
  PROVE  Objects'
<1>1. c \in top /\ top = todo /\ Bypassed(obj[c])
  BY DEF Objects, DepositCore, Sets, Rows, Row
<1>2. PICK o \in Object : Become(c, o) /\ Fits(o, c)' /\ c \notin top'
  BY <1>1, DepositObjectEffect DEF DepositCore
<1>3. Types' /\ Sets'
  BY <1>1, Zenon DEF Objects, DepositCore, DepositObject, Types, Sets, Rest,
     Removing, Stopping, Disconnecting, Phases, Visit, Goto, cacheVars
<1>4. \A d \in Cores \ {c}, p \in Object : d \in top /\ Row(p, d) => Row(p, d)'
  <2> SUFFICES ASSUME NEW d \in Cores \ {c}, NEW p \in Object, d \in top, Row(p, d)
               PROVE  Row(p, d)'
    BY Zenon
  <2>1. phase = "deposit" /\ c \in todo
    BY Zenon DEF DepositCore
  <2>2. CASE todo = {c}
    BY <1>1, <2>2, Zenon
  <2>3. CASE todo # {c}
    <3>1. phase' = phase /\ todo' = todo \ {c}
      BY <2>3, Zenon DEF DepositCore, Visit, Goto
    <3> QED  BY <3>1, RowStays, Zenon
  <2> QED  BY <2>2, <2>3, Zenon
<1> QED  BY <1>1, <1>2, <1>3, <1>4, OneObject, SMTT(30) DEF DepositCore, DepositObject

\* The object is the one it was but for its queue, which is not frozen.
LEMMA UnfreezeCapturedObjects ==
  ASSUME Objects, NEW c \in Cores, UnfreezeCaptured(c)
  PROVE  Objects'
<1>1. obj[c] \in Object /\ Fits(obj[c], c)
  BY SMTT(30) DEF Objects, Shapes
<1>2. Types' /\ Sets'
  BY Zenon DEF Objects, UnfreezeCaptured, Types, Sets, Rest, cacheVars
<1>3. CASE UNCHANGED obj
  <2>1. \A d \in top', p \in Object : p = obj[d] => Row(p, d)'
    BY ZenonT(60) DEF Objects, UnfreezeCaptured, Rows, Row
  <2>2. \A d \in Cores : obj[d].owner = "cas_cache" => d \in top'
    BY SMTT(30) DEF Objects, Shapes, Fits, UnfreezeCaptured
  <2> QED  BY <1>2, <1>3, <2>1, <2>2, NoneChanged, ZenonT(60) DEF UnfreezeCaptured
<1>4. CASE Become(c, Unfrozen(obj[c]))
  <2>1. PICK o : o = Unfrozen(obj[c])
    OBVIOUS
  <2>2. o \in Object /\ SameBut(o, obj[c], {"depth", "frozen"}) /\ o.depth = 0 /\ ~o.frozen
    BY <1>1, <2>1, UnfrozenFields, SMTT(30)
  <2>3. o.st = "none" => o = NoObject
    BY <1>1, <2>2, NoObjectFields, EqualObjects, ZenonT(60) DEF Fits, SameBut
  <2>4. Fits(o, c)'
    <3>1. UNCHANGED <<box, leaving, top>>
      BY Zenon DEF UnfreezeCaptured
    <3>2. o.frozen <=> o.depth > 0
      BY <2>2
    <3>3. /\ o.st = obj[c].st /\ o.owner = obj[c].owner /\ o.mode = obj[c].mode
          /\ o.claimed = obj[c].claimed /\ o.openers = obj[c].openers
      BY <2>2, Zenon DEF SameBut
    <3> QED  BY <1>1, <2>3, <3>1, <3>2, <3>3, ZenonT(60) DEF Fits
  <2>5. ASSUME c \in top' PROVE Row(o, c)'
    <3>1. Row(obj[c], c)
      BY <2>5 DEF Objects, Rows, UnfreezeCaptured
    <3> QED  BY <1>1, <2>2, <2>3, <3>1, NoObjectFields, ZenonT(60)
                DEF UnfreezeCaptured, Row, Serving, Locked, Dismantled, Bypassed,
                Routing, Owned, SameBut
  <2>6. \A d \in Cores \ {c}, p \in Object : d \in top /\ Row(p, d) => Row(p, d)'
    <3>1. phase' = phase /\ todo' = todo
      BY Zenon DEF UnfreezeCaptured
    <3> QED  BY <3>1, SMTT(30) DEF Row
  <2> QED  BY <1>2, <1>4, <2>1, <2>2, <2>4, <2>5, <2>6, OneObject, Zenon
              DEF UnfreezeCaptured
<1> QED  BY <1>3, <1>4, Zenon DEF UnfreezeCaptured

-----------------------------------------------------------------------------
(* Connecting the cache. *)

LEMMA ClaimObjectObjects ==
  ASSUME Objects, NEW c \in Cores, ClaimObject(c)
  PROVE  Objects'
<1>1. /\ c \notin top /\ c \in cores /\ c \in todo
      /\ top = cores \ todo /\ phase = "claim" /\ cores' = cores
  BY DEF Objects, ClaimObject, Sets, Rest, cacheVars
<1>2. CASE c \in box /\ box' = box \ {c} /\ Become(c, [obj[c] EXCEPT !.owner = "cas_cache"])
           /\ top' = top \cup {c} /\ Visit(c, "resume", cores)
  <2>1. obj[c] \in Object /\ Fits(obj[c], c)
    BY DEF Objects, Shapes
  <2>2. PICK o : o = [obj[c] EXCEPT !.owner = "cas_cache"]
    BY Zenon
  <2>3. o \in Object /\ SameBut(o, obj[c], {"owner"}) /\ o.owner = "cas_cache"
    BY <2>1, <2>2, OwnerFields DEF Modules
  <2>4. Bypassed(o)
    BY <1>2, <2>1, <2>3 DEF Fits, Bypassed, Owned, SameBut
  <2>5. c \notin leaving
    BY <1>2, <2>1 DEF Fits
  <2>6. Fits(o, c)'
    BY <1>2, <2>1, <2>3, <2>4, <2>5 DEF ClaimObject, Fits, Bypassed, Owned, SameBut
  <2>7. Types' /\ Sets'
    BY <1>1, <1>2, ZenonT(60) DEF Objects, ClaimObject, Types, Sets, Rest, Removing,
       Stopping, Disconnecting, Connecting, Phases, Visit, Goto, cacheVars
  <2>8. Row(o, c)'
    BY <1>1, <1>2, <2>4 DEF Row, Visit, Goto
  <2>9. \A d \in Cores \ {c}, p \in Object : d \in top /\ Row(p, d) => Row(p, d)'
    BY <1>1, <1>2 DEF Objects, Types, Row, Visit, Goto
  <2> QED  BY <1>2, <2>2, <2>3, <2>6, <2>7, <2>8, <2>9, OneObject DEF ClaimObject
<1>3. CASE Goto(IF top = {} THEN "abort" ELSE "return", top) /\ UNCHANGED <<obj, box, top>>
  <2>1. Types' /\ Sets'
    BY <1>1, <1>3, Zenon DEF Objects, ClaimObject, Types, Sets, Rest, Removing,
       Stopping, Disconnecting, Connecting, Phases, Goto, cacheVars
  <2>2. \A d \in top', p \in Object : p = obj[d] => Row(p, d)'
    BY <1>1, <1>3, ZenonT(60) DEF Objects, Rows, Row, Goto
  <2>3. \A d \in Cores : obj[d].owner = "cas_cache" => d \in top'
    BY <1>3, Zenon DEF Objects, Shapes, Fits
  <2> QED  BY <1>3, <2>1, <2>2, <2>3, NoneChanged DEF ClaimObject
<1> QED  BY <1>2, <1>3 DEF ClaimObject

LEMMA ReturnObjects ==
  ASSUME Objects, NEW c \in Cores, Return(c)
  PROVE  Objects'
<1>1. c \in top /\ top = todo /\ Bypassed(obj[c])
  BY Zenon DEF Objects, Return, Sets, Rows, Row
<1>2. PICK o \in Object : Become(c, o) /\ Fits(o, c)' /\ c \notin top'
  BY <1>1, DepositObjectEffect DEF Return
<1>3. Types' /\ Sets'
  BY <1>1 DEF Objects, Return, DepositObject, Types, Sets, Rest, Removing, Stopping,
     Disconnecting, Connecting, Phases, Visit, Goto, cacheVars
<1>4. \A d \in Cores \ {c}, p \in Object : d \in top /\ Row(p, d) => Row(p, d)'
  BY <1>1, ZenonT(60) DEF Return, Row, Visit, Goto
<1> QED  BY <1>1, <1>2, <1>3, <1>4, OneObject, SMTT(30) DEF Return, DepositObject

LEMMA AbortObjects ==
  ASSUME Objects, Abort
  PROVE  Objects'
<1>1. Types' /\ Sets' /\ top' = {} /\ top = {}
  BY Zenon DEF Objects, Abort, Types, Sets, Rest, Removing, Stopping,
     Disconnecting, Phases, Goto
<1>2. \A d \in Cores : obj[d].owner = "cas_cache" => d \in top'
  BY <1>1 DEF Objects, Shapes, Fits
<1> QED  BY <1>1, <1>2, NoneChanged DEF Abort

LEMMA ResumeObjectObjects ==
  ASSUME Objects, NEW c \in Cores, ResumeObject(c)
  PROVE  Objects'
<1>1. c \in top /\ obj[c] \in Object /\ (obj[c].frozen <=> obj[c].depth > 0)
  BY DEF Objects, ResumeObject, Shapes, Fits, Sets
<1>2. Bypassed(obj[c])
  BY <1>1 DEF Objects, Rows, Row, ResumeObject
<1>3. PICK o : o = IF obj[c].frozen THEN obj[c] ELSE Frozen(obj[c])
  OBVIOUS
<1>4. o \in Object /\ SameBut(o, obj[c], {"depth", "frozen"}) /\ (o.frozen <=> o.depth > 0)
  <2>1. CASE obj[c].frozen
    BY <1>1, <1>3, <2>1 DEF SameBut
  <2>2. CASE ~obj[c].frozen
    <3>1. obj[c].depth = 0 /\ o = Frozen(obj[c])
      BY <1>1, <1>3, <2>2 DEF Object
    <3> QED  BY <1>1, <3>1, FrozenFields
  <2> QED  BY <2>1, <2>2
<1>5. Types' /\ Sets'
  BY <1>1, SMTT(30) DEF Objects, ResumeObject, Types, Sets, Rest, Removing, Stopping,
     Disconnecting, Connecting, Phases, Goto, cacheVars
<1>6. Fits(o, c)'
  BY <1>1, <1>2, <1>4, FitsStill DEF ResumeObject, Bypassed, Owned, SameBut
<1>7. Row(o, c)'
  BY <1>1, <1>2, <1>4, Zenon DEF ResumeObject, Row, Bypassed, Owned, Goto, SameBut
<1>8. \A d \in Cores \ {c}, p \in Object : d \in top /\ Row(p, d) => Row(p, d)'
  BY DEF ResumeObject, Row, Goto
<1> QED  BY <1>3, <1>4, <1>5, <1>6, <1>7, <1>8, OneObject DEF ResumeObject

LEMMA RerouteObjectObjects ==
  ASSUME Objects, NEW c \in Cores, RerouteObject(c)
  PROVE  Objects'
<1>1. c \in todo /\ c \in top /\ obj[c] \in Object
  BY Zenon DEF Objects, RerouteObject, Types, Sets
<1>2. Bypassed(obj[c])
  BY <1>1, Zenon DEF Objects, Rows, Row, RerouteObject
<1>3. PICK q : q = Routed(obj[c], "default")
  OBVIOUS
<1>4. PICK o : o = Unfrozen(q)
  BY SMTT(30)
<1>5. /\ o \in Object /\ SameBut(o, obj[c], {"mode", "depth", "frozen"})
      /\ o.mode = "default" /\ o.depth = 0 /\ ~o.frozen
  <2>1. q \in Object /\ SameBut(q, obj[c], {"mode"}) /\ q.mode = "default"
    BY <1>1, <1>3, RoutedFields, SMTT(30)
  <2>2. o \in Object /\ SameBut(o, q, {"depth", "frozen"}) /\ o.depth = 0 /\ ~o.frozen
    BY <1>4, <2>1, UnfrozenFields, Zenon
  <2> QED  BY <2>1, <2>2, ZenonT(60) DEF SameBut
<1>6. Types' /\ Sets'
  BY <1>1, Zenon DEF Objects, RerouteObject, Types, Sets, Rest, Removing, Stopping,
     Disconnecting, Connecting, Phases, Goto, cacheVars
<1>7. Fits(o, c)'
  <2>1. /\ obj[c].owner = "cas_cache" /\ obj[c].st = "live" /\ ~obj[c].claimed
        /\ UNCHANGED <<box, leaving, top>>
    BY <1>2, Zenon DEF RerouteObject, Bypassed, Owned
  <2>2. /\ SameBut(o, obj[c], {"st", "claimed", "mode", "depth", "frozen"})
        /\ o.st = obj[c].st /\ o.claimed = obj[c].claimed
    BY <1>5, Zenon DEF SameBut
  <2>3. o.frozen <=> o.depth > 0
    BY <1>5
  <2> QED  BY <1>1, <1>5, <2>1, <2>2, <2>3, FitsStill, ZenonT(60)
<1>8. Row(o, c)'
  BY <1>1, <1>2, <1>5, ZenonT(60) DEF RerouteObject, Row, Serving, Bypassed, Owned,
     Goto, SameBut
<1>9. \A d \in Cores \ {c}, p \in Object : d \in top /\ Row(p, d) => Row(p, d)'
  BY ZenonT(60) DEF RerouteObject, Row, Goto
<1> QED  BY <1>3, <1>4, <1>5, <1>6, <1>7, <1>8, <1>9, OneObject, ZenonT(60)
            DEF RerouteObject

-----------------------------------------------------------------------------
(* Deleting an object of the box. *)

LEMMA DeleteBeginObjects ==
  ASSUME Objects, NEW c \in Cores, DeleteBegin(c)
  PROVE  Objects'
<1>1. obj[c] \in Object /\ Fits(obj[c], c) /\ obj[c].owner = "cas_bd"
  BY DEF Objects, Shapes, Fits, DeleteBegin
<1>2. PICK q : q = IF obj[c].frozen THEN Unfrozen(obj[c]) ELSE obj[c]
  OBVIOUS
<1>3. PICK o : o = Routed(q, "error")
  OBVIOUS
<1>4. /\ o \in Object /\ SameBut(o, obj[c], {"mode", "depth", "frozen"})
      /\ o.mode = "error" /\ (o.frozen <=> o.depth > 0)
  <2>1. q \in Object /\ SameBut(q, obj[c], {"depth", "frozen"}) /\ (q.frozen <=> q.depth > 0)
    <3>1. CASE obj[c].frozen
      <4>1. q \in Object /\ SameBut(q, obj[c], {"depth", "frozen"}) /\ q.depth = 0 /\ ~q.frozen
        BY <1>1, <1>2, <3>1, UnfrozenFields, Zenon
      <4> QED  BY <4>1
    <3>2. CASE ~obj[c].frozen
      BY <1>1, <1>2, <3>2 DEF SameBut, Fits
    <3> QED  BY <3>1, <3>2
  <2>2. o \in Object /\ SameBut(o, q, {"mode"}) /\ o.mode = "error"
    BY <1>3, <2>1, RoutedFields, SMTT(30)
  <2> QED  BY <2>1, <2>2 DEF SameBut
<1>5. Types' /\ Sets'
  BY DEF Objects, DeleteBegin, Types, Sets, Rest, cacheVars
<1>6. Fits(o, c)'
  BY <1>1, <1>4, ZenonT(60) DEF DeleteBegin, Fits, SameBut
<1>7. ASSUME c \in top' PROVE Row(o, c)'
  <2>1. Row(obj[c], c)
    BY <1>7, SMTT(30) DEF Objects, Rows, DeleteBegin
  <2> QED  BY <1>1, <2>1, NoObjectFields, ZenonT(60) DEF DeleteBegin, Objects, Sets,
              Phases, Stopping, Disconnecting, Removing, Connecting, Row, Serving,
              Locked, Dismantled, Bypassed, Routing, Owned
<1>8. \A d \in Cores \ {c}, p \in Object : d \in top /\ Row(p, d) => Row(p, d)'
  <2>1. phase' = phase /\ todo' = todo
    BY SMTT(30) DEF DeleteBegin
  <2> QED  BY <2>1 DEF Row
<1> QED  BY <1>2, <1>3, <1>4, <1>5, <1>6, <1>7, <1>8, OneObject DEF DeleteBegin

LEMMA DeleteEndObjects ==
  ASSUME Objects, NEW c \in Cores, DeleteEnd(c)
  PROVE  Objects'
<1>1. obj[c].owner = "cas_bd" /\ c \notin box
  BY SMTT(30) DEF Objects, Shapes, Fits, DeleteEnd
<1>2. /\ Become(c, NoObject) /\ NoObject \in Object /\ Fits(NoObject, c)'
      /\ tail' \in [Cores -> {"none", "captured", "freed"}]
  BY <1>1, DestroyObjectEffect, ZenonT(60) DEF DeleteEnd
<1>3. Types' /\ Sets'
  BY <1>2 DEF Objects, DeleteEnd, Types, Sets, Rest, cacheVars
<1>4. ASSUME c \in top' PROVE Row(NoObject, c)'
  <2>1. Row(obj[c], c)
    BY <1>4 DEF Objects, Rows, DeleteEnd
  <2> QED  BY <1>1, <2>1, NoObjectFields, ZenonT(60) DEF DeleteEnd, Objects, Sets,
              Phases, Stopping, Disconnecting, Removing, Connecting, Row, Serving,
              Locked, Dismantled, Bypassed, Routing, Owned
<1>5. \A d \in Cores \ {c}, p \in Object : d \in top /\ Row(p, d) => Row(p, d)'
  <2>1. phase' = phase /\ todo' = todo
    BY Zenon DEF DeleteEnd
  <2> QED  BY <2>1 DEF Row
<1> QED  BY <1>2, <1>3, <1>4, <1>5, OneObject, ZenonT(60) DEF DeleteEnd

LEMMA ObjInitObjects == ObjInit => Objects
<1> SUFFICES ASSUME ObjInit PROVE Objects
  OBVIOUS
<1>1. obj \in [Cores -> Object] /\ \A c \in Cores : obj[c] = NoObject
  BY NoObjectFields DEF ObjInit
<1>2. Types
  BY Zenon DEF ObjInit, Types
<1>3. Sets
  BY DEF ObjInit, Sets, Rest, Phases, Stopping, Disconnecting, Removing, Connecting
<1>4. Shapes
  BY <1>1, NoObjectFields DEF ObjInit, Shapes, Fits
<1>5. Rows
  BY DEF ObjInit, Rows
<1> QED  BY <1>1, <1>2, <1>3, <1>4, <1>5 DEF Objects

LEMMA NextObjects == ASSUME Objects, [ObjNext]_objVars PROVE Objects'
<1>1. CASE UNCHANGED objVars
  BY <1>1, SameObjects DEF objVars
<1>2. CASE Users
  BY <1>2, UsersObjects
<1>3. CASE Command
  <2>1. CASE StopFinish \/ DrainAndPurge \/ Abort
    BY <2>1, StopFinishObjects, DrainAndPurgeObjects, AbortObjects, Zenon
  <2>2. ASSUME NEW c \in Cores,
               \/ LoadCreate(c)
               \/ RemoveDismantle(c) \/ RemoveDestroy(c) \/ RemoveFinish(c)
               \/ StopLock(c) \/ StopUnlock(c) \/ StopDismantle(c) \/ StopDestroy(c)
        PROVE  Objects'
    BY <2>2, LoadCreateObjects, RemoveDismantleObjects, RemoveDestroyObjects,
       RemoveFinishObjects, StopLockObjects, StopUnlockObjects, StopDismantleObjects,
       StopDestroyObjects, Zenon
  <2>3. ASSUME NEW c \in Cores,
               \/ SetObjectPt(c) \/ FreezeObject(c) \/ ClearObjectPt(c) \/ UnfreezeObject(c)
               \/ DepositCore(c) \/ ClaimObject(c) \/ Return(c)
               \/ ResumeObject(c) \/ RerouteObject(c)
        PROVE  Objects'
    BY <2>3, SetObjectPtObjects, FreezeObjectObjects, ClearObjectPtObjects,
       UnfreezeObjectObjects, DepositCoreObjects, ClaimObjectObjects, ReturnObjects,
       ResumeObjectObjects, RerouteObjectObjects, Zenon
  <2> QED  BY <1>3, <2>1, <2>2, <2>3, Zenon DEF Command
<1>4. CASE Administrator
  <2>1. CASE LoadCores("create") \/ LoadCores("claim")
    BY <2>1, LoadCoresObjects
  <2>2. CASE Stop \/ DisconnectCores
    BY <2>2, StopObjects, DisconnectCoresObjects
  <2>3. ASSUME NEW c \in Cores, AddCore(c) \/ Remove(c) \/ DeleteBegin(c) PROVE Objects'
    BY <2>3, AddCoreObjects, RemoveObjects, DeleteBeginObjects
  <2> QED  BY <1>4, <2>1, <2>2, <2>3 DEF Administrator
<1>5. ASSUME NEW c \in Cores, UnfreezeCaptured(c) \/ DeleteEnd(c) PROVE Objects'
  BY <1>5, UnfreezeCapturedObjects, DeleteEndObjects
<1> QED  BY <1>1, <1>2, <1>3, <1>4, <1>5 DEF ObjNext, Halted

-----------------------------------------------------------------------------

\* The table of the objects holds at every step of every command, for any
\* number of cores and openers.
THEOREM ObjectInvariant == ObjSpec => []Objects
<1>1. Objects /\ [ObjNext]_objVars => Objects'
  BY NextObjects, Zenon
<1> QED  BY <1>1, ObjInitObjects, PTL DEF ObjSpec

\* When no command is under way every device of the running cache can be
\* opened and serves requests through the cache, and every device in the box
\* bypasses it, whichever commands failed before and at whatever point.
THEOREM CommandsLeaveNoTrace == ObjSpec => []CommandsRestore
<1>1. ASSUME Objects PROVE CommandsRestore
  BY <1>1, ZenonT(60) DEF CommandsRestore, Objects, Types, Shapes, Fits, Rows, Row,
     Serving, Owned
<1> QED  BY <1>1, ObjectInvariant, PTL

-----------------------------------------------------------------------------
(* The references to modules and disks. *)

INSTANCE FiniteSetTheorems

Owners(m) == {c \in Cores : obj[c].owner = m}

Tally ==
    /\ disk = [c \in Cores |-> disk[c]] /\ DiskHeld
    /\ modrefs = [m \in Modules |-> modrefs[m]]
    /\ \A m \in Modules : modrefs[m] = Cardinality(Owners(m))

LEMMA OwnersFinite ==
  ASSUME NEW m
  PROVE  IsFiniteSet(Owners(m)) /\ Cardinality(Owners(m)) \in 0 .. Cardinality(Cores)
  BY CoresAssumption, FS_Subset, FS_CardinalityType DEF Owners

\* One object passes from an owner to another.
LEMMA OwnerMoves ==
  ASSUME Objects, Tally, NEW c \in Cores, NEW o, Become(c, o), o.owner # obj[c].owner,
         MoveModule(obj[c].owner, o.owner)
  PROVE  /\ modrefs' = [m \in Modules |-> modrefs'[m]]
         /\ \A m \in Modules : modrefs'[m] = Cardinality(Owners(m)')
<1>1. /\ \A d \in Cores : obj'[d] = IF d = c THEN o ELSE obj[d]
      /\ \A m \in Modules : modrefs'[m] = modrefs[m] + (IF m = o.owner THEN 1 ELSE 0)
                                                     - (IF m = obj[c].owner THEN 1 ELSE 0)
  BY DEF Become, Objects, MoveModule
<1>2. ASSUME NEW m \in Modules PROVE modrefs'[m] = Cardinality(Owners(m)')
  <2>1. modrefs[m] = Cardinality(Owners(m)) /\ IsFiniteSet(Owners(m))
        /\ Cardinality(Owners(m)) \in Nat
    BY OwnersFinite, FS_CardinalityType, Zenon DEF Tally
  <2>2. CASE m = o.owner
    <3>1. Owners(m)' = Owners(m) \cup {c} /\ c \notin Owners(m)
      BY <1>1, <2>2, Zenon DEF Owners
    <3>2. Cardinality(Owners(m)') = Cardinality(Owners(m)) + 1
      BY <2>1, <3>1, FS_AddElement, ZenonT(60)
    <3> QED  BY <1>1, <2>1, <2>2, <3>2
  <2>3. CASE m = obj[c].owner
    <3>1. Owners(m)' = Owners(m) \ {c} /\ c \in Owners(m)
      BY <1>1, <2>3 DEF Owners
    <3>2. Cardinality(Owners(m)') = Cardinality(Owners(m)) - 1
      BY <2>1, <3>1, FS_RemoveElement, ZenonT(60)
    <3> QED  BY <1>1, <2>1, <2>3, <3>2, SMTT(30)
  <2>4. CASE m # o.owner /\ m # obj[c].owner
    <3>1. Owners(m)' = Owners(m)
      BY <1>1, <2>4, Zenon DEF Owners
    <3> QED  BY <1>1, <2>1, <2>4, <3>1
  <2> QED  BY <2>2, <2>3, <2>4, Zenon
<1>3. modrefs' = [m \in Modules |-> modrefs'[m]]
  BY DEF MoveModule
<1> QED  BY <1>2, <1>3, Zenon

\* No object is created, destroyed or passed on.
LEMMA OwnersStay ==
  ASSUME Tally, UNCHANGED modrefs, \A d \in Cores : obj'[d].owner = obj[d].owner
  PROVE  /\ modrefs' = [m \in Modules |-> modrefs'[m]]
         /\ \A m \in Modules : modrefs'[m] = Cardinality(Owners(m)')
<1>1. \A m : Owners(m)' = Owners(m)
  BY DEF Owners
<1> QED  BY <1>1 DEF Tally

LEMMA TallyStays ==
  ASSUME Tally, UNCHANGED <<disk, modrefs, cores>>,
         \A d \in Cores : /\ obj'[d].owner = obj[d].owner
                          /\ obj'[d].st = "none" <=> obj[d].st = "none"
  PROVE  Tally'
  BY OwnersStay, Zenon DEF Tally, DiskHeld

LEMMA TallyKept ==
  ASSUME Objects, Tally, UNCHANGED <<disk, modrefs, cores>>,
         NEW c \in Cores, NEW o, Become(c, o),
         o.owner = obj[c].owner, o.st = "none" <=> obj[c].st = "none"
  PROVE  Tally'
  BY TallyStays, Zenon DEF Become, Objects

LEMMA CreateTally ==
  ASSUME Objects, Tally, NEW c \in Cores, obj[c].st = "none", CreateObject(c),
         disk' = [d \in Cores |-> disk'[d]],
         \A d \in Cores : disk'[d] = disk[d] + (IF d = c THEN 1 ELSE 0)
                                       + (IF d \in cores' THEN 1 ELSE 0)
                                       - (IF d \in cores THEN 1 ELSE 0)
  PROVE  Tally'
<1>1. PICK o : o = [NoObject EXCEPT !.st = "live", !.owner = "cas_cache"]
  OBVIOUS
<1>2. o.st = "live" /\ o.owner = "cas_cache"
  BY <1>1, CreatedFields, Zenon
<1>3. obj[c].owner = "none" /\ obj[c].st = "none"
  BY NoObjectFields, Zenon DEF Objects, Shapes, Fits
<1>4. Become(c, o) /\ MoveModule(obj[c].owner, o.owner)
  BY <1>1, <1>2, <1>3, Zenon DEF CreateObject
<1>5. ASSUME NEW d \in Cores
      PROVE  disk'[d] = (IF d \in cores' THEN 1 ELSE 0)
                          + (IF obj'[d].st # "none" THEN 1 ELSE 0)
  <2>1. disk[d] = (IF d \in cores THEN 1 ELSE 0) + (IF obj[d].st # "none" THEN 1 ELSE 0)
    BY DEF Tally, DiskHeld
  <2>2. obj'[d] = IF d = c THEN o ELSE obj[d]
    BY <1>4, Zenon DEF Become, Objects
  <2>3. CASE d = c
    BY <1>2, <1>3, <2>1, <2>2, <2>3, SMTT(30)
  <2>4. CASE d # c
    BY <2>1, <2>2, <2>4
  <2> QED  BY <2>3, <2>4, Zenon
<1>6. DiskHeld'
  BY <1>5, Zenon DEF DiskHeld
<1> QED  BY <1>2, <1>3, <1>4, <1>6, OwnerMoves, Zenon DEF Tally

LEMMA DestroyTally ==
  ASSUME Objects, Tally, NEW c \in Cores, obj[c].st # "none", DestroyObject(c), UNCHANGED cores
  PROVE  Tally'
<1>1. obj[c].owner # "none" /\ Become(c, NoObject) /\ MoveModule(obj[c].owner, NoObject.owner)
  BY NoObjectFields, Zenon DEF Objects, Shapes, Fits, DestroyObject
<1>2. \A d \in Cores : disk'[d] = disk[d] - (IF d = c THEN 1 ELSE 0)
  BY DEF DestroyObject, DiskRefs, Tally, DiskHeld
<1>3. disk' = [d \in Cores |-> disk'[d]]
  BY DEF DestroyObject, DiskRefs
<1>4. DiskHeld'
  BY <1>1, <1>2, NoObjectFields DEF Tally, DiskHeld, Become, Objects
<1> QED  BY <1>1, <1>3, <1>4, NoObjectFields, OwnerMoves, Zenon DEF Tally

LEMMA PassTally ==
  ASSUME Objects, Tally, UNCHANGED <<disk, cores>>, NEW c \in Cores, NEW m \in Modules,
         obj[c].owner # m, Become(c, [obj[c] EXCEPT !.owner = m]), MoveModule(obj[c].owner, m)
  PROVE  Tally'
<1>1. PICK o : o = [obj[c] EXCEPT !.owner = m]
  OBVIOUS
<1>2. SameBut(o, obj[c], {"owner"}) /\ o.owner = m
  BY <1>1, OwnerFields, Zenon DEF Objects
<1>3. Become(c, o) /\ MoveModule(obj[c].owner, o.owner)
  BY <1>1, <1>2, Zenon
<1>4. DiskHeld'
  BY <1>2, <1>3 DEF Tally, DiskHeld, Become, Objects, SameBut
<1> QED  BY <1>2, <1>3, <1>4, OwnerMoves, Zenon DEF Tally

\* The disks of a set of cores are opened or closed.
LEMMA CoresTally ==
  ASSUME Tally, UNCHANGED <<obj, modrefs>>, disk' = [d \in Cores |-> disk'[d]],
         \A d \in Cores : disk'[d] = disk[d] + (IF d \in cores' THEN 1 ELSE 0)
                                       - (IF d \in cores THEN 1 ELSE 0)
  PROVE  Tally'
  BY OwnersStay DEF Tally, DiskHeld

-----------------------------------------------------------------------------
(* The references, action by action. *)

LEMMA UsersTally == ASSUME Objects, Tally, Users PROVE Tally'
<1> SUFFICES ASSUME NEW c \in Cores, Open(c) \/ Close(c) PROVE Tally'
  BY DEF Users
<1>1. \A n : LET o == [obj[c] EXCEPT !.openers = n]
             IN  o.owner = obj[c].owner /\ o.st = obj[c].st
  BY DEF Objects, Object
<1>2. CASE UNCHANGED obj
  BY <1>2, TallyStays, Zenon DEF Open, Close, cacheVars
<1>3. CASE \E n : Become(c, [obj[c] EXCEPT !.openers = n])
  <2>1. PICK n : Become(c, [obj[c] EXCEPT !.openers = n])
    BY <1>3, Zenon
  <2> QED  BY <1>1, <2>1, TallyKept, Zenon DEF Open, Close, cacheVars
<1> QED  BY <1>2, <1>3, Zenon DEF Open, Close

LEMMA LoadTally ==
  ASSUME Objects, Tally, NEW l, LoadCores(l)
  PROVE  Tally'
<1>1. PICK S \in SUBSET meta : cores' = S /\ DiskRefs(S, 1)
  BY Zenon DEF LoadCores
<1>2. cores = {}
  BY DEF Objects, Sets, LoadCores
<1>3. \A d \in Cores : disk[d] \in Int
  BY DEF Tally, DiskHeld
<1>4. \A d \in Cores : disk'[d] = disk[d] + (IF d \in cores' THEN 1 ELSE 0)
                                    - (IF d \in cores THEN 1 ELSE 0)
  BY <1>1, <1>2, <1>3 DEF DiskRefs
<1>5. disk' = [d \in Cores |-> disk'[d]]
  BY <1>1, Zenon DEF DiskRefs
<1> QED  BY <1>4, <1>5, CoresTally, Zenon DEF LoadCores

LEMMA AddCoreTally == ASSUME Objects, Tally, NEW c \in Cores, AddCore(c) PROVE Tally'
<1>1. \A d \in Cores : disk[d] \in Int
  BY DEF Tally, DiskHeld
<1>2. \A d \in Cores : disk'[d] = disk[d] + (IF d = c THEN 1 ELSE 0)
                                    + (IF d \in cores' THEN 1 ELSE 0)
                                    - (IF d \in cores THEN 1 ELSE 0)
  BY <1>1 DEF AddCore, DiskRefs
<1>3. disk' = [d \in Cores |-> disk'[d]]
  BY DEF AddCore, DiskRefs
<1> QED  BY <1>2, <1>3, CreateTally, Zenon DEF AddCore

LEMMA LoadCreateTally == ASSUME Objects, Tally, NEW c \in Cores, LoadCreate(c) PROVE Tally'
<1>1. CASE MissingTop("cleanup")
  BY <1>1, TallyStays, Zenon DEF MissingTop, cacheVars
<1>2. CASE obj[c].st = "none" /\ CreateObject(c) /\ DiskRefs({c}, 1) /\ UNCHANGED cores
  <2>1. \A d \in Cores : disk[d] \in Int
    BY DEF Tally, DiskHeld
  <2>2. \A d \in Cores : disk'[d] = disk[d] + (IF d = c THEN 1 ELSE 0)
                                      + (IF d \in cores' THEN 1 ELSE 0)
                                      - (IF d \in cores THEN 1 ELSE 0)
    BY <1>2, <2>1 DEF DiskRefs
  <2>3. disk' = [d \in Cores |-> disk'[d]]
    BY <1>2, Zenon DEF DiskRefs
  <2> QED  BY <1>2, <2>2, <2>3, CreateTally, Zenon
<1> QED  BY <1>1, <1>2, Zenon DEF LoadCreate, cacheVars

LEMMA RemovalTally ==
  ASSUME Objects, Tally, NEW c \in Cores,
         Remove(c) \/ RemoveDismantle(c) \/ RemoveDestroy(c) \/ RemoveFinish(c)
  PROVE  Tally'
<1>o. obj[c] \in Object
  BY DEF Objects
<1>1. CASE Remove(c)
  <2>1. [obj[c] EXCEPT !.claimed = TRUE].owner = obj[c].owner
        /\ [obj[c] EXCEPT !.claimed = TRUE].st = obj[c].st
    BY <1>o, LockFields, ZenonT(60) DEF SameBut
  <2> QED  BY <1>1, <2>1, TallyStays, TallyKept, Zenon DEF Remove, MissingTop, cacheVars
<1>2. CASE RemoveDismantle(c)
  <2>1. obj[c].st = "live"
    BY <1>2, Zenon DEF Objects, RemoveDismantle, Sets, Rows, Row, Locked, Owned
  <2>2. [obj[c] EXCEPT !.st = "dismantled"].owner = obj[c].owner
        /\ [obj[c] EXCEPT !.st = "dismantled"].st = "dismantled"
    BY <1>o, DismantledFields, Zenon DEF SameBut
  <2> QED  BY <1>2, <2>1, <2>2, TallyKept, ZenonT(60) DEF RemoveDismantle, cacheVars
<1>3. CASE RemoveDestroy(c)
  <2>1. obj[c].st = "dismantled"
    BY <1>3, Zenon DEF Objects, RemoveDestroy, Sets, Rows, Row, Dismantled, Owned
  <2> QED  BY <1>3, <2>1, DestroyTally, Zenon DEF RemoveDestroy, cacheVars
<1>4. CASE RemoveFinish(c)
  <2>1. CASE UNCHANGED <<cores, disk>>
    BY <1>4, <2>1, TallyStays, Zenon DEF RemoveFinish
  <2>2. CASE cores' = cores \ {c} /\ DiskRefs({c}, -1)
    <3>1. c \in cores
      BY <1>4, Zenon DEF Objects, Sets, RemoveFinish
    <3>2. \A d \in Cores : disk[d] \in Int
      BY DEF Tally, DiskHeld
    <3>3. \A d \in Cores : disk'[d] = disk[d] + (IF d \in cores' THEN 1 ELSE 0)
                                        - (IF d \in cores THEN 1 ELSE 0)
      BY <2>2, <3>1, <3>2, SMTT(30) DEF DiskRefs
    <3>4. disk' = [d \in Cores |-> disk'[d]]
      BY <2>2, Zenon DEF DiskRefs
    <3> QED  BY <1>4, <3>3, <3>4, CoresTally, Zenon DEF RemoveFinish
  <2> QED  BY <1>4, <2>1, <2>2, Zenon DEF RemoveFinish
<1> QED  BY <1>1, <1>2, <1>3, <1>4, Zenon

\* Stopping the cache, or aborting its connection, closes all its disks.
LEMMA ClosedTally ==
  ASSUME Objects, Tally, UNCHANGED <<obj, modrefs>>, cores' = {}, DiskRefs(cores, -1)
  PROVE  Tally'
<1>1. \A d \in Cores : disk[d] \in Int
  BY DEF Tally, DiskHeld
<1>2. \A d \in Cores : disk'[d] = disk[d] + (IF d \in cores' THEN 1 ELSE 0)
                                    - (IF d \in cores THEN 1 ELSE 0)
  BY <1>1 DEF DiskRefs
<1>3. disk' = [d \in Cores |-> disk'[d]]
  BY Zenon DEF DiskRefs
<1> QED  BY <1>2, <1>3, CoresTally, Zenon

LEMMA StoppingTally ==
  ASSUME Objects, Tally, NEW c \in Cores,
         StopLock(c) \/ StopUnlock(c) \/ StopDismantle(c) \/ StopDestroy(c)
  PROVE  Tally'
<1>o. obj[c] \in Object
  BY DEF Objects
<1>1. CASE StopLock(c)
  <2>1. [obj[c] EXCEPT !.claimed = TRUE].owner = obj[c].owner
        /\ [obj[c] EXCEPT !.claimed = TRUE].st = obj[c].st
    BY <1>o, LockFields DEF SameBut
  <2> QED  BY <1>1, <2>1, TallyStays, TallyKept, Zenon DEF StopLock, cacheVars
<1>2. CASE StopUnlock(c)
  <2>1. [obj[c] EXCEPT !.claimed = FALSE].owner = obj[c].owner
        /\ [obj[c] EXCEPT !.claimed = FALSE].st = obj[c].st
    BY <1>o, UnlockFields, Zenon DEF SameBut
  <2> QED  BY <1>2, <2>1, TallyKept, Zenon DEF StopUnlock, cacheVars
<1>3. CASE StopDismantle(c)
  <2>1. obj[c].st = "live"
    BY <1>3, Zenon DEF Objects, StopDismantle, Sets, Stopping, Types, Rows, Row,
       Locked, Owned
  <2>2. PICK o : o = [obj[c] EXCEPT !.st = "dismantled", !.claimed = FALSE]
    OBVIOUS
  <2>3. o.owner = obj[c].owner /\ o.st = "dismantled"
    BY <1>o, <2>2, UnlockedFields, ZenonT(60) DEF SameBut
  <2> QED  BY <1>3, <2>1, <2>2, <2>3, TallyKept, Zenon DEF StopDismantle, cacheVars
<1>4. CASE StopDestroy(c)
  <2>1. obj[c].st = "dismantled"
    BY <1>4, Zenon DEF Objects, StopDestroy, Sets, Stopping, Types, Rows, Row,
       Dismantled, Owned
  <2> QED  BY <1>4, <2>1, DestroyTally DEF StopDestroy, cacheVars
<1> QED  BY <1>1, <1>2, <1>3, <1>4

\* Routing an object and freezing its queue.
LEMMA RoutingTally ==
  ASSUME Objects, Tally, NEW c \in Cores,
         \/ SetObjectPt(c) \/ FreezeObject(c) \/ ClearObjectPt(c) \/ UnfreezeObject(c)
         \/ UnfreezeCaptured(c) \/ ResumeObject(c) \/ RerouteObject(c) \/ DeleteBegin(c)
  PROVE  Tally'
<1>o. obj[c] \in Object
  BY DEF Objects
<1>1. UNCHANGED <<disk, modrefs, cores>>
  BY ZenonT(60) DEF SetObjectPt, FreezeObject, ClearObjectPt, UnfreezeObject,
     UnfreezeCaptured, ResumeObject, RerouteObject, DeleteBegin, cacheVars
<1>3. ASSUME NEW p \in Object, NEW mode \in {"default", "pt", "error"}
      PROVE  Routed(p, mode) \in Object /\ Routed(p, mode).owner = p.owner
             /\ Routed(p, mode).st = p.st
  BY RoutedFields DEF SameBut
<1>4. ASSUME NEW p \in Object
      PROVE  Unfrozen(p) \in Object /\ Unfrozen(p).owner = p.owner /\ Unfrozen(p).st = p.st
  BY UnfrozenFields, Zenon DEF SameBut
<1>5. ASSUME NEW p \in Object
      PROVE  Frozen(p).owner = p.owner /\ Frozen(p).st = p.st
  BY Zenon DEF Frozen, Object
<1>6. CASE UNCHANGED obj
  BY <1>1, <1>6, TallyStays, Zenon
<1>7. CASE \E o : Become(c, o) /\ o.owner = obj[c].owner /\ o.st = obj[c].st
  BY <1>1, <1>7, TallyKept, Zenon
<1>8. CASE SetObjectPt(c) \/ ClearObjectPt(c)
  BY <1>o, <1>3, <1>7, <1>8, Zenon DEF SetObjectPt, ClearObjectPt
<1>9. CASE FreezeObject(c) \/ UnfreezeObject(c) \/ UnfreezeCaptured(c) \/ ResumeObject(c)
  BY <1>o, <1>4, <1>5, <1>6, <1>7, <1>9, ZenonT(60)
  DEF FreezeObject, UnfreezeObject, UnfreezeCaptured, ResumeObject
<1>10. CASE RerouteObject(c)
  <2>1. PICK q \in Object : q = Routed(obj[c], "default") /\ q.owner = obj[c].owner
                            /\ q.st = obj[c].st
    BY <1>o, <1>3, Zenon
  <2>2. Become(c, Unfrozen(q))
    BY <1>10, <2>1, Zenon DEF RerouteObject
  <2> QED  BY <1>4, <1>7, <2>1, <2>2, SMTT(30)
<1>11. CASE DeleteBegin(c)
  <2>1. PICK q \in Object : /\ q = IF obj[c].frozen THEN Unfrozen(obj[c]) ELSE obj[c]
                            /\ q.owner = obj[c].owner /\ q.st = obj[c].st
    BY <1>o, <1>4, Zenon
  <2>2. Become(c, Routed(q, "error"))
    BY <1>11, <2>1, Zenon DEF DeleteBegin
  <2> QED  BY <1>3, <1>7, <2>1, <2>2, SMTT(30)
<1> QED  BY <1>8, <1>9, <1>10, <1>11, Zenon

\* An object goes to the box or comes from it.
LEMMA BoxTally ==
  ASSUME Objects, Tally, NEW c \in Cores, DepositCore(c) \/ ClaimObject(c) \/ Return(c)
  PROVE  Tally'
<1>1. UNCHANGED <<disk, cores>>
  BY DEF DepositCore, ClaimObject, Return, cacheVars
<1>2. CASE DepositCore(c) \/ Return(c)
  <2>1. c \in top /\ obj[c].owner = "cas_cache"
    BY <1>2, ZenonT(60) DEF Objects, DepositCore, Return, Sets, Rows, Row, Bypassed,
       Owned
  <2> QED  BY <1>1, <1>2, <2>1, PassTally, Zenon DEF DepositCore, Return,
              DepositObject, Modules
<1>3. CASE ClaimObject(c)
  <2>1. c \in box => obj[c].owner = "cas_bd"
    BY Zenon DEF Objects, Shapes, Fits
  <2> QED  BY <1>1, <1>3, <2>1, PassTally, TallyStays, ZenonT(60) DEF ClaimObject,
              Modules
<1> QED  BY <1>2, <1>3, Zenon

LEMMA DeleteEndTally == ASSUME Objects, Tally, NEW c \in Cores, DeleteEnd(c) PROVE Tally'
<1>1. obj[c].st = "live"
  BY DEF Objects, Shapes, Fits, DeleteEnd
<1> QED  BY <1>1, DestroyTally, Zenon DEF DeleteEnd, cacheVars

LEMMA ObjInitTally == ObjInit => Tally
<1> SUFFICES ASSUME ObjInit PROVE Tally
  OBVIOUS
<1>1. \A c \in Cores : obj[c].owner = "none" /\ obj[c].st = "none"
  BY NoObjectFields, Zenon DEF ObjInit
<1>2. \A m \in Modules : Owners(m) = {}
  BY <1>1, Zenon DEF Owners, Modules
<1>3. \A m \in Modules : modrefs[m] = Cardinality(Owners(m))
  BY <1>2, FS_EmptySet, Zenon DEF ObjInit
<1>4. DiskHeld
  BY <1>1 DEF ObjInit, DiskHeld
<1> QED  BY <1>3, <1>4, Zenon DEF ObjInit, Tally

LEMMA NextTally == ASSUME Objects, Tally, [ObjNext]_objVars PROVE Tally'
<1>1. CASE UNCHANGED objVars
  BY <1>1, TallyStays, Zenon DEF objVars, cacheVars
<1>2. CASE Users
  BY <1>2, UsersTally, Zenon
<1>3. CASE Command
  <2>1. CASE StopFinish \/ Abort
    BY <2>1, ClosedTally, Zenon DEF StopFinish, Abort
  <2>2. CASE DrainAndPurge
    BY <2>2, TallyStays, Zenon DEF DrainAndPurge, cacheVars
  <2>3. ASSUME NEW c \in Cores,
               \/ LoadCreate(c)
               \/ RemoveDismantle(c) \/ RemoveDestroy(c) \/ RemoveFinish(c)
               \/ StopLock(c) \/ StopUnlock(c) \/ StopDismantle(c) \/ StopDestroy(c)
        PROVE  Tally'
    BY <2>3, LoadCreateTally, RemovalTally, StoppingTally, Zenon
  <2>4. ASSUME NEW c \in Cores,
               \/ SetObjectPt(c) \/ FreezeObject(c) \/ ClearObjectPt(c) \/ UnfreezeObject(c)
               \/ DepositCore(c) \/ ClaimObject(c) \/ Return(c)
               \/ ResumeObject(c) \/ RerouteObject(c)
        PROVE  Tally'
    BY <2>4, RoutingTally, BoxTally, Zenon
  <2> QED  BY <1>3, <2>1, <2>2, <2>3, <2>4, Zenon DEF Command
<1>4. CASE Administrator
  <2>1. CASE LoadCores("create") \/ LoadCores("claim")
    BY <2>1, LoadTally, Zenon
  <2>2. CASE Stop \/ DisconnectCores
    BY <2>2, TallyStays, Zenon DEF Stop, DisconnectCores, MissingTop, cacheVars
  <2>3. ASSUME NEW c \in Cores, AddCore(c) \/ Remove(c) \/ DeleteBegin(c) PROVE Tally'
    BY <2>3, AddCoreTally, RemovalTally, RoutingTally, Zenon
  <2> QED  BY <1>4, <2>1, <2>2, <2>3, Zenon DEF Administrator
<1>5. ASSUME NEW c \in Cores, UnfreezeCaptured(c) \/ DeleteEnd(c) PROVE Tally'
  BY <1>5, RoutingTally, DeleteEndTally, Zenon
<1> QED  BY <1>1, <1>2, <1>3, <1>4, <1>5, Zenon DEF ObjNext, Halted

-----------------------------------------------------------------------------

\* Every reference to a module or a disk is accounted for at every step of
\* every command.
THEOREM ReferenceInvariant == ObjSpec => []Tally
<1>1. Objects /\ Tally /\ [ObjNext]_objVars => Tally'
  BY NextTally, Zenon
<1> QED  BY <1>1, ObjInitTally, ObjectInvariant, PTL DEF ObjSpec

LEMMA ReferenceTypes ==
  ASSUME Objects, Tally
  PROVE  disk \in [Cores -> 0 .. 2] /\ modrefs \in [Modules -> 0 .. Cardinality(Cores)]
<1>1. \A c \in Cores : disk[c] \in 0 .. 2
  BY DEF Tally, DiskHeld
<1>2. \A m \in Modules : modrefs[m] \in 0 .. Cardinality(Cores)
  BY OwnersFinite, Zenon DEF Tally
<1>3. disk = [c \in Cores |-> disk[c]] /\ modrefs = [m \in Modules |-> modrefs[m]]
  BY DEF Tally
<1> QED  BY <1>1, <1>2, <1>3, Zenon

\* For any set of cores and any number of openers, the state of every
\* exported object, its openers, its queue, the one module it holds and the
\* references to its disk agree at every step of every command: no device is
\* dismantled while open, and none is routed to a cas_cache that may be gone.
THEOREM ObjectsAgree == ObjSpec => []ObjectsConsistent
<1>1. Objects /\ Tally => ObjectsConsistent
  <2> SUFFICES ASSUME Objects, Tally PROVE ObjectsConsistent
    BY Zenon
  <2>1. ObjTypeOK
    BY ReferenceTypes, Zenon DEF ObjTypeOK, Objects, Types, Object
  <2>2. NeverDismantledOpen
    BY Zenon DEF NeverDismantledOpen, Objects, Shapes, Fits
  <2>3. RoutedToOwner
    <3>1. ASSUME NEW c \in Cores, obj[c].st = "live", obj[c].mode = "default"
          PROVE  obj[c].owner = "cas_cache"
      BY <3>1, Zenon DEF Objects, Object, Modules, Shapes, Fits
    <3> QED  BY <3>1, Zenon DEF RoutedToOwner, Tally, Owners
  <2>4. FrozenTrue
    BY DEF FrozenTrue, Objects, Shapes, Fits
  <2> QED  BY <2>1, <2>2, <2>3, <2>4, Zenon DEF ObjectsConsistent, Tally
<1> QED  BY <1>1, ObjectInvariant, ReferenceInvariant, PTL
=============================================================================
