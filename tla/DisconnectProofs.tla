-------------------------- MODULE DisconnectProofs --------------------------
(***************************************************************************)
(* Proofs about disconnect and connect for any number of requests.         *)
(*                                                                         *)
(* A write is at risk where the cache and the core are both written.  The  *)
(* invariant follows the command: at each of its steps, which way requests *)
(* take (Steps), and from this that dirty data and requests that pass the  *)
(* cache by never meet (Data).                                             *)
(***************************************************************************)
EXTENDS Disconnect, TLAPS

Places == {"idle", "waiting", "entered", "handler", "direct", "disk",
           "deferred", "flushing", "ocf", "fill"}

\* Steps of the command between which no dirty data may appear, at which the
\* object passes requests by, after the cache has stopped, after priv_top was
\* freed, and after the queue was found quiet.
Undirtied == {"flush", "lock", "set pt", "freeze", "quiesce", "drain", "purge",
              "thread", "undo", "deposit", "stop"}
Bypassing == {"freeze", "quiesce", "drain", "purge", "thread", "deposit", "stop",
              "unfreeze", "away", "claim", "hold", "settle"}
Apart == {"unfreeze", "away", "claim", "hold", "settle", "resume"}
Handed == Apart \cup {"stop"}
Quiet == Handed \cup {"drain", "purge", "thread", "deposit"}

\* Requests on their way to OCF in the steps of the command.  A deferred
\* request whose priv_top was freed does not get there (it is a fault).
Routes ==
    /\ cmd \in Undirtied => noDirty
    /\ mode = "pt" <=> cmd \in Bypassing
    /\ cmd \in Quiet => \A b \in Bios : pc[b] # "handler"
    /\ cmd \in {"settle", "resume"} => frozen
    /\ cmd = "resume" => \A b \in Bios : pc[b] # "entered"
    /\ cmd \in Handed =>
          \A b \in Bios : pc[b] \in {"deferred", "flushing"} => b \in freed
    /\ cmd \in Apart => \A b \in Bios : pc[b] \notin {"ocf", "fill", "flushing"}
    /\ ~running => cmd \in {"unfreeze", "away"}

Steps == TypeOK /\ Routes

\* Dirty data are flushed before requests pass the cache by; a write that is
\* still under way at the disk when the cache has newer data was overtaken.
Data ==
    /\ way # "no flush"
    /\ cmd \notin {"idle", "flush"} => line # "dirty"
    /\ line = "dirty" =>
          cacheCur /\ \A b \in Bios : pc[b] \in {"direct", "disk"} => excused[b]
    /\ \A b \in Bios : pc[b] = "fill" => line # "dirty"
    /\ LastWriteKept

-----------------------------------------------------------------------------
LEMMA InitSteps == Init => Steps
  BY ZenonT(60) DEF Init, Steps, TypeOK, Routes, Undirtied, Bypassing, Apart, Handed,
     Quiet, InOcf

\* A move of a request that keeps to the routes.
MayMove(b, l) ==
    /\ l = "entered" => ~frozen
    /\ l = "handler" => pc[b] = "entered" /\ mode = "default"
    /\ l = "deferred" => pc[b] = "handler" \/ (pc[b] = "flushing" /\ b \notin freed)
    /\ l \in {"flushing", "ocf"} =>
          pc[b] = "handler" \/ (pc[b] = "deferred" /\ b \notin freed)
    /\ l = "fill" => pc[b] = "ocf"

DataTyped ==
    /\ kind \in [Bios -> {"read", "write", "flush"}]
    /\ fill \in [Bios -> BOOLEAN]
    /\ excused \in [Bios -> BOOLEAN]
    /\ line \in {"none", "clean", "dirty"}
    /\ coreCur \in BOOLEAN /\ cacheCur \in BOOLEAN /\ stale \in BOOLEAN /\ fault \in BOOLEAN
    /\ missed \in BOOLEAN /\ behind \in BOOLEAN

LEMMA DataIsTyped == TypeOK => DataTyped
  BY Zenon DEF TypeOK, DataTyped

LEMMA MoveKeeps ==
  ASSUME Steps, NEW b \in Bios, NEW l \in Places, Move(b, l), MayMove(b, l),
         UNCHANGED <<cmdVars, mode, frozen, freed>>, DataTyped'
  PROVE  Steps'
<1> USE DEF Steps
<1>1. /\ pc \in [Bios -> Places] /\ pc' \in [Bios -> Places] /\ pc'[b] = l
      /\ \A x \in Bios \ {b} : pc'[x] = pc[x]
  BY Zenon DEF TypeOK, Move, Places
<1>2. UNCHANGED <<cmd, way, noDirty, running, mode, frozen, freed>>
  BY DEF cmdVars
<1>3. cmd \in Quiet => l # "handler"
  BY <1>2 DEF Routes, MayMove, Quiet, Handed, Apart, Bypassing
<1>4. Routes'
  <2>1. ASSUME cmd \in Quiet PROVE \A x \in Bios : pc'[x] # "handler"
    BY <1>1, <1>3, <2>1 DEF Routes
  <2>2. ASSUME cmd = "resume" PROVE frozen /\ \A x \in Bios : pc'[x] # "entered"
    BY <1>1, <2>2 DEF Routes, MayMove
  <2>3. ASSUME cmd \in Handed, NEW x \in Bios, pc'[x] \in {"deferred", "flushing"}
        PROVE  x \in freed
    BY <1>1, <2>3 DEF Routes, MayMove, Quiet
  <2>4. ASSUME cmd \in Apart, NEW x \in Bios
        PROVE  pc'[x] \notin {"ocf", "fill", "flushing"}
    BY <1>1, <2>4 DEF Routes, MayMove, Quiet, Handed
  <2> QED  BY <1>2, <2>1, <2>2, <2>3, <2>4 DEF Routes
<1>5. running \/ InOcf' = {}
  <2> SUFFICES ASSUME ~running PROVE InOcf' = {}
    OBVIOUS
  <2>1. cmd' \in Apart
    BY <1>2 DEF Routes, Apart
  <2> QED  BY <1>4, <2>1 DEF Routes, InOcf
<1>6. TypeOK'
  <2>1. (frozen \in BOOLEAN /\ noDirty \in BOOLEAN /\ running \in BOOLEAN)'
    BY <1>2, Zenon DEF TypeOK
  <2>2. {frozen, coreCur, cacheCur, noDirty, running, stale, missed, behind,
       fault}' \subseteq BOOLEAN
    BY <2>1 DEF DataTyped
  <2>3. (running \/ InOcf = {})'
    BY <1>2, <1>5
  <2> QED  BY <1>1, <1>2, <2>2, <2>3, ZenonT(60) DEF TypeOK, DataTyped, Places
<1> QED  BY <1>4, <1>6

\* A request that stays where it is.
LEMMA StayKeeps ==
  ASSUME Steps, UNCHANGED <<pc, cmdVars, mode, frozen, freed>>, DataTyped'
  PROVE  Steps'
<1> USE DEF Steps
<1>1. UNCHANGED <<pc, cmd, way, noDirty, running, mode, frozen, freed>>
  BY DEF cmdVars
<1>2. Routes'
  BY <1>1 DEF Routes
<1>3. (frozen \in BOOLEAN /\ noDirty \in BOOLEAN /\ running \in BOOLEAN)'
  BY <1>1, Zenon DEF TypeOK
<1>4. {frozen, coreCur, cacheCur, noDirty, running, stale, missed, behind,
       fault}' \subseteq BOOLEAN
  BY <1>3 DEF DataTyped
<1>5. (running \/ InOcf = {})'
  BY <1>1, Zenon DEF TypeOK, InOcf
<1>6. TypeOK'
  BY <1>1, <1>4, <1>5, ZenonT(60) DEF TypeOK, DataTyped
<1> QED  BY <1>2, <1>6

-----------------------------------------------------------------------------
(* The steps of a request. *)

LEMMA ProceedSteps ==
  ASSUME Steps, NEW b \in Bios, Proceed(b)
  PROVE  Steps'
<1> USE DEF Steps
<1>t. DataTyped /\ frozen \in BOOLEAN /\ mode \in {"default", "pt"}
  BY DataIsTyped, Zenon DEF TypeOK
<1>1. CASE Enter(b)
  <2>1. DataTyped'
    BY <1>1, <1>t DEF Enter, DataTyped, dataVars
  <2> QED  BY <1>1, <2>1, MoveKeeps DEF Enter, MayMove, Places
<1>2. CASE Route(b)
  <2>1. DataTyped'
    BY <1>2, <1>t DEF Route, DataTyped, dataVars
  <2>2. CASE mode = "default"
    BY <1>2, <2>1, <2>2, MoveKeeps DEF Route, At, MayMove, Places
  <2>3. CASE mode = "pt"
    BY <1>2, <2>1, <2>3, MoveKeeps DEF Route, MayMove, Places
  <2> QED  BY <1>t, <2>2, <2>3
<1>3. CASE SubmitBio(b)
  <2>1. DataTyped'
    BY <1>3, <1>t DEF SubmitBio, DataTyped, dataVars
  <2>2. PICK l \in {"flushing", "ocf", "deferred", "idle"} : Move(b, l)
    BY <1>3 DEF SubmitBio, HandledAs
  <2>3. pc[b] = "handler"
    BY <1>3 DEF SubmitBio, At
  <2>4. l \in Places /\ MayMove(b, l)
    BY <2>2, <2>3 DEF MayMove, Places
  <2> QED  BY <1>3, <2>1, <2>2, <2>4, MoveKeeps DEF SubmitBio
<1>4. CASE DeferBioWork(b)
  <2>1. DataTyped'
    BY <1>4, <1>t, Zenon DEF DeferBioWork, DataTyped, dataVars
  <2>2. CASE b \notin freed
    <3>1. PICK l \in {"flushing", "ocf"} : Move(b, l)
      BY <1>4, <2>2 DEF DeferBioWork, HandledAs
    <3> QED  BY <1>4, <2>1, <2>2, <3>1, MoveKeeps DEF DeferBioWork, At, MayMove, Places
  <2>3. CASE b \in freed
    BY <1>4, <2>1, <2>3, StayKeeps DEF DeferBioWork
  <2> QED  BY <2>2, <2>3
<1>5. CASE CompleteFlush(b)
  <2>1. DataTyped'
    BY <1>5, <1>t, Zenon DEF CompleteFlush, DataTyped, dataVars
  <2>2. CASE UNCHANGED pc
    BY <1>5, <2>1, <2>2, StayKeeps DEF CompleteFlush
  <2>3. CASE Move(b, "idle")
    BY <1>5, <2>1, <2>3, MoveKeeps DEF CompleteFlush, MayMove, Places
  <2>4. CASE b \notin freed /\ Move(b, "deferred")
    BY <1>5, <2>1, <2>4, MoveKeeps DEF CompleteFlush, At, MayMove, Places
  <2> QED  BY <1>5, <2>2, <2>3, <2>4 DEF CompleteFlush
<1>6. ASSUME CoreAccess(b), UNCHANGED <<kind, fault, behind>> PROVE DataTyped'
  BY <1>6, <1>t, Zenon DEF CoreAccess, Reads, WriteTakesEffect, DataTyped
<1>7. CASE SubmitBioPt(b)
  <2>1. DataTyped'
    BY <1>6, <1>7, <1>t DEF SubmitBioPt, DataTyped, dataVars
  <2>2. PICK l \in {"idle", "disk"} : Move(b, l)
    BY <1>7 DEF SubmitBioPt
  <2> QED  BY <1>7, <2>1, <2>2, MoveKeeps DEF SubmitBioPt, MayMove, Places
<1>8. CASE DiskDone(b)
  BY <1>6, <1>8, MoveKeeps DEF DiskDone, MayMove, Places
<1>9. CASE OcfReadHit(b)
  <2>1. DataTyped'
    BY <1>9, <1>t DEF OcfReadHit, Reads, DataTyped
  <2> QED  BY <1>9, <2>1, MoveKeeps DEF OcfReadHit, MayMove, Places
<1>10. CASE OcfReadMiss(b)
  <2>1. DataTyped'
    BY <1>10, <1>t DEF OcfReadMiss, Reads, DataTyped
  <2> QED  BY <1>10, <2>1, MoveKeeps DEF OcfReadMiss, At, MayMove, Places
<1>11. CASE OcfFill(b)
  <2>1. DataTyped'
    BY <1>11, <1>t DEF OcfFill, DataTyped
  <2> QED  BY <1>11, <2>1, MoveKeeps DEF OcfFill, MayMove, Places
<1>12. CASE OcfWrite(b)
  <2>1. DataTyped'
    BY <1>12, <1>t, Zenon DEF OcfWrite, WriteTakesEffect, DataTyped, TypeOK
  <2> QED  BY <1>12, <2>1, MoveKeeps DEF OcfWrite, MayMove, Places
<1> QED  BY <1>1, <1>2, <1>3, <1>4, <1>5, <1>7, <1>8, <1>9, <1>10, <1>11, <1>12
            DEF Proceed

LEMMA SubmitSteps ==
  ASSUME Steps, NEW b \in Bios, Submit(b)
  PROVE  Steps'
<1> USE DEF Steps
<1>1. DataTyped'
  BY DataIsTyped DEF Submit, DataTyped, dataVars
<1> QED  BY <1>1, MoveKeeps DEF Submit, MayMove, Places
-----------------------------------------------------------------------------
(* The steps of the command and of the cache by itself. *)

Commands == {"idle", "flush", "lock", "set pt", "freeze", "quiesce", "drain",
             "purge", "thread", "undo", "deposit", "stop", "unfreeze", "away",
             "claim", "hold", "settle", "resume"}

CommandTyped ==
    /\ cmd \in Commands /\ way \in {"default", "no flush", "pass through"}
    /\ mode \in {"default", "pt"} /\ freed \subseteq Bios
    /\ frozen \in BOOLEAN /\ noDirty \in BOOLEAN /\ running \in BOOLEAN

LEMMA CommandIsTyped == TypeOK => CommandTyped
  BY Zenon DEF TypeOK, CommandTyped, Commands

LEMMA CommandKeeps ==
  ASSUME Steps, UNCHANGED pc, DataTyped', CommandTyped', Routes'
  PROVE  Steps'
<1> USE DEF Steps
<1>1. {frozen, coreCur, cacheCur, noDirty, running, stale, missed, behind,
       fault}' \subseteq BOOLEAN
  BY Zenon DEF DataTyped, CommandTyped
<1>2. (running \/ InOcf = {})'
  <2> SUFFICES ASSUME ~running' PROVE InOcf' = {}
    OBVIOUS
  <2>1. cmd' \in Apart
    BY DEF Routes, Apart
  <2> QED  BY <2>1 DEF Routes, InOcf
<1>3. TypeOK'
  BY <1>1, <1>2, Zenon DEF TypeOK, DataTyped, CommandTyped, Commands
<1> QED  BY <1>3

LEMMA CommandSteps ==
  ASSUME Steps, Continue \/ Load \/ OcfClean \/ OcfEvict \/ \E w \in Ways : Disconnect(w)
  PROVE  Steps'
<1> USE DEF Steps
<1> USE DEF Step, bioVars, dataVars
<1>t. DataTyped /\ CommandTyped
  BY DataIsTyped, CommandIsTyped
<1>0. CASE \E w \in Ways : Disconnect(w)
  <2>1. DataTyped' /\ UNCHANGED pc
    BY <1>0, <1>t, ZenonT(60) DEF Disconnect, DataTyped
  <2>a. CommandTyped'
    BY <1>0, <1>t, WaysAssumption, ZenonT(60) DEF Disconnect, CommandTyped, Commands
  <2>2. Routes'
    <3>1. /\ cmd = "idle" /\ cmd' \in {"lock", "flush"} /\ noDirty'
          /\ UNCHANGED <<pc, running, mode, frozen, freed>>
      BY <1>0, Zenon DEF Disconnect
    <3> QED  BY <3>1 DEF Routes, Undirtied, Bypassing, Apart, Handed, Quiet
  <2> QED  BY <2>1, <2>a, <2>2, CommandKeeps
<1>1. CASE Flush
  <2>1. DataTyped' /\ UNCHANGED pc
    BY <1>1, <1>t, ZenonT(60) DEF Flush, Cleaned, DataTyped
  <2>a. CommandTyped'
    BY <1>1, <1>t, ZenonT(60) DEF Flush, Cleaned, CommandTyped, Commands
  <2>2. Routes'
    BY <1>1, <1>t, Zenon DEF Flush, Cleaned, CommandTyped, Routes, Undirtied,
       Bypassing, Apart, Handed, Quiet
  <2> QED  BY <2>1, <2>a, <2>2, CommandKeeps
<1>2. CASE Lock
  <2>1. DataTyped' /\ UNCHANGED pc
    BY <1>2, <1>t, ZenonT(60) DEF Lock, DataTyped
  <2>a. CommandTyped'
    BY <1>2, <1>t, ZenonT(60) DEF Lock, CommandTyped, Commands
  <2>2. Routes'
    BY <1>2, <1>t, Zenon DEF Lock, CommandTyped, Routes, Undirtied, Bypassing, Apart,
       Handed, Quiet
  <2> QED  BY <2>1, <2>a, <2>2, CommandKeeps
<1>3. CASE GiveUp
  <2>1. DataTyped' /\ UNCHANGED pc
    BY <1>3, <1>t, ZenonT(60) DEF GiveUp, DataTyped
  <2>a. CommandTyped'
    BY <1>3, <1>t, ZenonT(60) DEF GiveUp, CommandTyped, Commands
  <2>2. Routes'
    BY <1>3, <1>t, Zenon DEF GiveUp, CommandTyped, Routes, Undirtied, Bypassing,
       Apart, Handed, Quiet
  <2> QED  BY <2>1, <2>a, <2>2, CommandKeeps
<1>4. CASE SetPassThrough
  <2>1. DataTyped' /\ UNCHANGED pc
    BY <1>4, <1>t, ZenonT(60) DEF SetPassThrough, DataTyped
  <2>a. CommandTyped'
    BY <1>4, <1>t, ZenonT(60) DEF SetPassThrough, CommandTyped, Commands
  <2>2. Routes'
    BY <1>4, <1>t, Zenon DEF SetPassThrough, CommandTyped, Routes, Undirtied,
       Bypassing, Apart, Handed, Quiet
  <2> QED  BY <2>1, <2>a, <2>2, CommandKeeps
<1>5. CASE Freeze
  <2>1. DataTyped' /\ UNCHANGED pc
    BY <1>5, <1>t, ZenonT(60) DEF Freeze, DataTyped
  <2>a. CommandTyped'
    BY <1>5, <1>t, ZenonT(60) DEF Freeze, CommandTyped, Commands
  <2>2. Routes'
    BY <1>5, <1>t, Zenon DEF Freeze, CommandTyped, Routes, Undirtied, Bypassing,
       Apart, Handed, Quiet
  <2> QED  BY <2>1, <2>a, <2>2, CommandKeeps
<1>6. CASE Quiesce
  <2>1. DataTyped' /\ UNCHANGED pc
    BY <1>6, <1>t, ZenonT(60) DEF Quiesce, DataTyped
  <2>a. CommandTyped'
    BY <1>6, <1>t, ZenonT(60) DEF Quiesce, CommandTyped, Commands
  <2>2. Routes'
    BY <1>6, <1>t, Zenon DEF Quiesce, Submitting, CommandTyped, Routes, Undirtied,
       Bypassing, Apart, Handed, Quiet
  <2> QED  BY <2>1, <2>a, <2>2, CommandKeeps
<1>7. CASE Drain
  <2>1. DataTyped' /\ UNCHANGED pc
    BY <1>7, <1>t, ZenonT(60) DEF Drain, DataTyped
  <2>a. CommandTyped'
    BY <1>7, <1>t, ZenonT(60) DEF Drain, CommandTyped, Commands
  <2>2. Routes'
    BY <1>7, <1>t, Zenon DEF Drain, InOcf, CommandTyped, Routes, Undirtied, Bypassing,
       Apart, Handed, Quiet
  <2> QED  BY <2>1, <2>a, <2>2, CommandKeeps
<1>8. CASE Purge
  <2>1. DataTyped' /\ UNCHANGED pc
    BY <1>8, <1>t, ZenonT(60) DEF Purge, DataTyped
  <2>a. CommandTyped'
    BY <1>8, <1>t, ZenonT(60) DEF Purge, CommandTyped, Commands
  <2>2. Routes'
    BY <1>8, <1>t, Zenon DEF Purge, CommandTyped, Routes, Undirtied, Bypassing, Apart,
       Handed, Quiet
  <2> QED  BY <2>1, <2>a, <2>2, CommandKeeps
<1>9. CASE CreateThread
  <2>1. DataTyped' /\ UNCHANGED pc
    BY <1>9, <1>t, ZenonT(60) DEF CreateThread, DataTyped
  <2>a. CommandTyped'
    BY <1>9, <1>t, ZenonT(60) DEF CreateThread, CommandTyped, Commands
  <2>2. Routes'
    BY <1>9, <1>t, Zenon DEF CreateThread, CommandTyped, Routes, Undirtied, Bypassing,
       Apart, Handed, Quiet
  <2> QED  BY <2>1, <2>a, <2>2, CommandKeeps
<1>10. CASE ClearPassThrough
  <2>1. DataTyped' /\ UNCHANGED pc
    BY <1>10, <1>t, ZenonT(60) DEF ClearPassThrough, UseCache, DataTyped
  <2>a. CommandTyped'
    BY <1>10, <1>t, ZenonT(60) DEF ClearPassThrough, UseCache, CommandTyped, Commands
  <2>2. Routes'
    BY <1>10, <1>t, Zenon DEF ClearPassThrough, UseCache, CommandTyped, Routes, Undirtied,
       Bypassing, Apart, Handed, Quiet
  <2> QED  BY <2>1, <2>a, <2>2, CommandKeeps
<1>11. CASE Undo
  <2>1. DataTyped' /\ UNCHANGED pc
    BY <1>11, <1>t, ZenonT(60) DEF Undo, DataTyped
  <2>a. CommandTyped'
    BY <1>11, <1>t, ZenonT(60) DEF Undo, CommandTyped, Commands
  <2>2. Routes'
    BY <1>11, <1>t, Zenon DEF Undo, CommandTyped, Routes, Undirtied, Bypassing, Apart,
       Handed, Quiet
  <2> QED  BY <2>1, <2>a, <2>2, CommandKeeps
<1>12. CASE Deposit
  <2>1. DataTyped' /\ UNCHANGED pc
    BY <1>12, <1>t, ZenonT(60) DEF Deposit, DataTyped
  <2>a. CommandTyped'
    BY <1>12, <1>t, ZenonT(60) DEF Deposit, CommandTyped, Commands
  <2>2. Routes'
    BY <1>12, <1>t, Zenon DEF Deposit, CommandTyped, Routes, Undirtied, Bypassing,
       Apart, Handed, Quiet
  <2> QED  BY <2>1, <2>a, <2>2, CommandKeeps
<1>13. CASE CacheStop
  <2>1. DataTyped' /\ UNCHANGED pc
    BY <1>13, <1>t, ZenonT(60) DEF CacheStop, DataTyped
  <2>a. CommandTyped'
    BY <1>13, <1>t, ZenonT(60) DEF CacheStop, CommandTyped, Commands
  <2>2. Routes'
    BY <1>13, <1>t, Zenon DEF CacheStop, InOcf, CommandTyped, Routes, Undirtied,
       Bypassing, Apart, Handed, Quiet
  <2> QED  BY <2>1, <2>a, <2>2, CommandKeeps
<1>14. CASE Unfreeze
  <2>1. DataTyped' /\ UNCHANGED pc
    BY <1>14, <1>t, ZenonT(60) DEF Unfreeze, DataTyped
  <2>a. CommandTyped'
    BY <1>14, <1>t, ZenonT(60) DEF Unfreeze, CommandTyped, Commands
  <2>2. Routes'
    BY <1>14, <1>t, Zenon DEF Unfreeze, CommandTyped, Routes, Undirtied, Bypassing,
       Apart, Handed, Quiet
  <2> QED  BY <2>1, <2>a, <2>2, CommandKeeps
<1>15. CASE Claim
  <2>1. DataTyped' /\ UNCHANGED pc
    BY <1>15, <1>t DEF Claim, DataTyped
  <2>a. CommandTyped'
    BY <1>15, <1>t, Zenon DEF Claim, CommandTyped, Commands
  <2>2. Routes'
    BY <1>15, <1>t, Zenon DEF Claim, CommandTyped, Routes, Undirtied, Bypassing,
       Apart, Handed, Quiet
  <2> QED  BY <2>1, <2>a, <2>2, CommandKeeps
<1>16. CASE Hold
  <2>1. DataTyped' /\ UNCHANGED pc
    BY <1>16, <1>t, ZenonT(60) DEF Hold, DataTyped
  <2>a. CommandTyped'
    BY <1>16, <1>t, ZenonT(60) DEF Hold, CommandTyped, Commands
  <2>2. Routes'
    BY <1>16, <1>t, Zenon DEF Hold, CommandTyped, Routes, Undirtied, Bypassing, Apart,
       Handed, Quiet
  <2> QED  BY <2>1, <2>a, <2>2, CommandKeeps
<1>17. CASE Reroute
  <2>1. DataTyped' /\ UNCHANGED pc
    BY <1>17, <1>t, ZenonT(60) DEF Reroute, UseCache, DataTyped
  <2>a. CommandTyped'
    BY <1>17, <1>t, ZenonT(60) DEF Reroute, UseCache, CommandTyped, Commands
  <2>2. Routes'
    BY <1>17, <1>t, Zenon DEF Reroute, UseCache, Submitting, CommandTyped, Routes, Undirtied,
       Bypassing, Apart, Handed, Quiet
  <2> QED  BY <2>1, <2>a, <2>2, CommandKeeps
<1>18. CASE Resume
  <2>1. DataTyped' /\ UNCHANGED pc
    BY <1>18, <1>t, ZenonT(60) DEF Resume, DataTyped
  <2>a. CommandTyped'
    BY <1>18, <1>t, ZenonT(60) DEF Resume, CommandTyped, Commands
  <2>2. Routes'
    BY <1>18, <1>t, Zenon DEF Resume, CommandTyped, Routes, Undirtied, Bypassing,
       Apart, Handed, Quiet
  <2> QED  BY <2>1, <2>a, <2>2, CommandKeeps
<1>19. CASE Load
  <2>1. DataTyped' /\ UNCHANGED pc
    BY <1>19, <1>t, ZenonT(60) DEF Load, DataTyped
  <2>a. CommandTyped'
    BY <1>19, <1>t, ZenonT(60) DEF Load, CommandTyped, Commands
  <2>2. Routes'
    BY <1>19, <1>t, Zenon DEF Load, CommandTyped, Routes, Undirtied, Bypassing, Apart,
       Handed, Quiet
  <2> QED  BY <2>1, <2>a, <2>2, CommandKeeps
<1>20. CASE OcfClean
  <2>1. DataTyped' /\ UNCHANGED pc
    BY <1>20, <1>t, ZenonT(60) DEF OcfClean, Cleaned, DataTyped
  <2>a. CommandTyped'
    BY <1>20, <1>t, ZenonT(60) DEF OcfClean, cmdVars, CommandTyped, Commands
  <2>2. Routes'
    BY <1>20, <1>t, Zenon DEF OcfClean, Cleaned, cmdVars, CommandTyped, Routes,
       Undirtied, Bypassing, Apart, Handed, Quiet
  <2> QED  BY <2>1, <2>a, <2>2, CommandKeeps
<1>21. CASE OcfEvict
  <2>1. DataTyped' /\ UNCHANGED pc
    BY <1>21, <1>t DEF OcfEvict, cmdVars, DataTyped
  <2>a. CommandTyped'
    BY <1>21, <1>t, ZenonT(60) DEF OcfEvict, cmdVars, CommandTyped, Commands
  <2>2. Routes'
    BY <1>21, <1>t, ZenonT(60) DEF OcfEvict, cmdVars, CommandTyped, Routes, Undirtied,
       Bypassing, Apart, Handed, Quiet
  <2> QED  BY <2>1, <2>a, <2>2, CommandKeeps
<1> QED  BY <1>0, <1>1, <1>2, <1>3, <1>4, <1>5, <1>6, <1>7, <1>8, <1>9, <1>10, <1>11,
            <1>12, <1>13, <1>14, <1>15, <1>16, <1>17, <1>18, <1>19, <1>20, <1>21
            DEF Continue

LEMMA NextSteps ==
  ASSUME Steps, [Next]_vars
  PROVE  Steps'
<1>1. CASE UNCHANGED vars
  <2>1. DataTyped'
    BY <1>1, DataIsTyped DEF Steps, vars, bioVars, dataVars, DataTyped
  <2> QED  BY <1>1, <2>1, StayKeeps DEF vars, bioVars
<1>2. CASE \E b \in Bios : Submit(b)
  BY <1>2, SubmitSteps
<1>3. CASE \E b \in Bios : Proceed(b)
  BY <1>3, ProceedSteps
<1>4. CASE Continue \/ Load \/ OcfClean \/ OcfEvict \/ \E w \in Ways : Disconnect(w)
  BY <1>4, CommandSteps
<1> QED  BY <1>1, <1>2, <1>3, <1>4 DEF Next

\* For any number of requests and all ways to disconnect, failures included:
\* no dirty data appear from the beginning of a disconnect to the stop of the
\* cache, requests pass the cache by exactly from the switch to the reroute,
\* and none is inside OCF while the cache is away.
THEOREM StepsInvariant == Spec => []Steps
<1>1. Steps /\ [Next]_vars => Steps'
  BY NextSteps
<1> QED  BY <1>1, InitSteps, PTL DEF Spec

\* The variables keep their types, and requests are inside OCF only while the
\* cache runs.
THEOREM TypeCorrect == Spec => []TypeOK
<1>1. Steps => TypeOK
  BY DEF Steps
<1> QED  BY <1>1, StepsInvariant, PTL

-----------------------------------------------------------------------------
(* The last write. *)

LEMMA InitData == Init => Data
  BY DEF Init, Data, LastWriteKept

\* A move of a request that leaves the data alone.
LEMMA MoveData ==
  ASSUME Steps, Data, NEW b \in Bios, NEW l \in Places \ {"fill"}, Move(b, l),
         l = "direct" => mode = "pt", l = "disk" => pc[b] = "direct",
         UNCHANGED <<excused, line, coreCur, cacheCur, cmd, way>>
  PROVE  Data'
<1>1. /\ pc'[b] = l /\ \A x \in Bios \ {b} : pc'[x] = pc[x]
  BY Zenon DEF Steps, TypeOK, Move
<1>2. l = "direct" => line # "dirty"
  BY ZenonT(60) DEF Steps, Routes, Data, Bypassing
<1>3. ASSUME line = "dirty", NEW x \in Bios, pc'[x] \in {"direct", "disk"} PROVE excused[x]
  BY <1>1, <1>2, <1>3, ZenonT(60) DEF Data
<1>4. ASSUME NEW x \in Bios, pc'[x] = "fill" PROVE line # "dirty"
  BY <1>1, <1>4, Zenon DEF Data
<1> QED  BY <1>3, <1>4, Zenon DEF Data, LastWriteKept

\* A write at the core: the cache has newer data only where it was overtaken.
LEMMA CoreAccessData ==
  ASSUME Steps, Data, NEW b \in Bios, pc[b] \in {"direct", "disk"}, Move(b, "idle"),
         CoreAccess(b), UNCHANGED <<cmd, way>>
  PROVE  Data'
<1>1. /\ pc'[b] = "idle" /\ \A x \in Bios \ {b} : pc'[x] = pc[x]
  BY Zenon DEF Steps, TypeOK, Move
<1>2. CASE kind[b] = "read"
  BY <1>2, MoveData DEF CoreAccess, Places
<1>3. CASE kind[b] # "read"
  <2>1. /\ excused' = [x \in Bios |-> TRUE] /\ coreCur' = TRUE
        /\ cacheCur' = (cacheCur /\ excused[b]) /\ line' = line
    BY <1>3 DEF CoreAccess, WriteTakesEffect
  <2>2. line = "dirty" => cacheCur /\ excused[b]
    BY Zenon DEF Data
  <2>3. ASSUME NEW x \in Bios, pc'[x] = "fill" PROVE line # "dirty"
    BY <1>1, <2>3, Zenon DEF Data
  <2> QED  BY <2>1, <2>2, <2>3, ZenonT(60) DEF Data, LastWriteKept
<1> QED  BY <1>2, <1>3

\* Nothing the invariant speaks of changes.
LEMMA SameData ==
  ASSUME Data, UNCHANGED <<pc, excused, line, coreCur, cacheCur, cmd, way>>
  PROVE  Data'
  BY Zenon DEF Data, LastWriteKept

LEMMA SubmitData ==
  ASSUME Steps, Data, NEW b \in Bios, Submit(b)
  PROVE  Data'
<1>1. /\ pc'[b] = "waiting" /\ \A x \in Bios \ {b} : pc'[x] = pc[x]
  BY Zenon DEF Steps, TypeOK, Submit, Move
<1>2. /\ \A x \in Bios \ {b} : excused'[x] = excused[x]
      /\ UNCHANGED <<line, coreCur, cacheCur, cmd, way>>
  BY Zenon DEF Steps, TypeOK, Submit, dataVars, cmdVars
<1>3. ASSUME line = "dirty", NEW x \in Bios, pc'[x] \in {"direct", "disk"} PROVE excused'[x]
  BY <1>1, <1>2, <1>3, Zenon DEF Data
<1>4. ASSUME NEW x \in Bios, pc'[x] = "fill" PROVE line # "dirty"
  BY <1>1, <1>4, Zenon DEF Data
<1> QED  BY <1>2, <1>3, <1>4, Zenon DEF Data, LastWriteKept

\* OCF: only a write makes a line dirty, and then everything under way was
\* overtaken by it.
LEMMA OcfData ==
  ASSUME Steps, Data, NEW b \in Bios,
         OcfReadHit(b) \/ OcfReadMiss(b) \/ OcfFill(b) \/ OcfWrite(b)
  PROVE  Data'
<1>m. ASSUME NEW l, Move(b, l)
      PROVE  pc'[b] = l /\ \A x \in Bios \ {b} : pc'[x] = pc[x]
  BY <1>m, ZenonT(60) DEF Steps, TypeOK, Move
<1>1. CASE OcfReadHit(b)
  BY <1>1, MoveData, SMTT(30) DEF OcfReadHit, Places, cmdVars
<1>2. CASE OcfReadMiss(b)
  <2>1. /\ line = "none" /\ Move(b, "fill")
        /\ UNCHANGED <<excused, line, coreCur, cacheCur, cmd, way>>
    BY <1>2, SMTT(30) DEF OcfReadMiss, cmdVars
  <2> QED  BY <2>1, Zenon DEF Data, LastWriteKept
<1>3. CASE OcfFill(b)
  <2>1. /\ pc[b] = "fill" /\ line' = "clean" /\ UNCHANGED <<coreCur, cmd, way>>
    BY <1>3, ZenonT(60) DEF OcfFill, At, cmdVars
  <2>2. coreCur
    BY <2>1, ZenonT(60) DEF Data, LastWriteKept
  <2> QED  BY <2>1, <2>2, ZenonT(60) DEF Data, LastWriteKept
<1>4. CASE OcfWrite(b)
  <2>1. /\ pc[b] = "ocf" /\ Move(b, "idle") /\ \A x \in Bios : pc[x] # "fill"
        /\ line' = (IF noDirty THEN "clean" ELSE "dirty") /\ coreCur' = noDirty
        /\ cacheCur' = TRUE /\ excused' = [x \in Bios |-> TRUE]
        /\ UNCHANGED <<cmd, way>>
    BY <1>4, SMTT(30) DEF OcfWrite, At, WriteTakesEffect, cmdVars
  <2>2. \A x \in Bios : pc'[x] # "fill"
    BY <1>m, <2>1
  <2>3. cmd \notin {"idle", "flush"} => cmd \in Undirtied
    BY <2>1, Zenon DEF Steps, TypeOK, Routes, Undirtied, Apart
  <2>4. cmd \notin {"idle", "flush"} => line' # "dirty"
    BY <2>1, <2>3 DEF Steps, Routes
  <2> QED  BY <2>1, <2>2, <2>4, ZenonT(60) DEF Data, LastWriteKept, Steps, TypeOK
<1> QED  BY <1>1, <1>2, <1>3, <1>4

LEMMA ProceedData ==
  ASSUME Steps, Data, NEW b \in Bios, Proceed(b)
  PROVE  Data'
<1> USE DEF dataVars, cmdVars
<1>1. CASE Enter(b)
  BY <1>1, MoveData DEF Enter, Places
<1>2. CASE Route(b)
  <2>1. CASE mode = "default"
    BY <1>2, <2>1, MoveData DEF Route, Places
  <2>2. CASE mode = "pt"
    BY <1>2, <2>2, MoveData DEF Route, Places
  <2> QED  BY <2>1, <2>2, Zenon DEF Steps, TypeOK
<1>3. CASE SubmitBio(b)
  <2>1. PICK l \in {"flushing", "ocf", "deferred", "idle"} : Move(b, l)
    BY <1>3 DEF SubmitBio, HandledAs
  <2> QED  BY <1>3, <2>1, MoveData DEF SubmitBio, Places
<1>4. CASE DeferBioWork(b)
  <2>1. CASE UNCHANGED pc
    BY <1>4, <2>1, SameData DEF DeferBioWork
  <2>2. ASSUME NEW l \in {"flushing", "ocf"}, Move(b, l) PROVE Data'
    BY <1>4, <2>2, MoveData DEF DeferBioWork, Places
  <2> QED  BY <1>4, <2>1, <2>2 DEF DeferBioWork, HandledAs
<1>5. CASE CompleteFlush(b)
  <2>1. CASE UNCHANGED pc
    BY <1>5, <2>1, SameData DEF CompleteFlush
  <2>2. ASSUME NEW l \in {"idle", "deferred"}, Move(b, l) PROVE Data'
    BY <1>5, <2>2, MoveData DEF CompleteFlush, Places
  <2> QED  BY <1>5, <2>1, <2>2 DEF CompleteFlush
<1>6. CASE SubmitBioPt(b)
  <2>1. CASE CoreAccess(b) /\ Move(b, "idle")
    BY <1>6, <2>1, CoreAccessData DEF SubmitBioPt, At
  <2>2. CASE Move(b, "disk") /\ UNCHANGED <<fill, excused, dataVars>>
    BY <1>6, <2>2, MoveData DEF SubmitBioPt, At, Places
  <2> QED  BY <1>6, <2>1, <2>2 DEF SubmitBioPt
<1>7. CASE DiskDone(b)
  BY <1>7, CoreAccessData DEF DiskDone, At
<1>8. CASE OcfReadHit(b) \/ OcfReadMiss(b) \/ OcfFill(b) \/ OcfWrite(b)
  BY <1>8, OcfData
<1> QED  BY <1>1, <1>2, <1>3, <1>4, <1>5, <1>6, <1>7, <1>8 DEF Proceed

\* Cleaning copies the last write.
LEMMA CleanedData ==
  ASSUME Data, Cleaned, UNCHANGED <<pc, excused, way>>
  PROVE  Data'
<1>1. line' # "dirty" /\ coreCur'
  BY Zenon DEF Data, Cleaned, LastWriteKept
<1> QED  BY <1>1, Zenon DEF Data, LastWriteKept

\* The command takes a line away only when it is clean, and enters a step in
\* which requests may pass by only when there is nothing dirty.
LEMMA CommandData ==
  ASSUME Steps, Data, "no flush" \notin Ways,
         Continue \/ Load \/ OcfClean \/ OcfEvict \/ \E w \in Ways : Disconnect(w)
  PROVE  Data'
<1> USE DEF Step, bioVars, dataVars, cmdVars
<1>u. ASSUME UNCHANGED <<pc, excused, line, coreCur, cacheCur, way>>,
             cmd' \in {"idle", "flush"} \/ cmd \notin {"idle", "flush"}
      PROVE  Data'
  BY <1>u, Zenon DEF Data, LastWriteKept
<1>n. ASSUME UNCHANGED <<pc, excused, coreCur, way>>, line # "dirty", line' = "none"
      PROVE  Data'
  BY <1>n, Zenon DEF Data, LastWriteKept
<1>1. CASE \E w \in Ways : Disconnect(w)
  <2>1. /\ UNCHANGED <<pc, excused, line, coreCur, cacheCur>>
        /\ way' # "no flush" /\ cmd' = "flush"
    BY <1>1, Zenon DEF Disconnect
  <2> QED  BY <2>1, Zenon DEF Data, LastWriteKept
<1>2. CASE Flush \/ OcfClean
  BY <1>2, CleanedData, Zenon DEF Flush, OcfClean
<1>3. CASE OcfEvict
  BY <1>3, <1>n, Zenon DEF OcfEvict
<1>4. CASE Purge
  <2>1. line # "dirty"
    BY <1>4, Zenon DEF Purge, Data
  <2> QED  BY <1>4, <2>1, <1>n, Zenon DEF Purge
<1>5. CASE Lock \/ GiveUp \/ SetPassThrough \/ Freeze
  BY <1>5, <1>u, Zenon DEF Lock, GiveUp, SetPassThrough, Freeze
<1>6. CASE Quiesce \/ Drain \/ CreateThread \/ ClearPassThrough
  BY <1>6, <1>u, Zenon DEF Quiesce, Drain, CreateThread, ClearPassThrough, UseCache
<1>7. CASE Undo \/ Deposit \/ CacheStop \/ Unfreeze
  BY <1>7, <1>u, ZenonT(60) DEF Undo, Deposit, CacheStop, Unfreeze
<1>8. CASE Load \/ Claim \/ Hold \/ Reroute \/ Resume
  BY <1>8, <1>u, Zenon DEF Load, Claim, Hold, Reroute, UseCache, Resume
<1> QED  BY <1>1, <1>2, <1>3, <1>4, <1>5, <1>6, <1>7, <1>8, Zenon DEF Continue

\* Dirty data and requests that pass the cache by never meet, if every
\* disconnect flushes.
THEOREM DataInvariant == "no flush" \notin Ways => (Spec => []Data)
<1> SUFFICES ASSUME "no flush" \notin Ways PROVE Spec => []Data
  BY Zenon
<1>1. Steps /\ Data /\ [Next]_vars => Data'
  <2> SUFFICES ASSUME Steps, Data, [Next]_vars PROVE Data'
    BY Zenon
  <2>1. CASE UNCHANGED vars
    BY <2>1, SameData, Zenon DEF vars, bioVars, dataVars, cmdVars
  <2>2. CASE \E b \in Bios : Submit(b) \/ Proceed(b)
    BY <2>2, SubmitData, ProceedData, Zenon
  <2>3. CASE Continue \/ Load \/ OcfClean \/ OcfEvict \/ \E w \in Ways : Disconnect(w)
    BY <2>3, CommandData, Zenon
  <2> QED  BY <2>1, <2>2, <2>3, Zenon DEF Next
<1> QED  BY <1>1, InitData, StepsInvariant, PTL DEF Spec

\* cache_mngt_disconnect_cache and cache_mngt_connect_cache: the last write
\* that took effect is on the core, or dirty in the cache, for any number of
\* requests, deferred ones and slow disks included, and whichever steps of
\* the command fail.
THEOREM NoWriteLost == "no flush" \notin Ways => (Spec => []LastWriteKept)
<1>1. Data => LastWriteKept
  BY ZenonT(60) DEF Data
<1> QED  BY <1>1, DataInvariant, PTL

\* While requests pass the cache by, the core has the last write.
THEOREM CoreIsCurrent == "no flush" \notin Ways => (Spec => []FlushedOnCore)
<1>1. Steps /\ Data => FlushedOnCore
  BY Zenon DEF Steps, Routes, Data, Bypassing, LastWriteKept, FlushedOnCore
<1> QED  BY <1>1, StepsInvariant, DataInvariant, PTL

-----------------------------------------------------------------------------
(* Without deferred requests. *)

\* The drain finds OCF empty and the purge leaves it so, until requests are
\* routed to the cache again.
Emptied ==
    /\ \A b \in Bios : pc[b] \notin {"deferred", "flushing"} /\ kind[b] # "flush"
    /\ way = "pass through" /\ cmd \in {"purge", "thread", "deposit", "stop"} =>
          \A b \in Bios : pc[b] \notin {"ocf", "fill"}
    /\ Purged => line = "none"

Draining == way = "pass through" /\ cmd \in {"purge", "thread", "deposit", "stop"}

LEMMA MoveEmptied ==
  ASSUME Steps, Emptied, NEW b \in Bios, NEW l \in Places \ {"deferred", "flushing"},
         Move(b, l), l = "ocf" => pc[b] = "handler", l = "fill" => pc[b] = "ocf",
         UNCHANGED <<kind, line, cmd, way>>
  PROVE  Emptied'
<1>1. /\ pc'[b] = l /\ \A x \in Bios \ {b} : pc'[x] = pc[x]
  BY ZenonT(60) DEF Steps, TypeOK, Move
<1>2. Draining => l # "ocf" /\ l # "fill"
  BY ZenonT(60) DEF Steps, Routes, Emptied, Draining, Quiet, Handed
<1>3. ASSUME NEW x \in Bios
      PROVE  /\ pc'[x] \notin {"deferred", "flushing"} /\ kind'[x] # "flush"
             /\ Draining => pc'[x] \notin {"ocf", "fill"}
  BY <1>1, <1>2, Zenon DEF Emptied, Draining
<1> QED  BY <1>3, ZenonT(60) DEF Emptied, Draining, Purged

\* A request reaches the line only from OCF, where there is none.
LEMMA LineEmptied ==
  ASSUME Steps, Emptied, NEW b \in Bios, pc[b] \in {"ocf", "fill"}, Move(b, "idle"),
         UNCHANGED <<kind, cmd, way>>
  PROVE  Emptied'
<1>1. /\ pc'[b] = "idle" /\ \A x \in Bios \ {b} : pc'[x] = pc[x]
  BY Zenon DEF Steps, TypeOK, Move
<1>2. ~Purged
  BY ZenonT(60) DEF Steps, Routes, Emptied, Apart, Purged
<1>3. ~Draining
  BY Zenon DEF Emptied, Draining
<1>4. ASSUME NEW x \in Bios PROVE pc'[x] \notin {"deferred", "flushing"} /\ kind'[x] # "flush"
  BY <1>1, Zenon DEF Emptied
<1> QED  BY <1>2, <1>3, <1>4, Zenon DEF Emptied, Draining, Purged

LEMMA RequestEmptied ==
  ASSUME Deferral = FALSE, Steps, Emptied, NEW b \in Bios, Submit(b) \/ Proceed(b)
  PROVE  Emptied'
<1> USE DEF dataVars, cmdVars
<1>0. CASE Submit(b)
  <2>1. /\ pc'[b] = "waiting" /\ \A x \in Bios \ {b} : pc'[x] = pc[x]
    BY <1>0, ZenonT(60) DEF Steps, TypeOK, Submit, Move
  <2>2. \A x \in Bios : kind'[x] # "flush"
    BY <1>0, ZenonT(60) DEF Steps, TypeOK, Submit, Emptied
  <2>3. UNCHANGED <<line, cmd, way>>
    BY <1>0 DEF Submit
  <2>4. ASSUME NEW x \in Bios
        PROVE  /\ pc'[x] \notin {"deferred", "flushing"}
               /\ Draining => pc'[x] \notin {"ocf", "fill"}
    BY <2>1, Zenon DEF Emptied, Draining
  <2> QED  BY <2>2, <2>3, <2>4, ZenonT(60) DEF Emptied, Draining, Purged
<1>1. CASE Enter(b)
  BY <1>1, MoveEmptied DEF Enter, Places
<1>2. CASE Route(b)
  <2>1. PICK l \in {"handler", "direct"} : Move(b, l)
    BY <1>2 DEF Route
  <2> QED  BY <1>2, <2>1, MoveEmptied DEF Route, Places
<1>3. CASE SubmitBio(b)
  <2>1. PICK l \in {"ocf", "idle"} : Move(b, l)
    BY <1>3, Zenon DEF SubmitBio, HandledAs, Emptied
  <2> QED  BY <1>3, <2>1, MoveEmptied DEF SubmitBio, At, Places
<1>4. CASE DeferBioWork(b) \/ CompleteFlush(b)
  BY <1>4, Zenon DEF DeferBioWork, CompleteFlush, At, Emptied
<1>5. CASE SubmitBioPt(b)
  <2>1. PICK l \in {"idle", "disk"} : Move(b, l)
    BY <1>5, Zenon DEF SubmitBioPt
  <2>2. UNCHANGED <<kind, line, cmd, way>>
    BY <1>5 DEF SubmitBioPt, CoreAccess
  <2> QED  BY <2>1, <2>2, MoveEmptied DEF Places
<1>6. CASE DiskDone(b)
  <2>1. Move(b, "idle") /\ UNCHANGED <<kind, line, cmd, way>>
    BY <1>6, Zenon DEF DiskDone, CoreAccess
  <2> QED  BY <2>1, MoveEmptied, Zenon DEF Places
<1>7. CASE OcfReadHit(b)
  BY <1>7, MoveEmptied, Zenon DEF OcfReadHit, Places
<1>8. CASE OcfReadMiss(b)
  BY <1>8, MoveEmptied, Zenon DEF OcfReadMiss, At, Places
<1>9. CASE OcfFill(b) \/ OcfWrite(b)
  BY <1>9, LineEmptied, SMTT(30) DEF OcfFill, OcfWrite, At
<1> QED  BY <1>0, <1>1, <1>2, <1>3, <1>4, <1>5, <1>6, <1>7, <1>8, <1>9, SMTT(30)
            DEF Proceed

LEMMA CommandEmptied ==
  ASSUME Steps, Emptied,
         Continue \/ Load \/ OcfClean \/ OcfEvict \/ \E w \in Ways : Disconnect(w)
  PROVE  Emptied'
<1> USE DEF Step, bioVars, dataVars, cmdVars
<1>1. UNCHANGED <<pc, kind>>
  BY ZenonT(60) DEF Continue, Flush, Lock, GiveUp, SetPassThrough, Freeze, Quiesce,
     Drain, Purge, CreateThread, ClearPassThrough, Undo, Deposit, CacheStop, Unfreeze,
     Claim, Hold, Reroute, UseCache, Resume, Load, OcfClean, OcfEvict, Disconnect
<1> USE <1>1 DEF Emptied, Purged
<1>2. CASE \E w \in Ways : Disconnect(w)
  BY <1>2, ZenonT(60) DEF Disconnect
<1>3. CASE OcfClean \/ OcfEvict \/ Flush
  BY <1>3, ZenonT(60) DEF OcfClean, OcfEvict, Flush, Cleaned
<1>4. CASE Drain
  BY <1>4, ZenonT(60) DEF Drain, InOcf
<1>5. CASE Purge
  BY <1>5, ZenonT(60) DEF Purge
<1>6. CASE Lock \/ GiveUp \/ SetPassThrough \/ Freeze
  BY <1>6, ZenonT(60) DEF Lock, GiveUp, SetPassThrough, Freeze
<1>7. CASE Quiesce
  BY <1>7, ZenonT(60) DEF Quiesce
<1>8. CASE CreateThread \/ ClearPassThrough \/ Undo \/ Deposit
  BY <1>8, ZenonT(60) DEF CreateThread, ClearPassThrough, UseCache, Undo, Deposit
<1>9. CASE CacheStop \/ Unfreeze \/ Load
  BY <1>9, ZenonT(60) DEF CacheStop, Unfreeze, Load
<1>10. CASE Claim \/ Hold \/ Reroute \/ Resume
  BY <1>10, Zenon DEF Claim, Hold, Reroute, UseCache, Resume
<1> QED  BY <1>2, <1>3, <1>4, <1>5, <1>6, <1>7, <1>8, <1>9, <1>10, ZenonT(60)
            DEF Continue

LEMMA EmptiedInvariant == Deferral = FALSE => (Spec => []Emptied)
<1> SUFFICES ASSUME Deferral = FALSE PROVE Spec => []Emptied
  BY Zenon
<1>1. Init => Emptied
  BY DEF Init, Emptied, Purged
<1>2. Steps /\ Emptied /\ [Next]_vars => Emptied'
  <2> SUFFICES ASSUME Steps, Emptied, [Next]_vars PROVE Emptied'
    BY SMTT(30)
  <2>1. CASE UNCHANGED vars
    BY <2>1, Zenon DEF vars, bioVars, dataVars, cmdVars, Emptied, Purged
  <2>2. CASE \E b \in Bios : Submit(b) \/ Proceed(b)
    BY <2>2, RequestEmptied, Zenon
  <2>3. CASE Continue \/ Load \/ OcfClean \/ OcfEvict \/ \E w \in Ways : Disconnect(w)
    BY <2>3, CommandEmptied
  <2> QED  BY <2>1, <2>2, <2>3 DEF Next
<1> QED  BY <1>1, <1>2, StepsInvariant, PTL DEF Spec

\* What the comment before _cache_mngt_set_exp_objs_pt requires holds where
\* no request is deferred: freeze and drain then wait for every request, and
\* nothing fills the cache after the purge.
THEOREM EmptyWithoutDeferral == Deferral = FALSE => (Spec => []EmptyOnStop)
<1>1. Steps /\ Emptied => EmptyOnStop
  BY Zenon DEF Steps, Routes, Emptied, EmptyOnStop, Purged
<1> QED  BY <1>1, StepsInvariant, EmptiedInvariant, PTL

-----------------------------------------------------------------------------
(* Reads. *)

\* Requests are sent past the cache only where it is passed by, and while the
\* queue is quiet nobody is inside submit_bio.
Held ==
    /\ \A b \in Bios : pc[b] = "direct" => mode = "pt"
    /\ cmd \in {"quiesce", "drain", "purge", "thread"} => frozen
    /\ cmd \in {"drain", "purge", "thread"} =>
          \A b \in Bios : pc[b] \notin {"entered", "direct"}

\* The cache has fallen behind, or is about to.
Outdated == \/ line # "none" /\ ~cacheCur
            \/ \E b \in Bios : pc[b] = "fill" /\ ~fill[b]

\* Where a request may still meet the line.
Meeting == {"handler", "deferred", "flushing", "ocf"}

\* Until the cache is used again although it missed a write, it falls behind
\* only while requests pass it by; then every request that may still meet the
\* line was overtaken by a write, and the purge finds nobody who could fill
\* the cache again.
Current ==
    /\ ~stale
    /\ mode = "default" => ~missed /\ ~Late
    /\ Outdated => missed /\ \A b \in Bios : pc[b] \in Meeting => excused[b]
    /\ Purged => /\ ~missed /\ line = "none"
                 /\ \A b \in Bios : pc[b] \notin Meeting \cup {"fill"}

Coherent == Held /\ (~behind => Current)

LEMMA InitCoherent == Init => Coherent
  BY Zenon DEF Init, Coherent, Held, Current, Outdated, Purged, Late

LEMMA MoveHeld ==
  ASSUME Steps, Held, NEW b \in Bios, NEW l, Move(b, l), l = "entered" => ~frozen,
         l = "direct" => pc[b] = "entered" /\ mode = "pt", UNCHANGED <<mode, frozen, cmd>>
  PROVE  Held'
<1>1. /\ pc'[b] = l /\ \A x \in Bios \ {b} : pc'[x] = pc[x]
  BY Zenon DEF Steps, TypeOK, Move
<1>2. ASSUME NEW x \in Bios, pc'[x] = "direct" PROVE mode = "pt"
  BY <1>1, <1>2, Zenon DEF Held
<1>3. ASSUME cmd \in {"drain", "purge", "thread"}, NEW x \in Bios
      PROVE  pc'[x] \notin {"entered", "direct"}
  BY <1>1, <1>3, Zenon DEF Held
<1> QED  BY <1>2, <1>3, Zenon DEF Held

LEMMA RequestHeld ==
  ASSUME Steps, Held, NEW b \in Bios, Submit(b) \/ Proceed(b)
  PROVE  Held'
<1> USE DEF cmdVars
<1>s. ASSUME UNCHANGED <<pc, mode, frozen, cmd>> PROVE Held'
  BY <1>s, Zenon DEF Held
<1>0. CASE Submit(b)
  BY <1>0, MoveHeld, Zenon DEF Submit
<1>1. CASE Enter(b)
  BY <1>1, MoveHeld, Zenon DEF Enter
<1>2. CASE Route(b)
  <2>1. CASE mode = "default"
    BY <1>2, <2>1, MoveHeld, Zenon DEF Route
  <2>2. CASE mode = "pt"
    BY <1>2, <2>2, MoveHeld, Zenon DEF Route, At
  <2> QED  BY <2>1, <2>2, Zenon DEF Steps, TypeOK
<1>3. CASE SubmitBio(b)
  <2>1. PICK l \in {"flushing", "ocf", "deferred", "idle"} : Move(b, l)
    BY <1>3, Zenon DEF SubmitBio, HandledAs
  <2> QED  BY <1>3, <2>1, MoveHeld, Zenon DEF SubmitBio
<1>4. CASE DeferBioWork(b)
  <2>1. UNCHANGED pc \/ \E l \in {"flushing", "ocf"} : Move(b, l)
    BY <1>4, Zenon DEF DeferBioWork, HandledAs
  <2> QED  BY <1>4, <1>s, <2>1, MoveHeld, Zenon DEF DeferBioWork
<1>5. CASE CompleteFlush(b)
  <2>1. UNCHANGED pc \/ \E l \in {"idle", "deferred"} : Move(b, l)
    BY <1>5, Zenon DEF CompleteFlush
  <2> QED  BY <1>5, <1>s, <2>1, MoveHeld, Zenon DEF CompleteFlush
<1>6. CASE SubmitBioPt(b)
  <2>1. PICK l \in {"idle", "disk"} : Move(b, l)
    BY <1>6, Zenon DEF SubmitBioPt
  <2> QED  BY <1>6, <2>1, MoveHeld, Zenon DEF SubmitBioPt
<1>7. CASE DiskDone(b) \/ OcfReadHit(b)
  BY <1>7, MoveHeld, Zenon DEF DiskDone, OcfReadHit
<1>8. CASE OcfReadMiss(b) \/ OcfFill(b) \/ OcfWrite(b)
  BY <1>8, MoveHeld, Zenon DEF OcfReadMiss, OcfFill, OcfWrite
<1> QED  BY <1>0, <1>1, <1>2, <1>3, <1>4, <1>5, <1>6, <1>7, <1>8, Zenon DEF Proceed

\* A move of a request that leaves the data alone.
LEMMA MoveCurrent ==
  ASSUME Steps, Held, Current, NEW b \in Bios, NEW l, l # "fill", Move(b, l),
         l = "disk" => pc[b] = "direct",
         l \in Meeting => pc[b] \in Meeting \/ mode = "default",
         l = "waiting" \/ excused'[b] = excused[b],
         \A x \in Bios \ {b} : excused'[x] = excused[x] /\ kind'[x] = kind[x],
         UNCHANGED <<fill, line, cacheCur, missed, mode, cmd, way>>, ~stale'
  PROVE  Current'
<1>1. /\ pc'[b] = l /\ \A x \in Bios \ {b} : pc'[x] = pc[x]
  BY Zenon DEF Steps, TypeOK, Move
<1>2. Outdated' => Outdated
  BY <1>1, Zenon DEF Outdated
<1>3. mode = "default" => ~Late'
  BY <1>1, Zenon DEF Late, Held, Current
<1>4. ASSUME Outdated, NEW x \in Bios, pc'[x] \in Meeting PROVE excused'[x]
  <2>1. missed /\ mode # "default"
    BY <1>4, Zenon DEF Current
  <2>2. CASE x # b
    BY <1>1, <1>4, <2>2, Zenon DEF Current
  <2>3. CASE x = b
    <3>1. pc[b] \in Meeting /\ l # "waiting"
      BY <1>1, <1>4, <2>1, <2>3, Zenon DEF Meeting
    <3> QED  BY <1>4, <2>3, <3>1, Zenon DEF Current
  <2> QED  BY <2>2, <2>3
<1>5. Purged' <=> Purged
  BY Zenon DEF Purged
<1>6. ASSUME Purged, NEW x \in Bios PROVE pc'[x] \notin Meeting \cup {"fill"}
  <2>1. mode = "pt"
    BY <1>6, Zenon DEF Purged, Steps, Routes, Bypassing
  <2> QED  BY <1>1, <1>6, <2>1, Zenon DEF Current
<1> QED  BY <1>2, <1>3, <1>4, <1>5, <1>6, Zenon DEF Current

\* A request at the core.  What a read finds there is current, or a write has
\* overtaken it; a write overtakes everything that is under way.
LEMMA CoreAccessCurrent ==
  ASSUME Steps, Data, Held, Current, NEW b \in Bios, pc[b] \in {"direct", "disk"},
         Move(b, "idle"), CoreAccess(b), UNCHANGED <<kind, mode, cmd, way>>
  PROVE  Current'
<1>1. CASE kind[b] = "read"
  <2>1. /\ stale' = (stale \/ (~coreCur /\ ~excused[b]))
        /\ UNCHANGED <<fill, excused, line, cacheCur, missed>>
    BY <1>1, Zenon DEF CoreAccess, Reads
  <2>2. coreCur \/ excused[b]
    BY Zenon DEF Data, LastWriteKept
  <2>3. ~stale'
    BY <2>1, <2>2, Zenon DEF Current
  <2> QED  BY <2>1, <2>3, MoveCurrent, Zenon DEF Meeting
<1>2. CASE kind[b] # "read"
  <2>1. /\ \A x \in Bios : excused'[x]
        /\ missed' = (missed \/ ~Purged) /\ UNCHANGED <<line, stale>>
    BY <1>2, Zenon DEF CoreAccess, WriteTakesEffect
  <2>2. mode # "default"
    BY <1>2, Zenon DEF Held, Current, Late
  <2>3. /\ pc'[b] = "idle" /\ \A x \in Bios \ {b} : pc'[x] = pc[x]
    BY Zenon DEF Steps, TypeOK, Move
  <2>4. Purged' <=> Purged
    BY Zenon DEF Purged
  <2>5. ASSUME Purged, NEW x \in Bios PROVE pc'[x] \notin Meeting \cup {"fill"}
    BY <2>3, <2>5, Zenon DEF Current, Meeting
  <2>6. Purged => ~missed' /\ line' = "none"
    BY <2>1, Zenon DEF Current
  <2>7. Outdated' => missed'
    BY <2>1, <2>5, <2>6, Zenon DEF Outdated
  <2> QED  BY <2>1, <2>2, <2>4, <2>5, <2>6, <2>7, Zenon DEF Current
<1> QED  BY <1>1, <1>2

LEMMA OcfCurrent ==
  ASSUME Steps, Data, Held, Current, NEW b \in Bios,
         OcfReadHit(b) \/ OcfReadMiss(b) \/ OcfFill(b) \/ OcfWrite(b)
  PROVE  Current'
<1> USE DEF cmdVars
<1>p. ASSUME pc[b] \in {"ocf", "fill"}, UNCHANGED <<cmd, way>> PROVE ~Purged /\ ~Purged'
  BY <1>p, Zenon DEF Current, Meeting, Purged
<1>m. ASSUME NEW l, Move(b, l)
      PROVE  pc'[b] = l /\ \A x \in Bios \ {b} : pc'[x] = pc[x]
  BY <1>m, Zenon DEF Steps, TypeOK, Move
<1>l. ASSUME NEW l, l # "disk", Move(b, l), UNCHANGED kind PROVE Late' => Late
  BY <1>l, <1>m, Zenon DEF Late
<1>1. CASE OcfReadHit(b)
  <2>1. /\ pc[b] = "ocf" /\ line # "none" /\ Move(b, "idle")
        /\ stale' = (stale \/ (~cacheCur /\ ~excused[b]))
        /\ UNCHANGED <<kind, fill, excused, line, cacheCur, missed, mode, cmd, way>>
    BY <1>1, Zenon DEF OcfReadHit, At, Reads
  <2>2. cacheCur \/ excused[b]
    BY <2>1, Zenon DEF Current, Outdated, Meeting
  <2>3. ~stale'
    BY <2>1, <2>2, Zenon DEF Current
  <2> QED  BY <2>1, <2>3, MoveCurrent, Zenon DEF Meeting
<1>2. CASE OcfReadMiss(b)
  <2>1. /\ pc[b] = "ocf" /\ line = "none" /\ Move(b, "fill")
        /\ stale' = (stale \/ (~coreCur /\ ~excused[b]))
        /\ fill' = [fill EXCEPT ![b] = coreCur]
        /\ \A x \in Bios : pc[x] # "fill"
        /\ UNCHANGED <<kind, excused, line, missed, mode, cmd, way>>
    BY <1>2, Zenon DEF OcfReadMiss, At, Reads
  <2>2. coreCur
    BY <2>1, Zenon DEF Data, LastWriteKept
  <2>3. ~stale'
    BY <2>1, <2>2, Zenon DEF Current
  <2>4. fill'[b]
    BY <2>1, <2>2, Zenon DEF Steps, TypeOK
  <2>5. ~Outdated'
    BY <1>m, <2>1, <2>4, Zenon DEF Outdated
  <2> QED  BY <1>l, <1>p, <2>1, <2>3, <2>5, Zenon DEF Current
<1>3. CASE OcfFill(b)
  <2>1. /\ pc[b] = "fill" /\ Move(b, "idle") /\ cacheCur' = fill[b] /\ line' = "clean"
        /\ UNCHANGED <<kind, fill, excused, stale, missed, mode, cmd, way>>
    BY <1>3, Zenon DEF OcfFill, At
  <2>2. Outdated' => Outdated
    BY <1>m, <2>1, Zenon DEF Outdated
  <2>3. ASSUME NEW x \in Bios, pc'[x] \in Meeting PROVE pc[x] \in Meeting
    <3>1. pc'[b] = "idle" /\ \A y \in Bios \ {b} : pc'[y] = pc[y]
      BY <1>m, <2>1, Zenon
    <3>2. pc'[b] \notin Meeting
      BY <3>1, Zenon DEF Meeting
    <3> QED  BY <2>3, <3>1, <3>2, Zenon
  <2> QED  BY <1>l, <1>p, <2>1, <2>2, <2>3, Zenon DEF Current
<1>4. CASE OcfWrite(b)
  <2>1. /\ pc[b] = "ocf" /\ Move(b, "idle") /\ cacheCur' = TRUE
        /\ \A x \in Bios : pc[x] # "fill"
        /\ UNCHANGED <<kind, stale, missed, mode, cmd, way>>
    BY <1>4, Zenon DEF OcfWrite, At
  <2>2. ~Outdated'
    BY <1>m, <2>1, Zenon DEF Outdated
  <2> QED  BY <1>l, <1>p, <2>1, <2>2, Zenon DEF Current
<1> QED  BY <1>1, <1>2, <1>3, <1>4, Zenon

LEMMA RequestCurrent ==
  ASSUME Steps, Data, Held, Current, NEW b \in Bios, Submit(b) \/ Proceed(b)
  PROVE  Current'
<1> USE DEF dataVars, cmdVars
<1>s. ~stale
  BY Zenon DEF Current
<1>u. ASSUME UNCHANGED <<pc, fill, excused, dataVars, cmdVars, mode>>,
             \A x \in Bios \ {b} : kind'[x] = kind[x], pc[b] # "disk"
      PROVE  Current'
  <2>1. (Late' => Late) /\ (Outdated' <=> Outdated) /\ (Purged' <=> Purged)
    BY <1>u, Zenon DEF Late, Outdated, Purged
  <2> QED  BY <1>u, <2>1, Zenon DEF Current
<1>0. CASE Submit(b)
  <2>1. \A x \in Bios \ {b} : excused'[x] = excused[x] /\ kind'[x] = kind[x]
    BY <1>0, Zenon DEF Steps, TypeOK, Submit
  <2> QED  BY <1>0, <1>s, <2>1, MoveCurrent, Zenon DEF Submit, Meeting
<1>1. CASE Enter(b)
  BY <1>1, <1>s, MoveCurrent, Zenon DEF Enter, Meeting
<1>2. CASE Route(b)
  <2>1. CASE mode = "default"
    BY <1>2, <1>s, <2>1, MoveCurrent, Zenon DEF Route, Meeting
  <2>2. CASE mode = "pt"
    BY <1>2, <1>s, <2>2, MoveCurrent, Zenon DEF Route, Meeting
  <2> QED  BY <2>1, <2>2, Zenon DEF Steps, TypeOK
<1>3. CASE SubmitBio(b)
  <2>1. PICK l \in {"flushing", "ocf", "deferred", "idle"} : Move(b, l)
    BY <1>3, Zenon DEF SubmitBio, HandledAs
  <2>2. pc[b] \in Meeting
    BY <1>3, Zenon DEF SubmitBio, At, Meeting
  <2> QED  BY <1>3, <1>s, <2>1, <2>2, MoveCurrent, Zenon DEF SubmitBio
<1>4. CASE DeferBioWork(b)
  <2>1. UNCHANGED pc \/ \E l \in {"flushing", "ocf"} : Move(b, l)
    BY <1>4, Zenon DEF DeferBioWork, HandledAs
  <2>2. pc[b] \in Meeting /\ pc[b] # "disk"
    BY <1>4, Zenon DEF DeferBioWork, At, Meeting
  <2>3. CASE UNCHANGED pc
    BY <1>4, <1>u, <2>2, <2>3, Zenon DEF DeferBioWork
  <2>4. CASE \E l \in {"flushing", "ocf"} : Move(b, l)
    BY <1>4, <1>s, <2>2, <2>4, MoveCurrent, Zenon DEF DeferBioWork
  <2> QED  BY <2>1, <2>3, <2>4
<1>5. CASE CompleteFlush(b)
  <2>1. UNCHANGED pc \/ \E l \in {"idle", "deferred"} : Move(b, l)
    BY <1>5, Zenon DEF CompleteFlush
  <2>2. pc[b] \in Meeting /\ pc[b] # "disk"
    BY <1>5, Zenon DEF CompleteFlush, At, Meeting
  <2>3. \A x \in Bios \ {b} : kind'[x] = kind[x]
    BY <1>5, Zenon DEF CompleteFlush, Steps, TypeOK
  <2>4. CASE UNCHANGED pc
    BY <1>5, <1>u, <2>2, <2>3, <2>4, Zenon DEF CompleteFlush
  <2>5. CASE \E l \in {"idle", "deferred"} : Move(b, l)
    BY <1>5, <1>s, <2>2, <2>3, <2>5, MoveCurrent, Zenon DEF CompleteFlush
  <2> QED  BY <2>1, <2>4, <2>5
<1>6. CASE SubmitBioPt(b)
  <2>1. CASE CoreAccess(b) /\ Move(b, "idle")
    BY <1>6, <2>1, CoreAccessCurrent, Zenon DEF SubmitBioPt, At
  <2>2. CASE Move(b, "disk") /\ UNCHANGED <<fill, excused, dataVars>>
    BY <1>6, <1>s, <2>2, MoveCurrent, Zenon DEF SubmitBioPt, At, Meeting
  <2> QED  BY <1>6, <2>1, <2>2, Zenon DEF SubmitBioPt
<1>7. CASE DiskDone(b)
  BY <1>7, CoreAccessCurrent, Zenon DEF DiskDone, At
<1>8. CASE OcfReadHit(b) \/ OcfReadMiss(b) \/ OcfFill(b) \/ OcfWrite(b)
  BY <1>8, OcfCurrent
<1> QED  BY <1>0, <1>1, <1>2, <1>3, <1>4, <1>5, <1>6, <1>7, <1>8, Zenon DEF Proceed

\* Requests leave the history of the cache alone.
LEMMA RequestBehind ==
  ASSUME NEW b \in Bios, Submit(b) \/ Proceed(b)
  PROVE  behind' = behind
  BY Zenon DEF Submit, Proceed, Enter, Route, SubmitBio, DeferBioWork, CompleteFlush,
     SubmitBioPt, DiskDone, OcfReadHit, OcfReadMiss, OcfFill, OcfWrite, dataVars

LEMMA CommandHeld ==
  ASSUME Steps, Held,
         Continue \/ Load \/ OcfClean \/ OcfEvict \/ \E w \in Ways : Disconnect(w)
  PROVE  Held'
<1> USE DEF Step, bioVars, cmdVars
<1>1. UNCHANGED pc
  BY ZenonT(60) DEF Continue, Flush, Lock, GiveUp, SetPassThrough, Freeze, Quiesce,
     Drain, Purge, CreateThread, ClearPassThrough, Undo, Deposit, CacheStop, Unfreeze,
     Claim, Hold, Reroute, Resume, Load, OcfClean, OcfEvict, Disconnect
<1>2. ASSUME mode' = mode \/ mode' = "pt",
             cmd' \notin {"quiesce", "drain", "purge", "thread"}
      PROVE  Held'
  BY <1>1, <1>2, Zenon DEF Held
<1>3. CASE OcfClean \/ OcfEvict
  BY <1>1, <1>3, Zenon DEF OcfClean, OcfEvict, Held
<1>4. CASE \E w \in Ways : Disconnect(w)
  BY <1>2, <1>4, Zenon DEF Disconnect
<1>5. CASE Flush \/ Lock \/ GiveUp \/ SetPassThrough
  BY <1>2, <1>5, Zenon DEF Flush, Lock, GiveUp, SetPassThrough
<1>6. CASE Freeze
  BY <1>1, <1>6, Zenon DEF Freeze, Held
<1>7. CASE Quiesce
  <2>1. /\ cmd = "quiesce" /\ cmd' \in {"drain", "thread"} /\ UNCHANGED <<mode, frozen>>
        /\ \A b \in Bios : pc[b] \notin {"entered", "direct"}
    BY <1>7, Zenon DEF Quiesce, Submitting
  <2> QED  BY <1>1, <2>1, Zenon DEF Held
<1>8. CASE Drain \/ Purge
  BY <1>1, <1>8, Zenon DEF Drain, Purge, Held
<1>9. CASE CreateThread \/ Undo \/ Deposit
  BY <1>2, <1>9, Zenon DEF CreateThread, Undo, Deposit
<1>10. CASE CacheStop \/ Unfreeze \/ Load
  BY <1>2, <1>10, Zenon DEF CacheStop, Unfreeze, Load
<1>11. CASE Claim \/ Hold \/ Resume
  BY <1>2, <1>11, Zenon DEF Claim, Hold, Resume
<1>12. CASE ClearPassThrough \/ Reroute
  <2>1. cmd' \in {"undo", "resume"} /\ \A b \in Bios : pc[b] # "direct"
    BY <1>12, Zenon DEF ClearPassThrough, Reroute, Submitting, Held
  <2> QED  BY <1>1, <2>1, Zenon DEF Held
<1> QED  BY <1>3, <1>4, <1>5, <1>6, <1>7, <1>8, <1>9, <1>10, <1>11, <1>12, Zenon
            DEF Continue

\* The command takes the cache into use again only where it missed nothing,
\* unless this is noted.
LEMMA CommandCurrent ==
  ASSUME Steps, Held, ~behind => Current, ~behind',
         Continue \/ Load \/ OcfClean \/ OcfEvict \/ \E w \in Ways : Disconnect(w)
  PROVE  Current'
<1> USE DEF Step, bioVars, dataVars, cmdVars
<1>1. UNCHANGED <<pc, kind, fill, excused, cacheCur, stale>>
  BY ZenonT(60) DEF Continue, Flush, Lock, GiveUp, SetPassThrough, Freeze, Quiesce,
     Drain, Purge, CreateThread, ClearPassThrough, Undo, Deposit, CacheStop, Unfreeze,
     Claim, Hold, Reroute, UseCache, Resume, Load, OcfClean, OcfEvict, Disconnect, Cleaned
<1>l. Late' <=> Late
  BY <1>1, Zenon DEF Late
<1>2. ASSUME UNCHANGED <<missed, behind>>, line' = line \/ line # "none" \/ line' = "none",
             line = "none" => line' = "none",
             mode' = mode \/ mode' = "pt", Purged' => Purged
      PROVE  Current'
  <2>1. Outdated' => Outdated
    BY <1>1, <1>2, Zenon DEF Outdated
  <2> QED  BY <1>1, <1>2, <1>l, <2>1, Zenon DEF Current
<1>3. CASE \E w \in Ways : Disconnect(w)
  BY <1>2, <1>3, Zenon DEF Disconnect, Purged
<1>4. CASE OcfClean \/ OcfEvict
  BY <1>2, <1>4, Zenon DEF OcfClean, OcfEvict, Cleaned, Purged
<1>5. CASE Flush
  BY <1>2, <1>5, Zenon DEF Flush, Cleaned, Purged
<1>6. CASE Lock \/ GiveUp \/ SetPassThrough \/ Freeze
  BY <1>2, <1>6, Zenon DEF Lock, GiveUp, SetPassThrough, Freeze, Purged
<1>7. CASE Quiesce \/ Drain
  BY <1>2, <1>7, Zenon DEF Quiesce, Drain, Purged
<1>8. CASE CreateThread \/ Undo \/ Deposit
  BY <1>2, <1>8, Zenon DEF CreateThread, Undo, Deposit, Purged
<1>9. CASE CacheStop \/ Unfreeze
  BY <1>2, <1>9, Zenon DEF CacheStop, Unfreeze, Purged
<1>10. CASE Load \/ Claim \/ Hold \/ Resume
  BY <1>2, <1>10, Zenon DEF Load, Claim, Hold, Resume, Purged
<1>11. CASE Purge
  <2>1. /\ cmd = "purge" /\ missed' = FALSE /\ line' = "none" /\ mode' = mode /\ ~behind
        /\ \A b \in Bios : pc[b] \notin {"deferred", "flushing", "ocf", "fill"}
    BY <1>11, Zenon DEF Purge, InOcf
  <2>2. mode = "pt" /\ \A b \in Bios : pc[b] # "handler"
    BY <2>1, Zenon DEF Steps, Routes, Bypassing, Quiet
  <2>3. ~Outdated'
    BY <1>1, <2>1, Zenon DEF Outdated
  <2> QED  BY <1>1, <2>1, <2>2, <2>3, Zenon DEF Current, Meeting
<1>12. CASE ClearPassThrough \/ Reroute
  <2>1. cmd' \in {"undo", "resume"} /\ UseCache
    BY <1>12, Zenon DEF ClearPassThrough, Reroute
  <2>2. ~behind /\ ~missed /\ ~Late /\ UNCHANGED <<line, missed>>
    BY <2>1, Zenon DEF UseCache
  <2>3. ~Outdated'
    BY <1>1, <2>2, Zenon DEF Current, Outdated
  <2>4. ~Purged'
    BY <2>1, Zenon DEF Purged
  <2> QED  BY <1>1, <1>l, <2>2, <2>3, <2>4, Zenon DEF Current
<1> QED  BY <1>3, <1>4, <1>5, <1>6, <1>7, <1>8, <1>9, <1>10, <1>11, <1>12, Zenon
            DEF Continue

\* Across disconnects that flush, those that fail included, and connects, a
\* read of the device returns data older than the last write only if the cache
\* was used again although it had missed a write (ReadsCurrent): for any
\* number of requests, deferred ones, and disks of any speed.
THEOREM ReadsAreCurrent == "no flush" \notin Ways => (Spec => []ReadsCurrent)
<1> SUFFICES ASSUME "no flush" \notin Ways PROVE Spec => []ReadsCurrent
  BY Zenon
<1>1. Steps /\ Data /\ Coherent /\ [Next]_vars => Coherent'
  <2> SUFFICES ASSUME Steps, Data, Coherent, [Next]_vars PROVE Coherent'
    BY Zenon
  <2>1. CASE UNCHANGED vars
    BY <2>1, ZenonT(60) DEF vars, bioVars, dataVars, cmdVars, Coherent, Held, Current,
       Outdated, Purged, Late
  <2>2. CASE \E b \in Bios : Submit(b) \/ Proceed(b)
    BY <2>2, RequestHeld, RequestCurrent, RequestBehind, Zenon DEF Coherent
  <2>3. CASE Continue \/ Load \/ OcfClean \/ OcfEvict \/ \E w \in Ways : Disconnect(w)
    BY <2>3, CommandHeld, CommandCurrent, Zenon DEF Coherent
  <2> QED  BY <2>1, <2>2, <2>3, Zenon DEF Next
<1>2. Coherent => ReadsCurrent
  BY Zenon DEF Coherent, Current, ReadsCurrent
<1> QED  BY <1>1, <1>2, InitCoherent, StepsInvariant, DataInvariant, PTL DEF Spec
=============================================================================
