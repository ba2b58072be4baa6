-------------------------- MODULE ManagementProofs --------------------------
(***************************************************************************)
(* Proofs about what management commands that run beside each other leave  *)
(* behind: the settings of a cache, for any set of cores and values and    *)
(* any number of commands, and the numbering of cores, for any set of ids  *)
(* and any number of commands.                                             *)
(*                                                                         *)
(* The settings.  SettingsKept speaks of a cache that nobody has locked.   *)
(* The invariant says what holds of it under the lock, between a change    *)
(* and its save, what the readers of the lock have seen, and what a save   *)
(* that nobody waits for may still write.                                  *)
(*                                                                         *)
(* The ids.  IdsExact compares the bitmap with OCF's list of cores only    *)
(* when nobody holds the management lock.  The invariant says what the     *)
(* holder of the lock may have left half done: a core that is added and    *)
(* not yet marked.                                                         *)
(***************************************************************************)
EXTENDS CoreIds, Settings, TLAPS

-----------------------------------------------------------------------------
(* The settings. *)

Fields(r) == r = [pc |-> r.pc, keys |-> r.keys, value |-> r.value, old |-> r.old,
                  got |-> r.got]

\* The variables are functions of keys and commands.
Formed ==
    /\ val = [k \in Keys |-> val[k]] /\ disk = [k \in Saved |-> disk[k]]
    /\ told = [k \in Keys |-> told[k]] /\ \A s \in late : s = [k \in Saved |-> s[k]]
    /\ scmd = [u \in Setters |-> scmd[u]] /\ \A u \in Setters : Fields(scmd[u])
    /\ cores \subseteq Cores

\* Who holds the lock follows from where the commands stand: one writer, or
\* readers.
Exclusive ==
    /\ \A u \in Setters : slock = u <=> scmd[u].pc \in {"set", "save"}
    /\ \A u \in Setters : u \in sreaders <=> scmd[u].pc \in {"flushing", "read"}
    /\ sreaders \subseteq Setters
    /\ slock # "free" => slock \in Setters /\ sreaders = {}

\* The groups of settings that a command sets together.
Group(r) == r.keys \in {{"mode"}, {"kept"}, {"unkept"}} \/ r.keys \subseteq Cores

Agreed(k) ==
    /\ told[k] # Unknown => val[k] = told[k]
    /\ told[k] # Unknown => k \in risk \cup {"unkept"} \/ disk[k] = told[k]

\* Between a change and its save the settings changed are reported to nobody,
\* but for the mode, of which the command knows what it was.
Saving(r) ==
    /\ r.keys # {"unkept"}
    /\ \A k \in r.keys \cap (Cached \cup cores) : val[k] = r.value
    /\ IF r.keys = {"mode"}
       THEN told["mode"] # Unknown =>
              told["mode"] = r.old /\ ("mode" \in risk \/ disk["mode"] = r.old)
       ELSE \A k \in r.keys : told[k] = Unknown
    /\ late # {} => r.keys \subseteq risk

Unsaved(k) == \E u \in Setters : scmd[u].pc = "save" /\ k \in scmd[u].keys

\* What a save that nobody waits for may write is what is in force, but for
\* the keys at risk.
Behind == \A s \in late : \A k \in Saved \ risk : s[k] = val[k]

Promised ==
    /\ Behind
    /\ \A k \in Keys : Unsaved(k) \/ Agreed(k)
    /\ \A u \in Setters : scmd[u].pc = "save" => Saving(scmd[u])
    /\ \A u \in Setters : scmd[u].pc # "read" => Group(scmd[u])
    /\ \A u \in Setters : scmd[u].pc = "read" =>
         scmd[u].got = [k \in scmd[u].keys |-> val[k]]

SetInv == Formed /\ Exclusive /\ Promised

LEMMA SetInitInv == SetInit => SetInv
<1> SUFFICES ASSUME SetInit PROVE SetInv
  OBVIOUS
<1> USE DEF SetInit, NoSet
<1>1. Formed
  BY DEF Formed, Fields, Configuration
<1>2. Exclusive
  BY SettersAssumption DEF Exclusive
<1>3. Promised
  BY DEF Promised, Agreed, Group, Unsaved, Behind
<1> QED  BY <1>1, <1>2, <1>3 DEF SetInv

-----------------------------------------------------------------------------
\* Command u becomes r, and the others stay.
Becomes(u, r) == scmd' = [scmd EXCEPT ![u] = r]

LEMMA OneCommand ==
  ASSUME SetInv, NEW u \in Setters, NEW r, Becomes(u, r)
  PROVE  /\ scmd' = [v \in Setters |-> scmd'[v]] /\ scmd'[u] = r
         /\ \A v \in Setters \ {u} : scmd'[v] = scmd[v]
  BY DEF Becomes, SetInv, Formed

LEMMA NextStep ==
  ASSUME SetInv, NEW u \in Setters, NEW p, SetTo(u, p)
  PROVE  \E r : /\ Becomes(u, r) /\ Fields(r) /\ r.pc = p /\ r.keys = scmd[u].keys
                /\ r.value = scmd[u].value /\ r.old = scmd[u].old /\ r.got = scmd[u].got
<1> DEFINE r == [scmd[u] EXCEPT !.pc = p]
<1>1. Fields(scmd[u])
  BY DEF SetInv, Formed
<1>2. /\ Fields(r) /\ r.pc = p /\ r.keys = scmd[u].keys
      /\ r.value = scmd[u].value /\ r.old = scmd[u].old /\ r.got = scmd[u].got
  BY <1>1 DEF Fields
<1>3. Becomes(u, r)
  BY DEF Becomes, SetTo, SetInv, Formed
<1> QED  BY <1>2, <1>3, Zenon

LEMMA EndedCommand ==
  ASSUME NEW u \in Setters, SetDone(u)
  PROVE  Becomes(u, NoSet) /\ Fields(NoSet) /\ NoSet.pc = "idle" /\ Group(NoSet)
  BY DEF Becomes, SetDone, NoSet, Fields, Group

\* A step that changes no setting and saves none.
LEMMA SettingsAlone ==
  ASSUME SetInv, NEW u \in Setters, NEW r, Becomes(u, r), Fields(r),
         scmd[u].pc # "save", r.pc # "save", r.pc # "read" => Group(r),
         r.pc = "read" => r.got = [k \in r.keys |-> val[k]],
         UNCHANGED <<val, disk, cores, told, saveVars>>
  PROVE  Formed' /\ Promised'
<1> USE DEF saveVars
<1>1. /\ scmd' = [v \in Setters |-> scmd'[v]] /\ scmd'[u] = r
      /\ \A v \in Setters \ {u} : scmd'[v] = scmd[v]
  BY OneCommand
<1>2. Formed'
  BY <1>1 DEF SetInv, Formed
<1>3. \A k \in Keys : Unsaved(k)' \/ Agreed(k)'
  BY <1>1 DEF SetInv, Promised, Unsaved, Agreed
<1>4. \A v \in Setters : scmd'[v].pc = "save" => Saving(scmd[v])'
  BY <1>1 DEF SetInv, Promised, Saving
<1>5. \A v \in Setters : scmd'[v].pc # "read" => Group(scmd[v])'
  BY <1>1 DEF SetInv, Promised, Group
<1>6. \A v \in Setters : scmd'[v].pc = "read" =>
         scmd'[v].got = [k \in scmd'[v].keys |-> val'[k]]
  BY <1>1 DEF SetInv, Promised
<1>7. Behind'
  BY DEF SetInv, Promised, Behind
<1> QED  BY <1>2, <1>3, <1>4, <1>5, <1>6, <1>7 DEF Promised

\* The lock is taken, kept or given up by one command.
LEMMA LockFollows ==
  ASSUME SetInv, NEW u \in Setters, NEW r, Becomes(u, r),
         slock' = u <=> r.pc \in {"set", "save"},
         slock' # slock => {slock, slock'} \subseteq {u, "free"},
         sreaders' = IF r.pc \in {"flushing", "read"} THEN sreaders \cup {u} ELSE sreaders \ {u},
         slock' # "free" => sreaders' = {}
  PROVE  Exclusive'
<1>1. scmd'[u] = r /\ \A v \in Setters \ {u} : scmd'[v] = scmd[v]
  BY OneCommand
<1>2. ASSUME NEW v \in Setters PROVE slock' = v <=> scmd'[v].pc \in {"set", "save"}
  BY <1>1, SettersAssumption DEF SetInv, Exclusive
<1>3. ASSUME NEW v \in Setters PROVE v \in sreaders' <=> scmd'[v].pc \in {"flushing", "read"}
  BY <1>1 DEF SetInv, Exclusive
<1>4. sreaders' \subseteq Setters /\ (slock' # "free" => slock' \in Setters)
  BY DEF SetInv, Exclusive
<1> QED  BY <1>2, <1>3, <1>4 DEF Exclusive

LEMMA Fresh == Fields(NoSet)
  BY DEF Fields, NoSet

\* A command begins, or goes on, and needs no lock yet.
LEMMA AskedInv ==
  ASSUME SetInv, NEW u \in Setters, NEW r, Becomes(u, r), Fields(r), Group(r),
         scmd[u].pc \in {"idle", "lock"}, r.pc \in {"idle", "flush", "lock", "found"},
         UNCHANGED <<val, disk, cores, slock, sreaders, told, saveVars>>
  PROVE  SetInv'
<1>1. Formed' /\ Promised'
  BY SettingsAlone, Zenon
<1>2. Exclusive'
  BY LockFollows DEF SetInv, Exclusive
<1> QED  BY <1>1, <1>2 DEF SetInv

LEMMA RequestInv ==
  ASSUME SetInv, NEW u \in Setters, NEW keys, NEW v, Request(u, keys, v),
         keys \in {{"kept"}, {"unkept"}} \/ keys \subseteq Cores
  PROVE  SetInv'
<1>0. PICK r : r = [NoSet EXCEPT !.pc = "lock", !.keys = keys, !.value = v]
  OBVIOUS
<1>1. Fields(r) /\ r.pc = "lock" /\ r.keys = keys
  BY <1>0, Fresh, Zenon DEF Fields
<1>2. Becomes(u, r) /\ scmd[u].pc = "idle" /\ UNCHANGED <<val, disk, cores, slock, sreaders, told, saveVars>>
  BY <1>0 DEF Request, Becomes
<1> QED  BY <1>1, <1>2, AskedInv DEF Group

LEMMA AsksInv ==
  ASSUME SetInv, NEW u \in Setters,
         \/ SetMode(u) \/ SetCacheParams(u) \/ SetCoreParams(u) \/ ResetStats(u)
         \/ GetCoreParams(u) \/ LockInterrupted(u)
  PROVE  SetInv'
<1>1. CASE SetMode(u)
  <2>1. PICK m, p, r :
          /\ p \in {"flush", "lock"} /\ Becomes(u, r)
          /\ r = [NoSet EXCEPT !.pc = p, !.keys = {"mode"}, !.value = m, !.old = val["mode"]]
    BY <1>1, Zenon DEF SetMode, Becomes
  <2>2. Fields(r) /\ r.keys = {"mode"} /\ r.pc = p
    BY <2>1, Fresh, Zenon DEF Fields
  <2> QED  BY <1>1, <2>1, <2>2, AskedInv, Zenon DEF SetMode, Group
<1>2. CASE SetCacheParams(u)
  BY <1>2, RequestInv DEF SetCacheParams
<1>3. CASE SetCoreParams(u)
  BY <1>3, RequestInv DEF SetCoreParams, SetInv, Formed
<1>4. CASE ResetStats(u)
  BY <1>4, RequestInv DEF ResetStats
<1>5. CASE GetCoreParams(u)
  <2>1. PICK c, r : c \in cores /\ r = [NoSet EXCEPT !.pc = "found", !.keys = {c}] /\ Becomes(u, r)
    BY <1>5, Zenon DEF GetCoreParams, Becomes
  <2>2. Fields(r) /\ r.keys = {c} /\ r.pc = "found"
    BY <2>1, Fresh, Zenon DEF Fields
  <2>3. Group(r)
    BY <2>1, <2>2 DEF Group, SetInv, Formed
  <2> QED  BY <1>5, <2>1, <2>2, <2>3, AskedInv, Zenon DEF GetCoreParams
<1>6. CASE LockInterrupted(u)
  BY <1>6, AskedInv, EndedCommand DEF LockInterrupted
<1> QED  BY <1>1, <1>2, <1>3, <1>4, <1>5, <1>6

LEMMA FlushInv ==
  ASSUME SetInv, NEW u \in Setters, FlushDevice(u) \/ FlushBegin(u) \/ FlushEnd(u)
  PROVE  SetInv'
<1>g. scmd[u].pc # "read" => Group(scmd[u])
  BY DEF SetInv, Promised
<1>1. CASE FlushDevice(u)
  <2>1. SetTo(u, "flush")
    BY <1>1 DEF FlushDevice, SetTo
  <2>2. PICK r : /\ Becomes(u, r) /\ Fields(r) /\ r.pc = "flush" /\ r.keys = scmd[u].keys
    BY <2>1, NextStep
  <2> QED  BY <1>1, <1>g, <2>2, AskedInv DEF FlushDevice, Group
<1>2. CASE FlushBegin(u)
  <2>1. PICK r : /\ Becomes(u, r) /\ Fields(r) /\ r.pc = "flushing" /\ r.keys = scmd[u].keys
    BY <1>2, NextStep DEF FlushBegin
  <2>2. Formed' /\ Promised'
    BY <1>2, <1>g, <2>1, SettingsAlone, Zenon DEF FlushBegin, Group
  <2>3. Exclusive'
    BY <1>2, <2>1, LockFollows, SettersAssumption, Zenon DEF FlushBegin
  <2> QED  BY <2>2, <2>3 DEF SetInv
<1>3. CASE FlushEnd(u)
  <2>1. \E r : Becomes(u, r) /\ Fields(r) /\ r.pc \in {"lock", "idle"} /\ Group(r)
    <3>1. CASE SetTo(u, "lock")
      BY <1>3, <1>g, <3>1, NextStep DEF FlushEnd, Group
    <3>2. CASE SetDone(u)
      BY <3>2, EndedCommand
    <3> QED  BY <1>3, <3>1, <3>2, Zenon DEF FlushEnd
  <2>2. PICK r : Becomes(u, r) /\ Fields(r) /\ r.pc \in {"lock", "idle"} /\ Group(r)
    BY <2>1
  <2>3. Formed' /\ Promised'
    BY <1>3, <2>2, SettingsAlone, Zenon DEF FlushEnd
  <2>4. Exclusive'
    BY <1>3, <2>2, LockFollows, SettersAssumption DEF FlushEnd, SetInv, Exclusive
  <2> QED  BY <2>3, <2>4 DEF SetInv
<1> QED  BY <1>1, <1>2, <1>3

LEMMA ReadInv ==
  ASSUME SetInv, NEW u \in Setters, NEW p \in {"idle", "found"}, NEW keys, Collect(u, p, keys)
  PROVE  SetInv'
<1>0. PICK r : r = [NoSet EXCEPT !.pc = "read", !.keys = keys, !.got = [k \in keys |-> val[k]]]
  BY Zenon
<1>1. /\ Becomes(u, r) /\ scmd[u].pc = p /\ slock = "free" /\ sreaders' = sreaders \cup {u}
      /\ UNCHANGED <<val, disk, cores, slock, told, saveVars>>
  BY <1>0 DEF Collect, Becomes
<1>2. Fields(r) /\ r.pc = "read" /\ r.keys = keys /\ r.got = [k \in keys |-> val[k]]
  BY <1>0, Fresh, Zenon DEF Fields
<1>3. Formed' /\ Promised'
  BY <1>1, <1>2, SettingsAlone
<1>4. Exclusive'
  BY <1>1, <1>2, LockFollows, SettersAssumption
<1> QED  BY <1>3, <1>4 DEF SetInv

\* Taking the write lock, and giving it up without having set anything.
LEMMA LocksInv ==
  ASSUME SetInv, NEW u \in Setters, Lock(u) \/ ModeRaced(u) \/ SetFails(u) \/ ReadEnd(u)
  PROVE  SetInv'
<1>1. CASE Lock(u)
  <2>1. PICK r : /\ Becomes(u, r) /\ Fields(r) /\ r.pc = "set" /\ r.keys = scmd[u].keys
    BY <1>1, NextStep DEF Lock
  <2>2. Formed' /\ Promised'
    BY <1>1, <2>1, SettingsAlone, Zenon DEF Lock, Group, SetInv, Promised
  <2>3. Exclusive'
    BY <1>1, <2>1, LockFollows, SettersAssumption, Zenon DEF Lock
  <2> QED  BY <2>2, <2>3 DEF SetInv
<1>2. CASE ModeRaced(u) \/ SetFails(u) \/ ReadEnd(u)
  <2>1. /\ SetDone(u) /\ scmd[u].pc \in {"set", "read"} /\ UNCHANGED <<val, disk, cores, told, saveVars>>
        /\ \/ scmd[u].pc = "set" /\ slock' = "free" /\ sreaders' = sreaders
           \/ scmd[u].pc = "read" /\ slock' = slock /\ sreaders' = sreaders \ {u}
    BY <1>2 DEF ModeRaced, SetFails, ReadEnd
  <2>2. Formed' /\ Promised'
    BY <2>1, EndedCommand, SettingsAlone, Zenon
  <2>3. Exclusive'
    BY <2>1, EndedCommand, LockFollows, SettersAssumption DEF SetInv, Exclusive
  <2> QED  BY <2>2, <2>3 DEF SetInv
<1> QED  BY <1>1, <1>2

-----------------------------------------------------------------------------
\* While a command holds the write lock no other holds any.
LEMMA WriterAlone ==
  ASSUME SetInv, NEW u \in Setters, scmd[u].pc \in {"set", "save"}
  PROVE  /\ slock = u /\ slock # "free" /\ sreaders = {}
         /\ \A v \in Setters \ {u} : scmd[v].pc \notin {"set", "save", "flushing", "read"}
<1>1. slock = u /\ slock # "free"
  BY SettersAssumption DEF SetInv, Exclusive
<1> QED  BY <1>1 DEF SetInv, Exclusive

\* A step of the writer, seen from the other commands: what is left to show
\* is about the settings and its own record.
LEMMA WriterStep ==
  ASSUME SetInv, NEW u \in Setters, scmd[u].pc \in {"set", "save"}, NEW r, Becomes(u, r),
         Fields(r), Group(r), r.pc \in {"idle", "save", "signalled"},
         slock' = (IF r.pc = "save" THEN u ELSE "free"), UNCHANGED <<cores, sreaders>>,
         val' = [k \in Keys |-> val'[k]], disk' = [k \in Saved |-> disk'[k]],
         told' = [k \in Keys |-> told'[k]], \A s \in late' : s = [k \in Saved |-> s[k]], Behind',
         r.pc = "save" => Saving(r)',
         \A k \in Keys : (r.pc = "save" /\ k \in r.keys) \/ Agreed(k)'
  PROVE  SetInv'
<1>1. /\ scmd' = [v \in Setters |-> scmd'[v]] /\ scmd'[u] = r
      /\ \A v \in Setters \ {u} : scmd'[v] = scmd[v]
  BY OneCommand
<1>2. /\ slock = u /\ sreaders = {}
      /\ \A v \in Setters \ {u} : scmd[v].pc \notin {"set", "save", "flushing", "read"}
  BY WriterAlone
<1>3. Formed'
  BY <1>1, Zenon DEF SetInv, Formed
<1>4. Exclusive'
  BY <1>2, LockFollows, SettersAssumption DEF SetInv, Exclusive
<1>5. Promised'
  <2>1. \A k \in Keys : Unsaved(k)' \/ Agreed(k)'
    BY <1>1 DEF Unsaved
  <2>2. \A v \in Setters : scmd'[v].pc = "save" => v = u
    BY <1>1, <1>2
  <2>3. \A v \in Setters : scmd'[v].pc = "save" => Saving(scmd[v])'
    BY <1>1, <2>2, Zenon
  <2>4. \A v \in Setters : scmd'[v].pc # "read" => Group(scmd[v])'
    BY <1>1 DEF SetInv, Promised, Group
  <2>5. \A v \in Setters : scmd'[v].pc # "read"
    BY <1>1, <1>2
  <2> QED  BY <2>1, <2>3, <2>4, <2>5 DEF Promised
<1> QED  BY <1>3, <1>4, <1>5 DEF SetInv

\* What the settings are when the writer has not changed any.
LEMMA BeforeSet ==
  ASSUME SetInv, NEW u \in Setters, scmd[u].pc \in {"set", "save"}
  PROVE  /\ Group(scmd[u])
         /\ \A k \in Keys : (scmd[u].pc = "save" /\ k \in scmd[u].keys) \/ Agreed(k)
  BY WriterAlone, Zenon DEF SetInv, Promised, Unsaved

LEMMA ModeSetInv ==
  ASSUME SetInv, NEW u \in Setters, ModeSet(u)
  PROVE  SetInv'
<1>1. PICK r : /\ Becomes(u, r) /\ Fields(r) /\ r.pc = "save" /\ r.keys = scmd[u].keys
               /\ r.value = scmd[u].value /\ r.old = scmd[u].old
  BY NextStep DEF ModeSet
<1>2. /\ scmd[u].pc = "set" /\ r.keys = {"mode"} /\ val["mode"] = r.old
      /\ val' = [val EXCEPT !["mode"] = r.value]
      /\ risk' = (IF late = {} THEN risk ELSE risk \cup {"mode"})
      /\ UNCHANGED <<disk, cores, slock, sreaders, told, late>>
  BY <1>1 DEF ModeSet, Risked
<1>3. /\ \A k \in Keys : val'[k] = IF k = "mode" THEN r.value ELSE val[k]
      /\ val' = [k \in Keys |-> val'[k]] /\ "mode" \in Keys
  BY <1>2, Zenon DEF SetInv, Formed, Keys, Cached
<1>4. \A k \in Keys : Agreed(k)
  BY <1>2, BeforeSet
<1>5. Saving(r)'
  BY <1>2, <1>3, <1>4 DEF Saving, Agreed
<1>6. \A k \in Keys : k \in r.keys \/ Agreed(k)'
  BY <1>2, <1>3, <1>4 DEF Agreed
<1>7. Group(r)
  BY <1>2 DEF Group
<1>8. slock' = u
  BY <1>2, WriterAlone, Zenon
<1>9. Behind'
  BY <1>2, <1>3 DEF SetInv, Promised, Behind, Saved
<1>10. /\ disk' = [k \in Saved |-> disk'[k]] /\ told' = [k \in Keys |-> told'[k]]
       /\ \A s \in late' : s = [k \in Saved |-> s[k]]
  BY <1>2, Zenon DEF SetInv, Formed
<1> QED  BY <1>1, <1>2, <1>3, <1>5, <1>6, <1>7, <1>8, <1>9, <1>10, WriterStep, Zenon

LEMMA KeptSetInv ==
  ASSUME SetInv, NEW u \in Setters, KeptSet(u)
  PROVE  SetInv'
<1>1. PICK r : /\ Becomes(u, r) /\ Fields(r) /\ r.pc = "save" /\ r.keys = scmd[u].keys
               /\ r.value = scmd[u].value /\ r.old = scmd[u].old
  BY NextStep DEF KeptSet
<1>2. /\ scmd[u].pc = "set" /\ r.keys \notin {{"mode"}, {"unkept"}, {}}
      /\ val' = [k \in Keys |-> IF k \in r.keys \cap (Cached \cup cores) THEN r.value
                                ELSE val[k]]
      /\ told' = [k \in Keys |-> IF k \in r.keys THEN Unknown ELSE told[k]]
      /\ risk' = (IF late = {} THEN risk ELSE risk \cup r.keys)
      /\ UNCHANGED <<disk, cores, slock, sreaders, late>>
  BY <1>1, Zenon DEF KeptSet, Risked
<1>3. Group(r) /\ \A k \in Keys : Agreed(k)
  BY <1>1, <1>2, BeforeSet DEF Group
<1>4. r.keys \subseteq Keys
  BY <1>3 DEF Group, Keys, Cached
<1>5. Saving(r)'
  <2>1. \A k \in r.keys : told'[k] = Unknown
    BY <1>2, <1>4
  <2>2. \A k \in r.keys \cap (Cached \cup cores) : val'[k] = r.value
    BY <1>2, <1>4
  <2>3. late # {} => r.keys \subseteq risk'
    BY <1>2
  <2> QED  BY <1>2, <2>1, <2>2, <2>3 DEF Saving
<1>6. \A k \in Keys : k \in r.keys \/ Agreed(k)'
  BY <1>2, <1>3 DEF Agreed
<1>7. slock' = u
  BY <1>2, WriterAlone
<1>8. val' = [k \in Keys |-> val'[k]] /\ told' = [k \in Keys |-> told'[k]]
  BY <1>2, Zenon
<1>9. Behind'
  BY <1>2 DEF SetInv, Promised, Behind, Saved
<1>10. disk' = [k \in Saved |-> disk'[k]] /\ \A s \in late' : s = [k \in Saved |-> s[k]]
  BY <1>2, Zenon DEF SetInv, Formed
<1> QED  BY <1>1, <1>2, <1>3, <1>5, <1>6, <1>7, <1>8, <1>9, <1>10, WriterStep, Zenon

LEMMA UnkeptSetInv ==
  ASSUME SetInv, NEW u \in Setters, UnkeptSet(u)
  PROVE  SetInv'
<1>1. /\ scmd[u].pc = "set" /\ Becomes(u, NoSet) /\ Fields(NoSet) /\ NoSet.pc = "idle"
      /\ Group(NoSet)
  BY EndedCommand DEF UnkeptSet
<1>2. /\ val' = [val EXCEPT !["unkept"] = scmd[u].value]
      /\ told' = [told EXCEPT !["unkept"] = scmd[u].value]
      /\ slock' = "free" /\ UNCHANGED <<disk, cores, sreaders, late, risk>>
  BY DEF UnkeptSet, saveVars
<1>3. /\ \A k \in Keys : val'[k] = IF k = "unkept" THEN scmd[u].value ELSE val[k]
      /\ \A k \in Keys : told'[k] = IF k = "unkept" THEN scmd[u].value ELSE told[k]
      /\ val' = [k \in Keys |-> val'[k]] /\ told' = [k \in Keys |-> told'[k]]
  BY <1>2, Zenon DEF SetInv, Formed, Keys, Cached
<1>4. \A k \in Keys : Agreed(k)
  BY <1>1, BeforeSet, Zenon
<1>5. \A k \in Keys : Agreed(k)'
  BY <1>2, <1>3, <1>4, Zenon DEF Agreed
<1>6. Behind'
  BY <1>2, <1>3 DEF SetInv, Promised, Behind, Saved
<1>7. disk' = [k \in Saved |-> disk'[k]] /\ \A s \in late' : s = [k \in Saved |-> s[k]]
  BY <1>2, Zenon DEF SetInv, Formed
<1> QED  BY <1>1, <1>2, <1>3, <1>5, <1>6, <1>7, WriterStep, Zenon

\* What a save writes, seen key by key.
LEMMA ConfigurationIs ==
  ASSUME NEW v
  PROVE  /\ Configuration(v) = [k \in Saved |-> Configuration(v)[k]]
         /\ \A k \in Saved : Configuration(v)[k] = v[k]
  BY DEF Configuration

LEMMA SaveInv ==
  ASSUME SetInv, NEW u \in Setters, Save(u)
  PROVE  SetInv'
<1>1. /\ scmd[u].pc = "save" /\ Becomes(u, NoSet) /\ Fields(NoSet) /\ NoSet.pc = "idle"
      /\ Group(NoSet)
  BY EndedCommand DEF Save
<1>2. /\ disk' = Configuration(val) /\ UNCHANGED <<val, cores, sreaders, late>>
      /\ slock' = "free" /\ risk' = (IF late = {} THEN {} ELSE risk)
      /\ told' = [k \in Keys |-> IF k \in scmd[u].keys \cap (Cached \cup cores)
                                 THEN scmd[u].value ELSE told[k]]
  BY Zenon DEF Save
<1>3. Saving(scmd[u]) /\ \A k \in Keys : k \in scmd[u].keys \/ Agreed(k)
  BY <1>1, BeforeSet DEF SetInv, Promised
<1>4. ASSUME NEW k \in Keys PROVE Agreed(k)'
  <2>0. k # "unkept" => disk'[k] = val[k]
    BY <1>2, ConfigurationIs DEF Saved
  <2>1. CASE k \in scmd[u].keys \cap (Cached \cup cores)
    BY <1>2, <1>3, <2>0, <2>1 DEF Saving, Agreed
  <2>2. CASE k \notin scmd[u].keys
    BY <1>2, <1>3, <2>0, <2>2 DEF Agreed
  <2>3. CASE k \in scmd[u].keys /\ k \notin Cached \cup cores
    <3>1. scmd[u].keys # {"mode"}
      BY <2>3 DEF Cached
    <3> QED  BY <1>2, <1>3, <2>3, <3>1 DEF Saving, Agreed
  <2> QED  BY <2>1, <2>2, <2>3, Zenon
<1>5. val' = [k \in Keys |-> val'[k]] /\ told' = [k \in Keys |-> told'[k]]
  BY <1>2 DEF SetInv, Formed
<1>6. disk' = [k \in Saved |-> disk'[k]] /\ \A s \in late' : s = [k \in Saved |-> s[k]]
  BY <1>2, ConfigurationIs DEF SetInv, Formed
<1>7. Behind'
  BY <1>2 DEF SetInv, Promised, Behind
<1> QED  BY <1>1, <1>2, <1>4, <1>5, <1>6, <1>7, WriterStep, Zenon

\* Putting the old mode back agrees with what was reported.
LEMMA PutBack ==
  ASSUME SetInv, NEW u \in Setters, scmd[u].pc = "save", val' = AfterFailedSave(u),
         UNCHANGED <<disk, told>>, risk \subseteq risk'
  PROVE  /\ \A k \in Keys : Agreed(k)'
         /\ \A k \in Keys \ scmd[u].keys : val'[k] = val[k]
         /\ val' = [k \in Keys |-> val'[k]] /\ told' = [k \in Keys |-> told'[k]]
         /\ disk' = [k \in Saved |-> disk'[k]]
<1>1. Saving(scmd[u]) /\ \A k \in Keys : k \in scmd[u].keys \/ Agreed(k)
  BY BeforeSet DEF SetInv, Promised
<1>2. told' = [k \in Keys |-> told'[k]] /\ disk' = [k \in Saved |-> disk'[k]]
  BY Zenon DEF SetInv, Formed
<1>3. CASE scmd[u].keys = {"mode"}
  <2>1. /\ \A k \in Keys : val'[k] = IF k = "mode" THEN scmd[u].old ELSE val[k]
        /\ val' = [k \in Keys |-> val'[k]]
    BY <1>3, Zenon DEF AfterFailedSave, SetInv, Formed
  <2>2. ASSUME NEW k \in Keys PROVE Agreed(k)'
    BY <1>1, <1>3, <2>1 DEF Saving, Agreed
  <2> QED  BY <1>2, <1>3, <2>1, <2>2
<1>4. CASE scmd[u].keys # {"mode"}
  <2>1. val' = val
    BY <1>4 DEF AfterFailedSave
  <2>2. ASSUME NEW k \in Keys PROVE Agreed(k)'
    BY <1>1, <1>4, <2>1 DEF Saving, Agreed
  <2> QED  BY <1>2, <2>1, <2>2, Zenon DEF SetInv, Formed
<1> QED  BY <1>3, <1>4

LEMMA SaveFailsInv ==
  ASSUME SetInv, NEW u \in Setters, SaveFails(u)
  PROVE  SetInv'
<1>1. /\ scmd[u].pc = "save" /\ Becomes(u, NoSet) /\ Fields(NoSet) /\ NoSet.pc = "idle"
      /\ Group(NoSet)
  BY EndedCommand DEF SaveFails
<1>2. /\ UNCHANGED <<disk, cores, sreaders, told, late, risk>> /\ slock' = "free"
      /\ val' = AfterFailedSave(u)
  BY DEF SaveFails, saveVars
<1>3. Saving(scmd[u])
  BY <1>1 DEF SetInv, Promised
<1>4. /\ \A k \in Keys : Agreed(k)'
      /\ \A k \in Keys \ scmd[u].keys : val'[k] = val[k]
      /\ val' = [k \in Keys |-> val'[k]] /\ told' = [k \in Keys |-> told'[k]]
      /\ disk' = [k \in Saved |-> disk'[k]]
  BY <1>1, <1>2, PutBack
<1>5. Behind'
  BY <1>2, <1>3, <1>4 DEF SetInv, Promised, Behind, Saving, Saved
<1>6. \A s \in late' : s = [k \in Saved |-> s[k]]
  BY <1>2 DEF SetInv, Formed
<1> QED  BY <1>1, <1>2, <1>4, <1>5, <1>6, WriterStep, Zenon

LEMMA SaveInterruptedInv ==
  ASSUME SetInv, NEW u \in Setters, SaveInterrupted(u)
  PROVE  SetInv'
<1>0. PICK r : r = [NoSet EXCEPT !.pc = "signalled"]
  OBVIOUS
<1>1. /\ scmd[u].pc = "save" /\ Becomes(u, r) /\ Fields(r) /\ r.pc = "signalled" /\ Group(r)
  BY <1>0 DEF SaveInterrupted, Becomes, NoSet, Fields, Group
<1>2. /\ UNCHANGED <<disk, cores, sreaders, told>> /\ slock' = "free"
      /\ val' = AfterFailedSave(u) /\ late' = late \cup {Configuration(val)}
      /\ risk' = risk \cup scmd[u].keys
  BY DEF SaveInterrupted
<1>4. /\ \A k \in Keys : Agreed(k)'
      /\ \A k \in Keys \ scmd[u].keys : val'[k] = val[k]
      /\ val' = [k \in Keys |-> val'[k]] /\ told' = [k \in Keys |-> told'[k]]
      /\ disk' = [k \in Saved |-> disk'[k]]
  BY <1>1, <1>2, PutBack
<1>5. Behind'
  <2>1. ASSUME NEW s \in late', NEW k \in Saved \ risk' PROVE s[k] = val[k]
    BY <1>2, <2>1, ConfigurationIs DEF SetInv, Promised, Behind
  <2> QED  BY <1>2, <1>4, <2>1 DEF Behind, Saved
<1>6. \A s \in late' : s = [k \in Saved |-> s[k]]
  BY <1>2, ConfigurationIs DEF SetInv, Formed
<1> QED  BY <1>1, <1>2, <1>4, <1>5, <1>6, WriterStep, Zenon

LEMMA LateSaveInv == SetInv /\ LateSave => SetInv'
<1> SUFFICES ASSUME SetInv, LateSave PROVE SetInv'
  OBVIOUS
<1>1. PICK s \in late : disk' \in {s, Configuration(val)} /\ late' = late \ {s}
  BY DEF LateSave
<1>2. UNCHANGED <<val, cores, slock, sreaders, scmd, told, risk>>
  BY DEF LateSave
<1>3. disk' = [k \in Saved |-> disk'[k]] /\ \A k \in Saved \ risk : disk'[k] = val[k]
  <2>1. CASE disk' = s
    BY <1>1, <2>1, Zenon DEF SetInv, Formed, Promised, Behind
  <2>2. CASE disk' = Configuration(val)
    <3>1. disk' = [k \in Saved |-> disk'[k]]
      BY <2>2, ConfigurationIs, Zenon
    <3>2. ASSUME NEW k \in Saved PROVE disk'[k] = val[k]
      BY <2>2, ConfigurationIs
    <3> QED  BY <3>1, <3>2
  <2> QED  BY <1>1, <2>1, <2>2
<1>4. Formed'
  BY <1>1, <1>2, <1>3 DEF SetInv, Formed, Fields
<1>5. Exclusive'
  BY <1>2, Zenon DEF SetInv, Exclusive
<1>6. ASSUME NEW k \in Keys PROVE Unsaved(k)' \/ Agreed(k)'
  BY <1>2, <1>3 DEF SetInv, Promised, Unsaved, Agreed, Saved
<1>7. ASSUME NEW u \in Setters, scmd[u].pc = "save" PROVE Saving(scmd[u])'
  BY <1>1, <1>2, <1>7 DEF SetInv, Promised, Saving
<1>8. Behind'
  BY <1>1, <1>2 DEF SetInv, Promised, Behind
<1>9. /\ \A u \in Setters : scmd'[u].pc # "read" => Group(scmd[u])'
      /\ \A u \in Setters : scmd'[u].pc = "read" =>
           scmd'[u].got = [k \in scmd'[u].keys |-> val'[k]]
  BY <1>2, Zenon DEF SetInv, Promised, Group
<1>10. Promised'
  BY <1>2, <1>6, <1>7, <1>8, <1>9 DEF Promised
<1> QED  BY <1>4, <1>5, <1>10 DEF SetInv

\* With the lock free and no reader no command is between a change and its
\* save, or in the middle of its reading.
LEMMA NobodyInside ==
  ASSUME SetInv, slock = "free", sreaders = {}
  PROVE  /\ \A k \in Keys : Agreed(k)
         /\ \A u \in Setters : scmd[u].pc \notin {"set", "save", "flushing", "read"}
<1>1. \A u \in Setters : scmd[u].pc \notin {"set", "save", "flushing", "read"}
  BY SettersAssumption, Zenon DEF SetInv, Exclusive
<1> QED  BY <1>1 DEF SetInv, Promised, Unsaved

LEMMA CoreChangesInv == SetInv /\ CoreChanges => SetInv'
<1> SUFFICES ASSUME SetInv, CoreChanges PROVE SetInv'
  OBVIOUS
<1>1. PICK c \in Cores : /\ cores' = IF c \in cores THEN cores \ {c} ELSE cores \cup {c}
                         /\ val' = [val EXCEPT ![c] = 0]
                         /\ told' = [told EXCEPT ![c] = Unknown]
                         /\ disk' = Configuration(val')
                         /\ risk' = IF late = {} THEN {} ELSE risk \cup {c}
  BY Zenon DEF CoreChanges
<1>2. slock = "free" /\ sreaders = {} /\ UNCHANGED <<slock, sreaders, scmd, late>>
  BY Zenon DEF CoreChanges
<1>3. c \in Keys /\ cores' \subseteq Cores
  BY <1>1 DEF Keys, SetInv, Formed
<1>4. /\ \A k \in Keys : val'[k] = IF k = c THEN 0 ELSE val[k]
      /\ \A k \in Keys : told'[k] = IF k = c THEN Unknown ELSE told[k]
      /\ val' = [k \in Keys |-> val'[k]] /\ told' = [k \in Keys |-> told'[k]]
  BY <1>1, <1>3, Zenon DEF SetInv, Formed
<1>5. disk' = [k \in Saved |-> disk'[k]] /\ \A k \in Saved : disk'[k] = val'[k]
  BY <1>1, ConfigurationIs, Zenon
<1>6. \A k \in Keys : Agreed(k)'
  BY <1>1, <1>4, <1>5, <1>2, NobodyInside DEF Agreed, Saved
<1>7. Formed'
  BY <1>2, <1>3, <1>4, <1>5 DEF SetInv, Formed, Fields
<1>8. Exclusive'
  BY <1>2, Zenon DEF SetInv, Exclusive
<1>9. \A u \in Setters : scmd'[u].pc \notin {"save", "read"} /\ Group(scmd[u])'
  BY <1>2, NobodyInside DEF SetInv, Promised, Group
<1>10. Behind'
  BY <1>1, <1>2, <1>4 DEF SetInv, Promised, Behind, Saved
<1> QED  BY <1>6, <1>7, <1>8, <1>9, <1>10 DEF SetInv, Promised

LEMMA ReloadInv == SetInv /\ Reload => SetInv'
<1> SUFFICES ASSUME SetInv, Reload PROVE SetInv'
  OBVIOUS
<1>1. PICK v : val' = [k \in Keys |-> IF k = "unkept" THEN v ELSE disk[k]]
  BY Zenon DEF Reload
<1>2. /\ told' = [k \in Keys |-> IF k \in risk \cup {"unkept"} THEN Unknown ELSE told[k]]
      /\ late' = {} /\ risk' = {} /\ slock' = "free" /\ sreaders' = {}
      /\ scmd' = [u \in Setters |-> NoSet] /\ disk' = disk
  BY Zenon DEF Reload
<1>3. cores' \subseteq Cores
  BY DEF Reload, SetInv, Formed
<1>4. ASSUME NEW k \in Keys PROVE Agreed(k)'
  <2> SUFFICES ASSUME k \notin risk \cup {"unkept"}, told[k] # Unknown PROVE disk[k] = told[k]
    BY <1>1, <1>2 DEF Agreed
  <2>1. CASE Agreed(k)
    BY <2>1 DEF Agreed
  <2>2. CASE Unsaved(k)
    BY <2>2 DEF Unsaved, SetInv, Promised, Saving
  <2> QED  BY <2>1, <2>2 DEF SetInv, Promised
<1>5. Formed'
  <2>1. \A u \in Setters : Fields(scmd'[u])
    BY <1>2, Fresh
  <2> QED  BY <1>1, <1>2, <1>3, <2>1 DEF SetInv, Formed, Fields
<1>6. \A u \in Setters : scmd'[u].pc = "idle" /\ scmd'[u].keys = {}
  BY <1>2 DEF NoSet
<1>7. Exclusive'
  BY <1>2, <1>6, SettersAssumption DEF Exclusive
<1>8. Promised'
  BY <1>2, <1>4, <1>6 DEF Promised, Behind, Group
<1> QED  BY <1>5, <1>7, <1>8 DEF SetInv

-----------------------------------------------------------------------------

\* Who holds the lock, that every setting a command has reported is in force,
\* and saved unless a save that nobody waits for puts it at risk, unless a
\* command stands between a change of it and its save, and that such a save
\* knows no other value of the settings that are not at risk.
THEOREM SettingsInvariant == SetSpec => []SetInv
<1>1. SetInv /\ [SetNext]_setVars => SetInv'
  <2> SUFFICES ASSUME SetInv, [SetNext]_setVars PROVE SetInv'
    OBVIOUS
  <2>1. CASE UNCHANGED setVars
    <3>1. Formed' /\ Exclusive'
      BY <2>1 DEF setVars, SetInv, Formed, Fields, Exclusive
    <3>2. Promised'
      BY <2>1, Zenon DEF setVars, SetInv, Promised, Agreed, Saving, Unsaved, Group, Behind
    <3> QED  BY <3>1, <3>2, Zenon DEF SetInv
  <2>2. CASE CoreChanges \/ LateSave \/ Reload
    BY <2>2, CoreChangesInv, LateSaveInv, ReloadInv
  <2>3. ASSUME NEW u \in Setters,
               \/ SetMode(u) \/ FlushDevice(u) \/ FlushBegin(u) \/ FlushEnd(u)
               \/ SetCacheParams(u) \/ SetCoreParams(u) \/ ResetStats(u)
               \/ Lock(u) \/ LockInterrupted(u) \/ ModeRaced(u) \/ SetFails(u)
        PROVE  SetInv'
    BY <2>3, AsksInv, FlushInv, LocksInv
  <2>4. ASSUME NEW u \in Setters,
               \/ ModeSet(u) \/ KeptSet(u) \/ UnkeptSet(u) \/ Save(u) \/ SaveFails(u)
               \/ SaveInterrupted(u)
        PROVE  SetInv'
    BY <2>4, ModeSetInv, KeptSetInv, UnkeptSetInv, SaveInv, SaveFailsInv, SaveInterruptedInv
  <2>5. ASSUME NEW u \in Setters,
               \/ GetInfo(u) \/ GetIoClassInfo(u) \/ GetStats(u) \/ GetCacheParams(u)
               \/ GetCoreInfo(u) \/ GetCoreParams(u) \/ ReadCoreParam(u) \/ ReadEnd(u)
        PROVE  SetInv'
    BY <2>5, ReadInv, AsksInv, LocksInv, Zenon DEF GetInfo, GetIoClassInfo, GetStats,
       GetCacheParams, GetCoreInfo, ReadCoreParam
  <2> QED  BY <2>1, <2>2, <2>3, <2>4, <2>5 DEF SetNext
<1> QED  BY <1>1, SetInitInv, PTL DEF SetSpec

\* A setting that a command has reported stays in force and survives a power
\* loss at any moment, with the exceptions SettingsKept names, and what a
\* reading command collects is the state of one moment, for any number of
\* concurrent commands and saves nobody waits for, any cores and any modes.
THEOREM SettingsStay == SetSpec => []SettingsKept
<1>1. SetInv => SettingsKept
  <2> SUFFICES ASSUME SetInv PROVE SettingsKept
    OBVIOUS
  <2>1. slock = "free" => \A k \in Keys : Agreed(k)
    <3>1. slock = "free" => \A u \in Setters : scmd[u].pc # "save"
      BY SettersAssumption DEF SetInv, Exclusive
    <3> QED  BY <3>1 DEF SetInv, Promised, Unsaved
  <2> QED  BY <2>1 DEF SettingsKept, Agreed, SetInv, Promised
<1> QED  BY <1>1, SettingsInvariant, PTL

-----------------------------------------------------------------------------
(* The ids of cores. *)

\* The constants are ids, finitely many commands and names for them.
WellFormed == Ids \subseteq Nat /\ IsFiniteSet(Users) /\ "free" \notin Users

Locking == {"adding", "export", "removing"}
Work == Locking \cup {"flushed"}
Working == {u \in Users : cmd[u].pc \in {"adding", "export", "flushed", "removing"}}

CmdRecord == [pc : Work \cup {"idle", "prepared"}, kind : {"none", "add", "remove", "detach"},
              id : Ids \cup {AnyId}, try : BOOLEAN]

IdTyped ==
    /\ cache \in {"absent", "run"} /\ stored \subseteq Ids /\ bitmap \subseteq Ids
    /\ core \in [Ids -> {"none", "active", "inactive"}]
    /\ cmd \in [Users -> CmdRecord]
    /\ lock \in Users \cup {"free"}
    /\ refs \in Nat /\ leaked \in Nat

\* What a command knows of the lock, the cache and its core.
Standing(u) ==
    /\ cmd[u].pc \in Locking <=> lock = u
    /\ cmd[u].pc \in Work => cache = "run"
    /\ cmd[u].pc # "idle" => cmd[u].id \in Ids
    /\ cmd[u].pc \in {"export", "removing"} => core[cmd[u].id] = "active"

\* Without a cache there are no cores and no references.
Absent == cache = "absent" => leaked = 0 /\ \A i \in Ids : core[i] = "none"

\* A core without its bit is being exported.
Marked ==
    cache = "run" =>
      /\ drift \cap {"connect", "rollback"} = {} =>
           \A i \in Ids : core[i] # "none" =>
             i \in bitmap \/ \E u \in Users : cmd[u].pc = "export" /\ cmd[u].id = i
      /\ "leftover" \notin drift => \A i \in bitmap : core[i] # "none"

Referenced == refs = leaked + Cardinality(Working)

IdInv == IdTyped /\ (\A u \in Users : Standing(u)) /\ Absent /\ Marked /\ Referenced

-----------------------------------------------------------------------------
(* What the lemmas use of sets.  They assume it and the theorem discharges *)
(* it, so that the library's theorems are not in the way of every step.    *)
SetFacts ==
    /\ \A S \in SUBSET Nat : S # {} => \E x \in S : \A y \in S : x <= y
    /\ \A S : IsFiniteSet(S) => \A T \in SUBSET S : IsFiniteSet(T)
    /\ Cardinality({}) = 0
    /\ \A S : IsFiniteSet(S) => Cardinality(S) \in Nat /\ (Cardinality(S) = 0 <=> S = {})
    /\ \A S, x : IsFiniteSet(S) =>
          /\ x \notin S => Cardinality(S \cup {x}) = Cardinality(S) + 1
          /\ x \in S => Cardinality(S \ {x}) = Cardinality(S) - 1

\* The least of some ids is one of them.
LEMMA MinIn ==
  ASSUME SetFacts, NEW S, S \subseteq Nat, S # {}
  PROVE  Min(S) \in S
<1>1. PICK x \in S : \A y \in S : x <= y
  BY DEF SetFacts
<1> QED  BY <1>1, Zenon DEF Min

\* The free id that is chosen is an id.
LEMMA FreeIdIn ==
  ASSUME SetFacts, WellFormed, NEW used, Ids \ used # {}
  PROVE  FindFreeCoreId(used) \in Ids
<1>1. CASE Ids \subseteq used \cup {0}
  <2>1. Min(Ids \ used) \in Ids \ used
    BY MinIn DEF WellFormed
  <2> QED  BY <1>1, <2>1, Zenon DEF FindFreeCoreId
<1>2. CASE ~(Ids \subseteq used \cup {0})
  <2>1. Min(Ids \ (used \cup {0})) \in Ids \ (used \cup {0})
    BY <1>2, MinIn DEF WellFormed
  <2> QED  BY <1>2, <2>1, Zenon DEF FindFreeCoreId
<1> QED  BY <1>1, <1>2

\* What the steps of a command make of it and leave of the others.
Changed(u, p, i) ==
    /\ cmd' \in [Users -> CmdRecord]
    /\ cmd'[u].pc = p /\ cmd'[u].id = i
    /\ \A w \in Users \ {u} : cmd'[w] = cmd[w]

LEMMA ToEffect ==
  ASSUME IdTyped, NEW u \in Users, NEW p \in Work, To(u, p)
  PROVE  Changed(u, p, cmd[u].id)
<1>1. cmd[u] \in CmdRecord
  BY DEF IdTyped
<1>2. [cmd[u] EXCEPT !.pc = p] \in CmdRecord
  BY <1>1, Zenon DEF CmdRecord
<1>3. cmd' = [cmd EXCEPT ![u] = [cmd[u] EXCEPT !.pc = p]]
  BY Zenon DEF To, IdTyped
<1>4. cmd' \in [Users -> CmdRecord]
  BY <1>2, <1>3 DEF IdTyped
<1>5. cmd'[u] = [cmd[u] EXCEPT !.pc = p]
  BY <1>3 DEF IdTyped
<1>6. cmd'[u].pc = p /\ cmd'[u].id = cmd[u].id
  BY <1>1, <1>5 DEF CmdRecord
<1> QED  BY <1>3, <1>4, <1>6 DEF Changed, IdTyped

LEMMA DoneEffect ==
  ASSUME IdTyped, NEW u \in Users, Done(u)
  PROVE  Changed(u, "idle", AnyId)
<1>1. NoCmd \in CmdRecord /\ NoCmd.pc = "idle" /\ NoCmd.id = AnyId
  BY DEF NoCmd, CmdRecord, Work, Locking
<1>2. cmd' = [cmd EXCEPT ![u] = NoCmd]
  BY DEF Done
<1> QED  BY <1>1, <1>2 DEF Changed, IdTyped

LEMMA BeginEffect ==
  ASSUME IdTyped, NEW u \in Users, NEW p \in {"prepared", "flushed"},
         NEW i \in Ids, NEW r, r.pc = p, r.id = i, r \in CmdRecord, cmd' = [cmd EXCEPT ![u] = r]
  PROVE  Changed(u, p, i)
  BY Zenon DEF Changed, IdTyped

\* References follow the commands at work.
LEMMA WorkingFinite ==
  ASSUME SetFacts
  PROVE  WellFormed => IsFiniteSet(Working) /\ Cardinality(Working) \in Nat
  BY DEF WellFormed, Working, SetFacts

LEMMA WorkingSame ==
  ASSUME NEW u \in Users, NEW p, NEW i, Changed(u, p, i), p \in Work <=> cmd[u].pc \in Work
  PROVE  Working' = Working
  BY DEF Changed, Working, Work, Locking

LEMMA WorkingMore ==
  ASSUME SetFacts, WellFormed, NEW u \in Users, NEW p \in Work, NEW i, Changed(u, p, i),
         cmd[u].pc \notin Work
  PROVE  Cardinality(Working') = Cardinality(Working) + 1
<1>1. Working' = Working \cup {u} /\ u \notin Working
  BY DEF Changed, Working, Work, Locking
<1> QED  BY <1>1, WorkingFinite, Zenon DEF SetFacts

LEMMA WorkingLess ==
  ASSUME SetFacts, WellFormed, NEW u \in Users, NEW p, p \notin Work, NEW i,
         Changed(u, p, i), cmd[u].pc \in Work
  PROVE  Cardinality(Working') = Cardinality(Working) - 1
<1>1. Working' = Working \ {u} /\ u \in Working
  BY Zenon DEF Changed, Working, Work, Locking
<1> QED  BY <1>1, WorkingFinite, Zenon DEF SetFacts

LEMMA InitIdInv ==
  ASSUME SetFacts
  PROVE  WellFormed /\ IdInit => IdInv
<1> SUFFICES ASSUME WellFormed, IdInit PROVE IdInv
  OBVIOUS
<1>1. NoCmd \in CmdRecord /\ NoCmd.pc = "idle"
  BY DEF NoCmd, CmdRecord, Work, Locking
<1>2. \A u \in Users : cmd[u].pc = "idle"
  BY <1>1 DEF IdInit
<1>3. IdTyped
  BY <1>1 DEF IdInit, IdTyped
<1>4. \A u \in Users : Standing(u)
  BY <1>2 DEF IdInit, Standing, WellFormed, Work, Locking
<1>5. Working = {}
  BY <1>2 DEF Working
<1>6. Referenced
  BY <1>5 DEF IdInit, Referenced, SetFacts
<1> QED  BY <1>3, <1>4, <1>6, Zenon DEF IdInit, IdInv, Absent, Marked

-----------------------------------------------------------------------------
(* Starting and stopping the cache. *)

\* Without a cache no command is at work.
LEMMA NobodyWorks ==
  ASSUME IdInv, cache = "absent"
  PROVE  lock = "free" /\ \A u \in Users : cmd[u].pc \notin Work
<1>1. \A u \in Users : cmd[u].pc \notin Work
  BY DEF IdInv, Standing
<1>2. \A u \in Users : lock # u
  BY <1>1, Zenon DEF IdInv, Standing, Work
<1> QED  BY <1>1, <1>2, Zenon DEF IdInv, IdTyped

LEMMA StartedKeeps ==
  ASSUME WellFormed, IdInv, cache = "absent", cache' = "run", leaked' = 0,
         core' \in [Ids -> {"none", "active", "inactive"}],
         stored' \subseteq Ids, bitmap' \subseteq Ids, UNCHANGED <<lock, cmd, refs>>,
         drift' = {"connect"} \/ \A i \in Ids : core'[i] # "none" => i \in bitmap',
         \A i \in bitmap' : core'[i] # "none"
  PROVE  IdInv'
<1>1. lock = "free" /\ \A u \in Users : cmd[u].pc \notin Work
  BY NobodyWorks
<1>2. IdTyped'
  BY Zenon DEF IdInv, IdTyped
<1>3. ASSUME NEW u \in Users PROVE Standing(u)'
  BY <1>1, Zenon DEF IdInv, Standing, Work, Locking
<1>4. Working' = Working
  BY DEF Working
<1>5. Referenced'
  BY <1>4, Zenon DEF IdInv, Referenced, Absent
<1> QED  BY <1>2, <1>3, <1>5, Zenon DEF IdInv, Absent, Marked

LEMMA StartNewKeeps ==
  ASSUME WellFormed, IdInv, StartNew
  PROVE  IdInv'
<1>1. \A i \in Ids : core[i] = "none"
  BY DEF IdInv, Absent, StartNew
<1> QED  BY <1>1, StartedKeeps DEF IdInv, IdTyped, StartNew

LEMMA RestoreKeeps ==
  ASSUME WellFormed, IdInv, StartLoad \/ Connect
  PROVE  IdInv'
<1>1. PICK active \in SUBSET stored :
        core' = [i \in Ids |-> IF i \in active THEN "active"
                               ELSE IF i \in stored THEN "inactive" ELSE "none"]
  BY Zenon DEF StartLoad, Connect, Restore
<1>2. /\ cache = "absent" /\ cache' = "run" /\ leaked' = 0 /\ UNCHANGED <<stored, lock, cmd, refs>>
      /\ bitmap' = stored \/ (bitmap' = {} /\ drift' = {"connect"})
  BY DEF StartLoad, Connect, Restore
<1>3. stored \subseteq Ids
  BY DEF IdInv, IdTyped
<1>4. core' \in [Ids -> {"none", "active", "inactive"}]
  BY <1>1
<1>5. \A i \in Ids : core'[i] # "none" <=> i \in stored
  BY <1>1, Zenon
<1> QED  BY <1>2, <1>3, <1>4, <1>5, StartedKeeps, Zenon

LEMMA StopKeeps ==
  ASSUME SetFacts, WellFormed, IdInv, Stop
  PROVE  IdInv'
<1>1. /\ lock = "free" /\ refs = leaked /\ cache' = "absent" /\ bitmap' = {} /\ drift' = {}
      /\ refs' = 0 /\ leaked' = 0 /\ core' = [i \in Ids |-> "none"]
      /\ UNCHANGED <<stored, pool, lock, cmd>>
  BY DEF Stop
<1>2. Cardinality(Working) = 0
  BY <1>1, WorkingFinite DEF IdInv, Referenced, IdTyped
<1>3. Working = {}
  BY <1>2, WorkingFinite, Zenon DEF SetFacts
<1>4. \A u \in Users : cmd[u].pc \notin Work
  BY <1>3 DEF Working, Work, Locking
<1>5. IdTyped'
  BY <1>1, Zenon DEF IdInv, IdTyped
<1>6. ASSUME NEW u \in Users PROVE Standing(u)'
  BY <1>1, <1>4, Zenon DEF IdInv, Standing, Work, Locking
<1>7. Working' = {}
  BY <1>1, <1>3, Zenon DEF Working
<1>8. Referenced'
  BY <1>1, <1>7 DEF Referenced, SetFacts
<1> QED  BY <1>1, <1>5, <1>6, <1>8, Zenon DEF IdInv, Absent, Marked

-----------------------------------------------------------------------------
(* Commands that change neither cores nor bits. *)

LEMMA IdleKeeps ==
  ASSUME WellFormed, IdInv, NEW u \in Users, NEW p, NEW i, Changed(u, p, i),
         p \in {"idle", "prepared"}, cmd[u].pc \in {"idle", "prepared"},
         p = "idle" \/ i \in Ids,
         UNCHANGED <<cache, stored, core, bitmap, lock, refs, leaked, drift>>
  PROVE  IdInv'
<1>1. IdTyped'
  BY Zenon DEF IdInv, IdTyped, Changed
<1>2. ASSUME NEW w \in Users PROVE Standing(w)'
  <2>1. CASE w = u
    BY <2>1, Zenon DEF IdInv, Standing, Changed, Work, Locking
  <2>2. CASE w # u
    BY <2>2, Zenon DEF IdInv, Standing, Changed
  <2> QED  BY <2>1, <2>2, Zenon
<1>3. Working' = Working
  BY WorkingSame DEF Work, Locking
<1>4. Referenced'
  BY <1>3, Zenon DEF IdInv, Referenced
<1>5. Marked'
  BY DEF IdInv, Marked, Changed
<1> QED  BY <1>1, <1>2, <1>4, <1>5, Zenon DEF IdInv, Absent

LEMMA PrepareKeeps ==
  ASSUME SetFacts, WellFormed, IdInv, NEW u \in Users, PrepareGiven(u) \/ PrepareAuto(u)
  PROVE  IdInv'
<1>1. NoCmd \in CmdRecord
  BY SMTT(30) DEF NoCmd, CmdRecord, Work, Locking
<1>2. CASE PrepareGiven(u)
  <2>1. PICK i \in Ids, t \in BOOLEAN :
          cmd' = [cmd EXCEPT ![u] = [NoCmd EXCEPT !.pc = "prepared", !.kind = "add",
                                                  !.id = i, !.try = t]]
    BY <1>2, Zenon DEF PrepareGiven
  <2> DEFINE r == [NoCmd EXCEPT !.pc = "prepared", !.kind = "add", !.id = i, !.try = t]
  <2>2. r \in CmdRecord /\ r.pc = "prepared" /\ r.id = i
    BY <1>1, Zenon DEF CmdRecord
  <2>3. cmd' = [cmd EXCEPT ![u] = r]
    BY <2>1
  <2> HIDE DEF r
  <2>4. Changed(u, "prepared", i)
    BY <2>2, <2>3, BeginEffect, Zenon DEF IdInv
  <2> QED  BY <1>2, <2>4, IdleKeeps, ZenonT(60) DEF PrepareGiven
<1>3. CASE PrepareAuto(u)
  <2> DEFINE i == FindFreeCoreId(bitmap)
             r == [NoCmd EXCEPT !.pc = "prepared", !.kind = "add", !.id = i]
  <2>1. i \in Ids
    BY <1>3, FreeIdIn DEF PrepareAuto
  <2>3. cmd' = [cmd EXCEPT ![u] = r]
    BY <1>3 DEF PrepareAuto
  <2> HIDE DEF i
  <2>4. r \in CmdRecord /\ r.pc = "prepared" /\ r.id = i
    BY <1>1, <2>1, Zenon DEF CmdRecord
  <2> HIDE DEF r
  <2>5. Changed(u, "prepared", i)
    BY <2>1, <2>3, <2>4, BeginEffect, Zenon DEF IdInv
  <2> QED  BY <1>3, <2>1, <2>5, IdleKeeps, Zenon DEF PrepareAuto
<1> QED  BY <1>2, <1>3, Zenon

\* The reference that is forgotten is counted as leaked.
LEMMA PrepareFullKeeps ==
  ASSUME SetFacts, WellFormed, IdInv, NEW u \in Users, PrepareFull(u)
  PROVE  IdInv'
<1>1. /\ cache = "run" /\ leaked = 0 /\ refs' = refs + 1 /\ leaked' = 1
      /\ UNCHANGED <<cache, stored, core, bitmap, pool, lock, cmd, drift>>
  BY Zenon DEF PrepareFull
<1>2. IdTyped'
  BY <1>1 DEF IdInv, IdTyped
<1>3. Working' = Working
  BY <1>1, Zenon DEF Working
<1>4. Referenced'
  BY <1>1, <1>3, WorkingFinite DEF IdInv, Referenced
<1>5. ASSUME NEW w \in Users PROVE Standing(w)'
  BY <1>1, Zenon DEF IdInv, Standing
<1> QED  BY <1>1, <1>2, <1>4, <1>5, Zenon DEF IdInv, Absent, Marked

LEMMA AddNoCacheKeeps ==
  ASSUME WellFormed, IdInv, NEW u \in Users, AddNoCache(u)
  PROVE  IdInv'
<1>1. /\ cmd[u].pc = "prepared" /\ Done(u)
      /\ UNCHANGED <<cache, stored, core, bitmap, lock, refs, leaked, drift>>
  BY DEF AddNoCache
<1>2. Changed(u, "idle", AnyId)
  BY <1>1, DoneEffect, Zenon DEF IdInv
<1> QED  BY <1>1, <1>2, IdleKeeps, Zenon

-----------------------------------------------------------------------------
(* Under the management lock. *)

LEMMA Holder ==
  ASSUME IdInv, NEW u \in Users, cmd[u].pc \in Locking
  PROVE  /\ lock = u /\ cache = "run" /\ cmd[u].id \in Ids
         /\ \A w \in Users \ {u} : cmd[w].pc \notin Locking
  BY DEF IdInv, Standing, Locking, Work

LEMMA NoHolder ==
  ASSUME WellFormed, IdInv, lock = "free"
  PROVE  \A w \in Users : cmd[w].pc \notin Locking
  BY Zenon DEF IdInv, Standing, WellFormed

\* A command takes the lock.
LEMMA LockKeeps ==
  ASSUME SetFacts, WellFormed, IdInv, NEW u \in Users, lock = "free", lock' = u,
         cache = "run", NEW p \in {"adding", "removing"}, Changed(u, p, cmd[u].id), cmd[u].pc # "idle",
         p = "removing" => core[cmd[u].id] = "active",
         (cmd[u].pc \notin Work /\ refs' = refs + 1) \/ (cmd[u].pc \in Work /\ refs' = refs),
         UNCHANGED <<cache, stored, core, bitmap, leaked, drift>>
  PROVE  IdInv'
<1>1. \A w \in Users : cmd[w].pc \notin Locking
  BY NoHolder, Zenon
<1>2. IdTyped'
  BY DEF IdInv, IdTyped, Changed
<1>3. ASSUME NEW w \in Users PROVE Standing(w)'
  <2>1. CASE w = u
    BY <2>1 DEF IdInv, Standing, Changed, Work, Locking
  <2>2. CASE w # u
    <3>1. cmd'[w] = cmd[w] /\ cmd[w].pc \notin Locking /\ lock' # w
      BY <1>1, <2>2, Zenon DEF Changed
    <3> QED  BY <3>1, ZenonT(60) DEF IdInv, Standing, Locking
  <2> QED  BY <2>1, <2>2, ZenonT(60)
<1>4. Referenced'
  <2>1. CASE cmd[u].pc \notin Work
    <3>1. Cardinality(Working') = Cardinality(Working) + 1
      BY <2>1, WorkingMore, Zenon DEF Work, Locking
    <3> QED  BY <2>1, <3>1, WorkingFinite, SMTT(30) DEF IdInv, IdTyped, Referenced
  <2>2. CASE cmd[u].pc \in Work
    <3>1. Working' = Working
      BY <2>2, WorkingSame, Zenon DEF Work, Locking
    <3> QED  BY <2>2, <3>1, Zenon DEF IdInv, Referenced
  <2> QED  BY <2>1, <2>2, Zenon
<1>5. Marked'
  BY <1>1, Zenon DEF IdInv, Marked, Locking
<1> QED  BY <1>2, <1>3, <1>4, <1>5, Zenon DEF IdInv, Absent

\* The holder of the lock leaves bits and cores in step.
LEMMA UnlockKeeps ==
  ASSUME SetFacts, WellFormed, IdInv, NEW u \in Users, cmd[u].pc \in Locking, Unlock(u),
         core' \in [Ids -> {"none", "active", "inactive"}],
         stored' \subseteq Ids, bitmap' \subseteq Ids, UNCHANGED <<cache, leaked>>,
         drift' \cap {"connect", "rollback"} = {} =>
             \A i \in Ids : core'[i] # "none" => i \in bitmap',
         "leftover" \notin drift' => \A i \in bitmap' : core'[i] # "none"
  PROVE  IdInv'
<1>1. /\ lock = u /\ cache = "run" /\ \A w \in Users \ {u} : cmd[w].pc \notin Locking
  BY Holder, Zenon
<1>2. Changed(u, "idle", AnyId)
  BY DoneEffect DEF Unlock, IdInv
<1>3. lock' = "free" /\ refs' = refs - 1
  BY Zenon DEF Unlock
<1>4. Cardinality(Working') = Cardinality(Working) - 1
  BY <1>2, WorkingLess, Zenon DEF Work, Locking
<1>5. IsFiniteSet(Working) /\ Working # {}
  BY WorkingFinite, Zenon DEF Working, Locking
<1>6. Cardinality(Working) \in Nat /\ Cardinality(Working) # 0
  BY <1>5, Zenon DEF SetFacts
<1>7. Referenced' /\ refs' \in Nat
  BY <1>3, <1>4, <1>6 DEF IdInv, IdTyped, Referenced
<1>8. IdTyped'
  BY <1>2, <1>3, <1>7, Zenon DEF IdInv, IdTyped, Changed
<1>9. ASSUME NEW w \in Users PROVE Standing(w)'
  <2>1. CASE w = u
    BY <1>2, <1>3, <2>1, Zenon DEF Standing, Changed, Work, Locking, WellFormed
  <2>2. CASE w # u
    <3>1. cmd'[w] = cmd[w] /\ cmd[w].pc \notin Locking /\ lock' # w
      BY <1>1, <1>2, <1>3, <2>2, Zenon DEF Changed, WellFormed
    <3> QED  BY <3>1, Zenon DEF IdInv, Standing, Locking
  <2> QED  BY <2>1, <2>2, Zenon
<1> QED  BY <1>1, <1>7, <1>8, <1>9, Zenon DEF IdInv, Absent, Marked

\* What holds of bits and cores under the lock.
LEMMA MarkedUnderLock ==
  ASSUME IdInv, NEW u \in Users, cmd[u].pc \in Locking
  PROVE  /\ drift \cap {"connect", "rollback"} = {} =>
              \A i \in Ids : core[i] # "none" =>
                 i \in bitmap \/ (cmd[u].pc = "export" /\ cmd[u].id = i)
         /\ "leftover" \notin drift => \A i \in bitmap : core[i] # "none"
<1>1. cache = "run" /\ \A w \in Users \ {u} : cmd[w].pc # "export"
  BY Holder, Zenon DEF Locking
<1> QED  BY <1>1 DEF IdInv, Marked

LEMMA AddLockKeeps ==
  ASSUME SetFacts, WellFormed, IdInv, NEW u \in Users, AddLock(u)
  PROVE  IdInv'
<1>1. /\ cmd[u].pc = "prepared" /\ cache = "run" /\ lock = "free" /\ lock' = u
      /\ refs' = refs + 1 /\ To(u, "adding")
      /\ UNCHANGED <<cache, stored, core, bitmap, leaked, drift>>
  BY Zenon DEF AddLock
<1>2. Changed(u, "adding", cmd[u].id)
  BY <1>1, ToEffect, Zenon DEF IdInv, Work, Locking
<1>3. cmd[u].pc \notin Work
  BY <1>1, Zenon DEF Work, Locking
<1> QED  BY <1>1, <1>2, <1>3, LockKeeps, Zenon

\* From here to the marking the core is in use without its bit.
LEMMA AddCoreKeeps ==
  ASSUME WellFormed, IdInv, NEW u \in Users, AddCore(u)
  PROVE  IdInv'
<1>0. PICK i : i = cmd[u].id
  BY Zenon
<1>1. /\ cmd[u].pc = "adding" /\ core' = [core EXCEPT ![i] = "active"]
      /\ stored' = stored \cup {i} /\ To(u, "export")
      /\ UNCHANGED <<cache, bitmap, pool, lock, refs, leaked, drift>>
  BY <1>0, Zenon DEF AddCore
<1>2. /\ lock = u /\ cache = "run" /\ i \in Ids
      /\ \A w \in Users \ {u} : cmd[w].pc \notin Locking
  BY <1>0, <1>1, Holder, Zenon DEF Locking
<1>3. Changed(u, "export", i)
  BY <1>0, <1>1, ToEffect, Zenon DEF IdInv, Work, Locking
<1>4. /\ core' \in [Ids -> {"none", "active", "inactive"}] /\ core'[i] = "active"
      /\ \A j \in Ids \ {i} : core'[j] = core[j]
  BY <1>1, <1>2, Zenon DEF IdInv, IdTyped
<1>5. IdTyped'
  BY <1>1, <1>2, <1>3, <1>4, Zenon DEF IdInv, IdTyped, Changed
<1>6. ASSUME NEW w \in Users PROVE Standing(w)'
  <2>1. CASE w = u
    BY <1>1, <1>2, <1>3, <1>4, <2>1, ZenonT(60) DEF Standing, Changed, Work, Locking
  <2>2. CASE w # u
    BY <1>1, <1>2, <1>3, <2>2, ZenonT(60) DEF IdInv, Standing, Changed, Locking
  <2> QED  BY <2>1, <2>2, SMTT(30)
<1>7. Working' = Working
  BY <1>1, <1>3, WorkingSame, ZenonT(60) DEF Work, Locking
<1>8. Referenced'
  BY <1>1, <1>7 DEF IdInv, Referenced
<1>9. Marked'
  <2>1. /\ drift \cap {"connect", "rollback"} = {} =>
              \A j \in Ids : core[j] # "none" => j \in bitmap
        /\ "leftover" \notin drift => \A j \in bitmap : core[j] # "none"
    BY <1>1, MarkedUnderLock, Zenon DEF Locking
  <2>2. cmd'[u].pc = "export" /\ cmd'[u].id = i /\ bitmap \subseteq Ids
    BY <1>3, Zenon DEF Changed, IdInv, IdTyped
  <2> QED  BY <1>1, <1>4, <2>1, <2>2, ZenonT(60) DEF Marked
<1> QED  BY <1>1, <1>2, <1>5, <1>6, <1>8, <1>9, Zenon DEF IdInv, Absent

LEMMA AddCoreFailsKeeps ==
  ASSUME SetFacts, WellFormed, IdInv, NEW u \in Users, AddCoreFails(u)
  PROVE  IdInv'
<1>1. /\ cmd[u].pc = "adding" /\ Unlock(u)
      /\ UNCHANGED <<cache, stored, core, bitmap, pool, leaked, drift>>
  BY Zenon DEF AddCoreFails
<1>2. cmd[u].pc \in Locking
  BY <1>1, Zenon DEF Locking
<1> QED  BY <1>1, <1>2, MarkedUnderLock, UnlockKeeps, Zenon DEF IdInv, IdTyped

LEMMA AddExportKeeps ==
  ASSUME SetFacts, WellFormed, IdInv, NEW u \in Users, AddExport(u)
  PROVE  IdInv'
<1>1. /\ cmd[u].pc = "export" /\ bitmap' = bitmap \cup {cmd[u].id} /\ Unlock(u)
      /\ UNCHANGED <<cache, stored, core, pool, leaked, drift>>
  BY Zenon DEF AddExport
<1>2. cmd[u].pc \in Locking
  BY <1>1, Zenon DEF Locking
<1>3. cmd[u].id \in Ids /\ core[cmd[u].id] = "active"
  BY <1>1, <1>2, Holder, ZenonT(60) DEF IdInv, Standing
<1> QED  BY <1>1, <1>2, <1>3, MarkedUnderLock, UnlockKeeps, Zenon DEF IdInv, IdTyped

LEMMA AddExportFailsKeeps ==
  ASSUME SetFacts, WellFormed, IdInv, NEW u \in Users, AddExportFails(u)
  PROVE  IdInv'
<1>0. PICK i : i = cmd[u].id
  BY Zenon
<1>1. cmd[u].pc = "export" /\ Unlock(u) /\ UNCHANGED <<cache, bitmap, pool, leaked>>
  BY Zenon DEF AddExportFails
<1>2. cmd[u].pc \in Locking
  BY <1>1, Zenon DEF Locking
<1>3. i \in Ids
  BY <1>0, <1>2, Holder, Zenon
<1>4. /\ drift \cap {"connect", "rollback"} = {} =>
           \A j \in Ids : core[j] # "none" => j \in bitmap \/ i = j
      /\ "leftover" \notin drift => \A j \in bitmap : core[j] # "none"
  BY <1>0, <1>2, MarkedUnderLock, Zenon
<1>5. CASE /\ core' = [core EXCEPT ![i] = "none"] /\ stored' = stored \ {i}
           /\ drift' = IF i \in bitmap THEN drift \cup {"leftover"} ELSE drift
  <2>1. /\ core' \in [Ids -> {"none", "active", "inactive"}] /\ core'[i] = "none"
        /\ \A j \in Ids \ {i} : core'[j] = core[j]
    BY <1>3, <1>5, Zenon DEF IdInv, IdTyped
  <2>2. drift' \cap {"connect", "rollback"} = {} =>
             \A j \in Ids : core'[j] # "none" => j \in bitmap'
    BY <1>1, <1>4, <1>5, <2>1, Zenon
  <2>3. "leftover" \notin drift' => \A j \in bitmap' : core'[j] # "none"
    BY <1>1, <1>4, <1>5, <2>1, Zenon DEF IdInv, IdTyped
  <2>4. stored' \subseteq Ids /\ bitmap' \subseteq Ids
    BY <1>1, <1>5 DEF IdInv, IdTyped
  <2> QED  BY <1>1, <1>2, <2>1, <2>2, <2>3, <2>4, UnlockKeeps, Zenon
<1>6. CASE UNCHANGED <<core, stored>> /\ drift' = drift \cup {"rollback"}
  <2>1. core' \in [Ids -> {"none", "active", "inactive"}] /\ stored' \subseteq Ids /\ bitmap' \subseteq Ids
    BY <1>1, <1>6 DEF IdInv, IdTyped
  <2>2. ~(drift' \cap {"connect", "rollback"} = {})
    BY <1>6, Zenon
  <2> QED  BY <1>1, <1>2, <1>4, <1>6, <2>1, <2>2, UnlockKeeps, ZenonT(60)
<1> QED  BY <1>0, <1>5, <1>6, Zenon DEF AddExportFails

-----------------------------------------------------------------------------
(* Removal. *)

LEMMA RemoveFlushKeeps ==
  ASSUME SetFacts, WellFormed, IdInv, NEW u \in Users, RemoveFlush(u)
  PROVE  IdInv'
<1>1. PICK i \in Ids, k \in {"remove", "detach"} :
        cmd' = [cmd EXCEPT ![u] = [NoCmd EXCEPT !.pc = "flushed", !.kind = k, !.id = i]]
  BY Zenon DEF RemoveFlush
<1>2. /\ cmd[u].pc = "idle" /\ cache = "run" /\ refs' = refs + 1
      /\ UNCHANGED <<cache, stored, core, bitmap, pool, lock, leaked, drift>>
  BY Zenon DEF RemoveFlush
<1> DEFINE r == [NoCmd EXCEPT !.pc = "flushed", !.kind = k, !.id = i]
<1>3. NoCmd \in CmdRecord
  BY DEF NoCmd, CmdRecord, Work, Locking
<1>4. r \in CmdRecord /\ r.pc = "flushed" /\ r.id = i
  BY <1>3, Zenon DEF CmdRecord, Work, Locking
<1>5. cmd' = [cmd EXCEPT ![u] = r]
  BY <1>1
<1> HIDE DEF r
<1>6. Changed(u, "flushed", i)
  BY <1>4, <1>5, BeginEffect, Zenon DEF IdInv
<1>7. IdTyped'
  BY <1>2, <1>6 DEF IdInv, IdTyped, Changed
<1>8. ASSUME NEW w \in Users PROVE Standing(w)'
  <2>1. CASE w = u
    BY <1>2, <1>6, <2>1, Zenon DEF IdInv, Standing, Changed, Work, Locking
  <2>2. CASE w # u
    BY <1>2, <1>6, <2>2, Zenon DEF IdInv, Standing, Changed
  <2> QED  BY <2>1, <2>2, Zenon
<1>9. Cardinality(Working') = Cardinality(Working) + 1
  BY <1>2, <1>6, WorkingMore, Zenon DEF Work, Locking
<1>10. Referenced'
  BY <1>2, <1>9, WorkingFinite, SMTT(30) DEF IdInv, IdTyped, Referenced
<1>11. Marked'
  <2>1. Marked
    BY Zenon DEF IdInv
  <2> QED  BY <1>2, <1>6, <2>1, SMTT(30) DEF Marked, Changed
<1> QED  BY <1>2, <1>7, <1>8, <1>10, <1>11, Zenon DEF IdInv, Absent

LEMMA RemoveRefusedKeeps ==
  ASSUME SetFacts, WellFormed, IdInv, NEW u \in Users, RemoveRefused(u)
  PROVE  IdInv'
<1>1. /\ cmd[u].pc = "flushed" /\ lock = "free" /\ refs' = refs - 1 /\ Done(u)
      /\ UNCHANGED <<cache, stored, core, bitmap, pool, lock, leaked, drift>>
  BY Zenon DEF RemoveRefused
<1>2. Changed(u, "idle", AnyId)
  BY <1>1, DoneEffect, Zenon DEF IdInv
<1>3. Cardinality(Working') = Cardinality(Working) - 1
  BY <1>1, <1>2, WorkingLess, Zenon DEF Work, Locking
<1>4. IsFiniteSet(Working) /\ Working # {}
  BY <1>1, WorkingFinite, Zenon DEF Working
<1>5. Cardinality(Working) \in Nat /\ Cardinality(Working) # 0
  BY <1>4, Zenon DEF SetFacts
<1>6. Referenced' /\ refs' \in Nat
  BY <1>1, <1>3, <1>5, SMTT(30) DEF IdInv, IdTyped, Referenced
<1>7. IdTyped'
  BY <1>1, <1>2, <1>6, Zenon DEF IdInv, IdTyped, Changed
<1>8. ASSUME NEW w \in Users PROVE Standing(w)'
  <2>1. CASE w = u
    BY <1>1, <1>2, <2>1, Zenon DEF Standing, Changed, Work, Locking, WellFormed
  <2>2. CASE w # u
    <3>1. Standing(w) /\ cmd'[w] = cmd[w]
      BY <1>2, <2>2, Zenon DEF IdInv, Changed
    <3> QED  BY <1>1, <3>1, ZenonT(60) DEF Standing
  <2> QED  BY <2>1, <2>2, Zenon
<1>9. Marked'
  <2>1. Marked
    BY Zenon DEF IdInv
  <2> QED  BY <1>1, <1>2, <2>1, SMTT(30) DEF Marked, Changed
<1> QED  BY <1>1, <1>6, <1>7, <1>8, <1>9, Zenon DEF IdInv, Absent

LEMMA RemoveLockKeeps ==
  ASSUME SetFacts, WellFormed, IdInv, NEW u \in Users, RemoveLock(u)
  PROVE  IdInv'
<1>1. /\ cmd[u].pc = "flushed" /\ lock = "free" /\ core[cmd[u].id] = "active" /\ lock' = u
      /\ To(u, "removing") /\ UNCHANGED <<cache, stored, core, bitmap, pool, refs, leaked, drift>>
  BY Zenon DEF RemoveLock
<1>2. Changed(u, "removing", cmd[u].id)
  BY <1>1, ToEffect, Zenon DEF IdInv, Work, Locking
<1>3. cmd[u].pc \in Work /\ cache = "run"
  BY <1>1, Zenon DEF IdInv, Standing, Work
<1> QED  BY <1>1, <1>2, <1>3, LockKeeps, ZenonT(60)

\* The core stays, detached or not, and so does its bit.
LEMMA RemoveHaltedKeeps ==
  ASSUME SetFacts, WellFormed, IdInv, NEW u \in Users, RemoveFallback(u) \/ DetachCore(u)
  PROVE  IdInv'
<1>0. PICK i : i = cmd[u].id
  BY Zenon
<1>1. /\ cmd[u].pc = "removing" /\ Unlock(u)
      /\ UNCHANGED <<cache, stored, bitmap, pool, leaked, drift>>
  BY Zenon DEF RemoveFallback, DetachCore
<1>2. PICK t \in {"active", "inactive"} : core' = [core EXCEPT ![i] = t]
  BY <1>0, Zenon DEF RemoveFallback, DetachCore
<1>3. cmd[u].pc \in Locking
  BY <1>1, Zenon DEF Locking
<1>4. i \in Ids /\ core[i] = "active"
  BY <1>0, <1>1, <1>3, Holder, ZenonT(60) DEF IdInv, Standing
<1>5. /\ core' \in [Ids -> {"none", "active", "inactive"}]
      /\ \A j \in Ids : core'[j] # "none" <=> core[j] # "none"
  BY <1>2, <1>4, Zenon DEF IdInv, IdTyped
<1>6. stored' \subseteq Ids /\ bitmap' \subseteq Ids
  BY <1>1, Zenon DEF IdInv, IdTyped
<1>7. /\ drift \cap {"connect", "rollback"} = {} =>
           \A j \in Ids : core[j] # "none" => j \in bitmap
      /\ "leftover" \notin drift => \A j \in bitmap : core[j] # "none"
  BY <1>1, <1>3, MarkedUnderLock, Zenon
<1> QED  BY <1>1, <1>3, <1>5, <1>6, <1>7, UnlockKeeps, Zenon

\* The bit goes exactly when the core does.
LEMMA RemoveCoreKeeps ==
  ASSUME SetFacts, WellFormed, IdInv, NEW u \in Users, RemoveCore(u)
  PROVE  IdInv'
<1>0. PICK i : i = cmd[u].id
  OBVIOUS
<1>1. /\ cmd[u].pc = "removing" /\ Unlock(u) /\ UNCHANGED <<cache, pool, leaked, drift>>
  BY Zenon DEF RemoveCore
<1>2. cmd[u].pc \in Locking
  BY <1>1, Zenon DEF Locking
<1>3. i \in Ids
  BY <1>0, <1>2, Holder
<1>4. /\ drift \cap {"connect", "rollback"} = {} =>
           \A j \in Ids : core[j] # "none" => j \in bitmap
      /\ "leftover" \notin drift => \A j \in bitmap : core[j] # "none"
  BY <1>1, <1>2, MarkedUnderLock, Zenon
<1>5. CASE UNCHANGED <<core, stored, bitmap>>
  BY <1>1, <1>2, <1>4, <1>5, UnlockKeeps, Zenon DEF IdInv, IdTyped
<1>6. CASE core' = [core EXCEPT ![i] = "none"] /\ stored' = stored \ {i} /\ bitmap' = bitmap \ {i}
  <2>1. /\ core' \in [Ids -> {"none", "active", "inactive"}] /\ core'[i] = "none"
        /\ \A j \in Ids \ {i} : core'[j] = core[j]
    BY <1>3, <1>6, Zenon DEF IdInv, IdTyped
  <2>2. stored' \subseteq Ids /\ bitmap' \subseteq Ids
    BY <1>6, Zenon DEF IdInv, IdTyped
  <2>3. drift' \cap {"connect", "rollback"} = {} =>
             \A j \in Ids : core'[j] # "none" => j \in bitmap'
    BY <1>1, <1>4, <1>6, <2>1, Zenon
  <2>4. "leftover" \notin drift' => \A j \in bitmap' : core'[j] # "none"
    BY <1>1, <1>4, <1>6, <2>1, <2>2, Zenon
  <2> QED  BY <1>1, <1>2, <2>1, <2>2, <2>3, <2>4, UnlockKeeps, Zenon
<1> QED  BY <1>0, <1>5, <1>6, ZenonT(60) DEF RemoveCore, FreedBy

LEMMA RemoveInactiveKeeps ==
  ASSUME WellFormed, IdInv, NEW u \in Users, RemoveInactive(u)
  PROVE  IdInv'
<1>1. PICK i \in Ids, result \in {"ok", "error"} :
        /\ core' = [core EXCEPT ![i] = "none"] /\ stored' = stored \ {i}
        /\ bitmap' = IF result = "ok" THEN bitmap \ {i} ELSE bitmap
        /\ drift' = IF result = "error" THEN drift \cup {"leftover"} ELSE drift
  BY Zenon DEF RemoveInactive
<1>2. cache = "run" /\ lock = "free" /\ UNCHANGED <<cache, pool, lock, cmd, refs, leaked>>
  BY Zenon DEF RemoveInactive
<1>3. \A w \in Users : cmd[w].pc \notin Locking
  BY <1>2, NoHolder, Zenon
<1>4. /\ core' \in [Ids -> {"none", "active", "inactive"}] /\ core'[i] = "none"
      /\ \A j \in Ids \ {i} : core'[j] = core[j]
  BY <1>1, Zenon DEF IdInv, IdTyped
<1>5. IdTyped'
  BY <1>1, <1>2, <1>4, Zenon DEF IdInv, IdTyped
<1>6. ASSUME NEW w \in Users PROVE Standing(w)'
  <2>1. Standing(w)
    BY Zenon DEF IdInv
  <2> QED  BY <1>2, <1>3, <2>1, Zenon DEF Standing, Locking
<1>7. Working' = Working
  BY <1>2, Zenon DEF Working
<1>8. Referenced'
  BY <1>2, <1>7, Zenon DEF IdInv, Referenced
<1>9. /\ drift \cap {"connect", "rollback"} = {} =>
           \A j \in Ids : core[j] # "none" => j \in bitmap
      /\ "leftover" \notin drift => \A j \in bitmap : core[j] # "none"
      /\ bitmap \subseteq Ids
  BY <1>2, <1>3, Zenon DEF IdInv, Marked, Locking, IdTyped
<1>10. drift' \cap {"connect", "rollback"} = {} =>
             \A j \in Ids : core'[j] # "none" => j \in bitmap'
  BY <1>1, <1>4, <1>9, Zenon
<1>11. "leftover" \notin drift' => \A j \in bitmap' : core'[j] # "none"
  BY <1>1, <1>4, <1>9, Zenon
<1> QED  BY <1>2, <1>5, <1>6, <1>8, <1>10, <1>11, ZenonT(60) DEF IdInv, Absent, Marked

\* The invariant says nothing of the pool.
LEMMA SameKeeps ==
  ASSUME IdInv, UNCHANGED <<cache, stored, core, bitmap, lock, cmd, refs, leaked,
  drift>>
  PROVE  IdInv'
<1>1. IdTyped' /\ Absent' /\ Marked'
  BY Zenon DEF IdInv, IdTyped, Absent, Marked
<1>2. Referenced'
  BY Zenon DEF IdInv, Referenced, Working
<1>3. ASSUME NEW w \in Users PROVE Standing(w)'
  BY Zenon DEF IdInv, Standing
<1> QED  BY <1>1, <1>2, <1>3, Zenon DEF IdInv

-----------------------------------------------------------------------------
LEMMA NextIdInv ==
  ASSUME SetFacts, WellFormed, IdInv, [IdNext]_idVars
  PROVE  IdInv'
<1>1. CASE UNCHANGED idVars
  BY <1>1, SameKeeps, Zenon DEF idVars
<1>2. CASE StartNew
  BY <1>2, StartNewKeeps
<1>3. CASE StartLoad \/ Connect
  BY <1>3, RestoreKeeps, Zenon
<1>4. CASE Stop
  BY <1>4, StopKeeps, Zenon
<1>5. ASSUME NEW u \in Users, PrepareGiven(u) \/ PrepareAuto(u) PROVE IdInv'
  BY <1>5, PrepareKeeps, Zenon
<1>6. ASSUME NEW u \in Users, PrepareFull(u) PROVE IdInv'
  BY <1>6, PrepareFullKeeps
<1>7. ASSUME NEW u \in Users, AddNoCache(u) PROVE IdInv'
  BY <1>7, AddNoCacheKeeps, Zenon
<1>8. ASSUME NEW u \in Users, AddLock(u) PROVE IdInv'
  BY <1>8, AddLockKeeps
<1>9. ASSUME NEW u \in Users, AddCore(u) PROVE IdInv'
  BY <1>9, AddCoreKeeps, Zenon
<1>10. ASSUME NEW u \in Users, AddCoreFails(u) PROVE IdInv'
  BY <1>10, AddCoreFailsKeeps
<1>11. ASSUME NEW u \in Users, AddExport(u) PROVE IdInv'
  BY <1>11, AddExportKeeps
<1>12. ASSUME NEW u \in Users, AddExportFails(u) PROVE IdInv'
  BY <1>12, AddExportFailsKeeps
<1>13. ASSUME NEW u \in Users, RemoveFlush(u) PROVE IdInv'
  BY <1>13, RemoveFlushKeeps
<1>14. ASSUME NEW u \in Users, RemoveRefused(u) PROVE IdInv'
  BY <1>14, RemoveRefusedKeeps
<1>15. ASSUME NEW u \in Users, RemoveLock(u) PROVE IdInv'
  BY <1>15, RemoveLockKeeps
<1>16. ASSUME NEW u \in Users, RemoveFallback(u) \/ DetachCore(u) PROVE IdInv'
  BY <1>16, RemoveHaltedKeeps
<1>17. ASSUME NEW u \in Users, RemoveCore(u) PROVE IdInv'
  BY <1>17, RemoveCoreKeeps
<1>18. ASSUME NEW u \in Users, RemoveInactive(u) PROVE IdInv'
  BY <1>18, RemoveInactiveKeeps
<1>19. ASSUME NEW u \in Users, PoolRemove(u) PROVE IdInv'
  BY <1>19, SameKeeps, Zenon DEF PoolRemove
<1> QED  BY <1>1, <1>2, <1>3, <1>4, <1>5, <1>6, <1>7, <1>8, <1>9, <1>10, <1>11, <1>12,
            <1>13, <1>14, <1>15, <1>16, <1>17, <1>18, <1>19, Zenon DEF IdNext

-----------------------------------------------------------------------------
INSTANCE FiniteSetTheorems
INSTANCE WellFoundedInduction

LEMMA SetFactsHold == SetFacts
<1>1. ASSUME NEW S \in SUBSET Nat, S # {} PROVE \E x \in S : \A y \in S : x <= y
  <2>1. PICK x \in S : \A y \in S : ~(<<y, x>> \in OpToRel(<, Nat))
    BY <1>1, WFMin, NatLessThanWellFounded, Zenon
  <2>2. ASSUME NEW y \in S PROVE x <= y
    <3>1. OpToRel(<, Nat) = {ss \in Nat \X Nat : ss[1] < ss[2]}
      BY Zenon DEF OpToRel
    <3>2. y < x => <<y, x>> \in {ss \in Nat \X Nat : ss[1] < ss[2]}
      OBVIOUS
    <3>3. ~(y < x)
      BY <2>1, <3>1, <3>2, Zenon
    <3> QED  BY <3>3
  <2> QED  BY <2>2, Zenon
<1>2. ASSUME NEW S, IsFiniteSet(S), NEW T \in SUBSET S PROVE IsFiniteSet(T)
  BY <1>2, FS_Subset, Zenon
<1>3. Cardinality({}) = 0
  BY FS_EmptySet, Zenon
<1>4. ASSUME NEW S, IsFiniteSet(S)
      PROVE  Cardinality(S) \in Nat /\ (Cardinality(S) = 0 <=> S = {})
  BY <1>4, FS_CardinalityType, FS_EmptySet, Zenon
<1>5. ASSUME NEW S, NEW x, IsFiniteSet(S)
      PROVE  /\ x \notin S => Cardinality(S \cup {x}) = Cardinality(S) + 1
             /\ x \in S => Cardinality(S \ {x}) = Cardinality(S) - 1
  BY <1>5, FS_AddElement, FS_RemoveElement, Zenon
<1> QED  BY <1>1, <1>2, <1>3, <1>4, <1>5, Zenon DEF SetFacts

\* Commands keep to the lock, and bits and cores differ under it by the one
\* core that is being exported.
THEOREM IdsInvariant == WellFormed => (IdSpec => []IdInv)
<1> SUFFICES ASSUME WellFormed PROVE IdSpec => []IdInv
  OBVIOUS
<1>1. IdInv /\ [IdNext]_idVars => IdInv'
  BY NextIdInv, SetFactsHold, Zenon
<1>2. IdInit => IdInv
  BY InitIdInv, SetFactsHold, Zenon
<1> QED  BY <1>1, <1>2, PTL DEF IdSpec

\* core_id_bitmap and OCF's list of cores agree whenever the lock is free but
\* for the named exceptions, and every reference is put but for the one that
\* prepare_core_cfg forgets, for any set of ids and any number of commands.
THEOREM IdsCorrect == WellFormed => (IdSpec => []IdsExact)
<1> SUFFICES ASSUME WellFormed PROVE IdSpec => []IdsExact
  BY Zenon
<1>1. IdInv => IdsExact
  <2> SUFFICES ASSUME IdInv PROVE IdsExact
    BY Zenon
  <2>1. ASSUME lock = "free", cache = "run"
        PROVE  /\ drift \cap {"connect", "rollback"} = {} => InUse \subseteq bitmap
               /\ "leftover" \notin drift => bitmap \subseteq InUse
    <3>1. \A w \in Users : cmd[w].pc # "export"
      BY <2>1, NoHolder, Zenon DEF Locking
    <3> QED  BY <2>1, <3>1, Zenon DEF IdInv, Marked, InUse, IdTyped
  <2>2. refs = leaked + Cardinality({u \in Users :
                           cmd[u].pc \in {"adding", "export", "flushed", "removing"}})
    BY DEF IdInv, Referenced, Working
  <2> QED  BY <2>1, <2>2, Zenon DEF IdsExact
<1> QED  BY <1>1, IdsInvariant, PTL
=============================================================================
