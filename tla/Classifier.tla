----------------------------- MODULE Classifier -----------------------------
(***************************************************************************)
(* The IO classifier at work (cas_cache/classifier.c) and its one writer,  *)
(* cache_mngt_set_partitions (layer_cache_management.c).  A bio is         *)
(* classified under the read lock while a command replaces the rules one   *)
(* class at a time under the write lock; a directory condition re-resolves *)
(* its path from a delayed work that requeues itself; starting and         *)
(* stopping the cache build and tear down the classifier.                  *)
(***************************************************************************)
EXTENDS ClassifierRules

CONSTANTS MaxPart,      \* the classes are 0..MaxPart
          Stored,       \* class names a cache may be started with
          Wanted,       \* class names casadm may ask for
          Bios,         \* the bios classified
          Inodes        \* what a directory path may resolve to

Parts == 0..MaxPart
RuleIds == 1..(2 * MaxPart)     \* rule structures: listed and being prepared

VARIABLES
    classes,    \* class names in OCF's configuration
    cache,      \* [pc, at]: "absent", "starting" (at class at), "run",
                \* "stopping"
    rules,      \* cls->rules: the rule structures listed
    heap,       \* the rule structures: NoRule or [part, conds]
    work,       \* per rule structure, its delayed work: "none", "queued", "running"
    lock,       \* the management lock of the cache: "free" or its holder
    setter,     \* cache_mngt_set_partitions: [pc, at, want, got, old]
    reader,     \* cas_cls_classify: [pc, at, part, bio, moved]
    orphaned    \* history: the cache was stopped under a set_partitions that
                \* had made rules but not yet taken the lock

clsVars == <<classes, cache, rules, heap, work, lock, setter, reader, orphaned>>

NoRule == [part |-> -1, conds |-> << >>]
NoRules == [p \in Parts |-> 0]
NoSetter == [pc |-> "idle", at |-> 0, want |-> [p \in Parts |-> NoName],
             got |-> NoRules, old |-> 0]

ClsInit ==
    /\ classes \in Stored
    /\ cache = [pc |-> "absent", at |-> 0]
    /\ rules = << >>
    /\ heap = [r \in RuleIds |-> NoRule]
    /\ work = [r \in RuleIds |-> "none"]
    /\ lock = "free"
    /\ setter = NoSetter
    /\ \E b \in Bios : reader = [pc |-> "idle", at |-> 0, part |-> 0, bio |-> b, moved |-> FALSE]
    /\ orphaned = FALSE

-----------------------------------------------------------------------------
FreeId == Min({r \in RuleIds : heap[r] = NoRule})

HasDirectory(text) == \E i \in 1..Len(text.conds) : text.conds[i].token = "directory"

(* A rule structure is built; the constructor of a directory condition     *)
(* queues the resolving work.                                              *)
Build(part, text) ==
    /\ heap' = [heap EXCEPT ![FreeId] = [part |-> part, conds |-> Conditions(text)]]
    /\ work' = [work EXCEPT ![FreeId] = IF HasDirectory(text) THEN "queued" ELSE "none"]

(* _cas_cls_rule_destroy: cancel_delayed_work_sync waits for a running     *)
(* resolution and keeps it from requeueing.  Rule 0 stands for NULL.       *)
Destroy(r) ==
    IF r = 0 THEN UNCHANGED <<heap, work>>
    ELSE /\ work[r] # "running"
         /\ heap' = [heap EXCEPT ![r] = NoRule]
         /\ work' = [work EXCEPT ![r] = "none"]

(* cas_cls_rule_apply: from the tail down to the first rule of a lower     *)
(* class; rules of this class met on the way are unlinked and the new one  *)
(* goes in after the cursor.                                               *)
Below(list, part) == Max({0} \cup {i \in 1..Len(list) : heap[list[i]].part < part})

(* A bug that inserts where the list ends.                                 *)
AppliedAtTail(list, part, new) ==
    SelectSeq(list, LAMBDA r : heap[r].part # part) \o new

Applied(list, part, new) ==
    LET i == Below(list, part)
    IN  SubSeq(list, 1, i) \o new
        \o SelectSeq(SubSeq(list, i + 1, Len(list)), LAMBDA r : heap[r].part # part)

Replaced(list, part) ==
    LET old == SelectSeq(SubSeq(list, Below(list, part) + 1, Len(list)),
                         LAMBDA r : heap[r].part = part)
    IN  IF old = << >> THEN 0 ELSE Head(old)

Listed(r) == IF r = 0 THEN << >> ELSE <<r>>

-----------------------------------------------------------------------------
(* cas_cls_init: allocate the classifier, then one rule per stored class.  *)
ClassifierInit ==
    /\ cache.pc = "absent" /\ setter.pc = "idle"
    /\ cache' = [pc |-> "starting", at |-> 1]
    /\ lock' = "starter"
    /\ orphaned' = FALSE
    /\ UNCHANGED <<classes, rules, heap, work, setter, reader>>

(* _cas_cls_rule_init succeeds for one class. *)
RuleInit ==
    /\ cache.pc = "starting" /\ cache.at \in Parts
    /\ LET made == RuleCreate(cache.at, classes[cache.at]) IN
       \/ made = "null" /\ UNCHANGED <<rules, heap, work>>
       \/ /\ made = "rule"
          /\ Build(cache.at, classes[cache.at])
          /\ rules' = Applied(rules, cache.at, <<FreeId>>)
    /\ cache' = [cache EXCEPT !.at = @ + 1]
    /\ UNCHANGED <<classes, lock, setter, reader, orphaned>>

(* A stored name is refused, or memory is short: cas_cls_init undoes itself. *)
RuleInitFails ==
    /\ cache.pc = "starting" /\ cache.at \in Parts
    /\ cache' = [cache EXCEPT !.pc = "stopping"]
    /\ UNCHANGED <<classes, rules, heap, work, lock, setter, reader, orphaned>>

ClassifierReady ==
    /\ cache.pc = "starting" /\ cache.at \notin Parts
    /\ cache' = [pc |-> "run", at |-> 0]
    /\ lock' = "free"
    /\ UNCHANGED <<classes, rules, heap, work, setter, reader, orphaned>>

(* Stopping: the exported objects are gone, so no bio is being classified. *)
StopCache ==
    /\ cache.pc = "run" /\ lock = "free" /\ reader.pc = "idle"
    /\ cache' = [cache EXCEPT !.pc = "stopping"]
    /\ lock' = "stopper"
    /\ UNCHANGED <<classes, rules, heap, work, setter, reader, orphaned>>

(* cas_cls_deinit: one turn of its loop. *)
DeinitRule ==
    /\ cache.pc = "stopping" /\ rules # << >>
    /\ Destroy(Head(rules))
    /\ rules' = Tail(rules)
    /\ UNCHANGED <<classes, cache, lock, setter, reader, orphaned>>

(* The classifier, its workqueue and cache_priv go; a set_partitions that  *)
(* still holds rules will find them gone.                                  *)
Deinit ==
    /\ cache.pc = "stopping" /\ rules = << >>
    /\ cache' = [pc |-> "absent", at |-> 0]
    /\ lock' = "free"
    /\ orphaned' = (orphaned \/ setter.pc # "idle")
    /\ UNCHANGED <<classes, rules, heap, work, setter, reader>>

-----------------------------------------------------------------------------
(* cache_mngt_set_partitions: reference taken, cache attached. *)
SetPartitions ==
    /\ setter.pc = "idle" /\ cache.pc = "run"
    /\ \E w \in Wanted :
         setter' = [NoSetter EXCEPT !.pc = "create", !.want = w]
    /\ UNCHANGED <<classes, cache, rules, heap, work, lock, reader, orphaned>>

(* The rules are made before the lock is taken.                            *)
SetCreate ==
    /\ setter.pc = "create" /\ setter.at \in Parts
    /\ LET made == RuleCreate(setter.at, setter.want[setter.at]) IN
       \/ /\ made = "null"
          /\ setter' = [setter EXCEPT !.at = @ + 1]
          /\ UNCHANGED <<heap, work>>
       \/ /\ made = "rule"
          /\ Build(setter.at, setter.want[setter.at])
          /\ setter' = [setter EXCEPT !.at = @ + 1, !.got[setter.at] = FreeId]
       \/ /\ made # "null"         \* refused, or out of memory
          /\ setter' = [setter EXCEPT !.pc = "undo"]
          /\ UNCHANGED <<heap, work>>
    /\ UNCHANGED <<classes, cache, rules, lock, reader, orphaned>>

(* _cache_mngt_lock_sync fails once the cache has been stopped.            *)
SetLock ==
    /\ setter.pc = "create" /\ setter.at \notin Parts
    /\ lock = "free"
    /\ IF cache.pc = "run"
       THEN lock' = "setter" /\ setter' = [setter EXCEPT !.pc = "configure"]
       ELSE lock' = lock /\ setter' = [setter EXCEPT !.pc = "undo"]
    /\ UNCHANGED <<classes, cache, rules, heap, work, reader, orphaned>>

(* ocf_mngt_cache_io_classes_configure, then the save.  A failed save      *)
(* leaves OCF with the new classes and the classifier with the old rules.  *)
SetConfigure ==
    /\ setter.pc = "configure"
    /\ \/ /\ classes' = setter.want
          /\ setter' = [setter EXCEPT !.pc = "apply", !.at = 0]
          /\ lock' = lock
       \/ /\ classes' \in {classes, setter.want}
          /\ setter' = [setter EXCEPT !.pc = "undo"]
          /\ lock' = "free"
    /\ UNCHANGED <<cache, rules, heap, work, reader, orphaned>>

(* cas_cls_rule_apply under the write lock. *)
SetApply ==
    /\ setter.pc = "apply" /\ reader.pc # "locked"
    /\ setter' = [setter EXCEPT !.pc = "free", !.old = Replaced(rules, setter.at)]
    /\ rules' = Applied(rules, setter.at, Listed(setter.got[setter.at]))
    /\ UNCHANGED <<classes, cache, heap, work, lock, reader, orphaned>>

(* The rule replaced is destroyed after the unlock; then the next class.   *)
SetFree ==
    /\ setter.pc = "free"
    /\ Destroy(setter.old)
    /\ IF setter.at = MaxPart
       THEN /\ setter' = NoSetter
            /\ lock' = "free"
       ELSE /\ setter' = [setter EXCEPT !.pc = "apply", !.at = @ + 1, !.old = 0]
            /\ lock' = lock
    /\ UNCHANGED <<classes, cache, rules, reader, orphaned>>

(* out_cls: the rules made so far are destroyed, last first.               *)
SetUndo ==
    /\ setter.pc = "undo"
    /\ IF setter.at = 0
       THEN /\ setter' = NoSetter
            /\ UNCHANGED <<heap, work>>
       ELSE /\ Destroy(setter.got[setter.at - 1])
            /\ setter' = [setter EXCEPT !.at = @ - 1, !.got[setter.at - 1] = 0]
    /\ UNCHANGED <<classes, cache, rules, lock, reader, orphaned>>

-----------------------------------------------------------------------------
(* cas_cls_classify: the list is walked under the read lock. *)
ClassifyStart ==
    /\ cache.pc = "run" /\ reader.pc = "idle"
    /\ reader' = [reader EXCEPT !.pc = "locked", !.at = 1, !.part = 0, !.moved = FALSE]
    /\ UNCHANGED <<classes, cache, rules, heap, work, lock, setter, orphaned>>

ClassifyRule ==
    /\ reader.pc = "locked" /\ reader.at \in 1..Len(rules)
    /\ LET r == heap[rules[reader.at]]
           v == ProcessRule(r.conds, reader.bio, reader.part)
       IN  reader' = [reader EXCEPT !.part = IF v.yes THEN r.part ELSE @,
                                    !.at = IF v.stop THEN Len(rules) + 1 ELSE @ + 1]
    /\ UNCHANGED <<classes, cache, rules, heap, work, lock, setter, orphaned>>

ClassifyEnd ==
    /\ reader.pc = "locked" /\ reader.at = Len(rules) + 1
    /\ reader' = [reader EXCEPT !.pc = "idle", !.at = 0, !.part = 0, !.moved = FALSE]
    /\ UNCHANGED <<classes, cache, rules, heap, work, lock, setter, orphaned>>

(* _cas_cls_directory_resolve_work starts, resolves and requeues itself.   *)
ResolveStart(r) ==
    /\ work[r] = "queued"
    /\ work' = [work EXCEPT ![r] = "running"]
    /\ UNCHANGED <<classes, cache, rules, heap, lock, setter, reader, orphaned>>

Resolve(r) ==
    /\ work[r] = "running"
    /\ \E n \in {0} \cup Inodes :
         heap' = [heap EXCEPT ![r].conds =
                    [i \in DOMAIN @ |-> IF @[i].cond.token = "directory"
                                        THEN [@[i] EXCEPT !.ino = n] ELSE @[i]]]
    /\ work' = [work EXCEPT ![r] = "queued"]
    /\ reader' = [reader EXCEPT !.moved = (@ \/ reader.pc = "locked")]
    /\ UNCHANGED <<classes, cache, rules, lock, setter, orphaned>>

ClsNext == \/ ClassifierInit \/ RuleInit \/ RuleInitFails \/ ClassifierReady
           \/ StopCache \/ DeinitRule \/ Deinit
           \/ SetPartitions \/ SetCreate \/ SetLock \/ SetConfigure
           \/ SetApply \/ SetFree \/ SetUndo
           \/ ClassifyStart \/ ClassifyRule \/ ClassifyEnd
           \/ \E r \in RuleIds : ResolveStart(r) \/ Resolve(r)

-----------------------------------------------------------------------------
Rules == [i \in 1..Len(rules) |-> heap[rules[i]]]
Pending == {setter.got[p] : p \in {q \in Parts : setter.pc \in {"create", "configure", "undo"}
                                    \/ (setter.pc = "apply" /\ q >= setter.at)
                                    \/ (setter.pc = "free" /\ q > setter.at)}}

(* The classifier's memory: the list cas_cls_classify walks holds live     *)
(* rules only, in strictly ascending order of class (which is what lets    *)
(* cas_cls_rule_apply stop at its cursor); every rule structure is listed, *)
(* being prepared, or the one being replaced, none of them twice, so an    *)
(* idle cache has leaked none and a stopped one keeps none; and a          *)
(* resolving work exists only for a live rule.  It breaks only when the    *)
(* cache is stopped under a set_partitions that has not got the lock yet.  *)
RulesExact ==
    /\ \A i \in 1..Len(rules) : heap[rules[i]] # NoRule
    /\ \A i, j \in 1..Len(rules) : i < j => heap[rules[i]].part < heap[rules[j]].part
    /\ {r \in RuleIds : heap[r] # NoRule}
         = (ToSet(rules) \cup Pending \cup {setter.old}) \ {0}
    /\ ToSet(rules) \cap (Pending \cup {setter.old}) = {}
    /\ \A r \in RuleIds : work[r] # "none" => heap[r] # NoRule
    /\ cache.pc = "absent" /\ ~orphaned => \A r \in RuleIds : heap[r] = NoRule

(* cas_cls_classify finds the class the rule texts mean: the last class    *)
(* whose rule holds of the bio, the conditions between two "&" being       *)
(* alternatives, and "done" ending the search; for any list a concurrent   *)
(* set_partitions has left, unless a directory was re-resolved meanwhile.  *)
ClassifiesRight ==
    (reader.pc = "locked" /\ reader.at = Len(rules) + 1 /\ ~reader.moved)
        => reader.part = ClassOf(Rules, reader.bio, 0)
=============================================================================
