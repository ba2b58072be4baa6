---------------------------- MODULE NetlinkDump -----------------------------
(***************************************************************************)
(* The dump of all caches over generic netlink                             *)
(* (modules/cas_cache/service_ui_netlink.c).  cas_nl_dump_start lists the  *)
(* caches, then collects each under its read lock into the dump context;   *)
(* cas_nl_dump is called once for every message buffer, fills it with the  *)
(* records that fit and remembers where it stopped; cas_nl_dump_done frees *)
(* the context.  Meanwhile caches are started, stopped and reconfigured.   *)
(*                                                                         *)
(* What a cache reports besides its path and its parts is one version      *)
(* number, new with every change.                                          *)
(***************************************************************************)
EXTENDS Integers, Sequences, FiniteSets, SequencesExt, FiniteSetsExt

CONSTANTS
    Ids,        \* cache ids, in the order of the list
    CoreIds, Classes,   \* core ids and I/O classes
    Room,       \* records that fit in one buffer (a cache takes two)
    MaxChanges  \* bound on the changes while a dump runs

VARIABLES
    caches,     \* id -> the cache
    changes,    \* how many changes were made
    dump,       \* the dump: phase, ids listed, the one collected, lock
    ctx,        \* dump context: the collected caches
    cb,         \* cb->args: cache index, phase, index within the phase
    skb,        \* the buffer being filled: records and room left
    received,   \* records the reader got
    snap,       \* the caches as they were when collected
    left        \* history: the path a failed collection has left in its entry

dumpVars == <<caches, changes, dump, ctx, cb, skb, received, snap, left>>
system == <<caches, changes>>
reader == <<cb, skb, received>>

NoPath == 0
\* The path of a cache is told by its id.
EmptyEntry == [id |-> 0, ver |-> 0, path |-> NoPath, cores |-> <<>>, classes |-> <<>>]
Sorted(S) == SetToSortSeq(S, LAMBDA x, y : x < y)

DumpInit ==
    /\ caches \in [Ids -> [up : BOOLEAN, attached : BOOLEAN,
                           cores : SUBSET CoreIds, ver : {0}]]
    /\ \A i \in Ids : ~caches[i].up => caches[i].cores = {} /\ ~caches[i].attached
    /\ changes = 0
    /\ dump = [at |-> "start", ids |-> <<>>, lock |-> 0, entry |-> EmptyEntry]
    /\ ctx = <<>>
    /\ cb = [cache |-> 1, phase |-> 0, sub |-> 1]
    /\ skb = [room |-> Room, msgs |-> <<>>]
    /\ received = <<>> /\ snap = <<>> /\ left = NoPath

\* A management operation changes a cache under its write lock.
Change(i, new) ==
    /\ changes < MaxChanges /\ dump.lock # i
    /\ changes' = changes + 1
    /\ caches' = [caches EXCEPT ![i] = [new EXCEPT !.ver = changes + 1]]
    /\ UNCHANGED <<dump, ctx, reader, snap, left>>

Manage(i) ==
    \/ /\ ~caches[i].up
       /\ Change(i, [caches[i] EXCEPT !.up = TRUE, !.attached = TRUE])
    \/ /\ caches[i].up
       /\ \/ Change(i, [caches[i] EXCEPT !.up = FALSE, !.attached = FALSE, !.cores = {}])
          \/ Change(i, [caches[i] EXCEPT !.attached = ~@])
          \/ \E c \in CoreIds :
                Change(i, [caches[i] EXCEPT !.cores = IF c \in @ THEN @ \ {c}
                                                      ELSE @ \cup {c}])

\* cas_nl_dump_start: ocf_mngt_cache_visit lists the ids.
DumpStart ==
    /\ dump.at = "start"
    /\ dump' = [dump EXCEPT !.at = "collect",
                            !.ids = Sorted({i \in Ids : caches[i].up})]
    /\ UNCHANGED <<system, ctx, reader, snap, left>>

\* No memory for the context: the dump fails.
DumpStartFails ==
    /\ dump.at = "start"
    /\ dump' = [dump EXCEPT !.at = "failed"]
    /\ UNCHANGED <<system, ctx, reader, snap, left>>

\* cas_nl_collect_cleaning_params and cas_nl_collect_promotion_params: like
\* the statistics and the configuration they are part of the version.
Params(i) == caches[i].ver

\* cas_nl_collect_cache, up to the lock, the identity and the path.  A cache
\* that is gone is skipped.  The path is stored only for an attached cache,
\* if there is memory for it; the entry may still hold that of a cache whose
\* collection failed.
CollectLock ==
    /\ dump.at = "collect" /\ dump.lock = 0 /\ dump.ids # <<>>
    /\ LET i == Head(dump.ids)
       IN IF caches[i].up
          THEN \E path \in IF caches[i].attached THEN {i, NoPath} ELSE {dump.entry.path} :
               /\ dump' = [dump EXCEPT !.lock = i, !.entry =
                            [@ EXCEPT !.id = i, !.path = path, !.ver = Params(i)]]
               /\ snap' = Append(snap, [id |-> i, ver |-> caches[i].ver,
                    path |-> IF caches[i].attached THEN path ELSE left, cores |-> caches[i].cores])
          ELSE dump' = [dump EXCEPT !.ids = Tail(@)] /\ UNCHANGED snap
    /\ UNCHANGED <<system, ctx, reader, left>>

\* The lock is not granted, or ocf_cache_get_info fails: a cache that runs is
\* skipped like one that is gone.
CollectSkips ==
    /\ dump.at = "collect" /\ dump.lock = 0 /\ dump.ids # <<>>
    /\ dump' = [dump EXCEPT !.ids = Tail(@)]
    /\ UNCHANGED <<system, ctx, reader, snap, left>>

CollectCores(i) == Sorted(caches[i].cores)
CollectIoClasses == Sorted(Classes)

\* cas_nl_collect_cores and cas_nl_collect_io_classes, then the unlock.
CollectParts ==
    /\ dump.lock # 0
    /\ ctx' = Append(ctx, [dump.entry EXCEPT
                !.cores = CollectCores(dump.lock), !.classes = CollectIoClasses])
    /\ dump' = [dump EXCEPT !.lock = 0, !.ids = Tail(@), !.entry = EmptyEntry]
    /\ left' = NoPath
    /\ UNCHANGED <<system, reader, snap>>

\* An allocation fails: the cache is left out, its entry is used again.
CollectFails ==
    /\ dump.lock # 0
    /\ left' = Last(snap).path
    /\ dump' = [dump EXCEPT !.lock = 0, !.ids = Tail(@)]
    /\ snap' = Front(snap)
    /\ UNCHANGED <<system, ctx, reader>>

CollectDone ==
    /\ dump.at = "collect" /\ dump.ids = <<>>
    /\ dump' = [dump EXCEPT !.at = "dump", !.entry = EmptyEntry]
    /\ UNCHANGED <<system, ctx, reader, snap, left>>

\* The records, and the room they take.
Record(kind, e, sub, path, size) ==
    [kind |-> kind, cache |-> e.id, sub |-> sub, path |-> path, ver |-> e.ver,
     size |-> size]
\* cas_nl_put_cache_msg, cas_nl_put_core_msg, cas_nl_put_ioclass_msg, each
\* with the attributes of cas_nl_put_stats.
CacheMsg(e) == Record("cache", e, 0, e.path, 2)
CoreMsg(e, c) == Record("core", e, c, NoPath, 1)
IoClassMsg(e, k) == Record("class", e, k, NoPath, 1)

\* The record at a place of the dump, or that there is none left there.
Current(e) ==
    CASE cb.phase = 0 -> <<CacheMsg(e)>>
      [] cb.phase = 1 /\ cb.sub <= Len(e.cores) -> <<CoreMsg(e, e.cores[cb.sub])>>
      [] cb.phase = 2 /\ cb.sub <= Len(e.classes) -> <<IoClassMsg(e, e.classes[cb.sub])>>
      [] OTHER -> <<>>

\* A dump that starts the phase it stopped in again.
RestartingAdvance(found) ==
    cb' = IF found /\ cb.phase > 0 /\ skb.room > 1 THEN [cb EXCEPT !.sub = @ + 1]
          ELSE IF cb.phase = 2 /\ ~found
               THEN [cache |-> cb.cache + 1, phase |-> 0, sub |-> 1]
               ELSE IF found /\ cb.phase > 0 THEN [cb EXCEPT !.sub = 1]
               ELSE [cb EXCEPT !.phase = @ + 1, !.sub = 1]

\* Where cas_nl_dump goes on: the next record of the phase, the next phase,
\* the next cache.
Advance(found) ==
    cb' = CASE found /\ cb.phase > 0 -> [cb EXCEPT !.sub = @ + 1]
            [] ~found /\ cb.phase = 2 -> [cache |-> cb.cache + 1, phase |-> 0, sub |-> 1]
            [] OTHER -> [cb EXCEPT !.phase = @ + 1, !.sub = 1]

\* The loop of cas_nl_dump.  A record that does not fit is taken back whole
\* (genlmsg_cancel), and the buffer is delivered.
DumpRecord ==
    /\ dump.at = "dump" /\ cb.cache <= Len(ctx)
    /\ LET rec == Current(ctx[cb.cache])
       IN /\ rec # <<>> => skb.room >= rec[1].size
          /\ Advance(rec # <<>>)
          /\ skb' = IF rec = <<>> THEN skb
                    ELSE [room |-> skb.room - rec[1].size, msgs |-> skb.msgs \o rec]
    /\ UNCHANGED <<system, dump, ctx, received, snap, left>>

\* The buffer is full, or all is written.  An empty one ends the dump.
Deliver ==
    /\ dump.at = "dump"
    /\ IF cb.cache <= Len(ctx)
       THEN LET rec == Current(ctx[cb.cache])
            IN rec # <<>> /\ skb.room < rec[1].size
       ELSE TRUE
    /\ received' = received \o skb.msgs
    /\ skb' = [room |-> Room, msgs |-> <<>>]
    /\ dump' = IF skb.msgs = <<>> THEN [dump EXCEPT !.at = "done"] ELSE dump
    /\ UNCHANGED <<system, ctx, cb, snap, left>>

\* cas_nl_dump_done
DumpDone ==
    /\ dump.at = "done"
    /\ dump' = [dump EXCEPT !.at = "over"]
    /\ ctx' = <<>>
    /\ UNCHANGED <<system, reader, snap, left>>

DumpNext ==
    \/ \E i \in Ids : Manage(i)
    \/ DumpStart \/ DumpStartFails \/ CollectLock \/ CollectSkips \/ CollectParts
    \/ CollectFails \/ CollectDone \/ DumpRecord \/ Deliver \/ DumpDone

-----------------------------------------------------------------------------
(* Properties                                                              *)

\* The records a cache has to be reported with.
Report(s) ==
    LET rec(kind, sub, path, size) ==
            [kind |-> kind, cache |-> s.id, sub |-> sub, path |-> path,
             ver |-> s.ver, size |-> size]
        cores == Sorted(s.cores)
        classes == Sorted(Classes)
    IN <<rec("cache", 0, s.path, 2)>>
        \o [k \in DOMAIN cores |-> rec("core", cores[k], NoPath, 1)]
        \o [k \in DOMAIN classes |-> rec("class", classes[k], NoPath, 1)]
Expected == FlattenSeq([k \in DOMAIN snap |-> Report(snap[k])])

\* Whatever happens to the caches meanwhile and wherever the buffers end,
\* the reader of a complete dump gets every cache as it was at one moment,
\* with its path, its cores and its classes, each once and in order, and at
\* any time a beginning of that (service_ui_netlink.c:223-320, 695-819).  The
\* reader is not told what the dump leaves out: a cache whose lock, info or
\* memory was not to be had (733-739), a path with no memory for it.  And a
\* cache that is not attached comes with the path of one before it if the
\* collection of that one failed, for its entry is used again as it is.
DumpExact ==
    /\ dump.at \in {"dump", "done", "over"} =>
        /\ IsPrefix(received \o skb.msgs, Expected)
        /\ dump.at # "dump" => received = Expected
    /\ dump.lock # 0 => caches[dump.lock].ver = dump.entry.ver
=============================================================================
