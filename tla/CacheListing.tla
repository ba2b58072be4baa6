---------------------------- MODULE CacheListing ----------------------------
(***************************************************************************)
(* casadm --list-caches (casadm/cas_lib.c: get_cache_devices,              *)
(* get_core_pool_devices, list_caches) and what the kernel answers         *)
(* (cache_mngt_list_caches, cache_mngt_get_info, cache_mngt_get_core_info, *)
(* cache_mngt_core_pool_get_paths).  The listing takes many ioctls: the    *)
(* count, pages of ids by position, one call for each cache and one for    *)
(* each core, then the pool.  Every ioctl is atomic; caches, cores and     *)
(* pool devices come and go between them.                                  *)
(***************************************************************************)
EXTENDS Integers, Sequences, FiniteSets, SequencesExt, FiniteSetsExt

CONSTANTS
    Ids, CoreIds,   \* ids of caches and of their cores
    PoolDevs,       \* devices of the core pool
    Chunk,          \* CACHE_LIST_ID_LIMIT
    MaxChanges      \* bound on the changes during the listing

VARIABLES
    kcaches,    \* the kernel's list of caches: [id, cores]
    kpool,      \* the kernel's core pool, in its order
    first,      \* both as they were when the listing began
    lister,     \* casadm: pc, count, id_position, ids of the page, page full
    cache,      \* the cache_device being filled
    caches,     \* the array of cache devices
    paths,      \* the pool: the count asked first, and the paths got
    grown,      \* whether something was added meanwhile
    shrunk,     \* whether something was removed meanwhile
    nchanges    \* number of changes

listVars == <<kcaches, kpool, first, lister, cache, caches, paths, grown, shrunk, nchanges>>
kernel == <<kcaches, kpool, grown, shrunk, nchanges>>

NoCache == [id |-> 0, cores |-> <<>>, want |-> {}]
IdsOf(s) == {s[k].id : k \in DOMAIN s}
\* Ids are only names, so the lists begin sorted.
Initials(S) == LET all == SetToSortSeq(S, LAMBDA x, y : x < y)
               IN {SubSeq(all, 1, n) : n \in 0..Len(all)}

ListInit ==
    /\ \E ids \in Initials(Ids) :
        \E cs \in [DOMAIN ids -> SUBSET CoreIds] :
            kcaches = [k \in DOMAIN ids |-> [id |-> ids[k], cores |-> cs[k]]]
    /\ kpool \in Initials(PoolDevs)
    /\ first = [caches |-> ToSet(kcaches), pool |-> ToSet(kpool)]
    /\ lister = [pc |-> "count", count |-> 0, position |-> 0, page |-> <<>>, full |-> FALSE]
    /\ cache = NoCache /\ caches = <<>>
    /\ paths = [count |-> 0, got |-> <<>>]
    /\ grown = FALSE /\ shrunk = FALSE /\ nchanges = 0

-----------------------------------------------------------------------------
(* Management commands of others.  A new cache or pool device is last.     *)

Grow ==
    /\ nchanges < MaxChanges /\ lister.pc # "end"
    /\ nchanges' = nchanges + 1 /\ grown' = TRUE
    /\ \/ \E i \in Ids \ IdsOf(kcaches) :
            kcaches' = Append(kcaches, [id |-> i, cores |-> {}]) /\ UNCHANGED kpool
       \/ \E k \in DOMAIN kcaches : \E c \in CoreIds \ kcaches[k].cores :
            kcaches' = [kcaches EXCEPT ![k].cores = @ \cup {c}] /\ UNCHANGED kpool
       \/ \E d \in PoolDevs \ ToSet(kpool) :
            kpool' = Append(kpool, d) /\ UNCHANGED kcaches
    /\ UNCHANGED <<first, lister, cache, caches, paths, shrunk>>

Shrink ==
    /\ nchanges < MaxChanges /\ lister.pc # "end"
    /\ nchanges' = nchanges + 1 /\ shrunk' = TRUE
    /\ \/ \E k \in DOMAIN kcaches : kcaches' = RemoveAt(kcaches, k) /\ UNCHANGED kpool
       \/ \E k \in DOMAIN kcaches : \E c \in kcaches[k].cores :
            kcaches' = [kcaches EXCEPT ![k].cores = @ \ {c}] /\ UNCHANGED kpool
       \/ \E k \in DOMAIN kpool : kpool' = RemoveAt(kpool, k) /\ UNCHANGED kcaches
    /\ UNCHANGED <<first, lister, cache, caches, paths, grown>>

-----------------------------------------------------------------------------
(* get_cache_devices                                                       *)

At(pc) == lister.pc = pc

\* get_cache_count; without caches the list is not asked for.
GetCacheCount ==
    /\ At("count")
    /\ lister' = [lister EXCEPT !.count = Len(kcaches),
                    !.pc = IF kcaches = <<>> THEN "pool" ELSE "list"]
    /\ UNCHANGED <<kernel, first, cache, caches, paths>>

\* Pages that start one after the place the last one ended.
GappedPage == SubSeq(kcaches, lister.position + 1 + lister.position \div Chunk,
                     Min({lister.position + Chunk, Len(kcaches)}))

\* cache_mngt_list_caches and its visitor: the caches from the position on,
\* as many as there is room for.
ListCaches == SubSeq(kcaches, lister.position + 1,
                     Min({lister.position + Chunk, Len(kcaches)}))

\* A page is asked for; the loop ends after one that is not full.
GetPage ==
    /\ At("list")
    /\ LET page == ListCaches
       IN lister' = [lister EXCEPT !.page = [k \in DOMAIN page |-> page[k].id],
                        !.full = Len(page) >= Chunk, !.position = @ + Chunk,
                        !.pc = "page"]
    /\ UNCHANGED <<kernel, first, cache, caches, paths>>

\* get_cache_device_by_id_fd for the next id of the page: cache_mngt_get_info
\* gives the ids of its cores.  A cache that is gone is skipped.
GetCacheDevice ==
    /\ At("page") /\ lister.page # <<>>
    /\ LET i == Head(lister.page)
       IN IF i \in IdsOf(kcaches)
          THEN /\ cache' = [id |-> i, cores |-> <<>>,
                            want |-> (CHOOSE x \in ToSet(kcaches) : x.id = i).cores]
               /\ lister' = [lister EXCEPT !.pc = "cores"]
          ELSE lister' = [lister EXCEPT !.page = Tail(@)] /\ UNCHANGED cache
    /\ UNCHANGED <<kernel, first, caches, paths>>

EndOfPage ==
    /\ At("page") /\ lister.page = <<>>
    /\ lister' = [lister EXCEPT !.pc = IF lister.full THEN "list" ELSE "pool"]
    /\ UNCHANGED <<kernel, first, cache, caches, paths>>

HasCore(i, c) == \E k \in DOMAIN kcaches : kcaches[k].id = i /\ c \in kcaches[k].cores

\* get_cache_device's loop over core_id_bitmap: get_core_device for the next
\* core.  A core that is gone ends the loop.
GetCoreDevice ==
    /\ At("cores") /\ cache.want # {}
    /\ LET c == Min(cache.want)
       IN cache' = IF HasCore(cache.id, c)
                   THEN [cache EXCEPT !.cores = Append(@, c), !.want = @ \ {c}]
                   ELSE [cache EXCEPT !.want = {}]
    /\ UNCHANGED <<kernel, first, lister, caches, paths>>

\* The cache is stored.  An array that is full ends the page, not the loop.
StoreCache ==
    /\ At("cores") /\ cache.want = {}
    /\ caches' = Append(caches, [id |-> cache.id, cores |-> cache.cores])
    /\ cache' = NoCache
    /\ lister' = [lister EXCEPT !.pc = "page",
                    !.page = IF Len(caches) + 1 >= lister.count THEN <<>> ELSE Tail(@)]
    /\ UNCHANGED <<kernel, first, paths>>

-----------------------------------------------------------------------------
(* get_core_pool_devices and the output                                    *)

GetCorePoolCount ==
    /\ At("pool")
    /\ paths' = [paths EXCEPT !.count = Len(kpool)]
    /\ lister' = [lister EXCEPT !.pc = IF kpool = <<>> THEN "print" ELSE "paths"]
    /\ UNCHANGED <<kernel, first, cache, caches>>

\* cache_mngt_core_pool_get_paths: as many as there is room for.
CorePoolGetPaths ==
    /\ At("paths")
    /\ paths' = [paths EXCEPT !.got = SubSeq(kpool, 1, Min({paths.count, Len(kpool)}))]
    /\ lister' = [lister EXCEPT !.pc = "print"]
    /\ UNCHANGED <<kernel, first, cache, caches>>

\* list_caches: what was got is printed.
ListOut ==
    /\ At("print")
    /\ lister' = [lister EXCEPT !.pc = "end"]
    /\ UNCHANGED <<kernel, first, cache, caches, paths>>

ListNext ==
    \/ Grow \/ Shrink
    \/ GetCacheCount \/ GetPage \/ GetCacheDevice \/ EndOfPage \/ GetCoreDevice
    \/ StoreCache \/ GetCorePoolCount \/ CorePoolGetPaths \/ ListOut

-----------------------------------------------------------------------------
(* Properties                                                              *)

\* A listing of a system nothing is removed from shows every cache, core and
\* pool device that was there when it began, each cache once; if nothing is
\* added either it shows nothing else.  No cache is stored past the end of
\* the array that was sized by the count, unless caches were added after the
\* count was read, and no path past the end of its array ever
\* (cas_lib.c:716-944, 2855-2895; layer_cache_management.c:1121-1162,
\* 3870-3905).
ListExact ==
    /\ At("end") /\ ~shrunk =>
        /\ \A x \in first.caches : \E k \in DOMAIN caches :
                caches[k].id = x.id /\ x.cores \subseteq ToSet(caches[k].cores)
        /\ first.pool \subseteq ToSet(paths.got)
        /\ Cardinality(IdsOf(caches)) = Len(caches)
    /\ At("end") /\ ~shrunk /\ ~grown =>
        /\ caches = [k \in DOMAIN kcaches |->
                [id |-> kcaches[k].id,
                 cores |-> SetToSortSeq(kcaches[k].cores, LAMBDA x, y : x < y)]]
        /\ paths.got = kpool
    /\ ~grown => Len(caches) <= lister.count
    /\ Len(paths.got) <= paths.count
=============================================================================
