------------------------------- MODULE Pools --------------------------------
(***************************************************************************)
(* The memory of the data buffers (modules/cas_cache): reserve pools with  *)
(* a list per CPU (utils/utils_rpool.c), allocators that take an item from *)
(* their reserve pool or from the system (ocf_env.c), a memory pool with   *)
(* an allocator for every power of two and vmalloc beyond the largest      *)
(* (utils/utils_mpool.c), and the buffers with their pages (context.c).    *)
(*                                                                         *)
(* Items of a pool are counted, not named: pool[k][c] is the length of the *)
(* list of CPU c.  The pool -1 holds pages, the pool k >= 0 the buffers'   *)
(* headers of order k.                                                     *)
(***************************************************************************)
EXTENDS Integers, Sequences, FiniteSets, FiniteSetsExt, Functions

CONSTANTS
    Cpus,       \* the CPUs, numbers from 1
    Limit,      \* items a reserve pool keeps for each CPU
    MpoolMax,   \* the largest order of the memory pool
    MaxPages,   \* bound on the pages of a buffer
    Slots       \* bound on the buffers that exist at a time

VARIABLES
    stage,      \* how many of the pools cas_initialize_context has created
    pool,       \* the reserve pools
    count,      \* order -> allocator->count
    data,       \* the buffers
    memory,     \* items and pages taken from the system and not given back
    pageFailed, \* whether a page could not be allocated for a buffer
    warned,     \* whether an allocator was destroyed with objects in use
    poolFault   \* whether memory was used that is none of the pool's

poolVars == <<stage, pool, count, data, memory, pageFailed, warned, poolFault>>

Orders == 0 .. MpoolMax
Pages == -1
Pools == {Pages} \cup Orders
\* In the order of cas_initialize_context: the memory pool, then the pages.
Stages == MpoolMax + 2
\* Where an item came from: a CPU's list, or none for the system.
System == 0
NoData == [st |-> "none", size |-> 0, order |-> 0, from |-> System, pages |-> <<>>]

PoolInit ==
    /\ stage = 0
    /\ pool = [k \in Pools |-> [c \in Cpus |-> 0]]
    /\ count = [k \in Orders |-> 0]
    /\ data = [s \in Slots |-> NoData]
    /\ memory = 0
    /\ pageFailed = FALSE /\ warned = FALSE /\ poolFault = FALSE

InPools == SumFunction([k \in Pools |-> SumFunction(pool[k])])

\* cas_rpool_create, with _cas_rpool_pre_alloc_do on every CPU, and
\* cas_rpool_destroy.
PreAlloc == [c \in Cpus |-> Limit]
RpoolCreate(k) == [pool EXCEPT ![k] = PreAlloc]
RpoolDestroy == [k \in Pools |-> [c \in Cpus |-> 0]]

\* The next pool: env_mpool_create makes the allocators in order.
NextPool == IF stage <= MpoolMax THEN stage ELSE Pages
\* env_allocator_create_extended
CreatePool ==
    /\ stage < Stages
    /\ stage' = stage + 1
    /\ pool' = RpoolCreate(NextPool)
    /\ memory' = memory + Limit * Cardinality(Cpus)
    /\ UNCHANGED <<count, data, pageFailed, warned, poolFault>>

\* env_allocator_destroy warns of objects that are in use.
AllocatorDestroy == warned' = (warned \/ \E k \in Orders : count[k] # 0)

\* env_mpool_destroy, then cas_rpool_destroy for the pages: all lists are
\* given back.
DestroyPools ==
    /\ stage' = 0
    /\ pool' = RpoolDestroy
    /\ memory' = memory - InPools
    /\ AllocatorDestroy
    /\ count' = [k \in Orders |-> 0]
    /\ UNCHANGED <<data, pageFailed, poolFault>>

\* What one CPU's list could get is given back, and the pools before it.
CreateFails == stage < Stages /\ stage > 0 /\ DestroyPools

\* cas_cleanup_context, once OCF has released every buffer.
CleanupContext ==
    /\ stage = Stages
    /\ \A s \in Slots : data[s].st = "none"
    /\ DestroyPools

\* The order of the highest bit alone, which may be too small.
TruncatingOrder(n) == Max({0} \cup {k \in 0 .. n : 2^k <= n})

\* env_mpool_get_allocator: the smallest order that holds n, or none.
OrderOf(n) == Min({k \in 0 .. n : 2^k >= n})
HasAllocator(n) == OrderOf(n) <= MpoolMax

\* cas_rpool_try_get on a CPU's list
TryGet(k, cpu) == pool[k][cpu] > 0

\* env_allocator_new: from the list if there is an item, else from the system.
AllocatorNew(k, cpu) ==
    /\ pool' = IF TryGet(k, cpu) THEN [pool EXCEPT ![k][cpu] = @ - 1] ELSE pool
    /\ memory' = IF TryGet(k, cpu) THEN memory ELSE memory + 1
    /\ count' = [count EXCEPT ![k] = @ + 1]

\* env_mpool_new on a CPU; beyond the largest order with vmalloc.
NewHeader(s, n, cpu, st) ==
    LET k == OrderOf(n)
        pooled == HasAllocator(n) /\ TryGet(k, cpu)
    IN /\ data[s].st = "none" /\ stage = Stages
       /\ data' = [data EXCEPT ![s] = [st |-> st, size |-> n, order |-> k,
                    from |-> IF pooled THEN cpu ELSE System, pages |-> <<>>]]
       /\ IF HasAllocator(n) THEN AllocatorNew(k, cpu)
          ELSE memory' = memory + 1 /\ UNCHANGED <<pool, count>>
       /\ UNCHANGED <<stage, pageFailed, warned, poolFault>>

\* cas_alloc_blk_data: the buffer of a request, which brings its own pages.
AllocBlkData(s, n, cpu) == NewHeader(s, n, cpu, "live")
\* __cas_ctx_data_alloc, up to the loop over the pages.
DataAlloc(s, n, cpu) == n > 0 /\ NewHeader(s, n, cpu, "filling")

\* One page, on the CPU the caller now runs on.
GetPage(s, cpu) ==
    /\ data[s].st = "filling"
    /\ LET pooled == TryGet(Pages, cpu)
           pages == Append(data[s].pages, IF pooled THEN cpu ELSE System)
       IN /\ data' = [data EXCEPT ![s].pages = pages,
                ![s].st = IF Len(pages) = data[s].size THEN "live" ELSE @]
          /\ pool' = IF pooled THEN [pool EXCEPT ![Pages][cpu] = @ - 1] ELSE pool
          /\ memory' = IF pooled THEN memory ELSE memory + 1
    /\ UNCHANGED <<stage, count, pageFailed, warned, poolFault>>

\* The pool after one more item is put back on the list of CPU c, unless the
\* item is the system's or the list is full.
Refused(p, k, c) == c = System \/ p[k][IF c = System THEN 1 ELSE c] >= Limit
TryPut(p, k, c) == IF Refused(p, k, c) THEN p ELSE [p EXCEPT ![k][c] = @ + 1]

\* env_allocator_del
AllocatorDel(k, from, p, m) ==
    /\ count' = [count EXCEPT ![k] = @ - 1]
    /\ pool' = TryPut(p, k, from)
    /\ memory' = IF Refused(p, k, from) THEN m - 1 ELSE m

\* env_mpool_del with a count: the header goes to the allocator of that
\* count, or to vfree.  p and m are the pools and the memory before it.
DelHeader(s, n, p, m) ==
    LET k == OrderOf(n)
        d == data[s]
    IN /\ data' = [data EXCEPT ![s] = NoData]
       /\ poolFault' = (poolFault \/ HasAllocator(n) # (d.order <= MpoolMax))
       /\ IF HasAllocator(n) THEN AllocatorDel(k, d.from, p, m)
          ELSE pool' = p /\ memory' = m - 1 /\ UNCHANGED count
       /\ UNCHANGED <<stage, warned>>

\* Neither the pool nor the system has a page.  The pages obtained so far
\* are not given back (the loop reads the entry of the missing page), and
\* the header is deleted with their number.  One such failure is enough.
PageFails(s, cpu) ==
    /\ data[s].st = "filling" /\ pool[Pages][cpu] = 0
    /\ ~pageFailed /\ pageFailed' = TRUE
    /\ DelHeader(s, Len(data[s].pages), pool, memory)

\* cas_ctx_data_free, cas_free_blk_data: the pages go back to the lists they
\* came from, or to the system, and the header with them.
RECURSIVE PutPages(_, _)
PutPages(p, pages) ==
    IF pages = <<>> THEN p ELSE PutPages(TryPut(p, Pages, Head(pages)), Tail(pages))

DataFree(s) ==
    /\ data[s].st = "live"
    /\ LET p == PutPages(pool, data[s].pages)
           kept == SumFunction(p[Pages]) - SumFunction(pool[Pages])
       IN DelHeader(s, data[s].size, p, memory - (Len(data[s].pages) - kept))
    /\ UNCHANGED pageFailed

PoolNext ==
    \/ CreatePool \/ CreateFails \/ CleanupContext
    \/ \E s \in Slots : DataFree(s)
    \/ \E s \in Slots, cpu \in Cpus :
        \/ GetPage(s, cpu) \/ PageFails(s, cpu)
        \/ \E n \in 0 .. MaxPages : AllocBlkData(s, n, cpu) \/ DataAlloc(s, n, cpu)

PoolSpec == PoolInit /\ [][PoolNext]_poolVars

-----------------------------------------------------------------------------
(* Properties                                                              *)

\* The items of pool k outside it that belong to the list of CPU c.
Outside(k, c) ==
    IF k = Pages
    THEN SumFunction([s \in Slots |->
            Cardinality({i \in DOMAIN data[s].pages : data[s].pages[i] = c})])
    ELSE Cardinality({s \in Slots : data[s].st # "none" /\
                                    data[s].order = k /\ data[s].from = c})
Created(k) == IF k = Pages THEN stage = Stages ELSE stage > k

\* A list never holds more than its limit, and a buffer from a list fits into
\* an item of that list.  As long as every page could be
\* allocated, the items of a list and those taken from it are as many as it
\* was filled with, whichever CPUs took and gave them back, so that no item
\* is ever refused or lost; an allocator counts its buffers exactly; nothing
\* is freed where it does not belong; and the memory taken from the system
\* is that of the lists and of the buffers, none once the context is gone
\* (utils_rpool.c:203-274, ocf_env.c:44-225, utils_mpool.c:85-147,
\* context.c:87-179).
PoolsExact ==
    /\ \A k \in Pools, c \in Cpus : pool[k][c] <= Limit
    /\ \A s \in Slots : data[s].order <= MpoolMax => data[s].size <= 2^data[s].order
    /\ ~pageFailed =>
        /\ ~poolFault /\ ~warned
        /\ \A k \in Pools, c \in Cpus :
            pool[k][c] + Outside(k, c) = IF Created(k) THEN Limit ELSE 0
        /\ \A k \in Orders : count[k] =
            Cardinality({s \in Slots : data[s].st # "none" /\ data[s].order = k})
        /\ memory = InPools + SumFunction([s \in Slots |->
            IF data[s].st = "none" THEN 0 ELSE 1 + Len(data[s].pages)])
=============================================================================
