----------------------------- MODULE Algorithms -----------------------------
(***************************************************************************)
(* Algorithms of the kernel module that compute something without waiting: *)
(* how a long request is split into I/Os (vol_block_dev_top.c), how a      *)
(* discard is split into bios (vol_block_dev_bottom.c), which id a new     *)
(* core or cache gets (layer_cache_management.c), which allocator serves a *)
(* vector (utils_mpool.c) and the sorting OCF is given (ocf_env.c).        *)
(* A behaviour takes one problem and computes the answer; the answer is    *)
(* compared with a definition of what it has to be.                        *)
(***************************************************************************)
EXTENDS Integers, Sequences, FiniteSets, SequencesExt, FiniteSetsExt

CONSTANTS
    MaxIoSectors, AlignSectors, \* of blkdev_handle_data
    MaxSector,      \* bound on the sectors of a request and where it starts
    WordBits,       \* bits of a word of the core id bitmap
    CoreNum,        \* OCF_CORE_NUM
    CacheIdMax,     \* OCF_CACHE_ID_MAX
    MpoolMax,       \* the largest order of a memory pool
    SortLen, SortMax    \* bounds on what is sorted

VARIABLES problem, answer
algVars == <<problem, answer>>

\* blkdev_handle_data: the first sector and the length of every part.
RECURSIVE SplitData(_, _)
SplitData(start, sectors) ==
    LET n == IF sectors <= MaxIoSectors THEN sectors
             ELSE MaxIoSectors - (start % AlignSectors)
    IN IF sectors = 0 THEN <<>>
       ELSE <<[start |-> start, len |-> n]>> \o SplitData(start + n, sectors - n)

RECURSIVE SplitDiscard(_, _, _, _, _)

\* A discard that does not keep to the alignment.
UnalignedDiscard(start, sects, max, gran, align) ==
    Min({sects, max - (max % gran)})

\* block_dev_forward_discard: the sectors of the next bio.
DiscardBio(start, sects, max, gran, align) ==
    LET n == Min({sects, max - (max % gran)})
        end == start + n
    IN IF n < sects /\ end % gran # align
       THEN ((end - align) \div gran) * gran + align - start
       ELSE n

SplitDiscard(start, sects, max, gran, align) ==
    LET n == DiscardBio(start, sects, max, gran, align)
    IN IF sects = 0 \/ max < gran THEN <<>>
       ELSE <<[start |-> start, len |-> n]>>
                \o SplitDiscard(start + n, sects - n, max, gran, align)

\* _ffz over the words of the bitmap, then find_free_core_id: 0 is the last
\* id to be given.
FreeIn(used, word) ==
    {k \in word * WordBits .. (word + 1) * WordBits - 1 : k \notin used}
FindFreeCoreId(used) ==
    LET words == {w \in 0 .. CoreNum : w * WordBits < CoreNum /\
                                       FreeIn(used \cup {0}, w) # {}}
        id == IF words = {} THEN CoreNum
              ELSE Min({CoreNum, Min(FreeIn(used \cup {0}, Min(words)))})
    IN IF id = CoreNum /\ 0 \notin used THEN 0 ELSE id

\* find_free_cache_id: the search stops before the last id, which is
\* returned untried.
FindFreeCacheId(used) ==
    Min({id \in 1 .. CacheIdMax : id = CacheIdMax \/ id \notin used})

\* env_mpool_get_allocator: the index from the highest bit of the count, one
\* more when there are lower ones; -1 for none.
HighestBit(n) == Max({k \in 0 .. n : 2^k <= n})
GetAllocator(count) ==
    LET high == IF count = 0 THEN 0 ELSE HighestBit(count)
        idx == IF count > 2^high THEN high + 1 ELSE high
    IN IF count = 0 THEN 0 ELSE IF idx > MpoolMax THEN -1 ELSE idx

\* env_sort: one pass down the heap of the first n elements; the array has
\* the indices 0, 1, ...
Swap(a, i, j) == [a EXCEPT ![i] = a[j], ![j] = a[i]]
RECURSIVE SiftDown(_, _, _)
SiftDown(a, r, n) ==
    LET left == 2 * r + 1
        c == IF left < n - 1 /\ a[left] < a[left + 1] THEN left + 1 ELSE left
    IN IF left >= n THEN a
       ELSE IF a[r] >= a[c] THEN a
       ELSE SiftDown(Swap(a, r, c), c, n)

RECURSIVE Heapify(_, _, _)
Heapify(a, i, n) == IF i < 0 THEN a ELSE Heapify(SiftDown(a, i, n), i - 1, n)

RECURSIVE SortLoop(_, _)
SortLoop(a, i) ==
    IF i <= 0 THEN a ELSE SortLoop(SiftDown(Swap(a, 0, i), 0, i), i - 1)

EnvSort(a, num) == SortLoop(Heapify(a, num \div 2 - 1, num), num - 1)

-----------------------------------------------------------------------------
Problem(kind, a, b, c, used) == [kind |-> kind, a |-> a, b |-> b, c |-> c, used |-> used]

Problems ==
    {Problem("data", s, n, <<>>, {}) : s \in 0 .. AlignSectors, n \in 1 .. MaxSector}
    \cup {Problem("discard", s, n, <<max, gran, align>>, {}) :
            s \in 0 .. 4, n \in 0 .. MaxSector, max \in 1 .. 5,
            gran \in 1 .. 4, align \in 0 .. 3}
    \cup {Problem("core", 0, 0, <<>>, used) : used \in SUBSET (0 .. CoreNum - 1)}
    \cup {Problem("cache", 0, 0, <<>>, used) : used \in SUBSET (1 .. CacheIdMax)}
    \cup {Problem("mpool", n, 0, <<>>, {}) : n \in 0 .. 2^(MpoolMax + 1)}
    \cup UNION {{Problem("sort", n, 0, a, {}) : a \in [0 .. n - 1 -> 1 .. SortMax]} :
            n \in 0 .. SortLen}

AlgInit ==
    /\ problem \in Problems
    /\ problem.kind = "discard" => problem.c[3] < problem.c[2]
    /\ answer = [done |-> FALSE, id |-> 0, seq |-> <<>>]

\* The answer of an algorithm that yields a number, and of one that yields
\* a sequence or an array.
Number(id) == [done |-> TRUE, id |-> id, seq |-> <<>>]
Sequence(seq) == [done |-> TRUE, id |-> 0, seq |-> seq]

Compute ==
    /\ ~answer.done
    /\ UNCHANGED problem
    /\ LET p == problem
       IN \/ p.kind = "data" /\ answer' = Sequence(SplitData(p.a, p.b))
          \/ /\ p.kind = "discard"
             /\ answer' = Sequence(SplitDiscard(p.a, p.b, p.c[1], p.c[2], p.c[3]))
          \/ p.kind = "core" /\ answer' = Number(FindFreeCoreId(p.used))
          \/ p.kind = "cache" /\ answer' = Number(FindFreeCacheId(p.used))
          \/ p.kind = "mpool" /\ answer' = Number(GetAllocator(p.a))
          \/ p.kind = "sort" /\ answer' = Sequence(EnvSort(p.c, p.a))

AlgNext == Compute

-----------------------------------------------------------------------------
(* What the answers have to be                                             *)

\* Pieces follow each other from start and cover n sectors; none is empty.
Covers(pieces, start, n) ==
    /\ \A k \in DOMAIN pieces :
        /\ pieces[k].len > 0
        /\ pieces[k].start = IF k = 1 THEN start
                             ELSE pieces[k - 1].start + pieces[k - 1].len
    /\ IF pieces = <<>> THEN n = 0
       ELSE Last(pieces).start + Last(pieces).len = start + n

DataSplit(start, n, pieces) ==
    /\ Covers(pieces, start, n)
    /\ \A k \in DOMAIN pieces : pieces[k].len <= MaxIoSectors
    \* The parts after the first start at an aligned sector.
    /\ \A k \in DOMAIN pieces \ {1} :
        (MaxIoSectors % AlignSectors = 0) => pieces[k].start % AlignSectors = 0

DiscardSplit(start, n, max, gran, align, pieces) ==
    IF max < gran THEN pieces = <<>>
    ELSE /\ Covers(pieces, start, n)
         /\ \A k \in DOMAIN pieces : pieces[k].len <= max
         /\ \A k \in DOMAIN pieces \ {1} : pieces[k].start % gran = align

SortedCopy(a, b, n) ==
    /\ \A i \in 0 .. n - 2 : b[i] <= b[i + 1]
    /\ \A v \in 1 .. SortMax : Cardinality({i \in 0 .. n - 1 : a[i] = v}) =
                               Cardinality({i \in 0 .. n - 1 : b[i] = v})

\* A request is split into I/Os that cover it in order, none too long or
\* empty, all but the first aligned; a discard into bios that cover it, each
\* within the limit of the disk and cut only where the disk can; a core gets
\* a free id if there is one, and 0 only if there is no other; a cache gets
\* the smallest free id; the allocator chosen for a vector is the smallest
\* that holds it; sorting orders the elements and keeps them
\* (vol_block_dev_top.c:287-337, vol_block_dev_bottom.c:278-353,
\* layer_cache_management.c:705-755, utils_mpool.c:85-102, ocf_env.c:263-307).
AnswersRight ==
    LET p == problem
        id == answer.id
    IN answer.done =>
        CASE p.kind = "data" -> DataSplit(p.a, p.b, answer.seq)
          [] p.kind = "discard" ->
                DiscardSplit(p.a, p.b, p.c[1], p.c[2], p.c[3], answer.seq)
          [] p.kind = "core" ->
                LET free == (0 .. CoreNum - 1) \ p.used
                IN CASE free = {} -> id = CoreNum
                     [] free = {0} -> id = 0
                     [] OTHER -> id = Min(free \ {0})
          [] p.kind = "cache" ->
                /\ \A k \in 1 .. id - 1 : k \in p.used
                /\ id \in p.used => p.used = 1 .. CacheIdMax
          [] p.kind = "mpool" ->
                IF p.a > 2^MpoolMax THEN id = -1
                ELSE 2^id >= p.a /\ (id > 0 => 2^(id - 1) < p.a)
          [] p.kind = "sort" -> SortedCopy(p.c, answer.seq, p.a)
=============================================================================
