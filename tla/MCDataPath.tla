----------------------------- MODULE MCDataPath -----------------------------
(***************************************************************************)
(* The way of a request through the kernel modules, in parts that share no *)
(* state: requests, their data, the computations, the memory they take and *)
(* the disks.  A behaviour chooses one part (turn) and runs it; the others *)
(* stay in an initial state, so that the state spaces add up instead of    *)
(* multiplying.                                                            *)
(***************************************************************************)
EXTENDS CasDisk, BlockIo, TLC

VARIABLE turn
VARIABLES mem, iter, call, out, calls
VARIABLES problem, answer
VARIABLES stage, pool, count, data, memory, pageFailed, warned, poolFault

bufVars == <<mem, iter, call, out, calls>>
algVars == <<problem, answer>>
memVars == <<stage, pool, count, data, memory, pageFailed, warned, poolFault>>

-----------------------------------------------------------------------------
(* Fragments that begin inside a page, end inside one and fill one. *)
MCVecs == <<
    <<[offset |-> 1, len |-> 2], [offset |-> 0, len |-> 1], [offset |-> 0, len |-> 2]>>,
    <<[offset |-> 0, len |-> 1], [offset |-> 1, len |-> 2]>> >>
Buf == INSTANCE IoBuffers WITH
    Vecs <- MCVecs, PageSize <- 3, BioVecs <- 2, MaxStart <- 5, MaxCalls <- 1

(* A last word of the bitmap that is not full; arrays with equal elements. *)
Alg == INSTANCE Algorithms WITH
    MaxIoSectors <- 4, AlignSectors <- 2, MaxSector <- 13, WordBits <- 3, CoreNum <- 8,
    CacheIdMax <- 4, MpoolMax <- 3, SortLen <- 5, SortMax <- 3

(* Buffers of one page, of the largest pooled order and beyond it. *)
Mem == INSTANCE Pools WITH
    Cpus <- 1..2, Limit <- 1, MpoolMax <- 1, MaxPages <- 3, Slots <- 1..2

(* Two paths name the same device, so that an open by the one meets an     *)
(* open by the other.                                                      *)
MCDeviceOf == [p \in Paths |-> IF p = "sdb" THEN "b" ELSE "a"]

-----------------------------------------------------------------------------
(* A part that is not chosen is in one initial state of its own. *)
Fixed(part, value) == turn = part \/ (turn # part /\ value)

Init ==
    /\ turn \in {"io", "buffers", "algorithms", "memory", "disks"}
    /\ Fixed("io", flush = FALSE /\ payload = "none")
    /\ IoInit
    /\ Fixed("buffers", iter = [b \in 1..2 |-> Buf!IterInit(MCVecs[b])])
    /\ Buf!BufInit
    /\ Fixed("algorithms", problem = Alg!Problem("data", 0, 1, <<>>, {}))
    /\ Alg!AlgInit
    /\ Mem!PoolInit
    /\ DiskInit

IoStep == /\ turn = "io" /\ IoNext
          /\ UNCHANGED <<turn, bufVars, algVars, memVars, diskVars>>
BufStep == /\ turn = "buffers" /\ Buf!BufNext
           /\ UNCHANGED <<turn, ioVars, algVars, memVars, diskVars>>
AlgStep == /\ turn = "algorithms" /\ Alg!AlgNext
           /\ UNCHANGED <<turn, ioVars, bufVars, memVars, diskVars>>
MemStep == /\ turn = "memory" /\ Mem!PoolNext
           /\ UNCHANGED <<turn, ioVars, bufVars, algVars, diskVars>>
DisksStep == /\ turn = "disks" /\ DiskNext
             /\ UNCHANGED <<turn, ioVars, bufVars, algVars, memVars>>

Next == IoStep \/ BufStep \/ AlgStep \/ MemStep \/ DisksStep

Spec == Init /\ [][Next]_<<turn, ioVars, bufVars, algVars, memVars, diskVars>>

-----------------------------------------------------------------------------
\* The data vector and its iterator are a plain run of bytes and a position
\* (cas_io_iter_cpy and the other operations of vol_blk_utils.c).
ImplementsStream == Buf!ImplementsStream

\* The splits of requests and discards, the choice of ids and of allocators
\* and the sort compute what they have to.
AnswersRight == turn = "algorithms" => Alg!AnswersRight

\* No buffer of the pools is used twice or lost, and all memory is given
\* back (cas_rpool_try_get, env_allocator_new, cas_mpool_new).
PoolsExact == turn = "memory" => Mem!PoolsExact
=============================================================================
