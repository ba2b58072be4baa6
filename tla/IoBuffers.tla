------------------------------ MODULE IoBuffers -----------------------------
(***************************************************************************)
(* The data buffers of the OCF context: vectors of page fragments with an  *)
(* iterator (modules/cas_cache/volume/vol_blk_utils.c and .h), the copy    *)
(* between vectors (utils/utils_data.c), the context's operations on them  *)
(* (context.c) and the transfer of a vector in bios, as many as it takes   *)
(* (block_dev_forward_io).  Shown to implement the buffers of AbstractData.*)
(*                                                                         *)
(* Indices of vectors start at 1 here.  A cell <<i, o>> is the byte at     *)
(* offset o of the page of fragment i.                                     *)
(***************************************************************************)
EXTENDS Integers, Sequences, FiniteSets, SequencesExt, FiniteSetsExt, Functions

CONSTANTS
    Vecs,       \* buffer -> its vector of [offset, len]
    PageSize,
    BioVecs,    \* how many fragments a bio takes
    MaxStart,   \* bound on the positions the iterators start from
    MaxCalls    \* bound on the calls made

VARIABLES
    mem,        \* buffer -> the pages of its fragments
    iter,       \* buffer -> blk_data.iter
    call,       \* the last call, with its arguments
    out,        \* what it returned
    calls

bufVars == <<mem, iter, call, out, calls>>
Buffers == DOMAIN Vecs

\* cas_io_iter_init
IterInit(vec) == [idx |-> 1, offset |-> vec[1].offset, len |-> vec[1].len]

Cells(i, o, n) == [k \in 1 .. n |-> <<i, o + k - 1>>]

\* An iterator that goes on to the next fragment one byte too late.
LateAdvanced(vec, it, n) ==
    IF it.len > n \/ it.idx = Len(vec)
    THEN [it EXCEPT !.len = @ - n, !.offset = @ + n]
    ELSE [idx |-> it.idx + 1, offset |-> 0, len |-> vec[it.idx + 1].len]

\* cas_io_iter_advanced
Advanced(vec, it, n) ==
    CASE it.len > n -> [it EXCEPT !.len = @ - n, !.offset = @ + n]
      [] it.len = n /\ it.idx < Len(vec) ->
            [idx |-> it.idx + 1, offset |-> vec[it.idx + 1].offset,
             len |-> vec[it.idx + 1].len]
      [] OTHER -> [idx |-> it.idx + 1, offset |-> 0, len |-> 0]

\* The loop of cas_io_iter_move, cas_io_iter_cpy_from_data and
\* cas_io_iter_cpy_to_data: the cells passed, and where it ends.
RECURSIVE Walk(_, _, _)
Walk(vec, it, n) ==
    LET step == Min({it.len, n})
        rest == Walk(vec, Advanced(vec, it, step), n - step)
    IN IF step = 0 THEN [at |-> <<>>, iter |-> it]
       ELSE [at |-> Cells(it.idx, it.offset, step) \o rest.at,
             iter |-> rest.iter]

Result(n, data, sent, ok) ==
    [n |-> n, data |-> data, sent |-> sent, ok |-> ok]
Done(n) == Result(n, <<>>, <<>>, TRUE)

BufInit ==
    /\ mem = [b \in Buffers |-> [i \in 1 .. Len(Vecs[b]) |->
                [o \in 0 .. PageSize - 1 |-> 100 * b + 10 * i + o]]]
    /\ \E p \in [Buffers -> 0 .. MaxStart] :
        iter = [b \in Buffers |-> Walk(Vecs[b], IterInit(Vecs[b]), p[b]).iter]
    /\ out = Done(0)
    /\ calls = 0
    /\ call = [op |-> "none", b |-> 1, d |-> 1, from |-> 0, to |-> 0, n |-> 0]

\* The loop of cas_io_iter_zero takes whole fragments, whatever is asked
\* for: once fewer bytes are left than the fragment has, the count wraps
\* around below zero and the loop runs to the end of the vector.
RECURSIVE ZeroWalk(_, _, _)
ZeroWalk(vec, it, n) ==
    LET rest == ZeroWalk(vec, Advanced(vec, it, it.len), n - it.len)
    IN IF n = 0 \/ it.len = 0 THEN [at |-> <<>>, iter |-> it]
       ELSE [at |-> Cells(it.idx, it.offset, it.len) \o rest.at,
             iter |-> rest.iter]

\* The page memory with the cells of `at` set to the bytes of src.
Stored(pages, at, src) ==
    [i \in DOMAIN pages |-> [o \in DOMAIN pages[i] |->
        IF \E k \in DOMAIN at : at[k] = <<i, o>>
        THEN src[CHOOSE k \in DOMAIN at : at[k] = <<i, o>>]
        ELSE pages[i][o]]]
Loaded(pages, at) == [k \in DOMAIN at |-> pages[at[k][1]][at[k][2]]]

\* _cas_ctx_write_data, _cas_ctx_read_data, _cas_ctx_zero_data
Write(b, n) ==
    LET w == Walk(Vecs[b], iter[b], n)
    IN /\ mem' = [mem EXCEPT ![b] = Stored(@, w.at, [k \in 1 .. n |-> -k])]
       /\ iter' = [iter EXCEPT ![b] = w.iter]
       /\ out' = Done(Len(w.at))

Read(b, n) ==
    LET w == Walk(Vecs[b], iter[b], n)
    IN /\ out' = Result(Len(w.at), Loaded(mem[b], w.at), <<>>, TRUE)
       /\ iter' = [iter EXCEPT ![b] = w.iter]
       /\ UNCHANGED mem

Zero(b, n) ==
    LET w == ZeroWalk(Vecs[b], iter[b], n)
    IN /\ mem' = [mem EXCEPT ![b] = Stored(@, w.at, [k \in DOMAIN w.at |-> 0])]
       /\ iter' = [iter EXCEPT ![b] = w.iter]
       /\ out' = Done(Len(w.at))

\* cas_ctx_data_secure_erase: whole pages.
SecureErase(b) ==
    /\ mem' = [mem EXCEPT ![b] = [i \in DOMAIN @ |-> [o \in DOMAIN @[i] |-> 0]]]
    /\ out' = Done(0)
    /\ UNCHANGED iter

\* _cas_ctx_seek_data, from the beginning or from the position.
Seek(b, begin, n) ==
    LET w == Walk(Vecs[b], IF begin THEN IterInit(Vecs[b]) ELSE iter[b], n)
    IN /\ iter' = [iter EXCEPT ![b] = w.iter]
       /\ out' = Done(Len(w.at))
       /\ UNCHANGED mem

\* get_starting_vec: the fragment that holds the byte at an offset.
RECURSIVE StartingVec(_, _, _)
StartingVec(vec, i, offset) ==
    CASE i > Len(vec) -> [idx |-> 0, offset |-> 0, len |-> 0]
      [] i <= Len(vec) /\ vec[i].len > offset ->
            [idx |-> i, offset |-> vec[i].offset + offset,
             len |-> vec[i].len - offset]
      [] OTHER -> StartingVec(vec, i + 1, offset - vec[i].len)

\* The loop of cas_data_cpy: the cells written with the cells they are
\* read from, until all is copied or one of the vectors ends.
RECURSIVE CpyLoop(_, _, _, _, _)
CpyLoop(dvec, d, svec, s, n) ==
    LET step == Min({d.len, s.len, n})
        rest == CpyLoop(dvec, Advanced(dvec, d, step),
                        svec, Advanced(svec, s, step), n - step)
    IN IF step = 0 THEN [dst |-> <<>>, src |-> <<>>]
       ELSE [dst |-> Cells(d.idx, d.offset, step) \o rest.dst,
             src |-> Cells(s.idx, s.offset, step) \o rest.src]

\* _cas_ctx_data_copy, cas_data_cpy
Copy(d, b, to, from, n) ==
    LET dit == StartingVec(Vecs[d], 1, to)
        sit == StartingVec(Vecs[b], 1, from)
        c == CpyLoop(Vecs[d], dit, Vecs[b], sit, n)
    IN /\ IF dit.idx = 0 \/ sit.idx = 0
          THEN UNCHANGED mem /\ out' = Done(0)
          ELSE /\ mem' = [mem EXCEPT ![d] = Stored(@, c.dst, Loaded(mem[b], c.src))]
               /\ out' = Done(Len(c.dst))
       /\ UNCHANGED iter

\* The pages added to one bio: fragments, until the bio is full or nothing
\* is left to send.
RECURSIVE AddPages(_, _, _, _)
AddPages(vec, it, n, room) ==
    LET step == Min({it.len, n})
        rest == AddPages(vec, Walk(vec, it, step).iter, n - step, room - 1)
    IN IF step = 0 \/ room = 0 THEN [at |-> <<>>, iter |-> it, left |-> n]
       ELSE [rest EXCEPT !.at = Cells(it.idx, it.offset, step) \o @]

\* The loop of block_dev_forward_io: the bios, each with the address it is
\* sent to.
RECURSIVE ForwardBios(_, _, _, _)
ForwardBios(vec, it, addr, n) ==
    LET bio == AddPages(vec, it, n, BioVecs)
        rest == ForwardBios(vec, bio.iter, addr + Len(bio.at), bio.left)
    IN IF n = 0 \/ it.idx > Len(vec) THEN [bios |-> <<>>, left |-> n]
       ELSE [rest EXCEPT !.bios = <<[addr |-> addr, at |-> bio.at]>> \o @]

\* block_dev_forward_io: the bytes as the disk receives them.
ForwardIo(b, from, n, addr) ==
    LET move == Walk(Vecs[b], IterInit(Vecs[b]), from)
        fwd == ForwardBios(Vecs[b], move.iter, addr, n)
        sent == FlattenSeq([k \in DOMAIN fwd.bios |->
                    LET bio == fwd.bios[k]
                    IN [j \in DOMAIN bio.at |->
                        <<bio.addr + j - 1, Loaded(mem[b], bio.at)[j]>>]])
    IN /\ out' = IF Len(move.at) # from
                 THEN Result(0, <<>>, <<>>, FALSE)
                 ELSE Result(n - fwd.left, <<>>, sent, fwd.left = 0)
       /\ UNCHANGED <<mem, iter>>

Total(b) == SumFunction([i \in DOMAIN Vecs[b] |-> Vecs[b][i].len])
Sizes(b) == 0 .. Total(b) + 1

Ops == {"write", "read", "zero", "erase", "seek begin", "seek current"}

\* The calls that can be made, each with the arguments it has.
Calls ==
    UNION { [op : Ops, b : {b}, d : {b}, from : {0}, to : {0}, n : Sizes(b)]
            \cup [op : {"forward"}, b : {b}, d : {b}, from : Sizes(b),
                  to : {0, 3}, n : Sizes(b)] : b \in Buffers }
    \cup UNION { [op : {"copy"}, b : {b}, d : {d}, from : Sizes(b),
                  to : Sizes(d), n : Sizes(b)] :
                    b \in Buffers, d \in Buffers }

BufNext ==
    /\ calls < MaxCalls /\ calls' = calls + 1
    /\ \E c \in Calls :
        /\ call' = c
        /\ \/ c.op = "write" /\ Write(c.b, c.n)
           \/ c.op = "read" /\ Read(c.b, c.n)
           \/ c.op = "zero" /\ Zero(c.b, c.n)
           \/ c.op = "erase" /\ SecureErase(c.b)
           \/ c.op = "seek begin" /\ Seek(c.b, TRUE, c.n)
           \/ c.op = "seek current" /\ Seek(c.b, FALSE, c.n)
           \/ c.op = "copy" /\ c.b # c.d /\ Copy(c.d, c.b, c.to, c.from, c.n)
           \/ c.op = "forward" /\ ForwardIo(c.b, c.from, c.n, c.to)

-----------------------------------------------------------------------------
(* Refinement                                                              *)

\* The bytes of a buffer are those of its fragments, one after the other.
FlatCells(b) ==
    FlattenSeq([i \in DOMAIN Vecs[b] |->
                    Cells(i, Vecs[b][i].offset, Vecs[b][i].len)])
FlatBytes == [b \in Buffers |-> Loaded(mem[b], FlatCells(b))]
\* The position of an iterator that agrees with its fragment.
Position(b) ==
    LET it == iter[b]
        vec == Vecs[b]
    IN CASE it.idx > Len(vec) /\ it.len = 0 -> Total(b)
         [] it.idx <= Len(vec) /\ it.len > 0 /\
            it.offset + it.len = vec[it.idx].offset + vec[it.idx].len ->
                SumFunction([i \in 1 .. it.idx - 1 |-> vec[i].len])
                    + it.offset - vec[it.idx].offset
         [] OTHER -> -1

\* The ends of the fragments.
Ends(b) == {SumFunction([k \in 1 .. i |-> Vecs[b][k].len]) : i \in DOMAIN Vecs[b]}

Stream == INSTANCE AbstractData WITH
    bytes <- FlatBytes, pos <- [b \in Buffers |-> Position(b)], req <- call,
    result <- out, Cuts <- [b \in Buffers |-> Ends(b)]

\* From every position, with every offset and length, reading, writing,
\* zeroing, seeking, copying and sending to a disk do with the vector and
\* its iterator what the same call does with a plain run of bytes and a
\* position: nothing is skipped, repeated or put at another address where
\* fragments or bios meet (vol_blk_utils.c:12-197, utils_data.c:20-132,
\* vol_block_dev_bottom.c:148-243).  Zeroing is the exception that
\* AbstractData states: cas_io_iter_zero takes whole fragments (line 179), so
\* a count that ends inside one zeroes everything up to the buffer's end.
ImplementsStream == Stream!Init /\ [][Stream!Next]_bufVars
=============================================================================
