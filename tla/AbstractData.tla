---------------------------- MODULE AbstractData ----------------------------
(***************************************************************************)
(* What OCF expects of the data buffers of its context: each is a run of   *)
(* bytes with a position.  Reading, writing and zeroing work at the        *)
(* position and move it, as far as there are bytes; a copy between buffers *)
(* and a transfer to a disk leave the positions alone.                     *)
(*                                                                         *)
(* Zeroing has a condition: a run of bytes may be cut at some places       *)
(* (Cuts), and a count that ends at none of them stands for all the bytes  *)
(* that are left.                                                          *)
(***************************************************************************)
EXTENDS Integers, Sequences, SequencesExt, FiniteSetsExt

CONSTANT Cuts   \* buffer -> the places where zeroing can stop

VARIABLES
    bytes,      \* buffer -> its bytes
    pos,        \* buffer -> bytes before the position
    req,        \* the last call, with its arguments
    result      \* what it returned

Bufs == DOMAIN bytes

\* The number of bytes done, those returned, those that arrived at the disk
\* with their addresses, and whether the call succeeded.
Result(n, data, sent, ok) == [n |-> n, data |-> data, sent |-> sent, ok |-> ok]
Done(n) == Result(n, <<>>, <<>>, TRUE)

Init == pos \in [Bufs -> Nat] /\ result = Done(0)

\* n bytes at the position, or as many as there are.
Reach(b, n) == Min({n, Len(bytes[b]) - pos[b]})
\* src put over the bytes of s that follow the first p.
Overlay(s, p, src) ==
    [k \in DOMAIN s |-> IF k > p /\ k <= p + Len(src) THEN src[k - p] ELSE s[k]]

Put(b, src) ==
    LET n == Reach(b, Len(src))
    IN /\ result' = Done(n)
       /\ pos' = [pos EXCEPT ![b] = @ + n]
       /\ bytes' = [bytes EXCEPT ![b] = Overlay(@, pos[b], SubSeq(src, 1, n))]

\* The source a caller writes from has the bytes -1, -2, ...
Write(b, n) == Put(b, [k \in 1 .. n |-> -k])
Zeroed(b, n) == IF n = 0 \/ pos[b] + n \in Cuts[b] THEN n ELSE Len(bytes[b]) - pos[b]
Zero(b, n) == Put(b, [k \in 1 .. Zeroed(b, n) |-> 0])

Read(b, n) ==
    LET m == Reach(b, n)
    IN /\ result' = Result(m, SubSeq(bytes[b], pos[b] + 1, pos[b] + m),
                           <<>>, TRUE)
       /\ pos' = [pos EXCEPT ![b] = @ + m]
       /\ UNCHANGED bytes

Erase(b) ==
    /\ result' = Done(0)
    /\ bytes' = [bytes EXCEPT ![b] = [k \in DOMAIN @ |-> 0]]
    /\ UNCHANGED pos

Seek(b, from, n) ==
    LET to == Min({from + n, Len(bytes[b])})
    IN /\ result' = Done(to - from)
       /\ pos' = [pos EXCEPT ![b] = to]
       /\ UNCHANGED bytes

\* The bytes of b from offset `from`, into d from offset `to`.
Copy(d, b, to, from, n) ==
    LET m == Max({0, Min({n, Len(bytes[d]) - to, Len(bytes[b]) - from})})
    IN /\ result' = Done(m)
       /\ bytes' = [bytes EXCEPT
               ![d] = Overlay(@, to, SubSeq(bytes[b], from + 1, from + m))]
       /\ UNCHANGED pos

\* A transfer of n bytes from offset `from` to the disk address addr: every
\* byte arrives at its own address, and an error says that some were missing.
Transfer(b, from, n, addr) ==
    LET m == Max({0, Min({n, Len(bytes[b]) - from})})
        sent == [k \in 1 .. m |-> <<addr + k - 1, bytes[b][from + k]>>]
    IN /\ result' = Result(m, <<>>, sent,
                           m = n /\ from <= Len(bytes[b]))
       /\ UNCHANGED <<bytes, pos>>

\* One call with its arguments: the buffer, the other buffer of a copy,
\* offsets and a length.
Call(op, b, d, from, to, n) ==
    \/ op = "write" /\ Write(b, n)
    \/ op = "read" /\ Read(b, n)
    \/ op = "zero" /\ Zero(b, n)
    \/ op = "erase" /\ Erase(b)
    \/ op = "seek begin" /\ Seek(b, 0, n)
    \/ op = "seek current" /\ Seek(b, pos[b], n)
    \/ op = "copy" /\ Copy(d, b, to, from, n)
    \/ op = "forward" /\ Transfer(b, from, n, to)

Next == Call(req'.op, req'.b, req'.d, req'.from, req'.to, req'.n)

Spec == Init /\ [][Next]_<<bytes, pos, req, result>>
=============================================================================
