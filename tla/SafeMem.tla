------------------------------- MODULE SafeMem -------------------------------
(***************************************************************************)
(* The bounds-checked memory and string functions casadm is linked with    *)
(* (casadm/safeclib) and the check for mounted devices that casadm builds  *)
(* on strcmp_s.  Memory is a row of Size bytes, of which address 0 is      *)
(* aligned to a word of Word bytes; a pointer is an address or Null.  A    *)
(* behaviour makes one call; what it leaves in memory and returns is       *)
(* compared with what its description says.  The build does not define     *)
(* SAFECLIB_STR_NULL_SLACK: strings are ended, not filled up with zeroes.  *)
(***************************************************************************)
EXTENDS Integers, Sequences, FiniteSets, SequencesExt, FiniteSetsExt

CONSTANTS
    Size,       \* bytes of memory
    Word,       \* sizeof(uint32_t)
    RSizeMax    \* RSIZE_MAX_MEM, RSIZE_MAX_STR

VARIABLES call, result
memVars == <<call, result>>

Null == -1
Address == 0 .. Size - 1

\* Every byte differs from every other; in a string call byte z, if there is
\* one, is the terminator.
Memory(z) == [i \in Address |-> IF i = z THEN 0 ELSE i + 1]

\* The first check of a list that fails names the error.
FirstError(checks) ==
    LET failed == {i \in DOMAIN checks : checks[i][1]}
    IN IF failed = {} THEN "EOK" ELSE checks[Min(failed)][2]

-----------------------------------------------------------------------------
\* A unit is an offset and a number of bytes moved at once.
Bytes(from, n) == [i \in 1..n |-> [off |-> from + i - 1, len |-> 1]]
Words(from, n) == [i \in 1..n |-> [off |-> from + (i - 1) * Word, len |-> Word]]

\* mem_prim_set: bytes until the address is aligned, words, and the rest.
mem_prim_set(m, d, n, value) ==
    LET head == Min({n, (Word - (d % Word)) % Word})
        words == (n - head) \div Word
        units == Bytes(0, head) \o Words(head, words)
                     \o Bytes(head + words * Word, (n - head) % Word)
    IN FoldLeft(LAMBDA mem, u : [i \in Address |->
                    IF i \in d + u.off .. d + u.off + u.len - 1 THEN value ELSE mem[i]],
                m, units)

\* Bytes to copy before both pointers are aligned, none if they are: all of
\* them if their low bits differ, or if too few are left for a word.
ForwardHead(d, s, n) ==
    IF s % Word = 0 /\ d % Word = 0 THEN 0
    ELSE IF s % Word # d % Word \/ n < Word THEN n ELSE Word - (s % Word)
BackwardHead(d, s, n) ==
    IF (s + n) % Word = 0 /\ (d + n) % Word = 0 THEN 0
    ELSE IF s % Word # d % Word \/ n <= Word THEN n ELSE (s + n) % Word

ForwardUnits(d, s, n) ==
    LET head == ForwardHead(d, s, n)
        words == (n - head) \div Word
    IN Bytes(0, head) \o Words(head, words)
           \o Bytes(head + words * Word, (n - head) % Word)

\* From the end: the bytes past the last word, the words, the bytes before.
BackwardUnits(d, s, n) ==
    LET head == BackwardHead(d, s, n)
        words == (n - head) \div Word
        first == (n - head) % Word
    IN Reverse(Bytes(0, first) \o Words(first, words) \o Bytes(n - head, head))

MoveUnits(d, s, n) == IF d < s THEN ForwardUnits(d, s, n) ELSE BackwardUnits(d, s, n)

\* The loops count down before they test: called with nothing to align they
\* would run through all of memory.
Runaway(d, s, n) == n = 0 /\ (d % Word # 0 \/ s % Word # 0)

mem_prim_move(m, d, s, n) ==
    FoldLeft(LAMBDA mem, u : [i \in Address |->
                 IF i \in d + u.off .. d + u.off + u.len - 1 THEN mem[i - d + s] ELSE mem[i]],
             m, MoveUnits(d, s, n))

-----------------------------------------------------------------------------
DestChecks(c) == << <<c.d = Null, "ESNULLP">>, <<c.dmax = 0, "ESZEROL">>,
                    <<c.dmax > RSizeMax, "ESLEMAX">> >>
MoveChecks(c) == << <<c.n = 0, "ESZEROL">>, <<c.n > c.dmax, "ESLEMAX">>,
                    <<c.s = Null, "ESNULLP">> >>
Overlapping(c) == \/ c.d > c.s /\ c.d < c.s + c.n
                  \/ c.s > c.d /\ c.s < c.d + c.dmax

Answer(ret, m) == [ret |-> ret, count |-> 0, reads |-> 0, mem |-> m]
NotYet == Answer("none", Memory(Size))

\* A wrong destination is left alone; any later error zeroes it.
Moved(c, checks, m) ==
    LET dest == FirstError(DestChecks(c))
        err == FirstError(checks)
    IN IF dest # "EOK" THEN Answer(dest, m)
       ELSE IF err # "EOK" THEN Answer(err, mem_prim_set(m, c.d, c.dmax, 0))
       ELSE IF Runaway(c.d, c.s, c.n) THEN Answer("runaway", m)
       ELSE Answer("EOK", mem_prim_move(m, c.d, c.s, c.n))

memcpy_s(c, m) == Moved(c, Append(MoveChecks(c), <<Overlapping(c), "ESOVRLP">>), m)
memmove_s(c, m) == Moved(c, MoveChecks(c), m)

\* Fills with the value 99, found nowhere else.
memset_s(c, m) ==
    LET err == FirstError(DestChecks(c))
    IN Answer(err, IF err = "EOK" THEN mem_prim_set(m, c.d, c.dmax, 99) ELSE m)

\* handle_error as it is built: the string is emptied, its bytes are kept.
handle_error(m, d) == [m EXCEPT ![d] = 0]

\* The loop of strncpy_s; the pointer that is behind must not reach the one
\* that is ahead.
RECURSIVE CopyString(_, _, _, _, _)
CopyString(c, m, i, dmax, slen) ==
    LET d == c.d + i
        s == c.s + i
    IN IF dmax = 0 THEN Answer("ESNOSPC", handle_error(m, c.d))
       ELSE IF (c.d < c.s /\ d = c.s) \/ (c.d >= c.s /\ s = c.d)
            THEN Answer("ESOVRLP", handle_error(m, c.d))
       ELSE IF slen = 0 THEN Answer("EOK", [m EXCEPT ![d] = 0])
       ELSE IF m[s] = 0 THEN Answer("EOK", [m EXCEPT ![d] = 0])
       ELSE CopyString(c, [m EXCEPT ![d] = m[s]], i + 1, dmax - 1, slen - 1)

strncpy_s(c, m) ==
    LET dest == FirstError(DestChecks(c))
        err == FirstError(<< <<c.s = Null, "ESNULLP">>, <<c.n = 0, "ESZEROL">>,
                             <<c.n > RSizeMax, "ESLEMAX">> >>)
    IN IF dest # "EOK" THEN Answer(dest, m)
       ELSE IF err # "EOK" THEN Answer(err, handle_error(m, c.d))
       ELSE CopyString(c, m, 0, c.dmax, c.n)

\* The characters before the terminator, dmax if there is none among dmax.
\* The loop looks at a character before it looks at what is left of dmax: it
\* has read one more than it counts, which does not change the count.
strnlen_s(c, m) ==
    LET count == Min({i \in 0..c.dmax : i = c.dmax \/ m[c.d + i] = 0})
    IN IF c.d = Null \/ c.dmax = 0 \/ c.dmax > RSizeMax THEN Answer("refused", m)
       ELSE [Answer("EOK", m) EXCEPT !.count = count, !.reads = count + 1]

-----------------------------------------------------------------------------
(* Device names, character by character: C stands for "/dev/cas".          *)
Ids == {<<"1">>, <<"1", "1">>, <<"2">>}
CoreName(cache, core) == <<"C">> \o cache \o <<"-">> \o core
Names == LET cores == {CoreName(a, b) : a \in Ids, b \in Ids}
         IN cores \cup {n \o <<"p">> \o p : n \in cores, p \in {<<"1">>, <<"1", "1">>}}
Char(name, k) == IF k < Len(name) THEN name[k + 1] ELSE "NUL"

\* strcmp_s finds two names equal in their first dmax characters and, which
\* the patterns below count on, in the one after those.
SameByStrcmp(dest, dmax, src) ==
    LET k == Min({i \in 0..dmax : \/ i = dmax \/ Char(dest, i) = "NUL"
                                  \/ Char(src, i) = "NUL" \/ Char(dest, i) # Char(src, i)})
    IN Char(dest, k) = Char(src, k)

device_mounts_detected(mounts, pattern, cmplen) ==
    \E name \in mounts : SameByStrcmp(name, cmplen, pattern)

\* remove_core looks for the core and for a partition of it, stop_cache for
\* any core of the cache.
CoreMounted(mounts, cache, core) ==
    LET name == CoreName(cache, core)
    IN \/ device_mounts_detected(mounts, name, Len(name))
       \/ device_mounts_detected(mounts, Append(name, "p"), Len(name))
CacheMounted(mounts, cache) ==
    device_mounts_detected(mounts, <<"C">> \o cache \o <<"-">>, Len(cache) + 1)

-----------------------------------------------------------------------------
NoCall == [op |-> "none", d |-> 0, dmax |-> 0, s |-> 0, n |-> 0, z |-> Size,
           mounts |-> {}, cache |-> <<>>, core |-> <<>>]

\* Buffers that lie in memory; a source string ends in memory, or has as many
\* characters as are asked for.
Buffers == {<<p, n>> \in (Address \cup {Null}) \X (0..Size) : p = Null \/ p + n <= Size}
Sources(z) == {<<p, n>> \in (Address \cup {Null}) \X (0..Size) :
                   p = Null \/ p + n <= Size \/ (p <= z /\ z < Size)}
MemCall == \E op \in {"memcpy_s", "memmove_s"}, d \in Buffers, s \in Buffers :
    call = [NoCall EXCEPT !.op = op, !.d = d[1], !.dmax = d[2], !.s = s[1], !.n = s[2]]
SetCall == \E d \in Buffers :
    call = [NoCall EXCEPT !.op = "memset_s", !.d = d[1], !.dmax = d[2]]
StrCall == \E z \in 0..Size : \E d \in Buffers, s \in Sources(z) :
    call = [NoCall EXCEPT !.op = "strncpy_s", !.d = d[1], !.dmax = d[2], !.s = s[1],
                          !.n = s[2], !.z = z]
LenCall == \E d \in Buffers, z \in 0..Size :
    call = [NoCall EXCEPT !.op = "strnlen_s", !.d = d[1], !.dmax = d[2], !.z = z]
MountCall == \E op \in {"remove_core", "stop_cache"}, a \in Names, b \in Names,
                cache \in Ids, core \in Ids :
    call = [NoCall EXCEPT !.op = op, !.mounts = {a, b}, !.cache = cache, !.core = core]

MemInit == (MemCall \/ SetCall \/ StrCall \/ LenCall \/ MountCall) /\ result = NotYet

Perform(op, answer) == call.op = op /\ result = NotYet /\ result' = answer /\ UNCHANGED call

Memcpy == Perform("memcpy_s", memcpy_s(call, Memory(call.z)))
Memmove == Perform("memmove_s", memmove_s(call, Memory(call.z)))
Memset == Perform("memset_s", memset_s(call, Memory(call.z)))
Strncpy == Perform("strncpy_s", strncpy_s(call, Memory(call.z)))
Strnlen == Perform("strnlen_s", strnlen_s(call, Memory(call.z)))

Refuses(mounted) == Answer(IF mounted THEN "FAILURE" ELSE "SUCCESS", Memory(Size))
RemoveCore == Perform("remove_core", Refuses(CoreMounted(call.mounts, call.cache, call.core)))
StopCache == Perform("stop_cache", Refuses(CacheMounted(call.mounts, call.cache)))

MemNext == Memcpy \/ Memmove \/ Memset \/ Strncpy \/ Strnlen \/ RemoveCore \/ StopCache

-----------------------------------------------------------------------------
\* The string at an address of memory, at most n characters of it.
Text(m, p, n) ==
    LET len == Min({n, Size - p} \cup {i \in 0 .. Size - p - 1 : m[p + i] = 0})
    IN [i \in 1..len |-> m[p + i - 1]]

Untouched(m, old, set) == \A i \in Address \ set : m[i] = old[i]
Dest(c) == c.d .. c.d + c.dmax - 1

MoveRight(c, r, old) ==
    IF r.ret = "EOK"
    THEN /\ \A i \in 0 .. c.n - 1 : r.mem[c.d + i] = old[c.s + i]
         /\ Untouched(r.mem, old, c.d .. c.d + c.n - 1)
         /\ c.n <= c.dmax
    ELSE \/ r.mem = old /\ (c.d = Null \/ c.dmax = 0 \/ c.dmax > RSizeMax)
         \/ Untouched(r.mem, old, Dest(c)) /\ \A i \in Dest(c) : r.mem[i] = 0

StringRight(c, r, old) ==
    LET text == Text(old, c.s, c.n)
    IN IF r.ret = "EOK"
       THEN /\ Len(text) < c.dmax
            /\ Text(r.mem, c.d, Size) = text /\ Text(r.mem, c.s, c.n) = text
            /\ Untouched(r.mem, old, Dest(c))
       ELSE \/ r.mem = old /\ (c.d = Null \/ c.dmax = 0 \/ c.dmax > RSizeMax)
            \/ /\ r.mem[c.d] = 0 /\ Untouched(r.mem, old, Dest(c))
               /\ r.ret = "ESNOSPC" => Len(text) >= c.dmax
               /\ r.ret = "ESOVRLP" => c.s - c.d <= Len(text) /\ c.d - c.s <= Len(text)

LengthRight(c, r, old) ==
    LET len == Len(Text(old, c.d, c.dmax))
    IN r.count = len /\ r.reads <= (IF len < c.dmax THEN c.dmax ELSE c.dmax + 1)

\* For every alignment, distance and overlap of its buffers a call leaves
\* what it is called for: a copy is the old source though the buffers overlap
\* and though words are moved at once, nothing outside the destination
\* changes, a call that fails leaves no stale data (a string is empty), a
\* string that is reported copied is the source cut to slen and is terminated
\* inside its buffer, a length is right, and no count-down loop starts from
\* zero.  In two points the descriptions say more than the code does, and the
\* property less: what follows the terminator is left open (null by
\* strncpy_s.c:52-54, the old bytes in this build), and strnlen_s may look at
\* one byte beyond dmax if the terminator is not before it (strnlen_s.c:104,
\* against "at most the first dmax characters", line 75).
\* The mounts that keep remove_core and stop_cache from going on are those
\* of the core or its partitions, of any core of the cache: never those of
\* one whose number only begins alike.
SafeExact ==
    LET c == call
        r == result
        old == Memory(call.z)
    IN r.ret # "none" =>
       /\ r.ret # "runaway"
       /\ c.op \in {"memcpy_s", "memmove_s"} => MoveRight(c, r, old)
       /\ c.op = "memset_s" /\ r.ret = "EOK" =>
            r.mem = [i \in Address |-> IF i \in Dest(c) THEN 99 ELSE old[i]]
       /\ c.op = "strncpy_s" => StringRight(c, r, old)
       /\ c.op = "strnlen_s" /\ r.ret = "EOK" => LengthRight(c, r, old)
       /\ c.op = "remove_core" =>
            (r.ret = "FAILURE" <=> \E name \in c.mounts :
                \/ name = CoreName(c.cache, c.core)
                \/ IsPrefix(Append(CoreName(c.cache, c.core), "p"), name))
       /\ c.op = "stop_cache" =>
            (r.ret = "FAILURE" <=> \E name \in c.mounts, core \in Ids :
                \/ name = CoreName(c.cache, core)
                \/ IsPrefix(Append(CoreName(c.cache, core), "p"), name))
=============================================================================
