------------------------------ MODULE LibDump ------------------------------
(***************************************************************************)
(* The reader's side of the netlink dump: cas_nl_dump of libopencas        *)
(* (libopencas/libopencas.c) and the Prometheus exporter that calls it     *)
(* once for every scrape (extra/prometheus/netlink.go, collector.go).  The *)
(* kernel's side, which decides what a dump holds, is NetlinkDump; here a  *)
(* dump is a sequence of objects, cut into datagrams in any way.           *)
(*                                                                         *)
(* An object is a record of its kind with one field for each sort of       *)
(* attribute: ids, text (path or name), flag, numbers, and the nested      *)
(* parameters and statistics.  0 stands for what an attribute left out     *)
(* means.                                                                  *)
(***************************************************************************)
EXTENDS Integers, Sequences, FiniteSets, SequencesExt

CONSTANTS
    Dumps,      \* the dumps the kernel may be asked for: sequences of objects
    FirstCap,   \* records in the first allocation of a list (8 in the code)
    MaxScrapes  \* bound on the scrapes

Kinds == {"caches", "cores", "ioclasses"}

VARIABLES
    scrape,     \* number of the scrape and where it is
    left,       \* objects the kernel has still to send, and whether it ended
    objects,    \* the dump asked for
    socket,     \* datagrams queued: sequences of messages
    msgs,       \* messages of the datagram in buf that are not handled yet
    ret,        \* cas_nl_dump's ret
    held,       \* what is open or allocated: "fd", "buf" and the lists' data
    list,       \* kind -> record_list: its records and its capacity
    result,     \* kind -> the records handed to the caller
    metrics     \* what the exporter published: up, and the records by kind

libVars == <<scrape, left, objects, socket, msgs, ret, held, list, result, metrics>>

Nothing == [k \in Kinds |-> <<>>]
Empty == [k \in Kinds |-> [data |-> <<>>, capacity |-> 0]]
NoMetrics == [up |-> -1, records |-> Nothing]
Done == [kind |-> "done", attrs |-> {}]
Failure == [kind |-> "error", attrs |-> {}]

LibInit ==
    /\ scrape = [n |-> 0, at |-> "idle"]
    /\ left = <<>> /\ objects = <<>> /\ socket = <<>> /\ msgs = <<>>
    /\ ret = 0 /\ held = {} /\ list = Empty /\ result = Nothing
    /\ metrics = NoMetrics

-----------------------------------------------------------------------------
(* The messages                                                            *)

\* What cas_nl_put_stats writes: errors only where there are any to report;
\* a 64-bit number may be preceded by padding of type 0.
PutStats(s) == {<<"pad", 0>>, <<"usage", s.usage>>}
                \cup {<<"errors", e>> : e \in {s.errors} \ {-1}}
\* The fields every object has; a text or flag that is not set is left out.
PutCommon(o) == {<<"id", o.id>>, <<"number", o.number>>, <<"stats", PutStats(o.stats)>>}
                 \cup {<<"text", t>> : t \in {o.text} \ {0}}
                 \cup {<<"flag", f>> : f \in {o.flag} \ {0}}
PutMessage(o) ==
    [kind |-> o.kind,
     attrs |-> PutCommon(o) \cup
        CASE o.kind = "caches" -> {<<"cleaning", {<<"policy", o.policy>>}>>,
                                   <<"promotion", {<<"policy", o.policy>>}>>}
          [] OTHER -> {<<"cache_id", o.cache_id>>}]

\* nla_for_each over the attributes of a nest: the value of the one of that
\* type, or what the zeroed structure holds when there is none.
Attribute(nest, type, zero) ==
    IF \E a \in nest : a[1] = type THEN (CHOOSE a \in nest : a[1] = type)[2] ELSE zero

ParseStats(nest) == [usage |-> Attribute(nest, "usage", 0),
                     errors |-> Attribute(nest, "errors", 0)]
ParseCleaningParams(nest) == Attribute(nest, "policy", 0)
ParsePromotionParams(nest) == Attribute(nest, "policy", 0)

ParseCacheRecord(nest) ==
    [id |-> Attribute(nest, "id", 0), text |-> Attribute(nest, "text", 0),
     flag |-> Attribute(nest, "flag", 0), number |-> Attribute(nest, "number", 0),
     cleaning |-> ParseCleaningParams(Attribute(nest, "cleaning", {})),
     promotion |-> ParsePromotionParams(Attribute(nest, "promotion", {})),
     stats |-> ParseStats(Attribute(nest, "stats", {}))]
ParseCoreRecord(nest) ==
    [cache_id |-> Attribute(nest, "cache_id", 0), id |-> Attribute(nest, "id", 0),
     text |-> Attribute(nest, "text", 0), flag |-> Attribute(nest, "flag", 0),
     number |-> Attribute(nest, "number", 0),
     stats |-> ParseStats(Attribute(nest, "stats", {}))]
ParseIoclassRecord(nest) ==
    [cache_id |-> Attribute(nest, "cache_id", 0), id |-> Attribute(nest, "id", 0),
     text |-> Attribute(nest, "text", 0), number |-> Attribute(nest, "number", 0),
     stats |-> ParseStats(Attribute(nest, "stats", {}))]

-----------------------------------------------------------------------------
(* The kernel: datagrams of the dump, in order                             *)

\* The next datagram.  The message that ends the dump comes in a datagram of
\* its own or, when there is room, behind the last records.
Sends(n) ==
    /\ socket' = Append(socket, SubSeq(left, 1, n))
    /\ left' = SubSeq(left, n + 1, Len(left))
    /\ UNCHANGED <<scrape, objects, msgs, ret, held, list, result, metrics>>

-----------------------------------------------------------------------------
(* cas_nl_dump                                                             *)

At(pc) == scrape.at = pc
Go(pc) == scrape' = [scrape EXCEPT !.at = pc]

\* The buffer and nl_open.  A socket that cannot be bound is closed.
Opens ==
    /\ At("idle") /\ scrape.n < MaxScrapes
    /\ result' = Nothing /\ list' = Empty /\ metrics' = NoMetrics
    /\ \/ /\ scrape' = [n |-> scrape.n + 1, at |-> "resolve"]
          /\ ret' = 0 /\ held' = {"fd", "buf"}
       \/ /\ scrape' = [n |-> scrape.n + 1, at |-> "return"]
          /\ ret' = -1 /\ UNCHANGED held
    /\ UNCHANGED <<left, objects, socket, msgs>>

\* nl_resolve_family: there is no family while the module is not loaded.
ResolvesFamily ==
    /\ At("resolve")
    /\ \/ Go("request") /\ UNCHANGED ret
       \/ Go("out") /\ ret' = -1
    /\ UNCHANGED <<left, objects, socket, msgs, held, list, result, metrics>>

\* nl_send_dump_request: the kernel starts the dump, or answers that it
\* cannot.
SendsDumpRequest ==
    /\ At("request")
    /\ \/ /\ \E d \in Dumps :
              /\ objects' = d
              /\ left' \in {Append([i \in DOMAIN d |-> PutMessage(d[i])], Done), <<Failure>>}
          /\ Go("recv") /\ UNCHANGED ret
       \/ Go("out") /\ ret' = -1 /\ UNCHANGED <<left, objects>>
    /\ UNCHANGED <<socket, msgs, held, list, result, metrics>>

Recv ==
    /\ At("recv") /\ socket # <<>>
    /\ msgs' = Head(socket) /\ socket' = Tail(socket)
    /\ Go("handle")
    /\ UNCHANGED <<left, objects, ret, held, list, result, metrics>>

RecvFails ==
    /\ At("recv")
    /\ ret' = -1 /\ Go("out")
    /\ UNCHANGED <<left, objects, socket, msgs, held, list, result, metrics>>

\* A list that grows one record too late.
AppendedLate(l, rec) ==
    [data |-> Append(l.data, rec),
     capacity |-> IF Len(l.data) <= l.capacity /\ l.capacity > 0 THEN l.capacity
                  ELSE IF l.capacity = 0 THEN FirstCap ELSE 2 * l.capacity]

\* record_list_append when memory can be had.
Appended(l, rec) ==
    [data |-> Append(l.data, rec),
     capacity |-> IF Len(l.data) < l.capacity THEN l.capacity
                  ELSE IF l.capacity = 0 THEN FirstCap ELSE 2 * l.capacity]

Parsed(m) == CASE m.kind = "caches" -> ParseCacheRecord(m.attrs)
               [] m.kind = "cores" -> ParseCoreRecord(m.attrs)
               [] OTHER -> ParseIoclassRecord(m.attrs)

\* handle_message: the record is parsed and appended to the list of its kind.
HandleMessage ==
    /\ At("handle") /\ msgs # <<>> /\ Head(msgs).kind \in Kinds
    /\ LET m == Head(msgs)
       IN /\ list' = [list EXCEPT ![m.kind] = Appended(@, Parsed(m))]
          /\ held' = held \cup {m.kind}
    /\ msgs' = Tail(msgs)
    /\ UNCHANGED <<scrape, left, objects, socket, ret, result, metrics>>

\* realloc fails when the list is full.
HandleNoMemory ==
    /\ At("handle") /\ msgs # <<>> /\ Head(msgs).kind \in Kinds
    /\ LET l == list[Head(msgs).kind] IN Len(l.data) >= l.capacity
    /\ ret' = -1 /\ Go("out")
    /\ UNCHANGED <<left, objects, socket, msgs, held, list, result, metrics>>

\* NLMSG_DONE ends the loop, NLMSG_ERROR with the kernel's error.
HandleEnd ==
    /\ At("handle") /\ msgs # <<>> /\ Head(msgs).kind \notin Kinds
    /\ ret' = IF Head(msgs) = Failure THEN -1 ELSE ret
    /\ Go("out")
    /\ UNCHANGED <<left, objects, socket, msgs, held, list, result, metrics>>

NextDatagram ==
    /\ At("handle") /\ msgs = <<>>
    /\ Go("recv")
    /\ UNCHANGED <<left, objects, socket, msgs, ret, held, list, result, metrics>>

\* out_close, out_buf and what follows: the lists are freed, or handed over.
\* What the socket still holds goes with it.
Out ==
    /\ At("out")
    /\ held' = IF ret # 0 THEN {} ELSE held \ {"fd", "buf"}
    /\ result' = IF ret # 0 THEN Nothing ELSE [k \in Kinds |-> list[k].data]
    /\ socket' = <<>> /\ left' = <<>> /\ msgs' = <<>>
    /\ Go("return")
    /\ UNCHANGED <<objects, ret, list, metrics>>

-----------------------------------------------------------------------------
(* The exporter                                                            *)

\* Collector.Collect up to the records: the value of opencas_up, and a list
\* of metrics for every record of the result.
Collect ==
    /\ At("return")
    /\ metrics' = IF ret # 0 THEN [up |-> 0, records |-> Nothing]
                  ELSE [up |-> 1, records |-> result]
    /\ Go(IF ret # 0 THEN "idle" ELSE "free")
    /\ UNCHANGED <<left, objects, socket, msgs, ret, held, list, result>>

\* DumpResult.Free: a list is passed to cas_nl_dump_free only if it has a
\* record, whose address is that of the list's data.
Free ==
    /\ At("free")
    /\ held' = held \ {k \in Kinds : result[k] # <<>>}
    /\ result' = Nothing
    /\ Go("idle")
    /\ UNCHANGED <<left, objects, socket, msgs, ret, list, metrics>>

LibNext ==
    \/ \E n \in 1..Len(left) : Sends(n)
    \/ Opens \/ ResolvesFamily \/ SendsDumpRequest \/ Recv \/ RecvFails
    \/ HandleMessage \/ HandleNoMemory \/ HandleEnd \/ NextDatagram \/ Out
    \/ Collect \/ Free

-----------------------------------------------------------------------------
(* Properties                                                              *)

\* The objects of a kind as the kernel has them, one record each.
Shown(o) ==
    LET stats == [usage |-> o.stats.usage,
                  errors |-> IF o.stats.errors = -1 THEN 0 ELSE o.stats.errors]
        common == [id |-> o.id, text |-> o.text, number |-> o.number, stats |-> stats]
    IN CASE o.kind = "caches" -> common @@ [flag |-> o.flag, cleaning |-> o.policy,
                                             promotion |-> o.policy]
         [] o.kind = "cores" -> common @@ [flag |-> o.flag, cache_id |-> o.cache_id]
         [] OTHER -> common @@ [cache_id |-> o.cache_id]
ShownOf(kind) ==
    LET mine == SelectSeq(objects, LAMBDA o : o.kind = kind)
    IN [i \in DOMAIN mine |-> Shown(mine[i])]

\* However the dump is cut into datagrams and whatever fails on the way, a
\* scrape publishes "up" only with every cache, core and class of the dump,
\* each once, in order and with the values the kernel has, and publishes
\* nothing else otherwise; no record lies outside the memory of its list; and
\* between two scrapes no memory and no socket is held
\* (libopencas.c:633-807, netlink.go:39-80).
ScrapeExact ==
    /\ metrics.up = 1 => \A k \in Kinds : metrics.records[k] = ShownOf(k)
    /\ metrics.up # 1 => metrics.records = Nothing
    /\ \A k \in Kinds : Len(list[k].data) <= list[k].capacity
    /\ At("idle") => held = {} /\ result = Nothing
=============================================================================
