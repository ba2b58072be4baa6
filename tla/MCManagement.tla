---------------------------- MODULE MCManagement ----------------------------
(***************************************************************************)
(* Management in the kernel modules, in parts that share no state: netlink *)
(* dumps, loading, the IO classifier, the ids of cores, the settings and   *)
(* casadm's listing of all that.  As in MCDataPath a behaviour chooses one *)
(* part (turn) and runs it.                                                *)
(***************************************************************************)
EXTENDS Integers, Sequences, CoreIds, Settings, TLC

VARIABLE turn
VARIABLES caches, changes, dump, ctx, cb, skb, received, snap, leftPath
VARIABLES state, held, undo, file, orphaned
VARIABLES classes, clsCache, rules, heap, work, clock, setter, reader, unruled
VARIABLES kcaches, kpool, first, lister, device, devices, paths, grown, shrunk, nchanges

dumpVars == <<caches, changes, dump, ctx, cb, skb, received, snap, leftPath>>
loadVars == <<state, held, undo, file, orphaned>>
clsVars == <<classes, clsCache, rules, heap, work, clock, setter, reader, unruled>>
listVars == <<kcaches, kpool, first, lister, device, devices, paths, grown, shrunk, nchanges>>

\* Commands differ in nothing but their names.
Symmetry == Permutations(Users)

-----------------------------------------------------------------------------
(* A datagram has room for fewer messages than a cache has. *)
Netlink == INSTANCE NetlinkDump WITH
    Ids <- 1..2, CoreIds <- 1..2, Classes <- 1..2, Room <- 3, MaxChanges <- 2, left <- leftPath

Load == INSTANCE ModuleLoad WITH Files <- {"f1", "f2"}

(* Rules of every condition, of one to three conditions, and rules that    *)
(* are refused; requests with and without an inode.                        *)
Cond(t, o, a) == [token |-> t, op |-> o, arg |-> a]
T1(c) == [conds |-> <<c>>, ops |-> << >>]
T2(c, o, d) == [conds |-> <<c, d>>, ops |-> <<o>>]
T3(c, o, d, p, e) == [conds |-> <<c, d, e>>, ops |-> <<o, p>>]
Name(t) == T1(Cond(t, "none", 0))
NoText == [conds |-> << >>, ops |-> << >>]
Dir == Cond("directory", "is", 1)
Texts1 == {NoText, Name("prefetch"), Name("nonsense"), T1(Dir),
    T1(Cond("request_size", "ge", 2)), T1(Cond("core_id", "gt", 9)),
    T3(Cond("metadata", "none", 0), "&", Cond("lba", "lt", 1), "|", Cond("process_name", "is", 1)),
    T2(Cond("direct", "none", 0), "&", Cond("done", "none", 0)),
    [conds |-> <<Cond("done", "none", 0)>>, ops |-> <<"&">>]}
Texts2 == {NoText, T1(Cond("io_class", "eq", 1)),
    T3(Cond("file_size", "le", 1), "|", Cond("file_offset", "ne", 0), "&", Cond("pid", "ge", 2)),
    T3(Cond("extension", "is", 1), "&", Cond("file_name_prefix", "is", 1), "|",
       Cond("io_direction", "is", 1))}
Table(a, b) == [p \in 0..2 |-> IF p = 0 THEN Name("unclassified") ELSE IF p = 1 THEN a ELSE b]
MCStored == {Table(a, b) : a \in Texts1, b \in Texts2}
MCWanted == {Table(T1(Dir), b) : b \in {Name("nonsense"),
                T2(Cond("direct", "none", 0), "|", Cond("io_class", "eq", 1))}}
Bio(page, inode, n) ==
    [page |-> page, inode |-> inode, alias |-> TRUE, up |-> {n, 3}, size |-> n, ext |-> n,
     prefixes |-> {n}, core |-> n, lba |-> n - 1, pid |-> n, comm |-> n, offset |-> n - 1,
     bytes |-> n, dir |-> n - 1]
MCBios == {Bio("anon", "none", 2), Bio("slab", "none", 1), Bio("mapped", "file", 1),
           Bio("mapped", "file", 2)}

Cls == INSTANCE Classifier WITH
    CoreIdMax <- 4, Prefetch <- 1, MaxPart <- 2, Stored <- MCStored, Wanted <- MCWanted,
    Bios <- MCBios, Inodes <- {1}, cache <- clsCache, lock <- clock, orphaned <- unruled

(* Three caches are a full page and a last one. *)
Listing == INSTANCE CacheListing WITH
    Ids <- 1..3, CoreIds <- 1..2, PoolDevs <- {1}, Chunk <- 2, MaxChanges <- 1,
    cache <- device, caches <- devices

-----------------------------------------------------------------------------
(* A part that is not chosen is in one initial state of its own. *)
Fixed(part, value) == turn = part \/ (turn # part /\ value)

Init ==
    /\ turn \in {"netlink", "load", "classifier", "ids", "settings", "listing"}
    /\ Fixed("netlink", caches = [i \in 1..2 |-> [up |-> FALSE, attached |-> FALSE,
                                                  cores |-> {}, ver |-> 0]])
    /\ Netlink!DumpInit
    /\ Load!LoadInit
    /\ Fixed("classifier", /\ classes = Table(NoText, NoText)
                           /\ reader = [pc |-> "idle", at |-> 0, part |-> 0, moved |-> FALSE,
                                        bio |-> Bio("slab", "none", 1)])
    /\ Cls!ClsInit
    /\ IdInit
    /\ SetInit
    /\ Fixed("listing", kcaches = <<>> /\ kpool = <<>>)
    /\ Listing!ListInit

NetlinkStep == /\ turn = "netlink" /\ Netlink!DumpNext
               /\ UNCHANGED <<turn, loadVars, clsVars, idVars, setVars, listVars>>
LoadStep == /\ turn = "load" /\ Load!LoadNext
            /\ UNCHANGED <<turn, dumpVars, clsVars, idVars, setVars, listVars>>
ClsStep == /\ turn = "classifier" /\ Cls!ClsNext
           /\ UNCHANGED <<turn, dumpVars, loadVars, idVars, setVars, listVars>>
IdStep == /\ turn = "ids" /\ IdNext
          /\ UNCHANGED <<turn, dumpVars, loadVars, clsVars, setVars, listVars>>
SetStep == /\ turn = "settings" /\ SetNext
           /\ UNCHANGED <<turn, dumpVars, loadVars, clsVars, idVars, listVars>>
ListStep == /\ turn = "listing" /\ Listing!ListNext
            /\ UNCHANGED <<turn, dumpVars, loadVars, clsVars, idVars, setVars>>

Next == NetlinkStep \/ LoadStep \/ ClsStep \/ IdStep \/ SetStep \/ ListStep

Spec == Init /\ [][Next]_<<turn, dumpVars, loadVars, clsVars, idVars, setVars, listVars>>

-----------------------------------------------------------------------------
\* A netlink dump shows every cache as it was at one moment, over any number
\* of datagrams and any changes meanwhile (cas_nl_stats_dump).
DumpExact == turn = "netlink" => Netlink!DumpExact

\* A failed load gives back all it took, in an order that keeps what is
\* built on it alive (cas_init_module, cas_bd_init_module).
LoadExact == turn = "load" => Load!LoadExact

\* The list of rules holds live rules in order and leaks none.
RulesExact == turn = "classifier" => Cls!RulesExact

\* A request gets the class its rules mean, during any change of the rules
\* (cas_cls_classify, cas_cls_rule_apply).
ClassifiesRight == turn = "classifier" => Cls!ClassifiesRight

\* casadm --list-caches lists what there is, and what stays there while
\* others change the rest (get_cache_devices, cache_mngt_list_caches).
ListExact == turn = "listing" => Listing!ListExact
=============================================================================
