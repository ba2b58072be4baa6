----------------------------- MODULE MCUserspace -----------------------------
(***************************************************************************)
(* The programs around the kernel modules, one part for each question: a   *)
(* casadm command, casctl init, the start-up and the shutdown services,    *)
(* the netlink library with the exporter, and casadm's memory and string   *)
(* functions.  As in MCDataPath a behaviour runs one part, and fairness    *)
(* speaks of the part that runs.                                           *)
(***************************************************************************)
EXTENDS Integers, Startup

VARIABLE turn
VARIABLES main, thread, handler, sigint, interrupted, finished, kernel, effect, fault
VARIABLES reading, caches, cores, boot, marked, added, started, failed, code
VARIABLES scrape, left, objects, socket, msgs, ret, held, list, dump, metrics
VARIABLES call, result

cmdVars == <<main, thread, handler, sigint, interrupted, finished, kernel, effect, fault>>
confVars == <<reading, caches, cores, boot, marked, added, started, failed, code>>
libVars == <<scrape, left, objects, socket, msgs, ret, held, list, dump, metrics>>
memVars == <<call, result>>
vars == <<turn, cmdVars, confVars, upVars, libVars, memVars>>

-----------------------------------------------------------------------------
Cmd == INSTANCE CasadmCmd

(* Lines that repeat an id or a device under another path, cores on the    *)
(* exported objects of other cores and of themselves, ids out of range.    *)
MCCacheLines ==
    {[id |-> l[1], dev |-> l[2], ok |-> TRUE] :
        l \in {<<1, "d1">>, <<2, "d2">>, <<2, "d1b">>, <<2, "k1b">>, <<0, "d2">>}}
    \cup {[id |-> 1, dev |-> "d2", ok |-> FALSE]}
MCCoreLines ==
    {[cache |-> l[1], core |-> l[2], dev |-> l[3], ok |-> TRUE] :
        l \in {<<1, 1, "k1">>, <<2, 1, "cas1-1">>, <<1, 1, "cas2-1">>,
               <<1, 2, "k2">>, <<1, 2, "cas1-1">>, <<1, 4096, "k2">>}}
MCRealOf ==
    [p \in {"d1", "d2", "d1b", "k1b", "k1", "k2", "cas1-1", "cas2-1"} |->
        CASE p = "d1b" -> "d1" [] p = "k1b" -> "k1" [] OTHER -> p]
MCExported == [p \in {"cas1-1", "cas2-1"} |-> IF p = "cas1-1" THEN <<1, 1>> ELSE <<2, 1>>]
Conf == INSTANCE CasConfig WITH
    CacheLines <- MCCacheLines, CoreLines <- MCCoreLines, RealOf <- MCRealOf,
    Exported <- MCExported, MaxLines <- 3

(* A core of the second cache lies on an exported object of the first;     *)
(* another one is lazy.                                                    *)
MCCaches == <<"c1", "c2">>
MCCores == <<"k0", "k1", "k2">>
MCCacheOf == [k0 |-> "c1", k1 |-> "c2", k2 |-> "c2"]
MCDiskOf == [c1 |-> "A", c2 |-> "B", k0 |-> "C", k1 |-> "e0", k2 |-> "D"]
MCExpObj == [k0 |-> "e0", k1 |-> "e1", k2 |-> "e2"]

(* Strings that are empty, flags and counters that are zero or missing,    *)
(* more records than the first allocation takes.                           *)
Obj(kind, cid, id, text, flag, errors) ==
    [kind |-> kind, cache_id |-> cid, id |-> id, text |-> text, flag |-> flag,
     number |-> 10 * cid + id, policy |-> id % 2,
     stats |-> [usage |-> cid + id, errors |-> errors]]
C1 == Obj("caches", 1, 1, 5, 1, 2)
C2 == Obj("caches", 2, 2, 0, 0, 0)
MCDumps ==
    {<<>>, <<C2>>,
     <<C1, Obj("cores", 1, 1, 7, 1, 0), Obj("cores", 1, 2, 0, 0, 3),
       Obj("cores", 1, 3, 8, 1, 1), Obj("ioclasses", 1, 0, 9, 0, -1)>>,
     <<C2, Obj("ioclasses", 2, 0, 9, 0, -1), Obj("ioclasses", 2, 3, 0, 0, -1),
       C1, Obj("cores", 1, 2, 8, 0, 1)>>}
Lib == INSTANCE LibDump WITH
    Dumps <- MCDumps, FirstCap <- 1, MaxScrapes <- 2, result <- dump

(* Memory of four words of two bytes; lengths up to one beyond the limit.  *)
Mem == INSTANCE SafeMem WITH Size <- 8, Word <- 2, RSizeMax <- 7

-----------------------------------------------------------------------------
(* A part that is not chosen is in one initial state of its own. *)
Fixed(part, value) == turn = part \/ (turn # part /\ value)

Init ==
    /\ turn \in {"command", "config", "startup", "library", "memory"}
    /\ Cmd!CmdInit /\ Conf!ConfInit
    /\ Fixed("startup", phase = "down" /\ busy = {})
    /\ UpInit
    /\ Lib!LibInit
    /\ IF turn = "memory" THEN Mem!MemInit ELSE call = Mem!NoCall /\ result = Mem!NotYet

CmdStep == /\ turn = "command" /\ Cmd!CmdNext
           /\ UNCHANGED <<turn, confVars, upVars, libVars, memVars>>
ConfStep == /\ turn = "config" /\ Conf!ConfNext
            /\ UNCHANGED <<turn, cmdVars, upVars, libVars, memVars>>
UpStep == /\ turn = "startup" /\ UpNext
          /\ UNCHANGED <<turn, cmdVars, confVars, libVars, memVars>>
LibStep == /\ turn = "library" /\ Lib!LibNext
           /\ UNCHANGED <<turn, cmdVars, confVars, upVars, memVars>>
MemStep == /\ turn = "memory" /\ Mem!MemNext
           /\ UNCHANGED <<turn, cmdVars, confVars, upVars, libVars>>

Next == CmdStep \/ ConfStep \/ UpStep \/ LibStep \/ MemStep

(* The ioctl, casadm's progress thread and its signal handler run on; the  *)
(* disks appear, and udev runs the loader for every event.                 *)
Fairness ==
    /\ WF_cmdVars(turn = "command" /\ Cmd!MainStep)
    /\ WF_cmdVars(turn = "command" /\ Cmd!ThreadStep)
    /\ WF_upVars(turn = "startup" /\ Appear)
    /\ \A d \in Configured :
          WF_upVars(turn = "startup" /\ Loader(d))

Spec == Init /\ [][Next]_vars /\ Fairness

-----------------------------------------------------------------------------
\* casadm's exit code tells what the command did, for any moment of SIGINT
\* and any answers to the retries (run_ioctl_interruptible_retry_option).
ReportTrue == turn = "command" => Cmd!ReportTrue

\* A casadm command that was issued returns: the thread it joins ends.
CommandReturns == Cmd!CommandReturns

\* casctl init reads the configuration as the rules say and adds every core
\* after the core it lies on (opencas.py from_file, casctl init).
InitExact == turn = "config" => Conf!InitExact

\* A scrape gives the metrics of what the kernel sent, or fails, and frees
\* what the library allocated (cas_nl_dump, Collector.Collect).
ScrapeExact == turn = "library" => Lib!ScrapeExact

\* The safe functions of casadm do what their names say inside the bounds
\* and refuse the rest, and a mounted device is recognised.
SafeExact == turn = "memory" => Mem!SafeExact
=============================================================================
