------------------------------ MODULE CasConfig ------------------------------
(***************************************************************************)
(* opencas.conf and "casctl init": the file is read line by line into a    *)
(* configuration without conflicts (class cas_config of opencas.py), then  *)
(* every cache is started and every core added, a core that is another     *)
(* core's exported object after that core (casctl).                        *)
(*                                                                         *)
(* A line is its fields, ok telling whether its columns, parameters and    *)
(* device node pass; paths that name one device are the same real device.  *)
(***************************************************************************)
EXTENDS Naturals, Sequences, FiniteSets, SequencesExt

CONSTANTS CacheLines,   \* lines of [caches]: [id, dev, ok]
          CoreLines,    \* lines of [cores]: [cache, core, dev, ok]
          RealOf,       \* os.path.realpath
          Exported,     \* exported objects: path -> <<cache, core>>
          MaxLines      \* lines of each section read

VARIABLES
    reading,    \* "caches", "cores", "done", "error"
    caches,     \* self.caches: id -> device
    cores,      \* self.cores, in order
    boot,       \* casctl init: [pc, todo, stack, err]
    marked, added,  \* core.marked, core.added
    started,    \* caches the kernel runs
    failed,     \* history: casadm commands that failed by themselves
    code        \* exit code, or Running

confVars == <<reading, caches, cores, boot, marked, added, started, failed, code>>

Running == 99
Key(l) == <<l.cache, l.core>>
NoBoot == [pc |-> "none", todo |-> <<>>, stack |-> <<>>, err |-> FALSE]
NoDevices == [i \in {} |-> ""]

ConfInit ==
    /\ reading = "caches" /\ caches = NoDevices /\ cores = <<>>
    /\ boot = NoBoot /\ marked = {} /\ added = {} /\ started = {} /\ failed = {}
    /\ code = Running

CacheReals == {RealOf[caches[i]] : i \in DOMAIN caches}
CoreReals == {RealOf[cores[n].dev] : n \in DOMAIN cores}

(* check_recursive: a device of the cache itself. *)
SelfRecursive(id, dev) == dev \in DOMAIN Exported /\ Exported[dev][1] = id

(* from_line and validate_config of the two kinds of line. *)
CheckCacheIdValid(id) == id \in 1..16384
CheckCoreIdValid(id) == id \in 0..4095
CacheFromLine(l) == l.ok /\ CheckCacheIdValid(l.id) /\ ~SelfRecursive(l.id, l.dev)
CoreFromLine(l) == /\ l.ok /\ CheckCoreIdValid(l.core) /\ CheckCacheIdValid(l.cache)
                   /\ ~SelfRecursive(l.cache, l.dev)

(* A bug that compares a new cache with the other caches only. *)
CacheAccepted1(l) == l.id \notin DOMAIN caches /\ RealOf[l.dev] \notin CacheReals

(* insert_cache: the id and the device are new. *)
CacheAccepted(l) == l.id \notin DOMAIN caches
                    /\ RealOf[l.dev] \notin CacheReals \cup CoreReals

(* insert_core: the cache is known, the device new, the id free. *)
CoreAccepted(l) ==
    /\ l.cache \in DOMAIN caches
    /\ RealOf[l.dev] \notin CacheReals \cup CoreReals
    /\ \A n \in DOMAIN cores : Key(cores[n]) # Key(l)

(* from_file: a line that cannot be taken ends it with an exception.       *)
ReadCache ==
    /\ reading = "caches" /\ Cardinality(DOMAIN caches) < MaxLines
    /\ \E l \in CacheLines :
         IF CacheFromLine(l) /\ CacheAccepted(l)
         THEN caches' = [i \in DOMAIN caches \cup {l.id} |-> IF i = l.id THEN l.dev ELSE caches[i]]
              /\ UNCHANGED <<reading, code>>
         ELSE reading' = "error" /\ code' = 1 /\ UNCHANGED caches
    /\ UNCHANGED <<cores, boot, marked, added, started, failed>>

ReadCore ==
    /\ reading = "cores" /\ Len(cores) < MaxLines
    /\ \E l \in CoreLines :
         IF CoreFromLine(l) /\ CoreAccepted(l)
         THEN cores' = Append(cores, l) /\ UNCHANGED <<reading, code>>
         ELSE reading' = "error" /\ code' = 1 /\ UNCHANGED cores
    /\ UNCHANGED <<caches, boot, marked, added, started, failed>>

(* A section header: [cores] follows, and [caches] may come again. *)
Section ==
    /\ reading \in {"caches", "cores"}
    /\ reading' = IF reading = "caches" THEN "cores" ELSE "caches"
    /\ UNCHANGED <<caches, cores, boot, marked, added, started, failed, code>>

EndOfFile ==
    /\ reading \in {"caches", "cores"}
    /\ reading' = "done"
    /\ boot' = [NoBoot EXCEPT !.pc = "check", !.todo = SetToSeq(DOMAIN caches)]
    /\ UNCHANGED <<caches, cores, marked, added, started, failed, code>>

-----------------------------------------------------------------------------
Exit(c) == code' = c /\ boot' = NoBoot

(* init(force=False): a device with dirty data, or one that cannot be      *)
(* checked, ends it before anything is started.                            *)
CheckDevices ==
    /\ boot.pc = "check"
    /\ \/ boot' = [boot EXCEPT !.pc = "caches"] /\ UNCHANGED code
       \/ DOMAIN caches # {} /\ Exit(1)
    /\ UNCHANGED <<reading, caches, cores, marked, added, started, failed>>

(* start_cache and configure_cache; errors are noted in exit_code. *)
StartCache ==
    /\ boot.pc = "caches" /\ boot.todo # <<>>
    /\ LET i == Head(boot.todo)
           Next(err) == boot' = [boot EXCEPT !.todo = Tail(@), !.err = @ \/ err] IN
         \/ started' = started \cup {i} /\ Next(FALSE) /\ UNCHANGED failed
         \/ started' \in {started, started \cup {i}}      \* not started, or not configured
            /\ Next(TRUE) /\ failed' = failed \cup {<<i>>}
    /\ UNCHANGED <<reading, caches, cores, marked, added, code>>

CachesStarted ==
    /\ boot.pc = "caches" /\ boot.todo = <<>>
    /\ boot' = [boot EXCEPT !.pc = "cores", !.todo = cores]
    /\ UNCHANGED <<reading, caches, cores, marked, added, started, failed, code>>

(* The next core of the configuration. *)
NextCore ==
    /\ boot.pc = "cores" /\ boot.stack = <<>> /\ boot.todo # <<>>
    /\ boot' = [boot EXCEPT !.todo = Tail(@), !.stack = <<Head(boot.todo)>>, !.pc = "visit"]
    /\ UNCHANGED <<reading, caches, cores, marked, added, started, failed, code>>

Top == boot.stack[Len(boot.stack)]
Pop == [boot EXCEPT !.stack = Front(@), !.pc = IF Len(boot.stack) = 1 THEN "cores" ELSE "add"]

(* add_core_recursive: done already, met twice, or a new one, beneath      *)
(* which another core may lie (KeyError if there is none).                 *)
Visit ==
    /\ boot.pc = "visit"
    /\ IF Key(Top) \in added THEN boot' = Pop /\ UNCHANGED <<marked, code>>
       ELSE IF Key(Top) \in marked THEN Exit(3) /\ UNCHANGED marked
       ELSE /\ marked' = marked \cup {Key(Top)}
            /\ IF Top.dev \notin DOMAIN Exported
               THEN boot' = [boot EXCEPT !.pc = "add"] /\ UNCHANGED code
               ELSE LET below == {n \in DOMAIN cores : Key(cores[n]) = Exported[Top.dev]} IN
                    IF below = {} THEN Exit(1)
                    ELSE /\ boot' = [boot EXCEPT !.stack = Append(@, cores[CHOOSE n \in below : TRUE])]
                         /\ UNCHANGED code
    /\ UNCHANGED <<reading, caches, cores, added, started, failed>>

(* A bug that adds a core before the core beneath it. *)
AddOnTheWay(k) == boot.stack[1]

(* Which core of the recursion is added now: the innermost. *)
AddNow(k) == Top

(* casadm --add-core: the kernel needs the cache and the device. *)
Addable(l) == l.cache \in started
              /\ (l.dev \in DOMAIN Exported => Exported[l.dev] \in added)

AddCore == LET l == AddNow(boot.pc) IN
    /\ boot.pc = "add"
    /\ \/ Addable(l) /\ added' = added \cup {Key(l)} /\ boot' = Pop /\ UNCHANGED failed
       \/ /\ failed' = IF Addable(l) THEN failed \cup {Key(l)} ELSE failed
          /\ boot' = [Pop EXCEPT !.err = TRUE]
          /\ UNCHANGED added
    /\ UNCHANGED <<reading, caches, cores, marked, started, code>>

InitEnd ==
    /\ boot.pc = "cores" /\ boot.stack = <<>> /\ boot.todo = <<>>
    /\ Exit(IF boot.err THEN 2 ELSE 0)
    /\ UNCHANGED <<reading, caches, cores, marked, added, started, failed>>

ConfNext == ReadCache \/ ReadCore \/ Section \/ EndOfFile \/ CheckDevices \/ StartCache
            \/ CachesStarted \/ NextCore \/ Visit \/ AddCore \/ InitEnd

ConfSpec == ConfInit /\ [][ConfNext]_confVars

-----------------------------------------------------------------------------
(* A core is in a cycle, or rests on one, of cores on exported objects.    *)
Cyclic == LET K == {Key(cores[n]) : n \in DOMAIN cores}
              Up(S) == {k \in K : \E n \in DOMAIN cores :
                          Key(cores[n]) = k /\ cores[n].dev \in DOMAIN Exported
                          /\ Exported[cores[n].dev] \in S}
          IN  \E S \in SUBSET K : S # {} /\ S \subseteq Up(S)

Dangling == \E n \in DOMAIN cores : cores[n].dev \in DOMAIN Exported
               /\ \A m \in DOMAIN cores : Key(cores[m]) # Exported[cores[n].dev]

(* What cas_config accepts gives every real device one role, whatever the  *)
(* order of lines and names; and casctl init adds every core of it in an   *)
(* order the kernel can take: without a failing command it ends with 0,    *)
(* unless the cores lie on each other in a circle or on one that is not    *)
(* there; it gives up for recursion only then, or after a failed command.  *)
InitExact ==
    /\ reading = "done" =>
         /\ \A i, j \in DOMAIN caches : RealOf[caches[i]] = RealOf[caches[j]] => i = j
         /\ \A m, n \in DOMAIN cores : RealOf[cores[m].dev] = RealOf[cores[n].dev] => m = n
         /\ CacheReals \cap CoreReals = {}
         /\ \A n \in DOMAIN cores : cores[n].cache \in DOMAIN caches
                                     /\ ~SelfRecursive(cores[n].cache, cores[n].dev)
    /\ code = 0 => started = DOMAIN caches /\ added = {Key(cores[n]) : n \in DOMAIN cores}
    /\ code = 2 => failed # {}
    /\ code = 3 => Cyclic \/ failed # {}
    /\ code = 1 /\ reading = "done" /\ started # {} => Dangling
=============================================================================
