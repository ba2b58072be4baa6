----------------------------- MODULE CasThreads -----------------------------
(***************************************************************************)
(* The kernel threads of a cache (modules/cas_cache/threads.c): one that   *)
(* runs an OCF queue and one that runs the cleaner.  Creation, start, kick *)
(* and stop are called by OCF through the queue and cleaner operations.    *)
(*                                                                         *)
(* A run of the cleaner pushes a request to the queue and waits for it, so *)
(* the two threads are modelled together.  What OCF does is external: it   *)
(* pushes a request and then kicks the queue, it does not stop a queue or  *)
(* a cleaner it is about to kick, and it stops the cleaner before the      *)
(* queue.                                                                  *)
(***************************************************************************)
EXTENDS Naturals, Sequences

CONSTANTS
    MaxPush,     \* requests pushed by others than the cleaner
    MaxKick      \* kicks of the cleaner

Threads == {"queue", "cleaner"}

VARIABLES
    mgr,         \* where creation, start and stop of each thread stand
    thr,         \* where the thread stands
    info,        \* its cas_thread_info: none, alloc or freed
    priv,        \* the queue (cleaner) points to it
    stop,        \* info->stop
    compl,       \* info->compl, the number of completions not consumed
    kicked,      \* info->kicked of the cleaner
    sync,        \* info->sync_compl of the cleaner
    ms,          \* what the last run asked for: sleep or disable
    queue,       \* requests on the queue: of the cleaner ("clean") and others ("io")
    pushed,      \* requests pushed so far
    kicks,       \* pushers that have not kicked the queue yet
    ckicks,      \* kicks of the cleaner so far
    ckick,       \* kickers of the cleaner that have not woken it yet
    owed,        \* a kick of the cleaner no run has followed yet
    faults       \* use of a freed cas_thread_info, exit with requests left

thrVars == <<mgr, thr, info, priv, stop, compl, kicked, sync, ms, queue,
             pushed, kicks, ckicks, ckick, owed, faults>>
ocf == <<queue, pushed, kicks, ckicks, ckick>>

ThrInit ==
    /\ mgr = [t \in Threads |-> "none"]
    /\ thr = [t \in Threads |-> "none"]
    /\ info = [t \in Threads |-> "none"]
    /\ priv = [t \in Threads |-> FALSE]
    /\ stop = [t \in Threads |-> FALSE]
    /\ compl = [t \in Threads |-> 0]
    /\ kicked = FALSE /\ sync = 0 /\ ms = "sleep"
    /\ queue = <<>>
    /\ pushed = 0 /\ kicks = 0 /\ ckicks = 0 /\ ckick = 0
    /\ owed = FALSE
    /\ faults = {}

-----------------------------------------------------------------------------
Fault(what, happens) == IF happens THEN {what} ELSE {}
Use(t) == Fault("use after free", info[t] # "alloc")
UsePriv(t) == Fault("no thread", ~priv[t]) \cup Use(t)

Goto(t, l) == thr' = [thr EXCEPT ![t] = l]
Call(t, l) == mgr' = [mgr EXCEPT ![t] = l]

\* wake_up(&info->wq) reaches a thread that has queued itself.
Woken(t) == IF thr[t] \in {"queued", "asleep"} THEN [thr EXCEPT ![t] = "check"] ELSE thr

Queued(r) == \E i \in DOMAIN queue : queue[i] = r
Pending == queue # <<>>

\* What each thread waits for.
Condition(t) == stop[t] \/ (IF t = "queue" THEN Pending ELSE kicked)

-----------------------------------------------------------------------------
(* Creation, start and stop. *)

\* _cas_create_thread: no thread comes of it when memory or a thread is
\* lacking.  The cleaner of a cache is created after its queues.
create_thread(t) ==
    /\ mgr[t] = "none"
    /\ t = "cleaner" => mgr["queue"] = "up"
    /\ \/ /\ Call(t, "created")
          /\ info' = [info EXCEPT ![t] = "alloc"]
          /\ Goto(t, "new")
       \/ /\ Call(t, "down")
          /\ UNCHANGED <<info, thr>>
    /\ UNCHANGED <<priv, stop, compl, kicked, sync, ms, ocf, owed, faults>>

\* _cas_start_thread: the thread is let go ...
start_thread(t) ==
    /\ mgr[t] = "created"
    /\ Call(t, "starting")
    /\ priv' = [priv EXCEPT ![t] = TRUE]
    /\ Goto(t, "start")
    /\ UNCHANGED <<info, stop, compl, kicked, sync, ms, ocf, owed, faults>>

StartedUnchecked(t) ==
    /\ mgr[t] = "starting"
    /\ Call(t, "up")
    /\ UNCHANGED <<thr, info, priv, stop, compl, kicked, sync, ms, ocf, owed, faults>>

\* ... and has completed compl.
Started(t) ==
    /\ mgr[t] = "starting" /\ compl[t] > 0
    /\ Call(t, "up")
    /\ compl' = [compl EXCEPT ![t] = @ - 1]
    /\ UNCHANGED <<thr, info, priv, stop, kicked, sync, ms, ocf, owed, faults>>

\* cas_stop_queue_thread forgets the thread before it stops it,
\* cas_stop_cleaner_thread after.  _cas_stop_thread: reinit_completion ...
stop_thread(t) ==
    /\ mgr[t] = "up"
    /\ IF t = "queue" THEN mgr["cleaner"] \in {"none", "down"} /\ kicks = 0
                      ELSE ckick = 0
    /\ Call(t, "stop")
    /\ priv' = [priv EXCEPT ![t] = (t # "queue")]
    /\ compl' = [compl EXCEPT ![t] = 0]
    /\ faults' = faults \cup Use(t)
    /\ UNCHANGED <<thr, info, stop, kicked, sync, ms, ocf, owed>>

\* ... the flag ...
StopFlag(t) ==
    /\ mgr[t] = "stop"
    /\ Call(t, "stop wake")
    /\ stop' = [stop EXCEPT ![t] = TRUE]
    /\ UNCHANGED <<thr, info, priv, compl, kicked, sync, ms, ocf, owed, faults>>

StopWakeForgotten(t) ==
    /\ mgr[t] = "stop wake"
    /\ Call(t, "stop wait")
    /\ UNCHANGED <<thr, info, priv, stop, compl, kicked, sync, ms, ocf, owed, faults>>

\* ... the wake-up ...
StopWake(t) ==
    /\ mgr[t] = "stop wake"
    /\ Call(t, "stop wait")
    /\ thr' = Woken(t)
    /\ faults' = faults \cup Use(t)
    /\ UNCHANGED <<info, priv, stop, compl, kicked, sync, ms, ocf, owed>>

StoppedAtOnce(t) ==
    /\ mgr[t] = "stop wait"
    /\ Call(t, "down")
    /\ info' = [info EXCEPT ![t] = "freed"]
    /\ priv' = [priv EXCEPT ![t] = FALSE]
    /\ UNCHANGED <<thr, stop, compl, kicked, sync, ms, ocf, owed, faults>>

\* ... and the wait for the thread, before its structure is freed.
Stopped(t) ==
    /\ mgr[t] = "stop wait" /\ compl[t] > 0
    /\ Call(t, "down")
    /\ compl' = [compl EXCEPT ![t] = @ - 1]
    /\ info' = [info EXCEPT ![t] = "freed"]
    /\ priv' = [priv EXCEPT ![t] = FALSE]
    /\ UNCHANGED <<thr, stop, kicked, sync, ms, ocf, owed, faults>>

-----------------------------------------------------------------------------
(* Both threads. *)

\* complete(&info->compl) on entry.
ThreadStart(t) ==
    /\ thr[t] = "start"
    /\ Goto(t, IF t = "queue" THEN "check" ELSE "top")
    /\ compl' = [compl EXCEPT ![t] = @ + 1]
    /\ faults' = faults \cup UsePriv(t)
    /\ UNCHANGED <<mgr, info, priv, stop, kicked, sync, ms, ocf, owed>>

\* wait_event_interruptible: the condition, then the condition again after
\* the thread has queued itself, then sleep.
ThreadWait(t) ==
    /\ thr[t] \in {"check", "queued"}
    /\ Goto(t, CASE Condition(t) -> IF t = "queue" THEN "run" ELSE "top"
                 [] thr[t] = "check" -> "queued"
                 [] OTHER -> "asleep")
    /\ faults' = faults \cup Use(t)
    /\ UNCHANGED <<mgr, info, priv, stop, compl, kicked, sync, ms, ocf, owed>>

\* CAS_COMPLETE_AND_EXIT; the queue thread warns of requests left behind.
ThreadExit(t) ==
    /\ thr[t] = "exit"
    /\ Goto(t, "gone")
    /\ compl' = [compl EXCEPT ![t] = @ + 1]
    /\ faults' = faults \cup Use(t) \cup Fault("still pending", t = "queue" /\ Pending)
    /\ UNCHANGED <<mgr, info, priv, stop, kicked, sync, ms, ocf, owed>>

-----------------------------------------------------------------------------
(* The queue thread. *)

\* _cas_cleaner_complete: the interval of the next run, and sync_compl.
cleaner_complete ==
    /\ ms' \in {"sleep", "disable"}
    /\ sync' = sync + 1
    /\ faults' = faults \cup UsePriv("cleaner")

\* ocf_queue_run takes requests off the queue until there are none.
QueueRun ==
    /\ thr["queue"] = "run"
    /\ \/ /\ Pending
          /\ queue' = Tail(queue)
          /\ IF Head(queue) = "clean" THEN cleaner_complete ELSE UNCHANGED <<sync, ms, faults>>
          /\ UNCHANGED thr
       \/ /\ ~Pending
          /\ Goto("queue", "loop")
          /\ UNCHANGED <<queue, sync, ms, faults>>
    /\ UNCHANGED <<mgr, info, priv, stop, compl, kicked, pushed, kicks, ckicks, ckick, owed>>

QueueLoopUntilStop ==
    /\ thr["queue"] = "loop"
    /\ Goto("queue", IF stop["queue"] THEN "exit" ELSE "check")
    /\ faults' = faults \cup Use("queue")
    /\ UNCHANGED <<mgr, info, priv, stop, compl, kicked, sync, ms, ocf, owed>>

\* The loop goes on until it is told to stop and the queue is empty.
QueueLoop ==
    /\ thr["queue"] = "loop"
    /\ Goto("queue", IF stop["queue"] /\ ~Pending THEN "exit" ELSE "check")
    /\ faults' = faults \cup Use("queue")
    /\ UNCHANGED <<mgr, info, priv, stop, compl, kicked, sync, ms, ocf, owed>>

-----------------------------------------------------------------------------
(* The cleaner thread. *)

\* Top of the loop: stop, or forget earlier kicks and the last completion.
CleanerTop ==
    /\ thr["cleaner"] = "top"
    /\ \/ /\ stop["cleaner"]
          /\ Goto("cleaner", "exit")
          /\ UNCHANGED <<kicked, sync, owed>>
       \/ /\ ~stop["cleaner"]
          /\ Goto("cleaner", "clean")
          /\ kicked' = FALSE
          /\ sync' = 0
          /\ owed' = FALSE
    /\ faults' = faults \cup Use("cleaner")
    /\ UNCHANGED <<mgr, info, priv, stop, compl, ms, ocf>>

\* ocf_cleaner_run completes at once (nothing to do, the nop policy), or
\* pushes a request to the queue ...
CleanerRun ==
    /\ thr["cleaner"] = "clean"
    /\ \/ /\ Goto("cleaner", "wait")
          /\ cleaner_complete
          /\ UNCHANGED queue
       \/ /\ Goto("cleaner", "kick")
          /\ queue' = Append(queue, "clean")
          /\ UNCHANGED <<sync, ms, faults>>
    /\ UNCHANGED <<mgr, info, priv, stop, compl, kicked, pushed, kicks, ckicks, ckick, owed>>

\* ... and kicks it.
CleanerKicksQueue ==
    /\ thr["cleaner"] = "kick"
    /\ thr' = [Woken("queue") EXCEPT !["cleaner"] = "wait"]
    /\ faults' = faults \cup UsePriv("queue")
    /\ UNCHANGED <<mgr, info, priv, stop, compl, kicked, sync, ms, ocf, owed>>

CleanerSleepForgetting ==
    /\ thr["cleaner"] = "wait" /\ sync > 0
    /\ sync' = sync - 1
    /\ Goto("cleaner", "check")
    /\ kicked' = FALSE
    /\ faults' = faults \cup Use("cleaner")
    /\ UNCHANGED <<mgr, info, priv, stop, compl, ms, ocf, owed>>

\* wait_for_completion(&info->sync_compl), then to the wait for a kick.
CleanerSleep ==
    /\ thr["cleaner"] = "wait" /\ sync > 0
    /\ sync' = sync - 1
    /\ Goto("cleaner", "check")
    /\ faults' = faults \cup Use("cleaner")
    /\ UNCHANGED <<mgr, info, priv, stop, compl, kicked, ms, ocf, owed>>

\* Unless the cleaner is disabled the wait times out.
CleanerTimeout ==
    /\ thr["cleaner"] = "asleep" /\ ms = "sleep"
    /\ Goto("cleaner", "top")
    /\ UNCHANGED <<mgr, info, priv, stop, compl, kicked, sync, ms, ocf, owed, faults>>

-----------------------------------------------------------------------------
(* OCF: requests and kicks from elsewhere. *)

OcfPush ==
    /\ mgr["queue"] = "up" /\ pushed < MaxPush
    /\ pushed' = pushed + 1
    /\ queue' = Append(queue, "io")
    /\ kicks' = kicks + 1
    /\ UNCHANGED <<mgr, thr, info, priv, stop, compl, kicked, sync, ms,
                   ckicks, ckick, owed, faults>>

KickQueueNoWake ==
    /\ kicks > 0
    /\ kicks' = kicks - 1
    /\ faults' = faults \cup UsePriv("queue")
    /\ UNCHANGED <<mgr, thr, info, priv, stop, compl, kicked, sync, ms, queue,
                   pushed, ckicks, ckick, owed>>

kick_queue_thread ==
    /\ kicks > 0
    /\ kicks' = kicks - 1
    /\ thr' = Woken("queue")
    /\ faults' = faults \cup UsePriv("queue")
    /\ UNCHANGED <<mgr, info, priv, stop, compl, kicked, sync, ms, queue,
                   pushed, ckicks, ckick, owed>>

\* cas_kick_cleaner_thread: the flag ...
kick_cleaner_thread ==
    /\ mgr["cleaner"] = "up" /\ ckicks < MaxKick
    /\ ckicks' = ckicks + 1
    /\ ckick' = ckick + 1
    /\ kicked' = TRUE
    /\ owed' = TRUE
    /\ faults' = faults \cup UsePriv("cleaner")
    /\ UNCHANGED <<mgr, thr, info, priv, stop, compl, sync, ms, queue, pushed, kicks>>

\* ... and the wake-up.
KickCleanerWake ==
    /\ ckick > 0
    /\ ckick' = ckick - 1
    /\ thr' = Woken("cleaner")
    /\ faults' = faults \cup Use("cleaner")
    /\ UNCHANGED <<mgr, info, priv, stop, compl, kicked, sync, ms, queue,
                   pushed, kicks, ckicks, owed>>

-----------------------------------------------------------------------------
Manager(t) == \/ start_thread(t) \/ Started(t) \/ StopFlag(t) \/ StopWake(t)
              \/ Stopped(t)

Thread(t) == \/ ThreadStart(t) \/ ThreadWait(t) \/ ThreadExit(t)
             \/ t = "queue" /\ (QueueRun \/ QueueLoop)
             \/ t = "cleaner" /\ (\/ CleanerTop \/ CleanerRun \/ CleanerKicksQueue
                                  \/ CleanerSleep \/ CleanerTimeout)

Kicks == kick_queue_thread \/ KickCleanerWake

ThrNext ==
    \/ \E t \in Threads : create_thread(t) \/ stop_thread(t) \/ Manager(t) \/ Thread(t)
    \/ OcfPush \/ kick_cleaner_thread \/ Kicks

ThrSpec == ThrInit /\ [][ThrNext]_thrVars

\* Threads are scheduled, and calls that were made go on.  Nobody has to
\* create or stop a thread, to push a request or to kick the cleaner.
ThrFairness ==
    /\ \A t \in Threads : WF_thrVars(Thread(t)) /\ WF_thrVars(Manager(t))
    /\ WF_thrVars(Kicks)

ThrFairSpec == ThrSpec /\ ThrFairness

-----------------------------------------------------------------------------
\* Type invariant.
ThrTypeOK ==
    /\ mgr \in [Threads -> {"none", "created", "starting", "up", "stop",
                            "stop wake", "stop wait", "down"}]
    /\ thr \in [Threads -> {"none", "new", "start", "check", "queued", "asleep",
                            "run", "loop", "top", "clean", "kick", "wait",
                            "exit", "gone"}]
    /\ info \in [Threads -> {"none", "alloc", "freed"}]
    /\ priv \in [Threads -> BOOLEAN]
    /\ stop \in [Threads -> BOOLEAN]
    /\ compl \in [Threads -> 0..1]
    /\ kicked \in BOOLEAN /\ sync \in 0..1 /\ ms \in {"sleep", "disable"}
    /\ queue \in Seq({"io", "clean"}) /\ Len(queue) <= MaxPush + 1
    /\ pushed \in 0..MaxPush /\ kicks \in 0..MaxPush
    /\ ckicks \in 0..MaxKick /\ ckick \in 0..MaxKick
    /\ owed \in BOOLEAN
    /\ faults \subseteq {"use after free", "no thread", "still pending"}

\* A stop frees the thread's structure only after the thread has used it for
\* the last time, and no kick, completion or wait meets a freed structure or
\* a thread already forgotten.
NoUseAfterFree == faults \subseteq {"still pending"}

\* A queue thread leaves no request behind, though requests may be on the
\* queue when it is told to stop (the WARN "Still pending IO requests").
NoRequestLeft == "still pending" \notin faults

\* A stop returns only after the thread has left its loop, and the cleaner
\* is never between a request and its completion then.
StopIsFinal ==
    /\ \A t \in Threads : mgr[t] = "down" => thr[t] \in {"none", "gone"}
    /\ mgr["cleaner"] = "down" => ~Queued("clean")

\* The queue is worked off to its last request: no wake-up is lost between
\* the thread's check of the queue and its sleep.
RequestsRun == \A r \in {"io", "clean"} : Queued(r) ~> ~Queued(r)

\* A kick is followed by a run of the cleaner that began after it, or by the
\* end of the cleaner, even when it comes during a run.
KickHonoured == owed ~> (~owed \/ stop["cleaner"])

\* A stop of either thread returns.
StopReturns == \A t \in Threads : mgr[t] = "stop" ~> mgr[t] = "down"

\* All of the safety: the threads are not used after they are freed, leave no
\* request behind and are gone when stop_thread returns (threads.c).
ThreadsSafe == ThrTypeOK /\ NoUseAfterFree /\ NoRequestLeft /\ StopIsFinal

\* All of the liveness: no wake-up of a thread is lost, whether it asks for a
\* request, a cleaner run or the end of the thread (threads.c).
ThreadsServe == RequestsRun /\ KickHonoured /\ StopReturns
=============================================================================
