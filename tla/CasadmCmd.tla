------------------------------ MODULE CasadmCmd ------------------------------
(***************************************************************************)
(* One casadm command: cas_lib.c's checks, the ioctl run with its progress *)
(* thread, SIGINT and retries (cas_lib_utils.c), the way of the management *)
(* commands through the kernel (layer_cache_management.c: a flush that can *)
(* be interrupted, the lock, a last flush, the change and its save), and   *)
(* the exit code their answer is turned into.  SIGINT is the only signal:  *)
(* the waits a stopped or killed casadm leaves behind are in MngtAsync.    *)
(***************************************************************************)
EXTENDS Naturals

IOCTL_RETRIES == 3

(* How cas_lib.c issues each command: run_ioctl_interruptible_retry,       *)
(* run_ioctl_interruptible, or a bare ioctl without a thread.              *)
Retried == {"start", "connect", "detach", "disconnect", "stop", "mode", "flush"}
Plain == {"add", "manage"}

VARIABLES
    main,       \* the command: [pc, cmd, flush, twice, left, tries, err, code]
    thread,     \* print_command_progress: "none" "start" "poll" "h1".."h3" "ended"
    handler,    \* SIGINT disposition: "default" or "interrupt"
    sigint,     \* a SIGINT is pending (blocked but in ppoll)
    interrupted, finished,  \* the global flags
    kernel,     \* the ioctl: [pc, enabled (flush_interrupt_enabled), asked (OCF's flag)]
    effect,     \* what became of the system: "none" "part" "overtaken" "done" "errors"
    fault       \* history: a step failed by itself ("io"), or the interrupt was
                \* let through on a stale look at flush_interrupt_enabled ("stale")

cmdVars == <<main, thread, handler, sigint, interrupted, finished, kernel, effect, fault>>
userVars == <<thread, handler, sigint, interrupted, finished>>

NoMain == [pc |-> "idle", cmd |-> "none", flush |-> FALSE, twice |-> FALSE, left |-> 0,
           tries |-> 0, err |-> "none", code |-> "none"]
Rest == [pc |-> "rest", enabled |-> TRUE, asked |-> FALSE]

CmdInit ==
    /\ main = NoMain /\ thread = "none" /\ handler = "default" /\ sigint = FALSE
    /\ interrupted = FALSE /\ finished = FALSE
    /\ kernel = Rest /\ effect = "none" /\ fault = {}

-----------------------------------------------------------------------------
(* A command's own checks, the control device, and the pipe of the progress *)
(* thread come first; n ioctls follow.  The kernel flushes or not, and may *)
(* go over the data a second time under the lock.                          *)
Launch(c, checked, flush, twice, n) ==
    /\ main.pc = "idle"
    /\ \/ /\ main' = [NoMain EXCEPT !.pc = "returned", !.cmd = c, !.code = "FAILURE"]
          /\ UNCHANGED thread
       \/ /\ checked
          /\ main' = [NoMain EXCEPT !.pc = "ioctl", !.cmd = c, !.flush = flush,
                                   !.twice = twice, !.left = n]
          /\ thread' = IF c \in Plain THEN "none" ELSE "start"
    /\ UNCHANGED <<handler, sigint, interrupted, finished, kernel, effect, fault>>

(* Start, load or attach; standby commands take the same way. *)
StartCache == Launch("start", TRUE, FALSE, FALSE, 1)
ConnectCache == Launch("connect", TRUE, FALSE, FALSE, 1)

(* Only a running cache is flushed before it is detached, disconnected or  *)
(* stopped.                                                                *)
DetachCache == \E running \in BOOLEAN : Launch("detach", TRUE, running, FALSE, 1)

(* --pass-through needs the flush, and purges the cache under the lock. *)
DisconnectCache == \E passThrough, noFlush, running \in BOOLEAN :
    Launch("disconnect", ~(noFlush /\ passThrough), ~noFlush /\ running, passThrough, 1)

(* device_mounts_detected: any exported object of the cache. *)
StopCache == \E mounted, flush, running \in BOOLEAN :
    Launch("stop", ~mounted, flush /\ running, flush /\ running, 1)

(* The core itself or a partition of it. *)
RemoveCore == \E mounted, noFlush \in BOOLEAN :
    Launch("remove", ~mounted, ~noFlush, ~noFlush, 1)

(* Leaving a lazy write mode, --flush-cache must be given; else it is "no". *)
SetCacheMode == \E leavesLazy \in BOOLEAN, flush \in {"unset", "yes", "no"} :
    Launch("mode", leavesLazy => flush # "unset", flush = "yes", flush = "yes", 1)

FlushCache == Launch("flush", TRUE, TRUE, FALSE, 1)
FlushCore == Launch("flush", TRUE, TRUE, FALSE, 1)
PurgeCache == Launch("purge", TRUE, TRUE, FALSE, 1)
PurgeCore == Launch("purge", TRUE, TRUE, FALSE, 1)

(* try_add needs a core id; the device must be there, be a block device    *)
(* and not make its cache a level of itself.                               *)
AddCore == \E tryAdd, idGiven \in BOOLEAN :
    Launch("add", tryAdd => idGiven, FALSE, FALSE, 1)
RemoveInactiveCore == Launch("manage", TRUE, FALSE, FALSE, 1)
CorePoolRemove == Launch("manage", TRUE, FALSE, FALSE, 1)
ResetCounters == Launch("manage", TRUE, FALSE, FALSE, 1)

(* One ioctl for each parameter selected. *)
CoreParamsSet == \E n \in 1..2 : Launch("manage", TRUE, FALSE, FALSE, n)
CacheParamsSet == \E n \in 1..2 : Launch("manage", TRUE, FALSE, FALSE, n)

(* run_ioctl: into the kernel. *)
Ioctl ==
    /\ main.pc = "ioctl"
    /\ main' = [main EXCEPT !.pc = "kernel", !.tries = @ + 1]
    /\ kernel' = [kernel EXCEPT !.pc = "enter"]
    /\ UNCHANGED <<userVars, effect, fault>>

-----------------------------------------------------------------------------
(* The ioctl's answer: the extended error code, and the errno made of it. *)
Answer(err) ==
    /\ kernel' = [kernel EXCEPT !.pc = "rest", !.enabled = TRUE]
    /\ main' = [main EXCEPT !.pc = IF main.cmd \in Retried THEN "answer" ELSE "answered",
                            !.err = err]
    /\ UNCHANGED userVars

(* No such cache, no lock, a state the command is not for, an object in    *)
(* use: nothing has been changed, or what was has been put back.           *)
KernelRefuses ==
    /\ kernel.pc \in {"enter", "locked"}
    /\ \E err \in {"EBUSY", "error"} : Answer(err)
    /\ UNCHANGED <<effect, fault>>

(* _cache_flush_with_lock, _cache_mngt_remove_core_flush: OCF's flush      *)
(* forgets an old request to stop.                                         *)
KernelFlush ==
    /\ kernel.pc = "enter" /\ main.flush
    /\ kernel' = [pc |-> "flush", enabled |-> TRUE, asked |-> FALSE]
    /\ UNCHANGED <<main, userVars, effect, fault>>

(* It stops when asked, or fails, and nothing has been changed. *)
KernelFlushFails ==
    /\ kernel.pc = "flush"
    /\ \/ kernel.asked /\ Answer("interrupted")
       \/ \E err \in {"EBUSY", "error"} : Answer(err)
    /\ UNCHANGED <<effect, fault>>

(* The lock; a clean core was not flushed. *)
KernelLock ==
    /\ \/ kernel.pc = "flush"
       \/ kernel.pc = "enter" /\ (~main.flush \/ main.cmd = "remove")
    /\ kernel' = [kernel EXCEPT !.pc = "locked"]
    /\ UNCHANGED <<main, userVars, effect, fault>>

(* The mode is the one asked for already, or was changed by another        *)
(* command before the lock was taken: 0 either way.                        *)
ModeKept ==
    /\ main.cmd = "mode"
    /\ \/ kernel.pc = "enter" /\ effect' = "done"
       \/ kernel.pc = "locked" /\ effect' = "overtaken"
    /\ Answer("none")
    /\ UNCHANGED fault

(* A bug that leaves the last flush to the user's mercy. *)
StillEnabled == TRUE

(* flush_interrupt_enabled while the data are gone over under the lock:    *)
(* "This time we don't allow interruption", but the purge of a disconnect. *)
LastEnabled == main.cmd = "disconnect"

KernelLast ==
    /\ kernel.pc = "locked" /\ main.twice
    /\ kernel' = [pc |-> "last", enabled |-> LastEnabled, asked |-> FALSE]
    /\ UNCHANGED <<main, userVars, effect, fault>>

(* A stop goes on and tells of it, a core is detached, a mode stays, and a *)
(* disconnect takes its cache back.                                        *)
KernelLastFails ==
    /\ kernel.pc = "last"
    /\ \E io \in BOOLEAN :
          /\ io \/ kernel.asked
          /\ fault' = fault \cup (IF io THEN {"io"} ELSE {})
          /\ effect' = IF main.cmd \in {"stop", "remove"} THEN "errors" ELSE effect
          /\ Answer(IF io \/ main.cmd \in {"stop", "remove"} THEN "error" ELSE "interrupted")

(* The change itself, well or badly; a parameter may be set and not saved. *)
Change ==
    /\ kernel.pc = "last" \/ (kernel.pc = "locked" /\ ~main.twice)
    /\ main.left = 1
    /\ effect' = "done"
    /\ kernel' = [kernel EXCEPT !.pc = "changed", !.enabled = TRUE]
    /\ UNCHANGED <<main, userVars, fault>>

ChangeFails ==
    /\ kernel.pc = "last" \/ (kernel.pc = "locked" /\ ~main.twice)
    /\ effect' \in IF main.cmd \in {"stop", "remove", "detach", "disconnect", "manage"}
                   THEN {effect, "errors"} ELSE {effect}
    /\ fault' = fault \cup {"io"}
    /\ Answer("error")

(* Of several parameters the first are set already when one fails. *)
ChangePart ==
    /\ kernel.pc = "locked" /\ main.left > 1
    /\ effect' = "part"
    /\ kernel' = [kernel EXCEPT !.pc = "rest"]
    /\ main' = [main EXCEPT !.pc = "ioctl", !.left = @ - 1]
    /\ UNCHANGED <<userVars, fault>>

KernelDone ==
    /\ kernel.pc = "changed"
    /\ Answer("none")
    /\ UNCHANGED <<effect, fault>>

(* A bug that keeps the mode that could not be saved. *)
KeptMode == "done"

(* "Failed to save new cache mode. Restoring old one!" *)
RestoredMode == "none"

ModeNotSaved ==
    /\ kernel.pc = "changed" /\ main.cmd = "mode"
    /\ effect' = RestoredMode /\ fault' = fault \cup {"io"}
    /\ Answer("error")

-----------------------------------------------------------------------------
(* A bug that reports the last attempt's EBUSY as success. *)
BusyIsFine(err) == IF err = "EBUSY" THEN "none" ELSE err

(* What is left of the error when every attempt was answered EBUSY. *)
AfterRetries(err) == err

(* run_ioctl_retry: a second's sleep and another attempt while the cache   *)
(* is busy, unless the user has interrupted.                               *)
RetryOrGive ==
    /\ main.pc = "answer"
    /\ main' = IF main.err = "EBUSY" /\ ~interrupted /\ main.tries < IOCTL_RETRIES
               THEN [main EXCEPT !.pc = "ioctl", !.err = "none"]
               ELSE [main EXCEPT !.pc = "answered", !.err = AfterRetries(@)]
    /\ UNCHANGED <<userVars, kernel, effect, fault>>

(* A bug that forgets to tell the thread. *)
UnFinished == finished

SetFinished == TRUE

(* The pipe is closed, unless the handler has done it, and the flag set. *)
Finish ==
    /\ main.pc = "answered" /\ main.cmd \notin Plain
    /\ finished' = SetFinished
    /\ main' = [main EXCEPT !.pc = "join"]
    /\ UNCHANGED <<thread, handler, sigint, interrupted, kernel, effect, fault>>

(* The exit code, from the result and the extended error code. *)
Code(cmd, err) ==
    IF err = "none" THEN "SUCCESS"
    ELSE IF err = "interrupted" /\ cmd # "purge" THEN "INTERRUPTED" ELSE "FAILURE"

Report ==
    /\ \/ main.pc = "join" /\ thread = "ended"
       \/ main.pc = "answered" /\ main.cmd \in Plain
    /\ main' = [main EXCEPT !.pc = "returned", !.code = Code(main.cmd, main.err)]
    /\ UNCHANGED <<userVars, kernel, effect, fault>>

-----------------------------------------------------------------------------
(* The user presses Ctrl-C: SIGINT is blocked in both threads, but for the *)
(* progress thread's ppoll.                                                *)
Signal ==
    /\ main.pc \notin {"idle", "returned"} /\ thread # "none" /\ ~sigint
    /\ sigint' = TRUE
    /\ UNCHANGED <<main, thread, handler, interrupted, finished, kernel, effect, fault>>

(* The thread installs its handler, or cannot open the control device. *)
ThreadStart ==
    /\ thread = "start"
    /\ \/ thread' = "poll" /\ handler' = "interrupt"
       \/ thread' = "ended" /\ UNCHANGED handler
    /\ UNCHANGED <<main, sigint, interrupted, finished, kernel, effect, fault>>

(* ppoll times out or sees the pipe closed. *)
Woken ==
    /\ thread = "poll" /\ (interrupted \/ finished)
    /\ thread' = "ended"
    /\ UNCHANGED <<main, handler, sigint, interrupted, finished, kernel, effect, fault>>

(* print_progress_indicator past 50%: "Ignore all signals at this stage". *)
NearEnd ==
    /\ thread = "poll" /\ handler = "interrupt"
    /\ handler' = "default"
    /\ UNCHANGED <<main, thread, sigint, interrupted, finished, kernel, effect, fault>>

(* SIGINT in ppoll with the default handler: it only counts, but ppoll     *)
(* returns EINTR, which sets the flag and ends the thread.                 *)
Counted ==
    /\ thread = "poll" /\ sigint /\ handler = "default"
    /\ sigint' = FALSE /\ interrupted' = TRUE /\ thread' = "ended"
    /\ UNCHANGED <<main, handler, finished, kernel, effect, fault>>

(* sig_handler_interrupt_flushing: the pipe, the flag, and the ioctl, if   *)
(* the control device can be opened.                                       *)
HandlerFlag ==
    /\ thread = "poll" /\ sigint /\ handler = "interrupt"
    /\ sigint' = FALSE /\ interrupted' = TRUE
    /\ thread' \in {"h1", "ended"}
    /\ UNCHANGED <<main, handler, finished, kernel, effect, fault>>

(* cache_mngt_interrupt_flushing looks whether the flush may be stopped ... *)
HandlerLooks ==
    /\ thread = "h1"
    /\ thread' = IF kernel.enabled THEN "h2" ELSE "h3"
    /\ UNCHANGED <<main, handler, sigint, interrupted, finished, kernel, effect, fault>>

(* ... and asks OCF to stop it. *)
HandlerAsks ==
    /\ thread = "h2"
    /\ kernel' = [kernel EXCEPT !.asked = TRUE]
    /\ fault' = fault \cup (IF kernel.enabled THEN {} ELSE {"stale"})
    /\ thread' = "h3"
    /\ UNCHANGED <<main, handler, sigint, interrupted, finished, effect>>

(* The default handler is back if the ioctl went well. *)
HandlerEnds ==
    /\ thread = "h3"
    /\ handler' \in {"default", "interrupt"}
    /\ thread' = "ended"
    /\ UNCHANGED <<main, sigint, interrupted, finished, kernel, effect, fault>>

Again == /\ main.pc = "returned" /\ main' = NoMain /\ thread' = "none"
         /\ handler' = "default" /\ sigint' = FALSE /\ interrupted' = FALSE
         /\ finished' = FALSE /\ kernel' = Rest /\ effect' = "none" /\ fault' = {}

KernelStep == KernelRefuses \/ KernelFlush \/ KernelFlushFails \/ KernelLock \/ ModeKept
              \/ KernelLast \/ KernelLastFails \/ Change \/ ChangeFails \/ ChangePart
              \/ KernelDone \/ ModeNotSaved
MainStep == Ioctl \/ KernelStep \/ RetryOrGive \/ Finish \/ Report
ThreadStep == ThreadStart \/ Woken \/ Counted \/ HandlerFlag \/ HandlerLooks
              \/ HandlerAsks \/ HandlerEnds

Begin == \/ StartCache \/ ConnectCache \/ DetachCache \/ DisconnectCache \/ StopCache
         \/ RemoveCore \/ SetCacheMode \/ FlushCache \/ FlushCore \/ PurgeCache
         \/ PurgeCore \/ AddCore \/ RemoveInactiveCore \/ CorePoolRemove
         \/ ResetCounters \/ CoreParamsSet \/ CacheParamsSet

CmdNext == Begin \/ MainStep \/ Signal \/ ThreadStep \/ NearEnd \/ Again

CmdSpec == CmdInit /\ [][CmdNext]_cmdVars /\ WF_cmdVars(MainStep) /\ WF_cmdVars(ThreadStep)

-----------------------------------------------------------------------------
(* The exit code tells what became of the system, for any moment of SIGINT *)
(* and any answers to the retries: SUCCESS only if the command took effect *)
(* (or the mode was changed by another command before the lock was taken,  *)
(* which cache_mngt_set_cache_mode answers with 0, lines 3239-3244);       *)
(* INTERRUPTED, "CAS continues to operate normally", only of a command     *)
(* that was to flush (set_cache_mode's assert) or purge, and if nothing    *)
(* changed; FAILURE never if it took effect.                               *)
(* And Ctrl-C alone never stops a cache dirty or detaches a core instead   *)
(* of removing it: a step failed by itself then, or the interrupt looked   *)
(* at flush_interrupt_enabled (line 3920) before the last flush cleared it *)
(* and asked OCF to stop after.                                            *)
ReportTrue ==
    /\ main.code = "SUCCESS" => effect \in {"done", "overtaken"}
    /\ main.code = "INTERRUPTED" => effect = "none" /\ (main.flush \/ main.twice)
    /\ main.code = "FAILURE" => effect # "done"
    /\ effect = "errors" => fault # {}

(* A command that was issued returns: the thread it joins always ends.     *)
CommandReturns == (main.pc = "ioctl") ~> (main.pc = "returned")
=============================================================================
