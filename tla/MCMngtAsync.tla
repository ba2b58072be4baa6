---------------------------- MODULE MCMngtAsync -----------------------------
(* Programs of the commands, and which of them run against each other.     *)
EXTENDS MngtAsync, FiniteSets, TLC

\* set_cache_mode with flush, attach_device, detach_cache, exit_instance with
\* flush, a parameter change and a statistics query.
Commands ==
    "mode" :> <<"flush", "save">> @@ "attach" :> <<"attach">>
    @@ "detach" :> <<"flush", "detach">> @@ "stop" :> <<"flush", "stop">>
    @@ "update" :> <<"update">> @@ "query" :> <<"query">>
\* cache_mngt_detach_cache
DetachAlone == "detach" :> <<"flush", "detach">>

\* Any two commands, or a stop with a writer and a reader; the others have
\* already failed to find the cache.
Together == {S \in SUBSET Cmds : Cardinality(S) = 2} \cup {{"stop", "update", "query"}}

SomeInit ==
    \E S \in Together :
        /\ pc = [p \in Cmds |-> IF p \in S THEN "idle" ELSE "done"]
        /\ ret = [p \in Cmds |-> IF p \in S THEN "none" ELSE "error"]
        /\ phase = [p \in Cmds |-> 1]
        /\ ctx = [p \in Cmds |-> NoContext]
        /\ op = [p \in Cmds |-> "none"]
        /\ failed = [p \in Cmds |-> FALSE]
        /\ rc = [p \in Cmds |-> "ok"]
        /\ writers = {} /\ readers = {}
        /\ refs = [p \in Cmds |-> 0]
        /\ faults = {}

\* No signal ends the wait for a detach itself: that case is the one of the
\* run async_detach_interrupted.
DetachAwaited == \A p \in Cmds : Phase(p) = "detach" /\ pc[p] = "set op" => rc[p] = "ok"

SomeSpec == SomeInit /\ [][Next /\ DetachAwaited']_vars
=============================================================================
