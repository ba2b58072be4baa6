----------------------------- MODULE MCExported -----------------------------
(***************************************************************************)
(* The exported objects, and the requests to one of them during a          *)
(* pass-through disconnect and a connect, as two parts that share no       *)
(* state.  As in MCDataPath a behaviour chooses one part (turn) and runs   *)
(* it.  No request is deferred here and no disk is slow: those cases are   *)
(* the ones of the runs disconnect_flush and disconnect_slow.              *)
(***************************************************************************)
EXTENDS ExpObj, Disconnect

VARIABLE turn

-----------------------------------------------------------------------------
AllInit == turn \in {"objects", "disconnect"} /\ ObjInit /\ Init

ObjectsStep == turn = "objects" /\ ObjNext /\ UNCHANGED <<turn, vars>>
DisconnectStep == turn = "disconnect" /\ Next /\ UNCHANGED <<turn, objVars>>

(* The fairness of each module, for the part that runs. *)
AllFairness ==
    /\ WF_objVars(turn = "objects" /\ faults = {} /\ Command)
    /\ \A c \in Cores : /\ WF_objVars(turn = "objects" /\ faults = {} /\ UnfreezeCaptured(c))
                        /\ WF_objVars(turn = "objects" /\ faults = {} /\ DeleteEnd(c))
    /\ WF_vars(turn = "disconnect" /\ Continue)
    /\ \A b \in Bios : SF_vars(turn = "disconnect" /\ Proceed(b))

AllSpec == AllInit /\ [][ObjectsStep \/ DisconnectStep]_<<turn, objVars, vars>> /\ AllFairness
=============================================================================
