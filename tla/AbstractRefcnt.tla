--------------------------- MODULE AbstractRefcnt ---------------------------
(***************************************************************************)
(* What a freezable reference counter promises its users, whatever the     *)
(* number of CPUs it is spread over: references come and go, a shut gate   *)
(* admits no new one, and the gate is lifted again only after the last     *)
(* reference is gone.                                                      *)
(***************************************************************************)
EXTENDS Naturals

VARIABLES
    refs,     \* references taken and not yet given back
    shut      \* no new reference is admitted

absVars == <<refs, shut>>

AbsInit == refs = 0 /\ shut = FALSE

Take == ~shut /\ refs' = refs + 1 /\ UNCHANGED shut

GiveBack == refs > 0 /\ refs' = refs - 1 /\ UNCHANGED shut

Shut == ~shut /\ shut' = TRUE /\ UNCHANGED refs

Lift == shut /\ refs = 0 /\ shut' = FALSE /\ UNCHANGED refs

AbsNext == Take \/ GiveBack \/ Shut \/ Lift

AbsSpec == AbsInit /\ [][AbsNext]_absVars

=============================================================================
