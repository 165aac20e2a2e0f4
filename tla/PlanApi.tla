------------------------------- MODULE PlanApi -------------------------------
(***************************************************************************)
(* What include/ffts.h offers a client of plans, before any allocation     *)
(* order, cleanup label or nested plan is visible:                         *)
(*                                                                         *)
(*   - ffts_init_* either yields a new plan that owns its memory, or NULL  *)
(*     with nothing changed;                                               *)
(*   - a plan's memory does not change between its init and its free;      *)
(*   - ffts_free gives back all of it.                                     *)
(*                                                                         *)
(* A plan nested in another one (plans[0] of the chirp-z and real          *)
(* transforms) is made and freed through the same two functions and is a   *)
(* plan here like any other.                                               *)
(***************************************************************************)
CONSTANTS
    Handles,    \* identities of plan structs
    Blocks      \* what one plan may allocate

VARIABLES
    held,       \* plans that an init has returned and no free has taken back
    owned       \* owned[h]: the blocks plan h keeps allocated

vars == <<held, owned>>

Init ==
    /\ held = {}
    /\ owned = [h \in Handles |-> {}]

Create(h) ==
    /\ h \notin held
    /\ held' = held \cup {h}
    /\ \E B \in (SUBSET Blocks) \ {{}} : owned' = [owned EXCEPT ![h] = B]

Destroy(h) ==
    /\ h \in held
    /\ held' = held \ {h}
    /\ owned' = [owned EXCEPT ![h] = {}]

Next == \E h \in Handles : Create(h) \/ Destroy(h)

Spec == Init /\ [][Next]_vars
==============================================================================
