----------------------------- MODULE UpdateSlot -----------------------------
(***************************************************************************)
(* What update admission promises of one managed instance: jobs are        *)
(* numbered in the order they are admitted, each one is active until it    *)
(* ends, and while the slot is exclusive no job is admitted while another  *)
(* is active ("an update is already in progress for this instance").       *)
(***************************************************************************)
EXTENDS Integers

VARIABLES
  exclusive,  \* whether the promise is made; it never changes
  admitted,   \* how many jobs have been admitted
  active      \* the admitted jobs that have not ended

slotVars == <<exclusive, admitted, active>>

SlotInit ==
  /\ exclusive \in BOOLEAN
  /\ admitted = 0
  /\ active = {}

Admit ==
  /\ exclusive => active = {}
  /\ admitted' = admitted + 1
  /\ active' = active \cup {admitted + 1}
  /\ UNCHANGED exclusive

End(j) ==
  /\ j \in active
  /\ active' = active \ {j}
  /\ UNCHANGED <<exclusive, admitted>>

SlotNext == Admit \/ \E j \in active : End(j)

SlotSpec == SlotInit /\ [][SlotNext]_slotVars
=============================================================================
