--------------------------- MODULE VaultRegister ---------------------------
(***************************************************************************)
(* What saving and loading a vault promise: a register that a save changes  *)
(* at one instant or not at all.  Only a register that was damaged since    *)
(* may go back to something saved earlier, or to nothing.                   *)
(***************************************************************************)

CONSTANT Contents      \* what may be saved

VARIABLES
  value,     \* what a load returns: {v}, or {} if it fails
  pending,   \* what is being saved: {v} or {}
  sound,     \* undamaged since the last save took effect
  stored     \* everything that was ever saved

registerVars == <<value, pending, sound, stored>>

Earlier == {{}} \cup {{v} : v \in stored}

RegisterInit == value = {} /\ pending = {} /\ sound = TRUE /\ stored = {}

Begin ==
  /\ pending = {}
  /\ pending' \subseteq Contents /\ \E v \in pending' : pending' = {v}
  /\ UNCHANGED <<value, sound, stored>>

TakeEffect ==
  /\ pending # {}
  /\ value' = pending
  /\ stored' = stored \cup pending
  /\ sound' = TRUE
  /\ pending' = {}

\* The save failed, or its process died.
Abandon == pending' = {} /\ UNCHANGED <<value, sound, stored>>

Damage ==
  /\ sound' = FALSE
  /\ value' \in Earlier
  /\ UNCHANGED <<pending, stored>>

\* What a damaged register returns may change at any time.
Decay ==
  /\ ~sound
  /\ value' \in Earlier
  /\ UNCHANGED <<pending, sound, stored>>

RegisterNext == Begin \/ TakeEffect \/ Abandon \/ Damage \/ Decay

RegisterSpec == RegisterInit /\ [][RegisterNext]_registerVars
=============================================================================
