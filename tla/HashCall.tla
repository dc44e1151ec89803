------------------------------ MODULE HashCall ------------------------------
(***************************************************************************)
(* What one call to hash a batch promises, whichever threads or devices do    *)
(* the work (include/quantlib/batch.hpp:44, throughput.hpp:54): the          *)
(* application sees nothing until the call ends, it ends once, and then      *)
(* there is every digest or none.                                           *)
(***************************************************************************)
EXTENDS Naturals

VARIABLES
  items,      \* messages in the batch
  digests,    \* for each message, how many digests the application has of it
  outcome     \* "pending" until the call ends

None == [i \in 0..(items - 1) |-> 0]
Every == [i \in 0..(items - 1) |-> 1]

Init == items \in Nat /\ digests = None /\ outcome = "pending"

\* The call returns with the digests, returns an error, lets an exception out, or the
\* process ends.
End ==
  /\ outcome = "pending"
  /\ \/ outcome' = "ok" /\ digests' = Every
     \/ outcome' \in {"error", "thrown", "died"} /\ UNCHANGED digests
  /\ UNCHANGED items

Spec == Init /\ [][End]_<<items, digests, outcome>> /\ WF_<<items, digests, outcome>>(End)

=============================================================================
