---------------------------- MODULE ReplayFilter ----------------------------
(***************************************************************************)
(* What the replay window promises, without the window: of the sequences    *)
(* that arrive, each is accepted at most once, and one that is new is       *)
(* refused only if a sequence W or more above it was accepted before.       *)
(***************************************************************************)
EXTENDS Naturals

CONSTANTS
  W,          \* the reach of the filter
  Sequence    \* sequences that may arrive

VARIABLES
  accepted,   \* sequences accepted since the last reset
  verdict     \* the last answer: the sequence and whether it was accepted

filterVars == <<accepted, verdict>>

InReach(s) == \A a \in accepted : a < s + W

FilterInit == accepted = {} /\ verdict = << >>

Arrive(s) ==
  LET ok == s \notin accepted /\ InReach(s)
  IN /\ accepted' = IF ok THEN accepted \cup {s} ELSE accepted
     /\ verdict' = <<s, ok>>

Forget == accepted' = {} /\ verdict' = << >>

FilterNext == Forget \/ \E s \in Sequence : Arrive(s)

FilterSpec == FilterInit /\ [][FilterNext]_filterVars
=============================================================================
