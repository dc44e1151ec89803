------------------------------- MODULE Replay -------------------------------
(***************************************************************************)
(* The replay window of src/protocol/replay.cpp as operators on a       *)
(* window: the highest sequence accepted and one bit for each of the W      *)
(* sequences that end there.  The bitmap is the set of its 1 bits; a shift  *)
(* drops the bits that leave the word.                                      *)
(***************************************************************************)
EXTENDS Naturals

CONSTANT W   \* kDefaultWindowBits, the width of the bitmap

ASSUME WAssumption == W \in Nat \ {0}

Bits == 0 .. W - 1

ReplayWindow == [highest : Nat, bitmap : SUBSET Bits, initialized : BOOLEAN]

\* A fresh window, and what reset leaves.
empty_window == [highest |-> 0, bitmap |-> {}, initialized |-> FALSE]

\* At or below the highest sequence, so that its distance is not negative.
behind(w, sequence) == w.initialized /\ sequence <= w.highest
delta(w, sequence) == w.highest - sequence

outside(w, sequence) == behind(w, sequence) /\ delta(w, sequence) >= W
seen(w, sequence) == behind(w, sequence) /\ delta(w, sequence) \in w.bitmap

check(w, sequence) == ~outside(w, sequence) /\ ~seen(w, sequence)

shifted(bitmap, n) == {b + n : b \in bitmap} \cap Bits

\* Mutant: a higher sequence starts the bitmap afresh.
accept_forgets(w, sequence) ==
  IF behind(w, sequence)
    THEN [w EXCEPT !.bitmap = @ \cup {delta(w, sequence)}]
    ELSE [highest |-> sequence, bitmap |-> {0}, initialized |-> TRUE]

\* Mutant: an accepted sequence below the highest one is not marked.
accept_unmarked(w, sequence) ==
  IF behind(w, sequence)
    THEN w
    ELSE [highest |-> sequence, initialized |-> TRUE,
          bitmap |-> IF w.initialized
                       THEN shifted(w.bitmap, sequence - w.highest) \cup {0}
                       ELSE {0}]

\* The window after an accepted sequence.
accept(w, sequence) ==
  IF behind(w, sequence)
    THEN [w EXCEPT !.bitmap = @ \cup {delta(w, sequence)}]
    ELSE [highest |-> sequence, initialized |-> TRUE,
          bitmap |-> IF w.initialized
                       THEN shifted(w.bitmap, sequence - w.highest) \cup {0}
                       ELSE {0}]
=============================================================================
