---------------------------- MODULE ReplayWindow ----------------------------
(***************************************************************************)
(* One receive window in use: records arrive with any sequence, in any      *)
(* order and any number of times, and a key epoch may end at any moment.    *)
(* It implements ReplayFilter, which knows every sequence ever accepted.    *)
(***************************************************************************)
EXTENDS Replay

CONSTANT Sequence   \* bound: the sequences that arrive (0 .. kMaxSequence)

ASSUME SequenceAssumption == Sequence \subseteq Nat

VARIABLES
  window,     \* the ReplayWindow
  verdict,    \* the last call and its answer
  accepted    \* history variable: sequences accepted in this epoch

wvars == <<window, verdict, accepted>>

WindowInit == window = empty_window /\ verdict = << >> /\ accepted = {}

\* replay::accept, which begins with replay::check and changes nothing if it fails.
Receive(s) ==
  LET ok == check(window, s)
  IN /\ window' = IF ok THEN accept(window, s) ELSE window
     /\ verdict' = <<s, ok>>
     /\ accepted' = IF ok THEN accepted \cup {s} ELSE accepted

\* replay::reset
Reset == window' = empty_window /\ verdict' = << >> /\ accepted' = {}

WindowNext == Reset \/ \E s \in Sequence : Receive(s)

WindowSpec == WindowInit /\ [][WindowNext]_wvars

-----------------------------------------------------------------------------
\* The window says exactly what was accepted among the last W sequences: bit i
\* stands for the sequence i below the highest one.
WindowExact ==
  /\ window \in ReplayWindow
  /\ window.initialized <=> accepted # {}
  /\ accepted \subseteq Nat
  /\ accepted # {} =>
       /\ window.highest \in accepted
       /\ \A a \in accepted : a <= window.highest
       /\ \A i \in Bits : i \in window.bitmap <=> i <= window.highest /\ window.highest - i \in accepted

\* The window answers as a filter that remembers every accepted sequence does:
\* no sequence twice, and no new one refused but for its age.
Filter == INSTANCE ReplayFilter
FilterSpec == Filter!FilterSpec
=============================================================================
