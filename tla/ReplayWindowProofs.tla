------------------------- MODULE ReplayWindowProofs -------------------------
(***************************************************************************)
(* The replay window is exact, and implements the filter that remembers     *)
(* every sequence, for any width and any sequences.                         *)
(***************************************************************************)
EXTENDS ReplayWindow, TLAPS

LEMMA InitExact == WindowInit => WindowExact
  BY WAssumption DEF WindowInit, WindowExact, empty_window, ReplayWindow, Bits

\* An exact window accepts what the filter accepts.
LEMMA CheckIsFilter ==
  ASSUME WindowExact, NEW s \in Nat
  PROVE  check(window, s) <=> s \notin accepted /\ \A a \in accepted : a < s + W
<1>1. W \in Nat \ {0}
  BY WAssumption
<1>2. CASE accepted = {}
  BY <1>2 DEF WindowExact, check, outside, seen, behind
<1>3. CASE accepted # {}
  <2>. DEFINE hi == window.highest
  <2>1. /\ window.initialized /\ hi \in accepted /\ hi \in Nat
        /\ \A a \in accepted : a \in Nat /\ a <= hi
        /\ \A i \in Bits : i \in window.bitmap <=> i <= hi /\ hi - i \in accepted
        /\ window.bitmap \subseteq Bits
    BY <1>3, SMT DEF WindowExact, ReplayWindow
  <2>. HIDE DEF hi
  <2>2. CASE s > hi
    <3>1. check(window, s)
      BY <2>1, <2>2, SMT DEF check, outside, seen, behind, hi
    <3>2. s \notin accepted /\ \A a \in accepted : a < s + W
      BY <1>1, <2>1, <2>2, SMT
    <3>. QED
      BY <3>1, <3>2
  <2>3. CASE s <= hi /\ hi - s >= W
    <3>1. ~check(window, s)
      BY <2>1, <2>3, SMT DEF check, outside, behind, delta, hi
    <3>2. ~(hi < s + W)
      BY <1>1, <2>1, <2>3, SMT
    <3>. QED
      BY <2>1, <3>1, <3>2
  <2>4. CASE s <= hi /\ hi - s < W
    <3>1. hi - s \in Bits /\ hi - (hi - s) = s /\ hi - s <= hi
      BY <1>1, <2>1, <2>4, SMT DEF Bits
    <3>2. check(window, s) <=> hi - s \notin window.bitmap
      BY <1>1, <2>1, <2>4, SMT DEF check, outside, seen, behind, delta, hi
    <3>3. hi - s \in window.bitmap <=> s \in accepted
      BY <2>1, <3>1
    <3>4. \A a \in accepted : a < s + W
      BY <1>1, <2>1, <2>4, SMT
    <3>. QED
      BY <3>2, <3>3, <3>4
  <2>. QED
    BY <1>1, <2>1, <2>2, <2>3, <2>4, SMT
<1>. QED
  BY <1>2, <1>3

LEMMA ReceiveExact ==
  ASSUME WindowExact, NEW s \in Sequence, Receive(s)
  PROVE  WindowExact'
<1>1. s \in Nat /\ W \in Nat \ {0}
  BY SequenceAssumption, WAssumption
<1>2. CASE ~check(window, s)
  BY <1>2 DEF Receive, WindowExact
<1>3. CASE check(window, s) /\ ~window.initialized
  <2>1. window' = [highest |-> s, initialized |-> TRUE, bitmap |-> {0}] /\ accepted' = {s}
    BY <1>3 DEF Receive, accept, behind, WindowExact
  <2>. QED
    BY <1>1, <2>1, SMT DEF WindowExact, ReplayWindow, Bits
<1>4. CASE check(window, s) /\ window.initialized /\ s > window.highest
  <2>. DEFINE hi == window.highest
              n == s - hi
              bits == shifted(window.bitmap, n) \cup {0}
  <2>1. /\ hi \in accepted /\ hi \in Nat /\ n \in Nat \ {0} /\ hi + n = s
        /\ \A a \in accepted : a \in Nat /\ a <= hi
        /\ \A i \in Bits : i \in window.bitmap <=> i <= hi /\ hi - i \in accepted
        /\ window.bitmap \subseteq Bits
    BY <1>1, <1>4, SMT DEF WindowExact, ReplayWindow
  <2>2. /\ window' = [highest |-> s, initialized |-> TRUE, bitmap |-> bits]
        /\ accepted' = accepted \cup {s}
    <3>1. ~behind(window, s)
      BY <1>1, <1>4, <2>1, SMT DEF behind
    <3>. QED
      BY <1>4, <3>1 DEF Receive, accept
  <2>. HIDE DEF n, hi
  <2>3. bits \subseteq Bits /\ 0 \in bits
    BY <1>1, SMT DEF shifted, Bits
  <2>4. ASSUME NEW i \in Bits, i # 0
        PROVE  i \in bits <=> i <= s /\ s - i \in accepted'
    <3>1. i \in Nat /\ i < W /\ s - i # s
      BY <1>1, <2>4, SMT DEF Bits
    <3>2. CASE i < n
      <4>1. i \notin bits
        BY <2>1, <2>4, <3>1, <3>2, SMT DEF shifted, Bits
      <4>2. s - i \notin accepted
        BY <1>1, <2>1, <3>1, <3>2, SMT
      <4>. QED
        BY <2>2, <3>1, <4>1, <4>2
    <3>3. CASE i >= n
      <4>1. i - n \in Bits /\ i = (i - n) + n
        BY <1>1, <2>1, <3>1, <3>3, SMT DEF Bits
      <4>2. i \in bits <=> i - n \in window.bitmap
        BY <2>1, <2>4, <3>1, <4>1, SMT DEF shifted, Bits
      <4>3. /\ i - n \in window.bitmap <=> i - n <= hi /\ hi - (i - n) \in accepted
            /\ hi - (i - n) = s - i
            /\ i - n <= hi <=> i <= s
        BY <1>1, <2>1, <3>1, <3>3, <4>1, SMT
      <4>. QED
        BY <2>2, <3>1, <4>2, <4>3
    <3>. QED
      BY <2>1, <3>1, <3>2, <3>3, SMT
  <2>5. \A a \in accepted' : a <= s
    BY <1>1, <2>1, <2>2, SMT
  <2>6. s - 0 = s /\ 0 <= s
    BY <1>1, SMT
  <2>. HIDE DEF bits
  <2>7. \A i \in Bits : i \in bits <=> i <= s /\ s - i \in accepted'
    BY <2>2, <2>3, <2>4, <2>6
  <2>8. accepted' \subseteq Nat /\ s \in accepted'
    BY <1>1, <2>1, <2>2
  <2>. QED
    BY <1>1, <2>2, <2>3, <2>5, <2>7, <2>8 DEF WindowExact, ReplayWindow
<1>5. CASE check(window, s) /\ window.initialized /\ s <= window.highest
  <2>. DEFINE hi == window.highest
              d == hi - s
  <2>1. /\ hi \in accepted /\ hi \in Nat /\ d \in Nat /\ d < W /\ hi - d = s /\ d <= hi
        /\ \A a \in accepted : a \in Nat /\ a <= hi
        /\ \A i \in Bits : i \in window.bitmap <=> i <= hi /\ hi - i \in accepted
        /\ window \in ReplayWindow
    BY <1>1, <1>5, SMT DEF WindowExact, ReplayWindow, check, outside, behind, delta
  <2>2. window' = [window EXCEPT !.bitmap = @ \cup {d}] /\ accepted' = accepted \cup {s}
    <3>1. behind(window, s)
      BY <1>5 DEF behind
    <3>. QED
      BY <1>5, <3>1 DEF Receive, accept, delta
  <2>3. window' \in ReplayWindow /\ window'.highest = hi /\ window'.initialized
        /\ window'.bitmap = window.bitmap \cup {d}
    BY <1>1, <1>5, <2>1, <2>2, SMT DEF ReplayWindow, Bits
  <2>. HIDE DEF hi, d
  <2>4. \A i \in Bits : hi - i = s => i = d
    BY <1>1, <2>1, SMT DEF Bits
  <2>5. \A i \in Bits : i \in window'.bitmap <=> i <= hi /\ hi - i \in accepted'
    BY <2>1, <2>2, <2>3, <2>4
  <2>6. /\ \A a \in accepted' : a <= hi
        /\ accepted' \subseteq Nat /\ hi \in accepted' /\ accepted' # {}
    BY <1>1, <1>5, <2>1, <2>2, SMT DEF hi
  <2>. QED
    BY <2>3, <2>5, <2>6 DEF WindowExact
<1>. QED
  BY <1>1, <1>2, <1>3, <1>4, <1>5, SMT DEF WindowExact, ReplayWindow

LEMMA NextExact == WindowExact /\ [WindowNext]_wvars => WindowExact'
<1>. SUFFICES ASSUME WindowExact, [WindowNext]_wvars PROVE WindowExact'
  OBVIOUS
<1>1. CASE Reset
  BY <1>1, WAssumption DEF Reset, WindowExact, empty_window, ReplayWindow, Bits
<1>2. CASE UNCHANGED wvars
  BY <1>2 DEF wvars, WindowExact
<1>. QED
  BY <1>1, <1>2, ReceiveExact DEF WindowNext

\* The bitmap and the highest sequence lose nothing of what was accepted among
\* the last W sequences, for every width and every order of arrival.
THEOREM WindowIsExact == WindowSpec => []WindowExact
  BY InitExact, NextExact, PTL DEF WindowSpec

LEMMA StepIsFilterStep ==
  WindowExact /\ [WindowNext]_wvars => [Filter!FilterNext]_(Filter!filterVars)
<1>. SUFFICES ASSUME WindowExact, [WindowNext]_wvars
              PROVE  [Filter!FilterNext]_(Filter!filterVars)
  OBVIOUS
<1>1. CASE Reset
  BY <1>1 DEF Reset, Filter!FilterNext, Filter!Forget
<1>2. ASSUME NEW s \in Sequence, Receive(s) PROVE Filter!Arrive(s)
  <2>1. check(window, s) <=> s \notin accepted /\ Filter!InReach(s)
    BY SequenceAssumption, CheckIsFilter DEF Filter!InReach
  <2>2. check(window, s) = (s \notin accepted /\ Filter!InReach(s))
    BY <2>1 DEF check
  <2>. QED
    BY <1>2, <2>2, Zenon DEF Receive, Filter!Arrive
<1>3. CASE UNCHANGED wvars
  BY <1>3 DEF wvars, Filter!filterVars
<1>. QED
  BY <1>1, <1>2, <1>3 DEF WindowNext, Filter!FilterNext

\* replay::check and replay::accept answer as a filter that remembers every
\* sequence of the epoch: none is accepted twice, and a new one is refused only
\* when a sequence W or more above it was accepted.
THEOREM WindowImplementsFilter == WindowSpec => FilterSpec
<1>1. WindowInit => Filter!FilterInit
  BY DEF WindowInit, Filter!FilterInit
<1>. QED
  BY <1>1, WindowIsExact, StepIsFilterStep, PTL DEF WindowSpec, FilterSpec, Filter!FilterSpec
=============================================================================
