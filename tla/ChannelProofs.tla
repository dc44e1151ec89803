--------------------------- MODULE ChannelProofs ---------------------------
(***************************************************************************)
(* For any window width, number of generations and number of frames, the    *)
(* channel never repeats a nonce, never opens a frame twice, and delivers   *)
(* what module Delivery promises.                                           *)
(***************************************************************************)
EXTENDS Channel, FiniteSetTheorems, TLAPS

\* Types, as far as the invariants below need them.
Typed ==
  /\ channel \in [Role -> ChannelState]
  /\ network \subseteq Frame /\ IsFiniteSet(network)
  /\ DOMAIN opened = Role

\* What an endpoint sealed lies below its generation, or below its counter in it.
SealedBelow ==
  \A f \in network :
    /\ f.generation <= channel[f.role].generation
    /\ f.generation = channel[f.role].generation => f.sequence < channel[f.role].send_sequence

\* What an endpoint opened was opened once, lies at or below its generation, and
\* is known to its window as long as the generation lasts.
OpenedOnce ==
  \A r \in Role : \A f \in DOMAIN opened[r] :
    /\ opened[r][f] = 1
    /\ f \in Frame
    /\ f.generation <= channel[r].generation
    /\ f.generation = channel[r].generation => ~check(channel[r].receive_window, f.sequence)

ChannelInv == Typed /\ SealedBelow /\ NonceUnique /\ OpenedOnce

-----------------------------------------------------------------------------
LEMMA AcceptType ==
  ASSUME NEW w \in ReplayWindow, NEW s \in Nat, check(w, s)
  PROVE  accept(w, s) \in ReplayWindow
<1>1. W \in Nat \ {0}
  BY WAssumption
<1>2. CASE behind(w, s)
  <2>1. delta(w, s) \in Bits
    BY <1>1, <1>2, SMT DEF check, outside, behind, delta, Bits, ReplayWindow
  <2>. QED
    BY <1>2, <2>1, SMT DEF accept, ReplayWindow
<1>3. CASE ~behind(w, s)
  <2>1. shifted(w.bitmap, s - w.highest) \cup {0} \subseteq Bits /\ {0} \subseteq Bits
    BY <1>1, SMT DEF shifted, Bits
  <2>. QED
    BY <1>3, <2>1, SMT DEF accept, ReplayWindow
<1>. QED
  BY <1>2, <1>3

\* A window that accepts a sequence knows it afterwards, and forgets none.
LEMMA AcceptRemembers ==
  ASSUME NEW w \in ReplayWindow, NEW s \in Nat, check(w, s), NEW a \in Nat,
         a = s \/ ~check(w, a)
  PROVE  ~check(accept(w, s), a)
<1>1. W \in Nat \ {0} /\ 0 \in Bits
  BY WAssumption, SMT DEF Bits
<1>2. CASE behind(w, s)
  <2>. DEFINE v == [w EXCEPT !.bitmap = @ \cup {delta(w, s)}]
  <2>1. /\ accept(w, s) = v
        /\ v.highest = w.highest /\ v.initialized /\ w.initialized
        /\ v.bitmap = w.bitmap \cup {delta(w, s)}
    BY <1>2, SMT DEF accept, ReplayWindow, behind
  <2>. HIDE DEF v
  <2>2. CASE a = s
    BY <1>2, <2>1, <2>2, SMT DEF check, seen, behind, delta
  <2>3. CASE ~check(w, a)
    BY <1>1, <2>1, <2>3, SMT DEF check, outside, seen, behind, delta
  <2>. QED
    BY <2>2, <2>3
<1>3. CASE ~behind(w, s) /\ ~w.initialized
  <2>1. a = s
    BY <1>3, SMT DEF check, outside, seen, behind
  <2>2. accept(w, s) = [highest |-> s, initialized |-> TRUE, bitmap |-> {0}]
    BY <1>3 DEF accept
  <2>. QED
    BY <2>1, <2>2, SMT DEF check, seen, behind, delta
<1>4. CASE ~behind(w, s) /\ w.initialized
  <2>. DEFINE n == s - w.highest
              bits == shifted(w.bitmap, n) \cup {0}
              v == [highest |-> s, initialized |-> TRUE, bitmap |-> bits]
  <2>1. /\ accept(w, s) = v /\ v.highest = s /\ v.initialized /\ v.bitmap = bits
        /\ w.highest \in Nat /\ n \in Nat \ {0} /\ w.highest + n = s
    BY <1>4, SMT DEF accept, behind, ReplayWindow
  <2>. HIDE DEF v, n
  <2>2. CASE a = s
    BY <2>1, <2>2, SMT DEF check, seen, behind, delta
  <2>3. CASE a # s
    <3>1. a <= w.highest /\ a < s /\ (w.highest - a >= W \/ w.highest - a \in w.bitmap)
      BY <1>4, <2>1, <2>3, SMT DEF check, outside, seen, behind, delta
    <3>2. CASE s - a >= W
      <4>1. behind(v, a) /\ delta(v, a) >= W
        BY <1>1, <2>1, <3>1, <3>2, SMT DEF behind, delta
      <4>2. outside(v, a)
        BY <4>1 DEF outside
      <4>. QED
        BY <2>1, <4>2 DEF check
    <3>3. CASE s - a < W
      <4>1. w.highest - a \in w.bitmap /\ s - a = (w.highest - a) + n /\ s - a \in Bits
        BY <1>1, <2>1, <3>1, <3>3, SMT DEF Bits
      <4>2. s - a \in bits
        BY <4>1 DEF shifted
      <4>. QED
        BY <2>1, <3>1, <4>2, SMT DEF check, seen, behind, delta
    <3>. QED
      BY <1>1, <2>1, <3>2, <3>3, SMT
  <2>. QED
    BY <2>2, <2>3
<1>. QED
  BY <1>2, <1>3, <1>4

-----------------------------------------------------------------------------
\* What sealing f does to the endpoint r, whatever kind of frame it is.
Seals(r, f) ==
  /\ f \in Frame /\ f.role = r
  /\ f.generation = channel[r].generation /\ f.sequence = channel[r].send_sequence
  /\ network' = network \cup {f}
  /\ channel' \in [Role -> ChannelState]
  /\ \A x \in Role : /\ channel'[x].receive_window = channel[x].receive_window
                     /\ x # r => channel'[x] = channel[x]
  /\ \/ /\ f.type # "key_update"
        /\ channel'[r].generation = channel[r].generation
        /\ channel'[r].send_sequence = channel[r].send_sequence + 1
     \/ /\ f.type = "key_update"
        /\ f.new_generation = channel[r].generation + 1
        /\ channel'[r].generation = channel[r].generation + 1
  /\ UNCHANGED <<inbox, opened>>

\* What frame builds is a frame.
LEMMA FrameType ==
  ASSUME Typed, NEW r \in Role, NEW type \in ContentType, NEW g \in Nat
  PROVE  frame(r, type, channel[r].send_sequence, g) \in Frame
<1>1. Cardinality(Sealed(r)) \in Nat
  <2>1. Sealed(r) \subseteq network /\ IsFiniteSet(network)
    BY DEF Sealed, Typed
  <2>2. IsFiniteSet(Sealed(r))
    BY <2>1, FS_Subset
  <2>. QED
    BY <2>2, FS_CardinalityType
<1>2. channel[r].generation \in Nat /\ channel[r].send_sequence \in Nat
  BY DEF Typed, ChannelState
<1>. QED
  BY <1>1, <1>2 DEF frame, Frame

LEMMA DataMoves ==
  ASSUME Typed, NEW r \in Role, seal_data(r)
  PROVE  \E f : Seals(r, f)
<1>. DEFINE f == frame(r, "data", channel[r].send_sequence, 0)
<1>1. f \in Frame
  BY FrameType, SMT DEF ContentType
<1>2. /\ f.role = r /\ f.generation = channel[r].generation
      /\ f.sequence = channel[r].send_sequence /\ f.type # "key_update"
  BY DEF frame
<1>3. /\ network' = network \cup {f} /\ UNCHANGED <<inbox, opened>>
      /\ channel' = [channel EXCEPT ![r].send_sequence = channel[r].send_sequence + 1]
  BY DEF seal_data, send
<1>. HIDE DEF f
<1>4. channel[r] \in ChannelState /\ channel[r].send_sequence + 1 \in Nat
  BY SMT DEF Typed, ChannelState
<1>5. /\ channel' \in [Role -> ChannelState]
      /\ channel'[r].generation = channel[r].generation
      /\ channel'[r].send_sequence = channel[r].send_sequence + 1
      /\ channel'[r].receive_window = channel[r].receive_window
      /\ \A x \in Role : x # r => channel'[x] = channel[x]
  BY <1>3, <1>4 DEF Typed, ChannelState
<1>. QED
  BY <1>1, <1>2, <1>3, <1>5 DEF Seals

LEMMA CloseMoves ==
  ASSUME Typed, NEW r \in Role, seal_close(r)
  PROVE  \E f : Seals(r, f)
<1>. DEFINE f == frame(r, "close_notify", channel[r].send_sequence, 0)
            e == [channel EXCEPT ![r].send_sequence = channel[r].send_sequence + 1]
<1>1. f \in Frame
  BY FrameType, SMT DEF ContentType
<1>2. /\ f.role = r /\ f.generation = channel[r].generation
      /\ f.sequence = channel[r].send_sequence /\ f.type # "key_update"
  BY DEF frame
<1>3. /\ network' = network \cup {f} /\ UNCHANGED <<inbox, opened>>
      /\ channel' = [e EXCEPT ![r].closed = TRUE]
  BY DEF seal_close, send
<1>. HIDE DEF f
<1>4. channel[r] \in ChannelState /\ channel[r].send_sequence + 1 \in Nat
  BY SMT DEF Typed, ChannelState
<1>5. /\ e \in [Role -> ChannelState]
      /\ e[r].generation = channel[r].generation
      /\ e[r].send_sequence = channel[r].send_sequence + 1
      /\ e[r].receive_window = channel[r].receive_window
      /\ \A x \in Role : x # r => e[x] = channel[x]
  BY <1>4 DEF Typed, ChannelState
<1>. HIDE DEF e
<1>6. /\ channel' \in [Role -> ChannelState]
      /\ channel'[r].generation = channel[r].generation
      /\ channel'[r].send_sequence = channel[r].send_sequence + 1
      /\ channel'[r].receive_window = channel[r].receive_window
      /\ \A x \in Role : x # r => channel'[x] = channel[x]
  BY <1>3, <1>5 DEF ChannelState
<1>. QED
  BY <1>1, <1>2, <1>3, <1>6 DEF Seals

LEMMA UpdateMoves ==
  ASSUME Typed, NEW r \in Role, seal_key_update(r)
  PROVE  \E f : Seals(r, f)
<1>. DEFINE f == update_frame(r)
            e == [channel EXCEPT ![r].send_sequence = 0]
<1>1. channel[r] \in ChannelState /\ channel[r].generation + 1 \in Nat
  BY SMT DEF Typed, ChannelState
<1>2. f = frame(r, "key_update", channel[r].send_sequence, channel[r].generation + 1)
  BY DEF update_frame
<1>3. f \in Frame
  BY <1>1, <1>2, FrameType, SMT DEF ContentType
<1>4. /\ f.role = r /\ f.generation = channel[r].generation
      /\ f.sequence = channel[r].send_sequence
      /\ f.type = "key_update" /\ f.new_generation = channel[r].generation + 1
  BY <1>2 DEF frame
<1>5. /\ network' = network \cup {f} /\ UNCHANGED <<inbox, opened>>
      /\ channel' = [e EXCEPT ![r].generation = channel[r].generation + 1]
  BY DEF seal_key_update, send, Typed, ChannelState
<1>. HIDE DEF f
<1>6. /\ e \in [Role -> ChannelState]
      /\ e[r].generation = channel[r].generation
      /\ e[r].receive_window = channel[r].receive_window
      /\ \A x \in Role : x # r => e[x] = channel[x]
  BY <1>1 DEF Typed, ChannelState
<1>. HIDE DEF e
<1>7. /\ channel' \in [Role -> ChannelState]
      /\ channel'[r].generation = channel[r].generation + 1
      /\ channel'[r].receive_window = channel[r].receive_window
      /\ \A x \in Role : x # r => channel'[x] = channel[x]
  BY <1>1, <1>5, <1>6 DEF ChannelState
<1>. QED
  BY <1>3, <1>4, <1>5, <1>7 DEF Seals

\* What opening f does to the endpoints.
LEMMA OpenMoves ==
  ASSUME Typed, NEW r \in Role, NEW f \in network, open(r, f)
  PROVE  /\ channel' \in [Role -> ChannelState]
         /\ \A x \in Role : /\ channel'[x].generation = channel[x].generation
                            /\ channel'[x].send_sequence = channel[x].send_sequence
                            /\ x # r => channel'[x] = channel[x]
         /\ channel'[r].receive_window = accept(channel[r].receive_window, f.sequence)
<1>. DEFINE w == channel[r].receive_window
<1>1. channel[r] \in ChannelState /\ w \in ReplayWindow /\ f.sequence \in Nat /\ check(w, f.sequence)
  BY DEF Typed, ChannelState, Frame, open
<1>2. accept(w, f.sequence) \in ReplayWindow
  BY <1>1, AcceptType
<1>3. channel' = [channel EXCEPT ![r].receive_window = accept(w, f.sequence),
                                 ![r].closed = (f.type = "close_notify")]
  BY DEF open, window_after
<1>. DEFINE e == [channel EXCEPT ![r].receive_window = accept(w, f.sequence)]
<1>4. /\ e \in [Role -> ChannelState]
      /\ e[r].generation = channel[r].generation
      /\ e[r].send_sequence = channel[r].send_sequence
      /\ e[r].receive_window = accept(w, f.sequence)
      /\ \A x \in Role : x # r => e[x] = channel[x]
  BY <1>1, <1>2 DEF Typed, ChannelState
<1>5. channel' = [e EXCEPT ![r].closed = (f.type = "close_notify")]
  BY <1>3
<1>. HIDE DEF e
<1>6. (f.type = "close_notify") \in BOOLEAN /\ e[r] \in ChannelState
  BY <1>4
<1>. QED
  BY <1>4, <1>5, <1>6 DEF ChannelState

\* What applying a key update does to the endpoints.
LEMMA ApplyMoves ==
  ASSUME Typed, NEW r \in Role, NEW g, apply_key_update(r, g)
  PROVE  /\ channel' \in [Role -> ChannelState]
         /\ \A x \in Role : x # r => channel'[x] = channel[x]
         /\ g = channel[r].generation + 1
         /\ channel'[r].generation = channel[r].generation + 1
         /\ channel'[r].send_sequence = channel[r].send_sequence
         /\ channel'[r].receive_window = empty_window
         /\ UNCHANGED <<network, inbox, opened>>
<1>1. /\ channel' = [channel EXCEPT ![r].generation = channel[r].generation + 1,
                                    ![r].receive_window = empty_window]
      /\ g = channel[r].generation + 1
      /\ UNCHANGED <<network, inbox, opened>>
  BY DEF apply_key_update, next_generation, window_for_new_epoch
<1>2. empty_window \in ReplayWindow
  BY SMT DEF empty_window, ReplayWindow
<1>. DEFINE e == [channel EXCEPT ![r].generation = channel[r].generation + 1]
<1>3. channel[r] \in ChannelState /\ channel[r].generation + 1 \in Nat
  BY SMT DEF Typed, ChannelState
<1>4. /\ e \in [Role -> ChannelState]
      /\ e[r].generation = channel[r].generation + 1
      /\ e[r].send_sequence = channel[r].send_sequence
      /\ \A x \in Role : x # r => e[x] = channel[x]
  BY <1>3 DEF Typed, ChannelState
<1>5. channel' = [e EXCEPT ![r].receive_window = empty_window]
  BY <1>1
<1>. HIDE DEF e
<1>6. /\ channel' \in [Role -> ChannelState]
      /\ \A x \in Role : x # r => channel'[x] = channel[x]
      /\ channel'[r].generation = channel[r].generation + 1
      /\ channel'[r].send_sequence = channel[r].send_sequence
      /\ channel'[r].receive_window = empty_window
  BY <1>2, <1>4, <1>5 DEF ChannelState
<1>. QED
  BY <1>1, <1>6

\* What close does to the endpoints.
LEMMA ClosedMoves ==
  ASSUME Typed, NEW r \in Role, close(r)
  PROVE  /\ channel' \in [Role -> ChannelState]
         /\ \A x \in Role : /\ channel'[x].generation = channel[x].generation
                            /\ channel'[x].send_sequence = channel[x].send_sequence
                            /\ channel'[x].receive_window = channel[x].receive_window
         /\ UNCHANGED <<network, inbox, opened>>
<1>1. /\ channel' = [channel EXCEPT ![r].closed = TRUE]
      /\ UNCHANGED <<network, inbox, opened>>
  BY DEF close
<1>2. channel \in [Role -> ChannelState]
  BY DEF Typed
<1>. QED
  BY <1>1, <1>2 DEF ChannelState

-----------------------------------------------------------------------------
LEMMA InitInv == ChannelInit => ChannelInv
  BY FS_EmptySet, WAssumption, SMT DEF ChannelInit, ChannelInv, Typed, SealedBelow, NonceUnique, OpenedOnce,
       ChannelState, ReplayWindow, empty_window, Role

\* A frame sealed at the counter of its endpoint, which then moves past it.
LEMMA SealStep ==
  ASSUME ChannelInv, NEW r \in Role, NEW f, Seals(r, f)
  PROVE  ChannelInv'
<1>. USE DEF Seals
<1>. USE DEF ChannelInv
<1>1. Typed'
  BY FS_AddElement DEF Typed
<1>2. /\ \A x \in Role : /\ channel[x].generation \in Nat /\ channel[x].send_sequence \in Nat
                         /\ channel'[x].generation \in Nat
      /\ \A g \in network \cup {f} : g.role \in Role /\ g.generation \in Nat /\ g.sequence \in Nat
  BY DEF Typed, ChannelState, Frame
<1>3. SealedBelow'
  <2>1. ASSUME NEW g \in network'
        PROVE  /\ g.generation <= channel'[g.role].generation
               /\ g.generation = channel'[g.role].generation =>
                    g.sequence < channel'[g.role].send_sequence
    <3>1. CASE g = f
      BY <1>2, <3>1, SMT
    <3>2. CASE g \in network /\ g.role # r
      BY <1>2, <3>2 DEF SealedBelow
    <3>3. CASE g \in network /\ g.role = r
      <4>1. /\ g.generation <= channel[r].generation
            /\ g.generation = channel[r].generation => g.sequence < channel[r].send_sequence
        BY <3>3 DEF SealedBelow
      <4>. QED
        BY <1>2, <3>3, <4>1, SMT
    <3>. QED
      BY <2>1, <3>1, <3>2, <3>3
  <2>. QED
    BY <2>1 DEF SealedBelow
<1>4. NonceUnique'
  <2>1. \A g \in network : ~(g.role = r /\ g.generation = f.generation /\ g.sequence = f.sequence)
    BY <1>2, SMT DEF SealedBelow
  <2>. QED
    BY <2>1 DEF NonceUnique
<1>5. OpenedOnce'
  <2>1. ASSUME NEW x \in Role, NEW g \in DOMAIN opened[x]
        PROVE  /\ g.generation <= channel'[x].generation
               /\ g.generation = channel'[x].generation =>
                    ~check(channel'[x].receive_window, g.sequence)
    <3>1. /\ g.generation <= channel[x].generation /\ g.generation \in Nat
          /\ g.generation = channel[x].generation =>
               ~check(channel[x].receive_window, g.sequence)
      BY <2>1 DEF OpenedOnce, Frame
    <3>2. channel'[x].generation \in {channel[x].generation, channel[x].generation + 1}
      OBVIOUS
    <3>3. /\ g.generation <= channel'[x].generation
          /\ g.generation = channel'[x].generation => g.generation = channel[x].generation
      BY <1>2, <3>1, <3>2, SMT
    <3>. QED
      BY <3>1, <3>3
  <2>. QED
    BY <2>1 DEF OpenedOnce
<1>. QED
  BY <1>1, <1>3, <1>4, <1>5

LEMMA OpenStep ==
  ASSUME ChannelInv, NEW r \in Role, NEW f \in network, open(r, f)
  PROVE  ChannelInv'
<1>. USE DEF ChannelInv
<1>. DEFINE w == channel[r].receive_window
<1>1. /\ w \in ReplayWindow /\ f \in Frame /\ f.sequence \in Nat /\ f.generation \in Nat
      /\ check(w, f.sequence) /\ f.generation = channel[r].generation
      /\ network' = network
  BY DEF Typed, ChannelState, Frame, open
<1>2. /\ channel' \in [Role -> ChannelState]
      /\ \A x \in Role : /\ channel'[x].generation = channel[x].generation
                         /\ channel'[x].send_sequence = channel[x].send_sequence
                         /\ x # r => channel'[x] = channel[x]
      /\ channel'[r].receive_window = accept(w, f.sequence)
  BY OpenMoves
<1>3. f \notin DOMAIN opened[r]
  BY <1>1 DEF OpenedOnce
<1>4. /\ DOMAIN opened' = Role
      /\ DOMAIN opened'[r] = DOMAIN opened[r] \cup {f}
      /\ \A g \in DOMAIN opened[r] : opened'[r][g] = opened[r][g]
      /\ opened'[r][f] = 1
      /\ \A x \in Role \ {r} : opened'[x] = opened[x]
  BY <1>3 DEF open, Typed
<1>5. Typed'
  BY <1>1, <1>2, <1>4 DEF Typed
<1>6. \A g \in network : g.role \in Role
  BY DEF Typed, Frame
<1>7. SealedBelow' /\ NonceUnique'
  BY <1>1, <1>2, <1>6 DEF SealedBelow, NonceUnique
<1>. HIDE DEF w
<1>8. ASSUME NEW x \in Role, NEW g \in DOMAIN opened'[x]
      PROVE  /\ opened'[x][g] = 1
             /\ g \in Frame
             /\ g.generation <= channel'[x].generation
             /\ g.generation = channel'[x].generation =>
                  ~check(channel'[x].receive_window, g.sequence)
  <2>1. CASE x # r
    BY <1>2, <1>4, <1>8, <2>1 DEF OpenedOnce
  <2>2. CASE x = r /\ g = f
    <3>1. ~check(accept(w, f.sequence), f.sequence)
      BY <1>1, AcceptRemembers
    <3>2. f.generation <= channel[r].generation
      BY <1>1, SMT
    <3>. QED
      BY <1>1, <1>2, <1>4, <2>2, <3>1, <3>2
  <2>3. CASE x = r /\ g \in DOMAIN opened[r]
    <3>1. /\ opened[r][g] = 1 /\ g \in Frame /\ g.sequence \in Nat
          /\ g.generation <= channel[r].generation
          /\ g.generation = channel[r].generation => ~check(w, g.sequence)
      BY <2>3 DEF OpenedOnce, Frame, w
    <3>2. g.generation = channel[r].generation => ~check(accept(w, f.sequence), g.sequence)
      BY <1>1, <3>1, AcceptRemembers
    <3>. QED
      BY <1>2, <1>4, <2>3, <3>1, <3>2
  <2>. QED
    BY <1>4, <1>8, <2>1, <2>2, <2>3
<1>9. OpenedOnce'
  BY <1>8 DEF OpenedOnce
<1>. QED
  BY <1>5, <1>7, <1>9

LEMMA ApplyStep ==
  ASSUME ChannelInv, NEW r \in Role, NEW g \in inbox[r], apply_key_update(r, g)
  PROVE  ChannelInv'
<1>. USE DEF ChannelInv
<1>1. \A x \in Role : channel[x].generation \in Nat /\ channel[x].send_sequence \in Nat
  BY DEF Typed, ChannelState
<1>2. UNCHANGED <<network, opened>>
  BY ApplyMoves
<1>4. /\ channel' \in [Role -> ChannelState]
      /\ \A x \in Role : x # r => channel'[x] = channel[x]
      /\ channel'[r].generation = channel[r].generation + 1
      /\ channel'[r].send_sequence = channel[r].send_sequence
  BY ApplyMoves
<1>5. Typed' /\ NonceUnique'
  BY <1>2, <1>4 DEF Typed, NonceUnique
<1>6. SealedBelow'
  <2>1. ASSUME NEW f \in network
        PROVE  /\ f.generation <= channel'[f.role].generation
               /\ f.generation = channel'[f.role].generation =>
                    f.sequence < channel'[f.role].send_sequence
    <3>1. /\ f.role \in Role /\ f.generation \in Nat
          /\ f.generation <= channel[f.role].generation
          /\ f.generation = channel[f.role].generation =>
               f.sequence < channel[f.role].send_sequence
      BY <2>1 DEF Typed, Frame, SealedBelow
    <3>. QED
      BY <1>1, <1>4, <3>1, SMT
  <2>. QED
    BY <1>2, <2>1 DEF SealedBelow
<1>7. OpenedOnce'
  <2>1. ASSUME NEW x \in Role, NEW f \in DOMAIN opened[x]
        PROVE  /\ f.generation <= channel'[x].generation
               /\ f.generation = channel'[x].generation =>
                    ~check(channel'[x].receive_window, f.sequence)
    <3>1. /\ f.generation \in Nat /\ f.generation <= channel[x].generation
          /\ f.generation = channel[x].generation =>
               ~check(channel[x].receive_window, f.sequence)
      BY <2>1 DEF OpenedOnce, Frame
    <3>2. CASE x = r
      BY <1>1, <1>4, <3>1, <3>2, SMT
    <3>3. CASE x # r
      BY <1>4, <3>1, <3>3
    <3>. QED
      BY <3>2, <3>3
  <2>. QED
    BY <1>2, <2>1 DEF OpenedOnce
<1>. QED
  BY <1>5, <1>6, <1>7

\* A key update that fails spends a sequence and nothing else.
LEMMA FailedMoves ==
  ASSUME Typed, NEW r \in Role, seal_key_update_fails(r)
  PROVE  /\ channel' \in [Role -> ChannelState]
         /\ \A x \in Role : /\ channel'[x].generation = channel[x].generation
                            /\ channel'[x].send_sequence \in Nat
                            /\ channel'[x].send_sequence >= channel[x].send_sequence
                            /\ channel'[x].receive_window = channel[x].receive_window
                            /\ channel'[x].closed = channel[x].closed
         /\ UNCHANGED <<network, inbox, opened>>
<1>1. /\ channel \in [Role -> ChannelState] /\ channel[r].send_sequence + 1 \in Nat
      /\ \A x \in Role : channel[x].send_sequence \in Nat
  BY SMT DEF Typed, ChannelState
<1>2. /\ channel' = [channel EXCEPT ![r].send_sequence = channel[r].send_sequence + 1]
      /\ UNCHANGED <<network, inbox, opened>>
  BY <1>1 DEF seal_key_update_fails, ChannelState
<1>3. \A x \in Role : x # r => channel'[x] = channel[x]
  BY <1>1, <1>2
<1>4. /\ channel' \in [Role -> ChannelState]
      /\ channel'[r].generation = channel[r].generation
      /\ channel'[r].send_sequence = channel[r].send_sequence + 1
      /\ channel'[r].receive_window = channel[r].receive_window
      /\ channel'[r].closed = channel[r].closed
  BY <1>1, <1>2 DEF ChannelState
<1>5. channel[r].send_sequence + 1 >= channel[r].send_sequence
  BY <1>1, SMT
<1>6. \A x \in Role : /\ channel'[x].send_sequence \in Nat
                     /\ channel'[x].send_sequence >= channel[x].send_sequence
  BY <1>1, <1>3, <1>4, <1>5, SMT
<1>. QED
  BY <1>2, <1>3, <1>4, <1>6

LEMMA NextInv == ChannelInv /\ [ChannelNext]_cvars => ChannelInv'
<1>. SUFFICES ASSUME ChannelInv, [ChannelNext]_cvars PROVE ChannelInv'
  OBVIOUS
<1>0. Typed
  BY DEF ChannelInv
<1>1. ASSUME NEW r \in Role, seal_data(r) \/ seal_close(r) \/ seal_key_update(r) PROVE ChannelInv'
  BY <1>0, <1>1, DataMoves, CloseMoves, UpdateMoves, SealStep
<1>2. ASSUME NEW r \in Role, NEW f \in network, open(r, f) PROVE ChannelInv'
  BY <1>2, OpenStep
<1>3. ASSUME NEW r \in Role, NEW g \in inbox[r], apply_key_update(r, g) PROVE ChannelInv'
  BY <1>3, ApplyStep
<1>4. ASSUME NEW r \in Role, close(r) PROVE ChannelInv'
  <2>1. \A f \in network : f.role \in Role
    BY <1>0 DEF Typed, Frame
  <2>. QED
    BY <1>0, <1>4, <2>1, ClosedMoves DEF ChannelInv, Typed, SealedBelow, NonceUnique, OpenedOnce
<1>5. CASE UNCHANGED cvars
  BY <1>5 DEF cvars, ChannelInv, Typed, SealedBelow, NonceUnique, OpenedOnce
<1>6. ASSUME NEW r \in Role, seal_key_update_fails(r) PROVE ChannelInv'
  <2>1. /\ channel' \in [Role -> ChannelState]
        /\ \A x \in Role : /\ channel'[x].generation = channel[x].generation
                           /\ channel'[x].send_sequence \in Nat
                           /\ channel'[x].send_sequence >= channel[x].send_sequence
                           /\ channel'[x].receive_window = channel[x].receive_window
        /\ UNCHANGED <<network, inbox, opened>>
    BY <1>0, <1>6, FailedMoves
  <2>2. \A f \in network : f.role \in Role /\ f.sequence \in Nat
    BY <1>0 DEF Typed, Frame
  <2>3. \A x \in Role : channel[x].send_sequence \in Nat
    BY <1>0 DEF Typed, ChannelState
  <2>4. SealedBelow'
    BY <2>1, <2>2, <2>3 DEF ChannelInv, SealedBelow
  <2>. QED
    BY <1>0, <2>1, <2>4 DEF ChannelInv, Typed, NonceUnique, OpenedOnce
<1>. QED
  BY <1>1, <1>2, <1>3, <1>4, <1>5, <1>6 DEF ChannelNext

LEMMA InvHolds == ChannelSpec => []ChannelInv
  BY InitInv, NextInv, PTL DEF ChannelSpec

\* docs/RECORDS.md:37, for any number of frames and generations: no two frames
\* that an endpoint seals share a generation and a sequence.
THEOREM NoncesNeverRepeat == ChannelSpec => []NonceUnique
<1>1. ChannelInv => NonceUnique
  BY DEF ChannelInv
<1>. QED
  BY <1>1, InvHolds, PTL

\* For any width of the window: channel::open succeeds at most once on a frame,
\* across every reset of the window by a key update.
THEOREM FramesOpenAtMostOnce == ChannelSpec => []AtMostOnce
<1>1. ChannelInv => AtMostOnce
  BY DEF ChannelInv, OpenedOnce, AtMostOnce, Opened
<1>. QED
  BY <1>1, InvHolds, PTL

-----------------------------------------------------------------------------
\* p sealed the key update that leads into generation n.
Started(p, n) ==
  \E u \in network : u.role = p /\ u.type = "key_update" /\ u.new_generation = n

\* p started none of the generations after a, up to b: its counter goes on
\* from a to b, and the windows of its peer are not reset by it.
CountsOn(p, a, b) == \A n \in (a + 1) .. b : ~Started(p, n)

\* Every frame opened came from the peer, and its caller holds every update.
Delivered ==
  /\ inbox \in [Role -> SUBSET Nat]
  /\ \A r \in Role :
       /\ \A g \in inbox[r] : Started(peer_role(r), g)
       /\ DOMAIN opened[r] \subseteq Sealed(peer_role(r))
       /\ \A f \in DOMAIN opened[r] : f.type = "key_update" => f.new_generation \in inbox[r]

\* A key update leads to the next generation, which its sender is in already,
\* and is the last frame of its own.
UpdatesAreLast ==
  \A u \in network : u.type = "key_update" =>
    /\ u.new_generation = u.generation + 1
    /\ u.new_generation <= channel[u.role].generation
    /\ \A f \in network :
         f.role = u.role /\ f.generation = u.generation => f.sequence <= u.sequence

\* Somebody started every generation that somebody is in.
Reached ==
  \A r \in Role : \A n \in 1 .. channel[r].generation : \E p \in Role : Started(p, n)

\* While an endpoint only follows, its sequences grow from one generation to the next.
InOrder ==
  \A f \in network :
    /\ CountsOn(f.role, f.generation, channel[f.role].generation) =>
         f.sequence < channel[f.role].send_sequence
    /\ \A g \in network :
         (/\ g.role = f.role
          /\ f.generation < g.generation
          /\ CountsOn(f.role, f.generation, g.generation)) => f.sequence < g.sequence

\* What a window refuses, it refuses for a frame opened since the peer last
\* started a generation.
WindowHasReasons ==
  \A r \in Role : \A s \in Nat :
    ~check(channel[r].receive_window, s) =>
      \E f \in DOMAIN opened[r] :
        /\ CountsOn(peer_role(r), f.generation, channel[r].generation)
        /\ f.sequence = s \/ s + W <= f.sequence

OrderInv ==
  /\ Delivered
  /\ UpdatesAreLast
  /\ Reached
  /\ InOrder
  /\ ~Crossed => WindowHasReasons

LEMMA Peers ==
  ASSUME NEW r \in Role
  PROVE  /\ peer_role(r) \in Role /\ peer_role(r) # r /\ peer_role(peer_role(r)) = r
         /\ \A x \in Role : x = r \/ x = peer_role(r)
  BY DEF Role, peer_role

LEMMA NumbersTyped ==
  ASSUME Typed
  PROVE  /\ \A x \in Role : /\ channel[x].generation \in Nat /\ channel[x].send_sequence \in Nat
                            /\ channel[x].receive_window \in ReplayWindow
         /\ \A f \in network : /\ f \in Frame /\ f.role \in Role /\ f.generation \in Nat
                               /\ f.sequence \in Nat /\ f.new_generation \in Nat
  BY DEF Typed, ChannelState, Frame

\* A window that accepts a sequence refuses more only for its sake.
LEMMA AcceptAddsLittle ==
  ASSUME NEW w \in ReplayWindow, NEW s \in Nat, check(w, s), NEW a \in Nat,
         ~check(accept(w, s), a)
  PROVE  a = s \/ a + W <= s \/ ~check(w, a)
<1>1. W \in Nat \ {0}
  BY WAssumption
<1>2. CASE behind(w, s)
  <2>. DEFINE v == [w EXCEPT !.bitmap = @ \cup {delta(w, s)}]
  <2>1. /\ accept(w, s) = v /\ w.highest \in Nat
        /\ v.highest = w.highest /\ v.initialized /\ w.initialized
        /\ v.bitmap = w.bitmap \cup {delta(w, s)}
    BY <1>2, SMT DEF accept, ReplayWindow, behind
  <2>. HIDE DEF v
  <2>. QED
    BY <1>1, <2>1, SMT DEF check, outside, seen, behind, delta
<1>3. CASE ~behind(w, s) /\ ~w.initialized
  <2>1. accept(w, s) = [highest |-> s, initialized |-> TRUE, bitmap |-> {0}]
    BY <1>3 DEF accept
  <2>. QED
    BY <1>1, <2>1, SMT DEF check, outside, seen, behind, delta
<1>4. CASE ~behind(w, s) /\ w.initialized
  <2>. DEFINE n == s - w.highest
              bits == shifted(w.bitmap, n) \cup {0}
              v == [highest |-> s, initialized |-> TRUE, bitmap |-> bits]
  <2>1. /\ accept(w, s) = v /\ v.highest = s /\ v.initialized /\ v.bitmap = bits
        /\ w.highest \in Nat /\ n \in Nat \ {0} /\ w.highest + n = s
        /\ \A b \in w.bitmap : b \in Nat
    BY <1>1, <1>4, SMT DEF accept, behind, ReplayWindow, Bits
  <2>. HIDE DEF v, n
  <2>2. CASE outside(v, a)
    BY <1>1, <2>1, <2>2, SMT DEF outside, behind, delta
  <2>3. CASE seen(v, a)
    <3>1. a <= s /\ s - a \in bits
      BY <2>1, <2>3 DEF seen, behind, delta
    <3>2. CASE s - a = 0
      BY <3>1, <3>2, SMT
    <3>3. CASE s - a \in shifted(w.bitmap, n)
      <4>1. PICK b \in w.bitmap : s - a = b + n
        BY <3>3 DEF shifted
      <4>2. a <= w.highest /\ w.highest - a = b
        BY <2>1, <4>1, SMT
      <4>. QED
        BY <1>4, <4>2 DEF check, seen, behind, delta
    <3>. QED
      BY <3>1, <3>2, <3>3
  <2>. QED
    BY <2>1, <2>2, <2>3 DEF check
<1>. QED
  BY <1>2, <1>3, <1>4

LEMMA OrderInit == ChannelInit => OrderInv
<1>. SUFFICES ASSUME ChannelInit PROVE OrderInv
  OBVIOUS
<1>1. Delivered /\ UpdatesAreLast /\ InOrder
  BY DEF ChannelInit, Delivered, UpdatesAreLast, InOrder
<1>2. Reached
  BY SMT DEF ChannelInit, Reached
<1>3. WindowHasReasons
  BY SMT DEF ChannelInit, WindowHasReasons, check, outside, seen, behind, empty_window
<1>. QED
  BY <1>1, <1>2, <1>3 DEF OrderInv

\* A sealed frame starts a generation if it is an update, and no other one.
LEMMA SealStarts ==
  ASSUME Typed, NEW r \in Role, NEW f, Seals(r, f)
  PROVE  /\ \A p, n : Started(p, n) => Started(p, n)'
         /\ \A p, n : Started(p, n)' =>
              \/ Started(p, n)
              \/ p = r /\ f.type = "key_update" /\ n = channel[r].generation + 1
         /\ \A n : f.type = "key_update" /\ n = channel[r].generation + 1 => Started(r, n)'
         /\ \A p, a, b : CountsOn(p, a, b)' => CountsOn(p, a, b)
         /\ Crossed => Crossed'
<1>1. /\ network' = network \cup {f} /\ f.role = r
      /\ f.type = "key_update" => f.new_generation = channel[r].generation + 1
  BY DEF Seals
<1>2. /\ \A p, n : Started(p, n) => Started(p, n)'
      /\ \A p, n : Started(p, n)' =>
           \/ Started(p, n)
           \/ p = r /\ f.type = "key_update" /\ n = channel[r].generation + 1
      /\ \A n : f.type = "key_update" /\ n = channel[r].generation + 1 => Started(r, n)'
  BY <1>1 DEF Started
<1>3. \A p, a, b : CountsOn(p, a, b)' => CountsOn(p, a, b)
  BY <1>2 DEF CountsOn
<1>4. Crossed => Crossed'
  BY <1>1 DEF Crossed
<1>. QED
  BY <1>2, <1>3, <1>4

\* Two endpoints that start the same generation cross.
LEMMA StartedTwice ==
  ASSUME NEW p, NEW q, p # q, NEW n, Started(p, n), Started(q, n)
  PROVE  Crossed
  BY DEF Started, Crossed

LEMMA SealOrder ==
  ASSUME ChannelInv, OrderInv, NEW r \in Role, NEW f, Seals(r, f)
  PROVE  OrderInv'
<1>. DEFINE g0 == channel[r].generation
            s0 == channel[r].send_sequence
<1>1. /\ f \in Frame /\ f.role = r /\ f.generation = g0 /\ f.sequence = s0
      /\ network' = network \cup {f}
      /\ \A x \in Role : /\ channel'[x].receive_window = channel[x].receive_window
                         /\ x # r => channel'[x] = channel[x]
      /\ UNCHANGED <<inbox, opened>>
  BY DEF Seals
<1>2. \/ f.type # "key_update" /\ channel'[r].generation = g0 /\ channel'[r].send_sequence = s0 + 1
      \/ f.type = "key_update" /\ f.new_generation = g0 + 1 /\ channel'[r].generation = g0 + 1
  BY DEF Seals
<1>3. /\ g0 \in Nat /\ s0 \in Nat
      /\ \A x \in Role : channel[x].generation \in Nat /\ channel[x].send_sequence \in Nat
      /\ \A h \in network' : /\ h.role \in Role /\ h.generation \in Nat
                             /\ h.sequence \in Nat /\ h.new_generation \in Nat
  BY <1>1, NumbersTyped DEF ChannelInv, Frame
<1>4. /\ \A p, n : Started(p, n) => Started(p, n)'
      /\ \A p, n : Started(p, n)' =>
           Started(p, n) \/ (p = r /\ f.type = "key_update" /\ n = g0 + 1)
      /\ \A n : f.type = "key_update" /\ n = g0 + 1 => Started(r, n)'
      /\ \A p, a, b : CountsOn(p, a, b)' => CountsOn(p, a, b)
      /\ Crossed => Crossed'
  BY SealStarts DEF ChannelInv
<1>5. /\ \A h \in network : h.role = r =>
              (/\ h.generation <= g0
               /\ (h.generation = g0) => h.sequence < s0)
      /\ Delivered /\ UpdatesAreLast /\ Reached /\ InOrder
      /\ ~Crossed => WindowHasReasons
  BY DEF ChannelInv, SealedBelow, OrderInv
<1>. HIDE DEF g0, s0
<1>6. Delivered'
  BY <1>1, <1>4, <1>5 DEF Delivered, Sealed
<1>7. UpdatesAreLast'
  <2>1. ASSUME NEW u \in network', u.type = "key_update"
        PROVE  /\ u.new_generation = u.generation + 1
               /\ u.new_generation <= channel'[u.role].generation
    <3>1. CASE u = f
      BY <1>1, <1>2, <1>3, <2>1, <3>1, SMT
    <3>2. CASE u \in network
      <4>1. u.new_generation = u.generation + 1 /\ u.new_generation <= channel[u.role].generation
        BY <1>5, <2>1, <3>2 DEF UpdatesAreLast
      <4>2. channel[u.role].generation <= channel'[u.role].generation
        BY <1>1, <1>2, <1>3, <3>2, SMT DEF g0
      <4>3. channel'[u.role].generation \in Nat
        BY <1>1, <1>2, <1>3, <3>2, SMT DEF g0
      <4>. QED
        BY <1>3, <3>2, <4>1, <4>2, <4>3, SMT
    <3>. QED
      BY <1>1, <2>1, <3>1, <3>2
  <2>2. ASSUME NEW u \in network', u.type = "key_update", NEW h \in network',
               h.role = u.role, h.generation = u.generation
        PROVE  h.sequence <= u.sequence
    <3>1. CASE u \in network /\ h \in network
      BY <1>5, <2>2, <3>1 DEF UpdatesAreLast
    <3>2. CASE u = f
      BY <1>1, <1>3, <1>5, <2>2, <3>2, SMT
    <3>3. CASE u \in network /\ h = f
      <4>1. u.new_generation = u.generation + 1 /\ u.new_generation <= channel[u.role].generation
        BY <1>5, <2>2, <3>3 DEF UpdatesAreLast
      <4>. QED
        BY <1>1, <1>3, <2>2, <3>3, <4>1, SMT DEF g0
    <3>. QED
      BY <1>1, <2>2, <3>1, <3>2, <3>3
  <2>. QED
    BY <2>1, <2>2 DEF UpdatesAreLast
<1>8. Reached'
  <2>1. ASSUME NEW x \in Role, NEW n \in 1 .. channel'[x].generation
        PROVE  \E p \in Role : Started(p, n)'
    <3>1. CASE n \in 1 .. channel[x].generation
      BY <1>4, <1>5, <3>1 DEF Reached
    <3>2. CASE n \notin 1 .. channel[x].generation
      <4>1. x = r /\ f.type = "key_update" /\ n = g0 + 1
        BY <1>1, <1>2, <1>3, <2>1, <3>2, SMT DEF g0
      <4>. QED
        BY <1>4, <4>1
    <3>. QED
      BY <3>1, <3>2
  <2>. QED
    BY <2>1 DEF Reached
<1>9. InOrder'
  <2>1. ASSUME NEW h \in network', CountsOn(h.role, h.generation, channel[h.role].generation)',
               h.sequence >= channel'[h.role].send_sequence
        PROVE  FALSE
    <3>1. h.role \in Role /\ h.generation \in Nat /\ h.sequence \in Nat
      BY <1>3
    <3>2. CASE h.role # r
      <4>1. channel'[h.role] = channel[h.role] /\ h \in network
        BY <1>1, <3>1, <3>2
      <4>2. CountsOn(h.role, h.generation, channel[h.role].generation)
        BY <1>4, <2>1, <4>1 DEF CountsOn
      <4>3. h.sequence < channel[h.role].send_sequence
        BY <1>5, <4>1, <4>2 DEF InOrder
      <4>. QED
        BY <1>3, <2>1, <3>1, <4>1, <4>3, SMT
    <3>3. CASE h.role = r /\ f.type = "key_update"
      <4>0. channel'[r].generation = g0 + 1
        BY <1>2, <3>3
      <4>1. h.generation <= g0 /\ channel'[r].generation = g0 + 1
        <5>1. CASE h \in network
          BY <1>5, <3>3, <4>0, <5>1
        <5>2. CASE h = f
          BY <1>1, <1>3, <4>0, <5>2, SMT
        <5>. QED
          BY <1>1, <5>1, <5>2
      <4>2. g0 + 1 \in (h.generation + 1) .. channel'[r].generation
        BY <1>3, <3>1, <4>1, SMT
      <4>. QED
        BY <1>4, <2>1, <3>3, <4>2 DEF CountsOn
    <3>4. CASE h.role = r /\ f.type # "key_update"
      <4>1. channel'[r].generation = g0 /\ channel'[r].send_sequence = s0 + 1
        BY <1>2, <3>4
      <4>2. CountsOn(r, h.generation, g0)
        BY <1>4, <2>1, <3>4, <4>1 DEF CountsOn
      <4>3. h \in network => h.sequence < s0
        BY <1>5, <3>4, <4>2 DEF InOrder, g0, s0
      <4>. QED
        BY <1>1, <1>3, <2>1, <3>1, <3>4, <4>1, <4>3, SMT
    <3>. QED
      BY <3>2, <3>3, <3>4
  <2>2. ASSUME NEW h \in network', NEW g \in network', g.role = h.role,
               h.generation < g.generation, CountsOn(h.role, h.generation, g.generation)'
        PROVE  h.sequence < g.sequence
    <3>1. CountsOn(h.role, h.generation, g.generation)
      BY <1>4, <2>2
    <3>2. CASE h \in network /\ g \in network
      BY <1>5, <2>2, <3>1, <3>2 DEF InOrder
    <3>3. CASE h \in network /\ g = f
      BY <1>1, <1>5, <2>2, <3>1, <3>3 DEF InOrder, g0, s0
    <3>4. CASE h = f
      <4>1. g.role = r /\ g0 < g.generation
        BY <1>1, <2>2, <3>4
      <4>2. CASE g \in network
        BY <1>3, <1>5, <4>1, <4>2, SMT
      <4>3. CASE g = f
        BY <1>1, <1>3, <4>1, <4>3, SMT
      <4>. QED
        BY <1>1, <4>2, <4>3
    <3>. QED
      BY <1>1, <3>2, <3>3, <3>4
  <2>3. \A h \in network' : /\ h.sequence \in Nat
                            /\ channel'[h.role].send_sequence \in Nat
    BY <1>3 DEF Seals, ChannelState
  <2>4. ASSUME NEW h \in network', CountsOn(h.role, h.generation, channel[h.role].generation)'
        PROVE  h.sequence < channel'[h.role].send_sequence
    BY <2>1, <2>3, <2>4, SMT
  <2>. QED
    BY <2>2, <2>4 DEF InOrder
<1>10. ASSUME ~Crossed' PROVE WindowHasReasons'
  <2>1. ASSUME NEW x \in Role, NEW s \in Nat, ~check(channel'[x].receive_window, s)
        PROVE  \E h \in DOMAIN opened'[x] :
                 /\ CountsOn(peer_role(x), h.generation, channel[x].generation)'
                 /\ h.sequence = s \/ s + W <= h.sequence
    <3>1. PICK h \in DOMAIN opened[x] :
            /\ CountsOn(peer_role(x), h.generation, channel[x].generation)
            /\ h.sequence = s \/ s + W <= h.sequence
      BY <1>1, <1>4, <1>5, <1>10, <2>1 DEF WindowHasReasons
    <3>2. h.generation \in Nat
      BY <3>1 DEF ChannelInv, OpenedOnce, Frame
    <3>3. ASSUME NEW n \in (h.generation + 1) .. channel'[x].generation,
                 Started(peer_role(x), n)'
          PROVE  FALSE
      <4>1. CASE x = r
        <5>1. peer_role(x) # r
          BY <4>1, Peers
        <5>2. Started(peer_role(x), n)
          BY <1>4, <3>3, <5>1
        <5>3. n \notin (h.generation + 1) .. channel[x].generation
          BY <3>1, <5>2 DEF CountsOn
        <5>4. n = g0 + 1 /\ f.type = "key_update"
          BY <1>2, <1>3, <3>2, <3>3, <4>1, <5>3, SMT DEF g0
        <5>5. Started(r, n)'
          BY <1>4, <5>4
        <5>. QED
          BY <1>10, <3>3, <5>1, <5>5 DEF Started, Crossed
      <4>2. CASE x # r
        <5>1. peer_role(x) = r /\ channel'[x] = channel[x]
          BY <1>1, <4>2 DEF peer_role, Role
        <5>2. n \in (h.generation + 1) .. channel[x].generation /\ ~Started(r, n)
          BY <3>1, <3>3, <5>1 DEF CountsOn
        <5>3. f.type = "key_update" /\ n = g0 + 1
          BY <1>4, <3>3, <5>1, <5>2
        <5>4. n \in 1 .. channel[x].generation
          BY <1>3, <3>2, <5>2, SMT
        <5>5. PICK p \in Role : Started(p, n)
          BY <1>5, <5>4 DEF Reached
        <5>6. p # r
          BY <5>2, <5>5
        <5>7. Started(p, n)'
          BY <1>4, <5>5
        <5>. QED
          BY <1>10, <3>3, <5>1, <5>6, <5>7 DEF Started, Crossed
      <4>. QED
        BY <4>1, <4>2
    <3>4. CountsOn(peer_role(x), h.generation, channel[x].generation)'
      BY <3>3 DEF CountsOn
    <3>. QED
      BY <1>1, <3>1, <3>4
  <2>. QED
    BY <2>1 DEF WindowHasReasons
<1>. QED
  BY <1>6, <1>7, <1>8, <1>9, <1>10 DEF OrderInv

LEMMA OpenOrder ==
  ASSUME ChannelInv, OrderInv, NEW r \in Role, NEW f \in network, open(r, f)
  PROVE  OrderInv'
<1>. DEFINE w == channel[r].receive_window
<1>1. /\ w \in ReplayWindow /\ f \in Frame /\ f.sequence \in Nat
      /\ f.new_generation \in Nat /\ f.generation \in Nat
  BY NumbersTyped DEF ChannelInv
<1>2. /\ f.role = peer_role(r) /\ check(w, f.sequence)
      /\ f.generation = channel[r].generation
      /\ network' = network
  BY DEF open, from_peer
<1>3. /\ \A x \in Role : /\ channel'[x].generation = channel[x].generation
                         /\ channel'[x].send_sequence = channel[x].send_sequence
                         /\ x # r => channel'[x] = channel[x]
      /\ channel'[r].receive_window = accept(w, f.sequence)
  BY OpenMoves DEF ChannelInv
<1>. HIDE DEF w
<1>4. /\ DOMAIN opened'[r] = DOMAIN opened[r] \cup {f}
      /\ \A x \in Role \ {r} : opened'[x] = opened[x]
  BY DEF open, ChannelInv, Typed
<1>5. /\ \A p, n : Started(p, n)' <=> Started(p, n)
      /\ Crossed' <=> Crossed
  BY <1>2 DEF Started, Crossed
<1>6. Delivered'
  <2>. DEFINE new == IF f.type = "key_update" THEN {f.new_generation} ELSE {}
  <2>1. Delivered /\ f \in Sealed(peer_role(r))
    BY <1>2 DEF OrderInv, Sealed
  <2>2. new \subseteq Nat /\ \A g \in new : Started(peer_role(r), g)
    BY <1>1, <1>2 DEF Started
  <2>3. inbox' = [inbox EXCEPT ![r] = @ \cup new]
    BY <2>1 DEF open, Delivered
  <2>4. f.type = "key_update" => f.new_generation \in new
    OBVIOUS
  <2>. HIDE DEF new
  <2>5. /\ inbox' \in [Role -> SUBSET Nat]
        /\ inbox'[r] = inbox[r] \cup new
        /\ \A x \in Role \ {r} : inbox'[x] = inbox[x]
    BY <2>1, <2>2, <2>3 DEF Delivered
  <2>6. \A x \in Role : \A g \in inbox'[x] : Started(peer_role(x), g)'
    BY <1>5, <2>1, <2>2, <2>5 DEF Delivered
  <2>7. \A x \in Role : DOMAIN opened'[x] \subseteq Sealed(peer_role(x))'
    BY <1>2, <1>4, <2>1 DEF Delivered, Sealed
  <2>8. \A x \in Role : \A h \in DOMAIN opened'[x] :
          h.type = "key_update" => h.new_generation \in inbox'[x]
    BY <1>4, <2>1, <2>4, <2>5 DEF Delivered
  <2>. QED
    BY <2>5, <2>6, <2>7, <2>8 DEF Delivered
<1>7. UpdatesAreLast' /\ Reached' /\ InOrder'
  <2>1. \A h \in network : h.role \in Role
    BY NumbersTyped DEF ChannelInv
  <2>2. UpdatesAreLast'
    BY <1>2, <1>3, <2>1 DEF OrderInv, UpdatesAreLast
  <2>3. Reached'
    BY <1>3, <1>5 DEF OrderInv, Reached
  <2>4. InOrder'
    BY <1>2, <1>3, <1>5, <2>1 DEF OrderInv, InOrder, CountsOn
  <2>. QED
    BY <2>2, <2>3, <2>4
<1>8. ASSUME ~Crossed' PROVE WindowHasReasons'
  <2>1. WindowHasReasons
    BY <1>5, <1>8 DEF OrderInv
  <2>2. ASSUME NEW x \in Role, NEW s \in Nat, ~check(channel'[x].receive_window, s)
        PROVE  \E h \in DOMAIN opened'[x] :
                 /\ \A n \in (h.generation + 1) .. channel[x].generation : ~Started(peer_role(x), n)
                 /\ h.sequence = s \/ s + W <= h.sequence
    <3>1. CASE ~check(channel[x].receive_window, s)
      <4>1. PICK h \in DOMAIN opened[x] :
              /\ CountsOn(peer_role(x), h.generation, channel[x].generation)
              /\ h.sequence = s \/ s + W <= h.sequence
        BY <2>1, <3>1 DEF WindowHasReasons
      <4>2. h \in DOMAIN opened'[x]
        BY <1>4
      <4>. QED
        BY <4>1, <4>2 DEF CountsOn
    <3>2. CASE check(channel[x].receive_window, s)
      <4>1. x = r
        BY <1>3, <2>2, <3>2
      <4>2. ~check(accept(w, f.sequence), s) /\ check(w, s)
        BY <1>3, <2>2, <3>2, <4>1 DEF w
      <4>3. f.sequence = s \/ s + W <= f.sequence
        BY <1>1, <1>2, <4>2, AcceptAddsLittle
      <4>4. \A n \in (f.generation + 1) .. channel[x].generation : FALSE
        BY <1>1, <1>2, <4>1, SMT
      <4>5. f \in DOMAIN opened'[x]
        BY <1>4, <4>1
      <4>. QED
        BY <4>3, <4>4, <4>5
    <3>. QED
      BY <3>1, <3>2
  <2>3. ASSUME NEW x \in Role, NEW s \in Nat, ~check(channel'[x].receive_window, s)
        PROVE  \E h \in DOMAIN opened'[x] :
                 /\ CountsOn(peer_role(x), h.generation, channel[x].generation)'
                 /\ h.sequence = s \/ s + W <= h.sequence
    BY <1>3, <1>5, <2>2, <2>3 DEF CountsOn
  <2>. QED
    BY <2>3 DEF WindowHasReasons
<1>. QED
  BY <1>6, <1>7, <1>8 DEF OrderInv

LEMMA ApplyOrder ==
  ASSUME ChannelInv, OrderInv, NEW r \in Role, NEW g \in inbox[r], apply_key_update(r, g)
  PROVE  OrderInv'
<1>1. /\ \A x \in Role : x # r => channel'[x] = channel[x]
      /\ g = channel[r].generation + 1
      /\ channel'[r].generation = channel[r].generation + 1
      /\ channel'[r].send_sequence = channel[r].send_sequence
      /\ channel'[r].receive_window = empty_window
      /\ UNCHANGED <<network, inbox, opened>>
  BY ApplyMoves DEF ChannelInv
<1>2. /\ \A x \in Role : channel[x].generation \in Nat
      /\ \A f \in network : /\ f.role \in Role /\ f.generation \in Nat /\ f.sequence \in Nat
                            /\ f.new_generation \in Nat
  BY NumbersTyped DEF ChannelInv
<1>3. /\ \A p, n : Started(p, n)' <=> Started(p, n)
      /\ Crossed' <=> Crossed
  BY <1>1 DEF Started, Crossed
<1>4. Delivered'
  BY <1>1, <1>3 DEF OrderInv, Delivered, Sealed
<1>5. UpdatesAreLast'
  <2>1. ASSUME NEW u \in network, u.type = "key_update"
        PROVE  u.new_generation <= channel'[u.role].generation
    <3>1. u.new_generation <= channel[u.role].generation
      BY <2>1 DEF OrderInv, UpdatesAreLast
    <3>. QED
      BY <1>1, <1>2, <3>1, SMT
  <2>. QED
    BY <1>1, <2>1 DEF OrderInv, UpdatesAreLast
<1>6. Reached'
  <2>1. ASSUME NEW x \in Role, NEW n \in 1 .. channel'[x].generation
        PROVE  \E p \in Role : Started(p, n)
    <3>1. CASE n \in 1 .. channel[x].generation
      BY <3>1 DEF OrderInv, Reached
    <3>2. CASE n \notin 1 .. channel[x].generation
      <4>1. x = r /\ n = g
        BY <1>1, <1>2, <2>1, <3>2, SMT
      <4>. QED
        BY <4>1, Peers DEF OrderInv, Delivered
    <3>. QED
      BY <3>1, <3>2
  <2>. QED
    BY <1>3, <2>1 DEF Reached
<1>7. InOrder'
  <2>1. InOrder
    BY DEF OrderInv
  <2>2. ASSUME NEW f \in network,
               \A n \in (f.generation + 1) .. channel'[f.role].generation : ~Started(f.role, n)
        PROVE  f.sequence < channel'[f.role].send_sequence
    <3>1. \A n \in (f.generation + 1) .. channel[f.role].generation : ~Started(f.role, n)
      BY <1>1, <1>2, <2>2, SMT
    <3>2. f.sequence < channel[f.role].send_sequence
      BY <2>1, <3>1 DEF InOrder, CountsOn
    <3>. QED
      BY <1>1, <1>2, <3>2
  <2>. QED
    BY <1>1, <1>3, <2>1, <2>2 DEF InOrder, CountsOn
<1>8. ASSUME ~Crossed' PROVE WindowHasReasons'
  <2>1. WindowHasReasons
    BY <1>3, <1>8 DEF OrderInv
  <2>2. \A s \in Nat : check(empty_window, s)
    BY DEF check, outside, seen, behind, empty_window
  <2>. QED
    BY <1>1, <1>3, <2>1, <2>2 DEF WindowHasReasons, CountsOn
<1>. QED
  BY <1>4, <1>5, <1>6, <1>7, <1>8 DEF OrderInv

LEMMA OrderNext == ChannelInv /\ OrderInv /\ [ChannelNext]_cvars => OrderInv'
<1>. SUFFICES ASSUME ChannelInv, OrderInv, [ChannelNext]_cvars PROVE OrderInv'
  OBVIOUS
<1>0. Typed
  BY DEF ChannelInv
<1>1. ASSUME NEW r \in Role, seal_data(r) \/ seal_close(r) \/ seal_key_update(r) PROVE OrderInv'
  BY <1>0, <1>1, DataMoves, CloseMoves, UpdateMoves, SealOrder
<1>2. ASSUME NEW r \in Role, NEW f \in network, open(r, f) PROVE OrderInv'
  BY <1>2, OpenOrder
<1>3. ASSUME NEW r \in Role, NEW g \in inbox[r], apply_key_update(r, g) PROVE OrderInv'
  BY <1>3, ApplyOrder
<1>4. ASSUME \/ \E r \in Role : close(r)
             \/ UNCHANGED cvars
      PROVE  OrderInv'
  <2>1. /\ \A x \in Role : /\ channel'[x].generation = channel[x].generation
                           /\ channel'[x].send_sequence = channel[x].send_sequence
                           /\ channel'[x].receive_window = channel[x].receive_window
        /\ UNCHANGED <<network, inbox, opened>>
    BY <1>0, <1>4, ClosedMoves DEF cvars
  <2>2. \A f \in network : f.role \in Role
    BY <1>0, NumbersTyped
  <2>3. Delivered' /\ UpdatesAreLast'
    BY <2>1, <2>2 DEF OrderInv, Delivered, UpdatesAreLast, Sealed, Started
  <2>4. Reached' /\ InOrder'
    BY <2>1, <2>2 DEF OrderInv, Reached, InOrder, Started, CountsOn
  <2>5. ~Crossed' => WindowHasReasons'
    BY <2>1 DEF OrderInv, WindowHasReasons, Crossed, Started, CountsOn
  <2>. QED
    BY <2>3, <2>4, <2>5 DEF OrderInv
<1>5. ASSUME NEW r \in Role, seal_key_update_fails(r) PROVE OrderInv'
  <2>1. /\ \A x \in Role : /\ channel'[x].generation = channel[x].generation
                           /\ channel'[x].send_sequence \in Nat
                           /\ channel'[x].send_sequence >= channel[x].send_sequence
                           /\ channel'[x].receive_window = channel[x].receive_window
        /\ UNCHANGED <<network, inbox, opened>>
    BY <1>0, <1>5, FailedMoves
  <2>2. \A f \in network : f.role \in Role /\ f.sequence \in Nat
    BY <1>0 DEF Typed, Frame
  <2>3. Delivered' /\ UpdatesAreLast'
    BY <2>1, <2>2 DEF OrderInv, Delivered, UpdatesAreLast, Sealed, Started
  <2>4. Reached'
    BY <2>1 DEF OrderInv, Reached, Started
  <2>5. ~Crossed' => WindowHasReasons'
    BY <2>1 DEF OrderInv, WindowHasReasons, Crossed, Started, CountsOn
  <2>6. InOrder'
    <3>1. \A x \in Role : channel[x].send_sequence \in Nat
      BY <1>0 DEF Typed, ChannelState
    <3>2. \A p, a, b : CountsOn(p, a, b)' <=> CountsOn(p, a, b)
      BY <2>1 DEF CountsOn, Started
    <3>. QED
      BY <2>1, <2>2, <3>1, <3>2 DEF OrderInv, InOrder
  <2>. QED
    BY <2>3, <2>4, <2>5, <2>6 DEF OrderInv
<1>. QED
  BY <1>1, <1>2, <1>3, <1>4, <1>5 DEF ChannelNext

LEMMA OrderHolds == ChannelSpec => [](ChannelInv /\ OrderInv)
  BY InitInv, NextInv, OrderInit, OrderNext, PTL DEF ChannelSpec

\* No window refuses a fresh frame: the frame that gave it a reason would be of
\* the same generation, and then not fresh, or of an earlier one, and then below.
LEMMA FreshIsAccepted ==
  ASSUME ChannelInv, OrderInv, ~Crossed, NEW r \in Role, NEW f \in network, Fresh(r, f)
  PROVE  check(channel[r].receive_window, f.sequence)
<1>. SUFFICES ASSUME ~check(channel[r].receive_window, f.sequence) PROVE FALSE
  OBVIOUS
<1>1. /\ f.role = peer_role(r) /\ f.generation = channel[r].generation
      /\ f \notin Opened(r)
      /\ \A g \in Opened(r) : g.generation = f.generation => g.sequence < f.sequence + W
  BY DEF Fresh
<1>2. /\ W \in Nat \ {0}
      /\ \A g \in network : g.generation \in Nat /\ g.sequence \in Nat
  BY WAssumption, NumbersTyped DEF ChannelInv
<1>3. PICK g \in DOMAIN opened[r] :
        /\ CountsOn(peer_role(r), g.generation, channel[r].generation)
        /\ g.sequence = f.sequence \/ f.sequence + W <= g.sequence
  BY <1>2 DEF OrderInv, WindowHasReasons
<1>4. /\ g \in network /\ g.role = f.role /\ g.generation <= f.generation
      /\ g \in Opened(r)
  BY <1>1, <1>3 DEF ChannelInv, OpenedOnce, OrderInv, Delivered, Sealed, Opened
<1>5. CASE g.generation = f.generation
  <2>1. g.sequence = f.sequence
    BY <1>1, <1>2, <1>3, <1>4, <1>5
  <2>2. g = f
    BY <1>4, <1>5, <2>1 DEF ChannelInv, NonceUnique
  <2>. QED
    BY <1>1, <1>4, <2>2
<1>6. CASE g.generation < f.generation
  <2>1. g.sequence < f.sequence
    BY <1>1, <1>3, <1>4, <1>6 DEF OrderInv, InOrder
  <2>. QED
    BY <1>2, <1>3, <1>4, <2>1, SMT
<1>. QED
  BY <1>2, <1>4, <1>5, <1>6, SMT

\* Every frame that an endpoint opened came from its peer, and what its caller
\* holds are generations.
THEOREM ChannelTyped == ChannelSpec => []ChannelTypeOK
<1>1. ChannelInv /\ OrderInv => ChannelTypeOK
  BY DEF ChannelInv, Typed, OpenedOnce, OrderInv, Delivered, ChannelTypeOK
<1>. QED
  BY <1>1, OrderHolds, PTL

\* docs/REPLAY.md:8, for any width of the window and any number of generations:
\* unless key updates cross, channel::open accepts every record that is new and
\* not older than the window, whatever an unreset window still holds.
THEOREM FreshIsNeverRefused == ChannelSpec => []FreshAcceptedUnlessCrossed
<1>1. ChannelInv /\ OrderInv => FreshAcceptedUnlessCrossed
  BY FreshIsAccepted DEF FreshAcceptedUnlessCrossed
<1>. QED
  BY <1>1, OrderHolds, PTL

\* For any number of generations: unless key updates cross, the update that an
\* endpoint behind its peer needs was sealed, and it holds it or can open it.
THEOREM UpdatesStayUsable == ChannelSpec => []CanCatchUp
<1>1. ASSUME ChannelInv, OrderInv, ~Crossed, NEW r \in Role, NEW p \in Role, p = peer_role(r),
             channel[r].generation < channel[p].generation
      PROVE  \E f \in Sealed(p) :
               /\ f.type = "key_update" /\ f.generation = channel[r].generation
               /\ \/ f.new_generation \in inbox[r]
                  \/ check(channel[r].receive_window, f.sequence)
  <2>. DEFINE n == channel[r].generation + 1
  <2>1. /\ channel[r].generation \in Nat /\ channel[p].generation \in Nat
        /\ W \in Nat \ {0}
        /\ \A f \in network : /\ f.generation \in Nat /\ f.sequence \in Nat
                              /\ f.new_generation \in Nat
    BY <1>1, NumbersTyped, WAssumption DEF ChannelInv
  <2>2. n \in 1 .. channel[p].generation
    BY <1>1, <2>1, SMT
  <2>3. PICK q \in Role : Started(q, n)
    BY <1>1, <2>2 DEF OrderInv, Reached
  <2>4. PICK u \in network : u.role = q /\ u.type = "key_update" /\ u.new_generation = n
    BY <2>3 DEF Started
  <2>5. /\ u.new_generation = u.generation + 1
        /\ u.new_generation <= channel[u.role].generation
        /\ \A f \in network :
             f.role = u.role /\ f.generation = u.generation => f.sequence <= u.sequence
    BY <1>1, <2>4 DEF OrderInv, UpdatesAreLast
  <2>6. q = p
    BY <1>1, <2>1, <2>4, <2>5, Peers, SMT
  <2>7. u \in Sealed(p) /\ u.generation = channel[r].generation
    BY <2>1, <2>4, <2>5, <2>6, SMT DEF Sealed
  <2>8. CASE u \in DOMAIN opened[r]
    <3>1. u.new_generation \in inbox[r]
      BY <1>1, <2>4, <2>8 DEF OrderInv, Delivered
    <3>. QED
      BY <2>4, <2>7, <3>1
  <2>9. CASE u \notin DOMAIN opened[r]
    <3>1. ASSUME NEW g \in Opened(r), g.generation = u.generation
          PROVE  g.sequence < u.sequence + W
      <4>1. g \in network /\ g.role = p
        BY <1>1, <3>1 DEF OrderInv, Delivered, Opened, Sealed
      <4>2. g.sequence <= u.sequence
        BY <2>4, <2>5, <2>6, <3>1, <4>1
      <4>. QED
        BY <2>1, <4>1, <4>2, SMT
    <3>2. Fresh(r, u)
      BY <1>1, <2>4, <2>6, <2>7, <2>9, <3>1 DEF Fresh, Opened
    <3>3. check(channel[r].receive_window, u.sequence)
      BY <1>1, <3>2, FreshIsAccepted
    <3>. QED
      BY <2>4, <2>7, <3>3
  <2>. QED
    BY <2>8, <2>9
<1>2. ChannelInv /\ OrderInv => CanCatchUp
  BY <1>1, Peers DEF CanCatchUp
<1>. QED
  BY <1>2, OrderHolds, PTL

-----------------------------------------------------------------------------
\* Who sealed a close_notify is closed, and no step opens a channel again.
LastIsEnd == \A f \in network : f.type = "close_notify" => channel[f.role].closed

PromiseInv == ChannelInv /\ Delivered /\ LastIsEnd

\* The endpoint r seals f, which is new, and is over if f says so.
Submits(r, f) ==
  /\ Seals(r, f) /\ f \notin network /\ ~channel[r].closed
  /\ channel'[r].closed = (f.type = "close_notify")
  /\ \A x \in Role : x # r => channel'[x].closed = channel[x].closed

\* The counter of an endpoint is above every frame of its generation: what it
\* seals is new.
LEMMA SealedIsNew ==
  ASSUME ChannelInv, NEW r \in Role, NEW f, Seals(r, f)
  PROVE  f \notin network
<1>1. channel[r].generation \in Nat /\ channel[r].send_sequence \in Nat
  BY NumbersTyped DEF ChannelInv
<1>. QED
  BY <1>1, SMT DEF Seals, ChannelInv, SealedBelow

LEMMA SealSubmits ==
  ASSUME ChannelInv, NEW r \in Role, seal_data(r) \/ seal_close(r) \/ seal_key_update(r)
  PROVE  \E f : Submits(r, f)
<1>1. PICK f : Seals(r, f)
  BY DataMoves, CloseMoves, UpdateMoves DEF ChannelInv
<1>2. f \notin network
  BY <1>1, SealedIsNew
<1>3. \A x \in Role : x # r => channel'[x].closed = channel[x].closed
  BY <1>1 DEF Seals
<1>4. channel \in [Role -> ChannelState]
  BY DEF ChannelInv, Typed
<1>5. CASE seal_data(r)
  <2>1. f = frame(r, "data", channel[r].send_sequence, 0) /\ ~channel[r].closed
    BY <1>1, <1>2, <1>5 DEF Seals, seal_data, send, sealable
  <2>2. channel' = [channel EXCEPT ![r].send_sequence = @ + 1]
    BY <1>5 DEF seal_data
  <2>3. f.type = "data" /\ channel'[r].closed = FALSE
    BY <1>4, <2>1, <2>2 DEF frame, ChannelState
  <2>. QED
    BY <1>1, <1>2, <1>3, <2>1, <2>3 DEF Submits
<1>6. CASE seal_close(r)
  <2>1. f = frame(r, "close_notify", channel[r].send_sequence, 0) /\ ~channel[r].closed
    BY <1>1, <1>2, <1>6 DEF Seals, seal_close, send, sealable
  <2>2. channel' = [channel EXCEPT ![r].send_sequence = @ + 1, ![r].closed = TRUE]
    BY <1>6 DEF seal_close
  <2>3. f.type = "close_notify" /\ channel'[r].closed = TRUE
    BY <1>4, <2>1, <2>2 DEF frame, ChannelState
  <2>. QED
    BY <1>1, <1>2, <1>3, <2>1, <2>3 DEF Submits
<1>7. CASE seal_key_update(r)
  <2>1. f = update_frame(r) /\ ~channel[r].closed
    BY <1>1, <1>2, <1>7 DEF Seals, seal_key_update, send, sealable
  <2>2. channel' = [channel EXCEPT ![r].send_sequence = 0, ![r].generation = @ + 1]
    BY <1>7 DEF seal_key_update
  <2>3. f.type = "key_update" /\ channel'[r].closed = FALSE
    BY <1>4, <2>1, <2>2 DEF update_frame, frame, ChannelState
  <2>. QED
    BY <1>1, <1>2, <1>3, <2>1, <2>3 DEF Submits
<1>. QED
  BY <1>5, <1>6, <1>7

\* What the other steps do to the ends of the channel.
LEMMA OpenEnds ==
  ASSUME Typed, NEW r \in Role, NEW f \in network, open(r, f)
  PROVE  /\ ~channel[r].closed /\ channel'[r].closed = (f.type = "close_notify")
         /\ \A x \in Role : x # r => channel'[x].closed = channel[x].closed
         /\ UNCHANGED network
<1>1. channel \in [Role -> ChannelState] /\ (f.type = "close_notify") \in BOOLEAN
  BY DEF Typed
<1>2. channel' = [channel EXCEPT ![r].receive_window = window_after(@, f.sequence),
                                 ![r].closed = (f.type = "close_notify")]
  BY DEF open
<1>3. channel'[r].closed = (f.type = "close_notify")
  BY <1>1, <1>2 DEF ChannelState
<1>4. \A x \in Role : x # r => channel'[x].closed = channel[x].closed
  BY <1>1, <1>2
<1>. QED
  BY <1>3, <1>4 DEF open

LEMMA ApplyEnds ==
  ASSUME Typed, NEW r \in Role, NEW g, apply_key_update(r, g)
  PROVE  \A x \in Role : channel'[x].closed = channel[x].closed
<1>1. channel \in [Role -> ChannelState]
  BY DEF Typed
<1>2. channel' = [channel EXCEPT ![r].generation = g,
                                 ![r].receive_window = window_for_new_epoch(@)]
  BY DEF apply_key_update
<1>. QED
  BY <1>1, <1>2 DEF ChannelState

LEMMA CloseEnds ==
  ASSUME Typed, NEW r \in Role, close(r)
  PROVE  /\ channel'[r].closed = TRUE
         /\ \A x \in Role : x # r => channel'[x].closed = channel[x].closed
<1>1. channel \in [Role -> ChannelState]
  BY DEF Typed
<1>. QED
  BY <1>1 DEF ChannelState, close

LEMMA LastNext == PromiseInv /\ [ChannelNext]_cvars => LastIsEnd'
<1>. SUFFICES ASSUME PromiseInv, [ChannelNext]_cvars PROVE LastIsEnd'
  OBVIOUS
<1>0. Typed /\ \A f \in network : f.role \in Role
  BY NumbersTyped DEF PromiseInv, ChannelInv
<1>1. ASSUME NEW r \in Role, seal_data(r) \/ seal_close(r) \/ seal_key_update(r) PROVE LastIsEnd'
  <2>1. PICK f : Submits(r, f)
    BY <1>1, SealSubmits DEF PromiseInv
  <2>. QED
    BY <1>0, <2>1 DEF PromiseInv, LastIsEnd, Submits, Seals
<1>2. ASSUME NEW r \in Role, NEW f \in network, open(r, f) PROVE LastIsEnd'
  BY <1>0, <1>2, OpenEnds DEF PromiseInv, LastIsEnd
<1>3. ASSUME NEW r \in Role, NEW g \in inbox[r], apply_key_update(r, g) PROVE LastIsEnd'
  BY <1>0, <1>3, ApplyEnds, ApplyMoves DEF PromiseInv, LastIsEnd
<1>4. ASSUME NEW r \in Role, close(r) PROVE LastIsEnd'
  BY <1>0, <1>4, CloseEnds, ClosedMoves DEF PromiseInv, LastIsEnd
<1>5. CASE UNCHANGED cvars
  BY <1>5 DEF cvars, PromiseInv, LastIsEnd
<1>6. ASSUME NEW r \in Role, seal_key_update_fails(r) PROVE LastIsEnd'
  BY <1>0, <1>6, FailedMoves DEF PromiseInv, LastIsEnd
<1>. QED
  BY <1>1, <1>2, <1>3, <1>4, <1>5, <1>6 DEF ChannelNext

LEMMA LastHolds == ChannelSpec => []PromiseInv
<1>1. ChannelInit => LastIsEnd
  BY DEF ChannelInit, LastIsEnd
<1>2. ChannelInv /\ OrderInv /\ LastIsEnd => PromiseInv
  BY DEF PromiseInv, OrderInv
<1>. QED
  BY <1>1, <1>2, LastNext, OrderHolds, PTL DEF ChannelSpec

\* The refinement mapping, under names that the step lemmas can speak of.
promised_sent == [r \in Role |-> [f \in Sealed(r) |-> f.generation]]
promised_last == [r \in Role |-> {f \in Sealed(r) : f.type = "close_notify"}]
promised_over == [r \in Role |-> channel[r].closed]

\* Sealing is Submit.
LEMMA SubmitStep ==
  ASSUME PromiseInv, NEW r \in Role, NEW f, Submits(r, f)
  PROVE  Promise!Submit(r)
<1>1. /\ f \in Frame /\ f.role = r /\ f \notin network /\ network' = network \cup {f}
      /\ f.generation = channel[r].generation /\ UNCHANGED opened
      /\ ~channel[r].closed /\ channel'[r].closed = (f.type = "close_notify")
      /\ \A x \in Role : x # r => channel'[x].closed = channel[x].closed
      /\ channel \in [Role -> ChannelState]
  BY DEF Submits, Seals, PromiseInv, ChannelInv, Typed
<1>2. f \notin Sealed(r) /\ Sealed(r)' = Sealed(r) \cup {f}
  BY <1>1 DEF Sealed
<1>3. \A x \in Role : x # r => Sealed(x)' = Sealed(x)
  BY <1>1 DEF Sealed
<1>4. /\ f \in (DOMAIN promised_sent'[r]) \ (DOMAIN promised_sent[r])
      /\ promised_sent'[r][f] = f.generation
  BY <1>2 DEF promised_sent
<1>5. \A x \in DOMAIN promised_sent[r] : promised_sent[r][x] <= promised_sent'[r][f]
  <2>1. \A x \in Sealed(r) : x.generation <= channel[r].generation
    BY DEF PromiseInv, ChannelInv, SealedBelow, Sealed
  <2>. QED
    BY <1>1, <1>4, <2>1 DEF promised_sent
<1>6. promised_sent' = [promised_sent EXCEPT
                          ![r] = Promise!extended(@, f, promised_sent'[r][f])]
  <2>1. promised_sent'[r] = Promise!extended(promised_sent[r], f, f.generation)
    BY <1>2 DEF promised_sent, Promise!extended
  <2>2. \A x \in Role : x # r => promised_sent'[x] = promised_sent[x]
    BY <1>3 DEF promised_sent
  <2>3. /\ promised_sent' = [x \in Role |-> promised_sent'[x]]
        /\ promised_sent = [x \in Role |-> promised_sent[x]]
    BY DEF promised_sent
  <2>. QED
    BY <1>4, <2>1, <2>2, <2>3
<1>7. \/ UNCHANGED <<promised_last, promised_over>>
      \/ /\ promised_last' = [promised_last EXCEPT ![r] = {f}]
         /\ promised_over' = [promised_over EXCEPT ![r] = TRUE]
  <2>1. CASE f.type = "close_notify"
    <3>1. \A g \in Sealed(r) : g.type # "close_notify"
      BY <1>1 DEF PromiseInv, LastIsEnd, Sealed
    <3>2. promised_last'[r] = {f} /\ promised_over'[r] = TRUE
      BY <1>1, <1>2, <2>1, <3>1 DEF promised_last, promised_over
    <3>3. \A x \in Role : x # r => /\ promised_last'[x] = promised_last[x]
                                   /\ promised_over'[x] = promised_over[x]
      BY <1>1, <1>3 DEF promised_last, promised_over
    <3>4. /\ promised_last' = [promised_last EXCEPT ![r] = {f}]
          /\ promised_over' = [promised_over EXCEPT ![r] = TRUE]
      BY <3>2, <3>3 DEF promised_last, promised_over
    <3>. QED
      BY <3>4
  <2>2. CASE f.type # "close_notify"
    <3>1. UNCHANGED promised_last
      BY <1>2, <1>3, <2>2 DEF promised_last
    <3>2. \A x \in Role : channel'[x].closed = channel[x].closed
      BY <1>1, <2>2 DEF ChannelState
    <3>3. UNCHANGED promised_over
      BY <3>2 DEF promised_over
    <3>. QED
      BY <3>1, <3>3
  <2>. QED
    BY <2>1, <2>2
<1>8. ~promised_over[r]
  BY <1>1 DEF promised_over
<1>. QED
  BY <1>1, <1>4, <1>5, <1>6, <1>7, <1>8
  DEF Promise!Submit, promised_sent, promised_last, promised_over

\* Opening is Deliver.
LEMMA DeliverStep ==
  ASSUME PromiseInv, NEW r \in Role, NEW f \in network, open(r, f)
  PROVE  Promise!Deliver(r)
<1>1. Typed /\ channel[r].generation \in Nat /\ peer_role(r) \in Role /\ f \in Frame
  BY NumbersTyped, Peers DEF PromiseInv, ChannelInv
<1>2. /\ ~channel[r].closed /\ channel'[r].closed = (f.type = "close_notify")
      /\ \A x \in Role : x # r => channel'[x].closed = channel[x].closed
      /\ UNCHANGED network
  BY <1>1, OpenEnds
<1>3. /\ f \in Sealed(peer_role(r)) /\ f.generation = channel[r].generation
      /\ check(channel[r].receive_window, f.sequence)
  BY DEF open, from_peer, Sealed
<1>4. /\ f \notin DOMAIN opened[r] /\ DOMAIN opened[r] \subseteq Sealed(peer_role(r))
      /\ \A g \in DOMAIN opened[r] : g.generation <= f.generation
  BY <1>3 DEF PromiseInv, ChannelInv, OpenedOnce, Delivered
<1>5. Promise!other(r) = peer_role(r)
  BY DEF Promise!other, peer_role
<1>6. /\ f \in (DOMAIN promised_sent[peer_role(r)]) \ (DOMAIN opened[r])
      /\ \A x \in DOMAIN opened[r] :
           promised_sent[peer_role(r)][x] <= promised_sent[peer_role(r)][f]
  BY <1>1, <1>3, <1>4 DEF promised_sent
<1>7. opened' = [opened EXCEPT ![r] = Promise!extended(@, f, 1)]
  <2>1. opened' = [opened EXCEPT ![r] =
                     [g \in DOMAIN @ \cup {f} |-> IF g # f THEN @[g]
                                                  ELSE IF f \in DOMAIN @ THEN @[f] + 1 ELSE 1]]
    BY DEF open
  <2>2. [g \in DOMAIN opened[r] \cup {f} |->
           IF g # f THEN opened[r][g]
           ELSE IF f \in DOMAIN opened[r] THEN opened[r][f] + 1 ELSE 1]
        = Promise!extended(opened[r], f, 1)
    BY <1>4, Zenon DEF Promise!extended
  <2>. QED
    BY <2>1, <2>2, Zenon
<1>8. promised_over' = [promised_over EXCEPT ![r] = (f \in promised_last[peer_role(r)])]
  <2>1. promised_over'[r] = (f \in promised_last[peer_role(r)])
    BY <1>1, <1>2, <1>3 DEF promised_last, promised_over
  <2>2. \A x \in Role : x # r => promised_over'[x] = promised_over[x]
    BY <1>2 DEF promised_over
  <2>. QED
    BY <2>1, <2>2 DEF promised_over
<1>9. UNCHANGED <<promised_sent, promised_last>>
  BY <1>2 DEF promised_sent, promised_last, Sealed
<1>10. ~promised_over[r]
  BY <1>2 DEF promised_over
<1>. QED
  BY <1>5, <1>6, <1>7, <1>8, <1>9, <1>10
  DEF Promise!Deliver, promised_sent, promised_last, promised_over

\* Applying a key update changes nothing of what is promised.
LEMMA ApplyStutters ==
  ASSUME PromiseInv, NEW r \in Role, NEW g, apply_key_update(r, g)
  PROVE  UNCHANGED Promise!deliveryVars
<1>1. Typed
  BY DEF PromiseInv, ChannelInv
<1>2. UNCHANGED <<network, opened>> /\ \A x \in Role : channel'[x].closed = channel[x].closed
  BY <1>1, ApplyMoves, ApplyEnds
<1>. QED
  BY <1>2 DEF Promise!deliveryVars, Sealed

\* So does a key update that fails.
LEMMA FailStutters ==
  ASSUME PromiseInv, NEW r \in Role, seal_key_update_fails(r)
  PROVE  UNCHANGED Promise!deliveryVars
<1>1. Typed
  BY DEF PromiseInv, ChannelInv
<1>2. UNCHANGED <<network, opened>> /\ \A x \in Role : channel'[x].closed = channel[x].closed
  BY <1>1, FailedMoves
<1>. QED
  BY <1>2 DEF Promise!deliveryVars, Sealed

\* Closing is End.
LEMMA EndStep ==
  ASSUME PromiseInv, NEW r \in Role, close(r)
  PROVE  Promise!End(r)
<1>1. Typed
  BY DEF PromiseInv, ChannelInv
<1>2. UNCHANGED <<network, opened>>
  BY <1>1, ClosedMoves
<1>3. promised_over' = [promised_over EXCEPT ![r] = TRUE]
  BY <1>1, CloseEnds DEF promised_over
<1>4. UNCHANGED <<promised_sent, promised_last>>
  BY <1>2 DEF promised_sent, promised_last, Sealed
<1>. QED
  BY <1>2, <1>3, <1>4 DEF Promise!End, promised_sent, promised_last, promised_over

\* channel.cpp:67-147, for any width of the window and any number of generations
\* and frames: an endpoint opens, once and never after a frame of a later
\* generation, what its peer sealed, and nothing once it is closed.
THEOREM ChannelDelivers == ChannelSpec => ImplementsDelivery
<1>1. ChannelInit => Promise!DeliveryInit
  BY DEF ChannelInit, Promise!DeliveryInit, Promise!Side, Role, Sealed
<1>2. PromiseInv /\ [ChannelNext]_cvars => [Promise!DeliveryNext]_(Promise!deliveryVars)
  <2>. SUFFICES ASSUME PromiseInv, [ChannelNext]_cvars
                PROVE  [Promise!DeliveryNext]_(Promise!deliveryVars)
    OBVIOUS
  <2>0. Role = Promise!Side
    BY DEF Role, Promise!Side
  <2>1. ASSUME NEW r \in Role, seal_data(r) \/ seal_close(r) \/ seal_key_update(r)
        PROVE  Promise!DeliveryNext
    <3>1. \E f : Submits(r, f)
      BY <2>1, SealSubmits DEF PromiseInv
    <3>2. Promise!Submit(r)
      BY <3>1, SubmitStep
    <3>. QED
      BY <2>0, <3>2 DEF Promise!DeliveryNext
  <2>2. ASSUME NEW r \in Role, NEW f \in network, open(r, f) PROVE Promise!DeliveryNext
    BY <2>0, <2>2, DeliverStep DEF Promise!DeliveryNext
  <2>3. ASSUME NEW r \in Role, NEW g \in inbox[r], apply_key_update(r, g)
        PROVE  UNCHANGED Promise!deliveryVars
    BY <2>3, ApplyStutters
  <2>4. ASSUME NEW r \in Role, close(r) PROVE Promise!DeliveryNext
    BY <2>0, <2>4, EndStep DEF Promise!DeliveryNext
  <2>5. CASE UNCHANGED cvars
    BY <2>5 DEF cvars, Promise!deliveryVars, Sealed
  <2>6. ASSUME NEW r \in Role, seal_key_update_fails(r) PROVE UNCHANGED Promise!deliveryVars
    BY <2>6, FailStutters
  <2>. QED
    BY <2>1, <2>2, <2>3, <2>4, <2>5, <2>6 DEF ChannelNext
<1>. QED
  BY <1>1, <1>2, LastHolds, PTL DEF ChannelSpec, ImplementsDelivery, Promise!DeliverySpec
=============================================================================
