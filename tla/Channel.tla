------------------------------ MODULE Channel ------------------------------
(***************************************************************************)
(* Two endpoints of the secure channel (src/protocol/channel.cpp, over  *)
(* record.cpp, replay.cpp and the key schedule of session.cpp) and a        *)
(* network that may lose, repeat, delay and reorder what they seal.         *)
(*                                                                         *)
(* Abstracted: update_keys derives the material of both directions from the *)
(* exporter secret, the hello, the generation and the context, which both   *)
(* endpoints share: a generation names its material.  A frame decrypts      *)
(* exactly under the generation, role and sequence it was sealed with, and  *)
(* a key-update tag verifies exactly under the material it was made with.   *)
(***************************************************************************)
EXTENDS Replay, FiniteSets

CONSTANTS
  MaxSequence,     \* record::kMaxSequence, the last sequence of a generation
  MaxGeneration,   \* the last generation, 2^64 - 1
  MaxFrames        \* bound: frames that an endpoint seals

ASSUME ChannelAssumption == {MaxSequence, MaxGeneration, MaxFrames} \subseteq Nat

Role == {"client", "server"}
peer_role(r) == IF r = "client" THEN "server" ELSE "client"

ContentType == {"data", "key_update", "close_notify"}

\* An encoded frame.  serial identifies the plaintext: no two are equal.
\* new_generation is what a key-update payload carries, 0 in other frames.
Frame ==
  [role : Role, type : ContentType, generation : Nat, sequence : Nat,
   serial : Nat, new_generation : Nat]

ChannelState ==
  [send_sequence : Nat, generation : Nat, receive_window : ReplayWindow, closed : BOOLEAN]

VARIABLES
  channel,   \* the ChannelState of each endpoint
  network,   \* every frame handed out: any of them may arrive, any number of times
  inbox,     \* key-update records that an endpoint opened and its caller holds
  opened     \* history variable: how often each endpoint opened each frame

cvars == <<channel, network, inbox, opened>>

-----------------------------------------------------------------------------
Sealed(r) == {f \in network : f.role = r}
Opened(r) == {f \in DOMAIN opened[r] : opened[r][f] > 0}

\* channel::seal: a frame of this type under the current material and sequence.
sealable(c) == ~c.closed /\ c.send_sequence <= MaxSequence

frame(r, type, sequence, new_generation) ==
  [role |-> r, type |-> type, generation |-> channel[r].generation, sequence |-> sequence,
   serial |-> Cardinality(Sealed(r)), new_generation |-> new_generation]

send(f) == network' = network \cup {f}

ChannelInit ==
  /\ channel = [r \in Role |-> [send_sequence |-> 0, generation |-> 0,
                                receive_window |-> empty_window, closed |-> FALSE]]
  /\ network = {}
  /\ inbox = [r \in Role |-> {}]
  /\ opened = [r \in Role |-> << >>]

\* seal_data, and seal_alert with any code but close_notify.
seal_data(r) ==
  /\ sealable(channel[r])
  /\ Cardinality(Sealed(r)) < MaxFrames
  /\ send(frame(r, "data", channel[r].send_sequence, 0))
  /\ channel' = [channel EXCEPT ![r].send_sequence = @ + 1]
  /\ UNCHANGED <<inbox, opened>>

\* seal_alert with close_notify
seal_close(r) ==
  /\ sealable(channel[r])
  /\ Cardinality(Sealed(r)) < MaxFrames
  /\ send(frame(r, "close_notify", channel[r].send_sequence, 0))
  /\ channel' = [channel EXCEPT ![r].send_sequence = @ + 1, ![r].closed = TRUE]
  /\ UNCHANGED <<inbox, opened>>

\* Mutant: the counter is reset before the update record is sealed.
update_frame_after_reset(r) == frame(r, "key_update", 0, channel[r].generation + 1)
update_frame(r) == frame(r, "key_update", channel[r].send_sequence, channel[r].generation + 1)

\* The record is sealed under the old material; then both directions move to the
\* next generation.  The receive window is left as it is.
seal_key_update(r) ==
  /\ sealable(channel[r])
  /\ channel[r].generation < MaxGeneration
  /\ Cardinality(Sealed(r)) < MaxFrames
  /\ send(update_frame(r))
  /\ channel' = [channel EXCEPT ![r].send_sequence = 0, ![r].generation = @ + 1]
  /\ UNCHANGED <<inbox, opened>>

\* update_keys fails once the record is sealed, as it does for an exporter secret of
\* another size than 32: the caller gets the error and no frame, and the sequence is spent.
seal_key_update_fails(r) ==
  /\ sealable(channel[r])
  /\ channel[r].generation < MaxGeneration
  /\ channel' = [channel EXCEPT ![r].send_sequence = @ + 1]
  /\ UNCHANGED <<network, inbox, opened>>

\* Mutant: the window is consulted but the sequence is not recorded.
window_after_unrecorded(w, sequence) == w
window_after(w, sequence) == accept(w, sequence)

\* Mutant: the role is not checked.  record::open takes the material of the role
\* in the header, so an endpoint opens its own frames too.
from_peer_or_self(r, f) == f.role \in Role
from_peer(r, f) == f.role = peer_role(r)

\* channel::open: every other outcome is an error that changes nothing.
open(r, f) ==
  /\ ~channel[r].closed
  /\ from_peer(r, f)
  /\ check(channel[r].receive_window, f.sequence)
  /\ f.generation = channel[r].generation
  /\ channel' = [channel EXCEPT
                   ![r].receive_window = window_after(@, f.sequence),
                   ![r].closed = (f.type = "close_notify")]
  /\ inbox' = IF f.type = "key_update"
                THEN [inbox EXCEPT ![r] = @ \cup {f.new_generation}] ELSE inbox
  /\ opened' = [opened EXCEPT ![r] =
                  [g \in DOMAIN @ \cup {f} |-> IF g # f THEN @[g]
                                               ELSE IF f \in DOMAIN @ THEN @[f] + 1 ELSE 1]]
  /\ UNCHANGED network

\* Mutant: the window of the old epoch is kept.
window_for_new_epoch_kept(w) == w
window_for_new_epoch(w) == empty_window
next_generation(c, g) == g = c.generation + 1

\* apply_key_update: the generation must be the next one, which makes the tag
\* verify.  The send sequence goes on, and closed is not looked at.
apply_key_update(r, g) ==
  /\ next_generation(channel[r], g)
  /\ channel' = [channel EXCEPT ![r].generation = g,
                                ![r].receive_window = window_for_new_epoch(@)]
  /\ UNCHANGED <<network, inbox, opened>>

close(r) ==
  /\ channel' = [channel EXCEPT ![r].closed = TRUE]
  /\ UNCHANGED <<network, inbox, opened>>

ChannelNext ==
  \E r \in Role :
    \/ seal_data(r)
    \/ seal_close(r)
    \/ seal_key_update(r)
    \/ seal_key_update_fails(r)
    \/ \E f \in network : open(r, f)
    \/ \E g \in inbox[r] : apply_key_update(r, g)
    \/ close(r)

ChannelSpec == ChannelInit /\ [][ChannelNext]_cvars

-----------------------------------------------------------------------------
\* Types, and every frame opened or pending came from the network.
ChannelTypeOK ==
  /\ channel \in [Role -> ChannelState]
  /\ network \subseteq Frame
  /\ inbox \in [Role -> SUBSET Nat]
  /\ \A r \in Role : /\ DOMAIN opened[r] \subseteq Sealed(peer_role(r))
                     /\ \A f \in DOMAIN opened[r] : opened[r][f] \in Nat \ {0}

\* docs/RECORDS.md:37: a sequence never repeats for a write key, through any mix
\* of own updates, updates of the peer and alerts.
NonceUnique ==
  \A f, g \in network :
    f.role = g.role /\ f.generation = g.generation /\ f.sequence = g.sequence => f = g

\* A frame is opened at most once, however often the network delivers it and
\* however many key updates reset the window in between.  ImplementsDelivery says it
\* of every step; here it is for the proofs.
AtMostOnce == \A r \in Role : \A f \in Opened(r) : opened[r][f] = 1

\* Two key updates cross when both endpoints start the same generation.
Crossed ==
  \E f, g \in network : /\ f.type = "key_update" /\ g.type = "key_update"
                        /\ f.role # g.role
                        /\ f.new_generation = g.new_generation

\* A frame that r could open but for its window: under its material, not opened
\* yet, and not W or more below one of its generation that was.
Fresh(r, f) ==
  /\ f.role = peer_role(r)
  /\ f.generation = channel[r].generation
  /\ f \notin Opened(r)
  /\ \A g \in Opened(r) : g.generation = f.generation => g.sequence < f.sequence + W

\* docs/REPLAY.md:8 (unseen out-of-order records inside the window are accepted),
\* as long as key updates do not cross: the window never refuses a fresh record,
\* also when it still holds sequences of the generation before.
FreshAcceptedUnlessCrossed ==
  ~Crossed => \A r \in Role, f \in network :
                Fresh(r, f) => check(channel[r].receive_window, f.sequence)

\* An endpoint that is behind its peer can be brought forward by what is in the
\* network: the update that leads out of its generation was sealed, and it is
\* either held by the caller or still acceptable.
CanCatchUp ==
  ~Crossed => \A r \in Role :
    LET p == peer_role(r)
    IN channel[r].generation < channel[p].generation =>
         \E f \in Sealed(p) :
           /\ f.type = "key_update" /\ f.generation = channel[r].generation
           /\ \/ f.new_generation \in inbox[r]
              \/ check(channel[r].receive_window, f.sequence)

-----------------------------------------------------------------------------
Promise == INSTANCE Delivery WITH
  sent <- [r \in Role |-> [f \in Sealed(r) |-> f.generation]],
  delivered <- opened,
  last <- [r \in Role |-> {f \in Sealed(r) : f.type = "close_notify"}],
  over <- [r \in Role |-> channel[r].closed]

\* channel.cpp:67-147: through any key updates, what an endpoint opens is, once and
\* in the order of generations, what its peer sealed, and a close_notify is its end.
ImplementsDelivery == Promise!DeliverySpec

-----------------------------------------------------------------------------
\* docs/REPLAY.md:8 and docs/REKEY.md:20 without the exception: a record that is
\* new in its epoch and inside the window is never refused as a replay.
FreshAccepted ==
  \A r \in Role, f \in network :
    Fresh(r, f) => check(channel[r].receive_window, f.sequence)

=============================================================================
