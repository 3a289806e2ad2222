------------------------ MODULE EncodeRuntimeProofs ------------------------
(* The encode runtime's theorems, for any number of contexts, surfaces and *)
(* coded buffers, any window of pictures in flight, both session modes and *)
(* any failures of the broker.                                             *)
EXTENDS EncodeRuntime, FiniteSetTheorems, WellFoundedInduction, TLAPS

ContextEntries ==
    [used : BOOLEAN, active : BOOLEAN, target : Surfaces \cup {None},
     coded : Buffers \cup {None}, rate : Rates \cup {None}, pending : Nat,
     open : BOOLEAN, framed : BOOLEAN, opened : Rates \cup {None}]

SurfaceEntries ==
    [used : BOOLEAN, state : {"idle", "pending", "ready", "error"},
     owner : Contexts \cup {None}, coded : Buffers \cup {None}, frame : Nat,
     registered : BOOLEAN, fence : BOOLEAN, exported : BOOLEAN,
     route : {"linear", "direct", "repack"}]

BufferEntries ==
    [used : BOOLEAN, mapped : BOOLEAN, owner : Contexts \cup {None},
     pending : Surfaces \cup {None}, output : [frame : Nat, stamp : Nat]]

Sessions ==
    [queue : Seq(Nat), eos : BOOLEAN, ended : BOOLEAN, regs : SUBSET Surfaces,
     lost : BOOLEAN]

Calls ==
    [op : {"none", "sync", "drain", "abandon", "close"},
     context : Contexts \cup {None}, surface : Surfaces \cup {None},
     buffer : Buffers \cup {None}, export : BOOLEAN, poll : BOOLEAN]

Types ==
    /\ contexts \in [Contexts -> ContextEntries]
    /\ surfaces \in [Surfaces -> SurfaceEntries]
    /\ buffers \in [Buffers -> BufferEntries]
    /\ broker \in [Contexts -> Sessions]
    /\ call \in Calls
    /\ frames \in Nat
    /\ frame_session \in BOOLEAN

(* A slot that is not in use holds nothing.                                *)
FreeSlots ==
    /\ \A c \in Contexts : ~contexts[c].used => ~contexts[c].active /\ ~contexts[c].open
    /\ \A s \in Surfaces : ~surfaces[s].used =>
          surfaces[s].owner = None /\ surfaces[s].state = "idle"
    /\ \A b \in Buffers : ~buffers[b].used => buffers[b].pending = None

(* A pending surface has the owner of the buffer that waits for it, and is *)
(* not the surface of its owner's next picture.                            *)
PendingShape ==
    /\ \A s \in Surfaces : surfaces[s].state = "pending" =>
          /\ surfaces[s].owner # None
          /\ surfaces[s].coded # None
          /\ buffers[surfaces[s].coded].owner = surfaces[s].owner
    /\ \A c \in Contexts : contexts[c].active =>
          /\ contexts[c].target # None
          /\ surfaces[contexts[c].target].owner = c
                => surfaces[contexts[c].target].state # "pending"

(* A call in its loop has a context, and one that closes it has nothing    *)
(* pending any more.                                                       *)
CallShape ==
    /\ call.op # "none" => call.context # None
    /\ call.op = "sync" => call.surface # None
    /\ call.op = "close" => contexts[call.context].pending = 0

(* Every picture has a number of its own, given out in order.              *)
FramesGiven ==
    /\ \A s \in Surfaces : surfaces[s].frame <= frames
    /\ \A c \in Contexts : \A i \in 1..Len(broker[c].queue) : broker[c].queue[i] <= frames
    /\ \A s, t \in Surfaces :
          /\ surfaces[s].state = "pending" /\ surfaces[t].state = "pending"
          /\ surfaces[s].frame = surfaces[t].frame
          => s = t

(* Unless a failure parted them, the frames in a session are those of the  *)
(* pending pictures, oldest first.                                         *)
Increasing(q) == \A i, j \in 1..Len(q) : i < j => q[i] < q[j]

Matches(c, q) ==
    /\ Increasing(q)
    /\ \A i \in 1..Len(q) : \E s \in Pending(c) : surfaces[s].frame = q[i]
    /\ \A s \in Pending(c) : \E i \in 1..Len(q) : surfaces[s].frame = q[i]

Matched(c) == Matches(c, broker[c].queue)

InOrder ==
    \A c \in Contexts :
        contexts[c].open /\ ~broker[c].lost /\ ~(call.op = "close" /\ call.context = c)
            => Matched(c)

Inv == /\ Types /\ FreeSlots /\ PendingShape /\ CallShape /\ FramesGiven /\ InOrder
       /\ PendingCounted /\ BufferAwaitsItsSurface /\ RegistrationLive
       /\ ReleasedBeforeReuse
-----------------------------------------------------------------------------
(* What the model's operators return                                       *)

(* A context's pending surfaces are a finite set.                          *)
LEMMA PendingFinite ==
    ASSUME NEW c
    PROVE  /\ IsFiniteSet(Pending(c))
           /\ Cardinality(Pending(c)) \in Nat
           /\ Cardinality(Pending(c)) = 0 <=> Pending(c) = {}
<1>1. Pending(c) \in SUBSET Surfaces
  BY Zenon DEF Pending, Owned
<1>2. IsFiniteSet(Pending(c))
  BY <1>1, SlotAssumption, FS_Subset, Zenon
<1> QED
  BY <1>2, FS_CardinalityType, FS_EmptySet, Zenon

(* find_oldest_pending_surface returns a pending surface of the context,   *)
(* and none of them has an older picture.                                  *)
LEMMA OldestIs ==
    ASSUME Types, NEW c \in Contexts, Pending(c) # {}
    PROVE  /\ find_oldest_pending_surface(c) \in Pending(c)
           /\ \A t \in Pending(c) :
                 surfaces[find_oldest_pending_surface(c)].frame <= surfaces[t].frame
<1> DEFINE F == {surfaces[s].frame : s \in Pending(c)}
<1>1. \A s \in Pending(c) : surfaces[s].frame \in Nat
  BY Zenon DEF Types, SurfaceEntries, Pending, Owned
<1>2. F \subseteq Nat /\ F # {}
  BY <1>1, Zenon
<1>3. PICK f \in F : \A g \in F : ~(<<g, f>> \in OpToRel(<, Nat))
  <2> HIDE DEF F
  <2> QED
    BY <1>2, WFMin, NatLessThanWellFounded, Zenon
<1>4. \A g \in F : ~(g < f)
  BY <1>2, <1>3, Zenon DEF OpToRel
<1>5. \A g \in F : f <= g
  <2> HIDE DEF F
  <2> QED
    BY <1>2, <1>4
<1>6. PICK s \in Pending(c) : surfaces[s].frame = f
  BY Zenon
<1>7. \A t \in Pending(c) : surfaces[s].frame <= surfaces[t].frame
  BY <1>5, <1>6, Zenon
<1> QED
  BY <1>7, Zenon DEF find_oldest_pending_surface

(* Free slots are entries of their tables.                                 *)
LEMMA FreeEntries ==
    /\ FreeContext \in ContextEntries /\ FreeSurface \in SurfaceEntries
    /\ FreeBuffer \in BufferEntries
<1>1. FreeContext \in ContextEntries
  BY Zenon DEF FreeContext, ContextEntries
<1>2. FreeSurface \in SurfaceEntries
  BY Zenon DEF FreeSurface, SurfaceEntries
<1>3. FreeBuffer \in BufferEntries
  BY Zenon DEF FreeBuffer, BufferEntries, NoOutput
<1> QED
  BY <1>1, <1>2, <1>3, Zenon

(* prepare_encode_input returns the surface as it is, or one that lost its *)
(* registration and its fence.                                             *)
LEMMA PreparedIs ==
    ASSUME NEW r \in SurfaceEntries, NEW p \in prepare_encode_input(r)
    PROVE  /\ p \in SurfaceEntries
           /\ p.used = r.used /\ p.state = r.state /\ p.owner = r.owner
           /\ p.coded = r.coded /\ p.frame = r.frame /\ p.exported = r.exported
           /\ p.registered => r.registered
           /\ p.fence => r.fence
<1> DEFINE q == [r EXCEPT !.registered = FALSE, !.fence = FALSE]
<1>1. p = r \/ p = q
  BY Zenon DEF prepare_encode_input
<1>2. q \in SurfaceEntries
  BY Zenon DEF SurfaceEntries
<1>3. /\ q.used = r.used /\ q.state = r.state /\ q.owner = r.owner
      /\ q.coded = r.coded /\ q.frame = r.frame /\ q.exported = r.exported
      /\ ~q.registered /\ ~q.fence
  BY Zenon DEF SurfaceEntries
<1> HIDE DEF q
<1> QED
  BY <1>1, <1>2, <1>3, Zenon

(* The session a picture finds: the open one, or a new one.                *)
LEMMA SessionIs ==
    ASSUME Types, NEW c \in Contexts
    PROVE  /\ Session(c) \in Sessions
           /\ contexts[c].open => Session(c) = broker[c]
           /\ ~contexts[c].open => Session(c) = NewSession
           /\ NewSession \in Sessions
           /\ NewSession.queue = <<>> /\ NewSession.regs = {} /\ ~NewSession.lost
<1>1. NewSession \in Sessions
  BY DEF NewSession, Sessions
<1>2. NewSession.queue = <<>> /\ NewSession.regs = {} /\ ~NewSession.lost
  BY Zenon DEF NewSession
<1>3. broker[c] \in Sessions
  BY Zenon DEF Types
<1> QED
  BY <1>1, <1>2, <1>3, Zenon DEF Session

(* The context a picture leaves behind once it has an open session.        *)
LEMMA DoneIs ==
    ASSUME NEW r \in ContextEntries
    PROVE  /\ Done(r) \in ContextEntries
           /\ Done(r).used = r.used /\ ~Done(r).active /\ Done(r).target = None
           /\ Done(r).pending = r.pending /\ Done(r).open = r.open
<1>1. Done(r) \in ContextEntries
  BY Zenon DEF Done, ContextEntries
<1>2. /\ Done(r).used = r.used /\ ~Done(r).active /\ Done(r).target = None
      /\ Done(r).pending = r.pending /\ Done(r).open = r.open
  BY Zenon DEF Done, ContextEntries
<1> QED
  BY <1>1, <1>2, Zenon

LEMMA OpenedIs ==
    ASSUME Types, NEW c \in Contexts
    PROVE  /\ Opened(c) \in ContextEntries
           /\ Opened(c).used = contexts[c].used
           /\ Opened(c).pending = contexts[c].pending
           /\ Opened(c).open
<1>1. contexts[c] \in ContextEntries /\ frame_session \in BOOLEAN
  BY Zenon DEF Types
<1> DEFINE q == [contexts[c] EXCEPT !.open = TRUE, !.framed = frame_session,
                                    !.opened = contexts[c].rate]
<1>2. q \in ContextEntries
  BY <1>1, Zenon DEF ContextEntries
<1>3. q.used = contexts[c].used /\ q.pending = contexts[c].pending /\ q.open
  BY <1>1, Zenon DEF ContextEntries
<1> QED
  BY <1>1, <1>2, <1>3, Zenon DEF Opened
-----------------------------------------------------------------------------
(* Steps that leave what the invariant speaks of alone, or change one slot *)

SameContext(c) ==
    /\ contexts'[c].used = contexts[c].used /\ contexts'[c].active = contexts[c].active
    /\ contexts'[c].target = contexts[c].target
    /\ contexts'[c].pending = contexts[c].pending /\ contexts'[c].open = contexts[c].open

SameSurface(s) ==
    /\ surfaces'[s].used = surfaces[s].used /\ surfaces'[s].owner = surfaces[s].owner
    /\ surfaces'[s].state = surfaces[s].state /\ surfaces'[s].coded = surfaces[s].coded
    /\ surfaces'[s].frame = surfaces[s].frame
    /\ surfaces'[s].registered = surfaces[s].registered
    /\ surfaces'[s].fence = surfaces[s].fence

SameBuffer(b) ==
    /\ buffers'[b].used = buffers[b].used /\ buffers'[b].owner = buffers[b].owner
    /\ buffers'[b].pending = buffers[b].pending

SameSession(c) ==
    /\ broker'[c].queue = broker[c].queue /\ broker'[c].regs = broker[c].regs
    /\ broker'[c].lost = broker[c].lost

LEMMA PendingKept ==
    ASSUME \A s \in Surfaces :
              /\ surfaces'[s].used = surfaces[s].used
              /\ surfaces'[s].owner = surfaces[s].owner
              /\ surfaces'[s].state = surfaces[s].state
    PROVE  \A c : Pending(c)' = Pending(c)
BY Zenon DEF Pending, Owned

LEMMA MatchedKept ==
    ASSUME NEW c \in Contexts, Matched(c), Pending(c)' = Pending(c),
           broker'[c].queue = broker[c].queue,
           \A s \in Pending(c) : surfaces'[s].frame = surfaces[s].frame
    PROVE  Matched(c)'
BY DEF Matched, Matches, Increasing

(* The invariant does not depend on what is mapped, exported, named for    *)
(* the next picture or signalled to the encoder.                           *)
LEMMA NothingMoves ==
    ASSUME Inv, Types', CallShape', frames' = frames,
           \A c \in Contexts : SameContext(c),
           \A s \in Surfaces : SameSurface(s),
           \A b \in Buffers : SameBuffer(b),
           \A c \in Contexts : SameSession(c),
           call.op # "close" \/ call' = call
    PROVE  Inv'
<1>1. \A c : Pending(c)' = Pending(c)
  BY PendingKept, Zenon DEF SameSurface
<1>2. FreeSlots'
  BY Zenon DEF Inv, FreeSlots, SameContext, SameSurface, SameBuffer
<1>3. PendingShape'
  <2>1. ASSUME NEW s \in Surfaces, surfaces'[s].state = "pending"
        PROVE  /\ surfaces'[s].owner # None /\ surfaces'[s].coded # None
               /\ buffers'[surfaces'[s].coded].owner = surfaces'[s].owner
    <3>1. surfaces[s].coded \in Buffers \cup {None}
      BY Zenon DEF Inv, Types, SurfaceEntries
    <3> QED
      BY <2>1, <3>1 DEF Inv, PendingShape, SameSurface, SameBuffer
  <2>2. ASSUME NEW c \in Contexts, contexts'[c].active
        PROVE  /\ contexts'[c].target # None
               /\ surfaces'[contexts'[c].target].owner = c
                     => surfaces'[contexts'[c].target].state # "pending"
    <3>1. contexts[c].target \in Surfaces \cup {None}
      BY Zenon DEF Inv, Types, ContextEntries
    <3> QED
      BY <2>2, <3>1 DEF Inv, PendingShape, SameSurface, SameContext
  <2> QED
    BY <2>1, <2>2, Zenon DEF PendingShape
<1>4. FramesGiven'
  BY DEF Inv, FramesGiven, SameSurface, SameSession
<1>5. InOrder'
  <2>1. \A c : \A s \in Pending(c) : surfaces'[s].frame = surfaces[s].frame
    BY Zenon DEF Pending, Owned, SameSurface
  <2>2. \A c \in Contexts : broker'[c].queue = broker[c].queue
    BY Zenon DEF SameSession
  <2>3. \A c \in Contexts : Matched(c) => Matched(c)'
    BY <1>1, <2>1, <2>2, MatchedKept, Zenon
  <2> QED
    BY <2>3, Zenon DEF Inv, InOrder, SameSession, SameContext
<1>6. PendingCounted'
  BY <1>1, Zenon DEF Inv, PendingCounted, SameContext
<1>7. BufferAwaitsItsSurface'
  BY DEF Inv, BufferAwaitsItsSurface, SameSurface, SameBuffer
<1>8. RegistrationLive'
  <2>1. \A s \in Surfaces : surfaces[s].owner \in Contexts \cup {None}
    BY Zenon DEF Inv, Types, SurfaceEntries
  <2> QED
    BY <2>1 DEF Inv, RegistrationLive, SameSurface, SameSession, SameContext
<1>9. ReleasedBeforeReuse'
  BY Zenon DEF Inv, ReleasedBeforeReuse, SameSurface
<1> QED
  BY <1>2, <1>3, <1>4, <1>5, <1>6, <1>7, <1>8, <1>9, Zenon DEF Inv
(* One context changes: it is made, or its picture is given up.            *)
LEMMA ContextChanges ==
    ASSUME Inv, Types', UNCHANGED <<surfaces, buffers, broker, call, frames>>,
           NEW c \in Contexts,
           \A d \in Contexts \ {c} : contexts'[d] = contexts[d],
           contexts'[c].used, ~contexts'[c].active,
           contexts'[c].pending = contexts[c].pending,
           contexts'[c].open = contexts[c].open
    PROVE  Inv'
<1>1. /\ surfaces' = surfaces /\ buffers' = buffers /\ broker' = broker
      /\ call' = call /\ frames' = frames
  BY Zenon
<1>2. \A d : Pending(d)' = Pending(d)
  BY <1>1, Zenon DEF Pending, Owned
<1>3. FreeSlots'
  BY <1>1, Zenon DEF Inv, FreeSlots
<1>4. PendingShape'
  BY <1>1, Zenon DEF Inv, PendingShape
<1>5. CallShape'
  <2>1. call.context \in Contexts \cup {None}
    BY Zenon DEF Inv, Types, Calls
  <2> QED
    BY <1>1, <2>1, Zenon DEF Inv, CallShape
<1>6. FramesGiven'
  BY <1>1 DEF Inv, FramesGiven
<1>7. InOrder'
  <2>1. \A d \in Contexts : Matched(d) => Matched(d)'
    BY <1>1, <1>2, MatchedKept, Zenon
  <2>2. \A d \in Contexts : contexts'[d].open = contexts[d].open
    BY Zenon
  <2> QED
    BY <1>1, <2>1, <2>2, Zenon DEF Inv, InOrder
<1>8. PendingCounted'
  BY <1>2, Zenon DEF Inv, PendingCounted
<1>9. BufferAwaitsItsSurface' /\ ReleasedBeforeReuse'
  BY <1>1 DEF Inv, BufferAwaitsItsSurface, ReleasedBeforeReuse
<1>10. RegistrationLive'
  <2>1. \A d \in Contexts : contexts'[d].open = contexts[d].open
    BY Zenon
  <2>2. \A s \in Surfaces : surfaces[s].owner \in Contexts \cup {None}
    BY Zenon DEF Inv, Types, SurfaceEntries
  <2> QED
    BY <1>1, <2>1, <2>2 DEF Inv, RegistrationLive
<1> QED
  BY <1>3, <1>4, <1>5, <1>6, <1>7, <1>8, <1>9, <1>10, Zenon DEF Inv

(* One buffer changes that waits for nothing before and after.             *)
LEMMA BufferChanges ==
    ASSUME Inv, Types', UNCHANGED <<contexts, surfaces, broker, call, frames>>,
           NEW b \in Buffers,
           \A a \in Buffers \ {b} : buffers'[a] = buffers[a],
           buffers[b].pending = None, buffers'[b].pending = None
    PROVE  Inv'
<1>1. /\ contexts' = contexts /\ surfaces' = surfaces /\ broker' = broker
      /\ call' = call /\ frames' = frames
  BY Zenon
<1>2. \A d : Pending(d)' = Pending(d)
  BY <1>1, Zenon DEF Pending, Owned
<1>3. FreeSlots'
  BY <1>1, Zenon DEF Inv, FreeSlots
<1>4. \A s \in Surfaces : None # s
  BY SlotAssumption, Zenon
<1>5. BufferAwaitsItsSurface'
  BY <1>1, <1>4 DEF Inv, BufferAwaitsItsSurface
<1>6. PendingShape'
  <2>1. ASSUME NEW s \in Surfaces, surfaces[s].state = "pending"
        PROVE  buffers'[surfaces[s].coded] = buffers[surfaces[s].coded]
    <3>1. surfaces[s].coded \in Buffers
      BY <2>1, Zenon DEF Inv, Types, SurfaceEntries, PendingShape
    <3>2. buffers[surfaces[s].coded].pending = s
      BY <2>1, <3>1, Zenon DEF Inv, BufferAwaitsItsSurface
    <3> QED
      BY <1>4, <3>1, <3>2, Zenon
  <2> QED
    BY <1>1, <2>1 DEF Inv, PendingShape
<1>7. CallShape' /\ FramesGiven' /\ ReleasedBeforeReuse' /\ RegistrationLive'
  BY <1>1 DEF Inv, CallShape, FramesGiven, ReleasedBeforeReuse, RegistrationLive
<1>8. InOrder'
  <2>1. \A d \in Contexts : Matched(d) => Matched(d)'
    BY <1>1, <1>2, MatchedKept, Zenon
  <2> QED
    BY <1>1, <2>1, Zenon DEF Inv, InOrder
<1>9. PendingCounted'
  BY <1>1, <1>2, Zenon DEF Inv, PendingCounted
<1> QED
  BY <1>3, <1>5, <1>6, <1>7, <1>8, <1>9, Zenon DEF Inv
(* One surface changes that is not pending before and after, and at most   *)
(* becomes the surface of a context's next picture.                        *)
LEMMA SurfaceChanges ==
    ASSUME Inv, Types', UNCHANGED <<buffers, broker, call, frames>>,
           NEW s \in Surfaces,
           \A t \in Surfaces \ {s} : surfaces'[t] = surfaces[t],
           surfaces[s].state # "pending", surfaces'[s].state # "pending",
           surfaces'[s].used \/ (surfaces'[s].owner = None /\ surfaces'[s].state = "idle"),
           surfaces'[s].frame <= frames,
           ~surfaces'[s].fence,
           surfaces'[s].registered = surfaces[s].registered,
           surfaces[s].registered => surfaces'[s].owner = surfaces[s].owner,
           \A c \in Contexts :
              /\ contexts'[c].used = contexts[c].used
              /\ contexts'[c].pending = contexts[c].pending
              /\ contexts'[c].open = contexts[c].open
              /\ contexts'[c].active =>
                    /\ contexts[c].used
                    /\ \/ contexts'[c].target = s
                       \/ contexts[c].active /\ contexts'[c].target = contexts[c].target
    PROVE  Inv'
<1>1. buffers' = buffers /\ broker' = broker /\ call' = call /\ frames' = frames
  BY Zenon
<1>2. \A c : Pending(c)' = Pending(c) /\ s \notin Pending(c)
  BY Zenon DEF Pending, Owned
<1>3. FreeSlots'
  BY <1>1 DEF Inv, FreeSlots
<1>4. BufferAwaitsItsSurface'
  BY <1>1 DEF Inv, BufferAwaitsItsSurface
<1>5. PendingShape'
  <2>1. \A t \in Surfaces : surfaces'[t].state = "pending" =>
          /\ surfaces'[t].owner # None /\ surfaces'[t].coded # None
          /\ buffers'[surfaces'[t].coded].owner = surfaces'[t].owner
    BY <1>1, Zenon DEF Inv, PendingShape
  <2>2. ASSUME NEW c \in Contexts, contexts'[c].active
        PROVE  /\ contexts'[c].target # None
               /\ surfaces'[contexts'[c].target].owner = c
                     => surfaces'[contexts'[c].target].state # "pending"
    <3>1. CASE contexts'[c].target = s
      BY <3>1, SlotAssumption, Zenon
    <3>2. CASE contexts[c].active /\ contexts'[c].target = contexts[c].target /\ contexts[c].target # s
      <4>1. contexts[c].target \in Surfaces
        BY <3>2, Zenon DEF Inv, Types, ContextEntries, PendingShape
      <4> QED
        BY <3>2, <4>1 DEF Inv, PendingShape
    <3> QED
      BY <2>2, <3>1, <3>2, Zenon
  <2> QED
    BY <2>1, <2>2, Zenon DEF PendingShape
<1>6. CallShape'
  <2>1. call.context \in Contexts \cup {None}
    BY Zenon DEF Inv, Types, Calls
  <2> QED
    BY <1>1, <2>1, Zenon DEF Inv, CallShape
<1>7. FramesGiven'
  BY <1>1, Zenon DEF Inv, FramesGiven
<1>8. InOrder'
  <2>1. \A c : \A t \in Pending(c) : surfaces'[t].frame = surfaces[t].frame
    BY <1>2, Zenon DEF Pending, Owned
  <2>2. \A c \in Contexts : Matched(c) => Matched(c)'
    BY <1>1, <1>2, <2>1, MatchedKept, Zenon
  <2> QED
    BY <1>1, <2>2, Zenon DEF Inv, InOrder
<1>9. PendingCounted'
  BY <1>2, Zenon DEF Inv, PendingCounted
<1>10. RegistrationLive'
  <2>1. \A t \in Surfaces : surfaces[t].owner \in Contexts \cup {None}
    BY Zenon DEF Inv, Types, SurfaceEntries
  <2> QED
    BY <1>1, <2>1 DEF Inv, RegistrationLive
<1>11. ReleasedBeforeReuse'
  BY Zenon DEF Inv, ReleasedBeforeReuse
<1> QED
  BY <1>3, <1>4, <1>5, <1>6, <1>7, <1>8, <1>9, <1>10, <1>11, Zenon DEF Inv

(* One session changes: frames leave it, and it counts as lost or closing, *)
(* or has nothing left.                                                    *)
LEMMA SessionChanges ==
    ASSUME Inv, Types', CallShape', UNCHANGED <<contexts, surfaces, buffers, frames>>,
           NEW c \in Contexts,
           call.op # "close", call'.op # "close" \/ call'.context = c,
           \A d \in Contexts \ {c} : broker'[d] = broker[d],
           broker'[c].regs = broker[c].regs,
           \A i \in 1..Len(broker'[c].queue) : broker'[c].queue[i] <= frames,
           broker'[c].lost \/ ~contexts[c].open
    PROVE  Inv'
<1>1. contexts' = contexts /\ surfaces' = surfaces /\ buffers' = buffers /\ frames' = frames
  BY Zenon
<1>2. \A d : Pending(d)' = Pending(d)
  BY <1>1, Zenon DEF Pending, Owned
<1>3. FreeSlots' /\ PendingShape' /\ BufferAwaitsItsSurface' /\ ReleasedBeforeReuse'
  BY <1>1 DEF Inv, FreeSlots, PendingShape, BufferAwaitsItsSurface, ReleasedBeforeReuse
<1>4. FramesGiven'
  BY <1>1, Zenon DEF Inv, FramesGiven
<1>5. InOrder'
  <2>1. \A d \in Contexts \ {c} : Matched(d) => Matched(d)'
    BY <1>1, <1>2, MatchedKept, Zenon
  <2> QED
    BY <1>1, <2>1, Zenon DEF Inv, InOrder
<1>6. PendingCounted'
  BY <1>1, <1>2, Zenon DEF Inv, PendingCounted
<1>7. RegistrationLive'
  <2>1. \A d \in Contexts : broker'[d].regs = broker[d].regs
    BY Zenon
  <2> QED
    BY <1>1, <2>1 DEF Inv, RegistrationLive
<1> QED
  BY <1>3, <1>4, <1>5, <1>6, <1>7, Zenon DEF Inv
-----------------------------------------------------------------------------
(* Slots that come and go                                                  *)

LEMMA CreateContextKeeps ==
    ASSUME Inv, NEW c \in Contexts, create_context(c)
    PROVE  Inv'
<1> DEFINE r == [FreeContext EXCEPT !.used = TRUE]
<1>1. contexts' = [contexts EXCEPT ![c] = r] /\ ~contexts[c].used
  BY Zenon DEF create_context
<1>2. UNCHANGED <<surfaces, buffers, broker, call, frames>> /\ frame_session' = frame_session
  BY Zenon DEF create_context, setup
<1>3. r \in ContextEntries
  BY FreeEntries, Zenon DEF ContextEntries
<1>4. r.used /\ ~r.active /\ r.pending = 0 /\ ~r.open
  BY Zenon DEF FreeContext
<1>5. contexts[c].pending = 0 /\ ~contexts[c].open
  <2>1. contexts[c].pending \in Nat
    BY Zenon DEF Inv, Types, ContextEntries
  <2> QED
    BY <1>1, <2>1 DEF Inv, PendingCounted, FreeSlots
<1> HIDE DEF r
<1>6. Types'
  BY <1>1, <1>2, <1>3, Zenon DEF Inv, Types
<1>7. contexts'[c] = r /\ \A d \in Contexts \ {c} : contexts'[d] = contexts[d]
  BY <1>1, Zenon DEF Inv, Types
<1>8. contexts'[c].open = contexts[c].open
  <2>1. contexts[c].open \in BOOLEAN /\ r.open \in BOOLEAN
    BY <1>3, Zenon DEF Inv, Types, ContextEntries
  <2> QED
    BY <1>4, <1>5, <1>7, <2>1, Zenon
<1> QED
  BY <1>2, <1>4, <1>5, <1>6, <1>7, <1>8, ContextChanges, Zenon

LEMMA CreateSurfaceKeeps ==
    ASSUME Inv, NEW s \in Surfaces, create_surfaces(s)
    PROVE  Inv'
<1>1. PICK r \in Routes : surfaces' = [surfaces EXCEPT
                             ![s] = [FreeSurface EXCEPT !.used = TRUE, !.route = r]]
  BY Zenon DEF create_surfaces
<1> DEFINE q == [FreeSurface EXCEPT !.used = TRUE, !.route = r]
<1>2. /\ UNCHANGED <<contexts, buffers, broker, call, frames>> /\ frame_session' = frame_session
      /\ ~surfaces[s].used
  BY Zenon DEF create_surfaces, setup
<1>3. q \in SurfaceEntries
  BY SlotAssumption, FreeEntries, Zenon DEF SurfaceEntries
<1>4. /\ q.used /\ q.state = "idle" /\ q.frame = 0 /\ q.owner = None
      /\ q.fence = FALSE /\ q.registered = FALSE
  BY Zenon DEF FreeSurface
<1>5. surfaces[s].state = "idle" /\ surfaces[s].registered = FALSE
  <2>1. surfaces[s].registered \in BOOLEAN
    BY Zenon DEF Inv, Types, SurfaceEntries
  <2> QED
    BY <1>2, <2>1, Zenon DEF Inv, FreeSlots, RegistrationLive
<1> HIDE DEF q
<1>6. Types'
  BY <1>1, <1>2, <1>3, Zenon DEF Inv, Types, q
<1>7. surfaces'[s] = q /\ \A t \in Surfaces \ {s} : surfaces'[t] = surfaces[t]
  BY <1>1, Zenon DEF Inv, Types, q
<1>8. 0 <= frames
  BY DEF Inv, Types
<1>9. contexts' = contexts /\ buffers' = buffers /\ broker' = broker /\ call' = call /\ frames' = frames
  BY <1>2, Zenon
<1>10. \A c \in Contexts : contexts[c].active => contexts[c].used
  BY Zenon DEF Inv, FreeSlots
<1> QED
  BY <1>4, <1>5, <1>6, <1>7, <1>8, <1>9, <1>10, SurfaceChanges, Zenon

LEMMA DestroySurfaceKeeps ==
    ASSUME Inv, NEW s \in Surfaces, destroy_surfaces(s)
    PROVE  Inv'
<1>1. /\ surfaces' = [surfaces EXCEPT ![s] = FreeSurface]
      /\ surfaces[s].state # "pending" /\ ~surfaces[s].registered
  BY Zenon DEF destroy_surfaces
<1>2. contexts' = contexts /\ buffers' = buffers /\ broker' = broker /\ call' = call
      /\ frames' = frames /\ frame_session' = frame_session
  BY Zenon DEF destroy_surfaces, setup
<1>3. FreeSurface \in SurfaceEntries
  BY FreeEntries, Zenon
<1>4. /\ FreeSurface.state = "idle" /\ FreeSurface.frame = 0 /\ FreeSurface.owner = None
      /\ FreeSurface.fence = FALSE /\ FreeSurface.registered = FALSE
  BY Zenon DEF FreeSurface
<1>5. surfaces[s].registered = FALSE
  <2>1. surfaces[s].registered \in BOOLEAN
    BY Zenon DEF Inv, Types, SurfaceEntries
  <2> QED
    BY <1>1, <2>1, Zenon
<1>6. Types'
  BY <1>1, <1>2, <1>3, Zenon DEF Inv, Types
<1>7. surfaces'[s] = FreeSurface /\ \A t \in Surfaces \ {s} : surfaces'[t] = surfaces[t]
  BY <1>1, Zenon DEF Inv, Types
<1>8. 0 <= frames
  BY DEF Inv, Types
<1>9. \A c \in Contexts : contexts[c].active => contexts[c].used
  BY Zenon DEF Inv, FreeSlots
<1> QED
  BY <1>1, <1>2, <1>4, <1>5, <1>6, <1>7, <1>8, <1>9, SurfaceChanges, Zenon

LEMMA CreateBufferKeeps ==
    ASSUME Inv, NEW b \in Buffers, NEW c \in Contexts, create_buffer(b, c)
    PROVE  Inv'
<1> DEFINE r == [FreeBuffer EXCEPT !.used = TRUE, !.owner = c]
<1>1. buffers' = [buffers EXCEPT ![b] = r] /\ ~buffers[b].used
  BY Zenon DEF create_buffer
<1>2. UNCHANGED <<contexts, surfaces, broker, call, frames>> /\ frame_session' = frame_session
  BY Zenon DEF create_buffer, setup
<1>3. r \in BufferEntries /\ r.pending = None
  <2>1. r \in BufferEntries
    BY FreeEntries, Zenon DEF BufferEntries
  <2>2. r.pending = None
    BY Zenon DEF FreeBuffer
  <2> QED
    BY <2>1, <2>2, Zenon
<1>4. buffers[b].pending = None
  BY <1>1, Zenon DEF Inv, FreeSlots
<1> HIDE DEF r
<1>5. Types'
  BY <1>1, <1>2, <1>3, Zenon DEF Inv, Types
<1>6. buffers'[b] = r /\ \A a \in Buffers \ {b} : buffers'[a] = buffers[a]
  BY <1>1, Zenon DEF Inv, Types
<1> QED
  BY <1>2, <1>3, <1>4, <1>5, <1>6, BufferChanges, Zenon

LEMMA DestroyBufferKeeps ==
    ASSUME Inv, NEW b \in Buffers, destroy_buffer(b)
    PROVE  Inv'
<1>1. buffers' = [buffers EXCEPT ![b] = FreeBuffer] /\ buffers[b].pending = None
  BY Zenon DEF destroy_buffer
<1>2. UNCHANGED <<contexts, surfaces, broker, call, frames>> /\ frame_session' = frame_session
  BY Zenon DEF destroy_buffer, setup
<1>3. FreeBuffer \in BufferEntries /\ FreeBuffer.pending = None
  BY Zenon DEF FreeBuffer, BufferEntries, NoOutput
<1>4. Types'
  BY <1>1, <1>2, <1>3, Zenon DEF Inv, Types
<1>5. buffers'[b] = FreeBuffer /\ \A a \in Buffers \ {b} : buffers'[a] = buffers[a]
  BY <1>1, Zenon DEF Inv, Types
<1> QED
  BY <1>1, <1>2, <1>3, <1>4, <1>5, BufferChanges, Zenon
-----------------------------------------------------------------------------
(* Pictures                                                                *)

(* Whether open or new, the session a picture finds has the registrations  *)
(* and the frames of its context.                                          *)
LEMMA SessionFound ==
    ASSUME Inv, NEW c \in Contexts, call.op # "close"
    PROVE  /\ \A s \in Surfaces :
                 s \in Session(c).regs <=> surfaces[s].registered /\ surfaces[s].owner = c
           /\ \A i \in 1..Len(Session(c).queue) : Session(c).queue[i] <= frames
           /\ ~Session(c).lost => Matches(c, Session(c).queue)
<1>1. CASE contexts[c].open
  <2>1. Session(c) = broker[c]
    BY <1>1, Zenon DEF Session
  <2> QED
    BY <1>1, <2>1, Zenon DEF Inv, RegistrationLive, FramesGiven, InOrder, Matched
<1>2. CASE ~contexts[c].open
  <2>1. Session(c).queue = <<>> /\ Session(c).regs = {}
    BY <1>2, SessionIs, Zenon DEF Inv
  <2>2. Pending(c) = {}
    <3>1. contexts[c].pending \in Nat
      BY Zenon DEF Inv, Types, ContextEntries
    <3>2. Cardinality(Pending(c)) = 0
      BY <1>2, <3>1 DEF Inv, PendingCounted
    <3> QED
      BY <3>2, PendingFinite, Zenon
  <2>3. Matches(c, <<>>)
    BY <2>2 DEF Matches, Increasing
  <2>4. \A s \in Surfaces : ~(surfaces[s].registered /\ surfaces[s].owner = c)
    BY <1>2, Zenon DEF Inv, RegistrationLive
  <2>5. \A i \in 1..Len(<<>>) : <<>>[i] <= frames
    OBVIOUS
  <2> QED
    BY <2>1, <2>3, <2>4, <2>5, Zenon
<1> QED
  BY <1>1, <1>2, Zenon

LEMMA BeginKeeps ==
    ASSUME Inv, NEW c \in Contexts, NEW s \in Surfaces, begin_picture(c, s)
    PROVE  Inv'
<1>1. /\ contexts[c].used /\ surfaces[s].used
      /\ surfaces[s].state \notin {"error", "pending"}
      /\ contexts' = [contexts EXCEPT ![c].active = TRUE, ![c].target = s, ![c].coded = None]
      /\ surfaces' = [surfaces EXCEPT ![s].state = "idle", ![s].coded = None]
  BY Zenon DEF begin_picture
<1>2. /\ buffers' = buffers /\ broker' = broker /\ call' = call
      /\ frames' = frames /\ frame_session' = frame_session
  BY Zenon DEF begin_picture, setup
<1>3. contexts \in [Contexts -> ContextEntries] /\ surfaces \in [Surfaces -> SurfaceEntries]
  BY Zenon DEF Inv, Types
<1> DEFINE q == [contexts[c] EXCEPT !.active = TRUE, !.target = s, !.coded = None]
           r == [surfaces[s] EXCEPT !.state = "idle", !.coded = None]
<1>4. contexts' = [contexts EXCEPT ![c] = q] /\ surfaces' = [surfaces EXCEPT ![s] = r]
  BY <1>1, <1>3, Zenon
<1>5. q \in ContextEntries /\ r \in SurfaceEntries
  <2>1. contexts[c] \in ContextEntries /\ surfaces[s] \in SurfaceEntries
    BY <1>3, Zenon
  <2>2. q \in ContextEntries
    BY <2>1, Zenon DEF ContextEntries
  <2>3. r \in SurfaceEntries
    BY <2>1, Zenon DEF SurfaceEntries
  <2> QED
    BY <2>2, <2>3, Zenon
<1>6. /\ q.used = contexts[c].used /\ q.pending = contexts[c].pending
      /\ q.open = contexts[c].open /\ q.target = s
  BY <1>3, Zenon DEF ContextEntries
<1>7. /\ r.used = surfaces[s].used /\ r.owner = surfaces[s].owner /\ r.state = "idle"
      /\ r.frame = surfaces[s].frame /\ r.fence = surfaces[s].fence
      /\ r.registered = surfaces[s].registered
  BY <1>3, Zenon DEF SurfaceEntries
<1> HIDE DEF q, r
<1>8. Types'
  BY <1>2, <1>3, <1>4, <1>5, Zenon DEF Inv, Types
<1>9. contexts'[c] = q /\ \A d \in Contexts \ {c} : contexts'[d] = contexts[d]
  BY <1>3, <1>4, Zenon
<1>10. surfaces'[s] = r /\ \A t \in Surfaces \ {s} : surfaces'[t] = surfaces[t]
  BY <1>3, <1>4, Zenon
<1>11. ~surfaces[s].fence /\ surfaces[s].state # "pending" /\ surfaces[s].frame <= frames
  <2>1. surfaces[s].state \in {"idle", "ready"}
    BY <1>1, <1>3, Zenon DEF SurfaceEntries
  <2> QED
    BY <2>1, Zenon DEF Inv, ReleasedBeforeReuse, FramesGiven
<1>12. \A d \in Contexts : contexts[d].active => contexts[d].used
  BY Zenon DEF Inv, FreeSlots
<1>13. \A d \in Contexts :
         /\ contexts'[d].used = contexts[d].used
         /\ contexts'[d].pending = contexts[d].pending
         /\ contexts'[d].open = contexts[d].open
         /\ contexts'[d].active =>
               /\ contexts[d].used
               /\ \/ contexts'[d].target = s
                  \/ contexts[d].active /\ contexts'[d].target = contexts[d].target
  BY <1>1, <1>6, <1>9, <1>12, Zenon
<1>14. r.state # "pending"
  BY <1>7, Zenon
<1> QED
  BY <1>1, <1>2, <1>7, <1>8, <1>10, <1>11, <1>13, <1>14, SurfaceChanges, Zenon
LEMMA RenderKeeps ==
    ASSUME Inv, NEW c \in Contexts, NEW b \in Buffers, NEW rate \in Rates,
           render_picture(c, b, rate)
    PROVE  Inv'
<1>1. contexts' = [contexts EXCEPT ![c].coded = b, ![c].rate = rate]
  BY Zenon DEF render_picture
<1>2. /\ surfaces' = surfaces /\ buffers' = buffers /\ broker' = broker /\ call' = call
      /\ frames' = frames /\ frame_session' = frame_session
  BY Zenon DEF render_picture, setup
<1>3. contexts \in [Contexts -> ContextEntries] /\ contexts[c] \in ContextEntries
  BY Zenon DEF Inv, Types
<1> DEFINE q == [contexts[c] EXCEPT !.coded = b, !.rate = rate]
<1>4. contexts' = [contexts EXCEPT ![c] = q]
  BY <1>1, <1>3, Zenon
<1>5. q \in ContextEntries
  BY <1>3, Zenon DEF ContextEntries
<1>6. /\ q.used = contexts[c].used /\ q.pending = contexts[c].pending
      /\ q.open = contexts[c].open /\ q.target = contexts[c].target
      /\ q.active = contexts[c].active
  BY <1>3, Zenon DEF ContextEntries
<1> HIDE DEF q
<1>7. Types'
  BY <1>2, <1>3, <1>4, <1>5, Zenon DEF Inv, Types
<1>8. contexts'[c] = q /\ \A d \in Contexts \ {c} : contexts'[d] = contexts[d]
  BY <1>3, <1>4, Zenon
<1>9. \A d \in Contexts : SameContext(d)
  BY <1>6, <1>8, Zenon DEF SameContext
<1>10. CallShape'
  <2>1. call.context \in Contexts \cup {None}
    BY Zenon DEF Inv, Types, Calls
  <2> QED
    BY <1>2, <1>9, <2>1, Zenon DEF Inv, CallShape, SameContext
<1>11. /\ \A s \in Surfaces : SameSurface(s)
       /\ \A a \in Buffers : SameBuffer(a)
       /\ \A d \in Contexts : SameSession(d)
  BY <1>2, Zenon DEF SameSurface, SameBuffer, SameSession
<1> QED
  BY <1>2, <1>7, <1>9, <1>10, <1>11, NothingMoves, Zenon

(* A surface that is only marked as exported.                              *)
LEMMA ExportedIs ==
    ASSUME Types, NEW s \in Surfaces, NEW e \in BOOLEAN,
           surfaces' = [surfaces EXCEPT ![s].exported = e]
    PROVE  surfaces' \in [Surfaces -> SurfaceEntries] /\ \A t \in Surfaces : SameSurface(t)
<1> DEFINE r == [surfaces[s] EXCEPT !.exported = e]
<1>1. surfaces \in [Surfaces -> SurfaceEntries] /\ surfaces[s] \in SurfaceEntries
  BY Zenon DEF Types
<1>2. surfaces' = [surfaces EXCEPT ![s] = r]
  BY <1>1, Zenon
<1>3. r \in SurfaceEntries
  BY <1>1, Zenon DEF SurfaceEntries
<1>4. /\ r.used = surfaces[s].used /\ r.owner = surfaces[s].owner
      /\ r.state = surfaces[s].state /\ r.coded = surfaces[s].coded
      /\ r.frame = surfaces[s].frame /\ r.fence = surfaces[s].fence
      /\ r.registered = surfaces[s].registered
  BY <1>1, Zenon DEF SurfaceEntries
<1> HIDE DEF r
<1>5. surfaces' \in [Surfaces -> SurfaceEntries]
  BY <1>1, <1>2, <1>3, Zenon
<1>6. surfaces'[s] = r /\ \A t \in Surfaces \ {s} : surfaces'[t] = surfaces[t]
  BY <1>1, <1>2, Zenon
<1> QED
  BY <1>4, <1>5, <1>6, Zenon DEF SameSurface

(* A buffer that is only mapped or unmapped.                               *)
LEMMA MappedIs ==
    ASSUME Types, NEW b \in Buffers, NEW m \in BOOLEAN,
           buffers' = [buffers EXCEPT ![b].mapped = m]
    PROVE  buffers' \in [Buffers -> BufferEntries] /\ \A a \in Buffers : SameBuffer(a)
<1> DEFINE r == [buffers[b] EXCEPT !.mapped = m]
<1>1. buffers \in [Buffers -> BufferEntries] /\ buffers[b] \in BufferEntries
  BY Zenon DEF Types
<1>2. buffers' = [buffers EXCEPT ![b] = r]
  BY <1>1, Zenon
<1>3. r \in BufferEntries
  BY <1>1, Zenon DEF BufferEntries
<1>4. r.used = buffers[b].used /\ r.owner = buffers[b].owner /\ r.pending = buffers[b].pending
  BY <1>1, Zenon DEF BufferEntries
<1> HIDE DEF r
<1>5. buffers' \in [Buffers -> BufferEntries]
  BY <1>1, <1>2, <1>3, Zenon
<1>6. buffers'[b] = r /\ \A a \in Buffers \ {b} : buffers'[a] = buffers[a]
  BY <1>1, <1>2, Zenon
<1> QED
  BY <1>4, <1>5, <1>6, Zenon DEF SameBuffer

LEMMA ExportKeeps ==
    ASSUME Inv, NEW s \in Surfaces, export_surface(s)
    PROVE  Inv'
<1>1. /\ surfaces' = [surfaces EXCEPT ![s].exported = TRUE]
      /\ contexts' = contexts /\ buffers' = buffers /\ broker' = broker /\ call' = call
      /\ frames' = frames /\ frame_session' = frame_session
  BY Zenon DEF export_surface, setup
<1>2. surfaces' \in [Surfaces -> SurfaceEntries] /\ \A t \in Surfaces : SameSurface(t)
  BY <1>1, ExportedIs, Zenon DEF Inv
<1>3. Types' /\ CallShape'
  BY <1>1, <1>2, Zenon DEF Inv, Types, CallShape
<1>4. /\ \A c \in Contexts : SameContext(c) /\ SameSession(c)
      /\ \A b \in Buffers : SameBuffer(b)
  BY <1>1, Zenon DEF SameContext, SameSession, SameBuffer
<1> QED
  BY <1>1, <1>2, <1>3, <1>4, NothingMoves, Zenon

LEMMA MapKeeps ==
    ASSUME Inv, NEW b \in Buffers, map_buffer(b) \/ unmap_buffer(b)
    PROVE  Inv'
<1>1. /\ \E m \in BOOLEAN : buffers' = [buffers EXCEPT ![b].mapped = m]
      /\ contexts' = contexts /\ surfaces' = surfaces /\ broker' = broker /\ call' = call
      /\ frames' = frames /\ frame_session' = frame_session
  <2>1. CASE map_buffer(b)
    BY <2>1, Zenon DEF map_buffer, setup
  <2>2. CASE unmap_buffer(b)
    BY <2>2, Zenon DEF unmap_buffer, setup
  <2> QED
    BY <2>1, <2>2, Zenon
<1>2. buffers' \in [Buffers -> BufferEntries] /\ \A a \in Buffers : SameBuffer(a)
  BY <1>1, MappedIs, Zenon DEF Inv
<1>3. Types' /\ CallShape'
  BY <1>1, <1>2, Zenon DEF Inv, Types, CallShape
<1>4. /\ \A c \in Contexts : SameContext(c) /\ SameSession(c)
      /\ \A s \in Surfaces : SameSurface(s)
  BY <1>1, Zenon DEF SameContext, SameSession, SameSurface
<1> QED
  BY <1>1, <1>2, <1>3, <1>4, NothingMoves, Zenon
-----------------------------------------------------------------------------
(* Calls that wait                                                         *)

LEMMA ClosingIs ==
    ASSUME NEW op \in {"drain", "abandon", "close"}, NEW c \in Contexts
    PROVE  /\ NoCall \in Calls /\ NoCall.op = "none" /\ NoCall.context = None
           /\ Closing(op, c) \in Calls
           /\ Closing(op, c).op = op /\ Closing(op, c).context = c
<1>1. NoCall \in Calls /\ NoCall.op = "none" /\ NoCall.context = None
  BY Zenon DEF NoCall, Calls
<1>2. Closing(op, c) \in Calls
  BY <1>1, Zenon DEF Closing, Calls
<1>3. Closing(op, c).op = op /\ Closing(op, c).context = c
  BY <1>1, Zenon DEF Closing, Calls
<1> QED
  BY <1>1, <1>2, <1>3, Zenon

LEMMA NoCallIs == NoCall \in Calls /\ NoCall.op = "none"
BY Zenon DEF NoCall, Calls

(* A step that only moves the call, and perhaps signals the encoder.       *)
LEMMA CallMoves ==
    ASSUME Inv, CallShape', call' \in Calls, call.op # "close",
           UNCHANGED <<contexts, surfaces, buffers, frames, frame_session>>,
           broker' \in [Contexts -> Sessions],
           \A c \in Contexts : SameSession(c)
    PROVE  Inv'
<1>1. /\ contexts' = contexts /\ surfaces' = surfaces /\ buffers' = buffers
      /\ frames' = frames /\ frame_session' = frame_session
  BY Zenon
<1>2. Types'
  BY <1>1, Zenon DEF Inv, Types
<1>3. /\ \A c \in Contexts : SameContext(c)
      /\ \A s \in Surfaces : SameSurface(s)
      /\ \A b \in Buffers : SameBuffer(b)
  BY <1>1, Zenon DEF SameContext, SameSurface, SameBuffer
<1> QED
  BY <1>1, <1>2, <1>3, NothingMoves, Zenon

LEMMA SameBroker ==
    ASSUME Inv, broker' = broker
    PROVE  broker' \in [Contexts -> Sessions] /\ \A c \in Contexts : SameSession(c)
BY Zenon DEF Inv, Types, SameSession

LEMMA StartSyncKeeps ==
    ASSUME Inv, NEW s \in Surfaces, NEW b \in Buffers \cup {None},
           NEW export \in BOOLEAN, NEW poll \in Polls, StartSync(s, b, export, poll)
    PROVE  Inv'
<1> DEFINE r == [op |-> "sync", context |-> surfaces[s].owner, surface |-> s,
                 buffer |-> b, export |-> export, poll |-> poll]
<1>1. /\ call' = r /\ surfaces[s].state = "pending" /\ call = NoCall
      /\ UNCHANGED <<contexts, surfaces, buffers, frames, frame_session>> /\ broker' = broker
  BY Zenon DEF StartSync, Idle, setup
<1>2. surfaces[s].owner \in Contexts
  BY <1>1, Zenon DEF Inv, Types, SurfaceEntries, PendingShape
<1>3. r \in Calls
  BY <1>2, SlotAssumption, Zenon DEF Calls
<1>4. r.op = "sync" /\ r.context # None /\ r.surface # None
  BY <1>2, SlotAssumption, Zenon
<1> HIDE DEF r
<1>5. CallShape'
  BY <1>1, <1>4, Zenon DEF CallShape
<1>6. call.op # "close"
  BY <1>1, NoCallIs, Zenon
<1> QED
  BY <1>1, <1>3, <1>5, <1>6, SameBroker, CallMoves, Zenon

LEMMA SyncReturnsKeeps ==
    ASSUME Inv, SyncReturns
    PROVE  Inv'
<1>1. /\ call.op = "sync" /\ call' = NoCall
      /\ buffers' = IF call.buffer = None THEN buffers
                    ELSE [buffers EXCEPT ![call.buffer].mapped = TRUE]
      /\ surfaces' = [surfaces EXCEPT ![call.surface].exported = @ \/ call.export]
      /\ contexts' = contexts /\ broker' = broker
      /\ frames' = frames /\ frame_session' = frame_session
  BY Zenon DEF SyncReturns, setup
<1>2. call.buffer \in Buffers \cup {None} /\ call.surface \in Surfaces
  BY <1>1, Zenon DEF Inv, Types, Calls, CallShape
<1>3. buffers' \in [Buffers -> BufferEntries] /\ \A a \in Buffers : SameBuffer(a)
  <2>1. CASE call.buffer = None
    BY <1>1, <2>1, Zenon DEF Inv, Types, SameBuffer
  <2>2. CASE call.buffer # None
    <3>1. call.buffer \in Buffers
      BY <1>2, <2>2, Zenon
    <3>2. buffers' = [buffers EXCEPT ![call.buffer].mapped = TRUE]
      BY <1>1, <2>2, Zenon
    <3> QED
      BY <3>1, <3>2, MappedIs, Zenon DEF Inv
  <2> QED
    BY <2>1, <2>2, Zenon
<1>4. surfaces' \in [Surfaces -> SurfaceEntries] /\ \A t \in Surfaces : SameSurface(t)
  <2> DEFINE e == surfaces[call.surface].exported \/ call.export
  <2>1. surfaces' = [surfaces EXCEPT ![call.surface].exported = e] /\ e \in BOOLEAN
    BY <1>1, <1>2, Zenon DEF Inv, Types
  <2> HIDE DEF e
  <2> QED
    BY <1>2, <2>1, ExportedIs, Zenon DEF Inv
<1>5. Types'
  BY <1>1, <1>3, <1>4, NoCallIs, Zenon DEF Inv, Types
<1>6. CallShape'
  BY <1>1, NoCallIs, Zenon DEF CallShape
<1>7. \A c \in Contexts : SameContext(c) /\ SameSession(c)
  BY <1>1, Zenon DEF SameContext, SameSession
<1>8. call.op # "close"
  BY <1>1, Zenon
<1> QED
  BY <1>1, <1>3, <1>4, <1>5, <1>6, <1>7, <1>8, NothingMoves, Zenon

LEMMA DrainStopsKeeps ==
    ASSUME Inv, DrainEnds \/ DrainTimesOut
    PROVE  Inv'
<1>1. /\ call.op = "drain" /\ broker' = broker
      /\ UNCHANGED <<contexts, surfaces, buffers, frames, frame_session>>
  BY Zenon DEF DrainEnds, DrainTimesOut, setup
<1>2. call.context \in Contexts
  BY <1>1, Zenon DEF Inv, Types, Calls, CallShape
<1>3. \/ call' = Closing("close", call.context) /\ contexts[call.context].pending = 0
      \/ call' = Closing("abandon", call.context)
  BY Zenon DEF DrainEnds, DrainTimesOut
<1>4. call' \in Calls /\ CallShape'
  BY <1>1, <1>2, <1>3, ClosingIs, SlotAssumption DEF CallShape
<1>5. call.op # "close"
  BY <1>1, Zenon
<1> QED
  BY <1>1, <1>4, <1>5, SameBroker, CallMoves, Zenon

(* Finishing a context: its end of stream is signalled, or it is closed.   *)
LEMMA FinishKeeps ==
    ASSUME Inv, call = NoCall, NEW c \in Contexts, contexts[c].used,
           finish_context_locked(c),
           UNCHANGED <<contexts, surfaces, buffers, frames, setup>>
    PROVE  Inv'
<1>1. call.op # "close" /\ UNCHANGED <<contexts, surfaces, buffers, frames, frame_session>>
  BY NoCallIs, Zenon DEF setup
<1>2. \/ call' = Closing("close", c) /\ ~contexts[c].open
      \/ call' = Closing("drain", c) \/ call' = Closing("abandon", c)
  BY Zenon DEF finish_context_locked
<1>3. contexts[c].pending \in Nat /\ (~contexts[c].open => contexts[c].pending = 0)
  <2>1. contexts[c].pending \in Nat
    BY Zenon DEF Inv, Types, ContextEntries
  <2> QED
    BY <2>1 DEF Inv, PendingCounted
<1>4. call' \in Calls /\ CallShape'
  BY <1>1, <1>2, <1>3, ClosingIs, SlotAssumption DEF CallShape
<1>5. broker' \in [Contexts -> Sessions] /\ \A d \in Contexts : SameSession(d)
  <2>1. CASE broker' = broker
    BY <2>1, SameBroker, Zenon
  <2>2. CASE broker' = [broker EXCEPT ![c].eos = TRUE]
    <3> DEFINE r == [broker[c] EXCEPT !.eos = TRUE]
    <3>1. broker \in [Contexts -> Sessions] /\ broker[c] \in Sessions
      BY Zenon DEF Inv, Types
    <3>2. broker' = [broker EXCEPT ![c] = r]
      BY <2>2, <3>1, Zenon
    <3>3. r \in Sessions
      BY <3>1, Zenon DEF Sessions
    <3>4. r.queue = broker[c].queue /\ r.regs = broker[c].regs /\ r.lost = broker[c].lost
      BY <3>1, Zenon DEF Sessions
    <3> HIDE DEF r
    <3>5. broker' \in [Contexts -> Sessions]
      BY <3>1, <3>2, <3>3, Zenon
    <3>6. broker'[c] = r /\ \A d \in Contexts \ {c} : broker'[d] = broker[d]
      BY <3>1, <3>2, Zenon
    <3> QED
      BY <3>4, <3>5, <3>6, Zenon DEF SameSession
  <2> QED
    BY <2>1, <2>2, Zenon DEF finish_context_locked
<1> QED
  BY <1>1, <1>4, <1>5, CallMoves, Zenon
-----------------------------------------------------------------------------
(* The end of a picture                                                    *)

LEMMA RefusedKeeps ==
    ASSUME Inv, NEW c \in Contexts, EndPictureRefused(c)
    PROVE  Inv'
<1>1. contexts' = [contexts EXCEPT ![c] = Done(contexts[c])] /\ contexts[c].used
  BY Zenon DEF EndPictureRefused
<1>2. UNCHANGED <<surfaces, buffers, broker, call, frames>> /\ frame_session' = frame_session
  BY Zenon DEF EndPictureRefused, setup
<1>3. contexts \in [Contexts -> ContextEntries] /\ contexts[c] \in ContextEntries
  BY Zenon DEF Inv, Types
<1>4. /\ Done(contexts[c]) \in ContextEntries
      /\ Done(contexts[c]).used = contexts[c].used /\ ~Done(contexts[c]).active
      /\ Done(contexts[c]).pending = contexts[c].pending
      /\ Done(contexts[c]).open = contexts[c].open
  BY <1>3, DoneIs, Zenon
<1>5. Types'
  BY <1>1, <1>2, <1>3, <1>4, Zenon DEF Inv, Types
<1>6. /\ contexts'[c] = Done(contexts[c])
      /\ \A d \in Contexts \ {c} : contexts'[d] = contexts[d]
  BY <1>1, <1>3, Zenon
<1> QED
  BY <1>1, <1>2, <1>4, <1>5, <1>6, ContextChanges, Zenon

(* The context with an open session and no picture.                        *)
LEMMA DoneOpenedIs ==
    ASSUME Types, NEW c \in Contexts, NEW r, r = Done(Opened(c))
    PROVE  /\ r \in ContextEntries
           /\ r.used = contexts[c].used /\ ~r.active
           /\ r.pending = contexts[c].pending /\ r.open
<1>1. /\ Opened(c) \in ContextEntries /\ Opened(c).used = contexts[c].used
      /\ Opened(c).pending = contexts[c].pending /\ Opened(c).open
  BY OpenedIs, Zenon
<1> QED
  BY <1>1, DoneIs, Zenon

(* What the end of a picture finds.                                        *)
LEMMA SubmittableIs ==
    ASSUME Inv, NEW c \in Contexts, Submittable(c)
    PROVE  /\ call = NoCall /\ call.op = "none" /\ contexts[c].used
           /\ contexts[c].target \in Surfaces /\ surfaces[contexts[c].target].used
           /\ surfaces[contexts[c].target].owner \in {None, c}
                 => surfaces[contexts[c].target].state # "pending"
           /\ contexts[c].coded \in Buffers
           /\ buffers[contexts[c].coded].used
           /\ buffers[contexts[c].coded].owner = c
           /\ buffers[contexts[c].coded].pending = None
<1>1. /\ call = NoCall /\ contexts[c].used /\ contexts[c].active
      /\ surfaces[contexts[c].target].used
  BY Zenon DEF Submittable, Idle
<1>2. contexts[c] \in ContextEntries
  BY Zenon DEF Inv, Types
<1>3. contexts[c].target \in Surfaces
  BY <1>1, <1>2, Zenon DEF Inv, PendingShape, ContextEntries
<1>4. /\ contexts[c].coded \in Buffers
      /\ buffers[contexts[c].coded].used
      /\ buffers[contexts[c].coded].owner = c
      /\ buffers[contexts[c].coded].pending = None
  BY <1>2, Zenon DEF Submittable, CodedUsable, ContextEntries
<1>5. surfaces[contexts[c].target].owner \in {None, c}
         => surfaces[contexts[c].target].state # "pending"
  BY <1>1, <1>3, Zenon DEF Inv, PendingShape
<1> QED
  BY <1>1, <1>3, <1>4, <1>5, NoCallIs, Zenon

LEMMA NotOwnedKeeps ==
    ASSUME Inv, NEW c \in Contexts, EndPictureNotOwned(c)
    PROVE  Inv'
<1> DEFINE q == Done(Opened(c))
           r == Session(c)
<1>1. /\ contexts' = [contexts EXCEPT ![c] = q] /\ broker' = [broker EXCEPT ![c] = r]
      /\ surfaces' = surfaces /\ buffers' = buffers /\ call' = call
      /\ frames' = frames /\ frame_session' = frame_session
  BY Zenon DEF EndPictureNotOwned, setup
<1>2. Submittable(c)
  BY Zenon DEF EndPictureNotOwned
<1>3. call.op = "none" /\ contexts[c].used
  BY <1>2, SubmittableIs, Zenon
<1>4. /\ contexts \in [Contexts -> ContextEntries] /\ broker \in [Contexts -> Sessions]
      /\ \A t \in Surfaces : surfaces[t].owner \in Contexts \cup {None}
  BY Zenon DEF Inv, Types, SurfaceEntries
<1>5. /\ q \in ContextEntries /\ q.used /\ ~q.active
      /\ q.pending = contexts[c].pending /\ q.open
  BY <1>3, DoneOpenedIs, Zenon DEF Inv
<1>6. r \in Sessions
  BY SessionIs, Zenon DEF Inv
<1>7. call.op # "close"
  BY <1>3, Zenon
<1>8. /\ \A s \in Surfaces : s \in r.regs <=> surfaces[s].registered /\ surfaces[s].owner = c
      /\ \A i \in 1..Len(r.queue) : r.queue[i] <= frames
      /\ ~r.lost => Matches(c, r.queue)
  BY <1>7, SessionFound, Zenon
<1> HIDE DEF q, r
<1>9. Types'
  BY <1>1, <1>4, <1>5, <1>6, Zenon DEF Inv, Types
<1>10. /\ contexts'[c] = q /\ \A d \in Contexts \ {c} : contexts'[d] = contexts[d]
       /\ broker'[c] = r /\ \A d \in Contexts \ {c} : broker'[d] = broker[d]
  BY <1>1, <1>4, Zenon
<1>11. \A d : Pending(d)' = Pending(d)
  BY <1>1, Zenon DEF Pending, Owned
<1>12. FreeSlots' /\ BufferAwaitsItsSurface' /\ ReleasedBeforeReuse'
  BY <1>1, <1>3, <1>5, <1>10 DEF Inv, FreeSlots, BufferAwaitsItsSurface, ReleasedBeforeReuse
<1>13. PendingShape'
  BY <1>1, <1>5, <1>10 DEF Inv, PendingShape
<1>14. CallShape'
  BY <1>1, <1>3, Zenon DEF Inv, CallShape
<1>15. FramesGiven'
  BY <1>1, <1>8, <1>10 DEF Inv, FramesGiven
<1>16. InOrder'
  <2>1. \A d \in Contexts \ {c} : Matched(d) => Matched(d)'
    BY <1>1, <1>10, <1>11, MatchedKept, Zenon
  <2>2. Matches(c, r.queue) => Matched(c)'
    BY <1>1, <1>10, <1>11 DEF Matched, Matches
  <2> QED
    BY <1>1, <1>8, <1>10, <2>1, <2>2 DEF Inv, InOrder
<1>17. PendingCounted'
  BY <1>3, <1>5, <1>10, <1>11, Zenon DEF Inv, PendingCounted
<1>18. RegistrationLive'
  BY <1>1, <1>4, <1>5, <1>8, <1>10 DEF Inv, RegistrationLive
<1> QED
  BY <1>9, <1>12, <1>13, <1>14, <1>15, <1>16, <1>17, <1>18, Zenon DEF Inv
(* A picture that fails leaves a surface r and a session n behind whose    *)
(* registrations agree; a frame that reached the session is lost with it.  *)
FailedWith(c, s, r, n) ==
    /\ r.used /\ r.owner = c /\ r.state # "pending" /\ r.frame = surfaces[s].frame
    /\ r.state \in {"idle", "ready"} => ~r.fence
    /\ s \in n.regs <=> r.registered
    /\ \A t \in Surfaces \ {s} : t \in n.regs <=> t \in Session(c).regs
    /\ frames' \in {frames, frames + 1}
    /\ \A i \in 1..Len(n.queue) : n.queue[i] <= frames'
    /\ ~n.lost => ~Session(c).lost /\ n.queue = Session(c).queue
    /\ surfaces' = [surfaces EXCEPT ![s] = r]
    /\ broker' = [broker EXCEPT ![c] = n]
    /\ contexts' = [contexts EXCEPT ![c] = Done(Opened(c))]
    /\ buffers' = buffers /\ call' = call /\ frame_session' = frame_session

LEMMA PictureFails ==
    ASSUME Inv, NEW c \in Contexts, Submittable(c),
           NEW s \in Surfaces, s = contexts[c].target,
           surfaces[s].owner \in {None, c},
           NEW r \in SurfaceEntries, NEW n \in Sessions, FailedWith(c, s, r, n)
    PROVE  Inv'
<1> DEFINE q == Done(Opened(c))
<1>1. /\ buffers' = buffers /\ call' = call /\ frame_session' = frame_session
      /\ frames' \in {frames, frames + 1}
  BY Zenon DEF FailedWith
<1>2. call.op = "none" /\ contexts[c].used /\ surfaces[s].state # "pending" /\ surfaces[s].used
  BY SubmittableIs, Zenon
<1>3. /\ contexts \in [Contexts -> ContextEntries] /\ broker \in [Contexts -> Sessions]
      /\ surfaces \in [Surfaces -> SurfaceEntries] /\ frames \in Nat
  BY Zenon DEF Inv, Types
<1>4. \A t \in Surfaces : surfaces[t].owner \in Contexts \cup {None} /\ surfaces[t].frame \in Nat
  BY <1>3, Zenon DEF SurfaceEntries
<1>5. /\ q \in ContextEntries /\ q.used /\ ~q.active
      /\ q.pending = contexts[c].pending /\ q.open
  BY <1>2, DoneOpenedIs, Zenon DEF Inv
<1>6. /\ r.used /\ r.owner = c /\ r.state # "pending" /\ r.frame = surfaces[s].frame
      /\ r.state \in {"idle", "ready"} => ~r.fence
  BY Zenon DEF FailedWith
<1>7. /\ \A t \in Surfaces :
           t \in Session(c).regs <=> surfaces[t].registered /\ surfaces[t].owner = c
      /\ ~Session(c).lost => Matches(c, Session(c).queue)
  <2>1. call.op # "close"
    BY <1>2, Zenon
  <2> QED
    BY <2>1, SessionFound, Zenon
<1>8. /\ contexts' = [contexts EXCEPT ![c] = q] /\ broker' = [broker EXCEPT ![c] = n]
      /\ surfaces' = [surfaces EXCEPT ![s] = r]
  BY Zenon DEF FailedWith
<1> HIDE DEF q
<1>9. Types'
  BY <1>1, <1>3, <1>5, <1>8 DEF Inv, Types
<1>10. /\ contexts'[c] = q /\ \A d \in Contexts \ {c} : contexts'[d] = contexts[d]
       /\ broker'[c] = n /\ \A d \in Contexts \ {c} : broker'[d] = broker[d]
       /\ surfaces'[s] = r /\ \A t \in Surfaces \ {s} : surfaces'[t] = surfaces[t]
  BY <1>3, <1>8, Zenon
<1>11. \A d : Pending(d)' = Pending(d) /\ s \notin Pending(d)
  BY <1>2, <1>6, <1>10 DEF Pending, Owned
<1>12. FreeSlots'
  BY <1>1, <1>5, <1>6, <1>10 DEF Inv, FreeSlots
<1>13. BufferAwaitsItsSurface'
  BY <1>1, <1>2, <1>6, <1>10 DEF Inv, BufferAwaitsItsSurface
<1>14. ReleasedBeforeReuse'
  BY <1>6, <1>10, Zenon DEF Inv, ReleasedBeforeReuse
<1>15. PendingShape'
  <2>1. \A t \in Surfaces : surfaces'[t].state = "pending" =>
          /\ surfaces'[t].owner # None /\ surfaces'[t].coded # None
          /\ buffers'[surfaces'[t].coded].owner = surfaces'[t].owner
    BY <1>1, <1>6, <1>10 DEF Inv, PendingShape
  <2>2. ASSUME NEW d \in Contexts, contexts'[d].active
        PROVE  /\ contexts'[d].target # None
               /\ surfaces'[contexts'[d].target].owner = d
                     => surfaces'[contexts'[d].target].state # "pending"
    <3>1. d # c /\ contexts'[d] = contexts[d] /\ contexts[d].active
      BY <1>5, <1>10, <2>2, Zenon
    <3>2. contexts[d].target \in Surfaces
      BY <1>3, <3>1, Zenon DEF Inv, PendingShape, ContextEntries
    <3> QED
      BY <1>6, <1>10, <3>1, <3>2 DEF Inv, PendingShape
  <2> QED
    BY <2>1, <2>2, Zenon DEF PendingShape
<1>16. CallShape'
  BY <1>1, <1>2, Zenon DEF Inv, CallShape
<1>17. FramesGiven'
  <2>1. \A t \in Surfaces : surfaces'[t].frame = surfaces[t].frame
    BY <1>6, <1>10, Zenon
  <2>2. \A t \in Surfaces : surfaces'[t].state = "pending" => surfaces[t].state = "pending"
    BY <1>6, <1>10, Zenon
  <2>3. \A d \in Contexts \ {c} : \A i \in 1..Len(broker[d].queue) : broker[d].queue[i] \in Nat
    BY <1>3 DEF Sessions
  <2>4. \A i \in 1..Len(n.queue) : n.queue[i] <= frames'
    BY Zenon DEF FailedWith
  <2>5. \A t \in Surfaces : surfaces'[t].frame <= frames'
    BY <1>1, <1>3, <1>4, <2>1 DEF Inv, FramesGiven
  <2>6. \A d \in Contexts : \A i \in 1..Len(broker'[d].queue) : broker'[d].queue[i] <= frames'
    BY <1>1, <1>3, <1>10, <2>3, <2>4 DEF Inv, FramesGiven
  <2> QED
    BY <2>1, <2>2, <2>5, <2>6, Zenon DEF Inv, FramesGiven
<1>18. InOrder'
  <2>1. \A d : \A t \in Pending(d) : surfaces'[t].frame = surfaces[t].frame
    BY <1>10, <1>11, Zenon DEF Pending, Owned
  <2>2. \A d \in Contexts \ {c} : Matched(d) => Matched(d)'
    BY <1>10, <1>11, <2>1, MatchedKept, Zenon
  <2>3. Matches(c, n.queue) => Matched(c)'
    BY <1>10, <1>11, <2>1 DEF Matched, Matches
  <2>4. ~n.lost => Matched(c)'
    BY <1>7, <2>3, Zenon DEF FailedWith
  <2>5. \A d \in Contexts \ {c} : contexts'[d] = contexts[d] /\ broker'[d] = broker[d]
    BY <1>10, Zenon
  <2> QED
    BY <1>1, <1>10, <2>2, <2>4, <2>5, Zenon DEF Inv, InOrder
<1>19. PendingCounted'
  <2>1. \A d \in Contexts : contexts'[d].pending = contexts[d].pending
    BY <1>5, <1>10, Zenon
  <2>2. \A d \in Contexts \ {c} : contexts'[d] = contexts[d]
    BY <1>10, Zenon
  <2>3. contexts'[c].used /\ contexts'[c].open
    BY <1>5, <1>10, Zenon
  <2> QED
    BY <1>11, <2>1, <2>2, <2>3, Zenon DEF Inv, PendingCounted
<1>20. RegistrationLive'
  <2>1. \A t \in Surfaces : surfaces[t].registered =>
           surfaces[t].owner # None /\ contexts[surfaces[t].owner].open
    BY Zenon DEF Inv, RegistrationLive
  <2>2. \A t \in Surfaces : surfaces'[t].registered =>
           surfaces'[t].owner # None /\ contexts'[surfaces'[t].owner].open
    BY <1>4, <1>5, <1>6, <1>10, <2>1, SlotAssumption
  <2>3. \A t \in Surfaces : t \in broker'[c].regs <=>
           surfaces'[t].registered /\ surfaces'[t].owner = c
    <3>1. /\ s \in n.regs <=> r.registered
          /\ \A t \in Surfaces \ {s} : t \in n.regs <=> t \in Session(c).regs
      BY Zenon DEF FailedWith
    <3> QED
      BY <1>6, <1>7, <1>10, <3>1
  <2>4. \A d \in Contexts \ {c} : contexts'[d].open => s \notin broker'[d].regs
    BY <1>10, SlotAssumption DEF Inv, RegistrationLive
  <2>5. \A d \in Contexts \ {c}, t \in Surfaces : contexts'[d].open =>
           (t \in broker'[d].regs <=> surfaces'[t].registered /\ surfaces'[t].owner = d)
    BY <1>6, <1>10, <2>4 DEF Inv, RegistrationLive
  <2> QED
    BY <2>2, <2>3, <2>5, Zenon DEF RegistrationLive
<1> QED
  BY <1>9, <1>12, <1>13, <1>14, <1>15, <1>16, <1>17, <1>18, <1>19, <1>20, Zenon DEF Inv
LEMMA FailedKeeps ==
    ASSUME Inv, NEW c \in Contexts, EndPictureFailed(c)
    PROVE  Inv'
<1> DEFINE s == contexts[c].target
           base == [surfaces[s] EXCEPT !.owner = c]
<1>1. /\ Submittable(c) /\ surfaces[s].owner \in {None, c}
      /\ contexts' = [contexts EXCEPT ![c] = Done(Opened(c))]
      /\ buffers' = buffers /\ call' = call /\ frame_session' = frame_session
  BY Zenon DEF EndPictureFailed, setup
<1>2. PICK surface \in prepare_encode_input(base),
           fault \in (Faults \cup IF surfaces[s].fence THEN {"submit"} ELSE {})
                     \cap {"prepare", "export", "register", "submit",
                           "complete", "signal"} :
        LET linked == fault \in {"submit", "complete", "signal"}
            queued == fault \in {"complete", "signal"}
            regs == IF linked THEN Session(c).regs \cup {s}
                    ELSE IF surface.registered THEN Session(c).regs
                    ELSE Session(c).regs \ {s}
        IN  /\ fault = "prepare" => surface.route # "linear"
            /\ fault = "export" => surface.exported
            /\ fault = "register" => ~surface.registered
            /\ fault = "signal" => frame_session
            /\ surfaces' = [surfaces EXCEPT ![s] = [surface EXCEPT
                   !.registered = @ \/ linked,
                   !.fence = @ \/ fault = "signal",
                   !.exported = @ /\ fault \in {"prepare", "export"},
                   !.state = IF linked \/ fault = "export" THEN "error" ELSE @]]
            /\ broker' = [broker EXCEPT ![c] = [Session(c) EXCEPT
                   !.regs = regs,
                   !.queue = IF queued THEN Append(@, frames + 1) ELSE @,
                   !.lost = @ \/ queued]]
            /\ frames' = IF queued THEN frames + 1 ELSE frames
  BY Zenon DEF EndPictureFailed
<1> DEFINE linked == fault \in {"submit", "complete", "signal"}
           queued == fault \in {"complete", "signal"}
           state == IF linked \/ fault = "export" THEN "error" ELSE surface.state
           regs == IF linked THEN Session(c).regs \cup {s}
                   ELSE IF surface.registered THEN Session(c).regs
                   ELSE Session(c).regs \ {s}
           queue == IF queued THEN Append(Session(c).queue, frames + 1) ELSE Session(c).queue
           registered == surface.registered \/ linked
           fence == surface.fence \/ fault = "signal"
           exported == surface.exported /\ fault \in {"prepare", "export"}
           r == [surface EXCEPT !.registered = registered, !.fence = fence,
                                !.exported = exported, !.state = state]
           n == [Session(c) EXCEPT !.regs = regs, !.queue = queue,
                                   !.lost = Session(c).lost \/ queued]
<1>3. s \in Surfaces /\ surfaces[s].used /\ surfaces[s].state # "pending" /\ call.op # "close"
  <2>1. s \in Surfaces /\ surfaces[s].used /\ surfaces[s].state # "pending" /\ call.op = "none"
    BY <1>1, SubmittableIs, Zenon
  <2> QED
    BY <2>1, Zenon
<1>4. surfaces \in [Surfaces -> SurfaceEntries] /\ surfaces[s] \in SurfaceEntries /\ frames \in Nat
  BY <1>3, Zenon DEF Inv, Types
<1>5. Session(c) \in Sessions
  BY SessionIs, Zenon DEF Inv
<1> HIDE DEF s
<1>6. /\ base \in SurfaceEntries /\ base.used = surfaces[s].used /\ base.owner = c
      /\ base.state = surfaces[s].state /\ base.frame = surfaces[s].frame
      /\ base.fence = surfaces[s].fence /\ base.registered = surfaces[s].registered
  <2>1. base \in SurfaceEntries
    BY <1>4, Zenon DEF SurfaceEntries
  <2>2. /\ base.used = surfaces[s].used /\ base.owner = c
        /\ base.state = surfaces[s].state /\ base.frame = surfaces[s].frame
        /\ base.fence = surfaces[s].fence /\ base.registered = surfaces[s].registered
    BY <1>4, Zenon DEF SurfaceEntries
  <2> QED
    BY <2>1, <2>2, Zenon
<1> HIDE DEF base
<1>7. /\ surface \in SurfaceEntries /\ surface.used /\ surface.owner = c
      /\ surface.state = surfaces[s].state /\ surface.frame = surfaces[s].frame
      /\ surface.fence => surfaces[s].fence
      /\ surface.registered => surfaces[s].registered
  BY <1>3, <1>6, PreparedIs, Zenon
<1>8. linked \in BOOLEAN /\ queued \in BOOLEAN /\ (queued => linked)
      /\ (fault = "signal" => linked)
  OBVIOUS
<1>9. /\ surfaces' = [surfaces EXCEPT ![s] = r] /\ broker' = [broker EXCEPT ![c] = n]
      /\ frames' = IF queued THEN frames + 1 ELSE frames
  BY <1>2, <1>4, <1>5, <1>7, Zenon
<1>10. state \in {"idle", "ready", "error"} /\ (state # "error" => ~linked /\ state = surfaces[s].state)
  BY <1>3, <1>7, Zenon DEF SurfaceEntries
<1>11. r \in SurfaceEntries
  <2>1. registered \in BOOLEAN /\ fence \in BOOLEAN /\ exported \in BOOLEAN
    BY Zenon
  <2> HIDE DEF registered, fence, exported, state
  <2> QED
    BY <1>7, <1>10, <2>1, Zenon DEF SurfaceEntries
<1>12. /\ r.used = surface.used /\ r.owner = c /\ r.state = state /\ r.frame = surfaces[s].frame
       /\ r.registered = registered /\ r.fence = fence
  <2> HIDE DEF registered, fence, exported, state
  <2> QED
    BY <1>7, Zenon DEF SurfaceEntries
<1> HIDE DEF linked, queued, state
<1> HIDE DEF r
<1>13. r.state # "pending" /\ (r.state \in {"idle", "ready"} => ~r.fence)
  <2>1. r.state # "pending"
    BY <1>10, <1>12, Zenon
  <2>2. ASSUME r.state \in {"idle", "ready"} PROVE ~r.fence
    <3>1. ~linked /\ surfaces[s].state \in {"idle", "ready"}
      BY <1>10, <1>12, <2>2, Zenon
    <3> QED
      BY <1>3, <1>7, <1>8, <1>12, <3>1, Zenon DEF Inv, ReleasedBeforeReuse
  <2> QED
    BY <2>1, <2>2, Zenon
<1>14. regs \in SUBSET Surfaces /\ queue \in Seq(Nat)
  BY <1>3, <1>4, <1>5 DEF Sessions
<1>15. /\ \A t \in Surfaces :
            t \in Session(c).regs <=> surfaces[t].registered /\ surfaces[t].owner = c
       /\ \A i \in 1..Len(Session(c).queue) : Session(c).queue[i] <= frames
  BY <1>3, SessionFound, Zenon
<1>16. /\ s \in regs <=> r.registered
       /\ \A t \in Surfaces \ {s} : t \in regs <=> t \in Session(c).regs
  <2>1. surfaces[s].registered => s \in Session(c).regs
    BY <1>1, <1>3, <1>15, Zenon DEF Inv, RegistrationLive, s
  <2>2. CASE linked
    BY <1>3, <1>12, <2>2, Zenon
  <2>3. CASE ~linked /\ surface.registered
    BY <1>7, <1>12, <2>1, <2>3, Zenon
  <2>4. CASE ~linked /\ ~surface.registered
    BY <1>12, <2>4, Zenon
  <2> QED
    BY <2>2, <2>3, <2>4, Zenon
<1>17. \A i \in 1..Len(queue) : queue[i] <= frames'
  BY <1>4, <1>5, <1>9, <1>15 DEF Sessions
<1>18. ~queued => queue = Session(c).queue
  BY Zenon
<1> HIDE DEF regs, queue
<1>19. n \in Sessions
  BY <1>5, <1>8, <1>14, Zenon DEF Sessions
<1>20. n.regs = regs /\ n.queue = queue /\ n.lost = (Session(c).lost \/ queued)
  BY <1>5, Zenon DEF Sessions
<1> HIDE DEF n
<1>21. frames' \in {frames, frames + 1}
  BY <1>9, Zenon
<1>22. FailedWith(c, s, r, n)
  BY <1>1, <1>7, <1>9, <1>12, <1>13, <1>16, <1>17, <1>18, <1>20, <1>21, Zenon DEF FailedWith
<1> QED
  BY <1>1, <1>3, <1>11, <1>19, <1>22, PictureFails, Zenon DEF s
(* A picture that is submitted leaves its surface pending as r, its coded  *)
(* buffer waiting as v, its context as q and its session as n.             *)
SubmittedWith(c, s, b, r, v, q, n) ==
    /\ r.used /\ r.owner = c /\ r.registered /\ r.coded = b /\ r.frame = frames + 1
    /\ r.state = "pending"
    /\ v.used /\ v.owner = c /\ v.pending = s
    /\ q.used /\ ~q.active /\ q.pending = contexts[c].pending + 1 /\ q.open
    /\ n.queue = Append(Session(c).queue, frames + 1)
    /\ n.regs = Session(c).regs \cup {s} /\ n.lost = Session(c).lost
    /\ surfaces' = [surfaces EXCEPT ![s] = r] /\ buffers' = [buffers EXCEPT ![b] = v]
    /\ contexts' = [contexts EXCEPT ![c] = q] /\ broker' = [broker EXCEPT ![c] = n]

LEMMA EndIs ==
    ASSUME Inv, NEW c \in Contexts, end_picture(c)
    PROVE  \E r \in SurfaceEntries, v \in BufferEntries, q \in ContextEntries, n \in Sessions :
              SubmittedWith(c, contexts[c].target, contexts[c].coded, r, v, q, n)
<1> DEFINE s == contexts[c].target
           b == contexts[c].coded
<1>1. Submittable(c) /\ frame_session \in BOOLEAN
  BY Zenon DEF end_picture, Inv, Types
<1>2. /\ contexts[c].used /\ s \in Surfaces /\ surfaces[s].used
      /\ b \in Buffers /\ buffers[b].used /\ buffers[b].owner = c
  BY <1>1, SubmittableIs, Zenon
<1>3. /\ surfaces \in [Surfaces -> SurfaceEntries] /\ surfaces[s] \in SurfaceEntries
      /\ buffers \in [Buffers -> BufferEntries] /\ buffers[b] \in BufferEntries
      /\ frames \in Nat
  BY <1>2, Zenon DEF Inv, Types
<1>4. PICK p \in prepare_encode_input(surfaces[s]) :
        /\ ~p.fence
        /\ surfaces' = [surfaces EXCEPT ![s] = [p EXCEPT
               !.owner = c, !.registered = TRUE, !.exported = FALSE, !.fence = TRUE,
               !.coded = b, !.frame = frames + 1, !.state = "pending"]]
  BY Zenon DEF end_picture
<1>5. p \in SurfaceEntries /\ p.used
  BY <1>2, <1>3, <1>4, PreparedIs, Zenon
<1> DEFINE r == [p EXCEPT
               !.owner = c, !.registered = TRUE, !.exported = FALSE, !.fence = TRUE,
               !.coded = b, !.frame = frames + 1, !.state = "pending"]
<1>6. r \in SurfaceEntries /\ surfaces' = [surfaces EXCEPT ![s] = r]
  <2>1. frames + 1 \in Nat
    BY <1>3
  <2>2. r \in SurfaceEntries
    BY <1>2, <1>5, <2>1, Zenon DEF SurfaceEntries
  <2> QED
    BY <1>4, <2>2, Zenon
<1>7. /\ r.used /\ r.owner = c /\ r.registered /\ r.coded = b /\ r.frame = frames + 1
      /\ r.state = "pending"
  BY <1>5, Zenon DEF SurfaceEntries
<1> DEFINE v == [buffers[b] EXCEPT !.pending = s, !.output = NoOutput]
<1>8. buffers' = [buffers EXCEPT ![b] = v]
  <2>1. buffers' = [buffers EXCEPT ![b].pending = s, ![b].output = NoOutput]
    BY Zenon DEF end_picture
  <2> QED
    BY <1>2, <1>3, <2>1, Zenon
<1>9. v \in BufferEntries
  <2>1. NoOutput \in [frame : Nat, stamp : Nat]
    BY Zenon DEF NoOutput
  <2> QED
    BY <1>2, <1>3, <2>1, Zenon DEF BufferEntries
<1>10. v.used /\ v.owner = c /\ v.pending = s
  BY <1>2, <1>3, Zenon DEF BufferEntries
<1> DEFINE o == Done(Opened(c))
           q == [o EXCEPT !.pending = o.pending + 1]
<1>11. contexts' = [contexts EXCEPT ![c] = q]
  BY Zenon DEF end_picture
<1>12. /\ o \in ContextEntries /\ o.used /\ ~o.active
       /\ o.pending = contexts[c].pending /\ o.open
  BY <1>2, DoneOpenedIs, Zenon DEF Inv
<1> HIDE DEF o
<1>13. q \in ContextEntries
  <2>1. o.pending + 1 \in Nat
    BY <1>12 DEF ContextEntries
  <2> QED
    BY <1>12, <2>1, Zenon DEF ContextEntries
<1>14. q.used /\ ~q.active /\ q.pending = contexts[c].pending + 1 /\ q.open
  BY <1>12, Zenon DEF ContextEntries
<1> DEFINE n == [Session(c) EXCEPT !.queue = Append(Session(c).queue, frames + 1),
                                   !.eos = Session(c).eos \/ frame_session,
                                   !.regs = Session(c).regs \cup {s}]
<1>15. broker' = [broker EXCEPT ![c] = n]
  BY Zenon DEF end_picture
<1>16. Session(c) \in Sessions
  BY SessionIs, Zenon DEF Inv
<1>17. n \in Sessions
  <2>1. /\ Append(Session(c).queue, frames + 1) \in Seq(Nat)
        /\ Session(c).regs \cup {s} \in SUBSET Surfaces
    BY <1>2, <1>3, <1>16 DEF Sessions
  <2>2. (Session(c).eos \/ frame_session) \in BOOLEAN
    BY Zenon
  <2> QED
    BY <1>16, <2>1, <2>2, Zenon DEF Sessions
<1>18. /\ n.queue = Append(Session(c).queue, frames + 1)
       /\ n.regs = Session(c).regs \cup {s} /\ n.lost = Session(c).lost
  BY <1>16, Zenon DEF Sessions
<1> HIDE DEF r, v, q, n
<1>19. SubmittedWith(c, s, b, r, v, q, n)
  BY <1>6, <1>7, <1>8, <1>10, <1>11, <1>14, <1>15, <1>18, Zenon DEF SubmittedWith
<1> QED
  BY <1>6, <1>9, <1>13, <1>17, <1>19, Zenon
LEMMA EndKeeps ==
    ASSUME Inv, NEW c \in Contexts, end_picture(c)
    PROVE  Inv'
<1> DEFINE s == contexts[c].target
           b == contexts[c].coded
<1>1. Submittable(c) /\ surfaces[s].owner \in {None, c}
  BY Zenon DEF end_picture
<1>2. PICK r \in SurfaceEntries, v \in BufferEntries, q \in ContextEntries, n \in Sessions :
         SubmittedWith(c, s, b, r, v, q, n)
  BY EndIs, Zenon
<1>3. /\ call.op = "none" /\ contexts[c].used /\ s \in Surfaces /\ surfaces[s].used
      /\ surfaces[s].state # "pending"
      /\ b \in Buffers /\ buffers[b].pending = None /\ buffers[b].owner = c
  BY <1>1, SubmittableIs, Zenon
<1> HIDE DEF s, b
<1>4. /\ surfaces' = [surfaces EXCEPT ![s] = r] /\ buffers' = [buffers EXCEPT ![b] = v]
      /\ contexts' = [contexts EXCEPT ![c] = q] /\ broker' = [broker EXCEPT ![c] = n]
  BY <1>2, Zenon DEF SubmittedWith
<1>5. call' = call /\ frames' = frames + 1 /\ frame_session' = frame_session
  BY Zenon DEF end_picture, setup
<1>6. /\ contexts \in [Contexts -> ContextEntries] /\ broker \in [Contexts -> Sessions]
      /\ surfaces \in [Surfaces -> SurfaceEntries] /\ buffers \in [Buffers -> BufferEntries]
      /\ frames \in Nat
  BY Zenon DEF Inv, Types
<1>7. \A t \in Surfaces : surfaces[t].owner \in Contexts \cup {None} /\ surfaces[t].frame \in Nat
  BY <1>6, Zenon DEF SurfaceEntries
<1>8. /\ r.used /\ r.owner = c /\ r.registered /\ r.coded = b /\ r.frame = frames + 1
      /\ r.state = "pending"
  BY <1>2, Zenon DEF SubmittedWith
<1>9. v.used /\ v.owner = c /\ v.pending = s
  BY <1>2, Zenon DEF SubmittedWith
<1>10. q.used /\ ~q.active /\ q.pending = contexts[c].pending + 1 /\ q.open
  BY <1>2, Zenon DEF SubmittedWith
<1>11. /\ n.queue = Append(Session(c).queue, frames + 1)
       /\ n.regs = Session(c).regs \cup {s} /\ n.lost = Session(c).lost
  BY <1>2, Zenon DEF SubmittedWith
<1>12. /\ contexts'[c] = q /\ \A d \in Contexts \ {c} : contexts'[d] = contexts[d]
       /\ broker'[c] = n /\ \A d \in Contexts \ {c} : broker'[d] = broker[d]
       /\ surfaces'[s] = r /\ \A t \in Surfaces \ {s} : surfaces'[t] = surfaces[t]
       /\ buffers'[b] = v /\ \A a \in Buffers \ {b} : buffers'[a] = buffers[a]
  BY <1>4, <1>3, <1>6, Zenon
<1>13. Types'
  <2>1. /\ contexts' \in [Contexts -> ContextEntries] /\ surfaces' \in [Surfaces -> SurfaceEntries]
        /\ buffers' \in [Buffers -> BufferEntries] /\ broker' \in [Contexts -> Sessions]
    BY <1>4, <1>6, Zenon
  <2>2. frames' \in Nat
    BY <1>5, <1>6
  <2> QED
    BY <1>5, <2>1, <2>2, Zenon DEF Inv, Types
<1>14. /\ \A t \in Surfaces :
            t \in Session(c).regs <=> surfaces[t].registered /\ surfaces[t].owner = c
       /\ \A i \in 1..Len(Session(c).queue) : Session(c).queue[i] <= frames
       /\ ~Session(c).lost => Matches(c, Session(c).queue)
  <2>1. call.op # "close"
    BY <1>3, Zenon
  <2> QED
    BY <2>1, SessionFound, Zenon
<1>15. s # None /\ b # None /\ c # None
  BY <1>3, SlotAssumption, Zenon
<1>16. s \notin Pending(c) /\ Pending(c)' = Pending(c) \cup {s}
  BY <1>3, <1>8, <1>12 DEF Pending, Owned
<1>17. \A d \in Contexts \ {c} : Pending(d)' = Pending(d) /\ s \notin Pending(d)
  BY <1>3, <1>8, <1>12 DEF Pending, Owned
<1>18. FreeSlots'
  BY <1>8, <1>9, <1>10, <1>12 DEF Inv, FreeSlots
<1>19. PendingShape'
  <2>1. ASSUME NEW t \in Surfaces, surfaces'[t].state = "pending"
        PROVE  /\ surfaces'[t].owner # None /\ surfaces'[t].coded # None
               /\ buffers'[surfaces'[t].coded].owner = surfaces'[t].owner
    <3>1. CASE t = s
      BY <1>8, <1>9, <1>12, <1>15, <3>1, Zenon
    <3>2. CASE t # s
      <4>1. surfaces'[t] = surfaces[t] /\ surfaces[t].coded \in Buffers \cup {None}
        BY <1>6, <1>12, <3>2, Zenon DEF SurfaceEntries
      <4>2. \A a \in Buffers : buffers'[a].owner = buffers[a].owner
        BY <1>3, <1>9, <1>12, Zenon
      <4> QED
        BY <2>1, <4>1, <4>2, Zenon DEF Inv, PendingShape
    <3> QED
      BY <3>1, <3>2, Zenon
  <2>2. ASSUME NEW d \in Contexts, contexts'[d].active
        PROVE  /\ contexts'[d].target # None
               /\ surfaces'[contexts'[d].target].owner = d
                     => surfaces'[contexts'[d].target].state # "pending"
    <3>1. d # c /\ contexts'[d] = contexts[d] /\ contexts[d].active
      BY <1>10, <1>12, <2>2, Zenon
    <3>2. contexts[d].target \in Surfaces
      BY <1>6, <3>1, Zenon DEF Inv, PendingShape, ContextEntries
    <3> QED
      BY <1>8, <1>12, <3>1, <3>2 DEF Inv, PendingShape
  <2> QED
    BY <2>1, <2>2, Zenon DEF PendingShape
<1>20. CallShape'
  BY <1>5, <1>3, Zenon DEF Inv, CallShape
<1>21. FramesGiven'
  <2>1. \A t \in Surfaces \ {s} : surfaces'[t].frame <= frames /\ surfaces'[t].frame \in Nat
    BY <1>7, <1>12, Zenon DEF Inv, FramesGiven
  <2>2. \A t \in Surfaces : surfaces'[t].frame <= frames'
    BY <1>5, <1>6, <1>8, <1>12, <2>1
  <2>3. \A i \in 1..Len(n.queue) : n.queue[i] <= frames'
    <3>1. Session(c).queue \in Seq(Nat)
      BY SessionIs, Zenon DEF Inv, Sessions
    <3> QED
      BY <1>5, <1>6, <1>11, <1>14, <3>1
  <2>4. \A d \in Contexts \ {c} : \A i \in 1..Len(broker[d].queue) : broker[d].queue[i] <= frames'
    <3>1. \A d \in Contexts : \A i \in 1..Len(broker[d].queue) : broker[d].queue[i] \in Nat
      BY <1>6 DEF Sessions
    <3> QED
      BY <1>5, <1>6, <3>1 DEF Inv, FramesGiven
  <2>5. \A d \in Contexts : \A i \in 1..Len(broker'[d].queue) : broker'[d].queue[i] <= frames'
    BY <1>12, <2>3, <2>4, Zenon
  <2>6. \A t, u \in Surfaces :
          surfaces'[t].state = "pending" /\ surfaces'[u].state = "pending"
             /\ surfaces'[t].frame = surfaces'[u].frame => t = u
    BY <1>6, <1>8, <1>12, <2>1 DEF Inv, FramesGiven
  <2> QED
    BY <2>2, <2>5, <2>6, Zenon DEF FramesGiven
<1>22. InOrder'
  <2>1. \A d \in Contexts \ {c} : \A t \in Pending(d) : surfaces'[t].frame = surfaces[t].frame
    BY <1>12, <1>17, Zenon DEF Pending, Owned
  <2>2. \A d \in Contexts \ {c} : Matched(d) => Matched(d)'
    BY <1>12, <1>17, <2>1, MatchedKept, Zenon
  <2>3. ASSUME ~n.lost PROVE Matched(c)'
    <3> DEFINE m == Session(c).queue
    <3>1. m \in Seq(Nat) /\ Matches(c, m)
      BY <1>11, <1>14, <2>3, SessionIs, Zenon DEF Inv, Sessions
    <3>2. \A t \in Pending(c) : surfaces'[t].frame = surfaces[t].frame
      BY <1>12, <1>16, Zenon DEF Pending, Owned
    <3> HIDE DEF m
    <3>3. /\ Len(n.queue) = Len(m) + 1 /\ Len(m) \in Nat
          /\ \A i \in 1..Len(m) : n.queue[i] = m[i] /\ m[i] \in Nat /\ m[i] <= frames
          /\ n.queue[Len(m) + 1] = frames + 1
      <4>1. n.queue = Append(m, frames + 1) /\ \A i \in 1..Len(m) : m[i] <= frames
        BY <1>11, <1>14, <2>3, Zenon DEF m
      <4> QED
        BY <1>6, <3>1, <4>1
    <3>4. Increasing(n.queue)
      <4>1. \A i, j \in 1..Len(m) : i < j => m[i] < m[j]
        BY <3>1, Zenon DEF Increasing, Matches
      <4>2. ASSUME NEW i \in 1..Len(n.queue), NEW j \in 1..Len(n.queue), i < j
            PROVE  n.queue[i] < n.queue[j]
        <5>1. i \in 1..Len(m) /\ (j \in 1..Len(m) \/ j = Len(m) + 1)
          BY <3>3, <4>2
        <5> QED
          BY <1>6, <3>3, <4>1, <4>2, <5>1
      <4> QED
        BY <4>2, Zenon DEF Increasing
    <3>5. \A i \in 1..Len(n.queue) : \E t \in Pending(c) \cup {s} : surfaces'[t].frame = n.queue[i]
      <4>1. ASSUME NEW i \in 1..Len(m)
            PROVE  \E t \in Pending(c) \cup {s} : surfaces'[t].frame = n.queue[i]
        BY <3>1, <3>2, <3>3 DEF Matches
      <4>2. surfaces'[s].frame = n.queue[Len(m) + 1]
        BY <1>8, <1>12, <3>3, Zenon
      <4> QED
        BY <3>3, <4>1, <4>2
    <3>6. \A t \in Pending(c) \cup {s} : \E i \in 1..Len(n.queue) : surfaces'[t].frame = n.queue[i]
      <4>1. ASSUME NEW t \in Pending(c)
            PROVE  \E i \in 1..Len(n.queue) : surfaces'[t].frame = n.queue[i]
        <5>1. PICK i \in 1..Len(m) : surfaces[t].frame = m[i]
          BY <3>1, Zenon DEF Matches
        <5>2. i \in 1..Len(n.queue)
          BY <3>3
        <5> QED
          BY <3>2, <3>3, <5>1, <5>2, Zenon
      <4>2. surfaces'[s].frame = n.queue[Len(m) + 1] /\ Len(m) + 1 \in 1..Len(n.queue)
        BY <1>8, <1>12, <3>3
      <4> QED
        BY <4>1, <4>2, Zenon
    <3> QED
      BY <1>12, <1>16, <3>4, <3>5, <3>6, Zenon DEF Matched, Matches, Increasing
  <2>4. \A d \in Contexts \ {c} : contexts'[d] = contexts[d] /\ broker'[d] = broker[d]
    BY <1>12, Zenon
  <2> QED
    BY <1>5, <1>12, <2>2, <2>3, <2>4, Zenon DEF Inv, InOrder
<1>23. PendingCounted'
  <2>1. \A d \in Contexts \ {c} :
          /\ contexts'[d].pending = Cardinality(Pending(d))'
          /\ contexts'[d].pending > 0 => contexts'[d].used /\ contexts'[d].open
    BY <1>12, <1>17, Zenon DEF Inv, PendingCounted
  <2>2. contexts'[c].pending = Cardinality(Pending(c))'
    <3>1. Cardinality(Pending(c) \cup {s}) = Cardinality(Pending(c)) + 1
      BY <1>16, PendingFinite, FS_AddElement, Zenon
    <3>2. contexts[c].pending = Cardinality(Pending(c))
      BY Zenon DEF Inv, PendingCounted
    <3> QED
      BY <1>10, <1>12, <1>16, <3>1, <3>2, Zenon
  <2>3. contexts'[c].used /\ contexts'[c].open
    BY <1>10, <1>12, Zenon
  <2> QED
    BY <2>1, <2>2, <2>3, Zenon DEF PendingCounted
<1>24. BufferAwaitsItsSurface'
  <2>1. ASSUME NEW a \in Buffers, NEW t \in Surfaces
        PROVE  (buffers'[a].pending = t)
                  <=> (surfaces'[t].state = "pending" /\ surfaces'[t].coded = a)
    <3>1. (buffers[a].pending = t) <=> (surfaces[t].state = "pending" /\ surfaces[t].coded = a)
      BY Zenon DEF Inv, BufferAwaitsItsSurface
    <3>2. CASE a = b /\ t = s
      BY <1>8, <1>9, <1>12, <3>2, Zenon
    <3>3. CASE a = b /\ t # s
      BY <1>3, <1>9, <1>12, <1>15, <3>1, <3>3, SlotAssumption, Zenon
    <3>4. CASE a # b /\ t = s
      BY <1>3, <1>8, <1>12, <3>1, <3>4, Zenon
    <3>5. CASE a # b /\ t # s
      BY <1>12, <3>1, <3>5, Zenon
    <3> QED
      BY <3>2, <3>3, <3>4, <3>5, Zenon
  <2> QED
    BY <2>1, Zenon DEF BufferAwaitsItsSurface
<1>25. RegistrationLive'
  <2>1. \A t \in Surfaces : surfaces[t].registered =>
           surfaces[t].owner # None /\ contexts[surfaces[t].owner].open
    BY Zenon DEF Inv, RegistrationLive
  <2>2. \A t \in Surfaces : surfaces'[t].registered =>
           surfaces'[t].owner # None /\ contexts'[surfaces'[t].owner].open
    BY <1>7, <1>8, <1>10, <1>12, <1>15, <2>1
  <2>3. \A t \in Surfaces : t \in broker'[c].regs <=>
           surfaces'[t].registered /\ surfaces'[t].owner = c
    BY <1>8, <1>11, <1>12, <1>14
  <2>4. \A d \in Contexts \ {c} : contexts'[d].open => s \notin broker'[d].regs
    BY <1>1, <1>3, <1>12, SlotAssumption DEF Inv, RegistrationLive
  <2>5. \A d \in Contexts \ {c}, t \in Surfaces : contexts'[d].open =>
           (t \in broker'[d].regs <=> surfaces'[t].registered /\ surfaces'[t].owner = d)
    BY <1>8, <1>12, <2>4 DEF Inv, RegistrationLive
  <2> QED
    BY <2>2, <2>3, <2>5, Zenon DEF RegistrationLive
<1>26. ReleasedBeforeReuse'
  BY <1>8, <1>12, Zenon DEF Inv, ReleasedBeforeReuse
<1> QED
  BY <1>13, <1>18, <1>19, <1>20, <1>21, <1>22, <1>23, <1>24, <1>25, <1>26, Zenon DEF Inv
-----------------------------------------------------------------------------
(* Outputs and failures                                                    *)

(* mark_context_pending_error, entry by entry.                             *)
LEMMA MarkIs ==
    ASSUME Types, NEW c \in Contexts, NEW waited, mark_context_pending_error(c, waited)
    PROVE  /\ surfaces' \in [Surfaces -> SurfaceEntries]
           /\ buffers' \in [Buffers -> BufferEntries]
           /\ contexts' \in [Contexts -> ContextEntries]
           /\ \A s \in Pending(c) :
                 /\ surfaces'[s].used = surfaces[s].used /\ surfaces'[s].owner = surfaces[s].owner
                 /\ surfaces'[s].state = "error" /\ surfaces'[s].frame = surfaces[s].frame
                 /\ surfaces'[s].registered = surfaces[s].registered
           /\ \A s \in Surfaces \ Pending(c) : surfaces'[s] = surfaces[s]
           /\ \A b \in Buffers :
                 /\ buffers'[b].used = buffers[b].used /\ buffers'[b].owner = buffers[b].owner
                 /\ b \in {surfaces[s].coded : s \in Pending(c)} => buffers'[b].pending = None
                 /\ b \notin {surfaces[s].coded : s \in Pending(c)} => buffers'[b] = buffers[b]
           /\ contexts'[c].pending = 0
           /\ contexts'[c].used = contexts[c].used /\ contexts'[c].active = contexts[c].active
           /\ contexts'[c].target = contexts[c].target /\ contexts'[c].open = contexts[c].open
           /\ \A d \in Contexts \ {c} : contexts'[d] = contexts[d]
<1> DEFINE x(s) == surfaces[s].fence /\ s \notin waited
           r(s) == [surfaces[s] EXCEPT !.state = "error", !.fence = x(s)]
           v(b) == [buffers[b] EXCEPT !.pending = None]
           q == [contexts[c] EXCEPT !.pending = 0]
           W == {surfaces[s].coded : s \in Pending(c)}
<1>1. /\ surfaces' = [s \in Surfaces |-> IF s \in Pending(c) THEN r(s) ELSE surfaces[s]]
      /\ buffers' = [b \in Buffers |-> IF b \in W THEN v(b) ELSE buffers[b]]
      /\ contexts' = [contexts EXCEPT ![c].pending = 0]
  BY Zenon DEF mark_context_pending_error
<1>2. /\ contexts \in [Contexts -> ContextEntries] /\ contexts[c] \in ContextEntries
      /\ \A s \in Surfaces : surfaces[s] \in SurfaceEntries
      /\ \A b \in Buffers : buffers[b] \in BufferEntries
  BY Zenon DEF Types
<1>3. Pending(c) \subseteq Surfaces
  BY Zenon DEF Pending, Owned
<1>4. contexts' = [contexts EXCEPT ![c] = q]
  BY <1>1, <1>2, Zenon
<1>5. /\ q \in ContextEntries /\ q.pending = 0
      /\ q.used = contexts[c].used /\ q.active = contexts[c].active
      /\ q.target = contexts[c].target /\ q.open = contexts[c].open
  <2>1. 0 \in Nat
    BY Zenon
  <2>2. q \in ContextEntries
    BY <1>2, <2>1, Zenon DEF ContextEntries
  <2>3. /\ q.pending = 0 /\ q.used = contexts[c].used /\ q.active = contexts[c].active
        /\ q.target = contexts[c].target /\ q.open = contexts[c].open
    BY <1>2, Zenon DEF ContextEntries
  <2> QED
    BY <2>2, <2>3, Zenon
<1>17. \A s : x(s) \in BOOLEAN
  BY Zenon
<1> HIDE DEF x
<1>6. \A s \in Surfaces : r(s) \in SurfaceEntries
  BY <1>2, <1>17, Zenon DEF SurfaceEntries
<1>7. \A s \in Surfaces :
        /\ r(s).used = surfaces[s].used /\ r(s).owner = surfaces[s].owner
        /\ r(s).state = "error" /\ r(s).frame = surfaces[s].frame
        /\ r(s).registered = surfaces[s].registered
  BY <1>2, Zenon DEF SurfaceEntries
<1>8. \A b \in Buffers : v(b) \in BufferEntries
  BY <1>2, Zenon DEF BufferEntries
<1>9. \A b \in Buffers :
        v(b).used = buffers[b].used /\ v(b).owner = buffers[b].owner /\ v(b).pending = None
  BY <1>2, Zenon DEF BufferEntries
<1> HIDE DEF r, v, q, W
<1>10. surfaces' \in [Surfaces -> SurfaceEntries] /\ buffers' \in [Buffers -> BufferEntries]
  BY <1>1, <1>2, <1>6, <1>8, Zenon
<1>11. contexts' \in [Contexts -> ContextEntries]
  BY <1>2, <1>4, <1>5, Zenon
<1>12. /\ contexts'[c] = q /\ \A d \in Contexts \ {c} : contexts'[d] = contexts[d]
  BY <1>2, <1>4, Zenon
<1>13. /\ \A s \in Pending(c) : surfaces'[s] = r(s)
       /\ \A s \in Surfaces \ Pending(c) : surfaces'[s] = surfaces[s]
  BY <1>1, <1>3, Zenon
<1>14. /\ \A b \in Buffers : b \in W => buffers'[b] = v(b)
       /\ \A b \in Buffers : b \notin W => buffers'[b] = buffers[b]
  BY <1>1, Zenon
<1>15. \A b \in Buffers :
         /\ buffers'[b].used = buffers[b].used /\ buffers'[b].owner = buffers[b].owner
         /\ b \in W => buffers'[b].pending = None
         /\ b \notin W => buffers'[b] = buffers[b]
  BY <1>9, <1>14, Zenon
<1>16. \A s \in Pending(c) :
         /\ surfaces'[s].used = surfaces[s].used /\ surfaces'[s].owner = surfaces[s].owner
         /\ surfaces'[s].state = "error" /\ surfaces'[s].frame = surfaces[s].frame
         /\ surfaces'[s].registered = surfaces[s].registered
  BY <1>3, <1>7, <1>13, Zenon
<1> QED
  BY <1>5, <1>10, <1>11, <1>12, <1>13, <1>15, <1>16, Zenon DEF W
(* A session whose pictures are given up keeps its registrations, and is   *)
(* lost or about to be closed.                                             *)
GivenUp(c) ==
    /\ broker' \in [Contexts -> Sessions]
    /\ \A d \in Contexts \ {c} : broker'[d] = broker[d]
    /\ broker'[c].regs = broker[c].regs
    /\ \A i \in 1..Len(broker'[c].queue) : broker'[c].queue[i] <= frames
    /\ broker'[c].lost \/ (call'.op = "close" /\ call'.context = c)

LEMMA MarkKeeps ==
    ASSUME Inv, NEW c \in Contexts, NEW waited, mark_context_pending_error(c, waited),
           GivenUp(c),
           frames' = frames, frame_session' = frame_session,
           call' \in Calls, call.op # "close",
           call'.op # "none" => call'.context = c,
           call'.op # "sync"
    PROVE  Inv'
<1>1. /\ surfaces' \in [Surfaces -> SurfaceEntries]
      /\ buffers' \in [Buffers -> BufferEntries]
      /\ contexts' \in [Contexts -> ContextEntries]
  BY MarkIs, Zenon DEF Inv
<1>2. /\ \A s \in Pending(c) :
            /\ surfaces'[s].used = surfaces[s].used /\ surfaces'[s].owner = surfaces[s].owner
            /\ surfaces'[s].state = "error" /\ surfaces'[s].frame = surfaces[s].frame
            /\ surfaces'[s].registered = surfaces[s].registered
      /\ \A s \in Surfaces \ Pending(c) : surfaces'[s] = surfaces[s]
  BY MarkIs, Zenon DEF Inv
<1>3. \A b \in Buffers :
        /\ buffers'[b].used = buffers[b].used /\ buffers'[b].owner = buffers[b].owner
        /\ b \in {surfaces[s].coded : s \in Pending(c)} => buffers'[b].pending = None
        /\ b \notin {surfaces[s].coded : s \in Pending(c)} => buffers'[b] = buffers[b]
  BY MarkIs, Zenon DEF Inv
<1>4. /\ contexts'[c].pending = 0
      /\ contexts'[c].used = contexts[c].used /\ contexts'[c].active = contexts[c].active
      /\ contexts'[c].target = contexts[c].target /\ contexts'[c].open = contexts[c].open
      /\ \A d \in Contexts \ {c} : contexts'[d] = contexts[d]
  BY MarkIs, Zenon DEF Inv
<1>5. \A s \in Surfaces :
        /\ surfaces'[s].used = surfaces[s].used /\ surfaces'[s].owner = surfaces[s].owner
        /\ surfaces'[s].frame = surfaces[s].frame
        /\ surfaces'[s].registered = surfaces[s].registered
        /\ s \in Pending(c) => surfaces'[s].state = "error"
        /\ s \notin Pending(c) => surfaces'[s].state = surfaces[s].state
  BY <1>2, Zenon
<1>6. \A s \in Surfaces : s \in Pending(c) <=>
        surfaces[s].used /\ surfaces[s].owner = c /\ surfaces[s].state = "pending"
  BY Zenon DEF Pending, Owned
<1>7. \A s \in Surfaces : surfaces[s].state = "pending" =>
        surfaces[s].used /\ surfaces[s].coded \in Buffers /\ buffers[surfaces[s].coded].pending = s
  <2>1. \A s \in Surfaces : surfaces[s].coded \in Buffers \cup {None}
    BY Zenon DEF Inv, Types, SurfaceEntries
  <2>2. \A s \in Surfaces : surfaces[s].state = "pending" => surfaces[s].used
    BY Zenon DEF Inv, FreeSlots
  <2> QED
    BY <2>1, <2>2, Zenon DEF Inv, PendingShape, BufferAwaitsItsSurface
<1>8. \A s \in Surfaces : surfaces'[s].state = "pending" =>
        s \notin Pending(c) /\ surfaces[s].state = "pending"
  BY <1>5, Zenon
<1>9. Types'
  BY <1>1, Zenon DEF Inv, Types, GivenUp
<1>10. Pending(c)' = {}
  <2>1. \A s \in Surfaces : ~(surfaces'[s].used /\ surfaces'[s].owner = c /\ surfaces'[s].state = "pending")
    BY <1>5, <1>6, <1>8, Zenon
  <2> QED
    BY <2>1, Zenon DEF Pending, Owned
<1>11. \A d \in Contexts \ {c} : Pending(d)' = Pending(d)
  <2>1. ASSUME NEW d \in Contexts \ {c}, NEW s \in Surfaces, surfaces[s].owner = d
        PROVE  surfaces'[s] = surfaces[s]
    BY <1>2, <1>6, <2>1, Zenon
  <2> QED
    BY <1>5, <2>1, Zenon DEF Pending, Owned
<1>12. FreeSlots'
  <2>1. \A s \in Surfaces : surfaces[s].state = "pending" => surfaces[s].used
    BY <1>7, Zenon
  <2>2. \A b \in Buffers : buffers[b].pending = None => buffers'[b].pending = None
    BY <1>3, Zenon
  <2> QED
    BY <1>3, <1>4, <1>5, <1>6, <2>1, <2>2 DEF Inv, FreeSlots
<1>13. PendingShape'
  <2>1. ASSUME NEW s \in Surfaces, surfaces'[s].state = "pending"
        PROVE  /\ surfaces'[s].owner # None /\ surfaces'[s].coded # None
               /\ buffers'[surfaces'[s].coded].owner = surfaces'[s].owner
    <3>1. surfaces'[s] = surfaces[s] /\ surfaces[s].state = "pending"
      BY <1>2, <1>8, <2>1, Zenon
    <3> QED
      BY <1>3, <1>7, <3>1 DEF Inv, PendingShape
  <2>2. ASSUME NEW d \in Contexts, contexts'[d].active
        PROVE  /\ contexts'[d].target # None
               /\ surfaces'[contexts'[d].target].owner = d
                     => surfaces'[contexts'[d].target].state # "pending"
    <3>1. contexts'[d].target = contexts[d].target /\ contexts[d].active
      BY <1>4, <2>2, Zenon
    <3>2. contexts[d].target \in Surfaces
      BY <3>1, Zenon DEF Inv, Types, PendingShape, ContextEntries
    <3> QED
      BY <1>5, <1>8, <3>1, <3>2 DEF Inv, PendingShape
  <2> QED
    BY <2>1, <2>2, Zenon DEF PendingShape
<1>14. CallShape'
  <2>1. c # None
    BY SlotAssumption, Zenon
  <2> QED
    BY <1>4, <2>1, Zenon DEF CallShape
<1>15. FramesGiven'
  <2>1. \A d \in Contexts : \A i \in 1..Len(broker'[d].queue) : broker'[d].queue[i] <= frames
    BY Zenon DEF Inv, FramesGiven, GivenUp
  <2> QED
    BY <1>5, <1>8, <2>1 DEF Inv, FramesGiven
<1>16. InOrder'
  <2>1. \A d \in Contexts \ {c} : \A t \in Pending(d) : surfaces'[t].frame = surfaces[t].frame
    BY <1>5, Zenon DEF Pending, Owned
  <2>2. \A d \in Contexts \ {c} : broker'[d] = broker[d]
    BY Zenon DEF GivenUp
  <2>3. \A d \in Contexts \ {c} : Matched(d) => Matched(d)'
    BY <1>11, <2>1, <2>2, MatchedKept, Zenon
  <2>4. broker'[c].lost \/ (call'.op = "close" /\ call'.context = c)
    BY Zenon DEF GivenUp
  <2> QED
    BY <1>4, <2>2, <2>3, <2>4, Zenon DEF Inv, InOrder
<1>17. PendingCounted'
  <2>1. Cardinality(Pending(c)') = 0
    BY <1>10, FS_EmptySet, Zenon
  <2>2. \A d \in Contexts \ {c} :
          /\ contexts'[d].pending = Cardinality(Pending(d))'
          /\ contexts'[d].pending > 0 => contexts'[d].used /\ contexts'[d].open
    BY <1>4, <1>11, Zenon DEF Inv, PendingCounted
  <2>3. ~(contexts'[c].pending > 0)
    BY <1>4
  <2> QED
    BY <1>4, <2>1, <2>2, <2>3, Zenon DEF PendingCounted
<1>18. BufferAwaitsItsSurface'
  <2>1. ASSUME NEW b \in Buffers, NEW s \in Surfaces
        PROVE  (buffers'[b].pending = s)
                  <=> (surfaces'[s].state = "pending" /\ surfaces'[s].coded = b)
    <3>1. (buffers[b].pending = s) <=> (surfaces[s].state = "pending" /\ surfaces[s].coded = b)
      BY Zenon DEF Inv, BufferAwaitsItsSurface
    <3>2. s # None
      BY SlotAssumption, Zenon
    <3>3. CASE s \in Pending(c)
      <4>1. surfaces'[s].state # "pending"
        BY <1>8, <3>3, Zenon
      <4>2. buffers[b].pending = s => b \in {surfaces[t].coded : t \in Pending(c)}
        BY <3>1, <3>3, Zenon
      <4> QED
        BY <1>3, <3>2, <4>1, <4>2, Zenon
    <3>4. CASE s \notin Pending(c)
      <4>1. surfaces'[s] = surfaces[s]
        BY <1>2, <3>4, Zenon
      <4>2. b \in {surfaces[t].coded : t \in Pending(c)} => buffers[b].pending # s
        <5>1. ASSUME NEW t \in Pending(c), surfaces[t].coded = b PROVE buffers[b].pending # s
          <6>1. t \in Surfaces /\ surfaces[t].state = "pending"
            BY Zenon DEF Pending, Owned
          <6> QED
            BY <1>7, <3>4, <5>1, <6>1, Zenon
        <5> QED
          BY <5>1, Zenon
      <4> QED
        BY <1>3, <3>1, <3>2, <4>1, <4>2, Zenon
    <3> QED
      BY <3>3, <3>4, Zenon
  <2> QED
    BY <2>1, Zenon DEF BufferAwaitsItsSurface
<1>19. RegistrationLive'
  <2>1. \A d \in Contexts : broker'[d].regs = broker[d].regs /\ contexts'[d].open = contexts[d].open
    BY <1>4, Zenon DEF GivenUp
  <2>2. \A s \in Surfaces : surfaces[s].owner \in Contexts \cup {None}
    BY Zenon DEF Inv, Types, SurfaceEntries
  <2> QED
    BY <1>5, <2>1, <2>2 DEF Inv, RegistrationLive
<1>20. ReleasedBeforeReuse'
  <2>1. \A s \in Surfaces : surfaces'[s].state \in {"idle", "ready"} => surfaces'[s] = surfaces[s]
    BY <1>2, Zenon
  <2> QED
    BY <2>1, Zenon DEF Inv, ReleasedBeforeReuse
<1> QED
  BY <1>9, <1>12, <1>13, <1>14, <1>15, <1>16, <1>17, <1>18, <1>19, <1>20, Zenon DEF Inv
(* A session that loses its oldest frame, or none, is not trusted any more.*)
SessionLost(c) ==
    /\ broker' \in [Contexts -> Sessions]
    /\ \A d \in Contexts \ {c} : broker'[d] = broker[d]
    /\ broker'[c].regs = broker[c].regs
    /\ \A i \in 1..Len(broker'[c].queue) : broker'[c].queue[i] <= frames
    /\ broker'[c].lost

LEMMA LostIs ==
    ASSUME Inv, NEW c \in Contexts, NEW n \in Sessions,
           n.queue = broker[c].queue \/ (broker[c].queue # <<>> /\ n.queue = Tail(broker[c].queue)),
           n.lost, n.regs = broker[c].regs,
           broker' = [broker EXCEPT ![c] = n]
    PROVE  SessionLost(c)
<1>1. broker \in [Contexts -> Sessions] /\ broker[c] \in Sessions
  BY Zenon DEF Inv, Types
<1>2. broker[c].queue \in Seq(Nat)
  BY <1>1, Zenon DEF Sessions
<1>3. \A i \in 1..Len(broker[c].queue) : broker[c].queue[i] <= frames
  BY Zenon DEF Inv, FramesGiven
<1>4. \A i \in 1..Len(n.queue) : n.queue[i] <= frames
  <2>1. CASE n.queue = broker[c].queue
    BY <1>3, <2>1, Zenon
  <2>2. CASE broker[c].queue # <<>> /\ n.queue = Tail(broker[c].queue)
    <3>1. /\ Len(n.queue) = Len(broker[c].queue) - 1
          /\ \A i \in 1..Len(n.queue) : n.queue[i] = broker[c].queue[i + 1]
      BY <1>2, <2>2
    <3>2. Len(broker[c].queue) \in Nat
      BY <1>2
    <3> QED
      BY <1>3, <3>1, <3>2
  <2> QED
    BY <2>1, <2>2, Zenon
<1>5. broker' \in [Contexts -> Sessions]
  BY <1>1, Zenon
<1>6. broker'[c] = n /\ \A d \in Contexts \ {c} : broker'[d] = broker[d]
  BY <1>1, Zenon
<1> QED
  BY <1>4, <1>5, <1>6, Zenon DEF SessionLost

(* The output left the session and was dropped.                            *)
LEMMA TailLost ==
    ASSUME Inv, NEW c \in Contexts, NEW e, broker[c].queue # <<>>,
           broker' = [broker EXCEPT ![c].queue = Tail(@), ![c].lost = TRUE,
                                    ![c].ended = @ \/ e]
    PROVE  SessionLost(c)
<1> DEFINE x == broker[c].ended \/ e
           n == [broker[c] EXCEPT !.queue = Tail(broker[c].queue), !.lost = TRUE, !.ended = x]
<1>1. broker \in [Contexts -> Sessions] /\ broker[c] \in Sessions
  BY Zenon DEF Inv, Types
<1>2. broker' = [broker EXCEPT ![c] = n]
  BY <1>1, Zenon
<1>3. x \in BOOLEAN
  BY Zenon
<1> HIDE DEF x
<1>4. Tail(broker[c].queue) \in Seq(Nat)
  BY <1>1 DEF Sessions
<1>5. n \in Sessions
  BY <1>1, <1>3, <1>4, Zenon DEF Sessions
<1>6. n.queue = Tail(broker[c].queue) /\ n.lost /\ n.regs = broker[c].regs
  BY <1>1, Zenon DEF Sessions
<1> HIDE DEF n
<1> QED
  BY <1>2, <1>5, <1>6, LostIs, Zenon

(* The receive failed without an output, or with an empty one.             *)
LEMMA EmptyLost ==
    ASSUME Inv, NEW c \in Contexts,
           \/ broker' = [broker EXCEPT ![c].lost = TRUE]
           \/ broker' = [broker EXCEPT ![c].ended = TRUE, ![c].lost = TRUE]
    PROVE  SessionLost(c)
<1> DEFINE m == [broker[c] EXCEPT !.lost = TRUE]
           n == [broker[c] EXCEPT !.ended = TRUE, !.lost = TRUE]
<1>1. broker \in [Contexts -> Sessions] /\ broker[c] \in Sessions
  BY Zenon DEF Inv, Types
<1>2. broker' = [broker EXCEPT ![c] = m] \/ broker' = [broker EXCEPT ![c] = n]
  BY <1>1, Zenon
<1>3. /\ m \in Sessions /\ m.queue = broker[c].queue /\ m.lost /\ m.regs = broker[c].regs
      /\ n \in Sessions /\ n.queue = broker[c].queue /\ n.lost /\ n.regs = broker[c].regs
  BY <1>1, Zenon DEF Sessions
<1> HIDE DEF m, n
<1> QED
  BY <1>2, <1>3, LostIs, Zenon

LEMMA ReceiveFailsKeeps ==
    ASSUME Inv, NEW c \in Contexts, NEW poll, ReceiveFails(c, poll),
           call.op # "close", call' \in {NoCall, Closing("abandon", c)},
           frames' = frames, frame_session' = frame_session
    PROVE  Inv'
<1>1. PICK waited : mark_context_pending_error(c, waited)
  BY Zenon DEF ReceiveFails
<1>2. SessionLost(c)
  BY TailLost, EmptyLost, Zenon DEF ReceiveFails
<1>3. GivenUp(c)
  BY <1>2, Zenon DEF SessionLost, GivenUp
<1>4. /\ call' \in Calls /\ call'.op \in {"none", "abandon"}
      /\ call'.op # "none" => call'.context = c
  BY ClosingIs, NoCallIs
<1>5. call'.op # "sync"
  BY <1>4, Zenon
<1> QED
  BY <1>1, <1>3, <1>4, <1>5, MarkKeeps, Zenon

LEMMA FenceTimesOutKeeps ==
    ASSUME Inv, NEW c \in Contexts, FenceTimesOut(c),
           call.op # "close", call' \in {NoCall, Closing("abandon", c)},
           frames' = frames, frame_session' = frame_session
    PROVE  Inv'
<1>1. contexts' = contexts /\ surfaces' = surfaces /\ buffers' = buffers
  BY Zenon DEF FenceTimesOut
<1>2. SessionLost(c)
  BY TailLost, Zenon DEF FenceTimesOut
<1>3. call' \in Calls /\ CallShape' /\ call'.op # "close"
  <2>1. /\ call' \in Calls /\ call'.op \in {"none", "abandon"}
        /\ call'.op # "none" => call'.context = c
    BY ClosingIs, NoCallIs
  <2> QED
    BY <2>1, SlotAssumption, Zenon DEF CallShape
<1>4. Types'
  BY <1>1, <1>2, <1>3, Zenon DEF Inv, Types, SessionLost
<1> QED
  BY <1>1, <1>2, <1>3, <1>4, SessionChanges, Zenon DEF SessionLost

LEMMA AbandonKeeps ==
    ASSUME Inv, Abandon
    PROVE  Inv'
<1> DEFINE c == call.context
<1>1. /\ call.op = "abandon" /\ mark_context_pending_error(c, {})
      /\ call' = Closing("close", c)
      /\ broker' = broker /\ frames' = frames /\ frame_session' = frame_session
  BY Zenon DEF Abandon, setup
<1>2. c \in Contexts
  BY <1>1, Zenon DEF Inv, Types, Calls, CallShape
<1>3. call' \in Calls /\ call'.op = "close" /\ call'.context = c
  BY <1>1, <1>2, ClosingIs, Zenon
<1> HIDE DEF c
<1>4. GivenUp(c)
  BY <1>1, <1>2, <1>3, Zenon DEF Inv, Types, FramesGiven, GivenUp
<1>5. call.op # "close" /\ call'.op # "sync"
  BY <1>1, <1>3, Zenon
<1> QED
  BY <1>1, <1>2, <1>3, <1>4, <1>5, MarkKeeps, Zenon
(* An output completes the picture of surface done and buffer b; closes    *)
(* tells whether the session goes with it.                                 *)
Completes(c, done, b, closes) ==
    /\ surfaces' \in [Surfaces -> SurfaceEntries]
    /\ \A s \in Surfaces :
          /\ surfaces'[s].used = surfaces[s].used /\ surfaces'[s].owner = surfaces[s].owner
          /\ surfaces'[s].coded = surfaces[s].coded /\ surfaces'[s].frame = surfaces[s].frame
          /\ s # done => surfaces'[s].state = surfaces[s].state /\ surfaces'[s].fence = surfaces[s].fence
          /\ surfaces'[s].registered <=> surfaces[s].registered /\ ~(closes /\ s \in Owned(c))
    /\ surfaces'[done].state = "ready" /\ ~surfaces'[done].fence
    /\ buffers' \in [Buffers -> BufferEntries]
    /\ \A a \in Buffers \ {b} : buffers'[a] = buffers[a]
    /\ buffers'[b].used = buffers[b].used /\ buffers'[b].owner = buffers[b].owner
    /\ buffers'[b].pending = None
    /\ buffers'[b].output = [frame |-> Head(broker[c].queue), stamp |-> surfaces[done].frame]
    /\ contexts' \in [Contexts -> ContextEntries]
    /\ \A d \in Contexts \ {c} : contexts'[d] = contexts[d]
    /\ contexts'[c].used = contexts[c].used /\ contexts'[c].active = contexts[c].active
    /\ contexts'[c].target = contexts[c].target
    /\ contexts'[c].pending = contexts[c].pending - 1
    /\ contexts'[c].open <=> contexts[c].open /\ ~closes
    /\ broker' \in [Contexts -> Sessions]
    /\ \A d \in Contexts \ {c} : broker'[d] = broker[d]
    /\ closes => broker'[c] = NewSession
    /\ ~closes => /\ broker'[c].queue = Tail(broker[c].queue)
                  /\ broker'[c].regs = broker[c].regs
                  /\ broker'[c].lost = broker[c].lost

(* The picture that completes is the oldest, and its buffer awaits it.     *)
LEMMA CompletedIs ==
    ASSUME Inv, NEW c \in Contexts, contexts[c].pending > 0,
           NEW done, done = find_oldest_pending_surface(c)
    PROVE  /\ done \in Surfaces /\ done \in Pending(c)
           /\ surfaces[done].used /\ surfaces[done].owner = c
           /\ surfaces[done].state = "pending"
           /\ surfaces[done].coded \in Buffers
           /\ buffers[surfaces[done].coded].pending = done
           /\ buffers[surfaces[done].coded].owner = c
           /\ \A t \in Pending(c) : surfaces[done].frame <= surfaces[t].frame
<1>1. Pending(c) # {}
  <2>1. contexts[c].pending = Cardinality(Pending(c))
    BY Zenon DEF Inv, PendingCounted
  <2>2. Cardinality(Pending(c)) # 0
    BY <2>1
  <2> QED
    BY <2>2, PendingFinite, Zenon
<1>2. done \in Pending(c) /\ \A t \in Pending(c) : surfaces[done].frame <= surfaces[t].frame
  BY <1>1, OldestIs, Zenon DEF Inv
<1>3. /\ done \in Surfaces /\ surfaces[done].used /\ surfaces[done].owner = c
      /\ surfaces[done].state = "pending"
  BY <1>2, Zenon DEF Pending, Owned
<1>4. surfaces[done].coded \in Buffers
  BY <1>3, Zenon DEF Inv, Types, SurfaceEntries, PendingShape
<1>5. buffers[surfaces[done].coded].pending = done
  BY <1>3, <1>4, Zenon DEF Inv, BufferAwaitsItsSurface
<1>6. buffers[surfaces[done].coded].owner = c
  BY <1>3, Zenon DEF Inv, PendingShape
<1> QED
  BY <1>2, <1>3, <1>4, <1>5, <1>6, Zenon

LEMMA ReceivesIs ==
    ASSUME Inv, NEW c \in Contexts, contexts[c].pending > 0, NEW poll, Receives(c, poll),
           NEW done, done = find_oldest_pending_surface(c)
    PROVE  /\ broker[c].queue # <<>>
           /\ \E closes \in BOOLEAN :
                 /\ Completes(c, done, surfaces[done].coded, closes)
                 /\ closes => contexts[c].pending = 1
<1> DEFINE b == surfaces[done].coded
           closes == contexts[c].framed /\ contexts[c].pending = 1
           output == [frame |-> Head(broker[c].queue), stamp |-> surfaces[done].frame]
<1>1. PICK e \in MayEnd(c) :
        /\ buffers' = [buffers EXCEPT ![b].pending = None, ![b].output = output]
        /\ surfaces' = [s \in Surfaces |-> [surfaces[s] EXCEPT
               !.state = IF s = done THEN "ready" ELSE @,
               !.fence = @ /\ s # done,
               !.registered = @ /\ ~(closes /\ s \in Owned(c))]]
        /\ contexts' = [contexts EXCEPT
               ![c].pending = IF @ > 0 THEN @ - 1 ELSE 0,
               ![c].open = @ /\ ~closes]
        /\ broker' = [broker EXCEPT ![c] =
               IF closes THEN NewSession
               ELSE [broker[c] EXCEPT !.queue = Tail(@), !.ended = @ \/ e]]
  BY Zenon DEF Receives
<1>2. broker[c].queue # <<>> /\ closes \in BOOLEAN /\ (closes => contexts[c].pending = 1)
  BY Zenon DEF Receives
<1>3. done \in Surfaces /\ b \in Buffers
  BY CompletedIs, Zenon
<1>4. /\ contexts \in [Contexts -> ContextEntries] /\ contexts[c] \in ContextEntries
      /\ broker \in [Contexts -> Sessions] /\ broker[c] \in Sessions
      /\ buffers \in [Buffers -> BufferEntries] /\ buffers[b] \in BufferEntries
      /\ \A s \in Surfaces : surfaces[s] \in SurfaceEntries
  BY <1>3, Zenon DEF Inv, Types
<1> HIDE DEF b, closes
<1>5. /\ surfaces' \in [Surfaces -> SurfaceEntries]
      /\ \A s \in Surfaces :
            /\ surfaces'[s].used = surfaces[s].used /\ surfaces'[s].owner = surfaces[s].owner
            /\ surfaces'[s].coded = surfaces[s].coded /\ surfaces'[s].frame = surfaces[s].frame
            /\ s # done => surfaces'[s].state = surfaces[s].state /\ surfaces'[s].fence = surfaces[s].fence
            /\ surfaces'[s].registered <=> surfaces[s].registered /\ ~(closes /\ s \in Owned(c))
      /\ surfaces'[done].state = "ready" /\ ~surfaces'[done].fence
  <2> DEFINE x(s) == IF s = done THEN "ready" ELSE surfaces[s].state
             y(s) == surfaces[s].fence /\ s # done
             z(s) == surfaces[s].registered /\ ~(closes /\ s \in Owned(c))
             r(s) == [surfaces[s] EXCEPT !.state = x(s), !.fence = y(s), !.registered = z(s)]
  <2>1. surfaces' = [s \in Surfaces |-> r(s)]
    BY <1>1, Zenon
  <2>2. ASSUME NEW s \in Surfaces
        PROVE  x(s) \in {"idle", "pending", "ready", "error"} /\ y(s) \in BOOLEAN /\ z(s) \in BOOLEAN
    BY <1>4, Zenon DEF SurfaceEntries
  <2>3. /\ x(done) = "ready" /\ ~y(done)
        /\ \A s \in Surfaces \ {done} : x(s) = surfaces[s].state /\ y(s) = surfaces[s].fence
    <3>1. \A s \in Surfaces : surfaces[s].fence \in BOOLEAN
      BY <1>4, Zenon DEF SurfaceEntries
    <3> QED
      BY <3>1, Zenon
  <2>4. \A s \in Surfaces : z(s) <=> surfaces[s].registered /\ ~(closes /\ s \in Owned(c))
    BY Zenon
  <2> HIDE DEF x, y, z
  <2>5. \A s \in Surfaces : r(s) \in SurfaceEntries
    BY <1>4, <2>2, Zenon DEF SurfaceEntries
  <2>6. \A s \in Surfaces :
          /\ r(s).used = surfaces[s].used /\ r(s).owner = surfaces[s].owner
          /\ r(s).coded = surfaces[s].coded /\ r(s).frame = surfaces[s].frame
          /\ r(s).state = x(s) /\ r(s).fence = y(s) /\ r(s).registered = z(s)
    BY <1>4, Zenon DEF SurfaceEntries
  <2> HIDE DEF r
  <2>7. surfaces' \in [Surfaces -> SurfaceEntries] /\ \A s \in Surfaces : surfaces'[s] = r(s)
    BY <2>1, <2>5, Zenon
  <2> QED
    BY <1>3, <2>3, <2>4, <2>6, <2>7
<1>6. /\ buffers' \in [Buffers -> BufferEntries]
      /\ \A a \in Buffers \ {b} : buffers'[a] = buffers[a]
      /\ buffers'[b].used = buffers[b].used /\ buffers'[b].owner = buffers[b].owner
      /\ buffers'[b].pending = None /\ buffers'[b].output = output
  <2> DEFINE v == [buffers[b] EXCEPT !.pending = None, !.output = output]
  <2>1. buffers' = [buffers EXCEPT ![b] = v]
    BY <1>1, <1>3, <1>4, Zenon
  <2>2. output \in [frame : Nat, stamp : Nat]
    BY <1>2, <1>3, <1>4 DEF Sessions, SurfaceEntries
  <2>3. v \in BufferEntries
    BY <1>4, <2>2, Zenon DEF BufferEntries
  <2>4. /\ v.used = buffers[b].used /\ v.owner = buffers[b].owner
        /\ v.pending = None /\ v.output = output
    BY <1>4, Zenon DEF BufferEntries
  <2> HIDE DEF v
  <2> QED
    BY <1>3, <1>4, <2>1, <2>3, <2>4, Zenon
<1>7. /\ contexts' \in [Contexts -> ContextEntries]
      /\ \A d \in Contexts \ {c} : contexts'[d] = contexts[d]
      /\ contexts'[c].used = contexts[c].used /\ contexts'[c].active = contexts[c].active
      /\ contexts'[c].target = contexts[c].target
      /\ contexts'[c].pending = contexts[c].pending - 1
      /\ contexts'[c].open <=> contexts[c].open /\ ~closes
  <2> DEFINE x == IF contexts[c].pending > 0 THEN contexts[c].pending - 1 ELSE 0
             y == contexts[c].open /\ ~closes
             q == [contexts[c] EXCEPT !.pending = x, !.open = y]
  <2>1. contexts' = [contexts EXCEPT ![c] = q]
    BY <1>1, <1>4, Zenon
  <2>2. x \in Nat /\ x = contexts[c].pending - 1
    BY <1>4 DEF ContextEntries
  <2>3. y \in BOOLEAN /\ (y <=> contexts[c].open /\ ~closes)
    BY Zenon
  <2> HIDE DEF x, y
  <2>4. q \in ContextEntries
    BY <1>4, <2>2, <2>3, Zenon DEF ContextEntries
  <2>5. /\ q.used = contexts[c].used /\ q.active = contexts[c].active
        /\ q.target = contexts[c].target /\ q.pending = x /\ q.open = y
    BY <1>4, Zenon DEF ContextEntries
  <2> HIDE DEF q
  <2>6. contexts'[c] = q /\ \A d \in Contexts \ {c} : contexts'[d] = contexts[d]
    BY <1>4, <2>1, Zenon
  <2>7. contexts' \in [Contexts -> ContextEntries]
    BY <1>4, <2>1, <2>4, Zenon
  <2> QED
    BY <2>2, <2>3, <2>5, <2>6, <2>7, Zenon
<1>8. /\ broker' \in [Contexts -> Sessions]
      /\ \A d \in Contexts \ {c} : broker'[d] = broker[d]
      /\ closes => broker'[c] = NewSession
      /\ ~closes => /\ broker'[c].queue = Tail(broker[c].queue)
                    /\ broker'[c].regs = broker[c].regs
                    /\ broker'[c].lost = broker[c].lost
  <2> DEFINE x == broker[c].ended \/ e
             m == [broker[c] EXCEPT !.queue = Tail(broker[c].queue), !.ended = x]
             n == IF closes THEN NewSession ELSE m
  <2>1. broker' = [broker EXCEPT ![c] = n]
    BY <1>1, <1>4, Zenon
  <2>2. x \in BOOLEAN
    BY Zenon
  <2>3. Tail(broker[c].queue) \in Seq(Nat)
    BY <1>2, <1>4 DEF Sessions
  <2> HIDE DEF x
  <2>4. m \in Sessions
    BY <1>4, <2>2, <2>3, Zenon DEF Sessions
  <2>5. /\ m.queue = Tail(broker[c].queue) /\ m.regs = broker[c].regs
        /\ m.lost = broker[c].lost
    BY <1>4, Zenon DEF Sessions
  <2>6. n \in Sessions
    BY <2>4, SessionIs, Zenon DEF Inv
  <2> HIDE DEF m
  <2>7. (closes => n = NewSession) /\ (~closes => n = m)
    BY Zenon
  <2> HIDE DEF n
  <2>8. broker'[c] = n /\ \A d \in Contexts \ {c} : broker'[d] = broker[d]
    BY <1>4, <2>1, Zenon
  <2>9. broker' \in [Contexts -> Sessions]
    BY <1>4, <2>1, <2>6, Zenon
  <2> QED
    BY <2>5, <2>7, <2>8, <2>9, Zenon
<1>9. Completes(c, done, b, closes)
  BY <1>5, <1>6, <1>7, <1>8, Zenon DEF Completes
<1> QED
  BY <1>2, <1>9, Zenon DEF b
(* The next output of a session that is not lost is the oldest pending     *)
(* picture.                                                                *)
LEMMA HeadIs ==
    ASSUME Inv, NEW c \in Contexts, contexts[c].pending > 0, ~broker[c].lost,
           ~(call.op = "close" /\ call.context = c), broker[c].queue # <<>>
    PROVE  /\ Matched(c)
           /\ Head(broker[c].queue) = surfaces[find_oldest_pending_surface(c)].frame
<1> DEFINE done == find_oldest_pending_surface(c)
           Q == broker[c].queue
<1>1. /\ done \in Surfaces /\ done \in Pending(c)
      /\ \A t \in Pending(c) : surfaces[done].frame <= surfaces[t].frame
  BY CompletedIs, Zenon
<1>2. Matched(c)
  BY Zenon DEF Inv, InOrder, PendingCounted
<1>3. broker[c] \in Sessions /\ surfaces[done] \in SurfaceEntries
  BY <1>1, Zenon DEF Inv, Types
<1>4. Q \in Seq(Nat) /\ surfaces[done].frame \in Nat
  BY <1>3, Zenon DEF Sessions, SurfaceEntries
<1>5. /\ Increasing(Q)
      /\ \A i \in 1..Len(Q) : \E t \in Pending(c) : surfaces[t].frame = Q[i]
      /\ \E i \in 1..Len(Q) : surfaces[done].frame = Q[i]
  BY <1>1, <1>2, Zenon DEF Matched, Matches
<1> HIDE DEF Q, done
<1>6. 1 \in 1..Len(Q) /\ Head(Q) = Q[1] /\ Q[1] \in Nat
  BY <1>4 DEF Q
<1>7. surfaces[done].frame <= Q[1]
  BY <1>1, <1>5, <1>6, Zenon
<1>8. PICK i \in 1..Len(Q) : surfaces[done].frame = Q[i]
  BY <1>5, Zenon
<1>9. i = 1 \/ Q[1] < Q[i]
  <2>1. i = 1 \/ 1 < i
    BY <1>4, <1>8
  <2> QED
    BY <1>5, <1>6, <2>1, Zenon DEF Increasing
<1>10. Q[1] = surfaces[done].frame
  BY <1>4, <1>6, <1>7, <1>8, <1>9
<1> QED
  BY <1>2, <1>6, <1>10, Zenon DEF Q, done

(* When the oldest leaves both, the rest still match.                      *)
LEMMA TailMatches ==
    ASSUME Inv, NEW c \in Contexts, Matched(c), broker[c].queue # <<>>,
           NEW done \in Pending(c), surfaces[done].frame = Head(broker[c].queue),
           Pending(c)' = Pending(c) \ {done},
           \A s \in Pending(c) : surfaces'[s].frame = surfaces[s].frame,
           broker'[c].queue = Tail(broker[c].queue)
    PROVE  Matched(c)'
<1> DEFINE Q == broker[c].queue
           R == broker'[c].queue
<1>1. Q \in Seq(Nat)
  BY Zenon DEF Inv, Types, Sessions
<1>2. /\ Increasing(Q)
      /\ \A i \in 1..Len(Q) : \E t \in Pending(c) : surfaces[t].frame = Q[i]
      /\ \A s \in Pending(c) : \E i \in 1..Len(Q) : surfaces[s].frame = Q[i]
  BY Zenon DEF Matched, Matches
<1>3. Q # <<>> /\ R = Tail(Q)
  BY Zenon
<1>4. surfaces[done].frame = Head(Q)
  BY Zenon
<1>5. \A s, t \in Pending(c) : surfaces[s].frame = surfaces[t].frame => s = t
  <2>1. \A s \in Pending(c) : s \in Surfaces /\ surfaces[s].state = "pending"
    BY Zenon DEF Pending, Owned
  <2> QED
    BY <2>1, Zenon DEF Inv, FramesGiven
<1> HIDE DEF Q, R
<1>6. /\ Len(Q) \in Nat /\ Len(R) = Len(Q) - 1
      /\ \A i \in 1..Len(R) : R[i] = Q[i + 1]
      /\ \A i \in 1..Len(Q) : Q[i] \in Nat
      /\ Head(Q) = Q[1] /\ 1 \in 1..Len(Q)
  BY <1>1, <1>3
<1>7. Increasing(R)
  <2>1. SUFFICES ASSUME NEW i \in 1..Len(R), NEW j \in 1..Len(R), i < j
                 PROVE  R[i] < R[j]
    BY Zenon DEF Increasing
  <2>2. i + 1 \in 1..Len(Q) /\ j + 1 \in 1..Len(Q) /\ i + 1 < j + 1
    BY <1>6, <2>1
  <2>3. Q[i + 1] < Q[j + 1]
    BY <1>2, <2>2, Zenon DEF Increasing
  <2> QED
    BY <1>6, <2>3, Zenon
<1>8. \A i \in 1..Len(Q) : i # 1 => Q[i] # Q[1]
  BY <1>2, <1>6 DEF Increasing
<1>9. \A i \in 1..Len(R) : \E t \in Pending(c) \ {done} : surfaces'[t].frame = R[i]
  <2>1. SUFFICES ASSUME NEW i \in 1..Len(R)
                 PROVE  \E t \in Pending(c) \ {done} : surfaces'[t].frame = R[i]
    BY Zenon
  <2>2. i + 1 \in 1..Len(Q) /\ i + 1 # 1
    BY <1>6
  <2>3. PICK t \in Pending(c) : surfaces[t].frame = Q[i + 1]
    BY <1>2, <2>2, Zenon
  <2>4. t # done
    BY <1>4, <1>6, <1>8, <2>2, <2>3, Zenon
  <2> QED
    BY <1>6, <2>3, <2>4, Zenon
<1>10. \A s \in Pending(c) \ {done} : \E i \in 1..Len(R) : surfaces'[s].frame = R[i]
  <2>1. SUFFICES ASSUME NEW s \in Pending(c) \ {done}
                 PROVE  \E i \in 1..Len(R) : surfaces'[s].frame = R[i]
    BY Zenon
  <2>2. PICK i \in 1..Len(Q) : surfaces[s].frame = Q[i]
    BY <1>2, Zenon
  <2>3. i # 1
    BY <1>4, <1>5, <1>6, <2>2
  <2>4. i - 1 \in 1..Len(R) /\ R[i - 1] = Q[i]
    BY <1>6, <2>3
  <2> QED
    BY <2>2, <2>4, Zenon
<1> QED
  BY <1>7, <1>9, <1>10, Zenon DEF Matched, Matches, R
LEMMA OneLess ==
    ASSUME NEW S, IsFiniteSet(S), NEW x \in S
    PROVE  IsFiniteSet(S \ {x}) /\ Cardinality(S \ {x}) = Cardinality(S) - 1
BY FS_RemoveElement, Zenon

LEMMA ReceivesKeeps ==
    ASSUME Inv, NEW c \in Contexts, contexts[c].pending > 0, NEW poll, Receives(c, poll),
           call' = call, call.op # "close",
           frames' = frames, frame_session' = frame_session
    PROVE  Inv'
<1> DEFINE done == find_oldest_pending_surface(c)
           b == surfaces[done].coded
<1>1. /\ done \in Surfaces /\ done \in Pending(c)
      /\ surfaces[done].used /\ surfaces[done].owner = c
      /\ surfaces[done].state = "pending"
      /\ b \in Buffers /\ buffers[b].pending = done
      /\ buffers[b].owner = c
  BY CompletedIs
<1>2. broker[c].queue # <<>>
  BY ReceivesIs, Zenon
<1>3. PICK closes \in BOOLEAN :
        Completes(c, done, b, closes) /\ (closes => contexts[c].pending = 1)
  BY ReceivesIs, Zenon
<1>4. ~broker[c].lost =>
        Matched(c) /\ Head(broker[c].queue) = surfaces[done].frame
  BY <1>2, HeadIs, Zenon
<1> HIDE DEF done, b
<1>5. /\ surfaces' \in [Surfaces -> SurfaceEntries]
      /\ \A s \in Surfaces :
            /\ surfaces'[s].used = surfaces[s].used /\ surfaces'[s].owner = surfaces[s].owner
            /\ surfaces'[s].coded = surfaces[s].coded /\ surfaces'[s].frame = surfaces[s].frame
            /\ s # done => surfaces'[s].state = surfaces[s].state /\ surfaces'[s].fence = surfaces[s].fence
            /\ surfaces'[s].registered <=> surfaces[s].registered /\ ~(closes /\ s \in Owned(c))
      /\ surfaces'[done].state = "ready" /\ ~surfaces'[done].fence
  BY <1>3, Zenon DEF Completes
<1>6. /\ buffers' \in [Buffers -> BufferEntries]
      /\ \A a \in Buffers \ {b} : buffers'[a] = buffers[a]
      /\ buffers'[b].used = buffers[b].used /\ buffers'[b].owner = buffers[b].owner
      /\ buffers'[b].pending = None
  BY <1>3, Zenon DEF Completes
<1>7. /\ contexts' \in [Contexts -> ContextEntries]
      /\ \A d \in Contexts \ {c} : contexts'[d] = contexts[d]
      /\ contexts'[c].used = contexts[c].used /\ contexts'[c].active = contexts[c].active
      /\ contexts'[c].target = contexts[c].target
      /\ contexts'[c].pending = contexts[c].pending - 1
      /\ contexts'[c].open <=> contexts[c].open /\ ~closes
  BY <1>3, Zenon DEF Completes
<1>8. /\ broker' \in [Contexts -> Sessions]
      /\ \A d \in Contexts \ {c} : broker'[d] = broker[d]
      /\ closes => broker'[c] = NewSession
      /\ ~closes => /\ broker'[c].queue = Tail(broker[c].queue)
                    /\ broker'[c].regs = broker[c].regs
                    /\ broker'[c].lost = broker[c].lost
  BY <1>3, Zenon DEF Completes
<1>9. \A s \in Surfaces :
        /\ s \in Owned(c) <=> surfaces[s].used /\ surfaces[s].owner = c
        /\ s \in Pending(c) <=>
             surfaces[s].used /\ surfaces[s].owner = c /\ surfaces[s].state = "pending"
  BY Zenon DEF Pending, Owned
<1>10. \A s \in Surfaces : surfaces[s].state = "pending" =>
        surfaces[s].used /\ surfaces[s].coded \in Buffers /\ buffers[surfaces[s].coded].pending = s
  <2>1. \A s \in Surfaces : surfaces[s].coded \in Buffers \cup {None}
    BY Zenon DEF Inv, Types, SurfaceEntries
  <2>2. \A s \in Surfaces : surfaces[s].state = "pending" => surfaces[s].used
    BY Zenon DEF Inv, FreeSlots
  <2> QED
    BY <2>1, <2>2 DEF Inv, PendingShape, BufferAwaitsItsSurface
<1>11. \A s \in Surfaces : surfaces'[s].state = "pending" =>
        s # done /\ surfaces[s].state = "pending"
  BY <1>5, Zenon
<1>12. Types'
  BY <1>5, <1>6, <1>7, <1>8, Zenon DEF Inv, Types
<1>13. Pending(c)' = Pending(c) \ {done}
  <2>1. "ready" # "pending"
    BY Zenon
  <2>2. \A s \in Surfaces : s \in Pending(c)' <=> s \in Pending(c) /\ s # done
    BY <1>5, <2>1, Zenon DEF Pending, Owned
  <2>3. Pending(c) \subseteq Surfaces /\ Pending(c)' \subseteq Surfaces
    BY Zenon DEF Pending, Owned
  <2> QED
    BY <2>2, <2>3, Zenon
<1>14. \A d \in Contexts \ {c} : Pending(d)' = Pending(d)
  BY <1>1, <1>5 DEF Pending, Owned
<1>15. closes => Pending(c)' = {}
  <2>1. contexts[c].pending = Cardinality(Pending(c)) /\ IsFiniteSet(Pending(c))
    BY PendingFinite, Zenon DEF Inv, PendingCounted
  <2>2. Cardinality(Pending(c) \ {done}) = Cardinality(Pending(c)) - 1
    BY <1>1, <2>1, OneLess, Zenon
  <2>3. IsFiniteSet(Pending(c) \ {done})
    BY <1>1, <2>1, OneLess, Zenon
  <2>4. closes => Cardinality(Pending(c) \ {done}) = 0
    BY <1>3, <2>1, <2>2
  <2> QED
    BY <1>13, <2>3, <2>4, FS_EmptySet, Zenon
<1>16. FreeSlots'
  <2>1. \A d \in Contexts : ~contexts'[d].used => ~contexts'[d].active /\ ~contexts'[d].open
    BY <1>7, Zenon DEF Inv, FreeSlots
  <2>2. \A s \in Surfaces : ~surfaces'[s].used =>
           surfaces'[s].owner = None /\ surfaces'[s].state = "idle"
    BY <1>1, <1>5 DEF Inv, FreeSlots
  <2>3. \A a \in Buffers : ~buffers'[a].used => buffers'[a].pending = None
    BY <1>6, Zenon DEF Inv, FreeSlots
  <2> QED
    BY <2>1, <2>2, <2>3, Zenon DEF FreeSlots
<1>17. PendingShape'
  <2>1. ASSUME NEW s \in Surfaces, surfaces'[s].state = "pending"
        PROVE  /\ surfaces'[s].owner # None /\ surfaces'[s].coded # None
               /\ buffers'[surfaces'[s].coded].owner = surfaces'[s].owner
    <3>1. surfaces[s].state = "pending"
      BY <1>11, <2>1, Zenon
    <3>2. \A a \in Buffers : buffers'[a].owner = buffers[a].owner
      BY <1>6, Zenon
    <3> QED
      BY <1>5, <1>10, <3>1, <3>2 DEF Inv, PendingShape
  <2>2. ASSUME NEW d \in Contexts, contexts'[d].active
        PROVE  /\ contexts'[d].target # None
               /\ surfaces'[contexts'[d].target].owner = d
                     => surfaces'[contexts'[d].target].state # "pending"
    <3>1. contexts'[d].target = contexts[d].target /\ contexts[d].active
      BY <1>7, <2>2, Zenon
    <3>2. contexts[d].target \in Surfaces
      BY <3>1, Zenon DEF Inv, Types, PendingShape, ContextEntries
    <3> QED
      BY <1>5, <1>11, <3>1, <3>2 DEF Inv, PendingShape
  <2> QED
    BY <2>1, <2>2, Zenon DEF PendingShape
<1>18. CallShape'
  BY Zenon DEF Inv, CallShape
<1>19. FramesGiven'
  <2>1. \A i \in 1..Len(broker'[c].queue) : broker'[c].queue[i] <= frames
    <3>1. broker[c].queue \in Seq(Nat)
      BY Zenon DEF Inv, Types, Sessions
    <3>2. CASE closes
      BY <1>8, <3>2 DEF NewSession
    <3>3. CASE ~closes
      <4>1. /\ Len(broker[c].queue) \in Nat
            /\ Len(broker'[c].queue) = Len(broker[c].queue) - 1
            /\ \A i \in 1..Len(broker'[c].queue) : broker'[c].queue[i] = broker[c].queue[i + 1]
        <5>1. broker'[c].queue = Tail(broker[c].queue)
          BY <1>8, <3>3, Zenon
        <5> QED
          BY <1>2, <3>1, <5>1
      <4>2. \A i \in 1..Len(broker[c].queue) : broker[c].queue[i] <= frames
        BY Zenon DEF Inv, FramesGiven
      <4> QED
        BY <4>1, <4>2
    <3> QED
      BY <1>3, <3>2, <3>3, Zenon
  <2>2. \A d \in Contexts : \A i \in 1..Len(broker'[d].queue) : broker'[d].queue[i] <= frames
    BY <1>8, <2>1, Zenon DEF Inv, FramesGiven
  <2>3. /\ \A s \in Surfaces : surfaces'[s].frame <= frames
        /\ \A s, t \in Surfaces :
              /\ surfaces'[s].state = "pending" /\ surfaces'[t].state = "pending"
              /\ surfaces'[s].frame = surfaces'[t].frame
              => s = t
    BY <1>5, <1>11 DEF Inv, FramesGiven
  <2> QED
    BY <2>2, <2>3, Zenon DEF FramesGiven
<1>20. InOrder'
  <2>1. \A d \in Contexts : \A t \in Pending(d) : surfaces'[t].frame = surfaces[t].frame
    BY <1>5, Zenon DEF Pending, Owned
  <2>2. \A d \in Contexts \ {c} : Matched(d) => Matched(d)'
    BY <1>8, <1>14, <2>1, MatchedKept, Zenon
  <2>3. ~closes /\ ~broker[c].lost => Matched(c)'
    BY <1>1, <1>2, <1>4, <1>8, <1>13, <2>1, TailMatches, Zenon
  <2>4. closes => ~contexts'[c].open
    BY <1>7, Zenon
  <2> QED
    BY <1>7, <1>8, <2>2, <2>3, <2>4, Zenon DEF Inv, InOrder
<1>21. PendingCounted'
  <2>1. /\ contexts[c].pending = Cardinality(Pending(c)) /\ IsFiniteSet(Pending(c))
        /\ contexts[c].used /\ contexts[c].open
    BY PendingFinite, Zenon DEF Inv, PendingCounted
  <2>2. Cardinality(Pending(c) \ {done}) = Cardinality(Pending(c)) - 1
    BY <1>1, <2>1, OneLess, Zenon
  <2>3. contexts'[c].pending = Cardinality(Pending(c))'
    BY <1>7, <1>13, <2>1, <2>2, Zenon
  <2>4. contexts'[c].pending > 0 => contexts'[c].used /\ contexts'[c].open
    <3>1. closes => ~(contexts'[c].pending > 0)
      BY <1>3, <1>7
    <3> QED
      BY <1>7, <2>1, <3>1, Zenon
  <2>5. \A d \in Contexts \ {c} :
          /\ contexts'[d].pending = Cardinality(Pending(d))'
          /\ contexts'[d].pending > 0 => contexts'[d].used /\ contexts'[d].open
    BY <1>7, <1>14, Zenon DEF Inv, PendingCounted
  <2> QED
    BY <2>3, <2>4, <2>5, Zenon DEF PendingCounted
<1>22. BufferAwaitsItsSurface'
  <2>1. ASSUME NEW a \in Buffers, NEW s \in Surfaces
        PROVE  (buffers'[a].pending = s)
                  <=> (surfaces'[s].state = "pending" /\ surfaces'[s].coded = a)
    <3>1. (buffers[a].pending = s) <=> (surfaces[s].state = "pending" /\ surfaces[s].coded = a)
      BY Zenon DEF Inv, BufferAwaitsItsSurface
    <3>2. s # None
      BY SlotAssumption, Zenon
    <3>3. CASE a = b
      <4>1. buffers'[a].pending # s
        BY <1>6, <3>2, <3>3, Zenon
      <4>2. surfaces[s].state = "pending" /\ surfaces[s].coded = a => s = done
        BY <1>1, <3>1, <3>3, Zenon
      <4> QED
        BY <1>5, <1>11, <4>1, <4>2, Zenon
    <3>4. CASE a # b
      <4>1. buffers'[a] = buffers[a]
        BY <1>6, <3>4, Zenon
      <4>2. s = done => surfaces[s].coded # a
        BY <3>4, Zenon DEF b
      <4> QED
        BY <1>5, <1>11, <3>1, <4>1, <4>2, Zenon
    <3> QED
      BY <3>3, <3>4, Zenon
  <2> QED
    BY <2>1, Zenon DEF BufferAwaitsItsSurface
<1>23. RegistrationLive'
  <2>1. \A s \in Surfaces : surfaces[s].registered =>
           surfaces[s].owner # None /\ contexts[surfaces[s].owner].open
    BY Zenon DEF Inv, RegistrationLive
  <2>2. \A s \in Surfaces : surfaces[s].owner \in Contexts \cup {None}
    BY Zenon DEF Inv, Types, SurfaceEntries
  <2>3. \A s \in Surfaces : ~surfaces[s].used => surfaces[s].owner = None
    BY Zenon DEF Inv, FreeSlots
  <2>4. ASSUME NEW s \in Surfaces, surfaces'[s].registered
        PROVE  surfaces'[s].owner # None /\ contexts'[surfaces'[s].owner].open
    <3>1. surfaces[s].registered /\ ~(closes /\ s \in Owned(c)) /\ surfaces'[s].owner = surfaces[s].owner
      BY <1>5, <2>4, Zenon
    <3>2. surfaces[s].owner \in Contexts /\ surfaces[s].used /\ contexts[surfaces[s].owner].open
      BY <2>1, <2>2, <2>3, <3>1, Zenon
    <3>3. surfaces[s].owner = c => ~closes
      BY <1>9, <3>1, <3>2, Zenon
    <3> QED
      BY <1>7, <2>1, <3>1, <3>2, <3>3, Zenon
  <2>5. ASSUME NEW d \in Contexts, NEW s \in Surfaces, contexts'[d].open
        PROVE  s \in broker'[d].regs <=> surfaces'[s].registered /\ surfaces'[s].owner = d
    <3>1. contexts[d].open /\ (d = c => ~closes)
      BY <1>7, <2>5, Zenon
    <3>2. s \in broker[d].regs <=> surfaces[s].registered /\ surfaces[s].owner = d
      BY <3>1, Zenon DEF Inv, RegistrationLive
    <3>3. broker'[d].regs = broker[d].regs
      BY <1>8, <3>1, Zenon
    <3>4. surfaces[s].owner = d => (surfaces'[s].registered <=> surfaces[s].registered)
      BY <1>5, <1>9, <3>1, Zenon
    <3> QED
      BY <1>5, <3>2, <3>3, <3>4, Zenon
  <2> QED
    BY <2>4, <2>5, Zenon DEF RegistrationLive
<1>24. ReleasedBeforeReuse'
  BY <1>5, Zenon DEF Inv, ReleasedBeforeReuse
<1> QED
  BY <1>12, <1>16, <1>17, <1>18, <1>19, <1>20, <1>21, <1>22, <1>23, <1>24, Zenon DEF Inv
(* One turn of the loop of sync_surface_locked, for a caller that stops    *)
(* when it is late or fails.                                               *)
LEMMA TurnKeeps ==
    ASSUME Inv, NEW c \in Contexts, contexts[c].pending > 0, NEW poll,
           NEW stop \in {NoCall, Closing("abandon", c)},
           sync_surface_locked(c, poll, call, stop, stop),
           call.op # "close", frames' = frames, frame_session' = frame_session
    PROVE  Inv'
<1>1. CASE ReceiveTimesOut(c) /\ call' = stop
  <2>1. UNCHANGED <<contexts, surfaces, buffers, frames, frame_session>> /\ broker' = broker
    BY <1>1, Zenon DEF ReceiveTimesOut
  <2>2. /\ call' \in Calls /\ call'.op \in {"none", "abandon"}
        /\ call'.op # "none" => call'.context = c
    BY <1>1, ClosingIs, NoCallIs
  <2>3. CallShape'
    BY <2>2, SlotAssumption, Zenon DEF CallShape
  <2> QED
    BY <2>1, <2>2, <2>3, SameBroker, CallMoves, Zenon
<1>2. CASE FenceTimesOut(c) /\ call' = stop
  BY <1>2, FenceTimesOutKeeps, Zenon
<1>3. CASE ReceiveFails(c, poll) /\ call' = stop
  BY <1>3, ReceiveFailsKeeps, Zenon
<1>4. CASE Receives(c, poll) /\ call' = call
  BY <1>4, ReceivesKeeps, Zenon
<1> QED
  BY <1>1, <1>2, <1>3, <1>4, Zenon DEF sync_surface_locked

LEMMA SyncTurnKeeps ==
    ASSUME Inv, SyncTurn
    PROVE  Inv'
<1> DEFINE c == call.context
<1>1. /\ call.op = "sync" /\ contexts[c].pending > 0
      /\ sync_surface_locked(c, call.poll, call, NoCall, NoCall)
      /\ frames' = frames /\ frame_session' = frame_session
  BY Zenon DEF SyncTurn, setup
<1>2. c \in Contexts
  BY <1>1, Zenon DEF Inv, Types, Calls, CallShape
<1>3. call.op # "close"
  BY <1>1, Zenon
<1> HIDE DEF c
<1> QED
  BY <1>1, <1>2, <1>3, TurnKeeps, Zenon

LEMMA DrainTurnKeeps ==
    ASSUME Inv, DrainTurn
    PROVE  Inv'
<1> DEFINE c == call.context
<1>1. /\ call.op = "drain" /\ contexts[c].pending > 0
      /\ sync_surface_locked(c, FALSE, call, Closing("abandon", c), Closing("abandon", c))
      /\ UNCHANGED <<frames, setup>>
  BY Zenon DEF DrainTurn
<1>2. c \in Contexts
  BY <1>1, Zenon DEF Inv, Types, Calls, CallShape
<1>3. call.op # "close" /\ frames' = frames /\ frame_session' = frame_session
  BY <1>1, Zenon DEF setup
<1> HIDE DEF c
<1> QED
  BY <1>1, <1>2, <1>3, TurnKeeps, Zenon

LEMMA TailIs ==
    ASSUME NEW q \in Seq(Nat), q # <<>>, NEW f,
           \A i \in 1..Len(q) : q[i] <= f
    PROVE  Tail(q) \in Seq(Nat) /\ \A i \in 1..Len(Tail(q)) : Tail(q)[i] <= f
<1>1. /\ Len(q) \in Nat /\ Len(Tail(q)) = Len(q) - 1 /\ Tail(q) \in Seq(Nat)
      /\ \A i \in 1..Len(Tail(q)) : Tail(q)[i] = q[i + 1]
  OBVIOUS
<1> QED
  BY <1>1

(* With no picture pending, a frame still in the session is one that a     *)
(* failure parted from its picture.                                        *)
LEMMA DrainLastKeeps ==
    ASSUME Inv, DrainLast
    PROVE  Inv'
<1> DEFINE c == call.context
<1>1. /\ call.op = "drain" /\ contexts[c].pending = 0
      /\ UNCHANGED <<contexts, surfaces, buffers, frames, frame_session>>
  BY Zenon DEF DrainLast, setup
<1>2. c \in Contexts
  BY <1>1, Zenon DEF Inv, Types, Calls, CallShape
<1>3. \/ broker' = [broker EXCEPT ![c].ended = TRUE] /\ call' = call
      \/ /\ broker[c].queue # <<>>
         /\ \E e \in MayEnd(c) :
              /\ broker' = [broker EXCEPT ![c].queue = Tail(@), ![c].ended = e]
              /\ call' = IF e THEN call ELSE Closing("abandon", c)
  BY Zenon DEF DrainLast
<1>4. call.op # "close" /\ call.context = c
  BY <1>1, Zenon
<1> HIDE DEF c
<1>5. broker \in [Contexts -> Sessions] /\ broker[c] \in Sessions
  BY <1>2, Zenon DEF Inv, Types
<1>6. CASE broker' = [broker EXCEPT ![c].ended = TRUE] /\ call' = call
  <2> DEFINE n == [broker[c] EXCEPT !.ended = TRUE]
  <2>1. broker' = [broker EXCEPT ![c] = n]
    BY <1>2, <1>5, <1>6, Zenon
  <2>2. n \in Sessions
    BY <1>5, Zenon DEF Sessions
  <2>3. n.queue = broker[c].queue /\ n.regs = broker[c].regs /\ n.lost = broker[c].lost
    BY <1>5, Zenon DEF Sessions
  <2> HIDE DEF n
  <2>4. broker' \in [Contexts -> Sessions]
    BY <1>5, <2>1, <2>2, Zenon
  <2>5. broker'[c] = n /\ \A d \in Contexts \ {c} : broker'[d] = broker[d]
    BY <1>2, <1>5, <2>1, Zenon
  <2>6. \A d \in Contexts : SameSession(d)
    BY <2>3, <2>5, Zenon DEF SameSession
  <2>7. call' \in Calls /\ CallShape'
    BY <1>1, <1>6, Zenon DEF Inv, Types, CallShape
  <2> QED
    BY <1>1, <1>4, <2>4, <2>6, <2>7, CallMoves, Zenon
<1>7. ASSUME broker[c].queue # <<>>, NEW e \in MayEnd(c),
             broker' = [broker EXCEPT ![c].queue = Tail(@), ![c].ended = e],
             call' = IF e THEN call ELSE Closing("abandon", c)
      PROVE  Inv'
  <2> DEFINE n == [broker[c] EXCEPT !.queue = Tail(broker[c].queue), !.ended = e]
  <2>1. broker' = [broker EXCEPT ![c] = n]
    BY <1>2, <1>5, <1>7, Zenon
  <2>2. /\ Tail(broker[c].queue) \in Seq(Nat) /\ e \in BOOLEAN
        /\ \A i \in 1..Len(Tail(broker[c].queue)) : Tail(broker[c].queue)[i] <= frames
    <3>1. broker[c].queue \in Seq(Nat)
      BY <1>5, Zenon DEF Sessions
    <3>2. \A i \in 1..Len(broker[c].queue) : broker[c].queue[i] <= frames
      BY <1>2, Zenon DEF Inv, FramesGiven
    <3>3. e \in BOOLEAN
      BY <1>7, Zenon DEF MayEnd
    <3> QED
      BY <1>7, <3>1, <3>2, <3>3, TailIs, Zenon
  <2>3. n \in Sessions
    BY <1>5, <2>2, Zenon DEF Sessions
  <2>4. n.queue = Tail(broker[c].queue) /\ n.regs = broker[c].regs /\ n.lost = broker[c].lost
    BY <1>5, Zenon DEF Sessions
  <2> HIDE DEF n
  <2>5. broker' \in [Contexts -> Sessions]
    BY <1>5, <2>1, <2>3, Zenon
  <2>6. broker'[c] = n /\ \A d \in Contexts \ {c} : broker'[d] = broker[d]
    BY <1>2, <1>5, <2>1, Zenon
  <2>7. broker[c].lost \/ ~contexts[c].open
    <3>1. SUFFICES ASSUME ~broker[c].lost, contexts[c].open PROVE FALSE
      BY Zenon
    <3>2. Matched(c)
      BY <1>2, <1>4, <3>1, Zenon DEF Inv, InOrder
    <3>3. Pending(c) = {}
      BY <1>1, <1>2, PendingFinite, Zenon DEF Inv, PendingCounted, c
    <3>4. 1 \in 1..Len(broker[c].queue)
      BY <1>5, <1>7 DEF Sessions
    <3> QED
      BY <3>2, <3>3, <3>4, Zenon DEF Matched, Matches
  <2>8. \A i \in 1..Len(broker'[c].queue) : broker'[c].queue[i] <= frames
    BY <2>2, <2>4, <2>6, Zenon
  <2>9. call' \in Calls /\ call'.op \in {"drain", "abandon"} /\ call'.context = c
    BY <1>1, <1>2, <1>4, <1>7, ClosingIs, Zenon DEF Inv, Types
  <2>10. CallShape' /\ call'.op # "close"
    BY <1>2, <2>9, SlotAssumption, Zenon DEF CallShape
  <2>11. Types'
    BY <1>1, <2>5, <2>9, Zenon DEF Inv, Types
  <2> QED
    BY <1>1, <1>2, <1>4, <2>4, <2>6, <2>7, <2>8, <2>10, <2>11, SessionChanges, Zenon
<1> QED
  BY <1>3, <1>6, <1>7, Zenon
-----------------------------------------------------------------------------
(* The end of a context and of the runtime                                 *)

(* A surface that its context leaves.                                      *)
Left(s) ==
    /\ surfaces'[s].used = surfaces[s].used /\ surfaces'[s].owner = None
    /\ surfaces'[s].frame = surfaces[s].frame
    /\ ~surfaces'[s].registered
    /\ surfaces'[s].fence => surfaces[s].fence
    /\ surfaces'[s].state = surfaces[s].state \/ surfaces'[s].state = "error"
    /\ surfaces'[s].state # "pending"

LEMMA LeftIs ==
    ASSUME Inv, close_context_locked
    PROVE  /\ surfaces' \in [Surfaces -> SurfaceEntries]
           /\ \A s \in Surfaces \ Owned(call.context) : surfaces'[s] = surfaces[s]
           /\ \A s \in Owned(call.context) : Left(s)
<1> DEFINE c == call.context
           linked == {s \in Owned(c) : contexts[c].open /\ surfaces[s].registered}
<1>1. PICK bad \in SUBSET linked :
        surfaces' = [s \in Surfaces |->
                     IF s \notin Owned(c) THEN surfaces[s]
                     ELSE [surfaces[s] EXCEPT
                            !.owner = None, !.coded = None,
                            !.registered = @ /\ s \notin linked,
                            !.fence = @ /\ s \notin linked \ bad,
                            !.state = IF s \in bad \/ @ = "pending"
                                      THEN "error" ELSE @]]
  BY Zenon DEF close_context_locked
<1> DEFINE x(s) == surfaces[s].registered /\ s \notin linked
           y(s) == surfaces[s].fence /\ s \notin linked \ bad
           z(s) == IF s \in bad \/ surfaces[s].state = "pending" THEN "error" ELSE surfaces[s].state
           r(s) == [surfaces[s] EXCEPT !.owner = None, !.coded = None,
                                       !.registered = x(s), !.fence = y(s), !.state = z(s)]
<1>2. surfaces' = [s \in Surfaces |-> IF s \notin Owned(c) THEN surfaces[s] ELSE r(s)]
  BY <1>1, Zenon
<1>3. \A s \in Surfaces : surfaces[s] \in SurfaceEntries
  BY Zenon DEF Inv, Types
<1>4. \A s \in Surfaces :
        /\ x(s) \in BOOLEAN /\ y(s) \in BOOLEAN
        /\ z(s) \in {"idle", "pending", "ready", "error"}
        /\ z(s) # "pending" /\ (z(s) = surfaces[s].state \/ z(s) = "error")
        /\ y(s) => surfaces[s].fence
  BY <1>3, Zenon DEF SurfaceEntries
<1>5. ASSUME NEW s \in Owned(c) PROVE s \in Surfaces /\ ~x(s)
  <2>1. s \in Surfaces /\ surfaces[s].owner = c
    BY Zenon DEF Owned
  <2>2. surfaces[s].registered => contexts[c].open
    BY <2>1, Zenon DEF Inv, RegistrationLive
  <2> QED
    BY <2>1, <2>2, Zenon
<1> HIDE DEF x, y, z
<1>6. \A s \in Surfaces : r(s) \in SurfaceEntries
  <2>1. ASSUME NEW s \in Surfaces PROVE r(s) \in SurfaceEntries
    <3>1. /\ surfaces[s] \in SurfaceEntries /\ x(s) \in BOOLEAN /\ y(s) \in BOOLEAN
          /\ z(s) \in {"idle", "pending", "ready", "error"}
      BY <1>3, <1>4, Zenon
    <3> QED
      BY <3>1, Zenon DEF SurfaceEntries
  <2> QED
    BY <2>1, Zenon
<1>7. \A s \in Surfaces :
        /\ r(s).used = surfaces[s].used /\ r(s).owner = None
        /\ r(s).frame = surfaces[s].frame /\ r(s).registered = x(s)
        /\ r(s).fence = y(s) /\ r(s).state = z(s)
  BY <1>3, Zenon DEF SurfaceEntries
<1> HIDE DEF r, c
<1>8. /\ \A s \in Surfaces \ Owned(c) : surfaces'[s] = surfaces[s]
      /\ \A s \in Owned(c) : surfaces'[s] = r(s)
  BY <1>2, <1>5, Zenon
<1>9. \A s \in Owned(c) : Left(s)
  <2>1. ASSUME NEW s \in Owned(c) PROVE Left(s)
    <3>1. surfaces'[s] = r(s) /\ s \in Surfaces /\ ~x(s)
      BY <1>5, <1>8, Zenon
    <3>2. /\ r(s).used = surfaces[s].used /\ r(s).owner = None
          /\ r(s).frame = surfaces[s].frame /\ r(s).registered = x(s)
          /\ r(s).fence = y(s) /\ r(s).state = z(s)
      BY <1>7, <3>1, Zenon
    <3>3. /\ z(s) # "pending" /\ (z(s) = surfaces[s].state \/ z(s) = "error")
          /\ y(s) => surfaces[s].fence
      BY <1>4, <3>1, Zenon
    <3> QED
      BY <3>1, <3>2, <3>3, Zenon DEF Left
  <2> QED
    BY <2>1, Zenon
<1>10. surfaces' \in [Surfaces -> SurfaceEntries]
  BY <1>2, <1>3, <1>6, Zenon
<1> QED
  BY <1>8, <1>9, <1>10, Zenon DEF c

LEMMA CloseKeeps ==
    ASSUME Inv, close_context_locked, NEW c, c = call.context
    PROVE  Inv'
<1>1. /\ call.op = "close" /\ call' = NoCall /\ contexts' = [contexts EXCEPT ![c] = FreeContext]
      /\ broker' = [broker EXCEPT ![c] = NewSession]
      /\ buffers' = buffers /\ frames' = frames /\ frame_session' = frame_session
  <2>1. /\ call.op = "close" /\ call' = NoCall /\ contexts' = [contexts EXCEPT ![c] = FreeContext]
        /\ broker' = [broker EXCEPT ![c] = NewSession] /\ UNCHANGED <<buffers, frames, setup>>
    BY Zenon DEF close_context_locked
  <2> QED
    BY <2>1, Zenon DEF setup
<1>2. c \in Contexts /\ contexts[c].pending = 0
  BY <1>1, Zenon DEF Inv, Types, Calls, CallShape
<1>3. /\ surfaces' \in [Surfaces -> SurfaceEntries]
      /\ \A s \in Surfaces \ Owned(c) : surfaces'[s] = surfaces[s]
      /\ \A s \in Owned(c) : Left(s)
  BY LeftIs, Zenon
<1>4. Pending(c) = {}
  BY <1>2, PendingFinite, Zenon DEF Inv, PendingCounted
<1>5. /\ contexts \in [Contexts -> ContextEntries] /\ broker \in [Contexts -> Sessions]
      /\ buffers \in [Buffers -> BufferEntries] /\ frames \in Nat /\ frame_session \in BOOLEAN
  BY Zenon DEF Inv, Types
<1>6. /\ contexts'[c] = FreeContext /\ \A d \in Contexts \ {c} : contexts'[d] = contexts[d]
      /\ broker'[c] = NewSession /\ \A d \in Contexts \ {c} : broker'[d] = broker[d]
  BY <1>1, <1>2, <1>5, Zenon
<1>7. contexts' \in [Contexts -> ContextEntries] /\ broker' \in [Contexts -> Sessions]
  BY <1>1, <1>2, <1>5, FreeEntries, SessionIs, Zenon DEF Inv
<1>8. Types'
  BY <1>1, <1>3, <1>5, <1>7, NoCallIs, Zenon DEF Types
<1>9. \A s \in Surfaces : s \in Owned(c) <=> surfaces[s].used /\ surfaces[s].owner = c
  BY Zenon DEF Owned
<1>10. \A s \in Surfaces : surfaces[s].state = "pending" => surfaces'[s] = surfaces[s]
  <2>1. \A s \in Owned(c) : surfaces[s].state # "pending"
    BY <1>4, Zenon DEF Pending
  <2> QED
    BY <1>3, <2>1, Zenon
<1>11. \A s \in Surfaces : surfaces'[s].state = "pending" =>
         surfaces[s].state = "pending" /\ surfaces'[s] = surfaces[s] /\ s \notin Owned(c)
  BY <1>3, Zenon DEF Left
<1>12. \A s \in Surfaces :
         surfaces'[s].used = surfaces[s].used /\ surfaces'[s].frame = surfaces[s].frame
  BY <1>3, Zenon DEF Left
<1>13. /\ ~FreeContext.used /\ ~FreeContext.active /\ ~FreeContext.open
       /\ FreeContext.pending = 0 /\ NewSession.queue = <<>>
  BY Zenon DEF FreeContext, NewSession
<1>14. \A d \in Contexts : Pending(d)' = Pending(d)
  <2>1. \A s \in Surfaces, d \in Contexts :
           surfaces'[s].used /\ surfaces'[s].owner = d /\ surfaces'[s].state = "pending"
             <=> surfaces[s].used /\ surfaces[s].owner = d /\ surfaces[s].state = "pending"
    BY <1>10, <1>11, Zenon
  <2>2. \A d \in Contexts :
          /\ Pending(d) = {s \in Surfaces :
                surfaces[s].used /\ surfaces[s].owner = d /\ surfaces[s].state = "pending"}
          /\ Pending(d)' = {s \in Surfaces :
                surfaces'[s].used /\ surfaces'[s].owner = d /\ surfaces'[s].state = "pending"}
    BY Zenon DEF Pending, Owned
  <2> QED
    BY <2>1, <2>2
<1>15. FreeSlots'
  <2>1. \A d \in Contexts : ~contexts'[d].used => ~contexts'[d].active /\ ~contexts'[d].open
    BY <1>6, <1>13, Zenon DEF Inv, FreeSlots
  <2>2. \A s \in Surfaces : ~surfaces'[s].used =>
           surfaces'[s].owner = None /\ surfaces'[s].state = "idle"
    BY <1>3, <1>9, <1>12, Zenon DEF Inv, FreeSlots
  <2> QED
    BY <1>1, <2>1, <2>2, Zenon DEF Inv, FreeSlots
<1>16. PendingShape'
  <2>1. \A s \in Surfaces : surfaces'[s].state = "pending" =>
           /\ surfaces'[s].owner # None /\ surfaces'[s].coded # None
           /\ buffers'[surfaces'[s].coded].owner = surfaces'[s].owner
    BY <1>1, <1>11, Zenon DEF Inv, PendingShape
  <2>2. ASSUME NEW d \in Contexts, contexts'[d].active
        PROVE  /\ contexts'[d].target # None
               /\ surfaces'[contexts'[d].target].owner = d
                     => surfaces'[contexts'[d].target].state # "pending"
    <3>1. contexts'[d] = contexts[d] /\ contexts[d].active
      BY <1>6, <1>13, <2>2, Zenon
    <3>2. contexts[d].target \in Surfaces
      BY <3>1, Zenon DEF Inv, Types, PendingShape, ContextEntries
    <3> QED
      BY <1>11, <3>1, <3>2 DEF Inv, PendingShape
  <2> QED
    BY <2>1, <2>2, Zenon DEF PendingShape
<1>17. CallShape'
  BY <1>1, NoCallIs, Zenon DEF CallShape
<1>18. FramesGiven'
  <2>1. \A d \in Contexts : \A i \in 1..Len(broker'[d].queue) : broker'[d].queue[i] <= frames
    BY <1>6, <1>13 DEF Inv, FramesGiven
  <2> QED
    BY <1>1, <1>11, <1>12, <2>1 DEF Inv, FramesGiven
<1>19. InOrder'
  <2>1. \A d \in Contexts : \A t \in Pending(d) : surfaces'[t].frame = surfaces[t].frame
    BY <1>12, Zenon DEF Pending, Owned
  <2>2. \A d \in Contexts \ {c} : Matched(d) => Matched(d)'
    BY <1>6, <1>14, <2>1, MatchedKept, Zenon
  <2> QED
    BY <1>6, <1>13, <2>2, Zenon DEF Inv, InOrder
<1>20. PendingCounted'
  <2>1. contexts'[c].pending = Cardinality(Pending(c))' /\ ~(contexts'[c].pending > 0)
    <3>1. Cardinality(Pending(c))' = 0
      BY <1>2, <1>4, <1>14, FS_EmptySet, Zenon
    <3> QED
      BY <1>6, <1>13, <3>1
  <2>2. \A d \in Contexts \ {c} :
          /\ contexts'[d].pending = Cardinality(Pending(d))'
          /\ contexts'[d].pending > 0 => contexts'[d].used /\ contexts'[d].open
    BY <1>6, <1>14, Zenon DEF Inv, PendingCounted
  <2> QED
    BY <2>1, <2>2, Zenon DEF PendingCounted
<1>21. BufferAwaitsItsSurface'
  <2>1. \A s \in Surfaces, a \in Buffers :
          (surfaces'[s].state = "pending" /\ surfaces'[s].coded = a)
            <=> (surfaces[s].state = "pending" /\ surfaces[s].coded = a)
    BY <1>10, <1>11, Zenon
  <2> QED
    BY <1>1, <2>1 DEF Inv, BufferAwaitsItsSurface
<1>22. RegistrationLive'
  <2>1. \A s \in Surfaces : surfaces[s].owner \in Contexts \cup {None}
    BY Zenon DEF Inv, Types, SurfaceEntries
  <2>2. \A s \in Surfaces : ~surfaces[s].used => surfaces[s].owner = None
    BY Zenon DEF Inv, FreeSlots
  <2>3. ASSUME NEW s \in Surfaces, surfaces'[s].registered
        PROVE  surfaces'[s].owner # None /\ contexts'[surfaces'[s].owner].open
    <3>1. s \notin Owned(c) /\ surfaces'[s] = surfaces[s]
      BY <1>3, <2>3, Zenon DEF Left
    <3>2. surfaces[s].owner # None /\ contexts[surfaces[s].owner].open
      BY <2>3, <3>1, Zenon DEF Inv, RegistrationLive
    <3>3. surfaces[s].owner \in Contexts \ {c}
      BY <1>9, <2>1, <2>2, <3>1, <3>2, Zenon
    <3> QED
      BY <1>6, <3>1, <3>2, <3>3, Zenon
  <2>4. ASSUME NEW d \in Contexts, NEW s \in Surfaces, contexts'[d].open
        PROVE  s \in broker'[d].regs <=> surfaces'[s].registered /\ surfaces'[s].owner = d
    <3>1. d # c /\ contexts[d].open /\ broker'[d] = broker[d]
      BY <1>6, <1>13, <2>4, Zenon
    <3>2. s \in broker[d].regs <=> surfaces[s].registered /\ surfaces[s].owner = d
      BY <3>1, Zenon DEF Inv, RegistrationLive
    <3>3. s \in Owned(c) => surfaces[s].owner = c /\ surfaces'[s].owner = None
      BY <1>3, <1>9, Zenon DEF Left
    <3>4. d # None
      BY SlotAssumption, Zenon
    <3> QED
      BY <1>3, <3>1, <3>2, <3>3, <3>4, Zenon
  <2> QED
    BY <2>3, <2>4, Zenon DEF RegistrationLive
<1>23. ReleasedBeforeReuse'
  <2>1. "error" \notin {"idle", "ready"}
    BY Zenon
  <2> QED
    BY <1>3, <2>1, Zenon DEF Inv, ReleasedBeforeReuse, Left
<1> QED
  BY <1>8, <1>15, <1>16, <1>17, <1>18, <1>19, <1>20, <1>21, <1>22, <1>23, Zenon DEF Inv
(* With every slot free there is nothing to keep.                          *)
AllFree ==
    /\ contexts \in [Contexts -> ContextEntries] /\ broker \in [Contexts -> Sessions]
    /\ \A c \in Contexts : ~contexts[c].active /\ ~contexts[c].open /\ contexts[c].pending = 0
    /\ \A c \in Contexts : \A i \in 1..Len(broker[c].queue) : broker[c].queue[i] <= frames
    /\ surfaces = [s \in Surfaces |-> FreeSurface]
    /\ buffers = [b \in Buffers |-> FreeBuffer]
    /\ call = NoCall /\ frames \in Nat /\ frame_session \in BOOLEAN

LEMMA FreedIs == AllFree => Inv
<1> SUFFICES ASSUME AllFree PROVE Inv
  BY Zenon
<1> USE DEF AllFree
<1>1. /\ \A s \in Surfaces : surfaces[s] = FreeSurface
      /\ \A b \in Buffers : buffers[b] = FreeBuffer
  BY Zenon
<1>2. /\ surfaces \in [Surfaces -> SurfaceEntries]
      /\ buffers \in [Buffers -> BufferEntries]
  BY FreeEntries, Zenon
<1>3. Types
  BY <1>2, NoCallIs, Zenon DEF Types
<1>4. /\ ~FreeSurface.used /\ FreeSurface.owner = None /\ FreeSurface.state = "idle"
      /\ FreeSurface.frame = 0 /\ ~FreeSurface.registered /\ ~FreeSurface.fence
      /\ ~FreeBuffer.used /\ FreeBuffer.pending = None
  BY Zenon DEF FreeSurface, FreeBuffer
<1>5. \A s \in Surfaces :
        /\ ~surfaces[s].used /\ surfaces[s].owner = None /\ surfaces[s].state = "idle"
        /\ surfaces[s].frame = 0 /\ ~surfaces[s].registered /\ ~surfaces[s].fence
  BY <1>1, <1>4, Zenon
<1>6. \A s \in Surfaces : surfaces[s].state # "pending"
  BY <1>5, Zenon
<1>7. FreeSlots
  BY <1>1, <1>4, <1>5, Zenon DEF FreeSlots
<1>8. PendingShape /\ InOrder
  BY <1>6, Zenon DEF PendingShape, InOrder
<1>9. CallShape
  BY NoCallIs, Zenon DEF CallShape
<1>10. FramesGiven
  BY <1>5, <1>6 DEF FramesGiven
<1>11. PendingCounted
  <2>1. \A c \in Contexts : Pending(c) = {}
    BY <1>5, Zenon DEF Pending, Owned
  <2>2. Cardinality({}) = 0
    BY FS_EmptySet, Zenon
  <2>3. \A c \in Contexts : ~(contexts[c].pending > 0)
    OBVIOUS
  <2> QED
    BY <2>1, <2>2, <2>3, Zenon DEF PendingCounted
<1>12. BufferAwaitsItsSurface
  <2>1. None \notin Surfaces
    BY SlotAssumption, Zenon
  <2> QED
    BY <1>1, <1>4, <1>6, <2>1, Zenon DEF BufferAwaitsItsSurface
<1>13. RegistrationLive /\ ReleasedBeforeReuse
  BY <1>5, Zenon DEF RegistrationLive, ReleasedBeforeReuse
<1> QED
  BY <1>3, <1>7, <1>8, <1>9, <1>10, <1>11, <1>12, <1>13, Zenon DEF Inv

LEMMA DestroyKeeps ==
    ASSUME Inv, runtime_destroy
    PROVE  Inv'
<1>1. CASE /\ Idle
           /\ UNCHANGED <<contexts, surfaces, buffers, broker, call, frames, frame_session, stuck>>
  <2>1. /\ UNCHANGED <<contexts, surfaces, buffers, frames, frame_session>>
        /\ broker' = broker /\ call' = call /\ contexts' = contexts /\ call.op # "close"
    BY <1>1, NoCallIs, Zenon DEF Idle
  <2>2. call' \in Calls /\ CallShape'
    BY <2>1, Zenon DEF Inv, Types, CallShape
  <2> QED
    BY <2>1, <2>2, SameBroker, CallMoves, Zenon
<1>2. CASE /\ call = NoCall
           /\ \E c \in Contexts : contexts[c].used /\ finish_context_locked(c)
           /\ UNCHANGED <<contexts, surfaces, buffers, frames, setup>>
  BY <1>2, FinishKeeps, Zenon
<1>3. CASE /\ call = NoCall
           /\ \A c \in Contexts : ~contexts[c].used
           /\ surfaces' = [s \in Surfaces |-> FreeSurface]
           /\ buffers' = [b \in Buffers |-> FreeBuffer]
           /\ UNCHANGED <<contexts, broker, call, frames, frame_session, stuck>>
  <2>1. /\ contexts' = contexts /\ broker' = broker /\ call' = NoCall /\ frames' = frames
        /\ frame_session' = frame_session
    BY <1>3, Zenon
  <2>2. \A c \in Contexts :
          ~contexts[c].active /\ ~contexts[c].open /\ contexts[c].pending \in Nat
    BY <1>3, Zenon DEF Inv, FreeSlots, Types, ContextEntries
  <2>3. \A c \in Contexts : ~(contexts[c].pending > 0)
    BY <1>3, Zenon DEF Inv, PendingCounted
  <2>4. \A c \in Contexts : contexts[c].pending = 0
    BY <2>2, <2>3
  <2>5. /\ contexts' \in [Contexts -> ContextEntries] /\ broker' \in [Contexts -> Sessions]
        /\ frames' \in Nat /\ frame_session' \in BOOLEAN
    BY <2>1, Zenon DEF Inv, Types
  <2>6. \A c \in Contexts : \A i \in 1..Len(broker'[c].queue) : broker'[c].queue[i] <= frames'
    BY <2>1, Zenon DEF Inv, FramesGiven
  <2>7. AllFree'
    BY <1>3, <2>1, <2>2, <2>4, <2>5, <2>6, Zenon DEF AllFree
  <2> QED
    BY <2>7, FreedIs, PTL
<1> QED
  BY <1>1, <1>2, <1>3, Zenon DEF runtime_destroy
-----------------------------------------------------------------------------
(* The invariant                                                           *)

LEMMA InitInv == Init => Inv
<1>1. SUFFICES ASSUME Init PROVE AllFree
  BY FreedIs, Zenon
<1>2. /\ \A c \in Contexts : contexts[c] = FreeContext /\ broker[c] = NewSession
      /\ contexts \in [Contexts -> ContextEntries]
  BY <1>1, FreeEntries, Zenon DEF Init
<1>3. broker \in [Contexts -> Sessions]
  <2>1. NewSession \in Sessions
    BY DEF NewSession, Sessions
  <2> QED
    BY <1>1, <2>1, Zenon DEF Init
<1>4. /\ ~FreeContext.active /\ ~FreeContext.open /\ FreeContext.pending = 0
      /\ NewSession.queue = <<>>
  BY Zenon DEF FreeContext, NewSession
<1>5. \A c \in Contexts : \A i \in 1..Len(broker[c].queue) : broker[c].queue[i] <= frames
  BY <1>2, <1>4
<1>6. frames \in Nat /\ frame_session \in BOOLEAN
  BY <1>1, SlotAssumption, Zenon DEF Init
<1>7. \A c \in Contexts : ~contexts[c].active /\ ~contexts[c].open /\ contexts[c].pending = 0
  BY <1>2, <1>4, Zenon
<1> QED
  BY <1>1, <1>2, <1>3, <1>5, <1>6, <1>7, Zenon DEF Init, AllFree

LEMMA ClientKeeps ==
    ASSUME Inv, Client
    PROVE  Inv'
<1>1. ASSUME NEW c \in Contexts, create_context(c) PROVE Inv'
  BY <1>1, CreateContextKeeps, Zenon
<1>2. ASSUME NEW c \in Contexts, destroy_context(c) PROVE Inv'
  <2>1. call = NoCall
    BY <1>2, Zenon DEF destroy_context, Idle
  <2> QED
    BY <1>2, <2>1, FinishKeeps, Zenon DEF destroy_context
<1>3. ASSUME NEW c \in Contexts,
             EndPictureRefused(c) \/ EndPictureNotOwned(c) \/ EndPictureFailed(c) \/ end_picture(c)
      PROVE  Inv'
  BY <1>3, RefusedKeeps, NotOwnedKeeps, FailedKeeps, EndKeeps, Zenon
<1>4. ASSUME NEW c \in Contexts, NEW s \in Surfaces, begin_picture(c, s) PROVE Inv'
  BY <1>4, BeginKeeps, Zenon
<1>5. ASSUME NEW c \in Contexts, NEW b \in Buffers, create_buffer(b, c) PROVE Inv'
  BY <1>5, CreateBufferKeeps, Zenon
<1>6. ASSUME NEW c \in Contexts, NEW b \in Buffers, NEW r \in Rates, render_picture(c, b, r)
      PROVE  Inv'
  BY <1>6, RenderKeeps, Zenon
<1>7. ASSUME NEW s \in Surfaces, create_surfaces(s) \/ destroy_surfaces(s) \/ export_surface(s)
      PROVE  Inv'
  BY <1>7, CreateSurfaceKeeps, DestroySurfaceKeeps, ExportKeeps, Zenon
<1>8. ASSUME NEW s \in Surfaces, NEW b \in Buffers \cup {None}, NEW export \in BOOLEAN,
             NEW poll \in Polls, StartSync(s, b, export, poll)
      PROVE  Inv'
  BY <1>8, StartSyncKeeps, Zenon
<1>9. ASSUME NEW b \in Buffers, destroy_buffer(b) \/ map_buffer(b) \/ unmap_buffer(b) PROVE Inv'
  BY <1>9, DestroyBufferKeeps, MapKeeps, Zenon
<1> QED
  BY <1>1, <1>2, <1>3, <1>4, <1>5, <1>6, <1>7, <1>8, <1>9, Zenon DEF Client

LEMMA TurnsKeep ==
    ASSUME Inv, Turn
    PROVE  Inv'
<1>1. ASSUME close_context_locked PROVE Inv'
  BY <1>1, CloseKeeps, Zenon
<1> QED
  BY <1>1, SyncTurnKeeps, SyncReturnsKeeps, DrainStopsKeeps, DrainTurnKeeps, DrainLastKeeps,
     AbandonKeeps, Zenon DEF Turn

LEMMA StutterKeeps ==
    ASSUME Inv, UNCHANGED vars \/ NeverAnswered
    PROVE  Inv'
<1>1. /\ contexts' = contexts /\ surfaces' = surfaces /\ buffers' = buffers
      /\ broker' = broker /\ call' = call /\ frames' = frames /\ frame_session' = frame_session
  BY Zenon DEF vars, setup, NeverAnswered
<1>2. Types' /\ FreeSlots' /\ PendingShape' /\ CallShape' /\ FramesGiven'
  BY <1>1, Zenon DEF Inv, Types, FreeSlots, PendingShape, CallShape, FramesGiven
<1>3. \A c : Pending(c)' = Pending(c)
  BY <1>1, Zenon DEF Pending, Owned
<1>4. InOrder'
  <2>1. \A c \in Contexts : Matched(c) => Matched(c)'
    BY <1>1, <1>3, MatchedKept, Zenon
  <2> QED
    BY <1>1, <2>1, Zenon DEF Inv, InOrder
<1>5. PendingCounted'
  BY <1>1, <1>3, Zenon DEF Inv, PendingCounted
<1>6. BufferAwaitsItsSurface' /\ RegistrationLive' /\ ReleasedBeforeReuse'
  BY <1>1, Zenon DEF Inv, BufferAwaitsItsSurface, RegistrationLive, ReleasedBeforeReuse
<1> QED
  BY <1>2, <1>4, <1>5, <1>6, Zenon DEF Inv

(* Every step keeps the invariant, so every reachable state has it.        *)
LEMMA NextInv == Inv /\ [Next]_vars => Inv'
<1>1. Inv /\ Next => Inv'
  BY ClientKeeps, TurnsKeep, DestroyKeeps, StutterKeeps, Zenon DEF Next
<1>2. Inv /\ UNCHANGED vars => Inv'
  BY StutterKeeps, Zenon
<1> QED
  BY <1>1, <1>2, Zenon

LEMMA InvHolds == Spec => []Inv
BY InitInv, NextInv, PTL DEF Spec
-----------------------------------------------------------------------------
(* What a buffer holds                                                     *)

(* A step leaves a buffer's output alone, empties it, or fills it with the *)
(* frame whose timestamp it carries unless the session is lost.            *)
Fills(b) ==
    \/ buffers'[b].output \in {NoOutput, buffers[b].output}
    \/ buffers'[b].output.frame = buffers'[b].output.stamp
    \/ broker[buffers[b].owner].lost

LEMMA UnchangedFills ==
    ASSUME buffers' = buffers
    PROVE  \A b \in Buffers : Fills(b)
BY Zenon DEF Fills

(* Creating, destroying, mapping and submitting a buffer.                  *)
LEMMA BufferFills ==
    ASSUME Inv, NEW a \in Buffers, NEW v, buffers' = [buffers EXCEPT ![a] = v],
           v.output \in {NoOutput, buffers[a].output}
    PROVE  \A b \in Buffers : Fills(b)
<1>1. buffers \in [Buffers -> BufferEntries]
  BY Zenon DEF Inv, Types
<1>2. buffers'[a] = v /\ \A b \in Buffers \ {a} : buffers'[b] = buffers[b]
  BY <1>1, Zenon
<1> QED
  BY <1>2, Zenon DEF Fills

LEMMA MappingFills ==
    ASSUME Inv, NEW a \in Buffers, NEW m, buffers' = [buffers EXCEPT ![a].mapped = m]
    PROVE  \A b \in Buffers : Fills(b)
<1> DEFINE v == [buffers[a] EXCEPT !.mapped = m]
<1>1. buffers \in [Buffers -> BufferEntries] /\ buffers[a] \in BufferEntries
  BY Zenon DEF Inv, Types
<1>2. buffers' = [buffers EXCEPT ![a] = v] /\ v.output = buffers[a].output
  BY <1>1, Zenon DEF BufferEntries
<1> HIDE DEF v
<1> QED
  BY <1>2, BufferFills, Zenon

LEMMA SubmitFills ==
    ASSUME Inv, NEW c \in Contexts, end_picture(c)
    PROVE  \A b \in Buffers : Fills(b)
<1> DEFINE s == contexts[c].target
           a == contexts[c].coded
           v == [buffers[a] EXCEPT !.pending = s, !.output = NoOutput]
<1>1. a \in Buffers
  BY SubmittableIs, Zenon DEF end_picture
<1>2. buffers' = [buffers EXCEPT ![a].pending = s, ![a].output = NoOutput]
  BY Zenon DEF end_picture
<1>3. buffers \in [Buffers -> BufferEntries] /\ buffers[a] \in BufferEntries
  BY <1>1, Zenon DEF Inv, Types
<1>4. buffers' = [buffers EXCEPT ![a] = v] /\ v.output = NoOutput
  BY <1>1, <1>2, <1>3, Zenon DEF BufferEntries
<1> HIDE DEF v, a
<1> QED
  BY <1>1, <1>4, BufferFills, Zenon

(* A failure takes no output back.                                         *)
LEMMA FailureFills ==
    ASSUME Inv, NEW c \in Contexts, NEW waited, mark_context_pending_error(c, waited)
    PROVE  \A b \in Buffers : Fills(b)
<1> DEFINE v(b) == [buffers[b] EXCEPT !.pending = None]
           W == {surfaces[s].coded : s \in Pending(c)}
<1>1. buffers' = [b \in Buffers |-> IF b \in W THEN v(b) ELSE buffers[b]]
  BY Zenon DEF mark_context_pending_error
<1>2. \A b \in Buffers : v(b).output = buffers[b].output
  BY Zenon DEF Inv, Types, BufferEntries
<1> HIDE DEF v, W
<1>3. \A b \in Buffers : buffers'[b] = v(b) \/ buffers'[b] = buffers[b]
  BY <1>1, Zenon
<1> QED
  BY <1>2, <1>3, Zenon DEF Fills

(* An output goes to the buffer of the oldest pending picture, which is    *)
(* the picture it encodes.                                                 *)
LEMMA OutputFills ==
    ASSUME Inv, NEW c \in Contexts, contexts[c].pending > 0, NEW poll, Receives(c, poll),
           call.op # "close"
    PROVE  \A b \in Buffers : Fills(b)
<1> DEFINE done == find_oldest_pending_surface(c)
           a == surfaces[done].coded
           output == [frame |-> Head(broker[c].queue), stamp |-> surfaces[done].frame]
<1>1. a \in Buffers /\ buffers[a].owner = c
  BY CompletedIs, Zenon
<1>2. broker[c].queue # <<>>
  BY ReceivesIs, Zenon
<1>3. /\ \A b \in Buffers \ {a} : buffers'[b] = buffers[b]
      /\ buffers'[a].output = output
  BY ReceivesIs, Zenon DEF Completes
<1>4. broker[c].lost \/ Head(broker[c].queue) = surfaces[done].frame
  BY <1>2, HeadIs, Zenon
<1>5. broker[c].lost \/ output.frame = output.stamp
  BY <1>4, Zenon
<1> HIDE DEF output, a
<1> QED
  BY <1>1, <1>3, <1>5, Zenon DEF Fills

LEMMA TurnFills ==
    ASSUME Inv, NEW c \in Contexts, contexts[c].pending > 0, NEW poll, NEW again, NEW late,
           NEW failed, sync_surface_locked(c, poll, again, late, failed), call.op # "close"
    PROVE  \A b \in Buffers : Fills(b)
<1>1. ASSUME ReceiveTimesOut(c) \/ FenceTimesOut(c) PROVE buffers' = buffers
  BY <1>1, Zenon DEF ReceiveTimesOut, FenceTimesOut
<1>2. ASSUME ReceiveFails(c, poll) PROVE \A b \in Buffers : Fills(b)
  BY <1>2, FailureFills, Zenon DEF ReceiveFails
<1> QED
  BY <1>1, <1>2, UnchangedFills, OutputFills, Zenon DEF sync_surface_locked

LEMMA ClientFills ==
    ASSUME Inv, Client
    PROVE  \A b \in Buffers : Fills(b)
<1>1. ASSUME NEW c \in Contexts, create_context(c) \/ EndPictureRefused(c) PROVE buffers' = buffers
  BY <1>1, Zenon DEF create_context, EndPictureRefused
<1>2. ASSUME NEW c \in Contexts, destroy_context(c) PROVE buffers' = buffers
  <2>1. UNCHANGED <<contexts, surfaces, buffers, frames, setup>>
    BY <1>2, Zenon DEF destroy_context
  <2> QED
    BY <2>1, Zenon
<1>3. ASSUME NEW c \in Contexts, EndPictureNotOwned(c) \/ EndPictureFailed(c)
      PROVE  buffers' = buffers
  <2>1. UNCHANGED <<buffers, call, setup>>
    BY <1>3, Zenon DEF EndPictureNotOwned, EndPictureFailed
  <2> QED
    BY <2>1, Zenon
<1>4. ASSUME NEW c \in Contexts, NEW s \in Surfaces, begin_picture(c, s) PROVE buffers' = buffers
  BY <1>4, Zenon DEF begin_picture
<1>5. ASSUME NEW c \in Contexts, NEW a \in Buffers, create_buffer(a, c)
      PROVE  \A b \in Buffers : Fills(b)
  <2> DEFINE v == [FreeBuffer EXCEPT !.used = TRUE, !.owner = c]
  <2>1. buffers' = [buffers EXCEPT ![a] = v]
    BY <1>5, Zenon DEF create_buffer
  <2>2. v.output = NoOutput
    BY Zenon DEF FreeBuffer
  <2> HIDE DEF v
  <2> QED
    BY <2>1, <2>2, BufferFills, Zenon
<1>6. ASSUME NEW c \in Contexts, NEW b \in Buffers, NEW r \in Rates, render_picture(c, b, r)
      PROVE  buffers' = buffers
  BY <1>6, Zenon DEF render_picture
<1>7. ASSUME NEW s \in Surfaces, create_surfaces(s) \/ destroy_surfaces(s) \/ export_surface(s)
      PROVE  buffers' = buffers
  BY <1>7, Zenon DEF create_surfaces, destroy_surfaces, export_surface
<1>8. ASSUME NEW s \in Surfaces, NEW b \in Buffers \cup {None}, NEW export \in BOOLEAN,
             NEW poll \in Polls, StartSync(s, b, export, poll)
      PROVE  buffers' = buffers
  BY <1>8, Zenon DEF StartSync
<1>9. ASSUME NEW a \in Buffers, destroy_buffer(a) PROVE \A b \in Buffers : Fills(b)
  <2>1. buffers' = [buffers EXCEPT ![a] = FreeBuffer]
    BY <1>9, Zenon DEF destroy_buffer
  <2>2. FreeBuffer.output = NoOutput
    BY Zenon DEF FreeBuffer
  <2> QED
    BY <2>1, <2>2, BufferFills, Zenon
<1>10. ASSUME NEW a \in Buffers, map_buffer(a) \/ unmap_buffer(a)
       PROVE  \A b \in Buffers : Fills(b)
  BY <1>10, MappingFills, Zenon DEF map_buffer, unmap_buffer
<1> QED
  BY <1>1, <1>2, <1>3, <1>4, <1>5, <1>6, <1>7, <1>8, <1>9, <1>10, UnchangedFills, SubmitFills,
     Zenon DEF Client

LEMMA TurnsFill ==
    ASSUME Inv, Turn
    PROVE  \A b \in Buffers : Fills(b)
<1>1. ASSUME call.op # "none" PROVE call.context \in Contexts
  BY <1>1, Zenon DEF Inv, Types, Calls, CallShape
<1>2. ASSUME SyncTurn PROVE \A b \in Buffers : Fills(b)
  <2>1. /\ call.op = "sync" /\ contexts[call.context].pending > 0
        /\ sync_surface_locked(call.context, call.poll, call, NoCall, NoCall)
    BY <1>2, Zenon DEF SyncTurn
  <2>2. call.op # "close" /\ call.op # "none"
    BY <2>1, Zenon
  <2> QED
    BY <1>1, <2>1, <2>2, TurnFills, Zenon
<1>3. ASSUME DrainTurn PROVE \A b \in Buffers : Fills(b)
  <2>1. /\ call.op = "drain" /\ contexts[call.context].pending > 0
        /\ sync_surface_locked(call.context, FALSE, call, Closing("abandon", call.context),
                               Closing("abandon", call.context))
    BY <1>3, Zenon DEF DrainTurn
  <2>2. call.op # "close" /\ call.op # "none"
    BY <2>1, Zenon
  <2> QED
    BY <1>1, <2>1, <2>2, TurnFills, Zenon
<1>4. ASSUME SyncReturns PROVE \A b \in Buffers : Fills(b)
  <2>1. /\ call.buffer \in Buffers \cup {None}
        /\ \/ buffers' = buffers /\ call.buffer = None
           \/ buffers' = [buffers EXCEPT ![call.buffer].mapped = TRUE] /\ call.buffer # None
    BY <1>4, Zenon DEF SyncReturns, Inv, Types, Calls
  <2> QED
    BY <2>1, MappingFills, UnchangedFills, Zenon
<1>5. ASSUME DrainEnds \/ DrainTimesOut PROVE buffers' = buffers
  BY <1>5, Zenon DEF DrainEnds, DrainTimesOut
<1>6. ASSUME DrainLast PROVE buffers' = buffers
  <2>1. UNCHANGED <<contexts, surfaces, buffers, frames, setup>>
    BY <1>6, Zenon DEF DrainLast
  <2> QED
    BY <2>1, Zenon
<1>7. ASSUME Abandon PROVE \A b \in Buffers : Fills(b)
  <2>1. call.op = "abandon" /\ mark_context_pending_error(call.context, {})
    BY <1>7, Zenon DEF Abandon
  <2>2. call.op # "none"
    BY <2>1, Zenon
  <2> QED
    BY <1>1, <2>1, <2>2, FailureFills, Zenon
<1>8. ASSUME close_context_locked PROVE buffers' = buffers
  <2>1. UNCHANGED <<buffers, frames, setup>>
    BY <1>8, Zenon DEF close_context_locked
  <2> QED
    BY <2>1, Zenon
<1> QED
  BY <1>2, <1>3, <1>4, <1>5, <1>6, <1>7, <1>8, UnchangedFills, Zenon DEF Turn

LEMMA DestroyFills ==
    ASSUME Inv, runtime_destroy
    PROVE  \A b \in Buffers : Fills(b)
<1>1. ASSUME buffers' = [b \in Buffers |-> FreeBuffer] PROVE \A b \in Buffers : Fills(b)
  <2>1. \A b \in Buffers : buffers'[b] = FreeBuffer
    BY <1>1, Zenon
  <2>2. FreeBuffer.output = NoOutput
    BY Zenon DEF FreeBuffer
  <2> QED
    BY <2>1, <2>2, Zenon DEF Fills
<1>2. \/ buffers' = [b \in Buffers |-> FreeBuffer]
      \/ UNCHANGED <<contexts, surfaces, buffers, broker, call, frames, frame_session, stuck>>
      \/ UNCHANGED <<contexts, surfaces, buffers, frames, setup>>
  BY Zenon DEF runtime_destroy
<1>3. buffers' = [b \in Buffers |-> FreeBuffer] \/ buffers' = buffers
  BY <1>2, Zenon
<1> QED
  BY <1>1, <1>3, UnchangedFills, Zenon

LEMMA NextFills == Inv /\ [Next]_vars => [\A b \in Buffers : Fills(b)]_vars
<1>1. NeverAnswered => buffers' = buffers
  BY Zenon DEF NeverAnswered
<1>2. Inv /\ Next => \A b \in Buffers : Fills(b)
  BY <1>1, ClientFills, TurnsFill, DestroyFills, UnchangedFills, Zenon DEF Next
<1> QED
  BY <1>2, Zenon
-----------------------------------------------------------------------------
(* The theorems                                                            *)

(* pending_count is the number of the context's pending surfaces through   *)
(* every completion, failure and close, and a context with pictures        *)
(* pending is in use and has a session.                                    *)
THEOREM PendingCountedCorrect == Spec => []PendingCounted
<1>1. Inv => PendingCounted
  BY Zenon DEF Inv
<1> QED
  BY <1>1, InvHolds, PTL

(* A coded buffer waits for a surface exactly while that surface is        *)
(* pending for it, so none is left waiting for ever.                       *)
THEOREM BufferAwaitsCorrect == Spec => []BufferAwaitsItsSurface
<1>1. Inv => BufferAwaitsItsSurface
  BY Zenon DEF Inv
<1> QED
  BY <1>1, InvHolds, PTL

(* The registered flags are those of open sessions, and agree with what    *)
(* each open session has registered.                                       *)
THEOREM RegistrationCorrect == Spec => []RegistrationLive
<1>1. Inv => RegistrationLive
  BY Zenon DEF Inv
<1> QED
  BY <1>1, InvHolds, PTL

(* A surface that a client may write again has no release fence left.      *)
THEOREM ReleasedCorrect == Spec => []ReleasedBeforeReuse
<1>1. Inv => ReleasedBeforeReuse
  BY Zenon DEF Inv
<1> QED
  BY <1>1, InvHolds, PTL

(* Every output handed out carries the timestamp of the frame it encodes,  *)
(* unless a failure parted a frame of its session from its picture.        *)
THEOREM InOrderCorrect == Spec => OutputsInOrder
<1>1. [\A b \in Buffers : Fills(b)]_vars =>
        [\A b \in Buffers :
           \/ buffers'[b].output \in {NoOutput, buffers[b].output}
           \/ buffers'[b].output.frame = buffers'[b].output.stamp
           \/ broker[buffers[b].owner].lost]_vars
  BY Zenon DEF Fills
<1> QED
  BY <1>1, NextFills, InvHolds, PTL DEF Spec, OutputsInOrder
============================================================================
