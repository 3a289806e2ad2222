------------------------ MODULE DecodeRuntimeProofs ------------------------
(* The decode runtime's theorems, for any number of contexts, surfaces,    *)
(* waiting threads and session ids, any window, and any choice of gateways *)
(* that reserve.  The last part is about DecodeStaging, whose steps are    *)
(* steps of the runtime.                                                   *)
EXTENDS DecodeStaging, TLAPS

States == {"none", "idle", "pending", "ready", "error"}
Owners == Contexts \cup {NoContext}
Outputs == {"o", "r"} \X Nat
Entries == [state : States, pts : Nat, ctx : Owners, sess : Nat,
            lease : Outputs \cup {NoLease}, reserved : BOOLEAN]
Stages == {"none", "config", "reserve", "unit", "failed", "unit failed"}

Types ==
    /\ session \in [Contexts -> Nat]
    /\ target \in [Contexts -> Surfaces \cup {NoSurface}]
    /\ ending \in [ctx : Owners, pts : Nat, stage : Stages]
    /\ shared \in SUBSET Contexts
    /\ nextPts \in Nat \ {0}
    /\ eos \in [Contexts -> {"OPEN", "SIGNAL_PENDING", "DRAINING", "COMPLETE", "FAILED"}]
    /\ surface \in [Surfaces -> Entries]
    /\ up \in [Contexts -> BOOLEAN]
    /\ decoder \in [Contexts -> SUBSET Nat]
    /\ dropped \in [Contexts -> SUBSET Nat]
    /\ ended \in [Contexts -> {"none", "queued", "done"}]
    /\ leases \in [Contexts -> SUBSET Outputs]

(* A slot without a session has nothing at the broker.                     *)
FreeSlots ==
    \A c \in Contexts : ~Live(c) =>
        /\ target[c] = NoSurface /\ eos[c] = "OPEN" /\ ended[c] = "none"
        /\ decoder[c] = {} /\ dropped[c] = {} /\ leases[c] = {}

(* What a surface holds or waits for, and the time stamps that shows.      *)
Active(s) == surface[s].state = "pending" \/ surface[s].lease # NoLease

Marked(s, p) ==
    \/ Active(s) /\ surface[s].pts = p
    \/ surface[s].lease \in {<<"o", p>>, <<"r", p>>}

(* Time stamps: none is used before it is given out, and no two            *)
(* connections know the same one.                                          *)
PtsGiven ==
    /\ \A c \in Contexts : \A p \in decoder[c] \cup dropped[c] : p < nextPts
    /\ \A s \in Surfaces : \A p \in Nat : Marked(s, p) => p < nextPts
    /\ \A c, d \in Contexts : c # d => decoder[c] \cap (decoder[d] \cup dropped[d]) = {}

(* The surface whose destination the call in progress has just reserved.   *)
Midway(s) ==
    /\ ending.stage \in {"unit", "unit failed"} /\ ending.ctx \in Contexts
    /\ target[ending.ctx] = s /\ surface[s].ctx = ending.ctx /\ surface[s].pts = ending.pts
    /\ surface[s].lease = <<"r", ending.pts>> /\ surface[s].reserved

Awaited(s) ==
    \/ surface[s].pts \in decoder[surface[s].ctx] \cup dropped[surface[s].ctx]
    \/ Midway(s)

(* What the surface of a context that does not share holds is its own      *)
(* unit's.                                                                 *)
Clean(s) ==
    LET r == surface[s] IN
    /\ r.lease \in {NoLease, <<"r", r.pts>>, <<"o", r.pts>>}
    /\ r.reserved <=> r.lease = <<"r", r.pts>>
    /\ r.state = "pending" => r.lease # <<"o", r.pts>>
    /\ r.lease = <<"o", r.pts>> /\ up[r.ctx] => r.lease \in leases[r.ctx]

EntryOk(s) ==
    LET r == surface[s] IN
    /\ r.state = "none" => r.lease = NoLease
    /\ r.ctx \in Contexts => Live(r.ctx) /\ session[r.ctx] = r.sess
    /\ Active(s) => r.ctx \in Contexts
    /\ r.state = "pending" => Awaited(s)
    /\ r.ctx \notin shared => Clean(s)

EntriesOk == \A s \in Surfaces : EntryOk(s)

Apart ==
    \A s, t \in Surfaces : s # t => \A p \in Nat : ~(Marked(s, p) /\ Marked(t, p))

(* Contexts with pictures on one surface share; the surface of an active   *)
(* picture otherwise shows nothing and holds at most the destination that  *)
(* the vaEndPicture of that picture reserved.                              *)
TargetOk(c) ==
    LET s == target[c] IN
    /\ Live(c) /\ eos[c] = "OPEN"
    /\ \A d \in Contexts : d # c /\ target[d] = s => c \in shared
    /\ surface[s].ctx \in {NoContext, c} \cup shared
    /\ c \notin shared =>
          /\ surface[s].ctx \in {NoContext, c}
          /\ surface[s].state \in {"none", "idle"}
          /\ surface[s].lease = NoLease \/ Midway(s)

TargetShape == \A c \in Contexts : target[c] # NoSurface => TargetOk(c)

(* The call in progress has a fresh time stamp.                            *)
EndingShape ==
    ending # NotEnding =>
        /\ ending.ctx \in Contexts /\ target[ending.ctx] # NoSurface
        /\ surface[target[ending.ctx]].state # "none"
        /\ ending.pts < nextPts
        /\ \A c \in Contexts : ending.pts \notin decoder[c] \cup dropped[c]
        /\ \A s \in Surfaces : Marked(s, ending.pts) => s = target[ending.ctx]

EosShape ==
    \A c \in Contexts :
        /\ ended[c] = "done" => eos[c] \in {"COMPLETE", "FAILED"}
        /\ eos[c] = "COMPLETE" =>
              /\ ended[c] = "done" /\ decoder[c] = {}
              /\ \A s \in OwnedBy(c) : surface[s].state # "pending"

Inv == Types /\ FreeSlots /\ PtsGiven /\ EntriesOk /\ Apart /\ TargetShape /\ EndingShape
       /\ EosShape /\ NoLeaseLost

(* A waiting thread waits for a surface on behalf of a context.            *)
Waits ==
    /\ waiting \in [Threads -> [ctx : Owners, surf : Surfaces \cup {NoSurface}, synced : BOOLEAN]]
    /\ \A th \in Threads : waiting[th] # NotWaiting =>
          waiting[th].ctx \in Contexts /\ waiting[th].surf \in Surfaces
-----------------------------------------------------------------------------
(* The two values a surface is reset to.                                   *)
LEMMA ResetIs ==
    ASSUME NEW e \in {FreeSurface, IdleSurface}
    PROVE  /\ e \in Entries /\ e.lease = NoLease /\ e.ctx = NoContext /\ e.pts = 0
           /\ ~e.reserved /\ e.state \in {"none", "idle"}
<1>1. /\ FreeSurface \in Entries /\ FreeSurface.lease = NoLease /\ FreeSurface.ctx = NoContext
      /\ FreeSurface.pts = 0 /\ ~FreeSurface.reserved /\ FreeSurface.state = "none"
  BY Zenon DEF FreeSurface, Entries, States, Owners
<1>2. DOMAIN FreeSurface = {"state", "pts", "ctx", "sess", "lease", "reserved"}
  BY Zenon DEF FreeSurface
<1>3. /\ IdleSurface.lease = NoLease /\ IdleSurface.ctx = NoContext
      /\ IdleSurface.pts = 0 /\ ~IdleSurface.reserved /\ IdleSurface.state = "idle"
  BY <1>1, <1>2, Zenon DEF IdleSurface
<1>4. IdleSurface \in Entries
  BY <1>1, Zenon DEF IdleSurface, Entries, States
<1> QED
  BY <1>1, <1>3, <1>4, Zenon

LEMMA NoLeaseIs == NoLease \notin Outputs /\ (\A p : NoLease # <<"o", p>> /\ NoLease # <<"r", p>>)
BY Zenon DEF NoLease, Outputs

LEMMA SharedIs == Inv => NoContext \notin shared /\ NoContext \notin Contexts
BY RuntimeAssumption, Zenon DEF Inv, Types

(* A reset surface is in order and shows no time stamp.                    *)
LEMMA ResetOk ==
    ASSUME NEW e \in {FreeSurface, IdleSurface}, NEW s \in Surfaces, surface'[s] = e
    PROVE  EntryOk(s)' /\ ~Active(s)' /\ \A p : ~Marked(s, p)'
<1>1. /\ e.lease = NoLease /\ e.ctx = NoContext /\ ~e.reserved /\ e.state \in {"none", "idle"}
      /\ NoContext \notin Contexts
  BY ResetIs, RuntimeAssumption, Zenon
<1>2. ~Active(s)' /\ Clean(s)'
  BY <1>1, NoLeaseIs, Zenon DEF Active, Clean
<1>3. \A p : ~Marked(s, p)'
  BY <1>1, <1>2, NoLeaseIs, Zenon DEF Marked
<1> QED
  BY <1>1, <1>2, <1>3, Zenon DEF EntryOk

(* What a clean surface holds bears its own time stamp.                    *)
LEMMA CleanIs ==
    ASSUME NEW s \in Surfaces, Clean(s), surface[s].lease # NoLease
    PROVE  surface[s].lease[2] = surface[s].pts
<1>1. surface[s].lease \in {<<"r", surface[s].pts>>, <<"o", surface[s].pts>>}
  BY Zenon DEF Clean
<1> QED
  BY <1>1

(* Two surfaces never hold the same lease.                                 *)
LEMMA LeasesApart ==
    ASSUME Inv, NEW s \in Surfaces, NEW t \in Surfaces, s # t, surface[s].lease # NoLease
    PROVE  surface[s].lease # surface[t].lease
<1>1. surface[s].lease \in Outputs
  BY Zenon DEF Inv, Types, Entries
<1>2. PICK p \in Nat : surface[s].lease \in {<<"o", p>>, <<"r", p>>}
  BY <1>1 DEF Outputs
<1> QED
  BY <1>2, Zenon DEF Inv, Apart, Marked

(* A surface that a step leaves alone stays in order.                      *)
LEMMA EntryKept ==
    ASSUME NEW t \in Surfaces, EntryOk(t), surface'[t] = surface[t],
           surface[t].ctx \in Contexts => session'[surface[t].ctx] = session[surface[t].ctx],
           surface[t].ctx \in Contexts /\ surface[t].state = "pending" => Awaited(t)',
           surface[t].ctx \notin shared' => surface[t].ctx \notin shared,
           surface[t].ctx \in Contexts \ shared' /\ surface[t].lease = <<"o", surface[t].pts>> =>
              (up'[surface[t].ctx] => up[surface[t].ctx]
                                      /\ (surface[t].lease \in leases[surface[t].ctx] =>
                                             surface[t].lease \in leases'[surface[t].ctx]))
    PROVE  EntryOk(t)' /\ (Active(t)' <=> Active(t)) /\ \A p : Marked(t, p)' <=> Marked(t, p)
<1>1. (Active(t)' <=> Active(t)) /\ \A p : Marked(t, p)' <=> Marked(t, p)
  BY Zenon DEF Active, Marked
<1>2. surface[t].state = "pending" \/ surface[t].lease = <<"o", surface[t].pts>>
         => surface[t].ctx \in Contexts
  BY NoLeaseIs, Zenon DEF EntryOk, Active
<1>3. surface[t].ctx \notin shared' => Clean(t)'
  BY <1>2, Zenon DEF EntryOk, Clean
<1> QED
  BY <1>1, <1>2, <1>3, Zenon DEF EntryOk, Live

(* Only the surface of the call in progress is midway.                     *)
LEMMA MidwayIs ==
    ASSUME NEW t \in Surfaces, Midway(t)
    PROVE  ~Unlocked /\ ending.ctx \in Contexts /\ t = target[ending.ctx]
           /\ ending.stage \in {"unit", "unit failed"} /\ surface[t].reserved
<1>1. ending.ctx \in Contexts /\ t = target[ending.ctx]
      /\ ending.stage \in {"unit", "unit failed"} /\ surface[t].reserved
  BY Zenon DEF Midway
<1>2. NotEnding.ctx = NoContext
  BY Zenon DEF NotEnding
<1> QED
  BY <1>1, <1>2, RuntimeAssumption, Zenon DEF Unlocked
-----------------------------------------------------------------------------
(* A surface is reset and what it holds is returned.                       *)
LEMMA ReleaseIs ==
    ASSUME Inv, NEW s \in Surfaces, NEW e \in {FreeSurface, IdleSurface},
           release_surface_output(s, e)
    PROVE  /\ surface' \in [Surfaces -> Entries] /\ surface'[s] = e
           /\ \A t \in Surfaces \ {s} : surface'[t] = surface[t]
           /\ leases' \in [Contexts -> SUBSET Outputs]
           /\ \A c \in Contexts : leases'[c] \subseteq leases[c]
           /\ \A c \in Contexts : c # surface[s].ctx => leases'[c] = leases[c]
           /\ surface[s].ctx \notin shared => \A c \in Contexts :
                 surface[s].ctx = c => leases'[c] = leases[c] \ {surface[s].lease}
<1>1. surface \in [Surfaces -> Entries] /\ leases \in [Contexts -> SUBSET Outputs]
  BY Zenon DEF Inv, Types
<1>2. surface' = [surface EXCEPT ![s] = e]
  BY Zenon DEF release_surface_output
<1>3. surface' \in [Surfaces -> Entries] /\ surface'[s] = e
      /\ \A t \in Surfaces \ {s} : surface'[t] = surface[t]
  BY <1>1, <1>2, ResetIs, Zenon
<1>4. CASE Returnable(s)
  <2>1. PICK out \in Returned(s) : leases' = [leases EXCEPT ![surface[s].ctx] = @ \ out]
    BY <1>4, Zenon DEF release_surface_output
  <2>2. surface[s].ctx \in Contexts /\ surface[s].lease # NoLease
    BY <1>4, Zenon DEF Returnable
  <2>3. surface[s].ctx \notin shared => out = {surface[s].lease}
    <3>1. surface[s].ctx \notin shared => surface[s].lease[2] = surface[s].pts
      BY <2>2, CleanIs, Zenon DEF Inv, EntriesOk, EntryOk
    <3> QED
      BY <2>1, <3>1, Zenon DEF Returned
  <2> QED
    BY <1>1, <1>3, <2>1, <2>2, <2>3, Zenon
<1>5. CASE ~Returnable(s)
  <2>1. leases' = leases
    BY <1>5, Zenon DEF release_surface_output
  <2>2. surface[s].ctx \in Contexts => surface[s].lease = NoLease
    BY <1>5, Zenon DEF Inv, EntriesOk, EntryOk, Returnable
  <2>3. \A c \in Contexts : NoLease \notin leases[c]
    BY <1>1, NoLeaseIs, Zenon
  <2> QED
    BY <1>1, <1>3, <2>1, <2>2, <2>3, Zenon
<1> QED
  BY <1>4, <1>5, Zenon

(* ... which keeps every surface in order, and loses no lease.             *)
Rest == <<session, nextPts, eos, up, decoder, dropped, ended>>

LEMMA ReleaseOk ==
    ASSUME Inv, NEW s \in Surfaces, NEW e \in {FreeSurface, IdleSurface},
           release_surface_output(s, e), UNCHANGED Rest, shared \subseteq shared',
           \A t \in Surfaces \ {s} : ~Midway(t)
    PROVE  (EntriesOk /\ Apart /\ NoLeaseLost /\ PtsGiven /\ EosShape)'
<1>1. /\ surface' \in [Surfaces -> Entries] /\ surface'[s] = e
      /\ \A t \in Surfaces \ {s} : surface'[t] = surface[t]
      /\ leases' \in [Contexts -> SUBSET Outputs]
      /\ \A c \in Contexts : leases'[c] \subseteq leases[c]
      /\ \A c \in Contexts : c # surface[s].ctx => leases'[c] = leases[c]
      /\ surface[s].ctx \notin shared => \A c \in Contexts :
            surface[s].ctx = c => leases'[c] = leases[c] \ {surface[s].lease}
  BY ReleaseIs, Zenon
<1>2. EntryOk(s)' /\ ~Active(s)' /\ \A p : ~Marked(s, p)'
  BY <1>1, ResetOk
<1>3. ASSUME NEW t \in Surfaces, t # s
      PROVE  EntryOk(t)' /\ (Active(t)' <=> Active(t)) /\ \A p : Marked(t, p)' <=> Marked(t, p)
  <2>1. EntryOk(t) /\ surface'[t] = surface[t]
    BY <1>1, <1>3, Zenon DEF Inv, EntriesOk
  <2>2. ASSUME surface[t].ctx \in Contexts, surface[t].state = "pending"
        PROVE  Awaited(t)'
    BY <1>3, <2>1, <2>2, Zenon DEF EntryOk, Awaited, Rest
  <2>3. ASSUME surface[t].ctx \in Contexts \ shared', surface[t].lease = <<"o", surface[t].pts>>,
               surface[t].lease \in leases[surface[t].ctx]
        PROVE  surface[t].lease \in leases'[surface[t].ctx]
    <3>1. surface[s].lease # surface[t].lease
      BY <1>3, <2>3, LeasesApart, NoLeaseIs, Zenon
    <3>2. CASE surface[t].ctx = surface[s].ctx
      <4>1. surface[s].ctx \in Contexts /\ surface[s].ctx \notin shared
        BY <2>3, <3>2, Zenon
      <4>2. leases'[surface[s].ctx] = leases[surface[s].ctx] \ {surface[s].lease}
        BY <1>1, <4>1, Zenon
      <4> QED
        BY <2>3, <3>1, <3>2, <4>2, Zenon
    <3>3. CASE surface[t].ctx # surface[s].ctx
      BY <1>1, <2>3, <3>3, Zenon
    <3> QED
      BY <3>2, <3>3, Zenon
  <2>4. session' = session /\ up' = up
    BY DEF Rest
  <2> QED
    BY <2>1, <2>2, <2>3, <2>4, EntryKept, Zenon
<1>4. EntriesOk'
  BY <1>2, <1>3, Zenon DEF EntriesOk
<1>5. Apart'
  <2> SUFFICES ASSUME NEW t \in Surfaces, NEW u \in Surfaces, t # u, NEW p \in Nat,
                      Marked(t, p)', Marked(u, p)'
               PROVE  FALSE
    BY Zenon DEF Apart
  <2>1. t # s /\ u # s
    BY <1>2, Zenon
  <2>2. Marked(t, p) /\ Marked(u, p)
    BY <1>3, <2>1, Zenon
  <2> QED
    BY <2>2, Zenon DEF Inv, Apart
<1>6. NoLeaseLost'
  <2> SUFFICES ASSUME NEW c \in Contexts \ shared', NEW l \in leases'[c]
               PROVE  \E t \in OwnedBy(c)' : surface'[t].lease = l
                                             /\ surface'[t].sess = session'[c]
    BY Zenon DEF NoLeaseLost
  <2>1. c \in Contexts \ shared /\ l \in leases[c] /\ l \in Outputs
    BY <1>1, Zenon DEF Inv, Types
  <2>2. PICK t \in OwnedBy(c) : surface[t].lease = l /\ surface[t].sess = session[c]
    BY <2>1, Zenon DEF Inv, NoLeaseLost
  <2>3. t # s
    BY <1>1, <2>1, <2>2, Zenon DEF OwnedBy
  <2> QED
    BY <1>1, <2>2, <2>3, Zenon DEF OwnedBy, Rest
<1>7. PtsGiven'
  <2>1. ASSUME NEW t \in Surfaces, NEW p \in Nat, Marked(t, p)'
        PROVE  p < nextPts
    BY <1>2, <1>3, <2>1, Zenon DEF Inv, PtsGiven
  <2> QED
    BY <2>1, Zenon DEF Inv, PtsGiven, Rest
<1>8. EosShape'
  <2>1. /\ e.ctx = NoContext /\ e.state # "pending"
    BY ResetIs
  <2> QED
    BY <1>1, <2>1 DEF Inv, EosShape, OwnedBy, Rest
<1> QED
  BY <1>4, <1>5, <1>6, <1>7, <1>8, Zenon
-----------------------------------------------------------------------------
LEMMA UnlockedIs ==
    ASSUME Unlocked
    PROVE  ending.ctx \notin Contexts /\ \A t \in Surfaces : ~Midway(t)
<1>1. NotEnding.ctx = NoContext
  BY Zenon DEF NotEnding
<1> QED
  BY <1>1, MidwayIs, RuntimeAssumption, Zenon DEF Unlocked

LEMMA LockedIs ==
    ASSUME Inv, NEW c \in Contexts, ending.ctx = c
    PROVE  /\ ending # NotEnding /\ target[c] \in Surfaces /\ target[c] # NoSurface
           /\ Live(c) /\ eos[c] = "OPEN" /\ surface[target[c]].state # "none"
<1>1. NotEnding.ctx = NoContext
  BY Zenon DEF NotEnding
<1>2. ending # NotEnding
  BY <1>1, RuntimeAssumption, Zenon
<1> QED
  BY <1>2, Zenon DEF Inv, Types, TargetShape, TargetOk, EndingShape

LEMMA NotEndingIs == NotEnding \in [ctx : Owners, pts : Nat, stage : Stages]
BY Zenon DEF NotEnding, Owners, Stages

(* A step that leaves the tables alone.                                    *)
Tables == <<session, nextPts, shared, eos, surface, up, decoder, dropped, ended, leases>>

LEMMA TablesKept ==
    ASSUME Inv, UNCHANGED Tables,
           \A t \in Surfaces : surface[t].state = "pending" /\ Awaited(t) => Awaited(t)'
    PROVE  (FreeSlots <=> \A c \in Contexts : ~Live(c) => target[c] = NoSurface)'
           /\ (PtsGiven /\ EntriesOk /\ Apart /\ EosShape /\ NoLeaseLost)'
           /\ (\A s \in Surfaces : \A p : Marked(s, p)' <=> Marked(s, p))
<1>1. (EosShape /\ NoLeaseLost)'
  BY DEF Inv, Tables, EosShape, NoLeaseLost, OwnedBy
<1>2. \A s \in Surfaces : EntryOk(s)' /\ \A p : Marked(s, p)' <=> Marked(s, p)
  BY EntryKept, Zenon DEF Inv, Tables, EntriesOk, EntryOk
<1>3. (FreeSlots <=> \A c \in Contexts : ~Live(c) => target[c] = NoSurface)'
  BY Zenon DEF Inv, Tables, FreeSlots, Live
<1>4. PtsGiven' /\ Apart'
  BY <1>2, Zenon DEF Inv, Tables, PtsGiven, Apart
<1> QED
  BY <1>1, <1>2, <1>3, <1>4, Zenon DEF EntriesOk

(* A target that a step leaves alone.                                      *)
LEMMA TargetKept ==
    ASSUME Inv, NEW c \in Contexts, target'[c] # NoSurface, target'[c] = target[c],
           surface'[target[c]] = surface[target[c]],
           session'[c] = session[c], eos'[c] = eos[c],
           \A d \in Contexts : d # c /\ target'[d] = target[c] =>
              target[d] = target[c] \/ c \in shared',
           c \in shared => c \in shared',
           surface[target[c]].ctx \in shared => surface[target[c]].ctx \in shared' \cup {NoContext, c},
           Midway(target[c]) => Midway(target[c])' \/ c \in shared'
    PROVE  TargetOk(c)'
<1>1. TargetOk(c)
  BY Zenon DEF Inv, TargetShape
<1> QED
  BY <1>1, Zenon DEF TargetOk, Live

(* A target that is reset.                                                 *)
LEMMA TargetReset ==
    ASSUME NEW c \in Contexts, NEW e \in {FreeSurface, IdleSurface}, surface'[target'[c]] = e,
           session'[c] # 0, eos'[c] = "OPEN",
           \A d \in Contexts : d # c /\ target'[d] = target'[c] => c \in shared'
    PROVE  TargetOk(c)'
<1>1. e.ctx = NoContext /\ e.state \in {"none", "idle"} /\ e.lease = NoLease
  BY ResetIs, Zenon
<1> QED
  BY <1>1, Zenon DEF TargetOk, Live

(* The targets once a surface is reset.                                    *)
LEMMA TargetsReset ==
    ASSUME Inv, NEW s \in Surfaces, NEW e \in {FreeSurface, IdleSurface},
           surface'[s] = e, \A t \in Surfaces \ {s} : surface'[t] = surface[t],
           session' = session, eos' = eos, shared \subseteq shared',
           \A c \in Contexts : target'[c] \in {target[c], s, NoSurface},
           \A c \in Contexts : target'[c] = s => Live(c) /\ eos[c] = "OPEN",
           \A c, d \in Contexts : c # d /\ target'[c] = s /\ target'[d] = s => c \in shared',
           \A t \in Surfaces \ {s} : ~Midway(t)
    PROVE  TargetShape'
<1> SUFFICES ASSUME NEW c \in Contexts, target'[c] # NoSurface
             PROVE  TargetOk(c)'
  BY Zenon DEF TargetShape
<1>1. CASE target'[c] = s
  BY <1>1, TargetReset, Zenon DEF Live
<1>2. CASE target'[c] # s
  <2>1. target'[c] = target[c] /\ target[c] \in Surfaces \ {s}
    BY <1>2, Zenon DEF Inv, Types
  <2>2. surface'[target[c]] = surface[target[c]] /\ ~Midway(target[c])
    BY <2>1, Zenon
  <2>3. \A d \in Contexts : target'[d] = target[c] => target[d] = target[c]
    BY <1>2, <2>1, Zenon
  <2> QED
    BY <2>1, <2>2, <2>3, TargetKept, Zenon
<1> QED
  BY <1>1, <1>2, Zenon

(* create_surfaces and destroy_surfaces.                                   *)
LEMMA ResetStep ==
    ASSUME Inv, Unlocked, NEW s \in Surfaces, NEW e \in {FreeSurface, IdleSurface},
           release_surface_output(s, e), UNCHANGED Rest, UNCHANGED <<target, ending, shared>>
    PROVE  Inv'
<1>1. (EntriesOk /\ Apart /\ NoLeaseLost /\ PtsGiven /\ EosShape)'
  BY UnlockedIs, ReleaseOk, Zenon
<1>2. /\ surface' \in [Surfaces -> Entries] /\ surface'[s] = e
      /\ \A t \in Surfaces \ {s} : surface'[t] = surface[t]
      /\ leases' \in [Contexts -> SUBSET Outputs]
      /\ \A c \in Contexts : leases'[c] \subseteq leases[c]
  BY ReleaseIs, Zenon
<1>3. Types'
  BY <1>2, Zenon DEF Inv, Types, Rest
<1>4. FreeSlots'
  BY <1>2, Zenon DEF Inv, FreeSlots, Rest, Live
<1>5. TargetShape'
  <2>1. \A c \in Contexts : target[c] = s =>
           /\ target[c] # NoSurface /\ Live(c) /\ eos[c] = "OPEN"
           /\ \A d \in Contexts : d # c /\ target[d] = s => c \in shared
    BY DEF Inv, TargetShape, TargetOk, Surfaces, NoSurface
  <2>2. /\ \A c \in Contexts : target'[c] \in {target[c], s, NoSurface}
        /\ \A c \in Contexts : target'[c] = s => Live(c) /\ eos[c] = "OPEN"
        /\ \A c, d \in Contexts : c # d /\ target'[c] = s /\ target'[d] = s => c \in shared'
        /\ session' = session /\ eos' = eos /\ shared \subseteq shared'
    BY <2>1, Zenon DEF Rest
  <2> QED
    BY <1>2, <2>2, UnlockedIs, TargetsReset, Zenon
<1>6. EndingShape'
  BY Zenon DEF EndingShape, Unlocked
<1> QED
  BY <1>1, <1>3, <1>4, <1>5, <1>6, Zenon DEF Inv

LEMMA CreateSurfacesStep ==
    ASSUME Inv, NEW s \in Surfaces, create_surfaces(s)
    PROVE  Inv'
<1>1. Unlocked /\ UNCHANGED Rest /\ UNCHANGED <<target, ending, shared>>
  BY Zenon DEF create_surfaces, calls, broker, Rest
<1>2. ~Returnable(s)
  BY Zenon DEF create_surfaces, Inv, EntriesOk, EntryOk, Returnable
<1>3. release_surface_output(s, IdleSurface)
  BY <1>2, Zenon DEF create_surfaces, broker, release_surface_output
<1> QED
  BY <1>1, <1>3, ResetStep, Zenon

LEMMA DestroySurfacesStep ==
    ASSUME Inv, NEW s \in Surfaces, destroy_surfaces(s)
    PROVE  Inv'
BY ResetStep, Zenon DEF destroy_surfaces, calls, Rest

(* vaBeginPicture.                                                         *)
LEMMA BeginStep ==
    ASSUME Inv, Unlocked, NEW c \in Contexts, NEW s \in Surfaces, CanBegin(c, s), Begin(c, s)
    PROVE  Inv'
<1>1. /\ UNCHANGED Rest /\ ending' = ending
      /\ target' = [target EXCEPT ![c] = s] /\ release_surface_output(s, IdleSurface)
      /\ Live(c) /\ eos[c] = "OPEN" /\ shared' = shared \cup Sharing(c, s)
  BY Zenon DEF Begin, CanBegin, Rest
<1>2. /\ shared \subseteq shared' /\ shared' \in SUBSET Contexts
      /\ \A d \in Contexts \ {c} : target[d] = s => c \in shared' /\ d \in shared'
  BY <1>1, Zenon DEF Sharing, Inv, Types
<1>3. (EntriesOk /\ Apart /\ NoLeaseLost /\ PtsGiven /\ EosShape)'
  BY <1>1, <1>2, UnlockedIs, ReleaseOk, Zenon
<1>4. /\ surface' \in [Surfaces -> Entries] /\ surface'[s] = IdleSurface
      /\ \A t \in Surfaces \ {s} : surface'[t] = surface[t]
      /\ leases' \in [Contexts -> SUBSET Outputs]
      /\ \A d \in Contexts : leases'[d] \subseteq leases[d]
  BY <1>1, ReleaseIs, Zenon
<1>5. Types'
  BY <1>1, <1>2, <1>4, Zenon DEF Inv, Types, Rest
<1>6. FreeSlots'
  BY <1>1, <1>4, Zenon DEF Inv, Types, FreeSlots, Rest, Live
<1>7. target'[c] = s /\ \A d \in Contexts \ {c} : target'[d] = target[d]
  BY <1>1, Zenon DEF Inv, Types
<1>8. \A d \in Contexts : target[d] = s => Live(d) /\ eos[d] = "OPEN"
  BY DEF Inv, TargetShape, TargetOk, Surfaces, NoSurface
<1>9. TargetShape'
  <2>1. session' = session /\ eos' = eos
    BY <1>1, Zenon DEF Rest
  <2>2. \A d \in Contexts : target'[d] \in {target[d], s, NoSurface}
    BY <1>7, Zenon
  <2>3. \A d \in Contexts : target'[d] = s => Live(d) /\ eos[d] = "OPEN"
    BY <1>1, <1>7, <1>8, Zenon
  <2>4. \A a, d \in Contexts : a # d /\ target'[a] = s /\ target'[d] = s => a \in shared'
    <3> SUFFICES ASSUME NEW a \in Contexts, NEW d \in Contexts, a # d,
                        target'[a] = s, target'[d] = s
                 PROVE  a \in shared'
      BY Zenon
    <3>1. CASE a = c
      BY <1>2, <1>7, <3>1, Zenon
    <3>2. CASE a # c
      BY <1>2, <1>7, <3>2, Zenon
    <3> QED
      BY <3>1, <3>2, Zenon
  <2> QED
    BY <1>2, <1>4, <2>1, <2>2, <2>3, <2>4, UnlockedIs, TargetsReset, Zenon
<1>10. EndingShape'
  BY <1>1, Zenon DEF EndingShape, Unlocked
<1> QED
  BY <1>3, <1>5, <1>6, <1>9, <1>10, Zenon DEF Inv

LEMMA WaitingStep ==
    ASSUME Inv, UNCHANGED Tables, UNCHANGED <<target, ending>>
    PROVE  Inv'
<1>1. \A t \in Surfaces : (Midway(t)' <=> Midway(t)) /\ (Awaited(t)' <=> Awaited(t))
  BY Zenon DEF Midway, Awaited, Tables
<1>2. Types' /\ FreeSlots'
  BY Zenon DEF Inv, Types, FreeSlots, Live, Tables
<1>3. TargetShape'
  <2> SUFFICES ASSUME NEW c \in Contexts, target'[c] # NoSurface
               PROVE  TargetOk(c)'
    BY Zenon DEF TargetShape
  <2>1. target[c] \in Surfaces
    BY Zenon DEF Inv, Types
  <2> QED
    BY <1>1, <2>1, TargetKept, Zenon DEF Tables
<1>4. (PtsGiven /\ EntriesOk /\ Apart /\ EosShape /\ NoLeaseLost)'
      /\ \A s \in Surfaces : \A p : Marked(s, p)' <=> Marked(s, p)
  BY <1>1, TablesKept, Zenon
<1>5. EndingShape'
  BY <1>4, Zenon DEF Inv, EndingShape, Tables
<1> QED
  BY <1>2, <1>3, <1>4, <1>5, Zenon DEF Inv

LEMMA BeginPictureStep ==
    ASSUME Inv, NEW c \in Contexts, NEW s \in Surfaces,
           begin_picture(c, s) \/ \E th \in Threads : begin_picture_waits(th, c, s)
    PROVE  Inv'
<1>1. CASE begin_picture(c, s)
  BY <1>1, BeginStep, Zenon DEF begin_picture
<1>2. ASSUME NEW th \in Threads, begin_picture_waits(th, c, s)
      PROVE  Inv'
  BY <1>2, WaitingStep, Zenon DEF begin_picture_waits, broker, Tables
<1> QED
  BY <1>1, <1>2, Zenon

LEMMA BeginAgainStep ==
    ASSUME Inv, Waits, NEW th \in Threads, begin_picture_synced(th) \/ begin_picture_resumes(th)
    PROVE  Inv'
<1>1. CASE begin_picture_synced(th)
  BY <1>1, WaitingStep, Zenon DEF begin_picture_synced, broker, Tables
<1>2. CASE begin_picture_resumes(th)
  <2>1. CASE CanBegin(waiting[th].ctx, waiting[th].surf) /\ surface[waiting[th].surf].state # "error"
    <3>1. NotWaiting.synced = FALSE
      BY Zenon DEF NotWaiting
    <3>2. waiting[th].ctx \in Contexts /\ waiting[th].surf \in Surfaces
      BY <1>2, <3>1, Zenon DEF Waits, begin_picture_resumes
    <3> QED
      BY <1>2, <2>1, <3>2, BeginStep, Zenon DEF begin_picture_resumes
  <2>2. CASE ~(CanBegin(waiting[th].ctx, waiting[th].surf) /\ surface[waiting[th].surf].state # "error")
    BY <1>2, <2>2, WaitingStep, Zenon DEF begin_picture_resumes, broker, Tables
  <2> QED
    BY <2>1, <2>2, Zenon
<1> QED
  BY <1>1, <1>2, Zenon
-----------------------------------------------------------------------------
(* Contexts.                                                               *)
LEMMA InvInit == Init => Inv
<1> SUFFICES ASSUME Init
             PROVE  Inv
  BY Zenon
<1>1. \A s \in Surfaces : surface[s] = FreeSurface
  BY Zenon DEF Init
<1>2. /\ FreeSurface.lease = NoLease /\ FreeSurface.ctx = NoContext /\ ~FreeSurface.reserved
      /\ FreeSurface.state \in {"none", "idle"} /\ FreeSurface \in Entries
  BY ResetIs, Zenon
<1>3. \A s \in Surfaces : ~Active(s) /\ Clean(s) /\ \A p : ~Marked(s, p)
  BY <1>1, <1>2, NoLeaseIs, Zenon DEF Active, Clean, Marked
<1>4. Types
  BY <1>2, NotEndingIs DEF Init, Types
<1>5. FreeSlots /\ PtsGiven /\ Apart /\ TargetShape /\ EndingShape /\ EosShape /\ NoLeaseLost
  BY <1>3 DEF Init, FreeSlots, PtsGiven, Apart, TargetShape, EndingShape, EosShape, NoLeaseLost
<1>6. EntriesOk
  BY <1>1, <1>2, <1>3, RuntimeAssumption, Zenon DEF EntriesOk, EntryOk
<1> QED
  BY <1>4, <1>5, <1>6, Zenon DEF Inv

LEMMA RuntimeDestroyStep ==
    ASSUME Inv, runtime_destroy
    PROVE  Inv'
<1>1. \A s \in Surfaces : surface'[s] = FreeSurface
  BY Zenon DEF runtime_destroy
<1>2. \A s \in Surfaces : EntryOk(s)' /\ \A p : ~Marked(s, p)'
  BY <1>1, ResetOk, Zenon
<1>3. Types'
  BY ResetIs, NotEndingIs DEF runtime_destroy, Types, Unlocked
<1>4. (FreeSlots /\ PtsGiven /\ Apart /\ TargetShape /\ EndingShape /\ EosShape /\ NoLeaseLost)'
  BY <1>2 DEF runtime_destroy, Unlocked, FreeSlots, PtsGiven, Apart, TargetShape, EndingShape,
     EosShape, NoLeaseLost
<1> QED
  BY <1>2, <1>3, <1>4, Zenon DEF Inv, EntriesOk

LEMMA CreateContextStep ==
    ASSUME Inv, NEW c \in Contexts, create_context(c)
    PROVE  Inv'
<1>1. PICK id \in SessionIds : session' = [session EXCEPT ![c] = id]
  BY Zenon DEF create_context
<1>2. id \in Nat /\ id # 0
  BY <1>1, RuntimeAssumption, Zenon
<1>3. /\ target' = target /\ eos' = eos /\ up' = [up EXCEPT ![c] = TRUE]
      /\ UNCHANGED <<ending, shared, nextPts, surface, decoder, dropped, ended, leases>>
      /\ Unlocked /\ leases[c] = {} /\ target[c] = NoSurface /\ ~Live(c)
  BY DEF create_context, Inv, Types, FreeSlots
<1>4. \A s \in Surfaces : surface[s].ctx # c
  BY <1>3, Zenon DEF Inv, EntriesOk, EntryOk
<1>5. \A d \in Contexts \ {c} : session'[d] = session[d] /\ (Live(d)' <=> Live(d)) /\ up'[d] = up[d]
  BY <1>1, <1>3, Zenon DEF Inv, Types, Live
<1>6. session'[c] = id /\ Live(c)'
  BY <1>1, <1>2, Zenon DEF Inv, Types, Live
<1>7. Types'
  BY <1>1, <1>2, <1>3, Zenon DEF Inv, Types
<1>8. \A t \in Surfaces : EntryOk(t)' /\ \A p : Marked(t, p)' <=> Marked(t, p)
  <2> SUFFICES ASSUME NEW t \in Surfaces
               PROVE  EntryOk(t)' /\ \A p : Marked(t, p)' <=> Marked(t, p)
    BY Zenon
  <2>1. EntryOk(t) /\ surface'[t] = surface[t] /\ surface[t].ctx # c
    BY <1>3, <1>4, Zenon DEF Inv, EntriesOk
  <2>2. surface[t].state = "pending" => Awaited(t)'
    BY <1>3, <2>1, Zenon DEF EntryOk, Awaited, Midway
  <2> QED
    BY <1>3, <1>5, <2>1, <2>2, EntryKept, Zenon
<1>9. FreeSlots' /\ PtsGiven' /\ EosShape' /\ Apart'
  BY <1>3, <1>5, <1>6, <1>8 DEF Inv, FreeSlots, PtsGiven, EosShape, OwnedBy, Apart
<1>10. TargetShape'
  <2> SUFFICES ASSUME NEW d \in Contexts, target'[d] # NoSurface
               PROVE  TargetOk(d)'
    BY Zenon DEF TargetShape
  <2>1. d # c /\ target[d] \in Surfaces
    BY <1>3, Zenon DEF Inv, Types
  <2> QED
    BY <1>3, <1>5, <2>1, UnlockedIs, TargetKept, Zenon
<1>11. EndingShape'
  BY <1>3, Zenon DEF EndingShape, Unlocked
<1>12. NoLeaseLost'
  BY <1>3, <1>5 DEF Inv, NoLeaseLost, OwnedBy
<1> QED
  BY <1>7, <1>8, <1>9, <1>10, <1>11, <1>12, Zenon DEF Inv, EntriesOk

LEMMA DestroyContextStep ==
    ASSUME Inv, NEW c \in Contexts, destroy_context(c)
    PROVE  Inv'
<1>1. /\ session' = [session EXCEPT ![c] = 0] /\ target' = [target EXCEPT ![c] = NoSurface]
      /\ eos' = [eos EXCEPT ![c] = "OPEN"] /\ up' = [up EXCEPT ![c] = FALSE]
      /\ decoder' = [decoder EXCEPT ![c] = {}] /\ dropped' = [dropped EXCEPT ![c] = {}]
      /\ ended' = [ended EXCEPT ![c] = "none"] /\ leases' = [leases EXCEPT ![c] = {}]
      /\ shared' = shared \ {c} /\ UNCHANGED <<ending, nextPts>> /\ Unlocked
  BY Zenon DEF destroy_context, ForgetSession
<1>2. /\ \A s \in Surfaces : surface[s].ctx = c => surface'[s] = IdleSurface
      /\ \A s \in Surfaces : surface[s].ctx # c => surface'[s] = surface[s]
      /\ surface' \in [Surfaces -> Entries]
  BY ResetIs, Zenon DEF destroy_context, OwnedBy, Inv, Types
<1>3. IdleSurface.lease = NoLease /\ IdleSurface.ctx = NoContext /\ IdleSurface.state \in {"none", "idle"}
  BY ResetIs, Zenon
<1>4. \A d \in Contexts \ {c} :
         /\ session'[d] = session[d] /\ target'[d] = target[d] /\ eos'[d] = eos[d]
         /\ up'[d] = up[d] /\ decoder'[d] = decoder[d] /\ dropped'[d] = dropped[d]
         /\ ended'[d] = ended[d] /\ leases'[d] = leases[d] /\ (Live(d)' <=> Live(d))
  BY <1>1, Zenon DEF Inv, Types, Live
<1>5. /\ target'[c] = NoSurface /\ eos'[c] = "OPEN" /\ decoder'[c] = {} /\ dropped'[c] = {}
      /\ ended'[c] = "none" /\ leases'[c] = {}
  BY <1>1, Zenon DEF Inv, Types
<1>6. Types'
  BY <1>1, <1>2, Zenon DEF Inv, Types
<1>7. \A t \in Surfaces : EntryOk(t)' /\ \A p : Marked(t, p)' => Marked(t, p)
  <2> SUFFICES ASSUME NEW t \in Surfaces
               PROVE  EntryOk(t)' /\ \A p : Marked(t, p)' => Marked(t, p)
    BY Zenon
  <2>1. CASE surface[t].ctx = c
    BY <1>2, <2>1, ResetOk, Zenon
  <2>2. CASE surface[t].ctx # c
    <3>1. EntryOk(t) /\ surface'[t] = surface[t]
      BY <1>2, <2>2, Zenon DEF Inv, EntriesOk
    <3>2. surface[t].ctx \in Contexts =>
             /\ session'[surface[t].ctx] = session[surface[t].ctx]
             /\ up'[surface[t].ctx] = up[surface[t].ctx]
             /\ decoder'[surface[t].ctx] = decoder[surface[t].ctx]
             /\ dropped'[surface[t].ctx] = dropped[surface[t].ctx]
             /\ leases'[surface[t].ctx] = leases[surface[t].ctx]
      BY <1>4, <2>2, Zenon
    <3>3. surface[t].ctx \in Contexts /\ surface[t].state = "pending" => Awaited(t)'
      BY <1>1, <3>1, <3>2, UnlockedIs, Zenon DEF EntryOk, Awaited
    <3>4. surface[t].ctx \notin shared' => surface[t].ctx \notin shared
      BY <1>1, <2>2, Zenon
    <3> QED
      BY <3>1, <3>2, <3>3, <3>4, EntryKept, Zenon
  <2> QED
    BY <2>1, <2>2, Zenon
<1>8. FreeSlots'
  BY <1>4, <1>5, Zenon DEF Inv, FreeSlots
<1>9. PtsGiven' /\ Apart'
  <2>1. Apart'
    BY <1>7, Zenon DEF Inv, Apart
  <2>2. /\ \A d \in Contexts : \A p \in decoder'[d] \cup dropped'[d] : p < nextPts
        /\ \A t \in Surfaces : \A p \in Nat : Marked(t, p)' => p < nextPts
    BY <1>4, <1>5, <1>7, Zenon DEF Inv, PtsGiven
  <2>3. \A d, e \in Contexts : d # e => decoder'[d] \cap (decoder'[e] \cup dropped'[e]) = {}
    BY <1>4, <1>5 DEF Inv, PtsGiven
  <2> QED
    BY <1>1, <2>1, <2>2, <2>3, Zenon DEF PtsGiven
<1>10. EosShape' /\ EndingShape'
  BY <1>1, <1>2, <1>3, <1>4, <1>5 DEF Inv, EosShape, OwnedBy, EndingShape, Unlocked
<1>11. TargetShape'
  <2> SUFFICES ASSUME NEW d \in Contexts, target'[d] # NoSurface
               PROVE  TargetOk(d)'
    BY Zenon DEF TargetShape
  <2>1. d # c /\ target'[d] = target[d] /\ target[d] \in Surfaces
    BY <1>4, <1>5, Zenon DEF Inv, Types
  <2>2. \A e \in Contexts : e # d /\ target'[e] = target[d] => target[e] = target[d]
    BY <1>4, <1>5, <2>1, Zenon
  <2>3. d \in shared' <=> d \in shared
    BY <1>1, <2>1, Zenon
  <2>4. TargetOk(d)
    BY <2>1, Zenon DEF Inv, TargetShape
  <2>5. CASE surface[target[d]].ctx = c
    <3>1. surface'[target'[d]] = IdleSurface
      BY <1>2, <2>1, <2>5, Zenon
    <3>2. session'[d] # 0 /\ eos'[d] = "OPEN"
      BY <1>4, <2>1, <2>4, Zenon DEF TargetOk, Live
    <3>3. \A e \in Contexts : e # d /\ target'[e] = target'[d] => d \in shared'
      BY <2>1, <2>2, <2>3, <2>4, Zenon DEF TargetOk
    <3> QED
      BY <3>1, <3>2, <3>3, TargetReset, Zenon
  <2>6. CASE surface[target[d]].ctx # c
    <3>1. surface'[target[d]] = surface[target[d]]
      BY <1>2, <2>1, <2>6, Zenon
    <3>2. surface[target[d]].ctx \in shared => surface[target[d]].ctx \in shared'
      BY <1>1, <2>6, Zenon
    <3> QED
      BY <1>1, <1>4, <2>1, <2>2, <2>3, <3>1, <3>2, UnlockedIs, TargetKept, Zenon
  <2> QED
    BY <2>5, <2>6, Zenon
<1>12. NoLeaseLost'
  <2> SUFFICES ASSUME NEW d \in Contexts \ shared', NEW l \in leases'[d]
               PROVE  \E t \in OwnedBy(d)' : surface'[t].lease = l
                                             /\ surface'[t].sess = session'[d]
    BY Zenon DEF NoLeaseLost
  <2>1. d # c /\ d \notin shared /\ l \in leases[d] /\ session'[d] = session[d]
    BY <1>1, <1>4, <1>5, Zenon
  <2>2. PICK t \in OwnedBy(d) : surface[t].lease = l /\ surface[t].sess = session[d]
    BY <2>1, Zenon DEF Inv, NoLeaseLost
  <2>3. t \in Surfaces /\ surface'[t] = surface[t] /\ surface[t].ctx = d
    BY <1>2, <2>1, <2>2, Zenon DEF OwnedBy
  <2> QED
    BY <2>1, <2>2, <2>3, Zenon DEF OwnedBy
<1> QED
  BY <1>6, <1>7, <1>8, <1>9, <1>10, <1>11, <1>12, Zenon DEF Inv, EntriesOk
-----------------------------------------------------------------------------
(* vaEndPicture.                                                           *)
LEMMA RefusedStep ==
    ASSUME Inv, NEW c \in Contexts, end_picture_refused(c)
    PROVE  Inv'
<1>1. UNCHANGED Tables /\ ending' = ending /\ Unlocked
      /\ target' = [target EXCEPT ![c] = NoSurface]
  BY Zenon DEF end_picture_refused, broker, Tables
<1>2. target'[c] = NoSurface /\ \A d \in Contexts \ {c} : target'[d] = target[d]
  BY <1>1, Zenon DEF Inv, Types
<1>3. Types'
  BY <1>1, Zenon DEF Inv, Types, Tables
<1>4. FreeSlots' /\ EndingShape'
  BY <1>1, <1>2 DEF Inv, FreeSlots, EndingShape, Live, Tables, Unlocked
<1>5. TargetShape'
  <2> SUFFICES ASSUME NEW d \in Contexts, target'[d] # NoSurface
               PROVE  TargetOk(d)'
    BY Zenon DEF TargetShape
  <2>1. d # c /\ target'[d] = target[d] /\ target[d] \in Surfaces
    BY <1>2, Zenon DEF Inv, Types
  <2> QED
    BY <1>1, <1>2, <2>1, UnlockedIs, TargetKept, Zenon DEF Tables
<1>6. \A t \in Surfaces : Awaited(t) => Awaited(t)'
  BY <1>1, UnlockedIs, Zenon DEF Awaited, Tables
<1> QED
  BY <1>1, <1>3, <1>4, <1>5, <1>6, TablesKept, Zenon DEF Inv

LEMMA EndPictureStep ==
    ASSUME Inv, NEW c \in Contexts, end_picture(c)
    PROVE  Inv'
<1>1. PICK stage \in {"config", "reserve"} :
         ending' = [ctx |-> c, pts |-> nextPts, stage |-> stage]
  BY Zenon DEF end_picture
<1>2. /\ UNCHANGED <<session, target, shared, eos, surface, up, decoder, dropped, ended, leases>>
      /\ nextPts' = nextPts + 1 /\ Unlocked /\ target[c] # NoSurface
      /\ surface[target[c]].state # "none"
  BY Zenon DEF end_picture, broker
<1>3. nextPts \in Nat /\ ending'.ctx = c /\ ending'.pts = nextPts
  BY <1>1, Zenon DEF Inv, Types
<1>4. Types'
  <2>1. ending' \in [ctx : Owners, pts : Nat, stage : Stages]
    BY <1>1, <1>3, Zenon DEF Owners, Stages
  <2>2. nextPts' \in Nat \ {0}
    BY <1>2, <1>3
  <2> QED
    BY <1>2, <2>1, <2>2, Zenon DEF Inv, Types
<1>5. FreeSlots' /\ EosShape' /\ NoLeaseLost'
  BY <1>2 DEF Inv, FreeSlots, Live, EosShape, OwnedBy, NoLeaseLost
<1>6. \A t \in Surfaces : EntryOk(t)' /\ \A p : Marked(t, p)' <=> Marked(t, p)
  <2> SUFFICES ASSUME NEW t \in Surfaces
               PROVE  EntryOk(t)' /\ \A p : Marked(t, p)' <=> Marked(t, p)
    BY Zenon
  <2>1. EntryOk(t) /\ surface'[t] = surface[t]
    BY <1>2, Zenon DEF Inv, EntriesOk
  <2>2. surface[t].state = "pending" => Awaited(t)'
    BY <1>2, <2>1, UnlockedIs, Zenon DEF EntryOk, Awaited
  <2> QED
    BY <1>2, <2>1, <2>2, EntryKept, Zenon
<1>7. Apart'
  BY <1>6, Zenon DEF Inv, Apart
<1>8. PtsGiven'
  BY <1>2, <1>3, <1>6 DEF Inv, Types, PtsGiven
<1>9. TargetShape'
  <2> SUFFICES ASSUME NEW d \in Contexts, target'[d] # NoSurface
               PROVE  TargetOk(d)'
    BY Zenon DEF TargetShape
  <2>1. target[d] \in Surfaces
    BY <1>2, Zenon DEF Inv, Types
  <2> QED
    BY <1>2, <2>1, UnlockedIs, TargetKept, Zenon
<1>10. EndingShape'
  <2>1. /\ \A d \in Contexts : nextPts \notin decoder[d] \cup dropped[d]
        /\ \A t \in Surfaces : ~Marked(t, nextPts)
        /\ nextPts < nextPts'
    BY <1>2, <1>3 DEF Inv, Types, PtsGiven
  <2>2. PICK p : p = nextPts
    BY Zenon
  <2>3. \A t \in Surfaces : ~Marked(t, p)'
    BY <1>6, <2>1, <2>2, Zenon
  <2>4. ending'.pts = p
    BY <1>3, <2>2, Zenon
  <2>5. \A t \in Surfaces : ~Marked(t, ending.pts)'
    BY <2>3, <2>4, Zenon DEF Marked, Active
  <2> QED
    BY <1>2, <1>3, <2>1, <2>5, Zenon DEF EndingShape
<1> QED
  BY <1>4, <1>5, <1>6, <1>7, <1>8, <1>9, <1>10, Zenon DEF Inv, EntriesOk

LEMMA QueueFailsStep ==
    ASSUME Inv, NEW c \in Contexts, queue_fails(c)
    PROVE  Inv'
<1> DEFINE s == target[c]
           gives == ending.stage \in {"unit", "unit failed"} /\ surface[s].reserved
<1>1. /\ ending.ctx = c /\ ending' = NotEnding /\ target' = [target EXCEPT ![c] = NoSurface]
      /\ UNCHANGED Rest /\ shared' = shared
      /\ IF gives THEN release_surface_output(s, IdleSurface)
         ELSE UNCHANGED <<surface, leases>>
  BY Zenon DEF queue_fails, FailPicture, Finish, Rest
<1>2. s \in Surfaces /\ s # NoSurface
  BY <1>1, LockedIs, Zenon
<1>3. target'[c] = NoSurface /\ \A d \in Contexts \ {c} : target'[d] = target[d]
  BY <1>1, Zenon DEF Inv, Types
<1>4. EndingShape'
  BY <1>1, Zenon DEF EndingShape
<1>5. \A t \in Surfaces : Midway(t) => t = s /\ gives
  BY <1>1, MidwayIs, Zenon
<1>6. CASE gives
  <2>1. \A t \in Surfaces \ {s} : ~Midway(t)
    BY <1>5, Zenon
  <2>2. shared \subseteq shared' /\ release_surface_output(s, IdleSurface)
    BY <1>1, <1>6, Zenon
  <2>3. (EntriesOk /\ Apart /\ NoLeaseLost /\ PtsGiven /\ EosShape)'
    BY <1>1, <1>2, <2>1, <2>2, ReleaseOk, Zenon
  <2>4. /\ surface' \in [Surfaces -> Entries] /\ surface'[s] = IdleSurface
        /\ \A t \in Surfaces \ {s} : surface'[t] = surface[t]
        /\ leases' \in [Contexts -> SUBSET Outputs]
        /\ \A d \in Contexts : leases'[d] \subseteq leases[d]
    BY <1>2, <2>2, ReleaseIs, Zenon
  <2>5. Types'
    BY <1>1, <2>4, NotEndingIs, Zenon DEF Inv, Types, Rest
  <2>6. FreeSlots'
    BY <1>1, <1>3, <2>4, Zenon DEF Inv, FreeSlots, Rest, Live
  <2>7. TargetShape'
    <3>1. session' = session /\ eos' = eos
      BY <1>1, Zenon DEF Rest
    <3>2. \A d \in Contexts : target'[d] \in {target[d], s, NoSurface}
      BY <1>3, Zenon
    <3>3. \A d \in Contexts : target'[d] = s => d # c /\ target[d] = s /\ TargetOk(d)
      BY <1>2, <1>3, Zenon DEF Inv, TargetShape
    <3>4. \A d \in Contexts : target'[d] = s => Live(d) /\ eos[d] = "OPEN" /\ d \in shared'
      BY <1>1, <3>3, Zenon DEF TargetOk
    <3> QED
      BY <1>2, <2>1, <2>2, <2>4, <3>1, <3>2, <3>4, TargetsReset, Zenon
  <2> QED
    BY <1>4, <2>3, <2>5, <2>6, <2>7, Zenon DEF Inv
<1>7. CASE ~gives
  <2>1. UNCHANGED Tables
    BY <1>1, <1>7, Zenon DEF Tables, Rest
  <2>2. Types'
    BY <1>1, <2>1, NotEndingIs, Zenon DEF Inv, Types, Tables
  <2>3. \A t \in Surfaces : ~Midway(t)
    BY <1>5, <1>7, Zenon
  <2>4. FreeSlots'
    BY <1>3, <2>1, Zenon DEF Inv, FreeSlots, Live, Tables
  <2>5. TargetShape'
    <3> SUFFICES ASSUME NEW d \in Contexts, target'[d] # NoSurface
                 PROVE  TargetOk(d)'
      BY Zenon DEF TargetShape
    <3>1. d # c /\ target'[d] = target[d] /\ target[d] \in Surfaces
      BY <1>3, Zenon DEF Inv, Types
    <3>2. \A e \in Contexts : target'[e] = target[d] => target[e] = target[d]
      BY <1>3, <3>1, Zenon
    <3> QED
      BY <2>1, <2>3, <3>1, <3>2, TargetKept, Zenon DEF Tables
  <2>6. \A t \in Surfaces : Awaited(t) => Awaited(t)'
    BY <2>1, <2>3, Zenon DEF Awaited, Tables
  <2> QED
    BY <1>4, <2>1, <2>2, <2>4, <2>5, <2>6, TablesKept, Zenon DEF Inv
<1> QED
  BY <1>6, <1>7, Zenon

(* A stage of the call that has not reserved yet.                          *)
LEMMA EarlyStep ==
    ASSUME Inv, NEW c \in Contexts, ending.ctx = c, ending.stage \in {"config", "reserve"},
           UNCHANGED Tables, target' = target,
           NEW stage \in {"reserve", "unit"}, ending' = [ending EXCEPT !.stage = stage]
    PROVE  Inv'
<1>1. ending'.ctx = ending.ctx /\ ending'.pts = ending.pts
      /\ ending' \in [ctx : Owners, pts : Nat, stage : Stages]
  BY Zenon DEF Inv, Types, Stages
<1>2. Types' /\ FreeSlots'
  BY <1>1, Zenon DEF Inv, Types, FreeSlots, Live, Tables
<1>3. \A t \in Surfaces : ~Midway(t)
  BY MidwayIs DEF Midway
<1>4. TargetShape'
  <2> SUFFICES ASSUME NEW d \in Contexts, target'[d] # NoSurface
               PROVE  TargetOk(d)'
    BY Zenon DEF TargetShape
  <2>1. target[d] \in Surfaces
    BY Zenon DEF Inv, Types
  <2> QED
    BY <1>3, <2>1, TargetKept, Zenon DEF Tables
<1>5. \A t \in Surfaces : Awaited(t) => Awaited(t)'
  BY <1>3, Zenon DEF Awaited, Tables
<1>6. (PtsGiven /\ EntriesOk /\ Apart /\ EosShape /\ NoLeaseLost)'
      /\ \A t \in Surfaces : \A p : Marked(t, p)' <=> Marked(t, p)
  BY <1>5, TablesKept, Zenon
<1>7. EndingShape'
  <2>1. ending # NotEnding
    BY LockedIs, Zenon
  <2> QED
    BY <1>1, <1>6, <2>1, Zenon DEF Inv, EndingShape, Tables
<1> QED
  BY <1>2, <1>4, <1>6, <1>7, Zenon DEF Inv

LEMMA QueueConfigStep ==
    ASSUME Inv, NEW c \in Contexts, queue_config(c)
    PROVE  Inv'
BY EarlyStep, Zenon DEF queue_config, broker, Tables

(* The destination is reserved under the time stamp of the call.           *)
LEMMA ReserveStep ==
    ASSUME Inv, NEW c \in Contexts, reserve_surface_linear(c)
    PROVE  Inv'
<1>0. PICK s \in Surfaces : s = target[c]
  BY LockedIs, Zenon DEF reserve_surface_linear
<1> USE <1>0
<1>1. /\ ending.ctx = c /\ ending.stage = "reserve" /\ ending' = [ending EXCEPT !.stage = "unit"]
      /\ UNCHANGED <<session, target, shared, nextPts, eos, up, decoder, dropped, ended>>
  BY Zenon DEF reserve_surface_linear
<1>2. PICK p \in Nat : p = ending.pts
  BY Zenon DEF Inv, Types
<1>3. /\ ending'.ctx = c /\ ending'.pts = p /\ ending'.stage = "unit"
      /\ ending' \in [ctx : Owners, pts : Nat, stage : Stages]
  BY <1>1, <1>2, Zenon DEF Inv, Types, Stages
<1>4. /\ ending # NotEnding /\ s \in Surfaces /\ s # NoSurface /\ Live(c) /\ eos[c] = "OPEN"
      /\ surface[s].state # "none" /\ TargetOk(c)
  BY <1>1, LockedIs, Zenon DEF Inv, TargetShape
<1>5. /\ p < nextPts /\ \A d \in Contexts : p \notin decoder[d] \cup dropped[d]
      /\ \A t \in Surfaces : Marked(t, p) => t = s
  BY <1>1, <1>2, <1>4, Zenon DEF Inv, EndingShape
<1>6. \A t \in Surfaces : ~Midway(t)
  BY <1>1, MidwayIs DEF Midway
<1>7. CASE c \notin Async
  BY <1>1, <1>7, EarlyStep, Zenon DEF reserve_surface_linear, Tables
<1>8. CASE c \in Async
  <2>1. /\ surface' = [surface EXCEPT ![s] =
                          [@ EXCEPT !.pts = p, !.ctx = c, !.sess = session[c],
                                    !.lease = <<"r", p>>, !.reserved = TRUE]]
        /\ leases' = [leases EXCEPT ![c] = @ \cup {<<"r", p>>}]
    BY <1>2, <1>8, Zenon DEF reserve_surface_linear
  <2>2. surface[s] \in Entries /\ session[c] \in Nat /\ <<"r", p>> \in Outputs
    BY <1>4, Zenon DEF Inv, Types, Outputs
  <2>3. /\ surface'[s].pts = p /\ surface'[s].ctx = c /\ surface'[s].sess = session[c]
        /\ surface'[s].lease = <<"r", p>> /\ surface'[s].state = surface[s].state
        /\ surface'[s] \in Entries
    BY <1>4, <2>1, <2>2 DEF Inv, Types, Entries, Owners
  <2>4. surface'[s].reserved
    BY <1>4, <2>1, <2>2, Zenon DEF Inv, Types, Entries
  <2>5. \A t \in Surfaces \ {s} : surface'[t] = surface[t]
    BY <2>1, Zenon DEF Inv, Types
  <2>6. surface' \in [Surfaces -> Entries]
    BY <2>1, <2>3, <2>5, Zenon DEF Inv, Types
  <2>7. /\ leases'[c] = leases[c] \cup {<<"r", p>>}
        /\ \A d \in Contexts \ {c} : leases'[d] = leases[d]
        /\ leases' \in [Contexts -> SUBSET Outputs]
    BY <2>1, <2>2, Zenon DEF Inv, Types
  <2>8. Midway(s)'
    BY <1>1, <1>3, <2>3, <2>4, Zenon DEF Midway
  <2>9. /\ \A q : Marked(s, q)' => q = p
        /\ \A t \in Surfaces \ {s} : (\A q : Marked(t, q)' <=> Marked(t, q)) /\ ~Marked(t, p)
    <3>1. \A q : <<"r", p>> \in {<<"o", q>>, <<"r", q>>} => q = p
      OBVIOUS
    <3>2. \A q : Marked(s, q)' => q = p
      <4> SUFFICES ASSUME NEW q, Marked(s, q)'
                   PROVE  q = p
        BY Zenon
      <4>1. surface'[s].pts = q \/ surface'[s].lease \in {<<"o", q>>, <<"r", q>>}
        BY Zenon DEF Marked
      <4> QED
        BY <2>3, <4>1
    <3> QED
      BY <1>5, <2>5, <3>2, Zenon DEF Marked, Active
  <2>10. Types'
    BY <1>1, <1>3, <2>6, <2>7, Zenon DEF Inv, Types
  <2>11. FreeSlots'
    BY <1>1, <1>4, <2>7, Zenon DEF Inv, FreeSlots, Live
  <2>12. PtsGiven'
    <3>1. \A t \in Surfaces : \A q \in Nat : Marked(t, q)' => q < nextPts
      BY <1>5, <2>9, Zenon DEF Inv, PtsGiven
    <3> QED
      BY <1>1, <3>1, Zenon DEF Inv, PtsGiven
  <2>13. EosShape'
    BY <1>1, <1>4, <2>3, <2>5 DEF Inv, EosShape, OwnedBy
  <2>14. Apart'
    <3> SUFFICES ASSUME NEW t \in Surfaces, NEW u \in Surfaces, t # u, NEW q \in Nat,
                        Marked(t, q)', Marked(u, q)'
                 PROVE  FALSE
      BY Zenon DEF Apart
    <3>1. CASE t = s
      BY <2>9, <3>1, Zenon
    <3>2. CASE u = s
      BY <2>9, <3>2, Zenon
    <3>3. CASE t # s /\ u # s
      BY <2>9, <3>3, Zenon DEF Inv, Apart
    <3> QED
      BY <3>1, <3>2, <3>3, Zenon
  <2>15. EndingShape'
    <3>1. \A t \in Surfaces : Marked(t, p)' => t = s
      BY <2>9, Zenon
    <3>2. \A t \in Surfaces : Marked(t, ending.pts)' => t = s
      BY <1>3, <3>1, Zenon DEF Marked, Active
    <3> QED
      BY <1>1, <1>3, <1>4, <1>5, <2>3, <3>2, Zenon DEF EndingShape
  <2>16. TargetShape'
    <3> SUFFICES ASSUME NEW d \in Contexts, target'[d] # NoSurface
                 PROVE  TargetOk(d)'
      BY Zenon DEF TargetShape
    <3>1. target'[d] = target[d] /\ target[d] \in Surfaces /\ TargetOk(d)
      BY <1>1, Zenon DEF Inv, Types, TargetShape
    <3>2. CASE d = c
      BY <1>1, <2>3, <2>8, <3>1, <3>2, Zenon DEF TargetOk, Live
    <3>3. CASE d # c /\ target[d] = s
      <4>1. d \in shared /\ c \in shared
        BY <1>4, <3>1, <3>3, Zenon DEF TargetOk
      <4> QED
        BY <1>1, <2>3, <3>1, <3>3, <4>1, Zenon DEF TargetOk, Live
    <3>4. CASE target[d] # s
      BY <1>1, <1>6, <2>5, <3>1, <3>4, TargetKept, Zenon
    <3> QED
      BY <3>2, <3>3, <3>4, Zenon
  <2>17. EntriesOk'
    <3> SUFFICES ASSUME NEW t \in Surfaces
                 PROVE  EntryOk(t)'
      BY Zenon DEF EntriesOk
    <3>1. CASE t = s
      <4>1. surface'[t].lease = <<"r", surface'[t].pts>> /\ surface'[t].reserved
        BY <2>3, <2>4, <3>1, Zenon
      <4>2. surface'[t].lease # <<"o", surface'[t].pts>>
        BY <4>1
      <4>3. Clean(t)' /\ Awaited(t)'
        BY <2>8, <3>1, <4>1, <4>2, Zenon DEF Clean, Awaited
      <4>4. /\ surface'[t].ctx \in Contexts /\ surface'[t].state # "none"
            /\ Live(surface[t].ctx)' /\ session'[surface'[t].ctx] = surface'[t].sess
        BY <1>1, <1>4, <2>3, <3>1, Zenon DEF Live
      <4> QED
        BY <4>3, <4>4, Zenon DEF EntryOk
    <3>2. CASE t # s
      <4>1. EntryOk(t) /\ surface'[t] = surface[t]
        BY <2>5, <3>2, Zenon DEF Inv, EntriesOk
      <4>2. surface[t].state = "pending" => Awaited(t)'
        BY <1>1, <1>6, <4>1, Zenon DEF EntryOk, Awaited
      <4>3. \A d \in Contexts : leases[d] \subseteq leases'[d]
        BY <2>7, Zenon
      <4> QED
        BY <1>1, <4>1, <4>2, <4>3, EntryKept, Zenon
    <3> QED
      BY <3>1, <3>2, Zenon
  <2>18. NoLeaseLost'
    <3> SUFFICES ASSUME NEW d \in Contexts \ shared, NEW l \in leases'[d]
                 PROVE  \E t \in OwnedBy(d)' : surface'[t].lease = l
                                               /\ surface'[t].sess = session'[d]
      BY <1>1, Zenon DEF NoLeaseLost
    <3>1. CASE d = c /\ l = <<"r", p>>
      BY <1>1, <1>4, <2>3, <3>1, Zenon DEF OwnedBy
    <3>2. CASE l \in leases[d]
      <4>1. PICK t \in OwnedBy(d) : surface[t].lease = l /\ surface[t].sess = session[d]
        BY <3>2, Zenon DEF Inv, NoLeaseLost
      <4>2. l # NoLease
        BY <3>2, NoLeaseIs, Zenon DEF Inv, Types
      <4>3. t # s
        BY <1>4, <1>6, <4>1, <4>2, SharedIs, Zenon DEF TargetOk, OwnedBy
      <4> QED
        BY <1>1, <2>5, <4>1, <4>3, Zenon DEF OwnedBy
    <3> QED
      BY <2>7, <3>1, <3>2, Zenon
  <2> QED
    BY <2>10, <2>11, <2>12, <2>13, <2>14, <2>15, <2>16, <2>17, <2>18, Zenon DEF Inv
<1> QED
  BY <1>7, <1>8, Zenon

(* The unit is queued: its time stamp is new to every decoder.             *)
LEMMA QueueUnitStep ==
    ASSUME Inv, NEW c \in Contexts, queue_unit(c)
    PROVE  Inv'
<1>0. PICK s \in Surfaces : s = target[c]
  BY LockedIs, Zenon DEF queue_unit
<1> USE <1>0
<1>1. /\ ending.ctx = c /\ ending' = NotEnding
      /\ target' = [target EXCEPT ![c] = NoSurface]
      /\ decoder' = [decoder EXCEPT ![c] = @ \cup {ending.pts}]
      /\ UNCHANGED <<session, shared, nextPts, eos, up, dropped, ended, leases>>
  BY Zenon DEF queue_unit, Finish
<1>2. PICK p \in Nat : p = ending.pts
  BY Zenon DEF Inv, Types
<1>3. /\ ending # NotEnding /\ s \in Surfaces /\ s # NoSurface /\ Live(c) /\ eos[c] = "OPEN"
      /\ TargetOk(c)
  BY <1>1, LockedIs, Zenon DEF Inv, TargetShape
<1>4. /\ p < nextPts /\ \A d \in Contexts : p \notin decoder[d] \cup dropped[d]
      /\ \A t \in Surfaces \ {s} : ~Marked(t, p)
  BY <1>1, <1>2, <1>3, Zenon DEF Inv, EndingShape
<1>5. \A t \in Surfaces \ {s} : ~Midway(t)
  BY <1>1, MidwayIs, Zenon
<1>6. c \notin shared => /\ surface[s].lease \in {NoLease, <<"r", p>>}
                         /\ surface[s].reserved <=> surface[s].lease = <<"r", p>>
  <2> SUFFICES ASSUME c \notin shared
               PROVE  /\ surface[s].lease \in {NoLease, <<"r", p>>}
                      /\ surface[s].reserved <=> surface[s].lease = <<"r", p>>
    BY Zenon
  <2>1. surface[s].ctx \in {NoContext, c} /\ (surface[s].lease = NoLease \/ Midway(s))
    BY <1>3, Zenon DEF TargetOk
  <2>2. CASE surface[s].lease = NoLease
    <3>1. Clean(s)
      BY <1>3, <2>1, SharedIs, Zenon DEF Inv, EntriesOk, EntryOk
    <3> QED
      BY <2>2, <3>1, NoLeaseIs, Zenon DEF Clean
  <2>3. CASE Midway(s)
    BY <1>2, <2>3, Zenon DEF Midway
  <2> QED
    BY <2>1, <2>2, <2>3, Zenon
<1>7. surface' = [surface EXCEPT ![s] =
                     [@ EXCEPT !.state = "pending", !.pts = p, !.ctx = c, !.sess = session[c]]]
  BY <1>2, Zenon DEF queue_unit
<1>8. /\ surface'[s].pts = p /\ surface'[s].ctx = c /\ surface'[s].sess = session[c]
      /\ surface'[s].lease = surface[s].lease /\ surface'[s].state = "pending"
      /\ surface'[s] \in Entries
  <2>1. surface[s] \in Entries /\ session[c] \in Nat /\ surface'[s] =
           [surface[s] EXCEPT !.state = "pending", !.pts = p, !.ctx = c, !.sess = session[c]]
    BY <1>3, <1>7, Zenon DEF Inv, Types
  <2> QED
    BY <1>2, <2>1, Zenon DEF Entries, Owners, States
<1>9. surface'[s].reserved = surface[s].reserved
  BY <1>3, <1>7 DEF Inv, Types, Entries
<1>10. \A t \in Surfaces \ {s} : surface'[t] = surface[t]
  BY <1>7, Zenon DEF Inv, Types
<1>11. surface' \in [Surfaces -> Entries]
  BY <1>7, <1>8, <1>10, Zenon DEF Inv, Types
<1>12. /\ decoder'[c] = decoder[c] \cup {p} /\ target'[c] = NoSurface
       /\ \A d \in Contexts \ {c} : decoder'[d] = decoder[d] /\ target'[d] = target[d]
       /\ decoder' \in [Contexts -> SUBSET Nat]
  BY <1>1, <1>2, Zenon DEF Inv, Types
<1>13. /\ \A q : Marked(s, q)' => q = p \/ Marked(s, q)
       /\ \A t \in Surfaces \ {s} : \A q : Marked(t, q)' <=> Marked(t, q)
  BY <1>8, <1>10, Zenon DEF Marked, Active
<1>14. Types'
  BY <1>1, <1>11, <1>12, NotEndingIs, Zenon DEF Inv, Types
<1>15. FreeSlots' /\ EndingShape'
  BY <1>1, <1>3, <1>12 DEF Inv, FreeSlots, Live, EndingShape
<1>16. PtsGiven'
  <2>1. \A t \in Surfaces : \A q \in Nat : Marked(t, q)' => q < nextPts
    BY <1>4, <1>13, Zenon DEF Inv, PtsGiven
  <2>2. \A d \in Contexts : \A q \in decoder'[d] \cup dropped[d] : q < nextPts
    BY <1>4, <1>12, Zenon DEF Inv, PtsGiven
  <2>3. \A d, e \in Contexts : d # e => decoder'[d] \cap (decoder'[e] \cup dropped[e]) = {}
    BY <1>4, <1>12 DEF Inv, PtsGiven
  <2> QED
    BY <1>1, <2>1, <2>2, <2>3, Zenon DEF PtsGiven
<1>17. EosShape'
  BY <1>1, <1>3, <1>8, <1>10, <1>12 DEF Inv, EosShape, OwnedBy
<1>18. Apart'
  <2> SUFFICES ASSUME NEW t \in Surfaces, NEW u \in Surfaces, t # u, NEW q \in Nat,
                      Marked(t, q)', Marked(u, q)'
               PROVE  FALSE
    BY Zenon DEF Apart
  <2>1. (t = s /\ q = p) \/ Marked(t, q)
    BY <1>13, Zenon
  <2>2. (u = s /\ q = p) \/ Marked(u, q)
    BY <1>13, Zenon
  <2> QED
    BY <1>4, <2>1, <2>2, Zenon DEF Inv, Apart
<1>19. TargetShape'
  <2> SUFFICES ASSUME NEW d \in Contexts, target'[d] # NoSurface
               PROVE  TargetOk(d)'
    BY Zenon DEF TargetShape
  <2>1. d # c /\ target'[d] = target[d] /\ target[d] \in Surfaces /\ TargetOk(d)
    BY <1>12, Zenon DEF Inv, Types, TargetShape
  <2>2. \A e \in Contexts : e # d /\ target'[e] = target[d] => target[e] = target[d]
    BY <1>12, <2>1, Zenon
  <2>3. CASE target[d] = s
    <3>1. d \in shared /\ c \in shared
      BY <1>3, <2>1, <2>3, Zenon DEF TargetOk
    <3> QED
      <4>1. surface'[target'[d]].ctx = c /\ d \in shared' /\ c \in shared'
        BY <1>1, <1>8, <2>1, <2>3, <3>1, Zenon
      <4>2. Live(d)' /\ eos'[d] = "OPEN"
        BY <1>1, <2>1, Zenon DEF TargetOk, Live
      <4> QED
        BY <4>1, <4>2, Zenon DEF TargetOk
  <2>4. CASE target[d] # s
    BY <1>1, <1>5, <1>10, <2>1, <2>2, <2>4, TargetKept, Zenon
  <2> QED
    BY <2>3, <2>4, Zenon
<1>20. EntriesOk'
  <2> SUFFICES ASSUME NEW t \in Surfaces
               PROVE  EntryOk(t)'
    BY Zenon DEF EntriesOk
  <2>1. CASE t = s
    <3>1. ASSUME surface'[t].ctx \notin shared'
          PROVE  Clean(t)'
      <4>1. c \notin shared
        BY <1>1, <1>8, <2>1, <3>1, Zenon
      <4>2. surface'[t].lease \in {NoLease, <<"r", surface'[t].pts>>}
        BY <1>6, <1>8, <2>1, <4>1, Zenon
      <4>3. surface'[t].lease # <<"o", surface'[t].pts>>
        BY <4>2, NoLeaseIs
      <4>4. surface'[t].reserved <=> surface'[t].lease = <<"r", surface'[t].pts>>
        BY <1>6, <1>8, <1>9, <2>1, <4>1, Zenon
      <4> QED
        BY <4>2, <4>3, <4>4, Zenon DEF Clean
    <3>2. /\ surface'[t].ctx \in Contexts /\ surface'[t].state = "pending"
          /\ Live(surface[t].ctx)' /\ session'[surface'[t].ctx] = surface'[t].sess
          /\ surface'[t].pts \in decoder'[surface'[t].ctx]
      BY <1>1, <1>3, <1>8, <1>12, <2>1, Zenon DEF Live
    <3> QED
      BY <3>1, <3>2, Zenon DEF EntryOk, Awaited
  <2>2. CASE t # s
    <3>1. EntryOk(t) /\ surface'[t] = surface[t]
      BY <1>10, <2>2, Zenon DEF Inv, EntriesOk
    <3>2. \A d \in Contexts : decoder[d] \subseteq decoder'[d]
      BY <1>12, Zenon
    <3>3. surface[t].ctx \in Contexts /\ surface[t].state = "pending" => Awaited(t)'
      BY <1>1, <1>5, <2>2, <3>1, <3>2, Zenon DEF EntryOk, Awaited
    <3> QED
      BY <1>1, <3>1, <3>3, EntryKept, Zenon
  <2> QED
    BY <2>1, <2>2, Zenon
<1>21. NoLeaseLost'
  <2> SUFFICES ASSUME NEW d \in Contexts \ shared, NEW l \in leases[d]
               PROVE  \E t \in OwnedBy(d)' : surface'[t].lease = l
                                             /\ surface'[t].sess = session'[d]
    BY <1>1, Zenon DEF NoLeaseLost
  <2>1. PICK t \in OwnedBy(d) : surface[t].lease = l /\ surface[t].sess = session[d]
    BY Zenon DEF Inv, NoLeaseLost
  <2>2. CASE t # s
    BY <1>1, <1>10, <2>1, <2>2, Zenon DEF OwnedBy
  <2>3. CASE t = s
    <3>1. d = c
      BY <1>3, <2>1, <2>3, SharedIs, Zenon DEF TargetOk, OwnedBy
    <3> QED
      BY <1>1, <1>3, <1>8, <2>1, <2>3, <3>1, Zenon DEF OwnedBy
  <2> QED
    BY <2>2, <2>3, Zenon
<1> QED
  BY <1>14, <1>15, <1>16, <1>17, <1>18, <1>19, <1>20, <1>21, Zenon DEF Inv
-----------------------------------------------------------------------------
(* The decoder and the connection.                                         *)
LEMMA UnitsLost ==
    ASSUME Inv, NEW c \in Contexts, Live(c), UNCHANGED <<calls, eos, surface, ended>>,
           NEW U \in SUBSET decoder[c],
           decoder' = [decoder EXCEPT ![c] = @ \ U],
           dropped' = [dropped EXCEPT ![c] = @ \cup U],
           \/ up' = up /\ leases' = leases
           \/ up' = [up EXCEPT ![c] = FALSE] /\ leases' = [leases EXCEPT ![c] = {}]
    PROVE  Inv'
<1>1. /\ decoder'[c] = decoder[c] \ U /\ dropped'[c] = dropped[c] \cup U
      /\ \A d \in Contexts \ {c} : decoder'[d] = decoder[d] /\ dropped'[d] = dropped[d]
  BY Zenon DEF Inv, Types
<1>2. \A d \in Contexts : decoder'[d] \cup dropped'[d] = decoder[d] \cup dropped[d]
                          /\ decoder'[d] \subseteq decoder[d]
  BY <1>1, Zenon
<1>3. \A d \in Contexts : leases'[d] \subseteq leases[d]
                          /\ (up'[d] => up[d] /\ leases'[d] = leases[d])
  BY Zenon DEF Inv, Types
<1>4. Types'
  BY Zenon DEF Inv, Types, calls
<1>5. UNCHANGED <<session, target, ending, shared, nextPts>>
  BY Zenon DEF calls
<1>6. FreeSlots'
  BY <1>1, <1>3, <1>5 DEF Inv, FreeSlots, Live
<1>7. \A t \in Surfaces : Midway(t)' <=> Midway(t)
  BY <1>5, Zenon DEF Midway
<1>8. TargetShape'
  <2> SUFFICES ASSUME NEW d \in Contexts, target'[d] # NoSurface
               PROVE  TargetOk(d)'
    BY Zenon DEF TargetShape
  <2>1. target[d] \in Surfaces
    BY <1>5, Zenon DEF Inv, Types
  <2> QED
    BY <1>5, <1>7, <2>1, TargetKept, Zenon
<1>9. \A t \in Surfaces : EntryOk(t)' /\ \A p : Marked(t, p)' <=> Marked(t, p)
  <2> SUFFICES ASSUME NEW t \in Surfaces
               PROVE  EntryOk(t)' /\ \A p : Marked(t, p)' <=> Marked(t, p)
    BY Zenon
  <2>1. EntryOk(t) /\ surface'[t] = surface[t]
    BY Zenon DEF Inv, EntriesOk
  <2>2. surface[t].ctx \in Contexts /\ surface[t].state = "pending" => Awaited(t)'
    BY <1>2, <1>7, <2>1, Zenon DEF EntryOk, Awaited
  <2> QED
    BY <1>3, <1>5, <2>1, <2>2, EntryKept, Zenon
<1>10. PtsGiven'
  <2>1. \A t \in Surfaces : \A p \in Nat : Marked(t, p)' => p < nextPts'
    BY <1>5, <1>9, Zenon DEF Inv, PtsGiven
  <2>2. \A d \in Contexts : \A p \in decoder'[d] \cup dropped'[d] : p < nextPts'
    BY <1>2, <1>5, Zenon DEF Inv, PtsGiven
  <2>3. \A d, e \in Contexts : d # e => decoder'[d] \cap (decoder'[e] \cup dropped'[e]) = {}
    BY <1>2 DEF Inv, PtsGiven
  <2> QED
    BY <2>1, <2>2, <2>3, Zenon DEF PtsGiven
<1>11. EosShape' /\ NoLeaseLost'
  BY <1>1, <1>2, <1>3, <1>5 DEF Inv, EosShape, NoLeaseLost, OwnedBy
<1>12. Apart'
  BY <1>9, Zenon DEF Inv, Apart
<1>13. EndingShape'
  BY <1>2, <1>5, <1>9, Zenon DEF Inv, EndingShape
<1> QED
  BY <1>4, <1>6, <1>8, <1>9, <1>10, <1>11, <1>12, <1>13, Zenon DEF Inv, EntriesOk

LEMMA DecoderDropsStep ==
    ASSUME Inv, NEW c \in Contexts, DecoderDrops(c)
    PROVE  Inv'
<1>1. PICK p \in decoder[c] : /\ decoder' = [decoder EXCEPT ![c] = @ \ {p}]
                              /\ dropped' = [dropped EXCEPT ![c] = @ \cup {p}]
  BY Zenon DEF DecoderDrops
<1>2. Live(c) /\ {p} \in SUBSET decoder[c]
  BY Zenon DEF Inv, FreeSlots
<1> QED
  BY <1>1, <1>2, UnitsLost, Zenon DEF DecoderDrops

LEMMA ConnectionDiesStep ==
    ASSUME Inv, NEW c \in Contexts, ConnectionDies(c)
    PROVE  Inv'
<1>1. decoder' = [decoder EXCEPT ![c] = @ \ decoder[c]]
  BY Zenon DEF ConnectionDies, Inv, Types
<1>2. decoder[c] \in SUBSET decoder[c]
  BY Zenon
<1> QED
  BY <1>1, <1>2, UnitsLost, Zenon DEF ConnectionDies

LEMMA SignalEosStep ==
    ASSUME Inv, NEW c \in Contexts, signal_eos(c)
    PROVE  Inv'
<1>1. /\ UNCHANGED <<session, target, ending, shared, nextPts, surface, up, decoder, dropped, leases>>
      /\ eos[c] \in {"OPEN", "SIGNAL_PENDING"} /\ Live(c) /\ target[c] = NoSurface
      /\ Unlocked
  BY Zenon DEF signal_eos, calls
<1>2. PICK e \in {"SIGNAL_PENDING", "DRAINING", "FAILED"} : eos' = [eos EXCEPT ![c] = e]
  BY Zenon DEF signal_eos
<1>3. ended' = ended \/ ended' = [ended EXCEPT ![c] = "queued"]
  BY Zenon DEF signal_eos
<1>4. ended[c] # "done"
  BY <1>1, Zenon DEF Inv, EosShape
<1>5. /\ eos'[c] = e /\ ended'[c] # "done"
      /\ \A d \in Contexts \ {c} : eos'[d] = eos[d] /\ ended'[d] = ended[d]
  BY <1>2, <1>3, <1>4, Zenon DEF Inv, Types
<1>6. Types'
  BY <1>1, <1>2, <1>3, Zenon DEF Inv, Types
<1>7. FreeSlots'
  BY <1>1, <1>5, Zenon DEF Inv, FreeSlots, Live
<1>8. TargetShape'
  <2> SUFFICES ASSUME NEW d \in Contexts, target'[d] # NoSurface
               PROVE  TargetOk(d)'
    BY Zenon DEF TargetShape
  <2>1. d # c /\ target[d] \in Surfaces
    BY <1>1, Zenon DEF Inv, Types
  <2> QED
    BY <1>1, <1>5, <2>1, UnlockedIs, TargetKept, Zenon
<1>9. EndingShape'
  BY <1>1, Zenon DEF EndingShape, Unlocked
<1>10. \A t \in Surfaces : EntryOk(t)' /\ \A p : Marked(t, p)' <=> Marked(t, p)
  <2>1. \A t \in Surfaces : EntryOk(t) /\ (Awaited(t)' <=> Awaited(t))
    BY <1>1, Zenon DEF Inv, EntriesOk, Awaited, Midway
  <2>2. \A t \in Surfaces : surface[t].state = "pending" => Awaited(t)'
    BY <2>1, Zenon DEF EntryOk
  <2> QED
    BY <1>1, <2>1, <2>2, EntryKept, Zenon
<1>11. PtsGiven' /\ Apart'
  BY <1>1, <1>10, Zenon DEF Inv, PtsGiven, Apart
<1>12. NoLeaseLost'
  BY <1>1 DEF Inv, NoLeaseLost, OwnedBy
<1>13. EosShape'
  BY <1>1, <1>5, Zenon DEF Inv, EosShape, OwnedBy
<1> QED
  BY <1>6, <1>7, <1>8, <1>9, <1>10, <1>11, <1>12, <1>13, Zenon DEF Inv, EntriesOk
-----------------------------------------------------------------------------
(* The dequeue.  What may become of a surface when the answer is unit p.   *)
Fate(t, p) ==
    /\ surface'[t] \in Entries
    /\ surface'[t].pts = surface[t].pts /\ surface'[t].ctx = surface[t].ctx
    /\ surface'[t].sess = surface[t].sess
    /\ \/ surface'[t] = surface[t]
       \/ /\ surface[t].state = "pending" /\ surface'[t].state = "error"
          /\ surface'[t].lease = surface[t].lease /\ surface'[t].reserved = surface[t].reserved
       \/ /\ surface[t].state = "pending" /\ surface[t].pts = p /\ surface'[t].state = "ready"
          /\ surface'[t].lease = <<"o", p>> /\ ~surface'[t].reserved
       \/ /\ surface[t].state = "pending" /\ surface'[t].state = "ready"
          /\ surface'[t].lease = surface[t].lease /\ surface'[t].reserved = surface[t].reserved

(* ... and of the unit and the leases: `kept' is what the surface keeps.   *)
Placed(c, p, kept) ==
    /\ surface' \in [Surfaces -> Entries] /\ \A t \in Surfaces : Fate(t, p)
    /\ \/ kept = {} /\ \A t \in Surfaces : surface'[t].lease = surface[t].lease
       \/ /\ kept = {<<"o", p>>} /\ p \in decoder[c] /\ <<"r", p>> \notin leases'[c]
          /\ \E m \in Surfaces : /\ surface[m].state = "pending" /\ surface[m].pts = p
                                 /\ surface'[m].lease = <<"o", p>>
    /\ decoder' \in [Contexts -> SUBSET Nat] /\ dropped' \in [Contexts -> SUBSET Nat]
    /\ leases' \in [Contexts -> SUBSET Outputs]
    /\ \A d \in Contexts \ {c} :
          decoder'[d] = decoder[d] /\ dropped'[d] = dropped[d] /\ leases'[d] = leases[d]
    /\ decoder'[c] \subseteq decoder[c] /\ dropped[c] \subseteq dropped'[c]
    /\ decoder'[c] \cup dropped'[c] \subseteq decoder[c] \cup dropped[c]
    /\ leases'[c] \subseteq leases[c] \cup kept /\ kept \subseteq leases'[c]
    /\ leases[c] \subseteq leases'[c] \cup {<<"r", p>>}
    /\ \A t \in Surfaces : surface'[t].state = "pending" /\ surface[t].ctx = c =>
          surface[t].pts \in decoder'[c] \cup dropped'[c] \/ Midway(t)

(* A dequeue leaves the call in progress alone, or fails it.               *)
Held ==
    \/ ending' = ending
    \/ /\ ending.stage \in {"config", "unit"}
       /\ ending' = [ending EXCEPT !.stage = IF @ = "unit" THEN "unit failed" ELSE "failed"]

LEMMA HeldIs ==
    ASSUME Inv, Held
    PROVE  /\ ending' \in [ctx : Owners, pts : Nat, stage : Stages]
           /\ ending'.ctx = ending.ctx /\ ending'.pts = ending.pts
           /\ ending.stage \in {"unit", "unit failed"} => ending'.stage \in {"unit", "unit failed"}
           /\ ending' # NotEnding => ending # NotEnding
<1>1. CASE ending' = ending
  BY <1>1, Zenon DEF Inv, Types
<1>2. CASE /\ ending.stage \in {"config", "unit"}
           /\ ending' = [ending EXCEPT !.stage = IF @ = "unit" THEN "unit failed" ELSE "failed"]
  <2>1. NotEnding.stage = "none"
    BY Zenon DEF NotEnding
  <2>2. ending \in [ctx : Owners, pts : Nat, stage : Stages]
    BY Zenon DEF Inv, Types
  <2>3. CASE ending.stage = "unit"
    BY <1>2, <2>1, <2>2, <2>3, Zenon DEF Stages
  <2>4. CASE ending.stage = "config"
    BY <1>2, <2>1, <2>2, <2>4, Zenon DEF Stages
  <2> QED
    BY <1>2, <2>3, <2>4, Zenon
<1> QED
  BY <1>1, <1>2, Zenon DEF Held

(* A unit the decoder of c holds is awaited by one surface, and that one   *)
(* is c's, although the code compares only time stamp and session id.      *)
LEMMA MatchingOne ==
    ASSUME Inv, NEW c \in Contexts, NEW p \in decoder[c], NEW m \in Surfaces,
           surface[m].state = "pending", surface[m].pts = p
    PROVE  /\ surface[m].ctx = c /\ surface[m].sess = session[c]
           /\ \A t \in Surfaces : surface[t].state = "pending" /\ surface[t].pts = p => t = m
<1>1. EntryOk(m) /\ surface[m].ctx \in Contexts
  BY Zenon DEF Inv, EntriesOk, EntryOk, Active
<1>2. ~Midway(m)
  <2> SUFFICES ASSUME Midway(m)
               PROVE  FALSE
    BY Zenon
  <2>1. ending # NotEnding /\ p = ending.pts
    BY MidwayIs, Zenon DEF Midway, Unlocked
  <2> QED
    BY <2>1, Zenon DEF Inv, EndingShape
<1>3. p \in decoder[surface[m].ctx] \cup dropped[surface[m].ctx]
  BY <1>1, <1>2, Zenon DEF EntryOk, Awaited
<1>4. surface[m].ctx = c
  BY <1>1, <1>3, Zenon DEF Inv, PtsGiven
<1>5. \A t \in Surfaces : surface[t].state = "pending" /\ surface[t].pts = p => t = m
  <2>1. p \in Nat
    BY Zenon DEF Inv, Types
  <2> QED
    BY <2>1, Zenon DEF Inv, Apart, Marked, Active
<1> QED
  BY <1>1, <1>4, <1>5, Zenon DEF EntryOk

LEMMA MidwayHeld ==
    ASSUME Inv, NEW c \in Contexts, NEW p, NEW kept, Placed(c, p, kept), Held, target' = target,
           NEW t \in Surfaces, Midway(t)
    PROVE  Midway(t)'
<1>1. /\ Fate(t, p) /\ ending # NotEnding
      /\ ending.stage \in {"unit", "unit failed"} /\ ending.ctx \in Contexts
      /\ target[ending.ctx] = t /\ surface[t].ctx = ending.ctx /\ surface[t].pts = ending.pts
      /\ surface[t].lease = <<"r", ending.pts>> /\ surface[t].reserved
  BY MidwayIs, Zenon DEF Placed, Midway, Unlocked
<1>2. \A d \in Contexts : ending.pts \notin decoder[d]
  BY <1>1, Zenon DEF Inv, EndingShape
<1>3. ~(surface[t].pts = p /\ surface'[t].lease = <<"o", p>>)
  <2>1. <<"r", ending.pts>> # <<"o", p>>
    OBVIOUS
  <2> QED
    BY <1>1, <1>2, <2>1, Zenon DEF Placed
<1>4. surface'[t].lease = surface[t].lease /\ surface'[t].reserved
  BY <1>1, <1>3, Zenon DEF Fate
<1> QED
  BY <1>1, <1>4, HeldIs, Zenon DEF Midway, Fate

LEMMA PlacedEntries ==
    ASSUME Inv, NEW c \in Contexts, NEW p, NEW kept, Placed(c, p, kept), Held,
           UNCHANGED <<session, up, target, shared>>
    PROVE  EntriesOk'
<1> SUFFICES ASSUME NEW t \in Surfaces
             PROVE  EntryOk(t)'
  BY Zenon DEF EntriesOk
<1>1. EntryOk(t) /\ Fate(t, p)
  BY Zenon DEF Inv, EntriesOk, Placed
<1>2. /\ surface'[t].pts = surface[t].pts /\ surface'[t].ctx = surface[t].ctx
      /\ surface'[t].sess = surface[t].sess
  BY <1>1, Zenon DEF Fate
<1>3. Active(t)' => Active(t)
  BY <1>1, Zenon DEF Fate, Active
<1>4. Active(t) => surface[t].ctx \in Contexts
  BY <1>1, Zenon DEF EntryOk
<1>5. surface[t].ctx \in Contexts => Live(surface[t].ctx)' /\ session'[surface[t].ctx] = surface[t].sess
  BY <1>1, <1>2, Zenon DEF EntryOk, Live
<1>6. CASE surface'[t] = surface[t]
  <2>1. ASSUME surface[t].state = "pending"
        PROVE  Awaited(t)'
    <3>1. surface[t].ctx \in Contexts /\ Awaited(t)
      BY <1>1, <1>4, <2>1, Zenon DEF Active, EntryOk
    <3>2. CASE Midway(t)
      BY <3>2, MidwayHeld, Zenon DEF Awaited
    <3>3. CASE ~Midway(t) /\ surface[t].ctx = c
      BY <1>6, <2>1, <3>3, Zenon DEF Placed, Awaited
    <3>4. CASE ~Midway(t) /\ surface[t].ctx # c
      BY <1>6, <3>1, <3>4, Zenon DEF Placed, Awaited
    <3> QED
      BY <3>2, <3>3, <3>4, Zenon
  <2>2. ASSUME surface[t].ctx \in Contexts, surface[t].lease = <<"o", surface[t].pts>>,
               surface[t].lease \in leases[surface[t].ctx]
        PROVE  surface[t].lease \in leases'[surface[t].ctx]
    <3>1. surface[t].lease # <<"r", p>>
      BY <2>2
    <3> QED
      BY <2>2, <3>1, Zenon DEF Placed
  <2>3. session' = session /\ up' = up /\ shared' = shared
    OBVIOUS
  <2> QED
    BY <1>1, <1>6, <2>1, <2>2, <2>3, EntryKept, Zenon
<1>7. CASE /\ surface[t].state = "pending" /\ surface'[t].state \in {"error", "ready"}
           /\ surface'[t].lease = surface[t].lease /\ surface'[t].reserved = surface[t].reserved
  <2>1. surface'[t].ctx \notin shared' => Clean(t)'
    <3> SUFFICES ASSUME surface[t].ctx \notin shared
                 PROVE  Clean(t)'
      BY <1>2, Zenon
    <3>1. Clean(t)
      BY <1>1, Zenon DEF EntryOk
    <3> QED
      BY <1>2, <1>7, <3>1, Zenon DEF Clean
  <2> QED
    BY <1>1, <1>2, <1>3, <1>4, <1>5, <1>7, <2>1, Zenon DEF EntryOk
<1>8. CASE /\ surface[t].state = "pending" /\ surface[t].pts = p /\ surface'[t].state = "ready"
           /\ surface'[t].lease = <<"o", p>> /\ ~surface'[t].reserved
           /\ surface'[t].lease # surface[t].lease
  <2>1. kept = {<<"o", p>>} /\ p \in decoder[c] /\ <<"o", p>> \in leases'[c]
    BY <1>8, Zenon DEF Placed
  <2>2. surface[t].ctx = c
    BY <1>8, <2>1, MatchingOne
  <2>3. surface'[t].lease # <<"r", surface'[t].pts>>
    BY <1>8
  <2>4. Clean(t)'
    BY <1>2, <1>8, <2>1, <2>2, <2>3, Zenon DEF Clean
  <2> QED
    BY <1>2, <1>5, <1>8, <2>2, <2>4, Zenon DEF EntryOk
<1>9. CASE /\ surface[t].state = "pending" /\ surface[t].pts = p /\ surface'[t].state = "ready"
           /\ surface'[t].lease = <<"o", p>> /\ ~surface'[t].reserved
           /\ surface'[t].lease = surface[t].lease
  <2>1. surface[t].ctx \in Contexts /\ surface[t].ctx \in shared
    BY <1>1, <1>4, <1>9, Zenon DEF EntryOk, Clean, Active
  <2> QED
    BY <1>2, <1>5, <1>9, <2>1, Zenon DEF EntryOk
<1> QED
  BY <1>1, <1>6, <1>7, <1>8, <1>9, Zenon DEF Fate

LEMMA PlacedLeases ==
    ASSUME Inv, NEW c \in Contexts, NEW p, NEW kept, Placed(c, p, kept),
           UNCHANGED <<session, up, shared>>
    PROVE  NoLeaseLost'
<1> SUFFICES ASSUME NEW d \in Contexts \ shared, NEW l \in leases'[d]
             PROVE  \E t \in OwnedBy(d)' : surface'[t].lease = l
                                           /\ surface'[t].sess = session'[d]
  BY Zenon DEF NoLeaseLost
<1>1. CASE l \in leases[d]
  <2>1. PICK t \in OwnedBy(d) : surface[t].lease = l /\ surface[t].sess = session[d]
    BY <1>1, Zenon DEF Inv, NoLeaseLost
  <2>2. t \in Surfaces /\ surface[t].ctx = d /\ Fate(t, p) /\ EntryOk(t)
    BY <2>1, Zenon DEF OwnedBy, Placed, Inv, EntriesOk
  <2>3. CASE surface'[t].lease = surface[t].lease
    BY <2>1, <2>2, <2>3, Zenon DEF Fate, OwnedBy
  <2>4. CASE surface'[t].lease # surface[t].lease
    <3>1. surface[t].state = "pending" /\ surface[t].pts = p
      BY <2>2, <2>4, Zenon DEF Fate
    <3>2. p \in decoder[c] /\ <<"r", p>> \notin leases'[c]
      BY <2>2, <2>4, Zenon DEF Placed
    <3>3. d = c
      BY <2>2, <3>1, <3>2, MatchingOne, Zenon
    <3>4. l # NoLease
      BY <1>1, NoLeaseIs, Zenon DEF Inv, Types
    <3>5. l = <<"r", p>>
      BY <2>1, <2>2, <3>1, <3>4, Zenon DEF EntryOk, Clean
    <3> QED
      BY <3>2, <3>3, <3>5, Zenon
  <2> QED
    BY <2>3, <2>4, Zenon
<1>2. CASE l \notin leases[d]
  <2>1. d = c /\ l \in kept
    BY <1>2, Zenon DEF Placed
  <2>2. l = <<"o", p>> /\ p \in decoder[c]
    BY <2>1, Zenon DEF Placed
  <2>3. PICK m \in Surfaces : /\ surface[m].state = "pending" /\ surface[m].pts = p
                              /\ surface'[m].lease = <<"o", p>>
    BY <2>1, Zenon DEF Placed
  <2>4. surface[m].ctx = c /\ surface[m].sess = session[c] /\ Fate(m, p)
    BY <2>2, <2>3, MatchingOne DEF Placed
  <2> QED
    BY <2>1, <2>2, <2>3, <2>4, Zenon DEF Fate, OwnedBy
<1> QED
  BY <1>1, <1>2, Zenon

(* The machine of the context after a dequeue: as before, failed, or at    *)
(* the end with nothing left behind.                                       *)
Drained(c) ==
    \/ eos' = eos /\ ended' = ended
    \/ /\ eos[c] # "OPEN" /\ eos' = [eos EXCEPT ![c] = "FAILED"]
       /\ ended' = ended \/ ended' = [ended EXCEPT ![c] = "done"]
    \/ /\ eos[c] # "OPEN" /\ eos' = [eos EXCEPT ![c] = "COMPLETE"]
       /\ ended' = [ended EXCEPT ![c] = "done"] /\ decoder'[c] = {}
       /\ \A t \in Surfaces : surface'[t].sess = session[c] => surface'[t].state # "pending"

LEMMA DrainStep ==
    ASSUME Inv, NEW c \in Contexts, Live(c), NEW p, NEW kept, Placed(c, p, kept), Drained(c), Held,
           UNCHANGED <<session, target, shared, nextPts, up>>
    PROVE  Inv'
<1>1. EntriesOk' /\ NoLeaseLost'
  BY PlacedEntries, PlacedLeases, Zenon
<1>2. /\ \A d \in Contexts \ {c} : eos'[d] = eos[d] /\ ended'[d] = ended[d]
      /\ eos'[c] # eos[c] => eos[c] # "OPEN"
      /\ eos' \in [Contexts -> {"OPEN", "SIGNAL_PENDING", "DRAINING", "COMPLETE", "FAILED"}]
      /\ ended' \in [Contexts -> {"none", "queued", "done"}]
  BY Zenon DEF Drained, Inv, Types
<1>3. /\ ending' \in [ctx : Owners, pts : Nat, stage : Stages]
      /\ ending'.ctx = ending.ctx /\ ending'.pts = ending.pts
      /\ ending' # NotEnding => ending # NotEnding
  BY HeldIs, Zenon
<1>4. \A t \in Surfaces :
         /\ surface[t].state # "pending" =>
               surface'[t] = surface[t] /\ surface'[t].state # "pending"
         /\ surface'[t].state = "none" => surface[t].state = "none"
         /\ surface'[t].pts = surface[t].pts /\ surface'[t].ctx = surface[t].ctx
         /\ surface'[t].sess = surface[t].sess
  BY Zenon DEF Placed, Fate
<1>5. \A t \in Surfaces : \A q : Marked(t, q)' => Marked(t, q)
  <2> SUFFICES ASSUME NEW t \in Surfaces, NEW q, Marked(t, q)'
               PROVE  Marked(t, q)
    BY Zenon
  <2>1. Fate(t, p)
    BY Zenon DEF Placed
  <2>2. (Active(t)' => Active(t)) /\ surface'[t].pts = surface[t].pts
    BY <2>1, Zenon DEF Fate, Active
  <2>3. \/ surface'[t].lease = surface[t].lease
        \/ surface[t].state = "pending" /\ surface[t].pts = p /\ surface'[t].lease = <<"o", p>>
    BY <2>1, Zenon DEF Fate
  <2>4. CASE surface'[t].lease = surface[t].lease
    BY <2>2, <2>4, Zenon DEF Marked
  <2>5. CASE surface[t].state = "pending" /\ surface[t].pts = p /\ surface'[t].lease = <<"o", p>>
    <3>1. <<"o", p>> \in {<<"o", q>>, <<"r", q>>} => p = q
      OBVIOUS
    <3> QED
      BY <2>2, <2>5, <3>1, Zenon DEF Marked, Active
  <2> QED
    BY <2>3, <2>4, <2>5, Zenon
<1>6. \A d \in Contexts : /\ decoder'[d] \subseteq decoder[d]
                          /\ decoder'[d] \cup dropped'[d] \subseteq decoder[d] \cup dropped[d]
  BY Zenon DEF Placed
<1>7. Types'
  BY <1>2, <1>3, Zenon DEF Inv, Types, Placed
<1>8. FreeSlots'
  <2>1. ASSUME NEW d \in Contexts, ~Live(d)
        PROVE  /\ d # c /\ target[d] = NoSurface /\ eos'[d] = "OPEN" /\ ended'[d] = "none"
               /\ decoder'[d] = {} /\ dropped'[d] = {} /\ leases'[d] = {}
    <3>1. d # c /\ FreeSlots!(d)!2
      BY <2>1, Zenon DEF Inv, FreeSlots
    <3> QED
      BY <1>2, <3>1, Zenon DEF Placed
  <2> QED
    BY <2>1 DEF FreeSlots, Live
<1>9. Apart'
  BY <1>5, Zenon DEF Inv, Apart
<1>10. PtsGiven'
  <2>1. \A d \in Contexts : \A q \in decoder'[d] \cup dropped'[d] : q < nextPts'
    BY <1>6, Zenon DEF Inv, PtsGiven
  <2>2. \A t \in Surfaces : \A q \in Nat : Marked(t, q)' => q < nextPts'
    BY <1>5, Zenon DEF Inv, PtsGiven
  <2>3. \A d, f \in Contexts : d # f => decoder'[d] \cap (decoder'[f] \cup dropped'[f]) = {}
    <3> SUFFICES ASSUME NEW d \in Contexts, NEW f \in Contexts, d # f
                 PROVE  decoder'[d] \cap (decoder'[f] \cup dropped'[f]) = {}
      BY Zenon
    <3>1. decoder[d] \cap (decoder[f] \cup dropped[f]) = {}
      BY Zenon DEF Inv, PtsGiven
    <3> QED
      BY <1>6, <3>1, Zenon
  <2> QED
    BY <2>1, <2>2, <2>3, Zenon DEF PtsGiven
<1>11. TargetShape'
  <2> SUFFICES ASSUME NEW d \in Contexts, target[d] # NoSurface
               PROVE  TargetOk(d)'
    BY Zenon DEF TargetShape
  <2>1. target[d] \in Surfaces /\ TargetOk(d)
    BY Zenon DEF Inv, Types, TargetShape
  <2>2. eos'[d] = "OPEN" /\ Live(d)'
    BY <1>2, <2>1, Zenon DEF TargetOk, Live
  <2>3. surface'[target[d]].ctx = surface[target[d]].ctx
    BY <1>4, <2>1, Zenon
  <2>4. CASE d \in shared
    BY <2>1, <2>2, <2>3, <2>4, Zenon DEF TargetOk
  <2>5. CASE d \notin shared
    <3>1. surface'[target[d]] = surface[target[d]]
      BY <1>4, <2>1, <2>5 DEF TargetOk
    <3>2. Midway(target[d]) => Midway(target[d])'
      BY <2>1, MidwayHeld, Zenon
    <3> QED
      BY <1>2, <2>1, <2>2, <3>1, <3>2, TargetKept, Zenon DEF TargetOk
  <2> QED
    BY <2>4, <2>5, Zenon
<1>12. EndingShape'
  <2> SUFFICES ASSUME ending' # NotEnding
               PROVE  EndingShape!2'
    BY Zenon DEF EndingShape
  <2>1. /\ ending # NotEnding /\ ending.ctx \in Contexts /\ target[ending.ctx] \in Surfaces
        /\ target[ending.ctx] # NoSurface
    BY <1>3, LockedIs, Zenon DEF Inv, EndingShape
  <2>2. surface'[target[ending.ctx]].state # "none"
    BY <1>4, <2>1, Zenon DEF Inv, EndingShape
  <2>3. \A t \in Surfaces : Marked(t, ending.pts)' => t = target[ending.ctx]
    BY <1>3, <1>5, <2>1, Zenon DEF Inv, EndingShape, Marked, Active
  <2> QED
    BY <1>3, <1>6, <2>1, <2>2, <2>3, Zenon DEF Inv, EndingShape
<1>13. EosShape'
  <2> SUFFICES ASSUME NEW d \in Contexts
               PROVE  EosShape!(d)'
    BY Zenon DEF EosShape
  <2>1. CASE eos'[d] = eos[d] /\ ended'[d] = ended[d]
    <3>1. EosShape!(d)
      BY Zenon DEF Inv, EosShape
    <3>2. \A t \in OwnedBy(d)' : t \in OwnedBy(d) /\ (surface[t].state # "pending" =>
                                                   surface'[t].state # "pending")
      BY <1>4, Zenon DEF OwnedBy
    <3> QED
      BY <1>6, <2>1, <3>1, <3>2, Zenon
  <2>2. CASE d = c /\ eos'[c] = "FAILED"
    BY <2>2, Zenon
  <2>3. CASE /\ d = c /\ eos'[c] = "COMPLETE" /\ ended'[c] = "done" /\ decoder'[c] = {}
             /\ \A t \in Surfaces : surface'[t].sess = session[c] => surface'[t].state # "pending"
    <3>1. \A t \in Surfaces : surface[t].ctx = c => surface[t].sess = session[c]
      BY Zenon DEF Inv, EntriesOk, EntryOk
    <3> QED
      BY <1>4, <2>3, <3>1, Zenon DEF OwnedBy
  <2>4. CASE eos' = eos /\ ended' = ended
    BY <2>1, <2>4, Zenon
  <2>5. CASE eos' = [eos EXCEPT ![c] = "FAILED"]
    BY <1>2, <2>1, <2>2, <2>5, Zenon DEF Inv, Types
  <2>6. CASE /\ eos' = [eos EXCEPT ![c] = "COMPLETE"]
             /\ ended' = [ended EXCEPT ![c] = "done"] /\ decoder'[c] = {}
             /\ \A t \in Surfaces : surface'[t].sess = session[c] => surface'[t].state # "pending"
    BY <1>2, <2>1, <2>3, <2>6, Zenon DEF Inv, Types
  <2> QED
    BY <2>4, <2>5, <2>6, Zenon DEF Drained
<1> QED
  BY <1>1, <1>7, <1>8, <1>9, <1>10, <1>11, <1>12, <1>13, Zenon DEF Inv

LEMMA ConvertIs ==
    ASSUME surface \in [Surfaces -> Entries], NEW m \in Surfaces, NEW p \in Nat,
           NEW done \in convert_output(m, p)
    PROVE  /\ done.table \in [Surfaces -> Entries]
           /\ \A t \in Surfaces \ {m} : done.table[t] = surface[t]
           /\ done.table[m].state = "ready"
           /\ done.table[m].pts = surface[m].pts /\ done.table[m].ctx = surface[m].ctx
           /\ done.table[m].sess = surface[m].sess
           /\ \/ /\ done.table[m].lease = <<"o", p>> /\ ~done.table[m].reserved
                 /\ done.kept = {<<"o", p>>}
              \/ /\ done.table[m].lease = surface[m].lease
                 /\ done.table[m].reserved = surface[m].reserved /\ done.kept = {}
<1> DEFINE held == [surface EXCEPT ![m].state = "ready", ![m].lease = <<"o", p>>,
                                   ![m].reserved = FALSE]
           copied == [surface EXCEPT ![m].state = "ready"]
<1>1. surface[m] \in Entries /\ <<"o", p>> \in Outputs
  BY Zenon DEF Outputs
<1>2. \/ done = [table |-> held, kept |-> {<<"o", p>>}]
      \/ done = [table |-> copied, kept |-> {}]
  BY Zenon DEF convert_output
<1>3. CASE done = [table |-> held, kept |-> {<<"o", p>>}]
  <2>1. done.table = held /\ done.kept = {<<"o", p>>}
    BY <1>3, Zenon
  <2>2. /\ held[m].state = "ready" /\ held[m].lease = <<"o", p>>
        /\ held[m].pts = surface[m].pts /\ held[m].ctx = surface[m].ctx
        /\ held[m].sess = surface[m].sess
    BY <1>1, Zenon DEF Entries
  <2>3. ~held[m].reserved
    BY <1>1, Zenon DEF Entries
  <2>4. held \in [Surfaces -> Entries] /\ \A t \in Surfaces \ {m} : held[t] = surface[t]
    BY <1>1, Zenon DEF Entries, States
  <2> QED
    BY <2>1, <2>2, <2>3, <2>4, Zenon
<1>4. CASE done = [table |-> copied, kept |-> {}]
  <2>1. done.table = copied /\ done.kept = {}
    BY <1>4, Zenon
  <2>2. /\ copied[m].state = "ready" /\ copied[m].lease = surface[m].lease
        /\ copied[m].pts = surface[m].pts /\ copied[m].ctx = surface[m].ctx
        /\ copied[m].sess = surface[m].sess /\ copied[m].reserved = surface[m].reserved
    BY <1>1, Zenon DEF Entries
  <2>3. copied \in [Surfaces -> Entries] /\ \A t \in Surfaces \ {m} : copied[t] = surface[t]
    BY <1>1, Zenon DEF Entries, States
  <2> QED
    BY <2>1, <2>2, <2>3, Zenon
<1> QED
  BY <1>2, <1>3, <1>4, Zenon

LEMMA MarkIs ==
    ASSUME NEW T \in [Surfaces -> Entries], NEW c \in Contexts, NEW t \in Surfaces,
           NEW M, M = mark_remaining_pending_failed(c, T)
    PROVE  /\ M[t] \in Entries
           /\ M[t].pts = T[t].pts /\ M[t].ctx = T[t].ctx /\ M[t].sess = T[t].sess
           /\ M[t].lease = T[t].lease /\ M[t].reserved = T[t].reserved
           /\ M[t] = T[t] \/ (T[t].state = "pending" /\ M[t].state = "error")
           /\ M[t].sess = session[c] => M[t].state # "pending"
<1>1. CASE T[t].state = "pending" /\ T[t].sess = session[c]
  <2>1. M[t] = [T[t] EXCEPT !.state = "error"] /\ T[t] \in Entries
    BY <1>1, Zenon DEF mark_remaining_pending_failed
  <2> QED
    BY <1>1, <2>1, Zenon DEF Entries, States
<1>2. CASE ~(T[t].state = "pending" /\ T[t].sess = session[c])
  <2>1. M[t] = T[t] /\ T[t] \in Entries
    BY <1>2, Zenon DEF mark_remaining_pending_failed
  <2> QED
    BY <1>2, <2>1, Zenon
<1> QED
  BY <1>1, <1>2, Zenon

(* Every way to place an answer is a Placed step.                          *)
LEMMA FirstIs ==
    ASSUME Inv, NEW c \in Contexts, NEW p \in decoder[c], Matching(c, p) # {}
    PROVE  LET m == First(Matching(c, p))
           IN  m \in Surfaces /\ surface[m].state = "pending" /\ surface[m].pts = p
<1>1. PICK m : m \in Matching(c, p)
  BY Zenon
<1>2. m \in Surfaces /\ surface[m].state = "pending" /\ surface[m].pts = p
  BY <1>1, Zenon DEF Matching
<1>3. \A t \in Matching(c, p) : t = m
  BY <1>2, MatchingOne DEF Matching
<1>4. m <= m
  BY <1>2, RuntimeAssumption DEF Surfaces
<1>5. First(Matching(c, p)) = m
  BY <1>1, <1>3, <1>4, Zenon DEF First
<1> QED
  BY <1>2, <1>5, Zenon

LEMMA AnsweredIs ==
    ASSUME Inv, NEW c \in Contexts, NEW p \in decoder[c], NEW kept \in SUBSET {<<"o", p>>},
           Answered(c, p, kept)
    PROVE  /\ decoder' \in [Contexts -> SUBSET Nat] /\ leases' \in [Contexts -> SUBSET Outputs]
           /\ \A d \in Contexts \ {c} : decoder'[d] = decoder[d] /\ leases'[d] = leases[d]
           /\ decoder'[c] = decoder[c] \ {p}
           /\ leases'[c] = (leases[c] \ {<<"r", p>>}) \cup kept
           /\ <<"r", p>> \notin leases'[c] /\ p \in Nat
<1>1. p \in Nat /\ decoder \in [Contexts -> SUBSET Nat] /\ leases \in [Contexts -> SUBSET Outputs]
  BY Zenon DEF Inv, Types
<1>2. <<"o", p>> \in Outputs /\ <<"o", p>> # <<"r", p>>
  BY <1>1, Zenon DEF Outputs
<1> QED
  BY <1>1, <1>2, Zenon DEF Answered

LEMMA AttachPlaced ==
    ASSUME Inv, NEW c \in Contexts, NEW p \in decoder[c], Matching(c, p) # {},
           NEW done \in convert_output(First(Matching(c, p)), p),
           \/ surface' = done.table
           \/ surface' = mark_remaining_pending_failed(c, done.table),
           Answered(c, p, done.kept), dropped' = dropped
    PROVE  Placed(c, p, done.kept)
<1> DEFINE m == First(Matching(c, p))
           T == done.table
<1>1. m \in Surfaces /\ surface[m].state = "pending" /\ surface[m].pts = p
  BY FirstIs, Zenon
<1>2. surface \in [Surfaces -> Entries] /\ dropped \in [Contexts -> SUBSET Nat] /\ p \in Nat
  BY Zenon DEF Inv, Types
<1>3. /\ T \in [Surfaces -> Entries]
      /\ \A t \in Surfaces \ {m} : T[t] = surface[t]
      /\ T[m].state = "ready"
      /\ T[m].pts = surface[m].pts /\ T[m].ctx = surface[m].ctx /\ T[m].sess = surface[m].sess
      /\ \/ T[m].lease = <<"o", p>> /\ ~T[m].reserved /\ done.kept = {<<"o", p>>}
         \/ T[m].lease = surface[m].lease /\ T[m].reserved = surface[m].reserved /\ done.kept = {}
  BY <1>1, <1>2, ConvertIs
<1>4. done.kept \in SUBSET {<<"o", p>>}
  BY <1>3, Zenon
<1>5. \A t \in Surfaces :
         /\ surface'[t] \in Entries
         /\ surface'[t].pts = T[t].pts /\ surface'[t].ctx = T[t].ctx /\ surface'[t].sess = T[t].sess
         /\ surface'[t].lease = T[t].lease /\ surface'[t].reserved = T[t].reserved
         /\ surface'[t] = T[t] \/ (T[t].state = "pending" /\ surface'[t].state = "error")
  <2>1. CASE surface' = T
    BY <1>3, <2>1, Zenon
  <2>2. CASE surface' = mark_remaining_pending_failed(c, T)
    <3> SUFFICES ASSUME NEW t \in Surfaces
                 PROVE  /\ surface'[t] \in Entries
                        /\ surface'[t].pts = T[t].pts /\ surface'[t].ctx = T[t].ctx
                        /\ surface'[t].sess = T[t].sess /\ surface'[t].lease = T[t].lease
                        /\ surface'[t].reserved = T[t].reserved
                        /\ \/ surface'[t] = T[t]
                           \/ T[t].state = "pending" /\ surface'[t].state = "error"
      BY Zenon
    <3>1. T \in [Surfaces -> Entries]
      BY <1>3, Zenon
    <3> HIDE DEF T
    <3> QED
      BY <2>2, <3>1, MarkIs
  <2> QED
    BY <2>1, <2>2, Zenon
<1>6. surface' \in [Surfaces -> Entries]
  <2>1. CASE surface' = T
    BY <1>3, <2>1, Zenon
  <2>2. CASE surface' = mark_remaining_pending_failed(c, T)
    BY <1>5, <2>2, Zenon DEF mark_remaining_pending_failed
  <2> QED
    BY <2>1, <2>2, Zenon
<1>7. surface'[m] = T[m]
  BY <1>1, <1>3, <1>5, Zenon
<1>8. \A t \in Surfaces : Fate(t, p)
  <2> SUFFICES ASSUME NEW t \in Surfaces
               PROVE  Fate(t, p)
    BY Zenon
  <2>1. CASE t = m
    BY <1>1, <1>3, <1>5, <1>7, <2>1, Zenon DEF Fate
  <2>2. CASE t # m
    <3>1. T[t] = surface[t]
      BY <1>3, <2>2, Zenon
    <3> QED
      BY <1>5, <3>1, Zenon DEF Fate
  <2> QED
    BY <2>1, <2>2, Zenon
<1>9. /\ decoder' \in [Contexts -> SUBSET Nat] /\ leases' \in [Contexts -> SUBSET Outputs]
      /\ \A d \in Contexts \ {c} : decoder'[d] = decoder[d] /\ leases'[d] = leases[d]
      /\ decoder'[c] = decoder[c] \ {p}
      /\ leases'[c] = (leases[c] \ {<<"r", p>>}) \cup done.kept
      /\ <<"r", p>> \notin leases'[c]
  BY <1>4, AnsweredIs
<1>10. \/ done.kept = {} /\ \A t \in Surfaces : surface'[t].lease = surface[t].lease
       \/ done.kept = {<<"o", p>>} /\ surface'[m].lease = <<"o", p>>
  <2>1. \A t \in Surfaces : t # m => surface'[t].lease = surface[t].lease
    BY <1>3, <1>5, Zenon
  <2> QED
    BY <1>3, <1>7, <2>1, Zenon
<1>11. ASSUME NEW t \in Surfaces, surface'[t].state = "pending", surface[t].ctx = c
       PROVE  surface[t].pts \in decoder'[c] \cup dropped'[c] \/ Midway(t)
  <2>1. t # m /\ surface[t].state = "pending"
    <3>1. t # m
      BY <1>3, <1>7, <1>11, Zenon
    <3>2. T[t] = surface[t] /\ surface'[t] = T[t]
      BY <1>3, <1>5, <1>11, <3>1, Zenon
    <3> QED
      BY <1>11, <3>1, <3>2, Zenon
  <2>2. surface[t].pts # p
    BY <1>1, <2>1, MatchingOne
  <2>3. surface[t].pts \in decoder[c] \cup dropped[c] \/ Midway(t)
    BY <1>11, <2>1, Zenon DEF Inv, EntriesOk, EntryOk, Awaited
  <2> QED
    BY <1>9, <2>2, <2>3, Zenon
<1> QED
  BY <1>1, <1>2, <1>6, <1>8, <1>9, <1>10, <1>11, Zenon DEF Placed

LEMMA RefusePlaced ==
    ASSUME Inv, NEW c \in Contexts, NEW p \in decoder[c],
           \/ RefuseOutput(c, p) /\ dropped' = dropped
           \/ LoseOutput(c, p)
    PROVE  Placed(c, p, {})
<1>1. /\ surface \in [Surfaces -> Entries] /\ dropped \in [Contexts -> SUBSET Nat] /\ p \in Nat
  BY Zenon DEF Inv, Types
<1>2. Answered(c, p, {})
  BY Zenon DEF RefuseOutput, LoseOutput
<1>3. /\ decoder' \in [Contexts -> SUBSET Nat] /\ leases' \in [Contexts -> SUBSET Outputs]
      /\ \A d \in Contexts \ {c} : decoder'[d] = decoder[d] /\ leases'[d] = leases[d]
      /\ decoder'[c] = decoder[c] \ {p}
      /\ leases'[c] = leases[c] \ {<<"r", p>>}
  <2>1. {} \in SUBSET {<<"o", p>>}
    BY Zenon
  <2>2. leases'[c] = (leases[c] \ {<<"r", p>>}) \cup {}
    BY <1>2, <2>1, AnsweredIs
  <2> QED
    BY <1>2, <2>1, <2>2, AnsweredIs, Zenon
<1>4. ASSUME NEW t \in Surfaces, surface[t].state = "pending", surface[t].ctx = c
      PROVE  /\ surface[t].pts \in decoder[c] \cup dropped[c] \/ Midway(t)
             /\ surface[t].pts = p => t \in Matching(c, p)
  BY <1>4, Zenon DEF Inv, EntriesOk, EntryOk, Awaited, Matching
<1>5. CASE LoseOutput(c, p)
  <2>1. surface' = surface /\ dropped' = [dropped EXCEPT ![c] = @ \cup {p}]
    BY <1>5, Zenon DEF LoseOutput
  <2>2. /\ dropped'[c] = dropped[c] \cup {p} /\ dropped' \in [Contexts -> SUBSET Nat]
        /\ \A d \in Contexts \ {c} : dropped'[d] = dropped[d]
    BY <1>1, <2>1, Zenon
  <2>3. \A t \in Surfaces : Fate(t, p)
    BY <1>1, <2>1, Zenon DEF Fate
  <2> QED
    BY <1>1, <1>3, <1>4, <2>1, <2>2, <2>3, Zenon DEF Placed
<1>6. CASE RefuseOutput(c, p) /\ dropped' = dropped /\ Matching(c, p) = {}
  <2>1. surface' = surface
    BY <1>6, Zenon DEF RefuseOutput, First
  <2>2. \A t \in Surfaces : Fate(t, p)
    BY <1>1, <2>1, Zenon DEF Fate
  <2> QED
    BY <1>1, <1>3, <1>4, <1>6, <2>1, <2>2, Zenon DEF Placed
<1>7. CASE RefuseOutput(c, p) /\ dropped' = dropped /\ Matching(c, p) # {}
  <2> DEFINE m == First(Matching(c, p))
  <2>1. m \in Surfaces /\ surface[m].state = "pending" /\ surface[m].pts = p
    BY <1>7, FirstIs, Zenon
  <2>2. surface' = [surface EXCEPT ![m].state = "error"]
    BY <1>7, <2>1, RuntimeAssumption DEF RefuseOutput, NoSurface, Surfaces
  <2>3. /\ surface' \in [Surfaces -> Entries] /\ surface'[m].state = "error"
        /\ \A t \in Surfaces \ {m} : surface'[t] = surface[t]
        /\ surface'[m].pts = surface[m].pts /\ surface'[m].ctx = surface[m].ctx
        /\ surface'[m].sess = surface[m].sess /\ surface'[m].lease = surface[m].lease
        /\ surface'[m].reserved = surface[m].reserved
    BY <1>1, <2>1, <2>2, Zenon DEF Entries, States
  <2>4. \A t \in Surfaces : Fate(t, p)
    BY <1>1, <2>1, <2>3, Zenon DEF Fate
  <2>5. ASSUME NEW t \in Surfaces, surface'[t].state = "pending", surface[t].ctx = c
        PROVE  surface[t].pts \in decoder'[c] \cup dropped'[c] \/ Midway(t)
    <3>1. t # m /\ surface[t].state = "pending"
      BY <2>3, <2>5, Zenon
    <3>2. surface[t].pts # p
      BY <2>1, <3>1, MatchingOne
    <3> QED
      BY <1>3, <1>4, <1>7, <2>5, <3>1, <3>2, Zenon
  <2>6. \A t \in Surfaces : surface'[t].lease = surface[t].lease
    BY <2>3, Zenon
  <2> QED
    BY <1>1, <1>3, <1>7, <2>3, <2>4, <2>5, <2>6, Zenon DEF Placed
<1> QED
  BY <1>5, <1>6, <1>7, Zenon

(* Nothing is answered; the surfaces that still wait may be given up.      *)
LEMMA NothingPlaced ==
    ASSUME Inv, NEW c \in Contexts, UNCHANGED <<decoder, dropped, leases>>,
           \/ surface' = surface
           \/ surface' = mark_remaining_pending_failed(c, surface)
    PROVE  Placed(c, 0, {})
<1>1. /\ surface \in [Surfaces -> Entries] /\ decoder \in [Contexts -> SUBSET Nat]
      /\ dropped \in [Contexts -> SUBSET Nat] /\ leases \in [Contexts -> SUBSET Outputs]
  BY Zenon DEF Inv, Types
<1>2. \A t \in Surfaces :
         /\ surface'[t] \in Entries
         /\ surface'[t].pts = surface[t].pts /\ surface'[t].ctx = surface[t].ctx
         /\ surface'[t].sess = surface[t].sess
         /\ surface'[t].lease = surface[t].lease /\ surface'[t].reserved = surface[t].reserved
         /\ surface'[t] = surface[t] \/ (surface[t].state = "pending" /\ surface'[t].state = "error")
  BY <1>1, MarkIs
<1>3. surface' \in [Surfaces -> Entries]
  <2>1. CASE surface' = surface
    BY <1>1, <2>1, Zenon
  <2>2. CASE surface' = mark_remaining_pending_failed(c, surface)
    BY <1>2, <2>2, Zenon DEF mark_remaining_pending_failed
  <2> QED
    BY <2>1, <2>2, Zenon
<1>4. \A t \in Surfaces : Fate(t, 0)
  BY <1>2, Zenon DEF Fate
<1>5. \A t \in Surfaces : surface'[t].state = "pending" /\ surface[t].ctx = c =>
         surface[t].pts \in decoder[c] \cup dropped[c] \/ Midway(t)
  BY <1>2 DEF Inv, EntriesOk, EntryOk, Awaited
<1> QED
  BY <1>1, <1>2, <1>3, <1>4, <1>5, Zenon DEF Placed

(* One dequeue, before or after the end of the stream was signalled.       *)
LEMMA OpenStep ==
    ASSUME Inv, NEW c \in Contexts, Live(c), NEW r, drain_open(c, r), Held,
           UNCHANGED <<session, target, shared, nextPts, up>>
    PROVE  Inv'
<1>1. Drained(c)
  BY Zenon DEF drain_open, Drained
<1>2. CASE UNCHANGED <<surface, decoder, leases, dropped>>
  BY <1>1, <1>2, NothingPlaced, DrainStep, Zenon
<1>3. ASSUME NEW p \in decoder[c], AttachOutput(c, p), dropped' = dropped
      PROVE  Inv'
  <2>1. PICK done \in convert_output(First(Matching(c, p)), p) :
           surface' = done.table /\ Answered(c, p, done.kept)
    BY <1>3, Zenon DEF AttachOutput
  <2>2. Placed(c, p, done.kept)
    BY <1>3, <2>1, AttachPlaced, Zenon DEF AttachOutput
  <2> QED
    BY <1>1, <2>2, DrainStep, Zenon
<1>4. ASSUME NEW p \in decoder[c],
             (RefuseOutput(c, p) /\ dropped' = dropped) \/ LoseOutput(c, p)
      PROVE  Inv'
  BY <1>1, <1>4, RefusePlaced, DrainStep, Zenon
<1> QED
  BY <1>2, <1>3, <1>4, Zenon DEF drain_open

LEMMA EosStep ==
    ASSUME Inv, NEW c \in Contexts, Live(c), NEW r, eos_progress(c, r), Held,
           UNCHANGED <<session, target, shared, nextPts, up>>
    PROVE  Inv'
<1>1. eos[c] # "OPEN"
  BY Zenon DEF eos_progress
<1>2. CASE UNCHANGED <<surface, decoder, leases, dropped, eos, ended>>
  BY <1>2, NothingPlaced, DrainStep, Zenon DEF Drained
<1>3. CASE /\ eos' = [eos EXCEPT ![c] = "FAILED"] /\ UNCHANGED ended
           /\ \/ UNCHANGED <<surface, decoder, leases, dropped>>
              \/ \E p \in decoder[c] : LoseOutput(c, p)
  <2>1. Drained(c)
    BY <1>1, <1>3, Zenon DEF Drained
  <2>2. CASE UNCHANGED <<surface, decoder, leases, dropped>>
    BY <2>1, <2>2, NothingPlaced, DrainStep, Zenon
  <2>3. CASE \E p \in decoder[c] : LoseOutput(c, p)
    BY <2>1, <2>3, RefusePlaced, DrainStep, Zenon
  <2> QED
    BY <1>3, <2>2, <2>3, Zenon
<1>4. ASSUME NEW p \in decoder[c], AttachOutput(c, p), UNCHANGED <<dropped, eos, ended>>
      PROVE  Inv'
  <2>1. PICK done \in convert_output(First(Matching(c, p)), p) :
           surface' = done.table /\ Answered(c, p, done.kept)
    BY <1>4, Zenon DEF AttachOutput
  <2>2. Placed(c, p, done.kept)
    BY <1>4, <2>1, AttachPlaced, Zenon DEF AttachOutput
  <2> QED
    BY <1>4, <2>2, DrainStep, Zenon DEF Drained
<1>5. ASSUME NEW p \in decoder[c], RefuseOutput(c, p), UNCHANGED dropped,
             eos' = [eos EXCEPT ![c] = "FAILED"],
             UNCHANGED ended \/ ended' = [ended EXCEPT ![c] = "done"]
      PROVE  Inv'
  <2>1. Placed(c, p, {}) /\ Drained(c)
    BY <1>1, <1>5, RefusePlaced, Zenon DEF Drained
  <2> QED
    BY <2>1, DrainStep, Zenon
<1>6. ASSUME NEW p \in decoder[c], LastFrame(c, p), AttachLast(c, p), UNCHANGED dropped,
             eos' = [eos EXCEPT ![c] = "COMPLETE"], ended' = [ended EXCEPT ![c] = "done"]
      PROVE  Inv'
  <2>1. PICK done \in convert_output(First(Matching(c, p)), p) :
           /\ surface' = mark_remaining_pending_failed(c, done.table)
           /\ Answered(c, p, done.kept)
    BY <1>6, Zenon DEF AttachLast
  <2>2. Placed(c, p, done.kept)
    BY <1>6, <2>1, AttachPlaced, Zenon DEF AttachLast
  <2>3. done.table \in [Surfaces -> Entries]
    <3>1. First(Matching(c, p)) \in Surfaces
      BY <1>6, FirstIs, Zenon DEF AttachLast
    <3> QED
      BY <3>1, ConvertIs, Zenon DEF Inv, Types
  <2>4. \A t \in Surfaces : surface'[t].sess = session[c] => surface'[t].state # "pending"
    BY <2>1, <2>3, MarkIs
  <2>5. decoder'[c] = {}
    BY <1>6, <2>1, Zenon DEF LastFrame, Answered, Inv, Types
  <2>6. Drained(c)
    BY <1>1, <1>6, <2>4, <2>5, Zenon DEF Drained
  <2> QED
    BY <2>2, <2>6, DrainStep, Zenon
<1>7. CASE /\ surface' = mark_remaining_pending_failed(c, surface) /\ decoder[c] = {}
           /\ eos' = [eos EXCEPT ![c] = "COMPLETE"] /\ ended' = [ended EXCEPT ![c] = "done"]
           /\ UNCHANGED <<decoder, leases, dropped>>
  <2>1. surface \in [Surfaces -> Entries]
    BY Zenon DEF Inv, Types
  <2>2. \A t \in Surfaces : surface'[t].sess = session[c] => surface'[t].state # "pending"
    BY <1>7, <2>1, MarkIs
  <2>3. Drained(c)
    BY <1>1, <1>7, <2>2, Zenon DEF Drained
  <2> QED
    BY <1>7, <2>3, NothingPlaced, DrainStep, Zenon
<1> QED
  BY <1>2, <1>3, <1>4, <1>5, <1>6, <1>7, Zenon DEF eos_progress

LEMMA SyncStep ==
    ASSUME Inv, NEW s \in Surfaces, sync_surface(s)
    PROVE  Inv'
<1> DEFINE c == surface[s].ctx
<1>1. PICK r : drain_one_output(c, r)
  BY Zenon DEF sync_surface
<1>2. c \in Contexts /\ Live(c) /\ Held /\ UNCHANGED <<session, target, shared, nextPts, up>>
  BY Zenon DEF sync_surface, calls, Held
<1> QED
  BY <1>1, <1>2, OpenStep, EosStep, Zenon DEF drain_one_output

LEMMA ProgressStep ==
    ASSUME Inv, NEW c \in Contexts, progress_eos(c)
    PROVE  Inv'
<1>1. PICK r : eos_progress(c, r)
  BY Zenon DEF progress_eos
<1>2. Live(c) /\ Held /\ UNCHANGED <<session, target, shared, nextPts, up>>
  BY Zenon DEF progress_eos, calls, Held
<1> QED
  BY <1>1, <1>2, EosStep, Zenon

LEMMA QueueDrainsStep ==
    ASSUME Inv, NEW c \in Contexts, queue_drains(c) \/ queue_drain_fails(c)
    PROVE  Inv'
<1>1. PICK r : drain_one_output(c, r)
  BY Zenon DEF queue_drains, queue_drain_fails
<1>2. ending.ctx = c /\ UNCHANGED <<session, target, shared, nextPts, up>>
  BY Zenon DEF queue_drains, queue_drain_fails, calls
<1>3. Live(c) /\ ending # NotEnding
  BY <1>2, LockedIs, Zenon
<1>4. Held
  BY <1>3, Zenon DEF queue_drains, queue_drain_fails, calls, Held
<1> QED
  BY <1>1, <1>2, <1>3, <1>4, OpenStep, EosStep, Zenon DEF drain_one_output

LEMMA SubmitStep ==
    ASSUME Inv, NEW c \in Contexts, Submit(c)
    PROVE  Inv'
BY RefusedStep, EndPictureStep, QueueDrainsStep, QueueFailsStep, QueueConfigStep, ReserveStep,
   QueueUnitStep, Zenon DEF Submit
-----------------------------------------------------------------------------
LEMMA WaitsInit == Init => Waits
  BY DEF Init, Waits, NotWaiting, Owners

(* A thread starts to wait, its wait is over, or its call has ended.       *)
LEMMA WaitingIs ==
    ASSUME Next
    PROVE  \/ waiting' = waiting
           \/ \E th \in Threads, c \in Contexts, s \in Surfaces :
                 waiting' = [waiting EXCEPT ![th] = [ctx |-> c, surf |-> s, synced |-> FALSE]]
           \/ \E th \in Threads : /\ waiting[th] # NotWaiting
                                  /\ waiting' = [waiting EXCEPT ![th] = [@ EXCEPT !.synced = TRUE]]
           \/ \E th \in Threads : waiting' = [waiting EXCEPT ![th] = NotWaiting]
<1> DEFINE Goal == \/ waiting' = waiting
                   \/ \E th \in Threads, c \in Contexts, s \in Surfaces :
                         waiting' = [waiting EXCEPT ![th] = [ctx |-> c, surf |-> s, synced |-> FALSE]]
                   \/ \E th \in Threads :
                         /\ waiting[th] # NotWaiting
                         /\ waiting' = [waiting EXCEPT ![th] = [@ EXCEPT !.synced = TRUE]]
                   \/ \E th \in Threads : waiting' = [waiting EXCEPT ![th] = NotWaiting]
<1>0. waiting' = waiting => Goal
  OBVIOUS
<1>1. ASSUME NEW th \in Threads, begin_picture_synced(th) \/ begin_picture_resumes(th)
      PROVE  Goal
  BY <1>1, Zenon DEF begin_picture_synced, begin_picture_resumes
<1>2. ASSUME NEW th \in Threads, NEW c \in Contexts, NEW s \in Surfaces, begin_picture_waits(th, c, s)
      PROVE  Goal
  BY <1>2, Zenon DEF begin_picture_waits
<1> HIDE DEF Goal
<1>3. ASSUME NEW s \in Surfaces, create_surfaces(s) \/ destroy_surfaces(s) \/ sync_surface(s)
      PROVE  Goal
  BY <1>0, <1>3, Zenon DEF create_surfaces, destroy_surfaces, sync_surface, calls
<1>4. ASSUME NEW c \in Contexts, create_context(c) \/ destroy_context(c)
      PROVE  Goal
  BY <1>0, <1>4, Zenon DEF create_context, destroy_context
<1>5. ASSUME NEW c \in Contexts, NEW s \in Surfaces, begin_picture(c, s)
      PROVE  Goal
  BY <1>0, <1>5, Zenon DEF begin_picture
<1>6. ASSUME NEW c \in Contexts, Submit(c)
      PROVE  Goal
  BY <1>0, <1>6, Zenon DEF Submit, end_picture_refused, end_picture, queue_drains, queue_drain_fails,
     queue_fails, queue_config, reserve_surface_linear, queue_unit, calls
<1>7. ASSUME NEW c \in Contexts,
             signal_eos(c) \/ progress_eos(c) \/ DecoderDrops(c) \/ ConnectionDies(c)
      PROVE  Goal
  BY <1>0, <1>7, Zenon DEF signal_eos, progress_eos, DecoderDrops, ConnectionDies, calls
<1>8. runtime_destroy => Goal
  BY <1>0, Zenon DEF runtime_destroy
<1>9. Goal
  BY <1>1, <1>2, <1>3, <1>4, <1>5, <1>6, <1>7, <1>8, Zenon DEF Next
<1> QED
  BY <1>9, Zenon DEF Goal

LEMMA WaitsStep == Waits /\ [Next]_vars => Waits'
<1> SUFFICES ASSUME Waits, [Next]_vars
             PROVE  Waits'
  BY Zenon
<1> DEFINE Wait == [ctx : Owners, surf : Surfaces \cup {NoSurface}, synced : BOOLEAN]
<1>1. CASE waiting' = waiting
  BY <1>1, Zenon DEF Waits
<1>2. ASSUME NEW th \in Threads, NEW w \in Wait, waiting' = [waiting EXCEPT ![th] = w],
             w # NotWaiting => w.ctx \in Contexts /\ w.surf \in Surfaces
      PROVE  Waits'
  BY <1>2, Zenon DEF Waits
<1>3. ASSUME NEW th \in Threads, NEW c \in Contexts, NEW s \in Surfaces,
             waiting' = [waiting EXCEPT ![th] = [ctx |-> c, surf |-> s, synced |-> FALSE]]
      PROVE  Waits'
  <2>1. [ctx |-> c, surf |-> s, synced |-> FALSE] \in Wait
    BY Zenon DEF Owners
  <2> QED
    BY <1>2, <1>3, <2>1, Zenon
<1>4. ASSUME NEW th \in Threads, waiting[th] # NotWaiting,
             waiting' = [waiting EXCEPT ![th] = [@ EXCEPT !.synced = TRUE]]
      PROVE  Waits'
  <2> DEFINE w == [waiting[th] EXCEPT !.synced = TRUE]
  <2>1. /\ w \in Wait /\ w.ctx = waiting[th].ctx /\ w.surf = waiting[th].surf
    BY Zenon DEF Waits
  <2>2. waiting' = [waiting EXCEPT ![th] = w]
    BY <1>4, Zenon DEF Waits
  <2> HIDE DEF w
  <2> QED
    BY <1>2, <1>4, <2>1, <2>2, Zenon DEF Waits
<1>5. ASSUME NEW th \in Threads, waiting' = [waiting EXCEPT ![th] = NotWaiting]
      PROVE  Waits'
  <2>1. NotWaiting \in Wait
    BY Zenon DEF NotWaiting, Owners
  <2> QED
    BY <1>2, <1>5, <2>1, Zenon
<1> QED
  BY <1>1, <1>3, <1>4, <1>5, WaitingIs, Zenon DEF vars

LEMMA InvStep == Inv /\ Waits /\ [Next]_vars => Inv'
<1> SUFFICES ASSUME Inv, Waits, [Next]_vars
             PROVE  Inv'
  BY Zenon
<1>1. CASE UNCHANGED vars
  BY <1>1, WaitingStep, Zenon DEF vars, Tables
<1>2. CASE runtime_destroy
  BY <1>2, RuntimeDestroyStep, Zenon
<1>3. ASSUME NEW s \in Surfaces, create_surfaces(s) \/ destroy_surfaces(s) \/ sync_surface(s)
      PROVE  Inv'
  BY <1>3, CreateSurfacesStep, DestroySurfacesStep, SyncStep, Zenon
<1>4. ASSUME NEW c \in Contexts, create_context(c) \/ destroy_context(c)
      PROVE  Inv'
  BY <1>4, CreateContextStep, DestroyContextStep, Zenon
<1>5. ASSUME NEW c \in Contexts, NEW s \in Surfaces,
             begin_picture(c, s) \/ \E th \in Threads : begin_picture_waits(th, c, s)
      PROVE  Inv'
  BY <1>5, BeginPictureStep, Zenon
<1>6. ASSUME NEW th \in Threads, begin_picture_synced(th) \/ begin_picture_resumes(th)
      PROVE  Inv'
  BY <1>6, BeginAgainStep, Zenon
<1>7. ASSUME NEW c \in Contexts, Submit(c) \/ signal_eos(c) \/ progress_eos(c)
      PROVE  Inv'
  BY <1>7, SubmitStep, SignalEosStep, ProgressStep, Zenon
<1>8. ASSUME NEW c \in Contexts, DecoderDrops(c) \/ ConnectionDies(c)
      PROVE  Inv'
  BY <1>8, DecoderDropsStep, ConnectionDiesStep, Zenon
<1> QED
  BY <1>1, <1>2, <1>3, <1>4, <1>5, <1>6, <1>7, <1>8, Zenon DEF Next

LEMMA InvCorrect == Spec => [](Inv /\ Waits)
BY InvInit, InvStep, WaitsInit, WaitsStep, PTL DEF Spec
-----------------------------------------------------------------------------
(* Whatever the broker still has out for a context that shared no surface  *)
(* is the lease of one of its surfaces, in its present session, so that    *)
(* release_surface_output or destroy_context will return it.  This holds   *)
(* whatever the other contexts do, those that share surfaces included, and *)
(* whatever vaBeginPicture finds after it waited.                          *)
THEOREM NoLeaseLostCorrect == Spec => []NoLeaseLost
<1>1. Inv => NoLeaseLost
  BY Zenon DEF Inv
<1> QED
  BY <1>1, InvCorrect, PTL

(* A picture on show belongs to a running session and to no other surface, *)
(* although drain_one_output finds its surface by time stamp and session   *)
(* id only, and two connections do use the same session ids; unless its    *)
(* context shared a surface it is out on that context's own connection,    *)
(* under the surface's own time stamp.                                     *)
THEOREM PictureHeldCorrect == Spec => []PictureHeld
<1>1. Inv => PictureHeld
  <2> SUFFICES ASSUME Inv, NEW s \in Surfaces, surface[s].lease[1] = "o"
               PROVE  /\ surface[s].ctx \in Contexts /\ session[surface[s].ctx] = surface[s].sess
                      /\ \A t \in Surfaces \ {s} : surface[t].lease # surface[s].lease
                      /\ surface[s].ctx \notin shared =>
                            /\ surface[s].lease[2] = surface[s].pts
                            /\ up[surface[s].ctx] => surface[s].lease \in leases[surface[s].ctx]
    BY Zenon DEF PictureHeld
  <2>1. EntryOk(s) /\ surface[s].lease # NoLease
    BY DEF Inv, EntriesOk, NoLease
  <2>2. surface[s].ctx \in Contexts
    BY <2>1, Zenon DEF EntryOk, Active
  <2>3. \A t \in Surfaces \ {s} : surface[t].lease # surface[s].lease
    BY <2>1, LeasesApart, Zenon
  <2>4. ASSUME surface[s].ctx \notin shared
        PROVE  surface[s].lease = <<"o", surface[s].pts>>
               /\ (up[surface[s].ctx] => surface[s].lease \in leases[surface[s].ctx])
    <3>1. Clean(s) /\ surface[s].lease \in {<<"r", surface[s].pts>>, <<"o", surface[s].pts>>}
      BY <2>1, <2>4, Zenon DEF EntryOk, Clean
    <3>2. <<"r", surface[s].pts>>[1] # "o"
      OBVIOUS
    <3> QED
      BY <3>1, <3>2, Zenon DEF Clean
  <2>5. <<"o", surface[s].pts>>[2] = surface[s].pts
    OBVIOUS
  <2> QED
    BY <2>1, <2>2, <2>3, <2>4, <2>5, Zenon DEF EntryOk
<1> QED
  BY <1>1, InvCorrect, PTL

(* A pending surface waits for something that can still come, was lost on  *)
(* the other side, or is about to be queued, and a completed stream leaves *)
(* no unit and no pending surface behind.                                  *)
THEOREM PendingAwaitedCorrect == Spec => []PendingAwaited
<1>1. Inv => PendingAwaited
  <2> SUFFICES ASSUME Inv
               PROVE  PendingAwaited
    BY Zenon
  <2>1. ASSUME NEW s \in Surfaces, surface[s].state = "pending"
        PROVE  /\ surface[s].ctx \in Contexts /\ session[surface[s].ctx] = surface[s].sess
               /\ \/ surface[s].pts \in decoder[surface[s].ctx] \cup dropped[surface[s].ctx]
                  \/ /\ surface[s].ctx = ending.ctx /\ target[surface[s].ctx] = s
                     /\ surface[s].pts = ending.pts
    BY <2>1, Zenon DEF Inv, EntriesOk, EntryOk, Active, Awaited, Midway
  <2> QED
    BY <2>1, Zenon DEF Inv, PendingAwaited, EosShape
<1> QED
  BY <1>1, InvCorrect, PTL

(* A drain only takes from a decoder.                                      *)
LEMMA DrainShrinks ==
    ASSUME Inv, NEW c \in Contexts, NEW r, drain_one_output(c, r)
    PROVE  \A d \in Contexts : decoder'[d] \subseteq decoder[d]
<1>1. \/ decoder' = decoder
      \/ \E p : decoder' = [decoder EXCEPT ![c] = @ \ {p}]
  BY Zenon DEF drain_one_output, drain_open, eos_progress, AttachOutput, AttachLast, RefuseOutput,
     LoseOutput, Answered
<1> QED
  BY <1>1 DEF Inv, Types

Queueing == \E c \in Contexts : queue_unit(c)

OtherThanQueueing ==
    \/ runtime_destroy
    \/ \E s \in Surfaces : create_surfaces(s) \/ destroy_surfaces(s) \/ sync_surface(s)
    \/ \E th \in Threads : begin_picture_synced(th) \/ begin_picture_resumes(th)
    \/ \E c \in Contexts :
          \/ create_context(c) \/ destroy_context(c)
          \/ \E s \in Surfaces :
                begin_picture(c, s) \/ \E th \in Threads : begin_picture_waits(th, c, s)
          \/ end_picture_refused(c) \/ end_picture(c)
          \/ queue_drains(c) \/ queue_drain_fails(c) \/ queue_fails(c)
          \/ queue_config(c) \/ reserve_surface_linear(c)
          \/ signal_eos(c) \/ progress_eos(c)
          \/ DecoderDrops(c) \/ ConnectionDies(c)

LEMMA NextIs == Next <=> Queueing \/ OtherThanQueueing
  BY Zenon DEF Next, Submit, Queueing, OtherThanQueueing

(* Only queue_unit gives a decoder anything.                               *)
LEMMA OthersShrink ==
    ASSUME Inv, OtherThanQueueing
    PROVE  \A c \in Contexts : decoder'[c] \subseteq decoder[c]
<1> DEFINE Shrinks == \A c \in Contexts : decoder'[c] \subseteq decoder[c]
<1> SUFFICES Shrinks
  OBVIOUS
<1>1. CASE decoder' = decoder
  BY <1>1, Zenon
<1>2. ASSUME NEW c \in Contexts, NEW r, drain_one_output(c, r)
      PROVE  Shrinks
  BY <1>2, DrainShrinks, Zenon
<1>3. CASE runtime_destroy
  BY <1>3, Zenon DEF runtime_destroy
<1>4. ASSUME NEW c \in Contexts, destroy_context(c)
      PROVE  Shrinks
  BY <1>4, Zenon DEF destroy_context, ForgetSession, Inv, Types
<1>5. ASSUME NEW c \in Contexts, DecoderDrops(c) \/ ConnectionDies(c)
      PROVE  Shrinks
  BY <1>5 DEF DecoderDrops, ConnectionDies, Inv, Types
<1>6. ASSUME NEW c \in Contexts, NEW s \in Surfaces,
             begin_picture(c, s) \/ \E th \in Threads : begin_picture_waits(th, c, s)
      PROVE  decoder' = decoder
  BY <1>6, Zenon DEF begin_picture, begin_picture_waits, Begin, broker
<1>7. ASSUME NEW c \in Contexts, create_context(c) \/ signal_eos(c)
      PROVE  decoder' = decoder
  BY <1>7, Zenon DEF create_context, signal_eos
<1>7a. ASSUME NEW th \in Threads, begin_picture_synced(th) \/ begin_picture_resumes(th)
       PROVE  decoder' = decoder
  BY <1>7a, Zenon DEF begin_picture_synced, begin_picture_resumes, Begin, broker
<1>8. ASSUME NEW c \in Contexts,
             \/ end_picture_refused(c) \/ end_picture(c) \/ queue_fails(c) \/ queue_config(c)
             \/ reserve_surface_linear(c)
      PROVE  decoder' = decoder
  BY <1>8, Zenon DEF end_picture_refused, end_picture, queue_fails, queue_config,
     reserve_surface_linear, broker
<1>9. ASSUME NEW s \in Surfaces, create_surfaces(s) \/ destroy_surfaces(s)
       PROVE  decoder' = decoder
  BY <1>9, Zenon DEF create_surfaces, destroy_surfaces, broker
<1>10. ASSUME NEW s \in Surfaces, sync_surface(s)
       PROVE  Shrinks
  BY <1>2, <1>10, Zenon DEF sync_surface
<1>11. ASSUME NEW c \in Contexts, queue_drains(c) \/ queue_drain_fails(c) \/ progress_eos(c)
       PROVE  Shrinks
  BY <1>2, <1>11, Zenon DEF queue_drains, queue_drain_fails, progress_eos, drain_one_output
<1> HIDE DEF Shrinks
<1> QED
  BY <1>1, <1>3, <1>4, <1>5, <1>6, <1>7, <1>8, <1>9, <1>10, <1>11, <1>7a,
     Zenon DEF OtherThanQueueing

(* The end of the stream is the last thing a context queues: vaEndPicture  *)
(* reaches the decoder only while the machine is open, since a picture     *)
(* keeps signal_eos out from vaBeginPicture to vaEndPicture.               *)
THEOREM NothingAfterEosCorrect == Spec => NothingAfterEos
<1> DEFINE Shrinks == \A c \in Contexts : eos[c] # "OPEN" => decoder'[c] \subseteq decoder[c]
<1>1. Inv /\ [Next]_vars => [Shrinks]_vars
  <2> SUFFICES ASSUME Inv, Next
               PROVE  Shrinks
    BY Zenon
  <2>1. ASSUME NEW c \in Contexts, queue_unit(c)
        PROVE  Shrinks
    <3>1. eos[c] = "OPEN"
      BY <2>1, LockedIs, Zenon DEF queue_unit
    <3> QED
      BY <2>1, <3>1, Zenon DEF queue_unit, Inv, Types
  <2>2. CASE OtherThanQueueing
    BY <2>2, OthersShrink, Zenon
  <2> HIDE DEF Shrinks
  <2> QED
    BY <2>1, <2>2, NextIs, Zenon DEF Queueing
<1> QED
  BY <1>1, InvCorrect, PTL DEF Spec, NothingAfterEos
-----------------------------------------------------------------------------
(* DecodeStaging.  Staging only restricts the steps of the runtime, so its *)
(* invariant, and the theorems above, hold there too.                      *)
LEMMA StagingSteps ==
    StagingNext => \/ \E c \in Contexts : QueueUnit(c)
                   \/ OtherThanQueueing
                   \/ UNCHANGED vars
<1>1. ASSUME NEW c \in Contexts, EndPicture(c) \/ QueueConfig(c) \/ Submitting(c) \/ CreateContext(c)
      PROVE  OtherThanQueueing
  BY <1>1, Zenon DEF EndPicture, QueueConfig, Submitting, CreateContext, OtherThanQueueing
<1>2. ASSUME Elsewhere PROVE OtherThanQueueing
  BY <1>2, Zenon DEF Elsewhere, OtherThanQueueing
<1>3. ASSUME NEW c \in Contexts, render_picture(c) PROVE UNCHANGED vars
  BY <1>3, Zenon DEF render_picture
<1> QED
  BY <1>1, <1>2, <1>3, Zenon DEF StagingNext, OtherThanQueueing

(* Staging the buffers of a picture and choosing when to send parameter    *)
(* sets is an implementation of the runtime's vaEndPicture: every step is  *)
(* one the runtime allows.                                                 *)
THEOREM StagingCorrect == StagingSpec => Spec
<1>1. [StagingNext]_allvars => [Next]_vars
  <2>1. CASE UNCHANGED allvars
    BY <2>1, Zenon DEF allvars
  <2>2. CASE StagingNext
    <3>1. ASSUME NEW c \in Contexts, QueueUnit(c) PROVE Queueing
      BY <3>1, Zenon DEF QueueUnit, Queueing
    <3> QED
      BY <2>2, <3>1, StagingSteps, NextIs, Zenon
  <2> QED
    BY <2>1, <2>2, Zenon
<1>2. StagingInit => Init
  BY Zenon DEF StagingInit
<1> QED
  BY <1>1, <1>2, PTL DEF StagingSpec, Spec

(* What was sent and what the decoder took agree.  Once the parameter sets *)
(* are dealt with, a unit that does not carry its own is under those.      *)
Sets == Nat \X Nat

Agreed ==
    /\ config \in [Contexts -> Sets] /\ tuned = config
    /\ unit \in [set : Sets, inband : BOOLEAN]
    /\ ending.stage \in {"reserve", "unit"} /\ ~unit.inband =>
          unit.set = config[ending.ctx]

LEMMA AgreedInit == StagingInit => Agreed
  BY DEF StagingInit, Agreed, Sets, None, NoUnit, Init, NotEnding

LEMMA EndPictureAgreed ==
    ASSUME Inv, Agreed, NEW c \in Contexts, EndPicture(c)
    PROVE  Agreed'
<1>1. PICK set \in SetsOf(c) :
          /\ unit' = [set |-> set, inband |-> InFront(c, set)]
          /\ ending'.stage = IF set # config[c] /\ ~InFront(c, set) THEN "config" ELSE "reserve"
          /\ config' = config
  BY Zenon DEF EndPicture, Committed
<1>2. ending'.ctx = c /\ tuned' = tuned
  BY DEF EndPicture, end_picture
<1>3. set \in Sets
  BY StagingAssumption DEF SetsOf, Sets, InFrame
<1>4. InFront(c, set) \in BOOLEAN
  BY Zenon DEF InFront
<1>5. unit' \in [set : Sets, inband : BOOLEAN] /\ unit'.set = set /\ unit'.inband = InFront(c, set)
  BY <1>1, <1>3, <1>4
<1>6. ending'.stage = "reserve" /\ ~InFront(c, set) => set = config[c]
  BY <1>1
<1>7. ending'.stage \in {"config", "reserve"}
  BY <1>1
<1> QED
  BY <1>1, <1>2, <1>5, <1>6, <1>7 DEF Agreed

LEMMA QueueConfigAgreed ==
    ASSUME Inv, Agreed, NEW c \in Contexts, QueueConfig(c)
    PROVE  Agreed'
<1>1. ending.ctx = c /\ ending' = [ending EXCEPT !.stage = "reserve"]
  BY DEF QueueConfig, queue_config
<1>2. ending'.ctx = c
  BY <1>1 DEF Inv, Types
<1> QED
  BY <1>2 DEF QueueConfig, Agreed

LEMMA QueueUnitAgreed ==
    ASSUME Inv, Agreed, NEW c \in Contexts, QueueUnit(c)
    PROVE  Agreed'
<1>1. ending'.stage = "none"
  BY DEF QueueUnit, queue_unit, Finish, NotEnding
<1>2. config' \in [Contexts -> Sets] /\ tuned' = config'
  BY DEF QueueUnit, Agreed
<1>3. unit' \in [set : Sets, inband : BOOLEAN]
  BY DEF QueueUnit, NoUnit, None, Sets
<1> QED
  BY <1>1, <1>2, <1>3 DEF Agreed

LEMMA SubmittingAgreed ==
    ASSUME Inv, Agreed, NEW c \in Contexts, Submitting(c)
    PROVE  Agreed'
<1>1. config' = config /\ tuned' = tuned
  BY DEF Submitting
<1>2. unit' \in [set : Sets, inband : BOOLEAN]
  BY DEF Submitting, Agreed, NoUnit, None, Sets
<1>3. \/ ending'.stage \in {"none", "failed", "unit failed"}
      \/ ending'.ctx = ending.ctx /\ ending.stage \in {"reserve", "unit"} /\ ending' # NotEnding
      \/ ending' = ending
  <2>1. CASE end_picture_refused(c)
    BY <2>1 DEF end_picture_refused
  <2>2. CASE queue_drains(c)
    BY <2>2 DEF queue_drains, calls
  <2>3. CASE queue_drain_fails(c)
    BY <2>3 DEF queue_drain_fails, Inv, Types
  <2>4. CASE queue_fails(c)
    BY <2>4 DEF queue_fails, FailPicture, Finish, NotEnding
  <2>5. CASE reserve_surface_linear(c)
    BY <2>5, RuntimeAssumption DEF reserve_surface_linear, Inv, Types, NotEnding
  <2> QED
    BY <2>1, <2>2, <2>3, <2>4, <2>5, Zenon DEF Submitting
<1>4. ending'.stage \in {"reserve", "unit"} => unit' = unit
  BY DEF Submitting, NotEnding
<1> QED
  BY <1>1, <1>2, <1>3, <1>4 DEF Agreed

LEMMA OthersAgreed ==
    ASSUME Inv, Agreed,
           \/ runtime_destroy /\ Gone
           \/ \E c \in Contexts :
                 CreateContext(c) \/ (destroy_context(c) /\ Gone) \/ render_picture(c)
           \/ Elsewhere
    PROVE  Agreed'
<1>1. unit' = unit
  BY Zenon DEF Gone, CreateContext, render_picture, Elsewhere
<1>2. \/ config' = config /\ tuned' = tuned
      \/ Gone /\ Unlocked
  BY Zenon DEF CreateContext, render_picture, Elsewhere, runtime_destroy, destroy_context
<1>3. config' \in [Contexts -> Sets] /\ tuned' = config'
  BY <1>2 DEF Gone, Agreed, None, Sets
<1>4. ending' = ending
  <2>1. ASSUME NEW s \in Surfaces, create_surfaces(s) \/ destroy_surfaces(s) \/ sync_surface(s)
        PROVE  ending' = ending
    BY <2>1, Zenon DEF create_surfaces, destroy_surfaces, sync_surface, calls
  <2>2. ASSUME NEW d \in Contexts, NEW s \in Surfaces,
               begin_picture(d, s) \/ \E th \in Threads : begin_picture_waits(th, d, s)
        PROVE  ending' = ending
    BY <2>2, Zenon DEF begin_picture, begin_picture_waits, Begin
  <2>3. ASSUME NEW d \in Contexts,
               signal_eos(d) \/ progress_eos(d) \/ DecoderDrops(d) \/ ConnectionDies(d)
        PROVE  ending' = ending
    BY <2>3, Zenon DEF signal_eos, progress_eos, DecoderDrops, ConnectionDies, calls
  <2>5. ASSUME NEW th \in Threads, begin_picture_synced(th) \/ begin_picture_resumes(th)
        PROVE  ending' = ending
    BY <2>5, Zenon DEF begin_picture_synced, begin_picture_resumes, Begin
  <2>4. CASE Elsewhere
    BY <2>1, <2>2, <2>3, <2>4, <2>5, Zenon DEF Elsewhere
  <2> QED
    BY <2>4, Zenon DEF runtime_destroy, CreateContext, create_context, destroy_context,
       render_picture, vars
<1>5. Unlocked => ending.stage = "none"
  BY DEF Unlocked, NotEnding
<1> QED
  BY <1>1, <1>2, <1>3, <1>4, <1>5 DEF Agreed

LEMMA AgreedStep == Inv /\ Agreed /\ [StagingNext]_allvars => Agreed'
<1>1. CASE UNCHANGED allvars
  BY <1>1 DEF allvars, vars, staged, Agreed
<1>2. CASE StagingNext
  BY <1>2, EndPictureAgreed, QueueConfigAgreed, QueueUnitAgreed, SubmittingAgreed, OthersAgreed,
     Zenon DEF StagingNext
<1> QED
  BY <1>1, <1>2, Zenon

LEMMA StagingInv == StagingSpec => [](Inv /\ Agreed)
<1>1. StagingSpec => []Inv
  BY StagingCorrect, InvCorrect, PTL
<1> QED
  BY <1>1, AgreedInit, AgreedStep, PTL DEF StagingSpec

(* Whichever sendings fail, and whether parameter sets go apart or in      *)
(* front, a decoder takes every unit under the parameter sets the runtime  *)
(* built for it: last_config is what the decoder took last, at every step. *)
THEOREM UnitMeetsItsConfigCorrect == StagingSpec => UnitMeetsItsConfig
<1> DEFINE Met == \A c \in Contexts : ~(decoder'[c] \subseteq decoder[c]) => tuned'[c] = unit.set
<1>1. Inv /\ Agreed /\ [StagingNext]_allvars => [Met]_allvars
  <2> SUFFICES ASSUME Inv, Agreed, StagingNext
               PROVE  Met
    BY Zenon
  <2>1. ASSUME NEW d \in Contexts, QueueUnit(d)
        PROVE  Met
    <3>1. /\ ending.ctx = d /\ ending.stage = "unit"
          /\ decoder' = [decoder EXCEPT ![d] = @ \cup {ending.pts}]
      BY <2>1, Zenon DEF QueueUnit, queue_unit
    <3>2. \A c \in Contexts \ {d} : decoder'[c] = decoder[c]
      BY <3>1, Zenon DEF Inv, Types
    <3>3. tuned'[d] = unit.set
      BY <2>1, <3>1 DEF QueueUnit, Agreed
    <3> QED
      BY <3>2, <3>3, Zenon
  <2>2. CASE OtherThanQueueing
    BY <2>2, OthersShrink, Zenon
  <2>3. CASE UNCHANGED vars
    BY <2>3, Zenon DEF vars
  <2> HIDE DEF Met
  <2> QED
    BY <2>1, <2>2, <2>3, StagingSteps, Zenon
<1> QED
  BY <1>1, StagingInv, PTL DEF StagingSpec, UnitMeetsItsConfig
=============================================================================
