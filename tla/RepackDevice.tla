---------------------------- MODULE RepackDevice ----------------------------
(***************************************************************************)
(* The gateway process behind its workers: the accept loop of              *)
(* tools/advc_repack_gateway.c, the Vulkan device all pools share and the  *)
(* images of each pool, tools/turnip_prime_import.c (src/src/video_bridge).*)
(*                                                                         *)
(* Every worker has a pool.  The first pool that needs the device creates  *)
(* it, the last one destroys it.  A pool caches the source buffers it has  *)
(* imported by the identity of their dma-buf, and copies them on the GPU   *)
(* into destinations it leases.  A call returns once its copy is           *)
(* submitted; the queue runs copies in order, beside everything else.      *)
(*                                                                         *)
(* Leases are a flag here: their tokens and fences are RepackGateway's.    *)
(* Calls hold repack_shared.mutex from end to end, so each is one step;    *)
(* it is a function of the state it locks and of the stage at which the    *)
(* platform fails ("" when it does not).                                   *)
(***************************************************************************)
EXTENDS Integers, Sequences, FiniteSets, FiniteSetsExt

CONSTANTS
    Workers,        \* client_worker threads
    MaxClients,     \* ADVC_GATEWAY_MAX_CLIENTS
    MaxSlots,       \* ADVC_GATEWAY_CACHE_SLOTS, sources and destinations each
    Inodes,         \* identities of dma-bufs: device and inode number
    MaxReuse,       \* how often inode numbers go to new dma-bufs
    Sizes,          \* picture sizes
    Align,          \* the macroblock, 16
    None,           \* no dma-buf
    Faults,         \* the stages that may fail
    MaxFaults,      \* how many do
    MaxCalls        \* how many destinations are asked for

ASSUME DeviceAssumption ==
    /\ MaxClients \in Nat \ {0} /\ MaxSlots \in Nat \ {0}
    /\ Align \in Nat \ {0} /\ Sizes \subseteq Nat \ {0}
    /\ {MaxReuse, MaxFaults, MaxCalls} \subseteq Nat
    /\ IsFiniteSet(Workers)
    /\ None \notin [ino : Inodes, gen : Nat, size : Nat] \cup [ino : Inodes, size : Nat]

Slots == 1..MaxSlots

VARIABLES
    active,     \* active_clients
    worker,     \* where each worker is
    device,     \* repack_shared: initialized, attached_pools
    pool,       \* each worker's pool
    gpu,        \* the copies submitted and not finished, oldest first
    dmabuf,     \* how often each inode number was given out
    history     \* faults and calls so far, and whether the GPU ever hung

vars == <<active, worker, device, pool, gpu, dmabuf, history>>

\* A source slot: its key, the dma-buf its image reads.
NoSource == [key |-> None, image |-> None]

\* A destination slot: its size (0 before it is made), whether a copy into it
\* was submitted and not waited for.
NoDestination == [size |-> 0, submitted |-> FALSE]

NoPool == [attached |-> FALSE, source |-> [i \in Slots |-> NoSource],
           lru |-> <<>>, dest |-> [i \in Slots |-> NoDestination],
           leased |-> {}, reserved |-> {}]

NoDevice == [up |-> FALSE, attached |-> 0]

Init ==
    /\ active = 0
    /\ worker = [w \in Workers |-> "none"]
    /\ device = NoDevice
    /\ pool = [w \in Workers |-> NoPool]
    /\ gpu = <<>>
    /\ dmabuf = [i \in Inodes |-> 0]
    /\ history = [faults |-> 0, calls |-> 0, hung |-> FALSE]

\* What a call locks: the device, its worker's pool, the GPU.
Locked(w) == [who |-> w, dev |-> device, p |-> pool[w], gpu |-> gpu]

WithPool(S, p) == [S EXCEPT !.p = p]

WithDestination(S, d, x) == WithPool(S, [S.p EXCEPT !.dest[d] = x])

Done(S) == [ok |-> TRUE, S |-> S]
Failed(S) == [ok |-> FALSE, S |-> S]
-----------------------------------------------------------------------------
(* The GPU.                                                                *)

\* The fence of the newest copy into one of D covers every copy before it.
vkWaitForFences(S, D) ==
    LET mine == {i \in DOMAIN S.gpu : S.gpu[i].by = S.who /\ S.gpu[i].to \in D}
    IN  [S EXCEPT !.gpu = SubSeq(@, Max({0} \cup mine) + 1, Len(@))]

vkDeviceWaitIdle(S) == [S EXCEPT !.gpu = <<>>]
-----------------------------------------------------------------------------
(* The shared device.                                                      *)

extension_present(fault) == fault # "extension"

find_queue_family(fault) == fault # "queue"

choose_device(fault) == extension_present(fault) /\ find_queue_family(fault)

modifier_supports(fault) == fault # "modifier"

external_image_supported(fault) == fault # "external"

\* A device that fails on the way is undone by destroy_state.
initialize_repack_shared(fault) ==
    /\ choose_device(fault)
    /\ modifier_supports(fault)
    /\ external_image_supported(fault)
    /\ fault # "device"

attach_repack_pool_locked(S, fault) ==
    IF S.p.attached THEN Done(S)
    ELSE IF ~S.dev.up /\ ~initialize_repack_shared(fault) THEN Failed(S)
    ELSE Done([S EXCEPT !.dev = [up |-> TRUE, attached |-> @.attached + 1],
                        !.p = [@ EXCEPT !.attached = TRUE]])

destroy_repack_shared_locked(S) ==
    IF S.dev.up THEN [vkDeviceWaitIdle(S) EXCEPT !.dev.up = FALSE] ELSE S
-----------------------------------------------------------------------------
(* Sources.                                                                *)

\* What affects an import: the identity of the dma-buf, and its layout.
source_key(sent) == [ino |-> sent.ino, size |-> sent.size]

Occupied(p) == {i \in Slots : p.source[i].key # None}

same_identity(p, sent) ==
    {i \in Occupied(p) : p.source[i].key.ino = sent.ino}

exact_match(p, sent) ==
    {i \in Occupied(p) : p.source[i].key = source_key(sent)}

\* An exact import, one of the same dma-buf, an empty slot, the oldest one.
source_key_select(p, sent) ==
    IF exact_match(p, sent) # {} THEN Min(exact_match(p, sent))
    ELSE IF same_identity(p, sent) # {} THEN Min(same_identity(p, sent))
    ELSE IF Occupied(p) # Slots THEN Min(Slots \ Occupied(p))
    ELSE Head(p.lru)

\* The import keeps the dma-buf, and with it its inode number.
create_repack_source_locked(fault) == fault # "import"

\* The order of use q without its k-th slot; without slot i.
DropAt(q, k) == SubSeq(q, 1, k - 1) \o SubSeq(q, k + 1, Len(q))

Drop(q, i) ==
    LET at == {k \in 1..Len(q) : q[k] = i}
    IN  IF at = {} THEN q ELSE DropAt(q, Min(at))

\* Slot i of the pool holds x, and lru is the order of use.
PutSource(p, i, x, lru) == [p EXCEPT !.source = [@ EXCEPT ![i] = x], !.lru = lru]

(* Mutant: the key of the slot survives an import that fails.              *)
SourceReady_stale(S, sent, fault) ==
    LET i == source_key_select(S.p, sent)
    IN  IF exact_match(S.p, sent) = {} /\ ~create_repack_source_locked(fault)
        THEN Failed([S EXCEPT !.p.source[i].image = None])
        ELSE Done(WithPool(S, PutSource(S.p, i,
                    IF exact_match(S.p, sent) # {} THEN S.p.source[i]
                    ELSE [key |-> source_key(sent), image |-> sent],
                    Append(Drop(S.p.lru, i), i))))

\* A slot that is not an exact match is emptied before the new import.
SourceReady(S, sent, fault) ==
    LET i == source_key_select(S.p, sent)
    IN  IF exact_match(S.p, sent) = {} /\ ~create_repack_source_locked(fault)
        THEN Failed(WithPool(S, PutSource(S.p, i, NoSource, Drop(S.p.lru, i))))
        ELSE Done(WithPool(S, PutSource(S.p, i,
                    IF exact_match(S.p, sent) # {} THEN S.p.source[i]
                    ELSE [key |-> source_key(sent), image |-> sent],
                    Append(Drop(S.p.lru, i), i))))
-----------------------------------------------------------------------------
(* Destinations.                                                           *)

(* Mutant: the copy into the destination is not waited for.                *)
destroy_repack_destination_locked_unwaited(S, d, hung) ==
    WithDestination(S, d, NoDestination)

\* The copy is waited for as long as the fence takes, unless the GPU hangs.
destroy_repack_destination_locked(S, d, hung) ==
    LET waited == IF S.p.dest[d].submitted /\ ~hung
                  THEN vkWaitForFences(S, {d}) ELSE S
    IN  WithDestination(waited, d, NoDestination)

create_repack_destination_locked(S, d, size, fault) ==
    IF fault \in {"image", "memory", "layout", "commands"} THEN Failed(S)
    ELSE Done(WithDestination(S, d, [NoDestination EXCEPT !.size = size]))

export_repack_destination_locked(fault) == fault # "export"

lease_clear(S, d) ==
    WithPool(S, [S.p EXCEPT !.leased = @ \ {d}, !.reserved = @ \ {d}])

Lease(S, d) == WithPool(S, [S.p EXCEPT !.leased = @ \cup {d}])

FreeSlots(p) == Slots \ p.leased

\* The slot has a destination of this size, or gets one.
Resized(S, d, size, wanted, fault) ==
    IF S.p.dest[d].size = wanted THEN Done(S)
    ELSE create_repack_destination_locked(
             destroy_repack_destination_locked(S, d, fault = "hang"),
             d, size, fault)

GiveUp(S, d, hung) ==
    lease_clear(destroy_repack_destination_locked(S, d, hung), d)
-----------------------------------------------------------------------------
(* The pool's calls.                                                       *)

\* The coded size of a visible size.
Coded(size) == ((size + Align - 1) \div Align) * Align

\* advc_turnip_linear_repack_pool_reserve.  The destination has the coded
\* size, and one that is there already is kept when it has the visible size.
pool_reserve(S, size, fault) ==
    LET attach == attach_repack_pool_locked(S, fault)
        d      == Min(FreeSlots(S.p))
        leased == Lease(attach.S, d)
        made   == Resized(leased, d, Coded(size), size, fault)
    IN  IF ~attach.ok THEN attach.S
        ELSE IF FreeSlots(S.p) = {} THEN attach.S
        ELSE IF made.ok /\ export_repack_destination_locked(fault) THEN
                 WithPool(made.S, [made.S.p EXCEPT !.reserved = @ \cup {d}])
        ELSE GiveUp(made.S, d, fault = "hang")

\* repack_linear_pooled_internal, once source and destination are there.  The
\* command buffer, the fence and the semaphores of the destination are used
\* again, so its last copy is waited for.
Waited(S, d, fault) ==
    IF ~S.p.dest[d].submitted THEN Done(S)
    ELSE IF fault = "hang" THEN Failed(S)
    ELSE Done(WithDestination(vkWaitForFences(S, {d}), d,
                              [S.p.dest[d] EXCEPT !.submitted = FALSE]))

Recorded(S, fault) == IF fault = "record" THEN Failed(S) ELSE Done(S)

vkQueueSubmit(S, d, sent) ==
    LET i == source_key_select(S.p, sent)
    IN  [WithDestination(S, d, [S.p.dest[d] EXCEPT !.submitted = TRUE]) EXCEPT
            !.gpu = Append(@, [by |-> S.who, to |-> d, sent |-> sent,
                               read |-> S.p.source[i].image])]

\* A copy whose fence cannot be exported is finished before it is undone.
Submitted(S, d, sent, fault) ==
    IF fault = "submit" THEN Failed(S)
    ELSE IF fault = "fence" THEN Failed(vkDeviceWaitIdle(vkQueueSubmit(S, d, sent)))
    ELSE Done(vkQueueSubmit(S, d, sent))

Copied(S, d, sent, fault) ==
    LET waited   == Waited(S, d, fault)
        recorded == Recorded(waited.S, fault)
    IN  IF ~export_repack_destination_locked(fault) THEN Failed(S)
        ELSE IF ~waited.ok THEN waited
        ELSE IF ~recorded.ok THEN recorded
        ELSE Submitted(recorded.S, d, sent, fault)

\* Into slot d: a failure destroys the destination and clears its lease.
Into(S, d, sent, ready, fault) ==
    LET copied == Copied(ready.S, d, sent, fault)
    IN  IF ~ready.ok THEN GiveUp(ready.S, d, fault = "hang")
        ELSE IF ~copied.ok THEN GiveUp(copied.S, d, fault = "hang")
        ELSE WithPool(copied.S, [copied.S.p EXCEPT !.reserved = @ \ {d}])

\* Into a destination leased now, of the size of the source.
prime_repack_linear_pooled(S, sent, fault) ==
    LET attach == attach_repack_pool_locked(S, fault)
        source == SourceReady(attach.S, sent, fault)
        d      == Min(FreeSlots(S.p))
        leased == Lease(source.S, d)
    IN  IF ~attach.ok THEN attach.S
        ELSE IF ~source.ok \/ FreeSlots(S.p) = {} THEN source.S
        ELSE Into(leased, d, sent,
                           Resized(leased, d, sent.size, sent.size, fault),
                           fault)

\* Into the destination d reserved before, which must be large enough.
prime_repack_linear_reserved(S, d, sent, fault) ==
    LET attach == attach_repack_pool_locked(S, fault)
        source == SourceReady(attach.S, sent, fault)
        large  == source.S.p.dest[d].size >= sent.size
    IN  IF ~attach.ok THEN attach.S
        ELSE IF ~source.ok THEN source.S
        ELSE Into(source.S, d, sent,
                           [ok |-> large, S |-> source.S], fault)

pool_release(S, d) == lease_clear(S, d)

pool_discard(S, d, fault) == GiveUp(S, d, fault = "hang")

(* Mutant: whoever leaves takes the device along.                          *)
Detached_device(S) ==
    destroy_repack_shared_locked([S EXCEPT !.dev.attached = @ - 1])

\* The last pool out destroys the device.
Detached(S) ==
    LET left == [S EXCEPT !.dev.attached = @ - 1]
    IN  IF left.dev.attached = 0 THEN destroy_repack_shared_locked(left)
        ELSE left

\* advc_turnip_linear_repack_pool_destroy: every destination is destroyed as
\* above, so the copies into each are waited for.
pool_destroy(S, fault) ==
    LET submitted == {d \in Slots : S.p.dest[d].submitted}
        emptied == IF fault = "hang" THEN S ELSE vkWaitForFences(S, submitted)
    IN  IF ~S.p.attached THEN WithPool(S, NoPool)
        ELSE Detached(WithPool(emptied, NoPool))
-----------------------------------------------------------------------------
(* The steps.                                                              *)

\* A call of worker w that leaves the state S behind.
Unlock(S) ==
    /\ device' = S.dev
    /\ pool' = [pool EXCEPT ![S.who] = S.p]
    /\ gpu' = S.gpu

MayFail(stages) ==
    {""} \cup IF history.faults < MaxFaults
              THEN {f \in stages \cap Faults : f = "hang" => gpu # <<>>} ELSE {}

Counted(fault, calls) ==
    /\ history.calls + calls <= MaxCalls
    /\ history' = [faults |-> history.faults + IF fault = "" THEN 0 ELSE 1,
                   calls |-> history.calls + calls,
                   hung |-> history.hung \/ fault = "hang"]

Serving(w) == worker[w] = "serving"

SetupStages == {"extension", "queue", "modifier", "external", "device"}
MakeStages == {"image", "memory", "layout", "commands", "export", "hang"}
CopyStages == {"import", "record", "submit", "fence"}

\* The decoder's buffers: any inode number, in any size.
Sent == {[ino |-> i, gen |-> dmabuf[i], size |-> Coded(v)] :
             i \in Inodes, v \in Sizes}

Reserve(w) == \E size \in Sizes, fault \in MayFail(SetupStages \cup MakeStages) :
    /\ Serving(w)
    /\ Counted(fault, 1)
    /\ Unlock(pool_reserve(Locked(w), size, fault))
    /\ UNCHANGED <<active, worker, dmabuf>>

RepackPooled(w) ==
    \E sent \in Sent,
       fault \in MayFail(SetupStages \cup MakeStages \cup CopyStages) :
    /\ Serving(w)
    /\ Counted(fault, 1)
    /\ Unlock(prime_repack_linear_pooled(Locked(w), sent, fault))
    /\ UNCHANGED <<active, worker, dmabuf>>

RepackReserved(w) ==
    \E sent \in Sent, d \in pool[w].reserved,
       fault \in MayFail({"export", "hang"} \cup CopyStages) :
    /\ Serving(w)
    /\ Counted(fault, 1)
    /\ Unlock(prime_repack_linear_reserved(Locked(w), d, sent, fault))
    /\ UNCHANGED <<active, worker, dmabuf>>

Release(w) == \E d \in pool[w].leased :
    /\ Serving(w)
    /\ Unlock(pool_release(Locked(w), d))
    /\ UNCHANGED <<active, worker, dmabuf, history>>

Discard(w) == \E d \in pool[w].leased, fault \in MayFail({"hang"}) :
    /\ Serving(w)
    /\ Counted(fault, 0)
    /\ Unlock(pool_discard(Locked(w), d, fault))
    /\ UNCHANGED <<active, worker, dmabuf>>

\* main accepts a client below the limit.  (One whose thread cannot be created
\* is counted and uncounted again before the next.)
accept_client(w) ==
    /\ worker[w] = "none" /\ active < MaxClients
    /\ active' = active + 1
    /\ worker' = [worker EXCEPT ![w] = "started"]
    /\ UNCHANGED <<device, pool, gpu, dmabuf, history>>

\* client_worker makes its pool, or ends at once.
client_worker(w) == \E fault \in MayFail({"pool"}) :
    /\ worker[w] = "started"
    /\ worker' = [worker EXCEPT ![w] = IF fault = "" THEN "serving" ELSE "cleared"]
    /\ Counted(fault, 0)
    /\ UNCHANGED <<active, device, pool, gpu, dmabuf>>

clear_client(w) == \E fault \in MayFail({"hang"}) :
    /\ Serving(w)
    /\ Counted(fault, 0)
    /\ Unlock(pool_destroy(Locked(w), fault))
    /\ worker' = [worker EXCEPT ![w] = "cleared"]
    /\ UNCHANGED <<active, dmabuf>>

worker_returns(w) ==
    /\ worker[w] = "cleared"
    /\ worker' = [worker EXCEPT ![w] = "none"]
    /\ active' = active - 1
    /\ UNCHANGED <<device, pool, gpu, dmabuf, history>>

\* A signal stops the accept loop.  main does not wait for its detached
\* workers, which go on as before until it has returned: then the process is
\* gone, and the service starts another.
handle_signal ==
    /\ active' = 0
    /\ worker' = [w \in Workers |-> "none"]
    /\ device' = NoDevice
    /\ pool' = [w \in Workers |-> NoPool]
    /\ gpu' = <<>>
    /\ UNCHANGED <<dmabuf, history>>

\* The queue finishes its oldest copy.
GpuFinishes ==
    /\ gpu # <<>>
    /\ gpu' = Tail(gpu)
    /\ UNCHANGED <<active, worker, device, pool, dmabuf, history>>

\* A dma-buf nobody holds any more is freed, and its inode number given to a
\* new one.
InodeReused(i) ==
    /\ MapThenSumSet(LAMBDA j : dmabuf[j], Inodes) < MaxReuse
    /\ \A w \in Workers, s \in Slots :
          pool[w].source[s].image # None => pool[w].source[s].image.ino # i
    /\ \A k \in DOMAIN gpu : gpu[k].sent.ino # i
    /\ dmabuf' = [dmabuf EXCEPT ![i] = @ + 1]
    /\ UNCHANGED <<active, worker, device, pool, gpu, history>>

Next ==
    \/ \E w \in Workers :
         \/ accept_client(w) \/ client_worker(w)
         \/ Reserve(w) \/ RepackPooled(w) \/ RepackReserved(w)
         \/ Release(w) \/ Discard(w)
         \/ clear_client(w) \/ worker_returns(w)
    \/ handle_signal
    \/ GpuFinishes
    \/ \E i \in Inodes : InodeReused(i)

Spec == Init /\ [][Next]_vars
-----------------------------------------------------------------------------
(* A copy reads the dma-buf the broker sent with the frame: the cache of   *)
(* imports is keyed by inode number and layout, imports fail half way,     *)
(* entries are replaced, and inode numbers come back for other buffers.    *)
CopiesWhatWasSent ==
    \A k \in DOMAIN gpu : gpu[k].read = gpu[k].sent

(* The shared device is there exactly while some pool is attached to it,   *)
(* counted once each, and no pool has an image on a device that is gone,   *)
(* whatever fails while it attaches and in whatever order workers leave.   *)
DeviceSpansPools ==
    LET attached == {w \in Workers : pool[w].attached}
    IN  /\ device.attached = Cardinality(attached)
        /\ device.up = (attached # {})
        /\ \A w \in Workers \ attached :
              /\ \A i \in Slots : pool[w].source[i].image = None
              /\ \A i \in Slots : pool[w].dest[i].size = 0

(* The image a copy writes is not destroyed, nor written by another copy,  *)
(* before the copy is finished: discarded, resized, given up or closed     *)
(* destinations are waited for, unless the GPU hung and the wait timed out.*)
CopiesKeepDestination ==
    history.hung \/
    \A k \in DOMAIN gpu :
        /\ pool[gpu[k].by].dest[gpu[k].to].submitted
        /\ \A l \in DOMAIN gpu : gpu[l].by = gpu[k].by /\ gpu[l].to = gpu[k].to
                                    => l = k
=============================================================================
