--------------------------- MODULE SurfaceProducer ---------------------------
(***************************************************************************)
(* The producers that draw a client's buffers into a MediaCodec input      *)
(* Surface: android/encode_surface_egl.c and android/encode_surface_vulkan *)
(* .c of src/src/video_bridge.                                             *)
(*                                                                         *)
(* A producer keeps the buffers it has imported in a small cache and draws *)
(* from them.  A draw is finished by the GPU later, in submission order,   *)
(* and until then its import must stay.  EGL keeps one fence per entry and *)
(* waits for it before it destroys the entry; Vulkan counts the frames in  *)
(* flight of each entry and never takes an entry that is counted.          *)
(*                                                                         *)
(* Operations are functions of the producer's state, of their arguments    *)
(* and of the stage at which the platform fails ("" when it does not).     *)
(***************************************************************************)
EXTENDS Integers, Sequences, SequencesExt, FiniteSets, FiniteSetsExt

CONSTANTS
    Ids,            \* buffer ids: descriptor.buffer_id, AHardwareBuffer_getId
    Storages,       \* the memory behind a buffer: its fd identity and layout
    Nv12,           \* those of them that hold NV12 and not RGB
    None,           \* no id, no storage, no slot
    CacheSize,      \* ADVC_EGL_IMPORT_CACHE_SIZE, ADVC_VK_IMPORT_CACHE_SIZE
    AhbCacheSize,   \* ADVC_EGL_AHB_CACHE_SIZE
    FrameSlots      \* ADVC_VK_FRAME_SLOT_COUNT

\* The code's static assertions.
ASSUME CacheAssumption ==
    /\ None \notin Ids \cup Storages /\ Nv12 \subseteq Storages
    /\ CacheSize \in Nat /\ AhbCacheSize \in 1..CacheSize
    /\ FrameSlots \in 2..CacheSize

Slots == 1..CacheSize
Frames == 0..(FrameSlots - 1)

\* A cache entry: the id it is looked up by, the storage its image reads, and
\* Vulkan's inflight_refs.
NoImport == [id |-> None, store |-> None, refs |-> 0]

\* kind: which producer.  runtime: the extensions found at the first use.
\* ycbcr: whether Vulkan can sample NV12.
\* lru: the occupied slots by last_use_serial.  fenced: the slots that hold a
\* completion_fence_fd, by completion_serial.  frames and next: Vulkan's frame
\* slots in flight, with their cache_index, and next_frame_slot.  gpu: the
\* draws not finished, each with the slot it reads, the storage it reads, the
\* storage its caller named, and its frame slot.
NoProducer == [kind |-> "none", runtime |-> "unchecked", ycbcr |-> FALSE,
               cache |-> [s \in Slots |-> NoImport], lru |-> <<>>,
               fenced |-> <<>>, frames |-> [f \in Frames |-> None],
               next |-> 0, gpu |-> <<>>]

-----------------------------------------------------------------------------
(* The shared EGL display                                                  *)

acquire_display(d) == [refs |-> d.refs + 1, open |-> TRUE]

release_display(d) == [refs |-> d.refs - 1, open |-> d.refs > 1]

-----------------------------------------------------------------------------
(* What the GPU has finished                                               *)

\* The GPU finishes its oldest draw.
FinishDraw(p) == [p EXCEPT !.gpu = Tail(@)]

\* glFinish, vkDeviceWaitIdle: every draw is finished.
FinishAll(p) == [p EXCEPT !.gpu = <<>>]

\* Draws finish in order: a fence of the newest of some covers all before it.
FinishThrough(p, draws) ==
    [p EXCEPT !.gpu = SubSeq(@, Max({0} \cup draws) + 1, Len(@))]

wait_native_fence_fd(p, s) == FinishThrough(p, {i \in DOMAIN p.gpu : p.gpu[i].at = s})

-----------------------------------------------------------------------------
(* The import caches                                                       *)

Occupied(p, s) == p.cache[s].id # None

Use(p, s) == [p EXCEPT !.lru = Append(Remove(@, s), s)]

clear_cache_entry(p, s) ==
    [p EXCEPT !.cache[s] = NoImport, !.lru = Remove(@, s),
              !.fenced = Remove(@, s)]

Insert(p, s, id, store) ==
    Use([clear_cache_entry(p, s) EXCEPT !.cache[s] =
            [id |-> id, store |-> store, refs |-> 0]], s)

Found(p, s) == [ok |-> TRUE, at |-> s, p |-> p]
Refused(p) == [ok |-> FALSE, at |-> None, p |-> p]

\* Mutant: the fence is not waited for.
quiesce_cache_entry_skipped(p, s, fault) == Found(p, s)

\* An entry is destroyed once its fence is signalled.  When the fence does not
\* come, everything is finished instead; when that fails too, nothing is known
\* of the draws and the entry stays.
quiesce_cache_entry(p, s, fault) ==
    IF ~Contains(p.fenced, s) THEN Found(p, s)
    ELSE IF fault = "quiesce" THEN Refused(p)
    ELSE IF fault = "fence" THEN Found(FinishAll(p), s)
    ELSE Found(wait_native_fence_fd(p, s), s)

destroy_cache_entry(p, s, fault) ==
    LET q == quiesce_cache_entry(p, s, fault)
    IN  IF q.ok THEN Found(clear_cache_entry(q.p, s), s) ELSE q

\* The slot to fill when no entry of these slots has the id: the first free
\* one, else the least recently used one of those that may go.
Victim(p, slots, free) ==
    LET empty == {s \in slots : ~Occupied(p, s)}
        used  == SelectSeq(p.lru, LAMBDA s : s \in free)
    IN  IF empty # {} THEN Min(empty)
        ELSE IF used # <<>> THEN Head(used)
        ELSE None

\* The same id, metadata and fd identities.
descriptor_metadata_equal(entry, store) == entry.store = store

ahb_descriptors_equal(entry, store) == entry.store = store

\* The platform makes an image of a buffer, and a texture of the image.
create_ahb_texture(fault) == fault # "import"

create_dmabuf_image(fault) == fault # "import"

\* An id found with the same metadata and fd identities (in a slot of equal) is
\* a hit; with others it is replaced.  The new image is created before the old
\* one is destroyed.
CachedImport(p, slots, id, store, equal, imported, fault) ==
    LET same   == {s \in slots : p.cache[s].id = id}
        target == IF same # {} THEN Min(same)
                  ELSE Victim(p, slots, slots)
        q      == destroy_cache_entry(p, target, fault)
    IN  IF same # {} /\ target \in equal THEN Found(Use(p, target), target)
        ELSE IF ~imported THEN Refused(p)
        ELSE IF ~q.ok THEN Refused(q.p)
        ELSE Found(Insert(q.p, target, id, store), target)

get_cached_dmabuf(p, id, store, fault) ==
    CachedImport(p, Slots, id, store,
                 {s \in Slots : descriptor_metadata_equal(p.cache[s], store)},
                 create_dmabuf_image(fault), fault)

get_cached_ahb(p, id, store, fault) ==
    CachedImport(p, 1..AhbCacheSize, id, store,
                 {s \in 1..AhbCacheSize : ahb_descriptors_equal(p.cache[s], store)},
                 create_ahb_texture(fault), fault)

\* NV12 needs the YCbCr pipeline.
descriptor_supported(p, store) == store \in Nv12 => p.ycbcr

\* An image on the buffer's memory, and a view of it when it is NV12.
import_image(fault) == fault # "import"

\* Vulkan never takes an entry with a frame in flight, be it of the same id.
get_cached_import(p, id, store, fault) ==
    LET same   == {s \in Slots : p.cache[s].id = id}
        hit    == same # {} /\ descriptor_metadata_equal(p.cache[Min(same)], store)
        target == IF same # {} THEN Min(same)
                  ELSE Victim(p, Slots, {s \in Slots : p.cache[s].refs = 0})
    IN  IF ~descriptor_supported(p, store) THEN Refused(p)
        ELSE IF hit THEN Found(Use(p, target), target)
        ELSE IF same # {} /\ p.cache[target].refs # 0 THEN Refused(p)
        ELSE IF target = None \/ ~import_image(fault) THEN Refused(p)
        ELSE Found(Insert(p, target, id, store), target)

\* The newest fence covers every older draw of the context; the entries are
\* destroyed only once it is signalled.
discard_import_caches(p, fault) ==
    LET waited == IF p.fenced = <<>> THEN Found(p, None)
                  ELSE quiesce_cache_entry(p, Last(p.fenced), fault)
        Clear(q) == [q EXCEPT !.cache = NoProducer.cache, !.lru = <<>>,
                              !.fenced = <<>>]
    IN  IF fault = "current" THEN Refused(p)
        ELSE IF ~waited.ok THEN Refused(waited.p)
        ELSE Found(Clear(waited.p), None)

-----------------------------------------------------------------------------
(* The EGL producer                                                        *)

\* A drawing call: its result, whether the codec's Surface got a frame.
Drawn(ok, posted, p) == [ok |-> ok, posted |-> posted, p |-> p]
NotDrawn(p) == Drawn(FALSE, FALSE, p)

\* The extensions are looked for once, and what is found then stays.
resolve_runtime(p, support) ==
    IF p.runtime = "unchecked" THEN [p EXCEPT !.runtime = support] ELSE p

\* The draw, the swap and the fence.  A failure after the draw was submitted
\* ends with glFinish, whether or not the swap had posted the frame.
CachedDraw(c, store, fault) ==
    LET p    == c.p
        draw == [at |-> c.at, store |-> p.cache[c.at].store, want |-> store,
                 frame |-> None]
        q    == [p EXCEPT !.gpu = Append(@, draw)]
    IN  IF ~c.ok THEN NotDrawn(p)
        ELSE IF fault = "draw" THEN NotDrawn(FinishAll(q))
        ELSE IF fault = "sync" THEN Drawn(FALSE, TRUE, FinishAll(q))
        ELSE Drawn(TRUE, TRUE,
                            [q EXCEPT !.fenced = Append(Remove(@, c.at), c.at)])

\* Without a cache the image lives for one call, which ends with glFinish.
LocalDraw(p, imported, fault) ==
    IF ~imported THEN NotDrawn(p)
    ELSE IF fault = "draw" THEN NotDrawn(FinishAll(p))
    ELSE IF fault = "sync" THEN Drawn(FALSE, TRUE, FinishAll(p))
    ELSE Drawn(TRUE, TRUE, FinishAll(p))

render(p, fault) ==
    IF fault \in {"current", "draw"} THEN NotDrawn(p) ELSE Drawn(TRUE, TRUE, p)

render_ahb(p, id, store, support, known, fault) ==
    LET q == resolve_runtime(p, support)
    IN  IF fault = "current" THEN NotDrawn(p)
        ELSE IF q.runtime = "missing" \/ fault = "acquire" THEN NotDrawn(q)
        ELSE IF q.runtime = "async" /\ known THEN
                CachedDraw(get_cached_ahb(q, id, store, fault), store, fault)
        ELSE LocalDraw(q, create_ahb_texture(fault), fault)

\* A descriptor of one plane of a known layout.
dmabuf_descriptor_supported(fault) == fault # "descriptor"

render_dmabuf(p, id, store, support, fault) ==
    LET q == resolve_runtime(p, support)
    IN  IF ~dmabuf_descriptor_supported(fault) \/ fault = "current" THEN NotDrawn(p)
        ELSE IF q.runtime = "missing" \/ fault = "acquire" THEN NotDrawn(q)
        ELSE IF q.runtime = "async" THEN
                CachedDraw(get_cached_dmabuf(q, id, store, fault), store, fault)
        ELSE LocalDraw(q, create_dmabuf_image(fault), fault)

\* A registration imports the buffer, into the cache when there is one.
validate_dmabuf(p, id, store, support, fault) ==
    LET q == resolve_runtime(p, support)
    IN  IF ~dmabuf_descriptor_supported(fault) \/ fault = "current" THEN Refused(p)
        ELSE IF q.runtime = "missing" THEN Refused(q)
        ELSE IF q.runtime = "async" THEN get_cached_dmabuf(q, id, store, fault)
        ELSE IF ~create_dmabuf_image(fault) THEN Refused(q)
        ELSE Found(q, None)

\* abandon_import_caches destroys what a failed discard left in the caches; the
\* draws it did not wait for are still the GPU's.
destroy_egl(p, fault) == [NoProducer EXCEPT !.gpu = discard_import_caches(p, fault).p.gpu]

\* A failure after the display was acquired goes through destroy_egl.
egl_surface_producer_create(d, fault) ==
    IF fault = "display" THEN [ok |-> FALSE, p |-> NoProducer, d |-> d]
    ELSE IF fault = "producer" THEN [ok |-> FALSE, p |-> NoProducer,
                                d |-> release_display(acquire_display(d))]
    ELSE [ok |-> TRUE, p |-> [NoProducer EXCEPT !.kind = "egl"],
                   d |-> acquire_display(d)]

-----------------------------------------------------------------------------
(* The Vulkan producer                                                     *)

\* Mutant: the entry stays counted.
retire_frame_slot_counted(p, f) ==
    [FinishThrough(p, {i \in DOMAIN p.gpu : p.gpu[i].frame = f}) EXCEPT !.frames[f] = None]

\* The submit fence of a frame slot proves that its draw is finished.
retire_frame_slot(p, f) ==
    LET q == FinishThrough(p, {i \in DOMAIN p.gpu : p.gpu[i].frame = f})
        s == p.frames[f]
    IN  IF s = None THEN p
        ELSE [q EXCEPT !.cache[s].refs = @ - 1, !.frames[f] = None]

\* The stages of a frame: a swapchain image and the client's fence, the command
\* buffer, the submission with its bookkeeping, and the release fence with the
\* presentation.  Whatever fails after the submission leaves it in flight.
ImageAcquired(fault) == fault # "acquire"

Recorded(fault) == fault # "draw"

Submitted(p, f, at, want) ==
    [p EXCEPT !.frames[f] = at, !.cache[at].refs = @ + 1,
              !.next = (@ + 1) % FrameSlots,
              !.gpu = Append(@, [at |-> at, store |-> p.cache[at].store,
                                 want |-> want, frame |-> f])]

Presented(fault) == fault # "sync"

vk_render_dmabuf(p, id, store, fault) ==
    LET f == p.next
        c == get_cached_import(retire_frame_slot(p, f), id, store, fault)
        q == Submitted(c.p, f, c.at, store)
    IN  IF ~descriptor_supported(p, store) THEN NotDrawn(p)
        ELSE IF fault = "fence" /\ p.frames[f] # None THEN NotDrawn(p)
        ELSE IF ~c.ok \/ ~ImageAcquired(fault) \/ ~Recorded(fault) THEN NotDrawn(c.p)
        ELSE IF ~Presented(fault) THEN NotDrawn(q)
        ELSE Drawn(TRUE, TRUE, q)

vk_validate_dmabuf(p, id, store, fault) == get_cached_import(p, id, store, fault)

\* The samplers, the render pass and the pipeline for NV12.
create_ycbcr_resources(p, fault) == [p EXCEPT !.ycbcr = (fault # "ycbcr")]

\* An instance with the Surface, and a device that has the extensions.
VkDeviceFound(fault) == fault # "display"

\* The swapchain, its semaphores and the frame slots.
VkSwapchainMade(fault) == fault # "producer"

\* Without the YCbCr pipeline the producer is made all the same.
vk_surface_producer_create(d, fault) ==
    LET ok   == VkDeviceFound(fault) /\ VkSwapchainMade(fault)
        made == [NoProducer EXCEPT !.kind = "vulkan"]
    IN  [ok |-> ok, d |-> d,
         p |-> IF ok THEN create_ycbcr_resources(made, fault) ELSE NoProducer]

destroy_producer(p) == [NoProducer EXCEPT !.gpu = FinishAll(p).gpu]

=============================================================================
