---------------------------- MODULE CodecBackend ----------------------------
(***************************************************************************)
(* The Android backend of the session engine: one MediaCodec session of    *)
(* android/android_codec_backend.c, with the image reader a decoder        *)
(* renders into (android_ahb_decode.c), the input Surface of an encoder    *)
(* (encode_surface_core.c) and its producer (SurfaceProducer).             *)
(*                                                                         *)
(* The engine calls the backend from one thread, so a call is one step.    *)
(* The codec, the GPU and the image reader run beside it: they are         *)
(* external and modelled by what the backend sees of them.                 *)
(***************************************************************************)
EXTENDS SurfaceProducer

CONSTANTS
    Transports,     \* the kinds of session a run creates
    Supports,       \* what the EGL extension lookup may find
    Apis,           \* Android API levels
    MaxInflight,    \* ADVC_MAX_INFLIGHT_DMABUFS
    MaxOutputs,     \* ADVC_MAX_OUTSTANDING_OUTPUTS, the reader's max_images
    InputBuffers,   \* input buffers of the codec
    Faults,         \* the stages at which the platform may fail
    MaxFaults,      \* bound: platform failures in a behaviour
    MaxFrames,      \* bound: frames that enter the codec
    MaxSessions     \* bound: sessions created

ASSUME BackendAssumption ==
    /\ Transports \subseteq {"bytes_decode", "bytes_encode", "ahb_decode",
                             "egl", "ahb", "dmabuf_egl", "dmabuf_vulkan"}
    /\ Supports \subseteq {"async", "sync", "missing"}
    /\ MaxInflight \in Nat \ {0} /\ MaxOutputs \in Nat \ {0}
    /\ InputBuffers \in Nat \ {0}

VARIABLES
    session,    \* struct android_codec_session
    codec,      \* the MediaCodec
    reader,     \* the AImageReader of a Surface decoder
    surface,    \* the input Surface of an encoder and its window references
    producer,   \* what draws into that Surface
    display,    \* the EGL display the producers of all sessions share
    registered, \* the storage each registered dma-buf id names
    history     \* what happened so far: bounds, and frames handed back

platform == <<codec, reader>>
drawing == <<surface, producer, display>>
vars == <<session, platform, drawing, registered, history>>

-----------------------------------------------------------------------------
(* States                                                                  *)

\* hold: pending_input_index.  last: local_surface_last_pts_ns.  pending:
\* local_surface_pending.  failed: surface_transport_failed.  csd:
\* encoder_csd_emitted.  owed: pending_surface_output and its info.  mapper:
\* prime_mapper.
NoSession == [open |-> FALSE, transport |-> "bytes_decode", api |-> 0,
              started |-> FALSE, hold |-> FALSE, last |-> 0, pending |-> 0,
              failed |-> FALSE, csd |-> FALSE, eosIn |-> FALSE,
              eosOut |-> FALSE, owed |-> None, mapper |-> FALSE]

\* An output buffer: the frame in it (0 when it is empty) and its EOS flag.
Output(frame, eos) == [frame |-> frame, eos |-> eos]

\* inside: frames queued, 0 for the end of the stream.  outs: output buffers
\* ready.  changed: a format change not reported yet.
NoCodec == [open |-> FALSE, running |-> FALSE, inside |-> <<>>, outs |-> <<>>,
            changed |-> FALSE]

\* coming: frames rendered, on their way to the reader.  ready: its images.
\* held: the outputs the engine holds, each with the info it was given and the
\* image that came with it.
NoReader == [open |-> FALSE, coming |-> <<>>, ready |-> <<>>, held |-> {}]

NoSurface == [open |-> FALSE, refs |-> 0, started |-> FALSE, eos |-> FALSE]

Init ==
    /\ session = NoSession
    /\ codec = NoCodec
    /\ reader = NoReader
    /\ surface = NoSurface
    /\ producer = NoProducer
    /\ display = [refs |-> 0, open |-> FALSE]
    /\ registered = [id \in Ids |-> None]
    /\ history = [frames |-> 0, faults |-> 0, sessions |-> 0, others |-> 0,
                  back |-> <<>>, lost |-> 0, late |-> FALSE, abandoned |-> FALSE]

SurfaceInput == {"egl", "ahb", "dmabuf_egl", "dmabuf_vulkan"}
Dmabuf == {"dmabuf_egl", "dmabuf_vulkan"}
Encoding == session.transport \in SurfaceInput \cup {"bytes_encode"}

\* The stages a call may fail at: none, or one of those while the bound allows.
MayFail(stages) ==
    {""} \cup IF history.faults < MaxFaults THEN Faults \cap stages ELSE {}

\* History after a call that failed at a stage, posted a frame and handed
\* frames back.
After(fault, posted, back) ==
    [history EXCEPT !.faults = @ + (IF fault = "" THEN 0 ELSE 1),
                    !.frames = @ + (IF posted THEN 1 ELSE 0),
                    !.back = @ \o back]

MoreFrames == history.frames < MaxFrames

-----------------------------------------------------------------------------
(* The input Surface: encode_surface_core.c                                *)

advc_encode_surface_create == [NoSurface EXCEPT !.open = TRUE, !.refs = 1]

advc_encode_surface_acquire_window(s) == [s EXCEPT !.refs = @ + 1]

advc_encode_surface_release_window(s) == [s EXCEPT !.refs = @ - 1]

advc_encode_surface_mark_started(s) == [s EXCEPT !.started = TRUE]

\* Mutant: the window is kept.
advc_encode_surface_destroy_kept(s) == [NoSurface EXCEPT !.refs = s.refs]

advc_encode_surface_destroy(s) ==
    IF s.open THEN [NoSurface EXCEPT !.refs = s.refs - 1] ELSE s

\* The end of the stream is signalled once.
CanSignal(s) == s.open /\ s.started /\ ~s.eos

-----------------------------------------------------------------------------
(* The image reader: android_ahb_decode.c                                  *)

\* A reader gives out at most max_images at a time.
CanAcquire(r) == r.ready # <<>> /\ Cardinality(r.held) < MaxOutputs

\* Mutant: a flush leaves the images.
discard_available_nothing(r) == r

\* Images are discarded until none is available or the reader refuses.
advc_ahb_surface_discard_available(r) ==
    IF Cardinality(r.held) < MaxOutputs
    THEN [r EXCEPT !.ready = SubSeq(@, MaxOutputs + 1, Len(@))]
    ELSE r

-----------------------------------------------------------------------------
(* Creation                                                                *)

start_codec(c) == [c EXCEPT !.running = TRUE, !.changed = TRUE]

\* The Surface is created from a configured codec, lent to the producer for
\* its creation, and the codec is started last.  Each failure undoes the rest.
start_surface_encoder(transport, fault) ==
    LET lent   == advc_encode_surface_acquire_window(advc_encode_surface_create)
        made   == IF transport = "dmabuf_vulkan"
                  THEN vk_surface_producer_create(display, fault)
                  ELSE egl_surface_producer_create(display, fault)
        back   == advc_encode_surface_release_window(lent)
        Undo(s, d) == [ok |-> FALSE, p |-> NoProducer, d |-> d,
                       s |-> advc_encode_surface_destroy(s)]
    IN  IF fault \in {"configure", "surface"} THEN Undo(NoSurface, display)
        ELSE IF ~made.ok THEN Undo(back, made.d)
        ELSE IF fault = "start" THEN
                Undo(back, IF made.p.kind = "egl" THEN release_display(made.d)
                           ELSE made.d)
        ELSE [ok |-> TRUE, p |-> made.p, d |-> made.d,
                       s |-> advc_encode_surface_mark_started(back)]

\* A decoder is started by its first input, an encoder at once.
android_create(transport, api, fault) ==
    LET s      == start_surface_encoder(transport, fault)
        at_once == transport \in SurfaceInput \cup {"bytes_encode"}
        ok     == IF transport \in SurfaceInput THEN s.ok
                  ELSE IF transport = "bytes_encode" THEN fault \notin {"configure", "start"}
                  ELSE IF transport = "ahb_decode" THEN api >= 26 /\ fault # "surface"
                  ELSE TRUE
        made   == [NoCodec EXCEPT !.open = TRUE]
    IN  /\ ~session.open
        /\ history.sessions < MaxSessions
        /\ transport \in SurfaceInput => api >= 36
        /\ session' = IF ok THEN [NoSession EXCEPT !.open = TRUE, !.api = api,
                                     !.transport = transport, !.started = at_once]
                      ELSE NoSession
        /\ codec' = IF ~ok THEN NoCodec
                    ELSE IF at_once THEN start_codec(made)
                    ELSE made
        /\ reader' = [NoReader EXCEPT !.open = ok /\ transport = "ahb_decode"]
        /\ IF transport \in SurfaceInput
           THEN surface' = s.s /\ producer' = s.p /\ display' = s.d
           ELSE UNCHANGED drawing
        /\ history' = [After(fault, FALSE, <<>>) EXCEPT
                          !.sessions = @ + 1, !.back = <<>>, !.lost = 0]
        /\ UNCHANGED registered

-----------------------------------------------------------------------------
(* Input                                                                   *)

\* The end of an encoder's stream: nothing may be drawn after it, so the EGL
\* imports are dropped first, except by the route that imports nothing.
queue_surface_eos(fault) ==
    LET q == IF producer.kind = "egl" /\ session.transport # "egl"
             THEN discard_import_caches(producer, fault)
             ELSE Found(producer, None)
        ok == q.ok /\ CanSignal(surface) /\ fault # "signal"
    IN  /\ session.transport \in SurfaceInput
        /\ producer' = q.p
        /\ session' = [session EXCEPT !.eosIn = ok]
        /\ surface' = [surface EXCEPT !.eos = @ \/ ok]
        /\ codec' = [codec EXCEPT !.inside = @ \o IF ok THEN <<0>> ELSE <<>>]
        /\ history' = After(fault, FALSE, <<>>)
        /\ UNCHANGED <<reader, display, registered>>

\* Mutant: the timestamp is forgotten.
Counted_untimed(s) == [s EXCEPT !.pending = @ + 1]

WindowOpen == session.pending < MaxInflight

\* A frame that was drawn is counted until its bytes are handed back.
Counted(s) == [s EXCEPT !.last = @ + 1, !.pending = @ + 1]

\* A drawn frame enters the codec with the timestamp after the last one that
\* was counted: the checks on pts_ns allow no smaller one.
Posted(c, r) ==
    IF r.posted THEN [c EXCEPT !.inside = Append(@, session.last + 1)] ELSE c

queue_broker_egl(fault) ==
    LET r == render(producer, fault)
    IN  /\ session.transport = "egl"
        /\ MoreFrames
        /\ WindowOpen
        /\ session' = IF r.ok THEN Counted(session) ELSE session
        /\ codec' = Posted(codec, r)
        /\ history' = After(fault, r.posted, <<>>)
        /\ UNCHANGED <<reader, drawing, registered>>

\* Compressed or raw bytes.  The first input of a decoder starts it, and codec
\* specific data that comes first is given to it then; an input buffer that
\* proves too small is kept for the next call.
queue_bytes(kind, fault) ==
    LET begun  == session.started \/ fault \notin {"configure", "start"}
        absorbed == ~session.started /\ kind = "config"
        c      == IF session.started THEN codec ELSE start_codec(codec)
        room   == session.hold \/ Len(codec.inside) < InputBuffers
        queued == begun /\ ~absorbed /\ fault = "" /\ room
        item   == IF kind = "frame" THEN <<history.frames + 1>>
                  ELSE IF kind = "eos" THEN <<0>>
                  ELSE <<>>
    IN  /\ session.transport \in {"bytes_decode", "bytes_encode", "ahb_decode"}
        /\ kind = "frame" => MoreFrames
        /\ kind = "config" => session.transport # "bytes_encode"
        /\ session' = [session EXCEPT
                          !.started = begun,
                          !.hold = IF ~begun \/ absorbed THEN @
                                   ELSE IF fault = "size" /\ room THEN TRUE
                                   ELSE IF room THEN FALSE
                                   ELSE @,
                          !.eosIn = queued /\ kind = "eos"]
        /\ codec' = IF ~begun THEN codec
                    ELSE IF queued THEN [c EXCEPT !.inside = @ \o item]
                    ELSE c
        /\ history' = After(fault, queued /\ kind = "frame", <<>>)
        /\ UNCHANGED <<reader, drawing, registered>>

android_queue_input(kind, fault) ==
    /\ session.open /\ ~session.eosIn
    /\ \/ kind = "eos" /\ queue_surface_eos(fault)
       \/ kind = "frame" /\ queue_broker_egl(fault)
       \/ queue_bytes(kind, fault)

\* An AHardwareBuffer of the client.  While its import is cached the buffer is
\* alive, and the system gives its id to no other.
android_receive_ahb_input(id, store, support, known, fault) ==
    LET r == render_ahb(producer, id, store, support, known, fault)
    IN  /\ session.open /\ session.transport = "ahb"
        /\ ~session.eosIn /\ WindowOpen /\ MoreFrames
        /\ \A s \in Slots : producer.cache[s].id = id => producer.cache[s].store = store
        /\ producer' = r.p
        /\ session' = IF r.ok THEN Counted(session) ELSE session
        /\ codec' = Posted(codec, r)
        /\ history' = After(fault, r.posted, <<>>)
        /\ UNCHANGED <<reader, surface, display, registered>>

\* REGISTER_DMABUF asks for the format: the buffer is imported to find out.  The
\* registry of the engine has as many entries as the import cache.
android_dmabuf_format_allowed(id, store, support, fault) ==
    LET c == IF producer.kind = "vulkan"
             THEN vk_validate_dmabuf(producer, id, store, fault)
             ELSE validate_dmabuf(producer, id, store, support, fault)
    IN  /\ session.open /\ session.transport \in Dmabuf
        /\ ~session.failed /\ ~session.eosIn
        /\ registered[id] = None
        /\ Cardinality({i \in Ids : registered[i] # None}) < CacheSize
        /\ producer' = c.p
        /\ registered' = IF c.ok THEN [registered EXCEPT ![id] = store]
                         ELSE registered
        /\ history' = After(fault, FALSE, <<>>)
        /\ UNCHANGED <<session, platform, surface, display>>

\* UNREGISTER_DMABUF, of which the backend hears nothing.
UnregisterDmabuf(id) ==
    /\ registered[id] # None
    /\ registered' = [registered EXCEPT ![id] = None]
    /\ UNCHANGED <<session, platform, drawing, history>>

Poisoned(s) == [s EXCEPT !.failed = TRUE]

\* A frame that cannot be drawn poisons the session, and a Vulkan producer
\* that failed is destroyed.
android_submit_dmabuf(id, support, fault) ==
    LET store == registered[id]
        r == IF producer.kind = "vulkan"
             THEN vk_render_dmabuf(producer, id, store, fault)
             ELSE render_dmabuf(producer, id, store, support, fault)
    IN  /\ session.open /\ session.transport \in Dmabuf /\ store # None
        /\ ~session.failed /\ ~session.eosIn
        /\ WindowOpen /\ MoreFrames
        /\ producer' = IF fault = "request" THEN producer
                       ELSE IF ~r.ok /\ producer.kind = "vulkan" THEN destroy_producer(r.p)
                       ELSE r.p
        /\ session' = IF fault = "request" THEN session
                      ELSE IF r.ok THEN Counted(session)
                      ELSE Poisoned(session)
        /\ codec' = IF fault = "request" THEN codec ELSE Posted(codec, r)
        /\ history' = After(fault, fault # "request" /\ r.posted, <<>>)
        /\ UNCHANGED <<reader, surface, display, registered>>

-----------------------------------------------------------------------------
(* Output                                                                  *)

\* The image of the output that is owed, when it has come.  An image that the
\* reader gave and that cannot be used is deleted, and stays owed.
acquire_surface_output(s, r, fault) ==
    IF ~CanAcquire(r)
    THEN session' = s /\ reader' = r
    ELSE LET image == Head(r.ready)
             taken == [r EXCEPT !.ready = Tail(@)]
         IN  IF fault = "acquire"
             THEN session' = s /\ reader' = taken
             ELSE /\ session' = [s EXCEPT !.owed = None, !.eosOut = @ \/ s.owed.eos]
                  /\ reader' = [taken EXCEPT !.held =
                        @ \cup {[frame |-> s.owed.frame, image |-> image]}]

\* Mutant: an empty output is rendered like any other.
HasNoImage_never(out) == FALSE

\* An empty end of stream.
HasNoImage(out) == out.eos /\ out.frame = 0

\* The image that rendering an output buffer sends to the reader.
Image(out) == IF out.frame = 0 THEN <<>> ELSE <<out.frame>>

\* A decoder with a Surface: the output buffer is rendered and its image
\* acquired, at once or by a later call.  An empty end of stream has no image.
dequeue_image(posted, fault) ==
    LET out  == Head(codec.outs)
        owed == [session EXCEPT !.owed = out]
        sent == [reader EXCEPT !.coming = @ \o Image(out)]
        here == [reader EXCEPT !.ready = @ \o reader.coming \o Image(out),
                               !.coming = <<>>]
    IN  /\ session.transport = "ahb_decode"
        /\ codec' = [codec EXCEPT !.outs = Tail(@), !.changed = FALSE]
        /\ IF HasNoImage(out)
           THEN /\ session' = [session EXCEPT !.eosOut = (fault # "render")]
                /\ UNCHANGED reader
           ELSE IF fault = "render" THEN UNCHANGED <<session, reader>>
                ELSE acquire_surface_output(owed, IF posted THEN here ELSE sent, fault)
        /\ history' = After(fault, FALSE, <<>>)

\* The bytes of a frame drawn into the Surface uncount it.
Uncounted(s, out) ==
    IF s.transport \in SurfaceInput /\ out.frame # 0 /\ s.pending > 0
    THEN [s EXCEPT !.pending = @ - 1] ELSE s

\* Bytes are copied by the engine, which releases the buffer before it answers.
dequeue_bytes(fault) ==
    LET out  == Head(codec.outs)
        lost == session.api < 36 \/ fault = "range"
    IN  /\ session.transport # "ahb_decode"
        /\ codec' = [codec EXCEPT !.outs = Tail(@), !.changed = FALSE]
        /\ session' = IF lost THEN session
                      ELSE [Uncounted(session, out) EXCEPT !.eosOut = out.eos]
        /\ history' =
              IF lost /\ out.frame # 0
              THEN [After(fault, FALSE, <<>>) EXCEPT !.lost = @ + 1]
              ELSE After(fault, FALSE, IF out.frame = 0 THEN <<>>
                                       ELSE <<out.frame>>)
        /\ UNCHANGED reader

\* A format change is reported before the output it applies to.  The first one
\* of an encoder carries the codec specific data, which is handed back alone.
update_output_format(fault) ==
    LET emit == Encoding /\ ~session.csd /\ fault = ""
    IN  /\ codec.changed
        /\ emit \/ fault = "format" \/ codec.outs = <<>>
        /\ codec' = [codec EXCEPT !.changed = FALSE]
        /\ session' = [session EXCEPT !.csd = @ \/ emit]
        /\ history' = After(fault, FALSE, <<>>)
        /\ UNCHANGED reader

android_dequeue_output(posted, fault) ==
    /\ session.open
    /\ Cardinality(reader.held) < MaxOutputs
    /\ IF session.owed # None
       THEN /\ reader.ready # <<>>
            /\ acquire_surface_output(session, reader, fault)
            /\ history' = After(fault, FALSE, <<>>)
            /\ UNCHANGED codec
       ELSE /\ ~session.eosOut
            /\ \/ update_output_format(fault)
               \/ /\ codec.outs # <<>>
                  /\ codec.changed => ~(Encoding /\ ~session.csd)
                  /\ dequeue_image(posted, fault) \/ dequeue_bytes(fault)
    /\ UNCHANGED <<drawing, registered>>

\* RELEASE_OUTPUT of an image.
android_release_output(output) ==
    /\ output \in reader.held
    /\ reader' = [reader EXCEPT !.held = @ \ {output}]
    /\ UNCHANGED <<session, codec, drawing, registered, history>>

\* TRANSFER_PRIME: the mapper is made by the first export and kept.
android_export_decode_prime(output, fault) ==
    /\ output \in reader.held /\ session.started
    /\ session' = [session EXCEPT !.mapper = @ \/ fault # "mapper"]
    /\ history' = After(fault, FALSE, <<>>)
    /\ UNCHANGED <<platform, drawing, registered>>

-----------------------------------------------------------------------------
(* Flush and destruction                                                   *)

\* When AMediaCodec_flush returns, and its caller has looked, the first n images
\* that were rendered have reached the reader.
codec_flush(r, n) ==
    [r EXCEPT !.ready = @ \o SubSeq(r.coming, 1, n),
              !.coming = SubSeq(@, n + 1, Len(@))]

\* An input Surface cannot be flushed; its imports are dropped all the same.
flush_surface(fault) ==
    /\ session.transport \in SurfaceInput \ Dmabuf
    /\ producer' = discard_import_caches(producer, fault).p
    /\ history' = After(fault, FALSE, <<>>)
    /\ UNCHANGED <<session, platform, surface, display>>

\* The codec forgets what it held and the reader the images it has; then the
\* engine releases the outputs it still holds.
flush_codec(n, fault) ==
    LET flushed == advc_ahb_surface_discard_available(codec_flush(reader, n))
    IN  /\ session.transport \notin SurfaceInput
        /\ session.started
        /\ IF fault = "flush"
           THEN UNCHANGED <<session, platform>>
           ELSE /\ codec' = [codec EXCEPT !.inside = <<>>, !.outs = <<>>]
                /\ reader' = [flushed EXCEPT !.held = {}]
                /\ session' = [session EXCEPT
                      !.hold = FALSE, !.eosIn = FALSE, !.eosOut = FALSE,
                      !.owed = None, !.csd = FALSE]
        /\ history' = [After(fault, FALSE, <<>>) EXCEPT !.late = @ \/ reader'.coming # <<>>]
        /\ UNCHANGED drawing

android_flush(fault) ==
    /\ session.open
    /\ \/ flush_surface(fault)
       \/ \E n \in 0..Len(reader.coming) : flush_codec(n, fault)
    /\ UNCHANGED registered

\* The engine has released its outputs.  Imports go before the codec stops, the
\* producer before the Surface, the Surface before the codec, and the reader
\* after it.
android_destroy(fault) ==
    LET q == IF producer.kind = "egl" /\ session.transport # "egl"
             THEN discard_import_caches(producer, fault).p ELSE producer
    IN  /\ session.open
        /\ session' = NoSession
        /\ codec' = NoCodec
        /\ reader' = NoReader
        /\ producer' = IF q.kind = "egl" THEN destroy_egl(q, fault)
                       ELSE IF q.kind = "vulkan" THEN destroy_producer(q)
                       ELSE q
        /\ display' = IF q.kind = "egl" THEN release_display(display) ELSE display
        /\ surface' = advc_encode_surface_destroy(surface)
        /\ registered' = [id \in Ids |-> None]
        /\ history' = [After(fault, FALSE, <<>>) EXCEPT
              !.frames = 0, !.back = <<>>, !.lost = 0, !.late = FALSE,
              !.abandoned = q.kind = "egl" /\ ~discard_import_caches(q, fault).ok]

-----------------------------------------------------------------------------
(* What runs beside the backend                                            *)

\* The codec turns its oldest input into an output; the end of the stream may
\* ride on the last frame or come alone.
CodecProduces(ride) ==
    /\ codec.running /\ codec.inside # <<>>
    /\ ride => Len(codec.inside) = 2 /\ codec.inside[2] = 0
    /\ LET first == Head(codec.inside)
           used  == IF ride THEN 2 ELSE 1
       IN  codec' = [codec EXCEPT
                        !.inside = SubSeq(@, used + 1, Len(@)),
                        !.outs = Append(@, Output(first, ride \/ first = 0))]
    /\ UNCHANGED <<session, reader, drawing, registered, history>>

\* A rendered image reaches the reader.
ImageArrives ==
    /\ reader.coming # <<>>
    /\ reader' = [reader EXCEPT !.ready = Append(@, Head(reader.coming)),
                                !.coming = Tail(@)]
    /\ UNCHANGED <<session, codec, drawing, registered, history>>

GpuFinishes ==
    /\ producer.gpu # <<>>
    /\ producer' = FinishDraw(producer)
    /\ UNCHANGED <<session, platform, surface, display, registered, history>>

\* Another session of the broker opens and closes an EGL producer.
OtherProducer ==
    /\ producer.kind # "vulkan"
    /\ \/ history.others = 0 /\ history' = [history EXCEPT !.others = 1]
          /\ display' = acquire_display(display)
       \/ history.others = 1 /\ history' = [history EXCEPT !.others = 0]
          /\ display' = release_display(display)
    /\ UNCHANGED <<session, platform, surface, producer, registered>>

-----------------------------------------------------------------------------
(* The specification                                                       *)

CreateStages == {"configure", "surface", "display", "producer", "ycbcr", "start"}
InputStages ==
    IF session.transport \in SurfaceInput
    THEN {"current", "draw", "fence", "quiesce", "signal"}
    ELSE {"configure", "start", "size", "queue"}
ImportStages ==
    IF producer.kind = "egl" THEN {"descriptor", "current", "import", "fence", "quiesce"}
    ELSE {"import"}
DrawStages == ImportStages \cup {"acquire", "fence", "draw", "sync", "request"}

\* The lookup of the extensions, which only the first use makes (resolve_runtime).
Support ==
    IF producer.kind = "egl" /\ producer.runtime = "unchecked" THEN Supports
    ELSE {producer.runtime}

\* A Vulkan session shares nothing with the others: it is explored alone.
Create ==
    /\ ~session.open
    /\ \E t \in Transports, api \in Apis, f \in MayFail(CreateStages) :
         /\ t = "dmabuf_vulkan" => history.others = 0
         /\ android_create(t, api, f)

QueueInput ==
    /\ session.open
    /\ \E kind \in {"frame", "config", "eos"}, f \in MayFail(InputStages) :
         android_queue_input(kind, f)

ReceiveAhb ==
    /\ session.transport = "ahb"
    /\ \E id \in Ids, store \in Storages, known \in BOOLEAN, support \in Support,
          f \in MayFail(DrawStages) :
         android_receive_ahb_input(id, store, support, known, f)

Register ==
    /\ session.transport \in Dmabuf
    /\ \E id \in {i \in Ids : registered[i] = None}, store \in Storages,
          support \in Support, f \in MayFail(ImportStages) :
         android_dmabuf_format_allowed(id, store, support, f)

Unregister == \E id \in Ids : UnregisterDmabuf(id)

Submit ==
    /\ session.transport \in Dmabuf
    /\ \E id \in {i \in Ids : registered[i] # None}, support \in Support,
          f \in MayFail(DrawStages) :
         android_submit_dmabuf(id, support, f)

Dequeue == \E posted \in BOOLEAN, f \in MayFail({"acquire", "render", "range", "format"}) :
    android_dequeue_output(posted, f)

Release == \E output \in reader.held : android_release_output(output)

ExportPrime == \E output \in reader.held, f \in MayFail({"mapper"}) :
    android_export_decode_prime(output, f)

Flush == \E f \in MayFail({"flush", "current", "fence", "quiesce"}) : android_flush(f)

Destroy == \E f \in MayFail({"current", "fence", "quiesce"}) : android_destroy(f)

Codec == \E ride \in BOOLEAN : CodecProduces(ride)

Next ==
    \/ Create \/ QueueInput \/ ReceiveAhb \/ Register \/ Unregister \/ Submit
    \/ Dequeue \/ Release \/ ExportPrime
    \/ Flush \/ Destroy
    \/ Codec \/ ImageArrives \/ GpuFinishes \/ OtherProducer

Spec == Init /\ [][Next]_vars

-----------------------------------------------------------------------------
(* Properties                                                              *)

\* A draw the GPU has not finished still has the import it reads: no entry is
\* destroyed or replaced under it, by a lookup, a discard or a teardown, and
\* what it reads is the storage its caller named, also when a buffer id was
\* registered again for other memory (get_cached_dmabuf, get_cached_import,
\* discard_import_caches).  The one exception is a teardown that cannot make
\* its context current, or gets no answer from its fence and from glFinish: it
\* destroys the images under the draws and leaves them to the context's
\* destruction (destroy_egl, abandon_import_caches).
DrawsReadLiveImports ==
    \A i \in DOMAIN producer.gpu :
        LET d == producer.gpu[i]
        IN  /\ d.store = d.want
            /\ \/ producer.cache[d.at].store = d.store
               \/ producer.kind = "none" /\ history.abandoned

\* inflight_refs of an entry is the number of frame slots in flight on it, and
\* once the next frame slot is retired some entry can be taken for any buffer:
\* a Vulkan session never runs out of entries, however long it lives
\* (retire_frame_slot, get_cached_import).
RefsCountFrames ==
    producer.kind = "vulkan" =>
        /\ \A s \in Slots : producer.cache[s].refs =
              Cardinality({f \in Frames : producer.frames[f] = s})
        /\ \E s \in Slots : retire_frame_slot(producer, producer.next).cache[s].refs = 0

\* Frames in the encoder that were not handed back.
Undelivered ==
    Len(SelectSeq(codec.inside, LAMBDA n : n # 0))
      + Len(SelectSeq(codec.outs, LAMBDA o : o.frame # 0))

\* local_surface_pending, which bounds what a client may have in the encoder,
\* counts the frames drawn and not handed back, and those whose bytes were
\* refused.  A frame that was posted by a call that then failed is not counted,
\* which only a poisoned session or an AHardwareBuffer session can hold.  The
\* timestamps of the frames in the encoder increase, also across failures: a
\* session that may have posted a frame it did not count takes no more
\* (surface_transport_failed).
FramesAccounted ==
    /\ session.transport \in SurfaceInput =>
          /\ session.pending <= Undelivered + history.lost
          /\ ~session.failed /\ session.transport # "ahb" =>
                session.pending = Undelivered + history.lost
    /\ session.transport \in {"egl"} \cup Dmabuf =>
          LET n == history.back \o [i \in DOMAIN codec.outs |-> codec.outs[i].frame]
                     \o codec.inside
              frames == SelectSeq(n, LAMBDA x : x # 0)
          IN  \A i \in 1..(Len(frames) - 1) : frames[i] < frames[i + 1]

\* An image is handed to the client with the information of the output it was
\* rendered from, also when a flush came between the rendering and the
\* acquisition (acquire_surface_output, android_flush).  Only an image that
\* reaches the reader after the flush has emptied it is taken for a later one:
\* then the information is of a newer frame than the image, never of an older.
ImageMatchesInfo ==
    \A o \in reader.held : o.image = o.frame \/ (history.late /\ o.image < o.frame)

\* What a session took from the platform is given back by its destruction and
\* by each failed creation: the codec, the reader, the window references, the
\* producer.  The display is open while some producer uses it, and only then.
ResourcesBalanced ==
    /\ ~session.open => /\ ~codec.open /\ ~reader.open
                        /\ [producer EXCEPT !.gpu = <<>>] = NoProducer
                        /\ surface = NoSurface
    /\ session.open /\ session.transport \in SurfaceInput => surface.refs = 1
    /\ display.refs = history.others + (IF producer.kind = "egl" THEN 1 ELSE 0)
    /\ display.open <=> display.refs > 0

\* An end of stream that was queued and has not come back is on its way: in the
\* codec, in an output that is ready, or owed with an image that the reader has
\* or will have.  Only a platform failure, or bytes that an old API level cannot
\* return, lose it; in particular no empty end of stream is awaited in the image
\* reader (android_dequeue_output, acquire_surface_output).
EosOnItsWay ==
    session.eosIn /\ ~session.eosOut /\ history.faults = 0
      /\ (session.api >= 36 \/ reader.open) =>
        \/ Contains(codec.inside, 0)
        \/ \E i \in DOMAIN codec.outs : codec.outs[i].eos
        \/ /\ session.owed # None /\ session.owed.eos
           /\ Contains(reader.coming \o reader.ready, session.owed.frame)

=============================================================================
