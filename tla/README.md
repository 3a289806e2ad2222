# A TLA+ verification of LinDeX

LinDeX runs an ARM64 Debian desktop on an Android phone: a DRM lease takes the
external display from Android, a codec broker lends the phone's hardware codecs
to Debian, and a VA-API driver makes them available to players and browsers.
This directory models the parts of it in which several owners share something
(descriptors, codec buffers, GPU images, surfaces, leases) and checks with TLC,
and in part proves with TLAPS, that nothing is lost, used twice or waited for
for ever.

Run everything from this directory, for example
`tlc -config MCSessionDecode.cfg MCSessionEngine` and
`tlapm RddSocketPoolProofs.tla`.

## 1. Inventory

Paths are relative to `src/src` unless they begin with `module`.

| part | state | operations | what is hard about it |
|---|---|---|---|
| session engine (`video_bridge/src/session_engine.c`) | sessions, outstanding outputs, the pending AHB handshake, per-session dma-buf registry, ids | the request handlers, `after_reply`, create/destroy | a handler's effects continue after the reply is sent; descriptors and codec images change owner on every path, also the failing ones |
| broker loop (`broker.c`, `android/broker_main.c`) | one engine per connection, the message in hand | receive, dispatch, send, close | the send may fail after the handler moved descriptors into the reply |
| dma-buf registry (`dmabuf_ingress.c`) | registered buffers, in-flight marks, two counters | register, unregister, begin, finish, destroy | a buffer must not be closed while the encoder reads it |
| codec backend (`android/android_codec_backend.c`) | MediaCodec, image reader, output format, EOS | create, queue, dequeue, release, flush, destroy | images and output infos arrive on different paths and are paired by order |
| encode surfaces (`android/encode_surface_*.c`) | EGL/Vulkan producer, import caches, fences | render, submit, destroy | fences on every exit path |
| client library (`client.c`) | request ids, received descriptors | one function per request | a malformed reply poisons the connection |
| repack gateway (`tools/advc_repack_gateway.c`) | table of outputs and reservations, upstream connection, policy | one handler per request, worker start and end | outputs change id and owner; every GPU or broker failure must return a lease and an output |
| repack pool (`tools/turnip_repack_cache.c`, `turnip_prime_import.c`) | leases, destinations with pending fences, source cache | reserve, repack, release, discard | reuse of a destination under a reader |
| VA-API decode runtime (`vaapi_advc/advc_vaapi_decode_runtime.c`) | contexts, surfaces with leases, pts counter, one lock | create/destroy, begin/render/end, sync, query, export | surfaces outlive contexts; frames come back in any order, or not at all |
| decode EOS machine (`advc_vaapi_decode_eos.c`) | phase, deadline, counters | signal, progress | exactly one EOS is consumed, everything pending is answered |
| VA-API encode runtime (`advc_vaapi_encode_runtime.c`, `..._encode.c`, `..._encode_eos.c`) | contexts, input surfaces, coded buffers | begin/render/end, map, EOS | coded output is matched to a buffer mapped later |
| images (`advc_vaapi_image.c`) | derived images, links to surfaces | create, derive, put, get, destroy | links outlive surfaces |
| policies, bitstream builders | none | pure functions | boundaries and overflow |
| DRM lease broker and client (`broker/`) | leases, lessee descriptors | grant, revoke, watch | a client that dies holds the display |
| launchers, handoff (`launcher/`) | master descriptor, mode state to restore | acquire, hand over, restore | a crash between two steps leaves the screen dark |
| DRM bridge, identity layers (`bridge/`) | fake property blobs, framebuffers | ioctl rewriting | cleanup of framebuffers |
| seat shim (`seat/drm_lease_seat.c`) | table of 16 duplicated descriptors | open, close device | slot exhaustion |
| Firefox RDD socket pool (`firefox_advc_rdd_socket/`) | 8 preconnected sockets | connect hook, recycle, abandon | sockets shared by threads and across a sandbox |
| USB input grab (`input/`) | grabbed devices | hotplug, grab, release | release on every exit |
| module services (`module/bin`, `module/service.sh`) | pid and lock files, session state | start, stop, recover | crashes between file operations |

How they interact: an application calls the VA-API driver, whose runtime keeps
one connection per context. The connection leads to the repack gateway, whose
worker owns one connection to the broker, where one engine serves it and calls
the codec backend. An output therefore exists four times (the codec's image, the
engine's outstanding entry, the gateway's table entry, the surface's lease), and
each release travels the same chain back.

The properties that matter: every descriptor has one owner until it is closed
once; every image and lease is returned once; an id names one thing for as long
as anybody holds it; a picture is not overwritten under its reader; a surface
that waits is waiting for something; a stream that is ended comes to an end; and
what one client, context or session does leaves the others alone.

## 2. What is done

Every component of section 3 is modelled and checked with TLC. `SessionEngine`
(with its refinement of `DmabufLending`), `DecodeRuntime`, `DecodeStaging`,
`EncodeRuntime`, `RddSocketPool`, `RepackGateway`, `RepackDevice` and
`LeaseBroker` with `DrmHandoff` are also proved: all their safety properties, for
every value of the constants. `CodecBackend` and `SurfaceProducer` are checked
only.

## 3. Modules

### SessionEngine

One connection's engine together with the message loop that drives it. The
process's open descriptors are explicit: every descriptor the kernel could hand
out is in a table with its holders (request, reply, an output, a registration, a
fence), and `dup`, `close` and passing a descriptor over the socket are
operators on that table. The codec backend appears as the books it keeps: which
images it has lent, which sessions it runs. Each request handler is one action,
named after the C function, with its early returns as guards and its failing
calls as alternatives; `after_reply` is a separate action since the reply is on
its way in between, and a failed send is another. Payload contents, formats and
capabilities are left out; a malformed request is a request that is refused.

A dma-buf whose submission fails after the registry has marked it
(`handle_queue_dmabuf_fails`) has its mark taken back and its fence closed before
the reply goes out.

`DmabufLending` says what the dma-buf input path promises its exporters, for all
sessions of a connection at once: in each a buffer is registered, lent to the
encoder, answered, returned, and the end of one session touches no other's.
`SessionEngine` instances it over all its slots under a refinement mapping.

### DecodeRuntime

The VA-API decode runtime: contexts, surfaces and pictures, over brokers that
answer in any order, lose frames or die. Any context may begin a picture on any
surface, also on one on which another context has one: the code remembers no
owner until the picture is queued. `shared` is a history variable of the contexts
that did so, until they are destroyed. A function is split where it releases
the runtime's lock: `begin_picture` into waiting, the synchronised surface and
its resumption, `end_picture` into queueing, draining for room and finishing.
Waiting belongs to a thread (`waiting`), so several may wait for one context or
one surface, and the context is looked up again afterwards, as in the code.
`drain_one_output`, `convert_output` and the phases of
`advc_vaapi_decode_eos_state_progress` are operators shared by the actions that
call them. What the decoder holds (`decoder`, `dropped`, `ended`) and what the
broker has lent (`leases`) are the environment.

`DecodeStaging` extends it with what a picture is made of. Each of its actions is
one of `DecodeRuntime` with its effect on the staging, or `render_picture`, which
adds a buffer. `reset_staging` goes with every change of the target, as in the
code. A parameter set is a pair of an SPS and a PPS, chosen when the picture
ends: H.264 may change its PPS at any picture and its SPS at an IDR, HEVC either
at an IRAP, VP9 has them in the frame. `tuned` is what the decoder took last. How
many slices are staged is reduced to whether the last group has its data.

### RepackGateway

One worker of the gateway and its pool. The worker is sequential, so a handler
is an action, and the behaviour is in what may fail inside it: the connection,
the broker's answer, the GPU, the table, the pool. A handler that returns -1
ends the worker and the next state is a new client's worker. Lease tokens and
reservation ids are bounded and wrap as the 64-bit ones would. A destination
records whether a reader's fence is pending and whether one was dropped. A
reservation that a dequeue has taken and cannot fill is given up inside that
dequeue: its lease is returned and its entry erased before the reply, although
the client still knows the id. A later release of that id finds no entry, is
forwarded like any unknown id, and is refused by the broker (`told` has the ids
the client was given and has not seen taken back). `RESERVE_LINEAR` is served in
every policy, as in the code: in the forced compressed policy only the feature
bit is withheld.

### RepackDevice

The process around the gateway's workers: the accept loop with its client limit,
the Vulkan device the workers' pools share, each pool's cache of imported source
images and its destinations, and the queue of submitted copies, which the GPU
works off beside everything else. A call holds `repack_shared.mutex` to its end
and is one action; inside it is a function of the locked state and of the stage
that fails. Leases are a flag here, their tokens and fences being
`RepackGateway`'s. Inode numbers, which key the source cache, are given to new
buffers once nobody holds the old one. On a signal the process is replaced.

### EncodeRuntime

The VA-API encode runtime with the broker client beneath it. Every entry point
holds the runtime's mutex until it returns, so an entry point is an action;
one that waits for the encoder is a loop whose turns are steps, and `call` is
the loop that holds the mutex. A turn of `sync_surface_locked` receives one
output and completes the oldest pending surface, times out, or fails the
context; the drain of `advc_vaapi_encode_eos_finish` and of
`drain_frame_session_locked` uses the same turn. The encoder is the queue of
frames it holds (`broker`): it hands them back in order, as the encode contract
says, after any delay. A request that is never answered leaves its caller in a
blocking receive with the mutex (`NeverAnswered`): `stuck` is set and nothing runs
any more. `Faults` names the calls that may fail in a run. A
coded buffer records which frame its bytes encode and which frame's timestamp
was put on them; `lost` remembers that a failure parted a frame of the session
from its picture. Configurations, parameter buffers, their contents and the
segments of an output are not modelled; `frames` bounds the frames submitted.

### RddSocketPool

The sockets that the Firefox adapter connects before the sandbox closes, and
the process's descriptor table. `connect()` takes a socket under the lock, moves
it to the caller's number outside it and records the user under it again. The
unlocked part is two steps, `dup3` onto the caller's number (`connect_dup`) and the
close of the prepared one (`connect_close`), between which the connection has two
numbers; other threads and the rest of the process run between all of them. The
process may close or open any number that is not the pool's.

### SurfaceProducer and CodecBackend

`CodecBackend` is one session of the MediaCodec backend: the seven kinds of
session the code can create, by direction, transport and producer, with every
operation of the backend's table. The engine calls it from one thread, so an
operation is an action. The codec, the image reader and the GPU are external and
act on their own: the codec turns what is inside it into output buffers in
order, rendered buffers arrive at the reader later, draws finish in submission
order. A flush empties the reader of the images that have arrived; any number of
those still on their way arrive after it. `SurfaceProducer` is what an encoder
session draws with: the EGL producer with a fence per cache entry, and the
Vulkan producer with counted references and a ring of frame slots. It is a
module of operators, each named after its C function, on the producer's record.
Which storage a draw reads and which its caller named are both recorded, so that
a stale import shows. A teardown whose context cannot be made current, or whose
fence and `glFinish` do not answer, destroys the images under unfinished draws:
`history.abandoned`.

### DrmHandoff and LeaseBroker

`DrmHandoff` has the three launchers that take a display from Android:
`active_drm_handoff`, `drm_handoff` and `create_drm_lease`, with the seat shim
in the program they start. `LeaseBroker` extends it with the broker and its
client and closes the specification. A launcher is a program counter over the
steps of its `main`. The choice of the atomic plane (`auto_select_atomic_plane`)
is the set of what the code may end with: the planes named on the command line
when there are several, else the hinted plane if it is known, idle and passes
the test commit, else any idle plane that does. Each wait is a loop whose polls
are steps, because cable, connector, Android's composer, the child and signals
move between them. The counts of samples and polls are constants with the code's
values in comments. Each cleanup path is modelled as it is written, flag by flag
(`run.disabled`, `run.found`, `run.owner`...). A kernel lease has the set of its
holders, so that a descendant which inherited the descriptor keeps it alive.

## 4. Runs

| run | module, cfg | shows |
|---|---|---|
| `session_decode` | `MCSessionEngine`, `MCSessionDecode.cfg` | byte and AHardwareBuffer decode: one holder per descriptor (`DescriptorsOwned`), one record per lent image (`ImagesOwned`), no double close or return (`NoMisuse`), an id names one session or output for good, over wrap-around and stale use (`IdsNameOneThing`), a native buffer is sent once (`NativeBufferSentOnce`) |
| `session_encode` | `MCSessionEncode.cfg` | dma-buf and Surface encode: in-flight buffers stay registered until completed and the counters agree (`InflightAwaitsCompletion`), destruction leaves nothing behind (`NothingLeftBehind`), the registry implements `DmabufLending` (`ImplementsLending`; one session here, the theorem has any number), and the two-message `QUEUE_AHB` handshake ends (`HandshakeEnds`) |
| `decode_contexts` | `MCDecodeRuntime`, `MCDecodeContexts.cfg` | two contexts with equal session ids and reserved destinations, which may use either surface, also together, and a thread that waits in `vaBeginPicture`: no lease of a context that shares no surface is lost (`NoLeaseLost`); a ready surface's picture is held by no other, and is still lent to it if its context does not share (`PictureHeld`); a pending surface is still awaited and one EOS is consumed (`PendingAwaited`), nothing is queued after it (`NothingAfterEos`) |
| `decode_window` | `MCDecodeStaging`, `MCDecodeWindow.cfg` | one context of any codec, two surfaces, an output window of one: the decoder takes every unit under its own parameter sets although either sending may fail (`UnitMeetsItsConfig`), and a stream that was ended completes or fails (`EosDrains`) |
| `gateway` | `MCRepackGateway`, `MCRepackGateway.cfg` | two sessions that share table and pool, every policy, ids and tokens wrap, reservations are returned unfilled: no leaked destination (`LeasesHeld`), no output the client cannot return (`NothingStuckUpstream`), everything given resolves to one thing on the one connection it came from (`GivenResolves`) |
| `gateway_lost_fence` | `MCGatewayFence.cfg` | violated: see findings |
| `repack_device` | `MCRepackDevice`, `MCRepackDevice.cfg` | two workers on one device: a copy reads the buffer that was sent (`CopiesWhatWasSent`), its destination stays until it is finished (`CopiesKeepDestination`), the device is there exactly while a pool uses it (`DeviceSpansPools`) |
| `rdd_pool` | `MCRddSocketPool`, `MCRddSocketPool.cfg` | a pooled connection has one user at a time and is claimed by one slot (`OneUser`), and the adapter never closes a number that has become somebody else's (`NothingStrayClosed`) |
| `encode_runtime` | `MCEncodeRuntime`, `MCEncodeRuntime.cfg` | one session for the whole stream or one for each frame, every failure and polling clients: the pending count agrees with the surfaces (`PendingCounted`), buffers and surfaces wait for each other (`BufferAwaitsItsSurface`), registrations belong to the open session of the owner (`RegistrationLive`), a surface is rewritten only after its release fence (`ReleasedBeforeReuse`), outputs carry their own frame's timestamp while nothing is lost (`OutputsInOrder`) |
| `encode_shared_surface` | `MCEncodeShared.cfg` | two contexts that begin pictures on one surface and close in any order: `RegistrationLive`, and every call that waits returns unless a request is never answered (`EveryCallReturns`) |
| `codec_backend` | `MCCodecBackend`, `MCCodecBackend.cfg` | a session of each kind with one platform failure at any of 23 stages: a draw reads a live import of what its caller named, but for an abandoned teardown (`DrawsReadLiveImports`), a cache entry can always be found (`RefsCountFrames`), the frames in the encoder are counted and in order (`FramesAccounted`), an image goes out with its own information over flushes, or, if it was late for one, with a newer frame's and never an older's (`ImageMatchesInfo`), nothing acquired is left after creation failed or the session ended (`ResourcesBalanced`), a queued end of stream is still on its way (`EosOnItsWay`) |
| `drm_lease` | `MCLeaseBroker`, `MCDrmLease.cfg` | two launches of any of the four programs with two events of any kind among failing calls, signals and cable changes: Android is off the CRTC while it is leased (`QuietWhileLeased`), the lease ends with the handoff (`LeaseEndsWithHandoff`), what was changed is put back (`AndroidPutBack`), an unplug ends the lease under a child that ignores SIGTERM (`UnplugEndsLease`) |

A type invariant is stated for `SessionEngine`, where it is proved for all
values of the constants; elsewhere the invariants above bind the records.

### Bounds

Two sessions, two outputs, two surfaces or two slots are enough for a step on
one to disturb another; one more would repeat a role already played. Id spaces
are one or two larger than the number of things alive, so that they wrap while
some are in use. `OutputIdBound`, `MaxPts` and `MaxId` bound how many frames a
behaviour has: two let the second arrive before, after or instead of the first,
three let a slot be used twice after a loss. `session_encode` has one session
and three buffer ids for two registrations because the registry is per session.
`Window` is 1 in
`decode_window`, where a ready surface fills it while the other is pending.
Symmetry is used for descriptors, images and sessions only where no definition
orders them, and never with a liveness property.

The encode runs have two surfaces and two buffers for one context, or one of
each for two contexts. Two frames reach every pairing of failure and success.
`FrameModes` holds the values of the environment variable a behaviour may start
with. Deadlock is not checked in the encode runs, where a destroyed runtime
stops, nor in `drm_lease`, where the last launcher ends.

`decode_window` has three parameter sets, so that a picture can differ from the
last in its PPS alone or in its SPS, and three units: one that configures, one
whose update fails, one that follows. `Inband` is TRUE there; without it H.264
sends its sets apart, as HEVC does in the same run.

`codec_backend` has one more buffer id than cache entries, so that entries are
replaced, two storages, of which one is NV12, and three frames, which go once
round a ring of two frame slots and reach the input limit of two. Another
session holds the shared EGL display on and off, except beside a Vulkan session,
which does not use it. `Apis` has an API level on each side of the one that
changes behaviour. In `repack_device` one inode number comes back, one of the
two sizes is a multiple of `Align`, and three requests with two slots fill a
pool. `drm_lease` shortens every wait to a few polls (one step where the code
ignores its outcome) but keeps their order (`PollAssumption`): settling, steady
samples, giving up. Two launches let one find what the other left; the failures,
signals and cable changes of a behaviour share one bound (`MaxEvents`), so that
any two of them can meet. Its `Faults` leave out the calls whose failure ends a
launcher the way another's does (resources, object choice, status path,
identity, the send to the client), the seat shim's identity test, which changes
nothing, and a failed mount, which no property is about. One failure
(`MaxFaults`) per behaviour is the bound of the other two: their recovery paths
do not retry.

`Async` in `DecodeRuntime` is the set of contexts whose connection offers
reserved destinations, which each context negotiates for itself. `GiveBack` in
`RepackGateway` says whether clients release reservations that were never
filled. It is TRUE in both runs; with FALSE in `MCGatewayFence.cfg` TLC finds no
torn picture, so within these bounds such a release is the only way to one.

### Fairness

`session_encode` assumes weak fairness of `Answer` (the loop sends the reply
it has prepared, and the native-handle receive has a two-second timeout) and of
`advc_session_engine_destroy` (a finished loop destroys its engine).
`decode_window` assumes strong fairness of the broker's answer to a drain
request, because the answer is enabled only while the client asks, and weak
fairness of `EndPictureMoves`: `vaEndPicture` counts its rounds and gives up. Its
property is about clients that make room in the output window.
`encode_shared_surface` assumes weak fairness of `~stuck /\ Turn`, the steps of a
call that holds the mutex: its thread is scheduled and its waits for the encoder
have budgets. It does not assume that the broker answers: the client's socket
blocks without a timeout, a request may stay unanswered for ever
(`NeverAnswered`), and `EveryCallReturns` says so.
`drm_lease` assumes weak fairness of the launcher's steps, since its polls sleep
and wake, and of the exit of a killed child, since SIGKILL ends a process; not
that a child reacts to SIGTERM, nor that the broker's client ever comes. No run
assumes that a client calls, and none assumes fairness of a failure alone.

## 5. Findings

* `gateway_lost_fence`: `advc_turnip_linear_repack_pool_release`
  (`video_bridge/tools/turnip_prime_import.c:1060`) replaces a fence that is
  still pending. A picture released with a fence, a reservation of the same
  destination and its release without one leave nothing for the next copy to
  wait for.

What else came up while modelling is in the models as the code has it, and the
properties above say what holds in spite of it:

* `private_eos_mark_remaining_pending_failed`
  (`vaapi_advc/advc_vaapi_decode_runtime.c:1140`) selects surfaces by session id
  and not by context. Ids are per connection, so the end of one context's stream
  can put the pending surfaces of another into error.
* A configuration is remembered once it is queued (`:2407`). If its IDR or IRAP
  picture then fails, a later picture of the same configuration is accepted
  without one.
* `sync_surface_locked` (`vaapi_advc/advc_vaapi_encode_runtime.c:469`) drops the
  output it received when the release fence is late, and leaves the surface
  pending: a second sync gives it the next frame's bytes. `OutputsInOrder`
  excepts it (`lost`).
* `lindex_firefox_rdd_recycle_broker_socket`
  (`firefox_advc_rdd_socket/firefox_advc_rdd_socket.c:504`) stops at the first
  slot that remembers the number, although a later slot may be the one that gave
  the connection out.
* A source image is destroyed while a submitted copy may still read it
  (`video_bridge/tools/turnip_prime_import.c:1605`); only destinations are waited
  for.
* The lease broker unlinks its path on every way out
  (`broker/drm_lease_broker.c:384`), also where another broker has bound it since.
* `vaBeginPicture` and `vaEndPicture` do not look whether another context has a
  picture on the surface (`vaapi_advc/advc_vaapi_decode_runtime.c:1891`). The
  second `vaEndPicture` forgets the lease of the first, which stays out until its
  context is destroyed. `NoLeaseLost` and `PictureHeld` are therefore about
  contexts that do not share, and show that those lose nothing to the others.
* A request of the encode runtime that the broker never answers keeps the
  runtime's mutex (`video_bridge/src/client.c`, a blocking socket).
* An image that reaches the reader after a flush emptied it is handed out with the
  information of the next output (`video_bridge/src/android/android_codec_backend.c:866`).
* With `--keep-display-disabled` on an idle path `active_drm_handoff` never sets
  `connector_touched`, so a forced connector is not cleared (`AndroidPutBack`
  excepts it).
* `RESERVE_LINEAR` is served in the forced compressed policy too.

## 6. Proofs

A theorem holds for every value of the constants that satisfies the assumptions
of its component's module, all of which TLC evaluates in the runs. They say that
tables have positive size, that sentinels are not among the things they stand
for, that enumerations are among the code's, and:

* `SizeAssumption` (`SessionEngine`): there are more session ids than slots.
* `RuntimeAssumption` (`DecodeRuntime`): session ids are positive, and a connection
  may have an output out.
* `StagingAssumption` (`DecodeStaging`): the codecs are those of the code.
* `SlotAssumption` (`EncodeRuntime`): the surface table is finite.
* `PoolAssumption` (`RddSocketPool`): there are more descriptors than slots.
* `GatewayAssumption` (`RepackGateway`): there are more tokens and more
  reservation ids than slots, so a search for a free one, which wraps, ends.
* `DeviceAssumption` (`RepackDevice`): there are finitely many workers.
* `PollAssumption`, `PlaneAssumption`, `ProgramAssumption` (`DrmHandoff`): a wait
  for steady samples fits its budget; the hinted plane exists; no program but the
  four is launched.

Bounds such as `MaxPts` or `MaxFrames` are arbitrary, so the theorems hold for
behaviours of every length.

| module | proves |
|---|---|
| `SessionEngineProofs` | `TypeCorrect`, `DescriptorsCorrect`, `ImagesCorrect`, `MisuseFree`, `CleanTeardown`, `IdsCorrect`, `SentOnceCorrect`, `InflightCorrect`, and the refinement `LendingCorrect` |
| `RddSocketPoolProofs` | `OneUserCorrect`, `StrayCloseFree` |
| `DecodeRuntimeProofs` | `NoLeaseLostCorrect`, `PictureHeldCorrect`, `PendingAwaitedCorrect`, the action property `NothingAfterEosCorrect`; `StagingCorrect` (staging implements the runtime) and the action property `UnitMeetsItsConfigCorrect` |
| `EncodeRuntimeProofs` | `PendingCountedCorrect`, `BufferAwaitsCorrect`, `RegistrationCorrect`, `ReleasedCorrect`, the action property `InOrderCorrect` |
| `RepackGatewayProofs` | `LeasesHeldCorrect`, `NothingStuckUpstreamCorrect`, `GivenResolvesCorrect` |
| `RepackDeviceProofs` | `CopiesWhatWasSentCorrect`, `DeviceSpansPoolsCorrect`, `CopiesKeepDestinationCorrect` |
| `LeaseBrokerProofs` | `QuietCorrect`, `LeaseEndCorrect`, `PutBackCorrect` |

Each module has one inductive invariant, stated at its top; TLC checked it on the
component's runs before it was proved. A lemma per action (`...Keeps`) shows that
the action keeps it. The theorems are its consequences.

### The session engine

None of the four ownership theorems is inductive alone. `Inv` is `TypeOK`, the
two ownership invariants, `NoMisuse` and `Shape`, which says which holders can
hold anything at all: the messages' only while a reply is under way
(`MessageShape`), a handshake's fences only in their state (`HandshakeShape`), a
registry's descriptors only for its entries (`RegistryShape`), tokens only in
outputs in use (`OutputShape`), and an unused slot's nothing (`UnusedShape`).
Without it a handler that stores a descriptor could overwrite one, and the sweep
at the end could miss one. The lemmas `PutOwned`, `MoveOwned` and `SweptOwned`
say what adding, moving and removing holders does to the table as a whole;
`CloseSessionsOwned` and `CloseMessagesOwned` do it for the two sweeps the code
has; each handler is then a few of them. `CleanTeardown` follows from `Inv`: in a
closed engine no slot is used, so by `Shape` no holder holds anything.

`HandedOut` adds the ids, the sends and the registry. `SendsMarked` makes
`NativeBufferSentOnce` inductive: the count of sends is the `transferred` mark,
which `after_reply` sets. The registry's argument is `RegistryOk`: an entry is in
flight exactly when one completion slot names it, and both counters are
cardinalities. The refinement follows, since each slot's registered and lent
buffers (`Known`, `Away`) are then those of its registry (`AwayInFlight`), and
every step registers, lends, returns or drops one buffer of one slot, ends one
session or all of them, or changes nothing in any slot.

### The socket pool

Slot s only ever deals with connection s, whatever number it goes by
(`PoolOwn`, `IdentOwn`), a connection is open under one number (`OneNumber`) but
for the prepared one between `dup3` and its close (`Closing`), and a thread inside
`connect()` has its slot, its caller's number and, until its close, the prepared
number to itself (`ThreadOwn`, `ThreadsApart`). That is why the unlocked stretches
of `connect()` do no harm.

### The decode runtime

The code matches an output to a surface by time stamp and session id and never
by context, although ids are per connection. It is right because time stamps are
given out once for the whole runtime: no two decoders know the same one
(`PtsGiven`), and no two surfaces that wait for or hold something share one
(`Apart`). So a unit is awaited by one surface, of its own context, and what that
surface holds is nothing, its reservation, or its own output, which its
connection still has out (`EntriesOk`). All this also holds where contexts share a
surface; what fails there is that the surface of an active picture holds nothing
(`TargetOk`) and that what a surface holds is its own unit's (`Clean`), which are
claimed of the others only. An entry of a context that does not share is never
touched by one that does, because a target's surface belongs to its context or to
a sharing one. `TargetShape` and `EndingShape` say what
the picture under way may hold between the locked parts of `vaEndPicture`,
`EosShape` what a completed stream has left, `FreeSlots` that a slot without a
session has nothing.

`Agreed` carries `UnitMeetsItsConfig`: what the runtime remembers as sent is what
the decoder took, and once the parameter sets are dealt with a unit without its
own is under those.

### The encode runtime

The code completes the oldest pending surface with whatever output comes next.
`InOrder` says why these belong together: the frames of an open session, unless
one was lost, are those of the context's pending pictures, oldest first. It needs
frame numbers that are given out once and in order (`FramesGiven`), that a
pending surface and its buffer have the same owner and that a context's next
picture is not on a surface of its own that is pending (`PendingShape`), and that
a context which is being closed has nothing pending (`CallShape`). A turn of
`sync_surface_locked` then takes the head of the queue and the least of the
pending frames, which are the same (`HeadIs`), and leaves a match (`TailMatches`).
`lost` is set wherever a failure takes one and not the other, and `DrainLast` can
only meet a leftover frame in such a session.

### The repack gateway

`LeasesOk` pairs the leases of the destination pool with the table's released
entries, one to one; `IdsOk` pairs the ids the client was given with the entries
and with what the broker has out. Ids of reservations are above the broker's, so
the two never meet. `allocate_token` and `allocate_reservation_id` search a space
that wraps. Both are modelled by the first free number on the way round, and that
there is one is a counting argument: fewer numbers are in use than there are.

### The repack device

A call of the pool is a function of the state it locks, so what it keeps is said
of such a state (`Good`, `Waits`), and shown for each function the call is made
of, in the order they are called. A cached import is the buffer its key names and
that buffer still has the inode number (`CacheOk`): the import holds the dma-buf,
so the number cannot be given to another. That is why a key of inode and size is
enough for `CopiesWhatWasSent`. `DeviceOk` makes the attach count the number of
attached pools. `Waits` says that a copy under way marks its destination, and that
a destination has one copy at most; only a hung GPU and a wait that timed out
break it, which is the exception `CopiesKeepDestination` makes.

### The display

`ProgramStages` has the stages each launcher goes through. `OwnerShape` and
`ChildShape` tie the lease's holders to the stage: nobody but the launcher has it
before the child is started, and after the teardown only a descendant that
started before the descriptor was sealed. `DisabledShape` and `ForceShape` say at
which stages Android's display is off and the connector forced, and which
recorded failure, option or unplug explains one that stays so; the properties are
these at the last stages.

### What stays with TLC

* Liveness (`HandshakeEnds`, `EosDrains`, `EveryCallReturns`, `UnplugEndsLease`),
  which is out of the prover's reach.
* `CodecBackend` and `SurfaceProducer`: what they promise relates the order of
  several queues (inputs, outputs, rendered images, draws, fences), over seven
  kinds of session. It is checked on the instance of `codec_backend` only.
* `NoTornPicture`, which the code does not have (section 5).

## 7. Not modelled

`PROJECT.json` lists every part with its status. Outside are:

* Contents: bitstreams, pixel formats, wire layout, ioctl arguments. The
  builders and parsers of H.264, HEVC, VP9 and AV1 and the policies have no
  state; what they produce or decide is a choice in the modules that call them.
* The client library and the protocol codec: a request and its reply on one
  socket. The answers it may give are choices of its callers' models.
* Images (`advc_vaapi_image.c`): copies and maps of pixels. Only the wait for a
  linked surface is modelled, in `EncodeRuntime`.
* In the decode runtime: the table of VA buffers, whose contents are copied when
  they are rendered, configurations, queries and the export of a ready surface.
* In the repack pool: the import probe and the one-shot repack, which keep
  nothing.
* The DRM bridge beyond the lease descriptor, the identity layers, the input
  grab (its grabs end with the process), probes and smoke tools.
* The module's shell services. Their steps are files, processes and mounts of the
  whole system, which the scripts' text does not make precise enough to model.
