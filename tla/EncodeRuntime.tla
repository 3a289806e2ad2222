---------------------------- MODULE EncodeRuntime ----------------------------
(***************************************************************************)
(* The VA-API encode runtime, src/src/vaapi_advc/advc_vaapi_encode_runtime *)
(* .c, with the encoder broker client of advc_vaapi_encode.c and the       *)
(* end-of-stream machine of advc_vaapi_encode_eos.c.                       *)
(*                                                                         *)
(* Contexts, surfaces and coded buffers are slots of fixed tables.  A      *)
(* picture is begun, rendered and ended; ending it submits the surface to  *)
(* the broker and leaves the surface pending.  The coded bytes come back   *)
(* later, in submission order, and a sync hands each one to the oldest     *)
(* pending surface of the context.                                         *)
(*                                                                         *)
(* Every entry point holds runtime->mutex from its first look at the       *)
(* tables to its return.  A call that waits for the encoder is therefore   *)
(* several steps, one per turn of its loop, during which no other entry    *)
(* point runs: call is the entry point that holds the mutex.               *)
(***************************************************************************)
EXTENDS Integers, Sequences, FiniteSets

CONSTANTS
    Contexts, Surfaces, Buffers,    \* the slots of the three tables
    None,                           \* VA_INVALID_ID, VA_INVALID_SURFACE, owner 0
    FrameModes,                     \* values of frame_session a run starts with
    MaxInflight,                    \* ADVC_MAX_INFLIGHT_DMABUFS
    Routes,                         \* ways a surface's layout reaches the encoder
    Rates,                          \* bitrate and frame rate of a sequence
    Faults,                         \* the failures the broker may answer with
    Polls,                          \* whether clients sync with timeout 0
    MaxFrames                       \* bound: frames that enter the encoder

ASSUME SlotAssumption ==
    /\ None \notin Contexts \cup Surfaces \cup Buffers
    /\ IsFiniteSet(Surfaces)
    /\ FrameModes \subseteq BOOLEAN
    /\ MaxInflight \in Nat \ {0}
    /\ Routes \subseteq {"linear", "direct", "repack"}
    /\ Polls \subseteq BOOLEAN
    /\ MaxFrames \in Nat

VARIABLES
    contexts,   \* runtime->contexts
    surfaces,   \* runtime->surfaces, with the surface link of each
    buffers,    \* runtime->buffers of type VAEncCodedBufferType
    broker,     \* the encoder session behind each context's socket
    call,       \* the entry point that holds runtime->mutex in a loop
    frames,     \* frames that entered an encoder so far, numbering them
    phase,      \* "up", "closing" or "gone": the life of the runtime
    frame_session, \* ADVC_VAAPI_ENCODE_FRAME_SESSION: a session for each frame
    stuck       \* a request to a broker was never answered: its caller keeps
                \* runtime->mutex for good

setup == <<phase, frame_session, stuck>>
vars == <<contexts, surfaces, buffers, broker, call, frames, setup>>

-----------------------------------------------------------------------------
(* The tables                                                              *)

FreeContext == [used |-> FALSE, active |-> FALSE, target |-> None,
                coded |-> None, rate |-> None, pending |-> 0, open |-> FALSE,
                framed |-> FALSE, opened |-> None]

FreeSurface == [used |-> FALSE, state |-> "idle", owner |-> None,
                coded |-> None, frame |-> 0, registered |-> FALSE,
                fence |-> FALSE, exported |-> FALSE, route |-> "linear"]

\* The coded output a buffer holds: the frame its bytes encode, and the frame
\* whose timestamp was put on it.
NoOutput == [frame |-> 0, stamp |-> 0]

FreeBuffer == [used |-> FALSE, mapped |-> FALSE, owner |-> None,
               pending |-> None, output |-> NoOutput]

\* An encoder session: the frames not yet handed back, whether the end of the
\* stream was signalled (eos) and handed back (ended, which is the context's
\* broker_eos_received), and the surfaces registered.  History: lost says that
\* a frame of the session and its picture were parted by a failure.
NewSession == [queue |-> <<>>, eos |-> FALSE, ended |-> FALSE, regs |-> {},
               lost |-> FALSE]

NoCall == [op |-> "none", context |-> None, surface |-> None,
           buffer |-> None, export |-> FALSE, poll |-> FALSE]

Idle == phase = "up" /\ call = NoCall

Init ==
    /\ contexts = [c \in Contexts |-> FreeContext]
    /\ surfaces = [s \in Surfaces |-> FreeSurface]
    /\ buffers = [b \in Buffers |-> FreeBuffer]
    /\ broker = [c \in Contexts |-> NewSession]
    /\ call = NoCall
    /\ frames = 0
    /\ phase = "up"
    /\ frame_session \in FrameModes
    /\ stuck = FALSE

Owned(c) == {s \in Surfaces : surfaces[s].used /\ surfaces[s].owner = c}

Pending(c) == {s \in Owned(c) : surfaces[s].state = "pending"}

\* Mutant: the newest pending surface is taken.
find_oldest_pending_surface_newest(c) ==
    CHOOSE s \in Pending(c) :
        \A t \in Pending(c) : surfaces[s].frame >= surfaces[t].frame

\* find_oldest_pending_surface.
find_oldest_pending_surface(c) ==
    CHOOSE s \in Pending(c) :
        \A t \in Pending(c) : surfaces[s].frame <= surfaces[t].frame

-----------------------------------------------------------------------------
(* Slots that come and go                                                  *)

create_context(c) ==
    /\ Idle
    /\ ~contexts[c].used
    /\ contexts' = [contexts EXCEPT ![c] = [FreeContext EXCEPT !.used = TRUE]]
    /\ UNCHANGED <<surfaces, buffers, broker, call, frames, setup>>

create_surfaces(s) ==
    /\ Idle
    /\ ~surfaces[s].used
    /\ \E r \in Routes :
         surfaces' = [surfaces EXCEPT
                        ![s] = [FreeSurface EXCEPT !.used = TRUE, !.route = r]]
    /\ UNCHANGED <<contexts, buffers, broker, call, frames, setup>>

destroy_surfaces(s) ==
    /\ Idle
    /\ surfaces[s].used
    /\ surfaces[s].state # "pending"
    /\ ~surfaces[s].registered
    /\ surfaces' = [surfaces EXCEPT ![s] = FreeSurface]
    /\ UNCHANGED <<contexts, buffers, broker, call, frames, setup>>

create_buffer(b, c) ==
    /\ Idle
    /\ ~buffers[b].used
    /\ contexts[c].used
    /\ buffers' = [buffers EXCEPT
                     ![b] = [FreeBuffer EXCEPT !.used = TRUE, !.owner = c]]
    /\ UNCHANGED <<contexts, surfaces, broker, call, frames, setup>>

destroy_buffer(b) ==
    /\ Idle
    /\ buffers[b].used
    /\ ~buffers[b].mapped
    /\ buffers[b].pending = None
    /\ buffers' = [buffers EXCEPT ![b] = FreeBuffer]
    /\ UNCHANGED <<contexts, surfaces, broker, call, frames, setup>>

-----------------------------------------------------------------------------
(* A picture                                                               *)

begin_picture(c, s) ==
    /\ Idle
    /\ contexts[c].used /\ surfaces[s].used
    /\ surfaces[s].state \notin {"error", "pending"}
    /\ ~contexts[c].active
    /\ frame_session => contexts[c].pending = 0
    /\ contexts[c].pending < MaxInflight
    /\ surfaces[s].owner \in {None, c}
    /\ contexts' = [contexts EXCEPT ![c].active = TRUE, ![c].target = s,
                                    ![c].coded = None]
    /\ surfaces' = [surfaces EXCEPT ![s].state = "idle", ![s].coded = None]
    /\ UNCHANGED <<buffers, broker, call, frames, setup>>

\* The sequence, picture and slice parameters of one picture.  The coded
\* buffer is only a number in the picture parameters until the picture ends.
render_picture(c, b, r) ==
    /\ Idle
    /\ contexts[c].used /\ contexts[c].active
    /\ contexts' = [contexts EXCEPT ![c].coded = b, ![c].rate = r]
    /\ UNCHANGED <<surfaces, buffers, broker, call, frames, setup>>

\* A write export arms the implicit fence that end_picture will snapshot.
export_surface(s) ==
    /\ Idle
    /\ surfaces[s].used
    /\ surfaces[s].state \in {"idle", "ready"}
    /\ surfaces' = [surfaces EXCEPT ![s].exported = TRUE]
    /\ UNCHANGED <<contexts, buffers, broker, call, frames, setup>>

Done(context) == [context EXCEPT !.active = FALSE, !.target = None]

\* The context and its session once end_picture has an open broker.
Opened(c) == IF contexts[c].open THEN contexts[c]
             ELSE [contexts[c] EXCEPT !.open = TRUE, !.framed = frame_session,
                                      !.opened = contexts[c].rate]

Session(c) == IF contexts[c].open THEN broker[c] ELSE NewSession

\* The coded buffer a picture names can take its output.
CodedUsable(c) ==
    LET b == contexts[c].coded
    IN  /\ b # None
        /\ buffers[b].used
        /\ buffers[b].owner = c
        /\ ~buffers[b].mapped
        /\ buffers[b].pending = None

\* end_picture got as far as an open broker whose rate is the picture's.
Submittable(c) ==
    /\ Idle
    /\ contexts[c].used /\ contexts[c].active
    /\ surfaces[contexts[c].target].used
    /\ CodedUsable(c)
    /\ contexts[c].open => contexts[c].opened = contexts[c].rate

\* The picture is dropped before anything reaches the broker.
EndPictureRefused(c) ==
    /\ Idle
    /\ contexts[c].used /\ contexts[c].active
    /\ Submittable(c) => ~contexts[c].open /\ "open" \in Faults
    /\ contexts' = [contexts EXCEPT ![c] = Done(contexts[c])]
    /\ UNCHANGED <<surfaces, buffers, broker, call, frames, setup>>

\* Another context took the surface between begin_picture and end_picture.
EndPictureNotOwned(c) ==
    /\ Submittable(c)
    /\ surfaces[contexts[c].target].owner \notin {None, c}
    /\ contexts' = [contexts EXCEPT ![c] = Done(Opened(c))]
    /\ broker' = [broker EXCEPT ![c] = Session(c)]
    /\ UNCHANGED <<surfaces, buffers, call, frames, setup>>

\* prepare_encode_input: a repack may land in another destination, which is
\* registered anew once the old one is unregistered.
prepare_encode_input(surface) ==
    {surface} \cup
    IF surface.route # "repack" THEN {}
    ELSE {[surface EXCEPT !.registered = FALSE, !.fence = FALSE]}

\* The picture does not reach the broker, or reaches it and is disowned.
\* Failures up to the registration leave the surface usable; later ones do not.
EndPictureFailed(c) ==
    /\ Submittable(c)
    /\ frames < MaxFrames
    /\ LET s == contexts[c].target IN
         /\ surfaces[s].owner \in {None, c}
         /\ \E surface \in prepare_encode_input([surfaces[s] EXCEPT !.owner = c]),
               fault \in (Faults \cup IF surfaces[s].fence THEN {"submit"} ELSE {})
                         \cap {"prepare", "export", "register", "submit",
                               "complete", "signal"} :
              LET linked == fault \in {"submit", "complete", "signal"}
                  queued == fault \in {"complete", "signal"}
                  regs == IF linked THEN Session(c).regs \cup {s}
                          ELSE IF surface.registered THEN Session(c).regs
                          ELSE Session(c).regs \ {s}
              IN  /\ fault = "prepare" => surface.route # "linear"
                  /\ fault = "export" => surface.exported
                  /\ fault = "register" => ~surface.registered
                  /\ fault = "signal" => frame_session
                  /\ surfaces' = [surfaces EXCEPT ![s] = [surface EXCEPT
                         !.registered = @ \/ linked,
                         !.fence = @ \/ fault = "signal",
                         !.exported = @ /\ fault \in {"prepare", "export"},
                         !.state = IF linked \/ fault = "export" THEN "error"
                                   ELSE @]]
                  /\ broker' = [broker EXCEPT ![c] = [Session(c) EXCEPT
                         !.regs = regs,
                         !.queue = IF queued THEN Append(@, frames + 1)
                                   ELSE @,
                         !.lost = @ \/ queued]]
                  /\ frames' = IF queued THEN frames + 1 ELSE frames
    /\ contexts' = [contexts EXCEPT ![c] = Done(Opened(c))]
    /\ UNCHANGED <<buffers, call, setup>>

end_picture(c) ==
    /\ Submittable(c)
    /\ frames < MaxFrames
    /\ LET s == contexts[c].target
           b == contexts[c].coded
       IN  /\ surfaces[s].owner \in {None, c}
           /\ \E surface \in prepare_encode_input(surfaces[s]) :
                /\ ~surface.fence
                /\ surfaces' = [surfaces EXCEPT ![s] = [surface EXCEPT
                     !.owner = c, !.registered = TRUE, !.exported = FALSE,
                     !.fence = TRUE, !.coded = b, !.frame = frames + 1,
                     !.state = "pending"]]
           /\ buffers' = [buffers EXCEPT ![b].pending = s,
                                         ![b].output = NoOutput]
           /\ broker' = [broker EXCEPT ![c] = [Session(c) EXCEPT
                  !.queue = Append(@, frames + 1),
                  !.eos = @ \/ frame_session, !.regs = @ \cup {s}]]
    /\ frames' = frames + 1
    /\ contexts' = [contexts EXCEPT ![c] =
                      [Done(Opened(c)) EXCEPT !.pending = @ + 1]]
    /\ UNCHANGED <<call, setup>>

-----------------------------------------------------------------------------
(* Waiting for the encoder                                                 *)

\* Mutant: the count is not reset.
mark_context_pending_error_counting(c, waited) ==
    /\ surfaces' = [s \in Surfaces |->
                      IF s \in Pending(c)
                      THEN [surfaces[s] EXCEPT !.state = "error",
                                               !.fence = @ /\ s \notin waited]
                      ELSE surfaces[s]]
    /\ buffers' = [b \in Buffers |->
                     IF b \in {surfaces[s].coded : s \in Pending(c)}
                     THEN [buffers[b] EXCEPT !.pending = None]
                     ELSE buffers[b]]
    /\ UNCHANGED contexts

\* Mutant: the coded buffers are left waiting.
mark_context_pending_error_leaving(c, waited) ==
    /\ surfaces' = [s \in Surfaces |->
                      IF s \in Pending(c)
                      THEN [surfaces[s] EXCEPT !.state = "error",
                                               !.fence = @ /\ s \notin waited]
                      ELSE surfaces[s]]
    /\ UNCHANGED buffers
    /\ contexts' = [contexts EXCEPT ![c].pending = 0]

\* mark_context_pending_error, by a turn that has waited for the release fences
\* of the surfaces waited.
mark_context_pending_error(c, waited) ==
    /\ surfaces' = [s \in Surfaces |->
                      IF s \in Pending(c)
                      THEN [surfaces[s] EXCEPT !.state = "error",
                                               !.fence = @ /\ s \notin waited]
                      ELSE surfaces[s]]
    /\ buffers' = [b \in Buffers |->
                     IF b \in {surfaces[s].coded : s \in Pending(c)}
                     THEN [buffers[b] EXCEPT !.pending = None]
                     ELSE buffers[b]]
    /\ contexts' = [contexts EXCEPT ![c].pending = 0]

\* The encoder handed back nothing in time: the frame stays in its session.
ReceiveTimesOut(c) == UNCHANGED <<contexts, surfaces, buffers, broker>>

\* The end-of-stream flag may come on the last frame or on an empty output.
MayEnd(c) == IF broker[c].eos /\ Len(broker[c].queue) = 1 THEN BOOLEAN
             ELSE {FALSE}

\* An output that fails the context: the receive itself failed, before or
\* after the output left the session; the output is empty; the release fence
\* cannot be waited for, which is what a wait of no time answers; or, with the
\* fence waited for, the output does not fit the coded buffer.
ReceiveFails(c, poll) ==
    \/ /\ \/ /\ "receive" \in Faults
             /\ broker' = [broker EXCEPT ![c].lost = TRUE]
          \/ /\ broker[c].queue # <<>>
             /\ poll \/ Faults \cap {"receive", "fence"} # {}
             /\ \E e \in MayEnd(c) :
                  broker' = [broker EXCEPT ![c].queue = Tail(@), ![c].lost = TRUE,
                                           ![c].ended = @ \/ e]
          \/ /\ broker[c].queue = <<>>
             /\ broker[c].eos /\ ~broker[c].ended
             /\ broker' = [broker EXCEPT ![c].ended = TRUE, ![c].lost = TRUE]
       /\ mark_context_pending_error(c, {})
    \/ /\ ~poll /\ "size" \in Faults
       /\ broker[c].queue # <<>>
       /\ \E e \in MayEnd(c) :
            broker' = [broker EXCEPT ![c].queue = Tail(@), ![c].lost = TRUE,
                                     ![c].ended = @ \/ e]
       /\ mark_context_pending_error(c, {find_oldest_pending_surface(c)})

\* The output is dropped because the oldest picture's release fence did not
\* signal in time, and the picture stays pending.
FenceTimesOut(c) ==
    /\ "fence" \in Faults
    /\ broker[c].queue # <<>>
    /\ surfaces[find_oldest_pending_surface(c)].fence
    /\ \E e \in MayEnd(c) :
         broker' = [broker EXCEPT ![c].queue = Tail(@), ![c].lost = TRUE,
                                  ![c].ended = @ \/ e]
    /\ UNCHANGED <<contexts, surfaces, buffers>>

\* Mutant: the release fence is not waited for.
Receives_unreleased(c, poll) ==
    /\ ~poll
    /\ broker[c].queue # <<>>
    /\ \E e \in MayEnd(c) :
         LET done == find_oldest_pending_surface(c)
             b == surfaces[done].coded
             closes == contexts[c].framed /\ contexts[c].pending = 1
         IN  /\ buffers' = [buffers EXCEPT
                  ![b].pending = None,
                  ![b].output = [frame |-> Head(broker[c].queue),
                                 stamp |-> surfaces[done].frame]]
             /\ surfaces' = [s \in Surfaces |-> [surfaces[s] EXCEPT
                  !.state = IF s = done THEN "ready" ELSE @,
                  !.registered = @ /\ ~(closes /\ s \in Owned(c))]]
             /\ contexts' = [contexts EXCEPT
                  ![c].pending = IF @ > 0 THEN @ - 1 ELSE 0,
                  ![c].open = @ /\ ~closes]
             /\ broker' = [broker EXCEPT ![c] =
                  IF closes THEN NewSession
                  ELSE [broker[c] EXCEPT !.queue = Tail(@), !.ended = @ \/ e]]

\* Mutant: registrations outlive the session of one frame.
Receives_registered(c, poll) ==
    /\ ~poll
    /\ broker[c].queue # <<>>
    /\ \E e \in MayEnd(c) :
         LET done == find_oldest_pending_surface(c)
             b == surfaces[done].coded
             closes == contexts[c].framed /\ contexts[c].pending = 1
         IN  /\ buffers' = [buffers EXCEPT
                  ![b].pending = None,
                  ![b].output = [frame |-> Head(broker[c].queue),
                                 stamp |-> surfaces[done].frame]]
             /\ surfaces' = [s \in Surfaces |-> [surfaces[s] EXCEPT
                  !.state = IF s = done THEN "ready" ELSE @,
                  !.fence = @ /\ s # done]]
             /\ contexts' = [contexts EXCEPT
                  ![c].pending = IF @ > 0 THEN @ - 1 ELSE 0,
                  ![c].open = @ /\ ~closes]
             /\ broker' = [broker EXCEPT ![c] =
                  IF closes THEN NewSession
                  ELSE [broker[c] EXCEPT !.queue = Tail(@), !.ended = @ \/ e]]

\* The output becomes the oldest pending picture's.  A session of one frame
\* is closed with its last picture, and its registrations go with it.
Receives(c, poll) ==
    /\ ~poll
    /\ broker[c].queue # <<>>
    /\ \E e \in MayEnd(c) :
         LET done == find_oldest_pending_surface(c)
             b == surfaces[done].coded
             closes == contexts[c].framed /\ contexts[c].pending = 1
         IN  /\ buffers' = [buffers EXCEPT
                  ![b].pending = None,
                  ![b].output = [frame |-> Head(broker[c].queue),
                                 stamp |-> surfaces[done].frame]]
             /\ surfaces' = [s \in Surfaces |-> [surfaces[s] EXCEPT
                  !.state = IF s = done THEN "ready" ELSE @,
                  !.fence = @ /\ s # done,
                  !.registered = @ /\ ~(closes /\ s \in Owned(c))]]
             /\ contexts' = [contexts EXCEPT
                  ![c].pending = IF @ > 0 THEN @ - 1 ELSE 0,
                  ![c].open = @ /\ ~closes]
             /\ broker' = [broker EXCEPT ![c] =
                  IF closes THEN NewSession
                  ELSE [broker[c] EXCEPT !.queue = Tail(@), !.ended = @ \/ e]]

\* One turn of the loop of sync_surface_locked, and where the caller is then.
sync_surface_locked(c, poll, again, late, failed) ==
    \/ ReceiveTimesOut(c) /\ call' = late
    \/ FenceTimesOut(c) /\ ~poll /\ call' = late
    \/ ReceiveFails(c, poll) /\ call' = failed
    \/ Receives(c, poll) /\ call' = again

\* An entry point that first waits for a pending surface: vaSyncSurface and
\* vaSyncBuffer, reads of the surface, its write export (export) and the
\* mapping of its coded buffer (buffer).  Only the syncs choose the timeout.
StartSync(s, b, export, poll) ==
    /\ Idle
    /\ surfaces[s].used
    /\ surfaces[s].state = "pending"
    /\ b # None => buffers[b].pending = s /\ ~buffers[b].mapped
    /\ b # None => ~export
    /\ poll => b = None /\ ~export
    /\ call' = [op |-> "sync", context |-> surfaces[s].owner, surface |-> s,
                buffer |-> b, export |-> export, poll |-> poll]
    /\ UNCHANGED <<contexts, surfaces, buffers, broker, frames, setup>>

SyncTurn ==
    /\ call.op = "sync"
    /\ surfaces[call.surface].state = "pending"
    /\ contexts[call.context].open /\ contexts[call.context].pending > 0
    /\ sync_surface_locked(call.context, call.poll, call, NoCall, NoCall)
    /\ UNCHANGED <<frames, setup>>

\* The wait is over; what was to be mapped or exported is.
SyncReturns ==
    /\ call.op = "sync"
    /\ surfaces[call.surface].state # "pending"
    /\ buffers' = IF call.buffer = None THEN buffers
                  ELSE [buffers EXCEPT ![call.buffer].mapped = TRUE]
    /\ surfaces' = [surfaces EXCEPT ![call.surface].exported = @ \/ call.export]
    /\ call' = NoCall
    /\ UNCHANGED <<contexts, broker, frames, setup>>

map_buffer(b) ==
    /\ Idle
    /\ buffers[b].used
    /\ ~buffers[b].mapped
    /\ buffers[b].pending = None
    /\ buffers[b].output # NoOutput
    /\ buffers' = [buffers EXCEPT ![b].mapped = TRUE]
    /\ UNCHANGED <<contexts, surfaces, broker, call, frames, setup>>

unmap_buffer(b) ==
    /\ Idle
    /\ buffers[b].used
    /\ buffers[b].mapped
    /\ buffers' = [buffers EXCEPT ![b].mapped = FALSE]
    /\ UNCHANGED <<contexts, surfaces, broker, call, frames, setup>>

-----------------------------------------------------------------------------
(* Closing a context                                                       *)

Closing(op, c) == [NoCall EXCEPT !.op = op, !.context = c]

\* finish_context_locked: the end of the stream is signalled once, unless each
\* frame has its own session and signalled its own.
finish_context_locked(c) ==
    \/ /\ ~contexts[c].open
       /\ call' = Closing("close", c)
       /\ UNCHANGED broker
    \/ /\ contexts[c].open /\ contexts[c].framed
       /\ call' = Closing("drain", c)
       /\ UNCHANGED broker
    \/ /\ contexts[c].open /\ ~contexts[c].framed
       /\ call' = Closing("drain", c)
       /\ broker' = [broker EXCEPT ![c].eos = TRUE]
    \/ /\ contexts[c].open /\ ~contexts[c].framed
       /\ "signal" \in Faults
       /\ call' = Closing("abandon", c)
       /\ UNCHANGED broker

destroy_context(c) ==
    /\ Idle
    /\ contexts[c].used
    /\ finish_context_locked(c)
    /\ UNCHANGED <<contexts, surfaces, buffers, frames, setup>>

\* The drain is over when the frame sessions have no picture left, or when
\* the end of the stream came back.
Drained(c) == IF contexts[c].framed THEN contexts[c].pending = 0
              ELSE broker[c].ended

DrainEnds ==
    /\ call.op = "drain"
    /\ Drained(call.context)
    /\ call' = Closing(IF contexts[call.context].pending = 0 THEN "close"
                       ELSE "abandon", call.context)
    /\ UNCHANGED <<contexts, surfaces, buffers, broker, frames, setup>>

\* The one budget of the drain is used up.
DrainTimesOut ==
    /\ call.op = "drain"
    /\ ~Drained(call.context)
    /\ call' = Closing("abandon", call.context)
    /\ UNCHANGED <<contexts, surfaces, buffers, broker, frames, setup>>

\* context_eos_drain_once and the loop of drain_frame_session_locked, with
\* pictures pending.
DrainTurn ==
    /\ call.op = "drain"
    /\ ~Drained(call.context)
    /\ contexts[call.context].pending > 0
    /\ sync_surface_locked(call.context, FALSE, call,
                           Closing("abandon", call.context),
                           Closing("abandon", call.context))
    /\ UNCHANGED <<frames, setup>>

\* context_eos_drain_once with no picture pending: only the end of the stream
\* is expected, a frame is a protocol error.
DrainLast ==
    /\ call.op = "drain"
    /\ LET c == call.context IN
         /\ ~Drained(c)
         /\ contexts[c].pending = 0
         /\ \/ /\ broker[c].queue = <<>>
               /\ broker' = [broker EXCEPT ![c].ended = TRUE]
               /\ call' = call
            \/ /\ broker[c].queue # <<>>
               /\ \E e \in MayEnd(c) :
                    /\ broker' = [broker EXCEPT ![c].queue = Tail(@),
                                                ![c].ended = e]
                    /\ call' = IF e THEN call ELSE Closing("abandon", c)
    /\ UNCHANGED <<contexts, surfaces, buffers, frames, setup>>

\* Mutant: the drain starts over.
Abandon_retrying ==
    /\ call.op = "abandon"
    /\ mark_context_pending_error(call.context, {})
    /\ call' = Closing("drain", call.context)
    /\ UNCHANGED <<broker, frames, setup>>

\* fail_once: what is still pending will never be handed back.
Abandon ==
    /\ call.op = "abandon"
    /\ mark_context_pending_error(call.context, {})
    /\ call' = Closing("close", call.context)
    /\ UNCHANGED <<broker, frames, setup>>

\* Mutant: a failed unregistration leaves the flag set.
close_context_locked_stale ==
    /\ call.op = "close"
    /\ LET c == call.context
           linked == {s \in Owned(c) : contexts[c].open /\ surfaces[s].registered}
       IN  /\ \E bad \in SUBSET linked :
                /\ bad # {} => "unregister" \in Faults
                /\ surfaces' = [s \in Surfaces |->
                     IF s \notin Owned(c) THEN surfaces[s]
                     ELSE [surfaces[s] EXCEPT
                            !.owner = None, !.coded = None,
                            !.registered = @ /\ s \notin linked \ bad,
                            !.fence = @ /\ s \notin linked \ bad,
                            !.state = IF s \in bad \/ @ = "pending"
                                      THEN "error" ELSE @]]
           /\ contexts' = [contexts EXCEPT ![c] = FreeContext]
           /\ broker' = [broker EXCEPT ![c] = NewSession]
    /\ call' = NoCall
    /\ UNCHANGED <<buffers, frames, setup>>

\* close_context_locked.  Surfaces whose unregistration fails are not left
\* registered with a session that is gone.
close_context_locked ==
    /\ call.op = "close"
    /\ LET c == call.context
           linked == {s \in Owned(c) : contexts[c].open /\ surfaces[s].registered}
       IN  /\ \E bad \in SUBSET linked :
                /\ bad # {} => "unregister" \in Faults
                /\ surfaces' = [s \in Surfaces |->
                     IF s \notin Owned(c) THEN surfaces[s]
                     ELSE [surfaces[s] EXCEPT
                            !.owner = None, !.coded = None,
                            !.registered = @ /\ s \notin linked,
                            !.fence = @ /\ s \notin linked \ bad,
                            !.state = IF s \in bad \/ @ = "pending"
                                      THEN "error" ELSE @]]
           /\ contexts' = [contexts EXCEPT ![c] = FreeContext]
           /\ broker' = [broker EXCEPT ![c] = NewSession]
    /\ call' = NoCall
    /\ UNCHANGED <<buffers, frames, setup>>

\* advc_vaapi_encode_runtime_destroy: every context is finished and closed,
\* then the buffers and surfaces go.
runtime_destroy ==
    \/ /\ Idle
       /\ phase' = "closing"
       /\ UNCHANGED <<contexts, surfaces, buffers, broker, call, frames,
                      frame_session, stuck>>
    \/ /\ phase = "closing" /\ call = NoCall
       /\ \E c \in Contexts : contexts[c].used /\ finish_context_locked(c)
       /\ UNCHANGED <<contexts, surfaces, buffers, frames, setup>>
    \/ /\ phase = "closing" /\ call = NoCall
       /\ \A c \in Contexts : ~contexts[c].used
       /\ surfaces' = [s \in Surfaces |-> FreeSurface]
       /\ buffers' = [b \in Buffers |-> FreeBuffer]
       /\ phase' = "gone"
       /\ UNCHANGED <<contexts, broker, call, frames, frame_session, stuck>>

-----------------------------------------------------------------------------
Client ==
    \/ \E c \in Contexts :
         \/ create_context(c) \/ destroy_context(c)
         \/ EndPictureRefused(c) \/ EndPictureNotOwned(c)
         \/ EndPictureFailed(c) \/ end_picture(c)
         \/ \E s \in Surfaces : begin_picture(c, s)
         \/ \E b \in Buffers : create_buffer(b, c)
         \/ \E b \in Buffers, r \in Rates : render_picture(c, b, r)
    \/ \E s \in Surfaces :
         \/ create_surfaces(s) \/ destroy_surfaces(s) \/ export_surface(s)
         \/ \E b \in Buffers \cup {None}, export \in BOOLEAN, poll \in Polls :
              StartSync(s, b, export, poll)
    \/ \E b \in Buffers : destroy_buffer(b) \/ map_buffer(b) \/ unmap_buffer(b)

\* The steps of a call that holds the mutex.
Turn ==
    \/ SyncTurn \/ SyncReturns
    \/ DrainEnds \/ DrainTimesOut \/ DrainTurn \/ DrainLast
    \/ Abandon \/ close_context_locked

\* transaction_ex: a request of a call on some context is never answered.  Its socket
\* blocks, and no wait for a reply has a timeout.
NeverAnswered ==
    /\ "hang" \in Faults
    /\ \E c \in Contexts : contexts[c].used
    /\ stuck' = TRUE
    /\ UNCHANGED <<contexts, surfaces, buffers, broker, call, frames, phase,
                   frame_session>>

\* No entry point runs while another one holds the mutex for good.
Next == ~stuck /\ (Client \/ Turn \/ runtime_destroy \/ NeverAnswered)

Spec == Init /\ [][Next]_vars

\* A thread inside a call is scheduled, so it takes its next turn unless a
\* request to the broker stays without an answer.  Nothing obliges a broker to
\* answer, nor a client to make a call.
FairSpec == Spec /\ WF_vars(~stuck /\ Turn)

-----------------------------------------------------------------------------
(* Properties                                                              *)

\* pending_count, which admits pictures and ends drains, is the number of the
\* context's pending surfaces through every completion, failure and close, and
\* a context with pictures pending has the session that will complete them.
PendingCounted ==
    \A c \in Contexts :
        /\ contexts[c].pending = Cardinality(Pending(c))
        /\ contexts[c].pending > 0 => contexts[c].used /\ contexts[c].open

\* A coded buffer waits for a surface exactly while that surface is pending
\* for it.  A buffer left waiting could never be destroyed or reused: both
\* destroy_buffer and end_picture refuse it, and no sync would clear it.
BufferAwaitsItsSurface ==
    \A b \in Buffers, s \in Surfaces :
        (buffers[b].pending = s)
            <=> (surfaces[s].state = "pending" /\ surfaces[s].coded = b)

\* A surface counts as registered exactly in the session of the context that
\* owns it.  "Do not let a later context mistake a stale registration for its
\* own", says close_context_locked: end_picture skips the registration of a
\* surface that counts as registered.
RegistrationLive ==
    \A s \in Surfaces :
        /\ surfaces[s].registered => /\ surfaces[s].owner # None
                                     /\ contexts[surfaces[s].owner].open
        /\ \A c \in Contexts : contexts[c].open =>
             (s \in broker[c].regs <=>
                surfaces[s].registered /\ surfaces[s].owner = c)

\* A surface a client may write again (idle or ready) has no release fence
\* outstanding: the encoder is done reading it.
ReleasedBeforeReuse ==
    \A s \in Surfaces :
        surfaces[s].state \in {"idle", "ready"} => ~surfaces[s].fence

\* As long as no failure parted a frame of the session from its picture,
\* every output that a sync hands out has the timestamp of the frame it
\* encodes, however the pictures, syncs and drains interleave.
OutputsInOrder ==
    [][\A b \in Buffers :
         \/ buffers'[b].output \in {NoOutput, buffers[b].output}
         \/ buffers'[b].output.frame = buffers'[b].output.stamp
         \/ broker[buffers[b].owner].lost]_vars

\* A call that waits for the encoder returns as long as the broker answers its
\* requests, whether or not the encoder hands anything back: an encoder that
\* produces nothing costs a caller its budget, not the runtime's mutex.  Only a
\* request that the broker never answers keeps the mutex.
EveryCallReturns == (call # NoCall) ~> (call = NoCall \/ stuck)

=============================================================================
