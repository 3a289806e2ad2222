---------------------------- MODULE DecodeRuntime ----------------------------
(***************************************************************************)
(* The VA-API decode runtime (vaapi_advc/advc_vaapi_decode_runtime.c) with *)
(* the end-of-stream state machine of each context                         *)
(* (advc_vaapi_decode_eos.c), over a broker connection per context.        *)
(*                                                                         *)
(* One mutex serialises the calls.  A call that keeps it from beginning to *)
(* end is one action.  vaEndPicture keeps it too, but talks to the broker  *)
(* again and again while the decoder and the connection live on: it is the *)
(* record `ending', and no other call starts before it is over.            *)
(* vaBeginPicture on a surface that is still pending gives the mutex up    *)
(* while it waits: `waiting' has the threads that do, and any number of    *)
(* them may wait for one surface or for one context.  vaSyncSurface, its   *)
(* twin vaQuerySurfaceStatus and the private progress call are loops of    *)
(* drains.                                                                 *)
(*                                                                         *)
(* Any context may decode into any surface, as in the code, which keeps no *)
(* record of the surface a context was created for.                        *)
(*                                                                         *)
(* Data is abstracted: an access unit is its presentation time stamp, an   *)
(* outstanding broker output <<"o", pts>>, a reserved destination          *)
(* <<"r", pts>>.  Sizes, formats, routes and buffers are left out.         *)
(***************************************************************************)
EXTENDS Integers, FiniteSets

CONSTANTS Contexts,     \* context slots (ADVC_VAAPI_CONTEXT_SLOTS)
          SurfaceCount, \* surface slots (ADVC_VAAPI_SURFACE_SLOTS)
          Threads,      \* threads of the client that may wait in vaBeginPicture
          SessionIds,   \* ids a broker connection gives its sessions, 1 first
          MaxPts,       \* access units of one run (the pts-exhausted bound)
          Window,       \* outputs a connection may have out
          Async         \* contexts whose gateway reserves (async_decode_prime)

Surfaces == 1..SurfaceCount
NoSurface == 0
NoContext == "no context"

ASSUME RuntimeAssumption ==
    /\ SurfaceCount \in Nat /\ MaxPts \in Nat /\ Window \in Nat \ {0}
    /\ SessionIds \subseteq Nat \ {0}
    /\ Async \subseteq Contexts
    /\ NoContext \notin Contexts

VARIABLES
    session,     \* per context, its broker_session; 0 while the slot is free
    target,      \* per context, the surface of the active picture
    waiting,     \* per thread, the vaBeginPicture that waits for its surface
    ending,      \* the vaEndPicture that holds the mutex
    shared,      \* history: contexts that had an active picture on a surface
                 \* while another context had one on it
    eos,         \* per context, the phase of the end-of-stream machine
    surface,     \* the surface table
    nextPts,     \* next_pts_ns
    up,          \* per context, whether its connection is alive
    decoder,     \* per context, the units the decoder has and has not answered
    dropped,     \* per context, the units it or the gateway will never answer
    ended,       \* per context, the end-of-stream unit: none, queued, answered
    leases       \* per context, the outputs and destinations the broker lent

calls == <<session, target, waiting, ending, shared, nextPts>>
broker == <<up, decoder, dropped, ended, leases>>
vars == <<session, target, waiting, ending, shared, nextPts, eos, surface,
          up, decoder, dropped, ended, leases>>

Pts == 1..MaxPts
NoLease == <<"none", 0>>
NotWaiting == [ctx |-> NoContext, surf |-> NoSurface, synced |-> FALSE]
NotEnding == [ctx |-> NoContext, pts |-> 0, stage |-> "none"]

FreeSurface ==
    [state |-> "none", pts |-> 0, ctx |-> NoContext, sess |-> 0,
     lease |-> NoLease, reserved |-> FALSE]

IdleSurface == [FreeSurface EXCEPT !.state = "idle"]

Live(c) == session[c] # 0

Unlocked == ending = NotEnding

Init ==
    /\ session = [c \in Contexts |-> 0]
    /\ target = [c \in Contexts |-> NoSurface]
    /\ waiting = [th \in Threads |-> NotWaiting]
    /\ ending = NotEnding
    /\ shared = {}
    /\ nextPts = 1
    /\ eos = [c \in Contexts |-> "OPEN"]
    /\ surface = [s \in Surfaces |-> FreeSurface]
    /\ up = [c \in Contexts |-> FALSE]
    /\ decoder = [c \in Contexts |-> {}]
    /\ dropped = [c \in Contexts |-> {}]
    /\ ended = [c \in Contexts |-> "none"]
    /\ leases = [c \in Contexts |-> {}]
-----------------------------------------------------------------------------
(* release_surface_output: what the surface holds goes back to the         *)
(* connection of its owner, provided that owner still runs the session the *)
(* output came from.                                                       *)
Returnable(s) ==
    LET r == surface[s]
    IN  r.lease # NoLease /\ r.ctx \in Contexts /\ session[r.ctx] = r.sess

(* Connections number their outputs alike.  A surface that two contexts    *)
(* decoded into may hold the number of an output that the connection of    *)
(* its owner did not lend; what that connection lent under the same number *)
(* is returned, if it has it out.                                          *)
Returned(s) ==
    LET r == surface[s]
    IN  IF r.lease[2] = r.pts THEN {{r.lease}}
        ELSE {{}} \cup {{l} : l \in leases[r.ctx]}

release_surface_output(s, after) ==
    /\ surface' = [surface EXCEPT ![s] = after]
    /\ IF Returnable(s)
       THEN \E out \in Returned(s) :
               leases' = [leases EXCEPT ![surface[s].ctx] = @ \ out]
       ELSE UNCHANGED leases
-----------------------------------------------------------------------------
(* The answer to a dequeue is a unit p of the decoder, in an output slot   *)
(* of the broker.  It belongs to the first pending surface that waits for  *)
(* that time stamp in that session.                                        *)
Matching(c, p) ==
    {s \in Surfaces : /\ surface[s].state = "pending"
                      /\ surface[s].pts = p
                      /\ surface[s].sess = session[c]}

First(S) ==
    IF S = {} THEN NoSurface ELSE CHOOSE s \in S : \A t \in S : s <= t

(* A gateway that reserves destinations returns the broker's output as     *)
(* soon as it is repacked, so the window never fills.                      *)
WindowOpen(c) == c \in Async \/ Cardinality(leases[c]) < Window

CanAnswer(c) == up[c] /\ WindowOpen(c)

(* A reserved destination becomes the output; the gateway gives up its     *)
(* reservation either way.                                                 *)
Answered(c, p, kept) ==
    /\ decoder' = [decoder EXCEPT ![c] = @ \ {p}]
    /\ leases' = [leases EXCEPT ![c] = (@ \ {<<"r", p>>}) \cup kept]

(* What convert_output may make of an output: the surface keeps it, or,    *)
(* when the picture was copied, the copy, and the output is released.      *)
convert_output_unrecorded(s, p) ==
    {[table |-> [surface EXCEPT ![s].state = "ready"], kept |-> {<<"o", p>>}]}

convert_output_released(s, p) ==
    {[table |-> [surface EXCEPT ![s].state = "ready", ![s].lease = <<"o", p>>,
                                ![s].reserved = FALSE],
      kept |-> {}]}

convert_output(s, p) ==
    {[table |-> [surface EXCEPT ![s].state = "ready", ![s].lease = <<"o", p>>,
                                ![s].reserved = FALSE],
      kept |-> {<<"o", p>>}]}
    \cup IF surface[s].reserved THEN {}
         ELSE {[table |-> [surface EXCEPT ![s].state = "ready"], kept |-> {}]}

AttachOutput(c, p) ==
    /\ Matching(c, p) # {}
    /\ \E done \in convert_output(First(Matching(c, p)), p) :
          surface' = done.table /\ Answered(c, p, done.kept)

(* No surface waits for it, or it cannot be converted: the output goes     *)
(* straight back and the surface, if there is one, is in error.            *)
RefuseOutput(c, p) ==
    LET s == First(Matching(c, p))
    IN  /\ surface' = IF s = NoSurface THEN surface
                      ELSE [surface EXCEPT ![s].state = "error"]
        /\ Answered(c, p, {})

(* The gateway could not repack the unit: it returned the output itself    *)
(* and answers with an error.                                              *)
LoseOutput(c, p) ==
    /\ c \in Async
    /\ dropped' = [dropped EXCEPT ![c] = @ \cup {p}]
    /\ surface' = surface
    /\ Answered(c, p, {})
-----------------------------------------------------------------------------
(* drain_one_output before the end of the stream: one dequeue, with its    *)
(* result r (nothing there, a frame placed, an error).                     *)
drain_open(c, r) ==
    /\ eos[c] = "OPEN"
    /\ UNCHANGED <<eos, ended>>
    /\ \/ r = 0 /\ up[c] /\ UNCHANGED <<surface, decoder, leases, dropped>>
       \/ r = -1 /\ UNCHANGED <<surface, decoder, leases, dropped>>
       \/ \E p \in decoder[c] :
             /\ CanAnswer(c)
             /\ \/ r = 1 /\ AttachOutput(c, p) /\ UNCHANGED dropped
                \/ r = -1 /\ RefuseOutput(c, p) /\ UNCHANGED dropped
                \/ r = -1 /\ LoseOutput(c, p)

(* The decoder answers the end-of-stream unit last: as a flag on its last  *)
(* frame, or as an output of its own.                                      *)
LastFrame(c, p) == ended[c] = "queued" /\ decoder[c] = {p}

(* mark_remaining_pending_failed, applied to the surface table t.          *)
mark_remaining_pending_failed(c, t) ==
    [s \in Surfaces |->
        IF t[s].state = "pending" /\ t[s].sess = session[c]
        THEN [t[s] EXCEPT !.state = "error"] ELSE t[s]]

(* A terminal frame is placed like any other, and then ends the stream.    *)
AttachLast(c, p) ==
    /\ Matching(c, p) # {}
    /\ \E done \in convert_output(First(Matching(c, p)), p) :
          /\ surface' = mark_remaining_pending_failed(c, done.table)
          /\ Answered(c, p, done.kept)

(* advc_vaapi_decode_eos_state_progress with one output of budget, behind  *)
(* private_eos_drain_one.                                                  *)
eos_progress(c, r) ==
    /\ eos[c] # "OPEN"
    /\ \/ (* COMPLETE, FAILED, nothing there, or the output window is full *)
          /\ \/ r = 0 /\ eos[c] = "COMPLETE"
             \/ r = -1 /\ eos[c] = "FAILED"
             \/ r = 0 /\ eos[c] \in {"SIGNAL_PENDING", "DRAINING"} /\ up[c]
          /\ UNCHANGED <<surface, decoder, leases, dropped, eos, ended>>
       \/ (* the dequeue fails *)
          /\ r = -1 /\ eos[c] \in {"SIGNAL_PENDING", "DRAINING"}
          /\ eos' = [eos EXCEPT ![c] = "FAILED"]
          /\ UNCHANGED ended
          /\ \/ UNCHANGED <<surface, decoder, leases, dropped>>
             \/ CanAnswer(c) /\ \E p \in decoder[c] : LoseOutput(c, p)
       \/ (* a frame *)
          /\ eos[c] \in {"SIGNAL_PENDING", "DRAINING"} /\ CanAnswer(c)
          /\ UNCHANGED dropped
          /\ \E p \in decoder[c] :
                \/ /\ r = 1 /\ AttachOutput(c, p)
                   /\ UNCHANGED <<eos, ended>>
                \/ /\ r = -1 /\ RefuseOutput(c, p)
                   /\ eos' = [eos EXCEPT ![c] = "FAILED"]
                   /\ \/ UNCHANGED ended
                      \/ LastFrame(c, p) /\ ended' = [ended EXCEPT ![c] = "done"]
                \/ /\ r = 1 /\ LastFrame(c, p)
                   /\ AttachLast(c, p)
                   /\ eos' = [eos EXCEPT ![c] = "COMPLETE"]
                   /\ ended' = [ended EXCEPT ![c] = "done"]
       \/ (* the end of the stream on its own: released, then consumed *)
          /\ r = 0 /\ CanAnswer(c)
          /\ eos[c] = "DRAINING" /\ ended[c] = "queued" /\ decoder[c] = {}
          /\ surface' = mark_remaining_pending_failed(c, surface)
          /\ eos' = [eos EXCEPT ![c] = "COMPLETE"]
          /\ ended' = [ended EXCEPT ![c] = "done"]
          /\ UNCHANGED <<decoder, leases, dropped>>

drain_one_output(c, r) == drain_open(c, r) \/ eos_progress(c, r)
-----------------------------------------------------------------------------
(* Contexts and surfaces.  A context has a connection of its own; a fresh  *)
(* one starts its sessions at 1, a recycled one goes on counting.          *)
create_surfaces(s) ==
    /\ Unlocked /\ surface[s].state = "none"
    /\ surface' = [surface EXCEPT ![s] = IdleSurface]
    /\ UNCHANGED <<calls, broker, eos>>

destroy_surfaces(s) ==
    /\ Unlocked /\ surface[s].state # "none"
    /\ release_surface_output(s, FreeSurface)
    /\ UNCHANGED <<calls, eos, up, decoder, dropped, ended>>

create_context(c) ==
    /\ Unlocked /\ ~Live(c)
    /\ \E id \in SessionIds : session' = [session EXCEPT ![c] = id]
    /\ target' = [target EXCEPT ![c] = NoSurface]
    /\ eos' = [eos EXCEPT ![c] = "OPEN"]
    /\ up' = [up EXCEPT ![c] = TRUE]
    /\ UNCHANGED <<waiting, ending, shared, nextPts, surface, decoder, dropped,
                   ended, leases>>

OwnedBy(c) == {s \in Surfaces : surface[s].ctx = c}

(* The broker forgets the session: its units, its outputs, its             *)
(* reservations.                                                           *)
ForgetSession(c) ==
    /\ up' = [up EXCEPT ![c] = FALSE]
    /\ decoder' = [decoder EXCEPT ![c] = {}]
    /\ dropped' = [dropped EXCEPT ![c] = {}]
    /\ ended' = [ended EXCEPT ![c] = "none"]

destroy_context_keeping(c) ==
    /\ Unlocked /\ Live(c)
    /\ UNCHANGED surface
    /\ leases' = [leases EXCEPT ![c] = {}]
    /\ ForgetSession(c)
    /\ session' = [session EXCEPT ![c] = 0]
    /\ target' = [target EXCEPT ![c] = NoSurface]
    /\ shared' = shared \ {c}
    /\ eos' = [eos EXCEPT ![c] = "OPEN"]
    /\ UNCHANGED <<waiting, ending, nextPts>>

destroy_context(c) ==
    /\ Unlocked /\ Live(c)
    /\ surface' = [s \in Surfaces |->
                      IF s \in OwnedBy(c) THEN IdleSurface ELSE surface[s]]
    /\ leases' = [leases EXCEPT ![c] = {}]
    /\ ForgetSession(c)
    /\ session' = [session EXCEPT ![c] = 0]
    /\ target' = [target EXCEPT ![c] = NoSurface]
    /\ shared' = shared \ {c}
    /\ eos' = [eos EXCEPT ![c] = "OPEN"]
    /\ UNCHANGED <<waiting, ending, nextPts>>

(* runtime_destroy returns every output, closes every session; what        *)
(* follows is a new runtime.  No call is in progress.                      *)
runtime_destroy ==
    /\ Unlocked /\ \A th \in Threads : waiting[th] = NotWaiting
    /\ \E c \in Contexts : Live(c)
    /\ surface' = [s \in Surfaces |-> FreeSurface]
    /\ leases' = [c \in Contexts |-> {}]
    /\ session' = [c \in Contexts |-> 0]
    /\ target' = [c \in Contexts |-> NoSurface]
    /\ eos' = [c \in Contexts |-> "OPEN"]
    /\ up' = [c \in Contexts |-> FALSE]
    /\ decoder' = [c \in Contexts |-> {}]
    /\ dropped' = [c \in Contexts |-> {}]
    /\ ended' = [c \in Contexts |-> "none"]
    /\ nextPts' = 1
    /\ shared' = {}
    /\ UNCHANGED <<waiting, ending>>
-----------------------------------------------------------------------------
(* vaBeginPicture.  What it checks of the context and the surface.         *)
CanBegin(c, s) ==
    /\ Live(c) /\ surface[s].state # "none"
    /\ target[c] = NoSurface /\ eos[c] = "OPEN"

(* The contexts that share the surface once c begins a picture on it.      *)
Sharing(c, s) ==
    LET others == {d \in Contexts \ {c} : target[d] = s}
    IN  IF others = {} THEN {} ELSE others \cup {c}

Begin(c, s) ==
    /\ surface[s].state # "error"
    /\ release_surface_output(s, IdleSurface)
    /\ target' = [target EXCEPT ![c] = s]
    /\ shared' = shared \cup Sharing(c, s)
    /\ UNCHANGED <<session, ending, nextPts, eos, up, decoder,
                   dropped, ended>>

begin_picture(c, s) ==
    /\ Unlocked /\ CanBegin(c, s)
    /\ surface[s].state # "pending"
    /\ Begin(c, s)
    /\ UNCHANGED waiting

(* The mutex is dropped with nothing set in the context or the surface.    *)
begin_picture_waits(th, c, s) ==
    /\ Unlocked /\ waiting[th] = NotWaiting /\ CanBegin(c, s)
    /\ surface[s].state = "pending"
    /\ waiting' = [waiting EXCEPT ![th] =
                      [ctx |-> c, surf |-> s, synced |-> FALSE]]
    /\ UNCHANGED <<session, target, ending, shared, nextPts, eos, surface,
                   broker>>

(* The wait is over: the surface is ready and its fence signalled, or it   *)
(* cannot become so, or the five seconds are over.                         *)
begin_picture_synced(th) ==
    /\ Unlocked /\ waiting[th] # NotWaiting /\ ~waiting[th].synced
    /\ \/ /\ surface[waiting[th].surf].state = "ready"
          /\ waiting' = [waiting EXCEPT ![th] = [@ EXCEPT !.synced = TRUE]]
       \/ waiting' = [waiting EXCEPT ![th] = NotWaiting]
    /\ UNCHANGED <<session, target, ending, shared, nextPts, eos, surface,
                   broker>>

(* Context and surface are looked up again, but not whether the surface    *)
(* became pending once more.                                               *)
begin_picture_resumes(th) ==
    /\ Unlocked /\ waiting[th].synced
    /\ waiting' = [waiting EXCEPT ![th] = NotWaiting]
    /\ LET c == waiting[th].ctx
           s == waiting[th].surf
       IN  IF CanBegin(c, s) /\ surface[s].state # "error" THEN Begin(c, s)
           ELSE UNCHANGED <<session, target, ending, shared, nextPts, eos,
                            surface, broker>>

(* vaSyncSurface and vaQuerySurfaceStatus drain on behalf of a pending     *)
(* surface; the private progress call drains on behalf of a context.       *)
sync_surface(s) ==
    /\ Unlocked /\ surface[s].state = "pending"
    /\ surface[s].ctx \in Contexts /\ Live(surface[s].ctx)
    /\ \E r \in {-1, 0, 1} : drain_one_output(surface[s].ctx, r)
    /\ UNCHANGED <<calls, up>>

progress_eos(c) ==
    /\ Unlocked /\ Live(c)
    /\ \E r \in {-1, 0, 1} : eos_progress(c, r)
    /\ UNCHANGED <<calls, up>>

signal_eos_anytime(c) ==
    /\ Unlocked /\ Live(c)
    /\ eos[c] \in {"OPEN", "SIGNAL_PENDING"}
    /\ up[c] /\ eos' = [eos EXCEPT ![c] = "DRAINING"]
    /\ ended' = [ended EXCEPT ![c] = "queued"]
    /\ UNCHANGED <<calls, surface, up, decoder, dropped, leases>>

signal_eos_unsent(c) ==
    /\ Unlocked /\ Live(c) /\ target[c] = NoSurface
    /\ eos[c] \in {"OPEN", "SIGNAL_PENDING"}
    /\ up[c] /\ eos' = [eos EXCEPT ![c] = "DRAINING"]
    /\ UNCHANGED <<calls, surface, broker>>

signal_eos(c) ==
    /\ Unlocked /\ Live(c) /\ target[c] = NoSurface
    /\ eos[c] \in {"OPEN", "SIGNAL_PENDING"}
    /\ \/ /\ up[c] /\ eos' = [eos EXCEPT ![c] = "DRAINING"]
          /\ ended' = [ended EXCEPT ![c] = "queued"]
       \/ up[c] /\ eos' = [eos EXCEPT ![c] = "SIGNAL_PENDING"] /\ UNCHANGED ended
       \/ eos' = [eos EXCEPT ![c] = "FAILED"] /\ UNCHANGED ended
    /\ UNCHANGED <<calls, surface, up, decoder, dropped, leases>>
-----------------------------------------------------------------------------
(* vaEndPicture.  A picture that is incomplete, malformed, or comes after  *)
(* the last time stamp is refused before anything is sent.  Otherwise the  *)
(* parameter sets go first, if the codec has them apart and they changed.  *)
end_picture_refused(c) ==
    /\ Unlocked /\ target[c] # NoSurface
    /\ target' = [target EXCEPT ![c] = NoSurface]
    /\ UNCHANGED <<session, waiting, ending, shared, nextPts, eos, surface,
                   broker>>

end_picture(c) ==
    /\ Unlocked /\ target[c] # NoSurface
    /\ surface[target[c]].state # "none"
    /\ nextPts <= MaxPts
    /\ nextPts' = nextPts + 1
    /\ \E stage \in {"config", "reserve"} :
          /\ ending' = [ctx |-> c, pts |-> nextPts, stage |-> stage]
    /\ UNCHANGED <<session, target, waiting, shared, eos, surface, broker>>

Finish(c) ==
    /\ ending' = NotEnding
    /\ target' = [target EXCEPT ![c] = NoSurface]

(* Only a failure to queue the unit itself returns the destination, and it *)
(* is whichever destination the surface has by then.                       *)
FailPicture(c, s) ==
    /\ Finish(c)
    /\ IF ending.stage \in {"unit", "unit failed"} /\ surface[s].reserved
       THEN release_surface_output(s, IdleSurface)
       ELSE UNCHANGED <<surface, leases>>

(* queue_bytes_with_drain holds a unit the decoder has no room for: one    *)
(* output is drained, and an error ends the attempt, as its 5000 rounds do.*)

queue_drains(c) ==
    /\ ending.ctx = c /\ ending.stage \in {"config", "unit"}
    /\ \E r \in {0, 1} : drain_one_output(c, r)
    /\ UNCHANGED <<calls, up>>

(* The drain ended in an error: the picture fails in the next step.        *)
queue_drain_fails(c) ==
    /\ ending.ctx = c /\ ending.stage \in {"config", "unit"}
    /\ drain_one_output(c, -1)
    /\ ending' = [ending EXCEPT !.stage =
                     IF @ = "unit" THEN "unit failed" ELSE "failed"]
    /\ UNCHANGED <<session, target, waiting, shared, nextPts, up>>

queue_fails(c) ==
    /\ ending.ctx = c
    /\ FailPicture(c, target[c])
    /\ UNCHANGED <<session, waiting, shared, nextPts, eos, up, decoder,
                   dropped, ended>>

queue_config(c) ==
    /\ ending.ctx = c /\ ending.stage = "config" /\ up[c]
    /\ ending' = [ending EXCEPT !.stage = "reserve"]
    /\ UNCHANGED <<session, target, waiting, shared, nextPts, eos, surface, broker>>

(* The destination is reserved only when the gateway offers it.            *)
reserve_surface_linear(c) ==
    /\ ending.ctx = c /\ ending.stage = "reserve"
    /\ ending' = [ending EXCEPT !.stage = "unit"]
    /\ IF c \notin Async THEN UNCHANGED <<surface, leases>>
       ELSE /\ up[c]
            /\ surface' = [surface EXCEPT
                   ![target[c]] = [@ EXCEPT !.pts = ending.pts, !.ctx = c,
                                            !.sess = session[c],
                                            !.lease = <<"r", ending.pts>>,
                                            !.reserved = TRUE]]
            /\ leases' = [leases EXCEPT ![c] = @ \cup {<<"r", ending.pts>>}]
    /\ UNCHANGED <<session, target, waiting, shared, nextPts, eos, up,
                   decoder, dropped, ended>>

queue_unit(c) ==
    /\ ending.ctx = c /\ ending.stage = "unit" /\ up[c]
    /\ decoder' = [decoder EXCEPT ![c] = @ \cup {ending.pts}]
    /\ surface' = [surface EXCEPT
           ![target[c]] = [@ EXCEPT !.state = "pending", !.pts = ending.pts,
                                    !.ctx = c, !.sess = session[c]]]
    /\ Finish(c)
    /\ UNCHANGED <<session, waiting, shared, nextPts, eos, up, dropped,
                   ended, leases>>
-----------------------------------------------------------------------------
(* The other side.  A decoder need not show a unit it took; a connection   *)
(* may die, and everything the broker held for it goes with it.            *)
DecoderDrops(c) ==
    /\ \E p \in decoder[c] :
          /\ decoder' = [decoder EXCEPT ![c] = @ \ {p}]
          /\ dropped' = [dropped EXCEPT ![c] = @ \cup {p}]
    /\ UNCHANGED <<calls, eos, surface, up, ended, leases>>

ConnectionDies(c) ==
    /\ Live(c) /\ up[c]
    /\ up' = [up EXCEPT ![c] = FALSE]
    /\ dropped' = [dropped EXCEPT ![c] = @ \cup decoder[c]]
    /\ decoder' = [decoder EXCEPT ![c] = {}]
    /\ leases' = [leases EXCEPT ![c] = {}]
    /\ UNCHANGED <<calls, eos, surface, ended>>

Submit(c) ==
    \/ end_picture_refused(c) \/ end_picture(c)
    \/ queue_drains(c) \/ queue_drain_fails(c) \/ queue_fails(c)
    \/ queue_config(c) \/ reserve_surface_linear(c) \/ queue_unit(c)

Next ==
    \/ runtime_destroy
    \/ \E s \in Surfaces :
          create_surfaces(s) \/ destroy_surfaces(s) \/ sync_surface(s)
    \/ \E th \in Threads : begin_picture_synced(th) \/ begin_picture_resumes(th)
    \/ \E c \in Contexts :
          \/ create_context(c) \/ destroy_context(c)
          \/ \E s \in Surfaces :
                begin_picture(c, s)
                \/ \E th \in Threads : begin_picture_waits(th, c, s)
          \/ Submit(c) \/ signal_eos(c) \/ progress_eos(c)
          \/ DecoderDrops(c) \/ ConnectionDies(c)

Spec == Init /\ [][Next]_vars

(* A client that drains a stream to its end calls the progress function    *)
(* again and again, and its broker does not answer "nothing yet" for ever: *)
(* a frame comes, or the end, or the failure of a dead connection.         *)
EosAnswers(c) ==
    /\ progress_eos(c)
    /\ \/ decoder' # decoder
       \/ eos'[c] = "COMPLETE" /\ eos[c] # "COMPLETE"
       \/ ~up[c] /\ eos' # eos

(* vaEndPicture does not keep the mutex: its rounds are counted.           *)
EndPictureMoves ==
    ~Unlocked /\ (\E c \in Contexts : Submit(c)) /\ ending' # ending

FairSpec ==
    /\ Spec
    /\ WF_vars(EndPictureMoves)
    /\ \A c \in Contexts : SF_vars(EosAnswers(c))
-----------------------------------------------------------------------------
(* No output is lost track of: whatever the broker still has out is the    *)
(* lease of a surface of that context and session, which will return it.   *)
(* vaEndPicture does not look at what its surface holds, so this is        *)
(* promised to a context until it begins a picture on a surface on which   *)
(* another context has one, or the other way round; destroying the context *)
(* makes good for it.                                                      *)
NoLeaseLost ==
    \A c \in Contexts \ shared : \A l \in leases[c] :
        \E s \in OwnedBy(c) : surface[s].lease = l /\ surface[s].sess = session[c]

(* Nor does a surface show a picture that was returned: its output is no   *)
(* other surface's, its owner still runs the session, and unless the owner *)
(* shared a surface as above, the output is under the surface's own time   *)
(* stamp and out on the owner's connection.  An output is therefore        *)
(* returned at most once, and no context that keeps to its surfaces loses  *)
(* one to contexts that do not.                                            *)
PictureHeld ==
    \A s \in Surfaces :
        LET r == surface[s] IN
        r.lease[1] = "o" =>
            /\ r.ctx \in Contexts /\ session[r.ctx] = r.sess
            /\ \A t \in Surfaces \ {s} : surface[t].lease # r.lease
            /\ r.ctx \notin shared =>
                  /\ r.lease[2] = r.pts
                  /\ up[r.ctx] => r.lease \in leases[r.ctx]

(* A surface waits only for what can still come: its context and session   *)
(* are alive, and its unit is with the decoder unless the decoder, the     *)
(* gateway or the connection lost it, or is about to be queued by the call *)
(* that holds the mutex.  Nothing the runtime dequeued is forgotten, and   *)
(* the end of the stream least of all: once it is consumed the machine of  *)
(* its context has stopped, and when that completed, no unit is left       *)
(* behind and no surface of the context waits.                             *)
PendingAwaited ==
    /\ \A s \in Surfaces :
          LET r == surface[s] IN
          r.state = "pending" =>
              /\ r.ctx \in Contexts /\ session[r.ctx] = r.sess
              /\ \/ r.pts \in decoder[r.ctx] \cup dropped[r.ctx]
                 \/ r.ctx = ending.ctx /\ target[r.ctx] = s /\ r.pts = ending.pts
    /\ \A c \in Contexts :
          /\ ended[c] = "done" => eos[c] \in {"COMPLETE", "FAILED"}
          /\ eos[c] = "COMPLETE" =>
                /\ ended[c] = "done"
                /\ decoder[c] = {}
                /\ \A s \in OwnedBy(c) : surface[s].state # "pending"

(* Nothing is queued behind the end of the stream, whatever vaBeginPicture *)
(* waited for in between.                                                  *)
NothingAfterEos ==
    [][\A c \in Contexts :
         eos[c] # "OPEN" => decoder'[c] \subseteq decoder[c]]_vars

(* A drained stream ends: once the end of the stream is queued and the     *)
(* client goes on asking, its machine completes or fails, or the context   *)
(* is destroyed.  The client also reuses or destroys surfaces, so that the *)
(* output window does not stay full.                                       *)
EosDrains ==
    \A c \in Contexts :
        []<>WindowOpen(c) => (eos[c] = "DRAINING" ~> eos[c] # "DRAINING")

=============================================================================
