---------------------------- MODULE SessionEngine ----------------------------
(***************************************************************************)
(* The ADVC session engine as the broker drives it for one connection at a *)
(* time: advc_broker_handle_once receives a request, the engine handles    *)
(* it, the reply is sent, after_reply moves a native buffer across the     *)
(* same socket, and every descriptor of the two messages is closed.  When  *)
(* any of those steps fails the connection ends and the engine is          *)
(* destroyed; the next connection starts with a fresh engine.              *)
(*                                                                         *)
(* What the engine must never get wrong is ownership: of the codec behind  *)
(* each session, of the codec's output images, of the dma-bufs a client    *)
(* registered and of every file descriptor.  So the model keeps, beside    *)
(* the engine's own tables, the books of the two other parties: the        *)
(* kernel's descriptor table (open) and the codec backend (live, lent).    *)
(* misuse records an operation the other party would have refused or been  *)
(* corrupted by: a close of a closed descriptor, a release of an image not *)
(* lent, a second destroy, a destroy with images still out.                *)
(*                                                                         *)
(* A request that leaves the engine's tables alone (HELLO, PING, a byte    *)
(* QUEUE_INPUT, every refusal) is the one action NoEffect; payloads,       *)
(* dimensions and presentation times are left out.                         *)
(***************************************************************************)
EXTENDS Integers, FiniteSets

CONSTANTS
    MaxSessions,     \* ADVC_MAX_SESSIONS
    MaxOutputs,      \* ADVC_MAX_OUTSTANDING_OUTPUTS
    MaxRegistered,   \* ADVC_MAX_REGISTERED_DMABUFS
    MaxInflight,     \* ADVC_MAX_INFLIGHT_DMABUFS
    SessionIdSpace,  \* 2^32 in the code: session ids are taken modulo this
    OutputIdBound,   \* bound of the model on the 64-bit output ids
    MaxBufferId,     \* the client's buffer ids are 1..MaxBufferId
    Tokens,          \* the images and codec buffers a backend can lend
    Fds,             \* descriptor numbers of the broker process
    Transports       \* the transports clients of this instance ask for

ASSUME SizeAssumption ==
    /\ MaxSessions \in Nat \ {0}
    /\ MaxOutputs \in Nat \ {0}
    /\ MaxRegistered \in Nat \ {0}
    /\ MaxInflight \in Nat \ {0}
    /\ MaxBufferId \in Nat
    /\ OutputIdBound \in Nat
    /\ SessionIdSpace \in Nat
    /\ SessionIdSpace > MaxSessions + 1

NoToken == "no token"
NoFd == "no descriptor"

ASSUME NameAssumption == NoToken \notin Tokens /\ NoFd \notin Fds

(* Only an AHARDWAREBUFFER session is decode-only; SURFACE                 *)
(* (ANDROID_AHB_SURFACE), EGL and DMABUF sessions only encode.  BYTES does *)
(* both, and the engine's tables do not tell the two apart.                *)
AllTransports == {"BYTES", "AHB", "EGL", "SURFACE", "DMABUF"}

ASSUME TransportAssumption == Transports \subseteq AllTransports

VARIABLES
    phase,       \* where the connection's thread is in its loop
    msg,         \* the request being answered
    used,        \* used[s]: session slot s holds a session
    sid,         \* its id
    transport,   \* its transport
    outs,        \* its outputs[] table
    ahb,         \* its pending_ahb_state: 0 none, 1 await handle, 2 complete
    entry,       \* its dma-buf registry: "none", "idle" or "flight" per id
    registered,  \* the registry's registered_count
    inflight,    \* the registry's inflight_count
    comps,       \* its dmabuf_completions[]: a buffer id, or 0 when free
    nextSid,     \* next_session_id
    nextOut,     \* next_output_id
    fd,          \* which descriptor each holder of the broker holds
    open,        \* the kernel: the descriptors that are open
    live,        \* the backend: slots whose codec exists
    lent,        \* the backend: the images lent to the session of a slot
    misuse       \* some party's contract has been broken

tables == <<used, sid, transport, outs, ahb, entry, registered, inflight,
            comps, nextSid, nextOut>>
backend == <<live, lent>>
vars == <<phase, msg, tables, fd, open, backend, misuse>>

Slots == 1..MaxSessions
OutSlots == 1..MaxOutputs
BufferIds == 1..MaxBufferId
CompSlots == 1..MaxInflight

(* The places in the broker that own a descriptor: the request and the     *)
(* reply being handled, the two fences of an AHB input, the duplicated     *)
(* objects of a registered dma-buf (one stands for all of a buffer) and    *)
(* the release fence of a finished submission.                             *)
Req == <<"request", 0, 0>>
Rep == <<"reply", 0, 0>>
Acq(s) == <<"acquire", s, 0>>
Rel(s) == <<"release", s, 0>>
Obj(s, b) == <<"objects", s, b>>
Done(s, k) == <<"done", s, k>>

MsgHolders == {Req, Rep}
FenceHolders(s) == {Acq(s), Rel(s)}
DmabufHolders(s) == {Obj(s, b) : b \in BufferIds} \cup {Done(s, k) : k \in CompSlots}
SlotHolders(s) == FenceHolders(s) \cup DmabufHolders(s)
Holders == MsgHolders \cup UNION {SlotHolders(s) : s \in Slots}

FreeOutput ==
    [in_use |-> FALSE, id |-> 0, token |-> NoToken,
     transferred |-> FALSE, prime |-> FALSE, sends |-> 0]

NoMsg == [op |-> "NONE", slot |-> 0, out |-> 0, follows |-> FALSE]

Outputs ==
    [in_use : BOOLEAN, id : 0..OutputIdBound, token : Tokens \cup {NoToken},
     transferred : BOOLEAN, prime : BOOLEAN, sends : Nat]

Msgs == [op : {"NONE", "OTHER", "QUEUE_AHB", "TRANSFER_AHB"},
         slot : 0..MaxSessions, out : 0..MaxOutputs, follows : BOOLEAN]
-----------------------------------------------------------------------------
(* Descriptor bookkeeping.  Held: what a set of holders owns.  Swept:      *)
(* those holders emptied.                                                  *)
Held(H) == {fd[h] : h \in H} \ {NoFd}

Swept(f, H) == [h \in Holders |-> IF h \in H THEN NoFd ELSE f[h]]

(* The kernel accepts a close of an open descriptor only; each descriptor  *)
(* closed here is owned by one holder.                                     *)
BadClose(F) == ~(F \subseteq open)

(* A descriptor that arrived or was created, or none: what follows a dup,  *)
(* a received fence or a memfd.                                            *)
FreshOrNone(F) == (Fds \ F) \cup {NoFd}

Opened(F, f) == IF f = NoFd THEN F ELSE F \cup {f}
-----------------------------------------------------------------------------
Init ==
    /\ phase = "idle"
    /\ msg = NoMsg
    /\ used = [s \in Slots |-> FALSE]
    /\ sid = [s \in Slots |-> 0]
    /\ transport = [s \in Slots |-> "BYTES"]
    /\ outs = [s \in Slots |-> [o \in OutSlots |-> FreeOutput]]
    /\ ahb = [s \in Slots |-> 0]
    /\ entry = [s \in Slots |-> [b \in BufferIds |-> "none"]]
    /\ registered = [s \in Slots |-> 0]
    /\ inflight = [s \in Slots |-> 0]
    /\ comps = [s \in Slots |-> [k \in CompSlots |-> 0]]
    /\ nextSid = 1
    /\ nextOut = 1
    /\ fd = [h \in Holders |-> NoFd]
    /\ open = {}
    /\ live = {}
    /\ lent = [s \in Slots |-> {}]
    /\ misuse = FALSE

(* Every handler ends the same way: the reply is ready to be sent, and the *)
(* request keeps the descriptor it arrived with.                           *)
Reply(op, s, o, follows) ==
    /\ phase = "idle"
    /\ phase' = "send"
    /\ msg' = [op |-> op, slot |-> s, out |-> o, follows |-> follows]

(* find_session succeeded and no AHB handshake stops the request.          *)
Served(s) == used[s] /\ ahb[s] = 0

(* HELLO, PING, QUERY_CAPABILITIES, QUEUE_INPUT, unknown operations and    *)
(* every request refused before a table changed.                           *)
NoEffect(r) ==
    /\ Reply("OTHER", 0, 0, FALSE)
    /\ r \in FreshOrNone(open)
    /\ fd' = [fd EXCEPT ![Req] = r]
    /\ open' = Opened(open, r)
    /\ UNCHANGED <<tables, backend, misuse>>

(* Session ids count up, skip zero and the ids of live sessions, and wrap. *)
(* Between is the stretch of candidates the loop passed over.              *)
Between(from, to) ==
    {c \in 0..(SessionIdSpace - 1) :
        IF from <= to THEN c >= from /\ c < to ELSE c >= from \/ c < to}

SkippedId_zero_only(c) == c = 0

SkippedId(c) == c = 0 \/ \E s \in Slots : used[s] /\ sid[s] = c

allocate_session_id(id) ==
    /\ id \in 0..(SessionIdSpace - 1)
    /\ ~SkippedId(id)
    /\ \A c \in Between(nextSid, id) : SkippedId(c)
    /\ nextSid' = (id + 1) % SessionIdSpace

(* A create that gets as far as the codec.  The registry of a DMABUF       *)
(* session may fail to allocate; the codec is then destroyed again.        *)
handle_create(s, t, id) ==
    /\ Reply("OTHER", 0, 0, FALSE)
    /\ ~used[s]
    /\ \A p \in Slots : p < s => used[p]
    /\ t \in Transports
    /\ allocate_session_id(id)
    /\ used' = [used EXCEPT ![s] = TRUE]
    /\ sid' = [sid EXCEPT ![s] = id]
    /\ transport' = [transport EXCEPT ![s] = t]
    /\ outs' = [outs EXCEPT ![s] = [o \in OutSlots |-> FreeOutput]]
    /\ ahb' = [ahb EXCEPT ![s] = 0]
    /\ entry' = [entry EXCEPT ![s] = [b \in BufferIds |-> "none"]]
    /\ registered' = [registered EXCEPT ![s] = 0]
    /\ inflight' = [inflight EXCEPT ![s] = 0]
    /\ comps' = [comps EXCEPT ![s] = [k \in CompSlots |-> 0]]
    /\ live' = live \cup {s}
    /\ misuse' = (misuse \/ s \in live)
    /\ UNCHANGED <<nextOut, fd, open, lent>>

handle_create_without_registry(s) ==
    /\ Reply("OTHER", 0, 0, FALSE)
    /\ ~used[s]
    /\ "DMABUF" \in Transports
    /\ live' = (live \cup {s}) \ {s}
    /\ misuse' = (misuse \/ s \in live)
    /\ UNCHANGED <<tables, fd, open, lent>>
-----------------------------------------------------------------------------
(* Output ids count up from one; the bound stands for 2^64.                *)
allocate_output_id == nextOut <= OutputIdBound /\ nextOut' = nextOut + 1

free_output_slot(s, o) ==
    /\ ~outs[s][o].in_use
    /\ \A p \in OutSlots : p < o => outs[s][p].in_use

(* The backend's release_output: the image must be one it lent.            *)
BadRelease(s, T) == ~(s \in live /\ T \subseteq lent[s])

release_output_skipped(s, T) == lent' = lent

release_output(s, T) == lent' = [lent EXCEPT ![s] = @ \ T]

(* Bytes, and the end-of-stream record of any session: the codec buffer is *)
(* copied into a sealed memfd and given back before the reply.             *)
handle_dequeue_bytes(s, o, f) ==
    /\ Reply("OTHER", 0, 0, FALSE)
    /\ Served(s)
    /\ free_output_slot(s, o)
    /\ allocate_output_id
    /\ f \in Fds \ open
    /\ fd' = [fd EXCEPT ![Rep] = f]
    /\ open' = open \cup {f}
    /\ outs' = [outs EXCEPT ![s][o] = [FreeOutput EXCEPT !.in_use = TRUE,
                                                         !.id = nextOut]]
    /\ UNCHANGED <<used, sid, transport, ahb, entry, registered, inflight,
                   comps, nextSid, backend, misuse>>

(* A decoded image: the slot keeps it, its acquire fence goes to the       *)
(* client with the reply.                                                  *)
handle_dequeue_image(s, o, token, f) ==
    /\ Reply("OTHER", 0, 0, FALSE)
    /\ Served(s)
    /\ transport[s] = "AHB"
    /\ free_output_slot(s, o)
    /\ allocate_output_id
    /\ token \in Tokens \ lent[s]
    /\ f \in FreshOrNone(open)
    /\ fd' = [fd EXCEPT ![Rep] = f]
    /\ open' = Opened(open, f)
    /\ outs' = [outs EXCEPT ![s][o] = [FreeOutput EXCEPT !.in_use = TRUE,
                                                         !.id = nextOut,
                                                         !.token = token]]
    /\ lent' = [lent EXCEPT ![s] = @ \cup {token}]
    /\ UNCHANGED <<used, sid, transport, ahb, entry, registered, inflight,
                   comps, nextSid, live, misuse>>

(* RELEASE_OUTPUT.  A release fence r is duplicated and the backend        *)
(* consumes the duplicate, so only the request's own descriptor remains.   *)
(* Byte output takes no fence, and its codec buffer is already back.       *)
handle_release(s, o, r) ==
    LET token == outs[s][o].token
    IN  /\ Reply("OTHER", 0, 0, FALSE)
        /\ Served(s)
        /\ outs[s][o].in_use
        /\ r \in FreshOrNone(open)
        /\ token = NoToken => r = NoFd
        /\ fd' = [fd EXCEPT ![Req] = r]
        /\ open' = Opened(open, r)
        /\ release_output(s, {token})
        /\ misuse' = (misuse \/ (token # NoToken /\ BadRelease(s, {token})))
        /\ outs' = [outs EXCEPT ![s][o] = FreeOutput]
        /\ UNCHANGED <<used, sid, transport, ahb, entry, registered, inflight,
                       comps, nextSid, nextOut, live>>

(* TRANSFER_AHB only announces the native buffer; after_reply sends it.    *)
handle_transfer_ahb(s, o) ==
    /\ Served(s)
    /\ outs[s][o].in_use
    /\ outs[s][o].token # NoToken
    /\ ~outs[s][o].transferred
    /\ Reply("TRANSFER_AHB", s, o, TRUE)
    /\ UNCHANGED <<tables, fd, open, backend, misuse>>

(* TRANSFER_PRIME hands the exported objects over with the reply.  A       *)
(* failed export closes them again and leaves the output transferable.     *)
handle_transfer_prime(s, o, f) ==
    /\ Reply("OTHER", 0, 0, FALSE)
    /\ Served(s)
    /\ transport[s] = "AHB"
    /\ outs[s][o].in_use
    /\ outs[s][o].token # NoToken
    /\ ~outs[s][o].prime
    /\ f \in Fds \ open
    /\ fd' = [fd EXCEPT ![Rep] = f]
    /\ open' = open \cup {f}
    /\ outs' = [outs EXCEPT ![s][o].prime = TRUE]
    /\ UNCHANGED <<used, sid, transport, ahb, entry, registered, inflight,
                   comps, nextSid, nextOut, backend, misuse>>
-----------------------------------------------------------------------------
(* QUEUE_AHB: the fence r of the request is duplicated into d, and the     *)
(* session waits for the native handle that follows the reply.             *)
handle_queue_ahb(s, r, d) ==
    /\ Reply("QUEUE_AHB", s, 0, TRUE)
    /\ Served(s)
    /\ transport[s] = "SURFACE"
    /\ r \in FreshOrNone(open)
    /\ d \in FreshOrNone(Opened(open, r))
    /\ r = NoFd <=> d = NoFd
    /\ fd' = [fd EXCEPT ![Req] = r, ![Acq(s)] = d, ![Rel(s)] = NoFd]
    /\ open' = Opened(Opened(open, r), d)
    /\ ahb' = [ahb EXCEPT ![s] = 1]
    /\ UNCHANGED <<used, sid, transport, outs, entry, registered, inflight,
                   comps, nextSid, nextOut, backend, misuse>>

(* COMPLETE_AHB moves the release fence into the reply.                    *)
handle_complete_ahb(s) ==
    /\ Reply("OTHER", 0, 0, FALSE)
    /\ used[s]
    /\ transport[s] = "SURFACE"
    /\ ahb[s] = 2
    /\ fd' = [fd EXCEPT ![Rep] = fd[Rel(s)], ![Rel(s)] = NoFd, ![Acq(s)] = NoFd]
    /\ ahb' = [ahb EXCEPT ![s] = 0]
    /\ UNCHANGED <<used, sid, transport, outs, entry, registered, inflight,
                   comps, nextSid, nextOut, open, backend, misuse>>
-----------------------------------------------------------------------------
(* REGISTER_DMABUF: the objects r of the request are duplicated into d.    *)
(* The registry trusts registered_count, not a scan, for its limit.        *)
handle_register_dmabuf(s, b, r, d) ==
    /\ Reply("OTHER", 0, 0, FALSE)
    /\ Served(s)
    /\ transport[s] = "DMABUF"
    /\ entry[s][b] = "none"
    /\ registered[s] < MaxRegistered
    /\ r \in Fds \ open
    /\ d \in Fds \ (open \cup {r})
    /\ fd' = [fd EXCEPT ![Req] = r, ![Obj(s, b)] = d]
    /\ open' = open \cup {r, d}
    /\ entry' = [entry EXCEPT ![s][b] = "idle"]
    /\ registered' = [registered EXCEPT ![s] = @ + 1]
    /\ UNCHANGED <<used, sid, transport, outs, ahb, inflight, comps, nextSid,
                   nextOut, backend, misuse>>

Unregistrable_even_in_flight(s, b) == entry[s][b] # "none"

Unregistrable(s, b) == entry[s][b] = "idle"

handle_unregister_dmabuf(s, b) ==
    /\ Reply("OTHER", 0, 0, FALSE)
    /\ Served(s)
    /\ transport[s] = "DMABUF"
    /\ Unregistrable(s, b)
    /\ fd' = [fd EXCEPT ![Obj(s, b)] = NoFd]
    /\ open' = open \ Held({Obj(s, b)})
    /\ misuse' = (misuse \/ BadClose(Held({Obj(s, b)})))
    /\ entry' = [entry EXCEPT ![s][b] = "none"]
    /\ registered' = [registered EXCEPT ![s] = @ - 1]
    /\ UNCHANGED <<used, sid, transport, outs, ahb, inflight, comps, nextSid,
                   nextOut, backend>>

(* QUEUE_DMABUF that the backend accepts.  Its acquire fence r is          *)
(* duplicated and the backend consumes the duplicate; f is the release     *)
(* fence it returns, kept in the completion slot k.                        *)
handle_queue_dmabuf(s, b, k, r, f) ==
    /\ Reply("OTHER", 0, 0, FALSE)
    /\ Served(s)
    /\ transport[s] = "DMABUF"
    /\ comps[s][k] = 0
    /\ \A j \in CompSlots : j < k => comps[s][j] # 0
    /\ entry[s][b] = "idle"
    /\ inflight[s] < MaxInflight
    /\ r \in FreshOrNone(open)
    /\ f \in FreshOrNone(Opened(open, r))
    /\ fd' = [fd EXCEPT ![Req] = r, ![Done(s, k)] = f]
    /\ open' = Opened(Opened(open, r), f)
    /\ entry' = [entry EXCEPT ![s][b] = "flight"]
    /\ inflight' = [inflight EXCEPT ![s] = @ + 1]
    /\ comps' = [comps EXCEPT ![s][k] = b]
    /\ UNCHANGED <<used, sid, transport, outs, ahb, registered, nextSid,
                   nextOut, backend, misuse>>

(* The registry takes the in-flight mark of a buffer back: e and n are its *)
(* entries and its count before.                                           *)
Finish(e, n, s, b) ==
    /\ entry' = [e EXCEPT ![s][b] = "idle"]
    /\ inflight' = [n EXCEPT ![s] = @ - 1]

Unqueue_unfinished(e, n, s, b) == entry' = e /\ inflight' = n

Unqueue(e, n, s, b) == Finish(e, n, s, b)

(* QUEUE_DMABUF that the backend fails, or answers with a fence that is    *)
(* none: the registry has marked the buffer by then, and the fence f the   *)
(* backend may have returned is open.  The one is finished, the other      *)
(* closed.                                                                 *)
handle_queue_dmabuf_fails(s, b, r, f) ==
    /\ Reply("OTHER", 0, 0, FALSE)
    /\ Served(s)
    /\ transport[s] = "DMABUF"
    /\ \E k \in CompSlots : comps[s][k] = 0
    /\ entry[s][b] = "idle"
    /\ inflight[s] < MaxInflight
    /\ r \in FreshOrNone(open)
    /\ f \in FreshOrNone(Opened(open, r))
    /\ fd' = [fd EXCEPT ![Req] = r]
    /\ open' = Opened(Opened(open, r), f) \ {f}
    /\ Unqueue([entry EXCEPT ![s][b] = "flight"],
               [inflight EXCEPT ![s] = @ + 1], s, b)
    /\ UNCHANGED <<used, sid, transport, outs, ahb, registered, comps, nextSid,
                   nextOut, backend, misuse>>

Collect(s, k) == fd' = [fd EXCEPT ![Rep] = fd[Done(s, k)], ![Done(s, k)] = NoFd]

(* COMPLETE_DMABUF: the registry must still have the buffer in flight; the *)
(* release fence moves into the reply.                                     *)
handle_complete_dmabuf(s, k) ==
    LET b == comps[s][k]
    IN  /\ Reply("OTHER", 0, 0, FALSE)
        /\ Served(s)
        /\ transport[s] = "DMABUF"
        /\ b # 0
        /\ entry[s][b] = "flight"
        /\ Collect(s, k)
        /\ Finish(entry, inflight, s, b)
        /\ comps' = [comps EXCEPT ![s][k] = 0]
        /\ UNCHANGED <<used, sid, transport, outs, ahb, registered, nextSid,
                       nextOut, open, backend, misuse>>
-----------------------------------------------------------------------------
(* The images a session's outputs hold: what release_outstanding gives     *)
(* back to the backend.                                                    *)
HeldTokens(s) == {outs[s][o].token : o \in OutSlots} \ {NoToken}

ClearOutputs_skipped(s) == outs' = outs

ClearOutputs(s) == outs' = [outs EXCEPT ![s] = [o \in OutSlots |-> FreeOutput]]

(* FLUSH of a codec that can be flushed; the backend refuses it for the    *)
(* surface encoders.  Every outstanding output id becomes invalid.         *)
handle_flush(s) ==
    /\ Reply("OTHER", 0, 0, FALSE)
    /\ Served(s)
    /\ transport[s] \in {"BYTES", "AHB"}
    /\ release_output(s, HeldTokens(s))
    /\ misuse' = (misuse \/ BadRelease(s, HeldTokens(s))
                         \/ BadClose(Held(FenceHolders(s))))
    /\ ClearOutputs(s)
    /\ fd' = Swept(fd, FenceHolders(s))
    /\ open' = open \ Held(FenceHolders(s))
    /\ ahb' = [ahb EXCEPT ![s] = 0]
    /\ UNCHANGED <<used, sid, transport, entry, registered, inflight, comps,
                   nextSid, nextOut, live>>

(* What closing the sessions in S leaves of the tables, of the backend's   *)
(* books and of the descriptors: release_outstanding, release_dmabuf_state,*)
(* the destruction of the codec and the cleared slot.                      *)
ClearedHolders(S) == UNION {SlotHolders(s) : s \in S}

ClosedHolders_outstanding_only(S) == UNION {FenceHolders(s) : s \in S}

ClosedHolders(S) == UNION {FenceHolders(s) \cup DmabufHolders(s) : s \in S}

BadDestroy(s) == s \notin live \/ lent[s] # HeldTokens(s)

CloseSessions(S) ==
    /\ used' = [s \in Slots |-> IF s \in S THEN FALSE ELSE used[s]]
    /\ sid' = [s \in Slots |-> IF s \in S THEN 0 ELSE sid[s]]
    /\ transport' = [s \in Slots |-> IF s \in S THEN "BYTES" ELSE transport[s]]
    /\ outs' = [s \in Slots |-> IF s \in S THEN [o \in OutSlots |-> FreeOutput]
                                           ELSE outs[s]]
    /\ ahb' = [s \in Slots |-> IF s \in S THEN 0 ELSE ahb[s]]
    /\ entry' = [s \in Slots |-> IF s \in S THEN [b \in BufferIds |-> "none"]
                                            ELSE entry[s]]
    /\ registered' = [s \in Slots |-> IF s \in S THEN 0 ELSE registered[s]]
    /\ inflight' = [s \in Slots |-> IF s \in S THEN 0 ELSE inflight[s]]
    /\ comps' = [s \in Slots |-> IF s \in S THEN [k \in CompSlots |-> 0]
                                            ELSE comps[s]]
    /\ fd' = Swept(fd, ClearedHolders(S))
    /\ open' = open \ Held(ClosedHolders(S))
    /\ live' = live \ S
    /\ lent' = [s \in Slots |-> IF s \in S THEN lent[s] \ HeldTokens(s)
                                           ELSE lent[s]]
    /\ misuse' = (misuse \/ BadClose(Held(ClosedHolders(S)))
                         \/ \E s \in S : BadRelease(s, HeldTokens(s))
                                         \/ BadDestroy(s))

handle_close(s) ==
    /\ Reply("OTHER", 0, 0, FALSE)
    /\ Served(s)
    /\ CloseSessions({s})
    /\ UNCHANGED <<nextSid, nextOut>>
-----------------------------------------------------------------------------
(* The reply leaves.  When it announces a native buffer, after_reply runs  *)
(* next; otherwise the messages' descriptors are closed and the loop       *)
(* receives again.  A reply that cannot be sent ends the connection.       *)
CloseMessages_reply_only ==
    /\ msg' = NoMsg
    /\ fd' = Swept(fd, MsgHolders)
    /\ open' = open \ Held({Rep})
    /\ UNCHANGED misuse

CloseMessages ==
    /\ msg' = NoMsg
    /\ fd' = Swept(fd, MsgHolders)
    /\ open' = open \ Held(MsgHolders)
    /\ misuse' = (misuse \/ BadClose(Held(MsgHolders)))

SendReply ==
    /\ phase = "send"
    /\ \/ /\ msg.follows
          /\ phase' = "after"
          /\ UNCHANGED <<msg, fd, open, misuse>>
       \/ /\ ~msg.follows
          /\ phase' = "idle"
          /\ CloseMessages
       \/ /\ phase' = "ended"
          /\ CloseMessages
    /\ UNCHANGED <<tables, backend>>

Received_unmarked(s) == ahb' = ahb

Received(s) == ahb' = [ahb EXCEPT ![s] = 2]

(* after_reply for QUEUE_AHB: the backend consumes the acquire fence on    *)
(* every return and may give a release fence f back.  A handle that does   *)
(* not arrive is fatal; an error never carries a fence any further.        *)
ConsumeAcquire(s) == {Req, Rep, Acq(s)}

after_reply_queue_ahb(f) ==
    LET s == msg.slot
    IN  /\ phase = "after"
        /\ msg.op = "QUEUE_AHB"
        /\ ahb[s] = 1
        /\ f \in FreshOrNone(open)
        /\ fd' = [Swept(fd, ConsumeAcquire(s)) EXCEPT ![Rel(s)] = f]
        /\ open' = Opened(open \ Held(ConsumeAcquire(s)), f)
        /\ misuse' = (misuse \/ BadClose(Held(ConsumeAcquire(s))))
        /\ Received(s)
        /\ phase' = "idle"
        /\ msg' = NoMsg
        /\ UNCHANGED <<used, sid, transport, outs, entry, registered, inflight,
                       comps, nextSid, nextOut, backend>>

after_reply_queue_ahb_fatal ==
    LET s == msg.slot
    IN  /\ phase = "after"
        /\ msg.op = "QUEUE_AHB"
        /\ fd' = Swept(fd, ConsumeAcquire(s))
        /\ open' = open \ Held(ConsumeAcquire(s))
        /\ misuse' = (misuse \/ BadClose(Held(ConsumeAcquire(s))))
        /\ ahb' = [ahb EXCEPT ![s] = 0]
        /\ phase' = "ended"
        /\ msg' = NoMsg
        /\ UNCHANGED <<used, sid, transport, outs, entry, registered, inflight,
                       comps, nextSid, nextOut, backend>>

Sent_unmarked(out) == [out EXCEPT !.sends = @ + 1]

Sent(out) == [out EXCEPT !.transferred = TRUE, !.sends = @ + 1]

(* after_reply for TRANSFER_AHB: the native buffer is sent once.           *)
after_reply_transfer_ahb ==
    LET s == msg.slot
        o == msg.out
    IN  /\ phase = "after"
        /\ msg.op = "TRANSFER_AHB"
        /\ CloseMessages
        /\ \/ /\ ~outs[s][o].transferred
              /\ outs' = [outs EXCEPT ![s][o] = Sent(@)]
              /\ phase' = "idle"
           \/ /\ phase' = "ended"
              /\ UNCHANGED outs
        /\ UNCHANGED <<used, sid, transport, ahb, entry, registered, inflight,
                       comps, nextSid, nextOut, backend>>

(* The peer goes away between requests.                                    *)
Disconnect ==
    /\ phase = "idle"
    /\ phase' = "ended"
    /\ UNCHANGED <<msg, tables, fd, open, backend, misuse>>

advc_session_engine_destroy ==
    /\ phase = "ended"
    /\ phase' = "closed"
    /\ CloseSessions({s \in Slots : used[s]})
    /\ nextSid' = 1
    /\ nextOut' = 1
    /\ UNCHANGED msg

(* The worker thread of the next connection creates its own engine.        *)
Accept ==
    /\ phase = "closed"
    /\ phase' = "idle"
    /\ UNCHANGED <<msg, tables, fd, open, backend, misuse>>
-----------------------------------------------------------------------------
OutputRequest(s) ==
    \E o \in OutSlots, f \in Fds \cup {NoFd} :
        \/ handle_dequeue_bytes(s, o, f)
        \/ \E token \in Tokens : handle_dequeue_image(s, o, token, f)
        \/ handle_release(s, o, f)
        \/ handle_transfer_prime(s, o, f)

DmabufRequest(s) ==
    \/ \E b \in BufferIds, r, d \in Fds \cup {NoFd} :
          \/ handle_register_dmabuf(s, b, r, d)
          \/ \E k \in CompSlots : handle_queue_dmabuf(s, b, k, r, d)
          \/ handle_queue_dmabuf_fails(s, b, r, d)
    \/ \E b \in BufferIds : handle_unregister_dmabuf(s, b)
    \/ \E k \in CompSlots : handle_complete_dmabuf(s, k)

Request ==
    \/ \E r \in Fds \cup {NoFd} : NoEffect(r)
    \/ \E s \in Slots :
          \/ \E t \in Transports, id \in 0..(SessionIdSpace - 1) :
                handle_create(s, t, id)
          \/ handle_create_without_registry(s)
          \/ OutputRequest(s)
          \/ \E o \in OutSlots : handle_transfer_ahb(s, o)
          \/ \E r, d \in Fds \cup {NoFd} : handle_queue_ahb(s, r, d)
          \/ handle_complete_ahb(s)
          \/ DmabufRequest(s)
          \/ handle_flush(s)
          \/ handle_close(s)

Answer ==
    \/ SendReply
    \/ \E f \in Fds \cup {NoFd} : after_reply_queue_ahb(f)
    \/ after_reply_queue_ahb_fatal
    \/ after_reply_transfer_ahb

Next ==
    \/ Request
    \/ Answer
    \/ Disconnect
    \/ advc_session_engine_destroy
    \/ Accept

Spec == Init /\ [][Next]_vars

(* The worker thread runs: a reply is sent, the wait for a native handle   *)
(* is bounded, and a finished loop destroys its engine.  Nothing obliges a *)
(* client to send a request.                                               *)
Fairness == WF_vars(Answer) /\ WF_vars(advc_session_engine_destroy)

FairSpec == Spec /\ Fairness
-----------------------------------------------------------------------------
LoopTypes ==
    /\ phase \in {"idle", "send", "after", "ended", "closed"}
    /\ msg \in Msgs

SessionTypes ==
    /\ used \in [Slots -> BOOLEAN]
    /\ sid \in [Slots -> 0..(SessionIdSpace - 1)]
    /\ transport \in [Slots -> AllTransports]
    /\ ahb \in [Slots -> 0..2]
    /\ nextSid \in 0..(SessionIdSpace - 1)

OutputTypes ==
    /\ outs \in [Slots -> [OutSlots -> Outputs]]
    /\ nextOut \in 1..(OutputIdBound + 1)

RegistryTypes ==
    /\ entry \in [Slots -> [BufferIds -> {"none", "idle", "flight"}]]
    /\ registered \in [Slots -> Int]
    /\ inflight \in [Slots -> Int]
    /\ comps \in [Slots -> [CompSlots -> 0..MaxBufferId]]

BookTypes ==
    /\ fd \in [Holders -> Fds \cup {NoFd}]
    /\ open \subseteq Fds
    /\ live \subseteq Slots
    /\ lent \in [Slots -> SUBSET Tokens]
    /\ misuse \in BOOLEAN

(* Type invariant: the engine's tables, the descriptor table and the       *)
(* backend's books have the shape the C structures give them.              *)
TypeOK ==
    /\ LoopTypes
    /\ SessionTypes
    /\ OutputTypes
    /\ RegistryTypes
    /\ BookTypes

(* The table f accounts for the descriptors F, each with one holder.       *)
Owned(f, F) ==
    /\ F = {f[h] : h \in Holders} \ {NoFd}
    /\ \A g, h \in Holders : f[g] = f[h] /\ f[g] # NoFd => g = h

(* Every open descriptor of the broker has exactly one holder that will    *)
(* close it, through duplication, hand-over to a reply, a failed send, a   *)
(* fatal handshake and teardown: nothing leaks, nothing is closed twice    *)
(* (advc_close_message_fds, release_outstanding, release_dmabuf_state).    *)
DescriptorsOwned == Owned(fd, open)

(* The codec backend has lent exactly the images that some in-use output   *)
(* slot will give back, each held by one slot, and a codec exists exactly  *)
(* for the sessions in use: RELEASE_OUTPUT, FLUSH, CLOSE and disconnection *)
(* return each image once and destroy each codec once.                     *)
ImagesOwned ==
    /\ live = {s \in Slots : used[s]}
    /\ \A s \in Slots :
          /\ lent[s] = HeldTokens(s)
          /\ \A o, p \in OutSlots :
                outs[s][o].token = outs[s][p].token /\ outs[s][o].token # NoToken
                    => o = p

(* No handler ever closes a descriptor that is not open, releases an image *)
(* the backend did not lend, or destroys a codec that is gone or still has *)
(* images out.                                                             *)
NoMisuse == ~misuse

(* The registry's counters count its entries.                              *)
CountersAgree ==
    \A s \in Slots :
        /\ registered[s] = Cardinality({b \in BufferIds : entry[s][b] # "none"})
        /\ inflight[s] = Cardinality({b \in BufferIds : entry[s][b] = "flight"})

(* A registered buffer is in flight exactly while one completion slot      *)
(* waits to be collected, so COMPLETE_DMABUF can always finish it and an   *)
(* accepted submission is never stuck in flight; the two counters the      *)
(* registry bases its limits on agree with its entries.                    *)
InflightAwaitsCompletion ==
    /\ \A s \in Slots :
          /\ \A b \in BufferIds :
                entry[s][b] = "flight" <=> \E k \in CompSlots : comps[s][k] = b
          /\ \A j, k \in CompSlots :
                comps[s][j] = comps[s][k] /\ comps[s][j] # 0 => j = k
    /\ CountersAgree

(* Live sessions keep distinct, nonzero ids across the wraparound of       *)
(* next_session_id, so find_session never reaches another session's state. *)
SessionIdsDistinct ==
    \A s, q \in Slots :
        used[s] => sid[s] # 0 /\ (used[q] /\ sid[q] = sid[s] => q = s)

(* An output id names one output of the connection and is never issued     *)
(* again: a client that releases or transfers a stale id after a flush or  *)
(* a close is refused instead of hitting a newer output.                   *)
OutputIdsFresh ==
    \A s, q \in Slots, o, p \in OutSlots :
        outs[s][o].in_use =>
            /\ outs[s][o].id # 0
            /\ outs[s][o].id < nextOut
            /\ outs[q][p].in_use /\ outs[q][p].id = outs[s][o].id => q = s /\ p = o

(* An id reaches the one session or output it was given out for, or        *)
(* nothing, over the wraparound of the one and the stale use of the other. *)
IdsNameOneThing == SessionIdsDistinct /\ OutputIdsFresh

(* TRANSFER_AHB sends the native buffer of an output at most once, although*)
(* the check and the mark are on different sides of the reply.             *)
NativeBufferSentOnce ==
    \A s \in Slots, o \in OutSlots : outs[s][o].sends <= 1

(* A finished connection leaves nothing behind in the broker process.      *)
NothingLeftBehind ==
    phase = "closed" =>
        /\ open = {}
        /\ live = {}
        /\ \A s \in Slots : lent[s] = {}

(* A QUEUE_AHB that was accepted does not stay waiting for its native      *)
(* handle: the bounded receive completes it or ends the connection.        *)
HandshakeEnds == \A s \in Slots : (ahb[s] = 1) ~> (ahb[s] # 1)

(* The dma-bufs registered with a session go through the life the protocol *)
(* promises their exporter (DmabufLending), in every session slot, whatever*)
(* the other requests and the other sessions do.                           *)
Known(s) == {b \in BufferIds : entry[s][b] # "none"}
Away(s) == {comps[s][k] : k \in CompSlots} \ {0}

Lending ==
    INSTANCE DmabufLending
    WITH Sessions <- Slots, Buffers <- BufferIds,
         known <- [s \in Slots |-> Known(s)], away <- [s \in Slots |-> Away(s)]

ImplementsLending == Lending!Spec
=============================================================================
