---------------------------- MODULE RepackGateway ----------------------------
(***************************************************************************)
(* One client worker of the repack gateway                                 *)
(* (video_bridge/tools/advc_repack_gateway.c) with its pool of linear      *)
(* destinations (turnip_repack_cache.c, turnip_prime_import.c).  The       *)
(* worker sits between a client and the codec broker: it forwards          *)
(* requests, but an output in the compressed layout is copied on the GPU   *)
(* into a destination of the pool and the broker's output is returned at   *)
(* once.  A client may reserve the destination before the frame exists.    *)
(*                                                                         *)
(* A worker serves one request at a time, so a handler is one action; its  *)
(* calls to the broker and to the GPU are what may go wrong in it.  A      *)
(* handler that returns -1 ends the worker, which lets go of everything;   *)
(* what follows is the worker of the next client.                          *)
(***************************************************************************)
EXTENDS Integers, FiniteSets

CONSTANTS Sessions,   \* sessions the client has open on this connection
          MaxSlots,   \* ADVC_GATEWAY_CACHE_SLOTS: table entries, pool slots
          MaxPts,     \* frames of a session
          MaxId,      \* outputs the broker hands out in one connection
          ResvIds,    \* reservation ids there are before they wrap (2^63)
          TokenLimit, \* lease tokens there are before they wrap (2^64)
          Modes,      \* the output policies: auto, linear, qcom
          GiveBack    \* whether clients release reservations never filled

ASSUME GatewayAssumption ==
    /\ MaxSlots \in Nat \ {0} /\ MaxPts \in Nat /\ MaxId \in Nat
    /\ ResvIds \in Nat /\ ResvIds > MaxSlots
    /\ TokenLimit \in Nat /\ TokenLimit > MaxSlots + 1
    /\ Modes \subseteq {"auto", "linear", "qcom"}
    /\ GiveBack \in BOOLEAN

Slots == 1..MaxSlots
Pts == 1..MaxPts
FirstResv == MaxId + 1
LastResv == MaxId + ResvIds

VARIABLES
    mode,      \* output_mode, fixed when the gateway starts
    validated, \* qcom_passthrough_validated
    outputs,   \* the worker's table of outputs and reservations
    pool,      \* leases and destinations of its pool, and the last token
    nextResv,  \* next_reservation_id
    upstream,  \* whether upstream_fd is open
    connects,  \* how often this worker has connected to the broker
    frames,    \* per session, the frames the broker will still deliver
    nextId,    \* the broker's next output id
    lent,      \* outputs the broker has out on this connection
    told,      \* outputs and reservations the client was given and still has, but
               \* for a reservation a failed dequeue has taken back
    torn       \* whether a destination was overwritten under a reader

vars == <<mode, validated, outputs, pool, nextResv, upstream, connects, frames,
          nextId, lent, told, torn>>

FreeOutput ==
    [used |-> FALSE, released |-> FALSE, resv |-> FALSE, sess |-> 0, id |-> 0,
     pts |-> 0, token |-> 0]

(* A destination: whether its image exists, whether a reader's fence is    *)
(* pending on it, whether one was dropped before a copy waited for it.     *)
NoDestination == [made |-> FALSE, fenced |-> FALSE, dropped |-> FALSE]
NewDestination == [NoDestination EXCEPT !.made = TRUE]

EmptyPool == [lease |-> [i \in Slots |-> 0],
              dest |-> [i \in Slots |-> NoDestination], last |-> 0]

FreshWorker ==
    /\ outputs = [i \in Slots |-> FreeOutput]
    /\ pool = EmptyPool
    /\ nextResv = FirstResv
    /\ upstream = FALSE
    /\ connects = 0
    /\ frames = [s \in Sessions |-> Pts]
    /\ nextId = 1
    /\ lent = {}
    /\ told = {}

Init ==
    /\ mode \in Modes
    /\ validated \in BOOLEAN
    /\ mode = "qcom" => validated
    /\ FreshWorker
    /\ torn = FALSE
-----------------------------------------------------------------------------
(* Leases.  allocate_token counts up, skips zero and the tokens in use.    *)
FirstOf(S) == CHOOSE i \in S : \A j \in S : i <= j

TokenAfter(t, k) == IF t + k < TokenLimit THEN t + k ELSE t + k - TokenLimit + 1

allocate_token_reusing(p) == IF p.last = 0 THEN 1 ELSE p.last

allocate_token(p) ==
    LET free == {k \in 1..(MaxSlots + 1) :
                    \A i \in Slots : p.lease[i] # TokenAfter(p.last, k)}
    IN  TokenAfter(p.last, FirstOf(free))

FreeSlot(p) == {i \in Slots : p.lease[i] = 0}

(* advc_repack_lease_acquire: the first free slot under a new token.       *)
lease_acquire(p) ==
    LET t == allocate_token(p)
        i == FirstOf(FreeSlot(p))
    IN  [p EXCEPT !.lease = [@ EXCEPT ![i] = t], !.last = t]

(* advc_repack_lease_find, 0 when the token is not leased.                 *)
lease_find(p, t) ==
    IF t # 0 /\ \E i \in Slots : p.lease[i] = t
    THEN FirstOf({i \in Slots : p.lease[i] = t}) ELSE 0

(* Slot i is not leased any more, and its destination is d.                *)
Unleased(p, i, d) ==
    [p EXCEPT !.lease = [@ EXCEPT ![i] = 0], !.dest = [@ EXCEPT ![i] = d]]

(* advc_turnip_linear_repack_pool_discard destroys the destination.        *)
pool_discard(p, t) ==
    LET i == lease_find(p, t)
    IN  IF i = 0 THEN p ELSE Unleased(p, i, NoDestination)

(* advc_turnip_linear_repack_pool_release keeps it for the next frame,     *)
(* with the fence its reader gave, if it gave one, in the place of one     *)
(* that is still pending.                                                  *)
pool_release(p, t, fence) ==
    LET i == lease_find(p, t)
    IN  Unleased(p, i, [p.dest[i] EXCEPT !.fenced = fence,
                                         !.dropped = @ \/ p.dest[i].fenced])

(* A destination is made anew when the slot has none of the right size.    *)
Prepared(p, i, anew) ==
    IF anew \/ ~p.dest[i].made
    THEN [p EXCEPT !.dest[i] = NewDestination] ELSE p

(* The copy into slot i waits for the fence it finds there.                *)
Copied(p, i) == [p EXCEPT !.dest[i] = NewDestination]
-----------------------------------------------------------------------------
(* The table.                                                              *)
Used == {i \in Slots : outputs[i].used}
Unused == Slots \ Used

find_output(s, id) ==
    {i \in Used : outputs[i].sess = s /\ outputs[i].id = id}

find_reservation(s, p) ==
    {i \in Used : outputs[i].resv /\ outputs[i].sess = s /\ outputs[i].pts = p}

ResvAfter(r, k) == IF r + k <= LastResv THEN r + k ELSE r + k - ResvIds

(* The first id from nextResv on that no entry of the session has.         *)
allocate_reservation_id(s) ==
    LET free == {k \in 0..(ResvIds - 1) : find_output(s, ResvAfter(nextResv, k)) = {}}
    IN  ResvAfter(nextResv, FirstOf(free))

(* discard_output over the entries of S: their leases go with them.        *)
PoolWithout(p, S) ==
    LET tokens == {outputs[i].token : i \in S}
        Gone(i) == p.lease[i] # 0 /\ p.lease[i] \in tokens
    IN  [p EXCEPT !.lease = [i \in Slots |-> IF Gone(i) THEN 0 ELSE p.lease[i]],
                  !.dest = [i \in Slots |->
                               IF Gone(i) THEN NoDestination ELSE p.dest[i]]]

Forget(S) == [i \in Slots |-> IF i \in S THEN FreeOutput ELSE outputs[i]]

discard_output(S) ==
    /\ outputs' = Forget(S)
    /\ pool' = PoolWithout(pool, S)

Policy == <<mode, validated>>

(* The worker ends: clear_client.  The broker sees its connection close.   *)
EndWorker ==
    /\ outputs' = [i \in Slots |-> FreeOutput]
    /\ pool' = EmptyPool
    /\ nextResv' = FirstResv
    /\ upstream' = FALSE
    /\ connects' = 0
    /\ frames' = [s \in Sessions |-> Pts]
    /\ nextId' = 1
    /\ lent' = {}
    /\ told' = {}
    /\ UNCHANGED <<Policy, torn>>

(* ensure_upstream: every exchange may be the one that connects.           *)
Connected ==
    /\ upstream' = TRUE
    /\ connects' = IF upstream THEN connects ELSE connects + 1
-----------------------------------------------------------------------------
(* handle_reserve_linear.  The destination is leased, made if need be and  *)
(* exported, then entered in the table under an id of the gateway's own.   *)
ReserveOk(s, p, anew) ==
    /\ FreeSlot(pool) # {} /\ Unused # {}
    /\ LET leased == lease_acquire(pool)
           i == FirstOf(FreeSlot(pool))
           id == allocate_reservation_id(s)
       IN  /\ pool' = Prepared(leased, i, anew)
           /\ outputs' = [outputs EXCEPT ![FirstOf(Unused)] =
                  [used |-> TRUE, released |-> TRUE, resv |-> TRUE, sess |-> s,
                   id |-> id, pts |-> p, token |-> leased.lease[i]]]
           /\ nextResv' = ResvAfter(id, 1)
           /\ told' = told \cup {<<s, id>>}
    /\ UNCHANGED <<Policy, upstream, connects, frames, nextId, lent, torn>>

(* The destination cannot be made or exported, or the table is full: the   *)
(* lease is cleared and the destination destroyed.                         *)
ReserveFails(s) ==
    /\ FreeSlot(pool) # {}
    /\ pool' = pool_discard(lease_acquire(pool), lease_acquire(pool).last)
    /\ nextResv' = ResvAfter(allocate_reservation_id(s), 1)
    /\ UNCHANGED <<Policy, outputs, upstream, connects, frames, nextId, lent,
                   told, torn>>

handle_reserve_linear(s, p) ==
    /\ find_reservation(s, p) = {}
    /\ (\E anew \in BOOLEAN : ReserveOk(s, p, anew)) \/ ReserveFails(s)
-----------------------------------------------------------------------------
(* handle_dequeue.  The broker lends output nextId with frame p.           *)
Lend(s, p) ==
    /\ frames' = [frames EXCEPT ![s] = @ \ {p}]
    /\ nextId' = nextId + 1
    /\ Connected
    /\ UNCHANGED <<Policy, nextResv>>

(* A byte output (the end of the stream) is passed through as it is.       *)
DequeueBytes(s) ==
    /\ nextId <= MaxId
    /\ nextId' = nextId + 1
    /\ lent' = lent \cup {<<s, nextId>>}
    /\ told' = told \cup {<<s, nextId>>}
    /\ Connected
    /\ UNCHANGED <<Policy, outputs, pool, nextResv, frames, torn>>

(* cache_direct: the client gets the broker's own buffer.                  *)
CacheDirect(s, p) ==
    /\ find_output(s, nextId) = {} /\ Unused # {}
    /\ outputs' = [outputs EXCEPT ![FirstOf(Unused)] =
           [used |-> TRUE, released |-> FALSE, resv |-> FALSE, sess |-> s,
            id |-> nextId, pts |-> 0, token |-> 0]]
    /\ lent' = lent \cup {<<s, nextId>>}
    /\ told' = told \cup {<<s, nextId>>}
    /\ UNCHANGED <<pool, torn>>
    /\ Lend(s, p)

Torn(p, i, o) ==
    \/ p.dest[i].dropped
    \/ \E j \in Used \ o : outputs[j].token = p.lease[i]

(* replace_dequeue_with_linear into the reserved destination: its entry    *)
(* takes the broker's id.                                                  *)
RepackReserved_renewed(s, p) ==
    LET o == FirstOf(find_reservation(s, p))
        i == lease_find(pool, outputs[o].token)
    IN  /\ i # 0
        /\ pool' = Copied(pool, i)
        /\ torn' = (torn \/ Torn(pool, i, {o}))
        /\ outputs' = [outputs EXCEPT ![o].resv = FALSE, ![o].pts = 0]
        /\ told' = (told \ {<<s, outputs[o].id>>}) \cup {<<s, nextId>>}
        /\ lent' = lent
        /\ Lend(s, p)

RepackReserved(s, p) ==
    LET o == FirstOf(find_reservation(s, p))
        i == lease_find(pool, outputs[o].token)
    IN  /\ i # 0
        /\ pool' = Copied(pool, i)
        /\ torn' = (torn \/ Torn(pool, i, {o}))
        /\ outputs' = [outputs EXCEPT ![o] =
               [outputs[o] EXCEPT !.id = nextId, !.resv = FALSE, !.pts = 0]]
        /\ told' = (told \ {<<s, outputs[o].id>>}) \cup {<<s, nextId>>}
        /\ lent' = lent
        /\ Lend(s, p)

(* ... or into one leased now.                                             *)
RepackPooled(s, p) ==
    /\ FreeSlot(pool) # {} /\ Unused # {} /\ find_output(s, nextId) = {}
    /\ LET leased == lease_acquire(pool)
           i == FirstOf(FreeSlot(pool))
       IN  \E anew \in BOOLEAN :
             LET ready == Prepared(leased, i, anew)
             IN  /\ pool' = Copied(ready, i)
                 /\ torn' = (torn \/ Torn(ready, i, {}))
                 /\ outputs' = [outputs EXCEPT ![FirstOf(Unused)] =
                        [used |-> TRUE, released |-> TRUE, resv |-> FALSE, sess |-> s,
                         id |-> nextId, pts |-> 0, token |-> leased.lease[i]]]
    /\ told' = told \cup {<<s, nextId>>}
    /\ lent' = lent
    /\ Lend(s, p)

(* fail_output: the reservation is given up, a destination leased for the  *)
(* frame too, and the broker's output is returned.  `errno' is what the    *)
(* failing call left (what an earlier one left, when the broker refused    *)
(* the transfer), `poisoned' whether that call closed the connection,      *)
(* `refused' whether the broker would not take the output back.  The       *)
(* client learns from the answer that the frame is gone and with it the    *)
(* reservation; when it releases that id all the same, no entry has it and *)
(* the request is the broker's to refuse (forward_request).                *)
GiveUp(s, p, open, out) ==
    /\ \/ pool' = PoolWithout(pool, find_reservation(s, p))
       \/ /\ find_reservation(s, p) = {} /\ FreeSlot(pool) # {}
          /\ pool' = pool_discard(lease_acquire(pool), lease_acquire(pool).last)
    /\ outputs' = Forget(find_reservation(s, p))
    /\ told' = told \ {<<s, outputs[i].id>> : i \in find_reservation(s, p)}
    /\ lent' = out
    /\ upstream' = open
    /\ connects' = IF upstream THEN connects ELSE connects + 1
    /\ frames' = [frames EXCEPT ![s] = @ \ {p}]
    /\ nextId' = nextId + 1
    /\ UNCHANGED <<Policy, nextResv, torn>>

FailOutput_keeping(s, p, errno, poisoned, refused) ==
    IF errno = "EPROTO" \/ poisoned \/ refused THEN EndWorker
    ELSE GiveUp(s, p, TRUE, lent \cup {<<s, nextId>>})

FailOutput(s, p, errno, poisoned, refused) ==
    IF errno = "EPROTO" \/ poisoned \/ refused THEN EndWorker
    ELSE GiveUp(s, p, TRUE, lent)

(* What becomes of a frame depends on its layout, on the policy and on     *)
(* whether its destination was reserved.                                   *)
handle_dequeue_qcom(s, p) ==
    IF find_reservation(s, p) # {} \/ mode = "linear" \/ ~validated
    THEN /\ mode # "qcom"
         /\ IF find_reservation(s, p) # {} THEN RepackReserved(s, p)
            ELSE RepackPooled(s, p)
    ELSE CacheDirect(s, p)

handle_dequeue_linear(s, p) ==
    /\ find_reservation(s, p) = {} /\ mode # "qcom"
    /\ CacheDirect(s, p)

handle_dequeue(s) ==
    \/ DequeueBytes(s)
    \/ /\ nextId <= MaxId
       /\ \E p \in frames[s] :
             \/ handle_dequeue_qcom(s, p) \/ handle_dequeue_linear(s, p)
             \/ \E errno \in {"EPROTO", "other"}, poisoned, refused \in BOOLEAN :
                   FailOutput(s, p, errno, poisoned, refused)

-----------------------------------------------------------------------------
(* handle_release_output.  A repacked output or a reservation goes back to *)
(* the pool, a direct one to the broker, an unknown one is the broker's.   *)
(* A client has a fence only for a picture it read.                        *)
handle_release_repacked(s, id) ==
    \E i \in find_output(s, id) :
        /\ outputs[i].released
        /\ outputs[i].resv => GiveBack
        /\ outputs' = Forget({i})
        /\ \/ \E fence \in IF outputs[i].resv THEN {FALSE} ELSE BOOLEAN :
                 /\ lease_find(pool, outputs[i].token) # 0
                 /\ pool' = pool_release(pool, outputs[i].token, fence)
           \/ pool' = PoolWithout(pool, {i})
        /\ told' = told \ {<<s, id>>}
        /\ UNCHANGED <<Policy, nextResv, upstream, connects, frames, nextId,
                       lent, torn>>

handle_release_direct(s, id) ==
    /\ \A i \in find_output(s, id) : ~outputs[i].released
    /\ Connected
    /\ <<s, id>> \in lent
    /\ lent' = lent \ {<<s, id>>}
    /\ told' = told \ {<<s, id>>}
    /\ discard_output(find_output(s, id))
    /\ UNCHANGED <<Policy, nextResv, frames, nextId, torn>>

handle_release_output(s, id) ==
    /\ <<s, id>> \in told
    /\ handle_release_repacked(s, id) \/ handle_release_direct(s, id)

(* handle_flush_or_close, answered with OK: the broker takes back what the *)
(* session had out, the worker forgets its entries, and the client starts  *)
(* again.  Any other answer is only passed on.                             *)
OfSession(s, S) == {x \in S : x[1] = s}

handle_flush_or_close(s) ==
    /\ Connected
    /\ lent' = lent \ OfSession(s, lent)
    /\ told' = told \ OfSession(s, told)
    /\ frames' = [frames EXCEPT ![s] = Pts]
    /\ discard_output({i \in Used : outputs[i].sess = s})
    /\ UNCHANGED <<Policy, nextResv, nextId, torn>>

(* Every other request is forwarded and leaves the worker as it was, but   *)
(* for the connection it may have been the first to need.                  *)
forward_request ==
    /\ Connected
    /\ UNCHANGED <<Policy, outputs, pool, nextResv, frames, nextId, lent, told,
                   torn>>

(* The client leaves, a message cannot be sent or received, the gateway    *)
(* stops: the loop of client_worker is over.                               *)
client_worker_ends == EndWorker

Next ==
    \/ \E s \in Sessions :
          \/ \E p \in Pts : handle_reserve_linear(s, p)
          \/ handle_dequeue(s)
          \/ \E id \in 1..LastResv : handle_release_output(s, id)
          \/ handle_flush_or_close(s)
    \/ forward_request
    \/ client_worker_ends

Spec == Init /\ [][Next]_vars
-----------------------------------------------------------------------------
(* No destination leaks: every lease of the pool is the lease of exactly   *)
(* one entry of the table, whatever failed on the way, and an entry that   *)
(* was repacked or reserved has its lease.  A leaked one would be gone for *)
(* the life of the client.                                                 *)
LeasesHeld ==
    /\ \A i \in Slots : pool.lease[i] # 0 =>
          Cardinality({j \in Used : outputs[j].token = pool.lease[i]}) = 1
    /\ \A j \in Used :
          IF outputs[j].released THEN lease_find(pool, outputs[j].token) # 0
          ELSE outputs[j].token = 0

(* The broker's output window is never filled by outputs the client cannot *)
(* give back: what the broker has out is what the client was given, and a  *)
(* repacked output has been returned to the broker.                        *)
NothingStuckUpstream ==
    /\ lent \subseteq told
    /\ \A i \in Used :
          outputs[i].released <=> <<outputs[i].sess, outputs[i].id>> \notin lent

(* What the client was given, and no failed dequeue took back, it can      *)
(* resolve and return: an entry of the table or an output of the broker,   *)
(* never both a reservation and an output, never two entries.  And it is resolved by the connection it     *)
(* came from: a worker does not outlive that to connect to a broker that   *)
(* knows none of its ids.                                                  *)
GivenResolves ==
    /\ connects <= 1
    /\ \A x \in told :
          \/ Cardinality(find_output(x[1], x[2])) = 1
          \/ find_output(x[1], x[2]) = {} /\ x \in lent
    /\ \A i \in Used : <<outputs[i].sess, outputs[i].id>> \in told
    /\ \A s \in Sessions, p \in Pts : Cardinality(find_reservation(s, p)) <= 1

(* A frame is copied into a destination only when no other entry has it,   *)
(* and every fence a reader of it gave when it released it becomes a wait  *)
(* before the destination is written again (turnip_prime_import.h:38).     *)
NoTornPicture == ~torn

=============================================================================
