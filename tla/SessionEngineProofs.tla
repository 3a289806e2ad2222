------------------------- MODULE SessionEngineProofs -------------------------
(***************************************************************************)
(* Theorems about the session engine, for every size of its tables, in     *)
(* three parts: its types; who owns descriptors and images; what it hands  *)
(* out, ids, native buffers and dma-bufs.                                  *)
(***************************************************************************)
EXTENDS SessionEngine, FiniteSetTheorems, TLAPS

(* The descriptor table keeps its type when holders are emptied.           *)
LEMMA SweptType ==
    ASSUME NEW f \in [Holders -> Fds \cup {NoFd}], NEW H
    PROVE  Swept(f, H) \in [Holders -> Fds \cup {NoFd}]
BY Zenon DEF Swept

(* The outcome of a dup, a receive or a memfd is a descriptor or none.     *)
LEMMA OpenedType ==
    ASSUME NEW F \in SUBSET Fds, NEW f \in Fds \cup {NoFd}
    PROVE  Opened(F, f) \in SUBSET Fds
BY Zenon DEF Opened

LEMMA HolderTypes ==
    /\ Req \in Holders /\ Rep \in Holders
    /\ \A s \in Slots :
          /\ Acq(s) \in Holders
          /\ Rel(s) \in Holders
          /\ \A b \in BufferIds : Obj(s, b) \in Holders
          /\ \A k \in CompSlots : Done(s, k) \in Holders
BY DEF Holders, MsgHolders, SlotHolders, FenceHolders, DmabufHolders

(* A handler's last act leaves the connection's thread with a reply.       *)
LEMMA NativeReplyType ==
    ASSUME NEW s \in Slots,
           \/ Reply("QUEUE_AHB", s, 0, TRUE)
           \/ \E o \in OutSlots : Reply("TRANSFER_AHB", s, o, TRUE)
    PROVE  LoopTypes'
<1>1. s \in 0..MaxSessions /\ 0 \in 0..MaxOutputs /\ OutSlots \subseteq 0..MaxOutputs
  BY SizeAssumption DEF Slots, OutSlots
<1>2. CASE Reply("QUEUE_AHB", s, 0, TRUE)
  BY <1>1, <1>2, Zenon DEF Reply, Msgs, LoopTypes
<1>3. ASSUME NEW o \in OutSlots, Reply("TRANSFER_AHB", s, o, TRUE)
      PROVE  LoopTypes'
  BY <1>1, <1>3, Zenon DEF Reply, Msgs, LoopTypes
<1> QED
  BY <1>2, <1>3, Zenon

LEMMA PlainReplyType == Reply("OTHER", 0, 0, FALSE) => LoopTypes'
BY SizeAssumption DEF Reply, Msgs, LoopTypes

LEMMA FreeOutputType == FreeOutput \in Outputs
BY SizeAssumption DEF FreeOutput, Outputs

LEMMA MarkedOutputType ==
    ASSUME NEW out \in Outputs
    PROVE  [out EXCEPT !.prime = TRUE] \in Outputs /\ Sent(out) \in Outputs
<1>1. [out EXCEPT !.prime = TRUE] \in Outputs
  BY Zenon DEF Outputs
<1>2. out.sends + 1 \in Nat
  BY DEF Outputs
<1>3. [out EXCEPT !.transferred = TRUE, !.sends = out.sends + 1] \in Outputs
  BY <1>2, Zenon DEF Outputs
<1> QED
  BY <1>1, <1>3, Zenon DEF Sent

LEMMA HandshakeType ==
    ASSUME NEW f \in [Slots -> 0..2], NEW s, NEW v \in 0..2
    PROVE  [f EXCEPT ![s] = v] \in [Slots -> 0..2]
BY Zenon

LEMMA NoMsgType == NoMsg \in Msgs
BY SizeAssumption DEF NoMsg, Msgs

LEMMA CloseSessionsType ==
    ASSUME TypeOK, NEW S \in SUBSET Slots, CloseSessions(S),
           nextSid' \in 0..(SessionIdSpace - 1), nextOut' \in 1..(OutputIdBound + 1)
    PROVE  SessionTypes' /\ OutputTypes' /\ RegistryTypes' /\ BookTypes'
<1> USE SizeAssumption DEF TypeOK
<1>1. SessionTypes'
  <2>0. used' \in [Slots -> BOOLEAN]
    BY Zenon DEF CloseSessions, SessionTypes
  <2>1. ahb' \in [Slots -> 0..2]
    BY DEF CloseSessions, SessionTypes
  <2>2. sid' \in [Slots -> 0..(SessionIdSpace - 1)]
    BY DEF CloseSessions, SessionTypes
  <2>3. transport' \in [Slots -> AllTransports]
    BY Zenon DEF CloseSessions, SessionTypes, AllTransports
  <2> QED
    BY <2>0, <2>1, <2>2, <2>3, Zenon DEF SessionTypes
<1>2. OutputTypes'
  BY FreeOutputType, Zenon DEF CloseSessions, OutputTypes
<1>3. RegistryTypes'
  BY DEF CloseSessions, RegistryTypes
<1>4. fd' \in [Holders -> Fds \cup {NoFd}]
  BY SweptType, Zenon DEF CloseSessions, BookTypes
<1>5. misuse' \in BOOLEAN
  BY Zenon DEF CloseSessions
<1>6. open' \subseteq Fds /\ live' \subseteq Slots /\ lent' \in [Slots -> SUBSET Tokens]
  BY Zenon DEF CloseSessions, BookTypes
<1> QED
  BY <1>1, <1>2, <1>3, <1>4, <1>5, <1>6, Zenon DEF BookTypes

LEMMA CloseMessagesType ==
    ASSUME TypeOK, CloseMessages
    PROVE  /\ msg' \in Msgs
           /\ fd' \in [Holders -> Fds \cup {NoFd}]
           /\ open' \subseteq Fds
           /\ misuse' \in BOOLEAN
<1>1. msg' \in Msgs
  BY NoMsgType, Zenon DEF CloseMessages
<1>2. fd' \in [Holders -> Fds \cup {NoFd}]
  BY SweptType, Zenon DEF TypeOK, BookTypes, CloseMessages
<1>3. open' \subseteq Fds
  BY Zenon DEF TypeOK, BookTypes, CloseMessages
<1>4. misuse' \in BOOLEAN
  BY Zenon DEF CloseMessages
<1> QED
  BY <1>1, <1>2, <1>3, <1>4, Zenon

(* A submission that the backend fails leaves the registry as it was: what *)
(* it did is what a refused request does.                                  *)
LEMMA FailedSubmission ==
    ASSUME TypeOK, NEW s \in Slots, NEW b \in BufferIds, NEW r, NEW f,
           handle_queue_dmabuf_fails(s, b, r, f)
    PROVE  NoEffect(r)
<1>1. /\ entry \in [Slots -> [BufferIds -> {"none", "idle", "flight"}]]
      /\ inflight \in [Slots -> Int] /\ entry[s][b] = "idle"
  BY Zenon DEF TypeOK, RegistryTypes, handle_queue_dmabuf_fails
<1>2. /\ entry' = [[entry EXCEPT ![s][b] = "flight"] EXCEPT ![s][b] = "idle"]
      /\ inflight' = [[inflight EXCEPT ![s] = @ + 1] EXCEPT ![s] = @ - 1]
  BY Zenon DEF handle_queue_dmabuf_fails, Unqueue, Finish
<1>3. entry' = entry
  BY <1>1, <1>2
<1>4. inflight' = inflight
  BY <1>1, <1>2
<1>5. open' = Opened(open, r)
  <2>1. /\ open' = Opened(Opened(open, r), f) \ {f}
        /\ f \in (Fds \ Opened(open, r)) \cup {NoFd} /\ open \subseteq Fds
        /\ r \in Fds \cup {NoFd}
    BY Zenon DEF handle_queue_dmabuf_fails, FreshOrNone, TypeOK, BookTypes
  <2>2. Opened(open, r) \subseteq Fds
    BY <2>1, Zenon DEF Opened
  <2>3. CASE f = NoFd
    BY <2>1, <2>2, <2>3, NameAssumption, Zenon DEF Opened
  <2>4. CASE f # NoFd
    <3>1. f \notin Opened(open, r)
      BY <2>1, <2>4, Zenon
    <3>2. Opened(Opened(open, r), f) = Opened(open, r) \cup {f}
      BY <2>4, Zenon DEF Opened
    <3> QED
      BY <2>1, <3>1, <3>2, Zenon
  <2> QED
    BY <2>3, <2>4, Zenon
<1> QED
  BY <1>3, <1>4, <1>5, Zenon DEF handle_queue_dmabuf_fails, NoEffect, tables, backend

(* Each step of the connection's thread preserves the types.               *)
LEMMA TypeStep == TypeOK /\ [Next]_vars => TypeOK'
<1> SUFFICES ASSUME TypeOK, [Next]_vars PROVE TypeOK'
  BY Zenon
<1> USE SizeAssumption DEF TypeOK
<1>1. ASSUME NEW r \in Fds \cup {NoFd}, NoEffect(r)
      PROVE  TypeOK'
  <2>1. LoopTypes'
    BY <1>1, PlainReplyType, Zenon DEF NoEffect, LoopTypes, tables, backend
  <2>2. SessionTypes'
    BY <1>1, Zenon DEF NoEffect, SessionTypes, tables, backend
  <2>3. OutputTypes'
    BY <1>1, Zenon DEF NoEffect, OutputTypes, tables, backend
  <2>4. RegistryTypes'
    BY <1>1, Zenon DEF NoEffect, RegistryTypes, tables, backend
  <2>5. BookTypes'
    <3>1. fd' \in [Holders -> Fds \cup {NoFd}]
      BY <1>1, HolderTypes, Zenon DEF NoEffect, BookTypes
    <3>2. open' \subseteq Fds
      BY <1>1, OpenedType, Zenon DEF NoEffect, BookTypes
    <3> QED
      BY <1>1, <3>1, <3>2, Zenon DEF NoEffect, BookTypes, backend, tables
  <2> QED
    BY <2>1, <2>2, <2>3, <2>4, <2>5, Zenon
<1>2. ASSUME NEW s \in Slots, NEW t \in Transports,
             NEW id \in 0..(SessionIdSpace - 1),
             handle_create(s, t, id)
      PROVE  TypeOK'
  <2>1. LoopTypes'
    BY <1>2, PlainReplyType, Zenon DEF handle_create, LoopTypes, tables, backend
  <2>2. SessionTypes'
    <3>1. nextSid' \in 0..(SessionIdSpace - 1)
      BY <1>2 DEF handle_create, SessionTypes, allocate_session_id
    <3>2. transport' \in [Slots -> AllTransports]
      BY <1>2, TransportAssumption, Zenon DEF handle_create, SessionTypes
    <3> QED
      BY <1>2, <3>1, <3>2 DEF handle_create, SessionTypes, backend, tables
  <2>3. OutputTypes'
    BY <1>2, FreeOutputType, Zenon DEF handle_create, OutputTypes, tables, backend
  <2>4. RegistryTypes'
    BY <1>2 DEF handle_create, RegistryTypes, tables, backend
  <2>5. BookTypes'
    <3>1. misuse' \in BOOLEAN
      BY <1>2, Zenon DEF handle_create, BookTypes
    <3> QED
      BY <1>2, <3>1, Zenon DEF handle_create, BookTypes, backend, tables
  <2> QED
    BY <2>1, <2>2, <2>3, <2>4, <2>5, Zenon
<1>3. ASSUME NEW s \in Slots, handle_create_without_registry(s)
      PROVE  TypeOK'
  <2>1. LoopTypes'
    BY <1>3, PlainReplyType, Zenon DEF handle_create_without_registry, LoopTypes, tables, backend
  <2>2. SessionTypes'
    BY <1>3, Zenon DEF handle_create_without_registry, SessionTypes, tables, backend
  <2>3. OutputTypes'
    BY <1>3, Zenon DEF handle_create_without_registry, OutputTypes, tables, backend
  <2>4. RegistryTypes'
    BY <1>3, Zenon DEF handle_create_without_registry, RegistryTypes, tables, backend
  <2>5. BookTypes'
    <3>1. misuse' \in BOOLEAN
      BY <1>3, Zenon DEF handle_create_without_registry, BookTypes
    <3> QED
      BY <1>3, <3>1, Zenon DEF handle_create_without_registry, BookTypes, backend, tables
  <2> QED
    BY <2>1, <2>2, <2>3, <2>4, <2>5, Zenon
<1>4. ASSUME NEW s \in Slots, NEW o \in OutSlots,
             NEW f \in Fds \cup {NoFd}, handle_dequeue_bytes(s, o, f)
      PROVE  TypeOK'
  <2>1. LoopTypes'
    BY <1>4, PlainReplyType, Zenon DEF handle_dequeue_bytes, LoopTypes, tables, backend
  <2>2. SessionTypes'
    BY <1>4, Zenon DEF handle_dequeue_bytes, SessionTypes, tables, backend
  <2>3. OutputTypes'
    <3>1. nextOut \in 0..OutputIdBound /\ nextOut' \in 1..(OutputIdBound + 1)
      BY <1>4 DEF handle_dequeue_bytes, OutputTypes, allocate_output_id
    <3>2. [FreeOutput EXCEPT !.in_use = TRUE, !.id = nextOut] \in Outputs
      BY <1>4, <3>1, FreeOutputType, Zenon DEF handle_dequeue_bytes, OutputTypes, Outputs
    <3> QED
      BY <1>4, <3>1, <3>2, Zenon DEF handle_dequeue_bytes, OutputTypes, backend, tables
  <2>4. RegistryTypes'
    BY <1>4, Zenon DEF handle_dequeue_bytes, RegistryTypes, tables, backend
  <2>5. BookTypes'
    <3>1. fd' \in [Holders -> Fds \cup {NoFd}]
      BY <1>4, HolderTypes, Zenon DEF handle_dequeue_bytes, BookTypes
    <3>2. open' \subseteq Fds
      BY <1>4, OpenedType, Zenon DEF handle_dequeue_bytes, BookTypes
    <3> QED
      BY <1>4, <3>1, <3>2, Zenon DEF handle_dequeue_bytes, BookTypes, backend, tables
  <2> QED
    BY <2>1, <2>2, <2>3, <2>4, <2>5, Zenon
<1>5. ASSUME NEW s \in Slots, NEW o \in OutSlots, NEW token \in Tokens,
             NEW f \in Fds \cup {NoFd},
             handle_dequeue_image(s, o, token, f)
      PROVE  TypeOK'
  <2>1. LoopTypes'
    BY <1>5, PlainReplyType, Zenon DEF handle_dequeue_image, LoopTypes, tables, backend
  <2>2. SessionTypes'
    BY <1>5, Zenon DEF handle_dequeue_image, SessionTypes, tables, backend
  <2>3. OutputTypes'
    <3>1. nextOut \in 0..OutputIdBound /\ nextOut' \in 1..(OutputIdBound + 1)
      BY <1>5 DEF handle_dequeue_image, OutputTypes, allocate_output_id
    <3>2. [FreeOutput EXCEPT !.in_use = TRUE, !.id = nextOut, !.token = token] \in Outputs
      BY <1>5, <3>1, FreeOutputType, Zenon DEF handle_dequeue_image, OutputTypes, Outputs
    <3> QED
      BY <1>5, <3>1, <3>2, Zenon DEF handle_dequeue_image, OutputTypes, backend, tables
  <2>4. RegistryTypes'
    BY <1>5, Zenon DEF handle_dequeue_image, RegistryTypes, tables, backend
  <2>5. BookTypes'
    <3>1. fd' \in [Holders -> Fds \cup {NoFd}]
      BY <1>5, HolderTypes, Zenon DEF handle_dequeue_image, BookTypes
    <3>2. open' \subseteq Fds
      BY <1>5, OpenedType, Zenon DEF handle_dequeue_image, BookTypes
    <3>3. lent' \in [Slots -> SUBSET Tokens]
      BY <1>5, Zenon DEF handle_dequeue_image, BookTypes
    <3> QED
      BY <1>5, <3>1, <3>2, <3>3, Zenon DEF handle_dequeue_image, BookTypes, backend, tables
  <2> QED
    BY <2>1, <2>2, <2>3, <2>4, <2>5, Zenon
<1>6. ASSUME NEW s \in Slots, NEW o \in OutSlots,
             NEW r \in Fds \cup {NoFd}, handle_release(s, o, r)
      PROVE  TypeOK'
  <2>1. LoopTypes'
    BY <1>6, PlainReplyType, Zenon DEF handle_release, LoopTypes, tables, backend
  <2>2. SessionTypes'
    BY <1>6, Zenon DEF handle_release, SessionTypes, tables, backend
  <2>3. OutputTypes'
    BY <1>6, FreeOutputType, Zenon DEF handle_release, OutputTypes, tables, backend
  <2>4. RegistryTypes'
    BY <1>6, Zenon DEF handle_release, RegistryTypes, tables, backend
  <2>5. BookTypes'
    <3>1. fd' \in [Holders -> Fds \cup {NoFd}]
      BY <1>6, HolderTypes, Zenon DEF handle_release, BookTypes
    <3>2. open' \subseteq Fds
      BY <1>6, OpenedType, Zenon DEF handle_release, BookTypes
    <3>3. misuse' \in BOOLEAN
      BY <1>6, Zenon DEF handle_release, BookTypes
    <3>4. lent' \in [Slots -> SUBSET Tokens]
      BY <1>6, Zenon DEF handle_release, BookTypes, release_output
    <3> QED
      BY <1>6, <3>1, <3>2, <3>3, <3>4, Zenon DEF handle_release, BookTypes, backend, tables
  <2> QED
    BY <2>1, <2>2, <2>3, <2>4, <2>5, Zenon
<1>7. ASSUME NEW s \in Slots, NEW o \in OutSlots,
             handle_transfer_ahb(s, o)
      PROVE  TypeOK'
  <2>1. LoopTypes'
    BY <1>7, NativeReplyType, Zenon DEF handle_transfer_ahb
  <2>2. SessionTypes'
    BY <1>7, Zenon DEF handle_transfer_ahb, SessionTypes, tables, backend
  <2>3. OutputTypes'
    BY <1>7, Zenon DEF handle_transfer_ahb, OutputTypes, tables, backend
  <2>4. RegistryTypes'
    BY <1>7, Zenon DEF handle_transfer_ahb, RegistryTypes, tables, backend
  <2>5. BookTypes'
    BY <1>7, Zenon DEF handle_transfer_ahb, BookTypes, tables, backend
  <2> QED
    BY <2>1, <2>2, <2>3, <2>4, <2>5, Zenon
<1>8. ASSUME NEW s \in Slots, NEW o \in OutSlots,
             NEW f \in Fds \cup {NoFd}, handle_transfer_prime(s, o, f)
      PROVE  TypeOK'
  <2>1. LoopTypes'
    BY <1>8, PlainReplyType, Zenon DEF handle_transfer_prime, LoopTypes, tables, backend
  <2>2. SessionTypes'
    BY <1>8, Zenon DEF handle_transfer_prime, SessionTypes, tables, backend
  <2>3. OutputTypes'
    <3>1. [outs[s][o] EXCEPT !.prime = TRUE] \in Outputs
      BY MarkedOutputType, Zenon DEF OutputTypes
    <3> QED
      BY <1>8, <3>1, Zenon DEF handle_transfer_prime, OutputTypes, backend, tables
  <2>4. RegistryTypes'
    BY <1>8, Zenon DEF handle_transfer_prime, RegistryTypes, tables, backend
  <2>5. BookTypes'
    <3>1. fd' \in [Holders -> Fds \cup {NoFd}]
      BY <1>8, HolderTypes, Zenon DEF handle_transfer_prime, BookTypes
    <3>2. open' \subseteq Fds
      BY <1>8, OpenedType, Zenon DEF handle_transfer_prime, BookTypes
    <3> QED
      BY <1>8, <3>1, <3>2, Zenon DEF handle_transfer_prime, BookTypes, backend, tables
  <2> QED
    BY <2>1, <2>2, <2>3, <2>4, <2>5, Zenon
<1>9. ASSUME NEW s \in Slots, NEW r \in Fds \cup {NoFd},
             NEW d \in Fds \cup {NoFd}, handle_queue_ahb(s, r, d)
      PROVE  TypeOK'
  <2>1. LoopTypes'
    BY <1>9, NativeReplyType, Zenon DEF handle_queue_ahb
  <2>2. SessionTypes'
    BY <1>9 DEF handle_queue_ahb, SessionTypes, tables, backend
  <2>3. OutputTypes'
    BY <1>9, Zenon DEF handle_queue_ahb, OutputTypes, tables, backend
  <2>4. RegistryTypes'
    BY <1>9, Zenon DEF handle_queue_ahb, RegistryTypes, tables, backend
  <2>5. BookTypes'
    <3>1. fd' \in [Holders -> Fds \cup {NoFd}]
      BY <1>9, HolderTypes, Zenon DEF handle_queue_ahb, BookTypes
    <3>2. open' \subseteq Fds
      BY <1>9, OpenedType, Zenon DEF handle_queue_ahb, BookTypes
    <3> QED
      BY <1>9, <3>1, <3>2, Zenon DEF handle_queue_ahb, BookTypes, backend, tables
  <2> QED
    BY <2>1, <2>2, <2>3, <2>4, <2>5, Zenon
<1>10. ASSUME NEW s \in Slots, handle_complete_ahb(s)
      PROVE  TypeOK'
  <2>1. LoopTypes'
    BY <1>10, PlainReplyType, Zenon DEF handle_complete_ahb, LoopTypes, tables, backend
  <2>2. SessionTypes'
    BY <1>10 DEF handle_complete_ahb, SessionTypes, tables, backend
  <2>3. OutputTypes'
    BY <1>10, Zenon DEF handle_complete_ahb, OutputTypes, tables, backend
  <2>4. RegistryTypes'
    BY <1>10, Zenon DEF handle_complete_ahb, RegistryTypes, tables, backend
  <2>5. BookTypes'
    <3>1. fd' \in [Holders -> Fds \cup {NoFd}]
      BY <1>10, HolderTypes, Zenon DEF handle_complete_ahb, BookTypes
    <3> QED
      BY <1>10, <3>1, Zenon DEF handle_complete_ahb, BookTypes, backend, tables
  <2> QED
    BY <2>1, <2>2, <2>3, <2>4, <2>5, Zenon
<1>11. ASSUME NEW s \in Slots, NEW b \in BufferIds,
             NEW r \in Fds \cup {NoFd}, NEW d \in Fds \cup {NoFd},
             handle_register_dmabuf(s, b, r, d)
      PROVE  TypeOK'
  <2>1. LoopTypes'
    BY <1>11, PlainReplyType, Zenon DEF handle_register_dmabuf, LoopTypes, tables, backend
  <2>2. SessionTypes'
    BY <1>11, Zenon DEF handle_register_dmabuf, SessionTypes, tables, backend
  <2>3. OutputTypes'
    BY <1>11, Zenon DEF handle_register_dmabuf, OutputTypes, tables, backend
  <2>4. RegistryTypes'
    BY <1>11 DEF handle_register_dmabuf, RegistryTypes, tables, backend
  <2>5. BookTypes'
    <3>1. fd' \in [Holders -> Fds \cup {NoFd}]
      BY <1>11, HolderTypes, Zenon DEF handle_register_dmabuf, BookTypes
    <3>2. open' \subseteq Fds
      BY <1>11, OpenedType, Zenon DEF handle_register_dmabuf, BookTypes
    <3> QED
      BY <1>11, <3>1, <3>2, Zenon DEF handle_register_dmabuf, BookTypes, backend, tables
  <2> QED
    BY <2>1, <2>2, <2>3, <2>4, <2>5, Zenon
<1>12. ASSUME NEW s \in Slots, NEW b \in BufferIds,
             handle_unregister_dmabuf(s, b)
      PROVE  TypeOK'
  <2>1. LoopTypes'
    BY <1>12, PlainReplyType, Zenon DEF handle_unregister_dmabuf, LoopTypes, tables, backend
  <2>2. SessionTypes'
    BY <1>12, Zenon DEF handle_unregister_dmabuf, SessionTypes, tables, backend
  <2>3. OutputTypes'
    BY <1>12, Zenon DEF handle_unregister_dmabuf, OutputTypes, tables, backend
  <2>4. RegistryTypes'
    BY <1>12 DEF handle_unregister_dmabuf, RegistryTypes, tables, backend
  <2>5. BookTypes'
    <3>1. fd' \in [Holders -> Fds \cup {NoFd}]
      BY <1>12, HolderTypes, Zenon DEF handle_unregister_dmabuf, BookTypes
    <3>2. open' \subseteq Fds
      BY <1>12, Zenon DEF handle_unregister_dmabuf, BookTypes
    <3>3. misuse' \in BOOLEAN
      BY <1>12, Zenon DEF handle_unregister_dmabuf, BookTypes
    <3> QED
      BY <1>12, <3>1, <3>2, <3>3, Zenon DEF handle_unregister_dmabuf, BookTypes, backend, tables
  <2> QED
    BY <2>1, <2>2, <2>3, <2>4, <2>5, Zenon
<1>13. ASSUME NEW s \in Slots, NEW b \in BufferIds, NEW k \in CompSlots,
             NEW r \in Fds \cup {NoFd}, NEW f \in Fds \cup {NoFd},
             handle_queue_dmabuf(s, b, k, r, f)
      PROVE  TypeOK'
  <2>1. LoopTypes'
    BY <1>13, PlainReplyType, Zenon DEF handle_queue_dmabuf, LoopTypes, tables, backend
  <2>2. SessionTypes'
    BY <1>13, Zenon DEF handle_queue_dmabuf, SessionTypes, tables, backend
  <2>3. OutputTypes'
    BY <1>13, Zenon DEF handle_queue_dmabuf, OutputTypes, tables, backend
  <2>4. RegistryTypes'
    BY <1>13 DEF handle_queue_dmabuf, RegistryTypes, BufferIds, tables, backend
  <2>5. BookTypes'
    <3>1. fd' \in [Holders -> Fds \cup {NoFd}]
      BY <1>13, HolderTypes, Zenon DEF handle_queue_dmabuf, BookTypes
    <3>2. open' \subseteq Fds
      BY <1>13, OpenedType, Zenon DEF handle_queue_dmabuf, BookTypes
    <3> QED
      BY <1>13, <3>1, <3>2, Zenon DEF handle_queue_dmabuf, BookTypes, backend, tables
  <2> QED
    BY <2>1, <2>2, <2>3, <2>4, <2>5, Zenon
<1>14. ASSUME NEW s \in Slots, NEW k \in CompSlots,
             handle_complete_dmabuf(s, k)
      PROVE  TypeOK'
  <2>1. LoopTypes'
    BY <1>14, PlainReplyType, Zenon DEF handle_complete_dmabuf, LoopTypes, tables, backend
  <2>2. SessionTypes'
    BY <1>14, Zenon DEF handle_complete_dmabuf, SessionTypes, tables, backend
  <2>3. OutputTypes'
    BY <1>14, Zenon DEF handle_complete_dmabuf, OutputTypes, tables, backend
  <2>4. RegistryTypes'
    <3>1. comps[s][k] \in BufferIds
      BY <1>14 DEF handle_complete_dmabuf, RegistryTypes, BufferIds
    <3> QED
      BY <1>14, <3>1 DEF handle_complete_dmabuf, RegistryTypes, Finish
  <2>5. BookTypes'
    <3>1. fd' \in [Holders -> Fds \cup {NoFd}]
      BY <1>14, HolderTypes, Zenon DEF handle_complete_dmabuf, BookTypes, Collect
    <3> QED
      BY <1>14, <3>1, Zenon DEF handle_complete_dmabuf, BookTypes, backend, tables
  <2> QED
    BY <2>1, <2>2, <2>3, <2>4, <2>5, Zenon
<1>15. ASSUME NEW s \in Slots, handle_flush(s)
      PROVE  TypeOK'
  <2>1. LoopTypes'
    BY <1>15, PlainReplyType, Zenon DEF handle_flush, LoopTypes, tables, backend
  <2>2. SessionTypes'
    BY <1>15 DEF handle_flush, SessionTypes, tables, backend
  <2>3. OutputTypes'
    BY <1>15, FreeOutputType, Zenon DEF handle_flush, OutputTypes, ClearOutputs, tables, backend
  <2>4. RegistryTypes'
    BY <1>15, Zenon DEF handle_flush, RegistryTypes, tables, backend
  <2>5. BookTypes'
    <3>1. fd' \in [Holders -> Fds \cup {NoFd}]
      BY <1>15, SweptType, Zenon DEF handle_flush, BookTypes
    <3>2. open' \subseteq Fds
      BY <1>15, Zenon DEF handle_flush, BookTypes
    <3>3. misuse' \in BOOLEAN
      BY <1>15, Zenon DEF handle_flush, BookTypes
    <3>4. lent' \in [Slots -> SUBSET Tokens]
      BY <1>15, Zenon DEF handle_flush, BookTypes, release_output
    <3> QED
      BY <1>15, <3>1, <3>2, <3>3, <3>4, Zenon DEF handle_flush, BookTypes, backend, tables
  <2> QED
    BY <2>1, <2>2, <2>3, <2>4, <2>5, Zenon
<1>16. ASSUME NEW s \in Slots, handle_close(s)
      PROVE  TypeOK'
  <2>1. LoopTypes'
    BY <1>16, PlainReplyType, Zenon DEF handle_close
  <2>2. nextSid' \in 0..(SessionIdSpace - 1) /\ nextOut' \in 1..(OutputIdBound + 1)
    BY <1>16, Zenon DEF handle_close, SessionTypes, OutputTypes
  <2>3. {s} \in SUBSET Slots /\ CloseSessions({s})
    BY <1>16, Zenon DEF handle_close
  <2> QED
    BY <2>1, <2>2, <2>3, CloseSessionsType, Zenon
<1>17. CASE SendReply
  <2>1. LoopTypes'
    BY <1>17, CloseMessagesType, Zenon DEF SendReply, LoopTypes, tables, backend
  <2>2. SessionTypes'
    BY <1>17, Zenon DEF SendReply, SessionTypes, tables, backend
  <2>3. OutputTypes'
    BY <1>17, Zenon DEF SendReply, OutputTypes, tables, backend
  <2>4. RegistryTypes'
    BY <1>17, Zenon DEF SendReply, RegistryTypes, tables, backend
  <2>5. BookTypes'
    BY <1>17, CloseMessagesType, Zenon DEF SendReply, BookTypes, tables, backend
  <2> QED
    BY <2>1, <2>2, <2>3, <2>4, <2>5, Zenon
<1>18. ASSUME NEW f \in Fds \cup {NoFd}, after_reply_queue_ahb(f)
      PROVE  TypeOK'
  <2>1. LoopTypes'
    BY <1>18, NoMsgType, Zenon DEF after_reply_queue_ahb, LoopTypes, tables, backend
  <2>2. SessionTypes'
    BY <1>18, HandshakeType DEF after_reply_queue_ahb, SessionTypes, Received, tables, backend
  <2>3. OutputTypes'
    BY <1>18, Zenon DEF after_reply_queue_ahb, OutputTypes, tables, backend
  <2>4. RegistryTypes'
    BY <1>18, Zenon DEF after_reply_queue_ahb, RegistryTypes, tables, backend
  <2>5. BookTypes'
    <3>1. fd' \in [Holders -> Fds \cup {NoFd}]
      BY <1>18, SweptType, Zenon DEF after_reply_queue_ahb, BookTypes
    <3>2. open' \subseteq Fds
      BY <1>18, Zenon DEF after_reply_queue_ahb, BookTypes, Opened
    <3>3. misuse' \in BOOLEAN
      BY <1>18, Zenon DEF after_reply_queue_ahb, BookTypes
    <3> QED
      BY <1>18, <3>1, <3>2, <3>3, Zenon DEF after_reply_queue_ahb, BookTypes, backend, tables
  <2> QED
    BY <2>1, <2>2, <2>3, <2>4, <2>5, Zenon
<1>19. CASE after_reply_queue_ahb_fatal
  <2>1. LoopTypes'
    BY <1>19, NoMsgType, Zenon DEF after_reply_queue_ahb_fatal, LoopTypes, tables, backend
  <2>2. SessionTypes'
    BY <1>19, HandshakeType DEF after_reply_queue_ahb_fatal, SessionTypes, tables, backend
  <2>3. OutputTypes'
    BY <1>19, Zenon DEF after_reply_queue_ahb_fatal, OutputTypes, tables, backend
  <2>4. RegistryTypes'
    BY <1>19, Zenon DEF after_reply_queue_ahb_fatal, RegistryTypes, tables, backend
  <2>5. BookTypes'
    <3>1. fd' \in [Holders -> Fds \cup {NoFd}]
      BY <1>19, SweptType, Zenon DEF after_reply_queue_ahb_fatal, BookTypes
    <3>2. open' \subseteq Fds
      BY <1>19, Zenon DEF after_reply_queue_ahb_fatal, BookTypes
    <3>3. misuse' \in BOOLEAN
      BY <1>19, Zenon DEF after_reply_queue_ahb_fatal, BookTypes
    <3> QED
      BY <1>19, <3>1, <3>2, <3>3, Zenon DEF after_reply_queue_ahb_fatal, BookTypes, backend, tables
  <2> QED
    BY <2>1, <2>2, <2>3, <2>4, <2>5, Zenon
<1>20. CASE after_reply_transfer_ahb
  <2>1. LoopTypes'
    BY <1>20, CloseMessagesType, Zenon DEF after_reply_transfer_ahb, LoopTypes, tables, backend
  <2>2. SessionTypes'
    BY <1>20, Zenon DEF after_reply_transfer_ahb, SessionTypes, tables, backend
  <2>3. OutputTypes'
    <3>1. \A out \in Outputs : Sent(out) \in Outputs
      BY MarkedOutputType, Zenon
    <3>2. outs' \in [Slots -> [OutSlots -> Outputs]]
      BY <1>20, <3>1 DEF after_reply_transfer_ahb, OutputTypes
    <3> QED
      BY <1>20, <3>1, <3>2, Zenon DEF after_reply_transfer_ahb, OutputTypes, backend, tables
  <2>4. RegistryTypes'
    BY <1>20, Zenon DEF after_reply_transfer_ahb, RegistryTypes, tables, backend
  <2>5. BookTypes'
    BY <1>20, CloseMessagesType, Zenon DEF after_reply_transfer_ahb, BookTypes, tables, backend
  <2> QED
    BY <2>1, <2>2, <2>3, <2>4, <2>5, Zenon
<1>21. CASE Disconnect
  <2>1. LoopTypes'
    BY <1>21, Zenon DEF Disconnect, LoopTypes, tables, backend
  <2>2. SessionTypes'
    BY <1>21, Zenon DEF Disconnect, SessionTypes, tables, backend
  <2>3. OutputTypes'
    BY <1>21, Zenon DEF Disconnect, OutputTypes, tables, backend
  <2>4. RegistryTypes'
    BY <1>21, Zenon DEF Disconnect, RegistryTypes, tables, backend
  <2>5. BookTypes'
    BY <1>21, Zenon DEF Disconnect, BookTypes, tables, backend
  <2> QED
    BY <2>1, <2>2, <2>3, <2>4, <2>5, Zenon
<1>22. CASE advc_session_engine_destroy
  <2>1. LoopTypes'
    BY <1>22, Zenon DEF advc_session_engine_destroy, LoopTypes
  <2>2. nextSid' \in 0..(SessionIdSpace - 1) /\ nextOut' \in 1..(OutputIdBound + 1)
    BY <1>22 DEF advc_session_engine_destroy
  <2>3. CloseSessions({s \in Slots : used[s]})
    BY <1>22, Zenon DEF advc_session_engine_destroy
  <2> QED
    BY <2>1, <2>2, <2>3, CloseSessionsType, Zenon
<1>23. CASE Accept
  <2>1. LoopTypes'
    BY <1>23, Zenon DEF Accept, LoopTypes, tables, backend
  <2>2. SessionTypes'
    BY <1>23, Zenon DEF Accept, SessionTypes, tables, backend
  <2>3. OutputTypes'
    BY <1>23, Zenon DEF Accept, OutputTypes, tables, backend
  <2>4. RegistryTypes'
    BY <1>23, Zenon DEF Accept, RegistryTypes, tables, backend
  <2>5. BookTypes'
    BY <1>23, Zenon DEF Accept, BookTypes, tables, backend
  <2> QED
    BY <2>1, <2>2, <2>3, <2>4, <2>5, Zenon
<1>24. CASE UNCHANGED vars
  BY <1>24, Zenon DEF vars, tables, backend, LoopTypes, SessionTypes, OutputTypes,
              RegistryTypes, BookTypes
<1>25. ASSUME NEW s \in Slots, NEW b \in BufferIds,
              NEW r \in Fds \cup {NoFd}, NEW f \in Fds \cup {NoFd},
              handle_queue_dmabuf_fails(s, b, r, f)
       PROVE  TypeOK'
  BY <1>1, <1>25, FailedSubmission, Zenon
<1> QED
  BY <1>25, <1>1, <1>2, <1>3, <1>4, <1>5, <1>6, <1>7, <1>8, <1>9, <1>10, <1>11, <1>12, <1>13, <1>14, <1>15, <1>16, <1>17, <1>18, <1>19, <1>20, <1>21, <1>22, <1>23, <1>24, Zenon
     DEF Next, Request, OutputRequest, DmabufRequest, Answer

LEMMA TypeInit == Init => TypeOK
<1> SUFFICES ASSUME Init PROVE TypeOK
  BY Zenon
<1> USE SizeAssumption DEF Init
<1>1. LoopTypes
  BY NoMsgType, Zenon DEF LoopTypes
<1>2. SessionTypes
  BY DEF SessionTypes, AllTransports
<1>3. OutputTypes
  BY FreeOutputType DEF OutputTypes
<1>4. RegistryTypes
  BY DEF RegistryTypes
<1>5. BookTypes
  BY Zenon DEF BookTypes
<1> QED
  BY <1>1, <1>2, <1>3, <1>4, <1>5, Zenon DEF TypeOK

(* The type invariant, for every size of the tables.                       *)
THEOREM TypeCorrect == Spec => []TypeOK
BY TypeInit, TypeStep, PTL DEF Spec

-----------------------------------------------------------------------------
(* Ownership: at every moment each descriptor has one holder and each      *)
(* image one output slot, and nobody's contract is broken.  First the      *)
(* inductive invariant and the lemmas on descriptor tables, then the       *)
(* requests that create sessions and deal with outputs, those that carry   *)
(* buffers and fences, and every other step.                               *)

(* The inductive invariant.  Shape says which holders can hold something   *)
(* at all: the messages' only while a reply is under way, a handshake's    *)
(* fences only in their state, a registry's only for its entries, and an   *)
(* unused slot's never.                                                    *)
MessageShape ==
    /\ phase \notin {"send", "after"} => msg = NoMsg /\ fd[Req] = NoFd /\ fd[Rep] = NoFd
    /\ msg.op = "QUEUE_AHB" => msg.slot \in Slots /\ used[msg.slot] /\ ahb[msg.slot] = 1
    /\ msg.op = "TRANSFER_AHB" =>
          /\ msg.slot \in Slots /\ msg.out \in OutSlots
          /\ used[msg.slot] /\ outs[msg.slot][msg.out].in_use

HandshakeShape ==
    \A s \in Slots :
        /\ ahb[s] # 1 => fd[Acq(s)] = NoFd
        /\ ahb[s] # 2 => fd[Rel(s)] = NoFd

RegistryShape ==
    \A s \in Slots :
        /\ \A b \in BufferIds : entry[s][b] = "none" => fd[Obj(s, b)] = NoFd
        /\ \A k \in CompSlots : comps[s][k] = 0 => fd[Done(s, k)] = NoFd

OutputShape ==
    \A s \in Slots, o \in OutSlots : ~outs[s][o].in_use => outs[s][o] = FreeOutput

UnusedShape ==
    /\ \A s \in Slots :
          ~used[s] => /\ ahb[s] = 0
                      /\ \A o \in OutSlots : outs[s][o] = FreeOutput
                      /\ \A b \in BufferIds : entry[s][b] = "none"
                      /\ \A k \in CompSlots : comps[s][k] = 0
    /\ phase = "closed" => \A s \in Slots : ~used[s]

Shape == MessageShape /\ HandshakeShape /\ RegistryShape /\ OutputShape /\ UnusedShape

Inv == TypeOK /\ Shape /\ DescriptorsOwned /\ ImagesOwned /\ NoMisuse

\* What a step has to show, given that TypeOK is preserved (TypeStep).
Kept == /\ MessageShape' /\ HandshakeShape' /\ RegistryShape'
        /\ OutputShape' /\ UnusedShape'
        /\ DescriptorsOwned' /\ ImagesOwned' /\ NoMisuse'
-----------------------------------------------------------------------------
(* Holders are told apart by their kind and their indices.                 *)
LEMMA HolderDistinct ==
    /\ Req # Rep
    /\ \A s \in Slots :
          /\ Acq(s) \notin {Req, Rep} /\ Rel(s) \notin {Req, Rep}
          /\ \A t \in Slots :
                /\ Acq(s) = Acq(t) => s = t
                /\ Rel(s) = Rel(t) => s = t
                /\ Acq(s) # Rel(t)
BY Zenon DEF Req, Rep, Acq, Rel

LEMMA DmabufHolderDistinct ==
    \A s, t \in Slots :
        /\ \A b \in BufferIds :
              /\ Obj(s, b) \notin {Req, Rep, Acq(t), Rel(t)}
              /\ \A c \in BufferIds : Obj(s, b) = Obj(t, c) => s = t /\ b = c
              /\ \A k \in CompSlots : Obj(s, b) # Done(t, k)
        /\ \A k \in CompSlots :
              /\ Done(s, k) \notin {Req, Rep, Acq(t), Rel(t)}
              /\ \A j \in CompSlots : Done(s, k) = Done(t, j) => s = t /\ k = j
BY Zenon DEF Req, Rep, Acq, Rel, Obj, Done

(* A slot's holders belong to no other slot and to no message.             *)
LEMMA SlotHoldersApart ==
    ASSUME NEW s \in Slots, NEW t \in Slots, s # t
    PROVE  /\ Acq(t) \notin SlotHolders(s) /\ Rel(t) \notin SlotHolders(s)
           /\ \A b \in BufferIds : Obj(t, b) \notin SlotHolders(s)
           /\ \A k \in CompSlots : Done(t, k) \notin SlotHolders(s)
           /\ Req \notin SlotHolders(s) /\ Rep \notin SlotHolders(s)
BY Zenon DEF SlotHolders, FenceHolders, DmabufHolders, Req, Rep, Acq, Rel, Obj, Done

(* An empty holder that receives a newly opened descriptor.                *)
LEMMA PutOwned ==
    ASSUME NEW f \in [Holders -> Fds \cup {NoFd}], NEW F, Owned(f, F),
           NEW h \in Holders, f[h] = NoFd, NEW d \in FreshOrNone(F)
    PROVE  Owned([f EXCEPT ![h] = d], Opened(F, d))
<1> DEFINE g == [f EXCEPT ![h] = d]
<1>1. g \in [Holders -> Fds \cup {NoFd}] /\ g[h] = d
      /\ \A x \in Holders \ {h} : g[x] = f[x]
  BY Zenon DEF FreshOrNone
<1>2. CASE d = NoFd
  <2>1. g = f
    BY <1>2, Zenon
  <2> QED
    BY <1>2, <2>1, Zenon DEF Opened
<1>3. CASE d # NoFd
  <2>1. d \in Fds /\ d \notin F
    BY <1>3, Zenon DEF FreshOrNone
  <2>2. \A x \in Holders : f[x] # d
    BY <1>3, <2>1, Zenon DEF Owned
  <2>3. F \cup {d} = {g[x] : x \in Holders} \ {NoFd}
    BY <1>1, <1>3 DEF Owned
  <2>4. \A x, y \in Holders : g[x] = g[y] /\ g[x] # NoFd => x = y
    BY <1>1, <2>2, Zenon DEF Owned
  <2> QED
    BY <1>3, <2>3, <2>4, Zenon DEF Owned, Opened
<1> QED
  BY <1>2, <1>3, Zenon

(* A descriptor handed from one holder to an empty one.                    *)
LEMMA MoveOwned ==
    ASSUME NEW f \in [Holders -> Fds \cup {NoFd}], NEW F, Owned(f, F),
           NEW g \in Holders, NEW h \in Holders, g # h, f[g] = NoFd
    PROVE  Owned([f EXCEPT ![g] = f[h], ![h] = NoFd], F)
<1> DEFINE e == [f EXCEPT ![g] = f[h], ![h] = NoFd]
<1>1. e[g] = f[h] /\ e[h] = NoFd /\ \A x \in Holders \ {g, h} : e[x] = f[x]
  BY Zenon
<1>2. {e[x] : x \in Holders} = {f[x] : x \in Holders}
  BY <1>1, Zenon
<1>3. \A x, y \in Holders : e[x] = e[y] /\ e[x] # NoFd => x = y
  BY <1>1, Zenon DEF Owned
<1> QED
  BY <1>2, <1>3, Zenon DEF Owned

(* Holders that close what they hold: every close is of an open            *)
(* descriptor, and the others keep theirs.                                 *)
LEMMA SweptOwned ==
    ASSUME NEW f \in [Holders -> Fds \cup {NoFd}], NEW F, Owned(f, F),
           NEW H \in SUBSET Holders
    PROVE  /\ Owned(Swept(f, H), F \ ({f[h] : h \in H} \ {NoFd}))
           /\ {f[h] : h \in H} \ {NoFd} \subseteq F
<1> DEFINE e == Swept(f, H)
           C == {f[h] : h \in H} \ {NoFd}
<1>1. \A x \in Holders : e[x] = IF x \in H THEN NoFd ELSE f[x]
  BY Zenon DEF Swept
<1>2. C \subseteq F
  BY Zenon DEF Owned
<1>3. F \ C = {e[x] : x \in Holders} \ {NoFd}
  BY <1>1 DEF Owned
<1>4. \A x, y \in Holders : e[x] = e[y] /\ e[x] # NoFd => x = y
  BY <1>1, Zenon DEF Owned
<1> QED
  BY <1>2, <1>3, <1>4, Zenon DEF Owned

(* What the records of an output slot keep and what they change.           *)
LEMMA OutputFields ==
    /\ FreeOutput.in_use = FALSE /\ FreeOutput.token = NoToken
    /\ \A id : /\ [FreeOutput EXCEPT !.in_use = TRUE, !.id = id].in_use = TRUE
               /\ [FreeOutput EXCEPT !.in_use = TRUE, !.id = id].token = NoToken
    /\ \A id, token :
          /\ [FreeOutput EXCEPT !.in_use = TRUE, !.id = id, !.token = token].in_use = TRUE
          /\ [FreeOutput EXCEPT !.in_use = TRUE, !.id = id, !.token = token].token = token
BY Zenon DEF FreeOutput

LEMMA MarkedOutputFields ==
    ASSUME NEW out \in Outputs
    PROVE  /\ Sent(out).token = out.token /\ Sent(out).in_use = out.in_use
           /\ [out EXCEPT !.prime = TRUE].token = out.token
           /\ [out EXCEPT !.prime = TRUE].in_use = out.in_use
BY Zenon DEF Outputs, Sent

LEMMA SameTokens ==
    ASSUME NEW q \in Slots, \A p \in OutSlots : outs'[q][p].token = outs[q][p].token
    PROVE  HeldTokens(q)' = HeldTokens(q)
BY Zenon DEF HeldTokens

LEMMA NoTokens ==
    ASSUME NEW q \in Slots, \A p \in OutSlots : outs'[q][p].token = NoToken
    PROVE  HeldTokens(q)' = {}
BY Zenon DEF HeldTokens

LEMMA ImagesUnchanged ==
    ASSUME ImagesOwned, UNCHANGED <<used, outs, live, lent>>
    PROVE  ImagesOwned'
<1>1. \A q \in Slots : HeldTokens(q)' = HeldTokens(q)
  BY Zenon DEF HeldTokens
<1> QED
  BY <1>1, Zenon DEF ImagesOwned

(* Closing sessions in use: each of their holders is emptied, each of      *)
(* their images returned and each of their codecs destroyed.               *)
LEMMA CloseSessionsOwned ==
    ASSUME Inv, NEW S \in SUBSET Slots, \A s \in S : used[s], CloseSessions(S)
    PROVE  /\ HandshakeShape' /\ RegistryShape' /\ OutputShape'
           /\ \A s \in Slots :
                 ~used'[s] => /\ ahb'[s] = 0
                              /\ \A o \in OutSlots : outs'[s][o] = FreeOutput
                              /\ \A b \in BufferIds : entry'[s][b] = "none"
                              /\ \A k \in CompSlots : comps'[s][k] = 0
           /\ \A h \in Holders : fd[h] = NoFd => fd'[h] = NoFd
           /\ DescriptorsOwned' /\ ImagesOwned' /\ NoMisuse'
<1> DEFINE H == ClearedHolders(S)
<1>1. H \in SUBSET Holders /\ H = ClosedHolders(S)
      /\ \A s \in S : /\ Acq(s) \in H /\ Rel(s) \in H
                      /\ \A b \in BufferIds : Obj(s, b) \in H
                      /\ \A k \in CompSlots : Done(s, k) \in H
  BY DEF ClearedHolders, ClosedHolders, SlotHolders, FenceHolders, DmabufHolders, Holders
<1>2. \A h \in Holders : fd'[h] = IF h \in H THEN NoFd ELSE fd[h]
  BY Zenon DEF CloseSessions, Swept
<1>3. HandshakeShape'
  BY <1>1, <1>2, HolderTypes, Zenon DEF Inv, Shape, HandshakeShape, CloseSessions
<1>4. RegistryShape'
  BY <1>1, <1>2, HolderTypes, Zenon DEF Inv, Shape, RegistryShape, CloseSessions
<1>5. OutputShape'
  BY Zenon DEF Inv, Shape, OutputShape, CloseSessions
<1>6. ASSUME NEW s \in Slots, ~used'[s]
      PROVE  /\ ahb'[s] = 0
             /\ \A o \in OutSlots : outs'[s][o] = FreeOutput
             /\ \A b \in BufferIds : entry'[s][b] = "none"
             /\ \A k \in CompSlots : comps'[s][k] = 0
  BY <1>6, Zenon DEF Inv, Shape, UnusedShape, CloseSessions
<1>7. DescriptorsOwned' /\ ~BadClose(Held(ClosedHolders(S)))
  BY <1>1, SweptOwned DEF Inv, TypeOK, BookTypes, DescriptorsOwned, CloseSessions, Held, BadClose
<1>8. \A s \in S : ~BadRelease(s, HeldTokens(s)) /\ ~BadDestroy(s)
  BY Zenon DEF Inv, ImagesOwned, BadRelease, BadDestroy
<1>9. live' = {s \in Slots : used'[s]}
  BY Zenon DEF Inv, ImagesOwned, CloseSessions
<1>10. ASSUME NEW s \in Slots
       PROVE  /\ lent'[s] = HeldTokens(s)'
              /\ \A o, p \in OutSlots :
                    outs'[s][o].token = outs'[s][p].token /\ outs'[s][o].token # NoToken
                        => o = p
  <2>1. CASE s \in S
    BY <2>1, Zenon DEF Inv, ImagesOwned, HeldTokens, CloseSessions, FreeOutput
  <2>2. CASE s \notin S
    BY <2>2, Zenon DEF Inv, ImagesOwned, HeldTokens, CloseSessions
  <2> QED
    BY <2>1, <2>2, Zenon
<1>11. NoMisuse'
  BY <1>7, <1>8, Zenon DEF Inv, NoMisuse, CloseSessions
<1> QED
  BY <1>1, <1>2, <1>3, <1>4, <1>5, <1>6, <1>7, <1>9, <1>10, <1>11, Zenon DEF ImagesOwned

(* A step that touches one used slot leaves the unused ones empty.         *)
LEMMA UnusedKept ==
    ASSUME UnusedShape, NEW s \in Slots, used[s], phase' # "closed",
           \A q \in Slots : used'[q] = used[q],
           \A q \in Slots \ {s} : ahb'[q] = ahb[q] /\ outs'[q] = outs[q]
                                  /\ entry'[q] = entry[q] /\ comps'[q] = comps[q]
    PROVE  UnusedShape'
<1> SUFFICES ASSUME NEW q \in Slots, ~used'[q]
             PROVE  /\ ahb'[q] = 0
                    /\ \A o \in OutSlots : outs'[q][o] = FreeOutput
                    /\ \A b \in BufferIds : entry'[q][b] = "none"
                    /\ \A k \in CompSlots : comps'[q][k] = 0
  BY Zenon DEF UnusedShape
<1>1. ~used[q] /\ q \in Slots \ {s}
  BY Zenon
<1> QED
  BY <1>1 DEF UnusedShape

(* The end of a message: both its messages' descriptors are closed.        *)
LEMMA CloseMessagesOwned ==
    ASSUME Inv, CloseMessages
    PROVE  /\ \A h \in Holders : fd'[h] = IF h \in {Req, Rep} THEN NoFd ELSE fd[h]
           /\ DescriptorsOwned' /\ NoMisuse'
<1>1. \A h \in Holders : fd'[h] = IF h \in {Req, Rep} THEN NoFd ELSE fd[h]
  BY Zenon DEF CloseMessages, Swept, MsgHolders
<1>2. MsgHolders \in SUBSET Holders
  BY HolderTypes, Zenon DEF MsgHolders
<1>3. DescriptorsOwned' /\ ~BadClose(Held(MsgHolders))
  BY <1>2, SweptOwned, Zenon DEF Inv, TypeOK, BookTypes, DescriptorsOwned, CloseMessages, Held, BadClose
<1> QED
  BY <1>1, <1>3, Zenon DEF Inv, NoMisuse, CloseMessages

(* The requests this module is about.                                      *)
CreateOrOutput ==
    \/ \E r \in Fds \cup {NoFd} : NoEffect(r)
    \/ \E s \in Slots :
          \/ \E t \in Transports, id \in 0..(SessionIdSpace - 1) :
                handle_create(s, t, id)
          \/ handle_create_without_registry(s)
          \/ OutputRequest(s)
          \/ \E o \in OutSlots : handle_transfer_ahb(s, o)

(* Requests that create a session, hand out, transfer or take back an      *)
(* output, or change nothing keep the invariant.                           *)
LEMMA OutputStep ==
    Inv /\ CreateOrOutput => Kept
<1>hyp. SUFFICES ASSUME Inv, CreateOrOutput PROVE Kept
  BY Zenon
<1> USE DEF Kept
<1>type. TypeOK
  BY <1>hyp, Zenon DEF Inv
<1>msg. MessageShape
  BY <1>hyp, Zenon DEF Inv, Shape
<1>hand. HandshakeShape
  BY <1>hyp, Zenon DEF Inv, Shape
<1>reg. RegistryShape
  BY <1>hyp, Zenon DEF Inv, Shape
<1>out. OutputShape
  BY <1>hyp, Zenon DEF Inv, Shape
<1>free. UnusedShape
  BY <1>hyp, Zenon DEF Inv, Shape
<1>own. DescriptorsOwned
  BY <1>hyp, Zenon DEF Inv
<1>img. ImagesOwned
  BY <1>hyp, Zenon DEF Inv
<1>good. NoMisuse
  BY <1>hyp, Zenon DEF Inv
<1>fd. fd \in [Holders -> Fds \cup {NoFd}] /\ open \in SUBSET Fds
  BY <1>type, Zenon DEF TypeOK, BookTypes
<1>idle. phase = "idle" => fd[Req] = NoFd /\ fd[Rep] = NoFd
  BY <1>msg, Zenon DEF MessageShape
<1>1. ASSUME NEW r \in Fds \cup {NoFd}, NoEffect(r)
      PROVE  Kept
  <2>1. MessageShape'
    BY <1>1, <1>msg, Zenon
       DEF MessageShape, NoEffect, Reply
  <2>2. HandshakeShape'
    BY <1>1, <1>fd, HolderTypes, HolderDistinct, <1>hand, Zenon
       DEF HandshakeShape, NoEffect, tables
  <2>3. RegistryShape'
    BY <1>1, <1>fd, HolderTypes, DmabufHolderDistinct, <1>reg, Zenon
       DEF RegistryShape, NoEffect, tables
  <2>4. OutputShape'
    BY <1>1, <1>out, Zenon
       DEF OutputShape, NoEffect, tables
  <2>5. UnusedShape'
    BY <1>1, <1>free, Zenon
       DEF UnusedShape, NoEffect, tables, Reply
  <2>6. DescriptorsOwned'
    <3>1. fd[Req] = NoFd /\ r \in FreshOrNone(open) /\ fd' = [fd EXCEPT ![Req] = r] /\ open' = Opened(open, r)
      BY <1>1, <1>idle, Zenon DEF NoEffect, Reply
    <3>2. Owned([fd EXCEPT ![Req] = r], Opened(open, r))
      BY <3>1, <1>fd, HolderTypes, PutOwned, <1>own, Zenon DEF DescriptorsOwned
    <3> QED
      BY <3>1, <3>2, <1>own, Zenon DEF DescriptorsOwned
  <2>7. ImagesOwned'
    BY <1>1, ImagesUnchanged, <1>img, Zenon
       DEF NoEffect, tables, backend
  <2>8. NoMisuse'
    BY <1>1, <1>good, Zenon
       DEF NoMisuse, NoEffect
  <2> QED
    BY <2>1, <2>2, <2>3, <2>4, <2>5, <2>6, <2>7, <2>8, Zenon
<1>2. ASSUME NEW s \in Slots, NEW t \in Transports,
             NEW id \in 0..(SessionIdSpace - 1),
             handle_create(s, t, id)
      PROVE  Kept
  <2>1. s \notin live /\ \A o \in OutSlots : outs[s][o] = FreeOutput
    BY <1>2, <1>img, <1>free, Zenon
       DEF handle_create, ImagesOwned, UnusedShape
  <2>2. MessageShape'
    BY <1>2, <1>msg, Zenon
       DEF MessageShape, handle_create, Reply
  <2>3. HandshakeShape'
    BY <1>2, <2>1, <1>fd, <1>hand, <1>type, <1>free, Zenon
       DEF HandshakeShape, handle_create, tables, TypeOK, SessionTypes, UnusedShape
  <2>4. RegistryShape'
    BY <1>2, <1>fd, <1>reg, <1>type, <1>free, Zenon
       DEF RegistryShape, handle_create, tables, TypeOK, RegistryTypes, UnusedShape
  <2>5. OutputShape'
    BY <1>2, <1>out, <1>type, Zenon
       DEF OutputShape, handle_create, tables, TypeOK, OutputTypes
  <2>6. UnusedShape'
    BY <1>2, <1>free, <1>type, Zenon
       DEF UnusedShape, handle_create, tables, Reply, TypeOK, SessionTypes, OutputTypes, RegistryTypes
  <2>7. DescriptorsOwned'
    BY <1>2, <1>own, Zenon
       DEF DescriptorsOwned, handle_create
  <2>8. ImagesOwned'
    <3>1. live' = {q \in Slots : used'[q]}
      BY <1>2, <2>1, <1>img, <1>type, Zenon DEF handle_create, ImagesOwned, TypeOK, SessionTypes
    <3>2. \A q \in Slots, o \in OutSlots : outs'[q][o] = outs[q][o]
      BY <1>2, <2>1, <1>type, Zenon DEF handle_create, TypeOK, OutputTypes
    <3>3. \A q \in Slots : HeldTokens(q)' = HeldTokens(q)
      BY <3>2, SameTokens, Zenon
    <3>4. live' = {q \in Slots : used'[q]} /\ lent' = lent
      BY <1>2, <3>1, <1>img, Zenon DEF ImagesOwned, handle_create, tables, backend, release_output
    <3>5. \A q \in Slots : lent'[q] = HeldTokens(q)'
      BY <3>1, <3>2, <3>3, <3>4, <1>img, Zenon DEF ImagesOwned
    <3>6. \A q \in Slots, a, c \in OutSlots :
             outs'[q][a].token = outs'[q][c].token /\ outs'[q][a].token # NoToken => a = c
      BY <3>1, <3>2, <3>3, <1>img DEF ImagesOwned
    <3> QED
      BY <3>4, <3>5, <3>6, <1>img, Zenon DEF ImagesOwned
  <2>9. NoMisuse'
    BY <1>2, <2>1, <1>good, Zenon
       DEF NoMisuse, handle_create
  <2> QED
    BY <2>2, <2>3, <2>4, <2>5, <2>6, <2>7, <2>8, <2>9, Zenon
<1>3. ASSUME NEW s \in Slots, handle_create_without_registry(s)
      PROVE  Kept
  <2>1. s \notin live
    BY <1>3, <1>img, Zenon
       DEF handle_create_without_registry, ImagesOwned
  <2>2. MessageShape'
    BY <1>3, <1>msg, Zenon
       DEF MessageShape, handle_create_without_registry, Reply
  <2>3. HandshakeShape'
    BY <1>3, <1>fd, HolderTypes, HolderDistinct, <1>hand, Zenon
       DEF HandshakeShape, handle_create_without_registry, tables
  <2>4. RegistryShape'
    BY <1>3, <1>fd, HolderTypes, DmabufHolderDistinct, <1>reg, Zenon
       DEF RegistryShape, handle_create_without_registry, tables
  <2>5. OutputShape'
    BY <1>3, <1>out, Zenon
       DEF OutputShape, handle_create_without_registry, tables
  <2>6. UnusedShape'
    BY <1>3, <1>free, Zenon
       DEF UnusedShape, handle_create_without_registry, tables, Reply
  <2>7. DescriptorsOwned'
    BY <1>3, <1>own, Zenon
       DEF DescriptorsOwned, handle_create_without_registry
  <2>8. ImagesOwned'
    BY <1>3, <2>1, ImagesUnchanged, <1>img, Zenon
       DEF handle_create_without_registry, tables, backend
  <2>9. NoMisuse'
    BY <1>3, <2>1, <1>good, Zenon
       DEF NoMisuse, handle_create_without_registry
  <2> QED
    BY <2>2, <2>3, <2>4, <2>5, <2>6, <2>7, <2>8, <2>9, Zenon
<1>4. ASSUME NEW s \in Slots, NEW o \in OutSlots,
             NEW f \in Fds \cup {NoFd}, handle_dequeue_bytes(s, o, f)
      PROVE  Kept
  <2>1. \A q \in Slots, p \in OutSlots : outs'[q][p] = IF q = s /\ p = o THEN [FreeOutput EXCEPT !.in_use = TRUE, !.id = nextOut] ELSE outs[q][p]
    BY <1>4, <1>type, Zenon
       DEF handle_dequeue_bytes, TypeOK, OutputTypes
  <2>2. used[s] /\ outs[s][o] = FreeOutput
    BY <1>4, <1>out, Zenon
       DEF handle_dequeue_bytes, OutputShape, free_output_slot, Served
  <2>3. MessageShape'
    BY <1>4, <1>msg, Zenon
       DEF MessageShape, handle_dequeue_bytes, Reply
  <2>4. HandshakeShape'
    BY <1>4, <1>fd, HolderTypes, HolderDistinct, <1>hand, Zenon
       DEF HandshakeShape, handle_dequeue_bytes, tables
  <2>5. RegistryShape'
    BY <1>4, <1>fd, HolderTypes, DmabufHolderDistinct, <1>reg, Zenon
       DEF RegistryShape, handle_dequeue_bytes, tables
  <2>6. OutputShape'
    BY <1>4, <2>1, OutputFields, <1>out
       DEF OutputShape, handle_dequeue_bytes, tables
  <2>7. UnusedShape'
    BY <1>4, <2>1, <2>2, <1>free
       DEF UnusedShape, handle_dequeue_bytes, tables, Reply
  <2>8. DescriptorsOwned'
    <3>1. fd[Rep] = NoFd /\ f \in FreshOrNone(open) /\ fd' = [fd EXCEPT ![Rep] = f] /\ open' = Opened(open, f)
      BY NameAssumption, <1>4, <1>idle, Zenon DEF handle_dequeue_bytes, Reply, FreshOrNone, Opened
    <3>2. Owned([fd EXCEPT ![Rep] = f], Opened(open, f))
      BY <3>1, <1>fd, HolderTypes, PutOwned, <1>own, Zenon DEF DescriptorsOwned
    <3> QED
      BY <3>1, <3>2, <1>own, Zenon DEF DescriptorsOwned
  <2>9. ImagesOwned'
    <3>1. \A q \in Slots, p \in OutSlots : outs'[q][p].token = outs[q][p].token
      BY <1>4, <2>1, <2>2, OutputFields DEF handle_dequeue_bytes
    <3>2. \A q \in Slots : HeldTokens(q)' = HeldTokens(q)
      BY <1>4, <3>1, SameTokens, Zenon DEF handle_dequeue_bytes
    <3>3. live' = {q \in Slots : used'[q]} /\ lent' = lent
      BY <1>4, <1>img, Zenon DEF ImagesOwned, handle_dequeue_bytes, tables, backend, release_output
    <3>4. \A q \in Slots : lent'[q] = HeldTokens(q)'
      BY <3>1, <3>2, <3>3, <1>img, Zenon DEF ImagesOwned
    <3>5. \A q \in Slots, a, c \in OutSlots :
             outs'[q][a].token = outs'[q][c].token /\ outs'[q][a].token # NoToken => a = c
      BY <3>1, <3>2, <1>img DEF ImagesOwned
    <3> QED
      BY <3>3, <3>4, <3>5, <1>img, Zenon DEF ImagesOwned
  <2>10. NoMisuse'
    BY <1>4, <1>good, Zenon
       DEF NoMisuse, handle_dequeue_bytes
  <2> QED
    BY <2>3, <2>4, <2>5, <2>6, <2>7, <2>8, <2>9, <2>10, Zenon
<1>5. ASSUME NEW s \in Slots, NEW o \in OutSlots, NEW token \in Tokens,
             NEW f \in Fds \cup {NoFd},
             handle_dequeue_image(s, o, token, f)
      PROVE  Kept
  <2>1. \A q \in Slots, p \in OutSlots : outs'[q][p] = IF q = s /\ p = o THEN [FreeOutput EXCEPT !.in_use = TRUE, !.id = nextOut, !.token = token] ELSE outs[q][p]
    BY <1>5, <1>type, Zenon
       DEF handle_dequeue_image, TypeOK, OutputTypes
  <2>2. used[s] /\ outs[s][o] = FreeOutput
    BY <1>5, <1>out, Zenon
       DEF handle_dequeue_image, OutputShape, free_output_slot, Served
  <2>3. [FreeOutput EXCEPT !.in_use = TRUE, !.id = nextOut, !.token = token].token = token
    BY <1>5, OutputFields, Zenon
       DEF handle_dequeue_image
  <2>4. MessageShape'
    BY <1>5, <1>msg, Zenon
       DEF MessageShape, handle_dequeue_image, Reply
  <2>5. HandshakeShape'
    BY <1>5, <1>fd, HolderTypes, HolderDistinct, <1>hand, Zenon
       DEF HandshakeShape, handle_dequeue_image, tables
  <2>6. RegistryShape'
    BY <1>5, <1>fd, HolderTypes, DmabufHolderDistinct, <1>reg, Zenon
       DEF RegistryShape, handle_dequeue_image, tables
  <2>7. OutputShape'
    BY <1>5, <2>1, OutputFields, <1>out
       DEF OutputShape, handle_dequeue_image, tables
  <2>8. UnusedShape'
    BY <1>5, <2>1, <2>2, <1>free
       DEF UnusedShape, handle_dequeue_image, tables, Reply
  <2>9. DescriptorsOwned'
    <3>1. fd[Rep] = NoFd /\ f \in FreshOrNone(open) /\ fd' = [fd EXCEPT ![Rep] = f] /\ open' = Opened(open, f)
      BY <1>5, <1>idle, Zenon DEF handle_dequeue_image, Reply
    <3>2. Owned([fd EXCEPT ![Rep] = f], Opened(open, f))
      BY <3>1, <1>fd, HolderTypes, PutOwned, <1>own, Zenon DEF DescriptorsOwned
    <3> QED
      BY <3>1, <3>2, <1>own, Zenon DEF DescriptorsOwned
  <2>10. ImagesOwned'
    <3>1. \A q \in Slots, p \in OutSlots : outs'[q][p].token = IF q = s /\ p = o THEN token ELSE outs[q][p].token
      BY <2>1, <2>3, Zenon
    <3>2. \A q \in Slots \ {s} : HeldTokens(q)' = HeldTokens(q) /\ lent'[q] = lent[q]
      BY <1>5, <3>1, <1>type DEF handle_dequeue_image, HeldTokens, TypeOK, BookTypes
    <3>3. outs[s][o].token = NoToken
      BY <1>5, <2>2, OutputFields, Zenon DEF handle_dequeue_image
    <3>4. HeldTokens(s)' = HeldTokens(s) \cup {token}
      BY NameAssumption, <1>5, <3>1, <3>3 DEF handle_dequeue_image, HeldTokens
    <3>5. lent'[s] = lent[s] \cup {token}
      BY <1>5, <1>type, Zenon DEF handle_dequeue_image, TypeOK, BookTypes
    <3>6. \A p \in OutSlots : outs[s][p].token # token
      BY NameAssumption, <1>5, <1>img DEF handle_dequeue_image, ImagesOwned, HeldTokens
    <3>7. live' = {q \in Slots : used'[q]}
      BY <1>5, <1>img, Zenon DEF ImagesOwned, handle_dequeue_image, tables, backend, release_output
    <3>8. \A q \in Slots : lent'[q] = HeldTokens(q)'
      BY <3>1, <3>2, <3>4, <3>5, <3>6, <3>7, <1>img, Zenon DEF ImagesOwned
    <3>9. \A q \in Slots, a, c \in OutSlots :
             outs'[q][a].token = outs'[q][c].token /\ outs'[q][a].token # NoToken => a = c
      BY <3>1, <3>2, <3>4, <3>5, <3>6, <1>img DEF ImagesOwned
    <3> QED
      BY <3>7, <3>8, <3>9, <1>img, Zenon DEF ImagesOwned
  <2>11. NoMisuse'
    BY <1>5, <1>good, Zenon
       DEF NoMisuse, handle_dequeue_image
  <2> QED
    BY <2>4, <2>5, <2>6, <2>7, <2>8, <2>9, <2>10, <2>11, Zenon
<1>6. ASSUME NEW s \in Slots, NEW o \in OutSlots,
             NEW r \in Fds \cup {NoFd}, handle_release(s, o, r)
      PROVE  Kept
  <2>1. \A q \in Slots, p \in OutSlots : outs'[q][p] = IF q = s /\ p = o THEN FreeOutput ELSE outs[q][p]
    BY <1>6, <1>type, Zenon
       DEF handle_release, TypeOK, OutputTypes
  <2>2. s \in live
    BY <1>6, <1>img, Zenon
       DEF handle_release, ImagesOwned, Served
  <2>3. MessageShape'
    BY <1>6, <1>msg, Zenon
       DEF MessageShape, handle_release, Reply
  <2>4. HandshakeShape'
    BY <1>6, <1>fd, HolderTypes, HolderDistinct, <1>hand, Zenon
       DEF HandshakeShape, handle_release, tables
  <2>5. RegistryShape'
    BY <1>6, <1>fd, HolderTypes, DmabufHolderDistinct, <1>reg, Zenon
       DEF RegistryShape, handle_release, tables
  <2>6. OutputShape'
    BY <1>6, <2>1, <1>out
       DEF OutputShape, handle_release, tables
  <2>7. UnusedShape'
    BY <1>6, <2>1, <1>free
       DEF UnusedShape, handle_release, tables, Reply
  <2>8. DescriptorsOwned'
    <3>1. fd[Req] = NoFd /\ r \in FreshOrNone(open) /\ fd' = [fd EXCEPT ![Req] = r] /\ open' = Opened(open, r)
      BY <1>6, <1>idle, Zenon DEF handle_release, Reply
    <3>2. Owned([fd EXCEPT ![Req] = r], Opened(open, r))
      BY <3>1, <1>fd, HolderTypes, PutOwned, <1>own, Zenon DEF DescriptorsOwned
    <3> QED
      BY <3>1, <3>2, <1>own, Zenon DEF DescriptorsOwned
  <2>9. ImagesOwned'
    <3>1. \A q \in Slots, p \in OutSlots : outs'[q][p].token = IF q = s /\ p = o THEN NoToken ELSE outs[q][p].token
      BY <1>6, <2>1, OutputFields DEF handle_release
    <3>2. \A q \in Slots \ {s} : HeldTokens(q)' = HeldTokens(q) /\ lent'[q] = lent[q]
      BY <1>6, <3>1, <1>type DEF handle_release, HeldTokens, TypeOK, BookTypes, release_output
    <3>3. HeldTokens(s)' = HeldTokens(s) \ {outs[s][o].token}
      BY <1>6, <3>1, <1>img DEF handle_release, HeldTokens, ImagesOwned
    <3>4. lent'[s] = lent[s] \ {outs[s][o].token}
      BY <1>6, <1>type, Zenon DEF handle_release, TypeOK, BookTypes, release_output
    <3>5. live' = {q \in Slots : used'[q]}
      BY <1>6, <1>img, Zenon DEF ImagesOwned, handle_release, tables, backend, release_output
    <3>6. \A q \in Slots : lent'[q] = HeldTokens(q)'
      BY <3>1, <3>2, <3>3, <3>4, <3>5, <1>img, Zenon DEF ImagesOwned
    <3>7. \A q \in Slots, a, c \in OutSlots :
             outs'[q][a].token = outs'[q][c].token /\ outs'[q][a].token # NoToken => a = c
      BY <3>1, <1>img DEF ImagesOwned
    <3> QED
      BY <3>5, <3>6, <3>7, <1>img, Zenon DEF ImagesOwned
  <2>10. NoMisuse'
    <3>1. outs[s][o].token # NoToken => outs[s][o].token \in lent[s]
      BY <1>6, <1>img DEF handle_release, ImagesOwned, HeldTokens
    <3> QED
      BY <1>6, <2>2, <3>1, <1>good, Zenon DEF NoMisuse, handle_release, BadRelease
  <2> QED
    BY <2>3, <2>4, <2>5, <2>6, <2>7, <2>8, <2>9, <2>10, Zenon
<1>7. ASSUME NEW s \in Slots, NEW o \in OutSlots,
             handle_transfer_ahb(s, o)
      PROVE  Kept
  <2>1. MessageShape'
    BY <1>7, <1>msg, Zenon
       DEF MessageShape, handle_transfer_ahb, Reply, Served, tables
  <2>2. HandshakeShape'
    BY <1>7, <1>fd, HolderTypes, HolderDistinct, <1>hand, Zenon
       DEF HandshakeShape, handle_transfer_ahb, tables
  <2>3. RegistryShape'
    BY <1>7, <1>fd, HolderTypes, DmabufHolderDistinct, <1>reg, Zenon
       DEF RegistryShape, handle_transfer_ahb, tables
  <2>4. OutputShape'
    BY <1>7, <1>out, Zenon
       DEF OutputShape, handle_transfer_ahb, tables
  <2>5. UnusedShape'
    BY <1>7, <1>free, Zenon
       DEF UnusedShape, handle_transfer_ahb, tables, Reply
  <2>6. DescriptorsOwned'
    BY <1>7, <1>own, Zenon
       DEF DescriptorsOwned, handle_transfer_ahb
  <2>7. ImagesOwned'
    BY <1>7, ImagesUnchanged, <1>img, Zenon
       DEF handle_transfer_ahb, tables, backend
  <2>8. NoMisuse'
    BY <1>7, <1>good, Zenon
       DEF NoMisuse, handle_transfer_ahb
  <2> QED
    BY <2>1, <2>2, <2>3, <2>4, <2>5, <2>6, <2>7, <2>8, Zenon
<1>8. ASSUME NEW s \in Slots, NEW o \in OutSlots,
             NEW f \in Fds \cup {NoFd}, handle_transfer_prime(s, o, f)
      PROVE  Kept
  <2>1. \A q \in Slots, p \in OutSlots : outs'[q][p] = IF q = s /\ p = o THEN [outs[s][o] EXCEPT !.prime = TRUE] ELSE outs[q][p]
    BY <1>8, <1>type, Zenon
       DEF handle_transfer_prime, TypeOK, OutputTypes
  <2>2. \A q \in Slots, p \in OutSlots : outs'[q][p].token = outs[q][p].token /\ outs'[q][p].in_use = outs[q][p].in_use
    BY <1>8, <2>1, MarkedOutputFields, <1>type
       DEF handle_transfer_prime, TypeOK, OutputTypes
  <2>3. MessageShape'
    BY <1>8, <1>msg, Zenon
       DEF MessageShape, handle_transfer_prime, Reply
  <2>4. HandshakeShape'
    BY <1>8, <1>fd, HolderTypes, HolderDistinct, <1>hand, Zenon
       DEF HandshakeShape, handle_transfer_prime, tables
  <2>5. RegistryShape'
    BY <1>8, <1>fd, HolderTypes, DmabufHolderDistinct, <1>reg, Zenon
       DEF RegistryShape, handle_transfer_prime, tables
  <2>6. OutputShape'
    BY <1>8, <2>1, <2>2, <1>out
       DEF OutputShape, handle_transfer_prime, tables
  <2>7. UnusedShape'
    BY <1>8, <2>1, <1>free
       DEF UnusedShape, handle_transfer_prime, tables, Reply, Served
  <2>8. DescriptorsOwned'
    <3>1. fd[Rep] = NoFd /\ f \in FreshOrNone(open) /\ fd' = [fd EXCEPT ![Rep] = f] /\ open' = Opened(open, f)
      BY NameAssumption, <1>8, <1>idle, Zenon DEF handle_transfer_prime, Reply, FreshOrNone, Opened
    <3>2. Owned([fd EXCEPT ![Rep] = f], Opened(open, f))
      BY <3>1, <1>fd, HolderTypes, PutOwned, <1>own, Zenon DEF DescriptorsOwned
    <3> QED
      BY <3>1, <3>2, <1>own, Zenon DEF DescriptorsOwned
  <2>9. ImagesOwned'
    <3>1. \A q \in Slots : HeldTokens(q)' = HeldTokens(q)
      BY <1>8, <2>2, SameTokens, Zenon DEF handle_transfer_prime
    <3>2. live' = {q \in Slots : used'[q]} /\ lent' = lent
      BY <1>8, <1>img, Zenon DEF ImagesOwned, handle_transfer_prime, tables, backend, release_output
    <3>3. \A q \in Slots : lent'[q] = HeldTokens(q)'
      BY <2>2, <3>1, <3>2, <1>img, Zenon DEF ImagesOwned
    <3>4. \A q \in Slots, a, c \in OutSlots :
             outs'[q][a].token = outs'[q][c].token /\ outs'[q][a].token # NoToken => a = c
      BY <2>2, <3>1, <1>img DEF ImagesOwned
    <3> QED
      BY <3>2, <3>3, <3>4, <1>img, Zenon DEF ImagesOwned
  <2>10. NoMisuse'
    BY <1>8, <1>good, Zenon
       DEF NoMisuse, handle_transfer_prime
  <2> QED
    BY <2>3, <2>4, <2>5, <2>6, <2>7, <2>8, <2>9, <2>10, Zenon
<1> QED
  BY <1>hyp, <1>1, <1>2, <1>3, <1>4, <1>5, <1>6, <1>7, <1>8, Zenon DEF CreateOrOutput, OutputRequest
-----------------------------------------------------------------------------
(* The requests that carry buffers and fences.                             *)
Fenced ==
    \E s \in Slots :
       \/ \E r, d \in Fds \cup {NoFd} : handle_queue_ahb(s, r, d)
       \/ handle_complete_ahb(s)
       \/ DmabufRequest(s)

(* The AHardwareBuffer handshake and the dma-buf registry keep the         *)
(* invariant.                                                              *)
LEMMA FenceStep ==
    Inv /\ Fenced => Kept
<1>hyp. SUFFICES ASSUME Inv, Fenced PROVE Kept
  BY Zenon
<1> USE DEF Kept
<1>type. TypeOK
  BY <1>hyp, Zenon DEF Inv
<1>msg. MessageShape
  BY <1>hyp, Zenon DEF Inv, Shape
<1>hand. HandshakeShape
  BY <1>hyp, Zenon DEF Inv, Shape
<1>reg. RegistryShape
  BY <1>hyp, Zenon DEF Inv, Shape
<1>out. OutputShape
  BY <1>hyp, Zenon DEF Inv, Shape
<1>free. UnusedShape
  BY <1>hyp, Zenon DEF Inv, Shape
<1>own. DescriptorsOwned
  BY <1>hyp, Zenon DEF Inv
<1>img. ImagesOwned
  BY <1>hyp, Zenon DEF Inv
<1>good. NoMisuse
  BY <1>hyp, Zenon DEF Inv
<1>fd. fd \in [Holders -> Fds \cup {NoFd}] /\ open \in SUBSET Fds
  BY <1>type, Zenon DEF TypeOK, BookTypes
<1>idle. phase = "idle" => fd[Req] = NoFd /\ fd[Rep] = NoFd
  BY <1>msg, Zenon DEF MessageShape
<1>9. ASSUME NEW s \in Slots, NEW r \in Fds \cup {NoFd},
             NEW d \in Fds \cup {NoFd}, handle_queue_ahb(s, r, d)
      PROVE  Kept
  <2>1. used[s] /\ fd[Acq(s)] = NoFd /\ fd[Rel(s)] = NoFd
    BY <1>9, <1>hand
       DEF handle_queue_ahb, HandshakeShape, Served
  <2>2. fd' = [[fd EXCEPT ![Req] = r] EXCEPT ![Acq(s)] = d]
    BY <1>9, <2>1, <1>fd, HolderTypes, HolderDistinct, Zenon
       DEF handle_queue_ahb
  <2>3. MessageShape'
    BY <1>9, <1>msg, <1>type, Zenon
       DEF MessageShape, handle_queue_ahb, Reply, Served, TypeOK, SessionTypes
  <2>4. HandshakeShape'
    BY <1>9, <2>1, <2>2, <1>fd, HolderTypes, HolderDistinct, <1>hand, <1>type
       DEF HandshakeShape, handle_queue_ahb, tables, TypeOK, SessionTypes
  <2>5. RegistryShape'
    <3>1. /\ \A q \in Slots, b \in BufferIds : fd'[Obj(q, b)] = fd[Obj(q, b)]
          /\ \A q \in Slots, k \in CompSlots : fd'[Done(q, k)] = fd[Done(q, k)]
      BY <2>2, <1>fd, HolderTypes, DmabufHolderDistinct, Zenon
    <3>2. UNCHANGED <<entry, comps>>
      BY <1>9, Zenon DEF handle_queue_ahb, tables
    <3> QED
      BY <3>1, <3>2, <1>reg DEF RegistryShape
  <2>6. OutputShape'
    BY <1>9, <1>out, Zenon
       DEF OutputShape, handle_queue_ahb, tables
  <2>7. UnusedShape'
    <3>1. used[s] /\ \A q \in Slots : used'[q] = used[q]
      BY <1>9, <2>1, Zenon DEF handle_queue_ahb, tables
    <3>2. phase' # "closed"
      BY <1>9, Zenon DEF handle_queue_ahb, Reply
    <3>3. \A q \in Slots \ {s} : ahb'[q] = ahb[q] /\ outs'[q] = outs[q] /\ entry'[q] = entry[q] /\ comps'[q] = comps[q]
      BY <1>9, <1>type, Zenon DEF handle_queue_ahb, tables, TypeOK, SessionTypes, RegistryTypes, Finish
    <3> QED
      BY <3>1, <3>2, <3>3, <1>free, UnusedKept, Zenon
  <2>8. DescriptorsOwned'
    <3>1. [fd EXCEPT ![Req] = r] \in [Holders -> Fds \cup {NoFd}] /\ [fd EXCEPT ![Req] = r][Acq(s)] = NoFd
      BY <1>9, <2>1, <1>fd, HolderTypes, HolderDistinct, Zenon DEF handle_queue_ahb
    <3>2. fd[Req] = NoFd /\ Owned([fd EXCEPT ![Req] = r], Opened(open, r))
      BY <1>9, <1>fd, <1>idle, HolderTypes, PutOwned, <1>own, Zenon DEF handle_queue_ahb, DescriptorsOwned, Reply
    <3>3. d \in FreshOrNone(Opened(open, r)) /\ open' = Opened(Opened(open, r), d)
      BY <1>9, Zenon DEF handle_queue_ahb
    <3>4. Owned([[fd EXCEPT ![Req] = r] EXCEPT ![Acq(s)] = d], Opened(Opened(open, r), d))
      BY <3>1, <3>2, <3>3, HolderTypes, PutOwned, Zenon DEF NoFd
    <3> QED
      BY <2>2, <3>3, <3>4, <1>own, Zenon DEF DescriptorsOwned
  <2>9. ImagesOwned'
    BY <1>9, ImagesUnchanged, <1>img, Zenon
       DEF handle_queue_ahb, tables, backend
  <2>10. NoMisuse'
    BY <1>9, <1>good, Zenon
       DEF NoMisuse, handle_queue_ahb
  <2> QED
    BY <2>3, <2>4, <2>5, <2>6, <2>7, <2>8, <2>9, <2>10, Zenon
<1>10. ASSUME NEW s \in Slots, handle_complete_ahb(s)
      PROVE  Kept
  <2>1. fd[Acq(s)] = NoFd
    BY <1>10, <1>hand
       DEF handle_complete_ahb, HandshakeShape
  <2>2. fd' = [fd EXCEPT ![Rep] = fd[Rel(s)], ![Rel(s)] = NoFd]
    BY <1>10, <2>1, <1>fd, HolderTypes, HolderDistinct, Zenon
       DEF handle_complete_ahb
  <2>3. MessageShape'
    BY <1>10, <1>msg, Zenon
       DEF MessageShape, handle_complete_ahb, Reply
  <2>4. HandshakeShape'
    BY <1>10, <2>1, <2>2, <1>fd, HolderTypes, HolderDistinct, <1>hand, <1>type
       DEF HandshakeShape, handle_complete_ahb, tables, TypeOK, SessionTypes
  <2>5. RegistryShape'
    <3>1. /\ \A q \in Slots, b \in BufferIds : fd'[Obj(q, b)] = fd[Obj(q, b)]
          /\ \A q \in Slots, k \in CompSlots : fd'[Done(q, k)] = fd[Done(q, k)]
      BY <2>2, <1>fd, HolderTypes, DmabufHolderDistinct, Zenon
    <3>2. UNCHANGED <<entry, comps>>
      BY <1>10, Zenon DEF handle_complete_ahb, tables
    <3> QED
      BY <3>1, <3>2, <1>reg DEF RegistryShape
  <2>6. OutputShape'
    BY <1>10, <1>out, Zenon
       DEF OutputShape, handle_complete_ahb, tables
  <2>7. UnusedShape'
    <3>1. used[s] /\ \A q \in Slots : used'[q] = used[q]
      BY <1>10, Zenon DEF handle_complete_ahb, tables
    <3>2. phase' # "closed"
      BY <1>10, Zenon DEF handle_complete_ahb, Reply
    <3>3. \A q \in Slots \ {s} : ahb'[q] = ahb[q] /\ outs'[q] = outs[q] /\ entry'[q] = entry[q] /\ comps'[q] = comps[q]
      BY <1>10, <1>type, Zenon DEF handle_complete_ahb, tables, TypeOK, SessionTypes, RegistryTypes, Finish
    <3> QED
      BY <3>1, <3>2, <3>3, <1>free, UnusedKept, Zenon
  <2>8. DescriptorsOwned'
    <3>1. fd[Rep] = NoFd /\ Rep # Rel(s) /\ Rel(s) \in Holders /\ Rep \in Holders
      BY <1>10, <1>idle, HolderTypes, HolderDistinct, Zenon DEF handle_complete_ahb, Reply
    <3>2. Owned([fd EXCEPT ![Rep] = fd[Rel(s)], ![Rel(s)] = NoFd], open)
      BY <1>fd, <3>1, MoveOwned, <1>own, Zenon DEF DescriptorsOwned
    <3>3. open' = open
      BY <1>10, Zenon DEF handle_complete_ahb
    <3> QED
      BY <2>2, <3>2, <3>3, <1>own, Zenon DEF DescriptorsOwned
  <2>9. ImagesOwned'
    BY <1>10, ImagesUnchanged, <1>img, Zenon
       DEF handle_complete_ahb, tables, backend
  <2>10. NoMisuse'
    BY <1>10, <1>good, Zenon
       DEF NoMisuse, handle_complete_ahb
  <2> QED
    BY <2>3, <2>4, <2>5, <2>6, <2>7, <2>8, <2>9, <2>10, Zenon
<1>11. ASSUME NEW s \in Slots, NEW b \in BufferIds,
             NEW r \in Fds \cup {NoFd}, NEW d \in Fds \cup {NoFd},
             handle_register_dmabuf(s, b, r, d)
      PROVE  Kept
  <2>1. used[s] /\ fd[Obj(s, b)] = NoFd
    BY <1>11, <1>reg, Zenon
       DEF handle_register_dmabuf, RegistryShape, Served
  <2>2. fd' = [[fd EXCEPT ![Req] = r] EXCEPT ![Obj(s, b)] = d]
    BY <1>11, <2>1, <1>fd, HolderTypes, DmabufHolderDistinct, Zenon
       DEF handle_register_dmabuf
  <2>3. open' = Opened(Opened(open, r), d) /\ d \in FreshOrNone(Opened(open, r))
    BY NameAssumption, <1>11, Zenon
       DEF handle_register_dmabuf, Opened, FreshOrNone
  <2>4. MessageShape'
    BY <1>11, <1>msg, Zenon
       DEF MessageShape, handle_register_dmabuf, Reply
  <2>5. HandshakeShape'
    BY <1>11, <2>2, <1>fd, HolderTypes, HolderDistinct, DmabufHolderDistinct, <1>hand
       DEF HandshakeShape, handle_register_dmabuf, tables
  <2>6. RegistryShape'
    BY <1>11, <2>2, <1>fd, HolderTypes, DmabufHolderDistinct, <1>reg, <1>type
       DEF RegistryShape, handle_register_dmabuf, tables, TypeOK, RegistryTypes
  <2>7. OutputShape'
    BY <1>11, <1>out, Zenon
       DEF OutputShape, handle_register_dmabuf, tables
  <2>8. UnusedShape'
    <3>1. used[s] /\ \A q \in Slots : used'[q] = used[q]
      BY <1>11, <2>1, Zenon DEF handle_register_dmabuf, tables
    <3>2. phase' # "closed"
      BY <1>11, Zenon DEF handle_register_dmabuf, Reply
    <3>3. \A q \in Slots \ {s} : ahb'[q] = ahb[q] /\ outs'[q] = outs[q] /\ entry'[q] = entry[q] /\ comps'[q] = comps[q]
      BY <1>11, <1>type, Zenon DEF handle_register_dmabuf, tables, TypeOK, SessionTypes, RegistryTypes, Finish
    <3> QED
      BY <3>1, <3>2, <3>3, <1>free, UnusedKept, Zenon
  <2>9. DescriptorsOwned'
    <3>1. [fd EXCEPT ![Req] = r] \in [Holders -> Fds \cup {NoFd}] /\ [fd EXCEPT ![Req] = r][Obj(s, b)] = NoFd
      BY <1>11, <2>1, <1>fd, HolderTypes, DmabufHolderDistinct, Zenon DEF handle_register_dmabuf
    <3>2. fd[Req] = NoFd /\ Owned([fd EXCEPT ![Req] = r], Opened(open, r))
      BY <1>11, <1>fd, <1>idle, HolderTypes, PutOwned, <1>own, Zenon DEF handle_register_dmabuf, DescriptorsOwned, Reply, FreshOrNone
    <3>3. Owned([[fd EXCEPT ![Req] = r] EXCEPT ![Obj(s, b)] = d], Opened(Opened(open, r), d))
      BY <2>3, <3>1, <3>2, HolderTypes, PutOwned, Zenon DEF NoFd
    <3> QED
      BY <2>2, <2>3, <3>3, <1>own, Zenon DEF DescriptorsOwned
  <2>10. ImagesOwned'
    BY <1>11, ImagesUnchanged, <1>img, Zenon
       DEF handle_register_dmabuf, tables, backend
  <2>11. NoMisuse'
    BY <1>11, <1>good, Zenon
       DEF NoMisuse, handle_register_dmabuf
  <2> QED
    BY <2>4, <2>5, <2>6, <2>7, <2>8, <2>9, <2>10, <2>11, Zenon
<1>12. ASSUME NEW s \in Slots, NEW b \in BufferIds,
             handle_unregister_dmabuf(s, b)
      PROVE  Kept
  <2>1. used[s] /\ fd' = Swept(fd, {Obj(s, b)})
    BY <1>12, <1>fd, HolderTypes, Zenon
       DEF handle_unregister_dmabuf, Served, Swept
  <2>2. \A h \in Holders : fd'[h] = IF h = Obj(s, b) THEN NoFd ELSE fd[h]
    BY <1>12, <2>1, Zenon
       DEF handle_unregister_dmabuf, Swept
  <2>3. DescriptorsOwned' /\ ~BadClose(Held({Obj(s, b)}))
    <3>1. {Obj(s, b)} \in SUBSET Holders
      BY HolderTypes, Zenon DEF FenceHolders
    <3>2. /\ Owned(Swept(fd, {Obj(s, b)}), open \ Held({Obj(s, b)}))
          /\ Held({Obj(s, b)}) \subseteq open
      BY <3>1, <1>fd, SweptOwned, <1>own, Zenon DEF DescriptorsOwned, Held
    <3>3. fd' = Swept(fd, {Obj(s, b)}) /\ open' = open \ Held({Obj(s, b)})
      BY <1>12, <2>1, Zenon DEF handle_unregister_dmabuf
    <3> QED
      BY <3>2, <3>3, <1>own, Zenon DEF DescriptorsOwned, BadClose
  <2>4. MessageShape'
    BY <1>12, <1>msg, Zenon
       DEF MessageShape, handle_unregister_dmabuf, Reply
  <2>5. HandshakeShape'
    BY <1>12, <2>2, HolderTypes, <1>hand, Zenon
       DEF HandshakeShape, handle_unregister_dmabuf, tables
  <2>6. RegistryShape'
    BY <1>12, <2>2, HolderTypes, <1>reg, <1>type
       DEF RegistryShape, handle_unregister_dmabuf, tables, TypeOK, RegistryTypes
  <2>7. OutputShape'
    BY <1>12, <1>out, Zenon
       DEF OutputShape, handle_unregister_dmabuf, tables
  <2>8. UnusedShape'
    <3>1. used[s] /\ \A q \in Slots : used'[q] = used[q]
      BY <1>12, <2>1, Zenon DEF handle_unregister_dmabuf, tables
    <3>2. phase' # "closed"
      BY <1>12, Zenon DEF handle_unregister_dmabuf, Reply
    <3>3. \A q \in Slots \ {s} : ahb'[q] = ahb[q] /\ outs'[q] = outs[q] /\ entry'[q] = entry[q] /\ comps'[q] = comps[q]
      BY <1>12, <1>type, Zenon DEF handle_unregister_dmabuf, tables, TypeOK, SessionTypes, OutputTypes, RegistryTypes, ClearOutputs, Finish
    <3> QED
      BY <3>1, <3>2, <3>3, <1>free, UnusedKept, Zenon
  <2>9. DescriptorsOwned'
    BY <1>12, <2>3, <1>own, Zenon
       DEF DescriptorsOwned, handle_unregister_dmabuf
  <2>10. ImagesOwned'
    BY <1>12, ImagesUnchanged, <1>img, Zenon
       DEF handle_unregister_dmabuf, tables, backend
  <2>11. NoMisuse'
    BY <1>12, <2>3, <1>good, Zenon
       DEF NoMisuse, handle_unregister_dmabuf
  <2> QED
    BY <2>4, <2>5, <2>6, <2>7, <2>8, <2>9, <2>10, <2>11, Zenon
<1>13. ASSUME NEW s \in Slots, NEW b \in BufferIds, NEW k \in CompSlots,
             NEW r \in Fds \cup {NoFd}, NEW f \in Fds \cup {NoFd},
             handle_queue_dmabuf(s, b, k, r, f)
      PROVE  Kept
  <2>1. used[s] /\ fd[Done(s, k)] = NoFd
    BY <1>13, <1>reg, Zenon
       DEF handle_queue_dmabuf, RegistryShape, Served
  <2>2. fd' = [[fd EXCEPT ![Req] = r] EXCEPT ![Done(s, k)] = f]
    BY <1>13, <2>1, <1>fd, HolderTypes, DmabufHolderDistinct, Zenon
       DEF handle_queue_dmabuf
  <2>3. MessageShape'
    BY <1>13, <1>msg, Zenon
       DEF MessageShape, handle_queue_dmabuf, Reply
  <2>4. HandshakeShape'
    BY <1>13, <2>2, <1>fd, HolderTypes, HolderDistinct, DmabufHolderDistinct, <1>hand
       DEF HandshakeShape, handle_queue_dmabuf, tables
  <2>5. RegistryShape'
    BY <1>13, <2>2, <1>fd, HolderTypes, DmabufHolderDistinct, <1>reg, <1>type
       DEF RegistryShape, handle_queue_dmabuf, tables, TypeOK, RegistryTypes, BufferIds
  <2>6. OutputShape'
    BY <1>13, <1>out, Zenon
       DEF OutputShape, handle_queue_dmabuf, tables
  <2>7. UnusedShape'
    <3>1. used[s] /\ \A q \in Slots : used'[q] = used[q]
      BY <1>13, <2>1, Zenon DEF handle_queue_dmabuf, tables
    <3>2. phase' # "closed"
      BY <1>13, Zenon DEF handle_queue_dmabuf, Reply
    <3>3. \A q \in Slots \ {s} : ahb'[q] = ahb[q] /\ outs'[q] = outs[q] /\ entry'[q] = entry[q] /\ comps'[q] = comps[q]
      BY <1>13, <1>type, Zenon DEF handle_queue_dmabuf, tables, TypeOK, SessionTypes, OutputTypes, RegistryTypes, ClearOutputs, Finish
    <3> QED
      BY <3>1, <3>2, <3>3, <1>free, UnusedKept, Zenon
  <2>8. DescriptorsOwned'
    <3>1. [fd EXCEPT ![Req] = r] \in [Holders -> Fds \cup {NoFd}] /\ [fd EXCEPT ![Req] = r][Done(s, k)] = NoFd
      BY <1>13, <2>1, <1>fd, HolderTypes, DmabufHolderDistinct, Zenon DEF handle_queue_dmabuf
    <3>2. fd[Req] = NoFd /\ Owned([fd EXCEPT ![Req] = r], Opened(open, r))
      BY <1>13, <1>fd, <1>idle, HolderTypes, PutOwned, <1>own, Zenon DEF handle_queue_dmabuf, DescriptorsOwned, Reply, FreshOrNone
    <3>3. f \in FreshOrNone(Opened(open, r)) /\ open' = Opened(Opened(open, r), f)
      BY <1>13, Zenon DEF handle_queue_dmabuf
    <3>4. Owned([[fd EXCEPT ![Req] = r] EXCEPT ![Done(s, k)] = f], Opened(Opened(open, r), f))
      BY <3>1, <3>2, <3>3, HolderTypes, PutOwned, Zenon DEF NoFd
    <3> QED
      BY <2>2, <3>3, <3>4, <1>own, Zenon DEF DescriptorsOwned
  <2>9. ImagesOwned'
    BY <1>13, ImagesUnchanged, <1>img, Zenon
       DEF handle_queue_dmabuf, tables, backend
  <2>10. NoMisuse'
    BY <1>13, <1>good, Zenon
       DEF NoMisuse, handle_queue_dmabuf
  <2> QED
    BY <2>3, <2>4, <2>5, <2>6, <2>7, <2>8, <2>9, <2>10, Zenon
<1>14. ASSUME NEW s \in Slots, NEW k \in CompSlots,
             handle_complete_dmabuf(s, k)
      PROVE  Kept
  <2>1. used[s] /\ comps[s][k] \in BufferIds
    BY <1>14, <1>type, SizeAssumption
       DEF handle_complete_dmabuf, Served, TypeOK, RegistryTypes, BufferIds
  <2>2. fd' = [fd EXCEPT ![Rep] = fd[Done(s, k)], ![Done(s, k)] = NoFd]
    BY <1>14, Zenon
       DEF handle_complete_dmabuf, Collect
  <2>3. MessageShape'
    BY <1>14, <1>msg, Zenon
       DEF MessageShape, handle_complete_dmabuf, Reply
  <2>4. HandshakeShape'
    BY <1>14, <2>2, <1>fd, HolderTypes, HolderDistinct, DmabufHolderDistinct, <1>hand, Zenon
       DEF HandshakeShape, handle_complete_dmabuf, tables
  <2>5. RegistryShape'
    <3>1. /\ \A q \in Slots, b \in BufferIds : fd'[Obj(q, b)] = fd[Obj(q, b)]
          /\ \A q \in Slots, j \in CompSlots :
                fd'[Done(q, j)] = IF q = s /\ j = k THEN NoFd ELSE fd[Done(q, j)]
      BY <2>2, <1>fd, HolderTypes, DmabufHolderDistinct, Zenon
    <3>2. \A q \in Slots, b \in BufferIds : entry'[q][b] = "none" => entry[q][b] = "none"
      BY <1>14, <2>1, <1>type, Zenon DEF handle_complete_dmabuf, Finish, TypeOK, RegistryTypes
    <3>3. \A q \in Slots, j \in CompSlots : (q = s /\ j = k) \/ comps'[q][j] = comps[q][j]
      BY <1>14, <1>type, Zenon DEF handle_complete_dmabuf, TypeOK, RegistryTypes
    <3> QED
      BY <3>1, <3>2, <3>3, <1>reg DEF RegistryShape
  <2>6. OutputShape'
    BY <1>14, <1>out, Zenon
       DEF OutputShape, handle_complete_dmabuf, tables
  <2>7. UnusedShape'
    <3>1. used[s] /\ \A q \in Slots : used'[q] = used[q]
      BY <1>14, <2>1, Zenon DEF handle_complete_dmabuf, tables
    <3>2. phase' # "closed"
      BY <1>14, Zenon DEF handle_complete_dmabuf, Reply
    <3>3. \A q \in Slots \ {s} : ahb'[q] = ahb[q] /\ outs'[q] = outs[q] /\ entry'[q] = entry[q] /\ comps'[q] = comps[q]
      BY <1>14, <1>type, Zenon DEF handle_complete_dmabuf, tables, TypeOK, SessionTypes, RegistryTypes, Finish
    <3> QED
      BY <3>1, <3>2, <3>3, <1>free, UnusedKept, Zenon
  <2>8. DescriptorsOwned'
    <3>1. fd[Rep] = NoFd /\ Rep # Done(s, k) /\ Done(s, k) \in Holders /\ Rep \in Holders
      BY <1>14, <1>idle, HolderTypes, DmabufHolderDistinct, Zenon DEF handle_complete_dmabuf, Reply
    <3>2. Owned([fd EXCEPT ![Rep] = fd[Done(s, k)], ![Done(s, k)] = NoFd], open)
      BY <1>fd, <3>1, MoveOwned, <1>own, Zenon DEF DescriptorsOwned
    <3>3. open' = open
      BY <1>14, Zenon DEF handle_complete_dmabuf
    <3> QED
      BY <2>2, <3>2, <3>3, <1>own, Zenon DEF DescriptorsOwned
  <2>9. ImagesOwned'
    BY <1>14, ImagesUnchanged, <1>img, Zenon
       DEF handle_complete_dmabuf, tables, backend
  <2>10. NoMisuse'
    BY <1>14, <1>good, Zenon
       DEF NoMisuse, handle_complete_dmabuf
  <2> QED
    BY <2>3, <2>4, <2>5, <2>6, <2>7, <2>8, <2>9, <2>10, Zenon
<1>16. ASSUME NEW s \in Slots, NEW b \in BufferIds,
              NEW r \in Fds \cup {NoFd}, NEW f \in Fds \cup {NoFd},
              handle_queue_dmabuf_fails(s, b, r, f)
       PROVE  Kept
  <2>1. CreateOrOutput
    BY <1>16, <1>type, FailedSubmission, Zenon DEF CreateOrOutput
  <2> QED
    BY <1>hyp, <2>1, OutputStep, Zenon DEF Kept
<1> QED
  BY <1>hyp, <1>9, <1>10, <1>11, <1>12, <1>13, <1>14, <1>16, Zenon DEF Fenced, DmabufRequest
-----------------------------------------------------------------------------
(* Flush, close, what follows a reply, and the end of a connection; with   *)
(* OutputStep and FenceStep, every step keeps the invariant.               *)
LEMMA OwnershipStep ==
    Inv /\ [Next]_vars => Shape' /\ DescriptorsOwned' /\ ImagesOwned' /\ NoMisuse'
<1>hyp. SUFFICES ASSUME Inv, [Next]_vars PROVE Kept
  BY Zenon DEF Shape, Kept
<1> USE DEF Kept
<1>type. TypeOK
  BY <1>hyp, Zenon DEF Inv
<1>msg. MessageShape
  BY <1>hyp, Zenon DEF Inv, Shape
<1>hand. HandshakeShape
  BY <1>hyp, Zenon DEF Inv, Shape
<1>reg. RegistryShape
  BY <1>hyp, Zenon DEF Inv, Shape
<1>out. OutputShape
  BY <1>hyp, Zenon DEF Inv, Shape
<1>free. UnusedShape
  BY <1>hyp, Zenon DEF Inv, Shape
<1>own. DescriptorsOwned
  BY <1>hyp, Zenon DEF Inv
<1>img. ImagesOwned
  BY <1>hyp, Zenon DEF Inv
<1>good. NoMisuse
  BY <1>hyp, Zenon DEF Inv
<1>fd. fd \in [Holders -> Fds \cup {NoFd}] /\ open \in SUBSET Fds
  BY <1>type, Zenon DEF TypeOK, BookTypes
<1>idle. phase = "idle" => fd[Req] = NoFd /\ fd[Rep] = NoFd
  BY <1>msg, Zenon DEF MessageShape
<1>15. ASSUME NEW s \in Slots, handle_flush(s)
      PROVE  Kept
  <2>1. FenceHolders(s) \in SUBSET Holders
    BY <1>15, HolderTypes, Zenon
       DEF handle_flush, FenceHolders
  <2>2. \A h \in Holders : fd'[h] = IF h \in FenceHolders(s) THEN NoFd ELSE fd[h]
    BY <1>15, Zenon
       DEF handle_flush, Swept
  <2>3. DescriptorsOwned' /\ ~BadClose(Held(FenceHolders(s)))
    <3>1. FenceHolders(s) \in SUBSET Holders
      BY HolderTypes, Zenon DEF FenceHolders
    <3>2. /\ Owned(Swept(fd, FenceHolders(s)), open \ Held(FenceHolders(s)))
          /\ Held(FenceHolders(s)) \subseteq open
      BY <3>1, <1>fd, SweptOwned, <1>own, Zenon DEF DescriptorsOwned, Held
    <3>3. fd' = Swept(fd, FenceHolders(s)) /\ open' = open \ Held(FenceHolders(s))
      BY <1>15, <2>1, Zenon DEF handle_flush
    <3> QED
      BY <3>2, <3>3, <1>own, Zenon DEF DescriptorsOwned, BadClose
  <2>4. used[s] /\ s \in live
    BY <1>15, <1>img, Zenon
       DEF handle_flush, Served, ImagesOwned
  <2>5. \A q \in Slots, p \in OutSlots : outs'[q][p] = IF q = s THEN FreeOutput ELSE outs[q][p]
    BY <1>15, <1>type, Zenon
       DEF handle_flush, TypeOK, OutputTypes, ClearOutputs
  <2>6. MessageShape'
    BY <1>15, <1>msg, Zenon
       DEF MessageShape, handle_flush, Reply
  <2>7. HandshakeShape'
    BY <1>15, <2>2, HolderTypes, <1>hand, <1>type, Zenon
       DEF HandshakeShape, handle_flush, tables, TypeOK, SessionTypes, FenceHolders
  <2>8. RegistryShape'
    BY <1>15, <2>2, HolderTypes, <1>reg, Zenon
       DEF RegistryShape, handle_flush, tables
  <2>9. OutputShape'
    BY <1>15, <2>5, <1>out, Zenon
       DEF OutputShape, handle_flush, tables
  <2>10. UnusedShape'
    <3>1. used[s] /\ \A q \in Slots : used'[q] = used[q]
      BY <1>15, <2>4, Zenon DEF handle_flush, tables
    <3>2. phase' # "closed"
      BY <1>15, Zenon DEF handle_flush, Reply
    <3>3. \A q \in Slots \ {s} : ahb'[q] = ahb[q] /\ outs'[q] = outs[q] /\ entry'[q] = entry[q] /\ comps'[q] = comps[q]
      BY <1>15, <1>type, Zenon DEF handle_flush, tables, TypeOK, SessionTypes, OutputTypes, RegistryTypes, ClearOutputs, Finish
    <3> QED
      BY <3>1, <3>2, <3>3, <1>free, UnusedKept, Zenon
  <2>11. DescriptorsOwned'
    BY <1>15, <2>3, <1>own, Zenon
       DEF DescriptorsOwned, handle_flush
  <2>12. ImagesOwned'
    <3>1. \A q \in Slots, p \in OutSlots : outs'[q][p].token = IF q = s THEN NoToken ELSE outs[q][p].token
      BY <1>15, <2>5, OutputFields, Zenon DEF handle_flush
    <3>2. \A q \in Slots \ {s} : HeldTokens(q)' = HeldTokens(q)
      BY <1>15, <3>1, SameTokens, Zenon DEF handle_flush
    <3>3. HeldTokens(s)' = {}
      BY <1>15, <3>1, NoTokens, Zenon DEF handle_flush
    <3>4. \A q \in Slots : lent'[q] = IF q = s THEN {} ELSE lent[q]
      BY <1>15, <1>type, <1>img, Zenon DEF handle_flush, TypeOK, BookTypes, release_output, ImagesOwned
    <3>5. live' = {q \in Slots : used'[q]}
      BY <1>15, <1>img, Zenon DEF ImagesOwned, handle_flush, tables, backend, release_output
    <3>6. \A q \in Slots : lent'[q] = HeldTokens(q)'
      BY <3>1, <3>2, <3>3, <3>4, <3>5, <1>img, Zenon DEF ImagesOwned
    <3>7. \A q \in Slots, a, c \in OutSlots :
             outs'[q][a].token = outs'[q][c].token /\ outs'[q][a].token # NoToken => a = c
      BY NameAssumption, <3>1, <3>2, <3>3, <3>4, <1>img DEF ImagesOwned
    <3> QED
      BY <3>5, <3>6, <3>7, <1>img, Zenon DEF ImagesOwned
  <2>13. NoMisuse'
    <3>1. ~BadRelease(s, HeldTokens(s))
      BY <1>15, <2>4, <1>img, Zenon DEF handle_flush, BadRelease, ImagesOwned
    <3> QED
      BY <1>15, <2>3, <3>1, <1>good, Zenon DEF NoMisuse, handle_flush
  <2> QED
    BY <2>6, <2>7, <2>8, <2>9, <2>10, <2>11, <2>12, <2>13, Zenon
<1>16. ASSUME NEW s \in Slots, handle_close(s)
      PROVE  Kept
  <2>1. {s} \in SUBSET Slots /\ (\A q \in {s} : used[q]) /\ CloseSessions({s})
    BY <1>16, Zenon DEF handle_close, Served
  <2>2. MessageShape'
    BY <1>16, <1>msg, Zenon DEF handle_close, Reply, MessageShape
  <2>3. phase' # "closed"
    BY <1>16, Zenon DEF handle_close, Reply
  <2> QED
    BY <1>hyp, <2>1, <2>2, <2>3, CloseSessionsOwned, <1>free, Zenon DEF UnusedShape
<1>17. CASE SendReply
  <2>1. CASE phase' = "after"
    <3>1. UNCHANGED <<msg, fd, open, misuse, tables, backend>>
      BY <1>17, <2>1, Zenon DEF SendReply
    <3>2. MessageShape' /\ HandshakeShape' /\ RegistryShape'
      BY <3>1, <2>1, <1>msg, <1>hand, <1>reg, Zenon DEF MessageShape, HandshakeShape, RegistryShape, tables
    <3>3. OutputShape' /\ UnusedShape'
      BY <3>1, <2>1, <1>out, <1>free, Zenon DEF OutputShape, UnusedShape, tables
    <3>4. ImagesOwned'
      BY <3>1, ImagesUnchanged, <1>img, Zenon DEF tables, backend
    <3> QED
      BY <3>1, <3>2, <3>3, <3>4, <1>own, <1>good, Zenon DEF DescriptorsOwned, NoMisuse
  <2>2. CASE phase' # "after"
    <3>1. CloseMessages /\ phase' \in {"idle", "ended"} /\ UNCHANGED <<tables, backend>>
      BY <1>17, <2>2, Zenon DEF SendReply
    <3>2. MessageShape'
      BY <1>hyp, <3>1, CloseMessagesOwned, HolderTypes, <1>msg, Zenon DEF MessageShape, CloseMessages, NoMsg
    <3>3. HandshakeShape' /\ RegistryShape'
      BY <1>hyp, <3>1, CloseMessagesOwned, HolderTypes, <1>hand, <1>reg, Zenon DEF HandshakeShape, RegistryShape, tables
    <3>4. OutputShape' /\ UnusedShape'
      BY <3>1, <1>out, <1>free, Zenon DEF OutputShape, UnusedShape, tables
    <3>5. ImagesOwned'
      BY <3>1, ImagesUnchanged, <1>img, Zenon DEF tables, backend
    <3> QED
      BY <1>hyp, <3>1, <3>2, <3>3, <3>4, <3>5, CloseMessagesOwned, Zenon
  <2> QED
    BY <2>1, <2>2, Zenon
<1>18. ASSUME NEW f \in Fds \cup {NoFd}, after_reply_queue_ahb(f)
      PROVE  Kept
  <2> DEFINE s == msg.slot
             H == ConsumeAcquire(s)
             e == Swept(fd, H)
  <2>1. s \in Slots /\ used[s] /\ ahb[s] = 1 /\ fd[Rel(s)] = NoFd
    <3>1. msg.op = "QUEUE_AHB"
      BY <1>18, Zenon DEF after_reply_queue_ahb
    <3>2. s \in Slots /\ used[s] /\ ahb[s] = 1
      BY <3>1, <1>msg, Zenon DEF MessageShape
    <3> QED
      BY <3>2, <1>hand DEF HandshakeShape
  <2>2. H \in SUBSET Holders
    BY <2>1, HolderTypes, Zenon DEF ConsumeAcquire
  <2>3. /\ e \in [Holders -> Fds \cup {NoFd}]
        /\ \A h \in Holders : e[h] = IF h \in {Req, Rep, Acq(s)} THEN NoFd ELSE fd[h]
    BY <1>fd, Zenon DEF Swept, ConsumeAcquire
  <2>4. Owned(e, open \ Held(H)) /\ ~BadClose(Held(H))
    BY <2>2, <1>fd, SweptOwned, <1>own, Zenon DEF DescriptorsOwned, Held, BadClose
  <2>5. fd' = [e EXCEPT ![Rel(s)] = f] /\ e[Rel(s)] = NoFd /\ Rel(s) \in Holders
    BY <1>18, <2>1, <2>3, HolderTypes, HolderDistinct, Zenon DEF after_reply_queue_ahb
  <2>6. f \in FreshOrNone(open \ Held(H)) /\ open' = Opened(open \ Held(H), f)
    BY <1>18, Zenon DEF after_reply_queue_ahb, FreshOrNone
  <2>7. DescriptorsOwned'
    BY <2>3, <2>4, <2>5, <2>6, PutOwned, <1>own, Zenon DEF DescriptorsOwned
  <2>8. NoMisuse'
    BY <1>18, <2>4, <1>good, Zenon DEF NoMisuse, after_reply_queue_ahb
  <2>9. MessageShape'
    BY <1>18, <2>1, <2>3, <2>5, HolderTypes, HolderDistinct, <1>msg, Zenon DEF MessageShape, after_reply_queue_ahb, NoMsg
  <2>10. /\ UNCHANGED <<used, outs, entry, comps, live, lent>>
         /\ phase' \in {"idle", "ended"}
         /\ ahb' = [ahb EXCEPT ![s] = 2]
    BY <1>18, Zenon DEF after_reply_queue_ahb, backend, Received
  <2>11. \A q \in Slots : ahb'[q] = IF q = s THEN 2 ELSE ahb[q]
    BY <2>1, <2>10, <1>type, Zenon DEF TypeOK, SessionTypes
  <2>12. /\ fd'[Acq(s)] = NoFd
         /\ \A h \in Holders \ {Req, Rep, Acq(s), Rel(s)} : fd'[h] = fd[h]
    BY <2>1, <2>3, <2>5, HolderTypes, HolderDistinct, Zenon
  <2>13. 2 # 2 => fd'[Rel(s)] = NoFd
    BY <2>1, <2>3, <2>5, HolderTypes, HolderDistinct, Zenon
  <2>14. HandshakeShape'
    <3> SUFFICES ASSUME NEW q \in Slots
                 PROVE  /\ fd'[Acq(q)] # NoFd => ahb'[q] = 1
                        /\ fd'[Rel(q)] # NoFd => ahb'[q] = 2
      BY <1>hand, Zenon DEF HandshakeShape
    <3>1. CASE q = s
      BY <2>11, <2>12, <2>13, <3>1, Zenon
    <3>2. CASE q # s
      <4>1. Acq(q) \in Holders \ {Req, Rep, Acq(s), Rel(s)} /\ Rel(q) \in Holders \ {Req, Rep, Acq(s), Rel(s)}
        BY <2>1, <3>2, HolderTypes, HolderDistinct, Zenon
      <4> QED
        BY <4>1, <3>2, <2>11, <2>12, <1>hand, Zenon DEF HandshakeShape
    <3> QED
      BY <3>1, <3>2, Zenon
  <2>15. RegistryShape'
    <3>1. \A q \in Slots, b \in BufferIds : Obj(q, b) \in Holders \ {Req, Rep, Acq(s), Rel(s)}
      BY <2>1, HolderTypes, DmabufHolderDistinct, Zenon
    <3>2. \A q \in Slots, k \in CompSlots : Done(q, k) \in Holders \ {Req, Rep, Acq(s), Rel(s)}
      BY <2>1, HolderTypes, DmabufHolderDistinct, Zenon
    <3> QED
      BY <3>1, <3>2, <2>10, <2>12, <1>reg, Zenon DEF RegistryShape
  <2>16. OutputShape'
    BY <2>10, <1>out, Zenon DEF OutputShape
  <2>17. ImagesOwned'
    BY <2>10, ImagesUnchanged, <1>img, Zenon
  <2>18. UnusedShape'
    BY <2>1, <2>10, <2>11, <1>free DEF UnusedShape
  <2> QED
    BY <2>7, <2>8, <2>9, <2>14, <2>15, <2>16, <2>17, <2>18, Zenon
<1>19. CASE after_reply_queue_ahb_fatal
  <2> DEFINE s == msg.slot
             H == ConsumeAcquire(s)
             e == Swept(fd, H)
  <2>1. s \in Slots /\ used[s] /\ ahb[s] = 1 /\ fd[Rel(s)] = NoFd
    <3>1. msg.op = "QUEUE_AHB"
      BY <1>19, Zenon DEF after_reply_queue_ahb_fatal
    <3>2. s \in Slots /\ used[s] /\ ahb[s] = 1
      BY <3>1, <1>msg, Zenon DEF MessageShape
    <3> QED
      BY <3>2, <1>hand DEF HandshakeShape
  <2>2. H \in SUBSET Holders
    BY <2>1, HolderTypes, Zenon DEF ConsumeAcquire
  <2>3. /\ e \in [Holders -> Fds \cup {NoFd}]
        /\ \A h \in Holders : e[h] = IF h \in {Req, Rep, Acq(s)} THEN NoFd ELSE fd[h]
    BY <1>fd, Zenon DEF Swept, ConsumeAcquire
  <2>4. Owned(e, open \ Held(H)) /\ ~BadClose(Held(H))
    BY <2>2, <1>fd, SweptOwned, <1>own, Zenon DEF DescriptorsOwned, Held, BadClose
  <2>5. fd' = e
    BY <1>19, Zenon DEF after_reply_queue_ahb_fatal
  <2>7. DescriptorsOwned'
    BY <1>19, <2>4, <2>5, <1>own, Zenon DEF DescriptorsOwned, after_reply_queue_ahb_fatal
  <2>8. NoMisuse'
    BY <1>19, <2>4, <1>good, Zenon DEF NoMisuse, after_reply_queue_ahb_fatal
  <2>9. MessageShape'
    BY <1>19, <2>1, <2>3, <2>5, HolderTypes, HolderDistinct, <1>msg, Zenon DEF MessageShape, after_reply_queue_ahb_fatal, NoMsg
  <2>10. /\ UNCHANGED <<used, outs, entry, comps, live, lent>>
         /\ phase' \in {"idle", "ended"}
         /\ ahb' = [ahb EXCEPT ![s] = 0]
    BY <1>19, Zenon DEF after_reply_queue_ahb_fatal, backend, Received
  <2>11. \A q \in Slots : ahb'[q] = IF q = s THEN 0 ELSE ahb[q]
    BY <2>1, <2>10, <1>type, Zenon DEF TypeOK, SessionTypes
  <2>12. /\ fd'[Acq(s)] = NoFd
         /\ \A h \in Holders \ {Req, Rep, Acq(s), Rel(s)} : fd'[h] = fd[h]
    BY <2>1, <2>3, <2>5, HolderTypes, HolderDistinct, Zenon
  <2>13. 0 # 2 => fd'[Rel(s)] = NoFd
    BY <2>1, <2>3, <2>5, HolderTypes, HolderDistinct, Zenon
  <2>14. HandshakeShape'
    <3> SUFFICES ASSUME NEW q \in Slots
                 PROVE  /\ fd'[Acq(q)] # NoFd => ahb'[q] = 1
                        /\ fd'[Rel(q)] # NoFd => ahb'[q] = 2
      BY <1>hand, Zenon DEF HandshakeShape
    <3>1. CASE q = s
      BY <2>11, <2>12, <2>13, <3>1, Zenon
    <3>2. CASE q # s
      <4>1. Acq(q) \in Holders \ {Req, Rep, Acq(s), Rel(s)} /\ Rel(q) \in Holders \ {Req, Rep, Acq(s), Rel(s)}
        BY <2>1, <3>2, HolderTypes, HolderDistinct, Zenon
      <4> QED
        BY <4>1, <3>2, <2>11, <2>12, <1>hand, Zenon DEF HandshakeShape
    <3> QED
      BY <3>1, <3>2, Zenon
  <2>15. RegistryShape'
    <3>1. \A q \in Slots, b \in BufferIds : Obj(q, b) \in Holders \ {Req, Rep, Acq(s), Rel(s)}
      BY <2>1, HolderTypes, DmabufHolderDistinct, Zenon
    <3>2. \A q \in Slots, k \in CompSlots : Done(q, k) \in Holders \ {Req, Rep, Acq(s), Rel(s)}
      BY <2>1, HolderTypes, DmabufHolderDistinct, Zenon
    <3> QED
      BY <3>1, <3>2, <2>10, <2>12, <1>reg, Zenon DEF RegistryShape
  <2>16. OutputShape'
    BY <2>10, <1>out, Zenon DEF OutputShape
  <2>17. ImagesOwned'
    BY <2>10, ImagesUnchanged, <1>img, Zenon
  <2>18. UnusedShape'
    BY <2>1, <2>10, <2>11, <1>free DEF UnusedShape
  <2> QED
    BY <2>7, <2>8, <2>9, <2>14, <2>15, <2>16, <2>17, <2>18, Zenon
<1>20. CASE after_reply_transfer_ahb
  <2>1. CloseMessages /\ phase' \in {"idle", "ended"}
        /\ UNCHANGED <<used, ahb, entry, comps, live, lent>>
    BY <1>20, Zenon DEF after_reply_transfer_ahb, backend
  <2>2. \A q \in Slots, p \in OutSlots :
           outs'[q][p] = outs[q][p] \/ (outs[q][p].in_use /\ outs'[q][p] = Sent(outs[q][p]))
    <3>1. /\ msg.slot \in Slots /\ msg.out \in OutSlots
          /\ outs[msg.slot][msg.out].in_use
      BY <1>20, <1>msg, Zenon DEF after_reply_transfer_ahb, MessageShape
    <3>2. \/ outs' = outs
          \/ outs' = [outs EXCEPT ![msg.slot][msg.out] = Sent(@)]
      BY <1>20, Zenon DEF after_reply_transfer_ahb
    <3> QED
      BY <3>1, <3>2, <1>type DEF TypeOK, OutputTypes
  <2>3. \A q \in Slots, p \in OutSlots :
           outs'[q][p].token = outs[q][p].token /\ outs'[q][p].in_use = outs[q][p].in_use
    BY <2>2, MarkedOutputFields, <1>type DEF TypeOK, OutputTypes
  <2>4. MessageShape'
    BY <1>hyp, <2>1, CloseMessagesOwned, HolderTypes, <1>msg, Zenon DEF MessageShape, CloseMessages, NoMsg
  <2>5. HandshakeShape' /\ RegistryShape'
    BY <1>hyp, <2>1, CloseMessagesOwned, HolderTypes, <1>hand, <1>reg, Zenon DEF HandshakeShape, RegistryShape
  <2>6. OutputShape'
    BY <2>2, <2>3, <1>out, Zenon DEF OutputShape
  <2>7. UnusedShape'
    BY <2>1, <2>2, OutputFields, <1>free DEF UnusedShape
  <2>8. \A q \in Slots : HeldTokens(q)' = HeldTokens(q)
    BY <2>3, SameTokens, Zenon
  <2>9. ImagesOwned'
    BY <2>1, <2>3, <2>8, <1>img DEF ImagesOwned
  <2> QED
    BY <1>hyp, <2>1, <2>4, <2>5, <2>6, <2>7, <2>9, CloseMessagesOwned, Zenon
<1>21. CASE Disconnect \/ Accept
  <2>1. UNCHANGED <<msg, tables, fd, open, backend, misuse>>
    BY <1>21, Zenon DEF Disconnect, Accept
  <2>2. phase \in {"idle", "closed"} /\ phase' \in {"idle", "ended"}
    BY <1>21, Zenon DEF Disconnect, Accept
  <2>3. MessageShape' /\ HandshakeShape' /\ RegistryShape'
    BY <2>1, <2>2, <1>msg, <1>hand, <1>reg, Zenon DEF MessageShape, HandshakeShape, RegistryShape, tables
  <2>4. OutputShape' /\ UnusedShape'
    BY <2>1, <2>2, <1>out, <1>free, Zenon DEF OutputShape, UnusedShape, tables
  <2>5. ImagesOwned'
    BY <2>1, ImagesUnchanged, <1>img, Zenon DEF tables, backend
  <2> QED
    BY <2>1, <2>3, <2>4, <2>5, <1>own, <1>good, Zenon DEF DescriptorsOwned, NoMisuse
<1>22. CASE advc_session_engine_destroy
  <2> DEFINE S == {s \in Slots : used[s]}
  <2>1. S \in SUBSET Slots /\ (\A q \in S : used[q]) /\ CloseSessions(S)
    BY <1>22, Zenon DEF advc_session_engine_destroy
  <2>2. \A q \in Slots : ~used'[q]
    BY <2>1, Zenon DEF CloseSessions
  <2>3. MessageShape'
    <3>1. msg' = NoMsg /\ fd[Req] = NoFd /\ fd[Rep] = NoFd
      BY <1>22, <1>msg, Zenon DEF advc_session_engine_destroy, MessageShape
    <3>2. \A h \in Holders : fd'[h] \in {NoFd, fd[h]}
      BY <2>1, Zenon DEF CloseSessions, Swept
    <3> QED
      BY <3>1, <3>2, HolderTypes, <1>msg, Zenon DEF MessageShape, NoMsg
  <2> QED
    BY <1>hyp, <2>1, <2>2, <2>3, CloseSessionsOwned, <1>free, Zenon DEF UnusedShape
<1>23. CASE UNCHANGED vars
  <2>1. MessageShape' /\ HandshakeShape' /\ RegistryShape'
    BY <1>23, <1>msg, <1>hand, <1>reg, Zenon DEF MessageShape, HandshakeShape, RegistryShape, vars, tables
  <2>2. OutputShape' /\ UnusedShape'
    BY <1>23, <1>out, <1>free, Zenon DEF OutputShape, UnusedShape, vars, tables
  <2>3. ImagesOwned'
    BY <1>23, ImagesUnchanged, <1>img, Zenon DEF vars, tables, backend
  <2> QED
    BY <1>23, <2>1, <2>2, <2>3, <1>own, <1>good, Zenon DEF DescriptorsOwned, NoMisuse, vars
<1> QED
  BY <1>hyp, OutputStep, FenceStep, <1>15, <1>16, <1>17, <1>18, <1>19, <1>20, <1>21, <1>22, <1>23, Zenon
     DEF Next, Request, Answer, CreateOrOutput, Fenced

LEMMA OwnershipInit == Init => Inv
<1> SUFFICES ASSUME Init PROVE Inv
  BY Zenon
<1>1. TypeOK
  BY TypeInit, Zenon
<1>2. MessageShape /\ HandshakeShape /\ RegistryShape
  BY HolderTypes, Zenon DEF Init, MessageShape, HandshakeShape, RegistryShape, NoMsg
<1>3. OutputShape /\ UnusedShape
  BY Zenon DEF Init, OutputShape, UnusedShape
<1>4. DescriptorsOwned /\ NoMisuse
  BY Zenon DEF Init, DescriptorsOwned, Owned, NoMisuse
<1>5. ImagesOwned
  BY Zenon DEF Init, ImagesOwned, HeldTokens, FreeOutput
<1> QED
  BY <1>1, <1>2, <1>3, <1>4, <1>5, Zenon DEF Inv, Shape

LEMMA InvCorrect == Spec => []Inv
<1>1. Inv /\ [Next]_vars => Inv'
  BY TypeStep, OwnershipStep, Zenon DEF Inv
<1> QED
  BY <1>1, OwnershipInit, PTL DEF Spec

(* Whatever requests arrive, replies fail and connections end, each open   *)
(* descriptor of the broker keeps exactly one holder (DescriptorsOwned).   *)
THEOREM DescriptorsCorrect == Spec => []DescriptorsOwned
<1>1. Inv => DescriptorsOwned
  BY Zenon DEF Inv
<1> QED
  BY <1>1, InvCorrect, PTL

(* The backend has lent exactly the images the output slots will return,   *)
(* and a codec exists exactly for each session in use (ImagesOwned).       *)
THEOREM ImagesCorrect == Spec => []ImagesOwned
<1>1. Inv => ImagesOwned
  BY Zenon DEF Inv
<1> QED
  BY <1>1, InvCorrect, PTL

(* No handler closes, releases or destroys what it does not own (NoMisuse).*)
THEOREM MisuseFree == Spec => []NoMisuse
<1>1. Inv => NoMisuse
  BY Zenon DEF Inv
<1> QED
  BY <1>1, InvCorrect, PTL

(* When advc_session_engine_destroy has run, the connection leaves no      *)
(* descriptor, codec or image behind (NothingLeftBehind).                  *)
THEOREM CleanTeardown == Spec => []NothingLeftBehind
<1>1. Inv => NothingLeftBehind
  <2> SUFFICES ASSUME Inv, phase = "closed"
               PROVE  open = {} /\ live = {} /\ \A s \in Slots : lent[s] = {}
    BY Zenon DEF NothingLeftBehind
  <2>1. \A s \in Slots : ~used[s]
    BY Zenon DEF Inv, Shape, UnusedShape
  <2>2. \A h \in Holders : fd[h] = NoFd
    <3>1. fd[Req] = NoFd /\ fd[Rep] = NoFd
      BY Zenon DEF Inv, Shape, MessageShape
    <3>2. \A s \in Slots : fd[Acq(s)] = NoFd /\ fd[Rel(s)] = NoFd
      BY <2>1 DEF Inv, Shape, HandshakeShape, UnusedShape
    <3>3. \A s \in Slots, b \in BufferIds : fd[Obj(s, b)] = NoFd
      BY <2>1, Zenon DEF Inv, Shape, RegistryShape, UnusedShape
    <3>4. \A s \in Slots, k \in CompSlots : fd[Done(s, k)] = NoFd
      BY <2>1, Zenon DEF Inv, Shape, RegistryShape, UnusedShape
    <3> QED
      BY <3>1, <3>2, <3>3, <3>4, Zenon
         DEF Holders, MsgHolders, SlotHolders, FenceHolders, DmabufHolders
  <2>3. open = {}
    BY <2>2, Zenon DEF Inv, DescriptorsOwned, Owned
  <2>4. \A s \in Slots : HeldTokens(s) = {}
    BY <2>1, OutputFields DEF Inv, Shape, UnusedShape, HeldTokens
  <2> QED
    BY <2>1, <2>3, <2>4, Zenon DEF Inv, ImagesOwned
<1> QED
  BY <1>1, InvCorrect, PTL

-----------------------------------------------------------------------------
(* Lending: ids that name one thing, native buffers sent once, and         *)
(* dma-bufs lent as DmabufLending promises their exporter.                 *)

(* A native buffer was sent exactly when its output is marked so: what     *)
(* after_reply adds to NativeBufferSentOnce to make it inductive.          *)
SendsMarked ==
    \A s \in Slots, o \in OutSlots :
        outs[s][o].sends = IF outs[s][o].transferred THEN 1 ELSE 0

HandedOut ==
    /\ Inv
    /\ SessionIdsDistinct
    /\ OutputIdsFresh
    /\ SendsMarked
    /\ InflightAwaitsCompletion
-----------------------------------------------------------------------------
(* Which steps touch which tables.  Creating a slot, closing slots, the    *)
(* requests about outputs and those about dma-bufs are the only ones.      *)
Creates ==
    \E s \in Slots, t \in Transports, id \in 0..(SessionIdSpace - 1) :
        handle_create(s, t, id)

Closes ==
    \/ \E s \in Slots : handle_close(s)
    \/ advc_session_engine_destroy

Outputting ==
    \/ \E s \in Slots : OutputRequest(s) \/ handle_flush(s)
    \/ after_reply_transfer_ahb

Registering == \E s \in Slots : DmabufRequest(s)

outTables == <<outs, nextOut>>
dmaTables == <<entry, registered, inflight, comps>>

LEMMA OutputFrame ==
    Outputting => UNCHANGED <<used, sid, dmaTables>>
<1>1. ASSUME NEW s \in Slots, OutputRequest(s) PROVE UNCHANGED <<used, sid, dmaTables>>
  BY <1>1 DEF OutputRequest, handle_dequeue_bytes, handle_dequeue_image,
              handle_release, handle_transfer_prime, dmaTables
<1>2. ASSUME NEW s \in Slots, handle_flush(s) PROVE UNCHANGED <<used, sid, dmaTables>>
  BY <1>2, Zenon DEF handle_flush, dmaTables
<1>3. after_reply_transfer_ahb => UNCHANGED <<used, sid, dmaTables>>
  BY Zenon DEF after_reply_transfer_ahb, dmaTables
<1> QED
  BY <1>1, <1>2, <1>3, Zenon DEF Outputting

LEMMA RegistryFrame ==
    Registering => UNCHANGED <<used, sid, outTables>>
<1>1. ASSUME NEW s \in Slots, NEW b \in BufferIds, NEW r, NEW d,
             \/ handle_register_dmabuf(s, b, r, d)
             \/ \E k \in CompSlots : handle_queue_dmabuf(s, b, k, r, d)
             \/ handle_queue_dmabuf_fails(s, b, r, d)
      PROVE  UNCHANGED <<used, sid, outTables>>
  BY <1>1, Zenon DEF handle_register_dmabuf, handle_queue_dmabuf, handle_queue_dmabuf_fails, outTables
<1>2. ASSUME NEW s \in Slots, NEW b \in BufferIds, handle_unregister_dmabuf(s, b)
      PROVE  UNCHANGED <<used, sid, outTables>>
  BY <1>2, Zenon DEF handle_unregister_dmabuf, outTables
<1>3. ASSUME NEW s \in Slots, NEW k \in CompSlots, handle_complete_dmabuf(s, k)
      PROVE  UNCHANGED <<used, sid, outTables>>
  BY <1>3, Zenon DEF handle_complete_dmabuf, outTables
<1> QED
  BY <1>1, <1>2, <1>3, Zenon DEF Registering, DmabufRequest

LEMMA Frame ==
    [Next]_vars =>
        \/ Creates \/ Closes \/ Outputting \/ Registering
        \/ UNCHANGED <<used, sid, outTables, dmaTables>>
<1> DEFINE Still == UNCHANGED <<used, sid, outTables, dmaTables>>
<1> SUFFICES ASSUME [Next]_vars, ~Creates, ~Closes, ~Outputting, ~Registering
             PROVE  Still
  BY Zenon
<1> USE DEF tables, outTables, dmaTables
<1>1. ASSUME NEW r \in Fds \cup {NoFd}, NoEffect(r) PROVE Still
  BY <1>1, Zenon DEF NoEffect
<1>2. ASSUME NEW s \in Slots, handle_create_without_registry(s) PROVE Still
  BY <1>2, Zenon DEF handle_create_without_registry
<1>3. ASSUME NEW s \in Slots, NEW o \in OutSlots, handle_transfer_ahb(s, o) PROVE Still
  BY <1>3, Zenon DEF handle_transfer_ahb
<1>4. ASSUME NEW s \in Slots, NEW r \in Fds \cup {NoFd}, NEW d \in Fds \cup {NoFd},
             handle_queue_ahb(s, r, d) PROVE Still
  BY <1>4, Zenon DEF handle_queue_ahb
<1>5. ASSUME NEW s \in Slots, handle_complete_ahb(s) PROVE Still
  BY <1>5, Zenon DEF handle_complete_ahb
<1>6. SendReply => Still
  BY Zenon DEF SendReply
<1>7. ASSUME NEW f \in Fds \cup {NoFd}, after_reply_queue_ahb(f) PROVE Still
  BY <1>7, Zenon DEF after_reply_queue_ahb
<1>8. after_reply_queue_ahb_fatal => Still
  BY Zenon DEF after_reply_queue_ahb_fatal
<1>9. Disconnect \/ Accept \/ UNCHANGED vars => Still
  BY Zenon DEF Disconnect, Accept, vars
<1> HIDE DEF Still, tables, outTables, dmaTables
<1>10. Request => Still
  BY <1>1, <1>2, <1>3, <1>4, <1>5, Zenon
     DEF Request, Creates, Closes, Outputting, Registering
<1>11. Answer => Still
  BY <1>6, <1>7, <1>8, Zenon DEF Answer, Outputting
<1> QED
  BY <1>9, <1>10, <1>11, Zenon DEF Next, Closes
-----------------------------------------------------------------------------
(* What a close leaves: the sessions of S are gone, the others untouched.  *)
LEMMA ClosedSlots ==
    ASSUME TypeOK, UnusedShape, Closes
    PROVE  /\ \E S \in SUBSET Slots : CloseSessions(S)
           /\ nextOut' = nextOut \/ \A s \in Slots, o \in OutSlots : ~outs'[s][o].in_use
<1>1. CASE \E s \in Slots : handle_close(s)
  BY <1>1, Zenon DEF handle_close
<1>2. CASE advc_session_engine_destroy
  <2>1. CloseSessions({s \in Slots : used[s]})
    BY <1>2, Zenon DEF advc_session_engine_destroy
  <2>2. ~FreeOutput.in_use
    BY Zenon DEF FreeOutput
  <2>3. \A s \in Slots, o \in OutSlots : outs'[s][o] = FreeOutput
    <3>1. \A s \in Slots : outs'[s] = IF used[s] THEN [o \in OutSlots |-> FreeOutput]
                                                ELSE outs[s]
      BY <2>1, Zenon DEF CloseSessions
    <3> QED
      BY <3>1 DEF UnusedShape
  <2>4. \A s \in Slots, o \in OutSlots : ~outs'[s][o].in_use
    BY <2>2, <2>3, Zenon
  <2>5. {s \in Slots : used[s]} \in SUBSET Slots
    BY Zenon
  <2> QED
    BY <2>1, <2>4, <2>5, Zenon
<1> QED
  BY <1>1, <1>2, Zenon DEF Closes

(* Session ids: a create takes an id no live session has.                  *)
LEMMA SessionIdsStep ==
    ASSUME HandedOut, [Next]_vars
    PROVE  SessionIdsDistinct'
<1>type. used \in [Slots -> BOOLEAN] /\ sid \in [Slots -> 0..(SessionIdSpace - 1)]
  BY Zenon DEF HandedOut, Inv, TypeOK, SessionTypes
<1>ids. SessionIdsDistinct
  BY Zenon DEF HandedOut
<1>1. ASSUME NEW s \in Slots, NEW t \in Transports,
             NEW id \in 0..(SessionIdSpace - 1), handle_create(s, t, id)
      PROVE  SessionIdsDistinct'
  <2>1. /\ used' = [used EXCEPT ![s] = TRUE] /\ sid' = [sid EXCEPT ![s] = id]
        /\ id # 0 /\ \A q \in Slots : ~(used[q] /\ sid[q] = id)
    BY <1>1, Zenon DEF handle_create, allocate_session_id, SkippedId
  <2> QED
    BY <2>1, <1>type, <1>ids, Zenon DEF SessionIdsDistinct
<1>2. CASE Closes
  <2>1. PICK S \in SUBSET Slots : CloseSessions(S)
    BY <1>2, ClosedSlots, Zenon DEF HandedOut, Inv, Shape
  <2>2. \A s \in Slots : used'[s] => used[s] /\ sid'[s] = sid[s]
    BY <2>1, Zenon DEF CloseSessions
  <2> QED
    BY <2>2, <1>ids, Zenon DEF SessionIdsDistinct
<1>3. CASE UNCHANGED <<used, sid>>
  BY <1>3, <1>ids, Zenon DEF SessionIdsDistinct
<1> QED
  BY <1>1, <1>2, <1>3, Frame, OutputFrame, RegistryFrame, Zenon DEF Creates
-----------------------------------------------------------------------------
(* One output slot changes: it becomes free, or an output with a new id,   *)
(* or keeps its id with its marks changed.                                 *)
LEMMA OneOutput ==
    ASSUME HandedOut, NEW s \in Slots, NEW o \in OutSlots, NEW v \in Outputs,
           outs' = [outs EXCEPT ![s][o] = v],
           \/ v = FreeOutput /\ nextOut' = nextOut
           \/ v.id = nextOut /\ nextOut' = nextOut + 1
           \/ v.id = outs[s][o].id /\ outs[s][o].in_use /\ nextOut' = nextOut,
           v.sends = IF v.transferred THEN 1 ELSE 0
    PROVE  OutputIdsFresh' /\ SendsMarked'
<1>1. \A q \in Slots, p \in OutSlots :
         outs'[q][p] = IF q = s /\ p = o THEN v ELSE outs[q][p]
  BY Zenon DEF HandedOut, Inv, TypeOK, OutputTypes
<1>2. \A q \in Slots, p \in OutSlots : outs[q][p] \in Outputs
  BY Zenon DEF HandedOut, Inv, TypeOK, OutputTypes
<1>3. /\ nextOut \in Nat \ {0}
      /\ \A q \in Slots, p \in OutSlots : outs[q][p].id \in Nat
  BY <1>2, SizeAssumption DEF HandedOut, Inv, TypeOK, OutputTypes, Outputs
<1>4. ~FreeOutput.in_use
  BY Zenon DEF FreeOutput
<1>5. SendsMarked'
  BY <1>1 DEF HandedOut, SendsMarked
<1>6. OutputIdsFresh'
  BY <1>1, <1>3, <1>4 DEF HandedOut, OutputIdsFresh
<1> QED
  BY <1>5, <1>6, Zenon

(* Output slots are cleared, the others stay.                              *)
LEMMA ClearedOutputs ==
    ASSUME HandedOut,
           \A s \in Slots, o \in OutSlots : outs'[s][o] \in {outs[s][o], FreeOutput},
           nextOut' = nextOut \/ \A s \in Slots, o \in OutSlots : ~outs'[s][o].in_use
    PROVE  OutputIdsFresh' /\ SendsMarked'
<1>1. ~FreeOutput.in_use /\ FreeOutput.sends = 0 /\ ~FreeOutput.transferred
  BY Zenon DEF FreeOutput
<1>2. SendsMarked'
  BY <1>1, Zenon DEF HandedOut, SendsMarked
<1>3. OutputIdsFresh'
  BY <1>1 DEF HandedOut, OutputIdsFresh
<1> QED
  BY <1>2, <1>3, Zenon

LEMMA OutputsStep ==
    ASSUME HandedOut, [Next]_vars
    PROVE  OutputIdsFresh' /\ SendsMarked'
<1>type. outs \in [Slots -> [OutSlots -> Outputs]] /\ nextOut \in 1..(OutputIdBound + 1)
  BY Zenon DEF HandedOut, Inv, TypeOK, OutputTypes
<1>1. ASSUME NEW s \in Slots, NEW t \in Transports,
             NEW id \in 0..(SessionIdSpace - 1), handle_create(s, t, id)
      PROVE  OutputIdsFresh' /\ SendsMarked'
  <2>1. outs' = [outs EXCEPT ![s] = [o \in OutSlots |-> FreeOutput]] /\ nextOut' = nextOut
    BY <1>1, Zenon DEF handle_create
  <2> QED
    BY <2>1, <1>type, ClearedOutputs, Zenon
<1>2. CASE Closes
  <2>1. PICK S \in SUBSET Slots : CloseSessions(S)
    BY <1>2, ClosedSlots, Zenon DEF HandedOut, Inv, Shape
  <2>2. \A s \in Slots, o \in OutSlots : outs'[s][o] \in {outs[s][o], FreeOutput}
    BY <2>1, Zenon DEF CloseSessions
  <2>3. nextOut' = nextOut \/ \A s \in Slots, o \in OutSlots : ~outs'[s][o].in_use
    BY <1>2, ClosedSlots, Zenon DEF HandedOut, Inv, Shape
  <2> QED
    BY <2>2, <2>3, ClearedOutputs, Zenon
<1>3. ASSUME NEW s \in Slots, NEW o \in OutSlots, NEW f, NEW token \in Tokens,
             handle_dequeue_image(s, o, token, f)
      PROVE  OutputIdsFresh' /\ SendsMarked'
  <2> DEFINE a == [FreeOutput EXCEPT !.in_use = TRUE, !.id = nextOut, !.token = token]
  <2>1. nextOut \in 0..OutputIdBound /\ nextOut' = nextOut + 1
    BY <1>3, <1>type, SizeAssumption DEF handle_dequeue_image, allocate_output_id
  <2>2. a \in Outputs
    BY <2>1, FreeOutputType, Zenon DEF Outputs
  <2>3. a.id = nextOut /\ a.sends = 0 /\ ~a.transferred
    BY Zenon DEF FreeOutput
  <2>4. outs' = [outs EXCEPT ![s][o] = a]
    BY <1>3, Zenon DEF handle_dequeue_image
  <2> HIDE DEF a
  <2> QED
    BY <2>1, <2>2, <2>3, <2>4, OneOutput, Zenon
<1>4. ASSUME NEW s \in Slots, NEW o \in OutSlots, NEW f, handle_dequeue_bytes(s, o, f)
      PROVE  OutputIdsFresh' /\ SendsMarked'
  <2> DEFINE a == [FreeOutput EXCEPT !.in_use = TRUE, !.id = nextOut]
  <2>1. nextOut \in 0..OutputIdBound /\ nextOut' = nextOut + 1
    BY <1>4, <1>type, SizeAssumption DEF handle_dequeue_bytes, allocate_output_id
  <2>2. a \in Outputs
    BY <2>1, FreeOutputType, Zenon DEF Outputs
  <2>3. a.id = nextOut /\ a.sends = 0 /\ ~a.transferred
    BY Zenon DEF FreeOutput
  <2>4. outs' = [outs EXCEPT ![s][o] = a]
    BY <1>4, Zenon DEF handle_dequeue_bytes
  <2> HIDE DEF a
  <2> QED
    BY <2>1, <2>2, <2>3, <2>4, OneOutput, Zenon
<1>5. ASSUME NEW s \in Slots, NEW o \in OutSlots, NEW r, handle_release(s, o, r)
      PROVE  OutputIdsFresh' /\ SendsMarked'
  <2>1. outs' = [outs EXCEPT ![s][o] = FreeOutput] /\ nextOut' = nextOut
    BY <1>5, Zenon DEF handle_release
  <2> QED
    BY <2>1, <1>type, ClearedOutputs, Zenon
<1>6. ASSUME NEW s \in Slots, NEW o \in OutSlots, NEW f, handle_transfer_prime(s, o, f)
      PROVE  OutputIdsFresh' /\ SendsMarked'
  <2> DEFINE v == [outs[s][o] EXCEPT !.prime = TRUE]
  <2>1. outs' = [outs EXCEPT ![s][o] = v] /\ nextOut' = nextOut /\ outs[s][o].in_use
    BY <1>6, <1>type, Zenon DEF handle_transfer_prime
  <2>2. outs[s][o] \in Outputs
    BY <1>type, Zenon
  <2>3. v \in Outputs
    BY <2>2, MarkedOutputType, Zenon
  <2>4. /\ v.id = outs[s][o].id /\ v.sends = outs[s][o].sends
        /\ v.transferred = outs[s][o].transferred
    BY <2>2, Zenon DEF Outputs
  <2>5. v.sends = IF v.transferred THEN 1 ELSE 0
    BY <2>4, Zenon DEF HandedOut, SendsMarked
  <2> HIDE DEF v
  <2> QED
    BY <2>1, <2>3, <2>4, <2>5, OneOutput, Zenon
<1>7. ASSUME NEW s \in Slots, handle_flush(s)
      PROVE  OutputIdsFresh' /\ SendsMarked'
  <2>1. outs' = [outs EXCEPT ![s] = [o \in OutSlots |-> FreeOutput]] /\ nextOut' = nextOut
    BY <1>7, Zenon DEF handle_flush, ClearOutputs
  <2> QED
    BY <2>1, <1>type, ClearedOutputs, Zenon
<1>8. CASE after_reply_transfer_ahb
  <2> DEFINE s == msg.slot
             o == msg.out
             v == Sent(outs[s][o])
  <2>1. s \in Slots /\ o \in OutSlots /\ outs[s][o].in_use
    BY <1>8, Zenon DEF after_reply_transfer_ahb, HandedOut, Inv, Shape, MessageShape
  <2>2. \/ outs' = outs /\ nextOut' = nextOut
        \/ /\ ~outs[s][o].transferred /\ nextOut' = nextOut
           /\ outs' = [outs EXCEPT ![s][o] = v]
    BY <1>8, <2>1, <1>type, Zenon DEF after_reply_transfer_ahb
  <2>3. outs[s][o] \in Outputs
    BY <2>1, <1>type, Zenon
  <2>4. v \in Outputs
    BY <2>3, MarkedOutputType, Zenon
  <2>5. v.id = outs[s][o].id /\ v.sends = outs[s][o].sends + 1 /\ v.transferred
    BY <2>3, Zenon DEF Outputs, Sent
  <2>6. ~outs[s][o].transferred => outs[s][o].sends = 0
    BY <2>1, Zenon DEF HandedOut, SendsMarked
  <2>7. CASE outs' = outs /\ nextOut' = nextOut
    BY <2>7, ClearedOutputs, Zenon
  <2>8. CASE /\ ~outs[s][o].transferred /\ nextOut' = nextOut
             /\ outs' = [outs EXCEPT ![s][o] = v]
    <3>1. v.sends = IF v.transferred THEN 1 ELSE 0
      BY <2>5, <2>6, <2>8
    <3> HIDE DEF v, s, o
    <3> QED
      BY <2>1, <2>4, <2>5, <2>8, <3>1, OneOutput, Zenon
  <2> QED
    BY <2>2, <2>7, <2>8, Zenon
<1>9. CASE UNCHANGED outTables
  BY <1>9, ClearedOutputs, Zenon DEF outTables
<1>10. CASE Outputting
  BY <1>10, <1>3, <1>4, <1>5, <1>6, <1>7, <1>8, Zenon DEF Outputting, OutputRequest
<1> QED
  BY <1>1, <1>2, <1>9, <1>10, Frame, RegistryFrame, Zenon DEF Creates
-----------------------------------------------------------------------------
(* One slot's registry: its entries e, its two counters and its            *)
(* completions c.  InflightAwaitsCompletion says it of every slot.         *)
Entries == [BufferIds -> {"none", "idle", "flight"}]
Completions == [CompSlots -> 0..MaxBufferId]

Registered(e) == {b \in BufferIds : e[b] # "none"}
InFlight(e) == {b \in BufferIds : e[b] = "flight"}

RegistryOk(e, n, i, c) ==
    /\ \A b \in BufferIds : e[b] = "flight" <=> \E k \in CompSlots : c[k] = b
    /\ \A j, k \in CompSlots : c[j] = c[k] /\ c[j] # 0 => j = k
    /\ n = Cardinality(Registered(e))
    /\ i = Cardinality(InFlight(e))

LEMMA RegistriesOk ==
    InflightAwaitsCompletion <=>
        \A s \in Slots : RegistryOk(entry[s], registered[s], inflight[s], comps[s])
BY Zenon DEF InflightAwaitsCompletion, CountersAgree, RegistryOk, Registered, InFlight

LEMMA BufferIdsFinite ==
    /\ 0 \notin BufferIds
    /\ \A T \in SUBSET BufferIds : IsFiniteSet(T) /\ Cardinality(T) \in Nat
<1>1. IsFiniteSet(BufferIds) /\ 0 \notin BufferIds
  BY SizeAssumption, FS_Interval DEF BufferIds
<1>2. \A T \in SUBSET BufferIds : IsFiniteSet(T)
  BY <1>1, FS_Subset, Zenon
<1> QED
  BY <1>1, <1>2, FS_CardinalityType, Zenon

LEMMA EmptyRegistry ==
    RegistryOk([b \in BufferIds |-> "none"], 0, 0, [k \in CompSlots |-> 0])
<1> DEFINE e == [b \in BufferIds |-> "none"]
<1>1. Registered(e) = {} /\ InFlight(e) = {}
  BY Zenon DEF Registered, InFlight
<1> QED
  BY <1>1, BufferIdsFinite, FS_EmptySet, Zenon DEF RegistryOk

LEMMA RegisterOk ==
    ASSUME NEW e \in Entries, NEW n, NEW i, NEW c \in Completions,
           RegistryOk(e, n, i, c), NEW b \in BufferIds, e[b] = "none"
    PROVE  RegistryOk([e EXCEPT ![b] = "idle"], n + 1, i, c)
<1> DEFINE d == [e EXCEPT ![b] = "idle"]
<1>1. \A x \in BufferIds : d[x] = IF x = b THEN "idle" ELSE e[x]
  BY Zenon DEF Entries
<1>2. Registered(d) = Registered(e) \cup {b} /\ b \notin Registered(e) /\ InFlight(d) = InFlight(e)
  BY <1>1 DEF Registered, InFlight
<1>3. IsFiniteSet(Registered(e))
  BY BufferIdsFinite, Zenon DEF Registered
<1>4. Cardinality(Registered(d)) = Cardinality(Registered(e)) + 1
  BY <1>2, <1>3, FS_AddElement, Zenon
<1> SUFFICES RegistryOk(d, n + 1, i, c)
  BY Zenon
<1> HIDE DEF d
<1> QED
  BY <1>1, <1>2, <1>4, Zenon DEF RegistryOk

LEMMA UnregisterOk ==
    ASSUME NEW e \in Entries, NEW n, NEW i, NEW c \in Completions,
           RegistryOk(e, n, i, c), NEW b \in BufferIds, e[b] = "idle"
    PROVE  RegistryOk([e EXCEPT ![b] = "none"], n - 1, i, c)
<1> DEFINE d == [e EXCEPT ![b] = "none"]
<1>1. \A x \in BufferIds : d[x] = IF x = b THEN "none" ELSE e[x]
  BY Zenon DEF Entries
<1>2. Registered(d) = Registered(e) \ {b} /\ b \in Registered(e) /\ InFlight(d) = InFlight(e)
  BY <1>1 DEF Registered, InFlight
<1>3. IsFiniteSet(Registered(e))
  BY BufferIdsFinite, Zenon DEF Registered
<1>4. Cardinality(Registered(d)) = Cardinality(Registered(e)) - 1
  BY <1>2, <1>3, FS_RemoveElement, Zenon
<1> SUFFICES RegistryOk(d, n - 1, i, c)
  BY Zenon
<1> HIDE DEF d
<1> QED
  BY <1>1, <1>2, <1>4, Zenon DEF RegistryOk

LEMMA QueueOk ==
    ASSUME NEW e \in Entries, NEW n, NEW i, NEW c \in Completions,
           RegistryOk(e, n, i, c), NEW b \in BufferIds, e[b] = "idle",
           NEW k \in CompSlots, c[k] = 0
    PROVE  RegistryOk([e EXCEPT ![b] = "flight"], n, i + 1, [c EXCEPT ![k] = b])
<1> DEFINE d == [e EXCEPT ![b] = "flight"]
           a == [c EXCEPT ![k] = b]
<1>1. \A x \in BufferIds : d[x] = IF x = b THEN "flight" ELSE e[x]
  BY Zenon DEF Entries
<1>2. \A j \in CompSlots : a[j] = IF j = k THEN b ELSE c[j]
  BY Zenon DEF Completions
<1>3. Registered(d) = Registered(e) /\ InFlight(d) = InFlight(e) \cup {b} /\ b \notin InFlight(e)
  BY <1>1 DEF Registered, InFlight
<1>4. IsFiniteSet(InFlight(e))
  BY BufferIdsFinite, Zenon DEF InFlight
<1>5. Cardinality(InFlight(d)) = Cardinality(InFlight(e)) + 1
  BY <1>3, <1>4, FS_AddElement, Zenon
<1>6. \A j \in CompSlots : c[j] # b
  BY Zenon DEF RegistryOk
<1> SUFFICES RegistryOk(d, n, i + 1, a)
  BY Zenon
<1> HIDE DEF d, a
<1>7. \A x \in BufferIds : d[x] = "flight" <=> \E j \in CompSlots : a[j] = x
  BY <1>1, <1>2, BufferIdsFinite DEF RegistryOk
<1>8. \A j, l \in CompSlots : a[j] = a[l] /\ a[j] # 0 => j = l
  BY <1>2, <1>6 DEF RegistryOk
<1> QED
  BY <1>3, <1>5, <1>7, <1>8, Zenon DEF RegistryOk

LEMMA CompleteOk ==
    ASSUME NEW e \in Entries, NEW n, NEW i, NEW c \in Completions,
           RegistryOk(e, n, i, c), NEW k \in CompSlots, c[k] # 0, e[c[k]] = "flight"
    PROVE  RegistryOk([e EXCEPT ![c[k]] = "idle"], n, i - 1, [c EXCEPT ![k] = 0])
<1> DEFINE b == c[k]
           d == [e EXCEPT ![b] = "idle"]
           a == [c EXCEPT ![k] = 0]
<1>0. b \in BufferIds
  BY SizeAssumption DEF BufferIds, Completions
<1>1. \A x \in BufferIds : d[x] = IF x = b THEN "idle" ELSE e[x]
  BY Zenon DEF Entries
<1>2. \A j \in CompSlots : a[j] = IF j = k THEN 0 ELSE c[j]
  BY Zenon DEF Completions
<1>3. Registered(d) = Registered(e) /\ InFlight(d) = InFlight(e) \ {b} /\ b \in InFlight(e)
  BY <1>0, <1>1 DEF Registered, InFlight
<1>4. IsFiniteSet(InFlight(e))
  BY BufferIdsFinite, Zenon DEF InFlight
<1>5. Cardinality(InFlight(d)) = Cardinality(InFlight(e)) - 1
  BY <1>3, <1>4, FS_RemoveElement, Zenon
<1>6. \A j \in CompSlots : j # k => c[j] # b
  BY Zenon DEF RegistryOk
<1> SUFFICES RegistryOk(d, n, i - 1, a)
  BY Zenon
<1> HIDE DEF d, a
<1>7. \A x \in BufferIds : d[x] = "flight" <=> \E j \in CompSlots : a[j] = x
  <2> SUFFICES ASSUME NEW x \in BufferIds
               PROVE  d[x] = "flight" <=> \E j \in CompSlots : a[j] = x
    BY Zenon
  <2>1. CASE x = b
    BY <2>1, <1>1, <1>2, <1>6, BufferIdsFinite, Zenon
  <2>2. CASE x # b
    BY <2>2, <1>1, <1>2, BufferIdsFinite DEF RegistryOk
  <2> QED
    BY <2>1, <2>2, Zenon
<1>8. \A j, l \in CompSlots : a[j] = a[l] /\ a[j] # 0 => j = l
  BY <1>2, Zenon DEF RegistryOk
<1> QED
  BY <1>3, <1>5, <1>7, <1>8, Zenon DEF RegistryOk
-----------------------------------------------------------------------------
(* A step of the registries changes one slot's by one of the four, or      *)
(* empties some.                                                           *)
LEMMA RegistryStep ==
    ASSUME HandedOut, [Next]_vars
    PROVE  InflightAwaitsCompletion'
<1> DEFINE Ok(s) == RegistryOk(entry[s], registered[s], inflight[s], comps[s])
<1>type. /\ entry \in [Slots -> Entries]
         /\ registered \in [Slots -> Int] /\ inflight \in [Slots -> Int]
         /\ comps \in [Slots -> Completions]
  BY Zenon DEF HandedOut, Inv, TypeOK, RegistryTypes, Entries, Completions
<1>ok. \A s \in Slots : Ok(s)
  BY RegistriesOk, Zenon DEF HandedOut
<1> SUFFICES \A s \in Slots : Ok(s)'
  BY Zenon DEF InflightAwaitsCompletion, CountersAgree, RegistryOk, Registered, InFlight
<1>1. ASSUME NEW s \in Slots, NEW t \in Transports,
             NEW id \in 0..(SessionIdSpace - 1), handle_create(s, t, id)
      PROVE  \A q \in Slots : Ok(q)'
  <2>1. /\ entry' = [entry EXCEPT ![s] = [b \in BufferIds |-> "none"]]
        /\ registered' = [registered EXCEPT ![s] = 0]
        /\ inflight' = [inflight EXCEPT ![s] = 0]
        /\ comps' = [comps EXCEPT ![s] = [k \in CompSlots |-> 0]]
    BY <1>1, Zenon DEF handle_create
  <2> QED
    BY <2>1, <1>type, <1>ok, EmptyRegistry, Zenon
<1>2. CASE Closes
  <2>1. PICK S \in SUBSET Slots : CloseSessions(S)
    BY <1>2, ClosedSlots, Zenon DEF HandedOut, Inv, Shape
  <2> QED
    BY <2>1, <1>ok, EmptyRegistry, Zenon DEF CloseSessions
<1>3. ASSUME NEW s \in Slots, NEW b \in BufferIds, NEW r, NEW d,
             handle_register_dmabuf(s, b, r, d)
      PROVE  \A q \in Slots : Ok(q)'
  <2>1. /\ entry[s][b] = "none"
        /\ entry' = [entry EXCEPT ![s] = [entry[s] EXCEPT ![b] = "idle"]]
        /\ registered' = [registered EXCEPT ![s] = registered[s] + 1]
        /\ UNCHANGED <<inflight, comps>>
    BY <1>3, <1>type, Zenon DEF handle_register_dmabuf
  <2>2. RegistryOk([entry[s] EXCEPT ![b] = "idle"], registered[s] + 1, inflight[s], comps[s])
    BY <2>1, <1>type, <1>ok, RegisterOk, Zenon
  <2> QED
    BY <2>1, <2>2, <1>type, <1>ok, Zenon
<1>4. ASSUME NEW s \in Slots, NEW b \in BufferIds, handle_unregister_dmabuf(s, b)
      PROVE  \A q \in Slots : Ok(q)'
  <2>1. /\ entry[s][b] = "idle"
        /\ entry' = [entry EXCEPT ![s] = [entry[s] EXCEPT ![b] = "none"]]
        /\ registered' = [registered EXCEPT ![s] = registered[s] - 1]
        /\ UNCHANGED <<inflight, comps>>
    BY <1>4, <1>type, Zenon DEF handle_unregister_dmabuf, Unregistrable
  <2>2. RegistryOk([entry[s] EXCEPT ![b] = "none"], registered[s] - 1, inflight[s], comps[s])
    BY <2>1, <1>type, <1>ok, UnregisterOk, Zenon
  <2> QED
    BY <2>1, <2>2, <1>type, <1>ok, Zenon
<1>5. ASSUME NEW s \in Slots, NEW b \in BufferIds, NEW k \in CompSlots, NEW r, NEW f,
             handle_queue_dmabuf(s, b, k, r, f)
      PROVE  \A q \in Slots : Ok(q)'
  <2>1. /\ entry[s][b] = "idle" /\ comps[s][k] = 0
        /\ entry' = [entry EXCEPT ![s] = [entry[s] EXCEPT ![b] = "flight"]]
        /\ inflight' = [inflight EXCEPT ![s] = inflight[s] + 1]
        /\ comps' = [comps EXCEPT ![s] = [comps[s] EXCEPT ![k] = b]]
        /\ UNCHANGED registered
    BY <1>5, <1>type, Zenon DEF handle_queue_dmabuf
  <2>2. RegistryOk([entry[s] EXCEPT ![b] = "flight"], registered[s], inflight[s] + 1,
                   [comps[s] EXCEPT ![k] = b])
    BY <2>1, <1>type, <1>ok, QueueOk, Zenon
  <2> QED
    BY <2>1, <2>2, <1>type, <1>ok, Zenon
<1>6. ASSUME NEW s \in Slots, NEW k \in CompSlots, handle_complete_dmabuf(s, k)
      PROVE  \A q \in Slots : Ok(q)'
  <2> DEFINE b == comps[s][k]
  <2>1. /\ entry[s][b] = "flight" /\ b # 0
        /\ entry' = [entry EXCEPT ![s] = [entry[s] EXCEPT ![b] = "idle"]]
        /\ inflight' = [inflight EXCEPT ![s] = inflight[s] - 1]
        /\ comps' = [comps EXCEPT ![s] = [comps[s] EXCEPT ![k] = 0]]
        /\ UNCHANGED registered
    BY <1>6, <1>type, Zenon DEF handle_complete_dmabuf, Finish
  <2>2. RegistryOk([entry[s] EXCEPT ![b] = "idle"], registered[s], inflight[s] - 1,
                   [comps[s] EXCEPT ![k] = 0])
    BY <2>1, <1>type, <1>ok, CompleteOk, Zenon
  <2> QED
    BY <2>1, <2>2, <1>type, <1>ok, Zenon
<1>7. CASE UNCHANGED dmaTables
  BY <1>7, <1>ok, Zenon DEF dmaTables
<1>9. ASSUME NEW s \in Slots, NEW b \in BufferIds, NEW r, NEW f,
             handle_queue_dmabuf_fails(s, b, r, f)
      PROVE  \A q \in Slots : Ok(q)'
  <2>1. UNCHANGED dmaTables
    BY <1>9, FailedSubmission, Zenon DEF NoEffect, tables, dmaTables, HandedOut, Inv
  <2> QED
    BY <2>1, <1>7, Zenon
<1>8. CASE Registering
  BY <1>8, <1>3, <1>4, <1>5, <1>6, <1>9, Zenon DEF Registering, DmabufRequest
<1> QED
  BY <1>1, <1>2, <1>7, <1>8, Frame, OutputFrame, Zenon DEF Creates
-----------------------------------------------------------------------------
LEMMA HandedOutInit == Init => HandedOut
<1> SUFFICES ASSUME Init PROVE HandedOut
  BY Zenon
<1>1. ~FreeOutput.in_use /\ FreeOutput.sends = 0 /\ ~FreeOutput.transferred
  BY Zenon DEF FreeOutput
<1>2. SessionIdsDistinct /\ OutputIdsFresh /\ SendsMarked
  BY <1>1, Zenon DEF Init, SessionIdsDistinct, OutputIdsFresh, SendsMarked
<1>3. InflightAwaitsCompletion
  BY EmptyRegistry, RegistriesOk, Zenon DEF Init
<1> QED
  BY <1>2, <1>3, OwnershipInit, Zenon DEF HandedOut

LEMMA HandedOutCorrect == Spec => []HandedOut
<1>1. HandedOut /\ [Next]_vars => HandedOut'
  BY TypeStep, OwnershipStep, SessionIdsStep, OutputsStep, RegistryStep, Zenon DEF HandedOut, Inv
<1> QED
  BY <1>1, HandedOutInit, PTL DEF Spec

(* A submission accepted from a client is never stuck in flight, and the   *)
(* registry's counters stay right, for any number of sessions, buffers and *)
(* completion slots (InflightAwaitsCompletion).                            *)
THEOREM InflightCorrect == Spec => []InflightAwaitsCompletion
<1>1. HandedOut => InflightAwaitsCompletion
  BY Zenon DEF HandedOut
<1> QED
  BY <1>1, HandedOutCorrect, PTL

(* find_session and the output lookup reach the thing the id was given out *)
(* for or nothing, across the wraparound of session ids and stale output   *)
(* ids (IdsNameOneThing).                                                  *)
THEOREM IdsCorrect == Spec => []IdsNameOneThing
<1>1. HandedOut => IdsNameOneThing
  BY Zenon DEF HandedOut, IdsNameOneThing
<1> QED
  BY <1>1, HandedOutCorrect, PTL

(* after_reply sends the native buffer of an output at most once           *)
(* (NativeBufferSentOnce).                                                 *)
THEOREM SentOnceCorrect == Spec => []NativeBufferSentOnce
<1>1. HandedOut => NativeBufferSentOnce
  BY DEF HandedOut, SendsMarked, NativeBufferSentOnce
<1> QED
  BY <1>1, HandedOutCorrect, PTL
-----------------------------------------------------------------------------
(* The refinement: what the sessions of the engine do to the clients'      *)
(* buffers is what DmabufLending allows.  In every slot, the buffers away  *)
(* are those its registry has in flight.                                   *)
AwayInFlight ==
    \A s \in Slots : Away(s) = InFlight(entry[s]) /\ Known(s) = Registered(entry[s])

LEMMA MapsToRegistry == HandedOut => AwayInFlight
<1> SUFFICES ASSUME HandedOut, NEW s \in Slots
             PROVE  Away(s) = InFlight(entry[s]) /\ Known(s) = Registered(entry[s])
  BY Zenon DEF AwayInFlight
<1>1. \A k \in CompSlots : comps[s][k] \in BufferIds \cup {0}
  BY SizeAssumption DEF HandedOut, Inv, TypeOK, RegistryTypes, BufferIds
<1>2. \A b \in BufferIds : entry[s][b] = "flight" <=> \E k \in CompSlots : comps[s][k] = b
  BY Zenon DEF HandedOut, InflightAwaitsCompletion
<1>3. 0 \notin BufferIds
  BY BufferIdsFinite, Zenon
<1> QED
  BY <1>1, <1>2, <1>3 DEF Away, Known, InFlight, Registered

(* The two modules count the same way.                                     *)
LEMMA SameCount == ASSUME NEW S PROVE Lending!Cardinality(S) = Cardinality(S)
BY Zenon DEF Lending!Cardinality, Cardinality, Lending!IsFiniteSet, IsFiniteSet

(* The lending state of all slots, as the refinement maps it.              *)
KnownBy(e) == [s \in Slots |-> Registered(e[s])]
AwayBy(e) == [s \in Slots |-> InFlight(e[s])]

(* A request that changes the entries of slot s only.                      *)
LEMMA OneSlot ==
    ASSUME entry \in [Slots -> Entries], NEW s \in Slots, NEW d \in Entries,
           entry' = [entry EXCEPT ![s] = d]
    PROVE  /\ KnownBy(entry') = [KnownBy(entry) EXCEPT ![s] = Registered(d)]
           /\ AwayBy(entry') = [AwayBy(entry) EXCEPT ![s] = InFlight(d)]
<1>1. \A q \in Slots : entry'[q] = IF q = s THEN d ELSE entry[q]
  BY Zenon
<1>2. \A q \in Slots :
         Registered(entry'[q]) = IF q = s THEN Registered(d) ELSE Registered(entry[q])
  BY <1>1, Zenon
<1>3. \A q \in Slots :
         InFlight(entry'[q]) = IF q = s THEN InFlight(d) ELSE InFlight(entry[q])
  BY <1>1, Zenon
<1>4. KnownBy(entry') = [KnownBy(entry) EXCEPT ![s] = Registered(d)]
  BY <1>2, Zenon DEF KnownBy
<1>5. AwayBy(entry') = [AwayBy(entry) EXCEPT ![s] = InFlight(d)]
  BY <1>3, Zenon DEF AwayBy
<1> QED
  BY <1>4, <1>5, Zenon

(* Each step of the engine is a step of the lending, or leaves it alone.   *)
LEMMA LendingStep ==
    ASSUME HandedOut, HandedOut', [Next]_vars
    PROVE  [Lending!Next]_<<[s \in Slots |-> Known(s)], [s \in Slots |-> Away(s)]>>
<1> DEFINE k0 == KnownBy(entry)
           a0 == AwayBy(entry)
           k1 == KnownBy(entry')
           a1 == AwayBy(entry')
<1>type. entry \in [Slots -> Entries] /\ comps \in [Slots -> Completions]
  BY Zenon DEF HandedOut, Inv, TypeOK, RegistryTypes, Entries, Completions
<1>map. [s \in Slots |-> Known(s)] = k0 /\ [s \in Slots |-> Away(s)] = a0
  BY MapsToRegistry, Zenon DEF AwayInFlight, KnownBy, AwayBy
<1>map2. AwayInFlight'
  BY MapsToRegistry, PTL
<1>map3. [s \in Slots |-> Known(s)]' = k1 /\ [s \in Slots |-> Away(s)]' = a1
  BY <1>map2, Zenon DEF AwayInFlight, KnownBy, AwayBy
<1>at. \A s \in Slots : k0[s] = Registered(entry[s]) /\ a0[s] = InFlight(entry[s])
  BY Zenon DEF KnownBy, AwayBy
<1>size. \A s \in Slots : /\ registered[s] = Lending!Cardinality(k0[s])
                          /\ inflight[s] = Lending!Cardinality(a0[s])
  BY <1>at, SameCount, Zenon
     DEF HandedOut, InflightAwaitsCompletion, CountersAgree, Registered, InFlight
<1>same. CASE entry' = entry
  BY <1>same, <1>map, <1>map3, Zenon
<1>end. ASSUME NEW S \in SUBSET Slots,
               entry' = [s \in Slots |-> IF s \in S THEN [b \in BufferIds |-> "none"]
                                                    ELSE entry[s]]
        PROVE  Lending!Next
  <2>1. Registered([b \in BufferIds |-> "none"]) = {} /\ InFlight([b \in BufferIds |-> "none"]) = {}
    BY Zenon DEF Registered, InFlight
  <2>2. \A s \in Slots : /\ Registered(entry'[s]) = IF s \in S THEN {} ELSE k0[s]
                         /\ InFlight(entry'[s]) = IF s \in S THEN {} ELSE a0[s]
    BY <1>end, <1>at, <2>1, Zenon
  <2>3. k1 = [s \in Slots |-> IF s \in S THEN {} ELSE k0[s]]
    BY <2>2, Zenon DEF KnownBy
  <2>4. a1 = [s \in Slots |-> IF s \in S THEN {} ELSE a0[s]]
    BY <2>2, Zenon DEF AwayBy
  <2>5. Lending!EndSessions(S)
    BY <2>3, <2>4, <1>map, <1>map3, Zenon DEF Lending!EndSessions
  <2> QED
    BY <2>5, Zenon DEF Lending!Next
<1>1. ASSUME NEW s \in Slots, NEW t \in Transports,
             NEW id \in 0..(SessionIdSpace - 1), handle_create(s, t, id)
      PROVE  Lending!Next
  <2>1. entry' = [entry EXCEPT ![s] = [b \in BufferIds |-> "none"]]
    BY <1>1, Zenon DEF handle_create
  <2>2. entry' = [q \in Slots |-> IF q \in {s} THEN [b \in BufferIds |-> "none"] ELSE entry[q]]
    BY <2>1, <1>type, Zenon
  <2> QED
    BY <2>2, <1>end, Zenon
<1>2. CASE Closes
  <2>1. PICK S \in SUBSET Slots : CloseSessions(S)
    BY <1>2, ClosedSlots, Zenon DEF HandedOut, Inv, Shape
  <2> QED
    BY <2>1, <1>end, Zenon DEF CloseSessions
<1>3. ASSUME NEW s \in Slots, NEW b \in BufferIds, NEW r, NEW f,
             handle_register_dmabuf(s, b, r, f)
      PROVE  Lending!Next
  <2> DEFINE e == entry[s]
             d == [entry[s] EXCEPT ![b] = "idle"]
  <2>1. e[b] = "none" /\ entry' = [entry EXCEPT ![s] = d] /\ registered[s] < MaxRegistered
    BY <1>3, <1>type, Zenon DEF handle_register_dmabuf
  <2>2. d \in Entries /\ \A x \in BufferIds : d[x] = IF x = b THEN "idle" ELSE e[x]
    BY <1>type, Zenon DEF Entries
  <2> HIDE DEF e, d
  <2>3. b \notin Registered(e) /\ Registered(d) = Registered(e) \cup {b} /\ InFlight(d) = InFlight(e)
    BY <2>1, <2>2, Zenon DEF Registered, InFlight
  <2>4. k1 = [k0 EXCEPT ![s] = Registered(d)] /\ a1 = [a0 EXCEPT ![s] = InFlight(d)]
    BY <2>1, <2>2, <1>type, OneSlot, Zenon
  <2>5. k1 = [k0 EXCEPT ![s] = @ \cup {b}] /\ a1 = a0
    BY <2>3, <2>4, <1>at, Zenon DEF KnownBy, AwayBy, e
  <2>6. Lending!Cardinality([q \in Slots |-> Known(q)][s]) < MaxRegistered
    BY <2>1, <1>size, <1>map, Zenon
  <2>7. Lending!Register(s, b)
    <3>1. b \notin [q \in Slots |-> Known(q)][s]
      BY <2>3, <1>at, <1>map, Zenon DEF e
    <3> QED
      BY <3>1, <2>5, <2>6, <1>map, <1>map3, Zenon DEF Lending!Register
  <2> QED
    BY <2>7, Zenon DEF Lending!Next
<1>4. ASSUME NEW s \in Slots, NEW b \in BufferIds, handle_unregister_dmabuf(s, b)
      PROVE  Lending!Next
  <2> DEFINE e == entry[s]
             d == [entry[s] EXCEPT ![b] = "none"]
  <2>1. e[b] = "idle" /\ entry' = [entry EXCEPT ![s] = d]
    BY <1>4, <1>type, Zenon DEF handle_unregister_dmabuf, Unregistrable
  <2>2. d \in Entries /\ \A x \in BufferIds : d[x] = IF x = b THEN "none" ELSE e[x]
    BY <1>type, Zenon DEF Entries
  <2> HIDE DEF e, d
  <2>3. /\ b \in Registered(e) \ InFlight(e)
        /\ Registered(d) = Registered(e) \ {b} /\ InFlight(d) = InFlight(e)
    BY <2>1, <2>2, Zenon DEF Registered, InFlight
  <2>4. k1 = [k0 EXCEPT ![s] = Registered(d)] /\ a1 = [a0 EXCEPT ![s] = InFlight(d)]
    BY <2>1, <2>2, <1>type, OneSlot, Zenon
  <2>5. k1 = [k0 EXCEPT ![s] = @ \ {b}] /\ a1 = a0
    BY <2>3, <2>4, <1>at, Zenon DEF KnownBy, AwayBy, e
  <2>6. Lending!Unregister(s, b)
    BY <2>3, <2>5, <1>at, <1>map, <1>map3, Zenon DEF Lending!Unregister, e
  <2> QED
    BY <2>6, Zenon DEF Lending!Next
<1>5. ASSUME NEW s \in Slots, NEW b \in BufferIds, NEW k \in CompSlots, NEW r, NEW f,
             handle_queue_dmabuf(s, b, k, r, f)
      PROVE  Lending!Next
  <2> DEFINE e == entry[s]
             d == [entry[s] EXCEPT ![b] = "flight"]
  <2>1. e[b] = "idle" /\ entry' = [entry EXCEPT ![s] = d] /\ inflight[s] < MaxInflight
    BY <1>5, <1>type, Zenon DEF handle_queue_dmabuf
  <2>2. d \in Entries /\ \A x \in BufferIds : d[x] = IF x = b THEN "flight" ELSE e[x]
    BY <1>type, Zenon DEF Entries
  <2> HIDE DEF e, d
  <2>3. /\ b \in Registered(e) \ InFlight(e)
        /\ Registered(d) = Registered(e) /\ InFlight(d) = InFlight(e) \cup {b}
    BY <2>1, <2>2, Zenon DEF Registered, InFlight
  <2>4. k1 = [k0 EXCEPT ![s] = Registered(d)] /\ a1 = [a0 EXCEPT ![s] = InFlight(d)]
    BY <2>1, <2>2, <1>type, OneSlot, Zenon
  <2>5. a1 = [a0 EXCEPT ![s] = @ \cup {b}] /\ k1 = k0
    BY <2>3, <2>4, <1>at, Zenon DEF KnownBy, AwayBy, e
  <2>6. Lending!Cardinality([q \in Slots |-> Away(q)][s]) < MaxInflight
    BY <2>1, <1>size, <1>map, Zenon
  <2>7. Lending!Queue(s, b)
    <3>1. b \in [q \in Slots |-> Known(q)][s] \ [q \in Slots |-> Away(q)][s]
      BY <2>3, <1>at, <1>map, Zenon DEF e
    <3> QED
      BY <3>1, <2>5, <2>6, <1>map, <1>map3, Zenon DEF Lending!Queue
  <2> QED
    BY <2>7, Zenon DEF Lending!Next
<1>6. ASSUME NEW s \in Slots, NEW k \in CompSlots, handle_complete_dmabuf(s, k)
      PROVE  Lending!Next
  <2> DEFINE b == comps[s][k]
             e == entry[s]
             d == [entry[s] EXCEPT ![b] = "idle"]
  <2>1. e[b] = "flight" /\ b # 0 /\ entry' = [entry EXCEPT ![s] = d]
    BY <1>6, <1>type, Zenon DEF handle_complete_dmabuf, Finish
  <2>2. b \in BufferIds
    BY <2>1, <1>type, SizeAssumption DEF Completions, BufferIds
  <2>3. d \in Entries /\ \A x \in BufferIds : d[x] = IF x = b THEN "idle" ELSE e[x]
    BY <1>type, Zenon DEF Entries
  <2> HIDE DEF b, e, d
  <2>4. /\ b \in InFlight(e)
        /\ Registered(d) = Registered(e) /\ InFlight(d) = InFlight(e) \ {b}
    BY <2>1, <2>2, <2>3, Zenon DEF Registered, InFlight
  <2>5. k1 = [k0 EXCEPT ![s] = Registered(d)] /\ a1 = [a0 EXCEPT ![s] = InFlight(d)]
    BY <2>1, <2>3, <1>type, OneSlot, Zenon
  <2>6. a1 = [a0 EXCEPT ![s] = @ \ {b}] /\ k1 = k0
    BY <2>4, <2>5, <1>at, Zenon DEF KnownBy, AwayBy, e
  <2>7. Lending!Complete(s, b)
    BY <2>4, <2>6, <1>at, <1>map, <1>map3, Zenon DEF Lending!Complete, e, b
  <2> QED
    BY <2>2, <2>7, Zenon DEF Lending!Next
<1>7. ASSUME NEW s \in Slots, NEW b \in BufferIds, NEW r, NEW f,
             handle_queue_dmabuf_fails(s, b, r, f)
      PROVE  entry' = entry
  BY <1>7, FailedSubmission, Zenon DEF NoEffect, tables, HandedOut, Inv
<1>8. CASE Registering
  BY <1>8, <1>3, <1>4, <1>5, <1>6, <1>7, <1>same, Zenon DEF Registering, DmabufRequest
<1>9. UNCHANGED dmaTables => entry' = entry
  BY Zenon DEF dmaTables
<1> QED
  BY <1>1, <1>2, <1>8, <1>9, <1>same, Frame, OutputFrame, Zenon DEF Creates

(* The engine implements DmabufLending (ImplementsLending): whatever the   *)
(* requests and the connections do, every session at once treats the       *)
(* dma-bufs registered with it as promised.  Never more are known or away  *)
(* than the limits, nothing is forgotten while away, and no request on one *)
(* session touches the buffers of another (handle_register_dmabuf to       *)
(* handle_complete_dmabuf, the failing submission included).               *)
THEOREM LendingCorrect == Spec => ImplementsLending
<1>1. Init => Lending!Init
  <2>1. SUFFICES ASSUME Init PROVE Lending!Init
    BY Zenon
  <2>2. \A s \in Slots : Known(s) = {} /\ Away(s) = {}
    BY <2>1, BufferIdsFinite DEF Init, Known, Away
  <2> QED
    BY <2>2, Zenon DEF Lending!Init
<1>2. HandedOut /\ HandedOut' /\ [Next]_vars
         => [Lending!Next]_<<[s \in Slots |-> Known(s)], [s \in Slots |-> Away(s)]>>
  BY LendingStep, Zenon
<1> QED
  BY <1>1, <1>2, HandedOutCorrect, PTL DEF Spec, ImplementsLending, Lending!Spec
=============================================================================
