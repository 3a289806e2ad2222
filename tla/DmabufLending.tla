---------------------------- MODULE DmabufLending ----------------------------
(***************************************************************************)
(* What the DMABUF operations of a broker's sessions promise the clients   *)
(* that export the buffers.  Each session on its own: a buffer is made     *)
(* known, is taken away for encoding at most MaxInflight at a time, comes  *)
(* back, and can be forgotten only while it is not away.  The end of a     *)
(* session returns and forgets everything it had, and no other session's   *)
(* buffers; a connection ends all its sessions at once.                    *)
(***************************************************************************)
EXTENDS Integers, FiniteSets

CONSTANTS Sessions, Buffers, MaxRegistered, MaxInflight

VARIABLES known, away

Init ==
    /\ known = [s \in Sessions |-> {}]
    /\ away = [s \in Sessions |-> {}]

Register(s, b) ==
    /\ b \notin known[s]
    /\ Cardinality(known[s]) < MaxRegistered
    /\ known' = [known EXCEPT ![s] = @ \cup {b}]
    /\ UNCHANGED away

Unregister(s, b) ==
    /\ b \in known[s] \ away[s]
    /\ known' = [known EXCEPT ![s] = @ \ {b}]
    /\ UNCHANGED away

Queue(s, b) ==
    /\ b \in known[s] \ away[s]
    /\ Cardinality(away[s]) < MaxInflight
    /\ away' = [away EXCEPT ![s] = @ \cup {b}]
    /\ UNCHANGED known

Complete(s, b) ==
    /\ b \in away[s]
    /\ away' = [away EXCEPT ![s] = @ \ {b}]
    /\ UNCHANGED known

EndSessions(S) ==
    /\ known' = [s \in Sessions |-> IF s \in S THEN {} ELSE known[s]]
    /\ away' = [s \in Sessions |-> IF s \in S THEN {} ELSE away[s]]

Next ==
    \/ \E s \in Sessions, b \in Buffers :
          Register(s, b) \/ Unregister(s, b) \/ Queue(s, b) \/ Complete(s, b)
    \/ \E S \in SUBSET Sessions : EndSessions(S)

Spec == Init /\ [][Next]_<<known, away>>
=============================================================================
