---------------------------- MODULE RddSocketPool ----------------------------
(***************************************************************************)
(* The socket adapter preloaded into Firefox's RDD process                 *)
(* (firefox_advc_rdd_socket/firefox_advc_rdd_socket.c).  Before the        *)
(* sandbox closes it connects a few sockets to the codec broker; later     *)
(* connect() and take hand them out and recycle takes them back.  Nothing  *)
(* can be connected anew, so a socket that is lost is lost for the life of *)
(* the process.                                                            *)
(*                                                                         *)
(* The adapter sees descriptor numbers, which the process closes and       *)
(* reuses without telling it: the process's table is part of the state,    *)
(* and a connection is known by its identity (device and inode).           *)
(***************************************************************************)
EXTENDS Integers, FiniteSets

CONSTANTS SlotCount, \* PRECONNECTED_SOCKET_COUNT
          FdCount,   \* descriptor numbers of the process
          Threads    \* threads that call into the adapter

ASSUME PoolAssumption ==
    /\ SlotCount \in Nat \ {0}
    /\ FdCount \in Nat /\ FdCount > SlotCount

Slots == 1..SlotCount
Fds == 1..FdCount
Sockets == 1..SlotCount
NoFd == 0
Handing == -2

(* What a number may refer to, besides a connection of the pool.           *)
Closed == 0
Plain == -1   \* an unconnected socket of the process
Other == -2   \* any other file

VARIABLES
    file,   \* the process's descriptor table
    mine,   \* numbers the process, outside the adapter, has open
    pool,   \* socket_pool
    active, \* active_sockets
    ident,  \* active_identities, 0 when not valid
    up,     \* connections the broker has not closed or written to
    thread, \* what each thread is doing in connect()
    ended,  \* whether the destructor has run
    stray   \* whether the adapter closed what was not its own

vars == <<file, mine, pool, active, ident, up, thread, ended, stray>>

Idle == [pc |-> "idle", fd |-> NoFd, prepared |-> NoFd, slot |-> 0]

(* prepare_socket_pool: sockets up to the first that could not be          *)
(* connected, on the first numbers.                                        *)
Init ==
    \E n \in Slots :
        /\ file = [f \in Fds |-> IF f <= n THEN f ELSE Closed]
        /\ pool = [s \in Slots |-> IF s <= n THEN s ELSE NoFd]
        /\ mine = {}
        /\ active = [s \in Slots |-> NoFd]
        /\ ident = [s \in Slots |-> 0]
        /\ up = Sockets
        /\ thread = [t \in Threads |-> Idle]
        /\ ended = FALSE
        /\ stray = FALSE
-----------------------------------------------------------------------------
(* connected_socket_is_healthy and socket_identity_matches.                *)
Healthy(f) == file[f] \in up

socket_identity_matches_always(f, s) == TRUE

socket_identity_matches(f, s) == ident[s] # 0 /\ file[f] = ident[s]

(* Closing the numbers of F; one that the process has is not the           *)
(* adapter's to close.                                                     *)
Close(table, F) == [f \in Fds |-> IF f \in F THEN Closed ELSE table[f]]

Strays(F) == F \cap mine # {}

(* The scan of connect() and take: the first healthy socket; dead ones     *)
(* before it are closed.                                                   *)
Pooled == {s \in Slots : pool[s] # NoFd}
Found == {s \in Pooled : Healthy(pool[s])}
FirstSlot(S) == CHOOSE s \in S : \A r \in S : s <= r

Dead ==
    {s \in Pooled : ~Healthy(pool[s]) /\
                    (Found # {} => s < FirstSlot(Found))}

PoolAfterScan ==
    [s \in Slots |-> IF s \in Dead \/ (Found # {} /\ s = FirstSlot(Found))
                     THEN NoFd ELSE pool[s]]

DeadFds == {pool[s] : s \in Dead}

Exhausted ==
    /\ Found = {}
    /\ pool' = PoolAfterScan
    /\ file' = Close(file, DeadFds)
    /\ stray' = (stray \/ Strays(DeadFds))

(* connect() on an unconnected socket of the process: under the lock the   *)
(* scan; outside it dup3 over the process's number, then the close of the  *)
(* prepared one; under the lock again the record of who has it.            *)
connect(t, f) ==
    /\ thread[t].pc = "idle"
    /\ f \in mine /\ file[f] = Plain
    /\ \A u \in Threads : thread[u].fd # f
    /\ \/ /\ Exhausted
          /\ UNCHANGED <<active, thread>>
       \/ /\ Found # {}
          /\ LET s == FirstSlot(Found)
             IN  /\ active' = [active EXCEPT ![s] = Handing]
                 /\ thread' = [thread EXCEPT ![t] =
                        [pc |-> "dup", fd |-> f, prepared |-> pool[s], slot |-> s]]
          /\ pool' = PoolAfterScan
          /\ file' = Close(file, DeadFds)
          /\ stray' = (stray \/ Strays(DeadFds))
    /\ UNCHANGED <<mine, ident, up, ended>>

connect_dup(t) ==
    LET c == thread[t]
    IN  /\ c.pc = "dup"
        /\ \/ /\ file' = [file EXCEPT ![c.fd] = file[c.prepared]]
              /\ thread' = [thread EXCEPT ![t].pc = "close"]
           \/ /\ thread' = [thread EXCEPT ![t].pc = "fail"]
              /\ UNCHANGED file
        /\ UNCHANGED <<mine, pool, active, ident, up, ended, stray>>

connect_close(t) ==
    LET c == thread[t]
    IN  /\ c.pc \in {"close", "fail"}
        /\ file' = [file EXCEPT ![c.prepared] = Closed]
        /\ stray' = (stray \/ c.prepared \in mine)
        /\ thread' = [thread EXCEPT ![t].pc = IF c.pc = "close" THEN "record" ELSE "undo"]
        /\ UNCHANGED <<mine, pool, active, ident, up, ended>>

Recorded(s, f) ==
    /\ active' = [active EXCEPT ![s] = f]
    /\ ident' = [ident EXCEPT ![s] = IF f = NoFd THEN 0 ELSE file[f]]

connect_record(t) ==
    LET c == thread[t]
    IN  /\ c.pc \in {"record", "undo"}
        /\ Recorded(c.slot, IF c.pc = "record" THEN c.fd ELSE NoFd)
        /\ thread' = [thread EXCEPT ![t] = Idle]
        /\ UNCHANGED <<file, mine, pool, up, ended, stray>>

(* lindex_firefox_rdd_take_broker_socket: scan and record in one.          *)
take_broker_socket_kept ==
    /\ Found # {}
    /\ LET s == FirstSlot(Found)
       IN  /\ Recorded(s, pool[s])
           /\ mine' = mine \cup {pool[s]}
    /\ pool' = pool
    /\ file' = Close(file, DeadFds)
    /\ stray' = (stray \/ Strays(DeadFds))
    /\ UNCHANGED <<up, thread, ended>>

take_broker_socket ==
    /\ \/ /\ Exhausted
          /\ UNCHANGED <<mine, active, ident>>
       \/ /\ Found # {}
          /\ LET s == FirstSlot(Found)
             IN  /\ Recorded(s, pool[s])
                 /\ mine' = mine \cup {pool[s]}
          /\ pool' = PoolAfterScan
          /\ file' = Close(file, DeadFds)
          /\ stray' = (stray \/ Strays(DeadFds))
    /\ UNCHANGED <<up, thread, ended>>

(* lindex_firefox_rdd_recycle_broker_socket: the first slot that remembers *)
(* the number decides.                                                     *)
Claims(f) == {s \in Slots : active[s] = f /\ pool[s] = NoFd}

recycle_broker_socket(f) ==
    /\ f \in mine /\ \A t \in Threads : thread[t].fd # f
    /\ Claims(f) # {}
    /\ LET s == FirstSlot(Claims(f))
       IN  /\ active' = [active EXCEPT ![s] = NoFd]
           /\ ident' = [ident EXCEPT ![s] = 0]
           /\ IF socket_identity_matches(f, s) /\ Healthy(f)
              THEN /\ pool' = [pool EXCEPT ![s] = f]
                   /\ mine' = mine \ {f}
              ELSE UNCHANGED <<pool, mine>>
    /\ UNCHANGED <<file, up, thread, ended, stray>>

(* close_unused_sockets, when the library is unloaded.                     *)
close_unused_sockets ==
    LET kept == {s \in Slots : active[s] > 0 /\ socket_identity_matches(active[s], s)}
        closing == {pool[s] : s \in Pooled} \cup {active[s] : s \in kept}
    IN  /\ ~ended
        /\ \A t \in Threads : thread[t] = Idle
        /\ ended' = TRUE
        /\ file' = Close(file, closing)
        /\ stray' = (stray \/ \E f \in closing \cap mine : file[f] \notin Sockets)
        /\ mine' = mine \ closing
        /\ pool' = [s \in Slots |-> NoFd]
        /\ active' = [s \in Slots |-> NoFd]
        /\ ident' = [s \in Slots |-> 0]
        /\ UNCHANGED <<up, thread>>
-----------------------------------------------------------------------------
(* The process opens and closes what it likes; it does not close a number  *)
(* a thread of it is connecting.                                           *)
ProcessOpens(f, what) ==
    /\ file[f] = Closed
    /\ file' = [file EXCEPT ![f] = what]
    /\ mine' = mine \cup {f}
    /\ UNCHANGED <<pool, active, ident, up, thread, ended, stray>>

ProcessCloses(f) ==
    /\ f \in mine /\ \A t \in Threads : thread[t].fd # f
    /\ file' = [file EXCEPT ![f] = Closed]
    /\ mine' = mine \ {f}
    /\ UNCHANGED <<pool, active, ident, up, thread, ended, stray>>

BrokerLeaves(s) ==
    /\ s \in up
    /\ up' = up \ {s}
    /\ UNCHANGED <<file, mine, pool, active, ident, thread, ended, stray>>

Next ==
    \/ \E t \in Threads :
          \/ \E f \in Fds : connect(t, f)
          \/ connect_dup(t) \/ connect_close(t) \/ connect_record(t)
    \/ take_broker_socket
    \/ \E f \in Fds :
          \/ recycle_broker_socket(f)
          \/ \E what \in {Plain, Other} : ProcessOpens(f, what)
          \/ ProcessCloses(f)
    \/ \E s \in Sockets : BrokerLeaves(s)
    \/ close_unused_sockets

Spec == Init /\ [][Next]_vars
-----------------------------------------------------------------------------
(* The prepared numbers whose connection dup3 has moved on.                *)
Closing == {thread[t].prepared : t \in {u \in Threads : thread[u].pc = "close"}}

(* A connection has one user: the socket of a pool slot is open under that *)
(* number only, the process does not have it, and no other slot pools it,  *)
(* although numbers are closed and reused behind the adapter's back; nor   *)
(* do two slots claim it back from the process.  A second number for it is *)
(* that of connect() between dup3 and close, which nobody else knows.  Two *)
(* decoders would otherwise talk over one connection.                      *)
OneUser ==
    /\ \A s \in Pooled : file[pool[s]] \in Sockets /\ pool[s] \notin mine
    /\ \A k \in Sockets :
          Cardinality({f \in Fds \ Closing : file[f] = k}) <= 1
    /\ Closing \cap (mine \cup {pool[s] : s \in Pooled}) = {}
    /\ \A s, r \in Pooled : pool[s] = pool[r] => s = r
    /\ \A s, r \in Slots : ident[s] # 0 /\ ident[s] = ident[r] => s = r

(* The adapter closes nothing of the process: neither a number whose       *)
(* socket the process closed and replaced (the destructor), nor one it has *)
(* handed out (a scan, or connect() after dup3).                           *)
NothingStrayClosed == ~stray

=============================================================================
