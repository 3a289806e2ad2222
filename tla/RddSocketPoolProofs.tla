------------------------- MODULE RddSocketPoolProofs -------------------------
(* The socket adapter's theorems, for every number of sockets, descriptors *)
(* and threads.  The argument: slot s only ever deals with connection s,   *)
(* whatever number it goes by.                                             *)
EXTENDS RddSocketPool, FiniteSetTheorems, WellFoundedInduction, TLAPS

(* The inductive invariant.  A thread inside connect() owns its slot, its  *)
(* number and, until it closes it, the prepared number.                    *)
States == [pc : {"idle", "dup", "close", "fail", "record", "undo"}, fd : Fds \cup {NoFd},
           prepared : Fds \cup {NoFd}, slot : 0..SlotCount]

Types ==
    /\ file \in [Fds -> Sockets \cup {Closed, Plain, Other}]
    /\ mine \subseteq Fds
    /\ pool \in [Slots -> Fds \cup {NoFd}]
    /\ active \in [Slots -> Fds \cup {NoFd, Handing}]
    /\ ident \in [Slots -> 0..SlotCount]
    /\ up \subseteq Sockets
    /\ thread \in [Threads -> States]

(* A connection is open under one number, but for one about to be closed.  *)
OneNumber ==
    \A f, g \in Fds \ Closing : file[f] = file[g] /\ file[f] \in Sockets => f = g

(* A pooled number is not the process's and carries the slot's connection. *)
PoolOwn ==
    \A s \in Slots : pool[s] # NoFd => file[pool[s]] = s /\ pool[s] \notin mine

(* A slot remembers its own connection or none.                            *)
IdentOwn == \A s \in Slots : ident[s] \in {0, s}

(* What a thread inside connect() has to itself.                           *)
Busy(t) == thread[t].pc # "idle"
Holding(p) == p \in {"dup", "close", "fail"}
Moved(p) == p \in {"close", "record"}

ThreadOwn ==
    \A t \in Threads :
        Busy(t) =>
            /\ thread[t].fd \in mine
            /\ thread[t].slot \in Slots
            /\ pool[thread[t].slot] = NoFd
            /\ active[thread[t].slot] = Handing
            /\ Holding(thread[t].pc) =>
                  /\ thread[t].prepared \in Fds \ mine
                  /\ file[thread[t].prepared] = thread[t].slot
            /\ Moved(thread[t].pc) => file[thread[t].fd] = thread[t].slot

ThreadsApart ==
    \A t, u \in Threads :
        Busy(t) /\ Busy(u) /\ t # u =>
            thread[t].slot # thread[u].slot /\ thread[t].fd # thread[u].fd

IdleOwn == \A t \in Threads : ~Busy(t) => thread[t] = Idle

Inv == /\ Types /\ OneNumber /\ PoolOwn /\ IdentOwn
       /\ ThreadOwn /\ ThreadsApart /\ IdleOwn /\ NothingStrayClosed
-----------------------------------------------------------------------------
(* The first slot of a nonempty set exists and is one of it.               *)
LEMMA FirstSlotIn ==
    ASSUME NEW S \in SUBSET Slots, S # {}
    PROVE  FirstSlot(S) \in S /\ \A r \in S : FirstSlot(S) <= r
<1>1. S \subseteq Nat
  BY PoolAssumption DEF Slots
<1>2. PICK s \in S : \A r \in S : ~(<<r, s>> \in OpToRel(<, Nat))
  BY <1>1, WFMin, NatLessThanWellFounded, Zenon
<1>3. \A r \in S : ~(r < s)
  BY <1>1, <1>2, Zenon DEF OpToRel
<1>4. \A r \in S : s <= r
  BY <1>1, <1>3
<1> QED
  BY <1>4, Zenon DEF FirstSlot

(* The scan of connect() and take closes only dead pooled numbers: none of *)
(* the process's, none that a thread has prepared, none still pooled.      *)
LEMMA Scan ==
    ASSUME Inv, pool' = PoolAfterScan, file' = Close(file, DeadFds),
           stray' = (stray \/ Strays(DeadFds))
    PROVE  /\ pool' \in [Slots -> Fds \cup {NoFd}]
           /\ file' \in [Fds -> Sockets \cup {Closed, Plain, Other}]
           /\ NothingStrayClosed'
           /\ \A f \in Fds : file'[f] \in {file[f], Closed}
           /\ \A f \in mine : file'[f] = file[f]
           /\ \A s \in Slots :
                 pool'[s] # NoFd => pool'[s] = pool[s] /\ file'[pool[s]] = file[pool[s]]
           /\ \A t \in Threads :
                 Holding(thread[t].pc) =>
                    file'[thread[t].prepared] = file[thread[t].prepared]
           /\ Found # {} =>
                 /\ FirstSlot(Found) \in Found
                 /\ pool'[FirstSlot(Found)] = NoFd
                 /\ file'[pool[FirstSlot(Found)]] = file[pool[FirstSlot(Found)]]
<1>types. Types
  BY Zenon DEF Inv
<1>own. PoolOwn
  BY Zenon DEF Inv
<1>thr. ThreadOwn
  BY Zenon DEF Inv
<1>1. Found \in SUBSET Slots /\ Found \subseteq Pooled /\ Pooled \subseteq Slots
  BY Zenon DEF Found, Pooled
<1>2. Found # {} => FirstSlot(Found) \in Found
  BY <1>1, FirstSlotIn, Zenon
<1>3. Dead \subseteq Pooled /\ \A s \in Dead : s \notin Found
  BY Zenon DEF Dead, Found
<1>4. \A s \in Slots : pool'[s] = IF s \in Dead \/ (Found # {} /\ s = FirstSlot(Found))
                                  THEN NoFd ELSE pool[s]
  BY Zenon DEF PoolAfterScan
<1>5. \A f \in Fds : file'[f] = IF f \in DeadFds THEN Closed ELSE file[f]
  BY Zenon DEF Close
<1>6. \A s \in Pooled : pool[s] \in Fds
  BY <1>types, Zenon DEF Types, Pooled
<1>7. \A s \in Pooled : pool[s] \in DeadFds => s \in Dead
  <2> SUFFICES ASSUME NEW s \in Pooled, pool[s] \in DeadFds PROVE s \in Dead
    BY Zenon
  <2>1. PICK r \in Dead : pool[s] = pool[r]
    BY Zenon DEF DeadFds
  <2>2. file[pool[s]] = s /\ file[pool[r]] = r
    BY <2>1, <1>3, <1>own, Zenon DEF PoolOwn, Pooled
  <2> QED
    BY <2>1, <2>2, Zenon
<1>8. DeadFds \cap mine = {}
  BY <1>3, <1>own DEF DeadFds, PoolOwn, Pooled
<1>9. \A t \in Threads : Holding(thread[t].pc) => thread[t].prepared \in Fds \ DeadFds
  <2> SUFFICES ASSUME NEW t \in Threads, Holding(thread[t].pc)
               PROVE  thread[t].prepared \in Fds \ DeadFds
    BY Zenon
  <2>1. /\ thread[t].prepared \in Fds /\ pool[thread[t].slot] = NoFd
        /\ file[thread[t].prepared] = thread[t].slot
    BY <1>thr, Zenon DEF ThreadOwn, Busy, Holding
  <2>2. \A r \in Dead : pool[r] # NoFd /\ file[pool[r]] = r
    BY <1>3, <1>own, Zenon DEF PoolOwn, Pooled
  <2> QED
    BY <2>1, <2>2, Zenon DEF DeadFds
<1>10. pool' \in [Slots -> Fds \cup {NoFd}]
  BY <1>types, Zenon DEF Types, PoolAfterScan
<1>11. file' \in [Fds -> Sockets \cup {Closed, Plain, Other}]
  BY <1>types, Zenon DEF Types, Close
<1>12. NothingStrayClosed'
  BY <1>8, Zenon DEF Inv, NothingStrayClosed, Strays
<1>13. \A f \in mine : file'[f] = file[f]
  BY <1>5, <1>8, <1>types, Zenon DEF Types
<1>14. \A s \in Slots :
          pool'[s] # NoFd => pool'[s] = pool[s] /\ file'[pool[s]] = file[pool[s]]
  BY <1>4, <1>5, <1>6, <1>7, Zenon DEF Pooled
<1>15. Found # {} =>
          /\ pool'[FirstSlot(Found)] = NoFd
          /\ file'[pool[FirstSlot(Found)]] = file[pool[FirstSlot(Found)]]
  BY <1>1, <1>2, <1>3, <1>4, <1>5, <1>6, <1>7, Zenon
<1> QED
  BY <1>2, <1>5, <1>9, <1>10, <1>11, <1>12, <1>13, <1>14, <1>15, Zenon

LEMMA Numbers ==
    /\ NoFd \notin Fds /\ Handing \notin Fds /\ Handing # NoFd
    /\ Closed \notin Sockets /\ Plain \notin Sockets /\ Other \notin Sockets
    /\ Slots \subseteq 0..SlotCount /\ Sockets \subseteq 0..SlotCount /\ 0 \in 0..SlotCount
    /\ Slots = Sockets /\ 0 \notin Slots
BY PoolAssumption DEF NoFd, Handing, Closed, Plain, Other, Fds, Sockets, Slots

(* A thread between dup3 and close that does not move keeps its number out *)
(* of the count, and closing or opening other files shares no connection.  *)
LEMMA ClosingStays ==
    ASSUME \A u \in Threads : thread[u].pc = "close" => thread'[u] = thread[u]
    PROVE  Closing \subseteq Closing'
BY Zenon DEF Closing

LEMMA NumbersKept ==
    ASSUME OneNumber, Closing \subseteq Closing',
           \A f \in Fds : file'[f] = file[f] \/ file'[f] \notin Sockets
    PROVE  OneNumber'
BY Zenon DEF OneNumber
-----------------------------------------------------------------------------
(* connect(): the scan, then the slot and the prepared number are the      *)
(* thread's.                                                               *)
LEMMA ConnectStep ==
    ASSUME Inv, NEW t \in Threads, NEW f \in Fds, connect(t, f)
    PROVE  Inv'
<1>types. Types
  BY Zenon DEF Inv
<1>thr. ThreadOwn
  BY Zenon DEF Inv
<1>1. /\ pool' = PoolAfterScan /\ file' = Close(file, DeadFds)
      /\ stray' = (stray \/ Strays(DeadFds))
      /\ UNCHANGED <<mine, ident, up>>
      /\ thread[t].pc = "idle" /\ f \in mine /\ \A u \in Threads : thread[u].fd # f
  BY Zenon DEF connect, Exhausted
<1>2. ASSUME \A u \in Threads : thread[u].pc = "close" => thread'[u] = thread[u]
      PROVE  OneNumber'
  BY <1>1, <1>2, Scan, Numbers, ClosingStays, NumbersKept, Zenon DEF Inv
<1>3. PoolOwn'
  BY <1>1, Scan, Zenon DEF Inv, PoolOwn
<1>4. IdentOwn'
  BY <1>1, Zenon DEF Inv, IdentOwn
<1>5. CASE UNCHANGED <<active, thread>>
  <2>1. ThreadOwn'
    <3> SUFFICES ASSUME NEW u \in Threads, Busy(u)
                 PROVE  /\ thread[u].fd \in mine
                        /\ thread[u].slot \in Slots
                        /\ pool'[thread[u].slot] = NoFd
                        /\ active[thread[u].slot] = Handing
                        /\ Holding(thread[u].pc) =>
                              /\ thread[u].prepared \in Fds \ mine
                              /\ file'[thread[u].prepared] = thread[u].slot
                        /\ Moved(thread[u].pc) => file'[thread[u].fd] = thread[u].slot
      BY <1>1, <1>5, Zenon DEF ThreadOwn, Busy
    <3> QED
      BY <1>1, <1>thr, Scan, Zenon DEF ThreadOwn
  <2>2. Types'
    BY <1>1, <1>5, <1>types, Scan, Zenon DEF Types
  <2> QED
    BY <1>1, <1>2, <1>3, <1>4, <1>5, <2>1, <2>2, Scan, Zenon
       DEF Inv, ThreadsApart, IdleOwn, Busy
<1>6. CASE ~UNCHANGED <<active, thread>>
  <2> DEFINE s == FirstSlot(Found)
             c == [pc |-> "dup", fd |-> f, prepared |-> pool[s], slot |-> s]
  <2>1. /\ Found # {}
        /\ active' = [active EXCEPT ![s] = Handing]
        /\ thread' = [thread EXCEPT ![t] = c]
    BY <1>6, Zenon DEF connect
  <2>2. /\ s \in Slots /\ pool[s] \in Fds /\ pool[s] # NoFd
        /\ pool'[s] = NoFd /\ file'[pool[s]] = file[pool[s]]
    BY <1>1, <1>types, <2>1, Scan, Zenon DEF Types, Found, Pooled
  <2>3. file[pool[s]] = s /\ pool[s] \notin mine
    BY <2>2, Zenon DEF Inv, PoolOwn
  <2>4. c \in States
    BY <2>2, Numbers, Zenon DEF States
  <2>5. \A u \in Threads : thread'[u] = IF u = t THEN c ELSE thread[u]
    BY <2>1, <1>types, Zenon DEF Types
  <2>6. \A r \in Slots : active'[r] = IF r = s THEN Handing ELSE active[r]
    BY <2>1, <1>types, Zenon DEF Types
  <2>7. Types'
    BY <1>1, <1>types, <2>1, <2>4, Scan, Zenon DEF Types
  <2>8. \A u \in Threads : Busy(u) => thread[u].slot # s
    BY <2>2, <1>thr, Zenon DEF ThreadOwn
  <2>9. ThreadOwn'
    <3> SUFFICES ASSUME NEW u \in Threads, Busy(u)'
                 PROVE  /\ thread'[u].fd \in mine
                        /\ thread'[u].slot \in Slots
                        /\ pool'[thread'[u].slot] = NoFd
                        /\ active'[thread'[u].slot] = Handing
                        /\ Holding(thread'[u].pc) =>
                              /\ thread'[u].prepared \in Fds \ mine
                              /\ file'[thread'[u].prepared] = thread'[u].slot
                        /\ Moved(thread'[u].pc) => file'[thread'[u].fd] = thread'[u].slot
      BY <1>1, Zenon DEF ThreadOwn
    <3>1. CASE u = t
      BY <1>1, <3>1, <2>2, <2>3, <2>5, <2>6 DEF Moved
    <3>2. CASE u # t
      <4>1. Busy(u) /\ thread'[u] = thread[u]
        BY <3>2, <2>5, Zenon DEF Busy
      <4> QED
        BY <4>1, <1>1, <1>thr, <2>6, Scan DEF ThreadOwn
    <3> QED
      BY <3>1, <3>2, Zenon
  <2>10. ThreadsApart'
    BY <1>1, <2>5, <2>8 DEF Inv, ThreadsApart, Busy
  <2>12. \A u \in Threads : thread[u].pc = "close" => thread'[u] = thread[u]
    BY <1>1, <2>5
  <2>11. IdleOwn'
    BY <2>5 DEF Inv, IdleOwn, Busy
  <2> QED
    BY <1>1, <1>2, <1>3, <1>4, <2>7, <2>9, <2>10, <2>11, <2>12, Scan, Zenon DEF Inv
<1> QED
  BY <1>5, <1>6, Zenon

(* dup3 over the process's number: the connection goes by two until the    *)
(* prepared one is closed.                                                 *)
LEMMA DupStep ==
    ASSUME Inv, NEW t \in Threads, connect_dup(t)
    PROVE  Inv'
<1> DEFINE c == thread[t]
<1>types. Types
  BY Zenon DEF Inv
<1>thr. ThreadOwn
  BY Zenon DEF Inv
<1>1. /\ c.pc = "dup" /\ UNCHANGED <<mine, pool, active, ident, up, stray>>
      /\ \/ /\ file' = [file EXCEPT ![c.fd] = file[c.prepared]]
            /\ thread' = [thread EXCEPT ![t].pc = "close"]
         \/ /\ file' = file
            /\ thread' = [thread EXCEPT ![t].pc = "fail"]
  BY Zenon DEF connect_dup
<1>2. /\ c.fd \in mine /\ c.fd \in Fds /\ c.slot \in Slots
      /\ pool[c.slot] = NoFd /\ active[c.slot] = Handing
      /\ c.prepared \in Fds \ mine /\ file[c.prepared] = c.slot /\ c.prepared # c.fd
  BY <1>1, <1>thr, <1>types, Zenon DEF ThreadOwn, Busy, Holding, Types
<1>3. \/ \A g \in Fds : file'[g] = IF g = c.fd THEN c.slot ELSE file[g]
      \/ \A g \in Fds : file'[g] = file[g]
  BY <1>1, <1>2, <1>types, Zenon DEF Types
<1>4. \A u \in Threads \ {t} : thread'[u] = thread[u]
  BY <1>1, <1>types, Zenon DEF Types
<1>5. /\ thread'[t].fd = c.fd /\ thread'[t].slot = c.slot /\ thread'[t].prepared = c.prepared
      /\ thread'[t].pc \in {"close", "fail"}
      /\ thread'[t].pc = "close" => \A g \in Fds : file'[g] = IF g = c.fd THEN c.slot ELSE file[g]
      /\ thread'[t].pc = "fail" => file' = file
      /\ thread'[t] \in States
  BY <1>1, <1>2, <1>types DEF Types, States
<1>6. Types'
  <2>1. file' \in [Fds -> Sockets \cup {Closed, Plain, Other}]
    BY <1>1, <1>2, <1>types, Numbers, Zenon DEF Types
  <2>2. thread' \in [Threads -> States]
    BY <1>1, <1>5, <1>types, Zenon DEF Types
  <2> QED
    BY <1>1, <2>1, <2>2, <1>types, Zenon DEF Types
<1>7. OneNumber'
  <2>1. Closing \subseteq Closing'
    BY <1>1, <1>4, ClosingStays, Zenon
  <2>2. CASE thread'[t].pc = "fail"
    BY <1>5, <2>1, <2>2, NumbersKept, Zenon DEF Inv
  <2>3. CASE thread'[t].pc = "close"
    <3>1. c.prepared \in Closing'
      BY <1>5, <2>3, Zenon DEF Closing
    <3>2. c.prepared \notin Closing
      <4> SUFFICES ASSUME NEW u \in Threads, thread[u].pc = "close", thread[u].prepared = c.prepared
                   PROVE  FALSE
        BY Zenon DEF Closing
      <4>1. file[thread[u].prepared] = thread[u].slot /\ Busy(u) /\ u # t
        BY <1>1, <1>thr, Zenon DEF ThreadOwn, Busy, Holding
      <4> QED
        BY <4>1, <1>1, <1>2, Zenon DEF Inv, ThreadsApart, Busy
    <3>3. ASSUME NEW g \in Fds \ Closing', file'[g] = c.slot PROVE g = c.fd
      <4>1. g # c.fd => file[g] = file[c.prepared]
        BY <1>2, <1>5, <2>3, <3>3, Zenon
      <4>2. g \notin Closing /\ g # c.prepared
        BY <2>1, <3>1, Zenon
      <4> QED
        BY <1>2, <3>2, <4>1, <4>2, Numbers, Zenon DEF Inv, OneNumber
    <3>4. \A g \in Fds \ Closing' : g # c.fd => file'[g] = file[g] /\ g \in Fds \ Closing
      BY <1>5, <2>1, <2>3, Zenon
    <3> QED
      BY <1>2, <1>5, <2>3, <3>3, <3>4, Zenon DEF Inv, OneNumber
  <2> QED
    BY <1>5, <2>2, <2>3, Zenon
<1>8. PoolOwn'
  <2> SUFFICES ASSUME NEW s \in Slots, pool[s] # NoFd
               PROVE  file'[pool[s]] = s /\ pool[s] \notin mine
    BY <1>1, Zenon DEF PoolOwn
  <2>1. file[pool[s]] = s /\ pool[s] \notin mine /\ pool[s] \in Fds
    BY <1>types, Zenon DEF Inv, PoolOwn, Types
  <2>2. pool[s] # c.fd
    BY <1>2, <2>1, Zenon
  <2> QED
    BY <1>3, <2>1, <2>2, Zenon
<1>9. ThreadOwn'
  <2> SUFFICES ASSUME NEW u \in Threads, Busy(u)'
               PROVE  /\ thread'[u].fd \in mine
                      /\ thread'[u].slot \in Slots
                      /\ pool[thread'[u].slot] = NoFd
                      /\ active[thread'[u].slot] = Handing
                      /\ Holding(thread'[u].pc) =>
                            /\ thread'[u].prepared \in Fds \ mine
                            /\ file'[thread'[u].prepared] = thread'[u].slot
                      /\ Moved(thread'[u].pc) => file'[thread'[u].fd] = thread'[u].slot
    BY <1>1, Zenon DEF ThreadOwn
  <2>1. CASE u = t
    <3>1. file'[c.prepared] = c.slot
      BY <1>2, <1>3, Zenon
    <3>2. Moved(thread'[t].pc) => file'[c.fd] = c.slot
      BY <1>2, <1>5, Zenon DEF Moved
    <3> QED
      BY <2>1, <1>2, <1>5, <3>1, <3>2, Zenon
  <2>2. CASE u # t
    <3>1. Busy(u) /\ thread'[u] = thread[u]
      BY <2>2, <1>4, Zenon DEF Busy
    <3>2. thread[u].slot # c.slot /\ thread[u].fd # c.fd
      BY <2>2, <3>1, <1>1, Zenon DEF Inv, ThreadsApart, Busy
    <3>3. thread[u].fd \in mine /\ thread[u].fd \in Fds
      BY <3>1, <1>thr, <1>types, Zenon DEF ThreadOwn, Types
    <3>4. file'[thread[u].fd] = file[thread[u].fd]
      BY <3>2, <3>3, <1>2, <1>3, Zenon
    <3>5. Holding(thread[u].pc) => file'[thread[u].prepared] = file[thread[u].prepared]
      BY <3>1, <3>2, <1>2, <1>3, <1>thr, Zenon DEF ThreadOwn
    <3> QED
      BY <3>1, <3>4, <3>5, <1>thr, Zenon DEF ThreadOwn
  <2> QED
    BY <2>1, <2>2, Zenon
<1>10. ThreadsApart' /\ IdleOwn'
  BY <1>1, <1>4, <1>5 DEF Inv, ThreadsApart, IdleOwn, Busy
<1> QED
  BY <1>1, <1>6, <1>7, <1>8, <1>9, <1>10, Zenon DEF Inv, IdentOwn, NothingStrayClosed

(* The close of the prepared number, which the process does not have.      *)
LEMMA ShutStep ==
    ASSUME Inv, NEW t \in Threads, connect_close(t)
    PROVE  Inv'
<1> DEFINE c == thread[t]
<1>types. Types
  BY Zenon DEF Inv
<1>thr. ThreadOwn
  BY Zenon DEF Inv
<1>1. /\ c.pc \in {"close", "fail"} /\ UNCHANGED <<mine, pool, active, ident, up>>
      /\ file' = [file EXCEPT ![c.prepared] = Closed]
      /\ stray' = (stray \/ c.prepared \in mine)
      /\ thread' = [thread EXCEPT ![t].pc = IF c.pc = "close" THEN "record" ELSE "undo"]
  BY Zenon DEF connect_close
<1>2. /\ c.fd \in mine /\ c.fd \in Fds /\ c.slot \in Slots
      /\ pool[c.slot] = NoFd /\ active[c.slot] = Handing
      /\ c.prepared \in Fds \ mine /\ file[c.prepared] = c.slot /\ c.prepared # c.fd
      /\ c.pc = "close" => file[c.fd] = c.slot
  BY <1>1, <1>thr, <1>types, Zenon DEF ThreadOwn, Busy, Holding, Moved, Types
<1>3. \A g \in Fds : file'[g] = IF g = c.prepared THEN Closed ELSE file[g]
  BY <1>1, <1>2, <1>types, Zenon DEF Types
<1>4. \A u \in Threads \ {t} : thread'[u] = thread[u]
  BY <1>1, <1>types, Zenon DEF Types
<1>5. /\ thread'[t].fd = c.fd /\ thread'[t].slot = c.slot
      /\ thread'[t].pc \in {"record", "undo"}
      /\ thread'[t].pc = "record" => c.pc = "close"
      /\ thread'[t] \in States
  BY <1>1, <1>2, <1>types DEF Types, States
<1>6. Types'
  <2>1. file' \in [Fds -> Sockets \cup {Closed, Plain, Other}]
    BY <1>1, <1>types, Zenon DEF Types
  <2>2. thread' \in [Threads -> States]
    BY <1>1, <1>5, <1>types, Zenon DEF Types
  <2> QED
    BY <1>1, <2>1, <2>2, <1>types, Zenon DEF Types
<1>7. OneNumber'
  <2>1. \A g \in Fds \ Closing' : g # c.prepared => g \notin Closing
    BY <1>4, Zenon DEF Closing
  <2> QED
    BY <1>3, <2>1, Numbers, Zenon DEF Inv, OneNumber
<1>8. PoolOwn'
  <2> SUFFICES ASSUME NEW s \in Slots, pool[s] # NoFd
               PROVE  file'[pool[s]] = s /\ pool[s] \notin mine
    BY <1>1, Zenon DEF PoolOwn
  <2>1. file[pool[s]] = s /\ pool[s] \notin mine /\ pool[s] \in Fds
    BY <1>types, Zenon DEF Inv, PoolOwn, Types
  <2>2. pool[s] # c.prepared
    BY <1>2, <2>1, Zenon
  <2> QED
    BY <1>3, <2>1, <2>2, Zenon
<1>9. ThreadOwn'
  <2> SUFFICES ASSUME NEW u \in Threads, Busy(u)'
               PROVE  /\ thread'[u].fd \in mine
                      /\ thread'[u].slot \in Slots
                      /\ pool[thread'[u].slot] = NoFd
                      /\ active[thread'[u].slot] = Handing
                      /\ Holding(thread'[u].pc) =>
                            /\ thread'[u].prepared \in Fds \ mine
                            /\ file'[thread'[u].prepared] = thread'[u].slot
                      /\ Moved(thread'[u].pc) => file'[thread'[u].fd] = thread'[u].slot
    BY <1>1, Zenon DEF ThreadOwn
  <2>1. CASE u = t
    <3>1. ~Holding(thread'[t].pc)
      BY <1>5, Zenon DEF Holding
    <3>2. Moved(thread'[t].pc) => file'[c.fd] = c.slot
      BY <1>2, <1>3, <1>5, Zenon DEF Moved
    <3> QED
      BY <2>1, <1>2, <1>5, <3>1, <3>2, Zenon
  <2>2. CASE u # t
    <3>1. Busy(u) /\ thread'[u] = thread[u]
      BY <2>2, <1>4, Zenon DEF Busy
    <3>2. thread[u].slot # c.slot /\ thread[u].fd # c.fd
      BY <2>2, <3>1, <1>1, Zenon DEF Inv, ThreadsApart, Busy
    <3>3. thread[u].fd \in mine /\ thread[u].fd \in Fds
      BY <3>1, <1>thr, <1>types, Zenon DEF ThreadOwn, Types
    <3>4. file'[thread[u].fd] = file[thread[u].fd]
      BY <3>3, <1>2, <1>3, Zenon
    <3>5. Holding(thread[u].pc) => file'[thread[u].prepared] = file[thread[u].prepared]
      BY <3>1, <3>2, <1>2, <1>3, <1>thr, Zenon DEF ThreadOwn
    <3> QED
      BY <3>1, <3>4, <3>5, <1>thr, Zenon DEF ThreadOwn
  <2> QED
    BY <2>1, <2>2, Zenon
<1>10. ThreadsApart' /\ IdleOwn'
  BY <1>1, <1>4, <1>5 DEF Inv, ThreadsApart, IdleOwn, Busy
<1>11. NothingStrayClosed'
  BY <1>1, <1>2, Zenon DEF Inv, NothingStrayClosed
<1> QED
  BY <1>1, <1>6, <1>7, <1>8, <1>9, <1>10, <1>11, Zenon DEF Inv, IdentOwn

(* The record of who has the socket, or that nobody has.                   *)
LEMMA RecordStep ==
    ASSUME Inv, NEW t \in Threads, connect_record(t)
    PROVE  Inv'
<1> DEFINE c == thread[t]
           f == IF c.pc = "record" THEN c.fd ELSE NoFd
<1>types. Types
  BY Zenon DEF Inv
<1>thr. ThreadOwn
  BY Zenon DEF Inv
<1>1. /\ c.pc \in {"record", "undo"} /\ Busy(t)
      /\ active' = [active EXCEPT ![c.slot] = f]
      /\ ident' = [ident EXCEPT ![c.slot] = IF f = NoFd THEN 0 ELSE file[f]]
      /\ thread' = [thread EXCEPT ![t] = Idle]
      /\ UNCHANGED <<file, mine, pool, up, stray>>
  BY Zenon DEF connect_record, Recorded, Busy
<1>2. /\ c.slot \in Slots /\ c.fd \in Fds
      /\ c.pc = "record" => file[c.fd] = c.slot
  BY <1>1, <1>thr, <1>types, Zenon DEF ThreadOwn, Types, Moved
<1>3. \A u \in Threads : thread'[u] = IF u = t THEN Idle ELSE thread[u]
  BY <1>1, <1>types, Zenon DEF Types
<1>4. \A r \in Slots : /\ ident'[r] \in {0, r}
                       /\ r # c.slot => active'[r] = active[r]
  BY <1>1, <1>2, <1>types, Zenon DEF Types, Inv, IdentOwn
<1>5. Types'
  <2>1. active' \in [Slots -> Fds \cup {NoFd, Handing}]
    BY <1>1, <1>2, <1>types, Zenon DEF Types
  <2>2. ident' \in [Slots -> 0..SlotCount]
    BY <1>1, <1>2, <1>types, Numbers, Zenon DEF Types
  <2>3. Idle \in States
    BY Numbers, Zenon DEF Idle, States
  <2>4. thread' \in [Threads -> States]
    BY <1>1, <2>3, <1>types, Zenon DEF Types
  <2> QED
    BY <1>1, <2>1, <2>2, <2>4, <1>types, Zenon DEF Types
<1>6. ThreadOwn'
  <2> SUFFICES ASSUME NEW u \in Threads, Busy(u)'
               PROVE  /\ thread'[u].fd \in mine'
                      /\ thread'[u].slot \in Slots
                      /\ pool'[thread'[u].slot] = NoFd
                      /\ active'[thread'[u].slot] = Handing
                      /\ Holding(thread'[u].pc) =>
                            /\ thread'[u].prepared \in Fds \ mine'
                            /\ file'[thread'[u].prepared] = thread'[u].slot
                      /\ Moved(thread'[u].pc) => file'[thread'[u].fd] = thread'[u].slot
    BY Zenon DEF ThreadOwn
  <2>1. u # t /\ Busy(u) /\ thread'[u] = thread[u]
    BY <1>3 DEF Busy, Idle
  <2>2. thread[u].slot # c.slot
    BY <2>1, <1>1, Zenon DEF Inv, ThreadsApart
  <2> QED
    BY <1>1, <1>4, <2>1, <2>2, <1>thr DEF ThreadOwn
<1>7. ThreadsApart' /\ IdleOwn'
  BY <1>1, <1>3 DEF Inv, ThreadsApart, IdleOwn, Busy, Idle
<1>8. IdentOwn'
  BY <1>4, Zenon DEF IdentOwn
<1>9. OneNumber'
  <2>1. \A u \in Threads : thread[u].pc = "close" => thread'[u] = thread[u]
    BY <1>1, <1>3
  <2> QED
    BY <1>1, <2>1, ClosingStays, NumbersKept, Zenon DEF Inv
<1> QED
  BY <1>1, <1>5, <1>6, <1>7, <1>8, <1>9, Zenon DEF Inv, PoolOwn, NothingStrayClosed

(* take: scan and record in one.                                           *)
LEMMA TakeStep ==
    ASSUME Inv, take_broker_socket
    PROVE  Inv'
<1>types. Types
  BY Zenon DEF Inv
<1>thr. ThreadOwn
  BY Zenon DEF Inv
<1>1. /\ pool' = PoolAfterScan /\ file' = Close(file, DeadFds)
      /\ stray' = (stray \/ Strays(DeadFds))
      /\ UNCHANGED <<up, thread>>
  BY Zenon DEF take_broker_socket, Exhausted
<1>2. OneNumber'
  BY <1>1, Scan, Numbers, ClosingStays, NumbersKept, Zenon DEF Inv
<1>3. ThreadsApart' /\ IdleOwn'
  BY <1>1, Zenon DEF Inv, ThreadsApart, IdleOwn, Busy
<1>4. CASE UNCHANGED <<mine, active, ident>>
  <2>1. Types'
    BY <1>1, <1>4, <1>types, Scan, Zenon DEF Types
  <2>2. PoolOwn'
    BY <1>1, <1>4, Scan, Zenon DEF Inv, PoolOwn
  <2>3. \A u \in Threads : Busy(u)' => Busy(u)
    BY <1>1, Zenon DEF Busy
  <2>4. ThreadOwn'
    BY <1>1, <1>4, <2>3, <1>thr, Scan DEF ThreadOwn
  <2> QED
    BY <1>1, <1>2, <1>3, <1>4, <2>1, <2>2, <2>4, Scan, Zenon DEF Inv, IdentOwn
<1>5. CASE ~UNCHANGED <<mine, active, ident>>
  <2> DEFINE s == FirstSlot(Found)
             f == pool[s]
  <2>1. Found # {} /\ Recorded(s, f) /\ mine' = mine \cup {f}
    BY <1>5, Zenon DEF take_broker_socket
  <2>2. /\ s \in Slots /\ f \in Fds /\ f # NoFd
        /\ pool'[s] = NoFd /\ file'[f] = file[f]
    BY <1>1, <1>types, <2>1, Scan, Zenon DEF Types, Found, Pooled
  <2>3. file[f] = s /\ f \notin mine
    BY <2>2, Zenon DEF Inv, PoolOwn
  <2>4. /\ active' = [active EXCEPT ![s] = f]
        /\ ident' = [ident EXCEPT ![s] = s]
    BY <2>1, <2>2, <2>3, Zenon DEF Recorded
  <2>5. Types'
    BY <1>1, <1>types, <2>1, <2>2, <2>4, Scan, Numbers, Zenon DEF Types
  <2>6. IdentOwn'
    BY <1>types, <2>4, Zenon DEF Types, Inv, IdentOwn
  <2>7. PoolOwn'
    <3> SUFFICES ASSUME NEW r \in Slots, pool'[r] # NoFd
                 PROVE  file'[pool'[r]] = r /\ pool'[r] \notin mine'
      BY Zenon DEF PoolOwn
    <3>1. pool'[r] = pool[r] /\ file'[pool[r]] = file[pool[r]]
      BY <1>1, Scan, Zenon
    <3>2. file[pool[r]] = r /\ pool[r] \notin mine
      BY <3>1, Zenon DEF Inv, PoolOwn
    <3>3. pool[r] # f
      BY <2>2, <2>3, <3>2, Zenon
    <3> QED
      BY <2>1, <3>1, <3>2, <3>3, Zenon
  <2>8. ThreadOwn'
    <3> SUFFICES ASSUME NEW u \in Threads, Busy(u)'
                 PROVE  /\ thread'[u].fd \in mine'
                        /\ thread'[u].slot \in Slots
                        /\ pool'[thread'[u].slot] = NoFd
                        /\ active'[thread'[u].slot] = Handing
                        /\ Holding(thread'[u].pc) =>
                              /\ thread'[u].prepared \in Fds \ mine'
                              /\ file'[thread'[u].prepared] = thread'[u].slot
                        /\ Moved(thread'[u].pc) => file'[thread'[u].fd] = thread'[u].slot
      BY Zenon DEF ThreadOwn
    <3>1. Busy(u) /\ thread'[u] = thread[u]
      BY <1>1, Zenon DEF Busy
    <3>2. thread[u].slot # s
      BY <2>2, <3>1, <1>thr, Zenon DEF ThreadOwn
    <3>3. active'[thread[u].slot] = active[thread[u].slot]
      BY <2>4, <3>1, <3>2, <1>types, <1>thr, Zenon DEF ThreadOwn, Types
    <3>4. Holding(thread[u].pc) => thread[u].prepared # f
      BY <2>3, <3>1, <3>2, <1>thr, Zenon DEF ThreadOwn
    <3> QED
      BY <1>1, <2>1, <3>1, <3>3, <3>4, <1>thr, Scan, Zenon DEF ThreadOwn
  <2> QED
    BY <1>1, <1>2, <1>3, <2>5, <2>6, <2>7, <2>8, Scan, Zenon DEF Inv
<1> QED
  BY <1>4, <1>5, Zenon

(* recycle: a slot whose connection the number still carries takes it      *)
(* back; any other only forgets the number.                                *)
LEMMA RecycleStep ==
    ASSUME Inv, NEW f \in Fds, recycle_broker_socket(f)
    PROVE  Inv'
<1> DEFINE s == FirstSlot(Claims(f))
<1>types. Types
  BY Zenon DEF Inv
<1>thr. ThreadOwn
  BY Zenon DEF Inv
<1>1. /\ f \in mine /\ (\A t \in Threads : thread[t].fd # f)
      /\ active' = [active EXCEPT ![s] = NoFd]
      /\ ident' = [ident EXCEPT ![s] = 0]
      /\ \/ /\ socket_identity_matches(f, s)
            /\ pool' = [pool EXCEPT ![s] = f]
            /\ mine' = mine \ {f}
         \/ UNCHANGED <<pool, mine>>
      /\ UNCHANGED <<file, up, thread, stray>>
  BY Zenon DEF recycle_broker_socket
<1>2. s \in Slots /\ active[s] = f /\ pool[s] = NoFd
  <2>1. Claims(f) \in SUBSET Slots /\ Claims(f) # {}
    BY Zenon DEF Claims, recycle_broker_socket
  <2>2. s \in Claims(f)
    BY <2>1, FirstSlotIn, Zenon
  <2> QED
    BY <2>2, Zenon DEF Claims
<1>3. Types'
  BY <1>1, <1>2, <1>types, Numbers, Zenon DEF Types
<1>4. IdentOwn'
  BY <1>1, <1>types, Zenon DEF Types, Inv, IdentOwn
<1>5. PoolOwn'
  <2>1. CASE UNCHANGED <<pool, mine>>
    BY <1>1, <2>1, Zenon DEF Inv, PoolOwn
  <2>2. CASE /\ socket_identity_matches(f, s)
             /\ pool' = [pool EXCEPT ![s] = f]
             /\ mine' = mine \ {f}
    <3>1. file[f] = s
      BY <1>2, <2>2, Zenon DEF socket_identity_matches, Inv, IdentOwn
    <3>2. \A r \in Slots : pool'[r] = IF r = s THEN f ELSE pool[r]
      BY <2>2, <1>types, Zenon DEF Types
    <3> QED
      BY <1>1, <2>2, <3>1, <3>2, Zenon DEF Inv, PoolOwn
  <2> QED
    BY <1>1, <2>1, <2>2, Zenon
<1>6. ThreadOwn'
  <2> SUFFICES ASSUME NEW u \in Threads, Busy(u)'
               PROVE  /\ thread'[u].fd \in mine'
                      /\ thread'[u].slot \in Slots
                      /\ pool'[thread'[u].slot] = NoFd
                      /\ active'[thread'[u].slot] = Handing
                      /\ Holding(thread'[u].pc) =>
                            /\ thread'[u].prepared \in Fds \ mine'
                            /\ file'[thread'[u].prepared] = thread'[u].slot
                      /\ Moved(thread'[u].pc) => file'[thread'[u].fd] = thread'[u].slot
    BY Zenon DEF ThreadOwn
  <2>1. Busy(u) /\ thread'[u] = thread[u]
    BY <1>1, Zenon DEF Busy
  <2>2. thread[u].slot # s
    BY <1>2, <2>1, <1>thr, Numbers, Zenon DEF ThreadOwn
  <2>3. /\ active'[thread[u].slot] = active[thread[u].slot]
        /\ pool'[thread[u].slot] = pool[thread[u].slot]
    BY <1>1, <2>1, <2>2, <1>types, <1>thr, Zenon DEF ThreadOwn, Types
  <2> QED
    BY <1>1, <2>1, <2>3, <1>thr, Zenon DEF ThreadOwn
<1>7. ThreadsApart' /\ IdleOwn'
  BY <1>1, Zenon DEF Inv, ThreadsApart, IdleOwn, Busy
<1> QED
  BY <1>1, <1>3, <1>4, <1>5, <1>6, <1>7, ClosingStays, NumbersKept, Zenon
     DEF Inv, NothingStrayClosed

(* The destructor closes what is pooled and what the process still has     *)
(* under a number the adapter can recognise.                               *)
LEMMA UnloadStep ==
    ASSUME Inv, close_unused_sockets
    PROVE  Inv'
<1> DEFINE kept == {s \in Slots : active[s] > 0 /\ socket_identity_matches(active[s], s)}
           closing == {pool[s] : s \in Pooled} \cup {active[s] : s \in kept}
<1>types. Types
  BY Zenon DEF Inv
<1>1. /\ \A t \in Threads : thread[t] = Idle
      /\ file' = Close(file, closing)
      /\ stray' = (stray \/ \E f \in closing \cap mine : file[f] \notin Sockets)
      /\ mine' = mine \ closing
      /\ pool' = [s \in Slots |-> NoFd]
      /\ active' = [s \in Slots |-> NoFd]
      /\ ident' = [s \in Slots |-> 0]
      /\ UNCHANGED <<up, thread>>
  BY Zenon DEF close_unused_sockets
<1>2. \A f \in Fds : file'[f] \in {file[f], Closed}
  BY <1>1, Zenon DEF Close
<1>3. Types'
  BY <1>1, <1>types, Numbers, Zenon DEF Types, Close
<1>4. OneNumber'
  BY <1>1, <1>2, Numbers, ClosingStays, NumbersKept, Zenon DEF Inv
<1>5. PoolOwn' /\ IdentOwn'
  BY <1>1, Zenon DEF PoolOwn, IdentOwn
<1>6. ThreadOwn' /\ ThreadsApart' /\ IdleOwn'
  BY <1>1 DEF ThreadOwn, ThreadsApart, IdleOwn, Busy, Idle
<1>7. \A f \in closing \cap mine : file[f] \in Sockets
  <2> SUFFICES ASSUME NEW f \in mine, NEW s \in kept, f = active[s]
               PROVE  file[f] \in Sockets
    BY Zenon DEF Inv, PoolOwn, Pooled
  <2>1. ident[s] # 0 /\ file[f] = ident[s]
    BY Zenon DEF socket_identity_matches
  <2> QED
    BY <2>1, Numbers, Zenon DEF Inv, IdentOwn
<1>8. NothingStrayClosed'
  BY <1>1, <1>7, Zenon DEF Inv, NothingStrayClosed
<1> QED
  BY <1>3, <1>4, <1>5, <1>6, <1>8, Zenon DEF Inv

(* The process opens a closed number: no slot pools it and no thread has   *)
(* prepared or connected it.                                               *)
LEMMA OpenStep ==
    ASSUME Inv, NEW f \in Fds, NEW what \in {Plain, Other}, ProcessOpens(f, what)
    PROVE  Inv'
<1>types. Types
  BY Zenon DEF Inv
<1>thr. ThreadOwn
  BY Zenon DEF Inv
<1>1. /\ file[f] = Closed /\ file' = [file EXCEPT ![f] = what]
      /\ mine' = mine \cup {f}
      /\ UNCHANGED <<pool, active, ident, up, thread, stray>>
  BY Zenon DEF ProcessOpens
<1>2. \A g \in Fds : file'[g] = IF g = f THEN what ELSE file[g]
  BY <1>1, <1>types, Zenon DEF Types
<1>3. Types'
  BY <1>1, <1>types, Zenon DEF Types
<1>4. OneNumber'
  BY <1>1, <1>2, Numbers, ClosingStays, NumbersKept, Zenon DEF Inv
<1>5. PoolOwn'
  <2> SUFFICES ASSUME NEW s \in Slots, pool[s] # NoFd
               PROVE  file'[pool[s]] = s /\ pool[s] \notin mine'
    BY <1>1, Zenon DEF PoolOwn
  <2>1. file[pool[s]] = s /\ pool[s] \notin mine /\ pool[s] \in Fds
    BY <1>types, Zenon DEF Inv, PoolOwn, Types
  <2> QED
    BY <1>1, <1>2, <2>1, Numbers, Zenon
<1>6. ThreadOwn'
  <2> SUFFICES ASSUME NEW u \in Threads, Busy(u)'
               PROVE  /\ thread'[u].fd \in mine'
                      /\ thread'[u].slot \in Slots
                      /\ pool'[thread'[u].slot] = NoFd
                      /\ active'[thread'[u].slot] = Handing
                      /\ Holding(thread'[u].pc) =>
                            /\ thread'[u].prepared \in Fds \ mine'
                            /\ file'[thread'[u].prepared] = thread'[u].slot
                      /\ Moved(thread'[u].pc) => file'[thread'[u].fd] = thread'[u].slot
    BY Zenon DEF ThreadOwn
  <2>1. Busy(u) /\ thread'[u] = thread[u]
    BY <1>1, Zenon DEF Busy
  <2>2. thread[u].fd \in Fds
    BY <2>1, <1>types, <1>thr, Zenon DEF ThreadOwn, Types
  <2>3. /\ Holding(thread[u].pc) => thread[u].prepared # f
        /\ Moved(thread[u].pc) => thread[u].fd # f
    BY <1>1, <2>1, <1>thr, Numbers, Zenon DEF ThreadOwn
  <2> QED
    BY <1>1, <1>2, <2>1, <2>2, <2>3, <1>thr, Zenon DEF ThreadOwn
<1>7. ThreadsApart' /\ IdleOwn'
  BY <1>1, Zenon DEF Inv, ThreadsApart, IdleOwn, Busy
<1> QED
  BY <1>1, <1>3, <1>4, <1>5, <1>6, <1>7, Zenon DEF Inv, IdentOwn, NothingStrayClosed

(* The process closes a number of its own.                                 *)
LEMMA CloseStep ==
    ASSUME Inv, NEW f \in Fds, ProcessCloses(f)
    PROVE  Inv'
<1>types. Types
  BY Zenon DEF Inv
<1>thr. ThreadOwn
  BY Zenon DEF Inv
<1>1. /\ f \in mine /\ (\A t \in Threads : thread[t].fd # f)
      /\ file' = [file EXCEPT ![f] = Closed]
      /\ mine' = mine \ {f}
      /\ UNCHANGED <<pool, active, ident, up, thread, stray>>
  BY Zenon DEF ProcessCloses
<1>2. \A g \in Fds : file'[g] = IF g = f THEN Closed ELSE file[g]
  BY <1>1, <1>types, Zenon DEF Types
<1>3. Types'
  BY <1>1, <1>types, Zenon DEF Types
<1>4. OneNumber'
  BY <1>1, <1>2, Numbers, ClosingStays, NumbersKept, Zenon DEF Inv
<1>5. PoolOwn'
  BY <1>1, <1>2, <1>types, Zenon DEF Inv, PoolOwn, Types
<1>6. ThreadOwn'
  <2> SUFFICES ASSUME NEW u \in Threads, Busy(u)'
               PROVE  /\ thread'[u].fd \in mine'
                      /\ thread'[u].slot \in Slots
                      /\ pool'[thread'[u].slot] = NoFd
                      /\ active'[thread'[u].slot] = Handing
                      /\ Holding(thread'[u].pc) =>
                            /\ thread'[u].prepared \in Fds \ mine'
                            /\ file'[thread'[u].prepared] = thread'[u].slot
                      /\ Moved(thread'[u].pc) => file'[thread'[u].fd] = thread'[u].slot
    BY Zenon DEF ThreadOwn
  <2>1. Busy(u) /\ thread'[u] = thread[u]
    BY <1>1, Zenon DEF Busy
  <2>2. thread[u].fd \in Fds
    BY <2>1, <1>types, <1>thr, Zenon DEF ThreadOwn, Types
  <2> QED
    BY <1>1, <1>2, <2>1, <2>2, <1>thr, Zenon DEF ThreadOwn
<1>7. ThreadsApart' /\ IdleOwn'
  BY <1>1, Zenon DEF Inv, ThreadsApart, IdleOwn, Busy
<1> QED
  BY <1>1, <1>3, <1>4, <1>5, <1>6, <1>7, Zenon DEF Inv, IdentOwn, NothingStrayClosed
-----------------------------------------------------------------------------
LEMMA InvInit == Init => Inv
<1> SUFFICES ASSUME Init PROVE Inv
  BY Zenon
<1>1. PICK n \in Slots :
         /\ file = [f \in Fds |-> IF f <= n THEN f ELSE Closed]
         /\ pool = [s \in Slots |-> IF s <= n THEN s ELSE NoFd]
         /\ mine = {}
         /\ active = [s \in Slots |-> NoFd]
         /\ ident = [s \in Slots |-> 0]
         /\ up = Sockets
         /\ thread = [t \in Threads |-> Idle]
         /\ stray = FALSE
  BY Zenon DEF Init
<1>2. \A f \in Fds : f <= n => f \in Sockets
  BY PoolAssumption DEF Fds, Sockets, Slots
<1>3. Slots \subseteq Fds
  BY PoolAssumption DEF Slots, Fds
<1>4. Idle \in States
  BY Numbers, Zenon DEF Idle, States
<1>5. Types
  BY <1>1, <1>2, <1>3, <1>4, Numbers, Zenon DEF Types
<1>6. OneNumber
  BY <1>1, Numbers, Zenon DEF OneNumber
<1>7. PoolOwn /\ IdentOwn
  BY <1>1, <1>3, Zenon DEF PoolOwn, IdentOwn
<1>8. ThreadOwn /\ ThreadsApart /\ IdleOwn
  BY <1>1, Zenon DEF ThreadOwn, ThreadsApart, IdleOwn, Busy, Idle
<1> QED
  BY <1>1, <1>5, <1>6, <1>7, <1>8, Zenon DEF Inv, NothingStrayClosed

LEMMA InvStep == Inv /\ [Next]_vars => Inv'
<1> SUFFICES ASSUME Inv, [Next]_vars PROVE Inv'
  BY Zenon
<1>1. ASSUME NEW s \in Sockets, BrokerLeaves(s) PROVE Inv'
  <2>1. OneNumber'
    BY <1>1, ClosingStays, NumbersKept, Zenon DEF BrokerLeaves, Inv
  <2> QED
    BY <1>1, <2>1, Zenon DEF BrokerLeaves, Inv, Types, PoolOwn, IdentOwn, ThreadOwn,
              ThreadsApart, IdleOwn, Busy, NothingStrayClosed
<1>2. CASE UNCHANGED vars
  <2>1. OneNumber'
    BY <1>2, ClosingStays, NumbersKept, Zenon DEF vars, Inv
  <2> QED
    BY <1>2, <2>1, Zenon DEF vars, Inv, Types, PoolOwn, IdentOwn, ThreadOwn,
              ThreadsApart, IdleOwn, Busy, NothingStrayClosed
<1> QED
  BY <1>1, <1>2, ConnectStep, DupStep, ShutStep, RecordStep, TakeStep, RecycleStep, UnloadStep,
     OpenStep, CloseStep, Zenon DEF Next

LEMMA InvCorrect == Spec => []Inv
BY InvInit, InvStep, PTL DEF Spec

(* For any number of sockets, descriptors and threads, a connection of the *)
(* pool has one user: connect(), take and recycle never pool a socket the  *)
(* process has, pool it twice, or let two slots claim it (OneUser).        *)
THEOREM OneUserCorrect == Spec => []OneUser
<1>1. Inv => OneUser
  <2> SUFFICES ASSUME Inv PROVE OneUser
    BY Zenon
  <2>1. \A s \in Pooled : file[pool[s]] = s /\ pool[s] \notin mine /\ s \in Sockets
    BY Numbers, Zenon DEF Inv, PoolOwn, Pooled
  <2>2. ASSUME NEW k \in Sockets
        PROVE  Cardinality({f \in Fds \ Closing : file[f] = k}) <= 1
    <3> DEFINE F == {f \in Fds \ Closing : file[f] = k}
    <3>1. CASE F = {}
      BY <3>1, FS_EmptySet
    <3>2. CASE F # {}
      <4>1. PICK f \in F : TRUE
        BY <3>2, Zenon
      <4>2. F = {f}
        BY <4>1, Zenon DEF Inv, OneNumber
      <4>3. Cardinality({f}) = 1
        BY FS_Singleton, Zenon
      <4> QED
        BY <4>2, <4>3
    <3> QED
      BY <3>1, <3>2, Zenon
  <2>3. \A s, r \in Slots : ident[s] # 0 /\ ident[s] = ident[r] => s = r
    BY Zenon DEF Inv, IdentOwn
  <2>4. Closing \cap (mine \cup {pool[s] : s \in Pooled}) = {}
    <3> SUFFICES ASSUME NEW t \in Threads, thread[t].pc = "close"
                 PROVE  /\ thread[t].prepared \notin mine
                        /\ \A s \in Pooled : thread[t].prepared # pool[s]
      BY Zenon DEF Closing
    <3>1. /\ thread[t].prepared \notin mine /\ pool[thread[t].slot] = NoFd
          /\ file[thread[t].prepared] = thread[t].slot
      BY Zenon DEF Inv, ThreadOwn, Busy, Holding
    <3> QED
      BY <2>1, <3>1, Zenon DEF Pooled
  <2> QED
    BY <2>1, <2>2, <2>3, <2>4, Zenon DEF OneUser
<1> QED
  BY <1>1, InvCorrect, PTL

(* Neither a scan nor the destructor ever closes a descriptor that is not  *)
(* the adapter's (NothingStrayClosed).                                     *)
THEOREM StrayCloseFree == Spec => []NothingStrayClosed
<1>1. Inv => NothingStrayClosed
  BY Zenon DEF Inv
<1> QED
  BY <1>1, InvCorrect, PTL
=============================================================================
